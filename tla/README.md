# A verification of the exchange: trading core, simulator, start-up and live client

The repository is a betting exchange with simulated money: a FastAPI backend over
PostgreSQL (SQLAlchemy, asyncio), in which users place back and lay orders on
the outcomes of a match, a matching engine pairs them, a settlement engine pays
them when the match is over, and a simulator plays matches and quotes prices
through two bots; and a React client.  This directory holds TLA+ modules of it,
the TLC configurations that check them on small instances and the proofs TLAPS
checks for instances of any size.

Paths below are relative to `src/backend/app/` unless they start with `src/`.

## The system: components, state, operations

| Component | State | Operations | What makes it correct |
|---|---|---|---|
| Matching engine (`services/matching_service.py`, `repositories/order_repository.py`) | rows of `orders`, `order_matches`, `bets` | `place_order`, `cancel_order`, reads of the book | no order is filled beyond its stake; a final order stays final; nobody trades outside the limit; best price first, then oldest; crossing orders meet; one order for each user and key |
| Wallet engine (`services/wallet_service.py`) | rows of `wallets`, `ledger_entries` | `create_wallet`, `reserve`, `release`, `post_settlement`, each through `_post_entry` | the wallet is the sum of its ledger; an entry is posted once for a key; the reservation covers what can still be lost |
| Settlement engine (`services/settlement_service.py`) | `bets.status`, `orders.status`, `markets.status` | `settle_market` | each bet paid once, all for one winner; nothing left open on a SETTLED market; money is neither made nor lost |
| Market status machine (`services/market_service.py`) | `markets.status`, `markets.version` | `create_market`, `suspend_market`, `reopen_market`, `close_market` | only the allowed transitions; concurrent writers do not overwrite each other; SETTLED is final |
| Match simulator (`services/simulation_service.py`) | `match_states`, `events.status`, `simulator_events`, the bots' orders | `start_match`, `pause_match`, `resume_match`, `finish_match`, `tick`, quoting, hand-over to settlement | a match that is over is settled; markets suspended at a wicket are reopened; scores only grow; bots' orders have their holds |
| Simulation runner (`services/simulation_runner.py`, `main.py`, `api/v1/simulator.py`) | `_running_tasks`, asyncio tasks | start, stop, loop, automatic next match, resume at boot | one loop for a match; a LIVE match is eventually ticked |
| Event fan-out (`events/publisher.py`, `websocket/`) | subscribers, sequence numbers | `publish`, `broadcast`, `subscribe`, `unsubscribe` | a topic's sequence has no gap for a subscriber that stays; a dead connection stops no other |
| Authentication (`services/auth_service.py`, `security/`) | `users`, tokens | `register`, `authenticate`, `refresh`, `get_current_user` | a user has a wallet; one account for an email |
| Catalog and start (`services/catalog_service.py`, `db/seed.py`, `main.py`) | sports, competitions, events, market types | creates, lists, the seed, the lifespan | unique codes; a boot completes what a crash left |
| Web client (`src/frontend/src`) | token store, sockets, query cache, bet slip | requests with one token refresh and retry; reconnecting sockets; refetches | nobody is signed out who could stay; one socket for a topic; what is shown is what is committed |

How they interact: a request handler opens one database session, calls one
service method, and that method calls the services below it in the same
transaction (matching and settlement call the wallet engine).  The simulator
calls the matching, market and settlement services with a session of its own.
Every service publishes an event after its commit; publishing goes to the
in-process fan-out and to the clients' sockets.  The runner's loops and the
request handlers run in one process; the database is the only shared state
they lock.

What is hard in it:

* *Interleaving.*  Requests run at the same time under READ COMMITTED.  Some
  rows are read with `FOR UPDATE` (wallets, the makers of a taker), others
  without (the market, the order of a cancel, the bets and orders of a
  settlement).  Orders and markets have a version column; a stale write raises
  `StaleDataError`.
* *Partial failure.*  Anything before the commit may fail; the transaction must
  take all of it back.
* *Retries.*  Clients send a request again; settlement may be started again.
* *Rounding.*  A lay's liability is `stake * (price - 1)` rounded half to even, once
  for the order, again for each fill, again for each release.
* *Several commits.*  A tick commits the ball, then suspends or settles market by
  market, each in a commit of its own, and gives its row lock back at the first.
  The match state has no version; pause, resume and finish read it without the lock.
* *Sessions that live on.*  The bots' quotes of a tick share one session; an exception is swallowed
  and the session not rolled back, and an order that is still on its list is not read again.
* *Check, then insert.*  Accounts, codes and matches are looked up and then inserted, in a seed, a lifespan and
  requests that run at once and may be cut anywhere.
* *Delivery.*  Broadcasts overlap while connections come, go and die; a message may be lost with its
  connection; the answer to a refetch may be older than the message after it.
* *Tasks.*  A loop is cancelled at an await, after its registry entry is gone, and its
  finally clause runs later; the registry is memory and dies with the server.

## The modules

* `Odds` -- the money arithmetic: `Winnings`, `LiabilityMinor`, `ReleaseAmount`,
  `SettleBetDeltas`, `Crosses`.  A price is a whole number of hundredths.
* `Exchange` -- the trading core: `place_order`, `cancel_order`, `settle_market` and
  the admin transitions of one market, by any number of sessions at once, with the
  wallet operations inside them.
* `ExchangeAccounts` -- what its money adds up to, as sums over ledger, bets, orders.
* `TradingContract` -- the abstract specification of the trading core: placing, cancelling and settling as
  one atomic step each, on order book, bets and wallets.
* `ExchangeRefinement` -- the refinement mapping from `Exchange` to it, what a placement waits for, and the order of a handler's statements.
* `ExchangeInvariant` -- the inductive invariant of copies, locks and versions, `Inv`, on which all others rest.
* `MCExchange` -- the instances of it for TLC.
* `AmountProofs` -- lemmas that all proofs about money use: sums over finite sets, and what rounding does to the amounts of `Odds`.
* `ExchangeProofs`, `ExchangeContractProofs` -- the theorems about `Exchange` and their proofs:
  rows and ledger, sums of entries and of fills; then the refinement, the conservation of money, that placements
  do not deadlock, the book with one session, and reservations.  A module of proofs begins with the inductive
  invariants no run keeps: here `LedgerInv` (holds and payments), `WalletInv` (wallets and entries), `FillInv` (orders and bets), `PayoutInv`
  (what a settlement adds up to), `WalkInv` (the makers a placement locks), `PurposeInv` and `SerialInv` (the queue and the book, for one session), with `ReserveInv` (balances, reservations
  and what is owed) where reservations begin; `SimInv`, `SoloInv`, `SessionInv`, `LiveInv`, `FreshInv`, `BotsInv`, `CoverInv` and `BootInv` in the modules of the other components.
* `Simulator` -- one match: match state, event status, markets and ball log, under
  `start_match`, `pause_match`, `resume_match`, `finish_match` and `tick`, called by any
  number of sessions at once.
* `Runner` -- composes `Simulator` with its callers: the asyncio tasks, the registry
  that is to keep them to one, the admin endpoints, cancellation and restart.
* `SimulatorProofs` -- the theorems about these two.
* `Bots` -- the simulator's market making.  It EXTENDS `TradingContract`: users and settlements take the
  contract's steps, the requote its own, in one session (`MCBots`: its instance; `BotsProofs`).
* `Boot` -- seed, lifespan, registration, catalogue codes, starts of demo matches, as programs of
  statements that interleave and are cut (`MCBoot`: its instance; `BootProofs`).
* `LiveUpdates` -- publisher, connection manager, the browser's sockets and one cached query, for one topic
  (`MCLive`: its instance; `LiveUpdatesProofs`).
* `Session` -- a tab's tokens, its requests and their shared refresh, with the server's checks (`SessionProofs`).

How they compose: `Exchange` implements `TradingContract` (checked on an instance, proved for all), and `Bots` builds on the contract instead of on
the sessions of `Exchange`; `Runner` instantiates nothing and EXTENDS `Simulator`, whose every step it schedules.
`Boot`, `LiveUpdates` and `Session` meet the others only through rows and messages that they abstract.

### Exchange: state

| Variable | Code |
|---|---|
| `market` | the committed row of `markets`: status, version |
| `orders[r]` | the committed row of `orders` for request `r`: status, `matched_minor`, `created_at`, version; `ABSENT` before its INSERT commits |
| `bets`, `settledBets` | the committed rows of `bets`; those with status SETTLED |
| `wallets[u]`, `ledger` | the committed rows of `wallets` and `ledger_entries` |
| `tx[s]` | session `s`: its place in the handler (`pc`), its identity map (`rows`, `wallets`, `market`), what it will write (`dirty`, `newBets`, `settled`, `entries`), its row locks (`locked`, `held`), the loops' remaining work (`todo`, `todoBets`) |
| `clock` | the `created_at` of the next order |

The terms of an order never change after its INSERT, so an order is identified with its
request (owner, selection, side, price, stake, key).  Requests with equal terms
and different keys are different orders; one request may be sent any number of times.

### Exchange: actions

| Action | Code |
|---|---|
| `PlaceAnswer`, `PlaceBegin` | `place_order` up to the checks: key lookup, market read, 409 or go on |
| `PlaceInsert`, `PlaceDuplicate` | `orders.add`: the flushed INSERT; the unique constraint, which waits while another transaction holds the key |
| `PlaceReserve`, `PlaceRefuse` | `WalletService.reserve`: wallet under lock, `INSUFFICIENT_BALANCE`, hold posted; and the snapshot of the maker query |
| `PlaceLock`, `PlaceMakers` | `list_matchable_opposite`: takes the makers' locks row by row, in the order of its ORDER BY (`Before`), holding those it has while it waits for the next; looks at them again and leaves out those that no longer qualify |
| `PlaceMatch`, `PlaceCommit` | one turn of the matching loop; final status and commit |
| `CancelBegin`, `CancelFlush`, `CancelRelease` | `cancel_order`: read, UPDATE (sent by the autoflush before the wallet query), release and commit |
| `SettleBegin`, `SettleBet`, `SettleListOrders`, `SettleOrder`, `SettleFlush`, `SettleCommit` | `settle_market`: market and bets read, one bet, open orders read; one order released and cancelled in memory, its UPDATE at the next flush, when the session has wallets; the market's UPDATE and commit |
| `TransitionBegin`, `TransitionCommit` | `_transition`: read and check, UPDATE with version check and commit |
| `StaleAbort` | `StaleDataError` |
| `Die` | crash, lost connection, victim of a deadlock: at any point of any request |

Where a step ends: at every statement that can wait or that reads what another
session may change.  Computation between two such statements belongs to the step
before or after it.  A step that takes a lock also makes the read that the lock
protects, since nobody can change the row in between.

Abstractions, and why they lose nothing the properties speak about:

* The version of a row counts commits, the ORM's counts UPDATEs.  Only equality
  with an earlier version is ever looked at, and the versions inside a
  transaction are seen by nobody else.
* The version of a wallet is left out: a wallet is only ever written by a session
  that has held its row lock since it read it.
* The row lock a market's UPDATE takes, in the flush of the commit, is left out: the version check
  stands for it, and without the lock others may only do more.
* Wallet and order ids, names, timestamps of bets, `balance_after_minor` and
  `reserved_after_minor` are left out, as are event publications (after the commit).
* Selections and markets that do not exist, and orders of other users, are refused
  with 404 before anything is changed; the model does not send such requests.
* `order_matches` rows are the pair (taker, maker) in the two bets of a fill; a
  taker meets a maker at most once.
* SQLite, which the tests use, has no row locks; the model is of PostgreSQL.

### Simulator: state and actions

| Variable | Code |
|---|---|
| `match` | the committed row of `match_states`: status, target, score, `markets_suspended`, winner; `NONE` before there is a row |
| `event` | the committed `events.status` |
| `markets[m]` | the committed row of `markets`: status, version, and the team it was settled for |
| `feed` | what the committed `BALL` entries of `simulator_events` add up to |
| `tx[s]` | session `s`: its place in the call (`pc`), its copy of the match state, whether it holds the row lock, the markets it listed (`rows`) and has still to write (`todo`) |

| Action | Code |
|---|---|
| `StartEvent`, `StartRead`, `StartWrite`, `StartDuplicate` | `start_match`: event read, state read or returned, row inserted or set LIVE and commit, unique index |
| `PauseRead`, `PauseWrite`, `ResumeRead`, `ResumeWrite` | the same for pause and resume |
| `FinishRead`, `FinishWrite` | `finish_match` up to its commit |
| `TickBegin` | `tick`: the row FOR UPDATE, and the three ways to go on |
| `TickBall` | the ball, its log entry, `_check_completion`, the flag, commit |
| `Refresh` | the row is read again after that commit |
| `EventComplete`, `ListMarkets`, `SettleMarket`, `SettleStale`, `SettleDone` | `_finalize_match` |
| `ListMarkets`, `Transition`, `TransitionConflict`, `TransitionsLogged`, `TickClear` | `_suspend_all_markets`, `_reopen_all_markets`, and the flag after it |
| `AdminTransition` | `MarketService` for an admin |
| `Fail`, `Return` | an exception at any await; the caller gets its answer |

Where a step ends: at a commit, or at a read another session's commit may precede.

* The ball and its commit are one step: the tick holds the row lock from its read on.
  The UPDATEs of the others wait for that lock (`LockFree`) and then write the columns they
  changed, not the whole row.
* `settle_market` is one step here, and the market's version check with it; what happens inside
  is `Exchange`.  An error in it is `Fail`.
* An admin's transition is one step: its version check makes the read and the write
  fit together or fail.
* Quoting writes none of these tables.  It may fail or take long, which the states between
  a session's last commit and its `Return` stand for.
* Every market has the two teams as selections; what `_finalize_match` does with
  others (it skips them) is left out.
* The code's numbers (10 wickets, 60 balls, targets of 90 to 170, runs 0, 1, 2, 4, 6)
  are constants, so that TLC can play short matches; the theorems hold for all.

### Runner: state and actions

`loop[t]` is what a task is doing, `registry` the entry of `_running_tasks` for the event.
`LoopTick`, `LoopStep`, `LoopAgain`, `LoopEnds` are `_run_loop` (sleep over, tick under way, match goes on,
match over and finally); `StartTask` and `StopTask` are `start_simulation_task` and
`stop_simulation_task`; `RequestStart` ... `RequestReturn` are the endpoints of
`api/v1/simulator.py`; `Restart` is the end of the process and `lifespan`.

A task that is cancelled during a tick may still have its statement in flight carried out
(`LoopInFlight`), then unwinds (`LoopUnwind`): session rolled back, registry entry
popped, whoever's it is.  A task that is cancelled asleep unwinds later too, although its
finally clause runs at the next turn of the event loop: the model allows more orders than
asyncio does.  Of the next demo match only its start is modelled, as the end of the loop; it is an event
of its own.

### TradingContract and its refinement

`book` maps to the status and matched amount of `orders`, `settled` to the market's status; `bets`, `settledBets`,
`wallets` are the same.  A commit of `place_order` is `Place`: the contract leaves open which compatible orders a
placement meets and how much of each (an order that is being placed is not seen by another), and demands everything
else: unused key, cover, limits, both bets, statuses and reservation at once.  `cancel_order`'s commit is `Cancel`,
`settle_market`'s is `Settle`, which may leave out what it did not list.  Everything before a commit, and every
rollback, is a stutter.

`HeldUpBy` is about the locks: what the statement a placement is at waits for (an index entry, a wallet, the next maker's row) and
another one has.  `PlacementsDoNotDeadlock` says that placements never wait for each other in a circle.  Of all handlers that cannot be
said: `cancel_order` takes a row and then a wallet, `settle_market` wallets in the order of its bets and then rows, so with one of them there are
circles; PostgreSQL ends a session of the circle, which `Exchange` has as `Die`.  `StepsOnward` is the other half of progress: `Stage` is the
order of a handler's statements, and no step goes back in it.

### Bots: state and actions

| Variable | Code |
|---|---|
| the contract's | committed rows |
| `session` | the tick's database session: place in `_requote_selection`, the rows it has listed (`rows`), flushed INSERTs of refused calls (`pending`), whether a failed flush has made it unusable (`dead`) |
| `holds` | orders that have an `EXPOSURE_HOLD` entry |
| `round` | requotes begun |

`Begin` is `_requote_all_markets` at some score; `List`, `Withdraw`, `Listed` the loop over the resting quotes of a bot;
`Quote`, `QuoteRefused` one `place_order`, successful or with `INSUFFICIENT_BALANCE`.  `WithdrawStale` is the `StaleDataError` of a row that has changed since it was listed: it is
swallowed, but the failed flush has expired every row, so that the next order of the list raises outside the try
(`simulation_service.py:355`) and ends the tick, and after the last one the session is dead.  `WithdrawRaises`, `QuoteRaises` are the
swallowed exceptions of refused statements and dead sessions; `ListRaises` is the query outside the try, which ends the tick;
`EndTick` its return or its death.  A wallet is read anew by each call: nothing holds the one a call has read, and the identity map holds
its rows weakly.  `FairPriceBatting`, `ComplementaryPrice` and `QuotePrice` are the code's formulas, rounded to
hundredths.  One offset of three is quoted and the random stake is a constant; requotes do not overlap (a
forced tick may overlap a loop's after its commit of the ball; the row lock is gone by then).

### Boot: state and actions

`db` holds committed rows (table, key), `tx[p]` what program `p` has flushed, `todo[p]` its remaining statements: a program
is a sequence that `LookUp` and `Start` extend when they branch.  `Seed`, `Register`, `CreateSport`,
`CreateMarketType`, `StartRequest` are the code's functions as such sequences; a `commit` stands wherever the code
commits, also inside `place_order` and `_ensure_user`.  `InsertRow` waits for an uncommitted row of the same key, `InsertRaises` is the
`IntegrityError`.  `Boot`, `Lifespan`, `Serve` are the start command of `render.yaml` and `lifespan`; `MatchOver`
and `Finish` end matches; `Fault` and `Crash` cut a program and all of them.  What the properties excuse is recorded as narrowly as that: `cut`
is set by a seed that dies with a part of the catalogue committed and a part not, `lost` takes the LIVE match whose start dies when no loop and no other
program drives it.  A row of `sports` stands
for its competition too, one of `markets` for event, market and selections; the bots' accounts in a
tick are those of its start.

### LiveUpdates: state and actions

| Variable | Code |
|---|---|
| `committed`, `unpublished` | commits, and requests between commit and publish |
| `sequence`, `subscribers` | `_sequences[topic]`, `_subscribers[topic]` |
| `casts` | calls of `broadcast` under way: number, connections to do, dead ones |
| `sockets[c]` | a WebSocket: `readyState`, whether the connection is up, whether the entry's handlers get its messages, messages on their way, numbers sent |
| `entry`, `orphans` | the client's `ManagedSocket` with the timers it knows and has forgotten; timers of deleted entries |
| `view` | the cached query: the commit it shows, the fetch under way |

`Publish`, `Send`, `SendEnd` are publisher and `broadcast`; `Accept`, `Disconnect` are `_serve`; `Subscribe`, `Unsubscribe`,
`Close`, `Reconnect`, `Haunt` are `websocket.ts`; `Message`, `Answer`, `Show` the refetch that a
handler asks for.  Backoff times, heartbeats and message bodies are left out: every handler in the client that
changes what is shown refetches.

### Session: state and actions

`access`, `refresh` are the store, `valid`, `renewable` the tokens that have not expired, `request[r]` a call of
`apiRequest`, `inFlight` and `renewing` the promise `refreshInFlight`.  `Send`, `Serve`, `Return`,
`Unauthorized`, `AwaitRefresh` are `apiRequest` with `get_current_user`; `Renew`, `Refreshed`, `RefreshFails` are
`refreshAccessToken` with `AuthService.refresh`; `Login`, `Logout` the user's.  A refresh token is its user: it is never replaced but by a login.

`Slip` definitions (`AnyCopy`, `WalletUnlocked`, ...) are deliberate mistakes: each, put in place
of the definition it follows, makes a property of a run fail.  They show
which line of the code a property rests on.

## What TLC checks

Deadlock is checked except in `quotes`, `boot` and `session` (`CHECK_DEADLOCK FALSE`): there the bounds on
requotes, requests and tokens are reached with nothing left to do, which is no state the program is stuck in.

| Run | Instance | What it shows |
|---|---|---|
| `race` | `Exchange`: 3 sessions; lays of 1 and 2 at 2.00 and 3.00 and two backs of 2 that cross both | `Inv`, `RowsCoherent`, `ReleaseExact`, `BetsAccountForMatched`, `TerminalOrders` while takers and cancels work on the same rows; `PlacementsDoNotDeadlock`, with two takers that lock the same two makers, from snapshots of one or both |
| `settle` | `Exchange`: 2 sessions; two winners, one admin transition; at 2.50 a lay of 2, backs of 1 and 2 of one user, one of them under a key that is used twice, one beyond what is left of the grant | `PaidIffSettled`, `SettledConsistently`, `MoneyConserved`, `WalletIsLedgerSum`, `CoveredButForRounding`, `OneOrderPerKey`, `HeldIffPlaced`, and the refinement `ImplementsContract`, while settlements, orders, retries and transitions overlap; `StepsOnward`, with the statements of all four handlers |
| `serial` | `Exchange`: 1 session; four lays and backs at 2.00 and 3.00 out of five | `UncrossedBook`, `SettlementResolvesAll`, `BestPriceFirst`, `ClickTrades`: they hold when requests come one at a time |
| `innings` | `Simulator`: 1 session, 2 markets, 2 balls, 2 wickets, targets 1 and 2, one ball after the end; two disturbances | `SuspendedWillReopen`, `WinnerByScore`, `SettledUnlessFault` (liveness) |
| `ticks` | `Simulator`: 2 sessions, 1 market, 3 balls, 2 wickets, target 2; two disturbances | `FeedReplays`, `BowledOnlyWhileLive`, `SettledMarketIsFinal` |
| `runner` | `Runner`: 2 tasks, 1 request at a time, 2 balls; one disturbance | `RegisteredRuns`, `DrivenMatchEnds` (liveness) |
| `quotes` | `Bots`: 2 requotes, 2 selections, 2 scores whose prices cross each other's quotes, a grant that not every quote fits in, one user | `BotsNeverTrade`, `QuotesReplaced`, `CoveredIfHeld` |
| `live` | `LiveUpdates`: 3 sockets, 2 components, 2 commits after the first, 2 lost connections or restarts | `NoGap`, `FreshUnlessMissed`, `SharesOneSocket`, `NeverSilent` |
| `boot` | `Boot`: 2 sports with 3 events, 2 orders on a market, 2 requests or tasks at once, 3 requests in all, 2 crashes or exceptions | `AccountsWhole`, `SeededUnlessCut`, `LiveIsDriven` |
| `session` | `Session`: 2 users, 2 requests at once, 3 access tokens | `SessionEndsOnlyOnce`, `EveryRequestEnds` (liveness) |
| `leak` | `Exchange`: 1 session | `ReservationsResolved` fails |
| `stranded` | `Exchange`: 2 sessions | `SettlementResolvesAll` fails |

Bounds.  `MaxInserts` bounds the order rows ever inserted, `MaxMarketVersion` the admin
transitions; nothing else of `Exchange` is bounded.  Three sessions are a maker's cancel and
two takers, the largest group that can meet on one row without being two
independent pairs.  Two makers are what two takers can lock in different orders, and either may be the older.  Stakes of 1 to 3 give full fills, partial fills, an order
filled by two takers and a taker filled by two makers.  Odds of 2.00 and 3.00 are
never rounded; at the 2.50 of `settle` each unit of a lay is.  Sessions are interchangeable in `race` and `settle` (`SessionSymmetry`): no property tells them
apart.  `race` has no settlement and `settle` no third session: a settlement meets
other requests in pairs (version checks and row locks are between two sessions); that placements do not deadlock with any number of takers and makers is proved.

`MaxExtraBalls` and `MaxDisturbances` bound the simulator: balls after the innings is over (only a
restarted match has any), and an admin's market transitions, failures and restarts, all together.  Without
`MaxExtraBalls` a match could be restarted for ever; one failure is enough to cut any
operation at any of its commits, and the second disturbance is a market that changes under it.  Two balls and two wickets give every end of an innings
(target reached, all out, overs used up), and a suspension with a ball after it.  Two
markets in `innings` are a loop that stops half way; two sessions in `ticks` are the pairs that
meet on one row.  Two tasks in `runner` are a cancelled loop and its successor;
a wicket ends the innings there, so suspensions are left to the other two runs.

`MaxRounds` bounds the requotes: the second withdraws what the first has placed, at a price that moved across it.
The grant of 5 is spent by two quotes and a user's fill, so that calls are refused, and the user's take makes listed rows
stale.  `MaxDrops` of 2 are a lost connection and a second one
(or a restart) while the first one's reconnect is pending; three sockets are an old one, its successor and the second
that a pending timer opens.  `MaxFaults` of 2 are a seed that is cut and a boot that is cut again; `MaxRequests` of 3 on two sessions make two
requests race while a third finds what they left.  `MaxTokens` of 3 are a login, a refresh and a login or refresh after it.

Fairness.  `Exchange`, `Bots`, `LiveUpdates` and `Boot` assume none: their properties are safety, `PlacementsDoNotDeadlock` and `StepsOnward` included,
which say that placements do not stop each other, and that no request can go on taking steps for ever.  In `Simulator` a call
that is under way goes on and returns (`WF` of `Continue` and `Return` for each session): asyncio
runs every task that is ready, and the database answers or fails.  Nobody has to call anything.  In `Runner` also
the sleep of a loop ends (`LoopTick`), and a cancelled task unwinds.  No fairness is assumed of
failures, admins, requests or restarts, so a loop's match ends because its own ticks bowl it to the
end: weak fairness is enough since nobody can disable a task's next step for ever
without ending what the property speaks of.  In `Session` a fetch is answered or fails (`WF` of `Refreshed` or
`RefreshFails`, of `Serve` or `Return`), as the browser promises of `fetch`, and its continuation runs.

### Where the code does not do what it says

Two runs end in a counterexample:

1. *Reserved for ever* (`leak`).  A lay reserves its liability at its own limit; its
   bet's liability is at the maker's lower odds, and settlement releases the
   latter.  The difference is never released.
2. *Stranded on a settled market* (`stranded`).  `place_order` may commit after a settlement it
   did not see.

The others are not kept as runs; each can be seen by a small change of one:

3. *Under-reserved*: `settle` with `OverReserveIsSafe`.  The fills' rounded liabilities may sum to more than the order's rounded
   reservation: a lay of 2 at 2.50 reserves 3, its two bets of 1 owe 2 each, and their settlement leaves a reservation of -1, although
   `matching_service.py` says that "here we simply over-reserve, which is safe".
4. *Crossed book*: `serial` with two sessions.  Two crossing orders placed together both rest (`UncrossedBook`).
5. *Started again after the end*: `innings` with `SettledForWinner`.  `start_match` makes a COMPLETED match LIVE again
   with its old score; the next ball may end it with another winner than its
   markets were settled for.
6. *The end of a paused match*: `runner` with two wickets, no disturbance and `NextOnlyAfterEnd`.  Starting a PAUSED match registers a loop; its first tick answers
   that the match is no longer LIVE, which the loop takes for its end, and the next demo match starts.
7. *Orders without a hold*: `quotes`, `CoveredIfHeld` without its premise.  A bot's refused quote stays flushed in
   the tick's session and is committed by the next call, although `wallet_service.py` says that "an order and its exposure hold
   are created or rejected atomically".
8. *Half a catalogue*: `boot`, `SeededUnlessCut` without `cut`.  The first `place_order` of the seed commits a part of the
   catalogue; if the seed dies after it, no later boot completes it, although `seed.py` says that it "always ends up in the same rich,
   browsable state".
9. *A live match nobody drives*: `boot`, `LiveIsDriven` without `lost`.  A start that dies after its commit (two starts
   make the same bot) leaves the match LIVE without a loop until the next boot.
10. *Two sockets for a topic*: `live`, `SharesOneSocket` without `doubled`.  A component that comes while a reconnect is
   pending opens a socket, and the timer opens another.
11. *Stale after a reconnect*: `live`, `FreshUnlessMissed` without `missed`.  `src/docs/architecture.md` describes a resync over REST on
   reconnect and on a gap; the client does neither.
12. *Wrong winner*: `innings` with two sessions.  `finish_match` reads the match without a lock and writes the winner by the score it has
   read; a ball that reaches the target in between is on the board, and the other team has won (`WinnerByScore`).
13. *Suspended for good*: `innings` with two sessions.  A forced tick between a wicket's commit and its suspensions clears the flag before
   the markets are suspended; no later tick reopens them (`SuspendedWillReopen`).
14. *Signed in again*: `session`, without `overtaken`.  A refresh under way at a logout sets its access token afterwards.

With two sessions the code also does without two promises no run states: `place_order` reads the market's status without a lock, though
`src/docs/architecture.md` says it is "checked and locked", and the second of two copies of a request in flight
fails on the unique constraint instead of being replayed (no second order is made).

## What TLAPS proves

About `Exchange`, for every set of users, sessions, selections and requests, every grant and
every bound (`RequestsAssumption`, `SelectionsAssumption`, `NumbersAssumption`; where wallets are added up, `UsersAssumption`:
the set of users is finite; where waiting placements are followed, `SessionsAssumption`: the set of sessions is, as the pool of connections is bounded):

| Theorem | Statement |
|---|---|
| `TypeCorrect` | `Spec => []TypeOK` |
| `Invariant` | `Spec => []Inv` |
| `OrdersCoherent` | `Spec => []RowsCoherent` |
| `ReleasedOnce` | `Spec => []ReleaseExact` |
| `OrdersFinal` | `Spec => TerminalOrders` |
| `SettledFinal` | `Spec => SettledIsFinal` |
| `OneOrder` | `Spec => []OneOrderPerKey` |
| `LedgerInvariant` | `Spec => []LedgerInv` |
| `HeldTogether` | `Spec => []HeldIffPlaced` |
| `PaidOnce` | `Spec => []PaidIffSettled` |
| `OneWinner` | `Spec => []SettledConsistently` |
| `FillIsZeroSum` | the two deltas of a fill cancel, whatever the odds and the rounding |
| `WalletsAddUp` | `Spec => []WalletIsLedgerSum` |
| `BetsAddUp` | `Spec => []BetsAccountForMatched` |
| `MoneyStays` | `Spec => []MoneyConserved` |
| `Implemented` | `Spec => ImplementsContract` |
| `Uncrossed` | `Alone => (Spec => []UncrossedBook)` |
| `SettledResolved` | `Alone => (Spec => []SettlementResolvesAll)` |
| `BestFirst` | `Alone => (Spec => BestPriceFirst)` |
| `PlacersGoOn` | `Spec => []PlacementsDoNotDeadlock` |
| `RequestsEnd` | `Spec => StepsOnward` |
| `ReservationsCover` | `Spec => []CoveredButForRounding` |
| `OverReserved` | `WholeOdds => (Spec => []OverReserveIsSafe)` |
| `Clicked` | `Alone => (Spec => ClickTrades)` |

`Alone` says that there is one session: each request is answered before the next is sent, though it may fail anywhere.  It is no
restriction the code makes but the condition under which it keeps these promises (2 and 4 of the list above break them with two sessions).
`WholeOdds` says that no price has a fraction, so that no liability is rounded; it is no restriction the code makes either (3 of the list
above breaks the promise at 2.50).  `CoveredButForRounding` needs neither: at any odds, and with any number of sessions, a wallet's balance covers its
reservation, and the reservation all that the user may still lose but for one minor unit for each bet the user ever laid. 

About `Simulator` and `Runner`, for every set of markets, sessions, tasks and requests, every
length of an innings and every bound (`SimulatorNumbers`, `CallersAssumption`):

| Theorem | Statement |
|---|---|
| `SimInvariant` | `SimSpec => []SimInv` |
| `SimTypeCorrect` | `SimSpec => []SimTypeOK` |
| `FeedReplayed` | `SimSpec => []FeedReplays` |
| `BowledLive` | `SimSpec => BowledOnlyWhileLive` |
| `SettledMarketKept` | `SimSpec => SettledMarketIsFinal` |
| `WonByScore` | `Solo => (SimSpec => []WinnerByScore)` |
| `SuspendedReopens` | `Solo => (SimSpec => []SuspendedWillReopen)` |
| `RunnerTypeCorrect` | `Spec => []TypeOK` |
| `RegisteredTasksRun` | `Spec => []RegisteredRuns` |
| `RunnerFeedReplayed` | `Spec => []FeedReplays` |

About `Session` (every set of users and requests; `SessionAssumption`) and `LiveUpdates` (every set of sockets and
components; `LiveAssumption`):

| Theorem | Statement |
|---|---|
| `SessionInvariant` | `Spec => []SessionInv` |
| `SessionEnds` | `Spec => []SessionEndsOnlyOnce` |
| `LiveInvariant` | `Spec => []LiveInv` |
| `GapFree` | `Spec => []NoGap` |
| `OneSocket` | `Spec => []SharesOneSocket` |
| `NeverLeftSilent` | `Spec => []NeverSilent` |
| `ScreenFresh` | `Spec => []FreshUnlessMissed` |

About `Bots`, for every set of users, requests and scores, every offset and stake and any number of requotes (`BotsAssumption`:
the two bots and the two selections differ, as `_ensure_bot` and `start_next_demo_match` make them; at most ten wickets remain; `QuotesAssumption`:
bots have wallets, requests are orders that `OrderCreate` takes, and whatever a bot may quote is among them):

| Theorem | Statement |
|---|---|
| `NoBotTrades` | `BotsSpec => []BotsNeverTrade` |
| `OldQuotesGone` | `BotsSpec => []QuotesReplaced` |
| `HeldIsCovered` | `BotsSpec => []CoveredIfHeld` |

About `Boot`, for every set of sessions and names, any sequence of fixtures, depth of the book and number of requests, crashes and exceptions
(`BootAssumption`: there is a first fixture, cricket's, with an event, as `DEMO_FIXTURES` has; no request is the boot):

| Theorem | Statement |
|---|---|
| `FlushedHolds` | `Spec => [](FlushedInv /\ PhaseInv)` |
| `AccountsStayWhole` | `Spec => []AccountsWhole` |
| `SeedHolds` | `Spec => []SeedInv` |
| `CatalogueWhole` | `Spec => []SeededUnlessCut` |
| `BootHolds` | `Spec => []BootInv` |
| `LiveDriven` | `Spec => []LiveIsDriven` |

The argument for `Exchange`.  `RowsCoherent` alone is not inductive: a commit writes private
copies, and nothing in it says that a copy still agrees with its row.  `Inv` adds
what a session may rely on: a copy that was read without a lock is not ahead of
its row, and at the row's version it is the row (`CopiesOK`); a locked row is open and
at the version of its copy (`LocksOK`); what a session will write it has locked, or it is
its own new order, whose key no committed order has (`WritesOK`); no two sessions
lock the same row or insert under the same key (`Apart`); pending releases are for rows the
session has cancelled (`ReleasesOK`); a market copy at the current version is the
row and not SETTLED (`MarketCopyOK`).  Three lemmas carry the proof: `PrivateInv` (a
step that changes nothing in the tables), `CommitInv` (what a commit must
satisfy) with `SessionKept` (what it leaves of the other sessions), `EndInv`.  Each
action then shows that its new private state is in order, or that its commit
meets the conditions of `CommitInv`.

The ledger needs a second invariant on top of `Inv`.  `HeldIffPlaced` speaks of committed rows and entries, but
a commit writes both from private state; `LedgerInv` says of each session (`PostingsOK`) that the
hold it is going to write is the full exposure of its own new order, that it is there once
`reserve` has returned, and that its payments are for the bets it will mark SETTLED and for its own winner.  Of the
tables (`LedgerOK`) it says that orders and holds come in pairs, and that nothing is settled before the
market is.  `_post_entry` returns an existing entry as it is: that no hold can be there before
the order follows from `WritesOK` (the order's key is not taken), and that no payment can be there unless
the market is already SETTLED from `LedgerOK`; in that case the session's market copy is old
(`MarketCopyOK`) and it cannot commit.  So only one settlement ever commits, for one winner.

What the money adds up to.  The sums of `ExchangeAccounts` are folds, and induction over a set is out of the prover's reach; `ExchangeProofs` proves
what is needed of them another way: from the fold's defining equation, that taking one element out takes its term out, by a smallest
counterexample in the well-founded order of strict subsets (`WellFoundedInduction` states that order for finite sets without an operator parameter);
then that sums of disjoint sets add, that equal terms have equal sums, and that a bijection keeps them.
`WalletInv` says of each session that its copy of a locked wallet is the row with the entries it has posted, so a commit writes wallet and ledger
in step.  `FillInv` says of a placement that what its rows are ahead of the tables is the sum of the bets it will write, twin by twin, each maker
met at most once.  `PayoutInv` says of a settlement what its entries come to for each user: the payments of the bets it has taken and the
rests of the orders it has cancelled; it takes fills whole, so by `FillIsZeroSum` its balance entries come to zero, and the ledger's too.

The refinement.  With these three a commit of `Exchange` is one step of `TradingContract`: `place_order`'s is `Place` with the makers it met and
the amounts in its bets (`FillInv`: both bets, statuses and matched amounts agree; `PayoutInv`: the reservation is the exposure, and covered),
`cancel_order`'s is `Cancel`, `settle_market`'s is `Settle` with the bets and orders on its lists, paid for a
winner that may be asked for (`PurposeInv`).  Every other step leaves what the mapping shows.

The book with one session.  `SerialInv` adds the queue (no two orders with one `created_at`, a new order is the last) and, of the placement under way,
that the makers it has locked are all that may trade with it, that those it has met come before those it has not, and that each of them is filled up
unless the taker is: this is where `list_matchable_opposite`'s ORDER BY, the loop's early end and `Crosses` meet.  Then what rests after
the commit cannot cross, since either the taker is full or everything it crosses is.  Of a settlement it says that each bet and each
open order is on its lists or behind it.  What a click gets follows from the contract's `Place` and the book after it: the taker and the
makers it has met trade the same sum; if something of the taker is left nothing displayed that it crosses can be, or the book would be crossed;
and what is displayed, level by level, adds up to what those makers have open.

What is reserved.  `ReserveInv` holds along the steps of `TradingContract`, so `Implemented` carries it over to `Exchange`, with any number of
sessions.  Each bet laid has a unit of its own for rounding (`Margin`; none at whole odds), and what is reserved covers the rest (`Covered`).  The step that
needs an argument is a placement's: an order and each of its fills are rounded by at most half a unit (`LiabilityNear`), and a bet less its unit is
therefore half a unit below what it risks before rounding, which makes up for the rounding of the rest; what remains is compared as whole numbers.
It holds for the makers, which lose of their rests what they get in bets, and for the new order, which is filled at its own price or a better one
(`RateCrossed`) and whose exposure is covered by what is available.  A cancel frees the rest it takes
away, a settlement the bets and rests it resolves.  `Solvent` stays because a payment takes no more
from the balance than it frees, rounded or not.  `MarginSmall` then gives both theorems.

Who waits for whom.  `WalkInv` says of each placement that what it has yet to lock comes, in the order of the query, behind all it has locked, and that the
rows of its snapshot keep their `created_at` (an order once committed is never queued anew).  So a placement that is held up at a row waits for one that is to
lock a later row of the same side (`BeforeOrders`, `NextRow`), and a finite set of them has one whose row comes last.  What holds up an INSERT or a reservation has inserted, or reserved, itself,
and is at a later statement.  `RequestsEnd` compares a
`RequestsEnd` compares a
session before and after each of its steps, action by action.

TLC checked each of these invariants on the instances of `race`, `settle` and `serial` before it was proved, and those of the other modules on theirs.

The argument for `Simulator`.  `FeedReplays` alone is not inductive: `TickBall` writes the score of
a copy.  `SimInv` adds that the row lock has one holder, that a tick about to bowl holds it and
its copy is the row (so the match is LIVE), and that a listed market at its row's version is the row and was listed for a
status the phase writes (so it is not SETTLED).  Three lemmas carry the proof: `ReadStep`,
`MatchStep` (no other session is about to bowl, since it would hold the lock), `MarketStep` (the
version has moved past every other session's list).  `Runner` takes over `SimInv`: each of its steps is a step
of the engine (`EngineStep`) except a restart and the end of a cancelled task, which only drop sessions;
`RegisteredRuns` needs nothing but that a task leaves "asleep" and "ticking" only with its registry entry.

With one session (`Solo`; 12 and 13 of the list above are what two do) `SoloInv` adds that `finish_match` still holds the row it has read, and, as long as
no admin has written a market, that a suspended market has the flag up, that the list to reopen is all that is suspended, that nothing is
suspended when the flag is about to go, and that a tick suspends only under the flag.  So a tick may die between any two of its commits.

The argument for `Session`.  That nobody is turned away without an excuse is not inductive: the excuse must have come
before.  `SessionInv` adds that a request which is sent again with a useless token, or which has nothing to renew from, is excused
already (`ExcusedInTime`), that an answered refresh has a token, and that no refresh is under way once
the session is over, unless it was overtaken.

The argument for `LiveUpdates`.  `NoGap` speaks of quiet moments only.  `LiveInv` says what holds in
between: a connection has been sent as many numbers as the sequence has beyond those the broadcasts under way still owe
it (`Counted`), and broadcasts have numbers of their own (`Broadcasts`); then a send moves one number from owed to
sent.  For the client: an entry with handlers has a socket that is not closed, or a timer (`Listening`), and until a component has come while a timer
was pending, the entry's socket is the only one and excludes a timer (`Single`).  What the tab shows is current only in the end; `FreshInv` says why it will be:
as long as nothing was missed, either the handlers have something coming (`WillBeTold`: a commit to publish, a message to be sent
or read), or what is shown, or was answered, is the last commit, or the question has not reached the server yet (`UpToDate`).

The argument for `Bots`.  That the bots never trade with each other needs both halves of a requote.  `QuotesOK` says that
whatever a bot has in the book, or flushed and not committed, is a quote of some requote so far, and if of the one under way, then at its score's prices; two of
those never cross, since the fair price is a whole number of hundredths and one offset lies on each side of it (`QuotesApart`).  `Withdrawn` says how far
a session that lives has cleared the rest: the listed quotes cover what one bot has of the selection, then one bot's are gone, then
both, before anything is quoted.  A session that has died quotes nothing more; a refused quote that a later call commits is one of the requote's own.
Users and settlements only take from what rests.

That a bot with all its holds is covered (`CoverInv`) is about the session's copies as much as about the tables.  `Covered` says what a reservation has to
hold, order by order and bet by bet: the rest of each order, the risk of each bet until it is paid, less one unit for a lay.  A trade keeps it because
an order reserves at its own price what its fills and its rest need at the makers' (`FreshDues`), and a maker's rest gives up what its bet takes (`SplitDues`);
both are sums over the fills, which `TradedCovered` adds up.  A withdrawal releases what the session's copies say: the release is the rest's, since a stale copy of the order
fails the call.  An INSERT that is committed late takes its bot out of the premise for good (`PendingOK`: it is not in the book before; its hold never comes).  `RoundOK` says that a
requote places no quote twice, since it never comes back to a bot and a selection it has passed (`AdvancePasses`); without that a refused quote could be placed
again, with a hold.  `RowsOK` is why an order on the list is open in the session's copy.  TLC checked `CoverInv` on the instance of `quotes`.

The argument for `Boot`.  Nothing in what is committed says why the next commit keeps accounts whole, or why the next boot finds the catalogue: the
invariant is about programs, what a session has flushed together with what it has still to do.  `FlushedInv` says that in the rest of every
program an INSERT is committed before the program may return early (`CommitsFrom`), that a user's INSERT is followed by its wallet's, and that
the accounts a session has flushed lack at most the wallet that comes next (`Owed`); flushed keys are apart, since an INSERT waits.
So a commit finds user and wallet together, and an exception or a crash takes both.  `PhaseInv` says
that requests and loops run only after the seed, and that the seed itself starts no demo match.  `SeedInv` says of the seed under way that what
is missing of the catalogue is in its rest (`Brings`), that the look at the sports comes before the first of them, and that cricket
is the first: a sport found by that look is there from a seed that came to its end, or `cut` records the one that did not.  It also gives `start_next_demo_match` its
competition and market type.  `DriveInv` says that a program which makes a match LIVE, or has flushed it, ends by registering its loop, but for the
seed, whose match the lifespan resumes.  That the code's own programs (`Seed`, `Register`, `StartRequest`, ...) are of this form, for any number of fixtures, events and orders,
is proved from the places of concatenated sequences; `FlattenSeq` is a recursive function, and what is needed of it follows from the beginnings of the
flattened sequence, the least one that fails being impossible.  TLC checked the four invariants on the instance of `boot`.

Every safety invariant and every action property of the passing runs is proved.  The liveness properties (`SettledUnlessFault`, `DrivenMatchEnds`,
`EveryRequestEnds`) are only model-checked: liveness under fairness is out of the prover's reach.

## Plan

Built: the trading core with its contract (`Odds`, `Exchange`, `ExchangeAccounts`, `ExchangeInvariant`, `TradingContract`, `ExchangeRefinement`),
the simulator and its runner, the bots, the start of the server, live updates and the tab's session.  What is left, in order:

1. Two requotes of one match at once, and the tick's own look at the bots' accounts.
2. Two servers during a rolling deploy: both run the loops of the LIVE matches.

## Not modelled

Page rendering and layout of the client, configuration,
logging, migrations and error formats (no behaviour over time); catalog lists
and the order book's display (reads of committed rows), except what `ClickTrades` says of the book; `create_competition`, `create_event` and the admin's `create_market` (one
insert without a unique key); the bet slip (one request for each click); pauses in `Boot` (they are in `Runner`); the refusal of a WebSocket with an invalid
token; PostgreSQL, SQLAlchemy and the
`decimal` library themselves, of which the modules state what the code relies on.
