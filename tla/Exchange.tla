------------------------------ MODULE Exchange ------------------------------
(***************************************************************************)
(* The trading core of the exchange: MatchingService.place_order and        *)
(* cancel_order, SettlementService.settle_market, MarketService._transition *)
(* and the WalletService calls they make, on one market, by any number of   *)
(* requests at the same time.                                               *)
(*                                                                          *)
(* Every request runs in a database session of its own (db.session.get_db)  *)
(* under READ COMMITTED: it reads the last committed rows, keeps them in    *)
(* its identity map (tx[s].rows, tx[s].wallets, tx[s].market), changes the  *)
(* copies, and writes them at commit.  Two devices guard the copies: row    *)
(* locks (SELECT ... FOR UPDATE, and the lock an UPDATE takes until its     *)
(* transaction ends) and the version column of Order and Market             *)
(* (version_id_col): an UPDATE from a stale copy raises StaleDataError and  *)
(* rolls the whole transaction back.                                        *)
(*                                                                          *)
(* An order's terms never change after its INSERT, so an order IS its       *)
(* request: the record of its owner, selection, side, price, stake and      *)
(* idempotency key.  orders[r] is the mutable part of its row.              *)
(***************************************************************************)
EXTENDS Odds, FiniteSets

CONSTANTS
    Users,            \* owners of wallets
    Sessions,         \* database sessions: how many requests run at once
    Selections,       \* outcomes of the market
    Winners,          \* outcomes settle_market may be called with
    Keys,             \* idempotency keys
    Requests,         \* the order requests users may send, each any number of times
    Grant,            \* initial balance of every wallet
    MaxInserts,       \* bound: how many order rows are ever inserted
    MaxMarketVersion  \* bound: market status changes, settlement apart

OrderStatuses == {"ABSENT", "OPEN", "PARTIALLY_MATCHED", "MATCHED", "CANCELLED"}
OpenStatuses == {"OPEN", "PARTIALLY_MATCHED"}
MarketStatuses == {"OPEN", "SUSPENDED", "CLOSED", "SETTLED"}

RequestRecords ==
    [user : Users, selection : Selections, side : Sides, price : Prices,
     stake : Nat \ {0}, key : Keys]

ASSUME RequestsAssumption == Requests \subseteq RequestRecords /\ Requests # {}
ASSUME SelectionsAssumption == Selections # {} /\ Winners \subseteq Selections
ASSUME NumbersAssumption ==
    Grant \in Nat /\ MaxInserts \in Nat /\ MaxMarketVersion \in Nat

VARIABLES
    market,       \* committed market row: [status, version]
    orders,       \* committed order rows: request -> [status, matched, created, version]
    bets,         \* committed bet rows: two for each fill
    settledBets,  \* the bets whose status is SETTLED
    wallets,      \* committed wallet rows: user -> [balance, reserved]
    ledger,       \* committed ledger entries: [key, user, balance, reserved]
    tx,           \* what each session is doing: its private copies, its row locks
    clock         \* created_at of the next order row

vars == <<market, orders, bets, settledBets, wallets, ledger, tx, clock>>

-----------------------------------------------------------------------------
(* Rows                                                                     *)

MarketRows == [status : MarketStatuses, version : Nat]
OrderRows == [status : OrderStatuses, matched : Int, created : Nat, version : Nat]
NoRow == [status |-> "ABSENT", matched |-> 0, created |-> 0, version |-> 0]

\* Slip: what is already matched is offered again.
RemainingOfStake(r, row) == r.stake

Remaining(r, row) == r.stake - row.matched

\* Slip: the status is not one of OrderStatus.
StatusFilled(r, row) == IF Remaining(r, row) = 0 THEN "FILLED" ELSE "OPEN"

\* Order status after a fill.
StatusOf(r, row) ==
    CASE Remaining(r, row) = 0 -> "MATCHED"
      [] Remaining(r, row) # 0 /\ row.matched > 0 -> "PARTIALLY_MATCHED"
      [] OTHER -> "OPEN"

\* A fill makes one bet for the back order and one for the lay order, both at
\* the maker's price; a taker meets a maker once, so the pair names the fill.
BetRecords == [taker : Requests, maker : Requests, side : Sides, stake : Int]

BetOrder(b) == IF b.side = b.taker.side THEN b.taker ELSE b.maker
BetUser(b) == BetOrder(b).user
BetPrice(b) == b.maker.price
BetLiability(b) == LiabilityMinor(b.side, BetPrice(b), b.stake)

\* Idempotency keys of ledger entries.
HoldKey(r) == <<"hold", r>>
ReleaseKey(r) == <<"release", r>>
ReleaseSettleKey(r) == <<"release-settle", r>>
SettleKeyOfOrder(b) == <<"settle", BetOrder(b)>>  \* slip: one payment for each order
SettleKey(b) == <<"settle", b>>

LedgerKeys ==
    ({"hold", "release", "release-settle"} \X Requests) \cup ({"settle"} \X BetRecords)
LedgerEntries == [key : LedgerKeys, user : Users, balance : Int, reserved : Int]

WalletRows == [balance : Int, reserved : Int]
NoWallet == [balance |-> 0, reserved |-> 0]

\* get_by_idempotency_key: is there a committed order for this user and key?
KeyTaken(r) ==
    \E q \in Requests : q.user = r.user /\ q.key = r.key /\ orders[q].status # "ABSENT"

-----------------------------------------------------------------------------
(* Sessions                                                                 *)

AnyRequest == CHOOSE r \in Requests : TRUE
AnySelection == CHOOSE x \in Selections : TRUE

IdleTx ==
    [pc |-> "idle", order |-> AnyRequest, winner |-> AnySelection, target |-> "OPEN",
     market |-> [status |-> "OPEN", version |-> 0],
     rows |-> [r \in Requests |-> NoRow],      \* order rows read
     dirty |-> {},                             \* order rows to write
     locked |-> {},                            \* order rows locked
     todo |-> {},                              \* order rows still to visit
     todoBets |-> {},                          \* bets still to settle
     newBets |-> {},                           \* bets to insert
     settled |-> {},                           \* bets to mark SETTLED
     wallets |-> [u \in Users |-> NoWallet],   \* wallet rows read, all under lock
     held |-> {},                              \* owners of those wallets
     entries |-> {}]                           \* ledger entries to insert

PlacePCs == {"insert", "reserve", "lock", "match"}
PCs == {"idle"} \cup PlacePCs \cup
       {"cancelFlush", "cancelRelease", "settleBets", "settleOrders", "transition"}

\* Slips: a wallet or an order is read without FOR UPDATE.
WalletUnlocked(s, u) == TRUE
OrderUnlocked(s, r) == TRUE

\* Is the row lock of this wallet (order) free for session s to take?
WalletFree(s, u) == \A z \in Sessions \ {s} : u \notin tx[z].held
OrderFree(s, r) == \A z \in Sessions \ {s} : r \notin tx[z].locked

\* SELECT ... FOR UPDATE returns the last committed row to the session that
\* gets the lock; a session that already holds it goes on with its own copy.
WalletSeen(s, u) == IF u \in tx[s].held THEN tx[s].wallets[u] ELSE wallets[u]

\* get_for_update and then WalletService._post_entry, in the private state t
\* of s: an existing key is returned as it is, otherwise the wallet moves and
\* one entry is appended.
Post(s, t, u, key, balance, reserved) ==
    LET w == WalletSeen(s, u)
        known == \E e \in ledger \cup t.entries : e.key = key
        entry == [key |-> key, user |-> u, balance |-> balance, reserved |-> reserved]
    IN  [t EXCEPT
           !.held = @ \cup {u},
           !.wallets[u] = IF known THEN w
                          ELSE [balance |-> w.balance + balance,
                                reserved |-> w.reserved + reserved],
           !.entries = IF known THEN @ ELSE @ \cup {entry}]

\* Slip: no version_id_col.
AnyCopy(s, r) == TRUE

\* The version check of the ORM's UPDATE: the copy is of the row in the database.
Fresh(s, r) == tx[s].rows[r].version = orders[r].version

\* The session ends: its copies go and its row locks are freed.
End(s) == tx' = [tx EXCEPT ![s] = IdleTx]

\* session.commit() of the private state t.  A version counts commits, where
\* the ORM counts flushes: only whether it moved is ever looked at.
Commit(s, t) ==
    /\ orders' = [r \in Requests |->
                    IF r \in t.dirty THEN [t.rows[r] EXCEPT !.version = @ + 1] ELSE orders[r]]
    /\ bets' = bets \cup t.newBets
    /\ settledBets' = settledBets \cup t.settled
    /\ wallets' = [u \in Users |-> IF u \in t.held THEN t.wallets[u] ELSE wallets[u]]
    /\ ledger' = ledger \cup t.entries
    /\ End(s)

\* Any exception before the commit, a dropped connection, a crash of the
\* server, or Postgres choosing the session as the victim of a deadlock.
Rollback(s) == End(s) /\ UNCHANGED <<market, orders, bets, settledBets, wallets, ledger, clock>>

\* A step that only changes what session s has in hand.
Private(s, t) ==
    /\ tx' = [tx EXCEPT ![s] = t]
    /\ UNCHANGED <<market, orders, bets, settledBets, wallets, ledger>>

Idle(s) == tx[s].pc = "idle"

-----------------------------------------------------------------------------
(* MatchingService.place_order                                              *)

\* The key is known: the existing order is returned.  Or the market is not
\* OPEN: 409.  Neither changes anything.
PlaceAnswer(s, r) ==
    /\ Idle(s)
    /\ KeyTaken(r) \/ market.status # "OPEN"
    /\ UNCHANGED vars

\* Unknown key, and the market, read without a lock, is OPEN.
PlaceBegin(s, r) ==
    /\ Idle(s)
    /\ ~ KeyTaken(r)
    /\ market.status = "OPEN"
    /\ Private(s, [IdleTx EXCEPT !.pc = "insert", !.order = r, !.market = market])
    /\ UNCHANGED clock

\* Slip: no unique constraint on (user, key) while the row is uncommitted.
KeyUnindexed(s, r) == FALSE

\* An uncommitted row with this key holds up the unique index.
KeyInFlight(s, r) ==
    \E z \in Sessions \ {s} : /\ tx[z].pc \in PlacePCs \ {"insert"}
                              /\ tx[z].order.user = r.user
                              /\ tx[z].order.key = r.key

\* orders.add(): the INSERT, still invisible to the others, stamps created_at.
PlaceInsert(s) ==
    LET t == tx[s]
        row == [status |-> "OPEN", matched |-> 0, created |-> clock, version |-> 0]
    IN  /\ t.pc = "insert"
        /\ ~ KeyInFlight(s, t.order)
        /\ ~ KeyTaken(t.order)
        /\ clock < MaxInserts
        /\ Private(s, [t EXCEPT !.pc = "reserve", !.rows[t.order] = row, !.dirty = {t.order}])
        /\ clock' = clock + 1

\* uq_orders_user_idempotency: the order of this key was committed between
\* the lookup and the INSERT; the IntegrityError rolls back.
PlaceDuplicate(s) ==
    /\ tx[s].pc = "insert"
    /\ KeyTaken(tx[s].order)
    /\ Rollback(s)

Exposure(r) == LiabilityMinor(r.side, r.price, r.stake)
Available(w) == w.balance - w.reserved

\* The resting orders list_matchable_opposite selects for r.
Matchable(r) ==
    {m \in Requests : /\ m.selection = r.selection
                      /\ m.side = Opposite(r.side)
                      /\ orders[m].status \in OpenStatuses}

\* WalletService.reserve, and the snapshot of the maker query after it.
PlaceReserve(s) ==
    LET t == tx[s]
        r == t.order
    IN  /\ t.pc = "reserve"
        /\ WalletFree(s, r.user)
        /\ Exposure(r) <= Available(WalletSeen(s, r.user))
        /\ Private(s, [Post(s, t, r.user, HoldKey(r), 0, Exposure(r))
                         EXCEPT !.pc = "lock", !.todo = Matchable(r)])
        /\ UNCHANGED clock

\* Slip: the error is swallowed and the session goes on to commit.
PlaceUnreserved(s) ==
    /\ tx[s].pc = "reserve"
    /\ WalletFree(s, tx[s].order.user)
    /\ Exposure(tx[s].order) > Available(WalletSeen(s, tx[s].order.user))
    /\ Commit(s, tx[s])
    /\ UNCHANGED <<market, clock>>

\* INSUFFICIENT_BALANCE: the INSERT goes with the rollback.
PlaceRefuse(s) ==
    /\ tx[s].pc = "reserve"
    /\ WalletFree(s, tx[s].order.user)
    /\ Exposure(tx[s].order) > Available(WalletSeen(s, tx[s].order.user))
    /\ Rollback(s)

\* Slip: the lowest price first, for takers of either side.
BeforeByPrice(m, n) ==
    m.price < n.price \/ (m.price = n.price /\ orders[m].created < orders[n].created)

\* ORDER BY: the best price for takers of the side opposite to m's first, then
\* the earliest created.
Before(m, n) ==
    \/ m.price # n.price /\ Crosses(Opposite(m.side), n.price, m.price)
    \/ m.price = n.price /\ orders[m].created < orders[n].created

FirstOf(rows, m) == m \in rows /\ \A n \in rows \ {m} : Before(m, n)

\* Slip: no ORDER BY, each query has the rows in an order of its own.
PlaceLockUnordered(s, m) ==
    /\ tx[s].pc = "lock"
    /\ m \in tx[s].todo
    /\ OrderFree(s, m)
    /\ Private(s, [tx[s] EXCEPT !.todo = @ \ {m}, !.locked = @ \cup {m}, !.rows[m] = orders[m]])
    /\ UNCHANGED clock

\* FOR UPDATE locks the rows of the snapshot one by one, in the order of ORDER BY:
\* while it waits for one it holds those before.  A locked row is read again.
PlaceLock(s, m) ==
    /\ tx[s].pc = "lock"
    /\ FirstOf(tx[s].todo, m)
    /\ OrderFree(s, m)
    /\ Private(s, [tx[s] EXCEPT !.todo = @ \ {m}, !.locked = @ \cup {m}, !.rows[m] = orders[m]])
    /\ UNCHANGED clock

\* The rows that no longer match the query are left out; they stay locked.
PlaceMakers(s) ==
    /\ tx[s].pc = "lock"
    /\ tx[s].todo = {}
    /\ Private(s, [tx[s] EXCEPT !.pc = "match", !.todo = tx[s].locked \cap Matchable(tx[s].order)])
    /\ UNCHANGED clock

\* The loop goes on with maker m: it is the first left, the order is not yet
\* filled, and the prices cross.
NextMaker(s, m) ==
    LET t == tx[s]
    IN  /\ FirstOf(t.todo, m)
        /\ Remaining(t.order, t.rows[t.order]) > 0
        /\ Crosses(t.order.side, t.order.price, m.price)

\* One turn of the matching loop.
PlaceMatch(s, m) ==
    LET t == tx[s]
        r == t.order
        open == Remaining(r, t.rows[r])
        offered == Remaining(m, t.rows[m])
        size == IF open <= offered THEN open ELSE offered
        filled == [t.rows[m] EXCEPT !.matched = @ + size]
        maker == [filled EXCEPT !.status =
                    IF Remaining(m, filled) = 0 THEN "MATCHED" ELSE "PARTIALLY_MATCHED"]
    IN  /\ t.pc = "match"
        /\ NextMaker(s, m)
        /\ Private(s, [t EXCEPT
                !.rows = [t.rows EXCEPT ![r].matched = @ + size, ![m] = maker],
                !.dirty = @ \cup {m},
                !.todo = @ \ {m},
                !.newBets = @ \cup {[taker |-> r, maker |-> m, side |-> x, stake |-> size]
                                      : x \in Sides}])
        /\ UNCHANGED clock

\* The loop is over: the final status, and the commit.
PlaceCommit(s) ==
    LET t == tx[s]
        r == t.order
    IN  /\ t.pc = "match"
        /\ ~ \E m \in t.todo : NextMaker(s, m)
        /\ \A m \in t.dirty : Fresh(s, m)
        /\ Commit(s, [t EXCEPT !.rows[r].status = StatusOf(r, t.rows[r])])
        /\ UNCHANGED <<market, clock>>

-----------------------------------------------------------------------------
(* MatchingService.cancel_order                                             *)

\* The owner's order is read without a lock and may be cancelled.
CancelBegin(s, r) ==
    /\ Idle(s)
    /\ orders[r].status \in OpenStatuses
    /\ Private(s, [IdleTx EXCEPT !.pc = "cancelFlush", !.order = r, !.rows[r] = orders[r]])
    /\ UNCHANGED clock

\* The UPDATE of the status, sent before the wallet query.
CancelFlush(s) ==
    LET t == tx[s]
        r == t.order
    IN  /\ t.pc = "cancelFlush"
        /\ OrderFree(s, r)
        /\ Fresh(s, r)
        /\ Private(s, [t EXCEPT !.pc = "cancelRelease", !.locked = {r}, !.dirty = {r},
                                !.rows[r].status = "CANCELLED"])
        /\ UNCHANGED clock

\* Slip: the exposure of the whole stake is released.
CancelReleaseAll(s) ==
    LET r == tx[s].order
    IN  /\ tx[s].pc = "cancelRelease"
        /\ WalletFree(s, r.user)
        /\ Commit(s, Post(s, tx[s], r.user, ReleaseKey(r), 0, - Exposure(r)))
        /\ UNCHANGED <<market, clock>>

\* What the copy had unmatched is released, and the commit.
CancelRelease(s) ==
    LET t == tx[s]
        r == t.order
        amount == LiabilityMinor(r.side, r.price, Remaining(r, t.rows[r]))
    IN  /\ t.pc = "cancelRelease"
        /\ WalletFree(s, r.user)
        /\ Commit(s, Post(s, t, r.user, ReleaseKey(r), 0, - amount))
        /\ UNCHANGED <<market, clock>>

-----------------------------------------------------------------------------
(* SettlementService.settle_market                                          *)

\* The market is read without a lock and is not SETTLED; its MATCHED bets are
\* listed, without locks either.
SettleBegin(s, winner) ==
    /\ Idle(s)
    /\ market.status # "SETTLED"
    /\ Private(s, [IdleTx EXCEPT !.pc = "settleBets", !.winner = winner, !.market = market,
                                 !.todoBets = bets \ settledBets])
    /\ UNCHANGED clock

\* Slip: the bet is paid and stays MATCHED.
SettleBetUnmarked(s, b) ==
    LET t == tx[s]
        d == SettleBetDeltas(b.side, BetPrice(b), b.stake, BetOrder(b).selection = t.winner)
    IN  /\ t.pc = "settleBets"
        /\ b \in t.todoBets
        /\ WalletFree(s, BetUser(b))
        /\ Private(s, [Post(s, t, BetUser(b), SettleKey(b), d.balance, d.reserved)
                         EXCEPT !.todoBets = @ \ {b}])
        /\ UNCHANGED clock

\* One bet: post_settlement, then the bet is SETTLED.
SettleBet(s, b) ==
    LET t == tx[s]
        won == BetOrder(b).selection = t.winner
        d == SettleBetDeltas(b.side, BetPrice(b), b.stake, won)
    IN  /\ t.pc = "settleBets"
        /\ b \in t.todoBets
        /\ WalletFree(s, BetUser(b))
        /\ Private(s, [Post(s, t, BetUser(b), SettleKey(b), d.balance, d.reserved)
                         EXCEPT !.todoBets = @ \ {b}, !.settled = @ \cup {b}])
        /\ UNCHANGED clock

\* Slip: partially matched orders are overlooked.
SettleListUnmatched(s) ==
    LET open == {r \in Requests : orders[r].status = "OPEN"}
    IN  /\ tx[s].pc = "settleBets"
        /\ tx[s].todoBets = {}
        /\ Private(s, [tx[s] EXCEPT !.pc = "settleOrders", !.todo = open,
                !.rows = [r \in Requests |-> IF r \in open THEN orders[r] ELSE NoRow]])
        /\ UNCHANGED clock

\* Slip: bets are listed again until there are none left, as if what the session has
\* paid were committed.
SettleRelist(s) ==
    /\ tx[s].pc = "settleBets"
    /\ tx[s].todoBets = {}
    /\ Private(s, [tx[s] EXCEPT !.todoBets = bets \ settledBets])
    /\ UNCHANGED clock

\* list_open_by_market, without locks.
SettleListOrders(s) ==
    LET open == {r \in Requests : orders[r].status \in OpenStatuses}
    IN  /\ tx[s].pc = "settleBets"
        /\ tx[s].todoBets = {}
        /\ Private(s, [tx[s] EXCEPT !.pc = "settleOrders", !.todo = open,
                !.rows = [r \in Requests |-> IF r \in open THEN orders[r] ELSE NoRow]])
        /\ UNCHANGED clock

\* Orders changed in memory whose UPDATE has not been sent.
Unsent(t) == t.dirty \ t.locked

\* One resting order: its remainder is released if there is any, and it is
\* cancelled in memory.  The wallet query sends the UPDATEs that are due first.
SettleOrder(s, r) ==
    LET t == tx[s]
        release == ReleaseAmount(r.side, r.price, Remaining(r, t.rows[r]))
        paid == IF release > 0
                THEN Post(s, t, r.user, ReleaseSettleKey(r), 0, - release)
                ELSE t
    IN  /\ t.pc = "settleOrders"
        /\ r \in t.todo
        /\ release > 0 => Unsent(t) = {} /\ WalletFree(s, r.user)
        /\ Private(s, [paid EXCEPT !.todo = @ \ {r}, !.dirty = @ \cup {r},
                                   !.rows[r].status = "CANCELLED"])
        /\ UNCHANGED clock

\* The UPDATE of a cancelled order takes its row lock, while the session holds wallets.
SettleFlush(s, r) ==
    /\ tx[s].pc = "settleOrders"
    /\ r \in Unsent(tx[s])
    /\ OrderFree(s, r)
    /\ Fresh(s, r)
    /\ Private(s, [tx[s] EXCEPT !.locked = @ \cup {r}])
    /\ UNCHANGED clock

\* Slip: the market's UPDATE is not checked against the version read.
SettleUnversioned(s) ==
    /\ tx[s].pc = "settleOrders"
    /\ tx[s].todo = {} /\ Unsent(tx[s]) = {}
    /\ market' = [status |-> "SETTLED", version |-> market.version + 1]
    /\ Commit(s, tx[s])
    /\ UNCHANGED clock

\* The market becomes SETTLED unless someone changed it since SettleBegin.
SettleCommit(s) ==
    LET t == tx[s]
    IN  /\ t.pc = "settleOrders"
        /\ t.todo = {} /\ Unsent(t) = {}
        /\ t.market.version = market.version
        /\ market' = [status |-> "SETTLED", version |-> market.version + 1]
        /\ Commit(s, t)
        /\ UNCHANGED clock

-----------------------------------------------------------------------------
(* MarketService._transition                                                *)

\* _ALLOWED_TRANSITIONS; SETTLED is not the target of any admin operation.
AllowedTransitions ==
    [OPEN |-> {"SUSPENDED", "CLOSED"}, SUSPENDED |-> {"OPEN", "CLOSED"},
     CLOSED |-> {"SETTLED"}, SETTLED |-> {}]

\* suspend_market, reopen_market and close_market: read, check.
TransitionBegin(s, target) ==
    /\ Idle(s)
    /\ target \in {"SUSPENDED", "OPEN", "CLOSED"} \cap AllowedTransitions[market.status]
    /\ market.version < MaxMarketVersion
    /\ Private(s, [IdleTx EXCEPT !.pc = "transition", !.target = target, !.market = market])
    /\ UNCHANGED clock

\* The commit with its version check.
TransitionCommit(s) ==
    LET t == tx[s]
    IN  /\ t.pc = "transition"
        /\ t.market.version = market.version
        /\ market' = [status |-> t.target, version |-> market.version + 1]
        /\ End(s)
        /\ UNCHANGED <<orders, bets, settledBets, wallets, ledger, clock>>

-----------------------------------------------------------------------------

\* StaleDataError: some UPDATE of the session finds another version.
Stale(s) ==
    \/ tx[s].pc = "cancelFlush" /\ OrderFree(s, tx[s].order) /\ ~ Fresh(s, tx[s].order)
    \/ /\ tx[s].pc = "settleOrders"
       /\ \E r \in Unsent(tx[s]) : OrderFree(s, r) /\ ~ Fresh(s, r)
    \/ /\ \/ tx[s].pc = "transition"
          \/ tx[s].pc = "settleOrders" /\ tx[s].todo = {}
       /\ tx[s].market.version # market.version

StaleAbort(s) == Stale(s) /\ Rollback(s)

\* The session dies in the middle: crash, disconnect, deadlock victim.
Die(s) == ~ Idle(s) /\ Rollback(s)

PlaceNext(s) ==
    \/ \E r \in Requests : PlaceAnswer(s, r) \/ PlaceBegin(s, r)
    \/ PlaceInsert(s) \/ PlaceDuplicate(s)
    \/ PlaceReserve(s) \/ PlaceRefuse(s)
    \/ \E m \in Requests : PlaceLock(s, m)
    \/ PlaceMakers(s)
    \/ \E m \in Requests : PlaceMatch(s, m)
    \/ PlaceCommit(s)

CancelNext(s) ==
    \/ \E r \in Requests : CancelBegin(s, r)
    \/ CancelFlush(s) \/ CancelRelease(s)

SettleNext(s) ==
    \/ \E winner \in Winners : SettleBegin(s, winner)
    \/ \E b \in tx[s].todoBets : SettleBet(s, b)
    \/ SettleListOrders(s)
    \/ \E r \in Requests : SettleOrder(s, r) \/ SettleFlush(s, r)
    \/ SettleCommit(s)

TransitionNext(s) ==
    \/ \E target \in MarketStatuses : TransitionBegin(s, target)
    \/ TransitionCommit(s)

Init ==
    /\ market = [status |-> "OPEN", version |-> 0]
    /\ orders = [r \in Requests |-> NoRow]
    /\ bets = {}
    /\ settledBets = {}
    /\ wallets = [u \in Users |-> [balance |-> Grant, reserved |-> 0]]
    /\ ledger = {}
    /\ tx = [s \in Sessions |-> IdleTx]
    /\ clock = 0

Next ==
    \E s \in Sessions :
        PlaceNext(s) \/ CancelNext(s) \/ SettleNext(s) \/ TransitionNext(s)
            \/ StaleAbort(s) \/ Die(s)

Spec == Init /\ [][Next]_vars

-----------------------------------------------------------------------------
(* Properties                                                               *)

TxRecords ==
    [pc : PCs, order : Requests, winner : Selections, target : MarketStatuses,
     market : MarketRows, rows : [Requests -> OrderRows], dirty : SUBSET Requests,
     locked : SUBSET Requests, todo : SUBSET Requests, todoBets : SUBSET BetRecords,
     newBets : SUBSET BetRecords, settled : SUBSET BetRecords,
     wallets : [Users -> WalletRows], held : SUBSET Users, entries : SUBSET LedgerEntries]

\* Every variable has its shape.
TypeOK ==
    /\ market \in MarketRows
    /\ orders \in [Requests -> OrderRows]
    /\ bets \subseteq BetRecords
    /\ settledBets \subseteq BetRecords
    /\ wallets \in [Users -> WalletRows]
    /\ ledger \subseteq LedgerEntries
    /\ tx \in [Sessions -> TxRecords]
    /\ clock \in Nat

\* The status of a committed order tells how much of it is matched, and no
\* order is ever matched beyond its stake, however many takers, cancels and
\* settlements work on it at once (list_matchable_opposite: "two concurrent
\* takers can never both consume the same liquidity").
Coherent(r, row) ==
    /\ row.matched >= 0 /\ row.matched <= r.stake
    /\ row.status = "MATCHED" <=> row.matched = r.stake
    /\ row.status \in {"ABSENT", "OPEN"} => row.matched = 0
    /\ row.status = "PARTIALLY_MATCHED" => row.matched > 0
RowsCoherent == \A r \in Requests : Coherent(r, orders[r])

\* An order that is MATCHED or CANCELLED is never written again: no taker
\* fills it, no cancel or settlement reopens, cancels or releases it anew.
TerminalOrders ==
    [][\A r \in Requests :
         orders[r].status \in {"MATCHED", "CANCELLED"} => orders'[r] = orders[r]]_vars

\* A SETTLED market is never written again, whatever transition or second
\* settlement was under way when it settled.
SettledIsFinal == [][market.status = "SETTLED" => market' = market]_vars

\* What cancel_order or settle_market released for an order is the exposure of
\* exactly the part of it that was never matched, released once, and only if
\* the order is CANCELLED (matching_service: "only the unmatched remainder's
\* share of that exposure is released").
ReleaseKeys(r) == {ReleaseKey(r), ReleaseSettleKey(r)}
ReleasesExact(entries, r, row) ==
    \A e \in entries : e.key \in ReleaseKeys(r) =>
        /\ row.status = "CANCELLED"
        /\ e.reserved = - LiabilityMinor(r.side, r.price, Remaining(r, row))
        /\ \A f \in entries : f.key \in ReleaseKeys(r) => f = e
ReleaseExact == \A r \in Requests : ReleasesExact(ledger, r, orders[r])

\* An order and its exposure hold are created or rejected together
\* (WalletService docstring), and the hold is the order's full exposure.
HeldIffPlaced ==
    \A r \in Requests :
        orders[r].status # "ABSENT" <=>
            \E e \in ledger : e.key = HoldKey(r) /\ e.user = r.user /\ e.reserved = Exposure(r)

\* A bet is SETTLED exactly when its settlement entry is in the ledger, and no
\* ledger key is ever used twice: two settlements at once never pay a bet twice.
PaidIffSettled ==
    /\ \A b \in bets : b \in settledBets <=> \E e \in ledger : e.key = SettleKey(b)
    /\ \A e, f \in ledger : e.key = f.key => e = f

\* All the bets of the market were paid for one and the same winner, even when
\* settle_market was called for different winners at the same time.
SettledConsistently ==
    \E x \in Selections : \A e \in ledger : \A b \in bets :
        e.key = SettleKey(b) =>
            LET d == SettleBetDeltas(b.side, BetPrice(b), b.stake, BetOrder(b).selection = x)
            IN  e.balance = d.balance /\ e.reserved = d.reserved

\* A user never has two orders under one idempotency key.
OneOrderPerKey ==
    \A q, r \in Requests :
        /\ q.user = r.user /\ q.key = r.key
        /\ orders[q].status # "ABSENT" /\ orders[r].status # "ABSENT"
        => q = r

\* Two resting orders of a selection do not cross ("Two orders cross whenever
\* lay.price >= back.price", backend/README.md).
UncrossedBook ==
    \A r, q \in Requests :
        /\ orders[r].status \in OpenStatuses /\ orders[q].status \in OpenStatuses
        /\ r.selection = q.selection /\ r.side = "BACK" /\ q.side = "LAY"
        => q.price < r.price

\* Once the market is SETTLED nothing rests on it and no bet is left MATCHED
\* (SettlementService docstring).
SettlementResolvesAll ==
    market.status = "SETTLED" =>
        /\ \A r \in Requests : orders[r].status \notin OpenStatuses
        /\ bets \subseteq settledBets

\* Price-time priority: when a fill is committed, no order that would have
\* come before its maker is left with anything to offer.
BestPriceFirst ==
    [][\A b \in bets' \ bets : \A m \in Requests :
         /\ m.selection = b.maker.selection /\ m.side = b.maker.side /\ m # b.maker
         /\ orders[m].status \in OpenStatuses
         /\ \/ Crosses(b.taker.side, b.maker.price, m.price) /\ m.price # b.maker.price
            \/ m.price = b.maker.price /\ orders[m].created < orders[b.maker].created
         => orders'[m].status = "MATCHED"]_vars
=============================================================================
