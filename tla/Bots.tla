--------------------------------- MODULE Bots ---------------------------------
(***************************************************************************)
(* SimulationEngine's market making: after a ball, _requote_all_markets     *)
(* withdraws the quotes of the two bots and places new ones around the fair *)
(* price of the score.  The orders are placed and cancelled by the trading  *)
(* core; what TradingContract promises of it is what everybody else does    *)
(* here (ExchangeRefinement shows that the core keeps the promise).         *)
(*                                                                          *)
(* A requote is many calls of the core in ONE database session that is never *)
(* rolled back: an exception is swallowed and the next call goes on where   *)
(* the last one stopped.  The orders to be cancelled are listed once and not *)
(* read again (the session's identity map, expire_on_commit=False); writing *)
(* one that has changed since raises StaleDataError, and then every further *)
(* statement raises, and so does a look at any other row the session holds. *)
(* Wallets are held by no variable between the calls, so each call reads    *)
(* them anew.                                                               *)
(***************************************************************************)
EXTENDS TradingContract

CONSTANTS
    BotA, BotB,        \* bot_a backs, bot_b lays
    Batting, Bowling,  \* the selections
    Offset,            \* one of _QUOTE_OFFSETS, in hundredths
    Stake,             \* the random stake
    Scores,            \* the scores requoted for: [needed, balls, wickets] that remain
    MaxRounds          \* bound: requotes

Bots == {BotA, BotB}

ASSUME BotsAssumption ==
    /\ BotA # BotB /\ Batting # Bowling
    /\ Scores \subseteq [needed : Nat, balls : Nat, wickets : 0 .. 10]
    /\ Offset \in 1 .. 3 /\ Stake \in Nat \ {0}

VARIABLES
    holds,       \* orders with an EXPOSURE_HOLD entry in the ledger
    session,     \* the session of the tick that is requoting, and how far it has got
    round        \* requotes begun; the idempotency key of its quotes

botVars == <<holds, session, round>>
allVars == <<vars, botVars>>

-----------------------------------------------------------------------------
(* Prices, in hundredths                                                    *)

Clamp(low, x, high) == IF x < low THEN low ELSE IF x > high THEN high ELSE x

\* x / y to the nearest integer.
Nearest(x, y) == (2 * x + y) \div (2 * y)

\* _fair_price_batting: 1.5 + 0.35 * required rate / wickets remaining.
FairPriceBatting(score) ==
    CASE score.needed = 0 -> 105
      [] score.needed # 0 /\ (score.wickets = 0 \/ score.balls = 0) -> 1500
      [] OTHER -> Clamp(105, 150 + Nearest(210 * score.needed, score.balls * score.wickets), 1500)

\* _complementary_price: the odds of the rest of the probability, 50.00 at most.
ComplementaryPrice(price) ==
    IF 50 * (price - Hundredths) <= price THEN 5000
    ELSE Nearest(Hundredths * price, price - Hundredths)

FairPrice(selection, score) ==
    IF selection = Batting THEN FairPriceBatting(score)
    ELSE ComplementaryPrice(FairPriceBatting(score))

\* Bot A offers a back above the fair price, bot B a lay below it (at no score as
\* low as _MIN_QUOTE_PRICE: fair prices are 1.05 or more).
QuotePrice(bot, fair) == IF bot = BotA THEN fair + Offset ELSE fair - Offset

QuoteOf(n, selection, bot, score) ==
    [user |-> bot, selection |-> selection, side |-> IF bot = BotA THEN "BACK" ELSE "LAY",
     price |-> QuotePrice(bot, FairPrice(selection, score)), stake |-> Stake, key |-> n]

\* Bots have wallets, quotes are requests, and requests are orders the schema takes.
ASSUME QuotesAssumption ==
    /\ Bots \subseteq Users /\ Grant \in Nat /\ MaxRounds \in Nat
    /\ \A r \in Requests : r.user \in Users /\ r.side \in Sides /\ r.price \in Prices /\ r.stake \in Nat \ {0}
    /\ \A n \in 1 .. MaxRounds, selection \in {Batting, Bowling}, bot \in Bots, score \in Scores :
         QuoteOf(n, selection, bot, score) \in Requests

-----------------------------------------------------------------------------
(* The session of a requote                                                 *)

OpenRow == [status |-> "OPEN", matched |-> 0]
IdleSession ==
    [phase |-> "idle", score |-> CHOOSE x \in Scores : TRUE,
     selection |-> Batting, bot |-> BotA,
     todo |-> {},                             \* orders still to cancel
     rows |-> [r \in Requests |-> Absent],     \* the rows listed, as they were read
     pending |-> {},                          \* flushed INSERTs of refused quotes
     dead |-> FALSE]                          \* its transaction has failed, and nobody rolls back

UnderWay == session.phase # "idle"

\* A step that only changes what the session has in hand.
Private(t) == session' = t /\ UNCHANGED <<vars, holds, round>>

\* Slip: the exception handler rolls back, and the requote goes on.
GoOn(t) == [t EXCEPT !.pending = {}]

\* A failed statement or flush undoes what the session had not committed.
Kill(t) == [t EXCEPT !.dead = TRUE, !.pending = {}]

\* A commit carries the INSERTs that earlier, refused calls have left behind.
Inserted(t) == [r \in Requests |-> IF r \in t.pending THEN OpenRow ELSE book[r]]

\* Where the requote goes when a bot's quotes are withdrawn, or one is placed:
\* withdraw A's, withdraw B's, quote A, quote B, then the other selection.
Advance(t) ==
    CASE t.bot = BotA -> [t EXCEPT !.bot = BotB, !.phase = IF @ = "cancel" THEN "list" ELSE @]
      [] t.bot = BotB /\ t.phase = "cancel" -> [t EXCEPT !.bot = BotA, !.phase = "quote"]
      [] t.bot = BotB /\ t.phase = "quote" /\ t.selection = Batting ->
            [t EXCEPT !.bot = BotA, !.phase = "list", !.selection = Bowling]
      [] OTHER -> [t EXCEPT !.phase = "end"]

\* The tick has committed its ball and finds the market OPEN.
Begin(score) ==
    /\ ~ UnderWay /\ round < MaxRounds /\ ~ settled
    /\ session' = [IdleSession EXCEPT !.phase = "list", !.score = score]
    /\ round' = round + 1
    /\ UNCHANGED <<vars, holds>>

\* Slip: partially matched quotes are taken for done.
RestingUnmatched(b) == {r \in Requests : r.user = b /\ book[r].status = "OPEN"}

RestingOf(b) == {r \in Requests : r.user = b /\ Resting(r)}

\* list_open_by_market_and_user: the rows of the bot, of either selection.
List ==
    LET t == session
        found == RestingOf(t.bot)
    IN  /\ t.phase = "list" /\ ~ t.dead
        /\ Private([t EXCEPT
                !.phase = "cancel", !.todo = {r \in found : r.selection = t.selection},
                !.rows = [r \in Requests |-> IF r \in found THEN book[r] ELSE Absent]])

\* The query is not guarded: in a dead session it ends the tick.
ListRaises ==
    /\ session.phase = "list" /\ session.dead
    /\ Private(IdleSession)

Listed ==
    /\ session.phase = "cancel" /\ session.todo = {}
    /\ Private(Advance(session))

\* Slip: what is released is the exposure of the whole stake.
ReleasedWhole(r, row) == Exposure(r)

Released(r, row) == LiabilityMinor(r.side, r.price, r.stake - row.matched)

\* cancel_order on a row that is still as it was listed.
Withdraw(r) ==
    LET t == session
        row == [t.rows[r] EXCEPT !.status = "CANCELLED"]
    IN  /\ t.phase = "cancel" /\ r \in t.todo /\ ~ t.dead
        /\ t.rows[r] = book[r]
        /\ book' = [Inserted(t) EXCEPT ![r] = row]
        /\ wallets' = [wallets EXCEPT ![r.user].reserved = @ - Released(r, t.rows[r])]
        /\ session' = [t EXCEPT !.todo = @ \ {r}, !.pending = {}]
        /\ UNCHANGED <<bets, settledBets, settled, holds, round>>

\* The row has changed since: StaleDataError is swallowed, but the failed flush has
\* expired every row, and the next order of the listing, of either selection, is
\* looked at outside the try: that ends the tick.
WithdrawStale(r) ==
    LET t == session
    IN  /\ t.phase = "cancel" /\ r \in t.todo /\ ~ t.dead
        /\ t.rows[r] # book[r]
        /\ \/ t.todo = {r} /\ Private([Kill(t) EXCEPT !.todo = {}])
           \/ (\E m \in Requests \ {r} : t.rows[m] # Absent) /\ Private(IdleSession)

\* The database refuses a statement (a deadlock, a lost connection), or has refused
\* one already: swallowed.
WithdrawRaises(r) ==
    LET t == session
    IN  /\ t.phase = "cancel" /\ r \in t.todo
        /\ Private([Kill(t) EXCEPT !.todo = @ \ {r}])

\* What the bot is about to quote, and whether it has the money.
Due(t) == QuoteOf(round, t.selection, t.bot, t.score)
Affordable(t) ==
    LET w == wallets[t.bot] IN Exposure(Due(t)) <= w.balance - w.reserved

\* r is matched with any of the orders it crosses, as in Trade, and committed.
TradeQuote(t, r, size) ==
    LET makers == {m \in DOMAIN size : size[m] > 0}
        total == Traded(size, makers)
        before == Inserted(t)
    IN  /\ total <= r.stake
        /\ \A m \in makers : size[m] <= Unmatched(m)
        /\ book' = [x \in Requests |->
                      CASE x = r -> After(r, total)
                        [] x \in makers -> After(x, size[x])
                        [] OTHER -> before[x]]
        /\ bets' = bets \cup {[taker |-> r, maker |-> m, side |-> x, stake |-> size[m]]
                                : m \in makers, x \in Sides}
        /\ session' = Advance([t EXCEPT !.pending = {}])

\* place_order succeeds.  That the market was settled meanwhile goes unseen, its row
\* is an old copy.
Quote ==
    LET t == session
        r == Due(t)
    IN  /\ t.phase = "quote" /\ ~ t.dead /\ Affordable(t)
        /\ \E size \in [{m \in Requests : Compatible(r, m)} -> 0 .. r.stake] :
             TradeQuote(t, r, size)
        /\ wallets' = [wallets EXCEPT ![t.bot].reserved = @ + Exposure(r)]
        /\ holds' = holds \cup {r}
        /\ UNCHANGED <<settledBets, settled, round>>

\* INSUFFICIENT_BALANCE is swallowed; the INSERT is flushed and stays.
QuoteRefused ==
    LET t == session
    IN  /\ t.phase = "quote" /\ ~ t.dead /\ ~ Affordable(t)
        /\ Private(Advance([t EXCEPT !.pending = @ \cup {Due(t)}]))

\* The database refuses a statement, or has refused one already: swallowed.
QuoteRaises ==
    /\ session.phase = "quote"
    /\ Private(Advance(Kill(session)))

\* The tick returns, or dies: what its session has not committed is gone.
EndTick == UnderWay /\ Private(IdleSession)

\* Users; and whoever finishes the match, who waits for the lock that a refused
\* quote keeps on its bot's wallet.
Others ==
    /\ \/ \E r \in Requests : r.user \notin Bots /\ (Place(r) \/ Cancel(r))
       \/ session.pending = {} /\ \E winner \in Winners : Settle(winner)
    /\ UNCHANGED botVars

BotsInit == Init /\ holds = {} /\ round = 0 /\ session = IdleSession

BotsNext ==
    \/ \E score \in Scores : Begin(score)
    \/ List \/ ListRaises \/ Listed
    \/ \E r \in Requests : Withdraw(r) \/ WithdrawStale(r) \/ WithdrawRaises(r)
    \/ Quote \/ QuoteRefused \/ QuoteRaises
    \/ EndTick
    \/ Others

BotsSpec == BotsInit /\ [][BotsNext]_allVars

-----------------------------------------------------------------------------
(* Properties                                                               *)

\* The bots offer liquidity to users and never trade with each other, however
\* the price moves and whatever call of a requote fails: the old quotes of a
\* selection are gone, or the requote places no new ones.
BotsNeverTrade == \A b \in bets : ~ {b.taker.user, b.maker.user} \subseteq Bots

\* When a requote comes to its end in a session that lives, what the bots have
\* resting are its own quotes: no old price is left in the book, partly taken
\* or not (_requote_selection withdraws before it quotes).
QuotesReplaced ==
    session.phase = "end" /\ ~ session.dead =>
        \A r \in Requests : r.user \in Bots /\ Resting(r) => r.key = round

\* A refused quote may be committed by the next call without a hold (against
\* WalletService: "an order and its exposure hold are created or rejected
\* atomically").  Unless that has happened to a bot, its reservation covers all
\* it may still lose, but for one minor unit for each bet it has ever laid:
\* _liability_minor rounds the order, its bets and its rest on their own.
Outstanding(u) ==
    MapThenSumSet(RestExposure, RestingOf(u))
    + MapThenSumSet(LAMBDA b : IF b.side = "BACK" THEN b.stake
                               ELSE LiabilityMinor("LAY", b.maker.price, b.stake),
                    {b \in bets \ settledBets : OrderOf(b).user = u})
LayBetsOf(u) == {b \in bets : OrderOf(b).user = u /\ b.side = "LAY"}
CoveredIfHeld ==
    \A u \in Bots :
        (\A r \in Requests : r.user = u /\ book[r] # Absent => r \in holds)
        => wallets[u].reserved + Cardinality(LayBetsOf(u)) >= Outstanding(u)
===============================================================================
