--------------------------- MODULE TradingContract ---------------------------
(***************************************************************************)
(* What the trading core promises, without sessions, copies, locks and      *)
(* versions: an order is placed, cancelled or settled in one step that      *)
(* moves the order book, the bets and the wallets together.                 *)
(*                                                                          *)
(* Only what a promise may leave open is left open: which of the resting    *)
(* orders a placement meets (an order that is being placed at the same time *)
(* is not seen), and which orders and bets a settlement finds.              *)
(***************************************************************************)
EXTENDS Odds, FiniteSetsExt

CONSTANTS Users, Requests, Winners, Grant

VARIABLES
    book,         \* request -> [status, matched]
    bets,         \* two for each fill: [taker, maker, side, stake]
    settledBets,  \* the bets that were paid
    wallets,      \* user -> [balance, reserved]
    settled       \* has the market been settled?

vars == <<book, bets, settledBets, wallets, settled>>

Absent == [status |-> "ABSENT", matched |-> 0]
Resting(r) == book[r].status \in {"OPEN", "PARTIALLY_MATCHED"}
Unmatched(r) == r.stake - book[r].matched
Exposure(r) == LiabilityMinor(r.side, r.price, r.stake)
RestExposure(r) == LiabilityMinor(r.side, r.price, Unmatched(r))

OrderOf(b) == IF b.side = b.taker.side THEN b.taker ELSE b.maker
Paid(b, winner) ==
    SettleBetDeltas(b.side, b.maker.price, b.stake, OrderOf(b).selection = winner)

\* What bets are paid together, what of a reservation that frees, and what the
\* rests of orders that are withdrawn free.
Payout(paid, winner) == MapThenSumSet(LAMBDA b : Paid(b, winner).balance, paid)
Unheld(paid, winner) == MapThenSumSet(LAMBDA b : Paid(b, winner).reserved, paid)
RestReleased(withdrawn) == MapThenSumSet(RestExposure, withdrawn)

\* The row of r once a further size of it is matched.
After(r, size) ==
    LET matched == book[r].matched + size
    IN  [status |-> CASE matched = r.stake -> "MATCHED"
                      [] matched > 0 /\ matched < r.stake -> "PARTIALLY_MATCHED"
                      [] OTHER -> "OPEN",
         matched |-> matched]

\* r may trade with m: the other side of the same selection, at odds both accept.
Compatible(r, m) ==
    /\ Resting(m) /\ m.selection = r.selection /\ m.side = Opposite(r.side)
    /\ Crosses(r.side, r.price, m.price)

\* What is traded with these makers together.
Traded(size, makers) == MapThenSumSet(LAMBDA m : size[m], makers)

\* r trades size[m] with each maker m, at the maker's price.
Trade(r, size) ==
    LET makers == {m \in DOMAIN size : size[m] > 0}
        total == Traded(size, makers)
    IN  /\ total <= r.stake
        /\ \A m \in makers : size[m] <= Unmatched(m)
        /\ book' = [q \in Requests |->
                      CASE q = r -> After(r, total)
                        [] q \in makers -> After(q, size[q])
                        [] OTHER -> book[q]]
        /\ bets' = bets \cup {[taker |-> r, maker |-> m, side |-> x, stake |-> size[m]]
                                : m \in makers, x \in Sides}

\* A new order under an unused key, covered by what its owner has available,
\* trades with whom it may.
Place(r) ==
    /\ book[r] = Absent
    /\ \A q \in Requests : q.user = r.user /\ q.key = r.key => book[q] = Absent
    /\ Exposure(r) <= wallets[r.user].balance - wallets[r.user].reserved
    /\ wallets' = [wallets EXCEPT ![r.user].reserved = @ + Exposure(r)]
    /\ \E size \in [{m \in Requests : Compatible(r, m)} -> 0 .. r.stake] : Trade(r, size)
    /\ UNCHANGED <<settledBets, settled>>

\* A resting order is withdrawn, and the exposure of its rest released.
Cancel(r) ==
    /\ Resting(r)
    /\ book' = [book EXCEPT ![r].status = "CANCELLED"]
    /\ wallets' = [wallets EXCEPT ![r.user].reserved = @ - RestExposure(r)]
    /\ UNCHANGED <<bets, settledBets, settled>>

\* Unpaid bets are paid for one winner, resting orders withdrawn, all at once.
Settle(winner) ==
    /\ ~ settled
    /\ settled' = TRUE
    /\ \E found \in SUBSET (bets \ settledBets), rest \in SUBSET {r \in Requests : Resting(r)} :
         LET BetsOf(u) == {b \in found : OrderOf(b).user = u}
             OrdersOf(u) == {r \in rest : r.user = u}
         IN  /\ settledBets' = settledBets \cup found
             /\ book' = [r \in Requests |->
                           IF r \in rest THEN [book[r] EXCEPT !.status = "CANCELLED"] ELSE book[r]]
             /\ wallets' = [u \in Users |->
                  [balance |-> wallets[u].balance + Payout(BetsOf(u), winner),
                   reserved |-> wallets[u].reserved + Unheld(BetsOf(u), winner)
                                                    - RestReleased(OrdersOf(u))]]
    /\ UNCHANGED bets

Init ==
    /\ book = [r \in Requests |-> Absent]
    /\ bets = {} /\ settledBets = {}
    /\ wallets = [u \in Users |-> [balance |-> Grant, reserved |-> 0]]
    /\ settled = FALSE

Next ==
    \/ \E r \in Requests : Place(r) \/ Cancel(r)
    \/ \E winner \in Winners : Settle(winner)

Spec == Init /\ [][Next]_vars
=============================================================================
