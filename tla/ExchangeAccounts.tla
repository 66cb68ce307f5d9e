-------------------------- MODULE ExchangeAccounts --------------------------
(***************************************************************************)
(* What the money of Exchange adds up to: sums over the ledger, the bets    *)
(* and the orders, compared with the wallets; and what the order book adds  *)
(* up to, compared with what an order gets.                                 *)
(***************************************************************************)
EXTENDS Exchange, FiniteSetsExt

\* There is a last account to be registered.
ASSUME UsersAssumption == IsFiniteSet(Users)

BalanceOf(entries) == MapThenSumSet(LAMBDA e : e.balance, entries)
ReservedOf(entries) == MapThenSumSet(LAMBDA e : e.reserved, entries)
StakesOf(fills) == MapThenSumSet(LAMBDA b : b.stake, fills)

EntriesFor(entries, u) == {e \in entries : e.user = u}
BetsFor(fills, r) == {b \in fills : BetOrder(b) = r}
OpenOrdersOf(u) == {r \in Requests : r.user = u /\ orders[r].status \in OpenStatuses}
UnsettledBetsOf(u) == {b \in bets \ settledBets : BetUser(b) = u}

\* The wallet row, "a materialized cache of LedgerEntry rows" (models/wallet.py),
\* is what the ledger of its user adds up to on top of the initial grant.
WalletIsLedgerSum ==
    \A u \in Users :
        /\ wallets[u].balance = Grant + BalanceOf(EntriesFor(ledger, u))
        /\ wallets[u].reserved = ReservedOf(EntriesFor(ledger, u))

\* The matched part of an order is the sum of its bets, and every fill made
\* its two bets, of the same size.
Twin(b) == [b EXCEPT !.side = Opposite(b.side)]
BetsAccountForMatched ==
    /\ \A r \in Requests : orders[r].matched = StakesOf(BetsFor(bets, r))
    /\ \A b \in bets : Twin(b) \in bets

\* A settlement moves money between users and makes or loses none.
MoneyConserved ==
    MapThenSumSet(LAMBDA u : wallets[u].balance, Users) = Grant * Cardinality(Users)

\* What a user may still lose: the resting parts of the orders at their limit
\* and the bets not settled.
Outstanding(u) ==
    MapThenSumSet(LAMBDA r : LiabilityMinor(r.side, r.price, Remaining(r, orders[r])),
                  OpenOrdersOf(u))
    + MapThenSumSet(BetLiability, UnsettledBetsOf(u))

\* The reservation covers all of it ("here we simply over-reserve, which is
\* safe", matching_service.py), and the balance covers the reservation.
OverReserveIsSafe ==
    \A u \in Users :
        wallets[u].reserved >= Outstanding(u) /\ wallets[u].balance >= wallets[u].reserved

\* At odds that need rounding too, it covers all but one minor unit for each bet
\* the user has ever laid: _liability_minor rounds once for the order and again
\* for each of its bets and for what is left of it.
LayBetsOf(u) == {b \in bets : BetUser(b) = u /\ b.side = "LAY"}
CoveredButForRounding ==
    \A u \in Users :
        /\ wallets[u].reserved + Cardinality(LayBetsOf(u)) >= Outstanding(u)
        /\ wallets[u].balance >= wallets[u].reserved

\* Nothing stays reserved for a user with nothing resting and nothing unsettled.
ReservationsResolved ==
    \A u \in Users :
        OpenOrdersOf(u) = {} /\ UnsettledBetsOf(u) = {} => wallets[u].reserved = 0

-----------------------------------------------------------------------------
(* The order book as displayed                                              *)

\* Slip: the resting orders of a side are displayed as that side.
SameSide(side) == side

\* The side of the resting orders a displayed side comes from.
DisplayedFrom(side) == Opposite(side)

\* aggregate_order_book: what resting orders of one price leave open together.
Offered(resting, price) ==
    MapThenSumSet(LAMBDA m : Remaining(m, orders[m]), {m \in resting : m.price = price})

\* get_order_book: what is displayed to a user who wants to bet on this side of
\* a selection, one level per price.
Levels(selection, side) ==
    LET resting == {m \in Requests : /\ m.selection = selection
                                     /\ m.side = DisplayedFrom(side)
                                     /\ orders[m].status \in OpenStatuses}
    IN  {[price |-> price, available |-> Offered(resting, price)]
           : price \in {m.price : m \in resting}}

\* "click a displayed price to bet" does "actually cross and match immediately"
\* (get_order_book): an order is matched at once up to what the book displayed
\* at its price and at better ones, if nobody else was quicker.
ClickTrades ==
    [][\A r \in Requests :
         orders[r].status = "ABSENT" /\ orders'[r].status # "ABSENT" =>
            LET shown == MapThenSumSet(LAMBDA l : l.available,
                             {l \in Levels(r.selection, r.side) : Crosses(r.side, r.price, l.price)})
            IN  orders'[r].matched = IF r.stake <= shown THEN r.stake ELSE shown]_vars
=============================================================================
