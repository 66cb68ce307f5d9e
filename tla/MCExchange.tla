----------------------------- MODULE MCExchange -----------------------------
(***************************************************************************)
(* Instances of the exchange for TLC: the requests each run lets its users  *)
(* send.  Stakes of one to three minor units are enough for a full fill, a  *)
(* partial fill and two fills of one order.  Prices are whole multiples of   *)
(* 1.00, at which nothing is rounded, but where the rounding of a lay's      *)
(* liability is what matters: 2.50.                                         *)
(***************************************************************************)
EXTENDS ExchangeAccounts, ExchangeInvariant, ExchangeRefinement, TLC

CONSTANTS alice, bob, carol, home, away

\* Sessions differ in nothing but what they have in hand.
SessionSymmetry == Permutations(Sessions)

Send(user, selection, side, price, stake, key) ==
    [user |-> user, selection |-> selection, side |-> side, price |-> price,
     stake |-> stake, key |-> key]

\* Two lays at different odds, either of which may come first, and two backs that
\* cross both and want more than they offer; the lays' owner sent one of them.
RaceRequests ==
    {Send(bob, home, "LAY", 200, 1, 1),
     Send(bob, home, "LAY", 300, 2, 2),
     Send(bob, home, "BACK", 200, 2, 3),
     Send(carol, home, "BACK", 200, 2, 1)}

\* A lay matched by two backs one after the other, whose bets together hold one
\* minor unit more than the lay does (3 and 2 + 2); and a back under the key of
\* the first that asks for more than the wallet has once the second is held.
SettleRequests ==
    {Send(bob, home, "LAY", 250, 2, 1),
     Send(alice, home, "BACK", 250, 1, 1),
     Send(alice, home, "BACK", 250, 2, 2),
     Send(alice, home, "BACK", 250, 4, 1)}

\* A small book: two lays at the same odds and one at lower odds, a back that
\* crosses all three and takes two, and a back that crosses only two of them.
BookRequests ==
    {Send(bob, home, "LAY", 200, 1, 1),
     Send(carol, home, "LAY", 300, 1, 1),
     Send(bob, home, "LAY", 300, 1, 2),
     Send(alice, home, "BACK", 200, 2, 1),
     Send(alice, home, "BACK", 300, 1, 2)}

\* A lay that crosses a resting back with room to spare.
ImprovedRequests ==
    {Send(alice, home, "BACK", 200, 1, 1),
     Send(bob, home, "LAY", 300, 1, 1)}

\* Two orders that cross.
CrossingRequests ==
    {Send(alice, home, "BACK", 200, 1, 1),
     Send(bob, home, "LAY", 200, 1, 1)}
=============================================================================
