-------------------------------- MODULE Odds --------------------------------
(***************************************************************************)
(* Money arithmetic of the exchange: what a fill risks, what a bet pays and *)
(* what the unmatched part of an order had reserved.                        *)
(*                                                                          *)
(* Money is a whole number of minor units.  A price is decimal odds with    *)
(* two decimals (OrderCreate.price, orders.price Numeric(6, 2)), kept here  *)
(* as a whole number of hundredths: 250 is 2.50.  The code multiplies with  *)
(* Decimal and rounds with quantize(Decimal("1")), whose default mode is    *)
(* ROUND_HALF_EVEN.                                                         *)
(***************************************************************************)
EXTENDS Integers

Sides == {"BACK", "LAY"}

Opposite(side) == IF side = "BACK" THEN "LAY" ELSE "BACK"

Hundredths == 100

\* Field(gt=1, le=1000, decimal_places=2): 1.01 .. 1000.00.
Prices == {p \in Nat : Hundredths < p /\ p <= 1000 * Hundredths}

\* x / Hundredths rounded to the nearest whole number, a tie to the even one.
RoundHalfEven(x) ==
    LET q == x \div Hundredths
        twice == 2 * (x % Hundredths)
    IN  IF twice > Hundredths \/ (twice = Hundredths /\ q % 2 = 1) THEN q + 1 ELSE q

\* int((Decimal(size) * (price - 1)).quantize(Decimal("1")))
Winnings(price, size) == RoundHalfEven(size * (price - Hundredths))

\* What `size` at `price` risks for `side`: the exposure reserved for an
\* order, released for its unmatched remainder, and stored on a lay bet.
LiabilityMinor(side, price, size) ==
    IF side = "BACK" THEN size ELSE Winnings(price, size)

\* settlement_service's own copy of the same formula.
ReleaseAmount(side, price, remaining) ==
    IF side = "BACK" THEN remaining ELSE Winnings(price, remaining)

\* (balance_delta, reserved_delta) of settling one bet whose selection won
\* (or not).  A back bet's hold is its stake, a lay bet's its liability.
SettleBetDeltas(side, price, stake, selectionWon) ==
    LET hold == IF side = "BACK" THEN stake ELSE LiabilityMinor("LAY", price, stake)
        ownerWon == (side = "BACK") <=> selectionWon
        profit == IF side = "BACK" THEN Winnings(price, stake) ELSE stake
    IN  [balance  |-> IF ownerWon THEN profit ELSE - hold,
         reserved |-> - hold]

\* A taker of `side` at `limit` may trade against a maker at `price`.
Crosses(side, limit, price) ==
    IF side = "BACK" THEN price >= limit ELSE price <= limit
=============================================================================
