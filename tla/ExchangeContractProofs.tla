---------------------- MODULE ExchangeContractProofs -----------------------
(***************************************************************************)
(* Exchange implements TradingContract, for every value of the constants;   *)
(* with it, that a settlement makes or loses no money; and that placements  *)
(* do not deadlock.                                                         *)
(*                                                                          *)
(* Then the order book, when requests are answered one after the other      *)
(* (Alone): for every number of users, requests and prices and every        *)
(* setting. With two sessions this fails: two crossing orders placed at     *)
(* once both rest, and an order may commit behind a settlement's back (the  *)
(* run stranded). And what is reserved for the orders in the book, for any  *)
(* number of sessions, along the steps of the contract.                     *)
(***************************************************************************)
EXTENDS ExchangeProofs, ExchangeRefinement

-----------------------------------------------------------------------------
(* Payouts                                                                  *)

Paying(winner) == [b \in BetRecords |-> Payment(b, winner).balance]
Unholding(winner) == [b \in BetRecords |-> Payment(b, winner).reserved]
Resting(rows) == [r \in Requests |-> RestExposure(r, rows[r])]

\* The sums of ExchangeInvariant are totals: payments,
LEMMA PaidTotal ==
  ASSUME NEW winner, NEW S, S \subseteq BetRecords
  PROVE  PaidOut(S, winner) = Total(Paying(winner), S)
<1>1. \A s \in SUBSET S : s # {} => Paying(winner)[Pick(s)] = Payment(Pick(s), winner).balance
  BY PickIn DEF Paying
<1>2. \A iter : Unfolds(Paying(winner), S, iter) <=>
        iter = [s \in SUBSET S |-> IF s = {} THEN 0
                                   ELSE Payment(Pick(s), winner).balance + iter[s \ {Pick(s)}]]
  BY <1>1 DEF Unfolds
<1>3. (CHOOSE iter : Unfolds(Paying(winner), S, iter)) =
        CHOOSE iter :
          iter = [s \in SUBSET S |-> IF s = {} THEN 0
                                     ELSE Payment(Pick(s), winner).balance + iter[s \ {Pick(s)}]]
  BY <1>2
<1>4. Total(Paying(winner), S) = (CHOOSE iter : Unfolds(Paying(winner), S, iter))[S]
  BY TotalIs
<1>. QED BY <1>3, <1>4 DEF PaidOut, MapThenSumSet, MapThenFoldSet, Pick

\* what they free,
LEMMA UnheldTotal ==
  ASSUME NEW winner, NEW S, S \subseteq BetRecords
  PROVE  Unheld(S, winner) = Total(Unholding(winner), S)
<1>1. \A s \in SUBSET S : s # {} => Unholding(winner)[Pick(s)] = Payment(Pick(s), winner).reserved
  BY PickIn DEF Unholding
<1>2. \A iter : Unfolds(Unholding(winner), S, iter) <=>
        iter = [s \in SUBSET S |-> IF s = {} THEN 0
                                   ELSE Payment(Pick(s), winner).reserved + iter[s \ {Pick(s)}]]
  BY <1>1 DEF Unfolds
<1>3. (CHOOSE iter : Unfolds(Unholding(winner), S, iter)) =
        CHOOSE iter :
          iter = [s \in SUBSET S |-> IF s = {} THEN 0
                                     ELSE Payment(Pick(s), winner).reserved + iter[s \ {Pick(s)}]]
  BY <1>2
<1>4. Total(Unholding(winner), S) = (CHOOSE iter : Unfolds(Unholding(winner), S, iter))[S]
  BY TotalIs
<1>. QED BY <1>3, <1>4 DEF Unheld, MapThenSumSet, MapThenFoldSet, Pick

\* and the exposures of the rests.
LEMMA RestTotal ==
  ASSUME NEW rows, NEW S, S \subseteq Requests
  PROVE  RestReleased(rows, S) = Total(Resting(rows), S)
<1>1. \A s \in SUBSET S : s # {} => Resting(rows)[Pick(s)] = RestExposure(Pick(s), rows[Pick(s)])
  BY PickIn DEF Resting
<1>2. \A iter : Unfolds(Resting(rows), S, iter) <=>
        iter = [s \in SUBSET S |-> IF s = {} THEN 0
                                   ELSE RestExposure(Pick(s), rows[Pick(s)]) + iter[s \ {Pick(s)}]]
  BY <1>1 DEF Unfolds
<1>3. (CHOOSE iter : Unfolds(Resting(rows), S, iter)) =
        CHOOSE iter :
          iter = [s \in SUBSET S |-> IF s = {} THEN 0
                                     ELSE RestExposure(Pick(s), rows[Pick(s)]) + iter[s \ {Pick(s)}]]
  BY <1>2
<1>4. Total(Resting(rows), S) = (CHOOSE iter : Unfolds(Resting(rows), S, iter))[S]
  BY TotalIs
<1>. QED BY <1>3, <1>4 DEF RestReleased, MapThenSumSet, MapThenFoldSet, Pick

\* What a payment is, and that it is an entry.
LEMMA PaymentType ==
  ASSUME NEW b \in BetRecords, NEW winner
  PROVE  /\ Payment(b, winner) \in LedgerEntries
         /\ Payment(b, winner).balance \in Int /\ Payment(b, winner).reserved \in Int
         /\ Payment(b, winner).user = BetUser(b) /\ Payment(b, winner).key = SettleKey(b)
<1>. DEFINE d == SettleBetDeltas(b.side, BetPrice(b), b.stake, BetOrder(b).selection = winner)
<1>1. /\ BetUser(b) \in Users /\ SettleKey(b) \in LedgerKeys
      /\ d.balance \in Int /\ d.reserved \in Int
  BY BetType, SettleType
<1>2. Payment(b, winner) =
        [key |-> SettleKey(b), user |-> BetUser(b), balance |-> d.balance, reserved |-> d.reserved]
  BY DEF Payment
<1>. HIDE DEF d
<1>. QED BY <1>1, <1>2 DEF LedgerEntries

\* Sums of payments.
LEMMA PaymentSums ==
  ASSUME NEW winner
  PROVE
  /\ PaidOut({}, winner) = 0 /\ Unheld({}, winner) = 0
  /\ \A S \in SUBSET BetRecords : IsFiniteSet(S) =>
        PaidOut(S, winner) \in Int /\ Unheld(S, winner) \in Int
  /\ \A S \in SUBSET BetRecords : \A b \in BetRecords \ S : IsFiniteSet(S) =>
        /\ PaidOut(S \cup {b}, winner) = PaidOut(S, winner) + Payment(b, winner).balance
        /\ Unheld(S \cup {b}, winner) = Unheld(S, winner) + Payment(b, winner).reserved
<1>e. \A b \in BetRecords :
         /\ Paying(winner)[b] \in Int /\ Unholding(winner)[b] \in Int
         /\ Paying(winner)[b] = Payment(b, winner).balance
         /\ Unholding(winner)[b] = Payment(b, winner).reserved
  BY PaymentType DEF Paying, Unholding
<1>1. PaidOut({}, winner) = 0 /\ Unheld({}, winner) = 0
  BY PaidTotal, UnheldTotal, TotalEmpty
<1>2. ASSUME NEW S \in SUBSET BetRecords, IsFiniteSet(S)
      PROVE  PaidOut(S, winner) \in Int /\ Unheld(S, winner) \in Int
  <2>1. Total(Paying(winner), S) \in Int /\ Total(Unholding(winner), S) \in Int
    BY <1>e, <1>2, TotalInt
  <2>. QED BY <2>1, PaidTotal, UnheldTotal
<1>3. ASSUME NEW S \in SUBSET BetRecords, NEW b \in BetRecords \ S, IsFiniteSet(S)
      PROVE  /\ PaidOut(S \cup {b}, winner) = PaidOut(S, winner) + Payment(b, winner).balance
             /\ Unheld(S \cup {b}, winner) = Unheld(S, winner) + Payment(b, winner).reserved
  <2>1. \A x \in S \cup {b} : Paying(winner)[x] \in Int /\ Unholding(winner)[x] \in Int
    BY <1>e
  <2>2. /\ Total(Paying(winner), S \cup {b}) = Total(Paying(winner), S) + Paying(winner)[b]
        /\ Total(Unholding(winner), S \cup {b}) = Total(Unholding(winner), S) + Unholding(winner)[b]
    BY <1>3, <2>1, TotalAdd
  <2>3. S \subseteq BetRecords /\ S \cup {b} \subseteq BetRecords
    OBVIOUS
  <2>. QED BY <1>e, <2>2, <2>3, PaidTotal, UnheldTotal
<1>. QED BY <1>1, <1>2, <1>3

\* What the rest of an order had reserved is a whole number.
LEMMA RestType ==
  ASSUME NEW r \in Requests, NEW row \in OrderRows
  PROVE  RestExposure(r, row) \in Int
<1>1. Remaining(r, row) \in Int
  BY RequestType DEF Remaining, OrderRows
<1>. QED BY <1>1, RequestType, LiabilityType DEF RestExposure

\* Sums of rests.
LEMMA RestSums ==
  ASSUME NEW rows \in [Requests -> OrderRows]
  PROVE
  /\ RestReleased(rows, {}) = 0
  /\ \A S \in SUBSET Requests : IsFiniteSet(S) => RestReleased(rows, S) \in Int
  /\ \A S \in SUBSET Requests : \A r \in Requests \ S : IsFiniteSet(S) =>
        RestReleased(rows, S \cup {r}) = RestReleased(rows, S) + RestExposure(r, rows[r])
  /\ \A S \in SUBSET Requests : \A more \in [Requests -> OrderRows] :
        IsFiniteSet(S) /\ (\A r \in S : more[r].matched = rows[r].matched) =>
          RestReleased(more, S) = RestReleased(rows, S)
<1>e. \A f \in [Requests -> OrderRows] : \A r \in Requests :
         Resting(f)[r] \in Int /\ Resting(f)[r] = RestExposure(r, f[r])
  BY RestType DEF Resting
<1>1. RestReleased(rows, {}) = 0
  BY RestTotal, TotalEmpty
<1>2. ASSUME NEW S \in SUBSET Requests, IsFiniteSet(S)
      PROVE  RestReleased(rows, S) \in Int
  <2>1. Total(Resting(rows), S) \in Int
    BY <1>e, <1>2, TotalInt
  <2>. QED BY <2>1, RestTotal
<1>3. ASSUME NEW S \in SUBSET Requests, NEW r \in Requests \ S, IsFiniteSet(S)
      PROVE  RestReleased(rows, S \cup {r}) = RestReleased(rows, S) + RestExposure(r, rows[r])
  <2>1. \A x \in S \cup {r} : Resting(rows)[x] \in Int
    BY <1>e
  <2>2. Total(Resting(rows), S \cup {r}) = Total(Resting(rows), S) + Resting(rows)[r]
    BY <1>3, <2>1, TotalAdd
  <2>3. S \subseteq Requests /\ S \cup {r} \subseteq Requests
    OBVIOUS
  <2>. QED BY <1>e, <2>2, <2>3, RestTotal
<1>4. ASSUME NEW S \in SUBSET Requests, NEW more \in [Requests -> OrderRows], IsFiniteSet(S),
             \A r \in S : more[r].matched = rows[r].matched
      PROVE  RestReleased(more, S) = RestReleased(rows, S)
  <2>1. \A r \in S : Resting(more)[r] = Resting(rows)[r]
    BY <1>4 DEF Resting, RestExposure, Remaining
  <2>2. Total(Resting(more), S) = Total(Resting(rows), S)
    BY <1>4, <2>1, TotalSame
  <2>. QED BY <2>2, RestTotal
<1>. QED BY <1>1, <1>2, <1>3, <1>4

\* A sum of one entry.
LEMMA OneEntry ==
  ASSUME NEW e \in LedgerEntries
  PROVE  BalanceOf({e}) = e.balance /\ ReservedOf({e}) = e.reserved
<1>1. {} \in SUBSET LedgerEntries /\ e \in LedgerEntries \ {} /\ IsFiniteSet({}) /\ {} \cup {e} = {e}
  BY FS_EmptySet
<1>2. /\ BalanceOf({} \cup {e}) = BalanceOf({}) + e.balance
      /\ ReservedOf({} \cup {e}) = ReservedOf({}) + e.reserved
  BY <1>1, EntrySums
<1>3. e.balance \in Int /\ e.reserved \in Int
  BY DEF LedgerEntries
<1>. QED BY <1>1, <1>2, <1>3, EntrySums

\* A hold is an entry that moves no balance.
LEMMA HoldType ==
  ASSUME NEW r \in Requests
  PROVE  /\ Hold(r) \in LedgerEntries /\ Hold(r).balance = 0 /\ Hold(r).reserved = Exposure(r)
         /\ Hold(r).user = r.user /\ Exposure(r) \in Int
<1>1. Exposure(r) \in Int /\ r.user \in Users /\ HoldKey(r) \in LedgerKeys
  BY RequestType, LiabilityType, SMT DEF Exposure, HoldKey, LedgerKeys
<1>. QED BY <1>1 DEF Hold, LedgerEntries

\* A session with nothing in hand has nothing to pay.
LEMMA NoPayouts ==
  ASSUME NEW v, v.entries = {}, v.settled = {}, v.todoBets = {}, IsFiniteSet(v.dirty),
         v.pc \notin {"lock", "match", "settleBets", "settleOrders"}
  PROVE  PayoutsOK(v)
  BY FS_EmptySet DEF PayoutsOK

\* What the tables have to keep for another session's payouts.
LEMMA PayoutsKept ==
  ASSUME NEW v, PayoutsOK(v), bets \subseteq bets',
         market'.status # "SETTLED" => market.status # "SETTLED",
         v.pc \in {"lock", "match"} => wallets'[v.order.user] = wallets[v.order.user]
  PROVE  PayoutsOK(v)'
  BY DEF PayoutsOK, Available

\* Replacing the transaction of one session keeps PayoutInv if the new one is right.
LEMMA PrivatePayouts ==
  ASSUME TypeOK, PayoutInv, NEW s \in Sessions, NEW v, Private(s, v), PayoutsOK(v)
  PROVE  PayoutInv'
<1>1. ASSUME NEW z \in Sessions PROVE PayoutsOK(tx[z])'
  <2>1. PICK t : t = IF z = s THEN v ELSE tx[z]
    OBVIOUS
  <2>2. tx'[z] = t
    BY <2>1 DEF Private, TypeOK
  <2>3. PayoutsOK(t)
    BY <2>1 DEF PayoutInv
  <2>4. PayoutsOK(t)'
    BY <2>3, PayoutsKept DEF Private
  <2>. QED BY <2>2, <2>4 DEF PayoutsOK
<1>2. BalanceOf(ledger') = 0 /\ Unreleased'
  BY DEF Private, PayoutInv, Unreleased
<1>. QED BY <1>1, <1>2 DEF PayoutInv

\* An idle session is.
LEMMA EndPayouts ==
  ASSUME TypeOK, WalletInv, PayoutInv, NEW s \in Sessions, End(s), bets \subseteq bets',
         market'.status # "SETTLED" => market.status # "SETTLED",
         BalanceOf(ledger') = 0, Unreleased',
         \A z \in Sessions \ {s} : \A u \in tx[z].held : wallets'[u] = wallets[u]
  PROVE  PayoutInv'
<1>1. ASSUME NEW z \in Sessions PROVE PayoutsOK(tx[z])'
  <2>1. PICK t : t = IF z = s THEN IdleTx ELSE tx[z]
    OBVIOUS
  <2>2. tx'[z] = t
    BY <2>1 DEF End, TypeOK
  <2>3. PayoutsOK(IdleTx)
    BY NoPayouts, FS_EmptySet DEF IdleTx
  <2>4. PayoutsOK(t)
    BY <2>1, <2>3 DEF PayoutInv
  <2>5. t.pc \in {"lock", "match"} => wallets'[t.order.user] = wallets[t.order.user]
    <3>1. CASE z = s
      BY <2>1, <3>1 DEF IdleTx
    <3>2. CASE z # s
      <4>1. t = tx[z] /\ WalletCopiesOK(t) /\ t.order \in Requests
        BY <2>1, <3>2, TxType DEF WalletInv
      <4>2. t.pc \in {"lock", "match"} => Hold(t.order) \in t.entries
        BY <2>4 DEF PayoutsOK
      <4>3. t.pc \in {"lock", "match"} => t.order.user \in t.held
        BY <4>1, <4>2, HoldType DEF WalletCopiesOK
      <4>. QED BY <3>2, <4>1, <4>3
    <3>. QED BY <3>1, <3>2
  <2>6. PayoutsOK(t)'
    BY <2>4, <2>5, PayoutsKept
  <2>. QED BY <2>2, <2>6 DEF PayoutsOK
<1>. QED BY <1>1 DEF PayoutInv

\* A commit of entries that come to nothing.
LEMMA CommitPayouts ==
  ASSUME TypeOK, WalletInv, PayoutInv, NEW s \in Sessions, NEW v \in TxRecords, MoneyOf(s, v),
         Commit(s, v), BalanceOf(v.entries) = 0,
         market'.status # "SETTLED" =>
           \A r \in Requests : \A e \in v.entries : e.key # ReleaseSettleKey(r),
         market'.status # "SETTLED" => market.status # "SETTLED"
  PROVE  PayoutInv'
<1>1. /\ WalletCopiesOK(v)
      /\ \A z \in Sessions \ {s} : v.held \cap tx[z].held = {}
  BY MoneyOK
<1>2. /\ ledger' = ledger \cup v.entries /\ bets \subseteq bets' /\ End(s)
      /\ \A u \in Users : wallets'[u] = IF u \in v.held THEN v.wallets[u] ELSE wallets[u]
  BY DEF Commit
<1>3. /\ ledger \in SUBSET LedgerEntries /\ v.entries \in SUBSET LedgerEntries
      /\ IsFiniteSet(ledger) /\ IsFiniteSet(v.entries) /\ ledger \cap v.entries = {}
  BY <1>1 DEF TypeOK, TxRecords, WalletInv, WalletCopiesOK
<1>4. BalanceOf(ledger \cup v.entries) = BalanceOf(ledger) + BalanceOf(v.entries)
  BY <1>3, EntrySums
<1>5. BalanceOf(ledger') = 0
  BY <1>2, <1>4 DEF PayoutInv
<1>6. \A z \in Sessions \ {s} : \A u \in tx[z].held : wallets'[u] = wallets[u]
  <2>. SUFFICES ASSUME NEW z \in Sessions \ {s}, NEW u \in tx[z].held
                PROVE  wallets'[u] = wallets[u]
    OBVIOUS
  <2>1. u \in Users /\ u \notin v.held
    BY <1>1, TxType DEF TxRecords
  <2>. QED BY <1>2, <2>1
<1>7. Unreleased'
  BY <1>2 DEF PayoutInv, Unreleased
<1>. QED BY <1>2, <1>5, <1>6, <1>7, EndPayouts

\* A settlement of whole fills moves money between users and makes none.
LEMMA SettlementPaysNothing ==
  ASSUME TypeOK, WalletInv, FillInv, PayoutInv, NEW s \in Sessions, tx[s].pc = "settleOrders",
         market.status # "SETTLED"
  PROVE  BalanceOf(tx[s].entries) = 0
<1>. DEFINE t == tx[s]
            w == t.winner
            user == [e \in LedgerEntries |-> e.user]
            better == [b \in BetRecords |-> BetUser(b)]
            twin == [b \in BetRecords |-> Twin(b)]
            g == [u \in Users |-> BalanceOf(EntriesFor(t.entries, u))]
<1>t. /\ t \in TxRecords /\ t.entries \in SUBSET LedgerEntries /\ t.settled \in SUBSET BetRecords
  BY TxType DEF TxRecords
<1>p. PayoutsOK(t) /\ IsFiniteSet(t.entries)
  BY DEF PayoutInv, WalletInv, WalletCopiesOK
<1>1. \A e \in t.entries : Balances[e] \in Int /\ user[e] \in Users
  BY <1>t DEF Balances, LedgerEntries
<1>2. \A b \in t.settled : Paying(w)[b] \in Int /\ better[b] \in Users
  BY <1>t, PaymentType, BetType DEF Paying
<1>3. Total(g, Users) = 0 * Cardinality(Users) + Total(Balances, t.entries)
  <2>. DEFINE part == [u \in Users |-> EntriesFor(t.entries, u)]
  <2>1. ASSUME NEW u \in Users PROVE g[u] = 0 + Total(Balances, part[u])
    <3>1. part[u] \in SUBSET LedgerEntries /\ part[u] = EntriesFor(t.entries, u)
      BY <1>t DEF EntriesFor
    <3>2. g[u] = BalanceOf(EntriesFor(t.entries, u)) /\ g[u] \in Int
      BY <1>t, <1>p, EntriesInt
    <3>. HIDE DEF g, part
    <3>. QED BY <3>1, <3>2, BalanceTotal
  <2>2. /\ \A u \in Users : part[u] \subseteq t.entries
        /\ \A u \in Users : \A e \in t.entries : e \in part[u] <=> user[e] = u
    BY <1>t DEF EntriesFor
  <2>3. 0 \in Int /\ IsFiniteSet(t.entries) /\ IsFiniteSet(Users)
    BY <1>p, UsersAssumption
  <2>4. \A e \in t.entries : Balances[e] \in Int
    BY <1>1
  <2>5. \A e \in t.entries : user[e] \in Users
    BY <1>1
  <2>. HIDE DEF g, user, t, part
  <2>. QED BY <2>1, <2>2, <2>3, <2>4, <2>5, TotalGrouped
<1>4. Total(g, Users) = 0 * Cardinality(Users) + Total(Paying(w), t.settled)
  <2>. DEFINE part == [u \in Users |-> BetsOf(t.settled, u)]
  <2>1. ASSUME NEW u \in Users PROVE g[u] = 0 + Total(Paying(w), part[u])
    <3>1. part[u] \in SUBSET BetRecords /\ part[u] = BetsOf(t.settled, u) /\ IsFiniteSet(part[u])
      BY <1>t, <1>p, FS_Subset DEF BetsOf, PayoutsOK
    <3>2. g[u] = PaidOut(BetsOf(t.settled, u), w)
      BY <1>p DEF PayoutsOK
    <3>3. PaidOut(part[u], w) = Total(Paying(w), part[u]) /\ PaidOut(part[u], w) \in Int
      BY <3>1, PaidTotal, PaymentSums
    <3>. HIDE DEF g, part
    <3>. QED BY <3>1, <3>2, <3>3
  <2>2. /\ \A u \in Users : part[u] \subseteq t.settled
        /\ \A u \in Users : \A b \in t.settled : b \in part[u] <=> better[b] = u
    BY <1>t DEF BetsOf
  <2>3. 0 \in Int /\ IsFiniteSet(t.settled) /\ IsFiniteSet(Users)
    BY <1>p, UsersAssumption DEF PayoutsOK
  <2>4. \A b \in t.settled : Paying(w)[b] \in Int
    BY <1>2
  <2>5. \A b \in t.settled : better[b] \in Users
    BY <1>2
  <2>. HIDE DEF g, better, t, w, part
  <2>. QED BY <2>1, <2>2, <2>3, <2>4, <2>5, TotalGrouped
<1>5. Total(Paying(w), t.settled) = 0
  <2>. SUFFICES ASSUME NEW b \in t.settled
                PROVE  /\ twin[b] \in t.settled /\ twin[b] # b /\ twin[twin[b]] = b
                       /\ Paying(w)[twin[b]] = - Paying(w)[b]
    <3>1. IsFiniteSet(t.settled) /\ \A b \in t.settled : Paying(w)[b] \in Int
      BY <1>p, <1>2 DEF PayoutsOK
    <3>. PICK f : f = Paying(w)
      OBVIOUS
    <3>. HIDE DEF t, w, twin
    <3>. QED BY <3>1, TotalPaired
  <2>1. b \in BetRecords /\ Twin(b) \in t.settled /\ b \in bets
    BY <1>p, <1>t DEF PayoutsOK
  <2>2. Twin(b) \in BetRecords /\ Suits(b.taker, b.maker)
    BY <1>t, <2>1 DEF FillInv
  <2>3. /\ b.side \in Sides /\ b.taker \in Requests /\ b.maker \in Requests /\ b.stake \in Int
        /\ b = [taker |-> b.taker, maker |-> b.maker, side |-> b.side, stake |-> b.stake]
    BY <2>1 DEF BetRecords
  <2>4. /\ Twin(b).taker = b.taker /\ Twin(b).maker = b.maker /\ Twin(b).stake = b.stake
        /\ Twin(b).side = Opposite(b.side) /\ Twin(Twin(b)) = b
    BY <2>3 DEF Twin, Opposite, Sides
  <2>5. Twin(b) # b
    BY <2>3, <2>4 DEF Opposite, Sides
  <2>6. BetOrder(Twin(b)).selection = BetOrder(b).selection /\ BetPrice(Twin(b)) = BetPrice(b)
    BY <2>2, <2>4 DEF BetOrder, BetPrice, Suits
  <2>7. Payment(Twin(b), w).balance = - Payment(b, w).balance
    <3>. DEFINE won == BetOrder(b).selection = w
                one(x) == SettleBetDeltas(x, BetPrice(b), b.stake, won).balance
    <3>1. Payment(b, w).balance = one(b.side) /\ Payment(Twin(b), w).balance = one(Opposite(b.side))
      BY <2>4, <2>6 DEF Payment
    <3>2. BetPrice(b) \in Prices /\ won \in BOOLEAN
      BY <2>1, BetType
    <3>3. one("BACK") + one("LAY") = 0 /\ one("BACK") \in Int /\ one("LAY") \in Int
      <4>. HIDE DEF won
      <4>. QED BY <2>3, <3>2, FillIsZeroSum, SettleType DEF Sides
    <3>. HIDE DEF one
    <3>. QED BY <2>3, <3>1, <3>3 DEF Opposite, Sides
  <2>. QED BY <2>1, <2>2, <2>4, <2>5, <2>7 DEF Paying
<1>6. Total(Balances, t.entries) \in Int
  BY <1>p, <1>1, TotalInt
<1>7. 0 * Cardinality(Users) = 0
  BY UsersAssumption, FS_CardinalityType
<1>. HIDE DEF g
<1>8. BalanceOf(t.entries) = Total(Balances, t.entries)
  BY <1>t, BalanceTotal
<1>. QED BY <1>3, <1>4, <1>5, <1>6, <1>7, <1>8

\* A placement that has not reserved yet, and a cancel, have posted nothing.
LEMMA BeginPayouts ==
  ASSUME Inv, LedgerInv, FillInv, PayoutInv, NEW s \in Sessions,
         \/ \E r \in Requests : PlaceBegin(s, r) \/ CancelBegin(s, r)
         \/ \E winner \in Winners : SettleBegin(s, winner)
         \/ \E target \in MarketStatuses : TransitionBegin(s, target)
  PROVE  PayoutInv'
<1>1. ASSUME NEW v, Private(s, v), v.entries = {}, v.settled = {}, v.todoBets = {}, v.dirty = {},
             v.pc \in {"insert", "cancelFlush", "transition"}
      PROVE  PayoutInv'
  <2>1. PayoutsOK(v)
    BY <1>1, NoPayouts, FS_EmptySet
  <2>. QED BY <1>1, <2>1, PrivatePayouts DEF Inv
<1>2. ASSUME NEW r \in Requests, PlaceBegin(s, r) PROVE PayoutInv'
  <2>. DEFINE v == [IdleTx EXCEPT !.pc = "insert", !.order = r, !.market = market]
  <2>1. Private(s, v)
    BY <1>2 DEF PlaceBegin
  <2>2. v.entries = {} /\ v.settled = {} /\ v.todoBets = {} /\ v.dirty = {} /\ v.pc = "insert"
    BY DEF IdleTx
  <2>. QED BY <1>1, <2>1, <2>2
<1>3. ASSUME NEW r \in Requests, CancelBegin(s, r) PROVE PayoutInv'
  <2>. DEFINE v == [IdleTx EXCEPT !.pc = "cancelFlush", !.order = r, !.rows[r] = orders[r]]
  <2>1. Private(s, v)
    BY <1>3 DEF CancelBegin
  <2>2. v.entries = {} /\ v.settled = {} /\ v.todoBets = {} /\ v.dirty = {} /\ v.pc = "cancelFlush"
    BY DEF IdleTx
  <2>. QED BY <1>1, <2>1, <2>2
<1>4. ASSUME NEW winner \in Winners, SettleBegin(s, winner) PROVE PayoutInv'
  <2>. DEFINE v == [IdleTx EXCEPT !.pc = "settleBets", !.winner = winner, !.market = market,
                                  !.todoBets = bets \ settledBets]
  <2>1. Private(s, v) /\ market.status # "SETTLED"
    BY <1>4 DEF SettleBegin
  <2>2. /\ v.entries = {} /\ v.settled = {} /\ v.todoBets = bets \ settledBets /\ v.dirty = {}
        /\ v.pc = "settleBets" /\ v.winner = winner /\ v.rows = [r \in Requests |-> NoRow]
    BY DEF IdleTx
  <2>3. settledBets = {}
    BY <2>1 DEF LedgerInv, LedgerOK
  <2>4. \A b \in v.todoBets : Twin(b) \in v.todoBets
    BY <2>2, <2>3 DEF FillInv, BetsAccountForMatched
  <2>5. v.rows \in [Requests -> OrderRows]
    BY <2>2, RowRecords
  <2>. HIDE DEF v
  <2>6. \A u : /\ EntriesFor(v.entries, u) = {} /\ BetsOf(v.settled, u) = {}
               /\ OrdersOf(v.dirty, u) = {}
    BY <2>2 DEF EntriesFor, BetsOf, OrdersOf
  <2>7. \A u : /\ BalanceOf(EntriesFor(v.entries, u)) = PaidOut(BetsOf(v.settled, u), v.winner)
               /\ ReservedOf(EntriesFor(v.entries, u)) =
                    Unheld(BetsOf(v.settled, u), v.winner) - RestReleased(v.rows, OrdersOf(v.dirty, u))
    <3>1. /\ BalanceOf({}) = 0 /\ ReservedOf({}) = 0 /\ PaidOut({}, v.winner) = 0
          /\ Unheld({}, v.winner) = 0 /\ RestReleased(v.rows, {}) = 0
      BY <2>5, EntrySums, PaymentSums, RestSums
    <3>. QED BY <2>6, <3>1
  <2>8. PayoutsOK(v)
    BY <2>2, <2>4, <2>7, FS_EmptySet DEF PayoutsOK
  <2>. QED BY <2>1, <2>8, PrivatePayouts DEF Inv
<1>5. ASSUME NEW target \in MarketStatuses, TransitionBegin(s, target) PROVE PayoutInv'
  <2>. DEFINE v == [IdleTx EXCEPT !.pc = "transition", !.target = target, !.market = market]
  <2>1. Private(s, v)
    BY <1>5 DEF TransitionBegin
  <2>2. v.entries = {} /\ v.settled = {} /\ v.todoBets = {} /\ v.dirty = {} /\ v.pc = "transition"
    BY DEF IdleTx
  <2>. QED BY <1>1, <2>1, <2>2
<1>. QED BY <1>2, <1>3, <1>4, <1>5

\* The hold is the one entry of a placement, and the wallet covers it.
LEMMA PlaceReservePayouts ==
  ASSUME Inv, LedgerInv, WalletInv, PayoutInv, NEW s \in Sessions, PlaceReserve(s)
  PROVE  PayoutInv'
<1>. DEFINE t == tx[s]
            r == t.order
            p == Post(s, t, r.user, HoldKey(r), 0, Exposure(r))
            v == [p EXCEPT !.pc = "lock", !.todo = Matchable(r)]
<1>t. t \in TxRecords /\ r \in Requests /\ TypeOK /\ r.user \in Users
  BY TxType, RequestType DEF Inv
<1>q. /\ Private(s, v) /\ t.pc = "reserve"
      /\ Exposure(r) <= Available(WalletSeen(s, r.user))
  BY DEF PlaceReserve
<1>1. PayoutsOK(t) /\ t.entries = {} /\ t.settled = {} /\ t.todoBets = {}
  BY <1>q DEF PayoutInv, PayoutsOK
<1>2. \A e \in ledger \cup t.entries : e.key # HoldKey(r)
  <2>1. orders[r].status = "ABSENT"
    BY <1>q, <1>t DEF Inv, SessionOK, WritesOK, Taking, PlacePCs, KeyTaken
  <2>. QED BY <1>1, <1>t, <2>1 DEF LedgerInv, LedgerOK
<1>3. p.entries = {Hold(r)}
  BY <1>t, <1>1, <1>2 DEF Post, TxRecords, Hold
<1>4. p \in TxRecords
  BY <1>t, HoldType, PostType, SMT DEF HoldKey, LedgerKeys
<1>5. p.order = r /\ p.settled = t.settled /\ p.todoBets = t.todoBets /\ p.dirty = t.dirty
  BY <1>t DEF Post, TxRecords
<1>6. Exposure(r) <= Available(wallets[r.user])
  <2>1. CASE r.user \notin t.held
    BY <1>q, <2>1 DEF WalletSeen
  <2>2. CASE r.user \in t.held
    <3>1. EntriesFor(t.entries, r.user) = {}
      BY <1>1 DEF EntriesFor
    <3>4. WalletCopiesOK(t)
      BY DEF WalletInv
    <3>5. t.wallets[r.user] =
            [balance |-> wallets[r.user].balance + BalanceOf(EntriesFor(t.entries, r.user)),
             reserved |-> wallets[r.user].reserved + ReservedOf(EntriesFor(t.entries, r.user))]
      BY <2>2, <3>4 DEF WalletCopiesOK
    <3>6. /\ BalanceOf(EntriesFor(t.entries, r.user)) = 0
          /\ ReservedOf(EntriesFor(t.entries, r.user)) = 0
      BY <3>1, EntrySums
    <3>2. t.wallets[r.user] = [balance |-> wallets[r.user].balance + 0,
                               reserved |-> wallets[r.user].reserved + 0]
      BY <3>5, <3>6
    <3>3. wallets[r.user].balance \in Int /\ wallets[r.user].reserved \in Int
      BY <1>t DEF TypeOK, WalletRows
    <3>. QED BY <1>q, <2>2, <3>2, <3>3 DEF WalletSeen, Available
  <2>. QED BY <2>1, <2>2
<1>. HIDE DEF p
<1>7. /\ v.pc = "lock" /\ v.order = r /\ v.settled = {} /\ v.todoBets = {} /\ v.dirty = t.dirty
      /\ v.entries = {Hold(r)}
  BY <1>1, <1>3, <1>4, <1>5 DEF TxRecords
<1>. HIDE DEF v
<1>8. PayoutsOK(v)
  BY <1>1, <1>6, <1>7 DEF PayoutsOK
<1>. QED BY <1>t, <1>q, <1>8, PrivatePayouts

\* Some steps change no payouts.
LEMMA SamePayouts ==
  ASSUME Inv, PayoutInv, NEW s \in Sessions,
         \/ PlaceInsert(s) \/ PlaceMakers(s) \/ CancelFlush(s)
         \/ \E m \in Requests : PlaceLock(s, m) \/ PlaceMatch(s, m) \/ SettleFlush(s, m)
  PROVE  PayoutInv'
<1>. DEFINE t == tx[s]
            r == t.order
<1>t. t \in TxRecords /\ TypeOK /\ PayoutsOK(t) /\ IsFiniteSet(t.dirty)
  BY TxType DEF Inv, PayoutInv, PayoutsOK
<1>1. ASSUME PlaceInsert(s) PROVE PayoutInv'
  <2>. DEFINE row == [status |-> "OPEN", matched |-> 0, created |-> clock, version |-> 0]
              v == [t EXCEPT !.pc = "reserve", !.rows[r] = row, !.dirty = {r}]
  <2>1. Private(s, v) /\ t.pc = "insert"
    BY <1>1 DEF PlaceInsert
  <2>2. /\ v.pc = "reserve" /\ v.entries = t.entries /\ v.settled = t.settled
        /\ v.todoBets = t.todoBets /\ v.dirty = {r}
    BY <1>t DEF TxRecords
  <2>. HIDE DEF v
  <2>3. PayoutsOK(v)
    <3>1. t.entries = {} /\ t.settled = {} /\ t.todoBets = {}
      BY <1>t, <2>1 DEF PayoutsOK
    <3>2. IsFiniteSet({r})
      BY FS_Singleton
    <3>. QED BY <2>2, <3>1, <3>2, NoPayouts
  <2>. QED BY <1>t, <2>1, <2>3, PrivatePayouts
<1>2. ASSUME NEW m \in Requests, PlaceLock(s, m) PROVE PayoutInv'
  <2>. DEFINE v == [t EXCEPT !.todo = @ \ {m}, !.locked = @ \cup {m}, !.rows[m] = orders[m]]
  <2>1. Private(s, v) /\ t.pc = "lock"
    BY <1>2 DEF PlaceLock
  <2>2. /\ v.pc = "lock" /\ v.entries = t.entries /\ v.settled = t.settled
        /\ v.todoBets = t.todoBets /\ v.dirty = t.dirty /\ v.order = t.order
    BY <1>t, <2>1 DEF TxRecords
  <2>. HIDE DEF v
  <2>3. PayoutsOK(v)
    BY <1>t, <2>1, <2>2 DEF PayoutsOK
  <2>. QED BY <1>t, <2>1, <2>3, PrivatePayouts
<1>5. ASSUME PlaceMakers(s) PROVE PayoutInv'
  <2>. DEFINE v == [t EXCEPT !.pc = "match", !.todo = t.locked \cap Matchable(r)]
  <2>1. Private(s, v) /\ t.pc = "lock"
    BY <1>5 DEF PlaceMakers
  <2>2. /\ v.pc = "match" /\ v.entries = t.entries /\ v.settled = t.settled
        /\ v.todoBets = t.todoBets /\ v.dirty = t.dirty /\ v.order = t.order
    BY <1>t DEF TxRecords
  <2>. HIDE DEF v
  <2>3. PayoutsOK(v)
    BY <1>t, <2>1, <2>2 DEF PayoutsOK
  <2>. QED BY <1>t, <2>1, <2>3, PrivatePayouts
<1>6. ASSUME NEW m \in Requests, SettleFlush(s, m) PROVE PayoutInv'
  <2>. DEFINE v == [t EXCEPT !.locked = @ \cup {m}]
  <2>1. Private(s, v)
    BY <1>6 DEF SettleFlush
  <2>2. /\ v.pc = t.pc /\ v.entries = t.entries /\ v.settled = t.settled /\ v.winner = t.winner
        /\ v.todoBets = t.todoBets /\ v.dirty = t.dirty /\ v.order = t.order
        /\ v.rows = t.rows /\ v.todo = t.todo
    BY <1>t DEF TxRecords
  <2>. HIDE DEF v
  <2>3. PayoutsOK(v)
    BY <1>t, <2>2 DEF PayoutsOK
  <2>. QED BY <1>t, <2>1, <2>3, PrivatePayouts
<1>3. ASSUME CancelFlush(s) PROVE PayoutInv'
  <2>. DEFINE v == [t EXCEPT !.pc = "cancelRelease", !.locked = {r}, !.dirty = {r},
                             !.rows[r].status = "CANCELLED"]
  <2>1. Private(s, v) /\ t.pc = "cancelFlush"
    BY <1>3 DEF CancelFlush
  <2>2. /\ v.pc = "cancelRelease" /\ v.entries = t.entries /\ v.settled = t.settled
        /\ v.todoBets = t.todoBets /\ v.dirty = {r}
    BY <1>t DEF TxRecords
  <2>. HIDE DEF v
  <2>3. PayoutsOK(v)
    <3>1. t.entries = {} /\ t.settled = {} /\ t.todoBets = {}
      BY <1>t, <2>1 DEF PayoutsOK
    <3>2. IsFiniteSet({r})
      BY FS_Singleton
    <3>. QED BY <2>2, <3>1, <3>2, NoPayouts
  <2>. QED BY <1>t, <2>1, <2>3, PrivatePayouts
<1>4. ASSUME NEW m \in Requests, PlaceMatch(s, m) PROVE PayoutInv'
  <2>1. PICK rows, todo, newBets :
          Private(s, [t EXCEPT !.rows = rows, !.dirty = @ \cup {m}, !.todo = todo, !.newBets = newBets])
    BY <1>4 DEF PlaceMatch
  <2>. DEFINE v == [t EXCEPT !.rows = rows, !.dirty = @ \cup {m}, !.todo = todo, !.newBets = newBets]
  <2>2. /\ v.pc = t.pc /\ v.entries = t.entries /\ v.settled = t.settled
        /\ v.todoBets = t.todoBets /\ v.dirty = t.dirty \cup {m} /\ v.order = t.order
        /\ t.pc = "match"
    BY <1>4, <1>t DEF TxRecords, PlaceMatch
  <2>3. Private(s, v)
    BY <2>1
  <2>4. IsFiniteSet(v.dirty)
    BY <1>t, <2>2, FS_AddElement
  <2>. HIDE DEF v
  <2>5. PayoutsOK(v)
    BY <1>t, <2>2, <2>4 DEF PayoutsOK
  <2>. QED BY <1>t, <2>3, <2>5, PrivatePayouts
<1>. QED BY <1>1, <1>2, <1>3, <1>4, <1>5, <1>6

\* Ends without a commit.
LEMMA RollbackPayouts ==
  ASSUME Inv, WalletInv, PayoutInv, NEW s \in Sessions,
         Rollback(s) \/ TransitionCommit(s)
  PROVE  PayoutInv'
<1>1. /\ End(s) /\ UNCHANGED <<bets, wallets, ledger>>
      /\ market'.status # "SETTLED" => market.status # "SETTLED"
  BY DEF Rollback, TransitionCommit, Inv, SessionOK, MarketCopyOK
<1>2. Unreleased'
  BY <1>1 DEF PayoutInv, Unreleased
<1>. QED BY <1>1, <1>2, EndPayouts DEF Inv, PayoutInv

\* A payment is the one entry for its bet, and adds what it is to its owner's sums.
LEMMA SettleBetPayouts ==
  ASSUME Inv, LedgerInv, WalletInv, PayoutInv, NEW s \in Sessions, NEW b \in tx[s].todoBets,
         SettleBet(s, b)
  PROVE  PayoutInv'
<1>. DEFINE t == tx[s]
            w == t.winner
            won == BetOrder(b).selection = t.winner
            d == SettleBetDeltas(b.side, BetPrice(b), b.stake, won)
            p == Post(s, t, BetUser(b), SettleKey(b), d.balance, d.reserved)
            v == [p EXCEPT !.todoBets = @ \ {b}, !.settled = @ \cup {b}]
            e == Payment(b, w)
<1>t. t \in TxRecords /\ b \in BetRecords /\ TypeOK
  BY TxType DEF Inv, TxRecords
<1>u. /\ BetUser(b) \in Users /\ d.balance \in Int /\ d.reserved \in Int
      /\ SettleKey(b) \in LedgerKeys
  BY <1>t, BetType, SettleType
<1>q. Private(s, v) /\ t.pc = "settleBets" /\ b \in t.todoBets
  BY DEF SettleBet
<1>e. e = [key |-> SettleKey(b), user |-> BetUser(b), balance |-> d.balance, reserved |-> d.reserved]
  BY DEF Payment
<1>1. PayoutsOK(t) /\ IsFiniteSet(t.entries) /\ t.entries \in SUBSET LedgerEntries
  BY <1>t DEF PayoutInv, WalletInv, WalletCopiesOK, TxRecords
<1>2. t.dirty = {}
  BY <1>q DEF Inv, SessionOK, PhaseOK
<1>3. market.status # "SETTLED" => \A x \in ledger \cup t.entries : x.key # SettleKey(b)
  <2>. SUFFICES ASSUME market.status # "SETTLED", NEW x \in ledger \cup t.entries,
                       x.key = SettleKey(b)
                PROVE  FALSE
    OBVIOUS
  <2>1. x.key[1] = "settle" /\ x.key[2] = b
    BY KeyTags
  <2>2. b \notin t.settled /\ b \notin settledBets
    BY <1>1, <1>q DEF PayoutsOK, LedgerInv, LedgerOK
  <2>3. PaymentsFor(t.entries, t.settled, t.winner)
    BY DEF LedgerInv, PostingsOK
  <2>4. PICK y \in Selections : PaymentsFor(ledger, settledBets, y)
    BY DEF LedgerInv, LedgerOK
  <2>. QED BY <2>1, <2>2, <2>3, <2>4 DEF PaymentsFor
<1>4. market.status # "SETTLED" => p.entries = t.entries \cup {e}
  <2>. HIDE DEF d
  <2>. QED BY <1>t, <1>3, <1>e DEF Post, TxRecords
<1>p. p \in TxRecords /\ p.pc = t.pc /\ p.dirty = t.dirty /\ p.rows = t.rows
  <2>. HIDE DEF d
  <2>. QED BY <1>t, <1>u, PostType, PostFields
<1>5. p.winner = w /\ p.settled = t.settled /\ p.todoBets = t.todoBets
  BY <1>t DEF Post, TxRecords
<1>. HIDE DEF p, d
<1>6. /\ v.pc = "settleBets" /\ v.dirty = {} /\ v.rows = t.rows /\ v.winner = w
      /\ v.settled = t.settled \cup {b} /\ v.todoBets = t.todoBets \ {b} /\ v.entries = p.entries
  BY <1>p, <1>5, <1>2, <1>q DEF TxRecords
<1>7. /\ v.settled \cup v.todoBets = t.settled \cup t.todoBets
      /\ v.settled \cap v.todoBets = {} /\ b \notin t.settled
  BY <1>1, <1>q, <1>6 DEF PayoutsOK
<1>8. e \in LedgerEntries /\ e.user = BetUser(b) /\ e.balance \in Int /\ e.reserved \in Int
      /\ e.key = SettleKey(b)
  BY <1>t, PaymentType
<1>. HIDE DEF v
<1>9. ASSUME market.status # "SETTLED", NEW u \in Users
      PROVE  /\ BalanceOf(EntriesFor(v.entries, u)) = PaidOut(BetsOf(v.settled, u), v.winner)
             /\ ReservedOf(EntriesFor(v.entries, u)) =
                  Unheld(BetsOf(v.settled, u), v.winner) - RestReleased(v.rows, OrdersOf(v.dirty, u))
  <2>1. e \notin t.entries /\ v.entries = t.entries \cup {e}
    BY <1>3, <1>4, <1>6, <1>8, <1>9
  <2>2. /\ BalanceOf(EntriesFor(t.entries, u)) = PaidOut(BetsOf(t.settled, u), w)
        /\ ReservedOf(EntriesFor(t.entries, u)) =
             Unheld(BetsOf(t.settled, u), w) - RestReleased(t.rows, OrdersOf(t.dirty, u))
    BY <1>1, <1>q, <1>9 DEF PayoutsOK
  <2>3. OrdersOf(t.dirty, u) = {} /\ OrdersOf(v.dirty, u) = {}
    BY <1>2, <1>6 DEF OrdersOf
  <2>4. RestReleased(t.rows, {}) = 0
    BY <1>t, RestSums DEF TxRecords
  <2>5. /\ BetsOf(t.settled, u) \in SUBSET BetRecords /\ IsFiniteSet(BetsOf(t.settled, u))
    BY <1>1, <1>t, FS_Subset DEF BetsOf, PayoutsOK, TxRecords
  <2>6. /\ PaidOut(BetsOf(t.settled, u), w) \in Int /\ Unheld(BetsOf(t.settled, u), w) \in Int
    BY <2>5, PaymentSums
  <2>. HIDE DEF e
  <2>7. CASE u = BetUser(b)
    <3>1. BetsOf(v.settled, u) = BetsOf(t.settled, u) \cup {b} /\ b \notin BetsOf(t.settled, u)
      BY <1>6, <1>7, <2>7 DEF BetsOf
    <3>2. /\ PaidOut(BetsOf(v.settled, u), w) = PaidOut(BetsOf(t.settled, u), w) + e.balance
          /\ Unheld(BetsOf(v.settled, u), w) = Unheld(BetsOf(t.settled, u), w) + e.reserved
      BY <1>t, <2>5, <3>1, PaymentSums DEF e
    <3>3. /\ BalanceOf(EntriesFor(v.entries, u)) = BalanceOf(EntriesFor(t.entries, u)) + e.balance
          /\ ReservedOf(EntriesFor(v.entries, u)) = ReservedOf(EntriesFor(t.entries, u)) + e.reserved
      BY <1>1, <1>8, <2>1, <2>7, EntriesMore
    <3>4. /\ RestReleased(t.rows, OrdersOf(t.dirty, u)) = 0
          /\ RestReleased(v.rows, OrdersOf(v.dirty, u)) = 0
      BY <1>6, <2>3, <2>4
    <3>5. /\ PaidOut(BetsOf(v.settled, u), v.winner) = PaidOut(BetsOf(v.settled, u), w)
          /\ Unheld(BetsOf(v.settled, u), v.winner) = Unheld(BetsOf(v.settled, u), w)
      BY <1>6
    <3>6. e.balance \in Int /\ e.reserved \in Int
      BY <1>8
    <3>. HIDE DEF t, w
    <3>. QED BY <2>2, <2>6, <3>2, <3>3, <3>4, <3>5, <3>6
  <2>8. CASE u # BetUser(b)
    <3>1. BetsOf(v.settled, u) = BetsOf(t.settled, u)
      BY <1>6, <2>8 DEF BetsOf
    <3>2. EntriesFor(v.entries, u) = EntriesFor(t.entries, u)
      BY <1>8, <2>1, <2>8 DEF EntriesFor
    <3>. QED BY <1>6, <2>2, <2>3, <3>1, <3>2
  <2>. QED BY <2>7, <2>8
<1>10. PayoutsOK(v)
  <2>1. /\ IsFiniteSet(v.settled) /\ IsFiniteSet(v.dirty)
    BY <1>1, <1>6, FS_AddElement, FS_EmptySet DEF PayoutsOK
  <2>. QED BY <1>1, <1>6, <1>7, <1>9, <2>1 DEF PayoutsOK
<1>. QED BY <1>t, <1>q, <1>10, PrivatePayouts

\* Listing the resting orders, after all bets, posts nothing.
LEMMA SettleListOrdersPayouts ==
  ASSUME Inv, PayoutInv, NEW s \in Sessions, SettleListOrders(s)
  PROVE  PayoutInv'
<1>. DEFINE t == tx[s]
            open == {r \in Requests : orders[r].status \in OpenStatuses}
            rows == [r \in Requests |-> IF r \in open THEN orders[r] ELSE NoRow]
            v == [t EXCEPT !.pc = "settleOrders", !.todo = open, !.rows = rows]
<1>t. t \in TxRecords /\ TypeOK
  BY TxType DEF Inv
<1>q. Private(s, v) /\ t.pc = "settleBets" /\ t.todoBets = {}
  BY DEF SettleListOrders
<1>1. /\ v.pc = "settleOrders" /\ v.dirty = t.dirty /\ v.settled = t.settled /\ v.winner = t.winner
      /\ v.todoBets = {} /\ v.entries = t.entries /\ v.rows = rows
  BY <1>t, <1>q DEF TxRecords
<1>2. t.dirty = {} /\ PayoutsOK(t)
  BY <1>q DEF Inv, SessionOK, PhaseOK, PayoutInv
<1>3. t.rows \in [Requests -> OrderRows] /\ v.rows \in [Requests -> OrderRows]
  BY <1>t, <1>1, RowRecords DEF TypeOK, TxRecords
<1>4. RestReleased(t.rows, {}) = 0 /\ RestReleased(v.rows, {}) = 0
  BY <1>3, RestSums
<1>5. \A u : OrdersOf(t.dirty, u) = {} /\ OrdersOf(v.dirty, u) = {}
  BY <1>1, <1>2 DEF OrdersOf
<1>6. \A r \in v.todo : v.rows[r].matched <= r.stake
  <2>1. \A r \in open : orders[r].matched <= r.stake
    BY DEF Inv, TablesOK, RowsCoherent, Coherent
  <2>2. v.todo = open
    BY <1>t DEF TxRecords
  <2>. QED BY <1>1, <2>1, <2>2
<1>. HIDE DEF v
<1>7. PayoutsOK(v)
  BY <1>q, <1>1, <1>2, <1>4, <1>5, <1>6 DEF PayoutsOK
<1>. QED BY <1>t, <1>q, <1>7, PrivatePayouts

\* No rest releases less than nothing.
LEMMA RestNonNegative ==
  ASSUME NEW r \in Requests, NEW row \in OrderRows, row.matched <= r.stake
  PROVE  RestExposure(r, row) >= 0
<1>1. Remaining(r, row) \in Nat
  BY RequestType DEF Remaining, OrderRows
<1>2. \A x \in Nat : RoundHalfEven(x) >= 0
  BY SMT DEF RoundHalfEven, Hundredths
<1>3. r.price \in Nat /\ r.price - Hundredths \in Nat
  BY RequestType DEF Prices, Hundredths
<1>4. \A x, y \in Nat : x * y \in Nat
  BY SMT
<1>5. Remaining(r, row) * (r.price - Hundredths) \in Nat
  BY <1>1, <1>3, <1>4
<1>. QED BY <1>1, <1>2, <1>5 DEF RestExposure, LiabilityMinor, Winnings

\* A release is the one entry for its order, and takes the rest of it from its
\* owner's reservation.
LEMMA SettleOrderPayouts ==
  ASSUME Inv, WalletInv, PayoutInv, NEW s \in Sessions, NEW r \in Requests, SettleOrder(s, r)
  PROVE  PayoutInv'
<1>. DEFINE t == tx[s]
            release == ReleaseAmount(r.side, r.price, Remaining(r, t.rows[r]))
            back == - release
            key == ReleaseSettleKey(r)
            e == [key |-> key, user |-> r.user, balance |-> 0, reserved |-> back]
            p == Post(s, t, r.user, ReleaseSettleKey(r), 0, back)
            paid == IF release > 0 THEN p ELSE t
            v == [paid EXCEPT !.todo = @ \ {r}, !.dirty = @ \cup {r}, !.rows[r].status = "CANCELLED"]
<1>t. t \in TxRecords /\ TypeOK /\ t.rows[r] \in OrderRows
  BY TxType DEF Inv
<1>q. Private(s, v) /\ t.pc = "settleOrders" /\ r \in t.todo
  BY DEF SettleOrder
<1>1. release \in Int /\ release = RestExposure(r, t.rows[r])
  BY <1>t, RestType, RequestType DEF RestExposure, ReleaseAmount, LiabilityMinor
<1>2. r \notin t.dirty
  BY <1>q DEF Inv, SessionOK, PhaseOK
<1>3. release >= 0
  <2>1. t.rows[r].matched <= r.stake
    BY <1>q DEF PayoutInv, PayoutsOK
  <2>. QED BY <1>t, <1>1, <2>1, RestNonNegative
<1>. HIDE DEF release
<1>4. back \in Int /\ 0 \in Int /\ r.user \in Users /\ ReleaseSettleKey(r) \in LedgerKeys
  BY <1>1, RequestType DEF ReleaseSettleKey, LedgerKeys
<1>5. /\ \A x \in t.entries : x.key # key
      /\ market.status # "SETTLED" => \A x \in ledger : x.key # key
  BY <1>2 DEF Inv, SessionOK, ReleasesOK, ReleaseKeys, PayoutInv, Unreleased
<1>6. PayoutsOK(t) /\ IsFiniteSet(t.entries) /\ t.entries \in SUBSET LedgerEntries
  BY <1>t DEF PayoutInv, WalletInv, WalletCopiesOK, TxRecords
<1>e. e \in LedgerEntries /\ e.user = r.user /\ e.balance = 0 /\ e.reserved = back /\ e \notin t.entries
  BY <1>4, <1>5 DEF LedgerEntries
<1>7. p \in TxRecords
  <2>. HIDE DEF t
  <2>1. t \in TxRecords /\ TypeOK
    BY <1>t
  <2>. QED BY <2>1, <1>4, PostType
<1>8. /\ p.pc = t.pc /\ p.dirty = t.dirty /\ p.rows = t.rows /\ p.winner = t.winner
      /\ p.settled = t.settled /\ p.todoBets = t.todoBets /\ p.todo = t.todo
      /\ market.status # "SETTLED" => p.entries = t.entries \cup {e}
  BY <1>t, <1>5 DEF Post, TxRecords
<1>. HIDE DEF p
<1>9. /\ paid \in TxRecords /\ paid.pc = t.pc /\ paid.dirty = t.dirty /\ paid.rows = t.rows
      /\ paid.winner = t.winner /\ paid.settled = t.settled /\ paid.todoBets = t.todoBets
      /\ paid.todo = t.todo
      /\ market.status # "SETTLED" =>
           paid.entries = IF release > 0 THEN t.entries \cup {e} ELSE t.entries
  BY <1>t, <1>7, <1>8
<1>. HIDE DEF paid
<1>r. [t.rows[r] EXCEPT !.status = "CANCELLED"].matched = t.rows[r].matched
      /\ [t.rows[r] EXCEPT !.status = "CANCELLED"] \in OrderRows
  BY <1>t DEF OrderRows, OrderStatuses
<1>10. /\ v.pc = "settleOrders" /\ v.dirty = t.dirty \cup {r} /\ v.winner = t.winner
       /\ v.settled = t.settled /\ v.todoBets = t.todoBets /\ v.entries = paid.entries
       /\ v.todo = t.todo \ {r}
       /\ v.rows = [t.rows EXCEPT ![r] = [t.rows[r] EXCEPT !.status = "CANCELLED"]]
  BY <1>9, <1>q DEF TxRecords
<1>11. v.rows \in [Requests -> OrderRows] /\ \A q \in Requests : v.rows[q].matched = t.rows[q].matched
  <2>1. t.rows \in [Requests -> OrderRows]
    BY <1>t DEF TxRecords
  <2>. HIDE DEF v, t
  <2>2. v.rows \in [Requests -> OrderRows]
    BY <1>r, <1>10, <2>1
  <2>3. ASSUME NEW q \in Requests PROVE v.rows[q].matched = t.rows[q].matched
    <3>1. v.rows[q] = IF q = r THEN [t.rows[r] EXCEPT !.status = "CANCELLED"] ELSE t.rows[q]
      BY <1>10, <2>1
    <3>. QED BY <1>r, <3>1
  <2>. QED BY <2>2, <2>3
<1>. HIDE DEF v
<1>12. ASSUME market.status # "SETTLED", NEW u \in Users
       PROVE  /\ BalanceOf(EntriesFor(v.entries, u)) = PaidOut(BetsOf(v.settled, u), v.winner)
              /\ ReservedOf(EntriesFor(v.entries, u)) =
                   Unheld(BetsOf(v.settled, u), v.winner) - RestReleased(v.rows, OrdersOf(v.dirty, u))
  <2>. DEFINE D == OrdersOf(t.dirty, u)
              H == Unheld(BetsOf(t.settled, u), t.winner)
  <2>1. /\ BalanceOf(EntriesFor(t.entries, u)) = PaidOut(BetsOf(t.settled, u), t.winner)
        /\ ReservedOf(EntriesFor(t.entries, u)) = H - RestReleased(t.rows, D)
    BY <1>6, <1>q, <1>12 DEF PayoutsOK
  <2>2. D \in SUBSET Requests /\ IsFiniteSet(D) /\ r \notin D /\ t.rows \in [Requests -> OrderRows]
    BY <1>2, <1>6, <1>t, FS_Subset DEF OrdersOf, PayoutsOK, TxRecords
  <2>3. RestReleased(t.rows, D) \in Int
    BY <2>2, RestSums
  <2>4. H \in Int
    <3>1. BetsOf(t.settled, u) \in SUBSET BetRecords /\ IsFiniteSet(BetsOf(t.settled, u))
      BY <1>6, <1>t, FS_Subset DEF BetsOf, PayoutsOK, TxRecords
    <3>. QED BY <3>1, PaymentSums
  <2>5. /\ BalanceOf(EntriesFor(t.entries, u)) \in Int
    BY <1>6, EntriesInt
  <2>. HIDE DEF D, H, e, t
  <2>6. RestReleased(v.rows, D) = RestReleased(t.rows, D)
    BY <1>11, <2>2, RestSums
  <2>7. CASE u = r.user
    <3>1. OrdersOf(v.dirty, u) = D \cup {r}
      BY <1>10, <2>7 DEF OrdersOf, D
    <3>2. RestReleased(v.rows, D \cup {r}) = RestReleased(v.rows, D) + RestExposure(r, v.rows[r])
      BY <1>11, <2>2, RestSums
    <3>3. RestExposure(r, v.rows[r]) = release
      BY <1>1, <1>11 DEF RestExposure, Remaining
    <3>4. /\ BalanceOf(EntriesFor(v.entries, u)) = BalanceOf(EntriesFor(t.entries, u)) + 0
          /\ ReservedOf(EntriesFor(v.entries, u)) = ReservedOf(EntriesFor(t.entries, u)) - release
      <4>1. CASE release > 0
        <5>1. v.entries = t.entries \cup {e}
          BY <1>9, <1>10, <1>12, <4>1
        <5>2. /\ BalanceOf(EntriesFor(v.entries, u)) = BalanceOf(EntriesFor(t.entries, u)) + e.balance
              /\ ReservedOf(EntriesFor(v.entries, u)) = ReservedOf(EntriesFor(t.entries, u)) + e.reserved
          BY <1>6, <1>e, <2>7, <5>1, EntriesMore
        <5>. QED BY <1>1, <1>e, <2>1, <2>3, <2>4, <2>5, <5>2
      <4>2. CASE release = 0
        BY <1>9, <1>10, <1>12, <2>1, <2>3, <2>4, <2>5, <4>2
      <4>. QED BY <1>1, <1>3, <4>1, <4>2
    <3>5. RestReleased(v.rows, OrdersOf(v.dirty, u)) = RestReleased(t.rows, D) + release
      BY <2>6, <3>1, <3>2, <3>3
    <3>6. /\ PaidOut(BetsOf(v.settled, u), v.winner) = PaidOut(BetsOf(t.settled, u), t.winner)
          /\ Unheld(BetsOf(v.settled, u), v.winner) = H
      BY <1>10 DEF H
    <3>. QED BY <1>1, <2>1, <2>3, <2>4, <2>5, <3>4, <3>5, <3>6
  <2>8. CASE u # r.user
    <3>1. OrdersOf(v.dirty, u) = D
      BY <1>10, <2>8 DEF OrdersOf, D
    <3>2. EntriesFor(v.entries, u) = EntriesFor(t.entries, u)
      BY <1>9, <1>10, <1>12, <1>e, <2>8 DEF EntriesFor
    <3>. QED BY <1>10, <2>1, <2>6, <3>1, <3>2 DEF H
  <2>. QED BY <2>7, <2>8
<1>13. PayoutsOK(v)
  <2>1. IsFiniteSet(v.dirty)
    <3>1. IsFiniteSet(t.dirty)
      BY <1>6 DEF PayoutsOK
    <3>2. v.dirty = t.dirty \cup {r}
      BY <1>10
    <3>. HIDE DEF t
    <3>. QED BY <3>1, <3>2, FS_AddElement
  <2>2. \A q \in v.todo : v.rows[q].matched <= q.stake
    <3>1. \A q \in t.todo : q \in Requests /\ t.rows[q].matched <= q.stake
      BY <1>t, <1>q, <1>6 DEF PayoutsOK, TxRecords
    <3>. QED BY <1>10, <1>11, <3>1
  <2>. QED BY <1>q, <1>6, <1>10, <1>12, <2>1, <2>2 DEF PayoutsOK
<1>. QED BY <1>t, <1>q, <1>13, PrivatePayouts

\* The commit of a placement adds a hold, of balance 0.
LEMMA PlaceCommitPayouts ==
  ASSUME Inv, WalletInv, PayoutInv, NEW s \in Sessions, PlaceCommit(s)
  PROVE  PayoutInv'
<1>. DEFINE t == tx[s]
            r == t.order
            status == StatusOf(r, t.rows[r])
            v == [t EXCEPT !.rows[r].status = status]
<1>t. t \in TxRecords /\ TypeOK /\ r \in Requests
  BY TxType DEF Inv
<1>1. status \in OrderStatuses
  BY DEF StatusOf, OrderStatuses
<1>2. [t.rows[r] EXCEPT !.status = status] \in OrderRows
  <2>. HIDE DEF status
  <2>. QED BY <1>t, <1>1, TxType DEF OrderRows
<1>3. v \in TxRecords /\ SameMoney(v, t) /\ v.entries = t.entries
  <2>. HIDE DEF status
  <2>. QED BY <1>t, <1>2 DEF TxRecords, SameMoney
<1>4. Commit(s, v) /\ t.pc = "match" /\ UNCHANGED market
  BY DEF PlaceCommit
<1>5. t.entries = {Hold(r)}
  BY <1>4 DEF PayoutInv, PayoutsOK
<1>6. BalanceOf(v.entries) = 0
  BY <1>t, <1>3, <1>5, HoldType, OneEntry
<1>8. \A q \in Requests : \A e \in v.entries : e.key # ReleaseSettleKey(q)
  BY <1>3, <1>5 DEF Hold, HoldKey, ReleaseSettleKey
<1>. HIDE DEF v
<1>7. MoneyOf(s, v)
  BY <1>3 DEF MoneyOf
<1>. QED BY <1>t, <1>3, <1>4, <1>6, <1>7, <1>8, CommitPayouts

\* The one entry of a cancel moves no balance.
LEMMA CancelEntries ==
  ASSUME Inv, PayoutInv, NEW s \in Sessions, CancelRelease(s)
  PROVE  LET t == tx[s]
             r == t.order
             amount == RestExposure(r, t.rows[r])
             p == Post(s, t, r.user, ReleaseKey(r), 0, - amount)
             e == [key |-> ReleaseKey(r), user |-> r.user, balance |-> 0, reserved |-> - amount]
         IN  /\ p \in TxRecords /\ Commit(s, p) /\ MoneyOf(s, p)
             /\ t.entries = {} /\ p.entries = {e} /\ e \in LedgerEntries
             /\ p.dirty = t.dirty /\ p.rows = t.rows /\ p.newBets = t.newBets
             /\ p.settled = t.settled /\ amount \in Int
<1>. DEFINE t == tx[s]
            r == t.order
            amount == RestExposure(r, t.rows[r])
            back == - amount
            p == Post(s, t, r.user, ReleaseKey(r), 0, back)
            e == [key |-> ReleaseKey(r), user |-> r.user, balance |-> 0, reserved |-> back]
<1>t. t \in TxRecords /\ r \in Requests /\ TypeOK /\ t.rows[r] \in OrderRows
  BY TxType DEF Inv
<1>1. amount \in Int
  BY <1>t, RestType
<1>q. Commit(s, p) /\ WalletFree(s, r.user) /\ t.pc = "cancelRelease"
  BY DEF CancelRelease, RestExposure
<1>. HIDE DEF amount
<1>2. back \in Int /\ 0 \in Int /\ r.user \in Users /\ ReleaseKey(r) \in LedgerKeys
  BY <1>1, <1>t, RequestType DEF ReleaseKey, LedgerKeys
<1>3. t.entries = {}
  BY <1>q DEF PayoutInv, PayoutsOK
<1>4. orders[r].status \in OpenStatuses
  BY <1>q DEF Inv, SessionOK, PhaseOK, WritesOK, Taking, PlacePCs
<1>5. \A x \in ledger \cup t.entries : x.key # ReleaseKey(r)
  BY <1>t, <1>3, <1>4 DEF Inv, TablesOK, ReleaseExact, ReleasesExact, ReleaseKeys, OpenStatuses
<1>6. p \in TxRecords
  <2>. HIDE DEF t, back
  <2>1. t \in TxRecords /\ TypeOK
    BY <1>t
  <2>. QED BY <2>1, <1>2, PostType
<1>7. /\ p.dirty = t.dirty /\ p.rows = t.rows /\ p.settled = t.settled /\ p.newBets = t.newBets
      /\ p.entries = {e}
  BY <1>t, <1>3, <1>5 DEF Post, TxRecords
<1>8. e \in LedgerEntries
  BY <1>2 DEF LedgerEntries
<1>9. MoneyOf(s, p)
  <2>1. SameMoney(p, p)
    BY DEF SameMoney
  <2>. HIDE DEF back
  <2>. QED BY <1>2, <1>q, <2>1 DEF MoneyOf
<1>. HIDE DEF p, e
<1>10. /\ p \in TxRecords /\ Commit(s, p) /\ MoneyOf(s, p)
       /\ t.entries = {} /\ p.entries = {e} /\ e \in LedgerEntries
       /\ p.dirty = t.dirty /\ p.rows = t.rows /\ p.newBets = t.newBets
       /\ p.settled = t.settled /\ amount \in Int
  BY <1>q, <1>1, <1>3, <1>6, <1>7, <1>8, <1>9
<1>. QED BY <1>10 DEF p, e, amount

\* The commit of a cancellation adds a release, of balance 0.
LEMMA CancelReleasePayouts ==
  ASSUME Inv, WalletInv, PayoutInv, NEW s \in Sessions, CancelRelease(s)
  PROVE  PayoutInv'
<1>1. PICK p \in TxRecords, e \in LedgerEntries :
        /\ Commit(s, p) /\ MoneyOf(s, p) /\ p.entries = {e} /\ e.balance = 0
        /\ \A r \in Requests : e.key # ReleaseSettleKey(r)
  <2>. DEFINE r == tx[s].order
              amount == RestExposure(r, tx[s].rows[r])
              p == Post(s, tx[s], r.user, ReleaseKey(r), 0, - amount)
              e == [key |-> ReleaseKey(r), user |-> r.user, balance |-> 0, reserved |-> - amount]
  <2>1. /\ p \in TxRecords /\ Commit(s, p) /\ MoneyOf(s, p) /\ p.entries = {e} /\ e \in LedgerEntries
    BY CancelEntries
  <2>2. e.balance = 0 /\ \A q \in Requests : e.key # ReleaseSettleKey(q)
    BY DEF ReleaseKey, ReleaseSettleKey
  <2>. HIDE DEF p, e
  <2>. QED BY <2>1, <2>2
<1>2. BalanceOf(p.entries) = 0
  BY <1>1, OneEntry
<1>3. UNCHANGED market
  BY DEF CancelRelease
<1>. QED BY <1>1, <1>2, <1>3, CommitPayouts DEF Inv

\* The commit of a settlement adds payments that come to 0.
LEMMA SettleCommitPayouts ==
  ASSUME Inv, WalletInv, FillInv, PayoutInv, NEW s \in Sessions, SettleCommit(s)
  PROVE  PayoutInv'
<1>1. tx[s] \in TxRecords /\ TypeOK
  BY TxType DEF Inv
<1>2. /\ Commit(s, tx[s]) /\ tx[s].pc = "settleOrders" /\ market'.status = "SETTLED"
      /\ tx[s].market.version = market.version
  BY DEF SettleCommit
<1>3. market.status # "SETTLED"
  BY <1>2 DEF Inv, SessionOK, MarketCopyOK
<1>4. BalanceOf(tx[s].entries) = 0
  BY <1>1, <1>2, <1>3, SettlementPaysNothing
<1>5. MoneyOf(s, tx[s])
  BY DEF MoneyOf, SameMoney
<1>. QED BY <1>1, <1>2, <1>3, <1>4, <1>5, CommitPayouts

\* Every step keeps it.
LEMMA PayoutStep ==
  Inv /\ LedgerInv /\ WalletInv /\ FillInv /\ PayoutInv /\ [Next]_vars => PayoutInv'
<1>. SUFFICES ASSUME Inv, LedgerInv, WalletInv, FillInv, PayoutInv, [Next]_vars PROVE PayoutInv'
  OBVIOUS
<1>1. CASE UNCHANGED vars
  BY <1>1 DEF vars, PayoutInv, PayoutsOK, Available, Unreleased
<1>2. ASSUME NEW s \in Sessions, PlaceNext(s) PROVE PayoutInv'
  <2>1. CASE UNCHANGED vars
    BY <1>1, <2>1
  <2>2. CASE Rollback(s)
    BY <2>2, RollbackPayouts
  <2>. QED
    BY <1>2, <2>1, <2>2, BeginPayouts, SamePayouts, PlaceReservePayouts, PlaceCommitPayouts
       DEF PlaceNext, PlaceAnswer, PlaceDuplicate, PlaceRefuse
<1>3. ASSUME NEW s \in Sessions, CancelNext(s) PROVE PayoutInv'
  BY <1>3, BeginPayouts, SamePayouts, CancelReleasePayouts DEF CancelNext
<1>4. ASSUME NEW s \in Sessions, SettleNext(s) PROVE PayoutInv'
  BY <1>4, BeginPayouts, SamePayouts, SettleBetPayouts, SettleListOrdersPayouts,
     SettleOrderPayouts, SettleCommitPayouts
     DEF SettleNext
<1>5. ASSUME NEW s \in Sessions, TransitionNext(s) PROVE PayoutInv'
  BY <1>5, BeginPayouts, RollbackPayouts DEF TransitionNext
<1>6. ASSUME NEW s \in Sessions, StaleAbort(s) \/ Die(s) PROVE PayoutInv'
  BY <1>6, RollbackPayouts DEF StaleAbort, Die
<1>. QED BY <1>1, <1>2, <1>3, <1>4, <1>5, <1>6 DEF Next

\* It holds initially.
LEMMA InitPayouts == Init => PayoutInv
<1>1. PayoutsOK(IdleTx)
  BY NoPayouts, FS_EmptySet DEF IdleTx
<1>. QED BY <1>1, EntrySums DEF Init, PayoutInv, Unreleased

WalletBalances == [u \in Users |-> wallets[u].balance]

\* All wallets together: the grants and the balances of the ledger.
LEMMA WalletTotal ==
  MapThenSumSet(LAMBDA u : wallets[u].balance, Users) = Total(WalletBalances, Users)
<1>1. \A s \in SUBSET Users : s # {} => WalletBalances[Pick(s)] = wallets[Pick(s)].balance
  BY PickIn DEF WalletBalances
<1>2. \A iter : Unfolds(WalletBalances, Users, iter) <=>
        iter = [s \in SUBSET Users |-> IF s = {} THEN 0
                                       ELSE wallets[Pick(s)].balance + iter[s \ {Pick(s)}]]
  BY <1>1 DEF Unfolds
<1>3. (CHOOSE iter : Unfolds(WalletBalances, Users, iter)) =
        CHOOSE iter :
          iter = [s \in SUBSET Users |-> IF s = {} THEN 0
                                         ELSE wallets[Pick(s)].balance + iter[s \ {Pick(s)}]]
  BY <1>2
<1>4. Total(WalletBalances, Users) = (CHOOSE iter : Unfolds(WalletBalances, Users, iter))[Users]
  BY TotalIs
<1>. QED BY <1>3, <1>4 DEF MapThenSumSet, MapThenFoldSet, Pick

\* The wallets together hold what they were granted.
LEMMA AllTheMoney == TypeOK /\ WalletInv /\ PayoutInv => MoneyConserved
<1>. SUFFICES ASSUME TypeOK, WalletInv, PayoutInv PROVE MoneyConserved
  OBVIOUS
<1>. DEFINE user == [e \in LedgerEntries |-> e.user]
            part == [u \in Users |-> EntriesFor(ledger, u)]
<1>1. ledger \in SUBSET LedgerEntries /\ IsFiniteSet(ledger)
  BY DEF TypeOK, WalletInv
<1>2. ASSUME NEW u \in Users PROVE WalletBalances[u] = Grant + Total(Balances, part[u])
  <2>1. part[u] \in SUBSET LedgerEntries /\ part[u] = EntriesFor(ledger, u)
    BY <1>1 DEF EntriesFor
  <2>2. wallets[u].balance = Grant + BalanceOf(EntriesFor(ledger, u))
    BY DEF WalletInv, WalletIsLedgerSum
  <2>. HIDE DEF part
  <2>. QED BY <2>1, <2>2, BalanceTotal DEF WalletBalances
<1>3. /\ \A u \in Users : part[u] \subseteq ledger
      /\ \A u \in Users : \A e \in ledger : e \in part[u] <=> user[e] = u
  BY <1>1 DEF EntriesFor
<1>4. \A e \in ledger : Balances[e] \in Int
  BY <1>1 DEF Balances, LedgerEntries
<1>5. \A e \in ledger : user[e] \in Users
  BY <1>1 DEF LedgerEntries
<1>6. Grant \in Int /\ IsFiniteSet(Users)
  BY NumbersAssumption, UsersAssumption
<1>. HIDE DEF user, part
<1>7. Total(WalletBalances, Users) = Grant * Cardinality(Users) + Total(Balances, ledger)
  <2>. PICK g : g = WalletBalances
    OBVIOUS
  <2>1. Total(g, Users) = Grant * Cardinality(Users) + Total(Balances, ledger)
    BY <1>1, <1>2, <1>3, <1>4, <1>5, <1>6, TotalGrouped
  <2>. QED BY <2>1
<1>8. Total(Balances, ledger) = 0
  BY <1>1, BalanceTotal DEF PayoutInv
<1>9. Grant * Cardinality(Users) \in Int
  BY <1>6, FS_CardinalityType, NumbersAssumption
<1>. QED BY <1>7, <1>8, <1>9, WalletTotal DEF MoneyConserved

\* The exchange makes and loses no money, whatever is placed, cancelled and settled at
\* the same time and at whatever odds the winnings are rounded.
THEOREM MoneyStays == Spec => []MoneyConserved
<1>1. Init => WalletInv /\ FillInv /\ PayoutInv
  BY InitWallets, InitFills, InitPayouts
<1>2. Inv /\ LedgerInv /\ WalletInv /\ FillInv /\ PayoutInv /\ [Next]_vars
        => WalletInv' /\ FillInv' /\ PayoutInv'
  BY WalletStep, FillStep, PayoutStep
<1>3. Inv /\ WalletInv /\ PayoutInv => MoneyConserved
  BY AllTheMoney DEF Inv
<1>. QED BY <1>1, <1>2, <1>3, Invariant, LedgerInvariant, PTL DEF Spec

-----------------------------------------------------------------------------
(* The contract                                                             *)


\* The contract's odds are the odds.
LEMMA SameOdds ==
  /\ \A side, price, size :
       Contract!LiabilityMinor(side, price, size) = LiabilityMinor(side, price, size)
  /\ \A side, limit, price : Contract!Crosses(side, limit, price) = Crosses(side, limit, price)
  /\ \A side : Contract!Opposite(side) = Opposite(side)
  /\ \A side, price, stake, won :
       Contract!SettleBetDeltas(side, price, stake, won) = SettleBetDeltas(side, price, stake, won)
  BY DEF Contract!LiabilityMinor, LiabilityMinor, Contract!Winnings, Winnings,
     Contract!RoundHalfEven, RoundHalfEven, Contract!Hundredths, Hundredths,
     Contract!Crosses, Crosses, Contract!Opposite, Opposite,
     Contract!SettleBetDeltas, SettleBetDeltas

\* And it pays what a settlement posts.
LEMMA SamePaid ==
  /\ \A b, winner : /\ Contract!Paid(b, winner).balance = Payment(b, winner).balance
                    /\ Contract!Paid(b, winner).reserved = Payment(b, winner).reserved
  /\ \A b : Contract!OrderOf(b).user = BetUser(b)
  BY SameOdds DEF Contract!Paid, Payment, Contract!OrderOf, BetOrder, BetPrice, BetUser

\* The contract's sums are the same sums: payments,
LEMMA ContractPaid ==
  ASSUME NEW winner, NEW S, S \subseteq BetRecords
  PROVE  Contract!Payout(S, winner) = PaidOut(S, winner)
<1>1. \A s \in SUBSET S : s # {} => Paying(winner)[Pick(s)] = Contract!Paid(Pick(s), winner).balance
  BY PickIn, SamePaid DEF Paying
<1>2. \A iter : Unfolds(Paying(winner), S, iter) <=>
        iter = [s \in SUBSET S |-> IF s = {} THEN 0
                                   ELSE Contract!Paid(Pick(s), winner).balance + iter[s \ {Pick(s)}]]
  BY <1>1 DEF Unfolds
<1>3. (CHOOSE iter : Unfolds(Paying(winner), S, iter)) =
        CHOOSE iter :
          iter = [s \in SUBSET S |-> IF s = {} THEN 0
                                     ELSE Contract!Paid(Pick(s), winner).balance + iter[s \ {Pick(s)}]]
  BY <1>2
<1>4. Total(Paying(winner), S) = (CHOOSE iter : Unfolds(Paying(winner), S, iter))[S]
  BY TotalIs
<1>5. Total(Paying(winner), S) = Contract!Payout(S, winner)
  BY <1>3, <1>4 DEF Contract!Payout, Contract!MapThenSumSet, Contract!MapThenFoldSet, Pick
<1>. QED BY <1>5, PaidTotal

\* what they free,
LEMMA ContractUnheld ==
  ASSUME NEW winner, NEW S, S \subseteq BetRecords
  PROVE  Contract!Unheld(S, winner) = Unheld(S, winner)
<1>1. \A s \in SUBSET S : s # {} => Unholding(winner)[Pick(s)] = Contract!Paid(Pick(s), winner).reserved
  BY PickIn, SamePaid DEF Unholding
<1>2. \A iter : Unfolds(Unholding(winner), S, iter) <=>
        iter = [s \in SUBSET S |-> IF s = {} THEN 0
                                   ELSE Contract!Paid(Pick(s), winner).reserved + iter[s \ {Pick(s)}]]
  BY <1>1 DEF Unfolds
<1>3. (CHOOSE iter : Unfolds(Unholding(winner), S, iter)) =
        CHOOSE iter :
          iter = [s \in SUBSET S |-> IF s = {} THEN 0
                                     ELSE Contract!Paid(Pick(s), winner).reserved + iter[s \ {Pick(s)}]]
  BY <1>2
<1>4. Total(Unholding(winner), S) = (CHOOSE iter : Unfolds(Unholding(winner), S, iter))[S]
  BY TotalIs
<1>5. Total(Unholding(winner), S) = Contract!Unheld(S, winner)
  BY <1>3, <1>4 DEF Contract!Unheld, Contract!MapThenSumSet, Contract!MapThenFoldSet, Pick
<1>. QED BY <1>5, UnheldTotal

\* The contract's book is the order table without what only sessions look at.
LEMMA BookRows ==
  \A r \in Requests :
    /\ Contract!Resting(r) <=> orders[r].status \in OpenStatuses
    /\ Contract!Unmatched(r) = Remaining(r, orders[r])
    /\ Contract!RestExposure(r) = RestExposure(r, orders[r])
    /\ Contract!Exposure(r) = Exposure(r)
  BY SameOdds DEF Contract!Resting, OpenStatuses, Contract!Unmatched, Remaining,
     Contract!RestExposure, RestExposure, Contract!Exposure, Exposure

\* and the exposures of the rests.
LEMMA ContractRests ==
  ASSUME NEW S, S \subseteq Requests
  PROVE  Contract!RestReleased(S) = RestReleased(orders, S)
<1>1. \A s \in SUBSET S : s # {} => Resting(orders)[Pick(s)] = Contract!RestExposure(Pick(s))
  BY PickIn, BookRows DEF Resting
<1>2. \A iter : Unfolds(Resting(orders), S, iter) <=>
        iter = [s \in SUBSET S |-> IF s = {} THEN 0
                                   ELSE Contract!RestExposure(Pick(s)) + iter[s \ {Pick(s)}]]
  BY <1>1 DEF Unfolds
<1>3. (CHOOSE iter : Unfolds(Resting(orders), S, iter)) =
        CHOOSE iter :
          iter = [s \in SUBSET S |-> IF s = {} THEN 0
                                     ELSE Contract!RestExposure(Pick(s)) + iter[s \ {Pick(s)}]]
  BY <1>2
<1>4. Total(Resting(orders), S) = (CHOOSE iter : Unfolds(Resting(orders), S, iter))[S]
  BY TotalIs
<1>5. Total(Resting(orders), S) = Contract!RestReleased(S)
  BY <1>3, <1>4 DEF Contract!RestReleased, Contract!MapThenSumSet, Contract!MapThenFoldSet, Pick
<1>. QED BY <1>5, RestTotal

\* A commit moves each wallet by what its entries for that user come to.
LEMMA CommitMoves ==
  ASSUME TypeOK, WalletInv, NEW s \in Sessions, NEW v \in TxRecords, MoneyOf(s, v), Commit(s, v),
         NEW u \in Users
  PROVE  wallets'[u] = [balance |-> wallets[u].balance + BalanceOf(EntriesFor(v.entries, u)),
                        reserved |-> wallets[u].reserved + ReservedOf(EntriesFor(v.entries, u))]
<1>1. WalletCopiesOK(v)
  BY MoneyOK
<1>2. wallets'[u] = IF u \in v.held THEN v.wallets[u] ELSE wallets[u]
  BY DEF Commit
<1>3. CASE u \in v.held
  BY <1>1, <1>2, <1>3 DEF WalletCopiesOK
<1>4. CASE u \notin v.held
  <2>1. EntriesFor(v.entries, u) = {}
    BY <1>1, <1>4 DEF WalletCopiesOK, EntriesFor
  <2>2. wallets[u] \in WalletRows
    BY DEF TypeOK
  <2>3. wallets[u] = [balance |-> wallets[u].balance + 0, reserved |-> wallets[u].reserved + 0]
    BY <2>2 DEF WalletRows
  <2>. QED BY <1>2, <1>4, <2>1, <2>3, EntrySums
<1>. QED BY <1>3, <1>4

\* A step that keeps the tables keeps the purposes if the state it leads to is in order.
LEMMA PurposeKept ==
  ASSUME TypeOK, PurposeInv, NEW s \in Sessions, NEW v, PurposeOK(v), tx' = [tx EXCEPT ![s] = v]
  PROVE  PurposeInv'
<1>1. ASSUME NEW z \in Sessions PROVE PurposeOK(tx[z])'
  <2>1. PICK t : t = IF z = s THEN v ELSE tx[z]
    OBVIOUS
  <2>2. tx'[z] = t /\ PurposeOK(t)
    BY <2>1 DEF TypeOK, PurposeInv
  <2>. QED BY <2>2 DEF PurposeOK
<1>. QED BY <1>1 DEF PurposeInv

\* Every request is started for something that may be asked for, and its
\* session does nothing else.
LEMMA PurposeStep == Inv /\ PurposeInv /\ [Next]_vars => PurposeInv'
<1>. SUFFICES ASSUME Inv, PurposeInv, [Next]_vars PROVE PurposeInv'
  OBVIOUS
<1>v. CASE UNCHANGED vars
  BY <1>v DEF vars, PurposeInv, PurposeOK
<1>. SUFFICES ASSUME NEW s \in Sessions,
                     PlaceNext(s) \/ CancelNext(s) \/ SettleNext(s) \/ TransitionNext(s)
                       \/ StaleAbort(s) \/ Die(s)
              PROVE  PurposeInv'
  BY <1>v DEF Next
<1>. DEFINE t == tx[s]
<1>t. TypeOK /\ t \in TxRecords /\ PurposeOK(t)
  BY TxType DEF PurposeInv, Inv
<1>i. PurposeOK(IdleTx)
  BY DEF PurposeOK, IdleTx
<1>1. CASE End(s)
  BY <1>t, <1>1, <1>i, PurposeKept DEF End
<1>2. ASSUME NEW v, tx' = [tx EXCEPT ![s] = v],
             v.pc \notin {"transition", "settleBets", "settleOrders"}
      PROVE  PurposeInv'
  BY <1>t, <1>2, PurposeKept DEF PurposeOK
<1>3. CASE StaleAbort(s) \/ Die(s)
  BY <1>1, <1>3 DEF StaleAbort, Die, Rollback
<1>4. CASE PlaceNext(s)
  <2>1. CASE \E r \in Requests : PlaceAnswer(s, r)
    BY <1>v, <2>1 DEF PlaceAnswer
  <2>2. CASE \E r \in Requests : PlaceBegin(s, r)
    BY <1>2, <2>2 DEF PlaceBegin, Private, IdleTx
  <2>3. CASE PlaceInsert(s)
    BY <1>2, <1>t, <2>3 DEF PlaceInsert, Private, TxRecords
  <2>4. CASE PlaceReserve(s)
    <3>. DEFINE r == t.order
                p == Post(s, t, r.user, HoldKey(r), 0, Exposure(r))
                v == [p EXCEPT !.pc = "lock", !.todo = Matchable(r)]
    <3>1. v.pc = "lock"
      BY <1>t DEF Post, TxRecords
    <3>2. Private(s, v)
      BY <2>4 DEF PlaceReserve
    <3>. HIDE DEF v
    <3>. QED BY <1>2, <3>1, <3>2 DEF Private
  <2>5. CASE PlaceMakers(s) \/ \E m \in Requests : PlaceLock(s, m)
    <3>1. CASE PlaceMakers(s)
      BY <1>2, <1>t, <3>1 DEF PlaceMakers, Private, TxRecords
    <3>2. CASE \E m \in Requests : PlaceLock(s, m)
      BY <1>2, <1>t, <3>2 DEF PlaceLock, Private, TxRecords
    <3>. QED BY <2>5, <3>1, <3>2
  <2>6. CASE \E m \in Requests : PlaceMatch(s, m)
    <3>1. PICK rows, dirty, todo, newBets :
            /\ t.pc = "match"
            /\ Private(s, [t EXCEPT !.rows = rows, !.dirty = dirty, !.todo = todo, !.newBets = newBets])
      BY <2>6 DEF PlaceMatch
    <3>. QED BY <1>2, <1>t, <3>1 DEF Private, TxRecords
  <2>7. CASE PlaceDuplicate(s) \/ PlaceRefuse(s) \/ PlaceCommit(s)
    BY <1>1, <2>7 DEF PlaceDuplicate, PlaceRefuse, PlaceCommit, Rollback, Commit
  <2>. QED BY <1>4, <2>1, <2>2, <2>3, <2>4, <2>5, <2>6, <2>7 DEF PlaceNext
<1>5. CASE CancelNext(s)
  <2>1. CASE \E r \in Requests : CancelBegin(s, r)
    BY <1>2, <2>1 DEF CancelBegin, Private, IdleTx
  <2>2. CASE CancelFlush(s)
    BY <1>2, <1>t, <2>2 DEF CancelFlush, Private, TxRecords
  <2>3. CASE CancelRelease(s)
    BY <1>1, <2>3 DEF CancelRelease, Commit
  <2>. QED BY <1>5, <2>1, <2>2, <2>3 DEF CancelNext
<1>6. CASE SettleNext(s)
  <2>1. CASE \E winner \in Winners : SettleBegin(s, winner)
    <3>1. PICK winner \in Winners : SettleBegin(s, winner)
      BY <2>1
    <3>. DEFINE v == [IdleTx EXCEPT !.pc = "settleBets", !.winner = winner, !.market = market,
                                    !.todoBets = bets \ settledBets]
    <3>2. PurposeOK(v) /\ Private(s, v)
      BY <3>1 DEF SettleBegin, PurposeOK, IdleTx
    <3>. QED BY <1>t, <3>2, PurposeKept DEF Private
  <2>2. ASSUME NEW b \in t.todoBets, SettleBet(s, b) PROVE PurposeInv'
    <3>. DEFINE d == SettleBetDeltas(b.side, BetPrice(b), b.stake, BetOrder(b).selection = t.winner)
                p == Post(s, t, BetUser(b), SettleKey(b), d.balance, d.reserved)
                v == [p EXCEPT !.todoBets = @ \ {b}, !.settled = @ \cup {b}]
    <3>1. v.pc = t.pc /\ v.winner = t.winner /\ t.pc = "settleBets"
      BY <1>t, <2>2 DEF Post, TxRecords, SettleBet
    <3>2. Private(s, v)
      BY <2>2 DEF SettleBet
    <3>. HIDE DEF v
    <3>3. PurposeOK(v)
      BY <1>t, <3>1 DEF PurposeOK
    <3>. QED BY <1>t, <3>2, <3>3, PurposeKept DEF Private
  <2>3. CASE SettleListOrders(s)
    <3>1. PICK rows, todo :
            /\ t.pc = "settleBets"
            /\ Private(s, [t EXCEPT !.pc = "settleOrders", !.todo = todo, !.rows = rows])
      BY <2>3 DEF SettleListOrders
    <3>. DEFINE v == [t EXCEPT !.pc = "settleOrders", !.todo = todo, !.rows = rows]
    <3>2. v.pc = "settleOrders" /\ v.winner = t.winner /\ v.dirty = t.dirty
      BY <1>t DEF TxRecords
    <3>3. t.dirty = {}
      BY <3>1 DEF Inv, SessionOK, PhaseOK
    <3>4. Private(s, v)
      BY <3>1
    <3>. HIDE DEF v
    <3>5. PurposeOK(v)
      BY <1>t, <3>1, <3>2, <3>3 DEF PurposeOK
    <3>. QED BY <1>t, <3>4, <3>5, PurposeKept DEF Private
  <2>4. ASSUME NEW r \in Requests, SettleOrder(s, r) PROVE PurposeInv'
    <3>. DEFINE release == ReleaseAmount(r.side, r.price, Remaining(r, t.rows[r]))
                p == IF release > 0
                     THEN Post(s, t, r.user, ReleaseSettleKey(r), 0, - release)
                     ELSE t
                v == [p EXCEPT !.todo = @ \ {r}, !.dirty = @ \cup {r},
                               !.rows[r].status = "CANCELLED"]
    <3>1. t.pc = "settleOrders" /\ Private(s, v)
      BY <2>4 DEF SettleOrder
    <3>2. /\ p.pc = t.pc /\ p.winner = t.winner /\ p.dirty = t.dirty /\ p.rows = t.rows
          /\ DOMAIN p = DOMAIN t
      BY <1>t DEF Post, TxRecords
    <3>3. t.rows \in [Requests -> OrderRows] /\ DOMAIN t = DOMAIN IdleTx
      BY <1>t, IdleType DEF TxRecords
    <3>. HIDE DEF p
    <3>4. /\ v.pc = p.pc /\ v.winner = p.winner /\ v.dirty = p.dirty \cup {r}
          /\ v.rows = [p.rows EXCEPT ![r].status = "CANCELLED"]
      BY <3>2, <3>3 DEF IdleTx
    <3>. HIDE DEF v
    <3>5. v.rows[r].status = "CANCELLED" /\ \A q \in Requests \ {r} : v.rows[q] = t.rows[q]
      BY <3>2, <3>3, <3>4 DEF OrderRows
    <3>6. t.dirty \subseteq Requests
      BY <1>t DEF TxRecords
    <3>7. PurposeOK(v)
      BY <1>t, <3>1, <3>2, <3>4, <3>5, <3>6 DEF PurposeOK
    <3>. QED BY <1>t, <3>1, <3>7, PurposeKept DEF Private
  <2>5. CASE SettleCommit(s)
    BY <1>1, <2>5 DEF SettleCommit, Commit
  <2>6. ASSUME NEW r \in Requests, SettleFlush(s, r) PROVE PurposeInv'
    <3>. DEFINE v == [t EXCEPT !.locked = @ \cup {r}]
    <3>1. v.pc = t.pc /\ v.winner = t.winner /\ v.dirty = t.dirty /\ v.rows = t.rows
          /\ v.target = t.target
      BY <1>t DEF TxRecords
    <3>2. Private(s, v)
      BY <2>6 DEF SettleFlush
    <3>. HIDE DEF v
    <3>3. PurposeOK(v)
      BY <1>t, <3>1 DEF PurposeOK
    <3>. QED BY <1>t, <3>2, <3>3, PurposeKept DEF Private
  <2>. QED BY <1>6, <2>1, <2>2, <2>3, <2>4, <2>5, <2>6 DEF SettleNext
<1>7. CASE TransitionNext(s)
  <2>1. CASE \E target \in MarketStatuses : TransitionBegin(s, target)
    <3>1. PICK target \in MarketStatuses : TransitionBegin(s, target)
      BY <2>1
    <3>. DEFINE v == [IdleTx EXCEPT !.pc = "transition", !.target = target, !.market = market]
    <3>2. PurposeOK(v) /\ Private(s, v)
      BY <3>1 DEF TransitionBegin, PurposeOK, IdleTx
    <3>. QED BY <1>t, <3>2, PurposeKept DEF Private
  <2>2. CASE TransitionCommit(s)
    BY <1>1, <2>2 DEF TransitionCommit
  <2>. QED BY <1>7, <2>1, <2>2 DEF TransitionNext
<1>. QED BY <1>3, <1>4, <1>5, <1>6, <1>7

\* It holds initially.
LEMMA InitPurpose == Init => PurposeInv
  BY DEF Init, PurposeInv, PurposeOK, IdleTx

-----------------------------------------------------------------------------

\* A step that keeps the rows and does not settle is none for the contract.
LEMMA ContractStutters ==
  ASSUME UNCHANGED <<orders, bets, settledBets, wallets>>,
         market'.status = "SETTLED" <=> market.status = "SETTLED"
  PROVE  UNCHANGED Contract!vars
  BY DEF Contract!vars

\* A transition settles nothing and reopens nothing that is settled.
LEMMA TransitionStutters ==
  ASSUME Inv, PurposeInv, NEW s \in Sessions, TransitionCommit(s)
  PROVE  UNCHANGED Contract!vars
<1>1. /\ tx[s].pc = "transition" /\ market'.status = tx[s].target
      /\ tx[s].market.version = market.version
      /\ UNCHANGED <<orders, bets, settledBets, wallets>>
  BY DEF TransitionCommit
<1>2. tx[s].market.status # "SETTLED" /\ tx[s].market = market
  BY <1>1 DEF Inv, SessionOK, MarketCopyOK
<1>3. tx[s].target # "SETTLED"
  BY <1>1 DEF PurposeInv, PurposeOK
<1>. QED BY <1>1, <1>2, <1>3, ContractStutters

\* A cancel takes effect at its commit: the order is withdrawn as it rests in
\* the table, and the exposure of its rest is released.
LEMMA CancelImplements ==
  ASSUME Inv, WalletInv, FillInv, PayoutInv, NEW s \in Sessions, CancelRelease(s)
  PROVE  \E r \in Requests : Contract!Cancel(r)
<1>. DEFINE t == tx[s]
            r == t.order
            amount == RestExposure(r, t.rows[r])
            p == Post(s, t, r.user, ReleaseKey(r), 0, - amount)
            e == [key |-> ReleaseKey(r), user |-> r.user, balance |-> 0, reserved |-> - amount]
<1>t. TypeOK /\ t \in TxRecords /\ r \in Requests /\ r.user \in Users
      /\ t.rows[r] \in OrderRows /\ orders[r] \in OrderRows
  BY TxType, RequestType DEF Inv, TypeOK
<1>1. /\ p \in TxRecords /\ Commit(s, p) /\ MoneyOf(s, p)
      /\ p.entries = {e} /\ e \in LedgerEntries
      /\ p.dirty = t.dirty /\ p.rows = t.rows /\ p.newBets = t.newBets /\ p.settled = t.settled
  BY CancelEntries
<1>2. t.pc = "cancelRelease" /\ UNCHANGED market
  BY DEF CancelRelease
<1>3. t.dirty = {r} /\ t.rows[r].status = "CANCELLED" /\ orders[r].status \in OpenStatuses
  BY <1>2 DEF Inv, SessionOK, PhaseOK, WritesOK, Taking, PlacePCs
<1>4. t.newBets = {} /\ t.settled = {}
  BY <1>2 DEF FillInv, FillsOK, Taking, PlacePCs, PayoutInv, PayoutsOK
<1>5. t.rows[r].matched = orders[r].matched
  <2>1. t.rows[r].matched = orders[r].matched + StakesOf(BetsFor(t.newBets, r))
    BY <1>2, <1>3 DEF FillInv, FillsOK, Sent
  <2>2. BetsFor(t.newBets, r) = {}
    BY <1>4 DEF BetsFor
  <2>3. orders[r].matched \in Int
    BY <1>t DEF OrderRows
  <2>. QED BY <2>1, <2>2, <2>3, StakeSums
<1>6. amount = RestExposure(r, orders[r]) /\ amount \in Int
  BY <1>t, <1>5, RestType DEF RestExposure, Remaining
<1>7. /\ e.user = r.user /\ e.balance = 0 /\ e.reserved = - amount
  OBVIOUS
<1>. HIDE DEF e, amount
<1>8. /\ orders' = [q \in Requests |->
                      IF q \in p.dirty THEN [p.rows[q] EXCEPT !.version = @ + 1] ELSE orders[q]]
      /\ bets' = bets \cup p.newBets /\ settledBets' = settledBets \cup p.settled
  BY <1>1 DEF Commit
<1>9. /\ orders'[r].status = "CANCELLED" /\ orders'[r].matched = orders[r].matched
      /\ \A q \in Requests \ {r} : orders'[q] = orders[q]
  BY <1>t, <1>1, <1>3, <1>5, <1>8 DEF OrderRows
<1>10. ASSUME NEW u \in Users
       PROVE  wallets'[u] = IF u = r.user
                            THEN [balance |-> wallets[u].balance, reserved |-> wallets[u].reserved - amount]
                            ELSE wallets[u]
  <2>1. wallets'[u] = [balance |-> wallets[u].balance + BalanceOf(EntriesFor({e}, u)),
                       reserved |-> wallets[u].reserved + ReservedOf(EntriesFor({e}, u))]
    <3>. HIDE DEF p
    <3>. QED BY <1>t, <1>1, CommitMoves
  <2>2. wallets[u] \in WalletRows
    BY <1>t DEF TypeOK
  <2>3. /\ wallets[u].balance \in Int /\ wallets[u].reserved \in Int
        /\ wallets[u] = [balance |-> wallets[u].balance, reserved |-> wallets[u].reserved]
    BY <2>2 DEF WalletRows
  <2>4. CASE u = r.user
    <3>1. EntriesFor({e}, u) = {e}
      BY <1>7, <2>4 DEF EntriesFor
    <3>2. BalanceOf({e}) = 0 /\ ReservedOf({e}) = - amount
      BY <1>1, <1>7, OneEntry
    <3>3. /\ wallets[u].balance + 0 = wallets[u].balance
          /\ wallets[u].reserved + (- amount) = wallets[u].reserved - amount
      BY <1>6, <2>3
    <3>. QED BY <2>1, <2>4, <3>1, <3>2, <3>3
  <2>5. CASE u # r.user
    <3>1. EntriesFor({e}, u) = {}
      BY <1>7, <2>5 DEF EntriesFor
    <3>2. wallets[u].balance + 0 = wallets[u].balance /\ wallets[u].reserved + 0 = wallets[u].reserved
      BY <2>3
    <3>. QED BY <2>1, <2>3, <2>5, <3>1, <3>2, EntrySums
  <2>. QED BY <2>4, <2>5
<1>11. wallets' = [wallets EXCEPT ![r.user].reserved = @ - amount]
  <2>1. wallets' = [u \in Users |-> wallets'[u]]
    BY <1>1 DEF Commit
  <2>2. wallets \in [Users -> WalletRows] /\ \A u \in Users : wallets[u] \in WalletRows
    BY <1>t DEF TypeOK
  <2>3. \A u \in Users : wallets'[u] = [wallets EXCEPT ![r.user].reserved = @ - amount][u]
    BY <1>t, <1>10, <2>2 DEF WalletRows
  <2>4. [wallets EXCEPT ![r.user].reserved = @ - amount] =
          [u \in Users |-> [wallets EXCEPT ![r.user].reserved = @ - amount][u]]
    BY <2>2
  <2>. QED BY <2>1, <2>3, <2>4
<1>. HIDE DEF p, t
<1>12. UNCHANGED <<bets, settledBets, market>>
  BY <1>1, <1>2, <1>4, <1>8
<1>13. Contract!Resting(r)
  BY <1>t, <1>3, BookRows
<1>14. [q \in Requests |-> [status |-> orders'[q].status, matched |-> orders'[q].matched]] =
         [[q \in Requests |-> [status |-> orders[q].status, matched |-> orders[q].matched]]
            EXCEPT ![r].status = "CANCELLED"]
  BY <1>t, <1>9
<1>15. wallets' = [wallets EXCEPT ![r.user].reserved = @ - Contract!RestExposure(r)]
  BY <1>t, <1>6, <1>11, BookRows
<1>. HIDE DEF r
<1>16. PICK q \in Requests : q = r
  BY <1>t
<1>17. Contract!Cancel(q)
  BY <1>12, <1>13, <1>14, <1>15, <1>16 DEF Contract!Cancel
<1>. QED BY <1>17

\* A settlement takes effect at its commit, which the version of the market
\* lets through once: what it has paid and cancelled since it began is what
\* the tables still call unpaid and resting.
LEMMA SettleImplements ==
  ASSUME Inv, LedgerInv, WalletInv, FillInv, PayoutInv, PurposeInv,
         NEW s \in Sessions, SettleCommit(s)
  PROVE  \E winner \in Winners : Contract!Settle(winner)
<1>. DEFINE t == tx[s]
            x == t.winner
            found == t.settled
            rest == t.dirty
<1>t. /\ TypeOK /\ t \in TxRecords /\ rest \subseteq Requests /\ found \subseteq BetRecords
      /\ t.rows \in [Requests -> OrderRows] /\ orders \in [Requests -> OrderRows]
  BY DEF Inv, TypeOK, TxRecords
<1>1. /\ t.pc = "settleOrders" /\ t.market.version = market.version
      /\ market' = [status |-> "SETTLED", version |-> market.version + 1]
      /\ Commit(s, t) /\ Unsent(t) = {}
  BY DEF SettleCommit
<1>2. /\ orders' = [q \in Requests |->
                      IF q \in rest THEN [t.rows[q] EXCEPT !.version = @ + 1] ELSE orders[q]]
      /\ bets' = bets \cup t.newBets /\ settledBets' = settledBets \cup found
      /\ wallets' = [u \in Users |-> wallets'[u]]
  BY <1>1 DEF Commit
<1>3. market.status # "SETTLED" /\ market'.status = "SETTLED"
  BY <1>1 DEF Inv, SessionOK, MarketCopyOK
<1>4. settledBets = {} /\ t.newBets = {} /\ found \subseteq bets /\ x \in Winners
  BY <1>1, <1>3 DEF LedgerInv, LedgerOK, FillInv, FillsOK, Taking, PlacePCs, PayoutInv,
     PayoutsOK, PurposeInv, PurposeOK
<1>5. ASSUME NEW r \in rest
      PROVE  /\ orders[r].status \in OpenStatuses /\ t.rows[r].status = "CANCELLED"
             /\ t.rows[r].matched = orders[r].matched
  <2>1. r \in t.locked /\ orders[r].status \in OpenStatuses
    BY <1>1 DEF Inv, SessionOK, WritesOK, Taking, PlacePCs
  <2>2. t.rows[r].matched = orders[r].matched + StakesOf(BetsFor(t.newBets, r))
    BY <1>1, <2>1 DEF FillInv, FillsOK, Sent
  <2>3. BetsFor(t.newBets, r) = {}
    BY <1>4 DEF BetsFor
  <2>4. orders[r].matched \in Int
    BY <1>t DEF OrderRows
  <2>. QED BY <1>1, <2>1, <2>2, <2>3, <2>4, StakeSums
       DEF PurposeInv, PurposeOK
<1>6. ASSUME NEW u \in Users
      PROVE  wallets'[u] =
               [balance |-> wallets[u].balance + Contract!Payout(BetsOf(found, u), x),
                reserved |-> wallets[u].reserved + Contract!Unheld(BetsOf(found, u), x)
                               - Contract!RestReleased(OrdersOf(rest, u))]
  <2>1. wallets'[u] = [balance |-> wallets[u].balance + BalanceOf(EntriesFor(t.entries, u)),
                       reserved |-> wallets[u].reserved + ReservedOf(EntriesFor(t.entries, u))]
    <3>1. MoneyOf(s, t)
      BY DEF MoneyOf, SameMoney
    <3>. QED BY <1>t, <1>1, <3>1, CommitMoves
  <2>2. /\ BalanceOf(EntriesFor(t.entries, u)) = PaidOut(BetsOf(found, u), x)
        /\ ReservedOf(EntriesFor(t.entries, u)) =
             Unheld(BetsOf(found, u), x) - RestReleased(t.rows, OrdersOf(rest, u))
    BY <1>1, <1>3 DEF PayoutInv, PayoutsOK
  <2>3. /\ BetsOf(found, u) \subseteq BetRecords /\ IsFiniteSet(BetsOf(found, u))
        /\ OrdersOf(rest, u) \subseteq rest /\ IsFiniteSet(OrdersOf(rest, u))
    BY <1>t, FS_Subset DEF BetsOf, OrdersOf, PayoutInv, PayoutsOK
  <2>4. /\ Contract!Payout(BetsOf(found, u), x) = PaidOut(BetsOf(found, u), x)
        /\ Contract!Unheld(BetsOf(found, u), x) = Unheld(BetsOf(found, u), x)
    BY <2>3, ContractPaid, ContractUnheld
  <2>5. RestReleased(t.rows, OrdersOf(rest, u)) = RestReleased(orders, OrdersOf(rest, u))
    BY <1>t, <1>5, <2>3, RestSums
  <2>6. Contract!RestReleased(OrdersOf(rest, u)) = RestReleased(orders, OrdersOf(rest, u))
    BY <1>t, <2>3, ContractRests
  <2>7. /\ Unheld(BetsOf(found, u), x) \in Int
        /\ RestReleased(orders, OrdersOf(rest, u)) \in Int
        /\ wallets[u].reserved \in Int
    BY <1>t, <2>3, PaymentSums, RestSums DEF TypeOK, WalletRows
  <2>8. wallets[u].reserved + (Unheld(BetsOf(found, u), x) - RestReleased(orders, OrdersOf(rest, u)))
          = wallets[u].reserved + Unheld(BetsOf(found, u), x) - RestReleased(orders, OrdersOf(rest, u))
    BY <2>7
  <2>. QED BY <2>1, <2>2, <2>4, <2>5, <2>6, <2>8
<1>7. found \in SUBSET (bets \ settledBets)
  BY <1>4
<1>8. rest \in SUBSET {r \in Requests : Contract!Resting(r)}
  BY <1>t, <1>5, BookRows
<1>9. \A r \in Requests :
         /\ r \in rest => orders'[r].status = "CANCELLED" /\ orders'[r].matched = orders[r].matched
         /\ r \notin rest => orders'[r] = orders[r]
  BY <1>t, <1>2, <1>5 DEF OrderRows
<1>. DEFINE book == [r \in Requests |-> [status |-> orders[r].status, matched |-> orders[r].matched]]
<1>10. [r \in Requests |-> [status |-> orders'[r].status, matched |-> orders'[r].matched]] =
         [r \in Requests |-> IF r \in rest THEN [book[r] EXCEPT !.status = "CANCELLED"] ELSE book[r]]
  BY <1>9
<1>11. wallets' = [u \in Users |->
         [balance |-> wallets[u].balance
                        + Contract!Payout({b \in found : Contract!OrderOf(b).user = u}, x),
          reserved |-> wallets[u].reserved
                         + Contract!Unheld({b \in found : Contract!OrderOf(b).user = u}, x)
                         - Contract!RestReleased({r \in rest : r.user = u})]]
  <2>1. \A u \in Users : /\ BetsOf(found, u) = {b \in found : Contract!OrderOf(b).user = u}
                         /\ OrdersOf(rest, u) = {r \in rest : r.user = u}
    BY SamePaid DEF BetsOf, OrdersOf
  <2>. QED BY <1>2, <1>6, <2>1
<1>12. bets' = bets /\ settledBets' = settledBets \cup found
  BY <1>2, <1>4
<1>. HIDE DEF found, rest, t, x
<1>13. PICK winner \in Winners : winner = x
  BY <1>4
<1>14. Contract!Settle(winner)
  BY <1>3, <1>7, <1>8, <1>10, <1>11, <1>12, <1>13 DEF Contract!Settle
<1>. QED BY <1>14

\* The opposite of a side is the other one.
LEMMA TwoSides ==
  /\ \A x \in Sides : Opposite(x) \in Sides /\ Opposite(x) # x /\ Opposite(Opposite(x)) = x
  /\ \A x, y \in Sides : y = x \/ y = Opposite(x)
  BY DEF Sides, Opposite

\* What a taker matched at its commit: with each order it changed as much as
\* that order's row moved, and nothing with any other.
Taken(t) ==
    [m \in {q \in Requests : Contract!Compatible(t.order, q)} |->
       IF m \in t.dirty THEN t.rows[m].matched - orders[m].matched ELSE 0]

\* The makers of a placement about to commit: orders that rest in the table on
\* the other side, at prices that cross, with that much to give.
LEMMA MakersCompatible ==
  ASSUME Inv, FillInv, PayoutInv, NEW s \in Sessions, tx[s].pc = "match",
         NEW m \in tx[s].dirty \ {tx[s].order}
  PROVE  LET t == tx[s]
             size == t.rows[m].matched - orders[m].matched
             bet(x) == [taker |-> t.order, maker |-> m, side |-> x, stake |-> size]
         IN  /\ m \in Requests /\ Contract!Compatible(t.order, m)
             /\ size \in Nat /\ size > 0
             /\ orders[m].matched \in Nat
             /\ t.rows[m].matched = orders[m].matched + size
             /\ t.rows[m].matched <= m.stake
             /\ Coherent(m, t.rows[m]) /\ t.rows[m] \in OrderRows
             /\ t.rows[m].status # "CANCELLED"
             /\ \A x \in Sides : bet(x) \in t.newBets
             /\ \A b \in t.newBets : b.maker = m => b = bet(b.side)
<1>. DEFINE t == tx[s]
            size == t.rows[m].matched - orders[m].matched
            bet(x) == [taker |-> t.order, maker |-> m, side |-> x, stake |-> size]
<1>t. /\ TypeOK /\ t \in TxRecords /\ m \in Requests /\ t.order \in Requests
      /\ t.rows[m] \in OrderRows /\ orders[m] \in OrderRows /\ t.newBets \subseteq BetRecords
  BY TxType DEF Inv, TypeOK, TxRecords
<1>1. Taking(t)
  BY DEF Taking, PlacePCs
<1>2. /\ SessionOK(t) /\ FillsOK(t) /\ Coherent(m, orders[m])
  BY <1>t DEF Inv, FillInv, TablesOK, RowsCoherent
<1>3. m \in t.locked /\ Coherent(m, t.rows[m])
  BY <1>1, <1>2 DEF SessionOK, WritesOK, Taking, PlacePCs
<1>4. orders[m].status \in OpenStatuses
  BY <1>1, <1>2 DEF SessionOK, WritesOK, Taking, PlacePCs
<1>5. PICK c \in t.newBets : c.maker = m
  BY <1>1, <1>2 DEF FillsOK
<1>6. /\ Suits(t.order, m) /\ Crosses(t.order.side, t.order.price, m.price) /\ size > 0
      /\ t.rows[m].status # "CANCELLED"
  BY <1>1, <1>2, <1>5 DEF FillsOK
<1>7. size \in Int /\ orders[m].matched \in Int /\ t.rows[m].matched \in Int /\ orders[m].matched >= 0
  BY <1>t, <1>2 DEF OrderRows, Coherent
<1>8. Contract!Compatible(t.order, m)
  BY <1>t, <1>4, <1>6, BookRows, SameOdds DEF Contract!Compatible, Suits
<1>9. ASSUME NEW b \in t.newBets, b.maker = m
      PROVE  b = bet(b.side) /\ Twin(b) \in t.newBets /\ b.side \in Sides
  <2>1. b.taker = t.order /\ b.stake = size /\ Twin(b) \in t.newBets /\ b \in BetRecords
    BY <1>t, <1>2, <1>9 DEF FillsOK
  <2>. HIDE DEF size, t
  <2>. QED BY <1>9, <2>1 DEF BetRecords
<1>10. c = bet(c.side) /\ Twin(c) \in t.newBets /\ c.side \in Sides
  BY <1>5, <1>9
<1>11. Twin(c) = bet(Opposite(c.side))
  <2>. HIDE DEF size, t
  <2>. QED BY <1>10 DEF Twin
<1>12. \A x \in Sides : bet(x) \in t.newBets
  <2>. SUFFICES ASSUME NEW x \in Sides PROVE bet(x) \in t.newBets
    OBVIOUS
  <2>1. x = c.side \/ x = Opposite(c.side)
    BY <1>10, TwoSides
  <2>2. c \in t.newBets
    OBVIOUS
  <2>. HIDE DEF t, size
  <2>3. CASE x = c.side
    BY <1>10, <2>2, <2>3
  <2>4. CASE x = Opposite(c.side)
    BY <1>10, <1>11, <2>4
  <2>. QED BY <2>1, <2>3, <2>4
<1>13. t.rows[m].matched <= m.stake /\ t.rows[m].matched = orders[m].matched + size
  BY <1>3, <1>7 DEF Coherent
<1>. HIDE DEF t, size, bet
<1>14. /\ m \in Requests /\ Contract!Compatible(t.order, m)
       /\ size \in Nat /\ size > 0
       /\ orders[m].matched \in Nat
       /\ t.rows[m].matched = orders[m].matched + size
       /\ t.rows[m].matched <= m.stake
       /\ Coherent(m, t.rows[m]) /\ t.rows[m] \in OrderRows
       /\ t.rows[m].status # "CANCELLED"
       /\ \A x \in Sides : bet(x) \in t.newBets
       /\ \A b \in t.newBets : b.maker = m => b = bet(b.side)
  BY <1>t, <1>3, <1>6, <1>7, <1>8, <1>9, <1>12, <1>13
<1>. QED BY <1>14 DEF t, size, bet

\* A new order has no row in the table until its commit.
LEMMA NewOrder ==
  ASSUME Inv, NEW s \in Sessions, tx[s].pc = "match"
  PROVE  LET r == tx[s].order
         IN  /\ r \in Requests /\ r \in tx[s].dirty
             /\ orders[r].status = "ABSENT" /\ orders[r].matched = 0
             /\ ~ KeyTaken(r)
             /\ tx[s].rows[r] \in OrderRows
             /\ tx[s].rows[r].matched \in 0 .. r.stake
<1>. DEFINE t == tx[s]
            r == t.order
<1>1. Taking(t) /\ SessionOK(t) /\ r \in Requests /\ t.rows[r] \in OrderRows
  BY TxType DEF Taking, PlacePCs, Inv
<1>2. r \in t.dirty /\ ~ KeyTaken(r) /\ t.rows[r].matched >= 0 /\ t.rows[r].matched <= r.stake
  BY <1>1 DEF SessionOK, WritesOK
<1>3. orders[r].status = "ABSENT"
  BY <1>1, <1>2 DEF KeyTaken
<1>4. orders[r].matched = 0
  BY <1>1, <1>3 DEF Inv, TablesOK, RowsCoherent, Coherent
<1>5. t.rows[r].matched \in Int /\ r.stake \in Int
  BY <1>1, RequestType DEF OrderRows
<1>. QED BY <1>1, <1>2, <1>3, <1>4, <1>5

\* What a taker took from its makers is what its own row says is matched.
LEMMA TakenTotal ==
  ASSUME Inv, FillInv, PayoutInv, NEW s \in Sessions, tx[s].pc = "match"
  PROVE  LET t == tx[s]
             makers == t.dirty \ {t.order}
         IN  /\ IsFiniteSet(makers)
             /\ Total(Taken(t), makers) = t.rows[t.order].matched
<1>. DEFINE t == tx[s]
            r == t.order
            makers == t.dirty \ {r}
            size(m) == t.rows[m].matched - orders[m].matched
            bet(m) == [taker |-> r, maker |-> m, side |-> r.side, stake |-> size(m)]
            B == BetsFor(t.newBets, r)
            maker == [b \in BetRecords |-> b.maker]
            part == [m \in makers |-> {b \in B : b.maker = m}]
<1>t. TypeOK /\ t.newBets \subseteq BetRecords /\ r \in Requests /\ r.side \in Sides
  BY TxType, RequestType DEF Inv, TypeOK, TxRecords
<1>1. /\ IsFiniteSet(t.dirty) /\ IsFiniteSet(t.newBets)
      /\ t.rows[r].matched = orders[r].matched + StakesOf(B)
      /\ \A b \in t.newBets : b.taker = r /\ b.maker \in makers
  BY NewOrder DEF PayoutInv, PayoutsOK, FillInv, FillsOK, Sent
<1>2. IsFiniteSet(makers) /\ IsFiniteSet(B) /\ B \subseteq t.newBets /\ B \subseteq BetRecords
  BY <1>t, <1>1, FS_Subset DEF BetsFor
<1>3. ASSUME NEW m \in makers
      PROVE  /\ part[m] = {bet(m)} /\ bet(m) \in BetRecords
             /\ Taken(t)[m] = size(m) /\ size(m) \in Int
  <2>1. /\ m \in Requests /\ Contract!Compatible(r, m) /\ size(m) \in Int
        /\ bet(m) \in t.newBets
        /\ \A b \in t.newBets : b.maker = m =>
             b = [taker |-> r, maker |-> m, side |-> b.side, stake |-> size(m)]
    BY <1>t, MakersCompatible
  <2>2. Taken(t)[m] = size(m)
    BY <2>1 DEF Taken
  <2>. HIDE DEF size
  <2>3. BetOrder(bet(m)) = r /\ bet(m) \in B /\ bet(m).maker = m
    BY <2>1 DEF BetOrder, BetsFor
  <2>4. ASSUME NEW b \in B, b.maker = m PROVE b = bet(m)
    <3>1. b \in t.newBets /\ BetOrder(b) = r /\ b.taker = r
      BY <1>1, <2>4 DEF BetsFor
    <3>2. b.side = r.side
      BY <2>4, <3>1 DEF BetOrder
    <3>. QED BY <2>1, <2>4, <3>1, <3>2
  <2>. HIDE DEF bet
  <2>. QED BY <1>2, <2>1, <2>2, <2>3, <2>4
<1>4. ASSUME NEW m \in makers PROVE Taken(t)[m] = 0 + Total(Stakes, part[m])
  <2>1. Stakes[bet(m)] = size(m)
    BY <1>3 DEF Stakes
  <2>2. size(m) \in Int /\ part[m] = {bet(m)} /\ Taken(t)[m] = size(m)
    BY <1>3
  <2>. HIDE DEF bet, size, part
  <2>3. Total(Stakes, {bet(m)}) = size(m)
    BY <2>1, <2>2, TotalOne
  <2>. QED BY <2>2, <2>3
<1>5. \A b \in B : Stakes[b] \in Int /\ maker[b] \in makers
  BY <1>1, <1>2 DEF Stakes, BetRecords
<1>6. /\ \A m \in makers : part[m] \subseteq B
      /\ \A m \in makers : \A b \in B : b \in part[m] <=> maker[b] = m
  BY <1>2
<1>. HIDE DEF makers, part, maker, B
<1>7. 0 \in Int
  OBVIOUS
<1>8. PICK g : g = Taken(t)
  OBVIOUS
<1>9. Total(g, makers) = 0 * Cardinality(makers) + Total(Stakes, B)
  <2>1. /\ \A b \in B : Stakes[b] \in Int
        /\ \A b \in B : maker[b] \in makers
        /\ \A m \in makers : g[m] = 0 + Total(Stakes, part[m])
    BY <1>4, <1>5, <1>8
  <2>. QED BY <1>2, <1>6, <1>7, <2>1, TotalGrouped
<1>10. Total(Stakes, B) = t.rows[r].matched
  <2>1. StakesOf(B) \in Int /\ Total(Stakes, B) = StakesOf(B)
    BY <1>2, StakeSums, StakesTotal
  <2>2. orders[r].matched = 0
    BY NewOrder
  <2>. QED BY <1>1, <2>1, <2>2
<1>11. Cardinality(makers) \in Int /\ Total(Stakes, B) \in Int
  BY <1>2, <1>5, FS_CardinalityType, TotalInt
<1>12. Total(g, makers) = t.rows[r].matched
  BY <1>9, <1>10, <1>11
<1>. QED BY <1>2, <1>8, <1>12 DEF makers

\* The sizes a taker took are sizes the contract may choose.
LEMMA TakenSizes ==
  ASSUME Inv, FillInv, PayoutInv, NEW s \in Sessions, tx[s].pc = "match"
  PROVE  LET t == tx[s]
             r == t.order
         IN  /\ Taken(t) \in [{m \in Requests : Contract!Compatible(r, m)} -> 0 .. r.stake]
             /\ {m \in DOMAIN Taken(t) : Taken(t)[m] > 0} = t.dirty \ {r}
<1>. DEFINE t == tx[s]
            r == t.order
            makers == t.dirty \ {r}
            size(m) == t.rows[m].matched - orders[m].matched
            may == {m \in Requests : Contract!Compatible(r, m)}
<1>1. \A m \in makers : m \in may /\ Taken(t)[m] = size(m) /\ size(m) \in Nat /\ size(m) > 0
  <2>1. \A m \in makers : m \in may /\ size(m) \in Nat /\ size(m) > 0
    BY MakersCompatible
  <2>. QED BY <2>1 DEF Taken
<1>2. \A m \in may \ makers : Taken(t)[m] = 0
  <2>1. r \notin may
    BY NewOrder, BookRows DEF Contract!Compatible, OpenStatuses
  <2>. QED BY <2>1 DEF Taken
<1>3. r.stake \in Nat /\ t.rows[r].matched \in Nat /\ t.rows[r].matched <= r.stake
  BY NewOrder, RequestType
<1>4. IsFiniteSet(makers) /\ Total(Taken(t), makers) = t.rows[r].matched
  BY TakenTotal
<1>5. DOMAIN Taken(t) = may
  BY DEF Taken
<1>6. Taken(t) = [m \in may |-> Taken(t)[m]]
  BY DEF Taken
<1>. HIDE DEF makers, size, may
<1>7. PICK f : f = Taken(t)
  OBVIOUS
<1>8. \A m \in makers : f[m] \in Nat
  BY <1>1, <1>7
<1>9. \A m \in makers : f[m] <= t.rows[r].matched
  BY <1>4, <1>7, <1>8, TotalBounds
<1>10. \A m \in may : f[m] \in 0 .. r.stake
  <2>1. ASSUME NEW m \in may PROVE f[m] \in 0 .. r.stake
    <3>1. CASE m \in makers
      BY <1>3, <1>8, <1>9, <3>1
    <3>2. CASE m \notin makers
      BY <1>2, <1>3, <1>7, <3>2
    <3>. QED BY <3>1, <3>2
  <2>. QED BY <2>1
<1>11. f \in [may -> 0 .. r.stake]
  BY <1>6, <1>7, <1>10
<1>12. \A m \in may : f[m] > 0 <=> m \in makers
  BY <1>1, <1>2, <1>7
<1>13. {m \in may : f[m] > 0} = makers
  BY <1>1, <1>12
<1>. QED BY <1>5, <1>7, <1>11, <1>13 DEF makers, may

\* The contract's sum of sizes is the sum of sizes.
LEMMA ContractTotal ==
  ASSUME NEW size, NEW makers
  PROVE  Contract!Traded(size, makers) = Total(size, makers)
  BY DEF Contract!Traded, Total, MapThenSumSet, MapThenFoldSet, Contract!MapThenSumSet, Contract!MapThenFoldSet

\* The row a fill leaves is the row the contract names.
LEMMA AfterRow ==
  ASSUME NEW q \in Requests, NEW size \in Nat, NEW row \in OrderRows,
         orders[q].matched \in Nat, row.matched = orders[q].matched + size,
         row.matched <= q.stake, row.status = StatusOf(q, row)
  PROVE  Contract!After(q, size) = [status |-> row.status, matched |-> row.matched]
<1>1. q.stake \in Nat /\ row.matched \in Nat
  BY RequestType
<1>2. StatusOf(q, row) = CASE row.matched = q.stake -> "MATCHED"
                           [] row.matched > 0 /\ row.matched < q.stake -> "PARTIALLY_MATCHED"
                           [] OTHER -> "OPEN"
  BY <1>1 DEF StatusOf, Remaining
<1>. QED BY <1>2 DEF Contract!After

\* A placement takes effect at its commit: its order, its fills and its hold
\* appear together, from the rows and the wallet as the tables have them then.
LEMMA PlaceImplements ==
  ASSUME Inv, LedgerInv, WalletInv, FillInv, PayoutInv, NEW s \in Sessions, PlaceCommit(s)
  PROVE  \E r \in Requests : Contract!Place(r)
<1>. DEFINE t == tx[s]
            r == t.order
            makers == t.dirty \ {r}
            status == StatusOf(r, t.rows[r])
            v == [t EXCEPT !.rows[r].status = status]
            book == [q \in Requests |-> [status |-> orders[q].status, matched |-> orders[q].matched]]
<1>t. /\ TypeOK /\ t \in TxRecords /\ r \in Requests /\ r.user \in Users
      /\ t.rows \in [Requests -> OrderRows] /\ t.rows[r] \in OrderRows
      /\ t.dirty \subseteq Requests /\ t.newBets \subseteq BetRecords
  BY TxType, RequestType DEF Inv, TypeOK, TxRecords
<1>1. t.pc = "match" /\ Commit(s, v) /\ UNCHANGED market
  BY DEF PlaceCommit
<1>2. /\ r \in t.dirty /\ orders[r].status = "ABSENT" /\ orders[r].matched = 0
      /\ ~ KeyTaken(r) /\ t.rows[r].matched \in Nat /\ t.rows[r].matched <= r.stake
  BY <1>1, NewOrder, RequestType
<1>3. status \in OrderStatuses
  BY DEF StatusOf, OrderStatuses
<1>4. /\ v \in TxRecords /\ SameMoney(v, t) /\ v.entries = t.entries
      /\ v.newBets = t.newBets /\ v.settled = t.settled /\ v.dirty = t.dirty
      /\ v.rows = [t.rows EXCEPT ![r].status = status]
  <2>. HIDE DEF status
  <2>1. [t.rows[r] EXCEPT !.status = status] \in OrderRows
    BY <1>t, <1>3 DEF OrderRows
  <2>. QED BY <1>t, <2>1 DEF TxRecords, SameMoney
<1>5. /\ t.entries = {Hold(r)} /\ t.settled = {}
      /\ Exposure(r) <= Available(wallets[r.user])
  BY <1>1 DEF PayoutInv, PayoutsOK
<1>6. /\ orders' = [q \in Requests |->
                      IF q \in v.dirty THEN [v.rows[q] EXCEPT !.version = @ + 1] ELSE orders[q]]
      /\ bets' = bets \cup v.newBets /\ settledBets' = settledBets \cup v.settled
      /\ wallets' = [u \in Users |-> wallets'[u]]
  BY <1>1 DEF Commit
<1>. HIDE DEF v
<1>7. /\ orders'[r].status = status /\ orders'[r].matched = t.rows[r].matched
      /\ \A q \in makers : orders'[q].status = t.rows[q].status
                          /\ orders'[q].matched = t.rows[q].matched
      /\ \A q \in Requests \ t.dirty : orders'[q] = orders[q]
  <2>. HIDE DEF status, t
  <2>1. /\ v.rows[r].status = status /\ v.rows[r].matched = t.rows[r].matched
        /\ \A q \in Requests \ {r} : v.rows[q] = t.rows[q]
    BY <1>t, <1>4 DEF OrderRows
  <2>2. v.rows \in [Requests -> OrderRows]
    BY <1>4 DEF TxRecords
  <2>3. \A q \in t.dirty : orders'[q].status = v.rows[q].status
                          /\ orders'[q].matched = v.rows[q].matched
    BY <1>t, <1>4, <1>6, <2>2 DEF OrderRows
  <2>. QED BY <1>t, <1>2, <1>4, <1>6, <2>1, <2>3
\* The choice of the contract: the sizes taken.
<1>8. PICK size : size = Taken(t)
  OBVIOUS
<1>9. /\ size \in [{m \in Requests : Contract!Compatible(r, m)} -> 0 .. r.stake]
      /\ {m \in DOMAIN size : size[m] > 0} = makers
  BY <1>1, <1>8, TakenSizes
<1>. DEFINE made == {m \in DOMAIN size : size[m] > 0}
<1>10. Contract!Traded(size, made) = t.rows[r].matched
  BY <1>1, <1>8, <1>9, TakenTotal, ContractTotal
<1>11. ASSUME NEW m \in makers
       PROVE  /\ size[m] = t.rows[m].matched - orders[m].matched /\ size[m] <= Contract!Unmatched(m)
              /\ Contract!After(m, size[m]) =
                   [status |-> t.rows[m].status, matched |-> t.rows[m].matched]
  <2>1. /\ m \in Requests /\ size[m] = t.rows[m].matched - orders[m].matched
        /\ size[m] \in Nat /\ size[m] > 0 /\ orders[m].matched \in Nat
        /\ t.rows[m].matched = orders[m].matched + size[m] /\ t.rows[m].matched <= m.stake
        /\ Coherent(m, t.rows[m]) /\ t.rows[m] \in OrderRows /\ t.rows[m].status # "CANCELLED"
    <3>1. Contract!Compatible(r, m) /\ m \in Requests
      BY <1>1, MakersCompatible
    <3>2. size[m] = t.rows[m].matched - orders[m].matched
      BY <1>8, <3>1 DEF Taken
    <3>. QED BY <1>1, <3>1, <3>2, MakersCompatible
  <2>2. m.stake \in Nat
    BY <2>1, RequestType
  <2>3. t.rows[m].status = StatusOf(m, t.rows[m])
    BY <2>1, <2>2 DEF Coherent, StatusOf, Remaining, OrderRows, OrderStatuses
  <2>4. Contract!After(m, size[m]) = [status |-> t.rows[m].status, matched |-> t.rows[m].matched]
    BY <2>1, <2>3, AfterRow
  <2>5. Contract!Unmatched(m) = m.stake - orders[m].matched
    BY <2>1, BookRows DEF Remaining
  <2>. QED BY <2>1, <2>2, <2>4, <2>5
<1>12. Contract!After(r, t.rows[r].matched) = [status |-> status, matched |-> t.rows[r].matched]
  <2>1. r.stake \in Nat
    BY <1>t, RequestType
  <2>2. orders[r].matched + t.rows[r].matched = t.rows[r].matched
    BY <1>2
  <2>. QED BY <1>t, <1>2, <2>1, <2>2 DEF Contract!After, StatusOf, Remaining
<1>m. made = makers
  BY <1>9
<1>. HIDE DEF made
<1>13. [q \in Requests |-> [status |-> orders'[q].status, matched |-> orders'[q].matched]] =
         [q \in Requests |->
            CASE q = r -> Contract!After(r, t.rows[r].matched)
              [] q \in made -> Contract!After(q, size[q])
              [] OTHER -> book[q]]
  BY <1>m, <1>2, <1>7, <1>11, <1>12
<1>14. v.newBets = {[taker |-> r, maker |-> m, side |-> x, stake |-> size[m]]
                      : m \in made, x \in Contract!Sides}
  <2>1. ASSUME NEW b \in t.newBets
        PROVE  \E m \in made, x \in Contract!Sides :
                 b = [taker |-> r, maker |-> m, side |-> x, stake |-> size[m]]
    <3>1. b.maker \in makers
      BY <1>1 DEF FillInv, FillsOK
    <3>2. b = [taker |-> r, maker |-> b.maker, side |-> b.side,
               stake |-> t.rows[b.maker].matched - orders[b.maker].matched]
      BY <1>1, <3>1, MakersCompatible
    <3>3. b.side \in Contract!Sides
      BY <1>t DEF BetRecords, Contract!Sides, Sides
    <3>. QED BY <1>m, <1>11, <3>1, <3>2, <3>3
  <2>2. ASSUME NEW m \in made, NEW x \in Contract!Sides
        PROVE  [taker |-> r, maker |-> m, side |-> x, stake |-> size[m]] \in t.newBets
    <3>1. m \in makers /\ x \in Sides
      BY <1>m DEF Contract!Sides, Sides
    <3>2. [taker |-> r, maker |-> m, side |-> x,
           stake |-> t.rows[m].matched - orders[m].matched] \in t.newBets
      BY <1>1, <3>1, MakersCompatible
    <3>. QED BY <1>11, <3>1, <3>2
  <2>. QED BY <1>4, <2>1, <2>2
<1>15. wallets' = [wallets EXCEPT ![r.user].reserved = @ + Exposure(r)]
  <2>1. MoneyOf(s, v)
    BY <1>4 DEF MoneyOf
  <2>2. wallets \in [Users -> WalletRows] /\ \A u \in Users : wallets[u] \in WalletRows
    BY <1>t DEF TypeOK
  <2>3. /\ Hold(r) \in LedgerEntries /\ Hold(r).balance = 0 /\ Hold(r).reserved = Exposure(r)
        /\ Hold(r).user = r.user /\ Exposure(r) \in Int
    BY <1>t, HoldType
  <2>4. ASSUME NEW u \in Users
        PROVE  wallets'[u] = [wallets EXCEPT ![r.user].reserved = @ + Exposure(r)][u]
    <3>1. wallets'[u] = [balance |-> wallets[u].balance + BalanceOf(EntriesFor({Hold(r)}, u)),
                         reserved |-> wallets[u].reserved + ReservedOf(EntriesFor({Hold(r)}, u))]
      <4>1. v.entries = {Hold(r)}
        BY <1>4, <1>5
      <4>2. /\ TypeOK /\ WalletInv /\ v \in TxRecords /\ MoneyOf(s, v) /\ Commit(s, v)
        BY <1>t, <1>1, <1>4, <2>1
      <4>3. wallets'[u] = [balance |-> wallets[u].balance + BalanceOf(EntriesFor(v.entries, u)),
                           reserved |-> wallets[u].reserved + ReservedOf(EntriesFor(v.entries, u))]
        BY <4>2, CommitMoves
      <4>. QED BY <4>1, <4>3
    <3>2. /\ wallets[u].balance \in Int /\ wallets[u].reserved \in Int
          /\ wallets[u] = [balance |-> wallets[u].balance, reserved |-> wallets[u].reserved]
      BY <2>2 DEF WalletRows
    <3>3. CASE u = r.user
      <4>1. EntriesFor({Hold(r)}, u) = {Hold(r)}
        BY <2>3, <3>3 DEF EntriesFor
      <4>2. BalanceOf({Hold(r)}) = 0 /\ ReservedOf({Hold(r)}) = Exposure(r)
        BY <2>3, OneEntry
      <4>3. wallets'[u] = [balance |-> wallets[u].balance, reserved |-> wallets[u].reserved + Exposure(r)]
        <5>1. wallets[u].balance + 0 = wallets[u].balance
          BY <3>2
        <5>. QED BY <3>1, <4>1, <4>2, <5>1
      <4>. QED BY <2>2, <3>2, <3>3, <4>3 DEF WalletRows
    <3>4. CASE u # r.user
      <4>1. EntriesFor({Hold(r)}, u) = {}
        BY <2>3, <3>4 DEF EntriesFor
      <4>2. wallets'[u] = wallets[u]
        <5>1. wallets[u].balance + 0 = wallets[u].balance /\ wallets[u].reserved + 0 = wallets[u].reserved
          BY <3>2
        <5>. QED BY <3>1, <3>2, <4>1, <5>1, EntrySums
      <4>. QED BY <2>2, <3>4, <4>2
    <3>. QED BY <3>3, <3>4
  <2>. HIDE DEF t
  <2>5. [wallets EXCEPT ![r.user].reserved = @ + Exposure(r)] =
          [u \in Users |-> [wallets EXCEPT ![r.user].reserved = @ + Exposure(r)][u]]
    BY <2>2
  <2>. QED BY <1>6, <2>4, <2>5
<1>16. \A q \in Requests : q.user = r.user /\ q.key = r.key => book[q] = Contract!Absent
  <2>1. \A q \in Requests : q.user = r.user /\ q.key = r.key => orders[q].status = "ABSENT"
    BY <1>2 DEF KeyTaken
  <2>2. \A q \in Requests : orders[q].status = "ABSENT" => orders[q].matched = 0
    BY DEF Inv, TablesOK, RowsCoherent, Coherent
  <2>. QED BY <2>1, <2>2 DEF Contract!Absent
<1>17. /\ book[r] = Contract!Absent
       /\ Contract!Exposure(r) = Exposure(r)
       /\ Exposure(r) <= wallets[r.user].balance - wallets[r.user].reserved
       /\ settledBets' = settledBets /\ bets' = bets \cup v.newBets
       /\ t.rows[r].matched <= r.stake
  BY <1>t, <1>2, <1>4, <1>5, <1>6, <1>16, BookRows DEF Available
<1>18. \A m \in made : size[m] <= Contract!Unmatched(m)
  BY <1>m, <1>11
<1>. HIDE DEF status, v, makers
<1>19. Contract!Trade(r, size)
  <2>. HIDE DEF t
  <2>1. /\ Contract!Traded(size, made) <= r.stake
        /\ [q \in Requests |-> [status |-> orders'[q].status, matched |-> orders'[q].matched]] =
             [q \in Requests |->
                CASE q = r -> Contract!After(r, Contract!Traded(size, made))
                  [] q \in made -> Contract!After(q, size[q])
                  [] OTHER -> book[q]]
        /\ bets' = bets \cup {[taker |-> r, maker |-> m, side |-> x, stake |-> size[m]]
                                : m \in made, x \in Contract!Sides}
    <3>. HIDE DEF book
    <3>. QED BY <1>10, <1>13, <1>14, <1>17
  <2>. QED BY <1>18, <2>1 DEF Contract!Trade, made
<1>20. UNCHANGED <<settledBets, market>>
  BY <1>1, <1>17
<1>. HIDE DEF t, book, r
<1>21. PICK q \in Requests : q = r
  BY <1>t
<1>22. Contract!Place(q)
  BY <1>9, <1>15, <1>16, <1>17, <1>19, <1>20, <1>21 DEF Contract!Place, book
<1>. QED BY <1>22

\* Only the four commits change what the contract sees.
LEMMA OnlyCommitsShow ==
  ASSUME NEW s \in Sessions,
         \/ PlaceNext(s) \/ CancelNext(s) \/ SettleNext(s) \/ TransitionNext(s)
         \/ StaleAbort(s) \/ Die(s)
  PROVE  \/ PlaceCommit(s) \/ CancelRelease(s) \/ SettleCommit(s) \/ TransitionCommit(s)
         \/ UNCHANGED <<market, orders, bets, settledBets, wallets>>
<1>1. CASE PlaceNext(s)
  BY <1>1
     DEF PlaceNext, PlaceAnswer, PlaceBegin, PlaceInsert, PlaceDuplicate, PlaceReserve,
         PlaceRefuse, PlaceLock, PlaceMakers, PlaceMatch, Private, Rollback, vars
<1>2. CASE CancelNext(s)
  BY <1>2 DEF CancelNext, CancelBegin, CancelFlush, Private
<1>3. CASE SettleNext(s)
  BY <1>3
     DEF SettleNext, SettleBegin, SettleBet, SettleListOrders, SettleOrder, SettleFlush, Private
<1>4. CASE TransitionNext(s)
  BY <1>4 DEF TransitionNext, TransitionBegin, Private
<1>5. CASE StaleAbort(s) \/ Die(s)
  BY <1>5 DEF StaleAbort, Die, Rollback
<1>. QED BY <1>1, <1>2, <1>3, <1>4, <1>5

\* Every step of Exchange is a step of the contract or none.
LEMMA ContractStep ==
  Inv /\ LedgerInv /\ WalletInv /\ FillInv /\ PayoutInv /\ PurposeInv /\ [Next]_vars
    => [Contract!Next]_(Contract!vars)
<1>. SUFFICES ASSUME Inv, LedgerInv, WalletInv, FillInv, PayoutInv, PurposeInv, [Next]_vars
              PROVE  Contract!Next \/ UNCHANGED Contract!vars
  OBVIOUS
<1>1. CASE UNCHANGED <<market, orders, bets, settledBets, wallets>>
  BY <1>1, ContractStutters
<1>2. CASE UNCHANGED vars
  BY <1>1, <1>2 DEF vars
<1>3. ASSUME NEW s \in Sessions, PlaceCommit(s) PROVE Contract!Next
  BY <1>3, PlaceImplements DEF Contract!Next
<1>4. ASSUME NEW s \in Sessions, CancelRelease(s) PROVE Contract!Next
  BY <1>4, CancelImplements DEF Contract!Next
<1>5. ASSUME NEW s \in Sessions, SettleCommit(s) PROVE Contract!Next
  BY <1>5, SettleImplements DEF Contract!Next
<1>6. ASSUME NEW s \in Sessions, TransitionCommit(s) PROVE UNCHANGED Contract!vars
  BY <1>6, TransitionStutters
<1>. QED BY <1>1, <1>2, <1>3, <1>4, <1>5, <1>6, OnlyCommitsShow DEF Next

\* Nothing is placed, and the wallets hold the grants, in both.
LEMMA ContractInit == Init => Contract!Init
  BY DEF Init, NoRow, Contract!Init, Contract!Absent

\* The trading core implements its contract: however requests interleave,
\* crash, time out or overtake each other, orders are placed, cancelled and
\* settled in single steps on the committed rows.
THEOREM Implemented == Spec => ImplementsContract
<1>1. Init => WalletInv /\ FillInv /\ PayoutInv /\ PurposeInv /\ Contract!Init
  BY InitWallets, InitFills, InitPayouts, InitPurpose, ContractInit
<1>2. Inv /\ LedgerInv /\ WalletInv /\ FillInv /\ PayoutInv /\ PurposeInv /\ [Next]_vars
        => WalletInv' /\ FillInv' /\ PayoutInv' /\ PurposeInv'
  BY WalletStep, FillStep, PayoutStep, PurposeStep
<1>. QED BY <1>1, <1>2, ContractStep, Invariant, LedgerInvariant, PTL
         DEF Spec, ImplementsContract, Contract!Spec

-----------------------------------------------------------------------------
(* Who waits for whom                                                       *)

\* Until it reserves, a placement holds no wallet; what has been read of an order that
\* is there is its place in the queue; and of the makers, in the order all takers lock
\* them in, those that are locked come before those that are still to lock.
WalkOK(t) ==
    /\ t.pc \in {"insert", "reserve"} => t.held = {}
    /\ \A q \in Requests : t.rows[q].version > 0 =>
         orders[q].version > 0 /\ t.rows[q].created = orders[q].created
    /\ t.pc = "lock" =>
         /\ \A m \in t.locked \cup t.todo : orders[m].version > 0
         /\ \A m \in t.locked, n \in t.todo : Before(m, n)

WalkInv == \A s \in Sessions : WalkOK(tx[s])

\* What a session does to what it has in hand, and that it is nearer to its end.
Moves(s, v) ==
    tx' = [tx EXCEPT ![s] = v] /\ WalkOK(v) /\ (Idle(s) \/ Nearer(tx[s], v))

\* The rows of v are those of t, rows just read, and rows not yet written, but for what
\* a step changes in them.
RowsOf(v, t) ==
    \A q \in Requests :
        \/ v.rows[q].version = t.rows[q].version /\ v.rows[q].created = t.rows[q].created
        \/ v.rows[q] = orders[q]
        \/ v.rows[q].version = 0

LEMMA RowsWalk ==
  ASSUME NEW t, WalkOK(t), NEW v, RowsOf(v, t), v.pc \notin {"insert", "reserve", "lock"}
  PROVE  WalkOK(v)
  BY DEF WalkOK, RowsOf

\* Ending the request is one way.
LEMMA EndMoves ==
  ASSUME NEW s \in Sessions, End(s)
  PROVE  Moves(s, IdleTx)
  BY DEF End, Moves, WalkOK, Nearer, IdleTx, NoRow

\* Beginning one is another.
LEMMA BeginMoves ==
  ASSUME NEW s \in Sessions, Idle(s), NEW v, Private(s, v), v.held = {}, RowsOf(v, IdleTx),
         v.pc \in {"insert", "cancelFlush", "settleBets", "transition"}
  PROVE  Moves(s, v)
<1>1. \A q \in Requests : v.rows[q] = orders[q] \/ v.rows[q].version = 0
  BY DEF RowsOf, IdleTx, NoRow
<1>. QED BY <1>1 DEF Moves, WalkOK, Private

\* place_order goes from the insert to the commit.
LEMMA PlaceMoves ==
  ASSUME Inv, WalkInv, NEW s \in Sessions, PlaceNext(s)
  PROVE  UNCHANGED tx \/ \E v : Moves(s, v)
<1>. DEFINE t == tx[s]
            r == t.order
<1>t. /\ t \in TxRecords /\ r \in Requests /\ WalkOK(t) /\ t.rows \in [Requests -> OrderRows]
      /\ \A q \in Requests : t.rows[q] \in OrderRows
  BY TxType DEF WalkInv, Inv, TxRecords
<1>1. CASE \E q \in Requests : PlaceAnswer(s, q) \/ PlaceBegin(s, q)
  <2>1. CASE \E q \in Requests : PlaceAnswer(s, q)
    BY <2>1 DEF PlaceAnswer, vars
  <2>2. CASE \E q \in Requests : PlaceBegin(s, q)
    <3>1. PICK q \in Requests : PlaceBegin(s, q)
      BY <2>2
    <3>. DEFINE v == [IdleTx EXCEPT !.pc = "insert", !.order = q, !.market = market]
    <3>2. Idle(s) /\ Private(s, v) /\ v.pc = "insert" /\ v.held = {} /\ RowsOf(v, IdleTx)
      BY <3>1 DEF PlaceBegin, IdleTx, RowsOf
    <3>. HIDE DEF v
    <3>. QED BY <3>2, BeginMoves
  <2>. QED BY <1>1, <2>1, <2>2
<1>2. CASE PlaceInsert(s)
  <2>. DEFINE row == [status |-> "OPEN", matched |-> 0, created |-> clock, version |-> 0]
              v == [t EXCEPT !.pc = "reserve", !.rows[r] = row, !.dirty = {r}]
  <2>1. t.pc = "insert" /\ Private(s, v)
    BY <1>2 DEF PlaceInsert
  <2>2. /\ v.pc = "reserve" /\ v.held = t.held
        /\ \A q \in Requests : v.rows[q] = t.rows[q] \/ v.rows[q].version = 0
    BY <1>t DEF TxRecords
  <2>. HIDE DEF v
  <2>3. WalkOK(v) /\ Nearer(t, v)
    BY <1>t, <2>1, <2>2 DEF WalkOK, Nearer, Stage
  <2>. QED BY <2>1, <2>3 DEF Private, Moves
<1>3. CASE PlaceReserve(s)
  <2>. DEFINE p == Post(s, t, r.user, HoldKey(r), 0, Exposure(r))
              v == [p EXCEPT !.pc = "lock", !.todo = Matchable(r)]
  <2>1. t.pc = "reserve" /\ Private(s, v)
    BY <1>3 DEF PlaceReserve
  <2>2. v.pc = "lock" /\ v.rows = t.rows /\ v.locked = t.locked
    BY <1>t DEF Post, TxRecords
  <2>3. t.locked = {}
    BY <2>1 DEF Inv, SessionOK, PhaseOK
  <2>6. \A m \in Matchable(r) : orders[m].version > 0
    BY DEF Matchable, OpenStatuses, Inv, TablesOK, RowsStart, TypeOK, OrderRows, NoRow
  <2>7. v.todo = Matchable(r)
    BY <1>t DEF Post, TxRecords
  <2>. HIDE DEF v
  <2>4. WalkOK(v)
    BY <1>t, <2>2, <2>3, <2>6, <2>7 DEF WalkOK
  <2>5. Nearer(t, v)
    BY <2>1, <2>2 DEF Nearer, Stage
  <2>. QED BY <2>1, <2>4, <2>5 DEF Private, Moves
\* The next row to lock is before all those left.
<1>4. CASE \E m \in Requests : PlaceLock(s, m)
  <2>1. PICK m \in Requests : PlaceLock(s, m)
    BY <1>4
  <2>. DEFINE v == [t EXCEPT !.todo = @ \ {m}, !.locked = @ \cup {m}, !.rows[m] = orders[m]]
  <2>2. t.pc = "lock" /\ FirstOf(t.todo, m) /\ Private(s, v)
    BY <2>1 DEF PlaceLock
  <2>3. /\ v.pc = "lock" /\ v.todo = t.todo \ {m} /\ v.locked = t.locked \cup {m}
        /\ v.todoBets = t.todoBets /\ v.rows = [t.rows EXCEPT ![m] = orders[m]]
    BY <1>t, <2>2 DEF TxRecords
  <2>. HIDE DEF v
  <2>4. \A q \in Requests : v.rows[q] = t.rows[q] \/ v.rows[q] = orders[q]
    BY <1>t, <2>3
  <2>5. \A l \in v.locked, n \in v.todo : Before(l, n)
    BY <1>t, <2>2, <2>3 DEF WalkOK, FirstOf
  <2>8. v.locked \cup v.todo \subseteq t.locked \cup t.todo
    BY <2>2, <2>3 DEF FirstOf
  <2>6. WalkOK(v)
    BY <1>t, <2>2, <2>3, <2>4, <2>5, <2>8 DEF WalkOK
  <2>7. Nearer(t, v)
    BY <2>2, <2>3 DEF Nearer, FirstOf
  <2>. QED BY <2>2, <2>6, <2>7 DEF Private, Moves
<1>5. CASE PlaceMakers(s)
  <2>. DEFINE v == [t EXCEPT !.pc = "match", !.todo = t.locked \cap Matchable(r)]
  <2>1. t.pc = "lock" /\ Private(s, v)
    BY <1>5 DEF PlaceMakers
  <2>2. v.pc = "match" /\ v.rows = t.rows
    BY <1>t DEF TxRecords
  <2>. HIDE DEF v
  <2>3. WalkOK(v)
    BY <1>t, <2>2 DEF WalkOK
  <2>4. Nearer(t, v)
    BY <2>1, <2>2 DEF Nearer, Stage
  <2>. QED BY <2>1, <2>3, <2>4 DEF Private, Moves
<1>6. CASE \E m \in Requests : PlaceMatch(s, m)
  <2>1. PICK m \in Requests : PlaceMatch(s, m)
    BY <1>6
  <2>. DEFINE Met(size, maker, new) ==
                [t EXCEPT !.rows = [t.rows EXCEPT ![r].matched = @ + size, ![m] = maker],
                          !.dirty = @ \cup {m}, !.todo = @ \ {m}, !.newBets = @ \cup new]
  <2>2. PICK size, maker, new :
          /\ Private(s, Met(size, maker, new))
          /\ maker.version = t.rows[m].version /\ maker.created = t.rows[m].created
    <3>. DEFINE open == Remaining(r, t.rows[r])
                offered == Remaining(m, t.rows[m])
                size == IF open <= offered THEN open ELSE offered
                filled == [t.rows[m] EXCEPT !.matched = @ + size]
                maker == [filled EXCEPT !.status =
                            IF Remaining(m, filled) = 0 THEN "MATCHED" ELSE "PARTIALLY_MATCHED"]
                new == {[taker |-> r, maker |-> m, side |-> x, stake |-> size] : x \in Sides}
    <3>1. maker.version = t.rows[m].version /\ maker.created = t.rows[m].created
      BY <1>t DEF OrderRows
    <3>2. Private(s, Met(size, maker, new))
      BY <2>1 DEF PlaceMatch
    <3>. HIDE DEF size, maker, new, Met
    <3>. QED BY <3>1, <3>2
  <2>. DEFINE v == Met(size, maker, new)
  <2>3. t.pc = "match" /\ m \in t.todo
    BY <2>1 DEF PlaceMatch, NextMaker, FirstOf
  <2>4. v.pc = "match" /\ v.todo = t.todo \ {m} /\ v.todoBets = t.todoBets
    BY <1>t, <2>3 DEF TxRecords
  <2>5. RowsOf(v, t)
    <3>1. v.rows = [t.rows EXCEPT ![r].matched = @ + size, ![m] = maker]
      BY <1>t DEF TxRecords
    <3>. HIDE DEF v, t, Met
    <3>2. ASSUME NEW q \in Requests
          PROVE  v.rows[q].version = t.rows[q].version /\ v.rows[q].created = t.rows[q].created
      <4>1. CASE q = m
        BY <1>t, <2>2, <3>1, <4>1
      <4>2. CASE q = r /\ q # m
        BY <1>t, <3>1, <4>2 DEF OrderRows
      <4>3. CASE q # r /\ q # m
        BY <1>t, <3>1, <4>3
      <4>. QED BY <4>1, <4>2, <4>3
    <3>. QED BY <3>2 DEF RowsOf
  <2>6. Private(s, v)
    BY <2>2
  <2>. HIDE DEF v, Met
  <2>7. WalkOK(v)
    BY <1>t, <2>4, <2>5, RowsWalk
  <2>8. Nearer(t, v)
    BY <2>3, <2>4 DEF Nearer
  <2>. QED BY <2>6, <2>7, <2>8 DEF Private, Moves
<1>7. CASE PlaceDuplicate(s) \/ PlaceRefuse(s) \/ PlaceCommit(s)
  <2>1. End(s)
    BY <1>7 DEF PlaceDuplicate, PlaceRefuse, PlaceCommit, Rollback, Commit
  <2>. QED BY <2>1, EndMoves
<1>. QED BY <1>1, <1>2, <1>3, <1>4, <1>5, <1>6, <1>7 DEF PlaceNext

\* So do the other operations.
LEMMA OtherMoves ==
  ASSUME Inv, WalkInv, NEW s \in Sessions,
         CancelNext(s) \/ SettleNext(s) \/ TransitionNext(s) \/ StaleAbort(s) \/ Die(s)
  PROVE  \E v : Moves(s, v)
<1>. DEFINE t == tx[s]
<1>t. /\ t \in TxRecords /\ WalkOK(t) /\ t.rows \in [Requests -> OrderRows]
      /\ \A q \in Requests : t.rows[q] \in OrderRows
  BY TxType DEF WalkInv, Inv, TxRecords
<1>1. CASE End(s)
  BY <1>1, EndMoves
<1>2. CASE \E r \in Requests : CancelBegin(s, r)
  <2>1. PICK r \in Requests : CancelBegin(s, r)
    BY <1>2
  <2>. DEFINE v == [IdleTx EXCEPT !.pc = "cancelFlush", !.order = r, !.rows[r] = orders[r]]
  <2>2. Idle(s) /\ Private(s, v) /\ v.pc = "cancelFlush" /\ v.held = {} /\ RowsOf(v, IdleTx)
    BY <2>1 DEF CancelBegin, IdleTx, RowsOf
  <2>. HIDE DEF v
  <2>. QED BY <2>2, BeginMoves
<1>3. CASE \E winner \in Winners : SettleBegin(s, winner)
  <2>1. PICK winner \in Winners : SettleBegin(s, winner)
    BY <1>3
  <2>. DEFINE v == [IdleTx EXCEPT !.pc = "settleBets", !.winner = winner, !.market = market,
                                  !.todoBets = bets \ settledBets]
  <2>2. Idle(s) /\ Private(s, v) /\ v.pc = "settleBets" /\ v.held = {} /\ RowsOf(v, IdleTx)
    BY <2>1 DEF SettleBegin, IdleTx, RowsOf
  <2>. HIDE DEF v
  <2>. QED BY <2>2, BeginMoves
<1>4. CASE \E target \in MarketStatuses : TransitionBegin(s, target)
  <2>1. PICK target \in MarketStatuses : TransitionBegin(s, target)
    BY <1>4
  <2>. DEFINE v == [IdleTx EXCEPT !.pc = "transition", !.target = target, !.market = market]
  <2>2. Idle(s) /\ Private(s, v) /\ v.pc = "transition" /\ v.held = {} /\ RowsOf(v, IdleTx)
    BY <2>1 DEF TransitionBegin, IdleTx, RowsOf
  <2>. HIDE DEF v
  <2>. QED BY <2>2, BeginMoves
\* A cancel and a settlement take their second step,
<1>5. ASSUME NEW v, Private(s, v), Stage[v.pc] > Stage[t.pc], RowsOf(v, t),
             v.pc \in {"cancelRelease", "settleOrders"}
      PROVE  \E w : Moves(s, w)
  BY <1>t, <1>5, RowsWalk DEF Private, Moves, Nearer
<1>6. CASE CancelFlush(s)
  <2>. DEFINE v == [t EXCEPT !.pc = "cancelRelease", !.locked = {t.order}, !.dirty = {t.order},
                             !.rows[t.order].status = "CANCELLED"]
  <2>1. t.pc = "cancelFlush" /\ Private(s, v)
    BY <1>6 DEF CancelFlush
  <2>2. v.pc = "cancelRelease" /\ v.rows = [t.rows EXCEPT ![t.order].status = "CANCELLED"]
    BY <1>t DEF TxRecords
  <2>. HIDE DEF v
  <2>3. RowsOf(v, t)
    BY <1>t, <2>2 DEF RowsOf, OrderRows
  <2>. QED BY <1>5, <2>1, <2>2, <2>3 DEF Stage
<1>7. CASE SettleListOrders(s)
  <2>. DEFINE open == {r \in Requests : orders[r].status \in OpenStatuses}
              v == [t EXCEPT !.pc = "settleOrders", !.todo = open,
                             !.rows = [r \in Requests |-> IF r \in open THEN orders[r] ELSE NoRow]]
  <2>1. t.pc = "settleBets" /\ Private(s, v)
    BY <1>7 DEF SettleListOrders
  <2>2. v.pc = "settleOrders" /\ RowsOf(v, t)
    BY <1>t DEF TxRecords, RowsOf, NoRow
  <2>. HIDE DEF v
  <2>. QED BY <1>5, <2>1, <2>2 DEF Stage
\* or a bet, or an order, less is left to do.
<1>8. ASSUME NEW v, Private(s, v), v.pc = t.pc, t.pc \in {"settleBets", "settleOrders"},
             v.todo \subseteq t.todo, v.todoBets \subseteq t.todoBets,
             v.todo # t.todo \/ v.todoBets # t.todoBets, RowsOf(v, t)
      PROVE  \E w : Moves(s, w)
  BY <1>t, <1>8, RowsWalk DEF Private, Moves, Nearer
<1>9. CASE \E b \in t.todoBets : SettleBet(s, b)
  <2>1. PICK b \in t.todoBets : SettleBet(s, b)
    BY <1>9
  <2>. DEFINE d == SettleBetDeltas(b.side, BetPrice(b), b.stake, BetOrder(b).selection = t.winner)
              p == Post(s, t, BetUser(b), SettleKey(b), d.balance, d.reserved)
              v == [p EXCEPT !.todoBets = @ \ {b}, !.settled = @ \cup {b}]
  <2>2. t.pc = "settleBets" /\ Private(s, v)
    BY <2>1 DEF SettleBet
  <2>3. v.pc = t.pc /\ v.todo = t.todo /\ v.todoBets = t.todoBets \ {b} /\ v.rows = t.rows
    BY <1>t DEF Post, TxRecords
  <2>. HIDE DEF v
  <2>4. v.todoBets \subseteq t.todoBets /\ v.todoBets # t.todoBets /\ RowsOf(v, t)
    BY <2>3 DEF RowsOf
  <2>. QED BY <1>8, <2>2, <2>3, <2>4
<1>10. CASE \E r \in Requests : SettleOrder(s, r)
  <2>1. PICK r \in Requests : SettleOrder(s, r)
    BY <1>10
  <2>. DEFINE release == ReleaseAmount(r.side, r.price, Remaining(r, t.rows[r]))
              paid == IF release > 0 THEN Post(s, t, r.user, ReleaseSettleKey(r), 0, - release) ELSE t
              v == [paid EXCEPT !.todo = @ \ {r}, !.dirty = @ \cup {r}, !.rows[r].status = "CANCELLED"]
  <2>2. t.pc = "settleOrders" /\ r \in t.todo /\ Private(s, v)
    BY <2>1 DEF SettleOrder
  <2>3. /\ paid.pc = t.pc /\ paid.todo = t.todo /\ paid.todoBets = t.todoBets /\ paid.rows = t.rows
        /\ v.pc = paid.pc /\ v.todo = paid.todo \ {r} /\ v.todoBets = paid.todoBets
        /\ v.rows = [paid.rows EXCEPT ![r].status = "CANCELLED"]
    BY <1>t DEF Post, TxRecords
  <2>. HIDE DEF v, paid
  <2>4. v.todo \subseteq t.todo /\ v.todo # t.todo
    BY <2>2, <2>3
  <2>5. RowsOf(v, t)
    BY <1>t, <2>3 DEF RowsOf, OrderRows
  <2>. QED BY <1>8, <2>2, <2>3, <2>4, <2>5
\* or an UPDATE less to send.
<1>11. CASE \E r \in Requests : SettleFlush(s, r)
  <2>1. PICK r \in Requests : SettleFlush(s, r)
    BY <1>11
  <2>. DEFINE v == [t EXCEPT !.locked = @ \cup {r}]
  <2>2. t.pc = "settleOrders" /\ r \in Unsent(t) /\ Private(s, v)
    BY <2>1 DEF SettleFlush
  <2>3. /\ v.pc = t.pc /\ v.todo = t.todo /\ v.todoBets = t.todoBets /\ v.rows = t.rows
        /\ Unsent(v) = Unsent(t) \ {r}
    BY <1>t DEF TxRecords, Unsent
  <2>. HIDE DEF v
  <2>4. WalkOK(v)
    BY <1>t, <2>2, <2>3, RowsWalk DEF RowsOf
  <2>5. Nearer(t, v)
    BY <2>2, <2>3 DEF Nearer
  <2>. QED BY <2>2, <2>4, <2>5 DEF Private, Moves
<1>12. CASE CancelRelease(s) \/ SettleCommit(s) \/ TransitionCommit(s) \/ StaleAbort(s) \/ Die(s)
  BY <1>1, <1>12 DEF CancelRelease, SettleCommit, TransitionCommit, StaleAbort, Die, Rollback, Commit
<1>. QED
  BY <1>2, <1>3, <1>4, <1>6, <1>7, <1>9, <1>10, <1>11, <1>12
     DEF CancelNext, SettleNext, TransitionNext

\* An order keeps its place in the queue.
LEMMA CreatedStays ==
  ASSUME Inv, WalkInv, NEW s \in Sessions,
         \/ PlaceNext(s) \/ CancelNext(s) \/ SettleNext(s) \/ TransitionNext(s)
         \/ StaleAbort(s) \/ Die(s),
         NEW r \in Requests, orders[r].version > 0
  PROVE  orders'[r].version > 0 /\ orders'[r].created = orders[r].created
<1>. DEFINE t == tx[s]
<1>t. /\ t \in TxRecords /\ t.order \in Requests /\ t.rows \in [Requests -> OrderRows]
      /\ orders \in [Requests -> OrderRows] /\ SessionOK(t) /\ WalkOK(t)
  BY TxType DEF Inv, WalkInv, TypeOK, TxRecords
<1>1. ASSUME NEW v, Commit(s, v), v.dirty = t.dirty, r \in t.dirty => t.rows[r].version = orders[r].version,
             v.rows[r] \in OrderRows, v.rows[r].version = t.rows[r].version,
             v.rows[r].created = t.rows[r].created
      PROVE  orders'[r].version > 0 /\ orders'[r].created = orders[r].created
  <2>1. orders'[r] = IF r \in t.dirty THEN [v.rows[r] EXCEPT !.version = @ + 1] ELSE orders[r]
    BY <1>1 DEF Commit
  <2>2. CASE r \in t.dirty
    <3>1. /\ orders'[r].version = v.rows[r].version + 1 /\ orders'[r].created = v.rows[r].created
          /\ v.rows[r].version \in Nat
      BY <1>1, <2>1, <2>2 DEF OrderRows
    <3>. QED BY <1>1, <1>t, <2>2, <3>1 DEF WalkOK
  <2>. QED BY <2>1, <2>2
<1>2. CASE PlaceCommit(s)
  <2>. DEFINE v == [t EXCEPT !.rows[t.order].status = StatusOf(t.order, t.rows[t.order])]
  <2>1. Commit(s, v) /\ \A q \in t.dirty : t.rows[q].version = orders[q].version
    BY <1>2 DEF PlaceCommit, Fresh
  <2>2. StatusOf(t.order, t.rows[t.order]) \in OrderStatuses
    BY DEF StatusOf, OrderStatuses
  <2>3. /\ v.dirty = t.dirty
        /\ v.rows = [t.rows EXCEPT ![t.order].status = StatusOf(t.order, t.rows[t.order])]
    BY <1>t DEF TxRecords
  <2>. HIDE DEF v
  <2>4. /\ v.rows[r] \in OrderRows /\ v.rows[r].version = t.rows[r].version
        /\ v.rows[r].created = t.rows[r].created
    BY <1>t, <2>2, <2>3 DEF OrderRows
  <2>. QED BY <1>1, <2>1, <2>3, <2>4
<1>3. CASE CancelRelease(s)
  <2>. DEFINE q == t.order
              amount == LiabilityMinor(q.side, q.price, Remaining(q, t.rows[q]))
              v == Post(s, t, q.user, ReleaseKey(q), 0, - amount)
  <2>1. Commit(s, v) /\ t.pc = "cancelRelease"
    BY <1>3 DEF CancelRelease
  <2>2. v.dirty = t.dirty /\ v.rows = t.rows
    BY <1>t DEF Post, TxRecords
  <2>3. r \in t.dirty => t.rows[r].version = orders[r].version
    BY <1>t, <2>1 DEF SessionOK, PhaseOK, LocksOK
  <2>. HIDE DEF v
  <2>. QED BY <1>1, <1>t, <2>1, <2>2, <2>3
<1>4. CASE SettleCommit(s)
  <2>1. Commit(s, t) /\ Unsent(t) = {}
    BY <1>4 DEF SettleCommit
  <2>2. r \in t.dirty => t.rows[r].version = orders[r].version
    BY <1>t, <2>1 DEF SessionOK, LocksOK, Unsent
  <2>. QED BY <1>1, <1>t, <2>1, <2>2
<1>. QED BY <1>2, <1>3, <1>4, OnlyCommitsWrite

\* Every step keeps the invariant.
LEMMA WalkStep == Inv /\ WalkInv /\ [Next]_vars => WalkInv'
<1>. SUFFICES ASSUME Inv, WalkInv, [Next]_vars PROVE WalkInv'
  OBVIOUS
<1>1. CASE UNCHANGED vars
  BY <1>1 DEF vars, WalkInv, WalkOK, Before
<1>2. CASE Next
  <2>1. PICK s \in Sessions :
          \/ PlaceNext(s) \/ CancelNext(s) \/ SettleNext(s) \/ TransitionNext(s)
          \/ StaleAbort(s) \/ Die(s)
    BY <1>2 DEF Next
  <2>2. \A r \in Requests : orders[r].version > 0 =>
          orders'[r].version > 0 /\ orders'[r].created = orders[r].created
    BY <2>1, CreatedStays
  <2>3. UNCHANGED tx \/ \E v : Moves(s, v)
    BY <2>1, PlaceMoves, OtherMoves
  <2>4. Inv'
    BY InvStep
  <2>5. ASSUME NEW z \in Sessions PROVE WalkOK(tx[z])'
    <3>1. PICK w : w = tx'[z] /\ WalkOK(w)
      BY <2>3 DEF Moves, WalkInv, Inv, TypeOK
    <3>2. w \in TxRecords /\ w.locked \subseteq Requests /\ w.todo \subseteq Requests
      BY <2>4, <3>1 DEF Inv, TypeOK, TxRecords
    <3>3. /\ \A q \in Requests : w.rows[q].version > 0 =>
               orders'[q].version > 0 /\ w.rows[q].created = orders'[q].created
          /\ w.pc = "lock" => \A m \in w.locked \cup w.todo : orders'[m].version > 0
      BY <2>2, <3>1, <3>2 DEF WalkOK
    <3>4. w.pc = "lock" => \A m \in w.locked, n \in w.todo : Before(m, n)'
      BY <2>2, <3>1, <3>2 DEF WalkOK, Before
    <3>. QED BY <3>1, <3>3, <3>4 DEF WalkOK
  <2>. QED BY <2>5 DEF WalkInv
<1>. QED BY <1>1, <1>2

\* It holds initially.
LEMMA InitWalk == Init => WalkInv
  BY DEF Init, NoRow, WalkInv, WalkOK, IdleTx

\* Orders of one side are in a strict order.
LEMMA BeforeOrders ==
  ASSUME TypeOK, NEW l \in Requests, NEW m \in Requests, NEW n \in Requests,
         l.side = m.side, m.side = n.side
  PROVE  /\ ~ Before(m, m)
         /\ Before(l, m) /\ Before(m, n) => Before(l, n)
<1>1. /\ l.price \in Int /\ m.price \in Int /\ n.price \in Int
      /\ orders[l].created \in Int /\ orders[m].created \in Int /\ orders[n].created \in Int
  BY RequestType DEF Prices, TypeOK, OrderRows
<1>. QED BY <1>1 DEF Before, Crosses, Opposite

\* The row a placement is to lock next is the only one.
LEMMA NextRow ==
  ASSUME Inv, NEW s \in Sessions, tx[s].pc = "lock", NEW m, FirstOf(tx[s].todo, m),
         NEW n, FirstOf(tx[s].todo, n)
  PROVE  m = n
<1>1. \A k \in tx[s].todo : k \in Requests /\ k.side = Opposite(tx[s].order.side)
  BY TxType DEF Inv, SessionOK, PhaseOK, Suits, TxRecords
<1>2. m \in tx[s].todo /\ n \in tx[s].todo /\ (m # n => Before(m, n) /\ Before(n, m))
  BY DEF FirstOf
<1>. QED BY <1>1, <1>2, BeforeOrders DEF Inv

\* Placements never deadlock among themselves: what holds one up that is to lock a row
\* has to lock a later one, so the row that comes last is not waited for in vain; and
\* what holds up one that is to insert or to reserve has reserved, or is to reserve.
THEOREM PlacersGoOn == Spec => []PlacementsDoNotDeadlock
<1>1. ASSUME Inv, WalkInv PROVE PlacementsDoNotDeadlock
  <2>. SUFFICES ASSUME NEW D \in SUBSET {s \in Sessions : tx[s].pc \in PlacePCs}, D # {},
                       \A s \in D : \E z \in D \ {s} : HeldUpBy(s, z)
                PROVE  FALSE
    BY DEF PlacementsDoNotDeadlock
  <2>. DEFINE L == {s \in D : tx[s].pc = "lock"}
              Later(s, z) == \E m, n : /\ FirstOf(tx[s].todo, m) /\ FirstOf(tx[z].todo, n)
                                       /\ m.side = n.side /\ Before(m, n)
              Ahead(s) == {z \in L : Later(s, z)}
  <2>1. \A s \in D : s \in Sessions /\ SessionOK(tx[s]) /\ WalkOK(tx[s]) /\ tx[s] \in TxRecords
    BY <1>1, TxType DEF Inv, WalkInv
  <2>2. \A s \in D : tx[s].pc \in {"insert", "reserve", "lock"}
    BY DEF HeldUpBy
  <2>3. ASSUME NEW s \in D, NEW z \in D, HeldUpBy(s, z)
        PROVE  /\ tx[s].pc \in {"reserve", "lock"} => z \in L
               /\ tx[s].pc = "insert" => tx[z].pc \in {"reserve", "lock"}
    <3>1. tx[z].pc \in {"insert", "reserve"} => tx[z].held = {} /\ tx[z].locked = {}
      BY <2>1 DEF WalkOK, SessionOK, PhaseOK
    <3>. QED BY <2>2, <2>3, <3>1 DEF HeldUpBy, PlacePCs
  <2>4. L # {}
    BY <2>2, <2>3
  <2>5. ASSUME NEW s \in L
        PROVE  \E z \in L : Ahead(z) \subseteq Ahead(s) /\ Ahead(z) # Ahead(s)
    <3>1. PICK z \in D : HeldUpBy(s, z)
      OBVIOUS
    <3>2. z \in L
      BY <2>3, <3>1
    <3>3. PICK m \in tx[z].locked : FirstOf(tx[s].todo, m)
      BY <3>1 DEF HeldUpBy
    <3>4. PICK y \in D : HeldUpBy(z, y)
      OBVIOUS
    <3>5. PICK n : FirstOf(tx[z].todo, n)
      BY <3>2, <3>4 DEF HeldUpBy
    <3>6. \A x \in L : \A k \in tx[x].todo \cup tx[x].locked :
            k \in Requests /\ k.side = Opposite(tx[x].order.side)
      BY <2>1 DEF SessionOK, PhaseOK, Suits, TxRecords
    <3>7. /\ m \in Requests /\ n \in Requests /\ m.side = n.side /\ Before(m, n)
      BY <2>1, <3>2, <3>3, <3>5, <3>6 DEF FirstOf, WalkOK
    <3>8. z \in Ahead(s)
      BY <3>2, <3>3, <3>5, <3>7
    <3>9. z \notin Ahead(z)
      <4>. SUFFICES ASSUME NEW k, FirstOf(tx[z].todo, k), NEW l, FirstOf(tx[z].todo, l), Before(k, l)
                    PROVE  FALSE
        OBVIOUS
      <4>1. k = n /\ l = n
        BY <1>1, <2>1, <3>2, <3>5, NextRow
      <4>. QED BY <1>1, <3>7, <4>1, BeforeOrders DEF Inv
    <3>10. ASSUME NEW x \in Ahead(z) PROVE x \in Ahead(s)
      <4>1. PICK k, l : /\ FirstOf(tx[z].todo, k) /\ FirstOf(tx[x].todo, l)
                        /\ k.side = l.side /\ Before(k, l)
        OBVIOUS
      <4>2. k = n
        BY <1>1, <2>1, <3>2, <3>5, <4>1, NextRow
      <4>3. x \in L /\ l \in Requests
        BY <3>6, <4>1 DEF FirstOf
      <4>4. Before(m, l) /\ m.side = l.side
        BY <1>1, <3>7, <4>1, <4>2, <4>3, BeforeOrders DEF Inv
      <4>. QED BY <3>3, <4>1, <4>3, <4>4
    <3>. QED BY <3>2, <3>8, <3>9, <3>10
  <2>. DEFINE T == {Ahead(s) : s \in L}
  <2>6. T \subseteq SUBSET Sessions /\ T # {}
    <3>1. \A s \in L : Ahead(s) \subseteq Sessions
      OBVIOUS
    <3>. HIDE DEF L, Ahead
    <3>. QED BY <2>4, <3>1
  <2>7. \A u \in T : \E w \in T : w \subseteq u /\ w # u
    <3>. HIDE DEF L, Ahead
    <3>1. SUFFICES ASSUME NEW s \in L PROVE \E w \in T : w \subseteq Ahead(s) /\ w # Ahead(s)
      OBVIOUS
    <3>2. PICK z \in L : Ahead(z) \subseteq Ahead(s) /\ Ahead(z) # Ahead(s)
      BY <2>5
    <3>. QED BY <3>2
  <2>. HIDE DEF T
  <2>8. PICK u \in T : \A w \in T : ~ (w \subseteq u /\ w # u)
    BY <2>6, SessionsAssumption, SmallestSubset
  <2>. QED BY <2>7, <2>8
<1>. QED BY <1>1, InitWalk, WalkStep, Invariant, PTL DEF Spec

\* No request goes back: each step of its session brings it nearer to its end.
THEOREM RequestsEnd == Spec => StepsOnward
<1>. DEFINE Onward == \A s \in Sessions : ~ Idle(s) /\ tx'[s] # tx[s] => Nearer(tx[s], tx'[s])
<1>1. Inv /\ WalkInv /\ [Next]_vars => [Onward]_vars
  <2>. SUFFICES ASSUME Inv, WalkInv, Next PROVE Onward
    OBVIOUS
  <2>1. PICK s \in Sessions :
          \/ PlaceNext(s) \/ CancelNext(s) \/ SettleNext(s) \/ TransitionNext(s)
          \/ StaleAbort(s) \/ Die(s)
    BY DEF Next
  <2>2. UNCHANGED tx \/ \E v : Moves(s, v)
    BY <2>1, PlaceMoves, OtherMoves
  <2>. QED BY <2>2 DEF Moves, Inv, TypeOK
<1>. QED BY <1>1, InitWalk, WalkStep, Invariant, PTL DEF Spec, StepsOnward

-----------------------------------------------------------------------------
(* Private steps                                                            *)

\* What nobody has placed, filled or settled yet is not touched by a step in private.
LEMMA PrivateSerial ==
  ASSUME Inv, SerialInv, NEW s \in Sessions, Sessions = {s}, NEW t, Private(s, t),
         clock' \in Nat, clock <= clock', SerialOK(t), Taking(t) => t.rows[t.order].created < clock'
  PROVE  SerialInv'
<1>1. UNCHANGED <<market, orders, bets, settledBets>>
  BY DEF Private
<1>2. QueueOK'
  <2>1. Placed' = Placed
    BY <1>1 DEF Placed
  <2>2. \A r \in Placed : orders[r].created < clock'
    <3>. SUFFICES ASSUME NEW r \in Placed PROVE orders[r].created < clock'
      OBVIOUS
    <3>1. orders[r].created \in Nat /\ clock \in Nat /\ orders[r].created < clock
      BY DEF SerialInv, QueueOK, Placed, Inv, TypeOK, OrderRows
    <3>. QED BY <3>1
  <2>. QED BY <1>1, <2>1, <2>2 DEF SerialInv, QueueOK
<1>3. UncrossedBook' /\ SettlementResolvesAll'
  BY <1>1 DEF SerialInv, UncrossedBook, SettlementResolvesAll
<1>4. tx'[s] = t
  BY DEF Private, Inv, TypeOK
<1>5. SerialOK(t)'
  BY <1>1 DEF SerialOK, Sent, MatchingOK, Taking, Placed, Matchable, Before
<1>6. \A z \in Sessions : /\ SerialOK(tx[z])'
                          /\ (Taking(tx[z]) => tx[z].rows[tx[z].order].created < clock)'
  BY <1>4, <1>5 DEF Taking
<1>. QED BY <1>2, <1>3, <1>6 DEF SerialInv

\* A session that runs no request owes nothing.
LEMMA IdleSerial == SerialOK(IdleTx) /\ ~ Taking(IdleTx)
  BY DEF IdleTx, SerialOK, Sent, MatchingOK, Taking, PlacePCs

\* A transaction that ends without a commit leaves nothing.
LEMMA RollbackSerial ==
  ASSUME Inv, SerialInv, NEW s \in Sessions, Sessions = {s}, Rollback(s)
  PROVE  SerialInv'
<1>1. UNCHANGED <<market, orders, bets, settledBets, clock>> /\ tx'[s] = IdleTx
  BY DEF Rollback, End, Inv, TypeOK
<1>2. QueueOK' /\ UncrossedBook' /\ SettlementResolvesAll'
  BY <1>1 DEF SerialInv, QueueOK, Placed, UncrossedBook, SettlementResolvesAll
<1>3. (SerialOK(IdleTx) /\ ~ Taking(IdleTx))'
  BY IdleSerial, <1>1 DEF SerialOK, Sent, MatchingOK, Taking, IdleTx, PlacePCs
<1>4. \A z \in Sessions : SerialOK(tx[z])' /\ ~ Taking(tx[z])'
  BY <1>1, <1>3 DEF IdleTx
<1>. QED BY <1>2, <1>4 DEF SerialInv

\* Requests that begin.
LEMMA BeginSerial ==
  ASSUME Inv, SerialInv, NEW s \in Sessions, Sessions = {s},
         \/ \E r \in Requests : PlaceBegin(s, r) \/ CancelBegin(s, r)
         \/ \E winner \in Winners : SettleBegin(s, winner)
         \/ \E target \in MarketStatuses : TransitionBegin(s, target)
  PROVE  SerialInv'
<1>c. clock' = clock /\ clock \in Nat
  BY DEF PlaceBegin, CancelBegin, SettleBegin, TransitionBegin, Inv, TypeOK
<1>1. ASSUME NEW r \in Requests, PlaceBegin(s, r) PROVE SerialInv'
  <2>. DEFINE v == [IdleTx EXCEPT !.pc = "insert", !.order = r, !.market = market]
  <2>1. Private(s, v) /\ market.status = "OPEN" /\ market' = market
    BY <1>1 DEF PlaceBegin, Private
  <2>2. v.pc = "insert" /\ v.dirty = {}
    BY DEF IdleTx
  <2>. HIDE DEF v
  <2>3. SerialOK(v) /\ ~ Taking(v)
    BY <2>1, <2>2 DEF SerialOK, Sent, MatchingOK, Taking, PlacePCs
  <2>. QED BY <1>c, <2>1, <2>3, PrivateSerial
<1>2. ASSUME NEW r \in Requests, CancelBegin(s, r) PROVE SerialInv'
  <2>. DEFINE v == [IdleTx EXCEPT !.pc = "cancelFlush", !.order = r, !.rows[r] = orders[r]]
  <2>1. Private(s, v)
    BY <1>2 DEF CancelBegin
  <2>2. v.pc = "cancelFlush" /\ v.dirty = {}
    BY DEF IdleTx
  <2>. HIDE DEF v
  <2>3. SerialOK(v) /\ ~ Taking(v)
    BY <2>1, <2>2 DEF SerialOK, Sent, MatchingOK, Taking, PlacePCs
  <2>. QED BY <1>c, <2>1, <2>3, PrivateSerial
<1>3. ASSUME NEW winner \in Winners, SettleBegin(s, winner) PROVE SerialInv'
  <2>. DEFINE v == [IdleTx EXCEPT !.pc = "settleBets", !.winner = winner, !.market = market,
                                  !.todoBets = bets \ settledBets]
  <2>1. Private(s, v) /\ bets' = bets /\ settledBets' = settledBets
    BY <1>3 DEF SettleBegin, Private
  <2>2. v.pc = "settleBets" /\ v.todoBets = bets \ settledBets /\ v.dirty = {}
    BY DEF IdleTx
  <2>. HIDE DEF v
  <2>3. SerialOK(v) /\ ~ Taking(v)
    BY <2>1, <2>2 DEF SerialOK, Sent, MatchingOK, Taking, PlacePCs
  <2>. QED BY <1>c, <2>1, <2>3, PrivateSerial
<1>4. ASSUME NEW target \in MarketStatuses, TransitionBegin(s, target) PROVE SerialInv'
  <2>. DEFINE v == [IdleTx EXCEPT !.pc = "transition", !.target = target, !.market = market]
  <2>1. Private(s, v)
    BY <1>4 DEF TransitionBegin
  <2>2. v.pc = "transition" /\ v.dirty = {}
    BY DEF IdleTx
  <2>. HIDE DEF v
  <2>3. SerialOK(v) /\ ~ Taking(v)
    BY <2>1, <2>2 DEF SerialOK, Sent, MatchingOK, Taking, PlacePCs
  <2>. QED BY <1>c, <2>1, <2>3, PrivateSerial
<1>. QED BY <1>1, <1>2, <1>3, <1>4

\* The INSERT: the last in the queue.
LEMMA PlaceInsertSerial ==
  ASSUME Inv, SerialInv, NEW s \in Sessions, Sessions = {s}, PlaceInsert(s)
  PROVE  SerialInv'
<1>. DEFINE t == tx[s]
            r == t.order
            row == [status |-> "OPEN", matched |-> 0, created |-> clock, version |-> 0]
            v == [t EXCEPT !.pc = "reserve", !.rows[r] = row, !.dirty = {r}]
<1>t. t \in TxRecords /\ r \in Requests /\ clock \in Nat
  BY TxType DEF Inv, TypeOK
<1>q. Private(s, v) /\ t.pc = "insert" /\ clock' = clock + 1
  BY DEF PlaceInsert
<1>1. v.pc = "reserve" /\ v.order = r /\ v.rows[r].created = clock /\ v.dirty = {r}
  BY <1>t DEF TxRecords
<1>. HIDE DEF v
<1>2. r \notin Placed
  BY DEF PlaceInsert, KeyTaken, Placed
<1>3. market.status = "OPEN" /\ \A q \in Placed : orders[q].created < clock
  BY <1>q DEF SerialInv, SerialOK, QueueOK, PlacePCs
<1>4. SerialOK(v)
  BY <1>1, <1>2, <1>3, <1>q, <1>t DEF SerialOK, Sent, MatchingOK, Taking, PlacePCs
<1>5. v.rows[v.order].created < clock'
  BY <1>1, <1>q, <1>t
<1>. QED BY <1>q, <1>t, <1>4, <1>5, PrivateSerial

\* The snapshot of the makers: all there are.
LEMMA PlaceReserveSerial ==
  ASSUME Inv, SerialInv, NEW s \in Sessions, Sessions = {s}, PlaceReserve(s)
  PROVE  SerialInv'
<1>. DEFINE t == tx[s]
            r == t.order
            p == Post(s, t, r.user, HoldKey(r), 0, Exposure(r))
            v == [p EXCEPT !.pc = "lock", !.todo = Matchable(r)]
<1>t. t \in TxRecords /\ r \in Requests /\ TypeOK /\ clock \in Nat
  BY TxType DEF Inv, TypeOK
<1>k. /\ r.user \in Users /\ 0 \in Int /\ Exposure(r) \in Int
      /\ HoldKey(r) \in LedgerKeys
  BY <1>t, RequestType, LiabilityType DEF Exposure, HoldKey, LedgerKeys
<1>p. p \in TxRecords /\ p.order = r /\ p.rows = t.rows /\ p.dirty = t.dirty /\ p.locked = t.locked
  <2>. HIDE DEF t
  <2>. QED BY <1>t, <1>k, PostFields, PostType
<1>q. Private(s, v) /\ t.pc = "reserve" /\ clock' = clock
  BY DEF PlaceReserve
<1>. HIDE DEF p
<1>1. /\ v.pc = "lock" /\ v.order = r /\ v.rows = t.rows /\ v.todo = Matchable(r)
      /\ v.dirty = t.dirty /\ v.locked = t.locked
  BY <1>p DEF TxRecords
<1>. HIDE DEF v
<1>2. SerialOK(t) /\ t.rows[r].created < clock /\ t.locked = {}
  BY <1>q DEF SerialInv, Taking, PlacePCs, Inv, SessionOK, PhaseOK
<1>3. SerialOK(v) /\ v.rows[v.order].created < clock'
  BY <1>1, <1>2, <1>q DEF SerialOK, Sent, MatchingOK, Taking, PlacePCs
<1>. QED BY <1>q, <1>t, <1>3, PrivateSerial

\* One lock: the row moves from those to come to those there are.
LEMMA PlaceLockSerial ==
  ASSUME Inv, SerialInv, NEW s \in Sessions, Sessions = {s}, NEW m \in Requests, PlaceLock(s, m)
  PROVE  SerialInv'
<1>. DEFINE t == tx[s]
            r == t.order
            v == [t EXCEPT !.todo = @ \ {m}, !.locked = @ \cup {m}, !.rows[m] = orders[m]]
<1>t. t \in TxRecords /\ r \in Requests /\ clock \in Nat
  BY TxType DEF Inv, TypeOK
<1>q. Private(s, v) /\ t.pc = "lock" /\ m \in t.todo /\ clock' = clock
  BY DEF PlaceLock, FirstOf
<1>1. /\ v.pc = "lock" /\ v.order = r /\ v.dirty = t.dirty
      /\ v.todo = t.todo \ {m} /\ v.locked = t.locked \cup {m}
      /\ v.rows[m] = orders[m] /\ \A q \in Requests \ {m} : v.rows[q] = t.rows[q]
  BY <1>q, <1>t DEF TxRecords
<1>2. SerialOK(t) /\ Taking(t) /\ t.rows[r].created < clock
  BY <1>q DEF SerialInv, Taking, PlacePCs
<1>3. t.dirty = {r} /\ r # m /\ t.locked \subseteq Requests
  BY <1>q, <1>t, OrderIsNoMaker DEF TxRecords
<1>. HIDE DEF v
<1>4. v.rows[r] = t.rows[r]
  BY <1>1, <1>3, <1>t
<1>5. MatchingOK(v)
  <2>1. v.todo \cup v.locked = Matchable(r)
    BY <1>1, <1>2, <1>q DEF SerialOK, MatchingOK
  <2>2. \A n \in v.locked : v.rows[n].created = orders[n].created
    BY <1>1, <1>2, <1>3, <1>q DEF SerialOK, MatchingOK
  <2>. QED BY <1>1, <2>1, <2>2 DEF MatchingOK
<1>6. SerialOK(v)
  BY <1>1, <1>2, <1>3, <1>4, <1>5, <1>q DEF SerialOK, Sent, Taking, Placed, PlacePCs
<1>7. v.rows[v.order].created < clock'
  BY <1>1, <1>2, <1>4, <1>q
<1>. QED BY <1>q, <1>t, <1>6, <1>7, PrivateSerial

\* The locks are had: nobody took a maker away in between.
LEMMA PlaceMakersSerial ==
  ASSUME Inv, SerialInv, NEW s \in Sessions, Sessions = {s}, PlaceMakers(s)
  PROVE  SerialInv'
<1>. DEFINE t == tx[s]
            r == t.order
            v == [t EXCEPT !.pc = "match", !.todo = t.locked \cap Matchable(r)]
<1>t. t \in TxRecords /\ r \in Requests /\ clock \in Nat
  BY TxType DEF Inv, TypeOK
<1>q. Private(s, v) /\ t.pc = "lock" /\ t.todo = {} /\ clock' = clock
  BY DEF PlaceMakers
<1>1. /\ v.pc = "match" /\ v.order = r /\ v.dirty = t.dirty /\ v.rows = t.rows
      /\ v.todo = t.locked \cap Matchable(r)
  BY <1>t DEF TxRecords
<1>. HIDE DEF v
<1>2. SerialOK(t) /\ Taking(t) /\ t.rows[r].created < clock
  BY <1>q DEF SerialInv, Taking, PlacePCs
<1>3. t.dirty = {r}
  BY <1>q, OrderIsNoMaker
<1>4. /\ v.todo = Matchable(r)
      /\ \A m \in Matchable(r) : t.rows[m].created = orders[m].created
  BY <1>1, <1>2, <1>q DEF SerialOK, MatchingOK
<1>5. MatchingOK(v)
  BY <1>1, <1>3, <1>4 DEF MatchingOK
<1>6. SerialOK(v)
  BY <1>1, <1>2, <1>5, <1>q DEF SerialOK, Sent, Taking, PlacePCs
<1>7. v.rows[v.order].created < clock'
  BY <1>1, <1>2, <1>q
<1>. QED BY <1>q, <1>t, <1>6, <1>7, PrivateSerial

\* One turn of the loop: the first that is left is met.
LEMMA PlaceMatchSerial ==
  ASSUME Inv, FillInv, SerialInv, NEW s \in Sessions, Sessions = {s},
         NEW m \in Requests, PlaceMatch(s, m)
  PROVE  SerialInv'
<1>. DEFINE t == tx[s]
            r == t.order
            open == Remaining(r, t.rows[r])
            offered == Remaining(m, t.rows[m])
            size == IF open <= offered THEN open ELSE offered
            filled == [t.rows[m] EXCEPT !.matched = @ + size]
            maker == [filled EXCEPT !.status =
                        IF Remaining(m, filled) = 0 THEN "MATCHED" ELSE "PARTIALLY_MATCHED"]
            rows2 == [t.rows EXCEPT ![r].matched = @ + size, ![m] = maker]
            Bet(x) == [taker |-> r, maker |-> m, side |-> x, stake |-> size]
            fills == {Bet(x) : x \in Sides}
            v == [t EXCEPT !.rows = rows2, !.dirty = @ \cup {m}, !.todo = @ \ {m},
                           !.newBets = @ \cup fills]
<1>t. /\ t \in TxRecords /\ r \in Requests /\ TypeOK /\ clock \in Nat
      /\ t.rows[r] \in OrderRows /\ t.rows[m] \in OrderRows
      /\ open \in Int /\ offered \in Int
      /\ t.dirty \in SUBSET Requests
  BY TxType DEF Inv, TypeOK, TxRecords
<1>q. /\ Private(s, v) /\ t.pc = "match" /\ m \in t.todo /\ open > 0 /\ clock' = clock
      /\ \A n \in t.todo \ {m} : Before(m, n)
  BY DEF PlaceMatch, NextMaker, FirstOf
<1>2. Taking(t) /\ SessionOK(t) /\ SerialOK(t) /\ t.rows[r].created < clock
  BY <1>q DEF SerialInv, Inv, Taking, PlacePCs
<1>m. m \notin t.dirty /\ r \in t.dirty /\ r # m
  BY <1>2, <1>q DEF SessionOK, PhaseOK, WritesOK
<1>s. size \in Int
  BY <1>t
<1>o. size = open \/ size = offered
  OBVIOUS
<1>. HIDE DEF size
<1>f. /\ filled \in OrderRows /\ filled.matched = t.rows[m].matched + size
      /\ filled.created = t.rows[m].created
  BY <1>t, <1>s DEF OrderRows
<1>k. /\ maker.created = t.rows[m].created
      /\ size = offered => maker.status = "MATCHED"
  <2>1. size = offered => Remaining(m, filled) = 0
    <3>1. m.stake \in Nat /\ t.rows[m].matched \in Int
      BY <1>t, RequestType DEF OrderRows
    <3>2. offered = m.stake - t.rows[m].matched /\ Remaining(m, filled) = m.stake - filled.matched
      BY DEF Remaining
    <3>. HIDE DEF offered, filled
    <3>. QED BY <3>1, <3>2, <1>f, <1>s
  <2>. HIDE DEF filled
  <2>. QED BY <2>1, <1>f DEF OrderRows
<1>e. /\ [t.rows[r] EXCEPT !.matched = @ + size].matched = t.rows[r].matched + size
      /\ [t.rows[r] EXCEPT !.matched = @ + size].created = t.rows[r].created
  BY <1>t, <1>s DEF OrderRows
<1>3. /\ \A q \in Requests \ {r, m} : rows2[q] = t.rows[q]
      /\ rows2[m] = maker
      /\ rows2[r].matched = t.rows[r].matched + size /\ rows2[r].created = t.rows[r].created
  <2>. HIDE DEF maker
  <2>. QED BY <1>t, <1>m, <1>e DEF TxRecords
<1>4. /\ v.pc = "match" /\ v.order = r /\ v.dirty = t.dirty \cup {m} /\ v.todo = t.todo \ {m}
      /\ v.rows = rows2
  <2>. HIDE DEF fills, rows2
  <2>. QED BY <1>t, <1>q DEF TxRecords
<1>5. Remaining(r, rows2[r]) > 0 => maker.status = "MATCHED"
  <2>1. r.stake \in Nat /\ t.rows[r].matched \in Int
    BY <1>t, RequestType DEF OrderRows
  <2>2. open = r.stake - t.rows[r].matched /\ Remaining(r, rows2[r]) = r.stake - rows2[r].matched
    BY DEF Remaining
  <2>. HIDE DEF open, offered, rows2, maker
  <2>. QED BY <2>1, <2>2, <1>3, <1>o, <1>s, <1>k
<1>. HIDE DEF v, rows2, maker, filled, fills, open, offered
<1>6. /\ Matchable(r) = t.todo \cup (t.dirty \ {r})
      /\ \A k \in Matchable(r) : t.rows[k].created = orders[k].created
      /\ \A k \in t.dirty \ {r}, n \in t.todo : Before(k, n)
      /\ \A k \in t.dirty \ {r} : t.rows[k].status = "MATCHED"
  BY <1>2, <1>q DEF SerialOK, Sent, MatchingOK, open
<1>8. Matchable(r) \subseteq Requests /\ r \notin Matchable(r)
  <2>1. orders[r].status = "ABSENT"
    BY <1>2, <1>t DEF SessionOK, WritesOK, KeyTaken
  <2>. QED BY <2>1 DEF Matchable, OpenStatuses
<1>9. \A k \in (t.dirty \ {r}) : rows2[k] = t.rows[k]
  BY <1>3, <1>m, <1>t
<1>n. /\ \A k, n \in Matchable(r) : Before(k, n) => ~ Before(n, k)
      /\ \A k \in Matchable(r) : ~ Before(k, k)
  <2>. SUFFICES ASSUME NEW k \in Matchable(r), NEW n \in Matchable(r), Before(k, n), Before(n, k)
                PROVE  FALSE
    <3>1. \A k \in Matchable(r) : ~ (k.price # k.price)
      OBVIOUS
    <3>. QED OBVIOUS
  <2>1. /\ k.price \in Nat /\ n.price \in Nat /\ k.side = n.side
        /\ orders[k].created \in Nat /\ orders[n].created \in Nat
    BY <1>8, <1>t, RequestType DEF Matchable, Prices, TypeOK, OrderRows
  <2>. QED BY <2>1 DEF Before, Crosses
<1>10. MatchingOK(v)
  <2>1. Matchable(r) = v.todo \cup (v.dirty \ {r})
    BY <1>4, <1>6, <1>q, <1>m
  <2>2. \A k \in Matchable(r) : v.rows[k].created = orders[k].created
    <3>. SUFFICES ASSUME NEW k \in Matchable(r) PROVE rows2[k].created = t.rows[k].created
      BY <1>4, <1>6
    <3>. QED BY <1>3, <1>8, <1>k
  <2>3. \A k \in v.dirty \ {r}, n \in v.todo : Before(k, n)
    BY <1>4, <1>6, <1>q
  <2>4. \A k \in t.dirty \ {r} : v.rows[k].status = "MATCHED"
    BY <1>4, <1>6, <1>9
  <2>5. \A k, n \in v.dirty \ {r} : Before(k, n) => v.rows[k].status = "MATCHED"
    <3>. SUFFICES ASSUME NEW k \in v.dirty \ {r}, NEW n \in v.dirty \ {r}, Before(k, n)
                  PROVE  v.rows[k].status = "MATCHED"
      OBVIOUS
    <3>1. k \in t.dirty \ {r} \/ k = m
      BY <1>4
    <3>2. k = m => FALSE
      <4>. SUFFICES ASSUME k = m PROVE FALSE
        OBVIOUS
      <4>1. n = m \/ n \in t.dirty \ {r}
        BY <1>4
      <4>2. m \in Matchable(r)
        BY <1>6, <1>q
      <4>3. CASE n = m
        BY <1>n, <4>2, <4>3
      <4>4. CASE n \in t.dirty \ {r}
        BY <1>n, <1>6, <1>q, <4>2, <4>4
      <4>. QED BY <4>1, <4>3, <4>4
    <3>. QED BY <3>1, <3>2, <2>4
  <2>6. Remaining(r, v.rows[r]) > 0 => \A k \in v.dirty \ {r} : v.rows[k].status = "MATCHED"
    BY <1>3, <1>4, <1>5, <2>4
  <2>. QED BY <1>4, <2>1, <2>2, <2>3, <2>5, <2>6 DEF MatchingOK
<1>11. \A k \in v.dirty \cap Placed : v.rows[k].created = orders[k].created
  <2>1. r \notin Placed
    BY <1>2, <1>t DEF SessionOK, WritesOK, KeyTaken, Placed
  <2>2. \A k \in v.dirty \ {r} : k \in Matchable(r)
    BY <1>4, <1>6, <1>q
  <2>3. \A k \in Matchable(r) : v.rows[k].created = orders[k].created
    BY <1>4, <1>10 DEF MatchingOK
  <2>. QED BY <2>1, <2>2, <2>3
<1>12. SerialOK(v) /\ v.rows[v.order].created < clock'
  BY <1>2, <1>3, <1>4, <1>10, <1>11, <1>q DEF SerialOK, Sent, Taking, PlacePCs
<1>. QED BY <1>q, <1>t, <1>12, PrivateSerial

\* The UPDATE of a cancellation keeps the order's place.
LEMMA CancelFlushSerial ==
  ASSUME Inv, SerialInv, NEW s \in Sessions, Sessions = {s}, CancelFlush(s)
  PROVE  SerialInv'
<1>. DEFINE t == tx[s]
            r == t.order
            v == [t EXCEPT !.pc = "cancelRelease", !.locked = {r}, !.dirty = {r},
                           !.rows[r].status = "CANCELLED"]
<1>t. t \in TxRecords /\ r \in Requests /\ clock \in Nat /\ t.rows[r] \in OrderRows
  BY TxType DEF Inv, TypeOK
<1>q. Private(s, v) /\ t.pc = "cancelFlush" /\ clock' = clock /\ Fresh(s, r)
  BY DEF CancelFlush
<1>1. t.rows[r] = orders[r]
  <2>1. SessionOK(t) /\ t.dirty = {}
    BY <1>q DEF Inv, SessionOK, PhaseOK
  <2>. QED BY <2>1, <1>q, <1>t DEF SessionOK, CopiesOK, Fresh
<1>2. v.pc = "cancelRelease" /\ v.dirty = {r} /\ v.rows[r].created = orders[r].created
  BY <1>t, <1>1 DEF TxRecords, OrderRows
<1>. HIDE DEF v
<1>3. SerialOK(v) /\ ~ Taking(v)
  BY <1>2 DEF SerialOK, Sent, MatchingOK, Taking, PlacePCs
<1>. QED BY <1>q, <1>t, <1>3, PrivateSerial

\* A bet that is settled was to be.
LEMMA SettleBetSerial ==
  ASSUME Inv, SerialInv, NEW s \in Sessions, Sessions = {s},
         NEW b \in tx[s].todoBets, SettleBet(s, b)
  PROVE  SerialInv'
<1>. DEFINE t == tx[s]
            d == SettleBetDeltas(b.side, BetPrice(b), b.stake, BetOrder(b).selection = t.winner)
            p == Post(s, t, BetUser(b), SettleKey(b), d.balance, d.reserved)
            v == [p EXCEPT !.todoBets = @ \ {b}, !.settled = @ \cup {b}]
<1>t. t \in TxRecords /\ TypeOK /\ clock \in Nat /\ b \in BetRecords
  BY TxType DEF Inv, TypeOK, TxRecords
<1>k. /\ BetUser(b) \in Users /\ SettleKey(b) \in LedgerKeys
      /\ d.balance \in Int /\ d.reserved \in Int
  BY <1>t, BetType, SettleType
<1>q. Private(s, v) /\ t.pc = "settleBets" /\ clock' = clock
  BY DEF SettleBet
<1>p. /\ p \in TxRecords /\ p.pc = t.pc /\ p.dirty = t.dirty
      /\ p.todoBets = t.todoBets /\ p.settled = t.settled
  <2>. HIDE DEF t, d
  <2>. QED BY <1>t, <1>k, PostFields, PostType
<1>. HIDE DEF p
<1>1. /\ v.pc = "settleBets" /\ v.dirty = t.dirty
      /\ v.todoBets = t.todoBets \ {b} /\ v.settled = t.settled \cup {b}
  BY <1>p, <1>q DEF TxRecords
<1>. HIDE DEF v
<1>2. SerialOK(t) /\ t.dirty = {}
  BY <1>q DEF SerialInv, Inv, SessionOK, PhaseOK
<1>3. SerialOK(v) /\ ~ Taking(v)
  BY <1>1, <1>2, <1>q DEF SerialOK, Sent, MatchingOK, Taking, PlacePCs
<1>. QED BY <1>q, <1>t, <1>3, PrivateSerial

\* The list of the resting orders is complete.
LEMMA SettleListOrdersSerial ==
  ASSUME Inv, SerialInv, NEW s \in Sessions, Sessions = {s}, SettleListOrders(s)
  PROVE  SerialInv'
<1>. DEFINE t == tx[s]
            open == {r \in Requests : orders[r].status \in OpenStatuses}
            v == [t EXCEPT !.pc = "settleOrders", !.todo = open,
                           !.rows = [r \in Requests |-> IF r \in open THEN orders[r] ELSE NoRow]]
<1>t. t \in TxRecords /\ clock \in Nat
  BY TxType DEF Inv, TypeOK
<1>q. Private(s, v) /\ t.pc = "settleBets" /\ clock' = clock
  BY DEF SettleListOrders
<1>1. /\ v.pc = "settleOrders" /\ v.dirty = t.dirty /\ v.todo = open
      /\ v.todoBets = t.todoBets /\ v.settled = t.settled
  BY <1>t DEF TxRecords
<1>. HIDE DEF v
<1>2. SerialOK(t) /\ t.dirty = {}
  BY <1>q DEF SerialInv, Inv, SessionOK, PhaseOK
<1>3. SerialOK(v) /\ ~ Taking(v)
  BY <1>1, <1>2, <1>q DEF SerialOK, Sent, MatchingOK, Taking, PlacePCs
<1>. QED BY <1>q, <1>t, <1>3, PrivateSerial

\* An order that is withdrawn was listed, and keeps its place.
LEMMA SettleOrderSerial ==
  ASSUME Inv, SerialInv, NEW s \in Sessions, Sessions = {s},
         NEW r \in Requests, SettleOrder(s, r)
  PROVE  SerialInv'
<1>. DEFINE t == tx[s]
            release == ReleaseAmount(r.side, r.price, Remaining(r, t.rows[r]))
            post == Post(s, t, r.user, ReleaseSettleKey(r), 0, - release)
            paid == IF release > 0 THEN post ELSE t
            v == [paid EXCEPT !.todo = @ \ {r}, !.dirty = @ \cup {r}, !.rows[r].status = "CANCELLED"]
<1>t. t \in TxRecords /\ TypeOK /\ clock \in Nat /\ t.rows[r] \in OrderRows
  BY TxType DEF Inv, TypeOK
<1>q. Private(s, v) /\ t.pc = "settleOrders" /\ r \in t.todo /\ clock' = clock
  BY DEF SettleOrder
<1>k. r.user \in Users /\ ReleaseSettleKey(r) \in LedgerKeys /\ 0 \in Int /\ - release \in Int
  BY <1>t, RequestType, TxType, LiabilityType DEF ReleaseSettleKey, LedgerKeys
<1>p. /\ post \in TxRecords /\ post.pc = t.pc /\ post.dirty = t.dirty /\ post.todo = t.todo
      /\ post.rows = t.rows /\ post.todoBets = t.todoBets /\ post.settled = t.settled
      /\ post.locked = t.locked
  <2>. HIDE DEF t, release
  <2>. QED BY <1>t, <1>k, PostFields, PostType
<1>. HIDE DEF post, release
<1>d. /\ paid \in TxRecords /\ paid.pc = t.pc /\ paid.dirty = t.dirty /\ paid.todo = t.todo
      /\ paid.rows = t.rows /\ paid.todoBets = t.todoBets /\ paid.settled = t.settled
      /\ paid.locked = t.locked
  BY <1>t, <1>p
<1>. HIDE DEF paid
<1>1. /\ v.pc = t.pc /\ v.dirty = t.dirty \cup {r} /\ v.todo = t.todo \ {r}
      /\ v.todoBets = t.todoBets /\ v.settled = t.settled /\ v.locked = t.locked
      /\ v.rows = [t.rows EXCEPT ![r].status = "CANCELLED"]
  BY <1>d DEF TxRecords
<1>2. r \notin t.locked
  BY <1>q DEF Inv, SessionOK, PhaseOK
<1>3. \A q \in Requests \ {r} : v.rows[q] = t.rows[q]
  <2>. HIDE DEF v
  <2>. QED BY <1>1, <1>t DEF TxRecords
<1>. HIDE DEF v
<1>4. SerialOK(t)
  BY DEF SerialInv
<1>5. \A q \in Sent(v) \cap Placed : v.rows[q].created = orders[q].created
  BY <1>1, <1>2, <1>3, <1>4, <1>q DEF SerialOK, Sent, Placed
<1>6. SerialOK(v) /\ ~ Taking(v)
  BY <1>1, <1>4, <1>5, <1>q DEF SerialOK, MatchingOK, Taking, PlacePCs
<1>. QED BY <1>q, <1>t, <1>6, PrivateSerial

\* The UPDATE of an order that was withdrawn keeps its place.
LEMMA SettleFlushSerial ==
  ASSUME Inv, SerialInv, NEW s \in Sessions, Sessions = {s},
         NEW r \in Requests, SettleFlush(s, r)
  PROVE  SerialInv'
<1>. DEFINE t == tx[s]
            v == [t EXCEPT !.locked = @ \cup {r}]
<1>t. t \in TxRecords /\ TypeOK /\ clock \in Nat
  BY TxType DEF Inv, TypeOK
<1>q. Private(s, v) /\ t.pc = "settleOrders" /\ r \in Unsent(t) /\ clock' = clock /\ Fresh(s, r)
  BY DEF SettleFlush
<1>1. /\ v.pc = t.pc /\ v.dirty = t.dirty /\ v.todo = t.todo /\ v.rows = t.rows
      /\ v.todoBets = t.todoBets /\ v.settled = t.settled /\ v.locked = t.locked \cup {r}
  BY <1>t DEF TxRecords
<1>. HIDE DEF v
<1>2. t.rows[r].created = orders[r].created
  <2>1. t.rows[r] = [orders[r] EXCEPT !.status = "CANCELLED"]
    BY <1>q DEF Inv, SessionOK, UnsentOK, Fresh
  <2>2. orders[r] \in OrderRows
    BY <1>t DEF TypeOK
  <2>. QED BY <2>1, <2>2 DEF OrderRows
<1>4. SerialOK(t)
  BY DEF SerialInv
<1>5. \A q \in Sent(v) \cap Placed : v.rows[q].created = orders[q].created
  BY <1>1, <1>2, <1>4, <1>q DEF SerialOK, Sent
<1>6. SerialOK(v) /\ ~ Taking(v)
  BY <1>1, <1>4, <1>5, <1>q DEF SerialOK, MatchingOK, Taking, PlacePCs
<1>. QED BY <1>q, <1>t, <1>6, PrivateSerial

-----------------------------------------------------------------------------
(* The queue of makers                                                      *)

\* The makers of one order stand in line: nobody before himself, and of two one first.
LEMMA SoonerOrder ==
  ASSUME Inv, QueueOK, NEW r \in Requests
  PROVE  /\ \A m, n \in Matchable(r) : Before(m, n) => ~ Before(n, m)
         /\ \A m, n \in Matchable(r) : m # n => Before(m, n) \/ Before(n, m)
         /\ \A m, n, k \in Matchable(r) : Before(m, n) /\ Before(n, k) => Before(m, k)
<1>1. ASSUME NEW m \in Matchable(r)
      PROVE  m.price \in Nat /\ orders[m].created \in Nat /\ m \in Placed /\ m.side = Opposite(r.side)
  BY RequestType DEF Matchable, Prices, Inv, TypeOK, OrderRows, Placed, OpenStatuses
<1>2. ASSUME NEW m \in Matchable(r), NEW n \in Matchable(r)
      PROVE  /\ Before(m, n) => ~ Before(n, m)
             /\ m # n => Before(m, n) \/ Before(n, m)
  <2>1. m # n => orders[m].created # orders[n].created
    BY <1>1 DEF QueueOK
  <2>. QED BY <1>1, <2>1 DEF Before, Crosses
<1>3. ASSUME NEW m \in Matchable(r), NEW n \in Matchable(r), NEW k \in Matchable(r),
             Before(m, n), Before(n, k)
      PROVE  Before(m, k)
  BY <1>1, <1>3 DEF Before, Crosses
<1>. QED BY <1>2, <1>3

\* So one of them is the first.
LEMMA FirstMaker ==
  ASSUME Inv, QueueOK, NEW r \in Requests, NEW S \in SUBSET Matchable(r), S # {}
  PROVE  \E m \in S : \A n \in S \ {m} : Before(m, n)
<1>. DEFINE Below(m) == {n \in S : Before(n, m)}
            T == {Below(m) : m \in S}
<1>1. IsFiniteSet(S)
  <2>1. S \subseteq Placed
    BY DEF Matchable, Placed, OpenStatuses
  <2>. QED BY <2>1, FS_Subset DEF QueueOK
<1>2. T \subseteq SUBSET S /\ T # {}
  OBVIOUS
<1>. HIDE DEF T
<1>3. PICK A \in T : \A B \in T : ~ (B \subseteq A /\ B # A)
  BY <1>1, <1>2, SmallestSubset
<1>4. PICK m \in S : A = Below(m)
  BY DEF T
<1>5. ASSUME NEW n \in Below(m) PROVE FALSE
  <2>1. n \in S /\ Before(n, m) /\ m \in Matchable(r) /\ n \in Matchable(r)
    BY <1>5
  <2>2. ~ Before(n, n)
    BY <2>1, SoonerOrder
  <2>3. \A k \in S : Before(k, n) => Before(k, m)
    BY <2>1, SoonerOrder
  <2>4. Below(n) \subseteq Below(m) /\ n \notin Below(n)
    BY <2>2, <2>3
  <2>5. Below(n) \in T
    BY <2>1 DEF T
  <2>. HIDE DEF Below
  <2>. QED BY <1>3, <1>4, <1>5, <2>4, <2>5
<1>6. \A n \in S \ {m} : Before(m, n)
  BY <1>5, SoonerOrder
<1>. QED BY <1>6

\* Where the loop stops short, nobody who is left would trade.
LEMMA NobodyLeft ==
  ASSUME Inv, SerialInv, NEW s \in Sessions, PlaceCommit(s),
         Remaining(tx[s].order, tx[s].rows[tx[s].order]) > 0, NEW n \in tx[s].todo
  PROVE  ~ Crosses(tx[s].order.side, tx[s].order.price, n.price)
<1>. DEFINE t == tx[s]
            r == t.order
<1>t. r \in Requests
  BY TxType DEF Inv
<1>1. /\ t.pc = "match" /\ QueueOK
      /\ t.todo \in SUBSET Matchable(r)
      /\ \A m \in Matchable(r) : t.rows[m].created = orders[m].created
      /\ ~ \E m \in t.todo : NextMaker(s, m)
  BY DEF PlaceCommit, SerialInv, SerialOK, MatchingOK
<1>. HIDE DEF t
<1>2. PICK m \in t.todo : \A k \in t.todo \ {m} : Before(m, k)
  <2>1. t.todo # {}
    BY DEF t
  <2>. QED BY <1>t, <1>1, <2>1, FirstMaker
<1>4. ~ Crosses(r.side, r.price, m.price)
  BY <1>1, <1>2 DEF NextMaker, FirstOf, t
<1>5. /\ m.price \in Nat /\ n.price \in Nat /\ r.price \in Nat
      /\ r.side \in Sides /\ m.side = Opposite(r.side)
  BY <1>1, <1>t, RequestType DEF Matchable, Prices, t
<1>6. m = n \/ Before(m, n)
  BY <1>2 DEF t
<1>7. ~ Crosses(r.side, r.price, n.price)
  BY <1>4, <1>5, <1>6 DEF Before, Crosses, Opposite, Sides
<1>. QED BY <1>7 DEF t

-----------------------------------------------------------------------------
(* Commits                                                                  *)

\* After a commit the session is idle.
LEMMA EndSerial ==
  ASSUME Inv, NEW s \in Sessions, Sessions = {s}, End(s),
         QueueOK', UncrossedBook', SettlementResolvesAll'
  PROVE  SerialInv'
<1>1. tx'[s] = IdleTx
  BY DEF End, Inv, TypeOK
<1>2. (SerialOK(IdleTx) /\ ~ Taking(IdleTx))'
  BY IdleSerial DEF SerialOK, Sent, MatchingOK, Taking, IdleTx, PlacePCs
<1>3. \A z \in Sessions : SerialOK(tx[z])' /\ ~ Taking(tx[z])'
  BY <1>1, <1>2 DEF IdleTx
<1>. QED BY <1>3 DEF SerialInv

\* Who was placed before keeps his place.
LEMMA KeepQueue ==
  ASSUME QueueOK, clock' = clock, Placed' = Placed,
         \A r \in Placed : orders'[r].created = orders[r].created
  PROVE  QueueOK'
  BY DEF QueueOK

\* An order that is withdrawn leaves the others as they were.
LEMMA CancelReleaseSerial ==
  ASSUME Inv, FillInv, SerialInv, NEW s \in Sessions, Sessions = {s}, CancelRelease(s)
  PROVE  SerialInv'
<1>. DEFINE t == tx[s]
            r == t.order
            amount == LiabilityMinor(r.side, r.price, Remaining(r, t.rows[r]))
            p == Post(s, t, r.user, ReleaseKey(r), 0, - amount)
<1>t. t \in TxRecords /\ r \in Requests /\ TypeOK /\ t.rows[r] \in OrderRows
  BY TxType DEF Inv
<1>q. Commit(s, p) /\ t.pc = "cancelRelease" /\ market' = market /\ clock' = clock
  BY DEF CancelRelease
<1>k. r.user \in Users /\ ReleaseKey(r) \in LedgerKeys /\ 0 \in Int /\ - amount \in Int
  BY <1>t, RequestType, TxType, LiabilityType DEF ReleaseKey, LedgerKeys
<1>p. /\ p.dirty = t.dirty /\ p.rows = t.rows /\ p.newBets = t.newBets /\ p.settled = t.settled
  <2>. HIDE DEF t, amount
  <2>. QED BY <1>t, <1>k, PostFields, PostType
<1>. HIDE DEF p, amount
<1>1. t.dirty = {r} /\ t.locked = {r} /\ t.rows[r].status = "CANCELLED"
  BY <1>q DEF Inv, SessionOK, PhaseOK
<1>2. orders[r].status \in OpenStatuses
  BY <1>1, <1>q DEF Inv, SessionOK, WritesOK, Taking, PlacePCs
<1>3. t.newBets = {}
  BY <1>q DEF FillInv, FillsOK, Taking, PlacePCs
<1>4. SerialOK(t)
  BY DEF SerialInv
<1>5. /\ orders'[r].status = "CANCELLED" /\ orders'[r].created = orders[r].created
      /\ \A q \in Requests \ {r} : orders'[q] = orders[q]
      /\ bets' = bets /\ settledBets \subseteq settledBets' /\ End(s)
  <2>1. t.rows[r].created = orders[r].created
    BY <1>1, <1>2, <1>4, <1>t, <1>q DEF SerialOK, Sent, Placed, OpenStatuses
  <2>2. orders'[r] = [t.rows[r] EXCEPT !.version = @ + 1]
    BY <1>q, <1>p, <1>1, <1>t DEF Commit
  <2>3. \A q \in Requests \ {r} : orders'[q] = orders[q]
    BY <1>q, <1>p, <1>1 DEF Commit
  <2>4. bets' = bets /\ settledBets \subseteq settledBets' /\ End(s)
    BY <1>q, <1>p, <1>3 DEF Commit
  <2>. QED BY <2>1, <2>2, <2>3, <2>4, <1>1, <1>t DEF OrderRows
<1>6. Placed' = Placed /\ \A q \in Placed : orders'[q].created = orders[q].created
  BY <1>2, <1>5, <1>t DEF Placed, OpenStatuses
<1>7. QueueOK'
  BY <1>6, <1>q, KeepQueue DEF SerialInv
<1>8. UncrossedBook' /\ SettlementResolvesAll'
  BY <1>5, <1>q DEF SerialInv, UncrossedBook, SettlementResolvesAll, OpenStatuses
<1>. QED BY <1>5, <1>7, <1>8, EndSerial

\* A settlement leaves nothing.
LEMMA SettleCommitSerial ==
  ASSUME Inv, FillInv, PayoutInv, PurposeInv, SerialInv,
         NEW s \in Sessions, Sessions = {s}, SettleCommit(s)
  PROVE  SerialInv'
<1>. DEFINE t == tx[s]
<1>t. t \in TxRecords /\ TypeOK
  BY TxType DEF Inv
<1>q. /\ Commit(s, t) /\ t.pc = "settleOrders" /\ t.todo = {} /\ t.dirty \subseteq t.locked
      /\ clock' = clock
  BY DEF SettleCommit, Unsent
<1>1. /\ SessionOK(t) /\ SerialOK(t) /\ ~ Taking(t) /\ t.newBets = {} /\ t.todoBets = {}
      /\ \A r \in t.dirty : t.rows[r].status = "CANCELLED"
  BY <1>q DEF Inv, SerialInv, FillInv, FillsOK, PayoutInv, PayoutsOK, PurposeInv, PurposeOK,
     Taking, PlacePCs
<1>2. \A r \in t.dirty : orders[r].status \in OpenStatuses /\ r \in Requests
  BY <1>t, <1>1, <1>q DEF SessionOK, WritesOK, Unsent, TxRecords
<1>3. /\ \A r \in t.dirty : /\ orders'[r].status = "CANCELLED"
                            /\ orders'[r].created = orders[r].created
      /\ \A r \in Requests \ t.dirty : orders'[r] = orders[r]
  <2>1. ASSUME NEW r \in t.dirty
        PROVE  /\ orders'[r].status = "CANCELLED"
               /\ orders'[r].created = orders[r].created
    <3>1. orders'[r] = [t.rows[r] EXCEPT !.version = @ + 1] /\ t.rows[r] \in OrderRows
      BY <1>q, <1>2, TxType DEF Commit, Inv
    <3>2. t.rows[r].created = orders[r].created
      BY <1>1, <1>2, <1>q DEF SerialOK, Sent, Placed, OpenStatuses
    <3>. QED BY <3>1, <3>2, <1>1 DEF OrderRows
  <2>2. \A r \in Requests \ t.dirty : orders'[r] = orders[r]
    BY <1>q DEF Commit
  <2>. QED BY <2>1, <2>2
<1>4. bets' = bets /\ settledBets' = settledBets \cup t.settled /\ End(s)
  BY <1>q, <1>1 DEF Commit
<1>5. Placed' = Placed /\ \A q \in Placed : orders'[q].created = orders[q].created
  BY <1>2, <1>3 DEF Placed, OpenStatuses
<1>6. QueueOK'
  BY <1>5, <1>q, KeepQueue DEF SerialInv
<1>7. \A r \in Requests : orders'[r].status \notin OpenStatuses
  BY <1>1, <1>3, <1>q DEF SerialOK, Sent, OpenStatuses
<1>8. bets' \subseteq settledBets'
  BY <1>1, <1>4, <1>q DEF SerialOK
<1>9. UncrossedBook' /\ SettlementResolvesAll'
  BY <1>7, <1>8 DEF UncrossedBook, SettlementResolvesAll
<1>. QED BY <1>4, <1>6, <1>9, EndSerial

\* A transition does not settle.
LEMMA TransitionCommitSerial ==
  ASSUME Inv, PurposeInv, SerialInv, NEW s \in Sessions, Sessions = {s}, TransitionCommit(s)
  PROVE  SerialInv'
<1>1. /\ UNCHANGED <<orders, bets, settledBets, clock>> /\ End(s)
      /\ market'.status = tx[s].target /\ tx[s].target # "SETTLED"
  BY DEF TransitionCommit, PurposeInv, PurposeOK
<1>2. QueueOK' /\ UncrossedBook' /\ SettlementResolvesAll'
  BY <1>1 DEF SerialInv, QueueOK, Placed, UncrossedBook, SettlementResolvesAll
<1>. QED BY <1>1, <1>2, EndSerial

\* What the commit of a placement writes, and where it leaves the makers.
LEMMA PlacedRows ==
  ASSUME Inv, SerialInv, NEW s \in Sessions, PlaceCommit(s),
         NEW t, t = tx[s], NEW r, r = t.order
  PROVE  /\ r \in Requests \cap t.dirty /\ r \notin Placed /\ t.dirty \subseteq Requests
         /\ t.dirty \ {r} \subseteq Matchable(r)
         /\ orders'[r].created = t.rows[r].created
         /\ orders'[r].status \in {"OPEN", "PARTIALLY_MATCHED", "MATCHED"}
         /\ orders'[r].status # "MATCHED" => Remaining(r, t.rows[r]) > 0
         /\ \A m \in t.dirty \ {r} : /\ orders'[m].status = t.rows[m].status
                                     /\ orders'[m].created = orders[m].created
         /\ \A q \in Requests \ t.dirty : orders'[q] = orders[q]
<1>. DEFINE v == [t EXCEPT !.rows[r].status = StatusOf(r, t.rows[r])]
<1>t. t \in TxRecords /\ r \in Requests /\ TypeOK /\ t.rows[r] \in OrderRows
  BY TxType DEF Inv
<1>q. Commit(s, v) /\ t.pc = "match"
  BY DEF PlaceCommit
<1>1. SessionOK(t) /\ SerialOK(t) /\ Taking(t)
  BY <1>q DEF Inv, SerialInv, Taking, PlacePCs
<1>2. r \in t.dirty /\ r \notin Placed
  BY <1>1 DEF SessionOK, WritesOK, KeyTaken, Placed
<1>3. t.dirty \ {r} \subseteq Matchable(r) /\ t.dirty \in SUBSET Requests
  BY <1>1, <1>q, <1>t DEF SerialOK, Sent, MatchingOK, TxRecords
<1>4. /\ v.dirty = t.dirty /\ v.rows[r] = [t.rows[r] EXCEPT !.status = StatusOf(r, t.rows[r])]
      /\ \A m \in t.dirty \ {r} : v.rows[m] = t.rows[m]
  BY <1>t, <1>3 DEF TxRecords
<1>. HIDE DEF v
<1>5. \A q \in Requests : orders'[q] = IF q \in t.dirty THEN [v.rows[q] EXCEPT !.version = @ + 1]
                                       ELSE orders[q]
  BY <1>q, <1>4 DEF Commit
<1>6. StatusOf(r, t.rows[r]) \in {"OPEN", "PARTIALLY_MATCHED", "MATCHED"}
  BY DEF StatusOf
<1>7. StatusOf(r, t.rows[r]) # "MATCHED" => Remaining(r, t.rows[r]) > 0
  <2>1. t.rows[r].matched \in Int /\ r.stake \in Nat /\ t.rows[r].matched <= r.stake
    BY <1>1, <1>t, RequestType DEF OrderRows, SessionOK, WritesOK
  <2>. QED BY <2>1 DEF StatusOf, Remaining
<1>8. /\ orders'[r].created = t.rows[r].created
      /\ orders'[r].status = StatusOf(r, t.rows[r])
  <2>1. /\ v.rows[r] \in OrderRows /\ v.rows[r].created = t.rows[r].created
        /\ v.rows[r].status = StatusOf(r, t.rows[r])
    BY <1>4, <1>6, <1>t DEF OrderRows, OrderStatuses
  <2>2. orders'[r] = [v.rows[r] EXCEPT !.version = @ + 1]
    BY <1>2, <1>5, <1>t
  <2>. QED BY <2>1, <2>2 DEF OrderRows
<1>9. ASSUME NEW m \in t.dirty \ {r}
      PROVE  orders'[m].status = t.rows[m].status /\ orders'[m].created = orders[m].created
  <2>1. t.rows[m] \in OrderRows /\ orders'[m] = [t.rows[m] EXCEPT !.version = @ + 1]
    BY <1>3, <1>4, <1>5, TxType DEF Inv
  <2>2. m \in Placed
    BY <1>3 DEF Matchable, Placed, OpenStatuses
  <2>3. t.rows[m].created = orders[m].created
    BY <1>1, <1>q, <2>2 DEF SerialOK, Sent
  <2>. QED BY <2>1, <2>3 DEF OrderRows
<1>10. \A q \in Requests \ t.dirty : orders'[q] = orders[q]
  BY <1>5
<1>. QED BY <1>2, <1>3, <1>6, <1>7, <1>8, <1>9, <1>10, <1>t

\* The commit of a placement: the order is the last in the queue, and what rests
\* of it crosses nobody.
LEMMA PlaceCommitSerial ==
  ASSUME Inv, LedgerInv, SerialInv, NEW s \in Sessions, Sessions = {s}, PlaceCommit(s)
  PROVE  SerialInv'
<1>1. PICK t, r : t = tx[s] /\ r = t.order
  OBVIOUS
<1>2. /\ r \in Requests \cap t.dirty /\ r \notin Placed /\ t.dirty \subseteq Requests
      /\ t.dirty \ {r} \subseteq Matchable(r)
      /\ orders'[r].created = t.rows[r].created
      /\ orders'[r].status \in {"OPEN", "PARTIALLY_MATCHED", "MATCHED"}
      /\ orders'[r].status # "MATCHED" => Remaining(r, t.rows[r]) > 0
      /\ \A m \in t.dirty \ {r} : /\ orders'[m].status = t.rows[m].status
                                  /\ orders'[m].created = orders[m].created
      /\ \A q \in Requests \ t.dirty : orders'[q] = orders[q]
  BY <1>1, PlacedRows
<1>3. /\ t.pc = "match" /\ clock' = clock /\ market' = market
      /\ End(s) /\ Taking(t) /\ SerialOK(t) /\ SessionOK(t) /\ t.rows[r].created < clock
  BY <1>1 DEF PlaceCommit, Commit, SerialInv, Inv, Taking, PlacePCs
<1>4. /\ Matchable(r) = t.todo \cup (t.dirty \ {r})
      /\ Remaining(r, t.rows[r]) > 0 => \A m \in t.dirty \ {r} : t.rows[m].status = "MATCHED"
      /\ \A q \in Placed : orders[q].created < t.rows[r].created
  BY <1>1, <1>3 DEF SerialOK, Sent, MatchingOK
<1>5. QueueOK'
  <2>1. \A m \in t.dirty \ {r} : m \in Placed /\ t.rows[m].status # "ABSENT"
    <3>. SUFFICES ASSUME NEW m \in t.dirty \ {r} PROVE m \in Placed /\ t.rows[m].status # "ABSENT"
      OBVIOUS
    <3>1. m \in Placed
      BY <1>2 DEF Matchable, Placed, OpenStatuses
    <3>2. t.rows[m].status # "ABSENT"
      BY <1>1 DEF LedgerInv, PostingsOK
    <3>. QED BY <3>1, <3>2
  <2>2. Placed' = Placed \cup {r}
    BY <1>2, <2>1 DEF Placed
  <2>3. IsFiniteSet(Placed')
    BY <2>2, FS_AddElement DEF SerialInv, QueueOK
  <2>4. \A q \in Placed : orders'[q].created = orders[q].created
    BY <1>2 DEF Placed
  <2>5. \A q \in Placed' : orders'[q].created < clock'
    BY <1>2, <1>3, <2>2, <2>4 DEF SerialInv, QueueOK
  <2>6. \A p, q \in Placed' : p # q => orders'[p].created # orders'[q].created
    <3>1. \A q \in Placed : orders[q].created \in Nat
      BY DEF Inv, TypeOK, OrderRows, Placed
    <3>2. t.rows[r].created \in Nat
      BY <1>1, <1>2, TxType DEF Inv, OrderRows
    <3>3. \A q \in Placed : orders[q].created # t.rows[r].created
      BY <1>4, <3>1, <3>2
    <3>. QED BY <1>2, <2>2, <2>4, <3>3 DEF SerialInv, QueueOK
  <2>. QED BY <2>3, <2>5, <2>6 DEF QueueOK
<1>6. ASSUME NEW q \in Requests \ {r}, orders'[q].status \in OpenStatuses
      PROVE  orders[q].status \in OpenStatuses
  BY <1>2, <1>6 DEF Matchable
<1>7. ASSUME orders'[r].status \in OpenStatuses,
             NEW q \in Matchable(r), orders'[q].status \in OpenStatuses
      PROVE  ~ Crosses(r.side, r.price, q.price)
  <2>1. Remaining(r, t.rows[r]) > 0
    BY <1>2, <1>7 DEF OpenStatuses
  <2>2. q \in t.todo
    BY <1>2, <1>4, <1>7, <2>1 DEF OpenStatuses
  <2>. QED BY <1>1, <2>1, <2>2, NobodyLeft
<1>8. UncrossedBook'
  <2>. SUFFICES ASSUME NEW a \in Requests, NEW b \in Requests,
                       orders'[a].status \in OpenStatuses, orders'[b].status \in OpenStatuses,
                       a.selection = b.selection, a.side = "BACK", b.side = "LAY"
                PROVE  b.price < a.price
    BY DEF UncrossedBook
  <2>1. a.price \in Nat /\ b.price \in Nat
    BY RequestType DEF Prices
  <2>2. CASE a # r /\ b # r
    BY <1>6, <2>2 DEF SerialInv, UncrossedBook
  <2>3. CASE a = r
    <3>1. b \in Matchable(r)
      BY <1>6, <2>3 DEF Matchable, Opposite
    <3>. QED BY <1>7, <2>1, <2>3, <3>1 DEF Crosses
  <2>4. CASE b = r
    <3>1. a \in Matchable(r)
      BY <1>6, <2>4 DEF Matchable, Opposite
    <3>. QED BY <1>7, <2>1, <2>4, <3>1 DEF Crosses
  <2>. QED BY <2>2, <2>3, <2>4
<1>9. SettlementResolvesAll'
  BY <1>3 DEF SerialOK, Sent, PlacePCs, SettlementResolvesAll
<1>. QED BY <1>3, <1>5, <1>8, <1>9, EndSerial

-----------------------------------------------------------------------------
(* Theorems                                                                 *)

\* Every step keeps it.
LEMMA SerialStep ==
  Alone /\ Inv /\ LedgerInv /\ FillInv /\ PayoutInv /\ PurposeInv /\ SerialInv /\ [Next]_vars
    => SerialInv'
<1>. SUFFICES ASSUME Alone, Inv, LedgerInv, FillInv, PayoutInv, PurposeInv, SerialInv, [Next]_vars
              PROVE  SerialInv'
  OBVIOUS
<1>1. CASE UNCHANGED vars
  BY <1>1 DEF vars, SerialInv, QueueOK, Placed, UncrossedBook, SettlementResolvesAll, SerialOK,
     Sent, Taking, MatchingOK, Matchable, Before
<1>2. PICK s \in Sessions : Sessions = {s}
  BY DEF Alone
<1>3. ASSUME PlaceNext(s) PROVE SerialInv'
  <2>1. CASE UNCHANGED vars
    BY <1>1, <2>1
  <2>2. CASE Rollback(s)
    BY <1>2, <2>2, RollbackSerial
  <2>. QED
    BY <1>2, <1>3, <2>1, <2>2, BeginSerial, PlaceInsertSerial, PlaceReserveSerial,
       PlaceLockSerial, PlaceMakersSerial, PlaceMatchSerial, PlaceCommitSerial
       DEF PlaceNext, PlaceAnswer, PlaceDuplicate, PlaceRefuse
<1>4. ASSUME CancelNext(s) PROVE SerialInv'
  BY <1>2, <1>4, BeginSerial, CancelFlushSerial, CancelReleaseSerial DEF CancelNext
<1>5. ASSUME SettleNext(s) PROVE SerialInv'
  BY <1>2, <1>5, BeginSerial, SettleBetSerial, SettleListOrdersSerial, SettleOrderSerial,
     SettleFlushSerial, SettleCommitSerial DEF SettleNext
<1>6. ASSUME TransitionNext(s) PROVE SerialInv'
  BY <1>2, <1>6, BeginSerial, TransitionCommitSerial DEF TransitionNext
<1>7. ASSUME StaleAbort(s) \/ Die(s) PROVE SerialInv'
  BY <1>2, <1>7, RollbackSerial DEF StaleAbort, Die
<1>. QED BY <1>1, <1>2, <1>3, <1>4, <1>5, <1>6, <1>7 DEF Next

\* It holds initially.
LEMMA InitSerial == Init => SerialInv
<1>. SUFFICES ASSUME Init PROVE SerialInv
  OBVIOUS
<1>1. \A r \in Requests : orders[r].status = "ABSENT"
  BY DEF Init, NoRow
<1>2. Placed = {}
  BY <1>1 DEF Placed
<1>3. QueueOK /\ UncrossedBook /\ SettlementResolvesAll
  BY <1>1, <1>2, FS_EmptySet DEF QueueOK, UncrossedBook, SettlementResolvesAll, Init, OpenStatuses
<1>. QED BY <1>3, IdleSerial DEF SerialInv, Init

\* Bets are made by placements.
LEMMA FillsCommitted ==
  ASSUME Inv, FillInv, [Next]_vars, NEW b \in bets' \ bets
  PROVE  \E s \in Sessions : PlaceCommit(s) /\ b \in tx[s].newBets
<1>1. bets' # bets
  OBVIOUS
<1>2. PICK s \in Sessions : PlaceCommit(s) \/ CancelRelease(s) \/ SettleCommit(s)
  BY <1>1, OnlyCommitsShow DEF Next, vars, TransitionCommit
<1>. DEFINE t == tx[s]
            r == t.order
<1>t. t \in TxRecords /\ r \in Requests /\ TypeOK
  BY TxType DEF Inv
<1>3. CASE PlaceCommit(s)
  <2>. DEFINE v == [t EXCEPT !.rows[r].status = StatusOf(r, t.rows[r])]
  <2>1. Commit(s, v) /\ v.newBets = t.newBets
    BY <1>t, <1>3 DEF PlaceCommit, TxRecords
  <2>. QED BY <1>3, <2>1 DEF Commit
<1>4. CASE CancelRelease(s)
  <2>. DEFINE amount == LiabilityMinor(r.side, r.price, Remaining(r, t.rows[r]))
              p == Post(s, t, r.user, ReleaseKey(r), 0, - amount)
  <2>1. t.newBets = {} /\ Commit(s, p)
    BY <1>4 DEF CancelRelease, FillInv, FillsOK, Taking, PlacePCs
  <2>2. r.user \in Users /\ ReleaseKey(r) \in LedgerKeys /\ 0 \in Int /\ - amount \in Int
    BY <1>t, RequestType, TxType, LiabilityType DEF ReleaseKey, LedgerKeys
  <2>3. p.newBets = t.newBets
    <3>. HIDE DEF t, amount
    <3>. QED BY <1>t, <2>2, PostFields
  <2>. QED BY <1>1, <2>1, <2>3 DEF Commit
<1>5. CASE SettleCommit(s)
  <2>1. t.newBets = {} /\ Commit(s, t)
    BY <1>5 DEF SettleCommit, FillInv, FillsOK, Taking, PlacePCs
  <2>. QED BY <1>1, <2>1 DEF Commit
<1>. QED BY <1>2, <1>3, <1>4, <1>5

\* A fill goes to the maker who was first.
LEMMA FirstServed ==
  Alone /\ Inv /\ FillInv /\ SerialInv /\ [Next]_vars =>
    [\A b \in bets' \ bets : \A m \in Requests :
         /\ m.selection = b.maker.selection /\ m.side = b.maker.side /\ m # b.maker
         /\ orders[m].status \in OpenStatuses
         /\ \/ Crosses(b.taker.side, b.maker.price, m.price) /\ m.price # b.maker.price
            \/ m.price = b.maker.price /\ orders[m].created < orders[b.maker].created
         => orders'[m].status = "MATCHED"]_vars
<1>. SUFFICES ASSUME Alone, Inv, FillInv, SerialInv, [Next]_vars,
                     NEW b \in bets' \ bets, NEW m \in Requests,
                     m.selection = b.maker.selection, m.side = b.maker.side, m # b.maker,
                     orders[m].status \in OpenStatuses,
                     \/ /\ Crosses(b.taker.side, b.maker.price, m.price)
                        /\ m.price # b.maker.price
                     \/ m.price = b.maker.price /\ orders[m].created < orders[b.maker].created
              PROVE  orders'[m].status = "MATCHED"
  OBVIOUS
<1>1. PICK s \in Sessions : PlaceCommit(s) /\ b \in tx[s].newBets
  BY FillsCommitted
<1>2. PICK t, r : t = tx[s] /\ r = t.order
  OBVIOUS
<1>3. /\ t.dirty \ {r} \subseteq Matchable(r)
      /\ \A k \in t.dirty \ {r} : orders'[k].status = t.rows[k].status
      /\ r \in Requests
  BY <1>1, <1>2, PlacedRows
<1>4. b.taker = r /\ b.maker \in t.dirty \ {r}
  BY <1>1, <1>2 DEF FillInv, FillsOK
<1>5. t.pc = "match" /\ SerialOK(t) /\ QueueOK
  BY <1>1, <1>2 DEF PlaceCommit, SerialInv
<1>6. m \in Matchable(r) /\ b.maker \in Matchable(r)
  BY <1>3, <1>4 DEF Matchable
<1>7. Opposite(m.side) = r.side
  <2>1. r.side \in Sides /\ m.side = Opposite(r.side)
    BY <1>3, <1>6, RequestType DEF Matchable
  <2>. QED BY <2>1 DEF Opposite, Sides
<1>8. Before(m, b.maker)
  BY <1>4, <1>7 DEF Before
<1>9. ~ Before(b.maker, m)
  BY <1>3, <1>5, <1>6, <1>8, SoonerOrder
<1>10. m \in t.dirty \ {r}
  BY <1>2, <1>4, <1>5, <1>6, <1>9 DEF SerialOK, MatchingOK
<1>11. t.rows[m].status = "MATCHED"
  BY <1>2, <1>4, <1>5, <1>8, <1>10 DEF SerialOK, MatchingOK
<1>. QED BY <1>3, <1>10, <1>11

\* All the invariants of the exchange, where its requests come one at a time.
LEMMA SerialInvariant == Alone => (Spec => [](Inv /\ FillInv /\ SerialInv))
<1>. SUFFICES ASSUME Alone PROVE Spec => [](Inv /\ FillInv /\ SerialInv)
  OBVIOUS
<1>1. Init => WalletInv /\ FillInv /\ PayoutInv /\ PurposeInv /\ SerialInv
  BY InitWallets, InitFills, InitPayouts, InitPurpose, InitSerial
<1>2. Inv /\ LedgerInv /\ WalletInv /\ FillInv /\ PayoutInv /\ PurposeInv /\ SerialInv /\ [Next]_vars
        => WalletInv' /\ FillInv' /\ PayoutInv' /\ PurposeInv' /\ SerialInv'
  BY WalletStep, FillStep, PayoutStep, PurposeStep, SerialStep
<1>. QED BY <1>1, <1>2, Invariant, LedgerInvariant, PTL DEF Spec

\* Where requests come one at a time, two resting orders of a selection never
\* cross: what place_order leaves of an order would trade with nobody.
THEOREM Uncrossed == Alone => (Spec => []UncrossedBook)
<1>. SUFFICES ASSUME Alone PROVE Spec => []UncrossedBook
  OBVIOUS
<1>1. SerialInv => UncrossedBook
  BY DEF SerialInv
<1>. QED BY <1>1, SerialInvariant, PTL

\* Where requests come one at a time, a SETTLED market has no resting order and
\* no bet that is not paid (SettlementService.settle_market).
THEOREM SettledResolved == Alone => (Spec => []SettlementResolvesAll)
<1>. SUFFICES ASSUME Alone PROVE Spec => []SettlementResolvesAll
  OBVIOUS
<1>1. SerialInv => SettlementResolvesAll
  BY DEF SerialInv
<1>. QED BY <1>1, SerialInvariant, PTL

\* Where requests come one at a time, makers are met in the order of price and
\* time: who is passed over was filled up.
THEOREM BestFirst == Alone => (Spec => BestPriceFirst)
<1>. SUFFICES ASSUME Alone PROVE Spec => BestPriceFirst
  OBVIOUS
<1>. QED BY FirstServed, SerialInvariant, PTL DEF Spec, BestPriceFirst

-----------------------------------------------------------------------------
(* Reservations                                                             *)

\* Odds of which every size is worth a whole number of minor units: nothing is
\* rounded (2.50 is not one of them).
WholeOdds == \A r \in Requests : r.price % Hundredths = 0

\* Finitely many orders, and bets of some size, the settled ones among them.
BetsOK ==
    /\ IsFiniteSet(Placed)
    /\ settledBets \subseteq bets
    /\ \A b \in bets : b.stake > 0

\* The balance covers the reservation.
Solvent == \A u \in Users : wallets[u].balance >= wallets[u].reserved

\* What rounding may add to one bet, and what it may have added to those of a user.
Loss == IF WholeOdds THEN 0 ELSE 1
LossOf(side) == IF side = "LAY" THEN Loss ELSE 0
Losses == [b \in BetRecords |-> LossOf(b.side)]
Margin(u) == Total(Losses, BetsOf(bets, u))

\* But for that, the reservation covers what the user may still lose.
Covered == \A u \in Users : wallets[u].reserved + Margin(u) >= Outstanding(u)

ReserveInv == BetsOK /\ Solvent /\ Covered

\* The loss is at most one minor unit.
LEMMA LossSmall ==
  /\ Loss \in {0, 1}
  /\ \A side : LossOf(side) \in {0, 1}
  BY DEF Loss, LossOf

\* What a size risks is its share of the rate, but for half a unit.
LEMMA LiabilityNear ==
  ASSUME NEW r \in Requests, NEW side \in Sides, NEW n \in Int
  PROVE  /\ Rate(side, r.price) \in Nat /\ n * Rate(side, r.price) \in Int
         /\ LiabilityMinor(side, r.price, n) \in Int
         /\ 100 * LiabilityMinor(side, r.price, n) <= n * Rate(side, r.price) + 50 * LossOf(side)
         /\ n * Rate(side, r.price) - 50 * LossOf(side) <= 100 * LiabilityMinor(side, r.price, n)
<1>1. r.price \in Prices
  BY RequestType
<1>2. Within(side, r.price, LossOf(side))
  <2>1. CASE side = "BACK"
    BY <1>1, <2>1, RoundedOnce DEF LossOf
  <2>2. CASE side = "LAY" /\ WholeOdds
    BY <1>1, <2>2, RoundedOnce DEF LossOf, Loss, WholeOdds
  <2>3. CASE side = "LAY" /\ ~ WholeOdds
    BY <1>1, <2>3, RoundedOnce DEF LossOf, Loss
  <2>. QED BY <2>1, <2>2, <2>3 DEF Sides
<1>. QED BY <1>1, <1>2, RoundedOnce DEF Within

\* A payment takes no more from the balance than it frees of the reservation.
LEMMA PaymentFrees ==
  ASSUME NEW b \in BetRecords, NEW winner
  PROVE  /\ Payment(b, winner).reserved = - BetLiability(b)
         /\ BetLiability(b) \in Int
         /\ b.stake > 0 => Payment(b, winner).balance - Payment(b, winner).reserved >= 0
<1>. DEFINE price == BetPrice(b)
            won == BetOrder(b).selection = winner
            d == SettleBetDeltas(b.side, price, b.stake, won)
            hold == LiabilityMinor(b.side, price, b.stake)
<1>1. b.side \in Sides /\ price \in Prices /\ b.stake \in Int
  BY RequestType DEF BetRecords, BetPrice
<1>2. /\ Payment(b, winner).balance = d.balance /\ Payment(b, winner).reserved = d.reserved
      /\ BetLiability(b) = hold
  BY DEF Payment, BetLiability
<1>3. hold \in Int /\ Winnings(price, b.stake) \in Int
  BY <1>1, LiabilityType
<1>4. b.stake > 0 => hold >= 0 /\ Winnings(price, b.stake) >= 0
  BY <1>1, LiabilityNat
<1>. HIDE DEF price, won
<1>5. hold = IF b.side = "BACK" THEN b.stake ELSE LiabilityMinor("LAY", price, b.stake)
  BY <1>1 DEF LiabilityMinor, Sides
<1>6. /\ d.reserved = - hold
      /\ d.balance \in {- hold, b.stake, Winnings(price, b.stake)}
  BY <1>5 DEF SettleBetDeltas
<1>. HIDE DEF hold, d
<1>. QED BY <1>1, <1>2, <1>3, <1>4, <1>6

\* The rows as the contract sees them.
Book == [r \in Requests |-> [status |-> orders[r].status, matched |-> orders[r].matched]]

Rows == [Requests -> [status : OrderStatuses, matched : Int]]
OpenOf(rows, u) == {r \in Requests : r.user = u /\ rows[r].status \in OpenStatuses}
Liabilities == [b \in BetRecords |-> BetLiability(b)]
Needs == [b \in BetRecords |-> BetLiability(b) - Losses[b]]

\* What a user may still lose, as sums of functions.
Owing(rows, unpaid, u) ==
    Total(Resting(rows), OpenOf(rows, u)) + Total(Liabilities, BetsOf(unpaid, u))

\* The part of it that is not owed to rounding.
Needing(rows, unpaid, u) ==
    Total(Resting(rows), OpenOf(rows, u)) + Total(Needs, BetsOf(unpaid, u))

\* The liabilities of bets are a total, too.
LEMMA LiabilityTotal ==
  ASSUME NEW S, S \subseteq BetRecords
  PROVE  MapThenSumSet(BetLiability, S) = Total(Liabilities, S)
<1>1. \A s \in SUBSET S : s # {} => Liabilities[Pick(s)] = BetLiability(Pick(s))
  BY PickIn DEF Liabilities
<1>2. \A iter : Unfolds(Liabilities, S, iter) <=>
        iter = [s \in SUBSET S |-> IF s = {} THEN 0
                                   ELSE BetLiability(Pick(s)) + iter[s \ {Pick(s)}]]
  BY <1>1 DEF Unfolds
<1>3. (CHOOSE iter : Unfolds(Liabilities, S, iter)) =
        CHOOSE iter :
          iter = [s \in SUBSET S |-> IF s = {} THEN 0
                                     ELSE BetLiability(Pick(s)) + iter[s \ {Pick(s)}]]
  BY <1>2
<1>4. Total(Liabilities, S) = (CHOOSE iter : Unfolds(Liabilities, S, iter))[S]
  BY TotalIs
<1>. QED BY <1>3, <1>4 DEF MapThenSumSet, MapThenFoldSet, Pick

OutstandingOK ==
    Book \in Rows /\ \A u \in Users : Outstanding(u) = Owing(Book, bets \ settledBets, u)

\* Outstanding is what the rows and the unpaid bets owe.
LEMMA OutstandingTotal == TypeOK => OutstandingOK
<1>. SUFFICES ASSUME TypeOK PROVE OutstandingOK
  OBVIOUS
<1>0. Book \in Rows
  BY DEF TypeOK, Book, Rows, OrderRows
<1>1. ASSUME NEW u \in Users PROVE Outstanding(u) = Owing(Book, bets \ settledBets, u)
  <2>2. OpenOrdersOf(u) = OpenOf(Book, u) /\ OpenOrdersOf(u) \subseteq Requests
    BY DEF OpenOrdersOf, OpenOf, Book
  <2>3. MapThenSumSet(LAMBDA r : LiabilityMinor(r.side, r.price, Remaining(r, orders[r])), OpenOrdersOf(u))
          = RestReleased(orders, OpenOrdersOf(u))
    BY DEF RestReleased, RestExposure
  <2>4. Resting(Book) = Resting(orders)
    BY DEF Resting, Book, RestExposure, Remaining
  <2>5. RestReleased(orders, OpenOrdersOf(u)) = Total(Resting(Book), OpenOf(Book, u))
    BY <2>2, <2>4, RestTotal
  <2>6. UnsettledBetsOf(u) = BetsOf(bets \ settledBets, u) /\ UnsettledBetsOf(u) \subseteq BetRecords
    BY DEF UnsettledBetsOf, BetsOf, TypeOK
  <2>7. MapThenSumSet(BetLiability, UnsettledBetsOf(u)) = Total(Liabilities, UnsettledBetsOf(u))
    BY <2>6, LiabilityTotal
  <2>8. Outstanding(u) = Owing(Book, bets \ settledBets, u)
    BY <2>3, <2>5, <2>6, <2>7 DEF Outstanding, Owing
  <2>. QED BY <2>8
<1>. QED BY <1>0, <1>1 DEF OutstandingOK

\* After a step too.
LEMMA OutstandingNext == TypeOK' => OutstandingOK'
  BY OutstandingTotal, PTL

\* What a row may still lose.
LEMMA RestInt ==
  ASSUME NEW rows \in Rows, NEW r \in Requests
  PROVE  Resting(rows)[r] \in Int /\ Resting(rows)[r] = RestExposure(r, rows[r])
<1>1. Remaining(r, rows[r]) \in Int
  BY RequestType DEF Remaining, Rows
<1>. QED BY <1>1, RequestType, LiabilityType DEF RestExposure, Resting

\* Losses and what they leave of liabilities are whole numbers.
LEMMA CoverInt ==
  ASSUME NEW b \in BetRecords
  PROVE  /\ Losses[b] \in Nat /\ Losses[b] <= 1 /\ Liabilities[b] \in Int /\ Needs[b] \in Int
         /\ Liabilities[b] = Needs[b] + Losses[b]
         /\ Losses[b] = LossOf(b.side) /\ Needs[b] = BetLiability(b) - LossOf(b.side)
<1>1. BetLiability(b) \in Int /\ Liabilities[b] = BetLiability(b)
  BY PaymentFrees DEF Liabilities
<1>2. Losses[b] = LossOf(b.side) /\ LossOf(b.side) \in {0, 1}
  BY LossSmall DEF Losses
<1>. QED BY <1>1, <1>2 DEF Needs

\* The bets a user has been paid for keep their part of the margin.
NeedingOK ==
    \A u \in Users :
        /\ Outstanding(u) \in Int /\ Margin(u) \in Nat
        /\ Needing(Book, bets \ settledBets, u) \in Int
        /\ Total(Losses, BetsOf(settledBets, u)) \in Int
        /\ Outstanding(u) - Margin(u) =
             Needing(Book, bets \ settledBets, u) - Total(Losses, BetsOf(settledBets, u))

\* Outstanding is what is needed and the losses of the bets not paid.
LEMMA NeedingTotal == TypeOK /\ FillInv /\ BetsOK => NeedingOK
<1>. SUFFICES ASSUME TypeOK, FillInv, BetsOK PROVE NeedingOK
  OBVIOUS
<1>. SUFFICES ASSUME NEW u \in Users
     PROVE  /\ Outstanding(u) \in Int /\ Margin(u) \in Nat
            /\ Needing(Book, bets \ settledBets, u) \in Int
            /\ Total(Losses, BetsOf(settledBets, u)) \in Int
            /\ Outstanding(u) - Margin(u) =
                 Needing(Book, bets \ settledBets, u) - Total(Losses, BetsOf(settledBets, u))
  BY DEF NeedingOK
<1>. DEFINE mine == BetsOf(bets, u)
            open == BetsOf(bets \ settledBets, u)
            paid == BetsOf(settledBets, u)
<1>1. mine = open \cup paid /\ open \cap paid = {} /\ open \subseteq bets /\ paid \subseteq bets
  BY DEF BetsOf, BetsOK
<1>2. IsFiniteSet(mine) /\ IsFiniteSet(open) /\ IsFiniteSet(paid) /\ mine \subseteq BetRecords
  <2>1. IsFiniteSet(bets) /\ bets \subseteq BetRecords
    BY DEF FillInv, TypeOK
  <2>2. mine \subseteq bets
    BY DEF BetsOf
  <2>. HIDE DEF mine, open, paid
  <2>. QED BY <1>1, <2>1, <2>2, FS_Subset
<1>. HIDE DEF mine, open, paid
<1>3. \A b \in mine : /\ Losses[b] \in Nat /\ Liabilities[b] \in Int /\ Needs[b] \in Int
                      /\ Liabilities[b] = Needs[b] + Losses[b]
  BY <1>2, CoverInt
<1>4. Total(Losses, mine) = Total(Losses, open) + Total(Losses, paid)
  BY <1>1, <1>2, <1>3, TotalUnion
<1>5. Total(Liabilities, open) = Total(Needs, open) + Total(Losses, open)
  BY <1>1, <1>2, <1>3, TotalPlus
<1>6. /\ Total(Losses, mine) \in Nat /\ Total(Losses, open) \in Nat /\ Total(Losses, paid) \in Nat
      /\ Total(Needs, open) \in Int
  BY <1>1, <1>2, <1>3, TotalNat, TotalInt
<1>7. Total(Resting(Book), OpenOf(Book, u)) \in Int
  <2>1. OpenOf(Book, u) \subseteq Placed /\ OpenOf(Book, u) \subseteq Requests
    BY DEF OpenOf, Placed, Book, OpenStatuses
  <2>2. \A r \in OpenOf(Book, u) : Resting(Book)[r] \in Int
    BY <2>1, OutstandingTotal, RestInt DEF OutstandingOK
  <2>3. IsFiniteSet(OpenOf(Book, u))
    BY <2>1, FS_Subset DEF BetsOK
  <2>. QED BY <2>2, <2>3, TotalInt
<1>8. /\ Outstanding(u) = Total(Resting(Book), OpenOf(Book, u)) + Total(Liabilities, open)
      /\ Needing(Book, bets \ settledBets, u) = Total(Resting(Book), OpenOf(Book, u)) + Total(Needs, open)
      /\ Margin(u) = Total(Losses, mine)
  BY OutstandingTotal DEF OutstandingOK, Owing, Needing, Margin, open, mine
<1>. QED BY <1>4, <1>5, <1>6, <1>7, <1>8 DEF paid

\* After a step too.
LEMMA NeedingNext == TypeOK' /\ FillInv' /\ BetsOK' => NeedingOK'
  BY NeedingTotal, PTL

\* The dues of an order: its rest, while it is open, and its unpaid bets, but for
\* rounding.
Due(rows, unpaid) ==
    [r \in Requests |-> (IF rows[r].status \in OpenStatuses THEN RestExposure(r, rows[r]) ELSE 0)
                          + Total(Needs, BetsFor(unpaid, r))]

\* The placed orders are all there is to rest and to have bets.
Accounted(rows, unpaid, placed) ==
    /\ rows \in Rows
    /\ unpaid \subseteq BetRecords /\ IsFiniteSet(unpaid)
    /\ placed \subseteq Requests /\ IsFiniteSet(placed)
    /\ \A b \in unpaid : BetOrder(b) \in placed
    /\ \A r \in Requests : rows[r].status \in OpenStatuses => r \in placed
PlacedBy(placed, u) == {r \in placed : r.user = u}

\* What a user needs for certain is the dues of the user's orders.
LEMMA DueTotal ==
  ASSUME NEW rows, NEW unpaid, NEW placed, Accounted(rows, unpaid, placed), NEW u
  PROVE  /\ Needing(rows, unpaid, u) = Total(Due(rows, unpaid), PlacedBy(placed, u))
         /\ \A r \in Requests : Due(rows, unpaid)[r] \in Int
<1>. USE DEF Accounted
<1>. DEFINE mine == PlacedBy(placed, u)
            open == OpenOf(rows, u)
            rest == [r \in Requests |-> IF rows[r].status \in OpenStatuses THEN RestExposure(r, rows[r]) ELSE 0]
            held == [r \in Requests |-> Total(Needs, BetsFor(unpaid, r))]
            myBets == BetsOf(unpaid, u)
<1>1. /\ IsFiniteSet(mine) /\ open \subseteq mine /\ mine \subseteq Requests
      /\ IsFiniteSet(open) /\ IsFiniteSet(mine \ open) /\ IsFiniteSet(myBets)
  <2>1. mine \subseteq placed /\ open \subseteq mine /\ mine \ open \subseteq mine /\ myBets \subseteq unpaid
    BY DEF OpenOf, BetsOf, PlacedBy
  <2>. QED BY <2>1, FS_Subset
<1>2. \A b \in BetRecords : Needs[b] \in Int
  BY CoverInt
<1>3. \A r \in Requests : rest[r] \in Int /\ held[r] \in Int
  <2>. SUFFICES ASSUME NEW r \in Requests PROVE rest[r] \in Int /\ held[r] \in Int
    OBVIOUS
  <2>1. IsFiniteSet(BetsFor(unpaid, r)) /\ BetsFor(unpaid, r) \subseteq BetRecords
    <3>1. BetsFor(unpaid, r) \subseteq unpaid
      BY DEF BetsFor
    <3>. QED BY <3>1, FS_Subset
  <2>2. Total(Needs, BetsFor(unpaid, r)) \in Int
    BY <1>2, <2>1, TotalInt
  <2>. QED BY <2>2, RestInt
<1>4. \A r \in Requests : Due(rows, unpaid)[r] = rest[r] + held[r]
  BY DEF Due
<1>5. \A r \in mine : rest[r] = IF r \in open THEN Resting(rows)[r] ELSE 0
  BY DEF OpenOf, Resting, PlacedBy
<1>6. \A b \in myBets : BetOrder(b) \in mine
  BY DEF BetsOf, BetUser, PlacedBy
<1>7. \A r \in mine : held[r] = Total(Needs, BetsFor(myBets, r)) /\ BetsFor(myBets, r) \subseteq myBets
  <2>. SUFFICES ASSUME NEW r \in mine
       PROVE  held[r] = Total(Needs, BetsFor(myBets, r)) /\ BetsFor(myBets, r) \subseteq myBets
    OBVIOUS
  <2>1. BetsFor(myBets, r) = BetsFor(unpaid, r)
    BY DEF BetsFor, BetsOf, BetUser, PlacedBy
  <2>2. held[r] = Total(Needs, BetsFor(unpaid, r))
    BY <1>1
  <2>3. BetsFor(myBets, r) \subseteq myBets
    BY DEF BetsFor
  <2>. QED BY <2>1, <2>2, <2>3
<1>. DEFINE due == Due(rows, unpaid)
<1>. HIDE DEF mine, open, rest, held, myBets, due
<1>8. Total(due, mine) = Total(rest, mine) + Total(held, mine)
  <2>1. \A r \in mine : rest[r] \in Int /\ held[r] \in Int /\ due[r] = rest[r] + held[r]
    BY <1>1, <1>3, <1>4 DEF due
  <2>. QED BY <1>1, <2>1, TotalPlus
<1>9. Total(rest, mine) = Total(Resting(rows), open)
  <2>1. open \cup (mine \ open) = mine /\ open \cap (mine \ open) = {}
    BY <1>1
  <2>2. \A r \in open \cup (mine \ open) : rest[r] \in Int
    BY <2>1, <1>1, <1>3
  <2>3. Total(rest, open \cup (mine \ open)) = Total(rest, open) + Total(rest, mine \ open)
    BY <1>1, <2>1, <2>2, TotalUnion
  <2>4. Total(rest, mine \ open) = 0
    BY <1>1, <1>5, TotalZero
  <2>5. Total(rest, open) = Total(Resting(rows), open)
    BY <1>1, <1>5, TotalSame
  <2>6. Total(rest, open) \in Int
    BY <1>1, <1>3, TotalInt
  <2>. QED BY <2>1, <2>3, <2>4, <2>5, <2>6
<1>10. Total(held, mine) = Total(Needs, myBets)
  <2>. DEFINE owner == [b \in myBets |-> BetOrder(b)]
              part == [r \in mine |-> BetsFor(myBets, r)]
  <2>1. \A b \in myBets : Needs[b] \in Int
    BY <1>2 DEF myBets, BetsOf
  <2>2. \A b \in myBets : owner[b] \in mine
    BY <1>6
  <2>3. \A r \in mine : part[r] \subseteq myBets /\ \A b \in myBets : b \in part[r] <=> owner[b] = r
    BY DEF BetsFor
  <2>4. \A r \in mine : held[r] = 0 + Total(Needs, part[r])
    <3>1. \A r \in mine : held[r] = Total(Needs, part[r]) /\ held[r] \in Int
      BY <1>1, <1>3, <1>7
    <3>. HIDE DEF part
    <3>. QED BY <3>1
  <2>. HIDE DEF owner, part
  <2>5. Total(held, mine) = 0 * Cardinality(mine) + Total(Needs, myBets)
    BY <1>1, <2>1, <2>2, <2>3, <2>4, TotalGrouped
  <2>6. Cardinality(mine) \in Nat /\ Total(Needs, myBets) \in Int
    BY <1>1, <2>1, FS_CardinalityType, TotalInt
  <2>. QED BY <2>5, <2>6
<1>11. Needing(rows, unpaid, u) = Total(due, mine)
  BY <1>8, <1>9, <1>10 DEF Needing, open, myBets
<1>12. \A r \in Requests : due[r] \in Int
  BY <1>3, <1>4 DEF due
<1>. QED BY <1>11, <1>12 DEF due, mine

-----------------------------------------------------------------------------

\* r trades size[m] with each of the makers made, altogether total.
Trades(r, made, size, total) ==
    /\ made \subseteq Placed /\ r \notin made /\ total \in Nat
    /\ \A m \in made :
         /\ m.side = Opposite(r.side) /\ Crosses(r.side, r.price, m.price)
         /\ size[m] \in Nat /\ size[m] > 0
         /\ Book[m].status \in OpenStatuses
         /\ size[m] <= m.stake - Book[m].matched
         /\ Book'[m].matched = Book[m].matched + size[m]
         /\ Book'[m].status = "MATCHED" => Book'[m].matched = m.stake
         /\ Book'[m].status \in OpenStatuses \cup {"MATCHED"}
    /\ \A q \in Requests \ made : q # r => Book'[q] = Book[q]
    /\ total <= r.stake
    /\ Book'[r].matched = total
    /\ Book'[r].status = "MATCHED" => total = r.stake
    /\ Book'[r].status \in OpenStatuses \cup {"MATCHED"}
    /\ bets' = bets \cup {[taker |-> r, maker |-> m, side |-> x, stake |-> size[m]]
                            : m \in made, x \in Sides}

\* What a placement that the contract allows does to the tables.
LEMMA PlaceEffect ==
  ASSUME Inv, BetsOK, NEW r \in Requests, Contract!Place(r)
  PROVE  /\ r \notin Placed
         /\ Exposure(r) <= wallets[r.user].balance - wallets[r.user].reserved
         /\ wallets' = [wallets EXCEPT ![r.user].reserved = @ + Exposure(r)]
         /\ settledBets' = settledBets
         /\ \E made, size, total : Trades(r, made, size, total) /\ total = Total(size, made)
                                  /\ \A m \in made : m.selection = r.selection
<1>. DEFINE seen == {m \in Requests : Contract!Compatible(r, m)}
<1>1. /\ Book[r] = Contract!Absent
      /\ Contract!Exposure(r) <= wallets[r.user].balance - wallets[r.user].reserved
      /\ wallets' = [wallets EXCEPT ![r.user].reserved = @ + Contract!Exposure(r)]
      /\ \E size \in [seen -> 0 .. r.stake] : Contract!Trade(r, size)
      /\ settledBets' = settledBets
  BY DEF Contract!Place, Book
<1>2. PICK size \in [seen -> 0 .. r.stake] : Contract!Trade(r, size)
  BY <1>1
<1>. DEFINE made == {m \in DOMAIN size : size[m] > 0}
<1>t. PICK total : total = Contract!Traded(size, made)
  OBVIOUS
<1>3. /\ total <= r.stake
      /\ \A m \in made : size[m] <= Contract!Unmatched(m)
      /\ Book' = [q \in Requests |-> CASE q = r -> Contract!After(r, total)
                                       [] q \in made -> Contract!After(q, size[q])
                                       [] OTHER -> Book[q]]
      /\ bets' = bets \cup {[taker |-> r, maker |-> m, side |-> x, stake |-> size[m]]
                              : m \in made, x \in Contract!Sides}
  BY <1>2, <1>t DEF Contract!Trade, Book
<1>4. orders[r].status = "ABSENT" /\ Book[r].matched = 0
  BY <1>1 DEF Book, Contract!Absent
<1>5. ASSUME NEW m \in made
      PROVE  /\ m \in Placed /\ m # r /\ m \in Requests
             /\ m.selection = r.selection
             /\ m.side = Opposite(r.side) /\ Crosses(r.side, r.price, m.price)
             /\ size[m] \in Nat /\ size[m] > 0
             /\ Book[m].status \in OpenStatuses
             /\ size[m] <= m.stake - Book[m].matched
  <2>1. m \in Requests /\ Contract!Compatible(r, m) /\ size[m] \in 0 .. r.stake /\ size[m] > 0
    OBVIOUS
  <2>2. orders[m].status \in OpenStatuses /\ size[m] <= Remaining(m, orders[m])
    BY <1>3, <2>1, BookRows DEF Contract!Compatible
  <2>3. r.stake \in Nat
    BY RequestType
  <2>. QED BY <1>4, <2>1, <2>2, <2>3, SameOdds
       DEF Contract!Compatible, Placed, OpenStatuses, Book, Remaining
<1>6. total \in Nat /\ total = Total(size, made)
  <2>1. made \subseteq Placed
    BY <1>5
  <2>2. IsFiniteSet(made)
    <3>. HIDE DEF made
    <3>. QED BY <2>1, FS_Subset DEF BetsOK, Placed
  <2>3. \A m \in made : size[m] \in Nat
    BY <1>5
  <2>. HIDE DEF made
  <2>4. Total(size, made) \in Nat
    BY <2>2, <2>3, TotalNat
  <2>. QED BY <1>t, <2>4, ContractTotal
<1>7. \A m \in Requests : Book[m].matched \in Int /\ m.stake \in Nat
  BY RequestType DEF Inv, TypeOK, Book, OrderRows
<1>8. ASSUME NEW q \in Requests, NEW n \in Nat, n <= q.stake - Book[q].matched
      PROVE  LET row == Contract!After(q, n)
             IN  /\ row.matched = Book[q].matched + n
                 /\ row.status = "MATCHED" => row.matched = q.stake
                 /\ row.status \in OpenStatuses \cup {"MATCHED"}
  BY <1>7, <1>8 DEF Contract!After, OpenStatuses, Book
<1>9. ASSUME NEW m \in made
      PROVE  /\ Book'[m].matched = Book[m].matched + size[m]
             /\ Book'[m].status = "MATCHED" => Book'[m].matched = m.stake
             /\ Book'[m].status \in OpenStatuses \cup {"MATCHED"}
  <2>1. Book'[m] = Contract!After(m, size[m])
    BY <1>3, <1>5
  <2>. QED BY <1>5, <1>8, <2>1
<1>10. /\ Book'[r].matched = total
       /\ Book'[r].status = "MATCHED" => total = r.stake
       /\ Book'[r].status \in OpenStatuses \cup {"MATCHED"}
  <2>0. r \notin made
    BY <1>5
  <2>. HIDE DEF made
  <2>1. Book'[r] = Contract!After(r, total)
    BY <1>3, <2>0
  <2>2. total <= r.stake - Book[r].matched /\ Book[r].matched + total = total
    BY <1>3, <1>4, <1>6, <1>7
  <2>. QED BY <1>6, <1>8, <2>1, <2>2
<1>11. \A q \in Requests \ made : q # r => Book'[q] = Book[q]
  BY <1>3
<1>12. Contract!Sides = Sides
  BY DEF Contract!Sides, Sides
<1>13. r \notin Placed /\ Contract!Exposure(r) = Exposure(r)
  BY <1>4, BookRows DEF Placed
<1>14. made \subseteq Placed /\ r \notin made /\ \A m \in made : m.selection = r.selection
  BY <1>5
<1>. HIDE DEF made
<1>15. Trades(r, made, size, total)
  BY <1>3, <1>5, <1>6, <1>9, <1>10, <1>11, <1>12, <1>14 DEF Trades
<1>. HIDE DEF Trades
<1>. QED BY <1>1, <1>6, <1>13, <1>14, <1>15

\* With a placement one order more is placed, and its fills are of some size.
LEMMA TradesPlaced ==
  ASSUME Inv, BetsOK, NEW r \in Requests, r \notin Placed, settledBets' = settledBets,
         NEW made, NEW size, NEW total, Trades(r, made, size, total)
  PROVE  Placed' = Placed \cup {r} /\ BetsOK'
<1>1. \A q \in Requests : orders[q].status = Book[q].status /\ orders'[q].status = Book'[q].status
  BY DEF Book
<1>2. \A q \in Requests : q \in Placed <=> Book[q].status # "ABSENT"
  BY <1>1 DEF Placed
<1>3. \A q \in Requests : q \in Placed' <=> Book'[q].status # "ABSENT"
  BY <1>1 DEF Placed
<1>4. \A q \in Requests : q \in Placed' <=> q \in Placed \cup {r}
  <2>1. \A m \in made : m \in Placed /\ Book'[m].status \in OpenStatuses \cup {"MATCHED"}
    BY DEF Trades
  <2>2. Book'[r].status \in OpenStatuses \cup {"MATCHED"}
    BY DEF Trades
  <2>3. \A q \in Requests \ made : q # r => Book'[q] = Book[q]
    BY DEF Trades
  <2>. QED BY <1>2, <1>3, <2>1, <2>2, <2>3 DEF OpenStatuses
<1>5. Placed' = Placed \cup {r}
  <2>1. Placed \subseteq Requests /\ Placed' \subseteq Requests
    BY DEF Placed
  <2>. QED BY <1>4, <2>1
<1>6. IsFiniteSet(Placed')
  BY <1>5, FS_AddElement DEF BetsOK, Placed
<1>7. \A b \in bets' \ bets : b.stake > 0
  <2>. SUFFICES ASSUME NEW b \in bets' \ bets PROVE b.stake > 0
    OBVIOUS
  <2>1. PICK m \in made, x \in Sides : b = [taker |-> r, maker |-> m, side |-> x, stake |-> size[m]]
    BY DEF Trades
  <2>. QED BY <2>1 DEF Trades
<1>8. bets \subseteq bets'
  BY DEF Trades
<1>. QED BY <1>5, <1>6, <1>7, <1>8 DEF BetsOK, Placed

\* A placement's bets: two for each maker.
Fills(r, made, size) ==
    {[taker |-> r, maker |-> m, side |-> x, stake |-> size[m]] : m \in made, x \in Sides}

\* One of them is the maker's, the other is for the new order.
LEMMA FillsFor ==
  ASSUME NEW r \in Requests, NEW made, made \subseteq Requests, r \notin made, NEW size,
         \A m \in made : m.side = Opposite(r.side)
  PROVE  /\ \A q \in Requests \ made : q # r => BetsFor(Fills(r, made, size), q) = {}
         /\ \A q \in made : BetsFor(Fills(r, made, size), q) =
              {[taker |-> r, maker |-> q, side |-> q.side, stake |-> size[q]]}
         /\ \A b \in BetsFor(Fills(r, made, size), r) :
              \E m \in made : b = [taker |-> r, maker |-> m, side |-> r.side, stake |-> size[m]]
<1>. DEFINE bet(m, x) == [taker |-> r, maker |-> m, side |-> x, stake |-> size[m]]
<1>1. r.side \in Sides
  BY RequestType
<1>2. \A m \in made : m.side \in Sides /\ m.side # r.side
  BY <1>1, TwoSides
<1>3. \A m \in made, x \in Sides : x = r.side \/ x = m.side
  BY <1>1, TwoSides
<1>4. \A m, x : BetOrder(bet(m, x)) = IF x = r.side THEN r ELSE m
  BY DEF BetOrder
<1>5. \A q : BetsFor(Fills(r, made, size), q) =
               {b \in {bet(m, x) : m \in made, x \in Sides} : BetOrder(b) = q}
  BY DEF BetsFor, Fills
<1>6. \A q \in Requests \ made : q # r => BetsFor(Fills(r, made, size), q) = {}
  BY <1>4, <1>5
<1>7. ASSUME NEW q \in made PROVE BetsFor(Fills(r, made, size), q) = {bet(q, q.side)}
  <2>1. bet(q, q.side) \in BetsFor(Fills(r, made, size), q)
    BY <1>2, <1>4, <1>5
  <2>2. ASSUME NEW b \in BetsFor(Fills(r, made, size), q) PROVE b = bet(q, q.side)
    <3>1. PICK m \in made, x \in Sides : b = bet(m, x) /\ BetOrder(bet(m, x)) = q
      BY <1>5
    <3>. QED BY <1>3, <1>4, <3>1
  <2>. QED BY <2>1, <2>2
<1>8. ASSUME NEW b \in BetsFor(Fills(r, made, size), r)
      PROVE  \E m \in made : b = bet(m, r.side)
  <2>1. PICK m \in made, x \in Sides : b = bet(m, x) /\ BetOrder(bet(m, x)) = r
    BY <1>5
  <2>. QED BY <1>3, <1>4, <2>1
<1>. QED BY <1>6, <1>7, <1>8

\* What a maker loses of its rest it has in its new bet, but for rounding.
LEMMA MakerDues ==
  ASSUME NEW r \in Requests, NEW m \in Requests, NEW n \in Int, NEW row, NEW row2,
         row.matched \in Int, row2.matched = row.matched + n,
         row.status \in OpenStatuses, row2.status \in OpenStatuses \cup {"MATCHED"},
         row2.status = "MATCHED" => row2.matched = m.stake,
         NEW bet, bet = [taker |-> r, maker |-> m, side |-> m.side, stake |-> n]
  PROVE  /\ BetLiability(bet) \in Int
         /\ RestExposure(m, row) \in Int
         /\ (IF row2.status \in OpenStatuses THEN RestExposure(m, row2) ELSE 0)
              + (BetLiability(bet) - LossOf(m.side)) <= RestExposure(m, row)
<1>. DEFINE k == Rate(m.side, m.price)
            a == m.stake - row.matched
<1>1. m.stake \in Int /\ m.side \in Sides /\ a \in Int
  BY RequestType
<1>2. k \in Nat /\ LossOf(m.side) \in {0, 1}
  BY <1>1, LiabilityNear, LossSmall
<1>3. \A i, j \in Int : (i - j) * k + j * k = i * k /\ i * k \in Int
  BY <1>2, SMT
<1>4. /\ RestExposure(m, row) = LiabilityMinor(m.side, m.price, a)
      /\ RestExposure(m, row2) = LiabilityMinor(m.side, m.price, a - n)
      /\ BetLiability(bet) = LiabilityMinor(m.side, m.price, n)
  <2>1. m.stake - row2.matched = a - n
    BY <1>1
  <2>. QED BY <2>1 DEF RestExposure, Remaining, BetLiability, BetPrice
<1>5. row2.status \notin OpenStatuses => a = n
  BY <1>1
<1>. HIDE DEF a
<1>6. \A x \in Int :
        /\ LiabilityMinor(m.side, m.price, x) \in Int
        /\ 100 * LiabilityMinor(m.side, m.price, x) <= x * k + 50 * LossOf(m.side)
        /\ x * k - 50 * LossOf(m.side) <= 100 * LiabilityMinor(m.side, m.price, x)
  BY <1>1, LiabilityNear
<1>. HIDE DEF k
<1>7. PICK x, y, z \in Int : /\ x = LiabilityMinor(m.side, m.price, a)
                             /\ y = LiabilityMinor(m.side, m.price, a - n)
                             /\ z = LiabilityMinor(m.side, m.price, n)
  <2>1. a \in Int /\ a - n \in Int /\ n \in Int
    BY <1>1
  <2>. QED BY <1>6, <2>1, Zenon
<1>8. PICK ak, bk, nk \in Int : ak = a * k /\ bk = (a - n) * k /\ nk = n * k
  <2>1. a \in Int /\ a - n \in Int /\ n \in Int
    BY <1>1
  <2>2. a * k \in Int /\ (a - n) * k \in Int /\ n * k \in Int
    BY <1>3, <2>1, Zenon
  <2>. QED BY <2>2, Zenon
<1>9. /\ ak - 50 * LossOf(m.side) <= 100 * x
      /\ 100 * y <= bk + 50 * LossOf(m.side)
      /\ 100 * z <= nk + 50 * LossOf(m.side)
      /\ bk + nk = ak
  BY <1>1, <1>3, <1>6, <1>7, <1>8
<1>10. y + (z - LossOf(m.side)) <= x
  BY <1>2, <1>9
<1>11. CASE row2.status \in OpenStatuses
  BY <1>4, <1>7, <1>10, <1>11
<1>12. CASE row2.status \notin OpenStatuses
  BY <1>2, <1>4, <1>5, <1>7, <1>12
<1>. QED BY <1>11, <1>12

\* But for rounding, what a placement adds to what its owner may lose is at most its
\* exposure, and it adds nothing for its makers: they lose of their rest what they
\* get in bets.
LEMMA PlaceOwes ==
  ASSUME Inv, FillInv, BetsOK, Inv', FillInv', NEW r \in Requests, r \notin Placed,
         settledBets' = settledBets,
         NEW made, NEW size, NEW total, Trades(r, made, size, total), NEW u \in Users
  PROVE  /\ Outstanding(u)' - Margin(u)' <=
              Outstanding(u) - Margin(u) + (IF u = r.user THEN Exposure(r) ELSE 0)
         /\ Outstanding(u) \in Int /\ Outstanding(u)' \in Int
         /\ Margin(u) \in Nat /\ Margin(u)' \in Nat
<1>. DEFINE old == bets \ settledBets
            new == Fills(r, made, size)
            due == Due(Book, old)
            due2 == Due(Book', old \cup new)
            mine == PlacedBy(Placed, u)
            mine2 == PlacedBy(Placed', u)
<1>1. Placed' = Placed \cup {r} /\ BetsOK' /\ Placed \subseteq Requests /\ made \subseteq Placed
  BY TradesPlaced DEF Placed, Trades
<1>m. made \subseteq Requests /\ r \notin made /\ \A m \in made : m.side = Opposite(r.side)
  BY <1>1 DEF Trades
<1>2. Book \in Rows /\ Book' \in Rows
  BY OutstandingTotal, OutstandingNext DEF Inv, OutstandingOK
<1>3. bets \subseteq BetRecords /\ bets' \subseteq BetRecords
  BY DEF Inv, TypeOK
<1>4. /\ \A b \in bets : BetOrder(b) \in Placed
      /\ \A b \in bets' : BetOrder(b) \in Placed'
  <2>1. \A b \in bets : b.taker \in Placed /\ b.maker \in Placed
    BY <1>3 DEF FillInv, Placed, BetRecords
  <2>2. \A b \in bets' : b.taker \in Placed' /\ b.maker \in Placed'
    BY <1>3 DEF FillInv, Placed, BetRecords
  <2>. QED BY <2>1, <2>2 DEF BetOrder
<1>5. (bets \ settledBets)' = old \cup new /\ old \cap new = {} /\ IsFiniteSet(old) /\ IsFiniteSet(old \cup new)
  <2>1. \A b \in new : b.taker = r
    BY DEF Fills
  <2>2. \A b \in bets : b.taker # r
    BY <1>3 DEF FillInv, Placed, BetRecords
  <2>3. bets' = bets \cup new
    BY DEF Trades, Fills
  <2>. HIDE DEF new
  <2>4. bets \cap new = {} /\ settledBets \subseteq bets
    BY <2>1, <2>2 DEF BetsOK
  <2>5. (bets \ settledBets)' = bets' \ settledBets
    OBVIOUS
  <2>6. (bets \ settledBets)' = old \cup new /\ old \cap new = {}
    BY <2>3, <2>4, <2>5
  <2>7. old \cup new \subseteq bets'
    BY <2>3
  <2>8. IsFiniteSet(bets) /\ IsFiniteSet(bets')
    BY DEF FillInv
  <2>. QED BY <2>6, <2>7, <2>8, FS_Subset
<1>6. Accounted(Book, old, Placed) /\ Accounted(Book', old \cup new, Placed')
  <2>1. /\ \A q \in Requests : Book[q].status \in OpenStatuses => q \in Placed
        /\ \A q \in Requests : Book'[q].status \in OpenStatuses => q \in Placed'
    BY DEF Book, Placed, OpenStatuses
  <2>2. IsFiniteSet(Placed) /\ IsFiniteSet(Placed') /\ Placed' \subseteq Requests
    BY <1>1 DEF BetsOK, Placed
  <2>3. old \cup new \subseteq bets'
    BY <1>5
  <2>. HIDE DEF new
  <2>. QED BY <1>1, <1>2, <1>3, <1>4, <1>5, <2>1, <2>2, <2>3 DEF Accounted
<1>7. /\ Needing(Book, old, u) = Total(due, mine)
      /\ Needing(Book', old \cup new, u) = Total(due2, mine2)
      /\ \A q \in Requests : due[q] \in Int /\ due2[q] \in Int
  <2>. HIDE DEF old, new
  <2>1. PICK rows, placed, unpaid : rows = Book' /\ placed = Placed' /\ unpaid = old \cup new
    OBVIOUS
  <2>2. Accounted(rows, unpaid, placed)
    BY <1>6, <2>1
  <2>3. /\ Needing(rows, unpaid, u) = Total(Due(rows, unpaid), PlacedBy(placed, u))
        /\ \A q \in Requests : Due(rows, unpaid)[q] \in Int
    BY <2>2, DueTotal
  <2>4. /\ Needing(Book, old, u) = Total(Due(Book, old), PlacedBy(Placed, u))
        /\ \A q \in Requests : Due(Book, old)[q] \in Int
    BY <1>6, DueTotal
  <2>. QED BY <2>1, <2>3, <2>4
\* The dues of the other orders do not grow,
<1>8. ASSUME NEW q \in Placed PROVE due2[q] <= due[q]
  <2>. DEFINE before == BetsFor(old, q)
  <2>1. q \in Requests /\ q # r /\ BetsFor(old \cup new, q) = before \cup BetsFor(new, q)
    BY <1>1 DEF BetsFor
  <2>2. /\ due[q] = (IF Book[q].status \in OpenStatuses THEN RestExposure(q, Book[q]) ELSE 0)
                      + Total(Needs, before)
        /\ due2[q] = (IF Book'[q].status \in OpenStatuses THEN RestExposure(q, Book'[q]) ELSE 0)
                      + Total(Needs, before \cup BetsFor(new, q))
    <3>. HIDE DEF old, new
    <3>. QED BY <2>1 DEF Due
  <2>3. CASE q \notin made
    <3>1. BetsFor(new, q) = {} /\ Book'[q] = Book[q]
      BY <1>m, <2>1, <2>3, FillsFor DEF Trades
    <3>. HIDE DEF before, due, due2, new
    <3>2. before \cup BetsFor(new, q) = before
      BY <3>1
    <3>3. due2[q] = due[q]
      BY <2>2, <3>1, <3>2
    <3>. QED BY <1>7, <2>1, <3>3
  <2>4. CASE q \in made
    <3>1. PICK bet : bet = [taker |-> r, maker |-> q, side |-> q.side, stake |-> size[q]]
      OBVIOUS
    <3>2. BetsFor(new, q) = {bet}
      BY <1>m, <2>4, <3>1, FillsFor
    <3>3. bet \in new /\ bet \notin before /\ bet \in BetRecords
      <4>1. bet \in new
        BY <3>2 DEF BetsFor
      <4>2. bet \in old \cup new /\ old \cup new \subseteq BetRecords /\ old \cap new = {}
        BY <1>3, <1>5, <4>1
      <4>. QED BY <4>1, <4>2 DEF BetsFor
    <3>4. /\ size[q] \in Nat /\ Book[q].status \in OpenStatuses
          /\ Book'[q].matched = Book[q].matched + size[q]
          /\ Book'[q].status = "MATCHED" => Book'[q].matched = q.stake
          /\ Book'[q].status \in OpenStatuses \cup {"MATCHED"}
      BY <2>4 DEF Trades
    <3>5. Book[q].matched \in Int
      BY <1>2, <2>1 DEF Rows
    <3>6. /\ BetLiability(bet) \in Int /\ RestExposure(q, Book[q]) \in Int
          /\ (IF Book'[q].status \in OpenStatuses THEN RestExposure(q, Book'[q]) ELSE 0)
               + (BetLiability(bet) - LossOf(q.side)) <= RestExposure(q, Book[q])
      <4>. HIDE DEF due, due2, new, old, before
      <4>. QED BY <2>1, <3>1, <3>4, <3>5, MakerDues
    <3>7. IsFiniteSet(before) /\ before \subseteq BetRecords
      <4>1. before \subseteq old
        BY DEF BetsFor
      <4>. QED BY <1>3, <1>5, <4>1, FS_Subset
    <3>. HIDE DEF before, due, due2, new, old
    <3>8. \A b \in before \cup {bet} : Needs[b] \in Int
      BY <3>3, <3>7, CoverInt
    <3>9. /\ Total(Needs, before \cup {bet}) = Total(Needs, before) + Needs[bet]
          /\ Total(Needs, before) \in Int
      BY <3>3, <3>7, <3>8, TotalAdd, TotalInt
    <3>10. Needs[bet] = BetLiability(bet) - LossOf(q.side) /\ Needs[bet] \in Int
      BY <3>1, <3>3, CoverInt
    <3>11. (IF Book'[q].status \in OpenStatuses THEN RestExposure(q, Book'[q]) ELSE 0) \in Int
      BY <1>2, <2>1, RestInt
    <3>12. PICK rest, need, all, was :
             /\ rest = (IF Book'[q].status \in OpenStatuses THEN RestExposure(q, Book'[q]) ELSE 0)
             /\ need = Needs[bet] /\ all = Total(Needs, before) /\ was = RestExposure(q, Book[q])
      OBVIOUS
    <3>13. due2[q] = rest + (all + need) /\ due[q] = was + all /\ rest + need <= was
      BY <2>2, <3>2, <3>4, <3>6, <3>9, <3>10, <3>12
    <3>14. rest \in Int /\ need \in Int /\ all \in Int /\ was \in Int
      BY <3>6, <3>9, <3>10, <3>11, <3>12
    <3>. QED BY <3>13, <3>14
  <2>. QED BY <2>3, <2>4
\* and those of the new order are within its exposure.
<1>9. due2[r] <= Exposure(r)
  <2>. DEFINE mine3 == BetsFor(old \cup new, r)
              k == Rate(r.side, r.price)
              loss == LossOf(r.side)
  <2>1. mine3 = BetsFor(new, r) /\ mine3 = BetsFor(bets', r) /\ mine3 \subseteq bets' /\ IsFiniteSet(mine3)
    <3>1. \A b \in bets : BetOrder(b) # r
      BY <1>4
    <3>2. bets' = bets \cup new
      BY DEF Trades, Fills
    <3>3. mine3 = BetsFor(new, r) /\ mine3 = BetsFor(bets', r) /\ mine3 \subseteq bets'
      BY <3>1, <3>2 DEF BetsFor
    <3>. QED BY <3>3, FS_Subset DEF FillInv
  <2>2. /\ r.stake \in Nat /\ r.side \in Sides /\ r.price \in Prices /\ k \in Nat /\ loss \in {0, 1}
        /\ \A n \in Int :
             /\ n * k \in Int /\ LiabilityMinor(r.side, r.price, n) \in Int
             /\ 100 * LiabilityMinor(r.side, r.price, n) <= n * k + 50 * loss
             /\ n * k - 50 * loss <= 100 * LiabilityMinor(r.side, r.price, n)
    <3>1. r.stake \in Nat /\ r.side \in Sides /\ r.price \in Prices
      BY RequestType
    <3>2. 0 \in Int
      OBVIOUS
    <3>. QED BY <3>1, <3>2, LiabilityNear, LossSmall
  <2>3. ASSUME NEW b \in mine3
        PROVE  /\ Needs[b] \in Int /\ Stakes[b] \in Int
               /\ Needs[b] * 100 <= Stakes[b] * k - 50 * loss
    <3>0. b \in BetsFor(Fills(r, made, size), r)
      <4>. HIDE DEF mine3
      <4>. QED BY <2>1, <2>3
    <3>1. PICK m \in made : b = [taker |-> r, maker |-> m, side |-> r.side, stake |-> size[m]]
      BY <1>m, <3>0, FillsFor
    <3>2. b \in BetRecords
      BY <1>3, <2>1
    <3>3. size[m] \in Nat /\ Crosses(r.side, r.price, m.price) /\ m \in Requests /\ m.price \in Prices
      BY <1>m, RequestType DEF Trades
    <3>4. PICK j : j = Rate(r.side, m.price)
      OBVIOUS
    <3>5. /\ j \in Nat /\ j <= k /\ size[m] * j \in Int
          /\ LiabilityMinor(r.side, m.price, size[m]) \in Int
          /\ 100 * LiabilityMinor(r.side, m.price, size[m]) <= size[m] * j + 50 * loss
      <4>1. j <= k
        BY <2>2, <3>3, <3>4, RateCrossed
      <4>2. size[m] \in Int /\ r.side \in Sides
        BY <2>2, <3>3
      <4>3. /\ Rate(r.side, m.price) \in Nat /\ size[m] * Rate(r.side, m.price) \in Int
            /\ LiabilityMinor(r.side, m.price, size[m]) \in Int
            /\ 100 * LiabilityMinor(r.side, m.price, size[m])
                 <= size[m] * Rate(r.side, m.price) + 50 * LossOf(r.side)
        BY <3>3, <4>2, LiabilityNear
      <4>. HIDE DEF k
      <4>. QED BY <3>4, <4>1, <4>3
    <3>6. /\ Stakes[b] = size[m]
          /\ Needs[b] = LiabilityMinor(r.side, m.price, size[m]) - loss
      <4>1. BetLiability(b) = LiabilityMinor(r.side, m.price, size[m])
        BY <3>1 DEF BetLiability, BetPrice
      <4>2. Needs[b] = BetLiability(b) - LossOf(b.side) /\ b.side = r.side
        BY <3>1, <3>2, CoverInt
      <4>3. Stakes[b] = size[m]
        BY <3>1, <3>2 DEF Stakes
      <4>. QED BY <4>1, <4>2, <4>3
    <3>. HIDE DEF k, loss, mine3
    <3>7. \A n, x, y \in Nat : x <= y => n * x <= n * y /\ n * y \in Int
      BY SMT
    <3>8. size[m] * j <= size[m] * k /\ size[m] * k \in Int
      BY <2>2, <3>3, <3>5, <3>7
    <3>9. PICK l, sj, sk : /\ l = LiabilityMinor(r.side, m.price, size[m])
                           /\ sj = size[m] * j /\ sk = size[m] * k
      OBVIOUS
    <3>10. /\ l \in Int /\ sj \in Int /\ sk \in Int /\ sj <= sk /\ 100 * l <= sj + 50 * loss
           /\ Needs[b] = l - loss
      BY <3>5, <3>6, <3>8, <3>9
    <3>11. Needs[b] \in Int /\ Needs[b] * 100 <= sk - 50 * loss
      BY <2>2, <3>10
    <3>. QED BY <3>3, <3>6, <3>9, <3>11
  <2>4. Total(Stakes, mine3) = total
    <3>1. orders'[r].matched = StakesOf(BetsFor(bets', r))
      BY DEF FillInv, BetsAccountForMatched
    <3>2. Book'[r].matched = orders'[r].matched
      BY DEF Book
    <3>3. mine3 \subseteq BetRecords
      BY <1>3, <2>1
    <3>4. StakesOf(mine3) = Total(Stakes, mine3)
      BY <3>3, StakesTotal
    <3>5. Book'[r].matched = total
      BY DEF Trades
    <3>. HIDE DEF mine3
    <3>. QED BY <2>1, <3>1, <3>2, <3>4, <3>5
  <2>6. due2[r] = (IF Book'[r].status \in OpenStatuses THEN RestExposure(r, Book'[r]) ELSE 0)
                    + Total(Needs, mine3)
    BY DEF Due
  <2>7. /\ total \in Nat /\ Book'[r].matched = total
        /\ Book'[r].status = "MATCHED" => total = r.stake
        /\ Book'[r].status \in OpenStatuses \cup {"MATCHED"}
    BY DEF Trades
  <2>8. /\ RestExposure(r, Book'[r]) = LiabilityMinor(r.side, r.price, r.stake - total)
        /\ Exposure(r) = LiabilityMinor(r.side, r.price, r.stake)
    BY <2>7 DEF RestExposure, Remaining, Exposure
  <2>. HIDE DEF mine3, k, loss, due2
  <2>9. \A a, b \in Int : (a - b) * k + b * k = a * k /\ a * k \in Int /\ 0 * k = 0
    BY <2>2, SMT
  <2>10. PICK rest, exposure \in Int : /\ rest = LiabilityMinor(r.side, r.price, r.stake - total)
                                       /\ exposure = LiabilityMinor(r.side, r.price, r.stake)
    BY <2>2, <2>7
  <2>i. r.stake \in Int /\ total \in Int /\ r.stake - total \in Int
    BY <2>2, <2>7, SMTT(30)
  <2>l. loss = 0 \/ loss = 1
    BY <2>2
  <2>11. PICK ak, bk, tk \in Int : ak = r.stake * k /\ bk = (r.stake - total) * k /\ tk = total * k
    <3>1. r.stake * k \in Int /\ (r.stake - total) * k \in Int /\ total * k \in Int
      BY <2>9, <2>i, Zenon
    <3>. QED BY <3>1, Zenon
  <2>12. bk + tk = ak /\ 100 * rest <= bk + 50 * loss /\ ak - 50 * loss <= 100 * exposure
    <3>1. (r.stake - total) * k + total * k = r.stake * k
      BY <2>9, <2>i, Zenon
    <3>2. /\ 100 * LiabilityMinor(r.side, r.price, r.stake - total) <= (r.stake - total) * k + 50 * loss
          /\ r.stake * k - 50 * loss <= 100 * LiabilityMinor(r.side, r.price, r.stake)
      BY <2>2, <2>i, Zenon
    <3>. QED BY <2>10, <2>11, <3>1, <3>2
  <2>13. CASE mine3 = {}
    <3>1. Total(Needs, mine3) = 0 /\ total = 0
      BY <2>4, <2>13, TotalEmpty
    <3>2. r.stake - total = r.stake /\ rest = exposure /\ tk = 0
      <4>1. r.stake - total = r.stake
        BY <2>i, <3>1
      <4>2. 0 * k = 0
        BY <2>9, Zenon
      <4>. QED BY <2>10, <2>11, <3>1, <4>1, <4>2
    <3>3. Book'[r].status \notin OpenStatuses => ak = 0
      BY <2>7, <2>11, <3>1, <3>2
    <3>4. Book'[r].status \notin OpenStatuses => 0 <= exposure
      BY <2>l, <2>10, <2>12, <3>3
    <3>. QED BY <2>6, <2>8, <2>10, <3>1, <3>2, <3>4
  <2>14. CASE mine3 # {}
    <3>1. PICK b \in mine3 : TRUE
      BY <2>14
    <3>. DEFINE others == mine3 \ {b}
    <3>2. IsFiniteSet(others) /\ others \subseteq mine3
      BY <2>1, FS_Subset
    <3>. HIDE DEF others
    <3>3. /\ Total(Needs, mine3) = Needs[b] + Total(Needs, others)
          /\ Total(Stakes, mine3) = Stakes[b] + Total(Stakes, others)
      BY <2>1, <2>3, TotalTake DEF others
    <3>4. /\ Total(Needs, others) \in Int /\ Total(Stakes, others) \in Int
      BY <2>3, <3>2, TotalInt
    <3>5. Total(Needs, others) * 100 <= Total(Stakes, others) * k
      <4>1. \A c \in others : /\ Needs[c] \in Int /\ Stakes[c] \in Int
                              /\ Needs[c] * 100 <= Stakes[c] * k
        <5>. SUFFICES ASSUME NEW c \in others
             PROVE  /\ Needs[c] \in Int /\ Stakes[c] \in Int
                    /\ Needs[c] * 100 <= Stakes[c] * k
          OBVIOUS
        <5>1. /\ Needs[c] \in Int /\ Stakes[c] \in Int
              /\ Needs[c] * 100 <= Stakes[c] * k - 50 * loss
          BY <2>3, <3>2
        <5>2. Stakes[c] * k \in Int
          BY <2>9, <5>1, Zenon
        <5>3. PICK sk \in Int : sk = Stakes[c] * k
          BY <5>2
        <5>4. Needs[c] * 100 <= sk
          <6>2. \A x, y \in Int : x <= y - 50 * loss => x <= y
            BY <2>l
          <6>3. Needs[c] * 100 \in Int
            BY <5>1
          <6>4. Needs[c] * 100 <= sk - 50 * loss
            BY <5>1, <5>3
          <6>. QED BY <5>3, <6>2, <6>3, <6>4
        <5>. QED BY <5>1, <5>3, <5>4
      <4>2. k \in Int /\ 100 \in Int
        BY <2>2
      <4>. QED BY <3>2, <4>1, <4>2, TotalBound
    <3>6. PICK x, y, v, w : /\ x = Needs[b] /\ y = Total(Needs, others)
                            /\ v = Stakes[b] /\ w = Total(Stakes, others)
      OBVIOUS
    <3>7. /\ x \in Int /\ y \in Int /\ v \in Int /\ w \in Int
          /\ x * 100 <= v * k - 50 * loss /\ y * 100 <= w * k /\ total = v + w
          /\ Total(Needs, mine3) = x + y
      BY <2>3, <2>4, <3>1, <3>3, <3>4, <3>5, <3>6
    <3>8. PICK vk, wk \in Int : vk = v * k /\ wk = w * k
      BY <2>9, <3>7
    <3>9. vk + wk = tk
      <4>1. \A a, c \in Int : a * k + c * k = (a + c) * k
        BY <2>2, SMT
      <4>. QED BY <2>11, <3>7, <3>8, <4>1
    <3>10. PICK z \in Int : z = x + y /\ 100 * z <= tk - 50 * loss
      <4>1. x \in Int /\ y \in Int /\ x * 100 <= vk - 50 * loss /\ y * 100 <= wk
        BY <3>7, <3>8
      <4>. QED BY <2>l, <3>8, <3>9, <4>1
    <3>11. rest + (x + y) <= exposure
      <4>1. rest + z <= exposure
        BY <2>l, <2>12, <3>10
      <4>. QED BY <3>10, <4>1
    <3>12. Book'[r].status \notin OpenStatuses => tk = ak
      BY <2>7, <2>11
    <3>13. Book'[r].status \notin OpenStatuses => x + y <= exposure
      <4>1. tk = ak => z <= exposure
        BY <2>l, <2>12, <3>10
      <4>. QED BY <3>10, <3>12, <4>1
    <3>. QED BY <2>6, <2>8, <2>10, <3>7, <3>11, <3>13
  <2>. QED BY <2>13, <2>14
<1>. HIDE DEF due, due2, old, new
<1>10. IsFiniteSet(mine) /\ mine \subseteq Placed /\ r \notin mine
  <2>1. mine \subseteq Placed
    BY DEF PlacedBy
  <2>. QED BY <2>1, FS_Subset DEF BetsOK, Placed
<1>11. Total(due2, mine) <= Total(due, mine)
  <2>1. \A q \in mine : due2[q] \in Int /\ due[q] \in Int /\ due2[q] * 1 <= due[q] * 1
    BY <1>1, <1>7, <1>8, <1>10
  <2>2. Total(due2, mine) * 1 <= Total(due, mine) * 1
    BY <1>10, <2>1, TotalBound
  <2>3. Total(due2, mine) \in Int /\ Total(due, mine) \in Int
    BY <1>10, <2>1, TotalInt
  <2>. QED BY <2>2, <2>3
<1>12. Total(due, mine) \in Int /\ Total(due2, mine) \in Int
  BY <1>1, <1>7, <1>10, TotalInt
<1>13. /\ Total(due2, mine2) <= Total(due, mine) + (IF u = r.user THEN Exposure(r) ELSE 0)
       /\ Total(due2, mine2) \in Int
  <2>1. CASE u = r.user
    <3>1. mine2 = mine \cup {r}
      BY <1>1, <2>1 DEF PlacedBy
    <3>2. \A q \in mine \cup {r} : due2[q] \in Int
      BY <1>1, <1>7, <1>10
    <3>3. Total(due2, mine \cup {r}) = Total(due2, mine) + due2[r]
      BY <1>10, <3>2, TotalAdd
    <3>4. due2[r] \in Int /\ Exposure(r) \in Int
      BY <1>7, HoldType
    <3>. HIDE DEF mine, mine2
    <3>. QED BY <1>9, <1>11, <1>12, <2>1, <3>1, <3>3, <3>4
  <2>2. CASE u # r.user
    <3>1. mine2 = mine
      BY <1>1, <2>2 DEF PlacedBy
    <3>. HIDE DEF mine, mine2
    <3>. QED BY <1>11, <1>12, <2>2, <3>1
  <2>. QED BY <2>1, <2>2
<1>14. /\ Outstanding(u) \in Int /\ Margin(u) \in Nat /\ Total(Losses, BetsOf(settledBets, u)) \in Int
       /\ Outstanding(u) - Margin(u) =
            Needing(Book, old, u) - Total(Losses, BetsOf(settledBets, u))
  BY NeedingTotal DEF Inv, NeedingOK, old
<1>15. /\ Outstanding(u)' \in Int /\ Margin(u)' \in Nat
       /\ Outstanding(u)' - Margin(u)' =
            Needing(Book', old \cup new, u) - Total(Losses, BetsOf(settledBets, u))
  <2>1. NeedingOK'
    BY <1>1, NeedingNext DEF Inv
  <2>2. /\ Outstanding(u)' \in Int /\ Margin(u)' \in Nat
        /\ Outstanding(u)' - Margin(u)' =
             Needing(Book', (bets \ settledBets)', u) - Total(Losses, BetsOf(settledBets', u))
    BY <2>1 DEF NeedingOK
  <2>. QED BY <1>5, <2>2
<1>16. Exposure(r) \in Int
  BY HoldType
<1>. QED BY <1>7, <1>12, <1>13, <1>14, <1>15, <1>16

\* Orders that are withdrawn and bets that are paid owe nothing any more.
LEMMA Resolved ==
  ASSUME Inv, FillInv, BetsOK, Inv',
         NEW rest, rest \subseteq {r \in Requests : orders[r].status \in OpenStatuses},
         NEW found, found \subseteq bets \ settledBets,
         \A r \in Requests :
           Book'[r] = IF r \in rest THEN [Book[r] EXCEPT !.status = "CANCELLED"] ELSE Book[r],
         bets' = bets, settledBets' = settledBets \cup found, NEW u \in Users
  PROVE  /\ BetsOK'
         /\ IsFiniteSet(OrdersOf(rest, u)) /\ IsFiniteSet(BetsOf(found, u))
         /\ Total(Resting(Book), OrdersOf(rest, u)) \in Nat
         /\ Total(Liabilities, BetsOf(found, u)) \in Int
         /\ Outstanding(u) \in Int
         /\ Outstanding(u)' = Outstanding(u) - Total(Resting(Book), OrdersOf(rest, u))
                                             - Total(Liabilities, BetsOf(found, u))
<1>. DEFINE old == bets \ settledBets
            orest == OrdersOf(rest, u)
            ofound == BetsOf(found, u)
<1>1. /\ Book \in Rows /\ Book' \in Rows
      /\ Outstanding(u) = Owing(Book, old, u)
      /\ Outstanding(u)' = Owing(Book', (bets \ settledBets)', u)
  BY OutstandingTotal, OutstandingNext DEF Inv, OutstandingOK
<1>2. \A r \in Requests :
        /\ Book'[r].matched = Book[r].matched
        /\ r \in rest => Book'[r].status = "CANCELLED" /\ Book[r].status \in OpenStatuses
        /\ r \notin rest => Book'[r].status = Book[r].status
  <2>1. \A r \in Requests : Book[r] \in [status : OrderStatuses, matched : Int]
    BY <1>1 DEF Rows
  <2>2. \A r \in rest : Book[r].status \in OpenStatuses
    BY DEF Book
  <2>. QED BY <2>1, <2>2
<1>3. Placed' = Placed
  <2>1. \A r \in Requests : orders[r].status = Book[r].status /\ orders'[r].status = Book'[r].status
    BY DEF Book
  <2>. QED BY <1>2, <2>1 DEF Placed, OpenStatuses
<1>4. BetsOK'
  <2>1. {r \in Requests : orders'[r].status # "ABSENT"} = {r \in Requests : orders[r].status # "ABSENT"}
    BY <1>3 DEF Placed
  <2>. QED BY <2>1 DEF BetsOK, Placed
<1>5. OpenOf(Book', u) = OpenOf(Book, u) \ orest /\ orest \subseteq OpenOf(Book, u)
  BY <1>2 DEF OpenOf, OrdersOf, OpenStatuses
<1>6. Resting(Book') = Resting(Book)
  BY <1>2 DEF Resting, RestExposure, Remaining
<1>7. BetsOf((bets \ settledBets)', u) = BetsOf(old, u) \ ofound /\ ofound \subseteq BetsOf(old, u)
  BY DEF BetsOf
<1>8. /\ IsFiniteSet(OpenOf(Book, u)) /\ IsFiniteSet(orest) /\ IsFiniteSet(OpenOf(Book, u) \ orest)
      /\ OpenOf(Book, u) \subseteq Requests
  <2>1. OpenOf(Book, u) \subseteq Placed /\ IsFiniteSet(Placed)
    BY DEF OpenOf, Placed, Book, OpenStatuses, BetsOK
  <2>2. orest \subseteq OpenOf(Book, u) /\ OpenOf(Book, u) \ orest \subseteq OpenOf(Book, u)
    BY <1>5
  <2>3. OpenOf(Book, u) \subseteq Requests
    BY DEF OpenOf
  <2>. HIDE DEF orest
  <2>. QED BY <2>1, <2>2, <2>3, FS_Subset
<1>9. /\ IsFiniteSet(BetsOf(old, u)) /\ IsFiniteSet(ofound) /\ IsFiniteSet(BetsOf(old, u) \ ofound)
      /\ BetsOf(old, u) \subseteq BetRecords
  <2>1. BetsOf(old, u) \subseteq bets /\ IsFiniteSet(bets) /\ bets \subseteq BetRecords
    BY DEF BetsOf, FillInv, Inv, TypeOK
  <2>2. ofound \subseteq BetsOf(old, u) /\ BetsOf(old, u) \ ofound \subseteq BetsOf(old, u)
    BY <1>7
  <2>. HIDE DEF ofound, old
  <2>. QED BY <2>1, <2>2, FS_Subset
<1>10. \A r \in Requests : Resting(Book)[r] \in Int
  BY <1>1, RestInt
<1>11. \A b \in BetRecords : Liabilities[b] \in Int
  BY PaymentFrees DEF Liabilities
<1>12. \A r \in orest : Resting(Book)[r] \in Nat
  <2>. SUFFICES ASSUME NEW r \in orest PROVE Resting(Book)[r] \in Nat
    OBVIOUS
  <2>1. r \in Requests
    BY <1>5, <1>8
  <2>2. orders[r] \in OrderRows /\ orders[r].matched <= r.stake
    BY <2>1 DEF Inv, TypeOK, TablesOK, RowsCoherent, Coherent
  <2>3. RestExposure(r, orders[r]) >= 0
    BY <2>1, <2>2, RestNonNegative
  <2>4. Resting(Book)[r] = RestExposure(r, orders[r])
    BY <2>1 DEF Resting, Book, RestExposure, Remaining
  <2>. QED BY <1>10, <2>1, <2>3, <2>4
<1>. DEFINE open == OpenOf(Book, u)
            mine == BetsOf(old, u)
<1>. HIDE DEF open, mine, orest, ofound, old
<1>13. Total(Resting(Book), open) = Total(Resting(Book), open \ orest) + Total(Resting(Book), orest)
  <2>1. (open \ orest) \cup orest = open /\ (open \ orest) \cap orest = {}
    BY <1>5 DEF open
  <2>2. \A r \in (open \ orest) \cup orest : Resting(Book)[r] \in Int
    BY <1>8, <1>10, <2>1 DEF open
  <2>3. Total(Resting(Book), (open \ orest) \cup orest)
          = Total(Resting(Book), open \ orest) + Total(Resting(Book), orest)
    BY <1>8, <2>1, <2>2, TotalUnion DEF open
  <2>. QED BY <2>1, <2>3
<1>14. Total(Liabilities, mine) = Total(Liabilities, mine \ ofound) + Total(Liabilities, ofound)
  <2>1. (mine \ ofound) \cup ofound = mine /\ (mine \ ofound) \cap ofound = {}
    BY <1>7 DEF mine
  <2>2. \A b \in (mine \ ofound) \cup ofound : Liabilities[b] \in Int
    BY <1>9, <1>11, <2>1 DEF mine
  <2>3. Total(Liabilities, (mine \ ofound) \cup ofound)
          = Total(Liabilities, mine \ ofound) + Total(Liabilities, ofound)
    BY <1>9, <2>1, <2>2, TotalUnion DEF mine
  <2>. QED BY <2>1, <2>3
<1>15. Total(Resting(Book), orest) \in Nat
  BY <1>8, <1>12, TotalNat
<1>16. Total(Resting(Book), open \ orest) \in Int
  <2>1. \A r \in open \ orest : Resting(Book)[r] \in Int
    BY <1>8, <1>10 DEF open
  <2>. QED BY <1>8, <2>1, TotalInt DEF open
<1>17. Total(Liabilities, ofound) \in Int /\ Total(Liabilities, mine \ ofound) \in Int
  <2>1. /\ \A b \in ofound : Liabilities[b] \in Int
        /\ \A b \in mine \ ofound : Liabilities[b] \in Int
    BY <1>7, <1>9, <1>11 DEF mine
  <2>. QED BY <1>9, <2>1, TotalInt DEF mine
<1>18. /\ Outstanding(u) = Total(Resting(Book), open) + Total(Liabilities, mine)
       /\ Outstanding(u)' = Total(Resting(Book), open \ orest) + Total(Liabilities, mine \ ofound)
  BY <1>1, <1>5, <1>6, <1>7 DEF Owing, open, mine
<1>19. Outstanding(u)' = Outstanding(u) - Total(Resting(Book), orest) - Total(Liabilities, ofound)
       /\ Outstanding(u) \in Int
  BY <1>13, <1>14, <1>15, <1>16, <1>17, <1>18
<1>. QED BY <1>4, <1>8, <1>9, <1>15, <1>17, <1>19 DEF orest, ofound

\* Payments of bets free what the bets owed, and take no more than that.
LEMMA PaymentsFree ==
  ASSUME NEW winner, NEW F, F \subseteq BetRecords, IsFiniteSet(F), \A b \in F : b.stake > 0
  PROVE  /\ Unheld(F, winner) = - Total(Liabilities, F)
         /\ Total(Liabilities, F) \in Int /\ PaidOut(F, winner) \in Int
         /\ PaidOut(F, winner) >= Unheld(F, winner)
<1>. DEFINE zero == [b \in BetRecords |-> 0]
            gain == [b \in BetRecords |-> Payment(b, winner).balance - Payment(b, winner).reserved]
<1>1. \A b \in F :
        /\ Unholding(winner)[b] = - Liabilities[b] /\ Liabilities[b] \in Int
        /\ Unholding(winner)[b] \in Int /\ Paying(winner)[b] \in Int
        /\ gain[b] = Paying(winner)[b] - Unholding(winner)[b] /\ gain[b] \in Nat
        /\ zero[b] = 0
  <2>. SUFFICES ASSUME NEW b \in F
       PROVE  /\ Unholding(winner)[b] = - Liabilities[b] /\ Liabilities[b] \in Int
              /\ Unholding(winner)[b] \in Int /\ Paying(winner)[b] \in Int
              /\ gain[b] = Paying(winner)[b] - Unholding(winner)[b] /\ gain[b] \in Nat
              /\ zero[b] = 0
    OBVIOUS
  <2>1. /\ Unholding(winner)[b] = Payment(b, winner).reserved
        /\ Paying(winner)[b] = Payment(b, winner).balance
        /\ Liabilities[b] = BetLiability(b)
        /\ gain[b] = Payment(b, winner).balance - Payment(b, winner).reserved
        /\ zero[b] = 0
    BY DEF Unholding, Paying, Liabilities
  <2>2. Payment(b, winner).balance \in Int /\ Payment(b, winner).reserved \in Int
    BY PaymentType
  <2>3. /\ Payment(b, winner).reserved = - BetLiability(b) /\ BetLiability(b) \in Int
        /\ Payment(b, winner).balance - Payment(b, winner).reserved >= 0
    BY PaymentFrees
  <2>. HIDE DEF gain, zero
  <2>. QED BY <2>1, <2>2, <2>3
<1>. HIDE DEF gain, zero
<1>2. /\ Total(Unholding(winner), F) \in Int /\ Total(Paying(winner), F) \in Int
      /\ Total(Liabilities, F) \in Int /\ Total(gain, F) \in Nat
  BY <1>1, TotalInt, TotalNat
<1>3. Total(zero, F) = Total(Unholding(winner), F) + Total(Liabilities, F)
  <2>1. \A b \in F : /\ Unholding(winner)[b] \in Int /\ Liabilities[b] \in Int
                     /\ zero[b] = Unholding(winner)[b] + Liabilities[b]
    BY <1>1
  <2>. QED BY <2>1, TotalPlus
<1>4. Total(Paying(winner), F) = Total(gain, F) + Total(Unholding(winner), F)
  <2>1. \A b \in F : /\ gain[b] \in Int /\ Unholding(winner)[b] \in Int
                     /\ Paying(winner)[b] = gain[b] + Unholding(winner)[b]
    BY <1>1
  <2>. QED BY <2>1, TotalPlus
<1>5. Total(zero, F) = 0
  BY <1>1, TotalZero
<1>6. Unheld(F, winner) = Total(Unholding(winner), F) /\ PaidOut(F, winner) = Total(Paying(winner), F)
  BY UnheldTotal, PaidTotal
<1>. QED BY <1>2, <1>3, <1>4, <1>5, <1>6

\* Cancelling keeps reservations covered, and wallets solvent.
LEMMA CancelReserves ==
  ASSUME Inv, FillInv, BetsOK, Solvent, Inv', NEW r \in Requests, Contract!Cancel(r)
  PROVE  BetsOK' /\ Solvent' /\ (Covered => Covered')
<1>. DEFINE amount == RestExposure(r, orders[r])
<1>1. /\ orders[r].status \in OpenStatuses
      /\ Book' = [Book EXCEPT ![r].status = "CANCELLED"]
      /\ wallets' = [wallets EXCEPT ![r.user].reserved = @ - amount]
      /\ bets' = bets /\ settledBets' = settledBets
  BY BookRows DEF Contract!Cancel, Book
<1>2. \A q \in Requests :
        Book'[q] = IF q \in {r} THEN [Book[q] EXCEPT !.status = "CANCELLED"] ELSE Book[q]
  BY <1>1 DEF Book
<1>3. ASSUME NEW u \in Users
      PROVE  /\ BetsOK'
             /\ Total(Resting(Book), OrdersOf({r}, u)) \in Nat
             /\ Outstanding(u) \in Int
             /\ Outstanding(u)' = Outstanding(u) - Total(Resting(Book), OrdersOf({r}, u))
  <2>1. PICK rest, found : rest = {r} /\ found = {}
    OBVIOUS
  <2>2. /\ rest \subseteq {q \in Requests : orders[q].status \in OpenStatuses}
        /\ found \subseteq bets \ settledBets
        /\ settledBets' = settledBets \cup found
    BY <1>1, <2>1
  <2>3. \A q \in Requests :
          Book'[q] = IF q \in rest THEN [Book[q] EXCEPT !.status = "CANCELLED"] ELSE Book[q]
    BY <1>2, <2>1
  <2>4. /\ BetsOK'
        /\ Total(Resting(Book), OrdersOf(rest, u)) \in Nat /\ Outstanding(u) \in Int
        /\ Outstanding(u)' = Outstanding(u) - Total(Resting(Book), OrdersOf(rest, u))
                                            - Total(Liabilities, BetsOf(found, u))
    BY <1>1, <2>2, <2>3, Resolved
  <2>5. Total(Liabilities, BetsOf(found, u)) = 0
    <3>1. BetsOf(found, u) = {}
      BY <2>1 DEF BetsOf
    <3>. QED BY <3>1, TotalEmpty
  <2>. QED BY <2>1, <2>4, <2>5
<1>4. ASSUME NEW u \in Users
      PROVE  /\ wallets'[u].balance = wallets[u].balance
             /\ wallets'[u].reserved = wallets[u].reserved - Total(Resting(Book), OrdersOf({r}, u))
             /\ wallets[u].balance \in Int /\ wallets[u].reserved \in Int
  <2>1. wallets \in [Users -> WalletRows]
    BY DEF Inv, TypeOK
  <2>2. CASE u = r.user
    <3>1. OrdersOf({r}, u) = {r}
      BY <2>2 DEF OrdersOf
    <3>2. Resting(Book)[r] = amount /\ amount \in Int
      <4>1. orders[r] \in OrderRows
        BY DEF Inv, TypeOK
      <4>2. Resting(Book)[r] = amount
        BY DEF Resting, Book, RestExposure, Remaining
      <4>. QED BY <4>1, <4>2, RestType
    <3>3. Total(Resting(Book), {r}) = amount
      BY <3>2, TotalOne
    <3>. HIDE DEF amount
    <3>. QED BY <1>1, <2>1, <2>2, <3>1, <3>3 DEF WalletRows
  <2>3. CASE u # r.user
    <3>1. OrdersOf({r}, u) = {}
      BY <2>3 DEF OrdersOf
    <3>2. Total(Resting(Book), OrdersOf({r}, u)) = 0
      BY <3>1, TotalEmpty
    <3>. HIDE DEF amount
    <3>. QED BY <1>1, <2>1, <2>3, <3>2 DEF WalletRows
  <2>. QED BY <2>2, <2>3
<1>5. r.user \in Users
  BY RequestType
<1>6. ASSUME NEW u \in Users
      PROVE  wallets'[u].balance >= wallets'[u].reserved
  BY <1>3, <1>4 DEF Solvent
<1>7. ASSUME Covered, NEW u \in Users
      PROVE  wallets'[u].reserved + Margin(u)' >= Outstanding(u)'
  <2>1. wallets[u].reserved + Margin(u) >= Outstanding(u)
    BY <1>7 DEF Covered
  <2>2. PICK now, next, less, margin :
          /\ now = Outstanding(u) /\ next = Outstanding(u)' /\ margin = Margin(u)
          /\ less = Total(Resting(Book), OrdersOf({r}, u))
    OBVIOUS
  <2>3. /\ less \in Nat /\ now \in Int /\ next = now - less /\ wallets[u].reserved + margin >= now
        /\ wallets'[u].reserved = wallets[u].reserved - less /\ wallets[u].reserved \in Int
        /\ margin \in Nat /\ Margin(u)' = margin
    BY <1>1, <1>3, <1>4, <2>1, <2>2, NeedingTotal DEF Inv, NeedingOK, Margin
  <2>4. wallets'[u].reserved + Margin(u)' >= next
    BY <2>3
  <2>. QED BY <2>2, <2>4
<1>. QED BY <1>3, <1>5, <1>6, <1>7 DEF Solvent, Covered

\* So does a settlement.
LEMMA SettleReserves ==
  ASSUME Inv, FillInv, BetsOK, Solvent, Inv', NEW winner, Contract!Settle(winner)
  PROVE  BetsOK' /\ Solvent' /\ (Covered => Covered')
<1>1. PICK found \in SUBSET (bets \ settledBets), rest \in SUBSET {r \in Requests : Contract!Resting(r)} :
        /\ settledBets' = settledBets \cup found
        /\ Book' = [r \in Requests |->
                      IF r \in rest THEN [Book[r] EXCEPT !.status = "CANCELLED"] ELSE Book[r]]
        /\ wallets' = [u \in Users |->
             [balance |-> wallets[u].balance
                            + Contract!Payout({b \in found : Contract!OrderOf(b).user = u}, winner),
              reserved |-> wallets[u].reserved
                            + Contract!Unheld({b \in found : Contract!OrderOf(b).user = u}, winner)
                            - Contract!RestReleased({r \in rest : r.user = u})]]
        /\ bets' = bets
  BY DEF Contract!Settle, Book
<1>2. rest \subseteq {r \in Requests : orders[r].status \in OpenStatuses}
  BY BookRows
<1>3. \A r \in Requests :
        Book'[r] = IF r \in rest THEN [Book[r] EXCEPT !.status = "CANCELLED"] ELSE Book[r]
  BY <1>1
<1>4. bets' = bets /\ settledBets' = settledBets \cup found
  BY <1>1
<1>5. ASSUME NEW u \in Users
      PROVE  /\ BetsOK'
             /\ wallets'[u].balance >= wallets'[u].reserved
             /\ Covered => wallets'[u].reserved + Margin(u)' >= Outstanding(u)'
  <2>. DEFINE orest == OrdersOf(rest, u)
              ofound == BetsOf(found, u)
  <2>1. /\ BetsOK'
        /\ IsFiniteSet(orest) /\ IsFiniteSet(ofound)
        /\ Total(Resting(Book), orest) \in Nat /\ Total(Liabilities, ofound) \in Int
        /\ Outstanding(u) \in Int
        /\ Outstanding(u)' = Outstanding(u) - Total(Resting(Book), orest) - Total(Liabilities, ofound)
    BY <1>2, <1>3, <1>4, Resolved
  <2>2. /\ {b \in found : Contract!OrderOf(b).user = u} = ofound
        /\ {r \in rest : r.user = u} = orest
    BY SamePaid DEF BetsOf, OrdersOf
  <2>3. /\ ofound \subseteq BetRecords /\ orest \subseteq Requests
        /\ \A b \in ofound : b.stake > 0
    BY <1>2 DEF BetsOf, OrdersOf, Inv, TypeOK, BetsOK
  <2>. HIDE DEF orest, ofound
  <2>4. /\ Contract!Payout(ofound, winner) = PaidOut(ofound, winner)
        /\ Contract!Unheld(ofound, winner) = Unheld(ofound, winner)
        /\ Contract!RestReleased(orest) = RestReleased(orders, orest)
    BY <2>3, ContractPaid, ContractUnheld, ContractRests
  <2>5. RestReleased(orders, orest) = Total(Resting(Book), orest)
    <3>1. Resting(Book) = Resting(orders)
      BY DEF Resting, Book, RestExposure, Remaining
    <3>. QED BY <2>3, <3>1, RestTotal
  <2>6. /\ Unheld(ofound, winner) = - Total(Liabilities, ofound)
        /\ PaidOut(ofound, winner) \in Int /\ PaidOut(ofound, winner) >= Unheld(ofound, winner)
    BY <2>1, <2>3, PaymentsFree
  <2>7. /\ wallets'[u].balance = wallets[u].balance + PaidOut(ofound, winner)
        /\ wallets'[u].reserved = wallets[u].reserved + Unheld(ofound, winner)
                                                      - Total(Resting(Book), orest)
    BY <1>1, <2>2, <2>4, <2>5
  <2>8. wallets[u].balance \in Int /\ wallets[u].reserved \in Int
    BY DEF Inv, TypeOK, WalletRows
  <2>9. wallets'[u].balance >= wallets'[u].reserved
    BY <2>1, <2>6, <2>7, <2>8 DEF Solvent
  <2>10. Covered => wallets'[u].reserved + Margin(u)' >= Outstanding(u)'
    <3>1. Margin(u)' = Margin(u) /\ Margin(u) \in Nat
      BY <1>4, NeedingTotal DEF Inv, NeedingOK, Margin
    <3>. QED BY <2>1, <2>6, <2>7, <2>8, <3>1 DEF Covered
  <2>. QED BY <2>1, <2>9, <2>10
<1>6. BetsOK'
  <2>1. PICK r \in Requests : TRUE
    BY RequestsAssumption
  <2>2. r.user \in Users
    BY RequestType
  <2>. QED BY <1>5, <2>2
<1>. QED BY <1>5, <1>6 DEF Solvent, Covered

\* A placement reserves the exposure of the new order, if that is available.
LEMMA PlaceReserves ==
  ASSUME Inv, FillInv, BetsOK, Solvent, Inv', FillInv', NEW r \in Requests, Contract!Place(r)
  PROVE  BetsOK' /\ Solvent' /\ (Covered => Covered')
<1>1. /\ r \notin Placed /\ settledBets' = settledBets
      /\ Exposure(r) <= wallets[r.user].balance - wallets[r.user].reserved
      /\ wallets' = [wallets EXCEPT ![r.user].reserved = @ + Exposure(r)]
  BY PlaceEffect
<1>2. PICK made, size, total : Trades(r, made, size, total)
  BY PlaceEffect
<1>3. BetsOK'
  BY <1>1, <1>2, TradesPlaced
<1>4. wallets \in [Users -> WalletRows] /\ Exposure(r) \in Int /\ r.user \in Users
  BY HoldType, RequestType DEF Inv, TypeOK
<1>5. ASSUME NEW u \in Users
      PROVE  /\ wallets[u].balance \in Int /\ wallets[u].reserved \in Int
             /\ wallets'[u].balance = wallets[u].balance
             /\ wallets'[u].reserved = wallets[u].reserved + (IF u = r.user THEN Exposure(r) ELSE 0)
  BY <1>1, <1>4 DEF WalletRows
<1>6. ASSUME NEW u \in Users PROVE wallets'[u].balance >= wallets'[u].reserved
  BY <1>1, <1>4, <1>5 DEF Solvent
<1>7. ASSUME Covered, NEW u \in Users PROVE wallets'[u].reserved + Margin(u)' >= Outstanding(u)'
  <2>1. /\ Outstanding(u)' - Margin(u)' <=
             Outstanding(u) - Margin(u) + (IF u = r.user THEN Exposure(r) ELSE 0)
        /\ Outstanding(u) \in Int /\ Outstanding(u)' \in Int
        /\ Margin(u) \in Nat /\ Margin(u)' \in Nat
    BY <1>1, <1>2, PlaceOwes
  <2>2. wallets[u].reserved + Margin(u) >= Outstanding(u)
    BY <1>7 DEF Covered
  <2>3. PICK more \in Int : more = IF u = r.user THEN Exposure(r) ELSE 0
    BY <1>4
  <2>4. PICK now, next, margin, margin2 :
          /\ now = Outstanding(u) /\ next = Outstanding(u)'
          /\ margin = Margin(u) /\ margin2 = Margin(u)'
    OBVIOUS
  <2>5. /\ now \in Int /\ next \in Int /\ margin \in Nat /\ margin2 \in Nat
        /\ next - margin2 <= now - margin + more /\ wallets[u].reserved + margin >= now
    BY <2>1, <2>2, <2>3, <2>4
  <2>6. wallets'[u].reserved = wallets[u].reserved + more /\ wallets[u].reserved \in Int
    BY <1>5, <2>3
  <2>7. wallets'[u].reserved + margin2 >= next
    BY <2>5, <2>6
  <2>. QED BY <2>4, <2>7
<1>. QED BY <1>3, <1>6, <1>7 DEF Solvent, Covered

\* Every step keeps wallets solvent and, but for rounding, reservations covered.
LEMMA ReserveStep ==
  ASSUME Inv, FillInv, BetsOK, Solvent, Inv', FillInv', [Contract!Next]_(Contract!vars)
  PROVE  BetsOK' /\ Solvent' /\ (Covered => Covered')
<1>1. CASE UNCHANGED Contract!vars
  <2>1. Book' = Book /\ UNCHANGED <<bets, settledBets, wallets>>
    BY <1>1 DEF Contract!vars, Book
  <2>2. Placed' = Placed
    <3>1. \A r \in Requests : orders[r].status = Book[r].status /\ orders'[r].status = Book'[r].status
      BY DEF Book
    <3>. QED BY <2>1, <3>1 DEF Placed
  <2>3. BetsOK'
    <3>1. {r \in Requests : orders'[r].status # "ABSENT"} = {r \in Requests : orders[r].status # "ABSENT"}
      BY <2>2 DEF Placed
    <3>. QED BY <2>1, <3>1 DEF BetsOK, Placed
  <2>4. \A u \in Users : Outstanding(u)' = Outstanding(u) /\ Margin(u)' = Margin(u)
    BY <2>1, OutstandingTotal, OutstandingNext DEF Inv, OutstandingOK, Margin
  <2>. QED BY <2>1, <2>3, <2>4 DEF Solvent, Covered
<1>2. CASE \E r \in Requests : Contract!Place(r)
  BY <1>2, PlaceReserves
<1>3. CASE \E r \in Requests : Contract!Cancel(r)
  BY <1>3, CancelReserves
<1>4. CASE \E winner \in Winners : Contract!Settle(winner)
  BY <1>4, SettleReserves
<1>. QED BY <1>1, <1>2, <1>3, <1>4 DEF Contract!Next

\* Initially nothing is reserved and nothing is outstanding.
LEMMA InitReserves == Init => BetsOK /\ Solvent /\ Covered
<1>. SUFFICES ASSUME Init PROVE BetsOK /\ Solvent /\ Covered
  OBVIOUS
<1>1. BetsOK
  <2>1. {r \in Requests : orders[r].status # "ABSENT"} = {}
    BY DEF Init, NoRow
  <2>. QED BY <2>1, FS_EmptySet DEF BetsOK, Placed, Init
<1>2. Solvent
  BY NumbersAssumption DEF Solvent, Init
<1>3. ASSUME NEW u \in Users PROVE wallets[u].reserved + Margin(u) >= Outstanding(u)
  <2>1. OpenOf(Book, u) = {} /\ BetsOf(bets \ settledBets, u) = {}
    BY DEF OpenOf, Book, Init, NoRow, OpenStatuses, BetsOf
  <2>2. Outstanding(u) = Owing(Book, bets \ settledBets, u)
    BY InitInv, OutstandingTotal DEF Inv, OutstandingOK
  <2>3. Outstanding(u) = 0 + 0
    BY <2>1, <2>2, TotalEmpty DEF Owing
  <2>4. wallets[u].reserved = 0 /\ Margin(u) = 0
    <3>1. BetsOf(bets, u) = {}
      BY DEF Init, BetsOf
    <3>. QED BY <3>1, TotalEmpty DEF Init, Margin
  <2>. QED BY <2>3, <2>4
<1>. QED BY <1>1, <1>2, <1>3 DEF Covered

\* The margin is one minor unit for each lay bet at most, and nothing at whole odds.
LEMMA MarginSmall ==
  ASSUME TypeOK, FillInv, NEW u \in Users
  PROVE  /\ Margin(u) \in Nat
         /\ Cardinality(LayBetsOf(u)) \in Nat
         /\ Margin(u) <= Cardinality(LayBetsOf(u))
         /\ WholeOdds => Margin(u) = 0
<1>. DEFINE mine == BetsOf(bets, u)
            lay == LayBetsOf(u)
<1>1. /\ IsFiniteSet(mine) /\ IsFiniteSet(lay) /\ IsFiniteSet(mine \ lay)
      /\ mine \subseteq BetRecords /\ lay \subseteq mine
  <2>1. IsFiniteSet(bets) /\ bets \subseteq BetRecords
    BY DEF FillInv, TypeOK
  <2>2. mine \subseteq bets /\ lay \subseteq mine /\ mine \ lay \subseteq mine
    BY DEF BetsOf, LayBetsOf
  <2>. HIDE DEF mine, lay
  <2>3. IsFiniteSet(mine)
    BY <2>1, <2>2, FS_Subset
  <2>. QED BY <2>1, <2>2, <2>3, FS_Subset
<1>2. \A b \in mine : Losses[b] = (IF b \in lay THEN Loss ELSE 0) /\ Losses[b] \in Nat
  BY <1>1, CoverInt DEF BetsOf, LayBetsOf, LossOf
<1>. HIDE DEF mine, lay
<1>3. mine = lay \cup (mine \ lay) /\ lay \cap (mine \ lay) = {}
  BY <1>1
<1>4. Total(Losses, mine) = Total(Losses, lay) + Total(Losses, mine \ lay)
  <2>1. \A b \in lay \cup (mine \ lay) : Losses[b] \in Int
    BY <1>2, <1>3
  <2>2. Total(Losses, lay \cup (mine \ lay)) = Total(Losses, lay) + Total(Losses, mine \ lay)
    BY <1>1, <1>3, <2>1, TotalUnion
  <2>. QED BY <1>3, <2>2
<1>5. Total(Losses, mine \ lay) = 0
  BY <1>1, <1>2, TotalZero
\* Every lay bet is a group of its own, with the same loss.
<1>6. Total(Losses, lay) = Loss * Cardinality(lay)
  <2>. DEFINE nothing == [b \in lay |-> 0]
              none == [b \in lay |-> {}]
  <2>1. \A b \in lay : Losses[b] = Loss + Total(nothing, none[b])
    <3>1. \A b \in lay : Losses[b] = Loss + 0 /\ none[b] = {}
      BY <1>1, <1>2, LossSmall
    <3>. HIDE DEF nothing, none
    <3>. QED BY <3>1, TotalEmpty
  <2>2. IsFiniteSet({}) /\ \A b \in lay : none[b] \subseteq {}
    BY FS_EmptySet
  <2>3. \A b \in lay : \A y \in {} : y \in none[b] <=> nothing[y] = b
    OBVIOUS
  <2>. HIDE DEF nothing, none
  <2>4. Loss \in Int
    BY LossSmall
  <2>5. Total(Losses, lay) = Loss * Cardinality(lay) + Total(nothing, {})
    BY <1>1, <2>1, <2>2, <2>3, <2>4, TotalGrouped
  <2>6. Cardinality(lay) \in Nat
    BY <1>1, FS_CardinalityType
  <2>. QED BY <2>4, <2>5, <2>6, LossSmall, TotalEmpty
<1>7. Cardinality(lay) \in Nat
  BY <1>1, FS_CardinalityType
<1>8. Margin(u) = Loss * Cardinality(lay)
  <2>1. Loss * Cardinality(lay) \in Int
    BY <1>7, LossSmall
  <2>. QED BY <1>4, <1>5, <1>6, <2>1 DEF Margin, mine
<1>. QED BY <1>7, <1>8, LossSmall DEF lay, Loss

\* Wallets are solvent and reservations covered but for rounding, after any number of
\* concurrent placements, cancels and settlements.
LEMMA ReserveInvariant == Spec => [](Inv /\ FillInv /\ ReserveInv)
<1>1. Init => WalletInv /\ FillInv /\ PayoutInv /\ PurposeInv /\ ReserveInv
  BY InitWallets, InitFills, InitPayouts, InitPurpose, InitReserves DEF ReserveInv
<1>2. Inv /\ LedgerInv /\ WalletInv /\ FillInv /\ PayoutInv /\ PurposeInv /\ [Next]_vars
        => WalletInv' /\ FillInv' /\ PayoutInv' /\ PurposeInv'
  BY WalletStep, FillStep, PayoutStep, PurposeStep
<1>3. Inv /\ FillInv /\ ReserveInv /\ Inv' /\ FillInv' /\ [Contract!Next]_(Contract!vars)
        => ReserveInv'
  BY ReserveStep DEF ReserveInv
<1>. QED BY <1>1, <1>2, <1>3, ContractStep, Invariant, LedgerInvariant, PTL DEF Spec

\* At any odds the reservation of a user covers all that the user may still lose but
\* for one minor unit for each bet laid, and no wallet is overdrawn, however requests
\* interleave (WalletService.reserve, _liability_minor).
THEOREM ReservationsCover == Spec => []CoveredButForRounding
<1>1. Inv /\ FillInv /\ ReserveInv => CoveredButForRounding
  <2>. SUFFICES ASSUME Inv, FillInv, ReserveInv, NEW u \in Users
       PROVE  /\ wallets[u].reserved + Cardinality(LayBetsOf(u)) >= Outstanding(u)
              /\ wallets[u].balance >= wallets[u].reserved
    BY DEF CoveredButForRounding
  <2>1. /\ Margin(u) \in Nat /\ Cardinality(LayBetsOf(u)) \in Nat
        /\ Margin(u) <= Cardinality(LayBetsOf(u))
    BY MarginSmall DEF Inv
  <2>2. Outstanding(u) \in Int /\ wallets[u].reserved \in Int
    BY NeedingTotal DEF NeedingOK, ReserveInv, Inv, TypeOK, WalletRows
  <2>. QED BY <2>1, <2>2 DEF ReserveInv, Covered, Solvent
<1>. QED BY <1>1, ReserveInvariant, PTL

\* At whole odds it covers all of it ("here we simply over-reserve, which is safe",
\* matching_service.py).
THEOREM OverReserved == WholeOdds => (Spec => []OverReserveIsSafe)
<1>. SUFFICES ASSUME WholeOdds PROVE Spec => []OverReserveIsSafe
  OBVIOUS
<1>1. Inv /\ FillInv /\ ReserveInv => OverReserveIsSafe
  <2>. SUFFICES ASSUME Inv, FillInv, ReserveInv, NEW u \in Users
       PROVE  wallets[u].reserved >= Outstanding(u) /\ wallets[u].balance >= wallets[u].reserved
    BY DEF OverReserveIsSafe
  <2>1. Margin(u) = 0
    BY MarginSmall DEF Inv
  <2>2. Outstanding(u) \in Int /\ wallets[u].reserved \in Int
    BY NeedingTotal DEF NeedingOK, ReserveInv, Inv, TypeOK, WalletRows
  <2>. QED BY <2>1, <2>2 DEF ReserveInv, Covered, Solvent
<1>. QED BY <1>1, ReserveInvariant, PTL

-----------------------------------------------------------------------------
(* The order book as displayed                                              *)

\* What the resting orders leave open.
Offers == [m \in Requests |-> Remaining(m, orders[m])]

\* The resting orders that r may trade with.
Met(r) == {m \in Matchable(r) : Crosses(r.side, r.price, m.price)}

\* What is displayed at a price is the total of what is open at it,
LEMMA OfferedTotal ==
  ASSUME NEW resting, resting \subseteq Requests, NEW price
  PROVE  Offered(resting, price) = Total(Offers, {m \in resting : m.price = price})
<1>. DEFINE S == {m \in resting : m.price = price}
<1>1. \A s \in SUBSET S : s # {} => Offers[Pick(s)] = Remaining(Pick(s), orders[Pick(s)])
  BY PickIn DEF Offers
<1>2. Offered(resting, price) = MapThenSumSet(LAMBDA m : Remaining(m, orders[m]), S)
  BY DEF Offered
<1>. HIDE DEF S
<1>3. \A iter : Unfolds(Offers, S, iter) <=>
        iter = [s \in SUBSET S |-> IF s = {} THEN 0
                                  ELSE Remaining(Pick(s), orders[Pick(s)]) + iter[s \ {Pick(s)}]]
  BY <1>1 DEF Unfolds
<1>4. (CHOOSE iter : Unfolds(Offers, S, iter)) =
        CHOOSE iter :
          iter = [s \in SUBSET S |-> IF s = {} THEN 0
                                    ELSE Remaining(Pick(s), orders[Pick(s)]) + iter[s \ {Pick(s)}]]
  BY <1>3
<1>5. Total(Offers, S) = (CHOOSE iter : Unfolds(Offers, S, iter))[S]
  BY TotalIs
<1>6. MapThenSumSet(LAMBDA m : Remaining(m, orders[m]), S) = Total(Offers, S)
  BY <1>4, <1>5 DEF MapThenSumSet, MapThenFoldSet, Pick
<1>. QED BY <1>2, <1>6 DEF S

\* and levels add up.
LEMMA LevelTotal ==
  ASSUME NEW S
  PROVE  MapThenSumSet(LAMBDA l : l.available, S) = Total([l \in S |-> l.available], S)
<1>. DEFINE f == [l \in S |-> l.available]
<1>1. \A s \in SUBSET S : s # {} => f[Pick(s)] = Pick(s).available
  BY PickIn
<1>. HIDE DEF f
<1>2. \A iter : Unfolds(f, S, iter) <=>
        iter = [s \in SUBSET S |-> IF s = {} THEN 0 ELSE Pick(s).available + iter[s \ {Pick(s)}]]
  BY <1>1 DEF Unfolds
<1>3. (CHOOSE iter : Unfolds(f, S, iter)) =
        CHOOSE iter :
          iter = [s \in SUBSET S |-> IF s = {} THEN 0 ELSE Pick(s).available + iter[s \ {Pick(s)}]]
  BY <1>2
<1>4. Total(f, S) = (CHOOSE iter : Unfolds(f, S, iter))[S]
  BY TotalIs
<1>5. MapThenSumSet(LAMBDA l : l.available, S) = Total(f, S)
  BY <1>3, <1>4 DEF MapThenSumSet, MapThenFoldSet, Pick
<1>. QED BY <1>5 DEF f

\* Open orders leave something open, and there are finitely many of them.
LEMMA MetFinite ==
  ASSUME Inv, IsFiniteSet(Placed), NEW r \in Requests
  PROVE  /\ IsFiniteSet(Met(r)) /\ Met(r) \subseteq Requests
         /\ \A m \in Met(r) : Offers[m] \in Nat
<1>1. Met(r) \subseteq Placed /\ Met(r) \subseteq Requests
  BY DEF Met, Matchable, Placed, OpenStatuses
<1>2. ASSUME NEW m \in Met(r) PROVE Offers[m] \in Nat
  <2>1. m \in Requests /\ m.stake \in Nat /\ orders[m].matched \in Int /\ orders[m].matched <= m.stake
    BY <1>1, RequestType DEF Inv, TypeOK, TablesOK, OrderRows, RowsCoherent, Coherent
  <2>. QED BY <2>1 DEF Offers, Remaining
<1>. QED BY <1>1, <1>2, FS_Subset

\* What is displayed to one who wants to bet at a price is the total of the orders
\* that may be traded with at it.
LEMMA ShownTotal ==
  ASSUME Inv, IsFiniteSet(Placed), NEW r \in Requests
  PROVE  MapThenSumSet(LAMBDA l : l.available,
                       {l \in Levels(r.selection, r.side) : Crosses(r.side, r.price, l.price)})
           = Total(Offers, Met(r))
<1>. DEFINE resting == Matchable(r)
            level(price) == [price |-> price, available |-> Offered(resting, price)]
            U == {l \in Levels(r.selection, r.side) : Crosses(r.side, r.price, l.price)}
            S == Met(r)
            owner == [m \in S |-> level(m.price)]
            part == [l \in U |-> {m \in S : m.price = l.price}]
            g == [l \in U |-> l.available]
<1>1. Levels(r.selection, r.side) = {level(price) : price \in {m.price : m \in resting}}
  BY DEF Levels, DisplayedFrom, Matchable
<1>2. resting \subseteq Requests
  BY DEF Matchable
<1>. HIDE DEF resting
<1>3. S = {m \in resting : Crosses(r.side, r.price, m.price)}
  BY DEF Met, resting
<1>4. /\ IsFiniteSet(S) /\ S \subseteq Requests /\ \A m \in S : Offers[m] \in Int
  BY MetFinite
<1>. HIDE DEF S
<1>5. /\ \A p : level(p).price = p /\ level(p).available = Offered(resting, p)
  OBVIOUS
<1>. HIDE DEF level
<1>6. /\ \A l \in U : l = level(l.price) /\ Crosses(r.side, r.price, l.price)
      /\ \A m \in S : level(m.price) \in U
  BY <1>1, <1>3, <1>5
<1>7. IsFiniteSet(U)
  <2>1. ASSUME NEW l \in U PROVE \E m \in S : owner[m] = l
    <3>1. PICK m \in resting : l = level(m.price)
      BY <1>1
    <3>. QED BY <1>3, <1>5, <1>6, <3>1
  <2>. HIDE DEF U
  <2>2. owner \in Surjection(S, U)
    BY <1>6, <2>1 DEF Surjection
  <2>. QED BY <1>4, <2>2, FS_Surjection
<1>. HIDE DEF U
<1>8. \A m \in S : owner[m] \in U
  BY <1>6
<1>9. \A l \in U : part[l] \subseteq S /\ \A m \in S : m \in part[l] <=> owner[m] = l
  BY <1>5, <1>6
<1>10. \A l \in U : g[l] = 0 + Total(Offers, part[l])
  <2>. SUFFICES ASSUME NEW l \in U PROVE g[l] = 0 + Total(Offers, part[l])
    OBVIOUS
  <2>1. g[l] = Offered(resting, l.price)
    BY <1>5, <1>6
  <2>2. Offered(resting, l.price) = Total(Offers, {m \in resting : m.price = l.price})
    BY <1>2, OfferedTotal
  <2>3. {m \in resting : m.price = l.price} = part[l]
    BY <1>3, <1>6
  <2>5. PICK A : A = {m \in resting : m.price = l.price}
    OBVIOUS
  <2>4. Total(Offers, part[l]) \in Int
    <3>1. part[l] \subseteq S
      BY <1>9
    <3>. HIDE DEF part
    <3>2. IsFiniteSet(part[l])
      BY <1>4, <3>1, FS_Subset
    <3>. QED BY <1>4, <3>1, <3>2, TotalInt
  <2>. HIDE DEF part, g
  <2>6. g[l] = Total(Offers, A) /\ A = part[l]
    BY <2>1, <2>2, <2>3, <2>5
  <2>. QED BY <2>4, <2>6
<1>. HIDE DEF owner, part
<1>11. Total(g, U) = 0 * Cardinality(U) + Total(Offers, S)
  <2>. HIDE DEF g
  <2>. QED BY <1>4, <1>7, <1>8, <1>9, <1>10, TotalGrouped
<1>12. Cardinality(U) \in Nat /\ Total(Offers, S) \in Int
  BY <1>4, <1>7, FS_CardinalityType, TotalInt
<1>13. Total(g, U) = Total(Offers, S)
  <2>. HIDE DEF g
  <2>. QED BY <1>11, <1>12
<1>14. MapThenSumSet(LAMBDA l : l.available, U) = Total(g, U)
  BY LevelTotal
<1>. QED BY <1>13, <1>14 DEF U, S

\* A new order is one that was placed.
LEMMA NewIsPlaced ==
  ASSUME Inv, [Contract!Next]_(Contract!vars), NEW r \in Requests,
         orders[r].status = "ABSENT", orders'[r].status # "ABSENT"
  PROVE  Contract!Place(r)
<1>1. Book[r].status = "ABSENT" /\ Book'[r].status # "ABSENT"
  BY DEF Book
<1>2. CASE UNCHANGED Contract!vars
  BY <1>1, <1>2 DEF Contract!vars, Book
<1>3. ASSUME NEW q \in Requests, Contract!Place(q) PROVE q = r
  <2>1. SUFFICES ASSUME q # r PROVE FALSE
    OBVIOUS
  <2>2. PICK size \in [{m \in Requests : Contract!Compatible(q, m)} -> 0 .. q.stake] :
          Contract!Trade(q, size)
    BY <1>3 DEF Contract!Place
  <2>3. r \notin DOMAIN size
    BY <1>1 DEF Contract!Compatible, Contract!Resting, Book
  <2>4. Book'[r] = Book[r]
    BY <2>1, <2>2, <2>3 DEF Contract!Trade, Book
  <2>. QED BY <1>1, <2>4
<1>4. ASSUME NEW q \in Requests, Contract!Cancel(q) PROVE FALSE
  <2>1. Book' = [Book EXCEPT ![q].status = "CANCELLED"] /\ q # r
    BY <1>1, <1>4 DEF Contract!Cancel, Contract!Resting, Book
  <2>. QED BY <1>1, <2>1
<1>5. ASSUME NEW winner \in Winners, Contract!Settle(winner) PROVE FALSE
  <2>1. PICK rest \in SUBSET {q \in Requests : Contract!Resting(q)} :
          Book' = [q \in Requests |-> IF q \in rest THEN [Book[q] EXCEPT !.status = "CANCELLED"]
                                     ELSE Book[q]]
    BY <1>5 DEF Contract!Settle, Book
  <2>2. r \notin rest
    BY <1>1, <2>1 DEF Contract!Resting, Book
  <2>. QED BY <1>1, <2>1, <2>2
<1>. QED BY <1>2, <1>3, <1>4, <1>5 DEF Contract!Next

\* In a book that is uncrossed before and after, a new order gets what was displayed.
LEMMA ClickGets ==
  ASSUME Inv, BetsOK, Inv', UncrossedBook', NEW r \in Requests, Contract!Place(r)
  PROVE  orders'[r].matched = IF r.stake <= Total(Offers, Met(r)) THEN r.stake
                              ELSE Total(Offers, Met(r))
<1>. DEFINE S == Met(r)
<1>1. PICK made, size, total :
        /\ Trades(r, made, size, total) /\ total = Total(size, made)
        /\ \A m \in made : m.selection = r.selection
  BY PlaceEffect
<1>2. /\ IsFiniteSet(S) /\ S \subseteq Requests /\ \A m \in S : Offers[m] \in Nat
  BY MetFinite DEF BetsOK, Placed
<1>3. r \notin Placed
  BY PlaceEffect
<1>4. \A q \in Requests : /\ orders[q].status = Book[q].status /\ orders'[q].status = Book'[q].status
                           /\ orders[q].matched = Book[q].matched /\ orders'[q].matched = Book'[q].matched
  BY DEF Book
<1>5. made \subseteq S /\ IsFiniteSet(made)
  <2>1. made \subseteq S
    <3>. SUFFICES ASSUME NEW m \in made PROVE m \in Met(r)
      OBVIOUS
    <3>1. /\ m \in Requests /\ m.selection = r.selection /\ m.side = Opposite(r.side)
          /\ Crosses(r.side, r.price, m.price) /\ Book[m].status \in OpenStatuses
      BY <1>1 DEF Trades, Placed
    <3>. QED BY <1>4, <3>1 DEF Met, Matchable
  <2>. QED BY <1>2, <2>1, FS_Subset
<1>. HIDE DEF S
<1>6. /\ orders'[r].matched = total /\ total \in Nat /\ total <= r.stake /\ r.stake \in Nat
      /\ orders'[r].status \in OpenStatuses \cup {"MATCHED"}
      /\ orders'[r].status = "MATCHED" => total = r.stake
  BY <1>1, <1>4, RequestType DEF Trades
<1>7. \A m \in made : size[m] \in Nat /\ size[m] <= Offers[m]
  <2>. SUFFICES ASSUME NEW m \in made PROVE size[m] \in Nat /\ size[m] <= Offers[m]
    OBVIOUS
  <2>1. m \in Requests /\ size[m] \in Nat /\ size[m] <= m.stake - Book[m].matched
    BY <1>1 DEF Trades, Placed
  <2>. QED BY <1>4, <2>1 DEF Offers, Remaining
<1>8. Total(Offers, made) <= Total(Offers, S) /\ Total(Offers, S) \in Nat /\ Total(Offers, made) \in Nat
  <2>1. made \cup (S \ made) = S /\ made \cap (S \ made) = {} /\ IsFiniteSet(S \ made)
    BY <1>2, <1>5, FS_Subset
  <2>2. \A m \in made \cup (S \ made) : Offers[m] \in Int
    BY <1>2, <2>1
  <2>3. Total(Offers, made \cup (S \ made)) = Total(Offers, made) + Total(Offers, S \ made)
    BY <1>5, <2>1, <2>2, TotalUnion
  <2>4. Total(Offers, made) \in Nat /\ Total(Offers, S \ made) \in Nat
    BY <1>2, <1>5, <2>1, TotalNat
  <2>5. Total(Offers, S) = Total(Offers, made) + Total(Offers, S \ made)
    BY <2>1, <2>3
  <2>. QED BY <2>4, <2>5
<1>9. CASE total = r.stake
  <2>1. Total(size, made) * 1 <= Total(Offers, made) * 1
    <3>1. \A m \in made : size[m] \in Int /\ Offers[m] \in Int /\ size[m] * 1 <= Offers[m] * 1
      BY <1>2, <1>5, <1>7
    <3>. QED BY <1>5, <3>1, TotalBound
  <2>2. total <= Total(Offers, S)
    <3>1. Total(size, made) \in Nat
      BY <1>1, <1>6
    <3>. QED BY <1>1, <1>6, <1>8, <2>1, <3>1
  <2>. QED BY <1>6, <1>9, <2>2 DEF S
<1>10. CASE total # r.stake
  <2>1. orders'[r].status \in OpenStatuses
    BY <1>6, <1>10
  <2>2. ASSUME NEW m \in S PROVE m \in made /\ size[m] = Offers[m]
    <3>1. /\ m \in Requests /\ m.selection = r.selection /\ m.side = Opposite(r.side)
          /\ Crosses(r.side, r.price, m.price) /\ orders[m].status \in OpenStatuses
      BY DEF S, Met, Matchable
    <3>2. orders'[m].status \notin OpenStatuses
      <4>1. SUFFICES ASSUME orders'[m].status \in OpenStatuses PROVE FALSE
        OBVIOUS
      <4>2. r.side \in Sides /\ r.price \in Nat /\ m.price \in Nat
        BY <3>1, RequestType DEF Prices
      <4>3. CASE r.side = "BACK"
        <5>1. m.side = "LAY"
          BY <3>1, <4>3 DEF Opposite
        <5>2. m.price < r.price
          BY <2>1, <3>1, <4>1, <4>3, <5>1 DEF UncrossedBook
        <5>. QED BY <3>1, <4>2, <4>3, <5>2 DEF Crosses
      <4>4. CASE r.side = "LAY"
        <5>1. m.side = "BACK"
          BY <3>1, <4>4 DEF Opposite
        <5>2. r.price < m.price
          BY <2>1, <3>1, <4>1, <4>4, <5>1 DEF UncrossedBook
        <5>. QED BY <3>1, <4>2, <4>4, <5>2 DEF Crosses
      <4>. QED BY <4>2, <4>3, <4>4 DEF Sides
    <3>3. m \in made
      <4>1. SUFFICES ASSUME m \notin made PROVE FALSE
        OBVIOUS
      <4>2. m # r
        BY <1>3, <3>1 DEF Placed, OpenStatuses
      <4>3. Book'[m] = Book[m]
        BY <1>1, <3>1, <4>1, <4>2 DEF Trades
      <4>. QED BY <1>4, <3>1, <3>2, <4>3
    <3>4. /\ Book'[m].matched = Book[m].matched + size[m] /\ size[m] \in Nat
          /\ Book'[m].matched = m.stake
      BY <1>1, <1>4, <3>1, <3>2, <3>3 DEF Trades
    <3>5. m.stake \in Nat /\ orders[m].matched \in Int
      BY <3>1, RequestType DEF Inv, TypeOK, OrderRows
    <3>6. Offers[m] = m.stake - orders[m].matched
      BY <3>1 DEF Offers, Remaining
    <3>. QED BY <1>4, <3>1, <3>3, <3>4, <3>5, <3>6
  <2>3. made = S
    BY <1>5, <2>2
  <2>4. Total(size, made) = Total(Offers, made)
    BY <1>5, <2>2, <2>3, TotalSame
  <2>5. total = Total(Offers, S) /\ total < r.stake
    BY <1>1, <1>6, <1>10, <2>3, <2>4
  <2>. QED BY <1>6, <2>5 DEF S
<1>. QED BY <1>9, <1>10

\* Every step that places an order gives it what was displayed.
LEMMA ClickStep ==
  Inv /\ BetsOK /\ Inv' /\ SerialInv' /\ [Contract!Next]_(Contract!vars) =>
    [\A r \in Requests :
         orders[r].status = "ABSENT" /\ orders'[r].status # "ABSENT" =>
            LET shown == MapThenSumSet(LAMBDA l : l.available,
                             {l \in Levels(r.selection, r.side) : Crosses(r.side, r.price, l.price)})
            IN  orders'[r].matched = IF r.stake <= shown THEN r.stake ELSE shown]_vars
<1>. SUFFICES ASSUME Inv, BetsOK, Inv', SerialInv', [Contract!Next]_(Contract!vars), NEW r \in Requests,
                     orders[r].status = "ABSENT", orders'[r].status # "ABSENT",
                     NEW shown,
                     shown = MapThenSumSet(LAMBDA l : l.available,
                               {l \in Levels(r.selection, r.side) : Crosses(r.side, r.price, l.price)})
              PROVE  orders'[r].matched = IF r.stake <= shown THEN r.stake ELSE shown
  OBVIOUS
<1>1. Contract!Place(r)
  BY NewIsPlaced
<1>2. shown = Total(Offers, Met(r))
  BY ShownTotal DEF BetsOK, Placed
<1>. QED BY <1>1, <1>2, ClickGets DEF SerialInv

\* Where one request is answered before the next is sent, an order is matched at
\* once up to what the book displayed at its price and better ones, for any number
\* of orders and prices ("click a displayed price to bet", get_order_book).
THEOREM Clicked == Alone => (Spec => ClickTrades)
<1>. SUFFICES ASSUME Alone PROVE Spec => ClickTrades
  OBVIOUS
<1>1. ReserveInv => BetsOK
  BY DEF ReserveInv
<1>. QED BY <1>1, ClickStep, ReserveInvariant, SerialInvariant, Implemented,
            PTL DEF ClickTrades, ImplementsContract, Contract!Spec
=============================================================================
