-------------------------- MODULE ExchangeProofs ---------------------------
(***************************************************************************)
(* Theorems about Exchange, for every set of users, sessions, selections    *)
(* and requests, every grant and every bound: types, rows and versions, the *)
(* order book, the keys of the ledger, and what the money and the order     *)
(* book add up to: wallets are the sums of their ledgers, and orders are    *)
(* matched by what their bets come to.                                      *)
(***************************************************************************)
EXTENDS ExchangeInvariant, AmountProofs

-----------------------------------------------------------------------------
(* The inductive invariant behind HeldIffPlaced, PaidIffSettled and          *)
(* SettledConsistently: what the entries of the ledger, and those a session *)
(* is going to add, stand for                                               *)

Hold(r) == [key |-> HoldKey(r), user |-> r.user, balance |-> 0, reserved |-> Exposure(r)]

Payment(b, winner) ==
    LET d == SettleBetDeltas(b.side, BetPrice(b), b.stake, BetOrder(b).selection = winner)
    IN  [key |-> SettleKey(b), user |-> BetUser(b), balance |-> d.balance, reserved |-> d.reserved]

\* The entries' payments are for these bets and this winner.
PaymentsFor(entries, paid, winner) ==
    \A e \in entries : e.key[1] = "settle" =>
        e.key[2] \in paid /\ e = Payment(e.key[2], winner)

\* Each of the bets has its payment among the entries.
AllPaid(paid, entries) == \A b \in paid : \E e \in entries : e.key = SettleKey(b)

\* Committed orders have their holds, and only they do; bets are paid by the
\* settlement of the market, all for one winner.
LedgerOK ==
    /\ \A r \in Requests : orders[r].status # "ABSENT" => Hold(r) \in ledger
    /\ \A r \in Requests : \A e \in ledger :
         e.key = HoldKey(r) => e = Hold(r) /\ orders[r].status # "ABSENT"
    /\ market.status # "SETTLED" => settledBets = {}
    /\ AllPaid(settledBets, ledger)
    /\ \E x \in Selections : PaymentsFor(ledger, settledBets, x)

\* A session holds for its new order and pays as a settlement, unless it comes
\* too late to commit; the rows it writes are there.
PostingsOK(t) ==
    /\ \A r \in t.dirty : t.rows[r].status # "ABSENT"
    /\ \A r \in Requests : \A e \in t.entries :
         e.key = HoldKey(r) => e = Hold(r) /\ r = t.order /\ t.pc \in {"lock", "match"}
    /\ t.pc \in {"lock", "match"} => Hold(t.order) \in t.entries
    /\ t.settled # {} => t.pc \in {"settleBets", "settleOrders"}
    /\ PaymentsFor(t.entries, t.settled, t.winner)
    /\ market.status # "SETTLED" => AllPaid(t.settled, t.entries)

LedgerInv == LedgerOK /\ \A s \in Sessions : PostingsOK(tx[s])

-----------------------------------------------------------------------------
(* The inductive invariant behind WalletIsLedgerSum                         *)

\* A wallet copy is the wallet and what the session has posted to it.
WalletCopiesOK(t) ==
    /\ \A u \in t.held :
         t.wallets[u] = [balance |-> wallets[u].balance + BalanceOf(EntriesFor(t.entries, u)),
                         reserved |-> wallets[u].reserved + ReservedOf(EntriesFor(t.entries, u))]
    /\ \A e \in t.entries : e.user \in t.held
    /\ t.entries \cap ledger = {}
    /\ IsFiniteSet(t.entries)

WalletInv ==
    /\ WalletIsLedgerSum
    /\ IsFiniteSet(ledger)
    /\ \A s \in Sessions : WalletCopiesOK(tx[s])
    /\ \A s, z \in Sessions : s # z => tx[s].held \cap tx[z].held = {}

-----------------------------------------------------------------------------
(* The inductive invariant behind BetsAccountForMatched                     *)

\* The rows a session has changed, but for those a settlement has yet to send.
Sent(t) == IF t.pc = "settleOrders" THEN t.dirty \cap t.locked ELSE t.dirty

\* The rows a session has changed are the rows of the database and its fills;
\* each fill is one bet for its new order and one for a maker it has changed,
\* as large as the change.
FillsOK(t) ==
    /\ IsFiniteSet(t.newBets)
    /\ ~ Taking(t) => t.newBets = {}
    /\ \A b \in t.newBets :
         /\ b.taker = t.order /\ b.maker \in t.dirty \ {t.order}
         /\ Suits(b.taker, b.maker)
         /\ Crosses(b.taker.side, b.taker.price, b.maker.price)
         /\ b.stake > 0 /\ b.stake = t.rows[b.maker].matched - orders[b.maker].matched
         /\ Twin(b) \in t.newBets
    /\ Taking(t) => \A m \in t.dirty \ {t.order} :
         /\ \E b \in t.newBets : b.maker = m
         /\ t.rows[m].status # "CANCELLED"
    /\ \A r \in Sent(t) : t.rows[r].matched = orders[r].matched + StakesOf(BetsFor(t.newBets, r))
    /\ t.pc \in {"lock", "match"} => \A m \in t.todo : Suits(t.order, m)

FillInv ==
    /\ BetsAccountForMatched
    /\ IsFiniteSet(bets)
    /\ \A b \in bets : /\ orders[b.taker].status # "ABSENT" /\ orders[b.maker].status # "ABSENT"
                       /\ b.taker # b.maker /\ Suits(b.taker, b.maker)
    /\ \A s \in Sessions : FillsOK(tx[s])

-----------------------------------------------------------------------------
(* The inductive invariant behind MoneyConserved and ImplementsContract:     *)
(* what the entries a session is going to add come to                        *)

BetsOf(paid, u) == {b \in paid : BetUser(b) = u}
PaidOut(paid, winner) == MapThenSumSet(LAMBDA b : Payment(b, winner).balance, paid)
Unheld(paid, winner) == MapThenSumSet(LAMBDA b : Payment(b, winner).reserved, paid)

OrdersOf(cancelled, u) == {r \in cancelled : r.user = u}
RestExposure(r, row) == LiabilityMinor(r.side, r.price, Remaining(r, row))
RestReleased(rows, cancelled) ==
    MapThenSumSet(LAMBDA r : RestExposure(r, rows[r]), cancelled)

\* Only a placement past its reservation and a settlement have entries to add:
\* the hold, which the wallet covers; or what comes, for each user, to the
\* payments of the bets settled and the rests of the orders cancelled so far.
\* A settlement takes whole fills.
PayoutsOK(t) ==
    /\ IsFiniteSet(t.settled) /\ IsFiniteSet(t.dirty)
    /\ t.settled \cap t.todoBets = {}
    /\ t.settled \cup t.todoBets \subseteq bets
    /\ \A b \in t.settled \cup t.todoBets : Twin(b) \in t.settled \cup t.todoBets
    /\ t.pc = "settleOrders" =>
         t.todoBets = {} /\ \A r \in t.todo : t.rows[r].matched <= r.stake
    /\ t.pc \notin {"settleBets", "settleOrders"} => t.settled = {} /\ t.todoBets = {}
    /\ t.pc \in {"settleBets", "settleOrders"} /\ market.status # "SETTLED" =>
         \A u \in Users :
           /\ BalanceOf(EntriesFor(t.entries, u)) = PaidOut(BetsOf(t.settled, u), t.winner)
           /\ ReservedOf(EntriesFor(t.entries, u)) =
                Unheld(BetsOf(t.settled, u), t.winner) - RestReleased(t.rows, OrdersOf(t.dirty, u))
    /\ t.pc \in {"lock", "match"} =>
         /\ t.entries = {Hold(t.order)}
         /\ Exposure(t.order) <= Available(wallets[t.order.user])
    /\ t.pc \notin {"lock", "match", "settleBets", "settleOrders"} => t.entries = {}

\* A settlement releases what rests, and none has before the market is SETTLED.
Unreleased ==
    market.status # "SETTLED" => \A r \in Requests : \A e \in ledger : e.key # ReleaseSettleKey(r)

PayoutInv ==
    /\ BalanceOf(ledger) = 0
    /\ Unreleased
    /\ \A s \in Sessions : PayoutsOK(tx[s])

\* What a session set out to do is something that may be asked for.
PurposeOK(t) ==
    /\ t.pc = "transition" => t.target # "SETTLED"
    /\ t.pc \in {"settleBets", "settleOrders"} => t.winner \in Winners
    /\ t.pc = "settleOrders" => \A r \in t.dirty : t.rows[r].status = "CANCELLED"

PurposeInv == \A s \in Sessions : PurposeOK(tx[s])

-----------------------------------------------------------------------------
(* The inductive invariant behind UncrossedBook, SettlementResolvesAll and  *)
(* BestPriceFirst, where one request is answered before the next is sent    *)

Alone == \E s : Sessions = {s}

Placed == {r \in Requests : orders[r].status # "ABSENT"}

\* Orders have their places in the queue.
QueueOK ==
    /\ IsFiniteSet(Placed)
    /\ \A r \in Placed : orders[r].created < clock
    /\ \A r, q \in Placed : r # q => orders[r].created # orders[q].created

\* A placement has the whole other side of the book before it; it has filled the
\* makers in their order, each of them up unless it was filled up itself.
MatchingOK(t) ==
    LET r == t.order
        met == t.dirty \ {r}
    IN  /\ t.pc = "lock" => /\ t.todo \cup t.locked = Matchable(r)
                            /\ \A m \in t.locked : t.rows[m].created = orders[m].created
        /\ t.pc = "match" =>
             /\ Matchable(r) = t.todo \cup met
             /\ \A m \in Matchable(r) : t.rows[m].created = orders[m].created
             /\ \A m \in met, n \in t.todo : Before(m, n)
             /\ \A m, k \in met : Before(m, k) => t.rows[m].status = "MATCHED"
             /\ Remaining(r, t.rows[r]) > 0 => \A m \in met : t.rows[m].status = "MATCHED"

\* A new order is the last in the queue, on a market that is open; an order keeps its
\* place; a settlement has every bet and every resting order before it or behind it.
SerialOK(t) ==
    /\ t.pc \in PlacePCs => market.status = "OPEN"
    /\ Taking(t) => \A r \in Placed : orders[r].created < t.rows[t.order].created
    /\ \A r \in Sent(t) \cap Placed : t.rows[r].created = orders[r].created
    /\ MatchingOK(t)
    /\ t.pc \in {"settleBets", "settleOrders"} => bets \subseteq settledBets \cup t.settled \cup t.todoBets
    /\ t.pc = "settleOrders" =>
         \A r \in Requests \ (t.todo \cup t.dirty) : orders[r].status \notin OpenStatuses

SerialInv ==
    /\ QueueOK
    /\ UncrossedBook
    /\ SettlementResolvesAll
    /\ \A s \in Sessions : /\ SerialOK(tx[s])
                           /\ Taking(tx[s]) => tx[s].rows[tx[s].order].created < clock


-----------------------------------------------------------------------------
(* Types of the helpers                                                     *)

\* The fields of a request.
LEMMA RequestType ==
  ASSUME NEW r \in Requests
  PROVE  /\ r.user \in Users /\ r.selection \in Selections /\ r.side \in Sides
         /\ r.price \in Prices /\ r.stake \in Nat /\ r.stake > 0
  BY RequestsAssumption, SMT DEF RequestRecords

\* The order, the owner and the odds of a bet, and its ledger key.
LEMMA BetType ==
  ASSUME NEW b \in BetRecords
  PROVE  /\ BetOrder(b) \in Requests /\ BetUser(b) \in Users /\ BetPrice(b) \in Prices
         /\ b.side \in Sides /\ b.stake \in Int /\ SettleKey(b) \in LedgerKeys
<1>1. BetOrder(b) \in Requests
  BY DEF BetRecords, BetOrder
<1>2. b.maker \in Requests /\ b.side \in Sides /\ b.stake \in Int
  BY DEF BetRecords
<1>. QED BY <1>1, <1>2, RequestType DEF BetUser, BetPrice, SettleKey, LedgerKeys

\* The rows and wallets no table holds yet have the shape of rows and wallets.
LEMMA RowRecords ==
  /\ NoRow \in OrderRows
  /\ NoWallet \in WalletRows
  BY DEF NoRow, OrderRows, OrderStatuses, NoWallet, WalletRows

\* So has the state of a session that runs no request.
LEMMA IdleType == IdleTx \in TxRecords
<1>1. AnyRequest \in Requests
  BY RequestsAssumption DEF AnyRequest
<1>2. AnySelection \in Selections
  BY SelectionsAssumption DEF AnySelection
<1>. QED
  BY <1>1, <1>2, RowRecords DEF IdleTx, TxRecords, PCs, MarketStatuses, MarketRows

\* A posting keeps the shape of the session's state and leaves its order rows
\* and its place in the handler alone.
LEMMA PostType ==
  ASSUME TypeOK, NEW s \in Sessions, NEW t \in TxRecords, NEW u \in Users,
         NEW key \in LedgerKeys, NEW balance \in Int, NEW reserved \in Int
  PROVE  Post(s, t, u, key, balance, reserved) \in TxRecords
<1>1. WalletSeen(s, u) \in WalletRows
  BY DEF TypeOK, WalletSeen, TxRecords
<1>2. [key |-> key, user |-> u, balance |-> balance, reserved |-> reserved] \in LedgerEntries
  BY DEF LedgerEntries
<1>3. [balance |-> WalletSeen(s, u).balance + balance,
       reserved |-> WalletSeen(s, u).reserved + reserved] \in WalletRows
  BY <1>1, SMT DEF WalletRows
<1>. QED
  BY <1>1, <1>2, <1>3 DEF Post, TxRecords

\* Committing a well-shaped private state gives well-shaped tables.
LEMMA CommitType ==
  ASSUME TypeOK, NEW s \in Sessions, NEW t \in TxRecords, Commit(s, t),
         market' \in MarketRows, clock' \in Nat
  PROVE  TypeOK'
<1>1. orders' \in [Requests -> OrderRows]
  <2>1. ASSUME NEW r \in Requests
        PROVE  [t.rows[r] EXCEPT !.version = @ + 1] \in OrderRows
    <3>1. t.rows[r] \in OrderRows
      BY DEF TxRecords
    <3>. QED BY <3>1, SMT DEF OrderRows
  <2>. QED BY <2>1 DEF Commit, TypeOK
<1>2. bets' \subseteq BetRecords /\ settledBets' \subseteq BetRecords
  BY DEF Commit, TypeOK, TxRecords
<1>3. wallets' \in [Users -> WalletRows]
  BY DEF Commit, TypeOK, TxRecords
<1>4. ledger' \subseteq LedgerEntries
  BY DEF Commit, TypeOK, TxRecords
<1>5. tx' \in [Sessions -> TxRecords]
  BY IdleType DEF Commit, End, TypeOK
<1>. QED BY <1>1, <1>2, <1>3, <1>4, <1>5 DEF TypeOK

\* So does leaving the tables alone and changing one session's private state.
LEMMA PrivateType ==
  ASSUME TypeOK, NEW s \in Sessions, NEW t \in TxRecords, Private(s, t), clock' \in Nat
  PROVE  TypeOK'
  BY DEF TypeOK, Private

\* And so does ending a session without a commit.
LEMMA RollbackType ==
  ASSUME TypeOK, NEW s \in Sessions, Rollback(s)
  PROVE  TypeOK'
  BY IdleType DEF TypeOK, Rollback, End

\* The fields of a session's private state, one by one.
LEMMA TxType ==
  ASSUME TypeOK, NEW s \in Sessions
  PROVE  /\ tx[s] \in TxRecords
         /\ tx[s].order \in Requests
         /\ \A r \in Requests : /\ tx[s].rows[r] \in OrderRows
                                /\ Remaining(r, tx[s].rows[r]) \in Int
  <1>1. tx[s] \in TxRecords
    BY DEF TypeOK
  <1>2. tx[s].order \in Requests /\ \A r \in Requests : tx[s].rows[r] \in OrderRows
    BY <1>1 DEF TxRecords
  <1>. QED BY <1>1, <1>2, RequestType, SMT DEF OrderRows, Remaining

-----------------------------------------------------------------------------
(* Type correctness                                                         *)

\* place_order keeps every shape.
LEMMA PlaceTypeStep ==
  ASSUME TypeOK, NEW s \in Sessions, PlaceNext(s)
  PROVE  TypeOK'
<1>t. tx[s] \in TxRecords /\ tx[s].order \in Requests
  BY TxType
<1>r. tx[s].order.user \in Users /\ Exposure(tx[s].order) \in Int
  BY <1>t, RequestType, LiabilityType, SMT DEF Exposure
<1>1. ASSUME NEW r \in Requests, PlaceAnswer(s, r) PROVE TypeOK'
  BY <1>1 DEF PlaceAnswer, TypeOK, vars
<1>2. ASSUME NEW r \in Requests, PlaceBegin(s, r) PROVE TypeOK'
  <2>1. [IdleTx EXCEPT !.pc = "insert", !.order = r, !.market = market] \in TxRecords
    BY IdleType DEF TxRecords, PCs, PlacePCs, TypeOK
  <2>. QED BY <1>2, <2>1, PrivateType DEF PlaceBegin, TypeOK
<1>3. CASE PlaceInsert(s)
  <2>. DEFINE row == [status |-> "OPEN", matched |-> 0, created |-> clock, version |-> 0]
              t2 == [tx[s] EXCEPT !.pc = "reserve", !.rows[tx[s].order] = row,
                                  !.dirty = {tx[s].order}]
  <2>1. row \in OrderRows
    BY DEF OrderRows, OrderStatuses, TypeOK
  <2>2. t2 \in TxRecords
    BY <1>t, <2>1 DEF TxRecords, PCs, PlacePCs
  <2>3. clock' \in Nat
    BY <1>3 DEF PlaceInsert, TypeOK
  <2>. QED BY <1>3, <2>2, <2>3, PrivateType DEF PlaceInsert
<1>4. CASE PlaceDuplicate(s) \/ PlaceRefuse(s)
  BY <1>4, RollbackType DEF PlaceDuplicate, PlaceRefuse
<1>5. CASE PlaceReserve(s)
  <2>. DEFINE r == tx[s].order
              p == Post(s, tx[s], r.user, HoldKey(r), 0, Exposure(r))
  <2>1. p \in TxRecords
    BY <1>t, <1>r, PostType DEF HoldKey, LedgerKeys
  <2>2. [p EXCEPT !.pc = "lock", !.todo = Matchable(r)] \in TxRecords
    BY <2>1 DEF TxRecords, PCs, PlacePCs, Matchable
  <2>. QED BY <1>5, <2>2, PrivateType DEF PlaceReserve, TypeOK
<1>6. ASSUME NEW m \in Requests, PlaceLock(s, m) PROVE TypeOK'
  <2>1. [tx[s] EXCEPT !.todo = @ \ {m}, !.locked = @ \cup {m}, !.rows[m] = orders[m]] \in TxRecords
    BY <1>t DEF TxRecords, TypeOK
  <2>. QED BY <1>6, <2>1, PrivateType DEF PlaceLock, TypeOK
<1>9. CASE PlaceMakers(s)
  <2>1. [tx[s] EXCEPT !.pc = "match", !.todo = tx[s].locked \cap Matchable(tx[s].order)] \in TxRecords
    BY <1>t DEF TxRecords, PCs, PlacePCs
  <2>. QED BY <1>9, <2>1, PrivateType DEF PlaceMakers, TypeOK
<1>7. ASSUME NEW m \in Requests, PlaceMatch(s, m) PROVE TypeOK'
  <2>. DEFINE r == tx[s].order
              open == Remaining(r, tx[s].rows[r])
              offered == Remaining(m, tx[s].rows[m])
              size == IF open <= offered THEN open ELSE offered
              filled == [tx[s].rows[m] EXCEPT !.matched = @ + size]
              maker == [filled EXCEPT !.status =
                          IF Remaining(m, filled) = 0 THEN "MATCHED" ELSE "PARTIALLY_MATCHED"]
              rows2 == [tx[s].rows EXCEPT ![r].matched = @ + size, ![m] = maker]
              fills == {[taker |-> r, maker |-> m, side |-> x, stake |-> size] : x \in Sides}
              t2 == [tx[s] EXCEPT !.rows = rows2, !.dirty = @ \cup {m}, !.todo = @ \ {m},
                                  !.newBets = @ \cup fills]
  <2>1. size \in Int
    BY <1>t, TxType
  <2>2. filled \in OrderRows
    BY <2>1, TxType, SMT DEF OrderRows
  <2>3. maker \in OrderRows
    BY <2>2 DEF OrderRows, OrderStatuses
  <2>4. [tx[s].rows[r] EXCEPT !.matched = @ + size] \in OrderRows
    BY <1>t, <2>1, TxType, SMT DEF OrderRows
  <2>5. rows2 \in [Requests -> OrderRows]
    BY <1>t, <2>3, <2>4 DEF TxRecords
  <2>6. fills \subseteq BetRecords
    BY <1>t, <2>1 DEF BetRecords
  <2>7. t2 \in TxRecords
    BY <1>t, <2>5, <2>6, ZenonT(60) DEF TxRecords
  <2>. QED BY <1>7, <2>7, PrivateType DEF PlaceMatch, TypeOK
<1>8. CASE PlaceCommit(s)
  <2>. DEFINE r == tx[s].order
              t2 == [tx[s] EXCEPT !.rows[r].status = StatusOf(r, tx[s].rows[r])]
  <2>1. StatusOf(r, tx[s].rows[r]) \in OrderStatuses
    BY <1>t, TxType DEF StatusOf, OrderStatuses
  <2>2. [tx[s].rows[r] EXCEPT !.status = StatusOf(r, tx[s].rows[r])] \in OrderRows
    BY <1>t, <2>1, TxType DEF OrderRows
  <2>3. t2 \in TxRecords
    BY <1>t, <2>2 DEF TxRecords
  <2>. QED BY <1>8, <2>3, CommitType DEF PlaceCommit, TypeOK
<1>. QED
  BY <1>1, <1>2, <1>3, <1>4, <1>5, <1>6, <1>7, <1>8, <1>9 DEF PlaceNext

\* cancel_order keeps every shape.
LEMMA CancelTypeStep ==
  ASSUME TypeOK, NEW s \in Sessions, CancelNext(s)
  PROVE  TypeOK'
<1>t. tx[s] \in TxRecords /\ tx[s].order \in Requests
  BY TxType
<1>1. ASSUME NEW r \in Requests, CancelBegin(s, r) PROVE TypeOK'
  <2>1. [IdleTx EXCEPT !.pc = "cancelFlush", !.order = r, !.rows[r] = orders[r]] \in TxRecords
    BY IdleType DEF TxRecords, PCs, TypeOK
  <2>. QED BY <1>1, <2>1, PrivateType DEF CancelBegin, TypeOK
<1>2. CASE CancelFlush(s)
  <2>. DEFINE r == tx[s].order
              t2 == [tx[s] EXCEPT !.pc = "cancelRelease", !.locked = {r}, !.dirty = {r},
                                  !.rows[r].status = "CANCELLED"]
  <2>1. [tx[s].rows[r] EXCEPT !.status = "CANCELLED"] \in OrderRows
    BY <1>t, TxType DEF OrderRows, OrderStatuses
  <2>2. t2 \in TxRecords
    BY <1>t, <2>1 DEF TxRecords, PCs
  <2>. QED BY <1>2, <2>2, PrivateType DEF CancelFlush, TypeOK
<1>3. CASE CancelRelease(s)
  <2>. DEFINE r == tx[s].order
              amount == LiabilityMinor(r.side, r.price, Remaining(r, tx[s].rows[r]))
  <2>1. amount \in Int
    BY <1>t, TxType, RequestType, LiabilityType
  <2>2. - amount \in Int
    BY <2>1
  <2>3. ReleaseKey(r) \in LedgerKeys
    BY <1>t DEF ReleaseKey, LedgerKeys
  <2>4. Post(s, tx[s], r.user, ReleaseKey(r), 0, - amount) \in TxRecords
    BY <1>t, <2>2, <2>3, RequestType, PostType
  <2>. QED BY <1>3, <2>4, CommitType DEF CancelRelease, TypeOK
<1>. QED BY <1>1, <1>2, <1>3 DEF CancelNext

\* settle_market keeps every shape.
LEMMA SettleTypeStep ==
  ASSUME TypeOK, NEW s \in Sessions, SettleNext(s)
  PROVE  TypeOK'
<1>t. tx[s] \in TxRecords
  BY TxType
<1>1. ASSUME NEW winner \in Winners, SettleBegin(s, winner) PROVE TypeOK'
  <2>1. winner \in Selections
    BY SelectionsAssumption
  <2>2. [IdleTx EXCEPT !.pc = "settleBets", !.winner = winner, !.market = market,
                       !.todoBets = bets \ settledBets] \in TxRecords
    BY <2>1, IdleType DEF TxRecords, PCs, TypeOK
  <2>. QED BY <1>1, <2>2, PrivateType DEF SettleBegin, TypeOK
<1>2. ASSUME NEW b \in tx[s].todoBets, SettleBet(s, b) PROVE TypeOK'
  <2>. DEFINE won == BetOrder(b).selection = tx[s].winner
              d == SettleBetDeltas(b.side, BetPrice(b), b.stake, won)
              p == Post(s, tx[s], BetUser(b), SettleKey(b), d.balance, d.reserved)
  <2>1. b \in BetRecords
    BY <1>t DEF TxRecords
  <2>2. d.balance \in Int /\ d.reserved \in Int
    BY <2>1, BetType, SettleType
  <2>3. p \in TxRecords
    BY <1>t, <2>1, <2>2, BetType, PostType
  <2>4. [p EXCEPT !.todoBets = @ \ {b}, !.settled = @ \cup {b}] \in TxRecords
    <3>. HIDE DEF p
    <3>. QED BY <2>1, <2>3 DEF TxRecords
  <2>. QED BY <1>2, <2>4, PrivateType DEF SettleBet, TypeOK
<1>3. CASE SettleListOrders(s)
  <2>. DEFINE open == {r \in Requests : orders[r].status \in OpenStatuses}
              t2 == [tx[s] EXCEPT !.pc = "settleOrders", !.todo = open,
                       !.rows = [r \in Requests |-> IF r \in open THEN orders[r] ELSE NoRow]]
  <2>1. [r \in Requests |-> IF r \in open THEN orders[r] ELSE NoRow] \in [Requests -> OrderRows]
    BY RowRecords DEF TypeOK
  <2>2. t2 \in TxRecords
    BY <1>t, <2>1 DEF TxRecords, PCs
  <2>. QED BY <1>3, <2>2, PrivateType DEF SettleListOrders, TypeOK
<1>4. ASSUME NEW r \in Requests, SettleOrder(s, r) PROVE TypeOK'
  <2>. DEFINE release == ReleaseAmount(r.side, r.price, Remaining(r, tx[s].rows[r]))
              paid == IF release > 0
                      THEN Post(s, tx[s], r.user, ReleaseSettleKey(r), 0, - release)
                      ELSE tx[s]
              t2 == [paid EXCEPT !.todo = @ \ {r}, !.dirty = @ \cup {r},
                                 !.rows[r].status = "CANCELLED"]
  <2>1. release \in Int
    BY TxType, RequestType, LiabilityType
  <2>2. - release \in Int
    BY <2>1
  <2>3. ReleaseSettleKey(r) \in LedgerKeys
    BY DEF ReleaseSettleKey, LedgerKeys
  <2>4. Post(s, tx[s], r.user, ReleaseSettleKey(r), 0, - release) \in TxRecords
    BY <1>t, <2>2, <2>3, RequestType, PostType
  <2>5. paid \in TxRecords
    BY <1>t, <2>4
  <2>6. [paid.rows[r] EXCEPT !.status = "CANCELLED"] \in OrderRows
    <3>1. paid.rows[r] \in OrderRows
      BY <2>5 DEF TxRecords
    <3>. QED BY <3>1 DEF OrderRows, OrderStatuses
  <2>7. t2 \in TxRecords
    <3>. HIDE DEF paid
    <3>. QED BY <2>5, <2>6 DEF TxRecords
  <2>. QED BY <1>4, <2>7, PrivateType DEF SettleOrder, TypeOK
<1>5. CASE SettleCommit(s)
  <2>1. market' \in MarketRows
    BY <1>5 DEF SettleCommit, TypeOK, MarketRows, MarketStatuses
  <2>. QED BY <1>5, <1>t, <2>1, CommitType DEF SettleCommit, TypeOK
<1>6. ASSUME NEW r \in Requests, SettleFlush(s, r) PROVE TypeOK'
  <2>1. [tx[s] EXCEPT !.locked = @ \cup {r}] \in TxRecords
    BY <1>t DEF TxRecords
  <2>. QED BY <1>6, <2>1, PrivateType DEF SettleFlush, TypeOK
<1>. QED BY <1>1, <1>2, <1>3, <1>4, <1>5, <1>6 DEF SettleNext

\* suspend_market, reopen_market and close_market keep every shape.
LEMMA TransitionTypeStep ==
  ASSUME TypeOK, NEW s \in Sessions, TransitionNext(s)
  PROVE  TypeOK'
<1>1. ASSUME NEW target \in MarketStatuses, TransitionBegin(s, target) PROVE TypeOK'
  <2>1. [IdleTx EXCEPT !.pc = "transition", !.target = target, !.market = market] \in TxRecords
    BY IdleType DEF TxRecords, PCs, TypeOK
  <2>. QED BY <1>1, <2>1, PrivateType DEF TransitionBegin, TypeOK
<1>2. CASE TransitionCommit(s)
  <2>1. market' \in MarketRows
    BY <1>2, TxType DEF TransitionCommit, TypeOK, TxRecords, MarketRows
  <2>. QED BY <1>2, <2>1, IdleType DEF TransitionCommit, End, TypeOK
<1>. QED BY <1>1, <1>2 DEF TransitionNext

\* Every step of every request keeps every shape.
LEMMA TypeStep == TypeOK /\ [Next]_vars => TypeOK'
<1>. SUFFICES ASSUME TypeOK, [Next]_vars PROVE TypeOK'
  OBVIOUS
<1>1. CASE UNCHANGED vars
  BY <1>1 DEF TypeOK, vars
<1>2. CASE Next
  <2>1. PICK s \in Sessions :
          PlaceNext(s) \/ CancelNext(s) \/ SettleNext(s) \/ TransitionNext(s)
            \/ StaleAbort(s) \/ Die(s)
    BY <1>2 DEF Next
  <2>2. CASE StaleAbort(s) \/ Die(s)
    BY <2>2, RollbackType DEF StaleAbort, Die
  <2>. QED
    BY <2>1, <2>2, PlaceTypeStep, CancelTypeStep, SettleTypeStep, TransitionTypeStep
<1>. QED BY <1>1, <1>2

\* Type correctness: every table, and every session's private copies, keep
\* their shape whatever requests run together.
THEOREM TypeCorrect == Spec => []TypeOK
<1>1. Init => TypeOK
  BY IdleType, RowRecords, NumbersAssumption
     DEF Init, TypeOK, MarketRows, MarketStatuses, WalletRows
<1>. QED BY <1>1, TypeStep, PTL DEF Spec

-----------------------------------------------------------------------------
(* The inductive invariant: facts about one session                         *)

\* The ledger keys of holds, releases and settlements never coincide.
LEMMA KeyFacts ==
  ASSUME NEW r \in Requests, NEW q \in Requests, NEW b \in BetRecords
  PROVE  /\ HoldKey(r) \notin ReleaseKeys(q)
         /\ SettleKey(b) \notin ReleaseKeys(q)
         /\ ReleaseKey(r) \in ReleaseKeys(q) <=> r = q
         /\ ReleaseSettleKey(r) \in ReleaseKeys(q) <=> r = q
  BY DEF HoldKey, SettleKey, ReleaseKey, ReleaseSettleKey, ReleaseKeys

\* A posting touches the wallets and the pending entries only.
LEMMA PostFields ==
  ASSUME TypeOK, NEW s \in Sessions, NEW t \in TxRecords, NEW u \in Users,
         NEW key \in LedgerKeys, NEW balance \in Int, NEW reserved \in Int
  PROVE  LET p == Post(s, t, u, key, balance, reserved)
             entry == [key |-> key, user |-> u, balance |-> balance, reserved |-> reserved]
         IN  /\ p.pc = t.pc /\ p.order = t.order /\ p.market = t.market /\ p.rows = t.rows
             /\ p.dirty = t.dirty /\ p.locked = t.locked /\ p.todo = t.todo
             /\ p.todoBets = t.todoBets /\ p.settled = t.settled /\ p.newBets = t.newBets
             /\ p.entries \subseteq t.entries \cup {entry}
             /\ (\E e \in ledger \cup t.entries : e.key = key) => p.entries = t.entries
  BY DEF Post, TxRecords

\* A session that runs no request relies on nothing.
LEMMA IdleOK == TypeOK /\ RowsStart => SessionOK(IdleTx)
<1>. SUFFICES ASSUME TypeOK, RowsStart PROVE SessionOK(IdleTx)
  OBVIOUS
<1>1. CopiesOK(IdleTx)
  BY RowRecords, SMT DEF CopiesOK, IdleTx, RowsStart, TypeOK, OrderRows, NoRow
<1>2. /\ MarketCopyOK(IdleTx) /\ LocksOK(IdleTx) /\ UnsentOK(IdleTx) /\ WritesOK(IdleTx)
      /\ PhaseOK(IdleTx) /\ ReleasesOK(IdleTx)
  BY DEF MarketCopyOK, LocksOK, UnsentOK, WritesOK, PhaseOK, ReleasesOK, ReleasesExact, Taking,
         PlacePCs, IdleTx
<1>. QED BY <1>1, <1>2 DEF SessionOK

\* What holds of a session's state only depends on the market and order tables.
LEMMA SessionSame ==
  ASSUME NEW t, SessionOK(t), UNCHANGED <<market, orders>>
  PROVE  SessionOK(t)'
  BY DEF SessionOK, MarketCopyOK, CopiesOK, LocksOK, UnsentOK, WritesOK, PhaseOK, ReleasesOK,
         KeyTaken

\* What holds of the state a session comes to holds of the session then.
LEMMA SessionNext ==
  ASSUME NEW z \in Sessions, NEW v, tx'[z] = v, SessionOK(v)'
  PROVE  SessionOK(tx[z])'
<1>1. /\ MarketCopyOK(v)' /\ CopiesOK(v)' /\ LocksOK(v)' /\ UnsentOK(v)' /\ WritesOK(v)'
      /\ PhaseOK(v)' /\ ReleasesOK(v)'
  BY DEF SessionOK
<1>2. MarketCopyOK(tx[z])' /\ CopiesOK(tx[z])'
  BY <1>1 DEF MarketCopyOK, CopiesOK
<1>3. LocksOK(tx[z])' /\ UnsentOK(tx[z])'
  BY <1>1 DEF LocksOK, UnsentOK, Unsent
<1>4. WritesOK(tx[z])' /\ PhaseOK(tx[z])'
  BY <1>1 DEF WritesOK, PhaseOK, Taking
<1>5. ReleasesOK(tx[z])'
  BY <1>1 DEF ReleasesOK
<1>. QED BY <1>2, <1>3, <1>4, <1>5 DEF SessionOK

\* A private step keeps the invariant if the state it leads to is in order.
LEMMA PrivateInv ==
  ASSUME Inv, NEW s \in Sessions, NEW t \in TxRecords, Private(s, t), clock' \in Nat,
         SessionOK(t),
         \A z \in Sessions \ {s} : Apart(t, tx[z]) /\ Apart(tx[z], t)
  PROVE  Inv'
<1>1. TypeOK'
  BY PrivateType DEF Inv
<1>2. TablesOK'
  BY DEF Inv, TablesOK, RowsStart, RowsCoherent, ReleaseExact, Private
<1>3. \A z \in Sessions : tx'[z] = IF z = s THEN t ELSE tx[z]
  BY DEF Private, Inv, TypeOK
<1>4. ASSUME NEW z \in Sessions PROVE SessionOK(tx[z])'
  <2>1. SessionOK(IF z = s THEN t ELSE tx[z])
    BY DEF Inv
  <2>2. PICK v : v = IF z = s THEN t ELSE tx[z]
    OBVIOUS
  <2>3. SessionOK(v)'
    BY <2>1, <2>2, SessionSame DEF Private
  <2>. QED BY <1>3, <2>2, <2>3, SessionNext
<1>5. ASSUME NEW x \in Sessions, NEW z \in Sessions, x # z PROVE Apart(tx[x], tx[z])'
  BY <1>3, <1>5 DEF Inv, Apart, Taking
<1>. QED BY <1>1, <1>2, <1>4, <1>5 DEF Inv

\* What a commit leaves of another session's state: rows that move on get a
\* higher version, and they are rows the other session has not locked.
LEMMA SessionKept ==
  ASSUME TypeOK, TypeOK', NEW v \in TxRecords, SessionOK(v), NEW D \in SUBSET Requests,
         \A r \in Requests \ D : orders'[r] = orders[r],
         \A r \in D : orders'[r].version > orders[r].version,
         v.locked \cap D = {},
         Taking(v) /\ KeyTaken(v.order)' => KeyTaken(v.order),
         market' = market \/ market'.version > market.version
  PROVE  SessionOK(v)'
<1>1. MarketCopyOK(v)'
  BY SMT DEF SessionOK, MarketCopyOK, TypeOK, TxRecords, MarketRows
<1>2. CopiesOK(v)'
  <2>1. ASSUME NEW r \in Requests \ v.dirty
        PROVE  /\ v.rows[r].version <= orders'[r].version
               /\ v.rows[r].version = orders'[r].version => v.rows[r] = orders'[r]
    <3>1. /\ v.rows[r].version <= orders[r].version
          /\ v.rows[r].version = orders[r].version => v.rows[r] = orders[r]
      BY DEF SessionOK, CopiesOK
    <3>2. v.rows[r].version \in Nat /\ orders[r].version \in Nat /\ orders'[r].version \in Nat
      BY DEF TypeOK, TxRecords, OrderRows
    <3>. QED BY <3>1, <3>2
  <2>. QED BY <2>1 DEF CopiesOK
<1>v. \A r \in Requests : /\ orders[r] \in OrderRows /\ orders'[r] \in OrderRows /\ v.rows[r] \in OrderRows
                          /\ orders'[r] = orders[r] \/ orders'[r].version > orders[r].version
  BY DEF TypeOK, TxRecords
<1>3. LocksOK(v)'
  BY DEF SessionOK, LocksOK, TxRecords
<1>4. UnsentOK(v)'
  <2>1. ASSUME v.pc = "settleOrders", NEW r \in Unsent(v)
        PROVE  /\ v.rows[r].status = "CANCELLED"
               /\ v.rows[r].version <= orders'[r].version
               /\ v.rows[r].version = orders'[r].version =>
                    /\ orders'[r].status \in OpenStatuses
                    /\ v.rows[r] = [orders'[r] EXCEPT !.status = "CANCELLED"]
    <3>1. r \in Requests
      BY DEF Unsent, TxRecords
    <3>2. /\ v.rows[r].status = "CANCELLED"
          /\ v.rows[r].version <= orders[r].version
          /\ v.rows[r].version = orders[r].version =>
               /\ orders[r].status \in OpenStatuses
               /\ v.rows[r] = [orders[r] EXCEPT !.status = "CANCELLED"]
      BY <2>1 DEF SessionOK, UnsentOK
    <3>3. v.rows[r].version \in Nat /\ orders[r].version \in Nat /\ orders'[r].version \in Nat
      BY <1>v, <3>1 DEF OrderRows
    <3>4. CASE orders'[r] = orders[r]
      BY <3>2, <3>4
    <3>5. CASE orders'[r].version > orders[r].version
      BY <3>2, <3>3, <3>5
    <3>. QED BY <1>v, <3>1, <3>4, <3>5
  <2>. QED BY <2>1 DEF UnsentOK, Unsent
<1>5. PhaseOK(v)'
  <2>1. ASSUME NEW r \in Requests, orders[r].version > 0 PROVE orders'[r].version > 0
    <3>1. orders[r].version \in Nat /\ orders'[r].version \in Nat
      BY <1>v DEF OrderRows
    <3>. QED BY <1>v, <2>1, <3>1
  <2>2. \A r \in v.locked : orders'[r] = orders[r]
    BY DEF TxRecords
  <2>3. v.todo \subseteq Requests
    BY DEF TxRecords
  <2>4. v.pc = "match" => v.todo \subseteq v.locked
    BY DEF SessionOK, PhaseOK
  <2>. QED BY <2>1, <2>2, <2>3, <2>4 DEF SessionOK, PhaseOK
<1>6. WritesOK(v)' /\ ReleasesOK(v)'
  BY DEF SessionOK, WritesOK, ReleasesOK, Taking, Unsent, TxRecords
<1>. QED BY <1>1, <1>2, <1>3, <1>4, <1>5, <1>6 DEF SessionOK

\* The invariant after session s has ended and the tables have moved on.
LEMMA EndInv ==
  ASSUME Inv, TypeOK', TablesOK', NEW s \in Sessions, End(s),
         \A z \in Sessions \ {s} : \A v : v = tx[z] => SessionOK(v)'
  PROVE  Inv'
<1>1. \A z \in Sessions : tx'[z] = IF z = s THEN IdleTx ELSE tx[z]
  BY DEF End, Inv, TypeOK
<1>2. SessionOK(IdleTx)'
  <2>1. RowsStart'
    BY DEF TablesOK
  <2>. QED BY <2>1, IdleOK, PTL
<1>3. ASSUME NEW z \in Sessions PROVE SessionOK(tx[z])'
  <2>1. PICK v : v = IF z = s THEN IdleTx ELSE tx[z]
    OBVIOUS
  <2>2. CASE z # s
    <3>1. SessionOK(v)' /\ tx'[z] = v
      BY <1>1, <2>1, <2>2
    <3>. QED BY <3>1, SessionNext
  <2>3. CASE z = s
    <3>1. tx'[z] = IdleTx
      BY <1>1, <2>3
    <3>. QED BY <1>2, <3>1, SessionNext
  <2>. QED BY <2>2, <2>3
<1>4. ASSUME NEW x \in Sessions, NEW z \in Sessions, x # z PROVE Apart(tx[x], tx[z])'
  <2>1. IdleTx.locked = {} /\ ~ Taking(IdleTx)
    BY DEF IdleTx, Taking, PlacePCs
  <2>. QED BY <1>1, <1>4, <2>1 DEF Inv, Apart, Taking
<1>. QED BY <1>3, <1>4 DEF Inv

\* A rollback writes nothing and gives its locks back.
LEMMA RollbackInv ==
  ASSUME Inv, NEW s \in Sessions, Rollback(s)
  PROVE  Inv'
<1>1. TypeOK' /\ TablesOK'
  BY RollbackType DEF Inv, Rollback, TablesOK, RowsStart, RowsCoherent, ReleaseExact
<1>2. \A z \in Sessions \ {s} : \A v : v = tx[z] => SessionOK(v)'
  BY SessionSame DEF Inv, Rollback
<1>. QED BY <1>1, <1>2, EndInv DEF Rollback

\* A commit keeps the invariant when every row it writes makes sense, is at
\* the version of its copy, was open or is the session's own new order, and is
\* locked by nobody else.
LEMMA CommitInv ==
  ASSUME Inv, TypeOK', NEW s \in Sessions, NEW t \in TxRecords, Commit(s, t),
         market' = market \/ market'.version > market.version,
         \A r \in t.dirty :
            /\ Coherent(r, t.rows[r])
            /\ t.rows[r].version = orders[r].version
            /\ (orders[r].status \in OpenStatuses \/ (Taking(t) /\ r = t.order)),
         Taking(t) => ~ KeyTaken(t.order),
         \A z \in Sessions \ {s} :
            /\ t.dirty \cap tx[z].locked = {}
            /\ Apart(t, tx[z]),
         \A r \in Requests :
            /\ ReleasesExact(t.entries, r, t.rows[r])
            /\ \A e \in t.entries : e.key \in ReleaseKeys(r) => r \in t.dirty
  PROVE  Inv'
<1>t. /\ t.dirty \in SUBSET Requests
      /\ \A r \in Requests : /\ t.rows[r] \in OrderRows /\ orders[r] \in OrderRows
                             /\ r.user \in Users
  BY RequestType DEF TxRecords, Inv, TypeOK
<1>o. \A r \in Requests :
         orders'[r] = IF r \in t.dirty THEN [t.rows[r] EXCEPT !.version = @ + 1] ELSE orders[r]
  BY DEF Commit
<1>d. ASSUME NEW r \in t.dirty
      PROVE  /\ orders'[r].version = orders[r].version + 1
             /\ orders'[r].status = t.rows[r].status
             /\ orders'[r].matched = t.rows[r].matched
  <2>1. orders'[r] = [t.rows[r] EXCEPT !.version = @ + 1] /\ t.rows[r] \in OrderRows
    BY <1>t, <1>o
  <2>. QED BY <2>1, SMT DEF OrderRows
<1>a. \A r \in t.dirty : orders[r].status \in OpenStatuses \/ orders[r].status = "ABSENT"
  BY <1>t DEF KeyTaken
<1>1. RowsStart'
  <2>1. ASSUME NEW r \in Requests, orders'[r].version = 0 PROVE orders'[r] = NoRow
    <3>1. r \notin t.dirty
      BY <1>t, <1>d, <2>1 DEF OrderRows
    <3>. QED BY <1>o, <2>1, <3>1 DEF Inv, TablesOK, RowsStart
  <2>. QED BY <2>1 DEF RowsStart
<1>2. RowsCoherent'
  <2>1. ASSUME NEW r \in Requests PROVE Coherent(r, orders'[r])
    <3>1. CASE r \in t.dirty
      BY <1>d, <3>1 DEF Coherent
    <3>2. CASE r \notin t.dirty
      BY <1>o, <3>2 DEF Inv, TablesOK, RowsCoherent
    <3>. QED BY <3>1, <3>2
  <2>. QED BY <2>1 DEF RowsCoherent
<1>3. ReleaseExact'
  <2>1. ASSUME NEW r \in Requests PROVE ReleasesExact(ledger', r, orders'[r])
    <3>1. ledger' = ledger \cup t.entries
      BY DEF Commit
    <3>2. ReleasesExact(ledger, r, orders[r])
      BY DEF Inv, TablesOK, ReleaseExact
    <3>3. CASE r \in t.dirty
      <4>1. \A e \in ledger : e.key \notin ReleaseKeys(r)
        BY <1>a, <3>2, <3>3 DEF ReleasesExact, OpenStatuses
      <4>2. Remaining(r, orders'[r]) = Remaining(r, t.rows[r])
        BY <1>d, <3>3 DEF Remaining
      <4>. QED BY <1>d, <3>1, <3>3, <4>1, <4>2 DEF ReleasesExact
    <3>4. CASE r \notin t.dirty
      <4>1. orders'[r] = orders[r]
        BY <1>o, <3>4
      <4>. QED BY <3>1, <3>2, <3>4, <4>1 DEF ReleasesExact
    <3>. QED BY <3>3, <3>4
  <2>. QED BY <2>1 DEF ReleaseExact, ReleasesExact
<1>4. ASSUME NEW z \in Sessions \ {s}, NEW v, v = tx[z] PROVE SessionOK(v)'
  <2>1. v \in TxRecords /\ SessionOK(v) /\ TypeOK
    BY <1>4 DEF Inv, TypeOK
  <2>2. \A r \in t.dirty : orders'[r].version > orders[r].version
    BY <1>t, <1>d DEF OrderRows
  <2>3. ASSUME Taking(v), KeyTaken(v.order)' PROVE KeyTaken(v.order)
    <3>1. PICK q \in Requests : /\ q.user = v.order.user /\ q.key = v.order.key
                                /\ orders'[q].status # "ABSENT"
      BY <2>3 DEF KeyTaken
    <3>2. CASE orders[q].status # "ABSENT"
      BY <3>1, <3>2 DEF KeyTaken
    <3>3. CASE orders[q].status = "ABSENT"
      <4>1. q \in t.dirty
        BY <1>o, <3>1, <3>3
      <4>2. Taking(t) /\ q = t.order
        BY <3>3, <4>1 DEF OpenStatuses
      <4>. QED BY <1>4, <2>3, <3>1, <4>2 DEF Apart
    <3>. QED BY <3>2, <3>3
  <2>4. v.locked \cap t.dirty = {}
    BY <1>4
  <2>5. \A r \in Requests \ t.dirty : orders'[r] = orders[r]
    BY <1>o
  <2>. QED BY <1>t, <2>1, <2>2, <2>3, <2>4, <2>5, SessionKept
<1>5. TablesOK'
  BY <1>1, <1>2, <1>3 DEF TablesOK
<1>. QED BY <1>4, <1>5, EndInv DEF Commit

-----------------------------------------------------------------------------
(* The inductive invariant: every step keeps it                             *)

\* The first step of a handler that has read no order row.
LEMMA BeginOK ==
  ASSUME TypeOK, RowsStart, NEW t \in TxRecords, MarketCopyOK(t),
         t.pc \in {"insert", "settleBets", "transition"},
         t.rows = IdleTx.rows, t.dirty = {}, t.locked = {}, t.entries = {}
  PROVE  SessionOK(t) /\ \A v : Apart(t, v) /\ Apart(v, t)
<1>1. SessionOK(IdleTx) /\ IdleTx.dirty = {}
  BY IdleOK DEF IdleTx
<1>2. CopiesOK(t)
  BY <1>1 DEF SessionOK, CopiesOK
<1>3. ~ Taking(t)
  BY DEF Taking, PlacePCs
<1>4. LocksOK(t) /\ UnsentOK(t) /\ WritesOK(t) /\ PhaseOK(t) /\ ReleasesOK(t)
  BY <1>3 DEF LocksOK, UnsentOK, WritesOK, PhaseOK, ReleasesOK, ReleasesExact
<1>5. \A v : Apart(t, v) /\ Apart(v, t)
  BY <1>3 DEF Apart
<1>. QED BY <1>2, <1>4, <1>5 DEF SessionOK

\* PlaceBegin has read no order row.
LEMMA PlaceBeginInv ==
  ASSUME Inv, NEW s \in Sessions, NEW r \in Requests, PlaceBegin(s, r)
  PROVE  Inv'
<1>. DEFINE t2 == [IdleTx EXCEPT !.pc = "insert", !.order = r, !.market = market]
<1>1. t2 \in TxRecords
  BY IdleType DEF TxRecords, PCs, PlacePCs, Inv, TypeOK
<1>2. /\ t2.pc = "insert" /\ t2.rows = IdleTx.rows /\ t2.dirty = {} /\ t2.locked = {}
      /\ t2.entries = {}
  BY DEF IdleTx
<1>3. Private(s, t2) /\ clock' \in Nat
  BY DEF PlaceBegin, Inv, TypeOK
<1>. HIDE DEF t2
<1>4. MarketCopyOK(t2)
  BY <1>2 DEF MarketCopyOK
<1>. QED BY <1>1, <1>2, <1>3, <1>4, BeginOK, PrivateInv DEF Inv, TablesOK

\* PlaceInsert has the only order of its key, which no other session sees.
LEMMA PlaceInsertInv ==
  ASSUME Inv, NEW s \in Sessions, PlaceInsert(s)
  PROVE  Inv'
<1>. DEFINE t == tx[s]
            r == t.order
            row == [status |-> "OPEN", matched |-> 0, created |-> clock, version |-> 0]
            t2 == [t EXCEPT !.pc = "reserve", !.rows[r] = row, !.dirty = {r}]
<1>t. t \in TxRecords /\ r \in Requests /\ r.stake \in Nat /\ TypeOK
  BY TxType, RequestType DEF Inv
<1>1. row \in OrderRows
  BY DEF OrderRows, OrderStatuses, Inv, TypeOK
<1>2. t2 \in TxRecords
  BY <1>t, <1>1 DEF TxRecords, PCs, PlacePCs
<1>3. /\ t2.pc = "reserve" /\ t2.dirty = {r} /\ t2.locked = t.locked /\ t2.order = r
      /\ t2.entries = t.entries
      /\ \A q \in Requests : t2.rows[q] = IF q = r THEN row ELSE t.rows[q]
  BY <1>t DEF TxRecords
<1>4. Private(s, t2) /\ clock' \in Nat
  BY DEF PlaceInsert, Inv, TypeOK
<1>5. t.pc = "insert" /\ ~ KeyInFlight(s, r) /\ ~ KeyTaken(r)
  BY DEF PlaceInsert
<1>6. SessionOK(t)
  BY DEF Inv
<1>. HIDE DEF t2
<1>7. t.dirty = {} /\ t.locked = {}
  BY <1>5, <1>6 DEF SessionOK, PhaseOK
<1>8. SessionOK(t2)
  <2>1. MarketCopyOK(t2) /\ LocksOK(t2) /\ UnsentOK(t2)
    BY <1>3, <1>7 DEF MarketCopyOK, LocksOK, UnsentOK
  <2>2. CopiesOK(t2)
    BY <1>3, <1>6, <1>7 DEF SessionOK, CopiesOK
  <2>3. WritesOK(t2)
    <3>1. Taking(t2)
      BY <1>3 DEF Taking, PlacePCs
    <3>2. t2.rows[r].matched = 0 /\ 0 <= r.stake /\ t2.rows[r].version = 0
      BY <1>t, <1>3
    <3>3. 0 >= 0
      OBVIOUS
    <3>. QED BY <1>3, <1>5, <3>1, <3>2, <3>3 DEF WritesOK
  <2>4. PhaseOK(t2)
    BY <1>3, <1>7 DEF PhaseOK
  <2>5. ReleasesOK(t2)
    BY <1>3, <1>5, <1>6 DEF SessionOK, ReleasesOK, ReleasesExact
  <2>. QED BY <2>1, <2>2, <2>3, <2>4, <2>5 DEF SessionOK
<1>9. \A z \in Sessions \ {s} : Apart(t2, tx[z]) /\ Apart(tx[z], t2)
  BY <1>3, <1>5, <1>7 DEF Apart, Taking, KeyInFlight
<1>. QED BY <1>2, <1>4, <1>8, <1>9, PrivateInv

\* PlaceReserve posts a hold, which is not a release.
LEMMA PlaceReserveInv ==
  ASSUME Inv, NEW s \in Sessions, PlaceReserve(s)
  PROVE  Inv'
<1>. DEFINE t == tx[s]
            r == t.order
            entry == [key |-> HoldKey(r), user |-> r.user, balance |-> 0,
                      reserved |-> Exposure(r)]
            p == Post(s, t, r.user, HoldKey(r), 0, Exposure(r))
            t2 == [p EXCEPT !.pc = "lock", !.todo = Matchable(r)]
<1>t. t \in TxRecords /\ r \in Requests /\ TypeOK
  BY TxType DEF Inv
<1>u. r.user \in Users /\ Exposure(r) \in Int /\ HoldKey(r) \in LedgerKeys
  BY <1>t, RequestType, LiabilityType, SMT DEF Exposure, HoldKey, LedgerKeys
<1>p. /\ p \in TxRecords /\ p.order = r /\ p.rows = t.rows /\ p.dirty = t.dirty
      /\ p.locked = t.locked /\ p.entries \subseteq t.entries \cup {entry}
  BY <1>t, <1>u, PostType, PostFields
<1>q. Private(s, t2) /\ clock' \in Nat /\ t.pc = "reserve"
  BY DEF PlaceReserve, Inv, TypeOK
<1>. HIDE DEF p
<1>2. t2 \in TxRecords
  BY <1>p DEF TxRecords, PCs, PlacePCs, Matchable
<1>3. /\ t2.pc = "lock" /\ t2.dirty = t.dirty /\ t2.locked = t.locked /\ t2.order = r
      /\ t2.rows = t.rows /\ t2.entries \subseteq t.entries \cup {entry}
      /\ t2.todo = Matchable(r)
  BY <1>p DEF TxRecords
<1>. HIDE DEF t2
<1>6. SessionOK(t)
  BY DEF Inv
<1>8. SessionOK(t2)
  <2>0. Taking(t) /\ Taking(t2)
    BY <1>3, <1>q DEF Taking, PlacePCs
  <2>1. MarketCopyOK(t2) /\ LocksOK(t2) /\ CopiesOK(t2) /\ UnsentOK(t2)
    BY <1>3, <1>6 DEF SessionOK, MarketCopyOK, LocksOK, CopiesOK, UnsentOK
  <2>3. WritesOK(t2)
    BY <1>3, <1>6, <1>q, <2>0 DEF SessionOK, WritesOK
  <2>4. PhaseOK(t2)
    <3>1. t.dirty = {r} /\ t.locked = {}
      BY <1>6, <1>q DEF SessionOK, PhaseOK
    <3>2. \A m \in Matchable(r) : Suits(r, m)
      BY DEF Matchable, Suits
    <3>3. ASSUME NEW m \in Matchable(r) PROVE orders[m].version > 0
      <4>1. m \in Requests /\ orders[m].status \in OpenStatuses
        BY DEF Matchable
      <4>2. orders[m].version \in Nat
        BY <1>t, <4>1 DEF TypeOK, OrderRows
      <4>3. orders[m].version # 0
        BY <4>1 DEF Inv, TablesOK, RowsStart, NoRow, OpenStatuses
      <4>. QED BY <4>2, <4>3
    <3>. QED BY <1>3, <3>1, <3>2, <3>3 DEF PhaseOK
  <2>5. ReleasesOK(t2)
    <3>1. \A x \in Requests : entry.key \notin ReleaseKeys(x)
      BY <1>t, KeyFacts DEF HoldKey, ReleaseKey, ReleaseSettleKey, ReleaseKeys
    <3>. QED BY <1>3, <1>6, <1>q, <3>1 DEF SessionOK, ReleasesOK, ReleasesExact
  <2>. QED BY <2>1, <2>3, <2>4, <2>5 DEF SessionOK
<1>9. \A z \in Sessions \ {s} : Apart(t2, tx[z]) /\ Apart(tx[z], t2)
  <2>1. Taking(t)
    BY <1>q DEF Taking, PlacePCs
  <2>. QED BY <1>3, <2>1 DEF Inv, Apart
<1>. QED BY <1>2, <1>q, <1>8, <1>9, PrivateInv

\* PlaceLock reads the row again under its lock: its copy is the row.
LEMMA PlaceLockInv ==
  ASSUME Inv, NEW s \in Sessions, NEW m \in Requests, PlaceLock(s, m)
  PROVE  Inv'
<1>. DEFINE t == tx[s]
            r == t.order
            t2 == [t EXCEPT !.todo = @ \ {m}, !.locked = @ \cup {m}, !.rows[m] = orders[m]]
<1>t. /\ t \in TxRecords /\ r \in Requests /\ TypeOK
      /\ orders[m] \in OrderRows /\ orders[m].version \in Nat
  BY TxType DEF Inv, TypeOK, OrderRows
<1>q. /\ Private(s, t2) /\ clock' \in Nat /\ t.pc = "lock" /\ m \in t.todo
      /\ OrderFree(s, m)
  BY DEF PlaceLock, FirstOf, Inv, TypeOK
<1>2. t2 \in TxRecords
  BY <1>t DEF TxRecords
<1>3. /\ t2.pc = "lock" /\ t2.dirty = t.dirty /\ t2.locked = t.locked \cup {m}
      /\ t2.order = r /\ t2.todo = t.todo \ {m} /\ t2.entries = t.entries
      /\ \A q \in Requests : t2.rows[q] = IF q = m THEN orders[m] ELSE t.rows[q]
  BY <1>t, <1>q DEF TxRecords
<1>6. SessionOK(t) /\ Taking(t)
  BY <1>q DEF Inv, Taking, PlacePCs
<1>7. /\ t.dirty = {r} /\ Suits(r, m) /\ orders[m].version > 0
  BY <1>6, <1>q DEF SessionOK, PhaseOK
<1>r. r # m
  <2>1. r.side \in Sides
    BY <1>t, RequestType
  <2>. QED BY <1>7, <2>1 DEF Suits, Opposite, Sides
<1>. HIDE DEF t2
<1>8. SessionOK(t2)
  <2>0. Taking(t2)
    BY <1>3 DEF Taking, PlacePCs
  <2>1. MarketCopyOK(t2) /\ UnsentOK(t2)
    BY <1>3 DEF MarketCopyOK, UnsentOK
  <2>2. LocksOK(t2)
    <3>1. t.locked \subseteq Requests
      BY <1>t DEF TxRecords
    <3>. QED BY <1>3, <1>6, <1>7, <3>1 DEF SessionOK, LocksOK
  <2>3. CopiesOK(t2)
    <3>1. orders[m].version <= orders[m].version
      BY <1>t
    <3>. QED BY <1>3, <1>6, <3>1 DEF SessionOK, CopiesOK
  <2>4. WritesOK(t2)
    BY <1>t, <1>3, <1>6, <1>7, <1>r, <2>0 DEF SessionOK, WritesOK
  <2>5. PhaseOK(t2)
    BY <1>3, <1>6, <1>7, <1>q DEF SessionOK, PhaseOK
  <2>6. ReleasesOK(t2)
    BY <1>3, <1>6, <1>q DEF SessionOK, ReleasesOK, ReleasesExact
  <2>. QED BY <2>1, <2>2, <2>3, <2>4, <2>5, <2>6 DEF SessionOK
<1>9. \A z \in Sessions \ {s} : Apart(t2, tx[z]) /\ Apart(tx[z], t2)
  <2>1. \A z \in Sessions \ {s} : m \notin tx[z].locked
    BY <1>q DEF OrderFree
  <2>. QED BY <1>3, <1>6, <2>1 DEF Inv, Apart
<1>. QED BY <1>2, <1>q, <1>8, <1>9, PrivateInv

\* PlaceMakers goes on with locked rows that are open.
LEMMA PlaceMakersInv ==
  ASSUME Inv, NEW s \in Sessions, PlaceMakers(s)
  PROVE  Inv'
<1>. DEFINE t == tx[s]
            r == t.order
            t2 == [t EXCEPT !.pc = "match", !.todo = t.locked \cap Matchable(r)]
<1>t. t \in TxRecords /\ r \in Requests /\ TypeOK
  BY TxType DEF Inv
<1>q. Private(s, t2) /\ clock' \in Nat /\ t.pc = "lock"
  BY DEF PlaceMakers, Inv, TypeOK
<1>2. t2 \in TxRecords
  BY <1>t DEF TxRecords, PCs, PlacePCs
<1>3. /\ t2.pc = "match" /\ t2.dirty = t.dirty /\ t2.locked = t.locked /\ t2.order = r
      /\ t2.todo = t.locked \cap Matchable(r) /\ t2.entries = t.entries /\ t2.rows = t.rows
  BY <1>t DEF TxRecords
<1>6. SessionOK(t) /\ Taking(t)
  BY <1>q DEF Inv, Taking, PlacePCs
<1>7. t.dirty = {r} /\ \A m \in t.locked : Suits(r, m)
  BY <1>6, <1>q DEF SessionOK, PhaseOK
<1>r. r \notin t.locked
  <2>1. r.side \in Sides
    BY <1>t, RequestType
  <2>. QED BY <1>7, <2>1 DEF Suits, Opposite, Sides
<1>. HIDE DEF t2
<1>8. SessionOK(t2)
  <2>0. Taking(t2)
    BY <1>3 DEF Taking, PlacePCs
  <2>1. MarketCopyOK(t2) /\ UnsentOK(t2)
    BY <1>3 DEF MarketCopyOK, UnsentOK
  <2>2. LocksOK(t2) /\ CopiesOK(t2)
    BY <1>3, <1>6 DEF SessionOK, LocksOK, CopiesOK
  <2>3. WritesOK(t2)
    BY <1>3, <1>6, <1>7, <2>0 DEF SessionOK, WritesOK
  <2>4. PhaseOK(t2)
    BY <1>3, <1>7, <1>r DEF PhaseOK, Matchable
  <2>5. ReleasesOK(t2)
    BY <1>3, <1>6, <1>q DEF SessionOK, ReleasesOK, ReleasesExact
  <2>. QED BY <2>1, <2>2, <2>3, <2>4, <2>5 DEF SessionOK
<1>9. \A z \in Sessions \ {s} : Apart(t2, tx[z]) /\ Apart(tx[z], t2)
  BY <1>3, <1>6 DEF Inv, Apart
<1>. QED BY <1>2, <1>q, <1>8, <1>9, PrivateInv

\* PlaceMatch fills no more than both orders have left.
LEMMA PlaceMatchInv ==
  ASSUME Inv, NEW s \in Sessions, NEW m \in Requests, PlaceMatch(s, m)
  PROVE  Inv'
<1>. DEFINE t == tx[s]
            r == t.order
            open == Remaining(r, t.rows[r])
            offered == Remaining(m, t.rows[m])
            size == IF open <= offered THEN open ELSE offered
            filled == [t.rows[m] EXCEPT !.matched = @ + size]
            maker == [filled EXCEPT !.status =
                        IF Remaining(m, filled) = 0 THEN "MATCHED" ELSE "PARTIALLY_MATCHED"]
            rows2 == [t.rows EXCEPT ![r].matched = @ + size, ![m] = maker]
            fills == {[taker |-> r, maker |-> m, side |-> x, stake |-> size] : x \in Sides}
            t2 == [t EXCEPT !.rows = rows2, !.dirty = @ \cup {m}, !.todo = @ \ {m},
                            !.newBets = @ \cup fills]
<1>t. /\ t \in TxRecords /\ r \in Requests /\ TypeOK
      /\ r.stake \in Nat /\ m.stake \in Nat /\ r.stake > 0 /\ m.stake > 0
      /\ t.rows[r] \in OrderRows /\ t.rows[m] \in OrderRows
      /\ t.rows[r].matched \in Int /\ t.rows[m].matched \in Int
      /\ t.rows[r].version \in Nat /\ t.rows[m].version \in Nat
  BY TxType, RequestType DEF Inv, OrderRows
<1>q. /\ Private(s, t2) /\ clock' \in Nat /\ t.pc = "match" /\ m \in t.todo /\ open > 0
  BY DEF PlaceMatch, NextMaker, FirstOf, Inv, TypeOK
<1>6. SessionOK(t) /\ TablesOK /\ Taking(t)
  BY <1>q DEF Inv, Taking, PlacePCs
<1>m. /\ m \in t.locked /\ m \notin t.dirty /\ t.rows[m] = orders[m]
      /\ orders[m].status \in OpenStatuses /\ Coherent(m, orders[m])
  <2>1. m \in t.locked /\ m \notin t.dirty
    BY <1>6, <1>q DEF SessionOK, PhaseOK
  <2>2. orders[m].status \in OpenStatuses /\ t.rows[m].version = orders[m].version
    BY <1>6, <1>q, <2>1 DEF SessionOK, LocksOK, PhaseOK
  <2>3. t.rows[m] = orders[m]
    BY <1>6, <2>1, <2>2 DEF SessionOK, CopiesOK
  <2>. QED BY <1>6, <2>1, <2>2, <2>3 DEF TablesOK, RowsCoherent
<1>r. /\ r # m /\ r \in t.dirty /\ ~ KeyTaken(r) /\ t.rows[r].version = 0
      /\ t.rows[r].matched >= 0 /\ t.rows[r].matched <= r.stake
  <2>1. /\ r \in t.dirty /\ ~ KeyTaken(r) /\ t.rows[r].version = 0
        /\ t.rows[r].matched >= 0 /\ t.rows[r].matched <= r.stake
    BY <1>6 DEF SessionOK, WritesOK
  <2>. QED BY <1>m, <2>1
<1>s. /\ size \in Int /\ size > 0
      /\ t.rows[r].matched + size <= r.stake
      /\ t.rows[m].matched + size <= m.stake
      /\ t.rows[m].matched >= 0
  <2>1. offered > 0 /\ t.rows[m].matched >= 0
    <3>1. t.rows[m].matched # m.stake /\ t.rows[m].matched <= m.stake /\ t.rows[m].matched >= 0
      BY <1>m DEF Coherent, OpenStatuses
    <3>. QED BY <1>t, <3>1 DEF Remaining
  <2>2. open = r.stake - t.rows[r].matched /\ offered = m.stake - t.rows[m].matched
    BY DEF Remaining
  <2>3. open > 0
    BY <1>q
  <2>. HIDE DEF open, offered
  <2>4. open \in Int /\ offered \in Int
    BY <1>t, <2>2
  <2>5. size \in Int /\ size > 0 /\ size <= open /\ size <= offered
    BY <2>1, <2>3, <2>4
  <2>. HIDE DEF size
  <2>. QED BY <1>t, <2>1, <2>2, <2>5
<1>f. /\ filled \in OrderRows /\ filled.matched = t.rows[m].matched + size
      /\ filled.version = t.rows[m].version
  <2>. HIDE DEF size
  <2>. QED BY <1>t, <1>s, SMT DEF OrderRows
<1>k. /\ maker \in OrderRows /\ maker.matched = t.rows[m].matched + size
      /\ maker.version = t.rows[m].version
      /\ maker.status = IF Remaining(m, filled) = 0 THEN "MATCHED" ELSE "PARTIALLY_MATCHED"
  <2>. HIDE DEF size, filled
  <2>. QED BY <1>f, SMT DEF OrderRows, OrderStatuses
<1>c. Coherent(m, maker)
  <2>. HIDE DEF size, filled, maker
  <2>1. Remaining(m, filled) = m.stake - maker.matched
    BY <1>f, <1>k DEF Remaining
  <2>. QED BY <1>t, <1>s, <1>k, <2>1 DEF Coherent
<1>e. /\ [t.rows[r] EXCEPT !.matched = @ + size] \in OrderRows
      /\ [t.rows[r] EXCEPT !.matched = @ + size].matched = t.rows[r].matched + size
      /\ [t.rows[r] EXCEPT !.matched = @ + size].version = t.rows[r].version
  BY <1>t, <1>s, SMT DEF OrderRows
<1>1. /\ rows2 \in [Requests -> OrderRows]
      /\ \A q \in Requests \ {r, m} : rows2[q] = t.rows[q]
      /\ rows2[m] = maker
      /\ rows2[r].matched = t.rows[r].matched + size
      /\ rows2[r].version = t.rows[r].version
  <2>. HIDE DEF maker, size
  <2>. QED BY <1>t, <1>k, <1>e, <1>r DEF TxRecords
<1>2. t2 \in TxRecords
  <2>1. fills \subseteq BetRecords
    BY <1>t, <1>s DEF BetRecords
  <2>. HIDE DEF fills, rows2
  <2>. QED BY <1>t, <1>1, <2>1 DEF TxRecords
<1>3. /\ t2.pc = "match" /\ t2.dirty = t.dirty \cup {m} /\ t2.locked = t.locked /\ t2.order = r
      /\ t2.todo = t.todo \ {m} /\ t2.entries = t.entries /\ t2.rows = rows2
  <2>. HIDE DEF fills, rows2
  <2>. QED BY <1>t, <1>q DEF TxRecords
<1>. HIDE DEF t2, rows2, maker, filled, size, open, offered
<1>8. SessionOK(t2)
  <2>0. Taking(t2)
    BY <1>3 DEF Taking, PlacePCs
  <2>1. MarketCopyOK(t2) /\ UnsentOK(t2)
    BY <1>3 DEF MarketCopyOK, UnsentOK
  <2>2. LocksOK(t2)
    <3>1. t.locked \subseteq Requests
      BY <1>t DEF TxRecords
    <3>2. \A q \in t.locked : rows2[q].version = t.rows[q].version
      BY <1>t, <1>1, <1>k, <3>1
    <3>. QED BY <1>3, <1>6, <3>2 DEF SessionOK, LocksOK
  <2>3. CopiesOK(t2)
    BY <1>1, <1>3, <1>6, <1>r DEF SessionOK, CopiesOK
  <2>4. WritesOK(t2)
    <3>1. ASSUME NEW q \in t2.dirty
          PROVE  \/ q \in t2.locked /\ orders[q].status \in OpenStatuses /\ Coherent(q, t2.rows[q])
                 \/ q = r
      <4>1. CASE q = m
        BY <1>1, <1>3, <1>c, <1>m, <4>1
      <4>2. CASE q # m /\ q # r
        <5>1. q \in t.dirty /\ q \in Requests
          BY <1>t, <1>3, <4>2 DEF TxRecords
        <5>2. q \in t.locked /\ orders[q].status \in OpenStatuses /\ Coherent(q, t.rows[q])
          BY <1>6, <1>q, <4>2, <5>1 DEF SessionOK, WritesOK
        <5>. QED BY <1>1, <1>3, <4>2, <5>1, <5>2
      <4>. QED BY <4>1, <4>2
    <3>2. /\ t2.rows[r].matched >= 0 /\ t2.rows[r].matched <= r.stake
          /\ t2.rows[r].version = 0
      BY <1>t, <1>1, <1>3, <1>r, <1>s
    <3>. QED BY <1>3, <1>r, <2>0, <3>1, <3>2 DEF WritesOK
  <2>5. PhaseOK(t2)
    BY <1>3, <1>6, <1>q DEF SessionOK, PhaseOK
  <2>6. ReleasesOK(t2)
    BY <1>3, <1>6, <1>q DEF SessionOK, ReleasesOK, ReleasesExact
  <2>. QED BY <2>1, <2>2, <2>3, <2>4, <2>5, <2>6 DEF SessionOK
<1>9. \A z \in Sessions \ {s} : Apart(t2, tx[z]) /\ Apart(tx[z], t2)
  BY <1>3, <1>6 DEF Inv, Apart
<1>. QED BY <1>2, <1>q, <1>8, <1>9, PrivateInv

\* PlaceCommit writes locked makers and its own new order.
LEMMA PlaceCommitInv ==
  ASSUME Inv, TypeOK', NEW s \in Sessions, PlaceCommit(s)
  PROVE  Inv'
<1>. DEFINE t == tx[s]
            r == t.order
            status == StatusOf(r, t.rows[r])
            t2 == [t EXCEPT !.rows[r].status = status]
<1>t. /\ t \in TxRecords /\ r \in Requests /\ r.stake \in Nat /\ TypeOK
      /\ t.rows[r] \in OrderRows /\ t.rows[r].matched \in Int
  BY TxType, RequestType DEF Inv, OrderRows
<1>q. /\ Commit(s, t2) /\ t.pc = "match" /\ market' = market
      /\ \A m \in t.dirty : t.rows[m].version = orders[m].version
  BY DEF PlaceCommit, Fresh
<1>6. SessionOK(t) /\ Taking(t)
  BY <1>q DEF Inv, Taking, PlacePCs
<1>7. /\ t.rows[r].matched >= 0 /\ t.rows[r].matched <= r.stake /\ ~ KeyTaken(r) /\ r \in t.dirty
      /\ t.rows[r].version = 0
      /\ \A m \in t.dirty : \/ /\ m \in t.locked /\ orders[m].status \in OpenStatuses
                                /\ Coherent(m, t.rows[m])
                             \/ m = r
  BY <1>6, <1>q DEF SessionOK, WritesOK
<1>o. status \in OrderStatuses
  BY DEF StatusOf, OrderStatuses
<1>e. /\ [t.rows[r] EXCEPT !.status = status] \in OrderRows
      /\ [t.rows[r] EXCEPT !.status = status].status = status
      /\ [t.rows[r] EXCEPT !.status = status].matched = t.rows[r].matched
      /\ [t.rows[r] EXCEPT !.status = status].version = t.rows[r].version
  <2>. HIDE DEF status
  <2>. QED BY <1>t, <1>o DEF OrderRows
<1>2. t2 \in TxRecords
  <2>. HIDE DEF status
  <2>. QED BY <1>t, <1>e DEF TxRecords
<1>3. /\ t2.dirty = t.dirty /\ t2.locked = t.locked /\ t2.order = r /\ t2.pc = "match"
      /\ t2.entries = t.entries
      /\ \A q \in Requests \ {r} : t2.rows[q] = t.rows[q]
      /\ t2.rows[r] = [t.rows[r] EXCEPT !.status = status]
  <2>. HIDE DEF status
  <2>. QED BY <1>t, <1>q DEF TxRecords
<1>x. /\ t2.rows[r].status = status /\ t2.rows[r].matched = t.rows[r].matched
      /\ t2.rows[r].version = t.rows[r].version
  <2>. HIDE DEF status, t2
  <2>. QED BY <1>3, <1>e
<1>4. Coherent(r, t2.rows[r])
  <2>1. /\ t.rows[r].matched = r.stake => status = "MATCHED"
        /\ t.rows[r].matched # r.stake /\ t.rows[r].matched > 0 => status = "PARTIALLY_MATCHED"
        /\ t.rows[r].matched # r.stake /\ t.rows[r].matched = 0 => status = "OPEN"
    BY <1>t DEF StatusOf, Remaining
  <2>2. r.stake > 0
    BY <1>t, RequestType
  <2>3. status \in {"MATCHED", "PARTIALLY_MATCHED", "OPEN"}
    BY DEF StatusOf
  <2>. HIDE DEF status, t2
  <2>. QED BY <1>t, <1>x, <1>7, <2>1, <2>2, <2>3 DEF Coherent
<1>. HIDE DEF t2, status
<1>5. \A q \in t2.dirty :
         /\ Coherent(q, t2.rows[q])
         /\ t2.rows[q].version = orders[q].version
         /\ (orders[q].status \in OpenStatuses \/ (Taking(t2) /\ q = t2.order))
  <2>1. ASSUME NEW q \in t.dirty, q # r
        PROVE  /\ Coherent(q, t2.rows[q])
               /\ t2.rows[q].version = orders[q].version
               /\ orders[q].status \in OpenStatuses
    <3>1. /\ t2.rows[q] = t.rows[q] /\ orders[q].status \in OpenStatuses
          /\ Coherent(q, t.rows[q])
      BY <1>t, <1>3, <1>7, <2>1 DEF TxRecords
    <3>. QED BY <1>q, <2>1, <3>1
  <2>2. Taking(t2)
    BY <1>3 DEF Taking, PlacePCs
  <2>3. \A q \in t.dirty : t.rows[q].version = orders[q].version
    BY <1>q
  <2>4. t2.rows[r].version = orders[r].version
    BY <1>7, <1>x, <2>3
  <2>5. t2.dirty = t.dirty /\ t2.order = r
    BY <1>3
  <2>. HIDE DEF t, r
  <2>. QED BY <1>4, <2>1, <2>2, <2>4, <2>5
<1>8. \A z \in Sessions \ {s} : t2.dirty \cap tx[z].locked = {} /\ Apart(t2, tx[z])
  <2>1. ASSUME NEW z \in Sessions \ {s} PROVE t2.dirty \cap tx[z].locked = {}
    <3>1. t.locked \cap tx[z].locked = {}
      BY DEF Inv, Apart
    <3>2. r \notin tx[z].locked
      <4>1. orders[r].version = 0
        BY <1>7, <1>q
      <4>. QED BY <4>1 DEF Inv, SessionOK, LocksOK
    <3>. QED BY <1>3, <1>7, <3>1, <3>2
  <2>2. \A z \in Sessions \ {s} : Apart(t2, tx[z])
    BY <1>3, <1>6 DEF Inv, Apart
  <2>. QED BY <2>1, <2>2
<1>9. \A q \in Requests :
         /\ ReleasesExact(t2.entries, q, t2.rows[q])
         /\ \A e \in t2.entries : e.key \in ReleaseKeys(q) => q \in t2.dirty
  BY <1>3, <1>6, <1>q DEF SessionOK, ReleasesOK, ReleasesExact
<1>k. Taking(t2) => ~ KeyTaken(t2.order)
  BY <1>3, <1>7
<1>. QED BY <1>2, <1>q, <1>5, <1>8, <1>9, <1>k, CommitInv

\* CancelBegin has read an open row without locking it.
LEMMA CancelBeginInv ==
  ASSUME Inv, NEW s \in Sessions, NEW r \in Requests, CancelBegin(s, r)
  PROVE  Inv'
<1>. DEFINE t2 == [IdleTx EXCEPT !.pc = "cancelFlush", !.order = r, !.rows[r] = orders[r]]
<1>1. t2 \in TxRecords
  BY IdleType DEF TxRecords, PCs, PlacePCs, Inv, TypeOK
<1>2. /\ t2.pc = "cancelFlush" /\ t2.dirty = {} /\ t2.locked = {} /\ t2.entries = {}
      /\ t2.order = r
      /\ \A q \in Requests : t2.rows[q] = IF q = r THEN orders[q] ELSE IdleTx.rows[q]
  BY DEF IdleTx
<1>3. Private(s, t2) /\ clock' \in Nat /\ orders[r].status \in OpenStatuses
  BY DEF CancelBegin, Inv, TypeOK
<1>4. ~ Taking(t2)
  BY <1>2 DEF Taking, PlacePCs
<1>. HIDE DEF t2
<1>5. SessionOK(t2)
  <2>1. /\ MarketCopyOK(t2) /\ LocksOK(t2) /\ UnsentOK(t2) /\ WritesOK(t2) /\ PhaseOK(t2)
        /\ ReleasesOK(t2)
    BY <1>2, <1>3, <1>4
       DEF MarketCopyOK, LocksOK, UnsentOK, WritesOK, PhaseOK, ReleasesOK, ReleasesExact
  <2>2. CopiesOK(t2)
    <3>1. CopiesOK(IdleTx) /\ IdleTx.dirty = {}
      BY IdleOK DEF Inv, TablesOK, SessionOK, IdleTx
    <3>2. orders[r].version <= orders[r].version
      BY DEF Inv, TypeOK, OrderRows
    <3>. QED BY <1>2, <3>1, <3>2 DEF CopiesOK
  <2>. QED BY <2>1, <2>2 DEF SessionOK
<1>6. \A z \in Sessions \ {s} : Apart(t2, tx[z]) /\ Apart(tx[z], t2)
  BY <1>2, <1>4 DEF Apart
<1>. QED BY <1>1, <1>3, <1>5, <1>6, PrivateInv

\* CancelFlush has locked the row and its copy is of that version.
LEMMA CancelFlushInv ==
  ASSUME Inv, NEW s \in Sessions, CancelFlush(s)
  PROVE  Inv'
<1>. DEFINE t == tx[s]
            r == t.order
            t2 == [t EXCEPT !.pc = "cancelRelease", !.locked = {r}, !.dirty = {r},
                            !.rows[r].status = "CANCELLED"]
            row == [t.rows[r] EXCEPT !.status = "CANCELLED"]
<1>t. t \in TxRecords /\ r \in Requests /\ t.rows[r] \in OrderRows /\ TypeOK
  BY TxType DEF Inv
<1>q. /\ Private(s, t2) /\ clock' \in Nat /\ t.pc = "cancelFlush" /\ OrderFree(s, r)
      /\ t.rows[r].version = orders[r].version
  BY DEF CancelFlush, Fresh, Inv, TypeOK
<1>6. SessionOK(t) /\ TablesOK
  BY DEF Inv
<1>7. /\ t.dirty = {} /\ t.locked = {} /\ t.rows[r] = orders[r]
      /\ orders[r].status \in OpenStatuses /\ Coherent(r, orders[r])
  BY <1>6, <1>q, <1>t DEF SessionOK, PhaseOK, CopiesOK, TablesOK, RowsCoherent
<1>1. /\ row \in OrderRows /\ row.status = "CANCELLED" /\ row.matched = t.rows[r].matched
      /\ row.version = t.rows[r].version
  BY <1>t DEF OrderRows, OrderStatuses
<1>2. t2 \in TxRecords
  BY <1>t, <1>1 DEF TxRecords, PCs
<1>3. /\ t2.pc = "cancelRelease" /\ t2.dirty = {r} /\ t2.locked = {r} /\ t2.order = r
      /\ t2.entries = t.entries
      /\ \A q \in Requests : t2.rows[q] = IF q = r THEN row ELSE t.rows[q]
  BY <1>t DEF TxRecords
<1>4. ~ Taking(t2) /\ Coherent(r, row)
  <2>1. row.matched # r.stake
    BY <1>1, <1>7 DEF Coherent, OpenStatuses
  <2>2. ~ Taking(t2)
    BY <1>3 DEF Taking, PlacePCs
  <2>. HIDE DEF row
  <2>. QED BY <1>1, <1>7, <2>1, <2>2 DEF Coherent
<1>. HIDE DEF t2, row
<1>8. SessionOK(t2)
  <2>0. orders[r].version > 0
    <3>1. orders[r].version \in Nat
      BY <1>t DEF TypeOK, OrderRows
    <3>2. orders[r].version # 0
      BY <1>6, <1>7, <1>t DEF TablesOK, RowsStart, NoRow, OpenStatuses
    <3>. QED BY <3>1, <3>2
  <2>1. MarketCopyOK(t2) /\ LocksOK(t2) /\ UnsentOK(t2) /\ WritesOK(t2) /\ PhaseOK(t2)
    BY <1>t, <1>1, <1>3, <1>4, <1>7, <1>q, <2>0
       DEF MarketCopyOK, LocksOK, UnsentOK, WritesOK, PhaseOK
  <2>2. CopiesOK(t2)
    BY <1>3, <1>6, <1>7 DEF SessionOK, CopiesOK
  <2>3. ReleasesOK(t2)
    BY <1>3, <1>6, <1>q DEF SessionOK, ReleasesOK, ReleasesExact
  <2>. QED BY <2>1, <2>2, <2>3 DEF SessionOK
<1>9. \A z \in Sessions \ {s} : Apart(t2, tx[z]) /\ Apart(tx[z], t2)
  BY <1>3, <1>4, <1>q DEF Apart, OrderFree
<1>. QED BY <1>2, <1>q, <1>8, <1>9, PrivateInv

\* CancelRelease writes the one row it has locked and releases its remainder.
LEMMA CancelReleaseInv ==
  ASSUME Inv, TypeOK', NEW s \in Sessions, CancelRelease(s)
  PROVE  Inv'
<1>. DEFINE t == tx[s]
            r == t.order
            amount == LiabilityMinor(r.side, r.price, Remaining(r, t.rows[r]))
            entry == [key |-> ReleaseKey(r), user |-> r.user, balance |-> 0,
                      reserved |-> - amount]
            p == Post(s, t, r.user, ReleaseKey(r), 0, - amount)
<1>t. t \in TxRecords /\ r \in Requests /\ TypeOK
  BY TxType DEF Inv
<1>u. r.user \in Users /\ - amount \in Int /\ ReleaseKey(r) \in LedgerKeys
  <2>1. amount \in Int
    BY <1>t, TxType, RequestType, LiabilityType DEF Inv
  <2>2. - amount \in Int
    BY <2>1
  <2>. QED BY <1>t, <2>2, RequestType DEF ReleaseKey, LedgerKeys
<1>p. /\ p \in TxRecords /\ p.order = r /\ p.rows = t.rows /\ p.dirty = t.dirty /\ p.pc = t.pc
      /\ p.locked = t.locked /\ p.entries \subseteq t.entries \cup {entry}
  <2>. HIDE DEF amount
  <2>. QED BY <1>t, <1>u, PostType, PostFields
<1>q. Commit(s, p) /\ t.pc = "cancelRelease" /\ market' = market
  BY DEF CancelRelease
<1>. HIDE DEF p
<1>6. SessionOK(t) /\ ~ Taking(t)
  BY <1>q DEF Inv, Taking, PlacePCs
<1>7. t.dirty = {r} /\ t.locked = {r} /\ t.rows[r].status = "CANCELLED"
  BY <1>6, <1>q DEF SessionOK, PhaseOK
<1>8. /\ Coherent(r, t.rows[r]) /\ t.rows[r].version = orders[r].version
      /\ orders[r].status \in OpenStatuses
  BY <1>6, <1>7, <1>q DEF SessionOK, WritesOK, LocksOK
<1>9. \A q \in Requests :
         /\ ReleasesExact(p.entries, q, p.rows[q])
         /\ \A e \in p.entries : e.key \in ReleaseKeys(q) => q \in p.dirty
  <2>1. \A q \in Requests : \A e \in t.entries : e.key \notin ReleaseKeys(q)
    BY <1>6, <1>q DEF SessionOK, ReleasesOK
  <2>2. entry.key = ReleaseKey(r) /\ entry.reserved = - amount
    OBVIOUS
  <2>3. ReleaseKey(r) \in ReleaseKeys(r) /\ \A q \in Requests : ReleaseKey(r) \in ReleaseKeys(q) => q = r
    BY <1>t DEF ReleaseKey, ReleaseSettleKey, ReleaseKeys
  <2>4. ASSUME NEW q \in Requests, NEW e \in p.entries, e.key \in ReleaseKeys(q)
        PROVE  e = entry /\ q = r
    <3>. HIDE DEF entry
    <3>. QED BY <1>p, <2>1, <2>2, <2>3, <2>4
  <2>5. amount = LiabilityMinor(r.side, r.price, Remaining(r, p.rows[r]))
    BY <1>p
  <2>. HIDE DEF entry, amount
  <2>. QED BY <1>p, <1>7, <2>2, <2>4, <2>5 DEF ReleasesExact
<1>a. \A z \in Sessions \ {s} : p.dirty \cap tx[z].locked = {} /\ Apart(p, tx[z])
  BY <1>p, <1>6, <1>7 DEF Inv, Apart, Taking
<1>b. ~ Taking(p)
  BY <1>p, <1>6 DEF Taking
<1>c. \A q \in p.dirty :
         /\ Coherent(q, p.rows[q])
         /\ p.rows[q].version = orders[q].version
         /\ (orders[q].status \in OpenStatuses \/ (Taking(p) /\ q = p.order))
  BY <1>p, <1>7, <1>8
<1>. QED BY <1>p, <1>q, <1>9, <1>a, <1>b, <1>c, CommitInv

\* SettleBegin has read a market that is not SETTLED.
LEMMA SettleBeginInv ==
  ASSUME Inv, NEW s \in Sessions, NEW winner \in Winners, SettleBegin(s, winner)
  PROVE  Inv'
<1>. DEFINE t2 == [IdleTx EXCEPT !.pc = "settleBets", !.winner = winner, !.market = market,
                                 !.todoBets = bets \ settledBets]
<1>1. t2 \in TxRecords
  <2>1. winner \in Selections
    BY SelectionsAssumption
  <2>. QED BY <2>1, IdleType DEF TxRecords, PCs, Inv, TypeOK
<1>2. /\ t2.pc = "settleBets" /\ t2.rows = IdleTx.rows /\ t2.dirty = {} /\ t2.locked = {}
      /\ t2.entries = {} /\ t2.market = market
  BY DEF IdleTx
<1>3. Private(s, t2) /\ clock' \in Nat /\ market.status # "SETTLED"
  BY DEF SettleBegin, Inv, TypeOK
<1>. HIDE DEF t2
<1>4. MarketCopyOK(t2)
  <2>1. market.version \in Nat
    BY DEF Inv, TypeOK, MarketRows
  <2>. QED BY <1>2, <1>3, <2>1 DEF MarketCopyOK
<1>. QED BY <1>1, <1>2, <1>3, <1>4, BeginOK, PrivateInv DEF Inv, TablesOK

\* SettleBet posts a settlement, which is not a release.
LEMMA SettleBetInv ==
  ASSUME Inv, NEW s \in Sessions, NEW b \in tx[s].todoBets, SettleBet(s, b)
  PROVE  Inv'
<1>. DEFINE t == tx[s]
            won == BetOrder(b).selection = t.winner
            d == SettleBetDeltas(b.side, BetPrice(b), b.stake, won)
            entry == [key |-> SettleKey(b), user |-> BetUser(b), balance |-> d.balance,
                      reserved |-> d.reserved]
            p == Post(s, t, BetUser(b), SettleKey(b), d.balance, d.reserved)
            t2 == [p EXCEPT !.todoBets = @ \ {b}, !.settled = @ \cup {b}]
<1>t. t \in TxRecords /\ b \in BetRecords /\ TypeOK
  BY TxType DEF Inv, TxRecords
<1>u. /\ BetUser(b) \in Users /\ d.balance \in Int /\ d.reserved \in Int
      /\ SettleKey(b) \in LedgerKeys
  BY <1>t, BetType, SettleType
<1>p. /\ p \in TxRecords /\ p.pc = t.pc /\ p.order = t.order /\ p.market = t.market
      /\ p.rows = t.rows /\ p.dirty = t.dirty /\ p.locked = t.locked /\ p.todo = t.todo
      /\ p.entries \subseteq t.entries \cup {entry}
  <2>. HIDE DEF d
  <2>. QED BY <1>t, <1>u, PostType, PostFields
<1>q. Private(s, t2) /\ clock' \in Nat /\ t.pc = "settleBets"
  BY DEF SettleBet, Inv, TypeOK
<1>. HIDE DEF p
<1>2. t2 \in TxRecords
  BY <1>t, <1>p DEF TxRecords
<1>3. /\ t2.pc = "settleBets" /\ t2.market = t.market /\ t2.rows = t.rows /\ t2.dirty = t.dirty
      /\ t2.locked = t.locked /\ t2.entries \subseteq t.entries \cup {entry}
  BY <1>p, <1>q DEF TxRecords
<1>k. entry.key = SettleKey(b)
  OBVIOUS
<1>. HIDE DEF t2, entry
<1>6. SessionOK(t)
  BY DEF Inv
<1>7. ~ Taking(t) /\ ~ Taking(t2)
  BY <1>3, <1>q DEF Taking, PlacePCs
<1>8. SessionOK(t2)
  <2>1. MarketCopyOK(t2) /\ CopiesOK(t2) /\ LocksOK(t2) /\ UnsentOK(t2)
    BY <1>3, <1>6, <1>q DEF SessionOK, MarketCopyOK, CopiesOK, LocksOK, UnsentOK
  <2>2. WritesOK(t2) /\ PhaseOK(t2)
    BY <1>3, <1>6, <1>7, <1>q DEF SessionOK, WritesOK, PhaseOK
  <2>3. ReleasesOK(t2)
    <3>1. \A x \in Requests : entry.key \notin ReleaseKeys(x)
      BY <1>k, <1>t DEF SettleKey, ReleaseKey, ReleaseSettleKey, ReleaseKeys
    <3>2. \A x \in Requests : \A e \in t.entries : e.key \notin ReleaseKeys(x)
      BY <1>6, <1>q DEF SessionOK, ReleasesOK
    <3>. QED BY <1>3, <3>1, <3>2 DEF ReleasesOK, ReleasesExact
  <2>. QED BY <2>1, <2>2, <2>3 DEF SessionOK
<1>9. \A z \in Sessions \ {s} : Apart(t2, tx[z]) /\ Apart(tx[z], t2)
  BY <1>3, <1>7 DEF Inv, Apart
<1>. QED BY <1>2, <1>q, <1>8, <1>9, PrivateInv

\* SettleListOrders has read rows without locking them.
LEMMA SettleListOrdersInv ==
  ASSUME Inv, NEW s \in Sessions, SettleListOrders(s)
  PROVE  Inv'
<1>. DEFINE t == tx[s]
            open == {r \in Requests : orders[r].status \in OpenStatuses}
            rows2 == [r \in Requests |-> IF r \in open THEN orders[r] ELSE NoRow]
            t2 == [t EXCEPT !.pc = "settleOrders", !.todo = open, !.rows = rows2]
<1>t. t \in TxRecords /\ TypeOK
  BY TxType DEF Inv
<1>q. Private(s, t2) /\ clock' \in Nat /\ t.pc = "settleBets"
  BY DEF SettleListOrders, Inv, TypeOK
<1>1. rows2 \in [Requests -> OrderRows]
  BY RowRecords DEF Inv, TypeOK
<1>2. t2 \in TxRecords
  BY <1>t, <1>1 DEF TxRecords, PCs
<1>3. /\ t2.pc = "settleOrders" /\ t2.market = t.market /\ t2.dirty = t.dirty
      /\ t2.locked = t.locked /\ t2.entries = t.entries /\ t2.todo = open
      /\ \A r \in Requests : t2.rows[r] = IF r \in open THEN orders[r] ELSE NoRow
  BY <1>t DEF TxRecords
<1>6. SessionOK(t)
  BY DEF Inv
<1>7. /\ t.dirty = {} /\ t.locked = {} /\ ~ Taking(t2)
      /\ \A r \in Requests : \A e \in t.entries : e.key \notin ReleaseKeys(r)
  BY <1>3, <1>6, <1>q DEF SessionOK, PhaseOK, ReleasesOK, Taking, PlacePCs
<1>. HIDE DEF t2
<1>8. SessionOK(t2)
  <2>1. MarketCopyOK(t2)
    BY <1>3, <1>6, <1>q DEF SessionOK, MarketCopyOK
  <2>2. CopiesOK(t2)
    <3>1. ASSUME NEW r \in Requests
          PROVE  /\ t2.rows[r].version <= orders[r].version
                 /\ t2.rows[r].version = orders[r].version => t2.rows[r] = orders[r]
      <4>1. orders[r].version \in Nat
        BY DEF Inv, TypeOK, OrderRows
      <4>2. NoRow.version = 0 /\ (orders[r].version = 0 => orders[r] = NoRow)
        BY DEF Inv, TablesOK, RowsStart, NoRow
      <4>3. t2.rows[r] = orders[r] \/ t2.rows[r] = NoRow
        BY <1>3
      <4>. QED BY <4>1, <4>2, <4>3
    <3>. QED BY <3>1 DEF CopiesOK
  <2>3. LocksOK(t2) /\ UnsentOK(t2) /\ WritesOK(t2) /\ PhaseOK(t2) /\ ReleasesOK(t2)
    BY <1>3, <1>7 DEF LocksOK, UnsentOK, Unsent, WritesOK, PhaseOK, ReleasesOK, ReleasesExact
  <2>. QED BY <2>1, <2>2, <2>3 DEF SessionOK
<1>9. \A z \in Sessions \ {s} : Apart(t2, tx[z]) /\ Apart(tx[z], t2)
  BY <1>3, <1>7 DEF Apart
<1>. QED BY <1>2, <1>q, <1>8, <1>9, PrivateInv

\* SettleOrder has changed a copy only, which is released once.
LEMMA SettleOrderInv ==
  ASSUME Inv, NEW s \in Sessions, NEW r \in Requests, SettleOrder(s, r)
  PROVE  Inv'
<1>. DEFINE t == tx[s]
            release == ReleaseAmount(r.side, r.price, Remaining(r, t.rows[r]))
            entry == [key |-> ReleaseSettleKey(r), user |-> r.user, balance |-> 0,
                      reserved |-> - release]
            p == Post(s, t, r.user, ReleaseSettleKey(r), 0, - release)
            paid == IF release > 0 THEN p ELSE t
            row == [t.rows[r] EXCEPT !.status = "CANCELLED"]
            t2 == [paid EXCEPT !.todo = @ \ {r}, !.dirty = @ \cup {r},
                               !.rows[r].status = "CANCELLED"]
<1>t. t \in TxRecords /\ TypeOK /\ t.rows[r] \in OrderRows
  BY TxType DEF Inv
<1>u. r.user \in Users /\ - release \in Int /\ ReleaseSettleKey(r) \in LedgerKeys
  <2>1. release \in Int
    BY <1>t, TxType, RequestType, LiabilityType
  <2>2. - release \in Int
    BY <2>1
  <2>. QED BY <2>2, RequestType DEF ReleaseSettleKey, LedgerKeys
<1>p. /\ paid \in TxRecords /\ paid.pc = t.pc /\ paid.order = t.order /\ paid.market = t.market
      /\ paid.rows = t.rows /\ paid.dirty = t.dirty /\ paid.locked = t.locked
      /\ paid.todo = t.todo /\ paid.entries \subseteq t.entries \cup {entry}
  <2>1. /\ p \in TxRecords /\ p.pc = t.pc /\ p.order = t.order /\ p.market = t.market
        /\ p.rows = t.rows /\ p.dirty = t.dirty /\ p.locked = t.locked
        /\ p.todo = t.todo /\ p.entries \subseteq t.entries \cup {entry}
    <3>. HIDE DEF release
    <3>. QED BY <1>t, <1>u, PostType, PostFields
  <2>. HIDE DEF p, release, entry
  <2>. QED BY <1>t, <2>1
<1>q. Private(s, t2) /\ clock' \in Nat /\ t.pc = "settleOrders" /\ r \in t.todo
  BY DEF SettleOrder, Inv, TypeOK
<1>. HIDE DEF p, paid
<1>6. SessionOK(t) /\ TablesOK
  BY DEF Inv
<1>7. /\ r \notin t.dirty /\ r \notin t.locked /\ t.rows[r].status \in OpenStatuses
      /\ t.rows[r].version <= orders[r].version
      /\ t.rows[r].version = orders[r].version => t.rows[r] = orders[r]
  BY <1>6, <1>q DEF SessionOK, PhaseOK, CopiesOK
<1>1. /\ row \in OrderRows /\ row.status = "CANCELLED" /\ row.matched = t.rows[r].matched
      /\ row.version = t.rows[r].version
  BY <1>t DEF OrderRows, OrderStatuses
<1>2. t2 \in TxRecords
  BY <1>t, <1>p, <1>1 DEF TxRecords
<1>3. /\ t2.pc = "settleOrders" /\ t2.market = t.market /\ t2.todo = t.todo \ {r}
      /\ t2.locked = t.locked /\ t2.dirty = t.dirty \cup {r}
      /\ t2.entries \subseteq t.entries \cup {entry}
      /\ \A q \in Requests : t2.rows[q] = IF q = r THEN row ELSE t.rows[q]
  BY <1>p, <1>q DEF TxRecords
<1>4. ~ Taking(t) /\ ~ Taking(t2)
  BY <1>3, <1>q DEF Taking, PlacePCs
<1>k. /\ entry.key = ReleaseSettleKey(r)
      /\ entry.reserved = - LiabilityMinor(r.side, r.price, Remaining(r, row))
      /\ ReleaseSettleKey(r) \in ReleaseKeys(r)
      /\ \A q \in Requests : ReleaseSettleKey(r) \in ReleaseKeys(q) => q = r
  <2>1. release = LiabilityMinor(r.side, r.price, Remaining(r, row))
    <3>1. Remaining(r, row) = Remaining(r, t.rows[r])
      <4>. HIDE DEF row
      <4>. QED BY <1>1 DEF Remaining
    <3>. QED BY <3>1 DEF ReleaseAmount, LiabilityMinor
  <2>2. /\ ReleaseSettleKey(r) \in ReleaseKeys(r)
        /\ \A q \in Requests : ReleaseSettleKey(r) \in ReleaseKeys(q) => q = r
    BY DEF ReleaseKey, ReleaseSettleKey, ReleaseKeys
  <2>3. entry.key = ReleaseSettleKey(r) /\ entry.reserved = - release
    OBVIOUS
  <2>. HIDE DEF release, entry, row
  <2>. QED BY <2>1, <2>2, <2>3
<1>. HIDE DEF t2, row, entry
<1>8. SessionOK(t2)
  <2>1. MarketCopyOK(t2)
    BY <1>3, <1>6, <1>q DEF SessionOK, MarketCopyOK
  <2>2. CopiesOK(t2)
    BY <1>3, <1>6 DEF SessionOK, CopiesOK
  <2>3. LocksOK(t2)
    BY <1>t, <1>3, <1>6, <1>7 DEF SessionOK, LocksOK, TxRecords
  <2>7. UnsentOK(t2)
    <3>1. ASSUME NEW q \in Unsent(t2)
          PROVE  /\ t2.rows[q].status = "CANCELLED"
                 /\ t2.rows[q].version <= orders[q].version
                 /\ t2.rows[q].version = orders[q].version =>
                      /\ orders[q].status \in OpenStatuses
                      /\ t2.rows[q] = [orders[q] EXCEPT !.status = "CANCELLED"]
      <4>1. CASE q = r
        BY <1>1, <1>3, <1>7, <4>1 DEF row
      <4>2. CASE q # r
        <5>1. q \in Unsent(t) /\ q \in Requests
          BY <1>t, <1>3, <3>1, <4>2 DEF Unsent, TxRecords
        <5>. QED BY <1>3, <1>6, <1>q, <4>2, <5>1 DEF SessionOK, UnsentOK
      <4>. QED BY <4>1, <4>2
    <3>. QED BY <3>1 DEF UnsentOK
  <2>4. WritesOK(t2)
    <3>1. ASSUME NEW q \in t2.dirty
          PROVE  \/ q \in t2.locked /\ orders[q].status \in OpenStatuses /\ Coherent(q, t2.rows[q])
                 \/ q \in Unsent(t2)
      <4>1. CASE q = r
        BY <1>3, <1>7, <4>1 DEF Unsent
      <4>2. CASE q # r
        <5>1. q \in t.dirty /\ q \in Requests
          BY <1>t, <1>3, <3>1, <4>2 DEF TxRecords
        <5>2. \/ q \in t.locked /\ orders[q].status \in OpenStatuses /\ Coherent(q, t.rows[q])
              \/ q \in Unsent(t)
          BY <1>4, <1>6, <5>1 DEF SessionOK, WritesOK
        <5>. QED BY <1>3, <4>2, <5>1, <5>2 DEF Unsent
      <4>. QED BY <4>1, <4>2
    <3>. QED BY <1>3, <1>4, <3>1 DEF WritesOK
  <2>5. PhaseOK(t2)
    BY <1>t, <1>3, <1>6, <1>q DEF SessionOK, PhaseOK, TxRecords
  <2>6. ReleasesOK(t2)
    <3>1. ASSUME NEW q \in Requests, NEW e \in t2.entries, e.key \in ReleaseKeys(q)
          PROVE  /\ q \in t2.dirty
                 /\ t2.rows[q].status = "CANCELLED"
                 /\ e.reserved = - LiabilityMinor(q.side, q.price, Remaining(q, t2.rows[q]))
                 /\ \A f \in t2.entries : f.key \in ReleaseKeys(q) => f = e
      <4>1. CASE q = r
        <5>1. \A f \in t.entries : f.key \notin ReleaseKeys(r)
          BY <1>6, <1>7 DEF SessionOK, ReleasesOK
        <5>2. e = entry /\ \A f \in t2.entries : f.key \in ReleaseKeys(q) => f = entry
          BY <1>3, <3>1, <4>1, <5>1
        <5>. QED BY <1>1, <1>3, <1>k, <4>1, <5>2
      <4>2. CASE q # r
        <5>1. e \in t.entries /\ \A f \in t2.entries : f.key \in ReleaseKeys(q) => f \in t.entries
          BY <1>3, <1>k, <3>1, <4>2
        <5>2. ReleasesExact(t.entries, q, t.rows[q]) /\ q \in t.dirty
          BY <1>6, <3>1, <5>1 DEF SessionOK, ReleasesOK
        <5>3. t2.rows[q] = t.rows[q]
          BY <1>3, <4>2
        <5>. QED BY <1>3, <3>1, <5>1, <5>2, <5>3 DEF ReleasesExact
      <4>. QED BY <4>1, <4>2
    <3>. QED BY <1>3, <3>1 DEF ReleasesOK, ReleasesExact
  <2>. QED BY <2>1, <2>2, <2>3, <2>4, <2>5, <2>6, <2>7 DEF SessionOK
<1>9. \A z \in Sessions \ {s} : Apart(t2, tx[z]) /\ Apart(tx[z], t2)
  BY <1>3, <1>4 DEF Inv, Apart
<1>. QED BY <1>2, <1>q, <1>8, <1>9, PrivateInv

\* SettleFlush locks a row whose copy is of its version: the row is open, and the
\* copy is the row, cancelled.
LEMMA SettleFlushInv ==
  ASSUME Inv, NEW s \in Sessions, NEW r \in Requests, SettleFlush(s, r)
  PROVE  Inv'
<1>. DEFINE t == tx[s]
            t2 == [t EXCEPT !.locked = @ \cup {r}]
<1>t. t \in TxRecords /\ TypeOK /\ t.rows[r] \in OrderRows /\ orders[r] \in OrderRows
  BY TxType DEF Inv, TypeOK
<1>q. /\ Private(s, t2) /\ clock' \in Nat /\ t.pc = "settleOrders" /\ r \in Unsent(t)
      /\ OrderFree(s, r) /\ t.rows[r].version = orders[r].version
  BY DEF SettleFlush, Fresh, Inv, TypeOK
<1>2. t2 \in TxRecords
  BY <1>t DEF TxRecords
<1>3. /\ t2.pc = "settleOrders" /\ t2.market = t.market /\ t2.todo = t.todo
      /\ t2.locked = t.locked \cup {r} /\ t2.dirty = t.dirty /\ t2.rows = t.rows
      /\ t2.entries = t.entries
  BY <1>t, <1>q DEF TxRecords
<1>4. ~ Taking(t) /\ ~ Taking(t2)
  BY <1>3, <1>q DEF Taking, PlacePCs
<1>6. SessionOK(t) /\ TablesOK
  BY DEF Inv
<1>7. /\ t.rows[r].status = "CANCELLED" /\ orders[r].status \in OpenStatuses
      /\ t.rows[r] = [orders[r] EXCEPT !.status = "CANCELLED"]
  BY <1>6, <1>q DEF SessionOK, UnsentOK
<1>5. orders[r].version > 0
  <2>1. orders[r].version \in Nat
    BY <1>t DEF OrderRows
  <2>2. orders[r].version # 0
    BY <1>6, <1>7 DEF TablesOK, RowsStart, NoRow, OpenStatuses
  <2>. QED BY <2>1, <2>2
<1>c. Coherent(r, t.rows[r])
  <2>1. Coherent(r, orders[r])
    BY <1>6 DEF TablesOK, RowsCoherent
  <2>2. t.rows[r].matched = orders[r].matched
    BY <1>t, <1>7 DEF OrderRows
  <2>. QED BY <1>7, <2>1, <2>2 DEF Coherent, OpenStatuses
<1>. HIDE DEF t2
<1>8. SessionOK(t2)
  <2>1. MarketCopyOK(t2) /\ CopiesOK(t2) /\ ReleasesOK(t2)
    BY <1>3, <1>6, <1>q DEF SessionOK, MarketCopyOK, CopiesOK, ReleasesOK
  <2>2. LocksOK(t2)
    BY <1>3, <1>5, <1>6, <1>q DEF SessionOK, LocksOK
  <2>3. UnsentOK(t2)
    <3>1. \A q \in Unsent(t2) : q \in Unsent(t)
      BY <1>3 DEF Unsent
    <3>. QED BY <1>3, <1>6, <1>q, <3>1 DEF SessionOK, UnsentOK
  <2>4. WritesOK(t2)
    <3>1. \A q \in t.dirty : \/ /\ q \in t.locked /\ orders[q].status \in OpenStatuses
                                /\ Coherent(q, t.rows[q])
                             \/ q \in Unsent(t)
      BY <1>4, <1>6 DEF SessionOK, WritesOK
    <3>2. \A q \in Unsent(t) : q = r \/ q \in Unsent(t2)
      BY <1>3 DEF Unsent
    <3>. QED BY <1>3, <1>4, <1>7, <1>c, <3>1, <3>2 DEF WritesOK
  <2>5. PhaseOK(t2)
    BY <1>3, <1>6, <1>q DEF SessionOK, PhaseOK, Unsent
  <2>. QED BY <2>1, <2>2, <2>3, <2>4, <2>5 DEF SessionOK
<1>9. \A z \in Sessions \ {s} : Apart(t2, tx[z]) /\ Apart(tx[z], t2)
  BY <1>3, <1>4, <1>q DEF Inv, Apart, OrderFree
<1>. QED BY <1>2, <1>q, <1>8, <1>9, PrivateInv

\* SettleCommit writes the rows it has cancelled, every one of them locked.
LEMMA SettleCommitInv ==
  ASSUME Inv, TypeOK', NEW s \in Sessions, SettleCommit(s)
  PROVE  Inv'
<1>. DEFINE t == tx[s]
<1>t. t \in TxRecords /\ market.version \in Nat
  BY TxType DEF Inv, TypeOK, MarketRows
<1>q. Commit(s, t) /\ t.pc = "settleOrders" /\ Unsent(t) = {}
  BY DEF SettleCommit
<1>m. market'.version > market.version
  BY <1>t, SMT DEF SettleCommit
<1>1. SessionOK(t)
  BY DEF Inv
<1>2. ~ Taking(t)
  BY <1>q DEF Taking, PlacePCs
<1>3. \A r \in t.dirty : /\ r \in t.locked
                         /\ Coherent(r, t.rows[r])
                         /\ t.rows[r].version = orders[r].version
                         /\ orders[r].status \in OpenStatuses
  BY <1>1, <1>2, <1>q DEF SessionOK, WritesOK, LocksOK
<1>4. \A z \in Sessions \ {s} : t.dirty \cap tx[z].locked = {} /\ Apart(t, tx[z])
  BY <1>3 DEF Inv, Apart
<1>5. \A r \in Requests : /\ ReleasesExact(t.entries, r, t.rows[r])
                          /\ \A e \in t.entries : e.key \in ReleaseKeys(r) => r \in t.dirty
  BY <1>1 DEF SessionOK, ReleasesOK
<1>. HIDE DEF t
<1>. QED BY <1>t, <1>q, <1>m, <1>2, <1>3, <1>4, <1>5, CommitInv

\* TransitionBegin reads a market that may still change, so not a SETTLED one.
LEMMA TransitionBeginInv ==
  ASSUME Inv, NEW s \in Sessions, NEW target \in MarketStatuses, TransitionBegin(s, target)
  PROVE  Inv'
<1>. DEFINE t2 == [IdleTx EXCEPT !.pc = "transition", !.target = target, !.market = market]
<1>1. t2 \in TxRecords
  BY IdleType DEF TxRecords, PCs, Inv, TypeOK
<1>2. /\ t2.pc = "transition" /\ t2.rows = IdleTx.rows /\ t2.dirty = {} /\ t2.locked = {}
      /\ t2.entries = {} /\ t2.market = market
  BY DEF IdleTx
<1>3. Private(s, t2) /\ clock' \in Nat /\ target \in AllowedTransitions[market.status]
  BY DEF TransitionBegin, Inv, TypeOK
<1>. HIDE DEF t2
<1>4. MarketCopyOK(t2)
  <2>1. market.version \in Nat
    BY DEF Inv, TypeOK, MarketRows
  <2>2. market.status # "SETTLED"
    BY <1>3 DEF AllowedTransitions
  <2>. QED BY <1>2, <2>1, <2>2 DEF MarketCopyOK
<1>. QED BY <1>1, <1>2, <1>3, <1>4, BeginOK, PrivateInv DEF Inv, TablesOK

\* TransitionCommit moves the market row on and no other.
LEMMA TransitionCommitInv ==
  ASSUME Inv, TypeOK', NEW s \in Sessions, TransitionCommit(s)
  PROVE  Inv'
<1>1. /\ UNCHANGED <<orders, bets, settledBets, wallets, ledger, clock>> /\ End(s)
      /\ market'.version = market.version + 1
  BY DEF TransitionCommit
<1>2. TablesOK'
  BY <1>1 DEF Inv, TablesOK, RowsStart, RowsCoherent, ReleaseExact
<1>3. ASSUME NEW z \in Sessions \ {s}, NEW v, v = tx[z] PROVE SessionOK(v)'
  <2>1. v \in TxRecords /\ SessionOK(v) /\ TypeOK
    BY <1>3 DEF Inv, TypeOK
  <2>2. market'.version > market.version
    BY <1>1, <2>1, SMT DEF TypeOK, MarketRows
  <2>3. KeyTaken(v.order)' => KeyTaken(v.order)
    BY <1>1 DEF KeyTaken
  <2>4. {} \in SUBSET Requests /\ v.locked \cap {} = {} /\ orders' = orders
    BY <1>1
  <2>. QED BY <2>1, <2>2, <2>3, <2>4, SessionKept
<1>. QED BY <1>1, <1>2, <1>3, EndInv

\* Every step of place_order keeps the invariant.
LEMMA PlaceInv ==
  ASSUME Inv, TypeOK', NEW s \in Sessions, PlaceNext(s), ~ UNCHANGED vars
  PROVE  Inv'
<1>1. CASE PlaceDuplicate(s) \/ PlaceRefuse(s)
  BY <1>1, RollbackInv DEF PlaceDuplicate, PlaceRefuse
<1>2. CASE \E r \in Requests : PlaceAnswer(s, r)
  BY <1>2 DEF PlaceAnswer
<1>. QED
  BY <1>1, <1>2, PlaceBeginInv, PlaceInsertInv, PlaceReserveInv, PlaceLockInv, PlaceMakersInv,
     PlaceMatchInv, PlaceCommitInv DEF PlaceNext

\* Every step of every handler keeps the invariant.
LEMMA InvStep == Inv /\ [Next]_vars => Inv'
<1>. SUFFICES ASSUME Inv, [Next]_vars PROVE Inv'
  OBVIOUS
<1>t. TypeOK'
  BY TypeStep DEF Inv
<1>1. CASE UNCHANGED vars
  <2>1. UNCHANGED <<market, orders, bets, settledBets, wallets, ledger, tx, clock>>
    BY <1>1 DEF vars
  <2>2. TablesOK'
    BY <2>1 DEF Inv, TablesOK, RowsStart, RowsCoherent, ReleaseExact
  <2>3. ASSUME NEW z \in Sessions PROVE SessionOK(tx[z])'
    <3>1. PICK v : v = tx[z]
      OBVIOUS
    <3>2. SessionOK(v)'
      BY <2>1, <3>1, SessionSame DEF Inv
    <3>. QED BY <2>1, <3>1, <3>2, SessionNext
  <2>4. ASSUME NEW x \in Sessions, NEW z \in Sessions, x # z PROVE Apart(tx[x], tx[z])'
    BY <2>1, <2>4 DEF Inv, Apart, Taking
  <2>. QED BY <1>t, <2>2, <2>3, <2>4 DEF Inv
<1>2. CASE Next /\ ~ UNCHANGED vars
  <2>1. PICK s \in Sessions :
          PlaceNext(s) \/ CancelNext(s) \/ SettleNext(s) \/ TransitionNext(s)
            \/ StaleAbort(s) \/ Die(s)
    BY <1>2 DEF Next
  <2>2. CASE PlaceNext(s)
    BY <1>2, <1>t, <2>2, PlaceInv
  <2>3. CASE CancelNext(s)
    BY <1>t, <2>3, CancelBeginInv, CancelFlushInv, CancelReleaseInv DEF CancelNext
  <2>4. CASE SettleNext(s)
    BY <1>t, <2>4, SettleBeginInv, SettleBetInv, SettleListOrdersInv, SettleOrderInv,
       SettleFlushInv, SettleCommitInv DEF SettleNext
  <2>5. CASE TransitionNext(s)
    BY <1>t, <2>5, TransitionBeginInv, TransitionCommitInv DEF TransitionNext
  <2>6. CASE StaleAbort(s) \/ Die(s)
    BY <2>6, RollbackInv DEF StaleAbort, Die
  <2>. QED BY <2>1, <2>2, <2>3, <2>4, <2>5, <2>6
<1>. QED BY <1>1, <1>2

\* The empty exchange satisfies the invariant.
LEMMA InitInv == Init => Inv
<1>. SUFFICES ASSUME Init PROVE Inv
  OBVIOUS
<1>1. TypeOK
  BY IdleType, RowRecords, NumbersAssumption
     DEF Init, TypeOK, MarketRows, MarketStatuses, WalletRows
<1>2. \A r \in Requests : orders[r] = NoRow
  BY DEF Init
<1>3. TablesOK
  <2>1. ASSUME NEW r \in Requests PROVE Coherent(r, NoRow)
    BY RequestType DEF Coherent, NoRow
  <2>. QED BY <1>2, <2>1 DEF TablesOK, RowsStart, RowsCoherent, ReleaseExact, ReleasesExact, Init
<1>4. SessionOK(IdleTx)
  BY <1>1, <1>3, IdleOK DEF TablesOK
<1>5. \A s \in Sessions : tx[s] = IdleTx
  BY DEF Init
<1>6. Apart(IdleTx, IdleTx)
  BY DEF Apart, Taking, PlacePCs, IdleTx
<1>. QED BY <1>1, <1>3, <1>4, <1>5, <1>6 DEF Inv

-----------------------------------------------------------------------------
(* Theorems                                                                 *)

\* The inductive invariant: a session's private copies are never ahead of the
\* database, and what it is about to write it has locked or created.
THEOREM Invariant == Spec => []Inv
  BY InitInv, InvStep, PTL DEF Spec

\* No order is ever matched beyond its stake, and its status says how much of
\* it is matched, however takers, cancels and settlements interleave.
THEOREM OrdersCoherent == Spec => []RowsCoherent
<1>1. Inv => RowsCoherent
  BY DEF Inv, TablesOK
<1>. QED BY <1>1, Invariant, PTL

\* A cancelled order has given back its unmatched exposure at most once and to
\* the unit, by cancel_order or by settle_market, never by both.
THEOREM ReleasedOnce == Spec => []ReleaseExact
<1>1. Inv => ReleaseExact
  BY DEF Inv, TablesOK
<1>. QED BY <1>1, Invariant, PTL

\* Only a commit writes a table.
LEMMA OnlyCommitsWrite ==
  ASSUME NEW s \in Sessions,
         \/ PlaceNext(s) \/ CancelNext(s) \/ SettleNext(s) \/ TransitionNext(s)
         \/ StaleAbort(s) \/ Die(s)
  PROVE  /\ orders' = orders \/ PlaceCommit(s) \/ CancelRelease(s) \/ SettleCommit(s)
         /\ market' = market \/ SettleCommit(s) \/ TransitionCommit(s)
<1>1. CASE PlaceNext(s)
  BY <1>1
     DEF PlaceNext, PlaceAnswer, PlaceBegin, PlaceInsert, PlaceDuplicate, PlaceReserve,
         PlaceRefuse, PlaceLock, PlaceMakers, PlaceMatch, PlaceCommit, Private, Rollback, vars
<1>2. CASE CancelNext(s)
  BY <1>2 DEF CancelNext, CancelBegin, CancelFlush, CancelRelease, Private
<1>3. CASE SettleNext(s)
  BY <1>3
     DEF SettleNext, SettleBegin, SettleBet, SettleListOrders, SettleOrder, SettleFlush, Private
<1>4. CASE TransitionNext(s)
  BY <1>4 DEF TransitionNext, TransitionBegin, TransitionCommit, Private
<1>5. CASE StaleAbort(s) \/ Die(s)
  BY <1>5 DEF StaleAbort, Die, Rollback
<1>. QED BY <1>1, <1>2, <1>3, <1>4, <1>5

\* A commit leaves the order rows alone that its session has not changed.
LEMMA CommitFrame ==
  ASSUME Inv, NEW s \in Sessions, PlaceCommit(s) \/ CancelRelease(s) \/ SettleCommit(s),
         NEW r \in Requests \ tx[s].dirty
  PROVE  orders'[r] = orders[r]
<1>. DEFINE t == tx[s]
<1>1. CASE PlaceCommit(s)
  <2>. DEFINE t2 == [t EXCEPT !.rows[t.order].status = StatusOf(t.order, t.rows[t.order])]
  <2>1. Commit(s, t2) /\ t2.dirty = t.dirty
    BY <1>1, TxType DEF PlaceCommit, Inv, TxRecords
  <2>. HIDE DEF t2
  <2>. QED BY <2>1 DEF Commit
<1>2. CASE CancelRelease(s)
  <2>. DEFINE q == t.order
              amount == LiabilityMinor(q.side, q.price, Remaining(q, t.rows[q]))
              p == Post(s, t, q.user, ReleaseKey(q), 0, - amount)
  <2>1. Commit(s, p) /\ p.dirty = t.dirty
    BY <1>2, TxType DEF CancelRelease, Post, Inv, TxRecords
  <2>. HIDE DEF p
  <2>. QED BY <2>1 DEF Commit
<1>3. CASE SettleCommit(s)
  BY <1>3 DEF SettleCommit, Commit
<1>. QED BY <1>1, <1>2, <1>3

\* What a session commits is open in the database, or it is the row of its own new
\* order, whose key no order has.
LEMMA DirtyRows ==
  ASSUME Inv, NEW s \in Sessions, NEW r \in tx[s].dirty,
         PlaceCommit(s) \/ CancelRelease(s) \/ SettleCommit(s)
  PROVE  \/ orders[r].status \in OpenStatuses
         \/ r = tx[s].order /\ orders[r].status = "ABSENT" /\ ~ KeyTaken(r)
<1>1. SessionOK(tx[s]) /\ tx[s].order \in Requests
  BY TxType DEF Inv
<1>2. ~ (tx[s].pc = "settleOrders" /\ r \in Unsent(tx[s]))
  BY DEF PlaceCommit, CancelRelease, SettleCommit
<1>. QED BY <1>1, <1>2 DEF SessionOK, WritesOK, KeyTaken

\* While it locks makers a placement has changed nothing but its own row, which is
\* none of them.
LEMMA OrderIsNoMaker ==
  ASSUME Inv, NEW s \in Sessions, tx[s].pc = "lock"
  PROVE  tx[s].dirty = {tx[s].order} /\ tx[s].order \notin tx[s].todo \cup tx[s].locked
<1>1. /\ tx[s].dirty = {tx[s].order}
      /\ \A m \in tx[s].todo \cup tx[s].locked : Suits(tx[s].order, m)
  BY DEF Inv, SessionOK, PhaseOK
<1>2. tx[s].order.side \in Sides
  BY TxType, RequestType DEF Inv
<1>. QED BY <1>1, <1>2 DEF Suits, Opposite, Sides

\* A matched or cancelled order is final: no taker fills it, no cancel or
\* settlement writes it again.
THEOREM OrdersFinal == Spec => TerminalOrders
<1>. DEFINE Kept == \A r \in Requests :
              orders[r].status \in {"MATCHED", "CANCELLED"} => orders'[r] = orders[r]
<1>1. Inv /\ [Next]_vars => [Kept]_vars
  <2>. SUFFICES ASSUME Inv, Next PROVE Kept
    OBVIOUS
  <2>1. PICK s \in Sessions :
          PlaceNext(s) \/ CancelNext(s) \/ SettleNext(s) \/ TransitionNext(s)
            \/ StaleAbort(s) \/ Die(s)
    BY DEF Next
  <2>2. orders' = orders \/ PlaceCommit(s) \/ CancelRelease(s) \/ SettleCommit(s)
    BY <2>1, OnlyCommitsWrite
  <2>3. ASSUME NEW r \in Requests, orders[r].status \in {"MATCHED", "CANCELLED"}
        PROVE  orders'[r] = orders[r]
    <3>1. CASE orders' # orders
      <4>1. r \notin tx[s].dirty
        BY <2>2, <2>3, <3>1, DirtyRows DEF OpenStatuses
      <4>. QED BY <2>2, <3>1, <4>1, CommitFrame
    <3>. QED BY <3>1
  <2>. QED BY <2>3
<1>. QED BY <1>1, Invariant, PTL DEF Spec, TerminalOrders

\* A SETTLED market is final, whatever was under way when it settled: the
\* version check refuses every write from a copy read before.
THEOREM SettledFinal == Spec => SettledIsFinal
<1>. DEFINE Kept == market.status = "SETTLED" => market' = market
<1>1. Inv /\ [Next]_vars => [Kept]_vars
  <2>. SUFFICES ASSUME Inv, Next, market.status = "SETTLED" PROVE market' = market
    OBVIOUS
  <2>1. PICK s \in Sessions :
          PlaceNext(s) \/ CancelNext(s) \/ SettleNext(s) \/ TransitionNext(s)
            \/ StaleAbort(s) \/ Die(s)
    BY DEF Next
  <2>2. ~ SettleCommit(s) /\ ~ TransitionCommit(s)
    BY DEF Inv, SessionOK, MarketCopyOK, SettleCommit, TransitionCommit
  <2>. QED BY <2>1, <2>2, OnlyCommitsWrite
<1>. QED BY <1>1, Invariant, PTL DEF Spec, SettledIsFinal

\* A user never has two orders under one idempotency key, however many requests
\* carry it: the one that commits second finds the row or the unique index.
THEOREM OneOrder == Spec => []OneOrderPerKey
<1>1. Init => OneOrderPerKey
  BY DEF Init, OneOrderPerKey, NoRow
<1>2. Inv /\ OneOrderPerKey /\ [Next]_vars => OneOrderPerKey'
  <2>. SUFFICES ASSUME Inv, OneOrderPerKey, [Next]_vars,
                       NEW q \in Requests, NEW r \in Requests,
                       q.user = r.user, q.key = r.key,
                       orders'[q].status # "ABSENT", orders'[r].status # "ABSENT"
                PROVE  q = r
    BY DEF OneOrderPerKey
  <2>1. CASE orders' = orders
    BY <2>1 DEF OneOrderPerKey
  <2>2. CASE orders' # orders
    <3>1. PICK s \in Sessions :
            PlaceNext(s) \/ CancelNext(s) \/ SettleNext(s) \/ TransitionNext(s)
              \/ StaleAbort(s) \/ Die(s)
      BY <2>2 DEF Next, vars
    <3>2. PlaceCommit(s) \/ CancelRelease(s) \/ SettleCommit(s)
      BY <2>2, <3>1, OnlyCommitsWrite
    <3>3. ASSUME NEW x \in Requests, orders'[x].status # "ABSENT"
          PROVE  orders[x].status # "ABSENT" \/ (x = tx[s].order /\ ~ KeyTaken(x))
      <4>1. CASE x \in tx[s].dirty
        BY <3>2, <4>1, DirtyRows DEF OpenStatuses
      <4>2. CASE x \notin tx[s].dirty
        BY <3>2, <3>3, <4>2, CommitFrame
      <4>. QED BY <4>1, <4>2
    <3>4. (orders[q].status # "ABSENT") \/ (q = tx[s].order /\ ~ KeyTaken(q))
      BY <3>3
    <3>5. (orders[r].status # "ABSENT") \/ (r = tx[s].order /\ ~ KeyTaken(r))
      BY <3>3
    <3>. QED BY <3>4, <3>5 DEF KeyTaken, OneOrderPerKey
  <2>. QED BY <2>1, <2>2
<1>. QED BY <1>1, <1>2, Invariant, PTL DEF Spec

\* Whichever side won, at any odds, with the rounding of the winnings: what one
\* bet of a fill gains is what the other loses, so a settlement makes no money.
THEOREM FillIsZeroSum ==
  ASSUME NEW price \in Prices, NEW stake \in Int, NEW won \in BOOLEAN
  PROVE  SettleBetDeltas("BACK", price, stake, won).balance
           + SettleBetDeltas("LAY", price, stake, won).balance = 0
<1>1. Winnings(price, stake) \in Int
  BY LiabilityType DEF Sides
<1>. QED BY <1>1, SMT DEF SettleBetDeltas, LiabilityMinor

-----------------------------------------------------------------------------
(* Keys and postings                                                        *)

\* The three kinds of ledger keys.
LEMMA KeyKinds ==
  ASSUME NEW k \in LedgerKeys
  PROVE  \/ \E r \in Requests : k = HoldKey(r)
         \/ \E r \in Requests : k \in ReleaseKeys(r)
         \/ k[1] = "settle" /\ k[2] \in BetRecords /\ k = SettleKey(k[2])
<1>1. CASE k \in {"settle"} \X BetRecords
  BY <1>1 DEF SettleKey
<1>2. CASE k \in {"hold", "release", "release-settle"} \X Requests
  <2>1. PICK tag \in {"hold", "release", "release-settle"}, r \in Requests : k = <<tag, r>>
    BY <1>2
  <2>. QED BY <2>1 DEF HoldKey, ReleaseKeys, ReleaseKey, ReleaseSettleKey
<1>. QED BY <1>1, <1>2 DEF LedgerKeys

\* Their tags and what they are about.
LEMMA KeyTags ==
  /\ \A r : HoldKey(r)[1] = "hold" /\ HoldKey(r)[2] = r
  /\ \A r : ReleaseKey(r)[1] = "release" /\ ReleaseSettleKey(r)[1] = "release-settle"
  /\ \A b : SettleKey(b)[1] = "settle" /\ SettleKey(b)[2] = b
  BY DEF HoldKey, ReleaseKey, ReleaseSettleKey, SettleKey

\* What a posting does with the winner and the pending entries.
LEMMA PostEntries ==
  ASSUME TypeOK, NEW s \in Sessions, NEW t \in TxRecords, NEW u \in Users,
         NEW key \in LedgerKeys, NEW balance \in Int, NEW reserved \in Int
  PROVE  LET p == Post(s, t, u, key, balance, reserved)
             entry == [key |-> key, user |-> u, balance |-> balance, reserved |-> reserved]
         IN  /\ p.winner = t.winner /\ t.entries \subseteq p.entries
             /\ (\A e \in ledger \cup t.entries : e.key # key) => entry \in p.entries
  BY DEF Post, TxRecords

\* A hold or a release moves no balance.
LEMMA PostReserved ==
  ASSUME TypeOK, NEW s \in Sessions, NEW t \in TxRecords, NEW u \in Users,
         NEW key \in LedgerKeys, NEW reserved \in Int
  PROVE  LET p == Post(s, t, u, key, 0, reserved)
             entry == [key |-> key, user |-> u, balance |-> 0, reserved |-> reserved]
         IN  /\ p \in TxRecords /\ p.pc = t.pc /\ p.order = t.order /\ p.rows = t.rows
             /\ p.dirty = t.dirty /\ p.settled = t.settled /\ p.winner = t.winner
             /\ p.entries \subseteq t.entries \cup {entry} /\ t.entries \subseteq p.entries
             /\ (\A e \in ledger \cup t.entries : e.key # key) => entry \in p.entries
<1>. DEFINE p == Post(s, t, u, key, 0, reserved)
            entry == [key |-> key, user |-> u, balance |-> 0, reserved |-> reserved]
<1>1. p \in TxRecords
  BY PostType
<1>2. p.pc = t.pc /\ p.order = t.order /\ p.rows = t.rows /\ p.dirty = t.dirty
  BY PostFields
<1>3. /\ p.settled = t.settled /\ p.winner = t.winner
      /\ p.entries \subseteq t.entries \cup {entry} /\ t.entries \subseteq p.entries
  BY DEF Post, TxRecords
<1>4. (\A e \in ledger \cup t.entries : e.key # key) => entry \in p.entries
  BY PostEntries
<1>. HIDE DEF p, entry
<1>5. /\ p \in TxRecords /\ p.pc = t.pc /\ p.order = t.order /\ p.rows = t.rows
      /\ p.dirty = t.dirty /\ p.settled = t.settled /\ p.winner = t.winner
      /\ p.entries \subseteq t.entries \cup {entry} /\ t.entries \subseteq p.entries
      /\ (\A e \in ledger \cup t.entries : e.key # key) => entry \in p.entries
  BY <1>1, <1>2, <1>3, <1>4
<1>. QED BY <1>5 DEF p, entry

\* A session that has posted nothing and written nothing is in order.
LEMMA NoPostings ==
  ASSUME NEW t, t.entries = {}, t.settled = {}, t.dirty = {}, t.pc \notin {"lock", "match"}
  PROVE  PostingsOK(t)
  BY DEF PostingsOK, PaymentsFor, AllPaid

-----------------------------------------------------------------------------
(* Private steps, ends and commits                                          *)

\* Another session's postings do not depend on the tables, but for a market
\* that is not settled any more when it was.
LEMMA PostingsKept ==
  ASSUME NEW t, PostingsOK(t), market'.status # "SETTLED" => market.status # "SETTLED"
  PROVE  PostingsOK(t)'
  BY DEF PostingsOK, PaymentsFor, AllPaid

\* A private step is in order if the state it leads to is.
LEMMA PrivateLedger ==
  ASSUME TypeOK, LedgerInv, NEW s \in Sessions, NEW t, Private(s, t), PostingsOK(t)
  PROVE  LedgerInv'
<1>1. LedgerOK'
  BY DEF LedgerInv, LedgerOK, Private, PaymentsFor, AllPaid
<1>2. ASSUME NEW z \in Sessions PROVE PostingsOK(tx[z])'
  <2>1. PICK v : v = IF z = s THEN t ELSE tx[z]
    OBVIOUS
  <2>2. tx'[z] = v
    BY <2>1 DEF Private, TypeOK
  <2>3. PostingsOK(v)'
    BY <2>1, PostingsKept DEF LedgerInv, Private
  <2>. QED BY <2>2, <2>3 DEF PostingsOK, PaymentsFor, AllPaid
<1>. QED BY <1>1, <1>2 DEF LedgerInv

\* So is the end of a session that leaves the ledger in order.
LEMMA EndLedger ==
  ASSUME TypeOK, LedgerInv, LedgerOK', NEW s \in Sessions, End(s),
         market'.status # "SETTLED" => market.status # "SETTLED"
  PROVE  LedgerInv'
<1>1. ASSUME NEW z \in Sessions PROVE PostingsOK(tx[z])'
  <2>1. PICK v : v = IF z = s THEN IdleTx ELSE tx[z]
    OBVIOUS
  <2>2. tx'[z] = v
    BY <2>1 DEF End, TypeOK
  <2>3. PostingsOK(IdleTx)
    BY NoPostings DEF IdleTx
  <2>4. PostingsOK(v)'
    BY <2>1, <2>3, PostingsKept DEF LedgerInv
  <2>. QED BY <2>2, <2>4 DEF PostingsOK, PaymentsFor, AllPaid
<1>. QED BY <1>1 DEF LedgerInv

\* A rollback writes nothing.
LEMMA RollbackLedger ==
  ASSUME TypeOK, LedgerInv, NEW s \in Sessions, Rollback(s)
  PROVE  LedgerInv'
<1>1. LedgerOK'
  BY DEF LedgerInv, LedgerOK, Rollback, PaymentsFor, AllPaid
<1>. QED BY <1>1, EndLedger DEF Rollback

\* A commit keeps the ledger in order if the rows it writes are there or come
\* with their hold, if it holds for no other order, and if it pays bets only
\* by settling the market.
LEMMA CommitLedger ==
  ASSUME TypeOK, LedgerInv, NEW s \in Sessions, NEW t \in TxRecords, Commit(s, t),
         \A r \in t.dirty : /\ t.rows[r].status # "ABSENT"
                            /\ orders[r].status # "ABSENT" \/ Hold(r) \in t.entries,
         \A r \in Requests : \A e \in t.entries :
            e.key = HoldKey(r) => e = Hold(r) /\ r \in t.dirty,
         PaymentsFor(t.entries, t.settled, t.winner),
         \/ market' = market /\ t.settled = {}
         \/ /\ market.status # "SETTLED" /\ market'.status = "SETTLED"
            /\ AllPaid(t.settled, t.entries)
  PROVE  LedgerInv'
<1>1. /\ ledger' = ledger \cup t.entries /\ settledBets' = settledBets \cup t.settled /\ End(s)
      /\ \A r \in Requests :
           orders'[r] = IF r \in t.dirty THEN [t.rows[r] EXCEPT !.version = @ + 1] ELSE orders[r]
  BY DEF Commit
<1>2. ASSUME NEW r \in t.dirty PROVE r \in Requests /\ orders'[r].status # "ABSENT"
  <2>1. r \in Requests /\ t.rows[r] \in OrderRows
    BY DEF TxRecords
  <2>2. orders'[r].status = t.rows[r].status
    BY <1>1, <2>1 DEF OrderRows
  <2>. QED BY <2>1, <2>2
<1>3. ASSUME NEW r \in Requests, orders'[r].status # "ABSENT" PROVE Hold(r) \in ledger'
  BY <1>1, <1>3 DEF LedgerInv, LedgerOK
<1>4. ASSUME NEW r \in Requests, NEW e \in ledger', e.key = HoldKey(r)
      PROVE  e = Hold(r) /\ orders'[r].status # "ABSENT"
  <2>1. CASE e \in t.entries
    BY <1>2, <1>4, <2>1
  <2>2. CASE e \in ledger
    <3>1. e = Hold(r) /\ orders[r].status # "ABSENT"
      BY <1>4, <2>2 DEF LedgerInv, LedgerOK
    <3>. QED BY <1>1, <1>2, <3>1
  <2>. QED BY <1>1, <2>1, <2>2
<1>5. market'.status # "SETTLED" => settledBets' = {}
  BY <1>1 DEF LedgerInv, LedgerOK
<1>6. AllPaid(settledBets', ledger')
  BY <1>1 DEF LedgerInv, LedgerOK, AllPaid
<1>7. \E x \in Selections : PaymentsFor(ledger', settledBets', x)
  <2>1. PICK x \in Selections : PaymentsFor(ledger, settledBets, x)
    BY DEF LedgerInv, LedgerOK
  <2>2. CASE t.settled = {}
    <3>1. PaymentsFor(ledger', settledBets', x)
      BY <1>1, <2>1, <2>2 DEF PaymentsFor
    <3>. QED BY <3>1
  <2>3. CASE market.status # "SETTLED"
    <3>1. settledBets = {} /\ t.winner \in Selections
      BY <2>3 DEF LedgerInv, LedgerOK, TxRecords
    <3>2. PaymentsFor(ledger', settledBets', t.winner)
      BY <1>1, <2>1, <3>1 DEF PaymentsFor
    <3>. QED BY <3>1, <3>2
  <2>. QED BY <2>2, <2>3
<1>8. LedgerOK'
  BY <1>3, <1>4, <1>5, <1>6, <1>7 DEF LedgerOK, PaymentsFor, AllPaid, Hold, Payment
<1>. QED BY <1>1, <1>8, EndLedger

-----------------------------------------------------------------------------
(* place_order                                                              *)

\* PlaceBegin and PlaceInsert post nothing.
LEMMA PlaceBeginLedger ==
  ASSUME Inv, LedgerInv, NEW s \in Sessions, NEW r \in Requests, PlaceBegin(s, r)
  PROVE  LedgerInv'
<1>. DEFINE t2 == [IdleTx EXCEPT !.pc = "insert", !.order = r, !.market = market]
<1>1. t2.entries = {} /\ t2.settled = {} /\ t2.dirty = {} /\ t2.pc = "insert"
  BY DEF IdleTx
<1>2. Private(s, t2)
  BY DEF PlaceBegin
<1>. HIDE DEF t2
<1>3. PostingsOK(t2)
  BY <1>1, NoPostings
<1>. QED BY <1>2, <1>3, PrivateLedger DEF Inv

\* PlaceInsert: the new row is OPEN.
LEMMA PlaceInsertLedger ==
  ASSUME Inv, LedgerInv, NEW s \in Sessions, PlaceInsert(s)
  PROVE  LedgerInv'
<1>. DEFINE t == tx[s]
            r == t.order
            row == [status |-> "OPEN", matched |-> 0, created |-> clock, version |-> 0]
            t2 == [t EXCEPT !.pc = "reserve", !.rows[r] = row, !.dirty = {r}]
<1>t. t \in TxRecords /\ r \in Requests
  BY TxType DEF Inv
<1>1. /\ t2.pc = "reserve" /\ t2.dirty = {r} /\ t2.entries = t.entries
      /\ t2.settled = t.settled /\ t2.winner = t.winner /\ t2.rows[r] = row
  BY <1>t DEF TxRecords
<1>2. Private(s, t2) /\ t.pc = "insert"
  BY DEF PlaceInsert
<1>3. PostingsOK(t)
  BY DEF LedgerInv
<1>. HIDE DEF t2
<1>4. PostingsOK(t2)
  BY <1>1, <1>2, <1>3 DEF PostingsOK, PaymentsFor, AllPaid
<1>. QED BY <1>2, <1>4, PrivateLedger DEF Inv

\* PlaceReserve posts the hold of its order: no hold of that order can be
\* there, because its key is not taken.
LEMMA PlaceReserveLedger ==
  ASSUME Inv, LedgerInv, NEW s \in Sessions, PlaceReserve(s)
  PROVE  LedgerInv'
<1>. DEFINE t == tx[s]
            r == t.order
            p == Post(s, t, r.user, HoldKey(r), 0, Exposure(r))
            t2 == [p EXCEPT !.pc = "lock", !.todo = Matchable(r)]
<1>t. t \in TxRecords /\ r \in Requests /\ TypeOK
  BY TxType DEF Inv
<1>u. r.user \in Users /\ Exposure(r) \in Int /\ HoldKey(r) \in LedgerKeys
  BY <1>t, RequestType, LiabilityType, SMT DEF Exposure, HoldKey, LedgerKeys
<1>q. Private(s, t2) /\ t.pc = "reserve"
  BY DEF PlaceReserve
<1>1. PostingsOK(t)
  BY DEF LedgerInv
<1>2. ~ \E e \in ledger \cup t.entries : e.key = HoldKey(r)
  <2>1. Taking(t)
    BY <1>q DEF Taking, PlacePCs
  <2>2. orders[r].status = "ABSENT"
    BY <1>t, <2>1 DEF Inv, SessionOK, WritesOK, KeyTaken
  <2>. QED BY <1>1, <1>t, <1>q, <2>2 DEF LedgerInv, LedgerOK, PostingsOK
<1>3. /\ p.order = r /\ p.settled = t.settled /\ p.winner = t.winner /\ p.rows = t.rows
      /\ p.dirty = t.dirty /\ p.entries = t.entries \cup {Hold(r)} /\ p \in TxRecords
  <2>1. Hold(r) = [key |-> HoldKey(r), user |-> r.user, balance |-> 0, reserved |-> Exposure(r)]
    BY DEF Hold
  <2>2. /\ p \in TxRecords /\ p.order = r /\ p.settled = t.settled /\ p.winner = t.winner
        /\ p.rows = t.rows /\ p.dirty = t.dirty
        /\ p.entries \subseteq t.entries \cup {Hold(r)} /\ t.entries \subseteq p.entries
        /\ Hold(r) \in p.entries
    BY <1>t, <1>u, <1>2, <2>1, PostReserved
  <2>. QED BY <2>2
<1>. HIDE DEF p
<1>4. /\ t2.pc = "lock" /\ t2.order = r /\ t2.settled = t.settled /\ t2.winner = t.winner
      /\ t2.dirty = t.dirty /\ t2.rows = t.rows /\ t2.entries = t.entries \cup {Hold(r)}
  BY <1>3 DEF TxRecords
<1>. HIDE DEF t2
<1>5. PostingsOK(t2)
  <2>1. \A q \in Requests : \A e \in t2.entries :
          e.key = HoldKey(q) => e = Hold(q) /\ q = r
    <3>1. \A q \in Requests : Hold(r).key = HoldKey(q) => q = r
      BY KeyTags DEF Hold
    <3>. QED BY <1>1, <1>q, <1>4, <3>1 DEF PostingsOK
  <2>2. PaymentsFor(t2.entries, t2.settled, t2.winner)
    <3>1. Hold(r).key[1] = "hold"
      BY KeyTags DEF Hold
    <3>. QED BY <1>1, <1>4, <3>1 DEF PostingsOK, PaymentsFor
  <2>3. market.status # "SETTLED" => AllPaid(t2.settled, t2.entries)
    BY <1>1, <1>4 DEF PostingsOK, AllPaid
  <2>4. t2.settled = {}
    BY <1>1, <1>4, <1>q DEF PostingsOK
  <2>. QED BY <1>1, <1>4, <2>1, <2>2, <2>3, <2>4 DEF PostingsOK
<1>. QED BY <1>q, <1>t, <1>5, PrivateLedger

\* PlaceLock, PlaceMakers and PlaceMatch post nothing more.
LEMMA PlaceLockLedger ==
  ASSUME Inv, LedgerInv, NEW s \in Sessions, NEW m \in Requests, PlaceLock(s, m)
  PROVE  LedgerInv'
<1>. DEFINE t == tx[s]
            t2 == [t EXCEPT !.todo = @ \ {m}, !.locked = @ \cup {m}, !.rows[m] = orders[m]]
<1>t. t \in TxRecords /\ t.dirty \subseteq Requests
  BY TxType DEF Inv, TxRecords
<1>1. /\ t2.pc = t.pc /\ t2.order = t.order /\ t2.entries = t.entries
      /\ t2.settled = t.settled /\ t2.winner = t.winner /\ t2.dirty = t.dirty
      /\ \A q \in Requests : q # m => t2.rows[q] = t.rows[q]
  BY <1>t DEF TxRecords
<1>2. Private(s, t2) /\ t.pc = "lock" /\ m \in t.todo
  BY DEF PlaceLock, FirstOf
<1>3. PostingsOK(t) /\ t.dirty = {t.order} /\ m # t.order
  BY <1>2, OrderIsNoMaker DEF LedgerInv
<1>. HIDE DEF t2
<1>4. \A q \in t2.dirty : t2.rows[q].status # "ABSENT"
  BY <1>1, <1>3, <1>t DEF PostingsOK
<1>5. PostingsOK(t2)
  BY <1>1, <1>2, <1>3, <1>4 DEF PostingsOK, PaymentsFor, AllPaid
<1>. QED BY <1>2, <1>5, PrivateLedger DEF Inv

LEMMA PlaceMakersLedger ==
  ASSUME Inv, LedgerInv, NEW s \in Sessions, PlaceMakers(s)
  PROVE  LedgerInv'
<1>. DEFINE t == tx[s]
            t2 == [t EXCEPT !.pc = "match", !.todo = t.locked \cap Matchable(t.order)]
<1>t. t \in TxRecords
  BY TxType DEF Inv, TxRecords
<1>1. /\ t2.pc = "match" /\ t2.order = t.order /\ t2.entries = t.entries
      /\ t2.settled = t.settled /\ t2.winner = t.winner /\ t2.dirty = t.dirty
      /\ t2.rows = t.rows
  BY <1>t DEF TxRecords
<1>2. Private(s, t2) /\ t.pc = "lock"
  BY DEF PlaceMakers
<1>3. PostingsOK(t)
  BY DEF LedgerInv
<1>. HIDE DEF t2
<1>4. PostingsOK(t2)
  BY <1>1, <1>2, <1>3 DEF PostingsOK, PaymentsFor, AllPaid
<1>. QED BY <1>2, <1>4, PrivateLedger DEF Inv

\* PlaceMatch: a matched maker's row is MATCHED or PARTIALLY_MATCHED.
LEMMA PlaceMatchLedger ==
  ASSUME Inv, LedgerInv, NEW s \in Sessions, NEW m \in Requests, PlaceMatch(s, m)
  PROVE  LedgerInv'
<1>. DEFINE t == tx[s]
            r == t.order
            open == Remaining(r, t.rows[r])
            offered == Remaining(m, t.rows[m])
            size == IF open <= offered THEN open ELSE offered
            filled == [t.rows[m] EXCEPT !.matched = @ + size]
            maker == [filled EXCEPT !.status =
                        IF Remaining(m, filled) = 0 THEN "MATCHED" ELSE "PARTIALLY_MATCHED"]
            rows2 == [t.rows EXCEPT ![r].matched = @ + size, ![m] = maker]
            fills == {[taker |-> r, maker |-> m, side |-> x, stake |-> size] : x \in Sides}
            t2 == [t EXCEPT !.rows = rows2, !.dirty = @ \cup {m}, !.todo = @ \ {m},
                            !.newBets = @ \cup fills]
<1>t. t \in TxRecords /\ r \in Requests /\ t.dirty \subseteq Requests
      /\ t.rows \in [Requests -> OrderRows]
  BY TxType DEF Inv, TxRecords
<1>1. /\ t2.pc = t.pc /\ t2.order = r /\ t2.entries = t.entries
      /\ t2.settled = t.settled /\ t2.winner = t.winner /\ t2.dirty = t.dirty \cup {m}
      /\ t2.rows = rows2
  BY <1>t DEF TxRecords
<1>2. Private(s, t2)
  BY DEF PlaceMatch
<1>3. PostingsOK(t)
  BY DEF LedgerInv
<1>4. rows2[m].status # "ABSENT"
  <2>1. filled.status = t.rows[m].status /\ DOMAIN filled = DOMAIN t.rows[m]
    OBVIOUS
  <2>2. t.rows[m] \in OrderRows
    BY <1>t
  <2>3. "status" \in DOMAIN filled
    BY <2>1, <2>2 DEF OrderRows
  <2>4. maker.status # "ABSENT"
    BY <2>3
  <2>. HIDE DEF maker
  <2>. QED BY <1>t, <2>4
<1>5. \A q \in Requests \ {m} : rows2[q].status = t.rows[q].status
  <2>. HIDE DEF size, maker
  <2>1. t.rows[r] \in OrderRows
    BY <1>t
  <2>2. [t.rows[r] EXCEPT !.matched = @ + size].status = t.rows[r].status
    BY <2>1 DEF OrderRows
  <2>. QED BY <1>t, <2>2
<1>. HIDE DEF t2, rows2
<1>6. \A q \in t2.dirty : t2.rows[q].status # "ABSENT"
  BY <1>1, <1>3, <1>4, <1>5, <1>t DEF PostingsOK
<1>7. PostingsOK(t2)
  BY <1>1, <1>3, <1>6 DEF PostingsOK, PaymentsFor, AllPaid
<1>. QED BY <1>2, <1>7, PrivateLedger DEF Inv

\* PlaceCommit writes its order with its hold, and makers that are there.
LEMMA PlaceCommitLedger ==
  ASSUME Inv, LedgerInv, NEW s \in Sessions, PlaceCommit(s)
  PROVE  LedgerInv'
<1>. DEFINE t == tx[s]
            r == t.order
            t2 == [t EXCEPT !.rows[r].status = StatusOf(r, t.rows[r])]
<1>t. t \in TxRecords /\ r \in Requests /\ t.rows[r] \in OrderRows /\ TypeOK
  BY TxType DEF Inv
<1>s. StatusOf(r, t.rows[r]) \in OrderStatuses /\ StatusOf(r, t.rows[r]) # "ABSENT"
  BY <1>t, TxType DEF StatusOf, OrderStatuses
<1>1. [t.rows[r] EXCEPT !.status = StatusOf(r, t.rows[r])] \in OrderRows
  BY <1>t, <1>s DEF OrderRows
<1>2. t2 \in TxRecords
  BY <1>t, <1>1 DEF TxRecords
<1>3. /\ t2.entries = t.entries /\ t2.settled = t.settled /\ t2.winner = t.winner
      /\ t2.dirty = t.dirty
      /\ \A q \in Requests : q # r => t2.rows[q] = t.rows[q]
      /\ t2.rows[r].status # "ABSENT"
  <2>1. [t.rows[r] EXCEPT !.status = StatusOf(r, t.rows[r])].status # "ABSENT"
    BY <1>t, <1>s DEF OrderRows
  <2>. QED BY <1>t, <2>1 DEF TxRecords
<1>4. Commit(s, t2) /\ market' = market /\ t.pc = "match"
  BY DEF PlaceCommit
<1>. HIDE DEF t2
<1>5. PostingsOK(t) /\ t.settled = {} /\ Hold(r) \in t.entries
  BY <1>4 DEF LedgerInv, PostingsOK
<1>6. r \in t.dirty
  <2>1. Taking(t)
    BY <1>4 DEF Taking, PlacePCs
  <2>. QED BY <2>1 DEF Inv, SessionOK, WritesOK
<1>7. \A q \in t2.dirty : /\ t2.rows[q].status # "ABSENT"
                          /\ orders[q].status # "ABSENT" \/ Hold(q) \in t2.entries
  <2>1. \A q \in t.dirty : orders[q].status # "ABSENT" \/ q = r
    BY DirtyRows DEF OpenStatuses
  <2>2. \A q \in t.dirty : t.rows[q].status # "ABSENT" /\ q \in Requests
    BY <1>5, <1>t DEF PostingsOK, TxRecords
  <2>. QED BY <1>3, <1>5, <2>1, <2>2
<1>8. \A q \in Requests : \A e \in t2.entries :
        e.key = HoldKey(q) => e = Hold(q) /\ q \in t2.dirty
  BY <1>3, <1>5, <1>6 DEF PostingsOK
<1>9. PaymentsFor(t2.entries, t2.settled, t2.winner)
  BY <1>3, <1>5 DEF PostingsOK
<1>. QED BY <1>2, <1>3, <1>4, <1>5, <1>7, <1>8, <1>9, <1>t, CommitLedger

-----------------------------------------------------------------------------
(* cancel_order                                                             *)

\* CancelBegin posts nothing.
LEMMA CancelBeginLedger ==
  ASSUME Inv, LedgerInv, NEW s \in Sessions, NEW r \in Requests, CancelBegin(s, r)
  PROVE  LedgerInv'
<1>. DEFINE t2 == [IdleTx EXCEPT !.pc = "cancelFlush", !.order = r, !.rows[r] = orders[r]]
<1>1. t2.entries = {} /\ t2.settled = {} /\ t2.dirty = {} /\ t2.pc = "cancelFlush"
  BY DEF IdleTx
<1>2. Private(s, t2)
  BY DEF CancelBegin
<1>. HIDE DEF t2
<1>3. PostingsOK(t2)
  BY <1>1, NoPostings
<1>. QED BY <1>2, <1>3, PrivateLedger DEF Inv

\* CancelFlush: the row to write is CANCELLED.
LEMMA CancelFlushLedger ==
  ASSUME Inv, LedgerInv, NEW s \in Sessions, CancelFlush(s)
  PROVE  LedgerInv'
<1>. DEFINE t == tx[s]
            r == t.order
            t2 == [t EXCEPT !.pc = "cancelRelease", !.locked = {r}, !.dirty = {r},
                            !.rows[r].status = "CANCELLED"]
<1>t. t \in TxRecords /\ r \in Requests /\ t.rows[r] \in OrderRows
  BY TxType DEF Inv
<1>1. /\ t2.pc = "cancelRelease" /\ t2.entries = t.entries /\ t2.settled = t.settled
      /\ t2.winner = t.winner /\ t2.dirty = {r} /\ t2.rows[r].status = "CANCELLED"
  BY <1>t DEF TxRecords, OrderRows
<1>2. Private(s, t2) /\ t.pc = "cancelFlush"
  BY DEF CancelFlush
<1>3. PostingsOK(t)
  BY DEF LedgerInv
<1>. HIDE DEF t2
<1>4. PostingsOK(t2)
  BY <1>1, <1>2, <1>3 DEF PostingsOK, PaymentsFor, AllPaid
<1>. QED BY <1>2, <1>4, PrivateLedger DEF Inv

\* CancelRelease posts a release and pays and holds nothing.
LEMMA CancelReleaseLedger ==
  ASSUME Inv, LedgerInv, NEW s \in Sessions, CancelRelease(s)
  PROVE  LedgerInv'
<1>. DEFINE t == tx[s]
            r == t.order
            amount == LiabilityMinor(r.side, r.price, Remaining(r, t.rows[r]))
            release == - amount
            entry == [key |-> ReleaseKey(r), user |-> r.user, balance |-> 0,
                      reserved |-> release]
            p == Post(s, t, r.user, ReleaseKey(r), 0, release)
<1>t. t \in TxRecords /\ r \in Requests /\ TypeOK
  BY TxType DEF Inv
<1>u. r.user \in Users /\ release \in Int /\ ReleaseKey(r) \in LedgerKeys
  <2>1. amount \in Int
    BY <1>t, TxType, RequestType, LiabilityType DEF Inv
  <2>2. release \in Int
    BY <2>1
  <2>. QED BY <1>t, <2>2, RequestType DEF ReleaseKey, LedgerKeys
<1>p. /\ p \in TxRecords /\ p.rows = t.rows /\ p.dirty = t.dirty /\ p.settled = t.settled
      /\ p.winner = t.winner /\ p.entries \subseteq t.entries \cup {entry}
  <2>. HIDE DEF release
  <2>1. p \in TxRecords /\ p.rows = t.rows /\ p.dirty = t.dirty
    BY <1>t, <1>u, PostReserved, ZenonT(60)
  <2>2. p.settled = t.settled /\ p.winner = t.winner
    BY <1>t DEF Post, TxRecords
  <2>3. p.entries \subseteq t.entries \cup {entry}
    BY <1>t, <1>u, PostReserved
  <2>. QED BY <2>1, <2>2, <2>3
<1>k. entry.key = ReleaseKey(r) /\ entry.key[1] = "release"
  BY KeyTags
<1>q. Commit(s, p) /\ t.pc = "cancelRelease" /\ market' = market
  BY DEF CancelRelease
<1>. HIDE DEF p, entry
<1>1. PostingsOK(t) /\ t.settled = {}
  BY <1>q DEF LedgerInv, PostingsOK
<1>2. \A q \in p.dirty : /\ p.rows[q].status # "ABSENT" /\ orders[q].status # "ABSENT"
  <2>1. ~ Taking(t)
    BY <1>q DEF Taking, PlacePCs
  <2>2. ASSUME NEW q \in t.dirty PROVE orders[q].status \in OpenStatuses
    BY <1>q, <2>1 DEF Inv, SessionOK, WritesOK
  <2>. QED BY <1>1, <1>p, <2>2 DEF PostingsOK, OpenStatuses
<1>3. \A q \in Requests : \A e \in p.entries :
        e.key = HoldKey(q) => e = Hold(q) /\ q \in p.dirty
  <2>1. \A q \in Requests : entry.key # HoldKey(q)
    BY <1>k, KeyTags
  <2>. QED BY <1>1, <1>p, <1>q, <2>1 DEF PostingsOK
<1>4. PaymentsFor(p.entries, p.settled, p.winner)
  BY <1>1, <1>k, <1>p DEF PostingsOK, PaymentsFor
<1>. QED BY <1>1, <1>2, <1>3, <1>4, <1>p, <1>q, <1>t, CommitLedger

-----------------------------------------------------------------------------
(* settle_market and _transition                                            *)

\* SettleBegin posts nothing.
LEMMA SettleBeginLedger ==
  ASSUME Inv, LedgerInv, NEW s \in Sessions, NEW winner \in Winners, SettleBegin(s, winner)
  PROVE  LedgerInv'
<1>. DEFINE t2 == [IdleTx EXCEPT !.pc = "settleBets", !.winner = winner, !.market = market,
                                 !.todoBets = bets \ settledBets]
<1>1. t2.entries = {} /\ t2.settled = {} /\ t2.dirty = {} /\ t2.pc = "settleBets"
  BY DEF IdleTx
<1>2. Private(s, t2)
  BY DEF SettleBegin
<1>. HIDE DEF t2
<1>3. PostingsOK(t2)
  BY <1>1, NoPostings
<1>. QED BY <1>2, <1>3, PrivateLedger DEF Inv

\* SettleBet posts the payment of its bet, unless an entry of this bet is in
\* the ledger already.
LEMMA SettleBetLedger ==
  ASSUME Inv, LedgerInv, NEW s \in Sessions, NEW b \in tx[s].todoBets, SettleBet(s, b)
  PROVE  LedgerInv'
<1>. DEFINE t == tx[s]
            won == BetOrder(b).selection = t.winner
            d == SettleBetDeltas(b.side, BetPrice(b), b.stake, won)
            p == Post(s, t, BetUser(b), SettleKey(b), d.balance, d.reserved)
            t2 == [p EXCEPT !.todoBets = @ \ {b}, !.settled = @ \cup {b}]
<1>t. t \in TxRecords /\ b \in BetRecords /\ TypeOK
  BY TxType DEF Inv, TxRecords
<1>u. /\ BetUser(b) \in Users /\ d.balance \in Int /\ d.reserved \in Int
      /\ SettleKey(b) \in LedgerKeys
  BY <1>t, BetType, SettleType
<1>d. Payment(b, t.winner) = [key |-> SettleKey(b), user |-> BetUser(b),
                              balance |-> d.balance, reserved |-> d.reserved]
  BY DEF Payment
<1>q. Private(s, t2) /\ t.pc = "settleBets"
  BY DEF SettleBet
<1>p. /\ p \in TxRecords /\ p.pc = t.pc /\ p.settled = t.settled /\ p.winner = t.winner
      /\ p.rows = t.rows /\ p.dirty = t.dirty
      /\ p.entries \subseteq t.entries \cup {Payment(b, t.winner)} /\ t.entries \subseteq p.entries
      /\ \/ Payment(b, t.winner) \in p.entries
         \/ \E e \in ledger \cup t.entries : e.key = SettleKey(b)
  <2>. HIDE DEF d
  <2>1. p \in TxRecords
    BY <1>t, <1>u, PostType
  <2>. QED BY <1>t, <1>u, <1>d, <2>1, PostFields, PostEntries
<1>. HIDE DEF p
<1>1. /\ t2.pc = "settleBets" /\ t2.winner = t.winner /\ t2.dirty = t.dirty /\ t2.rows = t.rows
      /\ t2.entries = p.entries /\ t2.settled = t.settled \cup {b}
  BY <1>p, <1>q DEF TxRecords
<1>. HIDE DEF t2, d
<1>2. PostingsOK(t)
  BY DEF LedgerInv
<1>k. Payment(b, t.winner).key = SettleKey(b) /\ SettleKey(b)[1] = "settle" /\ SettleKey(b)[2] = b
  BY <1>d, KeyTags
<1>e. p.entries \subseteq t.entries \cup {Payment(b, t.winner)}
  BY <1>p
<1>3. PostingsOK(t2)
  <2>1. \A q \in Requests : \A e \in t2.entries : e.key # HoldKey(q)
    <3>1. \A q \in Requests : Payment(b, t.winner).key # HoldKey(q)
      BY <1>k, KeyTags
    <3>. QED BY <1>1, <1>2, <1>e, <1>q, <3>1 DEF PostingsOK
  <2>2. PaymentsFor(t2.entries, t2.settled, t2.winner)
    BY <1>1, <1>2, <1>e, <1>k DEF PostingsOK, PaymentsFor
  <2>3. ASSUME market.status # "SETTLED" PROVE AllPaid(t2.settled, t2.entries)
    <3>1. \A e \in ledger : e.key # SettleKey(b)
      BY <1>k, <2>3 DEF LedgerInv, LedgerOK, PaymentsFor
    <3>2. t.entries \subseteq p.entries /\ \E e \in p.entries : e.key = SettleKey(b)
      BY <1>k, <1>p, <3>1
    <3>. QED BY <1>1, <1>2, <2>3, <3>2 DEF PostingsOK, AllPaid
  <2>. QED BY <1>1, <1>2, <2>1, <2>2, <2>3 DEF PostingsOK
<1>. QED BY <1>q, <1>t, <1>3, PrivateLedger

\* SettleListOrders leaves the postings alone; nothing is written yet.
LEMMA SettleListOrdersLedger ==
  ASSUME Inv, LedgerInv, NEW s \in Sessions, SettleListOrders(s)
  PROVE  LedgerInv'
<1>. DEFINE t == tx[s]
            open == {r \in Requests : orders[r].status \in OpenStatuses}
            rows2 == [r \in Requests |-> IF r \in open THEN orders[r] ELSE NoRow]
            t2 == [t EXCEPT !.pc = "settleOrders", !.todo = open, !.rows = rows2]
<1>t. t \in TxRecords
  BY TxType DEF Inv
<1>1. /\ t2.pc = "settleOrders" /\ t2.entries = t.entries /\ t2.settled = t.settled
      /\ t2.winner = t.winner /\ t2.dirty = t.dirty
  BY <1>t DEF TxRecords
<1>2. Private(s, t2) /\ t.pc = "settleBets"
  BY DEF SettleListOrders
<1>3. PostingsOK(t) /\ t.dirty = {}
  BY <1>2 DEF LedgerInv, Inv, SessionOK, PhaseOK
<1>. HIDE DEF t2
<1>4. PostingsOK(t2)
  BY <1>1, <1>2, <1>3 DEF PostingsOK, PaymentsFor, AllPaid
<1>. QED BY <1>2, <1>4, PrivateLedger DEF Inv

\* SettleOrder posts at most a release; the row to write is CANCELLED.
LEMMA SettleOrderLedger ==
  ASSUME Inv, LedgerInv, NEW s \in Sessions, NEW r \in Requests, SettleOrder(s, r)
  PROVE  LedgerInv'
<1>. DEFINE t == tx[s]
            release == ReleaseAmount(r.side, r.price, Remaining(r, t.rows[r]))
            back == - release
            entry == [key |-> ReleaseSettleKey(r), user |-> r.user, balance |-> 0,
                      reserved |-> back]
            p == Post(s, t, r.user, ReleaseSettleKey(r), 0, back)
            paid == IF release > 0 THEN p ELSE t
            t2 == [paid EXCEPT !.todo = @ \ {r}, !.dirty = @ \cup {r},
                               !.rows[r].status = "CANCELLED"]
<1>t. t \in TxRecords /\ TypeOK
  BY TxType DEF Inv
<1>u. r.user \in Users /\ back \in Int /\ ReleaseSettleKey(r) \in LedgerKeys
  <2>1. release \in Int
    BY TxType, RequestType, LiabilityType DEF Inv
  <2>2. back \in Int
    BY <2>1
  <2>. QED BY <2>2, RequestType DEF ReleaseSettleKey, LedgerKeys
<1>q. Private(s, t2) /\ t.pc = "settleOrders"
  BY DEF SettleOrder
<1>p. /\ p \in TxRecords /\ p.pc = t.pc /\ p.rows = t.rows /\ p.dirty = t.dirty
      /\ p.settled = t.settled /\ p.winner = t.winner
      /\ p.entries \subseteq t.entries \cup {entry} /\ t.entries \subseteq p.entries
  <2>. HIDE DEF back
  <2>1. /\ p \in TxRecords /\ p.pc = t.pc /\ p.rows = t.rows /\ p.dirty = t.dirty
    BY <1>t, <1>u, PostReserved, ZenonT(60)
  <2>2. p.settled = t.settled /\ p.winner = t.winner
    BY <1>t DEF Post, TxRecords
  <2>3. p.entries \subseteq t.entries \cup {entry} /\ t.entries \subseteq p.entries
    BY <1>t, <1>u, PostReserved
  <2>. QED BY <2>1, <2>2, <2>3
<1>k. entry.key[1] = "release-settle"
  BY KeyTags
<1>. HIDE DEF p, entry
<1>1. /\ paid \in TxRecords /\ paid.pc = t.pc /\ paid.rows = t.rows /\ paid.dirty = t.dirty
      /\ paid.settled = t.settled /\ paid.winner = t.winner
      /\ paid.entries \subseteq t.entries \cup {entry} /\ t.entries \subseteq paid.entries
  BY <1>p, <1>t
<1>. HIDE DEF paid
<1>2. paid.rows \in [Requests -> OrderRows]
  BY <1>1 DEF TxRecords
<1>3. /\ t2.pc = t.pc /\ t2.dirty = t.dirty \cup {r} /\ t2.settled = t.settled
      /\ t2.winner = t.winner /\ t2.entries = paid.entries
  BY <1>1 DEF TxRecords
<1>4. /\ t2.rows[r].status = "CANCELLED"
      /\ \A q \in Requests : q # r => t2.rows[q] = t.rows[q]
  BY <1>1, <1>2 DEF TxRecords, OrderRows
<1>. HIDE DEF t2
<1>5. PostingsOK(t)
  BY DEF LedgerInv
<1>6. PostingsOK(t2)
  <2>1. \A q \in t2.dirty : t2.rows[q].status # "ABSENT"
    BY <1>3, <1>4, <1>5, <1>t DEF PostingsOK, TxRecords
  <2>2. \A q \in Requests : \A e \in t2.entries : e.key # HoldKey(q)
    <3>1. \A q \in Requests : entry.key # HoldKey(q)
      BY <1>k, KeyTags
    <3>. QED BY <1>1, <1>3, <1>5, <1>q, <3>1 DEF PostingsOK
  <2>3. PaymentsFor(t2.entries, t2.settled, t2.winner)
    BY <1>1, <1>3, <1>5, <1>k DEF PostingsOK, PaymentsFor
  <2>4. market.status # "SETTLED" => AllPaid(t2.settled, t2.entries)
    BY <1>1, <1>3, <1>5 DEF PostingsOK, AllPaid
  <2>. QED BY <1>3, <1>q, <2>1, <2>2, <2>3, <2>4 DEF PostingsOK
<1>. QED BY <1>q, <1>t, <1>6, PrivateLedger

\* SettleFlush only locks.
LEMMA SettleFlushLedger ==
  ASSUME Inv, LedgerInv, NEW s \in Sessions, NEW r \in Requests, SettleFlush(s, r)
  PROVE  LedgerInv'
<1>. DEFINE t == tx[s]
            t2 == [t EXCEPT !.locked = @ \cup {r}]
<1>t. t \in TxRecords
  BY TxType DEF Inv, TxRecords
<1>1. /\ t2.pc = t.pc /\ t2.order = t.order /\ t2.entries = t.entries
      /\ t2.settled = t.settled /\ t2.winner = t.winner /\ t2.dirty = t.dirty
      /\ t2.rows = t.rows
  BY <1>t DEF TxRecords
<1>2. Private(s, t2)
  BY DEF SettleFlush
<1>3. PostingsOK(t)
  BY DEF LedgerInv
<1>. HIDE DEF t2
<1>4. PostingsOK(t2)
  BY <1>1, <1>3 DEF PostingsOK, PaymentsFor, AllPaid
<1>. QED BY <1>2, <1>4, PrivateLedger DEF Inv

\* SettleCommit pays the bets of a market that was not settled until now.
LEMMA SettleCommitLedger ==
  ASSUME Inv, LedgerInv, NEW s \in Sessions, SettleCommit(s)
  PROVE  LedgerInv'
<1>. DEFINE t == tx[s]
<1>t. t \in TxRecords /\ t.dirty \subseteq Requests /\ TypeOK
  BY TxType DEF Inv, TxRecords
<1>q. /\ Commit(s, t) /\ t.pc = "settleOrders" /\ Unsent(t) = {}
      /\ market'.status = "SETTLED"
  BY DEF SettleCommit
<1>1. market.status # "SETTLED"
  BY DEF SettleCommit, Inv, SessionOK, MarketCopyOK
<1>2. PostingsOK(t)
  BY DEF LedgerInv
<1>3. \A r \in t.dirty : /\ t.rows[r].status # "ABSENT" /\ orders[r].status # "ABSENT"
  <2>1. ~ Taking(t)
    BY <1>q DEF Taking, PlacePCs
  <2>2. ASSUME NEW r \in t.dirty PROVE orders[r].status \in OpenStatuses
    BY <1>q, <2>1 DEF Inv, SessionOK, WritesOK
  <2>. QED BY <1>2, <2>2 DEF PostingsOK, OpenStatuses
<1>4. \A r \in Requests : \A e \in t.entries :
        e.key = HoldKey(r) => e = Hold(r) /\ r \in t.dirty
  BY <1>2, <1>q DEF PostingsOK
<1>5. PaymentsFor(t.entries, t.settled, t.winner) /\ AllPaid(t.settled, t.entries)
  BY <1>1, <1>2 DEF PostingsOK
<1>. QED BY <1>1, <1>3, <1>4, <1>5, <1>q, <1>t, CommitLedger

\* TransitionBegin posts nothing.
LEMMA TransitionBeginLedger ==
  ASSUME Inv, LedgerInv, NEW s \in Sessions, NEW target \in MarketStatuses,
         TransitionBegin(s, target)
  PROVE  LedgerInv'
<1>. DEFINE t2 == [IdleTx EXCEPT !.pc = "transition", !.target = target, !.market = market]
<1>1. t2.entries = {} /\ t2.settled = {} /\ t2.dirty = {} /\ t2.pc = "transition"
  BY DEF IdleTx
<1>2. Private(s, t2)
  BY DEF TransitionBegin
<1>. HIDE DEF t2
<1>3. PostingsOK(t2)
  BY <1>1, NoPostings
<1>. QED BY <1>2, <1>3, PrivateLedger DEF Inv

\* TransitionCommit writes the market only, and never after its settlement.
LEMMA TransitionCommitLedger ==
  ASSUME Inv, LedgerInv, NEW s \in Sessions, TransitionCommit(s)
  PROVE  LedgerInv'
<1>1. market.status # "SETTLED"
  BY DEF TransitionCommit, Inv, SessionOK, MarketCopyOK
<1>2. LedgerOK'
  BY <1>1 DEF TransitionCommit, LedgerInv, LedgerOK, PaymentsFor, AllPaid
<1>. QED BY <1>1, <1>2, EndLedger DEF TransitionCommit, Inv

-----------------------------------------------------------------------------
(* The ledger is in order                                                   *)

\* Every step of every request keeps the ledger in order.
LEMMA LedgerStep == Inv /\ LedgerInv /\ [Next]_vars => LedgerInv'
<1>. SUFFICES ASSUME Inv, LedgerInv, [Next]_vars PROVE LedgerInv'
  OBVIOUS
<1>1. CASE UNCHANGED vars
  BY <1>1 DEF LedgerInv, LedgerOK, PostingsOK, PaymentsFor, AllPaid, vars
<1>2. CASE Next
  <2>1. PICK s \in Sessions :
          PlaceNext(s) \/ CancelNext(s) \/ SettleNext(s) \/ TransitionNext(s)
            \/ StaleAbort(s) \/ Die(s)
    BY <1>2 DEF Next
  <2>2. CASE PlaceNext(s)
    <3>1. ASSUME NEW r \in Requests, PlaceAnswer(s, r) PROVE LedgerInv'
      BY <3>1 DEF PlaceAnswer, LedgerInv, LedgerOK, PostingsOK, PaymentsFor, AllPaid, vars
    <3>2. CASE PlaceDuplicate(s) \/ PlaceRefuse(s)
      BY <3>2, RollbackLedger DEF PlaceDuplicate, PlaceRefuse, Inv
    <3>. QED
      BY <2>2, <3>1, <3>2, PlaceBeginLedger, PlaceInsertLedger, PlaceReserveLedger,
         PlaceLockLedger, PlaceMakersLedger, PlaceMatchLedger, PlaceCommitLedger DEF PlaceNext
  <2>3. CASE CancelNext(s)
    BY <2>3, CancelBeginLedger, CancelFlushLedger, CancelReleaseLedger DEF CancelNext
  <2>4. CASE SettleNext(s)
    BY <2>4, SettleBeginLedger, SettleBetLedger, SettleListOrdersLedger, SettleOrderLedger,
       SettleFlushLedger, SettleCommitLedger DEF SettleNext
  <2>5. CASE TransitionNext(s)
    BY <2>5, TransitionBeginLedger, TransitionCommitLedger DEF TransitionNext
  <2>6. CASE StaleAbort(s) \/ Die(s)
    BY <2>6, RollbackLedger DEF StaleAbort, Die, Inv
  <2>. QED BY <2>1, <2>2, <2>3, <2>4, <2>5, <2>6
<1>. QED BY <1>1, <1>2

\* Nothing is placed, posted or settled at the start.
LEMMA InitLedger == Init => LedgerInv
<1>. SUFFICES ASSUME Init PROVE LedgerInv
  OBVIOUS
<1>1. LedgerOK
  BY SelectionsAssumption
     DEF Init, LedgerOK, NoRow, PaymentsFor, AllPaid
<1>2. PostingsOK(IdleTx)
  BY NoPostings DEF IdleTx
<1>. QED BY <1>1, <1>2 DEF Init, LedgerInv

\* The ledger is in order in every reachable state.
THEOREM LedgerInvariant == Spec => []LedgerInv
  BY InitLedger, LedgerStep, Invariant, PTL DEF Spec

\* An order and its exposure hold are committed together or not at all, and
\* the hold is the order's full exposure: place_order writes both, and nothing
\* else writes a hold or removes an order.
THEOREM HeldTogether == Spec => []HeldIffPlaced
<1>1. LedgerInv => HeldIffPlaced
  BY DEF LedgerInv, LedgerOK, HeldIffPlaced, Hold
<1>. QED BY <1>1, LedgerInvariant, PTL

\* A bet is SETTLED exactly when its payment is in the ledger, and no ledger
\* key is used twice: settlements that run together never pay a bet twice.
THEOREM PaidOnce == Spec => []PaidIffSettled
<1>1. Inv /\ LedgerInv => PaidIffSettled
  <2>. SUFFICES ASSUME Inv, LedgerInv PROVE PaidIffSettled
    OBVIOUS
  <2>1. PICK x \in Selections : PaymentsFor(ledger, settledBets, x)
    BY DEF LedgerInv, LedgerOK
  <2>2. ASSUME NEW b \in bets PROVE b \in settledBets <=> \E e \in ledger : e.key = SettleKey(b)
    <3>1. ASSUME NEW e \in ledger, e.key = SettleKey(b) PROVE b \in settledBets
      BY <2>1, <3>1, KeyTags DEF PaymentsFor
    <3>. QED BY <3>1 DEF LedgerInv, LedgerOK, AllPaid
  <2>3. ASSUME NEW e \in ledger, NEW f \in ledger, e.key = f.key PROVE e = f
    <3>1. e.key \in LedgerKeys
      BY DEF Inv, TypeOK, LedgerEntries
    <3>2. CASE \E r \in Requests : e.key = HoldKey(r)
      <4>1. PICK r \in Requests : e.key = HoldKey(r)
        BY <3>2
      <4>2. e = Hold(r)
        BY <4>1 DEF LedgerInv, LedgerOK
      <4>3. f = Hold(r)
        BY <2>3, <4>1 DEF LedgerInv, LedgerOK
      <4>. QED BY <4>2, <4>3
    <3>3. CASE \E r \in Requests : e.key \in ReleaseKeys(r)
      <4>1. PICK r \in Requests : e.key \in ReleaseKeys(r)
        BY <3>3
      <4>2. ReleasesExact(ledger, r, orders[r])
        BY DEF Inv, TablesOK, ReleaseExact
      <4>3. f.key \in ReleaseKeys(r)
        BY <2>3, <4>1
      <4>. QED BY <4>1, <4>2, <4>3 DEF ReleasesExact
    <3>4. CASE e.key[1] = "settle"
      BY <2>1, <2>3, <3>4 DEF PaymentsFor
    <3>. QED BY <3>1, <3>2, <3>3, <3>4, KeyKinds
  <2>. QED BY <2>2, <2>3 DEF PaidIffSettled
<1>. QED BY <1>1, Invariant, LedgerInvariant, PTL

\* All bets are paid for one winner, even when settle_market was called for
\* several at the same time: only one settlement can commit.
THEOREM OneWinner == Spec => []SettledConsistently
<1>1. LedgerInv => SettledConsistently
  <2>. SUFFICES ASSUME LedgerInv PROVE SettledConsistently
    OBVIOUS
  <2>1. PICK x \in Selections : PaymentsFor(ledger, settledBets, x)
    BY DEF LedgerInv, LedgerOK
  <2>2. ASSUME NEW e \in ledger, NEW b \in bets, e.key = SettleKey(b)
        PROVE  LET d == SettleBetDeltas(b.side, BetPrice(b), b.stake,
                                        BetOrder(b).selection = x)
               IN  e.balance = d.balance /\ e.reserved = d.reserved
    <3>1. e = Payment(b, x)
      BY <2>1, <2>2, KeyTags DEF PaymentsFor
    <3>. QED BY <3>1 DEF Payment
  <2>. QED BY <2>2 DEF SettledConsistently
<1>. QED BY <1>1, LedgerInvariant, PTL

-----------------------------------------------------------------------------
(* The sums of ExchangeAccounts                                             *)

Balances == [e \in LedgerEntries |-> e.balance]
Reserves == [e \in LedgerEntries |-> e.reserved]
Stakes == [b \in BetRecords |-> b.stake]

\* The sums of ExchangeAccounts are totals: balances,
LEMMA BalanceTotal ==
  ASSUME NEW S, S \subseteq LedgerEntries
  PROVE  BalanceOf(S) = Total(Balances, S)
<1>1. \A s \in SUBSET S : s # {} => Balances[Pick(s)] = Pick(s).balance
  BY PickIn DEF Balances
<1>2. \A iter : Unfolds(Balances, S, iter) <=>
        iter = [s \in SUBSET S |-> IF s = {} THEN 0 ELSE Pick(s).balance + iter[s \ {Pick(s)}]]
  BY <1>1 DEF Unfolds
<1>3. (CHOOSE iter : Unfolds(Balances, S, iter)) =
        CHOOSE iter :
          iter = [s \in SUBSET S |-> IF s = {} THEN 0 ELSE Pick(s).balance + iter[s \ {Pick(s)}]]
  BY <1>2
<1>4. Total(Balances, S) = (CHOOSE iter : Unfolds(Balances, S, iter))[S]
  BY TotalIs
<1>. QED BY <1>3, <1>4 DEF BalanceOf, MapThenSumSet, MapThenFoldSet, Pick

\* reservations,
LEMMA ReservedTotal ==
  ASSUME NEW S, S \subseteq LedgerEntries
  PROVE  ReservedOf(S) = Total(Reserves, S)
<1>1. \A s \in SUBSET S : s # {} => Reserves[Pick(s)] = Pick(s).reserved
  BY PickIn DEF Reserves
<1>2. \A iter : Unfolds(Reserves, S, iter) <=>
        iter = [s \in SUBSET S |-> IF s = {} THEN 0 ELSE Pick(s).reserved + iter[s \ {Pick(s)}]]
  BY <1>1 DEF Unfolds
<1>3. (CHOOSE iter : Unfolds(Reserves, S, iter)) =
        CHOOSE iter :
          iter = [s \in SUBSET S |-> IF s = {} THEN 0 ELSE Pick(s).reserved + iter[s \ {Pick(s)}]]
  BY <1>2
<1>4. Total(Reserves, S) = (CHOOSE iter : Unfolds(Reserves, S, iter))[S]
  BY TotalIs
<1>. QED BY <1>3, <1>4 DEF ReservedOf, MapThenSumSet, MapThenFoldSet, Pick

\* and stakes.
LEMMA StakesTotal ==
  ASSUME NEW S, S \subseteq BetRecords
  PROVE  StakesOf(S) = Total(Stakes, S)
<1>1. \A s \in SUBSET S : s # {} => Stakes[Pick(s)] = Pick(s).stake
  BY PickIn DEF Stakes
<1>2. \A iter : Unfolds(Stakes, S, iter) <=>
        iter = [s \in SUBSET S |-> IF s = {} THEN 0 ELSE Pick(s).stake + iter[s \ {Pick(s)}]]
  BY <1>1 DEF Unfolds
<1>3. (CHOOSE iter : Unfolds(Stakes, S, iter)) =
        CHOOSE iter :
          iter = [s \in SUBSET S |-> IF s = {} THEN 0 ELSE Pick(s).stake + iter[s \ {Pick(s)}]]
  BY <1>2
<1>4. Total(Stakes, S) = (CHOOSE iter : Unfolds(Stakes, S, iter))[S]
  BY TotalIs
<1>. QED BY <1>3, <1>4 DEF StakesOf, MapThenSumSet, MapThenFoldSet, Pick

\* The sums over the entries for a user: of none, of one more, of two sets apart.
LEMMA EntrySums ==
  /\ BalanceOf({}) = 0 /\ ReservedOf({}) = 0
  /\ \A S \in SUBSET LedgerEntries : IsFiniteSet(S) => BalanceOf(S) \in Int /\ ReservedOf(S) \in Int
  /\ \A S \in SUBSET LedgerEntries : \A e \in LedgerEntries \ S : IsFiniteSet(S) =>
        /\ BalanceOf(S \cup {e}) = BalanceOf(S) + e.balance
        /\ ReservedOf(S \cup {e}) = ReservedOf(S) + e.reserved
  /\ \A A, B \in SUBSET LedgerEntries : IsFiniteSet(A) /\ IsFiniteSet(B) /\ A \cap B = {} =>
        /\ BalanceOf(A \cup B) = BalanceOf(A) + BalanceOf(B)
        /\ ReservedOf(A \cup B) = ReservedOf(A) + ReservedOf(B)
<1>e. \A e \in LedgerEntries : /\ e.balance \in Int /\ e.reserved \in Int
                               /\ Balances[e] = e.balance /\ Reserves[e] = e.reserved
  BY DEF LedgerEntries, Balances, Reserves
<1>1. BalanceOf({}) = 0 /\ ReservedOf({}) = 0
  BY BalanceTotal, ReservedTotal, TotalEmpty
<1>2. ASSUME NEW S \in SUBSET LedgerEntries, IsFiniteSet(S)
      PROVE  BalanceOf(S) \in Int /\ ReservedOf(S) \in Int
  <2>1. Total(Balances, S) \in Int /\ Total(Reserves, S) \in Int
    BY <1>e, <1>2, TotalInt
  <2>. QED BY <2>1, BalanceTotal, ReservedTotal
<1>3. ASSUME NEW S \in SUBSET LedgerEntries, NEW e \in LedgerEntries \ S, IsFiniteSet(S)
      PROVE  /\ BalanceOf(S \cup {e}) = BalanceOf(S) + e.balance
             /\ ReservedOf(S \cup {e}) = ReservedOf(S) + e.reserved
  <2>1. /\ Total(Balances, S \cup {e}) = Total(Balances, S) + Balances[e]
        /\ Total(Reserves, S \cup {e}) = Total(Reserves, S) + Reserves[e]
    <3>1. \A x \in S \cup {e} : Balances[x] \in Int /\ Reserves[x] \in Int
      BY <1>e
    <3>. QED BY <1>3, <3>1, TotalAdd
  <2>2. S \subseteq LedgerEntries /\ S \cup {e} \subseteq LedgerEntries
    OBVIOUS
  <2>. QED BY <1>e, <2>1, <2>2, BalanceTotal, ReservedTotal
<1>4. ASSUME NEW A \in SUBSET LedgerEntries, NEW B \in SUBSET LedgerEntries,
             IsFiniteSet(A), IsFiniteSet(B), A \cap B = {}
      PROVE  /\ BalanceOf(A \cup B) = BalanceOf(A) + BalanceOf(B)
             /\ ReservedOf(A \cup B) = ReservedOf(A) + ReservedOf(B)
  <2>1. /\ Total(Balances, A \cup B) = Total(Balances, A) + Total(Balances, B)
        /\ Total(Reserves, A \cup B) = Total(Reserves, A) + Total(Reserves, B)
    BY <1>e, <1>4, TotalUnion
  <2>2. A \cup B \subseteq LedgerEntries
    OBVIOUS
  <2>. QED BY <2>1, <2>2, BalanceTotal, ReservedTotal
<1>. QED BY <1>1, <1>2, <1>3, <1>4

-----------------------------------------------------------------------------
(* Wallets                                                                  *)

\* The part of a session's state that is about money.
SameMoney(t, v) == t.held = v.held /\ t.wallets = v.wallets /\ t.entries = v.entries

\* A set of entries one of which is for u.
LEMMA EntriesMore ==
  ASSUME NEW S \in SUBSET LedgerEntries, IsFiniteSet(S), NEW e \in LedgerEntries, e \notin S,
         NEW u
  PROVE  /\ IsFiniteSet(EntriesFor(S, u)) /\ EntriesFor(S, u) \in SUBSET LedgerEntries
         /\ u = e.user =>
              /\ BalanceOf(EntriesFor(S \cup {e}, u)) = BalanceOf(EntriesFor(S, u)) + e.balance
              /\ ReservedOf(EntriesFor(S \cup {e}, u)) = ReservedOf(EntriesFor(S, u)) + e.reserved
         /\ u # e.user => EntriesFor(S \cup {e}, u) = EntriesFor(S, u)
<1>1. IsFiniteSet(EntriesFor(S, u)) /\ EntriesFor(S, u) \in SUBSET LedgerEntries
  BY FS_Subset DEF EntriesFor
<1>2. u # e.user => EntriesFor(S \cup {e}, u) = EntriesFor(S, u)
  BY DEF EntriesFor
<1>3. u = e.user => EntriesFor(S \cup {e}, u) = EntriesFor(S, u) \cup {e}
  BY DEF EntriesFor
<1>4. e \in LedgerEntries \ EntriesFor(S, u)
  BY DEF EntriesFor
<1>. QED BY <1>1, <1>2, <1>3, <1>4, EntrySums

\* The sums over a user's entries are whole numbers.
LEMMA EntriesInt ==
  ASSUME NEW S \in SUBSET LedgerEntries, IsFiniteSet(S), NEW u
  PROVE  BalanceOf(EntriesFor(S, u)) \in Int /\ ReservedOf(EntriesFor(S, u)) \in Int
<1>1. IsFiniteSet(EntriesFor(S, u)) /\ EntriesFor(S, u) \in SUBSET LedgerEntries
  BY FS_Subset DEF EntriesFor
<1>. QED BY <1>1, EntrySums

\* A posting moves the copy of the wallet by the entry it appends.
LEMMA PostWallets ==
  ASSUME TypeOK, WalletInv, NEW s \in Sessions, NEW u \in Users, NEW key \in LedgerKeys,
         NEW balance \in Int, NEW reserved \in Int,
         NEW p, p = Post(s, tx[s], u, key, balance, reserved)
  PROVE  WalletCopiesOK(p) /\ p.held = tx[s].held \cup {u}
<1>. DEFINE t == tx[s]
            w == WalletSeen(s, u)
            known == \E e \in ledger \cup t.entries : e.key = key
            entry == [key |-> key, user |-> u, balance |-> balance, reserved |-> reserved]
            w2 == IF known THEN w
                  ELSE [balance |-> w.balance + balance, reserved |-> w.reserved + reserved]
<1>t. t \in TxRecords /\ t.entries \in SUBSET LedgerEntries /\ t.wallets \in [Users -> WalletRows]
  BY TxType DEF TxRecords
<1>p. /\ p.held = t.held \cup {u}
      /\ p.wallets[u] = w2
      /\ \A v \in Users : v # u => p.wallets[v] = t.wallets[v]
      /\ p.entries = IF known THEN t.entries ELSE t.entries \cup {entry}
  BY <1>t DEF Post, TxRecords
<1>1. WalletCopiesOK(t)
  BY DEF WalletInv
<1>2. entry \in LedgerEntries /\ (~ known => entry \notin ledger \cup t.entries)
  BY DEF LedgerEntries
<1>w. w = [balance |-> wallets[u].balance + BalanceOf(EntriesFor(t.entries, u)),
           reserved |-> wallets[u].reserved + ReservedOf(EntriesFor(t.entries, u))]
  <2>1. CASE u \in t.held
    BY <1>1, <2>1 DEF WalletCopiesOK, WalletSeen
  <2>2. CASE u \notin t.held
    <3>1. EntriesFor(t.entries, u) = {}
      BY <1>1, <2>2 DEF WalletCopiesOK, EntriesFor
    <3>2. wallets[u] \in WalletRows /\ w = wallets[u]
      BY <2>2 DEF TypeOK, WalletSeen
    <3>3. /\ BalanceOf(EntriesFor(t.entries, u)) = 0
          /\ ReservedOf(EntriesFor(t.entries, u)) = 0
      BY <3>1, EntrySums
    <3>. QED BY <3>2, <3>3 DEF WalletRows
  <2>. QED BY <2>1, <2>2
<1>3. IsFiniteSet(t.entries)
  BY <1>1 DEF WalletCopiesOK
<1>i. /\ BalanceOf(EntriesFor(t.entries, u)) \in Int /\ ReservedOf(EntriesFor(t.entries, u)) \in Int
      /\ wallets[u].balance \in Int /\ wallets[u].reserved \in Int
  BY <1>t, <1>3, EntriesInt DEF TypeOK, WalletRows
<1>h. t.held \subseteq Users
  BY <1>t DEF TxRecords
<1>4. CASE known
  BY <1>1, <1>4, <1>p, <1>w, <1>h DEF WalletCopiesOK
<1>5. CASE ~ known
  <2>1. p.entries = t.entries \cup {entry} /\ entry \notin ledger \cup t.entries
    BY <1>2, <1>5, <1>p
  <2>2. entry.user = u /\ entry.balance = balance /\ entry.reserved = reserved
    OBVIOUS
  <2>3. p.wallets[u] = [balance |-> w.balance + balance, reserved |-> w.reserved + reserved]
    BY <1>5, <1>p
  <2>. HIDE DEF entry, w
  <2>4. p.wallets[u] = [balance |-> wallets[u].balance + BalanceOf(EntriesFor(p.entries, u)),
                        reserved |-> wallets[u].reserved + ReservedOf(EntriesFor(p.entries, u))]
    <3>1. /\ BalanceOf(EntriesFor(p.entries, u)) = BalanceOf(EntriesFor(t.entries, u)) + balance
          /\ ReservedOf(EntriesFor(p.entries, u)) = ReservedOf(EntriesFor(t.entries, u)) + reserved
      BY <1>t, <1>2, <1>3, <2>1, <2>2, EntriesMore
    <3>. QED BY <1>w, <1>i, <2>3, <3>1
  <2>5. \A v \in t.held \ {u} : EntriesFor(p.entries, v) = EntriesFor(t.entries, v)
    BY <2>1, <2>2 DEF EntriesFor
  <2>6. IsFiniteSet(p.entries)
    BY <1>3, <2>1, FS_AddElement
  <2>7. \A e \in p.entries : e.user \in p.held
    BY <1>1, <1>p, <2>1, <2>2 DEF WalletCopiesOK
  <2>8. p.entries \cap ledger = {}
    BY <1>1, <2>1 DEF WalletCopiesOK
  <2>. QED BY <1>1, <1>p, <1>h, <2>4, <2>5, <2>6, <2>7, <2>8 DEF WalletCopiesOK
<1>. QED BY <1>4, <1>5, <1>p

\* A session that has nothing in hand.
LEMMA IdleWallets == WalletCopiesOK(IdleTx) /\ IdleTx.held = {}
  BY FS_EmptySet DEF IdleTx, WalletCopiesOK

\* The money of a session's next state: what it has in hand, with a posting or without.
MoneyOf(s, v) ==
    \/ SameMoney(v, IdleTx)
    \/ SameMoney(v, tx[s])
    \/ \E u \in Users, key \in LedgerKeys, balance \in Int, reserved \in Int :
         WalletFree(s, u) /\ SameMoney(v, Post(s, tx[s], u, key, balance, reserved))

\* Replacing the transaction of one session keeps WalletInv if the new one is
\* right about its wallets, and no wallet is held twice.
LEMMA MoneyOK ==
  ASSUME TypeOK, WalletInv, NEW s \in Sessions, NEW v, MoneyOf(s, v)
  PROVE  /\ WalletCopiesOK(v)
         /\ \A z \in Sessions \ {s} : v.held \cap tx[z].held = {}
<1>1. CASE SameMoney(v, IdleTx)
  BY <1>1, IdleWallets DEF SameMoney, WalletCopiesOK
<1>2. CASE SameMoney(v, tx[s])
  BY <1>2 DEF SameMoney, WalletInv, WalletCopiesOK
<1>3. ASSUME NEW u \in Users, NEW key \in LedgerKeys, NEW balance \in Int, NEW reserved \in Int,
             WalletFree(s, u), NEW p, p = Post(s, tx[s], u, key, balance, reserved),
             SameMoney(v, p)
      PROVE  /\ WalletCopiesOK(v)
             /\ \A z \in Sessions \ {s} : v.held \cap tx[z].held = {}
  <2>1. WalletCopiesOK(p) /\ p.held = tx[s].held \cup {u}
    BY <1>3, PostWallets
  <2>. QED BY <1>3, <2>1 DEF SameMoney, WalletCopiesOK, WalletInv, WalletFree
<1>. QED BY <1>1, <1>2, <1>3 DEF MoneyOf

\* A step that changes no table keeps the wallets what they are.
LEMMA PrivateWallets ==
  ASSUME TypeOK, WalletInv, NEW s \in Sessions, NEW v, MoneyOf(s, v),
         tx' = [tx EXCEPT ![s] = v], UNCHANGED <<wallets, ledger>>
  PROVE  WalletInv'
<1>1. /\ WalletCopiesOK(v)
      /\ \A z \in Sessions \ {s} : v.held \cap tx[z].held = {}
  BY MoneyOK
<1>2. \A z \in Sessions : tx'[z] = IF z = s THEN v ELSE tx[z]
  BY DEF TypeOK
<1>3. WalletIsLedgerSum' /\ IsFiniteSet(ledger')
  BY DEF WalletInv, WalletIsLedgerSum
<1>4. ASSUME NEW z \in Sessions PROVE WalletCopiesOK(tx[z])'
  <2>1. PICK t : t = tx'[z]
    OBVIOUS
  <2>2. WalletCopiesOK(t)
    BY <1>1, <1>2, <2>1 DEF WalletInv
  <2>. QED BY <2>1, <2>2 DEF WalletCopiesOK
<1>5. ASSUME NEW x \in Sessions, NEW z \in Sessions, x # z
      PROVE  (tx[x].held \cap tx[z].held = {})'
  BY <1>1, <1>2, <1>5 DEF WalletInv
<1>. QED BY <1>3, <1>4, <1>5 DEF WalletInv

\* A commit adds to ledger and wallets the same amounts.
LEMMA CommitWallets ==
  ASSUME TypeOK, WalletInv, NEW s \in Sessions, NEW v \in TxRecords, MoneyOf(s, v), Commit(s, v)
  PROVE  WalletInv'
<1>1. /\ WalletCopiesOK(v)
      /\ \A z \in Sessions \ {s} : v.held \cap tx[z].held = {}
  BY MoneyOK
<1>2. \A z \in Sessions : tx'[z] = IF z = s THEN IdleTx ELSE tx[z]
  BY DEF TypeOK, Commit, End
<1>c. /\ ledger' = ledger \cup v.entries
      /\ \A u \in Users : wallets'[u] = IF u \in v.held THEN v.wallets[u] ELSE wallets[u]
  BY DEF Commit
<1>f. /\ IsFiniteSet(ledger) /\ IsFiniteSet(v.entries) /\ ledger \cap v.entries = {}
      /\ ledger \in SUBSET LedgerEntries /\ v.entries \in SUBSET LedgerEntries
  BY <1>1 DEF WalletInv, WalletCopiesOK, TypeOK, TxRecords
<1>3. WalletIsLedgerSum'
  <2>. SUFFICES ASSUME NEW u \in Users
                PROVE  /\ wallets'[u].balance = Grant + BalanceOf(EntriesFor(ledger', u))
                       /\ wallets'[u].reserved = ReservedOf(EntriesFor(ledger', u))
    BY DEF WalletIsLedgerSum
  <2>. DEFINE A == EntriesFor(ledger, u)
              B == EntriesFor(v.entries, u)
  <2>1. EntriesFor(ledger', u) = A \cup B /\ A \cap B = {}
    BY <1>c, <1>f DEF EntriesFor
  <2>2. /\ A \in SUBSET LedgerEntries /\ B \in SUBSET LedgerEntries
        /\ IsFiniteSet(A) /\ IsFiniteSet(B)
    BY <1>f, FS_Subset DEF EntriesFor
  <2>3. /\ BalanceOf(EntriesFor(ledger', u)) = BalanceOf(A) + BalanceOf(B)
        /\ ReservedOf(EntriesFor(ledger', u)) = ReservedOf(A) + ReservedOf(B)
        /\ BalanceOf(A) \in Int /\ BalanceOf(B) \in Int
        /\ ReservedOf(A) \in Int /\ ReservedOf(B) \in Int
    <3>. HIDE DEF A, B
    <3>. QED BY <2>1, <2>2, EntrySums
  <2>4. wallets[u].balance = Grant + BalanceOf(A) /\ wallets[u].reserved = ReservedOf(A)
    BY DEF WalletInv, WalletIsLedgerSum
  <2>5. /\ wallets'[u].balance = wallets[u].balance + BalanceOf(B)
        /\ wallets'[u].reserved = wallets[u].reserved + ReservedOf(B)
    <3>1. CASE u \in v.held
      <4>1. wallets'[u] = v.wallets[u]
        BY <1>c, <3>1
      <4>2. v.wallets[u] = [balance |-> wallets[u].balance + BalanceOf(B),
                            reserved |-> wallets[u].reserved + ReservedOf(B)]
        BY <1>1, <3>1 DEF WalletCopiesOK
      <4>. HIDE DEF B
      <4>. QED BY <4>1, <4>2
    <3>2. CASE u \notin v.held
      <4>1. B = {}
        BY <1>1, <3>2 DEF WalletCopiesOK, EntriesFor
      <4>2. wallets'[u] = wallets[u] /\ wallets[u].balance \in Int /\ wallets[u].reserved \in Int
        BY <1>c, <3>2 DEF TypeOK, WalletRows
      <4>. HIDE DEF B
      <4>. QED BY <4>1, <4>2, EntrySums
    <3>. QED BY <3>1, <3>2
  <2>. HIDE DEF A, B
  <2>. QED BY <2>3, <2>4, <2>5, NumbersAssumption
<1>4. IsFiniteSet(ledger')
  BY <1>c, <1>f, FS_Union
<1>5. ASSUME NEW z \in Sessions PROVE WalletCopiesOK(tx[z])'
  <2>1. PICK t : t = tx'[z]
    OBVIOUS
  <2>2. CASE z = s
    BY <1>2, <2>2, FS_EmptySet DEF WalletCopiesOK, IdleTx
  <2>3. CASE z # s
    <3>1. t = tx[z] /\ WalletCopiesOK(t) /\ t.held \cap v.held = {} /\ t.held \subseteq Users
      BY <1>1, <1>2, <2>1, <2>3, TxType DEF WalletInv, TxRecords
    <3>2. \A u \in t.held : wallets'[u] = wallets[u]
      BY <1>c, <3>1
    <3>3. t.entries \cap ledger' = {}
      BY <1>1, <1>c, <3>1 DEF WalletCopiesOK
    <3>. QED BY <2>1, <3>1, <3>2, <3>3 DEF WalletCopiesOK
  <2>. QED BY <2>2, <2>3
<1>6. ASSUME NEW x \in Sessions, NEW z \in Sessions, x # z
      PROVE  (tx[x].held \cap tx[z].held = {})'
  BY <1>2, <1>6, IdleWallets DEF WalletInv
<1>. QED BY <1>3, <1>4, <1>5, <1>6 DEF WalletInv

\* What the steps of a session do with money: nothing, a posting, a commit, or
\* an end that drops what was posted.
LEMMA PlaceMoney ==
  ASSUME TypeOK, NEW s \in Sessions, PlaceNext(s)
  PROVE  \/ UNCHANGED <<wallets, ledger, tx>>
         \/ \E v : MoneyOf(s, v) /\ tx' = [tx EXCEPT ![s] = v] /\ UNCHANGED <<wallets, ledger>>
         \/ \E v \in TxRecords : MoneyOf(s, v) /\ Commit(s, v)
<1>. DEFINE t == tx[s]
            r == t.order
            Step(v) == MoneyOf(s, v) /\ tx' = [tx EXCEPT ![s] = v] /\ UNCHANGED <<wallets, ledger>>
            Done(v) == MoneyOf(s, v) /\ Commit(s, v)
<1>. SUFFICES \/ UNCHANGED <<wallets, ledger, tx>>
              \/ \E v : Step(v)
              \/ \E v \in TxRecords : Done(v)
  OBVIOUS
<1>t. t \in TxRecords /\ r \in Requests
  BY TxType
<1>1. ASSUME NEW q \in Requests, PlaceAnswer(s, q) PROVE UNCHANGED <<wallets, ledger, tx>>
  BY <1>1 DEF PlaceAnswer, vars
<1>2. ASSUME NEW q \in Requests, PlaceBegin(s, q) PROVE \E v : Step(v)
  <2>. DEFINE v == [IdleTx EXCEPT !.pc = "insert", !.order = q, !.market = market]
  <2>1. SameMoney(v, IdleTx)
    BY IdleType DEF TxRecords, SameMoney
  <2>2. Step(v)
    BY <1>2, <2>1 DEF PlaceBegin, Private, MoneyOf
  <2>. QED BY <2>2
<1>3. ASSUME PlaceInsert(s) PROVE \E v : Step(v)
  <2>. DEFINE row == [status |-> "OPEN", matched |-> 0, created |-> clock, version |-> 0]
              v == [t EXCEPT !.pc = "reserve", !.rows[r] = row, !.dirty = {r}]
  <2>1. SameMoney(v, t)
    BY <1>t DEF TxRecords, SameMoney
  <2>2. Step(v)
    BY <1>3, <2>1 DEF PlaceInsert, Private, MoneyOf
  <2>. QED BY <2>2
<1>4. ASSUME Rollback(s) PROVE \E v : Step(v)
  <2>1. Step(IdleTx)
    BY <1>4 DEF Rollback, End, MoneyOf, SameMoney
  <2>. QED BY <2>1
<1>5. ASSUME PlaceReserve(s) PROVE \E v : Step(v)
  <2>. DEFINE p == Post(s, t, r.user, HoldKey(r), 0, Exposure(r))
              v == [p EXCEPT !.pc = "lock", !.todo = Matchable(r)]
  <2>1. r.user \in Users /\ Exposure(r) \in Int /\ HoldKey(r) \in LedgerKeys /\ 0 \in Int
    BY <1>t, RequestType, LiabilityType, SMT DEF Exposure, HoldKey, LedgerKeys
  <2>2. p \in TxRecords
    BY <1>t, <2>1, PostType
  <2>3. SameMoney(v, p)
    <3>. HIDE DEF p
    <3>. QED BY <2>2 DEF TxRecords, SameMoney
  <2>4. MoneyOf(s, v)
    BY <1>5, <2>1, <2>3 DEF MoneyOf, PlaceReserve
  <2>5. Step(v)
    BY <1>5, <2>4 DEF PlaceReserve, Private
  <2>. QED BY <2>5
<1>6. ASSUME NEW m \in Requests, PlaceLock(s, m) PROVE \E v : Step(v)
  <2>. DEFINE v == [t EXCEPT !.todo = @ \ {m}, !.locked = @ \cup {m}, !.rows[m] = orders[m]]
  <2>1. SameMoney(v, t)
    BY <1>t DEF TxRecords, SameMoney
  <2>2. Step(v)
    BY <1>6, <2>1 DEF PlaceLock, Private, MoneyOf
  <2>. QED BY <2>2
<1>9. ASSUME PlaceMakers(s) PROVE \E v : Step(v)
  <2>. DEFINE v == [t EXCEPT !.pc = "match", !.todo = t.locked \cap Matchable(r)]
  <2>1. SameMoney(v, t)
    BY <1>t DEF TxRecords, SameMoney
  <2>2. Step(v)
    BY <1>9, <2>1 DEF PlaceMakers, Private, MoneyOf
  <2>. QED BY <2>2
<1>7. ASSUME NEW m \in Requests, PlaceMatch(s, m) PROVE \E v : Step(v)
  <2>1. PICK rows, dirty, todo, newBets :
          Private(s, [t EXCEPT !.rows = rows, !.dirty = dirty, !.todo = todo, !.newBets = newBets])
    BY <1>7 DEF PlaceMatch
  <2>. DEFINE v == [t EXCEPT !.rows = rows, !.dirty = dirty, !.todo = todo, !.newBets = newBets]
  <2>2. SameMoney(v, t)
    BY <1>t DEF TxRecords, SameMoney
  <2>3. Step(v)
    BY <2>1, <2>2 DEF Private, MoneyOf
  <2>. QED BY <2>3
<1>8. ASSUME PlaceCommit(s) PROVE \E v \in TxRecords : Done(v)
  <2>. DEFINE status == StatusOf(r, t.rows[r])
              v == [t EXCEPT !.rows[r].status = status]
  <2>1. status \in OrderStatuses
    BY DEF StatusOf, OrderStatuses
  <2>2. [t.rows[r] EXCEPT !.status = status] \in OrderRows
    <3>. HIDE DEF status
    <3>. QED BY <1>t, <2>1, TxType DEF OrderRows
  <2>3. v \in TxRecords /\ SameMoney(v, t)
    <3>. HIDE DEF status
    <3>. QED BY <1>t, <2>2 DEF TxRecords, SameMoney
  <2>4. Commit(s, v)
    BY <1>8 DEF PlaceCommit
  <2>. QED BY <2>3, <2>4 DEF MoneyOf
<1>. HIDE DEF Step, Done
<1>. QED BY <1>1, <1>2, <1>3, <1>4, <1>5, <1>6, <1>7, <1>8, <1>9
         DEF PlaceNext, PlaceDuplicate, PlaceRefuse

\* So for the other operations.
LEMMA CancelMoney ==
  ASSUME TypeOK, NEW s \in Sessions, CancelNext(s)
  PROVE  \/ \E v : MoneyOf(s, v) /\ tx' = [tx EXCEPT ![s] = v] /\ UNCHANGED <<wallets, ledger>>
         \/ \E v \in TxRecords : MoneyOf(s, v) /\ Commit(s, v)
<1>. DEFINE t == tx[s]
            r == t.order
            Step(v) == MoneyOf(s, v) /\ tx' = [tx EXCEPT ![s] = v] /\ UNCHANGED <<wallets, ledger>>
            Done(v) == MoneyOf(s, v) /\ Commit(s, v)
<1>. SUFFICES (\E v : Step(v)) \/ (\E v \in TxRecords : Done(v))
  OBVIOUS
<1>t. t \in TxRecords /\ r \in Requests
  BY TxType
<1>1. ASSUME NEW q \in Requests, CancelBegin(s, q) PROVE \E v : Step(v)
  <2>. DEFINE v == [IdleTx EXCEPT !.pc = "cancelFlush", !.order = q, !.rows[q] = orders[q]]
  <2>1. SameMoney(v, IdleTx)
    BY IdleType DEF TxRecords, SameMoney
  <2>2. Step(v)
    BY <1>1, <2>1 DEF CancelBegin, Private, MoneyOf
  <2>. QED BY <2>2
<1>2. ASSUME CancelFlush(s) PROVE \E v : Step(v)
  <2>. DEFINE v == [t EXCEPT !.pc = "cancelRelease", !.locked = {r}, !.dirty = {r},
                             !.rows[r].status = "CANCELLED"]
  <2>1. SameMoney(v, t)
    BY <1>t DEF TxRecords, SameMoney
  <2>2. Step(v)
    BY <1>2, <2>1 DEF CancelFlush, Private, MoneyOf
  <2>. QED BY <2>2
<1>3. ASSUME CancelRelease(s) PROVE \E v \in TxRecords : Done(v)
  <2>. DEFINE amount == LiabilityMinor(r.side, r.price, Remaining(r, t.rows[r]))
              back == - amount
              p == Post(s, t, r.user, ReleaseKey(r), 0, back)
  <2>1. amount \in Int
    BY <1>t, TxType, RequestType, LiabilityType
  <2>2. back \in Int /\ 0 \in Int
    <3>. HIDE DEF amount
    <3>. QED BY <2>1
  <2>3. r.user \in Users /\ ReleaseKey(r) \in LedgerKeys
    BY <1>t, RequestType DEF ReleaseKey, LedgerKeys
  <2>4. p \in TxRecords
    <3>. HIDE DEF back
    <3>. QED BY <1>t, <2>2, <2>3, PostType
  <2>5. WalletFree(s, r.user) /\ Commit(s, p)
    BY <1>3 DEF CancelRelease
  <2>6. SameMoney(p, p)
    BY DEF SameMoney
  <2>7. MoneyOf(s, p)
    <3>. HIDE DEF back
    <3>. QED BY <2>2, <2>3, <2>5, <2>6 DEF MoneyOf
  <2>. QED BY <2>4, <2>5, <2>7
<1>. HIDE DEF Step, Done
<1>. QED BY <1>1, <1>2, <1>3 DEF CancelNext

\* A settlement that does not commit keeps the wallet copies right.
LEMMA SettleMoney ==
  ASSUME TypeOK, NEW s \in Sessions, SettleNext(s)
  PROVE  \/ \E v : MoneyOf(s, v) /\ tx' = [tx EXCEPT ![s] = v] /\ UNCHANGED <<wallets, ledger>>
         \/ \E v \in TxRecords : MoneyOf(s, v) /\ Commit(s, v)
<1>. DEFINE t == tx[s]
            Step(v) == MoneyOf(s, v) /\ tx' = [tx EXCEPT ![s] = v] /\ UNCHANGED <<wallets, ledger>>
            Done(v) == MoneyOf(s, v) /\ Commit(s, v)
<1>. SUFFICES (\E v : Step(v)) \/ (\E v \in TxRecords : Done(v))
  OBVIOUS
<1>t. t \in TxRecords
  BY TxType
<1>1. ASSUME NEW winner \in Winners, SettleBegin(s, winner) PROVE \E v : Step(v)
  <2>. DEFINE v == [IdleTx EXCEPT !.pc = "settleBets", !.winner = winner, !.market = market,
                                  !.todoBets = bets \ settledBets]
  <2>1. SameMoney(v, IdleTx)
    BY IdleType DEF TxRecords, SameMoney
  <2>2. Step(v)
    BY <1>1, <2>1 DEF SettleBegin, Private, MoneyOf
  <2>. QED BY <2>2
<1>2. ASSUME NEW b \in t.todoBets, SettleBet(s, b) PROVE \E v : Step(v)
  <2>. DEFINE won == BetOrder(b).selection = t.winner
              d == SettleBetDeltas(b.side, BetPrice(b), b.stake, won)
              p == Post(s, t, BetUser(b), SettleKey(b), d.balance, d.reserved)
              v == [p EXCEPT !.todoBets = @ \ {b}, !.settled = @ \cup {b}]
  <2>1. b \in BetRecords
    BY <1>t DEF TxRecords
  <2>2. /\ BetUser(b) \in Users /\ SettleKey(b) \in LedgerKeys
        /\ d.balance \in Int /\ d.reserved \in Int
    BY <2>1, BetType, SettleType
  <2>3. WalletFree(s, BetUser(b)) /\ Private(s, v)
    BY <1>2 DEF SettleBet
  <2>. HIDE DEF d
  <2>4. p \in TxRecords
    BY <1>t, <2>2, PostType
  <2>5. SameMoney(v, p)
    <3>. HIDE DEF p
    <3>. QED BY <2>4 DEF TxRecords, SameMoney
  <2>6. MoneyOf(s, v)
    BY <2>2, <2>3, <2>5 DEF MoneyOf
  <2>7. Step(v)
    BY <2>3, <2>6 DEF Private
  <2>. QED BY <2>7
<1>3. ASSUME SettleListOrders(s) PROVE \E v : Step(v)
  <2>. DEFINE open == {r \in Requests : orders[r].status \in OpenStatuses}
              rows == [r \in Requests |-> IF r \in open THEN orders[r] ELSE NoRow]
              v == [t EXCEPT !.pc = "settleOrders", !.todo = open, !.rows = rows]
  <2>1. SameMoney(v, t)
    BY <1>t DEF TxRecords, SameMoney
  <2>2. Step(v)
    BY <1>3, <2>1 DEF SettleListOrders, Private, MoneyOf
  <2>. QED BY <2>2
<1>4. ASSUME NEW r \in Requests, SettleOrder(s, r) PROVE \E v : Step(v)
  <2>. DEFINE release == ReleaseAmount(r.side, r.price, Remaining(r, t.rows[r]))
              back == - release
              p == Post(s, t, r.user, ReleaseSettleKey(r), 0, back)
              paid == IF release > 0 THEN p ELSE t
              v == [paid EXCEPT !.todo = @ \ {r}, !.dirty = @ \cup {r},
                                !.rows[r].status = "CANCELLED"]
  <2>1. release \in Int
    BY TxType, RequestType, LiabilityType
  <2>2. back \in Int /\ 0 \in Int
    <3>. HIDE DEF release
    <3>. QED BY <2>1
  <2>3. r.user \in Users /\ ReleaseSettleKey(r) \in LedgerKeys
    BY RequestType DEF ReleaseSettleKey, LedgerKeys
  <2>4. p \in TxRecords
    <3>. HIDE DEF back
    <3>. QED BY <1>t, <2>2, <2>3, PostType
  <2>5. (release > 0 => WalletFree(s, r.user)) /\ Private(s, v)
    BY <1>4 DEF SettleOrder
  <2>6. SameMoney(v, paid)
    <3>. HIDE DEF p, release
    <3>1. paid \in TxRecords
      BY <1>t, <2>4
    <3>. HIDE DEF paid
    <3>. QED BY <3>1 DEF TxRecords, SameMoney
  <2>7. MoneyOf(s, v)
    <3>1. CASE release > 0
      <4>1. SameMoney(v, p)
        BY <2>6, <3>1
      <4>. HIDE DEF back, v
      <4>. QED BY <2>2, <2>3, <2>5, <3>1, <4>1 DEF MoneyOf
    <3>2. CASE ~ (release > 0)
      BY <2>6, <3>2 DEF MoneyOf
    <3>. QED BY <3>1, <3>2
  <2>8. Step(v)
    BY <2>5, <2>7 DEF Private
  <2>. QED BY <2>8
<1>5. ASSUME SettleCommit(s) PROVE \E v \in TxRecords : Done(v)
  BY <1>5, <1>t DEF SettleCommit, MoneyOf, SameMoney
<1>6. ASSUME NEW r \in Requests, SettleFlush(s, r) PROVE \E v : Step(v)
  <2>. DEFINE v == [t EXCEPT !.locked = @ \cup {r}]
  <2>1. SameMoney(v, t)
    BY <1>t DEF TxRecords, SameMoney
  <2>2. Step(v)
    BY <1>6, <2>1 DEF SettleFlush, Private, MoneyOf
  <2>. QED BY <2>2
<1>. HIDE DEF Step, Done
<1>. QED BY <1>1, <1>2, <1>3, <1>4, <1>5, <1>6 DEF SettleNext

\* So do the steps of a transition and those that only end a transaction.
LEMMA OtherMoney ==
  ASSUME TypeOK, NEW s \in Sessions, TransitionNext(s) \/ StaleAbort(s) \/ Die(s)
  PROVE  \E v : MoneyOf(s, v) /\ tx' = [tx EXCEPT ![s] = v] /\ UNCHANGED <<wallets, ledger>>
<1>. DEFINE Step(v) == MoneyOf(s, v) /\ tx' = [tx EXCEPT ![s] = v] /\ UNCHANGED <<wallets, ledger>>
<1>1. ASSUME NEW target \in MarketStatuses, TransitionBegin(s, target) PROVE \E v : Step(v)
  <2>. DEFINE v == [IdleTx EXCEPT !.pc = "transition", !.target = target, !.market = market]
  <2>1. SameMoney(v, IdleTx)
    BY IdleType DEF TxRecords, SameMoney
  <2>2. Step(v)
    BY <1>1, <2>1 DEF TransitionBegin, Private, MoneyOf
  <2>. QED BY <2>2
<1>2. ASSUME TransitionCommit(s) \/ StaleAbort(s) \/ Die(s) PROVE \E v : Step(v)
  <2>1. Step(IdleTx)
    BY <1>2 DEF TransitionCommit, StaleAbort, Die, Rollback, End, MoneyOf, SameMoney
  <2>. QED BY <2>1
<1>. QED BY <1>1, <1>2 DEF TransitionNext

\* Every step keeps wallets, copies and ledger together.
LEMMA WalletStep == Inv /\ WalletInv /\ [Next]_vars => WalletInv'
<1>. SUFFICES ASSUME Inv, WalletInv, [Next]_vars PROVE WalletInv'
  OBVIOUS
<1>t. TypeOK
  BY DEF Inv
<1>1. CASE UNCHANGED <<wallets, ledger, tx>>
  BY <1>1 DEF WalletInv, WalletIsLedgerSum, WalletCopiesOK
<1>2. ASSUME NEW s \in Sessions,
             NEW v, MoneyOf(s, v), tx' = [tx EXCEPT ![s] = v], UNCHANGED <<wallets, ledger>>
      PROVE  WalletInv'
  BY <1>t, <1>2, PrivateWallets
<1>3. ASSUME NEW s \in Sessions, NEW v \in TxRecords, MoneyOf(s, v), Commit(s, v)
      PROVE  WalletInv'
  BY <1>t, <1>3, CommitWallets
<1>4. CASE ~ UNCHANGED <<wallets, ledger, tx>>
  <2>1. PICK s \in Sessions : \/ PlaceNext(s) \/ CancelNext(s) \/ SettleNext(s) \/ TransitionNext(s)
                              \/ StaleAbort(s) \/ Die(s)
    BY <1>4 DEF Next, vars
  <2>2. \/ \E v : MoneyOf(s, v) /\ tx' = [tx EXCEPT ![s] = v] /\ UNCHANGED <<wallets, ledger>>
        \/ \E v \in TxRecords : MoneyOf(s, v) /\ Commit(s, v)
    BY <1>t, <1>4, <2>1, PlaceMoney, CancelMoney, SettleMoney, OtherMoney
  <2>. QED BY <1>2, <1>3, <2>2
<1>. QED BY <1>1, <1>4

\* It holds initially.
LEMMA InitWallets == Init => WalletInv
<1>. SUFFICES ASSUME Init PROVE WalletInv
  OBVIOUS
<1>1. \A u : EntriesFor({}, u) = {}
  BY DEF EntriesFor
<1>2. WalletIsLedgerSum
  BY <1>1, EntrySums, NumbersAssumption DEF Init, WalletIsLedgerSum
<1>. QED BY <1>2, IdleWallets, FS_EmptySet DEF Init, WalletInv

\* A wallet is the sum of its ledger.
THEOREM WalletsAddUp == Spec => []WalletIsLedgerSum
<1>1. Init => WalletInv
  BY InitWallets
<1>2. Inv /\ WalletInv /\ [Next]_vars => WalletInv'
  BY WalletStep
<1>3. WalletInv => WalletIsLedgerSum
  BY DEF WalletInv
<1>. QED BY <1>1, <1>2, <1>3, Invariant, PTL DEF Spec

-----------------------------------------------------------------------------
(* Fills                                                                    *)

\* The sums over the bets for an order: of none, of one more, of two sets apart.
LEMMA StakeSums ==
  /\ StakesOf({}) = 0
  /\ \A S \in SUBSET BetRecords : IsFiniteSet(S) => StakesOf(S) \in Int
  /\ \A S \in SUBSET BetRecords : \A b \in BetRecords \ S : IsFiniteSet(S) =>
        StakesOf(S \cup {b}) = StakesOf(S) + b.stake
  /\ \A A, B \in SUBSET BetRecords : IsFiniteSet(A) /\ IsFiniteSet(B) /\ A \cap B = {} =>
        StakesOf(A \cup B) = StakesOf(A) + StakesOf(B)
<1>e. \A b \in BetRecords : b.stake \in Int /\ Stakes[b] = b.stake
  BY DEF BetRecords, Stakes
<1>1. StakesOf({}) = 0
  BY StakesTotal, TotalEmpty
<1>2. ASSUME NEW S \in SUBSET BetRecords, IsFiniteSet(S)
      PROVE  StakesOf(S) \in Int
  <2>1. Total(Stakes, S) \in Int
    BY <1>e, <1>2, TotalInt
  <2>. QED BY <2>1, StakesTotal
<1>3. ASSUME NEW S \in SUBSET BetRecords, NEW b \in BetRecords \ S, IsFiniteSet(S)
      PROVE  StakesOf(S \cup {b}) = StakesOf(S) + b.stake
  <2>1. Total(Stakes, S \cup {b}) = Total(Stakes, S) + Stakes[b]
    <3>1. \A x \in S \cup {b} : Stakes[x] \in Int
      BY <1>e
    <3>. QED BY <1>3, <3>1, TotalAdd
  <2>2. S \subseteq BetRecords /\ S \cup {b} \subseteq BetRecords
    OBVIOUS
  <2>. QED BY <1>e, <2>1, <2>2, StakesTotal
<1>4. ASSUME NEW A \in SUBSET BetRecords, NEW B \in SUBSET BetRecords,
             IsFiniteSet(A), IsFiniteSet(B), A \cap B = {}
      PROVE  StakesOf(A \cup B) = StakesOf(A) + StakesOf(B)
  <2>1. Total(Stakes, A \cup B) = Total(Stakes, A) + Total(Stakes, B)
    BY <1>e, <1>4, TotalUnion
  <2>2. A \cup B \subseteq BetRecords
    OBVIOUS
  <2>. QED BY <2>1, <2>2, StakesTotal
<1>. QED BY <1>1, <1>2, <1>3, <1>4

\* No two sessions send changes of the same order.
LEMMA SentApart ==
  ASSUME Inv, NEW s \in Sessions, NEW z \in Sessions, s # z
  PROVE  Sent(tx[s]) \cap Sent(tx[z]) = {}
<1>. SUFFICES ASSUME NEW r, r \in Sent(tx[s]), r \in Sent(tx[z]) PROVE FALSE
  OBVIOUS
<1>1. /\ SessionOK(tx[s]) /\ SessionOK(tx[z]) /\ Apart(tx[s], tx[z])
  BY DEF Inv
<1>2. ASSUME NEW x \in Sessions, SessionOK(tx[x]), r \in Sent(tx[x])
      PROVE  \/ r \in tx[x].locked /\ orders[r].status \in OpenStatuses
             \/ Taking(tx[x]) /\ r = tx[x].order /\ orders[r].status = "ABSENT"
  <2>1. r \in tx[x].dirty /\ ~ (tx[x].pc = "settleOrders" /\ r \in Unsent(tx[x]))
    BY <1>2 DEF Sent, Unsent
  <2>2. tx[x].order \in Requests
    BY TxType DEF Inv
  <2>. QED BY <1>2, <2>1, <2>2 DEF SessionOK, WritesOK, KeyTaken
<1>. QED BY <1>1, <1>2 DEF Apart, OpenStatuses

\* A session that has changed nothing has no fills.
LEMMA NoFills ==
  ASSUME NEW v, v.newBets = {}, v.dirty = {}, v.pc \notin PlacePCs
  PROVE  FillsOK(v)
  BY FS_EmptySet DEF FillsOK, Taking, PlacePCs, Sent

\* Fills depend on the tables through the matched parts of the changed rows.
LEMMA FillsKept ==
  ASSUME NEW v, FillsOK(v), \A r \in Sent(v) : orders'[r].matched = orders[r].matched
  PROVE  FillsOK(v)'
<1>1. Taking(v) => Sent(v) = v.dirty
  BY DEF Taking, PlacePCs, Sent
<1>. QED BY <1>1 DEF FillsOK, Taking, Sent

\* A private step keeps the fills if the state it leads to is in order.
LEMMA PrivateFills ==
  ASSUME TypeOK, FillInv, NEW s \in Sessions, NEW v, Private(s, v), FillsOK(v)
  PROVE  FillInv'
<1>1. BetsAccountForMatched' /\ IsFiniteSet(bets')
  BY DEF FillInv, BetsAccountForMatched, Private
<1>2. \A b \in bets' : /\ orders'[b.taker].status # "ABSENT" /\ orders'[b.maker].status # "ABSENT"
                       /\ b.taker # b.maker /\ Suits(b.taker, b.maker)
  BY DEF FillInv, Private
<1>3. ASSUME NEW z \in Sessions PROVE FillsOK(tx[z])'
  <2>1. PICK t : t = IF z = s THEN v ELSE tx[z]
    OBVIOUS
  <2>2. tx'[z] = t
    BY <2>1 DEF Private, TypeOK
  <2>3. FillsOK(t)'
    BY <2>1, FillsKept DEF FillInv, Private
  <2>. QED BY <2>2, <2>3 DEF FillsOK, Taking, Sent
<1>. QED BY <1>1, <1>2, <1>3 DEF FillInv

\* A session that ends without a commit takes its fills along.
LEMMA RollbackFills ==
  ASSUME TypeOK, FillInv, NEW s \in Sessions, End(s), UNCHANGED <<orders, bets>>
  PROVE  FillInv'
<1>1. BetsAccountForMatched' /\ IsFiniteSet(bets')
  BY DEF FillInv, BetsAccountForMatched
<1>2. \A b \in bets' : /\ orders'[b.taker].status # "ABSENT" /\ orders'[b.maker].status # "ABSENT"
                       /\ b.taker # b.maker /\ Suits(b.taker, b.maker)
  BY DEF FillInv
<1>3. ASSUME NEW z \in Sessions PROVE FillsOK(tx[z])'
  <2>1. PICK t : t = IF z = s THEN IdleTx ELSE tx[z]
    OBVIOUS
  <2>2. tx'[z] = t
    BY <2>1 DEF End, TypeOK
  <2>3. FillsOK(IdleTx)
    BY NoFills DEF IdleTx, PlacePCs
  <2>4. FillsOK(t)'
    BY <2>1, <2>3, FillsKept DEF FillInv
  <2>. QED BY <2>2, <2>4 DEF FillsOK, Taking, Sent
<1>. QED BY <1>1, <1>2, <1>3 DEF FillInv

\* A commit writes the fills and what they match together.
LEMMA CommitFills ==
  ASSUME Inv, FillInv, NEW s \in Sessions, NEW v \in TxRecords, Commit(s, v),
         v.dirty = tx[s].dirty, v.dirty = Sent(tx[s]), v.newBets = tx[s].newBets,
         \A r \in v.dirty : v.rows[r].matched = tx[s].rows[r].matched /\ v.rows[r].status # "ABSENT"
  PROVE  FillInv'
<1>. DEFINE t == tx[s]
<1>t. /\ t \in TxRecords /\ t.order \in Requests /\ TypeOK /\ SessionOK(t)
      /\ v.dirty \in SUBSET Requests /\ v.newBets \in SUBSET BetRecords /\ bets \in SUBSET BetRecords
  BY TxType DEF Inv, TypeOK, TxRecords
<1>f. FillsOK(t)
  BY DEF FillInv
<1>o. \A r \in Requests :
         orders'[r] = IF r \in v.dirty THEN [v.rows[r] EXCEPT !.version = @ + 1] ELSE orders[r]
  BY DEF Commit
<1>d. ASSUME NEW r \in v.dirty
      PROVE  orders'[r].matched = t.rows[r].matched /\ orders'[r].status # "ABSENT"
  <2>1. orders'[r] = [v.rows[r] EXCEPT !.version = @ + 1] /\ v.rows[r] \in OrderRows
    BY <1>t, <1>o DEF TxRecords
  <2>2. orders'[r].matched = v.rows[r].matched /\ orders'[r].status = v.rows[r].status
    BY <2>1 DEF OrderRows
  <2>. QED BY <2>2
<1>b. bets' = bets \cup v.newBets
  BY DEF Commit
<1>k. v.newBets # {} => orders[t.order].status = "ABSENT" /\ t.order \in v.dirty
  BY <1>t, <1>f DEF FillsOK, SessionOK, WritesOK, KeyTaken
<1>n. bets \cap v.newBets = {}
  BY <1>k, <1>f DEF FillInv, FillsOK
<1>i. IsFiniteSet(bets) /\ IsFiniteSet(v.newBets)
  BY <1>f DEF FillInv, FillsOK
<1>1. ASSUME NEW r \in Requests PROVE orders'[r].matched = StakesOf(BetsFor(bets', r))
  <2>. DEFINE A == BetsFor(bets, r)
              B == BetsFor(v.newBets, r)
  <2>1. BetsFor(bets', r) = A \cup B /\ A \cap B = {}
    BY <1>b, <1>n DEF BetsFor
  <2>2. /\ A \in SUBSET BetRecords /\ B \in SUBSET BetRecords /\ IsFiniteSet(A) /\ IsFiniteSet(B)
    BY <1>t, <1>i, FS_Subset DEF BetsFor
  <2>3. orders[r].matched = StakesOf(A)
    BY DEF FillInv, BetsAccountForMatched
  <2>4. r \in v.dirty => t.rows[r].matched = orders[r].matched + StakesOf(B)
    BY <1>f DEF FillsOK
  <2>5. r \notin v.dirty => B = {}
    BY <1>f, <1>k DEF FillsOK, BetsFor, BetOrder
  <2>. HIDE DEF A, B
  <2>6. StakesOf(BetsFor(bets', r)) = StakesOf(A) + StakesOf(B) /\ StakesOf(A) \in Int
    BY <2>1, <2>2, StakeSums
  <2>7. CASE r \in v.dirty
    BY <1>d, <2>3, <2>4, <2>6, <2>7
  <2>8. CASE r \notin v.dirty
    <3>1. StakesOf(B) = 0
      BY <2>5, <2>8, StakeSums
    <3>2. orders'[r] = orders[r]
      BY <1>o, <2>8
    <3>. QED BY <2>3, <2>6, <3>1, <3>2
  <2>. QED BY <2>7, <2>8
<1>2. \A b \in bets' : Twin(b) \in bets'
  BY <1>b, <1>f DEF FillInv, BetsAccountForMatched, FillsOK
<1>3. IsFiniteSet(bets')
  BY <1>b, <1>i, FS_Union
<1>4. ASSUME NEW b \in bets'
      PROVE  /\ orders'[b.taker].status # "ABSENT" /\ orders'[b.maker].status # "ABSENT"
             /\ b.taker # b.maker /\ Suits(b.taker, b.maker)
  <2>1. b.taker \in Requests /\ b.maker \in Requests
    BY <1>b, <1>t DEF BetRecords
  <2>2. \A r \in Requests : orders[r].status # "ABSENT" => orders'[r].status # "ABSENT"
    BY <1>o, <1>d
  <2>3. CASE b \in bets
    BY <2>1, <2>2, <2>3 DEF FillInv
  <2>4. CASE b \in v.newBets
    BY <1>f, <1>k, <1>d, <2>4 DEF FillsOK
  <2>. QED BY <1>b, <2>3, <2>4
<1>5. ASSUME NEW z \in Sessions PROVE FillsOK(tx[z])'
  <2>1. PICK u : u = IF z = s THEN IdleTx ELSE tx[z]
    OBVIOUS
  <2>2. tx'[z] = u
    BY <1>t, <2>1 DEF Commit, End, TypeOK
  <2>3. FillsOK(IdleTx) /\ IdleTx.dirty = {}
    BY NoFills DEF IdleTx, PlacePCs
  <2>4. FillsOK(u) /\ Sent(u) \cap v.dirty = {} /\ Sent(u) \subseteq Requests
    BY <2>1, <2>3, SentApart, TxType DEF FillInv, TxRecords, Inv, Sent
  <2>5. \A r \in Sent(u) : orders'[r].matched = orders[r].matched
    BY <1>o, <2>4
  <2>6. FillsOK(u)'
    BY <2>4, <2>5, FillsKept
  <2>. QED BY <2>2, <2>6 DEF FillsOK, Taking, Sent
<1>. QED BY <1>1, <1>2, <1>3, <1>4, <1>5 DEF FillInv, BetsAccountForMatched

\* The new order has no fills yet, its row is the one just inserted.
LEMMA PlaceInsertFills ==
  ASSUME Inv, FillInv, NEW s \in Sessions, PlaceInsert(s)
  PROVE  FillInv'
<1>. DEFINE t == tx[s]
            r == t.order
            row == [status |-> "OPEN", matched |-> 0, created |-> clock, version |-> 0]
            v == [t EXCEPT !.pc = "reserve", !.rows[r] = row, !.dirty = {r}]
<1>t. t \in TxRecords /\ r \in Requests /\ TypeOK
  BY TxType DEF Inv
<1>q. Private(s, v) /\ t.pc = "insert" /\ ~ KeyTaken(r)
  BY DEF PlaceInsert
<1>1. /\ v.pc = "reserve" /\ v.dirty = {r} /\ v.order = r /\ v.newBets = t.newBets
      /\ v.rows[r].matched = 0
  BY <1>t DEF TxRecords
<1>2. orders[r].matched = 0
  BY <1>t, <1>q DEF Inv, TablesOK, RowsCoherent, Coherent, KeyTaken
<1>3. v.newBets = {}
  BY <1>1, <1>q DEF FillInv, FillsOK, Taking
<1>. HIDE DEF v
<1>4. BetsFor({}, r) = {} /\ IsFiniteSet({})
  BY FS_EmptySet DEF BetsFor
<1>5. FillsOK(v)
  BY <1>1, <1>2, <1>3, <1>4, StakeSums DEF FillsOK, Sent
<1>. QED BY <1>t, <1>q, <1>5, PrivateFills

\* Reserving changes no row; the makers it finds suit the order.
LEMMA PlaceReserveFills ==
  ASSUME Inv, FillInv, NEW s \in Sessions, PlaceReserve(s)
  PROVE  FillInv'
<1>. DEFINE t == tx[s]
            r == t.order
            p == Post(s, t, r.user, HoldKey(r), 0, Exposure(r))
            v == [p EXCEPT !.pc = "lock", !.todo = Matchable(r)]
<1>t. t \in TxRecords /\ r \in Requests /\ TypeOK
  BY TxType DEF Inv
<1>u. r.user \in Users /\ Exposure(r) \in Int /\ HoldKey(r) \in LedgerKeys /\ 0 \in Int
  BY <1>t, RequestType, LiabilityType, SMT DEF Exposure, HoldKey, LedgerKeys
<1>q. Private(s, v) /\ t.pc = "reserve"
  BY DEF PlaceReserve
<1>p. /\ p \in TxRecords /\ p.order = r /\ p.rows = t.rows /\ p.dirty = t.dirty
      /\ p.newBets = t.newBets
  BY <1>t, <1>u, PostFields, PostType
<1>. HIDE DEF p
<1>1. /\ v.pc = "lock" /\ v.order = r /\ v.rows = t.rows /\ v.dirty = t.dirty
      /\ v.newBets = t.newBets /\ v.todo = Matchable(r)
  BY <1>p DEF TxRecords
<1>. HIDE DEF v
<1>2. FillsOK(t) /\ Taking(t) /\ Taking(v)
  BY <1>1, <1>q DEF FillInv, Taking, PlacePCs
<1>3. \A m \in v.todo : Suits(v.order, m)
  BY <1>1 DEF Matchable, Suits
<1>4. FillsOK(v)
  BY <1>1, <1>2, <1>3, <1>q DEF FillsOK, Sent
<1>. QED BY <1>t, <1>q, <1>4, PrivateFills

\* Locking a maker reads a row the session has not changed.
LEMMA PlaceLockFills ==
  ASSUME Inv, FillInv, NEW s \in Sessions, NEW m \in Requests, PlaceLock(s, m)
  PROVE  FillInv'
<1>. DEFINE t == tx[s]
            r == t.order
            v == [t EXCEPT !.todo = @ \ {m}, !.locked = @ \cup {m}, !.rows[m] = orders[m]]
<1>t. t \in TxRecords /\ r \in Requests /\ TypeOK
  BY TxType DEF Inv
<1>q. Private(s, v) /\ t.pc = "lock" /\ m \in t.todo
  BY DEF PlaceLock, FirstOf
<1>1. /\ v.pc = "lock" /\ v.order = r /\ v.dirty = t.dirty /\ v.newBets = t.newBets
      /\ v.todo = t.todo \ {m} /\ \A q \in Requests : q # m => v.rows[q] = t.rows[q]
  BY <1>t, <1>q DEF TxRecords
<1>2. FillsOK(t) /\ Taking(t) /\ Taking(v)
  BY <1>1, <1>q DEF FillInv, Taking, PlacePCs
<1>3. t.dirty = {r} /\ r # m
  BY <1>q, OrderIsNoMaker
<1>. HIDE DEF v
<1>4. t.newBets = {}
  BY <1>2, <1>3 DEF FillsOK
<1>5. FillsOK(v)
  BY <1>t, <1>1, <1>2, <1>3, <1>4, <1>q DEF FillsOK, Sent
<1>. QED BY <1>t, <1>q, <1>5, PrivateFills

\* So does going on with those that still match.
LEMMA PlaceMakersFills ==
  ASSUME Inv, FillInv, NEW s \in Sessions, PlaceMakers(s)
  PROVE  FillInv'
<1>. DEFINE t == tx[s]
            r == t.order
            v == [t EXCEPT !.pc = "match", !.todo = t.locked \cap Matchable(r)]
<1>t. t \in TxRecords /\ TypeOK
  BY TxType DEF Inv
<1>q. Private(s, v) /\ t.pc = "lock"
  BY DEF PlaceMakers
<1>1. /\ v.pc = "match" /\ v.order = r /\ v.dirty = t.dirty /\ v.newBets = t.newBets
      /\ v.todo = t.locked \cap Matchable(r) /\ v.rows = t.rows
  BY <1>t DEF TxRecords
<1>2. FillsOK(t) /\ Taking(t) /\ Taking(v)
  BY <1>1, <1>q DEF FillInv, Taking, PlacePCs
<1>3. \A m \in v.todo : Suits(v.order, m)
  BY <1>1 DEF Matchable, Suits
<1>. HIDE DEF v
<1>4. FillsOK(v)
  BY <1>1, <1>2, <1>3, <1>q DEF FillsOK, Sent
<1>. QED BY <1>t, <1>q, <1>4, PrivateFills

\* One turn of the loop: two bets of one size, by which both rows change.
LEMMA PlaceMatchFills ==
  ASSUME Inv, FillInv, NEW s \in Sessions, NEW m \in Requests, PlaceMatch(s, m)
  PROVE  FillInv'
<1>. DEFINE t == tx[s]
            r == t.order
            open == Remaining(r, t.rows[r])
            offered == Remaining(m, t.rows[m])
            size == IF open <= offered THEN open ELSE offered
            filled == [t.rows[m] EXCEPT !.matched = @ + size]
            maker == [filled EXCEPT !.status =
                        IF Remaining(m, filled) = 0 THEN "MATCHED" ELSE "PARTIALLY_MATCHED"]
            rows2 == [t.rows EXCEPT ![r].matched = @ + size, ![m] = maker]
            Bet(x) == [taker |-> r, maker |-> m, side |-> x, stake |-> size]
            fills == {Bet(x) : x \in Sides}
            v == [t EXCEPT !.rows = rows2, !.dirty = @ \cup {m}, !.todo = @ \ {m},
                           !.newBets = @ \cup fills]
<1>t. /\ t \in TxRecords /\ r \in Requests /\ TypeOK
      /\ t.rows[r] \in OrderRows /\ t.rows[m] \in OrderRows
      /\ open \in Int /\ offered \in Int /\ r.side \in Sides
      /\ t.newBets \in SUBSET BetRecords /\ t.dirty \in SUBSET Requests
  BY TxType, RequestType DEF Inv, TxRecords
<1>q. /\ Private(s, v) /\ t.pc = "match" /\ m \in t.todo /\ open > 0
      /\ Crosses(r.side, r.price, m.price)
  BY DEF PlaceMatch, NextMaker, FirstOf
<1>2. FillsOK(t) /\ Taking(t) /\ SessionOK(t) /\ TablesOK
  BY <1>q DEF FillInv, Inv, Taking, PlacePCs
<1>m. /\ m \notin t.dirty /\ t.rows[m] = orders[m] /\ r \in t.dirty /\ r # m
      /\ orders[m].status \in OpenStatuses
  <2>1. m \in t.locked /\ m \notin t.dirty
    BY <1>2, <1>q DEF SessionOK, PhaseOK
  <2>2. orders[m].status \in OpenStatuses /\ t.rows[m].version = orders[m].version
    BY <1>2, <1>q, <2>1 DEF SessionOK, LocksOK, PhaseOK
  <2>3. t.rows[m] = orders[m]
    BY <1>2, <2>1, <2>2 DEF SessionOK, CopiesOK
  <2>. QED BY <1>2, <2>1, <2>2, <2>3 DEF SessionOK, WritesOK
<1>s. size \in Int /\ size > 0
  <2>1. m.stake \in Nat /\ m.stake > 0 /\ orders[m].matched \in Int
    BY RequestType, <1>m, <1>t DEF OrderRows
  <2>2. orders[m].matched <= m.stake /\ orders[m].matched # m.stake
    BY <1>2, <1>m DEF TablesOK, RowsCoherent, Coherent, OpenStatuses
  <2>3. offered = m.stake - orders[m].matched
    BY <1>m DEF Remaining
  <2>. HIDE DEF open, offered
  <2>4. offered > 0
    BY <2>1, <2>2, <2>3
  <2>. QED BY <1>t, <1>q, <2>4
<1>. HIDE DEF size
<1>f. filled \in OrderRows /\ filled.matched = t.rows[m].matched + size
  BY <1>t, <1>s DEF OrderRows
<1>k. /\ maker \in OrderRows /\ maker.matched = t.rows[m].matched + size
      /\ maker.status # "CANCELLED"
  <2>. HIDE DEF filled
  <2>. QED BY <1>f DEF OrderRows, OrderStatuses
<1>e. [t.rows[r] EXCEPT !.matched = @ + size].matched = t.rows[r].matched + size
  BY <1>t, <1>s DEF OrderRows
<1>3. /\ \A q \in Requests \ {r, m} : rows2[q] = t.rows[q]
      /\ rows2[m] = maker
      /\ rows2[r].matched = t.rows[r].matched + size
  <2>. HIDE DEF maker
  <2>. QED BY <1>t, <1>m, <1>e DEF TxRecords
<1>4. /\ v.pc = "match" /\ v.order = r /\ v.dirty = t.dirty \cup {m} /\ v.todo = t.todo \ {m}
      /\ v.newBets = t.newBets \cup fills /\ v.rows = rows2
  <2>. HIDE DEF fills, rows2
  <2>. QED BY <1>t, <1>q DEF TxRecords
<1>. HIDE DEF v, rows2, maker, filled
<1>. DEFINE bt == Bet(r.side)
            bm == Bet(Opposite(r.side))
<1>5. /\ fills = {bt, bm} /\ bt # bm
      /\ bt \in BetRecords /\ bm \in BetRecords
      /\ Twin(bt) = bm /\ Twin(bm) = bt
      /\ BetOrder(bt) = r /\ BetOrder(bm) = m
      /\ \A b \in {bt, bm} : b.taker = r /\ b.maker = m /\ b.stake = size
  <2>1. r.side = "BACK" \/ r.side = "LAY"
    BY <1>t DEF Sides
  <2>2. Opposite(r.side) \in Sides /\ Opposite(r.side) # r.side /\ Opposite(Opposite(r.side)) = r.side
        /\ Sides = {r.side, Opposite(r.side)}
    BY <2>1 DEF Opposite, Sides
  <2>3. bt \in BetRecords /\ bm \in BetRecords
    BY <1>t, <1>s, <2>2 DEF BetRecords
  <2>4. fills = {bt, bm} /\ bt # bm
    BY <2>2
  <2>5. Twin(bt) = bm /\ Twin(bm) = bt
    BY <2>2 DEF Twin
  <2>6. BetOrder(bt) = r /\ BetOrder(bm) = m
    BY <2>2 DEF BetOrder
  <2>. QED BY <2>3, <2>4, <2>5, <2>6
<1>. HIDE DEF fills, bt, bm, Bet
<1>6. \A b \in t.newBets : b.maker # m /\ b.taker = r /\ b.maker # r
  BY <1>2, <1>m DEF FillsOK
<1>7. Suits(r, m)
  BY <1>2, <1>q DEF FillsOK
<1>8. IsFiniteSet(t.newBets) /\ bt \notin t.newBets /\ bm \notin t.newBets
  BY <1>2, <1>5, <1>6 DEF FillsOK
<1>9. FillsOK(v)
  <2>1. IsFiniteSet(v.newBets)
    <3>1. v.newBets = (t.newBets \cup {bt}) \cup {bm}
      BY <1>4, <1>5
    <3>2. IsFiniteSet(t.newBets \cup {bt})
      BY <1>8, FS_AddElement
    <3>. QED BY <3>1, <3>2, FS_AddElement
  <2>2. Taking(v)
    BY <1>4 DEF Taking, PlacePCs
  <2>3. ASSUME NEW b \in v.newBets
        PROVE  /\ b.taker = v.order /\ b.maker \in v.dirty \ {v.order}
               /\ Suits(b.taker, b.maker)
               /\ Crosses(b.taker.side, b.taker.price, b.maker.price)
               /\ b.stake > 0 /\ b.stake = v.rows[b.maker].matched - orders[b.maker].matched
               /\ Twin(b) \in v.newBets
    <3>1. CASE b \in t.newBets
      <4>1. /\ b.taker = r /\ b.maker \in t.dirty \ {r} /\ Suits(b.taker, b.maker)
            /\ Crosses(b.taker.side, b.taker.price, b.maker.price)
            /\ b.stake > 0 /\ b.stake = t.rows[b.maker].matched - orders[b.maker].matched
            /\ Twin(b) \in t.newBets
        BY <1>2, <3>1 DEF FillsOK
      <4>2. v.rows[b.maker] = t.rows[b.maker]
        BY <1>3, <1>4, <1>6, <1>t, <3>1, <4>1
      <4>. QED BY <1>4, <4>1, <4>2
    <3>2. CASE b \in {bt, bm}
      <4>1. v.rows[m].matched - orders[m].matched = size
        BY <1>3, <1>4, <1>k, <1>m, <1>s, <1>t DEF OrderRows
      <4>2. b.taker = r /\ b.maker = m /\ b.stake = size /\ Twin(b) \in {bt, bm}
        BY <1>5, <3>2
      <4>. QED BY <1>4, <1>5, <1>7, <1>q, <1>m, <1>s, <4>1, <4>2
    <3>. QED BY <1>4, <1>5, <3>1, <3>2
  <2>4. ASSUME NEW q \in v.dirty \ {v.order}
        PROVE  (\E b \in v.newBets : b.maker = q) /\ v.rows[q].status # "CANCELLED"
    <3>1. CASE q = m
      <4>1. v.rows[q].status # "CANCELLED"
        BY <1>3, <1>4, <1>k, <3>1
      <4>. QED BY <1>4, <1>5, <3>1, <4>1
    <3>2. CASE q # m
      <4>1. q \in t.dirty \ {r} /\ v.rows[q] = t.rows[q]
        BY <1>3, <1>4, <1>t, <3>2
      <4>. QED BY <1>2, <1>4, <4>1 DEF FillsOK
    <3>. QED BY <3>1, <3>2
  <2>5. ASSUME NEW q \in v.dirty
        PROVE  v.rows[q].matched = orders[q].matched + StakesOf(BetsFor(v.newBets, q))
    <3>0. \A A \in SUBSET t.newBets : IsFiniteSet(A) /\ A \in SUBSET BetRecords /\ StakesOf(A) \in Int
      BY <1>8, <1>t, FS_Subset, StakeSums
    <3>o. /\ orders[q].matched \in Int /\ t.rows[q].matched \in Int
          /\ q \in t.dirty => t.rows[q].matched = orders[q].matched + StakesOf(BetsFor(t.newBets, q))
      BY <1>2, <1>4, <1>q, <1>t, TxType DEF FillsOK, OrderRows, TypeOK, Sent
    <3>1. CASE q = r
      <4>1. BetsFor(v.newBets, r) = BetsFor(t.newBets, r) \cup {bt}
        BY <1>4, <1>5, <1>m DEF BetsFor
      <4>2. BetsFor(t.newBets, r) \in SUBSET t.newBets /\ bt \notin BetsFor(t.newBets, r)
        BY <1>8 DEF BetsFor
      <4>3. /\ StakesOf(BetsFor(v.newBets, r)) = StakesOf(BetsFor(t.newBets, r)) + size
            /\ StakesOf(BetsFor(t.newBets, r)) \in Int
        BY <1>5, <3>0, <4>1, <4>2, StakeSums
      <4>4. v.rows[r].matched = t.rows[r].matched + size
        BY <1>3, <1>4
      <4>. QED BY <1>m, <1>s, <3>1, <3>o, <4>3, <4>4
    <3>2. CASE q = m
      <4>1. BetsFor(v.newBets, m) = {} \cup {bm}
        BY <1>4, <1>5, <1>6, <1>m DEF BetsFor, BetOrder
      <4>2. StakesOf(BetsFor(v.newBets, m)) = 0 + size
        BY <1>5, <4>1, FS_EmptySet, StakeSums
      <4>3. v.rows[m].matched = orders[m].matched + size
        BY <1>3, <1>4, <1>k, <1>m
      <4>. QED BY <1>s, <3>2, <4>2, <4>3
    <3>3. CASE q # r /\ q # m
      <4>1. BetsFor(v.newBets, q) = BetsFor(t.newBets, q)
        BY <1>4, <1>5, <3>3 DEF BetsFor
      <4>2. q \in t.dirty /\ v.rows[q] = t.rows[q]
        BY <1>3, <1>4, <1>t, <3>3
      <4>. QED BY <3>o, <4>1, <4>2
    <3>. QED BY <3>1, <3>2, <3>3
  <2>6. \A q \in v.todo : Suits(v.order, q)
    BY <1>2, <1>4, <1>q DEF FillsOK
  <2>. QED BY <2>1, <2>2, <2>3, <2>4, <2>5, <2>6, <1>4 DEF FillsOK, Sent
<1>. QED BY <1>t, <1>q, <1>9, PrivateFills

\* The commit of a placement.
LEMMA PlaceCommitFills ==
  ASSUME Inv, LedgerInv, FillInv, NEW s \in Sessions, PlaceCommit(s)
  PROVE  FillInv'
<1>. DEFINE t == tx[s]
            r == t.order
            status == StatusOf(r, t.rows[r])
            v == [t EXCEPT !.rows[r].status = status]
<1>t. t \in TxRecords /\ r \in Requests /\ t.rows[r] \in OrderRows /\ t.dirty \subseteq Requests
  BY TxType DEF Inv, TxRecords
<1>o. status \in OrderStatuses /\ status # "ABSENT"
  BY DEF StatusOf, OrderStatuses
<1>q. Commit(s, v) /\ t.dirty = Sent(t)
  BY DEF PlaceCommit, Sent
<1>. HIDE DEF status
<1>e. /\ [t.rows[r] EXCEPT !.status = status] \in OrderRows
      /\ [t.rows[r] EXCEPT !.status = status].matched = t.rows[r].matched
      /\ [t.rows[r] EXCEPT !.status = status].status = status
  BY <1>t, <1>o DEF OrderRows
<1>1. /\ v \in TxRecords /\ v.dirty = t.dirty /\ v.newBets = t.newBets
      /\ \A q \in Requests \ {r} : v.rows[q] = t.rows[q]
      /\ v.rows[r] = [t.rows[r] EXCEPT !.status = status]
  BY <1>t, <1>e DEF TxRecords
<1>. HIDE DEF v
<1>2. \A q \in t.dirty : t.rows[q].status # "ABSENT"
  BY DEF LedgerInv, PostingsOK
<1>3. \A q \in v.dirty : v.rows[q].matched = t.rows[q].matched /\ v.rows[q].status # "ABSENT"
  BY <1>t, <1>1, <1>2, <1>e, <1>o
<1>. QED BY <1>q, <1>1, <1>3, CommitFills

\* Cancelling changes no matched part.
LEMMA CancelFlushFills ==
  ASSUME Inv, FillInv, NEW s \in Sessions, CancelFlush(s)
  PROVE  FillInv'
<1>. DEFINE t == tx[s]
            r == t.order
            v == [t EXCEPT !.pc = "cancelRelease", !.locked = {r}, !.dirty = {r},
                           !.rows[r].status = "CANCELLED"]
<1>t. t \in TxRecords /\ r \in Requests /\ TypeOK /\ t.rows[r] \in OrderRows
  BY TxType DEF Inv
<1>q. Private(s, v) /\ t.pc = "cancelFlush" /\ Fresh(s, r)
  BY DEF CancelFlush
<1>e. [t.rows[r] EXCEPT !.status = "CANCELLED"].matched = t.rows[r].matched
  BY <1>t DEF OrderRows
<1>1. /\ v.pc = "cancelRelease" /\ v.dirty = {r} /\ v.newBets = t.newBets
      /\ v.rows[r].matched = t.rows[r].matched
  BY <1>t, <1>e DEF TxRecords
<1>2. t.rows[r] = orders[r]
  BY <1>t, <1>q DEF Inv, SessionOK, PhaseOK, CopiesOK, Fresh
<1>3. t.newBets = {} /\ ~ Taking(v)
  BY <1>1, <1>q DEF FillInv, FillsOK, Taking, PlacePCs
<1>4. BetsFor({}, r) = {} /\ IsFiniteSet({}) /\ t.rows[r].matched \in Int
  BY <1>t, FS_EmptySet DEF BetsFor, OrderRows
<1>. HIDE DEF v
<1>5. FillsOK(v)
  BY <1>1, <1>2, <1>3, <1>4, StakeSums DEF FillsOK, Sent
<1>. QED BY <1>t, <1>q, <1>5, PrivateFills

\* Nor does the commit of a cancellation.
LEMMA CancelReleaseFills ==
  ASSUME Inv, LedgerInv, FillInv, NEW s \in Sessions, CancelRelease(s)
  PROVE  FillInv'
<1>. DEFINE t == tx[s]
            r == t.order
            amount == LiabilityMinor(r.side, r.price, Remaining(r, t.rows[r]))
            back == - amount
            p == Post(s, t, r.user, ReleaseKey(r), 0, back)
<1>t. t \in TxRecords /\ r \in Requests /\ TypeOK
  BY TxType DEF Inv
<1>1. amount \in Int
  BY <1>t, TxType, RequestType, LiabilityType
<1>2. back \in Int /\ 0 \in Int
  <2>. HIDE DEF amount
  <2>. QED BY <1>1
<1>3. r.user \in Users /\ ReleaseKey(r) \in LedgerKeys
  BY <1>t, RequestType DEF ReleaseKey, LedgerKeys
<1>q. Commit(s, p) /\ t.dirty = Sent(t)
  BY DEF CancelRelease, Sent
<1>. HIDE DEF back
<1>g. TypeOK /\ t \in TxRecords /\ r.user \in Users /\ ReleaseKey(r) \in LedgerKeys
  BY <1>t, <1>3
<1>4a. p \in TxRecords
  <2>. HIDE DEF t
  <2>. QED BY <1>g, <1>2, PostType
<1>4b. p.dirty = t.dirty /\ p.newBets = t.newBets /\ p.rows = t.rows
  <2>. HIDE DEF t
  <2>. QED BY <1>g DEF Post, TxRecords
<1>4. /\ p \in TxRecords /\ p.dirty = t.dirty /\ p.newBets = t.newBets /\ p.rows = t.rows
  BY <1>4a, <1>4b
<1>5. \A q \in t.dirty : t.rows[q].status # "ABSENT"
  BY DEF LedgerInv, PostingsOK
<1>. HIDE DEF p
<1>. QED BY <1>q, <1>4, <1>5, CommitFills

\* A settlement changes no matched part either.
LEMMA SettleBetFills ==
  ASSUME Inv, FillInv, NEW s \in Sessions, NEW b \in tx[s].todoBets, SettleBet(s, b)
  PROVE  FillInv'
<1>. DEFINE t == tx[s]
            won == BetOrder(b).selection = t.winner
            d == SettleBetDeltas(b.side, BetPrice(b), b.stake, won)
            p == Post(s, t, BetUser(b), SettleKey(b), d.balance, d.reserved)
            v == [p EXCEPT !.todoBets = @ \ {b}, !.settled = @ \cup {b}]
<1>t. t \in TxRecords /\ b \in BetRecords /\ TypeOK
  BY TxType DEF Inv, TxRecords
<1>u. /\ BetUser(b) \in Users /\ d.balance \in Int /\ d.reserved \in Int
      /\ SettleKey(b) \in LedgerKeys
  BY <1>t, BetType, SettleType
<1>q. Private(s, v) /\ t.pc = "settleBets"
  BY DEF SettleBet
<1>. HIDE DEF d
<1>p. p \in TxRecords /\ p.pc = t.pc /\ p.dirty = t.dirty /\ p.newBets = t.newBets
  BY <1>t, <1>u, PostType, PostFields
<1>. HIDE DEF p
<1>1. v.pc = "settleBets" /\ v.dirty = t.dirty /\ v.newBets = t.newBets
  BY <1>p, <1>q DEF TxRecords
<1>2. t.dirty = {} /\ t.newBets = {}
  BY <1>q DEF Inv, SessionOK, PhaseOK, FillInv, FillsOK, Taking, PlacePCs
<1>. HIDE DEF v
<1>3. FillsOK(v)
  BY <1>1, <1>2, NoFills DEF PlacePCs
<1>. QED BY <1>t, <1>q, <1>3, PrivateFills

\* Listing the resting orders touches no fill.
LEMMA SettleListOrdersFills ==
  ASSUME Inv, FillInv, NEW s \in Sessions, SettleListOrders(s)
  PROVE  FillInv'
<1>. DEFINE t == tx[s]
            open == {r \in Requests : orders[r].status \in OpenStatuses}
            rows == [r \in Requests |-> IF r \in open THEN orders[r] ELSE NoRow]
            v == [t EXCEPT !.pc = "settleOrders", !.todo = open, !.rows = rows]
<1>t. t \in TxRecords /\ TypeOK
  BY TxType DEF Inv
<1>q. Private(s, v) /\ t.pc = "settleBets"
  BY DEF SettleListOrders
<1>1. v.pc = "settleOrders" /\ v.dirty = t.dirty /\ v.newBets = t.newBets
  BY <1>t DEF TxRecords
<1>2. t.dirty = {} /\ t.newBets = {}
  BY <1>q DEF Inv, SessionOK, PhaseOK, FillInv, FillsOK, Taking, PlacePCs
<1>. HIDE DEF v
<1>3. FillsOK(v)
  BY <1>1, <1>2, NoFills DEF PlacePCs
<1>. QED BY <1>t, <1>q, <1>3, PrivateFills

\* Cancelling one of them in a settlement matches nothing.
LEMMA SettleOrderFills ==
  ASSUME Inv, FillInv, NEW s \in Sessions, NEW r \in Requests, SettleOrder(s, r)
  PROVE  FillInv'
<1>. DEFINE t == tx[s]
            release == ReleaseAmount(r.side, r.price, Remaining(r, t.rows[r]))
            back == - release
            p == Post(s, t, r.user, ReleaseSettleKey(r), 0, back)
            paid == IF release > 0 THEN p ELSE t
            v == [paid EXCEPT !.todo = @ \ {r}, !.dirty = @ \cup {r},
                              !.rows[r].status = "CANCELLED"]
<1>t. t \in TxRecords /\ TypeOK /\ t.rows[r] \in OrderRows
  BY TxType DEF Inv
<1>1. release \in Int
  BY TxType, RequestType, LiabilityType DEF Inv
<1>2. back \in Int /\ 0 \in Int
  <2>. HIDE DEF release
  <2>. QED BY <1>1
<1>3. r.user \in Users /\ ReleaseSettleKey(r) \in LedgerKeys
  BY RequestType DEF ReleaseSettleKey, LedgerKeys
<1>q. Private(s, v) /\ t.pc = "settleOrders" /\ r \in t.todo
  BY DEF SettleOrder
<1>. HIDE DEF back
<1>g. TypeOK /\ t \in TxRecords /\ r.user \in Users /\ ReleaseSettleKey(r) \in LedgerKeys
  BY <1>t, <1>3
<1>pa. p \in TxRecords
  <2>. HIDE DEF t
  <2>. QED BY <1>g, <1>2, PostType
<1>pb. /\ p.pc = t.pc /\ p.dirty = t.dirty /\ p.newBets = t.newBets /\ p.rows = t.rows
       /\ p.locked = t.locked
  <2>. HIDE DEF t
  <2>. QED BY <1>g DEF Post, TxRecords
<1>p. /\ p \in TxRecords /\ p.pc = t.pc /\ p.dirty = t.dirty /\ p.newBets = t.newBets
      /\ p.rows = t.rows /\ p.locked = t.locked
  BY <1>pa, <1>pb
<1>. HIDE DEF p, release
<1>4. /\ paid \in TxRecords /\ paid.pc = t.pc /\ paid.dirty = t.dirty /\ paid.newBets = t.newBets
      /\ paid.rows = t.rows /\ paid.locked = t.locked
  BY <1>p, <1>t
<1>. HIDE DEF paid
<1>5. /\ v.pc = t.pc /\ v.dirty = t.dirty \cup {r} /\ v.newBets = t.newBets /\ v.locked = t.locked
      /\ \A q \in Requests \ {r} : v.rows[q] = t.rows[q]
  BY <1>4 DEF TxRecords
<1>. HIDE DEF v
<1>6. Sent(t) \subseteq Requests \ {r} /\ Sent(v) = Sent(t)
  <2>1. r \notin t.dirty /\ t.locked \subseteq t.dirty
    BY <1>q DEF Inv, SessionOK, PhaseOK
  <2>. QED BY <1>t, <1>5, <1>q, <2>1 DEF Sent, TxRecords
<1>7. FillsOK(t) /\ t.newBets = {} /\ ~ Taking(v) /\ ~ Taking(t)
  BY <1>5, <1>q DEF FillInv, FillsOK, Taking, PlacePCs
<1>8. \A q \in Sent(v) : v.rows[q].matched = orders[q].matched + StakesOf(BetsFor(v.newBets, q))
  BY <1>5, <1>6, <1>7 DEF FillsOK
<1>9. FillsOK(v)
  BY <1>5, <1>7, <1>8, <1>q, FS_EmptySet DEF FillsOK
<1>. QED BY <1>t, <1>q, <1>9, PrivateFills

\* The row whose change it sends is as much matched as its copy.
LEMMA SettleFlushFills ==
  ASSUME Inv, FillInv, NEW s \in Sessions, NEW r \in Requests, SettleFlush(s, r)
  PROVE  FillInv'
<1>. DEFINE t == tx[s]
            v == [t EXCEPT !.locked = @ \cup {r}]
<1>t. t \in TxRecords /\ TypeOK /\ orders[r] \in OrderRows /\ orders[r].matched \in Int
  BY TxType DEF Inv, TypeOK, OrderRows
<1>q. Private(s, v) /\ t.pc = "settleOrders" /\ r \in Unsent(t) /\ Fresh(s, r)
  BY DEF SettleFlush
<1>1. /\ v.pc = t.pc /\ v.dirty = t.dirty /\ v.newBets = t.newBets
      /\ v.locked = t.locked \cup {r} /\ v.rows = t.rows /\ v.order = t.order
  BY <1>t DEF TxRecords
<1>. HIDE DEF v
<1>2. t.rows[r].matched = orders[r].matched
  <2>1. t.rows[r] = [orders[r] EXCEPT !.status = "CANCELLED"]
    BY <1>q DEF Inv, SessionOK, UnsentOK, Fresh
  <2>. QED BY <1>t, <2>1 DEF OrderRows
<1>3. FillsOK(t) /\ t.newBets = {} /\ ~ Taking(v) /\ ~ Taking(t)
  BY <1>1, <1>q DEF FillInv, FillsOK, Taking, PlacePCs
<1>4. Sent(v) \subseteq Sent(t) \cup {r}
  BY <1>1 DEF Sent
<1>5. BetsFor({}, r) = {} /\ StakesOf({}) = 0
  BY StakeSums DEF BetsFor
<1>6. \A q \in Sent(v) : v.rows[q].matched = orders[q].matched + StakesOf(BetsFor(v.newBets, q))
  <2>1. orders[r].matched = orders[r].matched + 0
    BY <1>t
  <2>2. \A q \in Sent(t) : t.rows[q].matched = orders[q].matched + StakesOf(BetsFor(t.newBets, q))
    BY <1>3 DEF FillsOK
  <2>. QED BY <1>1, <1>2, <1>3, <1>4, <1>5, <2>1, <2>2
<1>7. FillsOK(v)
  BY <1>1, <1>3, <1>6, <1>q, FS_EmptySet DEF FillsOK
<1>. QED BY <1>t, <1>q, <1>7, PrivateFills

\* A transaction starts without a fill.
LEMMA BeginFills ==
  ASSUME Inv, FillInv, NEW s \in Sessions,
         \/ \E r \in Requests : PlaceBegin(s, r) \/ CancelBegin(s, r)
         \/ \E winner \in Winners : SettleBegin(s, winner)
         \/ \E target \in MarketStatuses : TransitionBegin(s, target)
  PROVE  FillInv'
<1>1. ASSUME NEW v, Private(s, v), v.newBets = {}, v.dirty = {},
             v.pc \in {"insert", "cancelFlush", "settleBets", "transition"}
      PROVE  FillInv'
  <2>1. FillsOK(v)
    BY <1>1, FS_EmptySet DEF FillsOK, Taking, PlacePCs, Sent
  <2>. QED BY <1>1, <2>1, PrivateFills DEF Inv
<1>2. ASSUME NEW r \in Requests, PlaceBegin(s, r) PROVE FillInv'
  <2>. DEFINE v == [IdleTx EXCEPT !.pc = "insert", !.order = r, !.market = market]
  <2>1. Private(s, v)
    BY <1>2 DEF PlaceBegin
  <2>2. v.newBets = {} /\ v.dirty = {} /\ v.pc = "insert"
    BY DEF IdleTx
  <2>. QED BY <1>1, <2>1, <2>2
<1>3. ASSUME NEW r \in Requests, CancelBegin(s, r) PROVE FillInv'
  <2>. DEFINE v == [IdleTx EXCEPT !.pc = "cancelFlush", !.order = r, !.rows[r] = orders[r]]
  <2>1. Private(s, v)
    BY <1>3 DEF CancelBegin
  <2>2. v.newBets = {} /\ v.dirty = {} /\ v.pc = "cancelFlush"
    BY DEF IdleTx
  <2>. QED BY <1>1, <2>1, <2>2
<1>4. ASSUME NEW winner \in Winners, SettleBegin(s, winner) PROVE FillInv'
  <2>. DEFINE v == [IdleTx EXCEPT !.pc = "settleBets", !.winner = winner, !.market = market,
                                  !.todoBets = bets \ settledBets]
  <2>1. Private(s, v)
    BY <1>4 DEF SettleBegin
  <2>2. v.newBets = {} /\ v.dirty = {} /\ v.pc = "settleBets"
    BY DEF IdleTx
  <2>. QED BY <1>1, <2>1, <2>2
<1>5. ASSUME NEW target \in MarketStatuses, TransitionBegin(s, target) PROVE FillInv'
  <2>. DEFINE v == [IdleTx EXCEPT !.pc = "transition", !.target = target, !.market = market]
  <2>1. Private(s, v)
    BY <1>5 DEF TransitionBegin
  <2>2. v.newBets = {} /\ v.dirty = {} /\ v.pc = "transition"
    BY DEF IdleTx
  <2>. QED BY <1>1, <2>1, <2>2
<1>. QED BY <1>2, <1>3, <1>4, <1>5

\* The commit of a settlement makes no bet.
LEMMA SettleCommitFills ==
  ASSUME Inv, LedgerInv, FillInv, NEW s \in Sessions, SettleCommit(s)
  PROVE  FillInv'
<1>1. Commit(s, tx[s]) /\ tx[s] \in TxRecords
  BY TxType DEF SettleCommit, Inv
<1>2. \A r \in tx[s].dirty : tx[s].rows[r].status # "ABSENT"
  BY DEF LedgerInv, PostingsOK
<1>3. tx[s].dirty = Sent(tx[s])
  BY DEF SettleCommit, Unsent, Sent
<1>. QED BY <1>1, <1>2, <1>3, CommitFills

\* Every step keeps it.
LEMMA FillStep == Inv /\ LedgerInv /\ FillInv /\ [Next]_vars => FillInv'
<1>. SUFFICES ASSUME Inv, LedgerInv, FillInv, [Next]_vars PROVE FillInv'
  OBVIOUS
<1>1. CASE UNCHANGED vars
  BY <1>1 DEF vars, FillInv, BetsAccountForMatched, FillsOK, Taking, Sent
<1>2. ASSUME NEW s \in Sessions, PlaceNext(s) PROVE FillInv'
  <2>1. CASE UNCHANGED vars
    BY <1>1, <2>1
  <2>2. CASE Rollback(s)
    BY <2>2, RollbackFills DEF Rollback, Inv
  <2>. QED
    BY <1>2, <2>1, <2>2, BeginFills, PlaceInsertFills, PlaceReserveFills, PlaceLockFills,
       PlaceMakersFills, PlaceMatchFills, PlaceCommitFills
       DEF PlaceNext, PlaceAnswer, PlaceDuplicate, PlaceRefuse
<1>3. ASSUME NEW s \in Sessions, CancelNext(s) PROVE FillInv'
  BY <1>3, BeginFills, CancelFlushFills, CancelReleaseFills DEF CancelNext
<1>4. ASSUME NEW s \in Sessions, SettleNext(s) PROVE FillInv'
  BY <1>4, BeginFills, SettleBetFills, SettleListOrdersFills, SettleOrderFills,
     SettleFlushFills, SettleCommitFills DEF SettleNext
<1>5. ASSUME NEW s \in Sessions, TransitionNext(s) PROVE FillInv'
  <2>1. CASE TransitionCommit(s)
    BY <2>1, RollbackFills DEF TransitionCommit, Inv
  <2>. QED BY <1>5, <2>1, BeginFills DEF TransitionNext
<1>6. ASSUME NEW s \in Sessions, StaleAbort(s) \/ Die(s) PROVE FillInv'
  BY <1>6, RollbackFills DEF StaleAbort, Die, Rollback, Inv
<1>. QED BY <1>1, <1>2, <1>3, <1>4, <1>5, <1>6 DEF Next

\* It holds initially.
LEMMA InitFills == Init => FillInv
<1>. SUFFICES ASSUME Init PROVE FillInv
  OBVIOUS
<1>1. \A r : BetsFor({}, r) = {}
  BY DEF BetsFor
<1>2. BetsAccountForMatched
  BY <1>1, StakeSums DEF Init, BetsAccountForMatched, NoRow
<1>3. FillsOK(IdleTx)
  BY NoFills DEF IdleTx, PlacePCs
<1>. QED BY <1>2, <1>3, FS_EmptySet DEF Init, FillInv

\* The matched part of every order is the sum of its bets, and every bet has its
\* twin on the other side (MatchingEngine.place_order).
THEOREM BetsAddUp == Spec => []BetsAccountForMatched
<1>1. Init => FillInv
  BY InitFills
<1>2. Inv /\ LedgerInv /\ FillInv /\ [Next]_vars => FillInv'
  BY FillStep
<1>3. FillInv => BetsAccountForMatched
  BY DEF FillInv
<1>. QED BY <1>1, <1>2, <1>3, Invariant, LedgerInvariant, PTL DEF Spec
=============================================================================
