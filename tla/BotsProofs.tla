------------------------------ MODULE BotsProofs ------------------------------
(***************************************************************************)
(* What is proved of Bots: the bots never trade with each other; a requote  *)
(* that comes to its end alive leaves no old quote resting; and a bot all   *)
(* of whose orders have their holds has reserved what it may still lose.    *)
(***************************************************************************)
EXTENDS Bots, AmountProofs

-----------------------------------------------------------------------------
(* The inductive invariant behind BotsNeverTrade and QuotesReplaced         *)

\* A quote of the requote under way.
OfRound(r) ==
    /\ r.user \in Bots /\ r.selection \in {Batting, Bowling}
    /\ r = QuoteOf(round, r.selection, r.user, session.score)

BotsOrders == {r \in Requests : r.user \in Bots /\ book[r].status # "ABSENT"}

\* What bot b has resting from earlier requotes.
OldQuotes(selection, b) ==
    {r \in Requests : r.user = b /\ r.selection = selection /\ Resting(r) /\ r.key # round}

\* Rows and the session keep their fields.
BotsShape ==
    /\ DOMAIN book = Requests
    /\ \A r \in Requests : DOMAIN book[r] = {"status", "matched"}
    /\ DOMAIN session = {"phase", "score", "selection", "bot", "todo", "rows", "pending", "dead"}
    /\ session.phase \in {"idle", "list", "cancel", "quote", "end"}
    /\ session.bot \in Bots /\ session.selection \in {Batting, Bowling}
    /\ session.dead \in BOOLEAN
    /\ UnderWay => session.score \in Scores
    /\ round \in Nat

\* The bots' orders are quotes of the requotes so far, and those of the one under
\* way are at its score's prices; so are the INSERTs that wait for a commit.  What
\* is still to be cancelled was placed.
QuotesOK ==
    /\ \A r \in BotsOrders :
         /\ r.selection \in {Batting, Bowling} /\ r.key \in Nat /\ r.key <= round
         /\ UnderWay /\ r.key = round => OfRound(r)
    /\ \A r \in session.pending : UnderWay /\ OfRound(r)
    /\ session.todo \subseteq BotsOrders

\* What a requote in a session that lives has withdrawn by now: the quotes of a
\* selection before it places new ones, bot by bot.
Withdrawn ==
    LET t == session
        Gone(selection) == \A b \in Bots : OldQuotes(selection, b) = {}
    IN  ~ t.dead =>
          /\ t.phase = "cancel" => OldQuotes(t.selection, t.bot) \subseteq t.todo
          /\ t.phase \in {"list", "cancel"} /\ t.bot = BotB => OldQuotes(t.selection, BotA) = {}
          /\ t.phase \in {"quote", "end"} => Gone(t.selection)
          /\ UnderWay /\ t.selection = Bowling => Gone(Batting)
          /\ t.phase = "end" => Gone(Batting) /\ Gone(Bowling)

BotsInv == BotsShape /\ QuotesOK /\ Withdrawn /\ BotsNeverTrade

Fields == {"phase", "score", "selection", "bot", "todo", "rows", "pending", "dead"}

-----------------------------------------------------------------------------
(* Prices                                                                   *)

\* Rounding gives whole numbers.
LEMMA NearestInt == \A x \in Int, y \in Nat \ {0} : Nearest(x, y) \in Int
  BY DEF Nearest

\* The fair price of the batting team is a whole number of hundredths, at least
\* _MIN_FAIR_PRICE.
LEMMA BattingPrice ==
  ASSUME NEW score \in Scores
  PROVE  FairPriceBatting(score) \in Int /\ FairPriceBatting(score) >= 105
<1>1. score.needed \in Nat /\ score.balls \in Nat /\ score.wickets \in Nat
  BY BotsAssumption
<1>2. CASE score.needed # 0 /\ score.wickets # 0 /\ score.balls # 0
  <2>. DEFINE y == score.balls * score.wickets
              n == Nearest(210 * score.needed, y)
  <2>1. y \in Nat \ {0}
    BY <1>1, <1>2
  <2>2. n \in Int
    <3>. HIDE DEF y
    <3>. QED BY <1>1, <2>1, NearestInt
  <2>3. FairPriceBatting(score) = Clamp(105, 150 + n, 1500)
    BY <1>2 DEF FairPriceBatting
  <2>. HIDE DEF n
  <2>. QED BY <2>2, <2>3 DEF Clamp
<1>. QED BY <1>1, <1>2 DEF FairPriceBatting

\* So are all fair prices.
LEMMA FairPriceInt ==
  ASSUME NEW score \in Scores, NEW selection
  PROVE  FairPrice(selection, score) \in Int
<1>. DEFINE p == FairPriceBatting(score)
<1>1. p \in Int /\ p >= 105
  BY BattingPrice
<1>2. FairPrice(selection, score) \in {p, ComplementaryPrice(p)}
  BY DEF FairPrice
<1>. HIDE DEF p
<1>3. Nearest(Hundredths * p, p - Hundredths) \in Int
  BY <1>1, NearestInt DEF Hundredths
<1>. QED BY <1>1, <1>2, <1>3 DEF ComplementaryPrice

\* The two quotes of a selection for one score, A's back above and B's lay below
\* the fair price, do not cross.
LEMMA QuotesApart ==
  ASSUME NEW score \in Scores, NEW selection, NEW n, NEW k, NEW a \in Bots, NEW b \in Bots,
         NEW r, r = QuoteOf(n, selection, a, score),
         NEW m, m = QuoteOf(k, selection, b, score),
         m.side = Opposite(r.side)
  PROVE  ~ Crosses(r.side, r.price, m.price)
<1>. DEFINE f == FairPrice(selection, score)
<1>1. f \in Int
  BY FairPriceInt
<1>2. /\ r.side = IF a = BotA THEN "BACK" ELSE "LAY"
      /\ r.price = IF a = BotA THEN f + Offset ELSE f - Offset
      /\ m.side = IF b = BotA THEN "BACK" ELSE "LAY"
      /\ m.price = IF b = BotA THEN f + Offset ELSE f - Offset
  BY DEF QuoteOf, QuotePrice
<1>. HIDE DEF f
<1>. QED BY <1>1, <1>2, BotsAssumption DEF Crosses, Opposite

-----------------------------------------------------------------------------
(* The course of a requote                                                  *)

\* Where Advance goes, field by field.
LEMMA Advanced ==
  ASSUME NEW t, DOMAIN t = Fields, t.bot \in Bots
  PROVE  LET s == Advance(t) IN
           /\ DOMAIN s = Fields
           /\ s.score = t.score /\ s.todo = t.todo /\ s.pending = t.pending /\ s.dead = t.dead
           /\ s.rows = t.rows
           /\ t.bot = BotA => /\ s.bot = BotB /\ s.selection = t.selection
                              /\ s.phase = IF t.phase = "cancel" THEN "list" ELSE t.phase
           /\ t.bot = BotB /\ t.phase = "cancel" =>
                 s.bot = BotA /\ s.selection = t.selection /\ s.phase = "quote"
           /\ t.bot = BotB /\ t.phase = "quote" /\ t.selection = Batting =>
                 s.bot = BotA /\ s.selection = Bowling /\ s.phase = "list"
           /\ t.bot = BotB /\ t.phase = "quote" /\ t.selection # Batting =>
                 s.bot = BotB /\ s.selection = t.selection /\ s.phase = "end"
<1>1. BotA # BotB
  BY BotsAssumption
<1>2. CASE t.bot = BotA
  <2>1. Advance(t) = [t EXCEPT !.bot = BotB, !.phase = IF @ = "cancel" THEN "list" ELSE @]
    BY <1>1, <1>2 DEF Advance
  <2>. QED BY <1>1, <1>2, <2>1 DEF Fields
<1>3. CASE t.bot = BotB /\ t.phase = "cancel"
  <2>1. Advance(t) = [t EXCEPT !.bot = BotA, !.phase = "quote"]
    BY <1>1, <1>3 DEF Advance
  <2>. QED BY <1>1, <1>3, <2>1 DEF Fields
<1>4. CASE t.bot = BotB /\ t.phase = "quote" /\ t.selection = Batting
  <2>1. Advance(t) = [t EXCEPT !.bot = BotA, !.phase = "list", !.selection = Bowling]
    BY <1>1, <1>4 DEF Advance
  <2>. QED BY <1>1, <1>4, <2>1 DEF Fields
<1>5. CASE t.bot = BotB /\ t.phase # "cancel" /\ ~ (t.phase = "quote" /\ t.selection = Batting)
  <2>1. Advance(t) = [t EXCEPT !.phase = "end"]
    BY <1>1, <1>5 DEF Advance
  <2>. QED BY <1>1, <1>5, <2>1 DEF Fields
<1>. QED BY <1>2, <1>3, <1>4, <1>5 DEF Bots

-----------------------------------------------------------------------------
(* The order book                                                           *)

\* A step of the book that adds no bots' orders but these, and brings none to
\* rest that did not.
BookStep(added) ==
    /\ DOMAIN book' = Requests
    /\ \A r \in Requests : DOMAIN book'[r] = {"status", "matched"}
    /\ \A r \in Requests : r.user \in Bots =>
         /\ book[r].status # "ABSENT" => book'[r].status # "ABSENT"
         /\ book'[r].status # "ABSENT" => book[r].status # "ABSENT" \/ r \in added
         /\ book'[r].status \in {"OPEN", "PARTIALLY_MATCHED"} => Resting(r) \/ r \in added

\* The session of the next state works on the same requote, or is idle.
SameRequote ==
    /\ round' = round
    /\ UnderWay' => UnderWay /\ session'.score = session.score

\* Of the quotes of a requote nothing changes while it is under way.
LEMMA OfRoundKept ==
  ASSUME SameRequote, UnderWay', NEW r
  PROVE  OfRound(r)' <=> OfRound(r)
<1>1. round' = round /\ session'.score = session.score
  BY DEF SameRequote
<1>. QED BY <1>1 DEF OfRound, QuoteOf, FairPrice, QuotePrice

\* The orders of the bots stay in order, and old quotes only go.
LEMMA QuotesKept ==
  ASSUME BotsShape, QuotesOK, SameRequote, NEW added, BookStep(added),
         \A r \in added : UnderWay /\ OfRound(r),
         \A r \in session'.pending : UnderWay' /\ OfRound(r),
         session'.todo \subseteq BotsOrders
  PROVE  /\ QuotesOK'
         /\ \A selection, b : b \in Bots => OldQuotes(selection, b)' \subseteq OldQuotes(selection, b)
<1>1. \A r \in added : r.user \in Bots /\ r.selection \in {Batting, Bowling} /\ r.key = round
  BY DEF OfRound, QuoteOf
<1>2. BotsOrders' \subseteq BotsOrders \cup added /\ BotsOrders \subseteq BotsOrders'
  BY DEF BookStep, BotsOrders
<1>3. round' = round /\ round \in Nat
  BY DEF SameRequote, BotsShape
<1>4. ASSUME NEW r \in BotsOrders'
      PROVE  /\ r.selection \in {Batting, Bowling} /\ r.key \in Nat /\ r.key <= round
             /\ UnderWay' /\ r.key = round => OfRound(r)'
  <2>1. CASE r \in BotsOrders
    <3>1. r.selection \in {Batting, Bowling} /\ r.key \in Nat /\ r.key <= round
      BY <2>1 DEF QuotesOK
    <3>2. ASSUME UnderWay', r.key = round
          PROVE  OfRound(r)'
      BY <2>1, <3>2, OfRoundKept DEF QuotesOK, SameRequote
    <3>. QED BY <3>1, <3>2
  <2>2. CASE r \in added
    BY <1>1, <1>3, <2>2, OfRoundKept
  <2>. QED BY <1>2, <2>1, <2>2
<1>5. \A r \in session'.pending : UnderWay' /\ OfRound(r)'
  BY OfRoundKept
<1>6. QuotesOK'
  BY <1>2, <1>3, <1>4, <1>5 DEF QuotesOK
<1>7. ASSUME NEW selection, NEW b \in Bots, NEW r \in OldQuotes(selection, b)'
      PROVE  r \in OldQuotes(selection, b)
  <2>1. /\ r \in Requests /\ r.user = b /\ r.selection = selection /\ r.key # round
        /\ book'[r].status \in {"OPEN", "PARTIALLY_MATCHED"}
    BY <1>3 DEF OldQuotes, Resting
  <2>2. r \notin added
    BY <1>1, <2>1
  <2>3. Resting(r)
    BY <2>1, <2>2 DEF BookStep
  <2>. QED BY <2>1, <2>3 DEF OldQuotes
<1>. QED BY <1>6, <1>7

\* A step that touches no order.
LEMMA BookStays == BotsShape /\ book' = book => BookStep({})
  BY DEF BookStep, BotsShape, Resting

\* The row of an order that is matched further.
LEMMA AfterRow ==
  ASSUME NEW r, NEW size
  PROVE  /\ DOMAIN After(r, size) = {"status", "matched"}
         /\ After(r, size).status \in {"MATCHED", "PARTIALLY_MATCHED", "OPEN"}
<1>. DEFINE matched == book[r].matched + size
            c == CASE matched = r.stake -> "MATCHED"
                   [] matched > 0 /\ matched < r.stake -> "PARTIALLY_MATCHED"
                   [] OTHER -> "OPEN"
<1>1. After(r, size) = [status |-> c, matched |-> matched]
  BY DEF After
<1>2. c \in {"MATCHED", "PARTIALLY_MATCHED", "OPEN"}
  OBVIOUS
<1>. HIDE DEF c, matched
<1>. QED BY <1>1, <1>2

\* The commit of a refused quote's INSERT.
LEMMA InsertedRows ==
  ASSUME BotsShape, QuotesOK, NEW r \in Requests
  PROVE  /\ DOMAIN Inserted(session)[r] = {"status", "matched"}
         /\ r \in session.pending => Inserted(session)[r].status # "ABSENT"
         /\ r \notin session.pending => Inserted(session)[r] = book[r]
  BY DEF Inserted, OpenRow, BotsShape

\* Trading with makers that rest changes only their orders and the taker's.
LEMMA TradeStep ==
  ASSUME NEW added, DOMAIN book' = Requests,
         \A q \in Requests : DOMAIN book'[q] = {"status", "matched"},
         \A q \in Requests : \/ book'[q] = book[q]
                             \/ q \in added /\ book'[q].status # "ABSENT"
                             \/ Resting(q) /\ book'[q].status # "ABSENT"
                             \/ q.user \notin Bots
  PROVE  BookStep(added)
  BY DEF BookStep, Resting

-----------------------------------------------------------------------------
(* Every step preserves BotsInv                                             *)

\* Nothing has been quoted yet.
LEMMA BotsInvInit == BotsInit => BotsInv
<1>. SUFFICES ASSUME BotsInit
              PROVE  BotsInv
  OBVIOUS
<1>1. /\ book = [r \in Requests |-> [status |-> "ABSENT", matched |-> 0]] /\ bets = {}
      /\ session = IdleSession /\ round = 0
  BY DEF BotsInit, Init, Absent
<1>2. /\ DOMAIN session = Fields /\ session.phase = "idle" /\ session.bot = BotA
      /\ session.selection = Batting /\ session.dead = FALSE
      /\ session.pending = {} /\ session.todo = {}
  BY <1>1 DEF IdleSession, Fields
<1>3. BotsShape
  <2>1. ~ UnderWay
    BY <1>2 DEF UnderWay
  <2>. QED BY <1>1, <1>2, <2>1 DEF BotsShape, Fields, Bots
<1>4. BotsOrders = {}
  BY <1>1 DEF BotsOrders
<1>5. QuotesOK
  BY <1>2, <1>4 DEF QuotesOK
<1>6. Withdrawn
  BY <1>2 DEF Withdrawn, UnderWay
<1>7. BotsNeverTrade
  BY <1>1 DEF BotsNeverTrade
<1>. QED BY <1>3, <1>5, <1>6, <1>7 DEF BotsInv

\* The tick is done: the session has nothing in hand.
LEMMA IdleStep ==
  ASSUME BotsInv, Private(IdleSession)
  PROVE  BotsInv'
<1>1. /\ session' = IdleSession /\ book' = book /\ bets' = bets /\ round' = round
  BY DEF Private, vars
<1>2. /\ DOMAIN session' = Fields /\ session'.phase = "idle" /\ session'.bot = BotA
      /\ session'.selection = Batting /\ session'.dead = FALSE
      /\ session'.pending = {} /\ session'.todo = {}
  BY <1>1 DEF IdleSession, Fields
<1>3. ~ UnderWay'
  BY <1>2 DEF UnderWay
<1>4. BotsShape'
  <2>1. BotA \in Bots
    BY DEF Bots
  <2>2. /\ DOMAIN book' = Requests /\ round' \in Nat
        /\ \A r \in Requests : DOMAIN book'[r] = {"status", "matched"}
    BY <1>1 DEF BotsInv, BotsShape
  <2>3. session'.dead \in BOOLEAN
    BY <1>2
  <2>. QED BY <1>2, <1>3, <2>1, <2>2, <2>3 DEF BotsShape, Fields
<1>5. QuotesOK'
  <2>1. BotsOrders' = BotsOrders
    BY <1>1 DEF BotsOrders
  <2>. QED BY <1>1, <1>2, <1>3, <2>1 DEF BotsInv, QuotesOK
<1>6. Withdrawn'
  BY <1>2, <1>3 DEF Withdrawn
<1>7. BotsNeverTrade'
  BY <1>1 DEF BotsInv, BotsNeverTrade
<1>. QED BY <1>4, <1>5, <1>6, <1>7 DEF BotsInv

\* A requote begins with the older quotes of both selections in the book.
LEMMA BeginStep ==
  ASSUME BotsInv, NEW score \in Scores, Begin(score)
  PROVE  BotsInv'
<1>1. /\ session' = [IdleSession EXCEPT !.phase = "list", !.score = score]
      /\ book' = book /\ bets' = bets /\ round' = round + 1
  BY DEF Begin, vars
<1>2. /\ DOMAIN session' = Fields /\ session'.phase = "list" /\ session'.bot = BotA
      /\ session'.selection = Batting /\ session'.dead = FALSE /\ session'.score = score
      /\ session'.pending = {} /\ session'.todo = {}
  BY <1>1 DEF IdleSession, Fields
<1>3. BotsShape'
  <2>1. BotA \in Bots
    BY DEF Bots
  <2>2. round' \in Nat
    BY <1>1 DEF BotsInv, BotsShape
  <2>3. session'.dead \in BOOLEAN
    BY <1>2
  <2>. QED BY <1>1, <1>2, <2>1, <2>2, <2>3, Zenon DEF BotsInv, BotsShape, Fields
<1>4. QuotesOK'
  <2>1. BotsOrders' = BotsOrders
    BY <1>1 DEF BotsOrders
  <2>2. \A r \in BotsOrders : r.selection \in {Batting, Bowling} /\ r.key \in Nat /\ r.key <= round
    BY DEF BotsInv, QuotesOK
  <2>3. round \in Nat
    BY DEF BotsInv, BotsShape
  <2>4. \A r \in BotsOrders' : /\ r.selection \in {Batting, Bowling} /\ r.key \in Nat
                               /\ r.key <= round' /\ r.key # round'
    BY <1>1, <2>1, <2>2, <2>3
  <2>. QED BY <1>2, <2>4 DEF QuotesOK
<1>5. Withdrawn'
  BY <1>2, BotsAssumption DEF Withdrawn
<1>6. BotsNeverTrade'
  BY <1>1 DEF BotsInv, BotsNeverTrade
<1>. QED BY <1>3, <1>4, <1>5, <1>6 DEF BotsInv

\* A bot's resting orders are listed; those of the selection are to be cancelled.
LEMMA ListStep ==
  ASSUME BotsInv, List
  PROVE  BotsInv'
<1>. DEFINE t == session
            found == RestingOf(t.bot)
<1>1. PICK rows : session' = [t EXCEPT !.phase = "cancel",
                                !.todo = {r \in found : r.selection = t.selection}, !.rows = rows]
  BY DEF List, Private
<1>2. t.phase = "list" /\ ~ t.dead /\ book' = book /\ bets' = bets /\ round' = round
  BY DEF List, Private, vars
<1>3. DOMAIN t = Fields /\ t.bot \in Bots
  BY DEF BotsInv, BotsShape, Fields
<1>4. /\ DOMAIN session' = Fields /\ session'.phase = "cancel" /\ session'.bot = t.bot
      /\ session'.selection = t.selection /\ session'.dead = t.dead /\ session'.score = t.score
      /\ session'.pending = t.pending
      /\ session'.todo = {r \in found : r.selection = t.selection}
  <2>. HIDE DEF found
  <2>. QED BY <1>1, <1>3 DEF Fields
<1>5. UnderWay /\ UnderWay' /\ SameRequote
  BY <1>2, <1>4 DEF UnderWay, SameRequote
<1>6. BotsShape'
  BY <1>2, <1>4, <1>5 DEF BotsInv, BotsShape, Fields
<1>7. session'.todo \subseteq BotsOrders
  BY <1>3, <1>4 DEF BotsOrders, RestingOf, Resting
<1>8. /\ QuotesOK'
      /\ \A selection, b : b \in Bots => OldQuotes(selection, b)' \subseteq OldQuotes(selection, b)
  <2>1. \A r \in session'.pending : UnderWay' /\ OfRound(r)
    BY <1>4, <1>5 DEF BotsInv, QuotesOK
  <2>2. BookStep({})
    BY <1>2, BookStays DEF BotsInv
  <2>. QED BY <1>5, <1>7, <2>1, <2>2, QuotesKept DEF BotsInv
<1>9. Withdrawn'
  <2>1. OldQuotes(t.selection, t.bot)' \subseteq session'.todo
    BY <1>3, <1>4, <1>8 DEF OldQuotes, RestingOf
  <2>. QED BY <1>2, <1>3, <1>4, <1>5, <1>8, <2>1, BotsAssumption DEF BotsInv, Withdrawn, Bots
<1>10. BotsNeverTrade'
  BY <1>2 DEF BotsInv, BotsNeverTrade
<1>. QED BY <1>6, <1>8, <1>9, <1>10 DEF BotsInv

\* The session goes on with the next bot, from quotes withdrawn or placed.
LEMMA AdvanceStep ==
  ASSUME BotsInv, NEW t, session' = Advance(t), DOMAIN t = Fields,
         session.phase \in {"cancel", "quote"},
         t.phase = session.phase, t.bot = session.bot, t.selection = session.selection,
         t.score = session.score, t.dead \in BOOLEAN, session.dead => t.dead,
         t.todo \subseteq BotsOrders, \A r \in t.pending : OfRound(r),
         ~ t.dead /\ t.phase = "cancel" => t.todo = {} /\ session.todo = {},
         round' = round,
         NEW added, BookStep(added), \A r \in added : OfRound(r),
         BotsNeverTrade'
  PROVE  BotsInv'
<1>1. t.bot \in Bots /\ session.selection \in {Batting, Bowling} /\ session.score \in Scores /\ UnderWay
  BY DEF BotsInv, BotsShape, UnderWay
<1>2. /\ DOMAIN session' = Fields /\ session'.score = session.score /\ session'.todo = t.todo
      /\ session'.pending = t.pending /\ session'.dead = t.dead
      /\ t.bot = BotA => /\ session'.bot = BotB /\ session'.selection = session.selection
                         /\ session'.phase = IF t.phase = "cancel" THEN "list" ELSE t.phase
      /\ t.bot = BotB /\ t.phase = "cancel" =>
            session'.bot = BotA /\ session'.selection = session.selection /\ session'.phase = "quote"
      /\ t.bot = BotB /\ t.phase = "quote" /\ session.selection = Batting =>
            session'.bot = BotA /\ session'.selection = Bowling /\ session'.phase = "list"
      /\ t.bot = BotB /\ t.phase = "quote" /\ session.selection # Batting =>
            session'.bot = BotB /\ session'.selection = session.selection /\ session'.phase = "end"
  BY <1>1, Advanced
<1>3. /\ session'.phase \in {"list", "quote", "end"} /\ session'.bot \in Bots
      /\ session'.selection \in {Batting, Bowling}
  BY <1>1, <1>2 DEF Bots
<1>4. UnderWay' /\ SameRequote
  BY <1>1, <1>2, <1>3 DEF UnderWay, SameRequote
<1>5. BotsShape'
  BY <1>1, <1>2, <1>3 DEF BotsInv, BotsShape, BookStep, Fields
<1>6. /\ QuotesOK'
      /\ \A selection, b : b \in Bots => OldQuotes(selection, b)' \subseteq OldQuotes(selection, b)
  BY <1>1, <1>2, <1>4, QuotesKept DEF BotsInv
<1>7. Withdrawn'
  <2>. SUFFICES ASSUME ~ session'.dead
                PROVE  Withdrawn'
    BY DEF Withdrawn
  <2>1. ~ session.dead /\ ~ t.dead /\ Withdrawn
    BY <1>2 DEF BotsInv
  <2>. PICK sel : sel = session.selection
    OBVIOUS
  <2>2. CASE t.bot = BotA /\ t.phase = "cancel"
    <3>1. OldQuotes(sel, BotA)' = {}
      BY <1>1, <1>6, <2>1, <2>2 DEF Withdrawn
    <3>2. session.selection = Bowling => \A b \in Bots : OldQuotes(Batting, b)' = {}
      BY <1>1, <1>6, <2>1 DEF Withdrawn
    <3>. QED BY <1>2, <2>2, <3>1, <3>2 DEF Withdrawn
  <2>3. CASE t.bot = BotB /\ t.phase = "cancel"
    <3>1. \A b \in Bots : OldQuotes(sel, b)' = {}
      BY <1>1, <1>6, <2>1, <2>3 DEF Withdrawn, Bots
    <3>2. session.selection = Bowling => \A b \in Bots : OldQuotes(Batting, b)' = {}
      BY <1>1, <1>6, <2>1 DEF Withdrawn
    <3>. QED BY <1>2, <2>3, <3>1, <3>2 DEF Withdrawn
  <2>4. CASE t.bot = BotA /\ t.phase = "quote"
    <3>1. \A b \in Bots : OldQuotes(sel, b)' = {}
      BY <1>1, <1>6, <2>1, <2>4 DEF Withdrawn
    <3>2. session.selection = Bowling => \A b \in Bots : OldQuotes(Batting, b)' = {}
      BY <1>1, <1>6, <2>1 DEF Withdrawn
    <3>. QED BY <1>2, <2>4, <3>1, <3>2 DEF Withdrawn
  <2>5. CASE t.bot = BotB /\ t.phase = "quote"
    <3>1. \A b \in Bots : OldQuotes(sel, b)' = {}
      BY <1>1, <1>6, <2>1, <2>5 DEF Withdrawn
    <3>2. session.selection = Bowling => \A b \in Bots : OldQuotes(Batting, b)' = {}
      BY <1>1, <1>6, <2>1 DEF Withdrawn
    <3>3. CASE session.selection = Batting
      BY <1>2, <2>5, <3>1, <3>3, BotsAssumption DEF Withdrawn
    <3>4. CASE session.selection = Bowling
      BY <1>2, <2>5, <3>1, <3>2, <3>4, BotsAssumption DEF Withdrawn
    <3>. QED BY <1>1, <3>3, <3>4
  <2>. QED BY <1>1, <2>2, <2>3, <2>4, <2>5 DEF Bots
<1>. QED BY <1>5, <1>6, <1>7 DEF BotsInv

\* All of a bot's quotes of the selection are withdrawn.
LEMMA ListedStep ==
  ASSUME BotsInv, Listed
  PROVE  BotsInv'
<1>1. /\ session.phase = "cancel" /\ session.todo = {} /\ session' = Advance(session)
      /\ book' = book /\ bets' = bets /\ round' = round
  BY DEF Listed, Private, vars
<1>2. BotsNeverTrade'
  BY <1>1 DEF BotsInv, BotsNeverTrade
<1>3. BookStep({})
  BY <1>1, BookStays DEF BotsInv
<1>4. /\ DOMAIN session = Fields /\ session.dead \in BOOLEAN /\ session.todo \subseteq BotsOrders
      /\ \A r \in session.pending : OfRound(r)
  BY DEF BotsInv, BotsShape, QuotesOK, Fields
<1>. QED BY <1>1, <1>2, <1>3, <1>4, AdvanceStep

\* The session stays with this bot and selection, while an order is off its list.
LEMMA CancelStep ==
  ASSUME BotsInv, session.phase = "cancel", NEW r \in session.todo,
         DOMAIN session' = Fields, session'.phase = session.phase, session'.bot = session.bot,
         session'.selection = session.selection, session'.score = session.score,
         session'.todo = session.todo \ {r}, session'.pending = {}, session'.dead \in BOOLEAN,
         ~ session'.dead => ~ session.dead /\ book'[r].status = "CANCELLED",
         round' = round, bets' = bets,
         NEW added, BookStep(added), \A q \in added : OfRound(q)
  PROVE  BotsInv'
<1>1. /\ session.bot \in Bots /\ session.selection \in {Batting, Bowling}
      /\ session.score \in Scores /\ UnderWay
  BY DEF BotsInv, BotsShape, UnderWay
<1>2. UnderWay' /\ SameRequote
  BY <1>1 DEF UnderWay, SameRequote
<1>3. BotsShape'
  BY <1>1 DEF BotsInv, BotsShape, BookStep, Fields
<1>4. session.todo \subseteq BotsOrders
  BY DEF BotsInv, QuotesOK
<1>5. /\ QuotesOK'
      /\ \A selection, b : b \in Bots => OldQuotes(selection, b)' \subseteq OldQuotes(selection, b)
  BY <1>1, <1>2, <1>4, QuotesKept DEF BotsInv
<1>6. Withdrawn'
  <2>. SUFFICES ASSUME ~ session'.dead
                PROVE  Withdrawn'
    BY DEF Withdrawn
  <2>1. ~ session.dead /\ Withdrawn
    BY DEF BotsInv
  <2>. PICK sel, bot : sel = session.selection /\ bot = session.bot
    OBVIOUS
  <2>2. OldQuotes(sel, bot)' \subseteq session'.todo
    <3>1. OldQuotes(sel, bot) \subseteq session.todo
      BY <2>1 DEF Withdrawn
    <3>2. r \notin OldQuotes(sel, bot)'
      <4>1. \A q \in OldQuotes(sel, bot)' : book'[q].status \in {"OPEN", "PARTIALLY_MATCHED"}
        BY DEF OldQuotes, Resting
      <4>. QED BY <4>1
    <3>. QED BY <1>1, <1>5, <3>1, <3>2
  <2>3. bot = BotB => OldQuotes(sel, BotA)' = {}
    BY <1>5, <2>1 DEF Withdrawn, Bots
  <2>4. sel = Bowling => \A b \in Bots : OldQuotes(Batting, b)' = {}
    BY <1>1, <1>5, <2>1 DEF Withdrawn
  <2>. QED BY <2>2, <2>3, <2>4 DEF Withdrawn
<1>7. BotsNeverTrade'
  BY DEF BotsInv, BotsNeverTrade
<1>. QED BY <1>3, <1>5, <1>6, <1>7 DEF BotsInv

\* An order is withdrawn, and what earlier calls have left behind is committed.
LEMMA WithdrawStep ==
  ASSUME BotsInv, NEW r \in Requests, Withdraw(r)
  PROVE  BotsInv'
<1>. DEFINE t == session
<1>1. PICK row :
        /\ row = [t.rows[r] EXCEPT !.status = "CANCELLED"]
        /\ book' = [Inserted(t) EXCEPT ![r] = row]
        /\ session' = [t EXCEPT !.todo = @ \ {r}, !.pending = {}]
  BY DEF Withdraw
<1>2. /\ t.phase = "cancel" /\ r \in t.todo /\ ~ t.dead /\ t.rows[r] = book[r]
      /\ bets' = bets /\ round' = round
  BY DEF Withdraw
<1>3. DOMAIN t = Fields /\ t.dead \in BOOLEAN
  BY DEF BotsInv, BotsShape, Fields
<1>4. /\ DOMAIN session' = Fields /\ session'.phase = t.phase /\ session'.bot = t.bot
      /\ session'.selection = t.selection /\ session'.score = t.score
      /\ session'.todo = t.todo \ {r} /\ session'.pending = {} /\ session'.dead = t.dead
  BY <1>1, <1>3 DEF Fields
<1>5. DOMAIN row = {"status", "matched"} /\ row.status = "CANCELLED"
  BY <1>1, <1>2 DEF BotsInv, BotsShape
<1>6. /\ DOMAIN book' = Requests /\ book'[r] = row
      /\ \A q \in Requests : q # r => book'[q] = Inserted(t)[q]
  BY <1>1 DEF Inserted
<1>7. r \in BotsOrders
  BY <1>2 DEF BotsInv, QuotesOK
<1>8. BookStep(t.pending)
  <2>1. ASSUME NEW q \in Requests
        PROVE  /\ DOMAIN book'[q] = {"status", "matched"}
               /\ \/ q = r /\ book'[q] = row
                  \/ q \in t.pending /\ book'[q].status # "ABSENT"
                  \/ book'[q] = book[q]
    BY <1>5, <1>6, InsertedRows DEF BotsInv
  <2>2. ASSUME NEW q \in Requests, q.user \in Bots
        PROVE  /\ book[q].status # "ABSENT" => book'[q].status # "ABSENT"
               /\ book'[q].status # "ABSENT" => book[q].status # "ABSENT" \/ q \in t.pending
               /\ book'[q].status \in {"OPEN", "PARTIALLY_MATCHED"} => Resting(q) \/ q \in t.pending
    BY <1>5, <1>7, <2>1 DEF BotsOrders, Resting
  <2>. QED BY <1>6, <2>1, <2>2 DEF BookStep
<1>9. \A q \in t.pending : OfRound(q)
  BY DEF BotsInv, QuotesOK
<1>. QED BY <1>2, <1>3, <1>4, <1>5, <1>6, <1>8, <1>9, CancelStep

\* An order stays in the book, because the session has failed.
LEMMA KilledStep ==
  ASSUME BotsInv, NEW r \in session.todo, session.phase = "cancel",
         Private([Kill(session) EXCEPT !.todo = @ \ {r}])
  PROVE  BotsInv'
<1>1. /\ session' = [Kill(session) EXCEPT !.todo = @ \ {r}]
      /\ book' = book /\ bets' = bets /\ round' = round
  BY DEF Private, vars
<1>2. DOMAIN session = Fields
  BY DEF BotsInv, BotsShape, Fields
<1>3. /\ DOMAIN session' = Fields /\ session'.phase = session.phase
      /\ session'.bot = session.bot /\ session'.selection = session.selection
      /\ session'.score = session.score /\ session'.todo = session.todo \ {r}
      /\ session'.pending = {} /\ session'.dead = TRUE
  BY <1>1, <1>2 DEF Kill, Fields
<1>4. BookStep({})
  BY <1>1, BookStays DEF BotsInv
<1>. QED BY <1>1, <1>3, <1>4, CancelStep

\* A last order that has changed goes the same way, any other ends the tick.
LEMMA StaleEnds ==
  ASSUME BotsInv, NEW r \in Requests, WithdrawStale(r)
  PROVE  \/ /\ session.phase = "cancel" /\ r \in session.todo
            /\ Private([Kill(session) EXCEPT !.todo = @ \ {r}])
         \/ Private(IdleSession)
<1>1. session.phase = "cancel" /\ r \in session.todo
  BY DEF WithdrawStale
<1>2. CASE session.todo = {r} /\ Private([Kill(session) EXCEPT !.todo = {}])
  <2>1. DOMAIN session = Fields
    BY DEF BotsInv, BotsShape, Fields
  <2>2. Kill(session).todo = session.todo
    BY <2>1 DEF Kill, Fields
  <2>3. [Kill(session) EXCEPT !.todo = @ \ {r}] = [Kill(session) EXCEPT !.todo = {}]
    BY <1>2, <2>2
  <2>. QED BY <1>1, <1>2, <2>3
<1>. QED BY <1>2 DEF WithdrawStale

\* So no attempt to withdraw that fails does harm.
LEMMA FailedWithdrawStep ==
  ASSUME BotsInv, NEW r \in Requests, WithdrawStale(r) \/ WithdrawRaises(r)
  PROVE  BotsInv'
<1>1. CASE WithdrawRaises(r)
  BY <1>1, KilledStep DEF WithdrawRaises
<1>2. CASE WithdrawStale(r)
  BY <1>2, StaleEnds, KilledStep, IdleStep
<1>. QED BY <1>1, <1>2

\* The quote that is due is one of the requote under way.
LEMMA DueOfRound ==
  ASSUME BotsInv, session.phase = "quote"
  PROVE  /\ Due(session).user = session.bot /\ session.bot \in Bots
         /\ session.score \in Scores /\ OfRound(Due(session))
<1>1. /\ session.bot \in Bots /\ session.selection \in {Batting, Bowling}
      /\ session.score \in Scores
  BY DEF BotsInv, BotsShape, UnderWay
<1>2. /\ Due(session) = QuoteOf(round, session.selection, session.bot, session.score)
      /\ Due(session).user = session.bot /\ Due(session).selection = session.selection
  BY DEF Due, QuoteOf
<1>. QED BY <1>1, <1>2 DEF OfRound

\* In a session that lives, what a quote crosses was not quoted by a bot: of the
\* selection only quotes of the same requote still rest.
LEMMA MakersAreUsers ==
  ASSUME BotsInv, session.phase = "quote", ~ session.dead,
         NEW m \in Requests, Compatible(Due(session), m)
  PROVE  m.user \notin Bots
<1>. SUFFICES ASSUME m.user \in Bots
              PROVE  FALSE
  OBVIOUS
<1>. DEFINE r == Due(session)
<1>1. /\ session.bot \in Bots /\ session.score \in Scores /\ UnderWay
      /\ r = QuoteOf(round, session.selection, session.bot, session.score)
      /\ r.selection = session.selection
  BY DueOfRound DEF Due, QuoteOf, UnderWay
<1>2. /\ Resting(m) /\ m.selection = session.selection /\ m.side = Opposite(r.side)
      /\ Crosses(r.side, r.price, m.price)
  BY <1>1 DEF Compatible
<1>3. OldQuotes(session.selection, m.user) = {}
  BY DEF BotsInv, Withdrawn
<1>4. m.key = round
  BY <1>2, <1>3 DEF OldQuotes
<1>5. m \in BotsOrders
  BY <1>2 DEF BotsOrders, Resting
<1>6. m = QuoteOf(round, session.selection, m.user, session.score)
  BY <1>1, <1>2, <1>4, <1>5 DEF BotsInv, QuotesOK, OfRound
<1>. QED BY <1>1, <1>2, <1>6, QuotesApart

\* What a placement leaves of the session.
LEMMA QuotedFields ==
  ASSUME NEW t, DOMAIN t = Fields
  PROVE  LET s == [t EXCEPT !.pending = {}] IN
           /\ DOMAIN s = Fields /\ s.phase = t.phase /\ s.bot = t.bot /\ s.selection = t.selection
           /\ s.score = t.score /\ s.dead = t.dead /\ s.todo = t.todo /\ s.pending = {}
           /\ s.rows = t.rows
  BY DEF Fields

\* A quote is placed and trades with users.
LEMMA QuoteStep ==
  ASSUME BotsInv, Quote
  PROVE  BotsInv'
<1>. DEFINE t == session
            r == Due(session)
<1>1. t.phase = "quote" /\ ~ t.dead /\ round' = round
  BY DEF Quote
<1>2. PICK size \in [{m \in Requests : Compatible(r, m)} -> 0 .. r.stake] : TradeQuote(t, r, size)
  BY DEF Quote
<1>. PICK makers, total : makers = {m \in DOMAIN size : size[m] > 0} /\ total = Traded(size, makers)
  OBVIOUS
<1>3. /\ \A m \in makers : m \in Requests /\ Compatible(r, m)
      /\ bets' = bets \cup {[taker |-> r, maker |-> m, side |-> x, stake |-> size[m]]
                              : m \in makers, x \in Sides}
      /\ session' = Advance([t EXCEPT !.pending = {}])
      /\ book' = [x \in Requests |->
                     CASE x = r -> After(r, total)
                       [] x \in makers -> After(x, size[x])
                       [] OTHER -> Inserted(t)[x]]
  <2>1. \A m \in makers : m \in Requests /\ Compatible(r, m)
    OBVIOUS
  <2>. HIDE DEF r, t
  <2>. QED BY <1>2, <2>1 DEF TradeQuote
<1>4. \A m \in makers : m \in Requests /\ Resting(m) /\ m.user \notin Bots
  BY <1>1, <1>3, MakersAreUsers DEF Compatible
<1>5. /\ r.user = t.bot /\ t.bot \in Bots /\ OfRound(r)
      /\ \A q \in t.pending : OfRound(q)
  BY <1>1, DueOfRound DEF BotsInv, QuotesOK
<1>. HIDE DEF r
<1>6. /\ DOMAIN book' = Requests
      /\ \A q \in Requests : \/ q = r /\ book'[q] = After(r, total)
                             \/ q \in makers /\ book'[q] = After(q, size[q])
                             \/ book'[q] = Inserted(t)[q]
  BY <1>3
<1>7. BookStep(t.pending \cup {r})
  <2>1. ASSUME NEW q \in Requests
        PROVE  /\ DOMAIN book'[q] = {"status", "matched"}
               /\ \/ book'[q] = book[q]
                  \/ q \in t.pending \cup {r} /\ book'[q].status # "ABSENT"
                  \/ Resting(q) /\ book'[q].status # "ABSENT"
    <3>1. CASE q = r /\ book'[q] = After(r, total)
      BY <3>1, AfterRow
    <3>2. CASE q \in makers /\ book'[q] = After(q, size[q])
      BY <1>4, <3>2, AfterRow
    <3>3. CASE book'[q] = Inserted(t)[q]
      BY <3>3, InsertedRows DEF BotsInv
    <3>. QED BY <1>6, <3>1, <3>2, <3>3
  <2>. QED BY <1>6, <2>1, TradeStep
<1>8. BotsNeverTrade'
  <2>. SUFFICES ASSUME NEW b \in bets'
                PROVE  ~ {b.taker.user, b.maker.user} \subseteq Bots
    BY DEF BotsNeverTrade
  <2>1. CASE b \in bets
    BY <2>1 DEF BotsInv, BotsNeverTrade
  <2>2. CASE b \notin bets
    <3>1. PICK m \in makers, x \in Sides :
            b = [taker |-> r, maker |-> m, side |-> x, stake |-> size[m]]
      BY <1>3, <2>2
    <3>2. b.maker = m
      BY <3>1
    <3>. QED BY <1>4, <3>2
  <2>. QED BY <2>1, <2>2
<1>9. DOMAIN t = Fields /\ t.dead \in BOOLEAN /\ t.todo \subseteq BotsOrders
  BY DEF BotsInv, BotsShape, QuotesOK, Fields
<1>10. PICK s : s = [t EXCEPT !.pending = {}] /\ session' = Advance(s)
  BY <1>3
<1>11. /\ DOMAIN s = Fields /\ s.phase = t.phase /\ s.bot = t.bot /\ s.selection = t.selection
       /\ s.score = t.score /\ s.dead = t.dead /\ s.todo = t.todo /\ s.pending = {}
  BY <1>9, <1>10, QuotedFields
<1>12. session' = Advance(s) /\ \A q \in t.pending \cup {r} : OfRound(q)
  BY <1>5, <1>10
<1>. QED BY <1>1, <1>7, <1>8, <1>9, <1>11, <1>12, AdvanceStep

\* A quote that the bot cannot afford leaves its INSERT with the session.
LEMMA QuoteRefusedStep ==
  ASSUME BotsInv, QuoteRefused
  PROVE  BotsInv'
<1>. DEFINE t == session
            r == Due(session)
<1>1. PICK s : s = [t EXCEPT !.pending = @ \cup {r}] /\ session' = Advance(s)
  BY DEF QuoteRefused, Private
<1>2. t.phase = "quote" /\ ~ t.dead /\ book' = book /\ bets' = bets /\ round' = round
  BY DEF QuoteRefused, Private, vars
<1>3. DOMAIN t = Fields /\ t.dead \in BOOLEAN /\ t.todo \subseteq BotsOrders
  BY DEF BotsInv, BotsShape, QuotesOK, Fields
<1>4. /\ DOMAIN s = Fields /\ s.phase = t.phase /\ s.bot = t.bot /\ s.selection = t.selection
      /\ s.score = t.score /\ s.dead = t.dead /\ s.todo = t.todo /\ s.pending = t.pending \cup {r}
  <2>. HIDE DEF r
  <2>. QED BY <1>1, <1>3 DEF Fields
<1>5. \A q \in s.pending : OfRound(q)
  BY <1>2, <1>4, DueOfRound DEF BotsInv, QuotesOK
<1>6. BotsNeverTrade'
  BY <1>2 DEF BotsInv, BotsNeverTrade
<1>7. BookStep({})
  BY <1>2, BookStays DEF BotsInv
<1>. QED BY <1>1, <1>2, <1>3, <1>4, <1>5, <1>6, <1>7, AdvanceStep

\* A quote fails at the flush, and the session dies.
LEMMA QuoteRaisesStep ==
  ASSUME BotsInv, QuoteRaises
  PROVE  BotsInv'
<1>1. /\ session.phase = "quote" /\ session' = Advance(Kill(session))
      /\ book' = book /\ bets' = bets /\ round' = round
  BY DEF QuoteRaises, Private, vars
<1>2. DOMAIN session = Fields /\ session.todo \subseteq BotsOrders
  BY DEF BotsInv, BotsShape, QuotesOK, Fields
<1>3. PICK s : s = Kill(session)
  OBVIOUS
<1>4. /\ DOMAIN s = Fields /\ s.phase = session.phase /\ s.bot = session.bot
      /\ s.selection = session.selection /\ s.score = session.score /\ s.dead = TRUE
      /\ s.todo = session.todo /\ s.pending = {}
  BY <1>2, <1>3 DEF Kill, Fields
<1>5. BotsNeverTrade'
  BY <1>1 DEF BotsInv, BotsNeverTrade
<1>6. BookStep({})
  BY <1>1, BookStays DEF BotsInv
<1>. QED BY <1>1, <1>2, <1>3, <1>4, <1>5, <1>6, AdvanceStep

\* Users trade with the bots; a settlement withdraws what rests.
LEMMA OthersStep ==
  ASSUME BotsInv, Others
  PROVE  BotsInv'
<1>1. session' = session /\ round' = round
  BY DEF Others, botVars
<1>2. BookStep({}) /\ BotsNeverTrade'
  <2>. BotsShape /\ QuotesOK
    BY DEF BotsInv
  <2>1. ASSUME NEW r \in Requests, r.user \notin Bots, Place(r)
        PROVE  BookStep({}) /\ BotsNeverTrade'
    <3>1. PICK size \in [{m \in Requests : Compatible(r, m)} -> 0 .. r.stake] : Trade(r, size)
      BY <2>1 DEF Place
    <3>2. PICK makers, total :
            /\ makers = {m \in DOMAIN size : size[m] > 0}
            /\ book' = [q \in Requests |->
                          CASE q = r -> After(r, total)
                            [] q \in makers -> After(q, size[q])
                            [] OTHER -> book[q]]
            /\ bets' = bets \cup {[taker |-> r, maker |-> m, side |-> x, stake |-> size[m]]
                                    : m \in makers, x \in Sides}
      <4>. PICK makers, total :
             makers = {m \in DOMAIN size : size[m] > 0} /\ total = Traded(size, makers)
        OBVIOUS
      <4>. QED BY <3>1 DEF Trade
    <3>3. \A m \in makers : m \in Requests /\ Resting(m)
      BY <3>2 DEF Compatible
    <3>4. BookStep({})
      <4>1. /\ DOMAIN book' = Requests
            /\ \A q \in Requests : \/ q = r /\ book'[q] = After(r, total)
                                   \/ q \in makers /\ book'[q] = After(q, size[q])
                                   \/ book'[q] = book[q]
        BY <3>2
      <4>2. ASSUME NEW q \in Requests
            PROVE  /\ DOMAIN book'[q] = {"status", "matched"}
                   /\ \/ book'[q] = book[q]
                      \/ Resting(q) /\ book'[q].status # "ABSENT"
                      \/ q.user \notin Bots
        <5>1. CASE q = r /\ book'[q] = After(r, total)
          BY <2>1, <5>1, AfterRow
        <5>2. CASE q \in makers /\ book'[q] = After(q, size[q])
          BY <3>3, <5>2, AfterRow
        <5>3. CASE book'[q] = book[q]
          BY <5>3 DEF BotsShape
        <5>. QED BY <4>1, <5>1, <5>2, <5>3
      <4>. QED BY <4>1, <4>2, TradeStep
    <3>5. BotsNeverTrade'
      <4>. SUFFICES ASSUME NEW b \in bets'
                    PROVE  ~ {b.taker.user, b.maker.user} \subseteq Bots
        BY DEF BotsNeverTrade
      <4>1. CASE b \in bets
        BY <4>1 DEF BotsInv, BotsNeverTrade
      <4>2. CASE b \notin bets
        <5>1. b.taker = r
          BY <3>2, <4>2
        <5>. QED BY <2>1, <5>1
      <4>. QED BY <4>1, <4>2
    <3>. QED BY <3>4, <3>5
  <2>2. ASSUME NEW r \in Requests, Cancel(r)
        PROVE  BookStep({}) /\ BotsNeverTrade'
    <3>1. Resting(r) /\ book' = [book EXCEPT ![r].status = "CANCELLED"] /\ bets' = bets
      BY <2>2 DEF Cancel
    <3>2. \A q \in Requests : IF q = r THEN book'[q] = [book[r] EXCEPT !.status = "CANCELLED"]
                                       ELSE book'[q] = book[q]
      BY <3>1 DEF BotsShape
    <3>3. DOMAIN book' = Requests
      BY <3>1 DEF BotsShape
    <3>. QED BY <3>1, <3>2, <3>3 DEF BookStep, BotsShape, Resting, BotsInv, BotsNeverTrade
  <2>3. ASSUME NEW winner \in Winners, Settle(winner)
        PROVE  BookStep({}) /\ BotsNeverTrade'
    <3>1. PICK rest \in SUBSET {r \in Requests : Resting(r)} :
            book' = [r \in Requests |->
                       IF r \in rest THEN [book[r] EXCEPT !.status = "CANCELLED"] ELSE book[r]]
      BY <2>3 DEF Settle
    <3>2. bets' = bets
      BY <2>3 DEF Settle
    <3>3. \A q \in Requests :
            \/ Resting(q) /\ book'[q] = [book[q] EXCEPT !.status = "CANCELLED"]
            \/ book'[q] = book[q]
      BY <3>1
    <3>4. DOMAIN book' = Requests
      BY <3>1
    <3>. QED BY <3>2, <3>3, <3>4 DEF BookStep, BotsShape, Resting, BotsInv, BotsNeverTrade
  <2>. QED BY <2>1, <2>2, <2>3 DEF Others
<1>3. UnderWay' <=> UnderWay
  BY <1>1 DEF UnderWay
<1>4. BotsShape'
  BY <1>1, <1>2, <1>3, Zenon DEF BotsInv, BotsShape, BookStep
<1>5. /\ QuotesOK'
      /\ \A selection, b : b \in Bots => OldQuotes(selection, b)' \subseteq OldQuotes(selection, b)
  <2>1. SameRequote
    BY <1>1, <1>3 DEF SameRequote
  <2>2. /\ \A r \in session'.pending : UnderWay' /\ OfRound(r)
        /\ session'.todo \subseteq BotsOrders
    BY <1>1, <1>3 DEF BotsInv, QuotesOK
  <2>. QED BY <1>2, <2>1, <2>2, QuotesKept DEF BotsInv
<1>6. Withdrawn'
  <2>. PICK t : t = session
    OBVIOUS
  <2>. SUFFICES ASSUME ~ t.dead
                PROVE  Withdrawn'
    BY <1>1 DEF Withdrawn
  <2>1. t.bot \in Bots /\ t.selection \in {Batting, Bowling} /\ session' = t
    BY <1>1 DEF BotsInv, BotsShape
  <2>2. /\ t.phase = "cancel" => OldQuotes(t.selection, t.bot)' \subseteq t.todo
        /\ t.phase \in {"list", "cancel"} /\ t.bot = BotB => OldQuotes(t.selection, BotA)' = {}
        /\ t.phase \in {"quote", "end"} => \A b \in Bots : OldQuotes(t.selection, b)' = {}
        /\ UnderWay /\ t.selection = Bowling => \A b \in Bots : OldQuotes(Batting, b)' = {}
        /\ t.phase = "end" => \A b \in Bots : OldQuotes(Batting, b)' = {} /\ OldQuotes(Bowling, b)' = {}
    <3>1. BotA \in Bots
      BY DEF Bots
    <3>. QED BY <1>5, <2>1, <3>1 DEF BotsInv, Withdrawn
  <2>. QED BY <1>3, <2>1, <2>2 DEF Withdrawn
<1>. QED BY <1>2, <1>4, <1>5, <1>6 DEF BotsInv

-----------------------------------------------------------------------------
(* The theorems                                                             *)

\* BotsInv is inductive.
LEMMA BotsInvStep == BotsInv /\ [BotsNext]_allVars => BotsInv'
<1>. SUFFICES ASSUME BotsInv, [BotsNext]_allVars
              PROVE  BotsInv'
  OBVIOUS
<1>1. ASSUME NEW score \in Scores, Begin(score)
      PROVE  BotsInv'
  BY <1>1, BeginStep
<1>2. CASE List
  BY <1>2, ListStep
<1>3. CASE ListRaises
  BY <1>3, IdleStep DEF ListRaises
<1>4. CASE Listed
  BY <1>4, ListedStep
<1>5. ASSUME NEW r \in Requests, Withdraw(r) \/ WithdrawStale(r) \/ WithdrawRaises(r)
      PROVE  BotsInv'
  BY <1>5, WithdrawStep, FailedWithdrawStep
<1>6. CASE Quote
  BY <1>6, QuoteStep
<1>7. CASE QuoteRefused
  BY <1>7, QuoteRefusedStep
<1>8. CASE QuoteRaises
  BY <1>8, QuoteRaisesStep
<1>9. CASE EndTick
  BY <1>9, IdleStep DEF EndTick
<1>10. CASE Others
  BY <1>10, OthersStep
<1>11. CASE UNCHANGED allVars
  <2>1. /\ book' = book /\ bets' = bets /\ session' = session /\ round' = round
    BY <1>11 DEF allVars, vars, botVars
  <2>2. BotsShape'
    BY <2>1 DEF BotsInv, BotsShape, UnderWay
  <2>3. QuotesOK'
    BY <2>1 DEF BotsInv, QuotesOK, BotsOrders, UnderWay, OfRound, QuoteOf, QuotePrice, FairPrice
  <2>4. Withdrawn'
    BY <2>1 DEF BotsInv, Withdrawn, OldQuotes, Resting, UnderWay
  <2>5. BotsNeverTrade'
    BY <2>1 DEF BotsInv, BotsNeverTrade
  <2>. QED BY <2>2, <2>3, <2>4, <2>5 DEF BotsInv
<1>. QED BY <1>1, <1>2, <1>3, <1>4, <1>5, <1>6, <1>7, <1>8, <1>9, <1>10, <1>11 DEF BotsNext

\* It always holds.
LEMMA BotsInvariant == BotsSpec => []BotsInv
  BY BotsInvInit, BotsInvStep, PTL DEF BotsSpec

\* The bots never trade with each other, whatever the score, the offset and the
\* stake, and whatever call of a requote fails (SimulationEngine._requote_selection
\* withdraws before it quotes).
THEOREM NoBotTrades == BotsSpec => []BotsNeverTrade
<1>1. BotsInv => BotsNeverTrade
  BY DEF BotsInv
<1>. QED BY <1>1, BotsInvariant, PTL

\* A requote that comes to its end alive leaves no earlier quote of the bots
\* resting (SimulationEngine._requote_all_markets).
THEOREM OldQuotesGone == BotsSpec => []QuotesReplaced
<1>1. BotsInv => QuotesReplaced
  <2>. SUFFICES ASSUME BotsInv, session.phase = "end", ~ session.dead,
                       NEW r \in Requests, r.user \in Bots, Resting(r)
                PROVE  r.key = round
    BY DEF QuotesReplaced
  <2>1. r.selection \in {Batting, Bowling}
    BY DEF BotsInv, QuotesOK, BotsOrders, Resting
  <2>2. OldQuotes(r.selection, r.user) = {}
    BY <2>1 DEF BotsInv, Withdrawn
  <2>. QED BY <2>2 DEF OldQuotes
<1>. QED BY <1>1, BotsInvariant, PTL

-----------------------------------------------------------------------------
(* The inductive invariant behind CoveredIfHeld                             *)

Open == {"OPEN", "PARTIALLY_MATCHED"}
Terminal == {"MATCHED", "CANCELLED"}
Placed == {r \in Requests : book[r].status # "ABSENT"}
PlacedBy(u) == {r \in Placed : r.user = u}
BetsBy(u) == {b \in bets : OrderOf(b).user = u}

\* The tables hold together.
BookOK ==
    /\ IsFiniteSet(Placed) /\ IsFiniteSet(bets)
    /\ \A r \in Requests : /\ book[r].matched \in Nat
                           /\ book[r].status \in Open \cup Terminal \cup {"ABSENT"}
                           /\ book[r].status = "ABSENT" => book[r] = Absent
    /\ \A b \in bets : b.taker \in Placed /\ b.maker \in Placed /\ b.side \in Sides /\ b.stake \in Nat
    /\ settledBets \subseteq bets
    /\ wallets \in [Users -> [balance : Int, reserved : Int]]

\* The requote under way is past the quote r: it has been placed, or refused.
Passed(t, r) ==
    \/ t.phase = "end"
    \/ t.selection = Bowling /\ r.selection = Batting
    \/ t.phase = "quote" /\ r.selection = t.selection /\ t.bot = BotB /\ r.user = BotA

\* What waits to be committed is not in the book yet, and nothing is quoted twice.
\* What is on the list to be cancelled was open when it was read.
PendingOK ==
    /\ IsFiniteSet(session.pending) /\ session.pending \cap Placed = {}
    /\ holds \subseteq Placed
RoundOK ==
    /\ round \in 0 .. MaxRounds /\ (UnderWay => round # 0)
    /\ \A r \in BotsOrders \cup session.pending : UnderWay /\ OfRound(r) => Passed(session, r)
RowsOK ==
    /\ session.phase # "cancel" => session.todo = {}
    /\ \A r \in session.todo : session.rows[r].status \in Open

\* What the rest of an order needs of the reservation, and what a bet needs until it
\* is paid, but for one unit that rounding may cost it.
Slack(side) == IF side = "LAY" THEN 1 ELSE 0
Risk(b) == LiabilityMinor(b.side, b.maker.price, b.stake)
Rests == [r \in Requests |-> IF Resting(r) THEN RestExposure(r) ELSE 0]
Needs == [b \in bets |-> (IF b \in settledBets THEN 0 ELSE Risk(b)) - Slack(b.side)]

\* A bot whose orders all have their holds has reserved what they need.
Covered ==
    \A u \in Bots :
        PlacedBy(u) \subseteq holds
        => wallets[u].reserved >= Total(Rests, PlacedBy(u)) + Total(Needs, BetsBy(u))

CoverInv == BookOK /\ PendingOK /\ RoundOK /\ RowsOK /\ Covered

-----------------------------------------------------------------------------
(* What the orders and the bets of a bot need                               *)

\* Amounts are whole numbers.
LEMMA Amounts ==
  ASSUME BookOK
  PROVE  /\ \A r \in Requests : /\ r.side \in Sides /\ r.price \in Prices /\ r.stake \in Nat
                                /\ Unmatched(r) \in Int /\ RestExposure(r) \in Int
                                /\ Exposure(r) \in Int /\ Rests[r] \in Int
         /\ \A b \in bets : /\ OrderOf(b) \in Requests /\ Slack(b.side) \in {0, 1}
                            /\ Risk(b) \in Int /\ Needs[b] \in Int
<1>1. ASSUME NEW r \in Requests
      PROVE  /\ r.side \in Sides /\ r.price \in Prices /\ r.stake \in Nat
             /\ Unmatched(r) \in Int /\ RestExposure(r) \in Int
             /\ Exposure(r) \in Int /\ Rests[r] \in Int
  <2>1. r.side \in Sides /\ r.price \in Prices /\ r.stake \in Nat
    BY QuotesAssumption
  <2>2. Unmatched(r) \in Int /\ r.stake \in Int
    BY <2>1 DEF BookOK, Unmatched
  <2>3. RestExposure(r) \in Int /\ Exposure(r) \in Int
    BY <2>1, <2>2, LiabilityType DEF RestExposure, Exposure
  <2>. QED BY <2>1, <2>2, <2>3 DEF Rests
<1>2. ASSUME NEW b \in bets
      PROVE  /\ OrderOf(b) \in Requests /\ Slack(b.side) \in {0, 1}
             /\ Risk(b) \in Int /\ Needs[b] \in Int
  <2>1. /\ b.taker \in Requests /\ b.maker \in Requests /\ b.side \in Sides /\ b.stake \in Int
        /\ b.maker.price \in Prices
    BY QuotesAssumption DEF BookOK, Placed
  <2>2. Risk(b) \in Int
    BY <2>1, LiabilityType DEF Risk
  <2>. QED BY <2>1, <2>2 DEF Needs, Slack, OrderOf
<1>. QED BY <1>1, <1>2

\* The same of the next state.
LEMMA AmountsNext == BookOK' => \A r \in Requests : Rests'[r] \in Int
<1>. SUFFICES ASSUME BookOK', NEW r \in Requests
              PROVE  Rests'[r] \in Int
  OBVIOUS
<1>1. r.side \in Sides /\ r.price \in Prices /\ r.stake \in Int /\ book'[r].matched \in Int
  BY QuotesAssumption DEF BookOK
<1>2. RestExposure(r)' = LiabilityMinor(r.side, r.price, r.stake - book'[r].matched)
  BY DEF RestExposure, Unmatched
<1>3. RestExposure(r)' \in Int
  BY <1>1, <1>2, LiabilityType
<1>. QED BY <1>3 DEF Rests

\* So are their sums.
LEMMA Sums ==
  ASSUME BookOK, NEW u
  PROVE  /\ PlacedBy(u) \subseteq Requests /\ BetsBy(u) \subseteq bets
         /\ IsFiniteSet(PlacedBy(u)) /\ IsFiniteSet(BetsBy(u))
         /\ \A S \in SUBSET PlacedBy(u) : Total(Rests, S) \in Int
         /\ \A S \in SUBSET BetsBy(u) : Total(Needs, S) \in Int
<1>1. /\ PlacedBy(u) \subseteq Placed /\ Placed \subseteq Requests /\ BetsBy(u) \subseteq bets
      /\ IsFiniteSet(Placed) /\ IsFiniteSet(bets)
  BY DEF PlacedBy, BetsBy, BookOK, Placed
<1>2. IsFiniteSet(PlacedBy(u)) /\ IsFiniteSet(BetsBy(u))
  BY <1>1, FS_Subset
<1>3. /\ \A S \in SUBSET PlacedBy(u) : IsFiniteSet(S)
      /\ \A S \in SUBSET BetsBy(u) : IsFiniteSet(S)
  BY <1>2, FS_Subset
<1>4. \A S \in SUBSET PlacedBy(u) : Total(Rests, S) \in Int
  <2>. SUFFICES ASSUME NEW S \in SUBSET PlacedBy(u) PROVE Total(Rests, S) \in Int
    OBVIOUS
  <2>1. \A r \in S : Rests[r] \in Int
    BY <1>1, Amounts
  <2>. QED BY <1>3, <2>1, TotalInt
<1>5. \A S \in SUBSET BetsBy(u) : Total(Needs, S) \in Int
  <2>. SUFFICES ASSUME NEW S \in SUBSET BetsBy(u) PROVE Total(Needs, S) \in Int
    OBVIOUS
  <2>1. \A b \in S : Needs[b] \in Int
    BY <1>1, Amounts
  <2>. QED BY <1>3, <2>1, TotalInt
<1>. QED BY <1>1, <1>2, <1>4, <1>5

\* What the rests of orders and the unpaid bets expose, as sums of functions.
RestExposures == [r \in Requests |-> RestExposure(r)]
Risks == [b \in bets |-> Risk(b)]

LEMMA RestsTotal ==
  ASSUME NEW S, S \subseteq Requests
  PROVE  /\ RestReleased(S) = Total(RestExposures, S)
         /\ MapThenSumSet(RestExposure, S) = Total(RestExposures, S)
<1>1. \A s \in SUBSET S : s # {} => RestExposures[Pick(s)] = RestExposure(Pick(s))
  BY PickIn DEF RestExposures
<1>2. \A iter : Unfolds(RestExposures, S, iter) <=>
        iter = [s \in SUBSET S |-> IF s = {} THEN 0 ELSE RestExposure(Pick(s)) + iter[s \ {Pick(s)}]]
  BY <1>1 DEF Unfolds
<1>3. (CHOOSE iter : Unfolds(RestExposures, S, iter)) =
        CHOOSE iter :
          iter = [s \in SUBSET S |-> IF s = {} THEN 0 ELSE RestExposure(Pick(s)) + iter[s \ {Pick(s)}]]
  BY <1>2
<1>4. Total(RestExposures, S) = (CHOOSE iter : Unfolds(RestExposures, S, iter))[S]
  BY TotalIs
<1>5. MapThenSumSet(RestExposure, S) = Total(RestExposures, S)
  BY <1>3, <1>4 DEF MapThenSumSet, MapThenFoldSet, Pick
<1>6. RestReleased(S) = Total(RestExposures, S)
  BY <1>3, <1>4 DEF RestReleased, MapThenSumSet, MapThenFoldSet, Pick
<1>. QED BY <1>5, <1>6

\* What paying bets takes off a reservation: what they risked.
LEMMA UnheldTotal ==
  ASSUME BookOK, NEW S, S \subseteq bets, NEW winner
  PROVE  Unheld(S, winner) = - Total(Risks, S)
<1>. DEFINE f == [b \in bets |-> Paid(b, winner).reserved]
<1>1. \A s \in SUBSET S : s # {} => f[Pick(s)] = Paid(Pick(s), winner).reserved
  BY PickIn
<1>2. \A iter : Unfolds(f, S, iter) <=>
        iter = [s \in SUBSET S |-> IF s = {} THEN 0 ELSE Paid(Pick(s), winner).reserved + iter[s \ {Pick(s)}]]
  <2>. HIDE DEF f
  <2>. QED BY <1>1 DEF Unfolds
<1>3. (CHOOSE iter : Unfolds(f, S, iter)) =
        CHOOSE iter :
          iter = [s \in SUBSET S |-> IF s = {} THEN 0 ELSE Paid(Pick(s), winner).reserved + iter[s \ {Pick(s)}]]
  <2>. HIDE DEF f
  <2>. QED BY <1>2
<1>4. Total(f, S) = (CHOOSE iter : Unfolds(f, S, iter))[S]
  BY TotalIs
<1>5. Unheld(S, winner) = Total(f, S)
  <2>. HIDE DEF f
  <2>. QED BY <1>3, <1>4 DEF Unheld, MapThenSumSet, MapThenFoldSet, Pick
<1>6. IsFiniteSet(S)
  BY FS_Subset DEF BookOK
<1>7. \A b \in S : f[b] = - Risks[b] /\ Risks[b] \in Int /\ f[b] \in Int
  <2>. SUFFICES ASSUME NEW b \in S PROVE f[b] = - Risks[b] /\ Risks[b] \in Int
    OBVIOUS
  <2>1. b \in bets /\ b.side \in Sides
    BY DEF BookOK
  <2>2. Risk(b) \in Int
    BY <2>1, Amounts
  <2>3. Paid(b, winner).reserved = - Risk(b)
    BY <2>1, <2>2 DEF Paid, SettleBetDeltas, Risk, LiabilityMinor, Sides
  <2>. QED BY <2>1, <2>2, <2>3 DEF Risks
<1>. DEFINE none == [b \in bets |-> 0]
<1>8. \A b \in S : none[b] = 0
  OBVIOUS
<1>. HIDE DEF f, none
<1>9. \A b \in S : none[b] = f[b] + Risks[b]
  BY <1>7, <1>8
<1>10. Total(none, S) = Total(f, S) + Total(Risks, S) /\ Total(none, S) = 0
  BY <1>6, <1>7, <1>8, <1>9, TotalPlus, TotalZero
<1>11. Total(f, S) \in Int /\ Total(Risks, S) \in Int
  BY <1>6, <1>7, TotalInt
<1>. QED BY <1>5, <1>10, <1>11

\* What paying bets adds to a balance is a whole number.
LEMMA PayoutInt ==
  ASSUME BookOK, NEW S, S \subseteq bets, NEW winner
  PROVE  Payout(S, winner) \in Int
<1>. DEFINE f == [b \in bets |-> Paid(b, winner).balance]
<1>1. \A s \in SUBSET S : s # {} => f[Pick(s)] = Paid(Pick(s), winner).balance
  BY PickIn
<1>2. \A iter : Unfolds(f, S, iter) <=>
        iter = [s \in SUBSET S |-> IF s = {} THEN 0 ELSE Paid(Pick(s), winner).balance + iter[s \ {Pick(s)}]]
  <2>. HIDE DEF f
  <2>. QED BY <1>1 DEF Unfolds
<1>3. (CHOOSE iter : Unfolds(f, S, iter)) =
        CHOOSE iter :
          iter = [s \in SUBSET S |-> IF s = {} THEN 0 ELSE Paid(Pick(s), winner).balance + iter[s \ {Pick(s)}]]
  <2>. HIDE DEF f
  <2>. QED BY <1>2
<1>4. Total(f, S) = (CHOOSE iter : Unfolds(f, S, iter))[S]
  BY TotalIs
<1>5. Payout(S, winner) = Total(f, S)
  <2>. HIDE DEF f
  <2>. QED BY <1>3, <1>4 DEF Payout, MapThenSumSet, MapThenFoldSet, Pick
<1>6. \A b \in S : f[b] \in Int
  <2>. SUFFICES ASSUME NEW b \in S PROVE Paid(b, winner).balance \in Int
    OBVIOUS
  <2>1. b \in bets /\ b.side \in Sides /\ b.stake \in Nat /\ b.maker.price \in Prices
    BY QuotesAssumption DEF BookOK, Placed
  <2>. PICK won \in BOOLEAN : won = (OrderOf(b).selection = winner)
    OBVIOUS
  <2>2. SettleBetDeltas(b.side, b.maker.price, b.stake, won).balance \in Int
    <3>1. b.stake \in Int
      BY <2>1
    <3>. QED BY <2>1, <3>1, SettleType, Zenon
  <2>. QED BY <2>2 DEF Paid
<1>7. IsFiniteSet(S)
  BY FS_Subset DEF BookOK
<1>. HIDE DEF f
<1>. QED BY <1>5, <1>6, <1>7, TotalInt

\* The unpaid bets' risks, as the property adds them up.
LEMMA RisksTotal ==
  ASSUME BookOK, NEW S, S \subseteq bets
  PROVE  MapThenSumSet(LAMBDA b : IF b.side = "BACK" THEN b.stake
                                  ELSE LiabilityMinor("LAY", b.maker.price, b.stake), S)
           = Total(Risks, S)
<1>. DEFINE e(b) == IF b.side = "BACK" THEN b.stake ELSE LiabilityMinor("LAY", b.maker.price, b.stake)
<1>1. \A s \in SUBSET S : s # {} => Risks[Pick(s)] = e(Pick(s))
  <2>1. \A b \in bets : Risks[b] = e(b)
    BY DEF Risks, Risk, LiabilityMinor, BookOK, Sides
  <2>. HIDE DEF e
  <2>. QED BY <2>1, PickIn
<1>2. \A iter : Unfolds(Risks, S, iter) <=>
        iter = [s \in SUBSET S |-> IF s = {} THEN 0 ELSE e(Pick(s)) + iter[s \ {Pick(s)}]]
  <2>. HIDE DEF e
  <2>. QED BY <1>1 DEF Unfolds
<1>3. (CHOOSE iter : Unfolds(Risks, S, iter)) =
        CHOOSE iter :
          iter = [s \in SUBSET S |-> IF s = {} THEN 0 ELSE e(Pick(s)) + iter[s \ {Pick(s)}]]
  <2>. HIDE DEF e
  <2>. QED BY <1>2
<1>4. Total(Risks, S) = (CHOOSE iter : Unfolds(Risks, S, iter))[S]
  BY TotalIs
<1>5. MapThenSumSet(e, S) = Total(Risks, S)
  <2>. HIDE DEF e
  <2>. QED BY <1>3, <1>4 DEF MapThenSumSet, MapThenFoldSet, Pick
<1>. QED BY <1>5

-----------------------------------------------------------------------------
(* Orders withdrawn and bets paid                                           *)

\* Resting orders are cancelled, unpaid bets paid, and what earlier calls have left
\* behind is committed.
Resolves(rest, found, fresh) ==
    /\ rest \subseteq {r \in Requests : Resting(r)} /\ found \subseteq bets \ settledBets
    /\ fresh \subseteq Requests /\ IsFiniteSet(fresh) /\ fresh \cap Placed = {}
    /\ \A r \in Requests : /\ r \in rest => book'[r] = [book[r] EXCEPT !.status = "CANCELLED"]
                           /\ r \in fresh => book'[r] = OpenRow
                           /\ r \notin rest \cup fresh => book'[r] = book[r]
    /\ bets' = bets /\ settledBets' = settledBets \cup found
    /\ wallets' \in [Users -> [balance : Int, reserved : Int]]

\* The tables stay in order.
LEMMA ResolvedBook ==
  ASSUME BotsShape, BookOK, NEW rest, NEW found, NEW fresh, Resolves(rest, found, fresh)
  PROVE  /\ BookOK' /\ Placed' = Placed \cup fresh
         /\ \A r \in Requests : /\ r \in rest => book'[r].status = "CANCELLED"
                                /\ book[r].status \in Terminal => book'[r] = book[r]
<1>1. \A r \in rest : /\ r \in Placed /\ book[r].status \in Open
                      /\ book'[r].status = "CANCELLED" /\ book'[r].matched = book[r].matched
  <2>. SUFFICES ASSUME NEW r \in rest
                PROVE  /\ r \in Placed /\ book[r].status \in Open
                       /\ book'[r].status = "CANCELLED" /\ book'[r].matched = book[r].matched
    OBVIOUS
  <2>1. r \in Requests /\ book[r].status \in {"OPEN", "PARTIALLY_MATCHED"}
    BY DEF Resolves, Resting
  <2>2. book'[r] = [book[r] EXCEPT !.status = "CANCELLED"] /\ DOMAIN book[r] = {"status", "matched"}
    BY <2>1 DEF Resolves, BotsShape
  <2>. QED BY <2>1, <2>2 DEF Placed, Open
<1>2. \A r \in fresh : r \in Requests /\ book'[r].status = "OPEN" /\ book'[r].matched = 0
  <2>1. \A r \in fresh : r \in Requests /\ book'[r] = OpenRow
    BY DEF Resolves
  <2>2. OpenRow.status = "OPEN" /\ OpenRow.matched = 0
    BY DEF OpenRow
  <2>. QED BY <2>1, <2>2
<1>3. \A r \in Requests : r \notin rest \cup fresh => book'[r] = book[r]
  BY DEF Resolves
<1>4. Placed' = Placed \cup fresh
  BY <1>1, <1>2, <1>3 DEF Placed
<1>5. IsFiniteSet(Placed') /\ IsFiniteSet(bets') /\ bets' = bets /\ settledBets' \subseteq bets'
  <2>1. IsFiniteSet(Placed \cup fresh)
    BY FS_Union DEF Resolves, BookOK
  <2>. QED BY <1>4, <2>1 DEF Resolves, BookOK
<1>6. ASSUME NEW r \in Requests
      PROVE  /\ book'[r].matched \in Nat
             /\ book'[r].status \in Open \cup Terminal \cup {"ABSENT"}
             /\ book'[r].status = "ABSENT" => book'[r] = Absent
             /\ book[r].status \in Terminal => book'[r] = book[r]
  <2>1. CASE r \in rest
    BY <1>1, <2>1 DEF BookOK, Terminal, Open
  <2>2. CASE r \in fresh
    BY <1>2, <2>2 DEF Open, Resolves, Placed, Terminal
  <2>3. CASE r \notin rest \cup fresh
    BY <1>3, <2>3 DEF BookOK
  <2>. QED BY <2>1, <2>2, <2>3
<1>7. \A b \in bets' : b.taker \in Placed' /\ b.maker \in Placed' /\ b.side \in Sides /\ b.stake \in Nat
  BY <1>4, <1>5 DEF BookOK
<1>8. BookOK'
  BY <1>5, <1>6, <1>7 DEF BookOK, Resolves
<1>. QED BY <1>1, <1>4, <1>6, <1>8

\* The orders that are cancelled and the bets that are paid need nothing any more,
\* the others what they needed.
LEMMA ResolvedNeeds ==
  ASSUME BotsShape, BookOK, NEW rest, NEW found, NEW fresh, Resolves(rest, found, fresh), NEW u
  PROVE  /\ Total(RestExposures, {r \in rest : r.user = u}) \in Int
         /\ Total(Risks, {b \in found : OrderOf(b).user = u}) \in Int
         /\ Total(Rests, PlacedBy(u)) = Total(Rests', PlacedBy(u))
                                          + Total(RestExposures, {r \in rest : r.user = u})
         /\ Total(Needs, BetsBy(u)) = Total(Needs', BetsBy(u))
                                        + Total(Risks, {b \in found : OrderOf(b).user = u})
         /\ Total(Rests', PlacedBy(u)) \in Int /\ Total(Needs', BetsBy(u)) \in Int
<1>. DEFINE withdrawn == {r \in rest : r.user = u}
            paid == {b \in found : OrderOf(b).user = u}
            P == PlacedBy(u)
            B == BetsBy(u)
            cut == [r \in Requests |-> IF r \in withdrawn THEN RestExposures[r] ELSE 0]
            drop == [b \in bets |-> IF b \in paid THEN Risks[b] ELSE 0]
<1>1. /\ P \subseteq Requests /\ B \subseteq bets /\ IsFiniteSet(P) /\ IsFiniteSet(B)
  BY Sums
<1>2. withdrawn \subseteq P
  BY DEF Resolves, PlacedBy, Placed, Resting
<1>3. paid \subseteq B
  BY DEF Resolves, BetsBy
<1>4. ASSUME NEW r \in P
      PROVE  /\ Rests'[r] \in Int /\ cut[r] \in Int /\ Rests[r] = Rests'[r] + cut[r]
             /\ r \in withdrawn => RestExposures[r] \in Int
  <2>1. r \in Requests /\ r \in Placed /\ r.user = u
    BY DEF PlacedBy, Placed
  <2>2. /\ RestExposure(r) \in Int /\ Rests[r] \in Int /\ RestExposures[r] = RestExposure(r)
        /\ Rests[r] = IF Resting(r) THEN RestExposure(r) ELSE 0
    BY <2>1, Amounts DEF RestExposures, Rests
  <2>3. Rests'[r] = IF Resting(r)' THEN RestExposure(r)' ELSE 0
    BY <2>1 DEF Rests
  <2>4. CASE r \in rest
    <3>1. Resting(r) /\ ~ Resting(r)' /\ r \in withdrawn
      BY <2>1, <2>4, ResolvedBook DEF Resolves, Resting
    <3>. QED BY <2>1, <2>2, <2>3, <3>1
  <2>5. CASE r \notin rest
    <3>1. book'[r] = book[r]
      BY <2>1, <2>5 DEF Resolves
    <3>2. (Resting(r)' <=> Resting(r)) /\ RestExposure(r)' = RestExposure(r) /\ r \notin withdrawn
      BY <2>5, <3>1 DEF Resting, RestExposure, Unmatched
    <3>. QED BY <2>1, <2>2, <2>3, <3>2
  <2>. QED BY <2>4, <2>5
<1>5. ASSUME NEW b \in B
      PROVE  /\ Needs'[b] \in Int /\ drop[b] \in Int /\ Needs[b] = Needs'[b] + drop[b]
             /\ b \in paid => Risks[b] \in Int
  <2>1. b \in bets /\ bets' = bets /\ OrderOf(b).user = u
    BY DEF BetsBy, Resolves
  <2>2. Slack(b.side) \in {0, 1} /\ Risk(b) \in Int /\ Needs[b] \in Int /\ Risks[b] = Risk(b)
    BY <2>1, Amounts DEF Risks
  <2>3. /\ Needs[b] = (IF b \in settledBets THEN 0 ELSE Risk(b)) - Slack(b.side)
        /\ Needs'[b] = (IF b \in settledBets \cup found THEN 0 ELSE Risk(b)) - Slack(b.side)
    BY <2>1 DEF Needs, Resolves
  <2>4. b \in found => b \notin settledBets /\ b \in paid
    BY <2>1 DEF Resolves
  <2>. HIDE DEF B
  <2>. QED BY <2>1, <2>2, <2>3, <2>4
<1>6. \A r \in P : cut[r] = IF r \in withdrawn THEN RestExposures[r] ELSE 0
  BY <1>1
<1>7. \A b \in B : drop[b] = IF b \in paid THEN Risks[b] ELSE 0
  BY <1>1
<1>. HIDE DEF cut, drop, withdrawn, paid, P, B
<1>8. \A r \in withdrawn : RestExposures[r] \in Int
  BY <1>2, <1>4
<1>9. \A b \in paid : Risks[b] \in Int
  BY <1>3, <1>5
<1>10. Total(Rests, P) = Total(Rests', P) + Total(cut, P)
  BY <1>1, <1>4, TotalPlus
<1>11. Total(Needs, B) = Total(Needs', B) + Total(drop, B)
  BY <1>1, <1>5, TotalPlus
<1>12. Total(cut, P) = Total(RestExposures, withdrawn)
  BY <1>1, <1>2, <1>6, <1>8, TotalOn
<1>13. Total(drop, B) = Total(Risks, paid)
  BY <1>1, <1>3, <1>7, <1>9, TotalOn
<1>14. /\ Total(cut, P) \in Int /\ Total(drop, B) \in Int
       /\ Total(Rests', P) \in Int /\ Total(Needs', B) \in Int
  BY <1>1, <1>4, <1>5, TotalInt
<1>. QED BY <1>10, <1>11, <1>12, <1>13, <1>14 DEF withdrawn, paid, P, B

\* A bot that is still held has released no more than that.
LEMMA ResolvedCovered ==
  ASSUME BotsShape, BookOK, Covered, holds \subseteq Placed, holds' = holds,
         NEW rest, NEW found, NEW fresh, Resolves(rest, found, fresh),
         \A u \in Bots : wallets'[u].reserved = wallets[u].reserved
            - Total(Risks, {b \in found : OrderOf(b).user = u})
            - Total(RestExposures, {r \in rest : r.user = u})
  PROVE  Covered'
<1>. SUFFICES ASSUME NEW u \in Bots, PlacedBy(u)' \subseteq holds
              PROVE  wallets'[u].reserved >= Total(Rests, PlacedBy(u))' + Total(Needs, BetsBy(u))'
  BY DEF Covered
<1>1. PlacedBy(u)' = PlacedBy(u)
  <2>1. PlacedBy(u)' = PlacedBy(u) \cup {r \in fresh : r.user = u}
    BY ResolvedBook DEF PlacedBy
  <2>2. {r \in fresh : r.user = u} \subseteq Placed
    BY <2>1
  <2>. QED BY <2>1, <2>2 DEF Resolves
<1>2. BetsBy(u)' = BetsBy(u)
  BY DEF BetsBy, Resolves
<1>3. wallets[u].reserved >= Total(Rests, PlacedBy(u)) + Total(Needs, BetsBy(u))
  BY <1>1 DEF Covered
<1>4. wallets[u].reserved \in Int
  BY QuotesAssumption DEF BookOK
<1>5. PICK x, y, v, w, p, q \in Int :
        /\ x = Total(RestExposures, {r \in rest : r.user = u})
        /\ y = Total(Risks, {b \in found : OrderOf(b).user = u})
        /\ v = Total(Rests', PlacedBy(u)) /\ w = Total(Needs', BetsBy(u))
        /\ p = Total(Rests, PlacedBy(u)) /\ q = Total(Needs, BetsBy(u))
        /\ p = v + x /\ q = w + y
  <2>1. Total(Rests, PlacedBy(u)) \in Int /\ Total(Needs, BetsBy(u)) \in Int
    BY Sums
  <2>2. /\ Total(RestExposures, {r \in rest : r.user = u}) \in Int
        /\ Total(Risks, {b \in found : OrderOf(b).user = u}) \in Int
        /\ Total(Rests, PlacedBy(u)) = Total(Rests', PlacedBy(u))
                                         + Total(RestExposures, {r \in rest : r.user = u})
        /\ Total(Needs, BetsBy(u)) = Total(Needs', BetsBy(u))
                                       + Total(Risks, {b \in found : OrderOf(b).user = u})
        /\ Total(Rests', PlacedBy(u)) \in Int /\ Total(Needs', BetsBy(u)) \in Int
    BY ResolvedNeeds
  <2>. QED BY <2>1, <2>2, Zenon
<1>6. wallets'[u].reserved = wallets[u].reserved - y - x
  BY <1>5
<1>7. wallets'[u].reserved >= v + w
  BY <1>3, <1>4, <1>5, <1>6
<1>. QED BY <1>1, <1>2, <1>5, <1>7

-----------------------------------------------------------------------------
(* Orders matched                                                           *)

\* r is placed and trades size[m] with each of the makers m, and what earlier calls
\* have left behind is committed.
Trades(r, makers, size, fresh) ==
    /\ r \in Requests \ Placed
    /\ makers \subseteq {m \in Requests : Compatible(r, m)}
    /\ \A m \in makers : size[m] \in Nat
    /\ Total(size, makers) <= r.stake
    /\ fresh \subseteq Requests /\ IsFiniteSet(fresh) /\ fresh \cap Placed = {} /\ r \notin fresh
    /\ \A q \in Requests : /\ q = r => book'[q] = After(q, Total(size, makers))
                           /\ q \in makers => book'[q] = After(q, size[q])
                           /\ q \in fresh => book'[q] = OpenRow
                           /\ q \notin makers \cup fresh \cup {r} => book'[q] = book[q]
    /\ bets' = bets \cup {[taker |-> r, maker |-> m, side |-> x, stake |-> size[m]]
                            : m \in makers, x \in Sides}
    /\ settledBets' = settledBets
    /\ wallets' \in [Users -> [balance : Int, reserved : Int]]

\* A row that is matched further.
LEMMA AfterFields ==
  ASSUME NEW r, NEW size, book[r].matched \in Int, size \in Int, r.stake \in Int
  PROVE  /\ After(r, size).matched = book[r].matched + size
         /\ After(r, size).status \in {"MATCHED", "PARTIALLY_MATCHED", "OPEN"}
         /\ After(r, size).status = "MATCHED" <=> book[r].matched + size = r.stake
<1>. DEFINE matched == book[r].matched + size
            c == CASE matched = r.stake -> "MATCHED"
                   [] matched > 0 /\ matched < r.stake -> "PARTIALLY_MATCHED"
                   [] OTHER -> "OPEN"
<1>1. After(r, size) = [status |-> c, matched |-> matched]
  BY DEF After
<1>2. c \in {"MATCHED", "PARTIALLY_MATCHED", "OPEN"}
  OBVIOUS
<1>3. matched = r.stake => c = "MATCHED"
  OBVIOUS
<1>4. matched # r.stake => c \in {"PARTIALLY_MATCHED", "OPEN"}
  OBVIOUS
<1>. HIDE DEF c, matched
<1>5. After(r, size).matched = matched /\ After(r, size).status = c
  BY <1>1
<1>. QED BY <1>2, <1>3, <1>4, <1>5 DEF matched

\* Who trades.
LEMMA Traders ==
  ASSUME BookOK, NEW r, NEW makers, NEW size, NEW fresh, Trades(r, makers, size, fresh)
  PROVE  /\ makers \subseteq Placed /\ IsFiniteSet(makers) /\ r \notin makers
         /\ r \in Requests /\ book[r] = Absent
         /\ Total(size, makers) \in Nat /\ Total(size, makers) <= r.stake
         /\ \A m \in makers : /\ m \in Requests /\ Resting(m) /\ m.side = Opposite(r.side)
                              /\ Crosses(r.side, r.price, m.price) /\ size[m] \in Nat
<1>1. \A m \in makers : /\ m \in Requests /\ Resting(m) /\ m.side = Opposite(r.side)
                        /\ Crosses(r.side, r.price, m.price) /\ size[m] \in Nat
  BY DEF Trades, Compatible
<1>2. makers \subseteq Placed
  BY <1>1 DEF Placed, Resting
<1>3. r \in Requests /\ book[r].status = "ABSENT"
  BY DEF Trades, Placed
<1>4. IsFiniteSet(makers)
  BY <1>2, FS_Subset DEF BookOK
<1>5. Total(size, makers) \in Nat
  BY <1>1, <1>4, TotalNat
<1>6. r \notin makers
  BY <1>2 DEF Trades
<1>. QED BY <1>1, <1>2, <1>3, <1>4, <1>5, <1>6 DEF BookOK, Trades

\* The fills of the makers, on one side.
Fills(r, makers, size, side) ==
    [m \in makers |-> [taker |-> r, maker |-> m, side |-> side, stake |-> size[m]]]
FillsOf(r, makers, size, side) == {Fills(r, makers, size, side)[m] : m \in makers}
SomeFills(r, makers, size, side, M) == {Fills(r, makers, size, side)[m] : m \in M}

LEMMA FillFields ==
  ASSUME NEW r, NEW makers, NEW size, NEW side, NEW m \in makers
  PROVE  LET b == Fills(r, makers, size, side)[m]
         IN  b.taker = r /\ b.maker = m /\ b.side = side /\ b.stake = size[m]
  BY DEF Fills

\* What is new among the bets.
LEMMA NewBets ==
  ASSUME BookOK, NEW r, NEW makers, NEW size, NEW fresh, Trades(r, makers, size, fresh)
  PROVE  /\ bets' = bets \cup FillsOf(r, makers, size, r.side)
                         \cup FillsOf(r, makers, size, Opposite(r.side))
         /\ r.side \in Sides /\ Opposite(r.side) \in Sides /\ Opposite(r.side) # r.side
         /\ \A side : FillsOf(r, makers, size, side) \cap bets = {}
         /\ \A side : IsFiniteSet(FillsOf(r, makers, size, side))
<1>1. r.side \in Sides /\ Opposite(r.side) \in Sides /\ Opposite(r.side) # r.side
  BY QuotesAssumption, Traders DEF Opposite, Sides
<1>2. Sides = {r.side, Opposite(r.side)}
  BY <1>1 DEF Sides, Opposite
<1>3. bets' = bets \cup FillsOf(r, makers, size, r.side) \cup FillsOf(r, makers, size, Opposite(r.side))
  BY <1>2 DEF Trades, FillsOf, Fills
<1>4. ASSUME NEW side
      PROVE  FillsOf(r, makers, size, side) \cap bets = {}
  <2>1. \A b \in FillsOf(r, makers, size, side) : b.taker = r
    BY FillFields DEF FillsOf
  <2>2. \A b \in bets : b.taker \in Placed
    BY DEF BookOK
  <2>. QED BY <2>1, <2>2 DEF Trades
<1>5. ASSUME NEW side
      PROVE  IsFiniteSet(FillsOf(r, makers, size, side))
  <2>. DEFINE f == [m \in makers |-> 0]
              g == [b \in FillsOf(r, makers, size, side) |-> 0]
              name == Fills(r, makers, size, side)
  <2>1. \A m \in makers : name[m].maker = m
    BY FillFields
  <2>2. FillsOf(r, makers, size, side) = {name[m] : m \in makers}
    BY DEF FillsOf
  <2>3. Renamed(name, makers, f, FillsOf(r, makers, size, side), g)
    <3>. HIDE DEF name
    <3>. QED BY <2>1, <2>2 DEF Renamed
  <2>. HIDE DEF name, f, g
  <2>. QED BY <2>3, Traders, TotalRenamed
<1>. QED BY <1>1, <1>3, <1>4, <1>5

\* The tables stay in order.
LEMMA TradedBook ==
  ASSUME BookOK, NEW r, NEW makers, NEW size, NEW fresh, Trades(r, makers, size, fresh)
  PROVE  /\ BookOK' /\ Placed' = Placed \cup {r} \cup fresh
         /\ \A q \in Requests : book[q].status \in Terminal => book'[q] = book[q]
<1>1. /\ book'[r].matched \in Nat /\ book'[r].status \in {"MATCHED", "PARTIALLY_MATCHED", "OPEN"}
      /\ r \in Requests /\ book[r].status = "ABSENT"
  <2>1. book'[r] = After(r, Total(size, makers)) /\ book[r].matched = 0
    <3>1. r \in Requests /\ book[r] = Absent
      BY Traders
    <3>2. book'[r] = After(r, Total(size, makers))
      BY <3>1 DEF Trades
    <3>. QED BY <3>1, <3>2 DEF Absent
  <2>2. r \in Requests /\ r.stake \in Int /\ Total(size, makers) \in Nat /\ book[r].status = "ABSENT"
    BY QuotesAssumption, Traders DEF Absent
  <2>. QED BY <2>1, <2>2, AfterFields
<1>2. \A m \in makers : /\ m \in Requests /\ book[m].status \in Open /\ book'[m].matched \in Nat
                        /\ book'[m].status \in {"MATCHED", "PARTIALLY_MATCHED", "OPEN"}
  <2>. SUFFICES ASSUME NEW m \in makers
                PROVE  /\ m \in Requests /\ book[m].status \in Open /\ book'[m].matched \in Nat
                       /\ book'[m].status \in {"MATCHED", "PARTIALLY_MATCHED", "OPEN"}
    OBVIOUS
  <2>1. m \in Requests /\ Resting(m) /\ size[m] \in Nat
    BY Traders
  <2>2. book'[m] = After(m, size[m]) /\ book[m].matched \in Nat /\ m.stake \in Int
    BY <2>1, QuotesAssumption DEF Trades, BookOK
  <2>. QED BY <2>1, <2>2, AfterFields DEF Resting, Open
<1>3. \A q \in fresh : /\ q \in Requests /\ q \notin Placed
                       /\ book'[q].status = "OPEN" /\ book'[q].matched = 0
  <2>1. \A q \in fresh : q \in Requests /\ q \notin Placed /\ book'[q] = OpenRow
    BY DEF Trades
  <2>2. OpenRow.status = "OPEN" /\ OpenRow.matched = 0
    BY DEF OpenRow
  <2>. QED BY <2>1, <2>2
<1>4. \A q \in Requests : q \notin makers \cup fresh \cup {r} => book'[q] = book[q]
  BY DEF Trades
<1>5. Placed' = Placed \cup {r} \cup fresh
  BY <1>1, <1>2, <1>3, <1>4, Traders DEF Placed
<1>6. IsFiniteSet(Placed') /\ IsFiniteSet(bets')
  <2>1. IsFiniteSet(Placed \cup {r})
    BY FS_AddElement DEF BookOK
  <2>2. IsFiniteSet(fresh)
    BY DEF Trades
  <2>3. IsFiniteSet((Placed \cup {r}) \cup fresh)
    BY <2>1, <2>2, FS_Union
  <2>4. IsFiniteSet(bets)
    BY DEF BookOK
  <2>5. IsFiniteSet(bets \cup FillsOf(r, makers, size, r.side))
    BY <2>4, NewBets, FS_Union
  <2>6. IsFiniteSet(bets')
    <3>1. IsFiniteSet(FillsOf(r, makers, size, Opposite(r.side)))
      BY NewBets
    <3>2. IsFiniteSet((bets \cup FillsOf(r, makers, size, r.side))
                        \cup FillsOf(r, makers, size, Opposite(r.side)))
      BY <2>5, <3>1, FS_Union
    <3>. QED BY <3>2, NewBets
  <2>. QED BY <1>5, <2>3, <2>6
<1>7. ASSUME NEW q \in Requests
      PROVE  /\ book'[q].matched \in Nat
             /\ book'[q].status \in Open \cup Terminal \cup {"ABSENT"}
             /\ book'[q].status = "ABSENT" => book'[q] = Absent
             /\ book[q].status \in Terminal => book'[q] = book[q]
  <2>1. CASE q = r
    BY <1>1, <2>1 DEF Open, Terminal
  <2>2. CASE q \in makers
    BY <1>2, <2>2 DEF Open, Terminal
  <2>3. CASE q \in fresh
    BY <1>3, <2>3 DEF Open, Terminal, Placed
  <2>4. CASE q \notin makers \cup fresh \cup {r}
    BY <1>4, <2>4 DEF BookOK
  <2>. QED BY <2>1, <2>2, <2>3, <2>4
<1>8. ASSUME NEW b \in bets'
      PROVE  b.taker \in Placed' /\ b.maker \in Placed' /\ b.side \in Sides /\ b.stake \in Nat
  <2>1. CASE b \in bets
    BY <1>5, <2>1 DEF BookOK
  <2>2. CASE b \notin bets
    <3>1. PICK m \in makers, x \in Sides :
            b = [taker |-> r, maker |-> m, side |-> x, stake |-> size[m]]
      BY <2>2 DEF Trades
    <3>2. m \in Placed /\ size[m] \in Nat
      BY Traders
    <3>. QED BY <1>5, <3>1, <3>2
  <2>. QED BY <2>1, <2>2
<1>9. settledBets' \subseteq bets'
  BY DEF Trades, BookOK
<1>10. BookOK'
  BY <1>6, <1>7, <1>8, <1>9 DEF BookOK, Trades
<1>. QED BY <1>5, <1>7, <1>10

\* What rounding may cost a bet is within its slack.
LEMMA SlackWithin ==
  ASSUME NEW side \in Sides, NEW price \in Prices
  PROVE  Slack(side) \in {0, 1} /\ Within(side, price, Slack(side))
  BY RoundedOnce DEF Slack, Sides

\* What the bets of these fills need, on one side.
FillNeeds(makers, size, side) ==
    [m \in makers |-> LiabilityMinor(side, m.price, size[m]) - Slack(side)]

\* A maker's rest needs less by at least what its new bet needs.
LEMMA MakersNeed ==
  ASSUME BookOK, NEW r, NEW makers, NEW size, NEW fresh, Trades(r, makers, size, fresh),
         NEW m \in makers
  PROVE  /\ Rests'[m] \in Int /\ FillNeeds(makers, size, Opposite(r.side))[m] \in Int
         /\ Rests'[m] + FillNeeds(makers, size, Opposite(r.side))[m] <= Rests[m]
<1>1. m \in Requests /\ Resting(m) /\ m.side = Opposite(r.side) /\ size[m] \in Nat
  BY Traders
<1>2. /\ m.side \in Sides /\ m.price \in Prices /\ m.stake \in Int /\ Unmatched(m) \in Int
      /\ book[m].matched \in Int /\ Unmatched(m) = m.stake - book[m].matched
  BY <1>1, Amounts DEF BookOK, Unmatched
<1>. PICK a \in Int, n \in Int : a = Unmatched(m) /\ n = size[m]
  BY <1>1, <1>2
<1>3. Slack(m.side) \in {0, 1} /\ Within(m.side, m.price, Slack(m.side))
  BY <1>2, SlackWithin
<1>4. /\ LiabilityMinor(m.side, m.price, a - n) + (LiabilityMinor(m.side, m.price, n) - Slack(m.side))
            <= LiabilityMinor(m.side, m.price, a)
      /\ \A x \in {a, n, a - n} : LiabilityMinor(m.side, m.price, x) \in Int
  BY <1>2, <1>3, SplitDues
<1>5. Rests[m] = LiabilityMinor(m.side, m.price, a)
  BY <1>1 DEF Rests, RestExposure
<1>6. Rests'[m] = LiabilityMinor(m.side, m.price, a - n)
  <2>1. book'[m] = After(m, size[m])
    BY <1>1 DEF Trades
  <2>2. /\ book'[m].matched = book[m].matched + n
        /\ book'[m].status \in {"MATCHED", "PARTIALLY_MATCHED", "OPEN"}
        /\ book'[m].status = "MATCHED" <=> book[m].matched + n = m.stake
    BY <1>2, <2>1, AfterFields
  <2>3. Rests'[m] = IF Resting(m)' THEN LiabilityMinor(m.side, m.price, m.stake - book'[m].matched) ELSE 0
    BY <1>1 DEF Rests, RestExposure, Unmatched
  <2>4. m.stake - book'[m].matched = a - n
    BY <1>2, <2>2
  <2>5. CASE Resting(m)'
    BY <2>3, <2>4, <2>5
  <2>6. CASE ~ Resting(m)'
    <3>1. book'[m].status = "MATCHED"
      BY <2>2, <2>6 DEF Resting
    <3>2. a - n = 0
      BY <1>2, <2>2, <3>1
    <3>3. LiabilityMinor(m.side, m.price, 0) = 0
      BY <1>2, <1>3, NothingAtRisk
    <3>. QED BY <2>3, <2>6, <3>2, <3>3
  <2>. QED BY <2>5, <2>6
<1>7. FillNeeds(makers, size, Opposite(r.side))[m] = LiabilityMinor(m.side, m.price, n) - Slack(m.side)
  BY <1>1 DEF FillNeeds
<1>8. PICK x, y, z \in Int : /\ x = LiabilityMinor(m.side, m.price, a)
                             /\ y = LiabilityMinor(m.side, m.price, n)
                             /\ z = LiabilityMinor(m.side, m.price, a - n)
  BY <1>4
<1>. QED BY <1>3, <1>4, <1>5, <1>6, <1>7, <1>8

\* A new order's rest and its bets need no more than its exposure.
LEMMA TakersNeed ==
  ASSUME BookOK, NEW r, NEW makers, NEW size, NEW fresh, Trades(r, makers, size, fresh)
  PROVE  /\ Rests'[r] \in Int /\ \A m \in makers : FillNeeds(makers, size, r.side)[m] \in Int
         /\ Rests'[r] + Total(FillNeeds(makers, size, r.side), makers) <= Exposure(r)
<1>. DEFINE need == FillNeeds(makers, size, r.side)
            price == [m \in makers |-> m.price]
            total == Total(size, makers)
            L(n) == LiabilityMinor(r.side, r.price, n)
<1>1. /\ r \in Requests /\ r.side \in Sides /\ r.price \in Prices /\ r.stake \in Nat
      /\ book[r].matched = 0 /\ IsFiniteSet(makers) /\ total \in Nat /\ total <= r.stake
  <2>1. r \in Requests /\ book[r] = Absent
    BY Traders
  <2>. QED BY <2>1, Amounts, Traders DEF Absent
<1>2. Slack(r.side) \in {0, 1} /\ Within(r.side, r.price, Slack(r.side))
  BY <1>1, SlackWithin
<1>3. ASSUME NEW m \in makers
      PROVE  /\ size[m] \in Nat /\ price[m] \in Prices /\ Crosses(r.side, r.price, price[m])
             /\ Within(r.side, price[m], Slack(r.side))
             /\ need[m] = LiabilityMinor(r.side, price[m], size[m]) - Slack(r.side)
  <2>1. m \in Requests /\ Crosses(r.side, r.price, m.price) /\ size[m] \in Nat
    BY Traders
  <2>2. m.price \in Prices
    BY <2>1, Amounts
  <2>3. Within(r.side, m.price, Slack(r.side))
    BY <1>1, <2>2, SlackWithin
  <2>. QED BY <2>1, <2>2, <2>3 DEF FillNeeds
<1>. HIDE DEF need, price
<1>4. /\ Total(need, makers) \in Int /\ \A m \in makers : need[m] \in Int
      /\ L(r.stake - total) + Total(need, makers) <= L(r.stake)
  <2>1. PICK t : t = total
    OBVIOUS
  <2>. HIDE DEF total
  <2>2. /\ Total(need, makers) \in Int /\ \A m \in makers : need[m] \in Int
        /\ LiabilityMinor(r.side, r.price, r.stake - t) + Total(need, makers)
              <= LiabilityMinor(r.side, r.price, r.stake)
    <3>1. t \in Int /\ t = Total(size, makers) /\ t <= r.stake
      BY <1>1, <2>1 DEF total
    <3>2. FairFills(r.side, r.price, Slack(r.side), makers, size, price, need)
      BY <1>3 DEF FairFills
    <3>. QED BY <1>1, <1>2, <3>1, <3>2, FreshDues
  <2>. QED BY <2>1, <2>2
<1>5. Rests'[r] = L(r.stake - total)
  <2>1. book'[r] = After(r, total)
    BY <1>1 DEF Trades
  <2>2. total \in Int /\ r.stake \in Int
    BY <1>1
  <2>. HIDE DEF total
  <2>3. /\ book'[r].matched = total
        /\ book'[r].status \in {"MATCHED", "PARTIALLY_MATCHED", "OPEN"}
        /\ book'[r].status = "MATCHED" <=> total = r.stake
    BY <1>1, <2>1, <2>2, AfterFields
  <2>4. Rests'[r] = IF Resting(r)' THEN L(r.stake - book'[r].matched) ELSE 0
    BY <1>1 DEF Rests, RestExposure, Unmatched
  <2>5. CASE Resting(r)'
    BY <2>3, <2>4, <2>5
  <2>6. CASE ~ Resting(r)'
    <3>1. r.stake - total = 0
      BY <2>2, <2>3, <2>6 DEF Resting
    <3>2. L(0) = 0
      BY <1>1, <1>2, NothingAtRisk
    <3>. QED BY <2>4, <2>6, <3>1, <3>2
  <2>. QED BY <2>5, <2>6
<1>6. L(r.stake - total) \in Int
  BY <1>1, LiabilityType
<1>. QED BY <1>4, <1>5, <1>6 DEF need, Exposure

\* The fills of some of the makers, on one side, need what was said.
LEMMA FillsNeed ==
  ASSUME BookOK, NEW r, NEW makers, NEW size, NEW fresh, Trades(r, makers, size, fresh),
         NEW side \in {r.side, Opposite(r.side)}, NEW M, M \subseteq makers
  PROVE  /\ IsFiniteSet(SomeFills(r, makers, size, side, M))
         /\ SomeFills(r, makers, size, side, M) \subseteq bets' \ bets
         /\ \A b \in SomeFills(r, makers, size, side, M) : Needs'[b] \in Int
         /\ Total(Needs', SomeFills(r, makers, size, side, M)) = Total(FillNeeds(makers, size, side), M)
         /\ Total(FillNeeds(makers, size, side), M) \in Int
<1>. DEFINE name == Fills(r, makers, size, side)
            need == FillNeeds(makers, size, side)
            fills == {name[m] : m \in M}
<1>1. fills \subseteq FillsOf(r, makers, size, side) /\ FillsOf(r, makers, size, side) \subseteq bets'
  BY NewBets DEF FillsOf
<1>2. fills \cap bets = {}
  BY <1>1, NewBets
<1>3. side \in Sides /\ IsFiniteSet(M)
  BY NewBets, Traders, FS_Subset
<1>4. ASSUME NEW m \in M
      PROVE  /\ name[m].maker = m /\ need[m] \in Int /\ Needs'[name[m]] = need[m]
  <2>1. /\ m \in Requests /\ size[m] \in Nat /\ m.price \in Prices
    BY Traders, Amounts
  <2>2. LiabilityMinor(side, m.price, size[m]) \in Int /\ Slack(side) \in {0, 1}
    BY <1>3, <2>1, LiabilityType DEF Slack
  <2>3. need[m] = LiabilityMinor(side, m.price, size[m]) - Slack(side)
    BY DEF FillNeeds
  <2>4. name[m].maker = m /\ name[m].side = side /\ name[m].stake = size[m]
    BY FillFields
  <2>5. name[m] \in bets' /\ name[m] \notin settledBets'
    BY <1>1, <1>2 DEF Trades, BookOK
  <2>6. Needs'[name[m]] = Risk(name[m]) - Slack(name[m].side)
    <3>1. PICK b : b = name[m]
      OBVIOUS
    <3>2. b \in bets' /\ b \notin settledBets'
      BY <2>5, <3>1
    <3>. HIDE DEF name
    <3>3. Needs'[b] = (IF b \in settledBets' THEN 0 ELSE Risk(b)) - Slack(b.side)
      BY <3>2 DEF Needs, Risk
    <3>. QED BY <3>1, <3>2, <3>3
  <2>7. Risk(name[m]) = LiabilityMinor(side, m.price, size[m])
    BY <2>4 DEF Risk
  <2>. HIDE DEF name, need
  <2>. QED BY <2>2, <2>3, <2>4, <2>6, <2>7
<1>. HIDE DEF name, need
<1>5. Renamed(name, M, need, fills, Needs')
  BY <1>4 DEF Renamed
<1>. HIDE DEF fills
<1>6. IsFiniteSet(fills) /\ Total(Needs', fills) = Total(need, M) /\ \A b \in fills : Needs'[b] \in Int
  BY <1>3, <1>5, TotalRenamed
<1>7. Total(need, M) \in Int
  BY <1>3, <1>4, TotalInt
<1>. QED BY <1>1, <1>2, <1>6, <1>7 DEF fills, name, need, SomeFills

\* What the orders placed before need less, their new bets need at most.
LEMMA RestsTraded ==
  ASSUME BookOK, NEW r, NEW makers, NEW size, NEW fresh, Trades(r, makers, size, fresh), NEW u
  PROVE  /\ Total(Rests', PlacedBy(u)) \in Int
         /\ Total(Rests', PlacedBy(u))
              + Total(FillNeeds(makers, size, Opposite(r.side)), {m \in makers : m.user = u})
              <= Total(Rests, PlacedBy(u))
<1>. DEFINE P == PlacedBy(u)
            M == {m \in makers : m.user = u}
            gain == FillNeeds(makers, size, Opposite(r.side))
            more == [q \in Requests |-> IF q \in M THEN gain[q] ELSE 0]
            both == [q \in Requests |-> Rests'[q] + more[q]]
<1>1. P \subseteq Requests /\ IsFiniteSet(P) /\ M \subseteq P
  BY Sums, Traders DEF PlacedBy
<1>2. ASSUME NEW q \in P
      PROVE  /\ Rests'[q] \in Int /\ more[q] \in Int /\ Rests[q] \in Int
             /\ both[q] = Rests'[q] + more[q] /\ both[q] <= Rests[q]
             /\ more[q] = IF q \in M THEN gain[q] ELSE 0
             /\ q \in M => gain[q] \in Int
  <2>1. q \in Requests /\ q \in Placed /\ q.user = u /\ Rests[q] \in Int
    BY <1>1, Amounts DEF PlacedBy
  <2>2. CASE q \in makers
    <3>1. /\ Rests'[q] \in Int /\ gain[q] \in Int /\ Rests'[q] + gain[q] <= Rests[q]
      BY <2>2, MakersNeed
    <3>2. q \in M
      BY <2>1, <2>2
    <3>. HIDE DEF gain, M
    <3>. QED BY <2>1, <3>1, <3>2
  <2>3. CASE q \notin makers
    <3>1. book'[q] = book[q]
      BY <2>1, <2>3 DEF Trades
    <3>2. Rests'[q] = Rests[q]
      BY <2>1, <3>1 DEF Rests, Resting, RestExposure, Unmatched
    <3>3. q \notin M
      BY <2>3
    <3>. HIDE DEF gain, M
    <3>. QED BY <2>1, <3>2, <3>3
  <2>. QED BY <2>2, <2>3
<1>. HIDE DEF both, more, P, M, gain
<1>3. Total(both, P) = Total(Rests', P) + Total(more, P)
  BY <1>1, <1>2, TotalPlus
<1>4. Total(more, P) = Total(gain, M)
  <2>1. \A q \in M : gain[q] \in Int
    BY <1>1, <1>2
  <2>. QED BY <1>1, <1>2, <2>1, TotalOn
<1>5. /\ Total(both, P) \in Int /\ Total(Rests, P) \in Int
      /\ Total(Rests', P) \in Int /\ Total(more, P) \in Int
  <2>1. \A q \in P : both[q] \in Int
    BY <1>2
  <2>. QED BY <1>1, <1>2, <2>1, TotalInt
<1>6. Total(both, P) * 1 <= Total(Rests, P) * 1
  <2>1. \A q \in P : both[q] \in Int /\ Rests[q] \in Int /\ both[q] * 1 <= Rests[q] * 1
    BY <1>2
  <2>2. 1 \in Int
    OBVIOUS
  <2>. QED BY <1>1, <2>1, <2>2, TotalBound
<1>. QED BY <1>3, <1>4, <1>5, <1>6 DEF P, M, gain

\* The bets of a user after the trade: those from before, and his new ones.
LEMMA NeedsTraded ==
  ASSUME BookOK, NEW r, NEW makers, NEW size, NEW fresh, Trades(r, makers, size, fresh), NEW u
  PROVE  Total(Needs', BetsBy(u)')
           = Total(Needs, BetsBy(u))
             + Total(FillNeeds(makers, size, Opposite(r.side)), {m \in makers : m.user = u})
             + (IF r.user = u THEN Total(FillNeeds(makers, size, r.side), makers) ELSE 0)
<1>. DEFINE M == {m \in makers : m.user = u}
            opposite == Opposite(r.side)
            A == SomeFills(r, makers, size, opposite, M)
            T == IF r.user = u THEN makers ELSE {}
            B == SomeFills(r, makers, size, r.side, T)
            old == BetsBy(u)
<1>1. opposite # r.side /\ M \subseteq makers /\ T \subseteq makers
  BY NewBets
<1>2. /\ IsFiniteSet(A) /\ A \subseteq bets' \ bets /\ \A b \in A : Needs'[b] \in Int
      /\ Total(Needs', A) = Total(FillNeeds(makers, size, opposite), M)
      /\ Total(FillNeeds(makers, size, opposite), M) \in Int
  <2>1. opposite \in {r.side, Opposite(r.side)}
    OBVIOUS
  <2>. HIDE DEF opposite, M
  <2>. QED BY <1>1, <2>1, FillsNeed
<1>3. /\ IsFiniteSet(B) /\ B \subseteq bets' \ bets /\ \A b \in B : Needs'[b] \in Int
      /\ Total(Needs', B) = Total(FillNeeds(makers, size, r.side), T)
      /\ Total(FillNeeds(makers, size, r.side), T) \in Int
  <2>1. r.side \in {r.side, Opposite(r.side)}
    OBVIOUS
  <2>. HIDE DEF T
  <2>. QED BY <1>1, <2>1, FillsNeed
<1>4. /\ \A m \in makers : OrderOf(Fills(r, makers, size, opposite)[m]) = m
      /\ \A m \in makers : OrderOf(Fills(r, makers, size, r.side)[m]) = r
  <2>. SUFFICES ASSUME NEW m \in makers
                PROVE  /\ OrderOf(Fills(r, makers, size, opposite)[m]) = m
                       /\ OrderOf(Fills(r, makers, size, r.side)[m]) = r
    OBVIOUS
  <2>1. \A x : LET b == Fills(r, makers, size, x)[m]
               IN  b.taker = r /\ b.maker = m /\ b.side = x
    BY FillFields
  <2>. HIDE DEF opposite
  <2>. QED BY <1>1, <2>1 DEF OrderOf
<1>5. BetsBy(u)' = (old \cup A) \cup B
  <2>1. ASSUME NEW b \in bets', OrderOf(b).user = u
        PROVE  b \in (old \cup A) \cup B
    <3>1. CASE b \in bets
      BY <2>1, <3>1 DEF BetsBy
    <3>2. CASE b \in FillsOf(r, makers, size, r.side)
      <4>1. PICK m \in makers : b = Fills(r, makers, size, r.side)[m]
        BY <3>2 DEF FillsOf
      <4>2. r.user = u
        BY <1>4, <2>1, <4>1
      <4>. QED BY <4>1, <4>2 DEF SomeFills
    <3>3. CASE b \in FillsOf(r, makers, size, opposite)
      <4>1. PICK m \in makers : b = Fills(r, makers, size, opposite)[m]
        BY <3>3 DEF FillsOf
      <4>2. m.user = u
        BY <1>4, <2>1, <4>1
      <4>. QED BY <4>1, <4>2 DEF SomeFills
    <3>. QED BY <3>1, <3>2, <3>3, NewBets
  <2>2. \A b \in A : OrderOf(b).user = u
    BY <1>4 DEF SomeFills
  <2>3. \A b \in B : OrderOf(b).user = u
    BY <1>4 DEF SomeFills
  <2>4. \A b \in old : b \in bets' /\ OrderOf(b).user = u
    BY DEF BetsBy, Trades
  <2>5. \A b : b \in BetsBy(u)' <=> b \in bets' /\ OrderOf(b).user = u
    BY DEF BetsBy
  <2>. HIDE DEF A, B, old
  <2>. QED BY <1>2, <1>3, <2>1, <2>2, <2>3, <2>4, <2>5
<1>6. A \cap B = {}
  <2>1. \A b \in A : b.side = opposite
    BY FillFields DEF SomeFills
  <2>2. \A b \in B : b.side = r.side
    BY FillFields DEF SomeFills
  <2>. HIDE DEF A, B
  <2>. QED BY <1>1, <2>1, <2>2
<1>7. old \subseteq bets /\ IsFiniteSet(old) /\ \A b \in old : Needs[b] \in Int /\ Needs'[b] = Needs[b]
  <2>1. old \subseteq bets /\ IsFiniteSet(old)
    BY Sums
  <2>2. \A b \in old : Needs[b] \in Int
    BY <2>1, Amounts
  <2>3. ASSUME NEW b \in old PROVE Needs'[b] = Needs[b]
    <3>1. b \in bets /\ b \in bets'
      BY <2>1 DEF Trades
    <3>2. settledBets' = settledBets
      BY DEF Trades
    <3>. HIDE DEF old
    <3>. QED BY <3>1, <3>2 DEF Needs, Risk
  <2>. HIDE DEF old
  <2>. QED BY <2>1, <2>2, <2>3
<1>8. (T = makers /\ r.user = u) \/ (T = {} /\ r.user # u)
  OBVIOUS
<1>. HIDE DEF A, B, old, T, M, opposite
<1>9. Total(Needs', old) = Total(Needs, old) /\ Total(Needs, old) \in Int
  BY <1>7, TotalSame, TotalInt
<1>10. /\ IsFiniteSet(old \cup A) /\ old \cap A = {} /\ (old \cup A) \cap B = {}
       /\ \A b \in (old \cup A) \cup B : Needs'[b] \in Int
  BY <1>2, <1>3, <1>6, <1>7, FS_Union
<1>11. Total(Needs', old \cup A) = Total(Needs', old) + Total(Needs', A)
  <2>1. \A b \in old \cup A : Needs'[b] \in Int
    BY <1>10
  <2>. QED BY <1>2, <1>7, <1>10, <2>1, TotalUnion
<1>12. Total(Needs', (old \cup A) \cup B) = Total(Needs', old \cup A) + Total(Needs', B)
  <2>1. PICK C : C = old \cup A
    OBVIOUS
  <2>2. IsFiniteSet(C) /\ C \cap B = {} /\ \A b \in C \cup B : Needs'[b] \in Int
    BY <1>10, <2>1
  <2>3. Total(Needs', C \cup B) = Total(Needs', C) + Total(Needs', B)
    BY <1>3, <2>2, TotalUnion
  <2>. QED BY <2>1, <2>3
<1>13. Total(Needs', B) = IF r.user = u THEN Total(FillNeeds(makers, size, r.side), makers) ELSE 0
  <2>1. CASE T = makers /\ r.user = u
    BY <1>3, <2>1
  <2>2. CASE T = {} /\ r.user # u
    BY <1>3, <2>2, TotalEmpty
  <2>. QED BY <1>8, <2>1, <2>2
<1>. QED BY <1>2, <1>5, <1>9, <1>11, <1>12, <1>13 DEF M, opposite, old

\* A bot that is still held has reserved what its new order and its bets need.
LEMMA TradedCovered ==
  ASSUME BookOK, Covered, holds \subseteq Placed,
         NEW r, NEW makers, NEW size, NEW fresh, Trades(r, makers, size, fresh),
         holds \subseteq holds', holds' \subseteq holds \cup {r},
         \A u \in Bots : wallets'[u].reserved
                           = wallets[u].reserved + (IF r.user = u THEN Exposure(r) ELSE 0)
  PROVE  Covered'
<1>. SUFFICES ASSUME NEW u \in Bots, PlacedBy(u)' \subseteq holds'
              PROVE  wallets'[u].reserved >= Total(Rests, PlacedBy(u))' + Total(Needs, BetsBy(u))'
  BY DEF Covered
<1>. DEFINE P == PlacedBy(u)
            gain == Total(FillNeeds(makers, size, Opposite(r.side)), {m \in makers : m.user = u})
            cost == Total(FillNeeds(makers, size, r.side), makers)
<1>1. r \in Requests /\ r \notin Placed /\ r \notin fresh /\ fresh \cap Placed = {}
  BY DEF Trades
<1>2. PlacedBy(u)' = IF r.user = u THEN P \cup {r} ELSE P
  <2>1. Placed' = Placed \cup {r} \cup fresh
    BY TradedBook
  <2>2. \A q \in fresh : q.user # u
    <3>1. \A q \in fresh : q \notin holds'
      BY <1>1
    <3>2. \A q \in fresh : q.user = u => q \in PlacedBy(u)'
      BY <2>1 DEF PlacedBy
    <3>. QED BY <3>1, <3>2
  <2>3. PlacedBy(u)' = {q \in Placed' : q.user = u}
    BY DEF PlacedBy
  <2>. QED BY <2>1, <2>2, <2>3 DEF PlacedBy
<1>3. P \subseteq holds
  <2>1. P \subseteq PlacedBy(u)' /\ r \notin P
    BY <1>1, <1>2 DEF PlacedBy
  <2>. QED BY <2>1
<1>4. wallets[u].reserved >= Total(Rests, P) + Total(Needs, BetsBy(u)) /\ wallets[u].reserved \in Int
  BY <1>3, QuotesAssumption DEF Covered, BookOK
<1>5. /\ Total(Rests', P) \in Int /\ gain \in Int /\ Total(Rests, P) \in Int /\ Total(Needs, BetsBy(u)) \in Int
      /\ Total(Rests', P) + gain <= Total(Rests, P)
  <2>1. Total(Rests, P) \in Int /\ Total(Needs, BetsBy(u)) \in Int
    BY Sums
  <2>2. gain \in Int
    <3>1. {m \in makers : m.user = u} \subseteq makers /\ Opposite(r.side) \in {r.side, Opposite(r.side)}
      OBVIOUS
    <3>. QED BY <3>1, FillsNeed
  <2>. QED BY <2>1, <2>2, RestsTraded
<1>6. Total(Needs', BetsBy(u)') = Total(Needs, BetsBy(u)) + gain + (IF r.user = u THEN cost ELSE 0)
  BY NeedsTraded
<1>7. Rests'[r] \in Int /\ cost \in Int /\ Exposure(r) \in Int /\ Rests'[r] + cost <= Exposure(r)
  <2>1. cost \in Int
    <3>1. makers \subseteq makers /\ r.side \in {r.side, Opposite(r.side)}
      OBVIOUS
    <3>. QED BY <3>1, FillsNeed
  <2>2. Exposure(r) \in Int
    BY <1>1, Amounts
  <2>. QED BY <2>1, <2>2, TakersNeed
<1>8. r.user = u => Total(Rests', P \cup {r}) = Total(Rests', P) + Rests'[r]
  <2>1. IsFiniteSet(P) /\ r \notin P /\ P \cup {r} \subseteq Requests
    BY <1>1, Sums DEF PlacedBy
  <2>2. \A q \in P \cup {r} : Rests'[q] \in Int
    <3>1. BookOK'
      BY TradedBook
    <3>2. \A q \in Requests : Rests'[q] \in Int
      BY <3>1, AmountsNext
    <3>. QED BY <2>1, <3>2
  <2>. HIDE DEF P
  <2>. QED BY <2>1, <2>2, TotalAdd
<1>9. Total(Rests, PlacedBy(u))' = Total(Rests', PlacedBy(u)') /\ Total(Needs, BetsBy(u))' = Total(Needs', BetsBy(u)')
  OBVIOUS
<1>. HIDE DEF P, gain, cost
<1>10. CASE r.user = u
  <2>1. wallets'[u].reserved = wallets[u].reserved + Exposure(r)
    BY <1>10
  <2>2. Total(Rests', PlacedBy(u)') = Total(Rests', P) + Rests'[r]
    BY <1>2, <1>8, <1>10
  <2>3. Total(Needs', BetsBy(u)') = Total(Needs, BetsBy(u)) + gain + cost
    BY <1>6, <1>10
  <2>. QED BY <1>4, <1>5, <1>7, <1>9, <2>1, <2>2, <2>3
<1>11. CASE r.user # u
  <2>1. wallets'[u].reserved = wallets[u].reserved + 0
    BY <1>11
  <2>2. Total(Rests', PlacedBy(u)') = Total(Rests', P)
    BY <1>2, <1>11
  <2>3. Total(Needs', BetsBy(u)') = Total(Needs, BetsBy(u)) + gain + 0
    BY <1>6, <1>11
  <2>. QED BY <1>4, <1>5, <1>9, <2>1, <2>2, <2>3
<1>. QED BY <1>10, <1>11

-----------------------------------------------------------------------------
(* The course of a requote: nothing is quoted twice                         *)

\* The quotes of a requote are requests.
LEMMA QuotesRequested ==
  ASSUME BotsInv, RoundOK, UnderWay, NEW r, OfRound(r)
  PROVE  r \in Requests /\ r.user \in Bots /\ r.selection \in {Batting, Bowling}
<1>1. round \in 1 .. MaxRounds
  BY QuotesAssumption DEF RoundOK
<1>2. session.score \in Scores
  BY DEF BotsInv, BotsShape
<1>. QED BY <1>1, <1>2, QuotesAssumption DEF OfRound

\* What is due has not been passed, and so is neither placed nor waiting.
LEMMA DueIsNew ==
  ASSUME BotsInv, RoundOK, session.phase = "quote"
  PROVE  /\ Due(session) \in Requests \ Placed /\ Due(session) \notin session.pending
         /\ Due(session).user = session.bot /\ session.bot \in Bots
<1>. PICK r : r = Due(session)
  OBVIOUS
<1>1. /\ r.user = session.bot /\ session.bot \in Bots /\ OfRound(r) /\ UnderWay
      /\ r.selection = session.selection
  BY DueOfRound DEF UnderWay, Due, QuoteOf
<1>2. r \in Requests
  BY <1>1, QuotesRequested
<1>3. ~ Passed(session, r)
  BY <1>1, BotsAssumption DEF Passed
<1>4. r \notin BotsOrders \cup session.pending
  BY <1>1, <1>3 DEF RoundOK
<1>5. r \notin Placed
  BY <1>1, <1>2, <1>4 DEF BotsOrders, Placed
<1>. QED BY <1>1, <1>2, <1>4, <1>5

\* What is passed stays passed, and what was due is passed.
LEMMA AdvancePasses ==
  ASSUME BotsInv, NEW t, DOMAIN t = Fields, session' = Advance(t),
         session.phase \in {"cancel", "quote"}, t.phase = session.phase, t.bot = session.bot,
         t.selection = session.selection,
         NEW r, r.selection \in {Batting, Bowling}, r.user \in Bots,
         Passed(session, r) \/ (session.phase = "quote" /\ r = Due(session))
  PROVE  Passed(session', r)
<1>. PICK s, sel : s = session' /\ sel = session.selection
  OBVIOUS
<1>1. session.bot \in Bots /\ sel \in {Batting, Bowling}
  BY DEF BotsInv, BotsShape
<1>2. /\ t.bot = BotA => s.bot = BotB /\ s.selection = sel /\ s.phase = IF t.phase = "cancel" THEN "list" ELSE t.phase
      /\ t.bot = BotB /\ t.phase = "cancel" => s.bot = BotA /\ s.selection = sel /\ s.phase = "quote"
      /\ t.bot = BotB /\ t.phase = "quote" /\ sel = Batting =>
            s.bot = BotA /\ s.selection = Bowling /\ s.phase = "list"
      /\ t.bot = BotB /\ t.phase = "quote" /\ sel # Batting =>
            s.bot = BotB /\ s.selection = sel /\ s.phase = "end"
  BY <1>1, Advanced
<1>3. CASE Passed(session, r)
  <2>1. \/ sel = Bowling /\ r.selection = Batting
        \/ session.phase = "quote" /\ r.selection = sel /\ t.bot = BotB /\ r.user = BotA
    BY <1>3 DEF Passed
  <2>. QED BY <1>1, <1>2, <2>1, BotsAssumption DEF Passed, Bots
<1>4. CASE session.phase = "quote" /\ r = Due(session)
  <2>1. r.user = t.bot /\ r.selection = sel
    BY <1>4 DEF Due, QuoteOf
  <2>. QED BY <1>1, <1>2, <1>4, <2>1, BotsAssumption DEF Passed, Bots
<1>. QED BY <1>3, <1>4

\* So nothing is quoted twice, if what is new was due.
LEMMA RoundKept ==
  ASSUME BotsInv, RoundOK, SameRequote, NEW added,
         BotsOrders' \cup session'.pending \subseteq BotsOrders \cup session.pending \cup added,
         \A r : /\ UnderWay' /\ OfRound(r)
                /\ r \in added \/ Passed(session, r)
                => Passed(session', r)
  PROVE  RoundOK'
<1>1. round' = round /\ (UnderWay' => UnderWay)
  BY DEF SameRequote
<1>2. ASSUME NEW r \in BotsOrders' \cup session'.pending, UnderWay', OfRound(r)'
      PROVE  Passed(session', r)
  <2>1. OfRound(r)
    BY <1>2, OfRoundKept
  <2>2. r \in added \/ Passed(session, r)
    BY <1>1, <1>2, <2>1 DEF RoundOK
  <2>. QED BY <1>2, <2>1, <2>2
<1>3. \A r \in BotsOrders' \cup session'.pending : UnderWay' /\ OfRound(r)' => Passed(session', r)
  BY <1>2
<1>4. round' \in 0 .. MaxRounds /\ (UnderWay' => round' # 0)
  BY <1>1 DEF RoundOK
<1>. QED BY <1>3, <1>4 DEF RoundOK, Passed

\* A step that touches no table.
LEMMA TablesKept ==
  ASSUME BookOK, Covered, UNCHANGED <<vars, holds>>
  PROVE  /\ BookOK' /\ Covered' /\ Placed' = Placed /\ BotsOrders' = BotsOrders /\ book' = book
         /\ \A S : S \cap Placed = {} <=> S \cap Placed' = {}
<1>1. /\ book' = book /\ bets' = bets /\ settledBets' = settledBets /\ wallets' = wallets
      /\ holds' = holds
  BY DEF vars
<1>2. Placed' = Placed /\ BotsOrders' = BotsOrders
  BY <1>1 DEF Placed, BotsOrders
<1>3. BookOK'
  BY <1>1, <1>2 DEF BookOK
<1>4. Covered'
  <2>1. /\ Rests' = Rests /\ Needs' = Needs
        /\ \A u : PlacedBy(u)' = PlacedBy(u) /\ BetsBy(u)' = BetsBy(u)
    BY <1>1, <1>2 DEF Rests, Resting, RestExposure, Unmatched, Needs, Risk, PlacedBy, BetsBy
  <2>2. ASSUME NEW u \in Bots, PlacedBy(u) \subseteq holds
        PROVE  wallets[u].reserved >= Total(Rests, PlacedBy(u)) + Total(Needs, BetsBy(u))
    BY <2>2 DEF Covered
  <2>3. \A u : /\ Total(Rests, PlacedBy(u))' = Total(Rests, PlacedBy(u))
               /\ Total(Needs, BetsBy(u))' = Total(Needs, BetsBy(u))
    BY <2>1
  <2>. QED BY <1>1, <2>1, <2>2, <2>3 DEF Covered
<1>. QED BY <1>1, <1>2, <1>3, <1>4

-----------------------------------------------------------------------------
(* Every step preserves CoverInv                                            *)

\* An idle session has nothing in hand.
LEMMA IdleFields ==
  /\ IdleSession.phase = "idle" /\ IdleSession.todo = {} /\ IdleSession.pending = {}
  /\ DOMAIN IdleSession = Fields
  /\ IdleSession.selection = Batting
  BY DEF IdleSession, Fields

\* Nothing has been reserved, and nothing is needed.
LEMMA CoverInit == BotsInit => CoverInv
<1>. SUFFICES ASSUME BotsInit
              PROVE  CoverInv
  OBVIOUS
<1>1. /\ book = [r \in Requests |-> Absent] /\ bets = {} /\ settledBets = {} /\ holds = {} /\ round = 0
      /\ wallets = [u \in Users |-> [balance |-> Grant, reserved |-> 0]] /\ session = IdleSession
  BY DEF BotsInit, Init
<1>2. Absent.status = "ABSENT" /\ Absent.matched = 0 /\ "ABSENT" \notin Terminal
  BY DEF Absent, Terminal
<1>3. Placed = {} /\ BotsOrders = {} /\ IsFiniteSet({})
  BY <1>1, <1>2, FS_EmptySet DEF Placed, BotsOrders
<1>4. BookOK
  <2>1. wallets \in [Users -> [balance : Int, reserved : Int]]
    <3>1. Grant \in Int
      BY QuotesAssumption
    <3>. QED BY <1>1, <3>1
  <2>. QED BY <1>1, <1>2, <1>3, <2>1 DEF BookOK
<1>5. ~ UnderWay /\ session.pending = {}
  BY <1>1, IdleFields DEF UnderWay
<1>6. PendingOK /\ RoundOK
  <2>1. round \in 0 .. MaxRounds
    BY <1>1, QuotesAssumption
  <2>. QED BY <1>1, <1>3, <1>5, <2>1 DEF PendingOK, RoundOK
<1>7. RowsOK
  BY <1>1, IdleFields DEF RowsOK
<1>8. Covered
  <2>. SUFFICES ASSUME NEW u \in Bots
                PROVE  wallets[u].reserved >= Total(Rests, PlacedBy(u)) + Total(Needs, BetsBy(u))
    BY DEF Covered
  <2>1. PlacedBy(u) = {} /\ BetsBy(u) = {}
    BY <1>1, <1>3 DEF PlacedBy, BetsBy
  <2>2. wallets[u].reserved = 0
    BY <1>1, QuotesAssumption
  <2>. QED BY <2>1, <2>2, TotalEmpty
<1>. QED BY <1>4, <1>6, <1>7, <1>8 DEF CoverInv

\* The tick is done.
LEMMA IdleCovers ==
  ASSUME BotsInv, CoverInv, Private(IdleSession)
  PROVE  CoverInv'
<1>1. UNCHANGED <<vars, holds>> /\ round' = round /\ session' = IdleSession
  BY DEF Private
<1>2. BookOK' /\ Covered' /\ Placed' = Placed /\ holds' = holds
  BY <1>1, TablesKept DEF CoverInv
<1>3. session'.todo = {} /\ session'.pending = {}
  BY <1>1, IdleFields
<1>4. ~ UnderWay'
  BY <1>1, IdleFields DEF UnderWay
<1>5. PendingOK'
  BY <1>2, <1>3, FS_EmptySet DEF CoverInv, PendingOK
<1>6. RoundOK'
  BY <1>1, <1>4 DEF CoverInv, RoundOK
<1>7. RowsOK'
  BY <1>3 DEF RowsOK
<1>. QED BY <1>2, <1>5, <1>6, <1>7 DEF CoverInv

\* A requote begins: nothing of it is in the book.
LEMMA BeginCovers ==
  ASSUME BotsInv, CoverInv, NEW score \in Scores, Begin(score)
  PROVE  CoverInv'
<1>1. /\ UNCHANGED <<vars, holds>> /\ round' = round + 1 /\ round < MaxRounds
      /\ session' = [IdleSession EXCEPT !.phase = "list", !.score = score]
  BY DEF Begin
<1>2. BookOK' /\ Covered' /\ Placed' = Placed /\ holds' = holds /\ BotsOrders' = BotsOrders
  BY <1>1, TablesKept DEF CoverInv
<1>3. session'.todo = {} /\ session'.pending = {}
  BY <1>1, IdleFields DEF Fields
<1>4. PendingOK'
  BY <1>2, <1>3, FS_EmptySet DEF CoverInv, PendingOK
<1>5. RoundOK'
  <2>1. round \in 0 .. MaxRounds /\ MaxRounds \in Nat
    BY QuotesAssumption DEF CoverInv, RoundOK
  <2>2. ASSUME NEW r \in BotsOrders, OfRound(r)'
        PROVE  FALSE
    <3>1. r.key = round'
      BY <2>2 DEF OfRound, QuoteOf
    <3>2. r.key \in Nat /\ r.key <= round
      BY DEF BotsInv, QuotesOK
    <3>. QED BY <1>1, <2>1, <3>1, <3>2
  <2>3. round' \in 0 .. MaxRounds /\ round' # 0
    BY <1>1, <2>1
  <2>. QED BY <1>2, <1>3, <2>2, <2>3 DEF RoundOK
<1>6. RowsOK'
  BY <1>3 DEF RowsOK
<1>. QED BY <1>2, <1>4, <1>5, <1>6 DEF CoverInv

\* A step that only changes what the session has in hand.
LEMMA PrivateCovers ==
  ASSUME BotsInv, CoverInv, NEW s, Private(s), SameRequote,
         NEW added, IsFiniteSet(added), added \cap Placed = {},
         s.pending \subseteq session.pending \cup added,
         \A r : UnderWay /\ OfRound(r) /\ (r \in added \/ Passed(session, r)) => Passed(s, r),
         s.phase # "cancel" => s.todo = {},
         \A r \in s.todo : s.rows[r].status \in Open
  PROVE  CoverInv'
<1>1. UNCHANGED <<vars, holds>> /\ round' = round /\ session' = s
  BY DEF Private
<1>2. BookOK' /\ Covered' /\ Placed' = Placed /\ holds' = holds /\ BotsOrders' = BotsOrders /\ book' = book
  BY <1>1, TablesKept DEF CoverInv
<1>3. PendingOK'
  <2>1. IsFiniteSet(session.pending \cup added)
    BY FS_Union DEF CoverInv, PendingOK
  <2>2. IsFiniteSet(s.pending)
    BY <2>1, FS_Subset
  <2>. QED BY <1>1, <1>2, <2>2 DEF CoverInv, PendingOK
<1>4. RoundOK'
  <2>1. UnderWay' => UnderWay
    BY DEF SameRequote
  <2>2. BotsOrders' \cup session'.pending \subseteq BotsOrders \cup session.pending \cup added
    BY <1>1, <1>2
  <2>3. \A r : /\ UnderWay' /\ OfRound(r)
               /\ r \in added \/ Passed(session, r)
               => Passed(session', r)
    BY <1>1, <2>1
  <2>. QED BY <2>2, <2>3, RoundKept DEF CoverInv
<1>5. RowsOK'
  BY <1>1 DEF RowsOK
<1>. QED BY <1>2, <1>3, <1>4, <1>5 DEF CoverInv

\* What is read of a resting order is open.
LEMMA ListCovers ==
  ASSUME BotsInv, CoverInv, List
  PROVE  CoverInv'
<1>. DEFINE t == session
            found == RestingOf(t.bot)
            rows == [r \in Requests |-> IF r \in found THEN book[r] ELSE Absent]
<1>1. PICK s : /\ s = [t EXCEPT !.phase = "cancel",
                                !.todo = {r \in found : r.selection = t.selection}, !.rows = rows]
               /\ Private(s)
  BY DEF List
<1>2. t.phase = "list" /\ DOMAIN t = Fields /\ session' = s /\ round' = round
  BY <1>1 DEF List, BotsInv, BotsShape, Fields, Private
<1>3. /\ s.phase = "cancel" /\ s.pending = t.pending /\ s.selection = t.selection /\ s.score = t.score
      /\ s.rows = rows /\ s.todo = {r \in found : r.selection = t.selection}
  <2>. HIDE DEF rows, found
  <2>. QED BY <1>1, <1>2 DEF Fields
<1>4. \A r \in found : r \in Requests /\ Resting(r) /\ book[r].status \in Open
  BY DEF RestingOf, Resting, Open
<1>5. \A r \in found : rows[r].status \in Open
  BY <1>4
<1>6. \A r \in s.todo : s.rows[r].status \in Open
  <2>. HIDE DEF rows, found
  <2>. QED BY <1>3, <1>5
<1>7. SameRequote
  BY <1>2, <1>3 DEF SameRequote, UnderWay
<1>8. \A r : Passed(session, r) => Passed(s, r)
  BY <1>2, <1>3 DEF Passed
<1>9. s.pending \subseteq session.pending \cup {} /\ {} \cap Placed = {}
  BY <1>3
<1>10. \A r : UnderWay /\ OfRound(r) /\ (r \in {} \/ Passed(session, r)) => Passed(s, r)
  BY <1>8
<1>11. Private(s) /\ (s.phase # "cancel" => s.todo = {})
  BY <1>1, <1>3
<1>. HIDE DEF rows, found, t
<1>. QED BY <1>6, <1>7, <1>9, <1>10, <1>11, FS_EmptySet, PrivateCovers

\* The session goes on with the next bot; what is new in its hands was due.
LEMMA AdvanceCovers ==
  ASSUME BotsInv, CoverInv, NEW t, DOMAIN t = Fields, Private(Advance(t)),
         session.phase \in {"cancel", "quote"}, t.phase = session.phase, t.bot = session.bot,
         t.selection = session.selection, t.score = session.score, t.todo = {},
         t.pending \subseteq session.pending
           \cup (IF session.phase = "quote" THEN {Due(session)} ELSE {})
  PROVE  CoverInv'
<1>. PICK s, added : s = Advance(t) /\ added = IF session.phase = "quote" THEN {Due(session)} ELSE {}
  OBVIOUS
<1>1. /\ session' = s /\ round' = round /\ session.bot \in Bots /\ UnderWay
  BY DEF Private, BotsInv, BotsShape, UnderWay
<1>2. s.score = session.score /\ s.todo = {} /\ s.pending = t.pending
  BY <1>1, Advanced
<1>3. SameRequote
  BY <1>1, <1>2 DEF SameRequote
<1>4. IsFiniteSet(added) /\ added \cap Placed = {}
  <2>1. CASE session.phase = "quote"
    BY <2>1, DueIsNew, FS_Singleton DEF CoverInv
  <2>2. CASE session.phase # "quote"
    BY <2>2, FS_EmptySet
  <2>. QED BY <2>1, <2>2
<1>5. ASSUME NEW r, UnderWay, OfRound(r), r \in added \/ Passed(session, r)
      PROVE  Passed(s, r)
  <2>1. r.selection \in {Batting, Bowling} /\ r.user \in Bots
    BY <1>5 DEF OfRound
  <2>2. Passed(session, r) \/ (session.phase = "quote" /\ r = Due(session))
    BY <1>5
  <2>3. session' = Advance(t)
    BY <1>1
  <2>4. Passed(session', r)
    BY <2>1, <2>2, <2>3, AdvancePasses
  <2>. QED BY <1>1, <2>4
<1>6. Private(s) /\ s.pending \subseteq session.pending \cup added
  BY <1>2
<1>. QED BY <1>2, <1>3, <1>4, <1>5, <1>6, PrivateCovers

\* Nothing is left on the list.
LEMMA ListedCovers ==
  ASSUME BotsInv, CoverInv, Listed
  PROVE  CoverInv'
<1>1. session.phase = "cancel" /\ session.todo = {} /\ Private(Advance(session))
  BY DEF Listed
<1>2. DOMAIN session = Fields
  BY DEF BotsInv, BotsShape, Fields
<1>. QED BY <1>1, <1>2, AdvanceCovers

\* An order is off the list, and what has not been committed is gone.
LEMMA KilledCovers ==
  ASSUME BotsInv, CoverInv, NEW r \in session.todo, session.phase = "cancel",
         Private([Kill(session) EXCEPT !.todo = @ \ {r}])
  PROVE  CoverInv'
<1>1. PICK s : s = [Kill(session) EXCEPT !.todo = @ \ {r}] /\ Private(s)
  OBVIOUS
<1>2. DOMAIN session = Fields
  BY DEF BotsInv, BotsShape, Fields
<1>3. /\ s.phase = session.phase /\ s.bot = session.bot /\ s.selection = session.selection
      /\ s.score = session.score /\ s.todo = session.todo \ {r} /\ s.pending = {}
      /\ s.rows = session.rows
  BY <1>1, <1>2 DEF Kill, Fields
<1>4. SameRequote
  BY <1>1, <1>3 DEF SameRequote, Private, UnderWay
<1>. PICK added : added = {}
  OBVIOUS
<1>5. \A q : UnderWay /\ OfRound(q) /\ (q \in added \/ Passed(session, q)) => Passed(s, q)
  <2>1. \A q : Passed(session, q) => Passed(s, q)
    BY <1>3 DEF Passed
  <2>. QED BY <2>1, Zenon
<1>6. \A q \in s.todo : s.rows[q].status \in Open
  BY <1>3 DEF CoverInv, RowsOK
<1>7. s.pending \subseteq session.pending \cup added /\ added \cap Placed = {} /\ IsFiniteSet(added)
  BY <1>3, FS_EmptySet
<1>8. Private(s) /\ (s.phase # "cancel" => s.todo = {})
  BY <1>1, <1>3
<1>. QED BY <1>4, <1>5, <1>6, <1>7, <1>8, PrivateCovers

\* An attempt to withdraw fails.
LEMMA FailedWithdrawCovers ==
  ASSUME BotsInv, CoverInv, NEW r \in Requests, WithdrawStale(r) \/ WithdrawRaises(r)
  PROVE  CoverInv'
<1>1. CASE WithdrawRaises(r)
  BY <1>1, KilledCovers DEF WithdrawRaises
<1>2. CASE WithdrawStale(r)
  BY <1>2, StaleEnds, KilledCovers, IdleCovers
<1>. QED BY <1>1, <1>2

\* A refused quote waits to be committed.
LEMMA QuoteRefusedCovers ==
  ASSUME BotsInv, CoverInv, QuoteRefused
  PROVE  CoverInv'
<1>. DEFINE t == session
            r == Due(session)
<1>1. PICK s : s = [t EXCEPT !.pending = @ \cup {r}] /\ Private(Advance(s))
  BY DEF QuoteRefused
<1>2. t.phase = "quote" /\ DOMAIN t = Fields /\ t.todo = {}
  BY DEF QuoteRefused, BotsInv, BotsShape, CoverInv, RowsOK, Fields
<1>3. /\ DOMAIN s = Fields /\ s.phase = t.phase /\ s.bot = t.bot /\ s.selection = t.selection
      /\ s.score = t.score /\ s.todo = t.todo /\ s.pending = t.pending \cup {r}
  <2>. HIDE DEF r
  <2>. QED BY <1>1, <1>2 DEF Fields
<1>. QED BY <1>1, <1>2, <1>3, AdvanceCovers

\* A quote fails.
LEMMA QuoteRaisesCovers ==
  ASSUME BotsInv, CoverInv, QuoteRaises
  PROVE  CoverInv'
<1>1. PICK s : s = Kill(session) /\ Private(Advance(s)) /\ session.phase = "quote"
  BY DEF QuoteRaises
<1>2. DOMAIN session = Fields /\ session.todo = {}
  BY <1>1 DEF BotsInv, BotsShape, CoverInv, RowsOK, Fields
<1>3. /\ DOMAIN s = Fields /\ s.phase = session.phase /\ s.bot = session.bot
      /\ s.selection = session.selection /\ s.score = session.score
      /\ s.todo = session.todo /\ s.pending = {}
  BY <1>1, <1>2 DEF Kill, Fields
<1>. QED BY <1>1, <1>2, <1>3, AdvanceCovers

\* What waits to be committed are quotes of the requote under way.
LEMMA PendingQuotes ==
  ASSUME BotsInv, CoverInv
  PROVE  /\ session.pending \subseteq Requests /\ IsFiniteSet(session.pending)
         /\ session.pending \cap Placed = {} /\ holds \subseteq Placed
         /\ \A q \in session.pending : UnderWay /\ OfRound(q) /\ q.user \in Bots
<1>1. \A q \in session.pending : UnderWay /\ OfRound(q)
  BY DEF BotsInv, QuotesOK
<1>2. \A q \in session.pending : q \in Requests /\ q.user \in Bots
  BY <1>1, QuotesRequested DEF CoverInv
<1>. QED BY <1>1, <1>2 DEF CoverInv, PendingOK

\* An order is cancelled on a copy that is not stale, and what waited is committed.
LEMMA WithdrawCovers ==
  ASSUME BotsInv, CoverInv, NEW r \in Requests, Withdraw(r)
  PROVE  CoverInv'
<1>. DEFINE t == session
<1>1. PICK row, w :
        /\ row = [t.rows[r] EXCEPT !.status = "CANCELLED"]
        /\ w = [wallets[r.user] EXCEPT !.reserved = @ - Released(r, t.rows[r])]
        /\ book' = [Inserted(t) EXCEPT ![r] = row]
        /\ wallets' = [wallets EXCEPT ![r.user] = w]
        /\ session' = [t EXCEPT !.todo = @ \ {r}, !.pending = {}]
  <2>. PICK w : w = [wallets[r.user] EXCEPT !.reserved = @ - Released(r, t.rows[r])]
    OBVIOUS
  <2>1. wallets' = [wallets EXCEPT ![r.user].reserved = @ - Released(r, t.rows[r])]
    BY DEF Withdraw
  <2>2. wallets' = [wallets EXCEPT ![r.user] = w]
    BY <2>1
  <2>. QED BY <2>2 DEF Withdraw
<1>2. /\ t.phase = "cancel" /\ r \in t.todo /\ t.rows[r] = book[r]
      /\ bets' = bets /\ settledBets' = settledBets /\ holds' = holds /\ round' = round
  BY DEF Withdraw
<1>3. DOMAIN t = Fields /\ BotsShape /\ BookOK
  BY DEF BotsInv, BotsShape, CoverInv, Fields
<1>4. Resting(r) /\ r \in Placed
  <2>1. book[r].status \in Open
    BY <1>2 DEF CoverInv, RowsOK
  <2>. QED BY <2>1 DEF Open, Resting, Placed
<1>5. r.user \in Users /\ RestExposure(r) \in Int
  BY <1>3, QuotesAssumption, Amounts
<1>6. /\ w \in [balance : Int, reserved : Int]
      /\ w.reserved = wallets[r.user].reserved - RestExposure(r)
  <2>1. Released(r, t.rows[r]) = RestExposure(r)
    BY <1>2 DEF Released, RestExposure, Unmatched
  <2>2. w = [wallets[r.user] EXCEPT !.reserved = @ - RestExposure(r)]
        /\ wallets[r.user] \in [balance : Int, reserved : Int]
    BY <1>1, <1>3, <1>5, <2>1 DEF BookOK
  <2>. QED BY <1>5, <2>2
<1>7. wallets \in [Users -> [balance : Int, reserved : Int]]
  BY <1>3 DEF BookOK
<1>8. PICK rest, found : rest = {r} /\ found = {}
  OBVIOUS
<1>9. Resolves(rest, found, t.pending)
  <2>1. wallets' \in [Users -> [balance : Int, reserved : Int]]
    BY <1>1, <1>5, <1>6, <1>7
  <2>2. r \notin t.pending
    BY <1>4, PendingQuotes
  <2>3. book'[r] = [book[r] EXCEPT !.status = "CANCELLED"]
    BY <1>1, <1>2 DEF Inserted
  <2>4. \A q \in Requests : q # r => book'[q] = IF q \in t.pending THEN OpenRow ELSE book[q]
    BY <1>1 DEF Inserted
  <2>. QED BY <1>2, <1>4, <1>8, <2>1, <2>2, <2>3, <2>4, PendingQuotes DEF Resolves
<1>10. ASSUME NEW u \in Bots
      PROVE  wallets'[u].reserved = wallets[u].reserved
               - Total(Risks, {b \in found : OrderOf(b).user = u})
               - Total(RestExposures, {q \in rest : q.user = u})
  <2>. PICK x, y : /\ x = Total(Risks, {b \in found : OrderOf(b).user = u})
                   /\ y = Total(RestExposures, {q \in rest : q.user = u})
    OBVIOUS
  <2>1. x = 0
    <3>1. {b \in found : OrderOf(b).user = u} = {}
      BY <1>8
    <3>. QED BY <3>1, TotalEmpty
  <2>2. u \in Users /\ wallets[u].reserved \in Int
    BY <1>7, QuotesAssumption
  <2>3. CASE r.user = u
    <3>1. Total(RestExposures, {r}) = RestExposure(r)
      BY <1>5, TotalOne DEF RestExposures
    <3>2. {q \in rest : q.user = u} = {r}
      BY <1>8, <2>3
    <3>3. wallets'[u] = w /\ y = RestExposure(r)
      BY <1>1, <1>7, <2>2, <2>3, <3>1, <3>2
    <3>4. wallets'[u].reserved = wallets[u].reserved - x - y
      BY <1>5, <1>6, <2>1, <2>2, <2>3, <3>3
    <3>. QED BY <3>4
  <2>4. CASE r.user # u
    <3>1. {q \in rest : q.user = u} = {}
      BY <1>8, <2>4
    <3>2. wallets'[u] = wallets[u] /\ y = 0
      BY <1>1, <1>7, <2>2, <2>4, <3>1, TotalEmpty
    <3>3. wallets'[u].reserved = wallets[u].reserved - x - y
      BY <2>1, <2>2, <3>2
    <3>. QED BY <3>3
  <2>. QED BY <2>3, <2>4
<1>11. /\ BookOK' /\ Placed' = Placed \cup t.pending /\ book'[r].status = "CANCELLED"
       /\ \A q \in Requests : book[q].status \in Terminal => book'[q] = book[q]
  BY <1>3, <1>8, <1>9, ResolvedBook
<1>12. Covered'
  <2>1. holds \subseteq Placed /\ Covered
    BY PendingQuotes DEF CoverInv
  <2>2. BotsShape /\ BookOK /\ holds' = holds
    BY <1>2, <1>3
  <2>. PICK fresh : fresh = t.pending
    OBVIOUS
  <2>3. Resolves(rest, found, fresh)
    BY <1>9
  <2>. HIDE DEF t
  <2>. QED BY <1>10, <2>1, <2>2, <2>3, ResolvedCovered
<1>13. /\ session'.phase = t.phase /\ session'.bot = t.bot /\ session'.selection = t.selection
       /\ session'.score = t.score /\ session'.todo = t.todo \ {r} /\ session'.pending = {}
       /\ session'.rows = t.rows
  BY <1>1, <1>3 DEF Fields
<1>14. PendingOK'
  BY <1>2, <1>11, <1>13, PendingQuotes, FS_EmptySet DEF PendingOK
<1>15. RoundOK'
  <2>1. SameRequote
    BY <1>2, <1>13 DEF SameRequote, UnderWay
  <2>. PICK added : added = {}
    OBVIOUS
  <2>2. BotsOrders' \cup session'.pending \subseteq BotsOrders \cup session.pending \cup added
    <3>1. BotsOrders = {q \in Placed : q.user \in Bots} /\ BotsOrders' = {q \in Placed' : q.user \in Bots}
      BY DEF BotsOrders, Placed
    <3>. QED BY <1>11, <1>13, <3>1
  <2>3. \A q : /\ UnderWay' /\ OfRound(q)
               /\ q \in added \/ Passed(session, q)
               => Passed(session', q)
    BY <1>13 DEF Passed
  <2>. QED BY <2>1, <2>2, <2>3, RoundKept DEF CoverInv
<1>16. RowsOK'
  BY <1>2, <1>13 DEF CoverInv, RowsOK
<1>. QED BY <1>11, <1>12, <1>14, <1>15, <1>16 DEF CoverInv

\* The sizes of a trade add up.
LEMMA TradedTotal == \A size, makers : Traded(size, makers) = Total(size, makers)
  BY DEF Traded, Total

\* r is placed, covered in full, and trades size[m] with each of the makers m; what
\* earlier calls have left behind may be committed with it.
Places(r, size, makers, fresh) ==
    /\ r \in Requests /\ r \notin Placed /\ r \notin session.pending /\ fresh \subseteq session.pending
    /\ makers = {m \in DOMAIN size : size[m] > 0}
    /\ size \in [{m \in Requests : Compatible(r, m)} -> 0 .. r.stake]
    /\ Traded(size, makers) <= r.stake
    /\ \A q \in Requests : book'[q] = IF q = r THEN After(r, Traded(size, makers))
                                      ELSE IF q \in makers THEN After(q, size[q])
                                      ELSE IF q \in fresh THEN OpenRow ELSE book[q]
    /\ bets' = bets \cup {[taker |-> r, maker |-> m, side |-> x, stake |-> size[m]]
                            : m \in makers, x \in Sides}
    /\ settledBets' = settledBets
    /\ wallets' \in [Users -> [balance : Int, reserved : Int]]
    /\ holds \subseteq holds' /\ holds' \subseteq holds \cup {r}
    /\ \A u \in Bots : wallets'[u].reserved
                          = wallets[u].reserved + (IF r.user = u THEN Exposure(r) ELSE 0)

\* That leaves its owner covered.
LEMMA PlacedCovers ==
  ASSUME BotsInv, CoverInv, NEW r, NEW size, NEW makers, NEW fresh, Places(r, size, makers, fresh)
  PROVE  /\ BookOK' /\ Covered' /\ Placed' = Placed \cup {r} \cup fresh /\ holds' \subseteq Placed'
<1>1. makers \subseteq {m \in Requests : Compatible(r, m)} /\ \A m \in makers : size[m] \in Nat
  BY DEF Places
<1>2. Total(size, makers) = Traded(size, makers)
  BY TradedTotal
<1>3. BookOK /\ Covered /\ holds \subseteq Placed
  BY PendingQuotes DEF CoverInv
<1>4. /\ fresh \subseteq Requests /\ IsFiniteSet(fresh) /\ fresh \cap Placed = {} /\ r \notin fresh
  BY PendingQuotes, FS_Subset DEF Places
<1>5. \A m \in makers : m \in Placed /\ m \in Requests
  BY <1>1 DEF Compatible, Resting, Placed
<1>6. Trades(r, makers, size, fresh)
  <2>1. \A q \in Requests : /\ q = r => book'[q] = After(q, Total(size, makers))
                            /\ q \in makers => book'[q] = After(q, size[q])
                            /\ q \in fresh => book'[q] = OpenRow
                            /\ q \notin makers \cup fresh \cup {r} => book'[q] = book[q]
    BY <1>2, <1>4, <1>5 DEF Places
  <2>2. /\ r \in Requests \ Placed /\ settledBets' = settledBets
        /\ wallets' \in [Users -> [balance : Int, reserved : Int]]
        /\ bets' = bets \cup {[taker |-> r, maker |-> m, side |-> x, stake |-> size[m]]
                                : m \in makers, x \in Sides}
    BY DEF Places
  <2>3. Total(size, makers) <= r.stake
    BY <1>2 DEF Places
  <2>. QED BY <1>1, <1>4, <2>1, <2>2, <2>3 DEF Trades
<1>7. BookOK' /\ Placed' = Placed \cup {r} \cup fresh
  BY <1>3, <1>6, TradedBook
<1>8. Covered'
  <2>1. /\ holds \subseteq holds' /\ holds' \subseteq holds \cup {r}
        /\ \A u \in Bots : wallets'[u].reserved
                              = wallets[u].reserved + (IF r.user = u THEN Exposure(r) ELSE 0)
    BY DEF Places
  <2>. QED BY <1>3, <1>6, <2>1, TradedCovered
<1>. QED BY <1>3, <1>7, <1>8 DEF Places

\* A quote is placed with its hold.
LEMMA QuoteCovers ==
  ASSUME BotsInv, CoverInv, Quote
  PROVE  CoverInv'
<1>. DEFINE t == session
            r == Due(session)
<1>1. /\ t.phase = "quote" /\ wallets' = [wallets EXCEPT ![t.bot].reserved = @ + Exposure(r)]
      /\ holds' = holds \cup {r} /\ settledBets' = settledBets /\ round' = round
  BY DEF Quote
<1>2. PICK size \in [{m \in Requests : Compatible(r, m)} -> 0 .. r.stake] : TradeQuote(t, r, size)
  BY DEF Quote
<1>. PICK makers : makers = {m \in DOMAIN size : size[m] > 0}
  OBVIOUS
<1>3. /\ bets' = bets \cup {[taker |-> r, maker |-> m, side |-> x, stake |-> size[m]]
                              : m \in makers, x \in Sides}
      /\ session' = Advance([t EXCEPT !.pending = {}]) /\ Traded(size, makers) <= r.stake
      /\ book' = [x \in Requests |->
                     CASE x = r -> After(r, Traded(size, makers))
                       [] x \in makers -> After(x, size[x])
                       [] OTHER -> Inserted(t)[x]]
  <2>. HIDE DEF r, t
  <2>. QED BY <1>2 DEF TradeQuote
<1>4. /\ r \in Requests /\ r \notin Placed /\ r \notin t.pending /\ r.user = t.bot /\ t.bot \in Bots
  BY <1>1, DueIsNew DEF CoverInv
<1>. HIDE DEF r
<1>5. t.bot \in Users /\ Exposure(r) \in Int /\ BookOK /\ wallets \in [Users -> [balance : Int, reserved : Int]]
  BY <1>4, QuotesAssumption, Amounts DEF CoverInv, BookOK
<1>6. /\ wallets' \in [Users -> [balance : Int, reserved : Int]]
      /\ \A u \in Bots : wallets'[u].reserved
                           = wallets[u].reserved + (IF r.user = u THEN Exposure(r) ELSE 0)
  <2>. PICK w : w = [wallets[t.bot] EXCEPT !.reserved = @ + Exposure(r)]
    OBVIOUS
  <2>1. w \in [balance : Int, reserved : Int] /\ w.reserved = wallets[t.bot].reserved + Exposure(r)
    BY <1>5
  <2>2. wallets' = [wallets EXCEPT ![t.bot] = w]
    BY <1>1
  <2>3. \A u \in Bots : u \in Users /\ wallets[u].reserved \in Int
    BY <1>5, QuotesAssumption
  <2>4. wallets' \in [Users -> [balance : Int, reserved : Int]]
    BY <1>5, <2>1, <2>2
  <2>5. \A u \in Bots : u # t.bot => wallets'[u] = wallets[u]
    BY <1>5, <2>2, <2>3
  <2>6. wallets'[t.bot] = w
    BY <1>5, <2>2
  <2>. QED BY <1>4, <2>1, <2>3, <2>4, <2>5, <2>6
<1>. PICK fresh : fresh = t.pending
  OBVIOUS
<1>7. BookOK' /\ Covered' /\ Placed' = Placed \cup {r} \cup t.pending /\ holds' \subseteq Placed'
  <2>1. \A m \in makers : m \in Placed
    BY DEF Compatible, Resting, Placed
  <2>2. ASSUME NEW q \in Requests
        PROVE  book'[q] = IF q = r THEN After(r, Traded(size, makers))
                          ELSE IF q \in makers THEN After(q, size[q])
                          ELSE IF q \in fresh THEN OpenRow ELSE book[q]
    <3>1. Inserted(t)[q] = IF q \in fresh THEN OpenRow ELSE book[q]
      BY DEF Inserted
    <3>. PICK total : total = Traded(size, makers)
      OBVIOUS
    <3>2. book'[q] = CASE q = r -> After(r, total)
                       [] q \in makers -> After(q, size[q])
                       [] OTHER -> Inserted(t)[q]
      BY <1>3
    <3>3. r \notin makers
      BY <1>4, <2>1
    <3>. QED BY <3>1, <3>2, <3>3
  <2>3. Places(r, size, makers, fresh)
    <3>1. fresh \subseteq session.pending /\ holds \subseteq holds' /\ holds' \subseteq holds \cup {r}
      BY <1>1
    <3>2. r \notin session.pending /\ r \in Requests /\ r \notin Placed /\ settledBets' = settledBets
      BY <1>1, <1>4
    <3>. QED BY <1>2, <1>3, <1>6, <2>2, <3>1, <3>2 DEF Places
  <2>. QED BY <2>3, PlacedCovers
<1>8. DOMAIN t = Fields /\ t.todo = {}
  BY <1>1 DEF BotsInv, BotsShape, Fields, CoverInv, RowsOK
<1>9. PICK s : s = [t EXCEPT !.pending = {}]
  OBVIOUS
<1>10. /\ DOMAIN s = Fields /\ s.phase = t.phase /\ s.bot = t.bot /\ s.selection = t.selection
       /\ s.score = t.score /\ s.todo = {} /\ s.pending = {}
  BY <1>8, <1>9, QuotedFields
<1>11. session' = Advance(s)
  BY <1>3, <1>9
<1>12. session'.score = session.score /\ session'.todo = {} /\ session'.pending = {}
  BY <1>4, <1>10, <1>11, Advanced
<1>13. PendingOK'
  BY <1>7, <1>12, FS_EmptySet DEF PendingOK
<1>14. RoundOK'
  <2>1. SameRequote
    BY <1>1, <1>12 DEF SameRequote, UnderWay
  <2>. PICK added : added = {r}
    OBVIOUS
  <2>2. BotsOrders' \cup session'.pending \subseteq BotsOrders \cup session.pending \cup added
    <3>1. BotsOrders = {q \in Placed : q.user \in Bots} /\ BotsOrders' = {q \in Placed' : q.user \in Bots}
      BY DEF BotsOrders, Placed
    <3>. QED BY <1>7, <1>12, <3>1
  <2>3. ASSUME NEW q, UnderWay', OfRound(q), q \in added \/ Passed(session, q)
        PROVE  Passed(session', q)
    <3>1. q.selection \in {Batting, Bowling} /\ q.user \in Bots
      BY <2>3 DEF OfRound
    <3>2. Passed(session, q) \/ (session.phase = "quote" /\ q = Due(session))
      BY <1>1, <2>3 DEF r
    <3>. QED BY <1>1, <1>10, <1>11, <3>1, <3>2, AdvancePasses
  <2>. QED BY <2>1, <2>2, <2>3, RoundKept DEF CoverInv
<1>15. RowsOK'
  BY <1>12 DEF RowsOK
<1>. QED BY <1>7, <1>13, <1>14, <1>15 DEF CoverInv

\* The tables move on without the session.
LEMMA SessionStays ==
  ASSUME BotsInv, CoverInv, UNCHANGED botVars, BookOK', Covered', Placed \subseteq Placed',
         \A q \in Placed' : q \in Placed \/ q.user \notin Bots
  PROVE  CoverInv'
<1>1. session' = session /\ holds' = holds /\ round' = round
  BY DEF botVars
<1>2. PendingOK'
  BY <1>1, PendingQuotes DEF PendingOK
<1>3. RoundOK'
  <2>1. SameRequote
    BY <1>1 DEF SameRequote, UnderWay
  <2>. PICK added : added = {}
    OBVIOUS
  <2>2. BotsOrders' \cup session'.pending \subseteq BotsOrders \cup session.pending \cup added
    <3>1. BotsOrders = {q \in Placed : q.user \in Bots} /\ BotsOrders' = {q \in Placed' : q.user \in Bots}
      BY DEF BotsOrders, Placed
    <3>. QED BY <1>1, <3>1
  <2>3. \A q : /\ UnderWay' /\ OfRound(q)
               /\ q \in added \/ Passed(session, q)
               => Passed(session', q)
    BY <1>1
  <2>. QED BY <2>1, <2>2, <2>3, RoundKept DEF CoverInv
<1>4. RowsOK'
  BY <1>1 DEF CoverInv, RowsOK
<1>. QED BY <1>2, <1>3, <1>4 DEF CoverInv

\* A user's order trades with the bots' quotes.
LEMMA PlaceCovers ==
  ASSUME BotsInv, CoverInv, UNCHANGED botVars, NEW r \in Requests, r.user \notin Bots, Place(r)
  PROVE  CoverInv'
<1>1. /\ book[r] = Absent /\ settledBets' = settledBets
      /\ wallets' = [wallets EXCEPT ![r.user].reserved = @ + Exposure(r)]
  BY DEF Place
<1>2. PICK size \in [{m \in Requests : Compatible(r, m)} -> 0 .. r.stake] : Trade(r, size)
  BY DEF Place
<1>3. PICK makers, total :
        /\ makers = {m \in DOMAIN size : size[m] > 0} /\ total = Traded(size, makers)
        /\ total <= r.stake
        /\ book' = [q \in Requests |->
                      CASE q = r -> After(r, total)
                        [] q \in makers -> After(q, size[q])
                        [] OTHER -> book[q]]
        /\ bets' = bets \cup {[taker |-> r, maker |-> m, side |-> x, stake |-> size[m]]
                                : m \in makers, x \in Sides}
  <2>. PICK makers, total :
         makers = {m \in DOMAIN size : size[m] > 0} /\ total = Traded(size, makers)
    OBVIOUS
  <2>. QED BY <1>2 DEF Trade
<1>4. r \notin Placed /\ r \notin session.pending
  <2>1. Absent.status = "ABSENT"
    BY DEF Absent
  <2>. QED BY <1>1, <2>1, PendingQuotes DEF Placed
<1>5. /\ BookOK /\ wallets \in [Users -> [balance : Int, reserved : Int]]
      /\ r.user \in Users /\ Exposure(r) \in Int
  BY QuotesAssumption, Amounts DEF CoverInv, BookOK
<1>6. /\ wallets' \in [Users -> [balance : Int, reserved : Int]]
      /\ \A u \in Bots : wallets'[u].reserved
                           = wallets[u].reserved + (IF r.user = u THEN Exposure(r) ELSE 0)
  <2>. PICK w : w = [wallets[r.user] EXCEPT !.reserved = @ + Exposure(r)]
    OBVIOUS
  <2>1. w \in [balance : Int, reserved : Int] /\ wallets' = [wallets EXCEPT ![r.user] = w]
    BY <1>1, <1>5
  <2>2. wallets' \in [Users -> [balance : Int, reserved : Int]]
    BY <1>5, <2>1
  <2>3. \A u \in Bots : u # r.user /\ wallets'[u] = wallets[u] /\ wallets[u].reserved \in Int
    BY <1>5, <2>1, QuotesAssumption
  <2>. QED BY <2>2, <2>3
<1>7. Places(r, size, makers, {})
  <2>1. \A m \in makers : m \in Placed
    BY <1>3 DEF Compatible, Resting, Placed
  <2>2. ASSUME NEW q \in Requests
        PROVE  book'[q] = IF q = r THEN After(r, total) ELSE IF q \in makers THEN After(q, size[q]) ELSE book[q]
    <3>1. r \notin makers
      BY <1>4, <2>1
    <3>. QED BY <1>3, <3>1
  <2>3. holds' = holds
    BY DEF botVars
  <2>. QED BY <1>1, <1>2, <1>3, <1>4, <1>6, <2>2, <2>3 DEF Places
<1>8. BookOK' /\ Covered' /\ Placed' = Placed \cup {r}
  BY <1>7, PlacedCovers
<1>. QED BY <1>8, SessionStays

\* Users' orders are withdrawn, or a settlement pays bets and withdraws what rests.
LEMMA ResolveCovers ==
  ASSUME BotsInv, CoverInv, UNCHANGED botVars, NEW rest, NEW found, Resolves(rest, found, {}),
         \A u \in Bots : wallets'[u].reserved = wallets[u].reserved
            - Total(Risks, {b \in found : OrderOf(b).user = u})
            - Total(RestExposures, {r \in rest : r.user = u})
  PROVE  CoverInv'
<1>. PICK fresh : fresh = {}
  OBVIOUS
<1>1. BotsShape /\ BookOK /\ Covered /\ holds \subseteq Placed /\ holds' = holds
  BY PendingQuotes DEF BotsInv, CoverInv, botVars
<1>2. Resolves(rest, found, fresh)
  OBVIOUS
<1>3. /\ BookOK' /\ Placed' = Placed \cup fresh
      /\ \A q \in Requests : book[q].status \in Terminal => book'[q] = book[q]
  BY <1>1, <1>2, ResolvedBook
<1>4. Covered'
  BY <1>1, <1>2, ResolvedCovered
<1>5. Placed' = Placed
  BY <1>3
<1>. QED BY <1>3, <1>4, <1>5, SessionStays

\* A user withdraws an order.
LEMMA CancelCovers ==
  ASSUME BotsInv, CoverInv, UNCHANGED botVars, NEW r \in Requests, r.user \notin Bots, Cancel(r)
  PROVE  CoverInv'
<1>1. /\ Resting(r) /\ book' = [book EXCEPT ![r].status = "CANCELLED"]
      /\ wallets' = [wallets EXCEPT ![r.user].reserved = @ - RestExposure(r)]
      /\ bets' = bets /\ settledBets' = settledBets
  BY DEF Cancel
<1>2. /\ BookOK /\ wallets \in [Users -> [balance : Int, reserved : Int]]
      /\ r.user \in Users /\ RestExposure(r) \in Int /\ DOMAIN book = Requests
  BY QuotesAssumption, Amounts DEF CoverInv, BookOK, BotsInv, BotsShape
<1>. PICK w : w = [wallets[r.user] EXCEPT !.reserved = @ - RestExposure(r)]
  OBVIOUS
<1>3. w \in [balance : Int, reserved : Int] /\ wallets' = [wallets EXCEPT ![r.user] = w]
  BY <1>1, <1>2
<1>4. PICK rest, found : rest = {r} /\ found = {}
  OBVIOUS
<1>5. Resolves(rest, found, {})
  <2>1. wallets' \in [Users -> [balance : Int, reserved : Int]]
    BY <1>2, <1>3
  <2>2. /\ book'[r] = [book[r] EXCEPT !.status = "CANCELLED"]
        /\ \A q \in Requests : q # r => book'[q] = book[q]
    BY <1>1, <1>2
  <2>. QED BY <1>1, <1>4, <2>1, <2>2, FS_EmptySet DEF Resolves
<1>6. ASSUME NEW u \in Bots
      PROVE  wallets'[u].reserved = wallets[u].reserved
               - Total(Risks, {b \in found : OrderOf(b).user = u})
               - Total(RestExposures, {q \in rest : q.user = u})
  <2>1. u \in Users /\ u # r.user /\ wallets[u].reserved \in Int
    BY <1>2, QuotesAssumption
  <2>2. wallets'[u] = wallets[u]
    BY <1>2, <1>3, <2>1
  <2>. PICK x, y : /\ x = Total(Risks, {b \in found : OrderOf(b).user = u})
                   /\ y = Total(RestExposures, {q \in rest : q.user = u})
    OBVIOUS
  <2>3. {b \in found : OrderOf(b).user = u} = {} /\ {q \in rest : q.user = u} = {}
    BY <1>4, <2>1
  <2>4. x = 0 /\ y = 0
    BY <2>3, TotalEmpty
  <2>5. wallets'[u].reserved = wallets[u].reserved - x - y
    BY <2>1, <2>2, <2>4
  <2>. QED BY <2>5
<1>. QED BY <1>5, <1>6, ResolveCovers

\* The match is settled.
LEMMA SettleCovers ==
  ASSUME BotsInv, CoverInv, UNCHANGED botVars, NEW winner \in Winners, Settle(winner)
  PROVE  CoverInv'
<1>1. PICK found \in SUBSET (bets \ settledBets), rest \in SUBSET {r \in Requests : Resting(r)} :
        /\ settledBets' = settledBets \cup found
        /\ book' = [r \in Requests |->
                      IF r \in rest THEN [book[r] EXCEPT !.status = "CANCELLED"] ELSE book[r]]
        /\ wallets' = [u \in Users |->
             [balance |-> wallets[u].balance + Payout({b \in found : OrderOf(b).user = u}, winner),
              reserved |-> wallets[u].reserved + Unheld({b \in found : OrderOf(b).user = u}, winner)
                                               - RestReleased({r \in rest : r.user = u})]]
  BY DEF Settle
<1>2. bets' = bets
  BY DEF Settle
<1>3. BookOK /\ wallets \in [Users -> [balance : Int, reserved : Int]]
  BY DEF CoverInv, BookOK
<1>4. ASSUME NEW u \in Users
      PROVE  /\ wallets'[u].reserved = wallets[u].reserved
                  - Total(Risks, {b \in found : OrderOf(b).user = u})
                  - Total(RestExposures, {q \in rest : q.user = u})
             /\ wallets'[u] \in [balance : Int, reserved : Int]
  <2>. PICK B, R : B = {b \in found : OrderOf(b).user = u} /\ R = {q \in rest : q.user = u}
    OBVIOUS
  <2>1. B \subseteq bets /\ R \subseteq {q \in Requests : Resting(q)} /\ R \subseteq Requests
    OBVIOUS
  <2>2. IsFiniteSet(B) /\ IsFiniteSet(R)
    <3>1. R \subseteq Placed
      BY <2>1 DEF Resting, Placed
    <3>. QED BY <1>3, <2>1, <3>1, FS_Subset DEF BookOK
  <2>. PICK x, y, p :
         x = Total(Risks, B) /\ y = Total(RestExposures, R) /\ p = Payout(B, winner)
    OBVIOUS
  <2>3. x \in Int /\ y \in Int /\ p \in Int
    <3>1. \A b \in B : Risks[b] \in Int
      BY <1>3, <2>1, Amounts DEF Risks
    <3>2. \A q \in R : RestExposures[q] \in Int
      BY <1>3, <2>1, Amounts DEF RestExposures
    <3>3. p \in Int
      BY <1>3, <2>1, PayoutInt
    <3>. QED BY <2>2, <3>1, <3>2, <3>3, TotalInt
  <2>4. Unheld(B, winner) = - x /\ RestReleased(R) = y
    BY <1>3, <2>1, UnheldTotal, RestsTotal
  <2>5. wallets[u] \in [balance : Int, reserved : Int]
    BY <1>3
  <2>6. wallets'[u] = [balance |-> wallets[u].balance + p,
                       reserved |-> wallets[u].reserved + (- x) - y]
    BY <1>1, <2>4
  <2>. QED BY <2>3, <2>5, <2>6
<1>5. wallets' \in [Users -> [balance : Int, reserved : Int]]
  <2>. DEFINE w == [u \in Users |->
                 [balance |-> wallets[u].balance + Payout({b \in found : OrderOf(b).user = u}, winner),
                  reserved |-> wallets[u].reserved + Unheld({b \in found : OrderOf(b).user = u}, winner)
                                                   - RestReleased({r \in rest : r.user = u})]]
  <2>1. DOMAIN w = Users /\ w = [u \in Users |-> w[u]]
    OBVIOUS
  <2>2. wallets' = w
    BY <1>1
  <2>. HIDE DEF w
  <2>3. \A u \in Users : w[u] \in [balance : Int, reserved : Int]
    BY <1>4, <2>2
  <2>. QED BY <2>1, <2>2, <2>3
<1>6. Resolves(rest, found, {})
  <2>1. \A r \in Requests : /\ r \in rest => book'[r] = [book[r] EXCEPT !.status = "CANCELLED"]
                            /\ r \notin rest => book'[r] = book[r]
    BY <1>1
  <2>. QED BY <1>1, <1>2, <1>5, <2>1, FS_EmptySet DEF Resolves
<1>7. \A u \in Bots : u \in Users
  BY QuotesAssumption
<1>. QED BY <1>4, <1>6, <1>7, ResolveCovers

\* Users, and whoever finishes the match.
LEMMA OthersCover ==
  ASSUME BotsInv, CoverInv, Others
  PROVE  CoverInv'
<1>1. UNCHANGED botVars
  BY DEF Others
<1>. QED BY <1>1, PlaceCovers, CancelCovers, SettleCovers DEF Others

-----------------------------------------------------------------------------
(* The theorem                                                              *)

\* CoverInv is inductive, given BotsInv.
LEMMA CoverStep == BotsInv /\ CoverInv /\ [BotsNext]_allVars => CoverInv'
<1>. SUFFICES ASSUME BotsInv, CoverInv, [BotsNext]_allVars
              PROVE  CoverInv'
  OBVIOUS
<1>1. ASSUME NEW score \in Scores, Begin(score)
      PROVE  CoverInv'
  BY <1>1, BeginCovers
<1>2. CASE List
  BY <1>2, ListCovers
<1>3. CASE ListRaises
  BY <1>3, IdleCovers DEF ListRaises
<1>4. CASE Listed
  BY <1>4, ListedCovers
<1>5. ASSUME NEW r \in Requests, Withdraw(r) \/ WithdrawStale(r) \/ WithdrawRaises(r)
      PROVE  CoverInv'
  BY <1>5, WithdrawCovers, FailedWithdrawCovers
<1>6. CASE Quote
  BY <1>6, QuoteCovers
<1>7. CASE QuoteRefused
  BY <1>7, QuoteRefusedCovers
<1>8. CASE QuoteRaises
  BY <1>8, QuoteRaisesCovers
<1>9. CASE EndTick
  BY <1>9, IdleCovers DEF EndTick
<1>10. CASE Others
  BY <1>10, OthersCover
<1>11. CASE UNCHANGED allVars
  <2>1. UNCHANGED vars /\ UNCHANGED botVars
    BY <1>11 DEF allVars
  <2>2. BookOK' /\ Covered' /\ Placed' = Placed /\ book' = book
    BY <2>1, TablesKept DEF CoverInv, botVars
  <2>. QED BY <2>1, <2>2, SessionStays
<1>. QED BY <1>1, <1>2, <1>3, <1>4, <1>5, <1>6, <1>7, <1>8, <1>9, <1>10, <1>11 DEF BotsNext

\* It always holds.
LEMMA CoverInvariant == BotsSpec => []CoverInv
<1>1. BotsInv /\ CoverInv /\ [BotsNext]_allVars => CoverInv'
  BY CoverStep
<1>. QED BY <1>1, CoverInit, BotsInvariant, PTL DEF BotsSpec

\* What a bot may still lose is what its orders and its bets need.
LEMMA OutstandingNeeds ==
  ASSUME BookOK, NEW u
  PROVE  /\ Outstanding(u) = Total(Rests, PlacedBy(u)) + Total(Needs, BetsBy(u))
                             + Cardinality(LayBetsOf(u))
         /\ Total(Rests, PlacedBy(u)) \in Int /\ Total(Needs, BetsBy(u)) \in Int
         /\ Cardinality(LayBetsOf(u)) \in Int
<1>. DEFINE unpaid == {b \in bets \ settledBets : OrderOf(b).user = u}
            lays == LayBetsOf(u)
            slack == [b \in bets |-> Slack(b.side)]
            risk == [b \in bets |-> IF b \in settledBets THEN 0 ELSE Risk(b)]
            ones == [b \in bets |-> 1]
<1>1. /\ IsFiniteSet(PlacedBy(u)) /\ IsFiniteSet(BetsBy(u)) /\ BetsBy(u) \subseteq bets
      /\ PlacedBy(u) \subseteq Requests
      /\ Total(Rests, PlacedBy(u)) \in Int /\ Total(Needs, BetsBy(u)) \in Int
  BY Sums
<1>2. unpaid \subseteq BetsBy(u) /\ lays \subseteq BetsBy(u) /\ IsFiniteSet(unpaid) /\ IsFiniteSet(lays)
  <2>1. unpaid \subseteq BetsBy(u) /\ lays \subseteq BetsBy(u)
    BY DEF BetsBy, LayBetsOf
  <2>. QED BY <1>1, <2>1, FS_Subset
<1>3. Total(Rests, PlacedBy(u)) = Total(RestExposures, RestingOf(u))
  <2>1. RestingOf(u) \subseteq PlacedBy(u)
    BY DEF RestingOf, PlacedBy, Placed, Resting
  <2>2. \A r \in PlacedBy(u) : Rests[r] = IF r \in RestingOf(u) THEN RestExposures[r] ELSE 0
    BY <1>1 DEF Rests, RestingOf, PlacedBy, RestExposures
  <2>3. \A r \in RestingOf(u) : RestExposures[r] \in Int
    BY Amounts DEF RestingOf, RestExposures
  <2>. QED BY <1>1, <2>1, <2>2, <2>3, TotalOn
<1>4. \A b \in BetsBy(u) : /\ b \in bets /\ Risk(b) \in Int /\ slack[b] \in {0, 1}
                           /\ risk[b] = IF b \in unpaid THEN Risks[b] ELSE 0
                           /\ slack[b] = IF b \in lays THEN ones[b] ELSE 0
                           /\ risk[b] = Needs[b] + slack[b]
  <2>. SUFFICES ASSUME NEW b \in BetsBy(u)
                PROVE  /\ b \in bets /\ Risk(b) \in Int /\ slack[b] \in {0, 1}
                       /\ risk[b] = IF b \in unpaid THEN Risks[b] ELSE 0
                       /\ slack[b] = IF b \in lays THEN ones[b] ELSE 0
                       /\ risk[b] = Needs[b] + slack[b]
    OBVIOUS
  <2>1. b \in bets /\ OrderOf(b).user = u
    BY DEF BetsBy
  <2>2. Risk(b) \in Int /\ Slack(b.side) \in {0, 1}
    BY <2>1, Amounts
  <2>3. slack[b] = IF b \in lays THEN ones[b] ELSE 0
    BY <2>1 DEF Slack, LayBetsOf
  <2>4. risk[b] = Needs[b] + slack[b]
    BY <2>1, <2>2 DEF Needs
  <2>. QED BY <2>1, <2>2, <2>3, <2>4 DEF Risks
<1>5. Total(risk, BetsBy(u)) = Total(Needs, BetsBy(u)) + Total(slack, BetsBy(u))
  <2>. HIDE DEF slack, risk
  <2>1. \A b \in BetsBy(u) : Needs[b] \in Int /\ slack[b] \in Int /\ risk[b] = Needs[b] + slack[b]
    BY <1>4, Amounts
  <2>. QED BY <1>1, <2>1, TotalPlus
<1>6. Total(risk, BetsBy(u)) = Total(Risks, unpaid)
  <2>1. \A b \in unpaid : Risks[b] \in Int
    BY <1>2, <1>4 DEF Risks
  <2>2. \A b \in BetsBy(u) : risk[b] = IF b \in unpaid THEN Risks[b] ELSE 0
    BY <1>4
  <2>. HIDE DEF risk, unpaid
  <2>. QED BY <1>1, <1>2, <2>1, <2>2, TotalOn
<1>7. Total(slack, BetsBy(u)) = Cardinality(lays) /\ Cardinality(lays) \in Int
  <2>1. \A b \in lays : ones[b] = 1 /\ ones[b] \in Int
    BY <1>1, <1>2
  <2>2. \A b \in BetsBy(u) : slack[b] = IF b \in lays THEN ones[b] ELSE 0
    BY <1>4
  <2>. HIDE DEF slack, lays, ones
  <2>3. Total(slack, BetsBy(u)) = Total(ones, lays)
    BY <1>1, <1>2, <2>1, <2>2, TotalOn
  <2>4. Total(ones, lays) = Cardinality(lays)
    BY <1>2, <2>1, TotalOnes
  <2>5. Cardinality(lays) \in Nat
    BY <1>2, FS_CardinalityType
  <2>. QED BY <2>3, <2>4, <2>5
<1>8. Outstanding(u) = Total(RestExposures, RestingOf(u)) + Total(Risks, unpaid)
  <2>1. MapThenSumSet(RestExposure, RestingOf(u)) = Total(RestExposures, RestingOf(u))
    <3>1. RestingOf(u) \subseteq Requests
      BY DEF RestingOf
    <3>. QED BY <3>1, RestsTotal
  <2>2. MapThenSumSet(LAMBDA b : IF b.side = "BACK" THEN b.stake
                                 ELSE LiabilityMinor("LAY", b.maker.price, b.stake), unpaid)
          = Total(Risks, unpaid)
    <3>1. unpaid \subseteq bets
      OBVIOUS
    <3>. HIDE DEF unpaid
    <3>. QED BY <3>1, RisksTotal
  <2>. QED BY <2>1, <2>2 DEF Outstanding
<1>. HIDE DEF unpaid, slack, risk
<1>. QED BY <1>1, <1>3, <1>5, <1>6, <1>7, <1>8 DEF lays

\* A bot whose orders all have their holds has reserved all that it may still lose,
\* but for one minor unit for each bet it has laid: at all prices and stakes, however
\* its orders are matched, withdrawn from rows read earlier, and settled
\* (order_service.cancel_order, wallet_service.release_for_order).
THEOREM HeldIsCovered == BotsSpec => []CoveredIfHeld
<1>1. CoverInv => CoveredIfHeld
  <2>. SUFFICES ASSUME CoverInv, NEW u \in Bots,
                       \A r \in Requests : r.user = u /\ book[r] # Absent => r \in holds
                PROVE  wallets[u].reserved + Cardinality(LayBetsOf(u)) >= Outstanding(u)
    BY DEF CoveredIfHeld
  <2>1. PlacedBy(u) \subseteq holds
    BY DEF PlacedBy, Placed, Absent
  <2>2. wallets[u].reserved >= Total(Rests, PlacedBy(u)) + Total(Needs, BetsBy(u))
    BY <2>1 DEF CoverInv, Covered
  <2>3. wallets[u].reserved \in Int
    BY QuotesAssumption DEF CoverInv, BookOK
  <2>. QED BY <2>2, <2>3, OutstandingNeeds DEF CoverInv
<1>. QED BY <1>1, CoverInvariant, PTL

===============================================================================
