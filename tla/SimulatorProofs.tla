-------------------------- MODULE SimulatorProofs --------------------------
(***************************************************************************)
(* Theorems about Simulator, for every set of markets and sessions, every   *)
(* length of an innings and every bound; and, at the end, about Runner, for *)
(* every set of tasks and requests. Only the latter use that a session is a *)
(* task's or a request's (CallersAssumption).                               *)
(***************************************************************************)
EXTENDS Runner, TLAPS

-----------------------------------------------------------------------------
(* What a session may rely on                                               *)

\* Before there is a row no ball has been bowled.
NothingBeforeStart == match.status = "NONE" => match.score = NoScore

\* The lock of the match state has one holder.
OneLock == \A s, z \in Sessions : tx[s].locked /\ tx[z].locked => s = z

\* A tick about to bowl holds the lock, and its copy is the row.
BowlsFromRow ==
    \A s \in Sessions : tx[s].pc = "bowl" =>
        tx[s].locked /\ tx[s].copy = match /\ match.status = "LIVE" /\ ~ match.suspended

\* A listed market is not ahead of its row, is the row at the row's version,
\* and was listed for a status the phase writes.
ListedOK ==
    \A s \in Sessions : tx[s].pc \in {"reopen", "suspend", "settle"} =>
        \A m \in Markets :
            /\ tx[s].rows[m].version <= markets[m].version
            /\ tx[s].rows[m].version = markets[m].version => tx[s].rows[m] = markets[m]
            /\ m \in tx[s].todo => tx[s].rows[m].status \in From(tx[s].pc)

\* The inductive invariant: what a tick bowls from is the row it has locked, and
\* what a session writes to a market it listed is decided by the market's row.
SimInv ==
    SimTypeOK /\ FeedReplays /\ NothingBeforeStart /\ OneLock /\ BowlsFromRow /\ ListedOK

-----------------------------------------------------------------------------
(* What the only session may rely on, where one call returns before the     *)
(* next is made                                                             *)

Solo == \E s : Sessions = {s}

\* A suspended market has the flag, which is raised before and cleared after.
SuspendedIsFlagged ==
    /\ \A m \in Markets : markets[m].status = "SUSPENDED" => match.suspended
    /\ match.status = "NONE" => ~ match.suspended

\* What is listed is listed as it is; what is to be reopened is all that is
\* suspended, and the flag is only cleared when nothing is; a tick suspends under it.
ReopensOK(t) ==
    /\ t.pc \in {"reopen", "suspend"} => \A m \in t.todo : t.rows[m].version = markets[m].version
    /\ t.pc = "reopen" => \A m \in Markets \ t.todo : markets[m].status # "SUSPENDED"
    /\ t.pc = "clear" => \A m \in Markets : markets[m].status # "SUSPENDED"
    /\ (t.pc = "suspend" \/ (t.pc = "list" /\ t.phase = "suspend")) => match.suspended

\* The inductive invariant of one session: finish_match writes the winner of the
\* row itself, and until an admin writes a market the flag tells what is suspended.
SoloInv ==
    /\ WinnerByScore
    /\ \A s \in Sessions : tx[s].pc = "finish" => tx[s].copy = match
    /\ admin = 0 => SuspendedIsFlagged /\ \A s \in Sessions : ReopensOK(tx[s])


-----------------------------------------------------------------------------
(* Shapes                                                                   *)

\* The rows and the session the system starts with have their shape.
LEMMA StartShapes ==
  /\ NoScore \in Scores /\ NoMatch \in MatchRows /\ IdleSim \in SimTx
  /\ IdleSim.pc = "idle" /\ IdleSim.locked = FALSE
<1>1. NoScore \in Scores
  BY DEF NoScore, Scores
<1>2. NoMatch \in MatchRows
  BY <1>1 DEF NoMatch, MatchRows, SimStatuses
<1>3. IdleSim.rows \in [Markets -> MarketRows]
  BY DEF IdleSim, MarketRows, MarketStatuses
<1>4. IdleSim \in SimTx
  BY <1>2, <1>3 DEF IdleSim, SimTx, SimPCs, EventStatuses
<1>. QED BY <1>1, <1>2, <1>4 DEF IdleSim

\* So has what is left of a session whose call has returned.
LEMMA ReturnedShape ==
  ASSUME NEW t \in SimTx
  PROVE  /\ Returned(t) \in SimTx /\ [Returned(t) EXCEPT !.start = TRUE] \in SimTx
         /\ Returned(t).pc = "done" /\ Returned(t).locked = FALSE
         /\ [Returned(t) EXCEPT !.start = TRUE].pc = "done"
         /\ [Returned(t) EXCEPT !.start = TRUE].locked = FALSE
<1>1. t.over \in BOOLEAN /\ "done" \in SimPCs
  BY DEF SimTx, SimPCs
<1>. QED BY <1>1, StartShapes DEF Returned, SimTx, IdleSim

\* A session keeps its shape when it moves on.
LEMMA MovedShape ==
  ASSUME NEW t \in SimTx, NEW pc \in SimPCs
  PROVE  /\ [t EXCEPT !.pc = pc] \in SimTx /\ [t EXCEPT !.pc = pc].pc = pc
         /\ [t EXCEPT !.pc = pc].locked = t.locked
  BY DEF SimTx

\* Crossing a market off the list, with or without the lock, keeps the rest.
LEMMA CrossedOffShape ==
  ASSUME NEW t \in SimTx, NEW todo \in SUBSET Markets
  PROVE  /\ [t EXCEPT !.todo = todo] \in SimTx
         /\ [t EXCEPT !.todo = todo, !.locked = FALSE] \in SimTx
  BY DEF SimTx

\* A ball, and a score with one more.
LEMMA BallShape ==
  ASSUME NEW score \in Scores, NEW ball \in Balls
  PROVE  AddBall(score, ball) \in Scores
<1>1. ball.runs \in Nat /\ ball.wickets \in Nat
  <2>1. CASE ball \in [runs : BallRuns, wickets : {0}]
    <3>1. ball.runs \in BallRuns /\ ball.wickets = 0
      BY <2>1
    <3>2. BallRuns \subseteq Nat
      BY SimulatorNumbers
    <3>3. ball.runs \in Nat
      BY <3>1, <3>2, Zenon
    <3>. QED BY <3>1, <3>3
  <2>2. CASE ball = [runs |-> 0, wickets |-> 1]
    BY <2>2
  <2>. QED BY <2>1, <2>2 DEF Balls
<1>2. score.runs \in Nat /\ score.wickets \in Nat /\ score.balls \in Nat
  BY DEF Scores
<1>. QED BY <1>1, <1>2, SMT DEF AddBall, Scores

\* A market row that is written has its shape and a new version.
LEMMA WrittenMarket ==
  ASSUME NEW row \in MarketRows, NEW status \in MarketStatuses, NEW paid \in Teams \cup {"none"}
  PROVE  /\ [status |-> status, version |-> row.version + 1, paid |-> paid] \in MarketRows
         /\ [row EXCEPT !.status = status, !.version = @ + 1] \in MarketRows
         /\ [row EXCEPT !.status = status, !.version = @ + 1].version = row.version + 1
<1>1. row.version + 1 \in Nat
  BY DEF MarketRows
<1>. QED BY <1>1 DEF MarketRows

-----------------------------------------------------------------------------
(* Three kinds of steps                                                     *)

\* What the new private state of a session must satisfy to keep the invariant
\* when the tables stay as they are.
ReadOK(s, t) ==
  /\ t.locked => tx[s].locked \/ LockFree(s)
  /\ t.pc = "bowl" => t.locked /\ t.copy = match /\ match.status = "LIVE" /\ ~ match.suspended
  /\ t.pc \in {"reopen", "suspend", "settle"} =>
       \A m \in Markets :
         /\ t.rows[m].version <= markets[m].version
         /\ t.rows[m].version = markets[m].version => t.rows[m] = markets[m]
         /\ m \in t.todo => t.rows[m].status \in From(t.pc)

\* A step that reads keeps the invariant.
LEMMA ReadStep ==
  ASSUME SimInv, NEW s \in Sessions, NEW t \in SimTx, ReadOK(s, t), Goto(s, t),
         UNCHANGED <<match, event, markets, feed, admin>>, faults' \in 0 .. MaxDisturbances
  PROVE  SimInv'
<1>1. /\ tx' \in [Sessions -> SimTx] /\ tx'[s] = t
      /\ \A z \in Sessions : z # s => tx'[z] = tx[z]
  BY DEF Goto, SimInv, SimTypeOK
<1>2. SimTypeOK' /\ FeedReplays' /\ NothingBeforeStart'
  BY <1>1 DEF SimInv, SimTypeOK, FeedReplays, NothingBeforeStart
<1>3. OneLock'
  BY <1>1 DEF SimInv, OneLock, ReadOK, LockFree
<1>4. BowlsFromRow'
  BY <1>1 DEF SimInv, BowlsFromRow, ReadOK
<1>5. ListedOK'
  <2>. SUFFICES ASSUME NEW z \in Sessions, tx'[z].pc \in {"reopen", "suspend", "settle"},
                       NEW m \in Markets
                PROVE  /\ tx'[z].rows[m].version <= markets'[m].version
                       /\ tx'[z].rows[m].version = markets'[m].version
                            => tx'[z].rows[m] = markets'[m]
                       /\ m \in tx'[z].todo => tx'[z].rows[m].status \in From(tx'[z].pc)
    BY DEF ListedOK
  <2>1. CASE z = s
    BY <1>1, <2>1 DEF ReadOK
  <2>2. CASE z # s
    BY <1>1, <2>2 DEF SimInv, ListedOK
  <2>. QED BY <2>1, <2>2
<1>. QED BY <1>2, <1>3, <1>4, <1>5 DEF SimInv

\* A step that writes the match state, and gives up the session's lock, keeps
\* the invariant, if no other session is about to bowl.
LEMMA MatchStep ==
  ASSUME SimInv, NEW s \in Sessions, NEW t \in SimTx, Goto(s, t),
         ~ t.locked, t.pc \notin {"bowl", "reopen", "suspend", "settle"},
         \A z \in Sessions \ {s} : tx[z].pc # "bowl",
         match' \in MatchRows, match'.status = "NONE" => match'.score = NoScore,
         feed' = match'.score, feed' \in Scores,
         event' \in EventStatuses, UNCHANGED <<markets, admin, faults>>
  PROVE  SimInv'
<1>1. /\ tx' \in [Sessions -> SimTx] /\ tx'[s] = t
      /\ \A z \in Sessions : z # s => tx'[z] = tx[z]
  BY DEF Goto, SimInv, SimTypeOK
<1>2. SimTypeOK' /\ FeedReplays' /\ NothingBeforeStart'
  BY <1>1 DEF SimInv, SimTypeOK, FeedReplays, NothingBeforeStart
<1>3. OneLock'
  BY <1>1 DEF SimInv, OneLock
<1>4. BowlsFromRow'
  BY <1>1 DEF BowlsFromRow
<1>5. ListedOK'
  BY <1>1 DEF SimInv, ListedOK
<1>. QED BY <1>2, <1>3, <1>4, <1>5 DEF SimInv

\* A step that writes a market, with a new version, keeps the invariant, if
\* the writer crosses it off or is not a session of the engine.
LEMMA MarketStep ==
  ASSUME SimInv, NEW m \in Markets, NEW row \in MarketRows,
         row.version = markets[m].version + 1, markets' = [markets EXCEPT ![m] = row],
         tx' \in [Sessions -> SimTx],
         \A z \in Sessions :
           /\ tx'[z].pc = tx[z].pc /\ tx'[z].copy = tx[z].copy /\ tx'[z].rows = tx[z].rows
           /\ tx'[z].todo \subseteq tx[z].todo
           /\ (tx'[z].locked => tx[z].locked)
           /\ (tx[z].pc = "bowl" => tx'[z] = tx[z]),
         UNCHANGED <<match, event, feed, faults>>, admin' \in 0 .. MaxDisturbances
  PROVE  SimInv'
<1>1. SimTypeOK' /\ FeedReplays' /\ NothingBeforeStart'
  BY DEF SimInv, SimTypeOK, FeedReplays, NothingBeforeStart
<1>2. OneLock' /\ BowlsFromRow'
  BY DEF SimInv, OneLock, BowlsFromRow
<1>3. ListedOK'
  <2>. SUFFICES ASSUME NEW z \in Sessions, tx'[z].pc \in {"reopen", "suspend", "settle"},
                       NEW n \in Markets
                PROVE  /\ tx'[z].rows[n].version <= markets'[n].version
                       /\ tx'[z].rows[n].version = markets'[n].version
                            => tx'[z].rows[n] = markets'[n]
                       /\ n \in tx'[z].todo => tx'[z].rows[n].status \in From(tx'[z].pc)
    BY DEF ListedOK
  <2>1. /\ tx[z].rows[n].version <= markets[n].version
        /\ tx[z].rows[n].version = markets[n].version => tx[z].rows[n] = markets[n]
        /\ n \in tx[z].todo => tx[z].rows[n].status \in From(tx[z].pc)
    BY DEF SimInv, ListedOK
  <2>2. tx[z].rows[n].version \in Nat /\ markets[n].version \in Nat
    BY DEF SimInv, SimTypeOK, SimTx, MarketRows
  <2>3. markets'[n] = IF n = m THEN row ELSE markets[n]
    BY DEF SimInv, SimTypeOK
  <2>. QED BY <2>1, <2>2, <2>3
<1>. QED BY <1>1, <1>2, <1>3 DEF SimInv

\* A step that reads and leaves the session in a place where it relies on nothing
\* keeps the invariant.
LEMMA PlainRead ==
  ASSUME SimInv, NEW s \in Sessions, NEW t \in SimTx, Reads(s, t),
         t.pc \notin {"bowl", "reopen", "suspend", "settle"}, t.locked => tx[s].locked
  PROVE  SimInv'
<1>1. faults' \in 0 .. MaxDisturbances
  BY DEF Reads, SimInv, SimTypeOK
<1>2. ReadOK(s, t)
  BY DEF ReadOK
<1>. QED BY <1>1, <1>2, ReadStep DEF Reads

-----------------------------------------------------------------------------
(* The actions                                                              *)

\* Calls of the engine.
LEMMA CallKeeps ==
  ASSUME SimInv, NEW s \in Sessions, Call(s)
  PROVE  SimInv'
<1>. USE StartShapes
<1>0. match \in MatchRows /\ event \in EventStatuses /\ faults \in 0 .. MaxDisturbances
  BY DEF SimInv, SimTypeOK
<1>1. CASE StartEvent(s)
  <2>. DEFINE t == [IdleSim EXCEPT !.pc = "startRead", !.event = event]
  <2>1. t \in SimTx /\ t.pc = "startRead" /\ ~ t.locked
    BY <1>0 DEF SimTx, SimPCs
  <2>2. Reads(s, t)
    BY <1>1 DEF StartEvent
  <2>. HIDE DEF t
  <2>. QED BY <2>1, <2>2, PlainRead
<1>2. ASSUME NEW pc \in {"pauseRead", "finishRead", "resumeRead"}, Begin(s, pc)
      PROVE  SimInv'
  <2>. DEFINE t == [IdleSim EXCEPT !.pc = pc]
  <2>1. pc \in SimPCs
    BY DEF SimPCs
  <2>2. t \in SimTx /\ t.pc = pc /\ ~ t.locked
    BY <2>1, MovedShape
  <2>3. Reads(s, t)
    BY <1>2 DEF Begin
  <2>. HIDE DEF t
  <2>. QED BY <2>2, <2>3, PlainRead
<1>3. CASE TickBegin(s)
  <2>1. CASE match.status # "LIVE"
    <3>. DEFINE u == [IdleSim EXCEPT !.over = TRUE]
                t == Returned(u)
    <3>1. u \in SimTx
      BY DEF SimTx
    <3>2. t \in SimTx /\ t.pc = "done" /\ ~ t.locked
      BY <3>1, ReturnedShape
    <3>3. Reads(s, t)
      BY <1>3, <2>1 DEF TickBegin
    <3>. HIDE DEF t, u
    <3>. QED BY <3>2, <3>3, PlainRead
  <2>2. CASE match.status = "LIVE" /\ match.suspended
    <3>. DEFINE t == [[IdleSim EXCEPT !.locked = TRUE] EXCEPT !.pc = "list", !.phase = "reopen"]
    <3>1. t \in SimTx /\ t.pc = "list"
      BY DEF SimTx, SimPCs
    <3>2. Reads(s, t) /\ LockFree(s)
      BY <1>3, <2>2 DEF TickBegin
    <3>. HIDE DEF t
    <3>3. ReadOK(s, t)
      BY <3>1, <3>2 DEF ReadOK
    <3>. QED BY <1>0, <3>1, <3>2, <3>3, ReadStep DEF Reads
  <2>3. CASE match.status = "LIVE" /\ ~ match.suspended
    <3>. DEFINE t == [[IdleSim EXCEPT !.locked = TRUE] EXCEPT !.pc = "bowl", !.copy = match]
    <3>1. t \in SimTx /\ t.pc = "bowl" /\ t.locked /\ t.copy = match
      BY <1>0 DEF SimTx, SimPCs
    <3>2. Reads(s, t) /\ LockFree(s)
      BY <1>3, <2>3 DEF TickBegin
    <3>. HIDE DEF t
    <3>3. ReadOK(s, t)
      BY <2>3, <3>1, <3>2 DEF ReadOK
    <3>. QED BY <1>0, <3>1, <3>2, <3>3, ReadStep DEF Reads
  <2>. QED BY <2>1, <2>2, <2>3
<1>. QED BY <1>1, <1>2, <1>3 DEF Call

\* Returns, and steps that end a call without a commit.
LEMMA EndKeeps ==
  ASSUME SimInv, NEW s \in Sessions,
         Return(s) \/ Fail(s) \/ StartDuplicate(s) \/ SettleDone(s)
           \/ (\E m \in Markets : SettleStale(s, m))
  PROVE  SimInv'
<1>. USE StartShapes
<1>0. tx[s] \in SimTx /\ faults \in 0 .. MaxDisturbances
  BY DEF SimInv, SimTypeOK
<1>1. CASE Return(s)
  BY <1>1, PlainRead DEF Return
<1>2. CASE Fail(s)
  <2>1. /\ Returned(IdleSim) \in SimTx /\ Returned(IdleSim).pc = "done"
        /\ ~ Returned(IdleSim).locked
    BY ReturnedShape
  <2>2. ReadOK(s, Returned(IdleSim))
    BY <2>1 DEF ReadOK
  <2>3. admin \in Nat /\ faults \in Nat /\ MaxDisturbances \in Nat
    BY SimulatorNumbers DEF SimInv, SimTypeOK
  <2>4. faults' \in 0 .. MaxDisturbances
    BY <1>2, <2>3 DEF Fail
  <2>. QED BY <1>2, <2>1, <2>2, <2>4, ReadStep DEF Fail
<1>3. ASSUME NEW t \in SimTx, Reads(s, Returned(t))
      PROVE  SimInv'
  BY <1>3, ReturnedShape, PlainRead
<1>4. CASE StartDuplicate(s)
  BY <1>0, <1>3, <1>4 DEF StartDuplicate
<1>5. CASE SettleDone(s)
  BY <1>0, <1>3, <1>5 DEF SettleDone
<1>6. CASE \E m \in Markets : SettleStale(s, m)
  BY <1>3, <1>6 DEF SettleStale
<1>. QED BY <1>1, <1>2, <1>4, <1>5, <1>6

\* The reads of start, pause, resume and finish, and the read after a commit.
LEMMA ReadKeeps ==
  ASSUME SimInv, NEW s \in Sessions,
         StartRead(s) \/ PauseRead(s) \/ ResumeRead(s) \/ FinishRead(s) \/ Refresh(s)
  PROVE  SimInv'
<1>. USE StartShapes
<1>0. tx[s] \in SimTx /\ match \in MatchRows /\ match.winner \in Teams \cup {"none"}
  BY DEF SimInv, SimTypeOK, MatchRows
<1>1. ASSUME NEW t \in SimTx, Reads(s, Returned(t)) PROVE SimInv'
  BY <1>1, ReturnedShape, PlainRead
<1>2. ASSUME NEW t \in SimTx, Reads(s, [Returned(t) EXCEPT !.start = TRUE]) PROVE SimInv'
  <2>. DEFINE u == [Returned(t) EXCEPT !.start = TRUE]
  <2>1. u \in SimTx /\ u.pc = "done" /\ ~ u.locked
    BY ReturnedShape
  <2>2. Reads(s, u)
    BY <1>2
  <2>. HIDE DEF u
  <2>. QED BY <2>1, <2>2, PlainRead
<1>3. ASSUME NEW pc \in {"pause", "resume"}, Reads(s, [tx[s] EXCEPT !.pc = pc]) PROVE SimInv'
  <2>. DEFINE u == [tx[s] EXCEPT !.pc = pc]
  <2>0. pc \in SimPCs
    BY DEF SimPCs
  <2>1. u \in SimTx /\ u.pc = pc /\ u.locked = tx[s].locked
    BY <1>0, <2>0, MovedShape
  <2>2. Reads(s, u)
    BY <1>3
  <2>. HIDE DEF u
  <2>. QED BY <2>1, <2>2, PlainRead
<1>4. ASSUME NEW pc \in {"start", "finish"}, Reads(s, [tx[s] EXCEPT !.pc = pc, !.copy = match])
      PROVE  SimInv'
  <2>. DEFINE t == tx[s]
              u == [t EXCEPT !.pc = pc, !.copy = match]
  <2>0. pc \in SimPCs /\ match \in MatchRows /\ t \in SimTx
    BY <1>0 DEF SimPCs
  <2>1. Reads(s, u)
    BY <1>4
  <2>. HIDE DEF t
  <2>2. u \in SimTx /\ u.pc = pc /\ u.locked = t.locked
    BY <2>0 DEF SimTx
  <2>3. t.locked = tx[s].locked
    BY DEF t
  <2>. HIDE DEF u
  <2>. QED BY <2>1, <2>2, <2>3, PlainRead
<1>5. CASE StartRead(s)
  BY <1>0, <1>2, <1>4, <1>5 DEF StartRead
<1>6. CASE PauseRead(s)
  BY <1>0, <1>1, <1>3, <1>6 DEF PauseRead
<1>7. CASE ResumeRead(s)
  BY <1>0, <1>1, <1>3, <1>7 DEF ResumeRead
<1>8. CASE FinishRead(s)
  BY <1>0, <1>1, <1>4, <1>8 DEF FinishRead
<1>9. CASE Refresh(s)
  <2>1. CASE tx[s].over
    <3>. DEFINE r == Returned(tx[s])
                u == [r EXCEPT !.pc = "event", !.copy.winner = match.winner]
    <3>1. r \in SimTx /\ ~ r.locked
      BY <1>0, ReturnedShape
    <3>2. Reads(s, u)
      BY <1>9, <2>1 DEF Refresh
    <3>. HIDE DEF r
    <3>3. [r.copy EXCEPT !.winner = match.winner] \in MatchRows
      BY <1>0, <3>1 DEF SimTx, MatchRows
    <3>4. u \in SimTx /\ u.pc = "event" /\ ~ u.locked
      BY <3>1, <3>3 DEF SimTx, SimPCs
    <3>. HIDE DEF u
    <3>. QED BY <3>2, <3>4, PlainRead
  <2>2. CASE ~ tx[s].over /\ match.suspended
    <3>. DEFINE u == [IdleSim EXCEPT !.pc = "list", !.phase = "suspend"]
    <3>1. u \in SimTx /\ u.pc = "list" /\ ~ u.locked
      BY DEF SimTx, SimPCs
    <3>2. Reads(s, u)
      BY <1>9, <2>2 DEF Refresh
    <3>. HIDE DEF u
    <3>. QED BY <3>1, <3>2, PlainRead
  <2>3. CASE ~ tx[s].over /\ ~ match.suspended
    BY <1>0, <1>1, <1>9, <2>3 DEF Refresh
  <2>. QED BY <2>1, <2>2, <2>3
<1>. QED BY <1>5, <1>6, <1>7, <1>8, <1>9

\* While a session may write the match state, no other is about to bowl.
LEMMA NobodyBowls ==
  ASSUME SimInv, NEW s \in Sessions, LockFree(s) \/ tx[s].pc = "bowl" \/ match.status # "LIVE"
  PROVE  \A z \in Sessions \ {s} : tx[z].pc # "bowl"
<1>1. \A z \in Sessions : tx[z].pc = "bowl" => tx[z].locked /\ match.status = "LIVE"
  BY DEF SimInv, BowlsFromRow
<1>. QED BY <1>1 DEF LockFree, SimInv, OneLock

\* The writes of the match state other than a ball keep the invariant.
LEMMA WriteKeeps ==
  ASSUME SimInv, NEW s \in Sessions,
         (\E target \in Targets : StartWrite(s, target))
           \/ PauseWrite(s) \/ ResumeWrite(s) \/ FinishWrite(s) \/ TickClear(s)
  PROVE  SimInv'
<1>. USE StartShapes
<1>0. tx[s] \in SimTx /\ match \in MatchRows /\ event \in EventStatuses
      /\ feed = match.score /\ feed \in Scores
      /\ (match.status = "NONE" => match.score = NoScore)
  BY DEF SimInv, SimTypeOK, FeedReplays, NothingBeforeStart
<1>. DEFINE Quick(t) == t \in SimTx /\ ~ t.locked
                          /\ t.pc \notin {"bowl", "reopen", "suspend", "settle"}
<1>1. Quick(Returned(tx[s])) /\ Quick([Returned(tx[s]) EXCEPT !.start = TRUE])
  BY <1>0, ReturnedShape
<1>2. Quick([IdleSim EXCEPT !.pc = "refresh", !.over = TRUE])
  BY DEF SimTx, SimPCs
<1>3. ASSUME NEW t, Quick(t), Goto(s, t), match' \in MatchRows, match'.score = match.score,
             match'.status = "NONE" => match'.score = NoScore,
             event' \in EventStatuses, UNCHANGED <<markets, feed, admin, faults>>,
             LockFree(s) \/ match.status # "LIVE"
      PROVE  SimInv'
  <2>1. \A z \in Sessions \ {s} : tx[z].pc # "bowl"
    BY <1>3, NobodyBowls
  <2>2. feed' = match'.score /\ feed' \in Scores
    BY <1>0, <1>3
  <2>. QED BY <1>3, <2>1, <2>2, MatchStep
<1>. HIDE DEF Quick
<1>4. ASSUME NEW target \in Targets, StartWrite(s, target)
      PROVE  SimInv'
  <2>. DEFINE t == [Returned(tx[s]) EXCEPT !.start = TRUE]
  <2>1. Goto(s, t) /\ event' \in EventStatuses /\ UNCHANGED <<markets, feed, admin, faults>>
    BY <1>0, <1>4 DEF StartWrite, EventStatuses
  <2>2. Quick(t)
    BY <1>1
  <2>. HIDE DEF t
  <2>3. CASE match.status = "NONE" /\ match' = [NoMatch EXCEPT !.status = "LIVE", !.target = target]
    <3>1. target \in Nat
      BY SimulatorNumbers, Zenon
    <3>2. match' \in MatchRows /\ match'.score = NoScore /\ match'.status = "LIVE"
      BY <2>3, <3>1 DEF MatchRows, SimStatuses, NoMatch
    <3>. QED BY <1>0, <1>3, <2>1, <2>2, <2>3, <3>2
  <2>4. CASE LockFree(s) /\ match' = [match EXCEPT !.status = "LIVE"]
    <3>1. match' \in MatchRows /\ match'.score = match.score /\ match'.status = "LIVE"
      BY <1>0, <2>4 DEF MatchRows, SimStatuses
    <3>. QED BY <1>3, <2>1, <2>2, <2>4, <3>1
  <2>. QED BY <1>4, <2>3, <2>4 DEF StartWrite
<1>5. CASE PauseWrite(s)
  <2>1. match' \in MatchRows /\ match'.score = match.score /\ match'.status = "PAUSED"
    BY <1>0, <1>5 DEF PauseWrite, MatchRows, SimStatuses
  <2>. QED BY <1>0, <1>1, <1>3, <1>5, <2>1 DEF PauseWrite
<1>6. CASE ResumeWrite(s)
  <2>1. match' \in MatchRows /\ match'.score = match.score /\ match'.status = "LIVE"
    BY <1>0, <1>6 DEF ResumeWrite, MatchRows, SimStatuses
  <2>. QED BY <1>0, <1>1, <1>3, <1>6, <2>1 DEF ResumeWrite
<1>7. CASE FinishWrite(s)
  <2>1. Winner(tx[s].copy.score, tx[s].copy.target) \in Teams
    BY DEF Winner, Teams
  <2>2. match' \in MatchRows /\ match'.score = match.score /\ match'.status = "COMPLETED"
    BY <1>0, <1>7, <2>1 DEF FinishWrite, MatchRows, SimStatuses
  <2>. QED BY <1>0, <1>2, <1>3, <1>7, <2>2 DEF FinishWrite
<1>8. CASE TickClear(s)
  <2>1. match' \in MatchRows /\ match'.score = match.score /\ match'.status = match.status
    BY <1>0, <1>8 DEF TickClear, MatchRows
  <2>. QED BY <1>0, <1>1, <1>3, <1>8, <2>1 DEF TickClear
<1>. QED BY <1>4, <1>5, <1>6, <1>7, <1>8

\* A ball keeps the invariant: the tick's copy is the row.
LEMMA BallKeeps ==
  ASSUME SimInv, NEW s \in Sessions, NEW ball \in Balls, TickBall(s, ball)
  PROVE  SimInv'
<1>. USE StartShapes
<1>. DEFINE score == AddBall(tx[s].copy.score, ball)
            over == InningsOver(score, tx[s].copy.target)
            winner == Winner(score, tx[s].copy.target)
            t == [IdleSim EXCEPT !.pc = "refresh", !.over = over]
<1>1. tx[s].pc = "bowl" /\ tx[s].copy = match /\ match.status = "LIVE"
  BY DEF TickBall, SimInv, BowlsFromRow
<1>2. match \in MatchRows /\ feed = match.score /\ feed \in Scores /\ event \in EventStatuses
  BY DEF SimInv, SimTypeOK, FeedReplays
<1>3. score = AddBall(feed, ball) /\ score \in Scores
  BY <1>1, <1>2, BallShape
<1>4. winner \in Teams /\ over \in BOOLEAN
  BY DEF Winner, Teams, InningsOver
<1>5. t \in SimTx /\ t.pc = "refresh" /\ ~ t.locked
  <2>. HIDE DEF over
  <2>1. "refresh" \in SimPCs
    BY DEF SimPCs
  <2>. QED BY <1>4, <2>1 DEF SimTx
<1>6. Goto(s, t) /\ feed' = AddBall(feed, ball) /\ UNCHANGED <<event, markets, admin, faults>>
  BY DEF TickBall
<1>7. match' = [match EXCEPT
                  !.score = score,
                  !.status = IF over THEN "COMPLETED" ELSE @,
                  !.winner = IF over THEN winner ELSE @,
                  !.suspended = @ \/ (~ over /\ ball.wickets = 1)]
  BY DEF TickBall
<1>. HIDE DEF score, over, winner, t
<1>8. match' \in MatchRows /\ match'.score = score /\ match'.status \in {"LIVE", "COMPLETED"}
  <2>1. match.suspended \/ (~ over /\ ball.wickets = 1) \in BOOLEAN
    OBVIOUS
  <2>. QED BY <1>1, <1>2, <1>3, <1>4, <1>7, <2>1, ZenonT(60) DEF MatchRows, SimStatuses
<1>9. \A z \in Sessions \ {s} : tx[z].pc # "bowl"
  BY <1>1, NobodyBowls
<1>. QED BY <1>2, <1>3, <1>5, <1>6, <1>8, <1>9, MatchStep

\* The event's status, and the list of markets.
LEMMA ListKeeps ==
  ASSUME SimInv, NEW s \in Sessions, EventComplete(s) \/ ListMarkets(s)
  PROVE  SimInv'
<1>0. /\ tx[s] \in SimTx /\ match \in MatchRows /\ markets \in [Markets -> MarketRows]
      /\ feed = match.score /\ feed \in Scores /\ faults \in 0 .. MaxDisturbances
      /\ (match.status = "NONE" => match.score = NoScore)
  BY DEF SimInv, SimTypeOK, FeedReplays, NothingBeforeStart
<1>1. CASE EventComplete(s)
  <2>. DEFINE u == [tx[s] EXCEPT !.pc = "list", !.phase = "settle"]
  <2>1. Goto(s, u) /\ event' = "COMPLETED" /\ UNCHANGED <<match, markets, feed, admin, faults>>
    BY <1>1 DEF EventComplete
  <2>2. u \in SimTx /\ u.pc = "list" /\ u.locked = tx[s].locked
    BY <1>0 DEF SimTx, SimPCs
  <2>. HIDE DEF u
  <2>3. event' \in EventStatuses
    BY <2>1 DEF EventStatuses
  <2>4. /\ tx' \in [Sessions -> SimTx] /\ tx'[s] = u
        /\ \A z \in Sessions : z # s => tx'[z] = tx[z]
    BY <2>1, <2>2 DEF Goto, SimInv, SimTypeOK
  <2>5. SimTypeOK' /\ FeedReplays' /\ NothingBeforeStart'
    BY <2>1, <2>3, <2>4 DEF SimInv, SimTypeOK, FeedReplays, NothingBeforeStart
  <2>6. OneLock' /\ BowlsFromRow'
    BY <2>1, <2>2, <2>4 DEF SimInv, OneLock, BowlsFromRow
  <2>7. ListedOK'
    BY <2>1, <2>2, <2>4 DEF SimInv, ListedOK
  <2>. QED BY <2>5, <2>6, <2>7 DEF SimInv
<1>2. CASE ListMarkets(s)
  <2>. DEFINE listed == {m \in Markets : markets[m].status \in From(tx[s].phase)}
              u == [tx[s] EXCEPT !.pc = tx[s].phase, !.rows = markets, !.todo = listed]
  <2>1. Reads(s, u)
    BY <1>2 DEF ListMarkets
  <2>2. tx[s].phase \in {"reopen", "suspend", "settle"} /\ tx[s].phase \in SimPCs
    BY <1>0 DEF SimTx, SimPCs
  <2>3. \A m \in listed : markets[m].status \in From(tx[s].phase)
    OBVIOUS
  <2>4. listed \in SUBSET Markets
    OBVIOUS
  <2>. HIDE DEF listed
  <2>5. u \in SimTx /\ u.pc = tx[s].phase /\ u.locked = tx[s].locked
        /\ u.rows = markets /\ u.todo = listed
    BY <1>0, <2>2, <2>4 DEF SimTx
  <2>. HIDE DEF u
  <2>6. \A m \in Markets : markets[m].version \in Nat
    BY <1>0 DEF MarketRows
  <2>7. ReadOK(s, u)
    BY <2>2, <2>3, <2>5, <2>6 DEF ReadOK
  <2>. QED BY <1>0, <2>1, <2>5, <2>7, ReadStep DEF Reads
<1>. QED BY <1>1, <1>2

\* What a session that works on listed markets knows of them.
LEMMA Listed ==
  ASSUME SimInv, NEW s \in Sessions, tx[s].pc \in {"reopen", "suspend", "settle"},
         NEW m \in tx[s].todo, SameVersion(s, m)
  PROVE  m \in Markets /\ markets[m].status # "SETTLED"
<1>1. m \in Markets
  BY DEF SimInv, SimTypeOK, SimTx
<1>2. tx[s].rows[m] = markets[m] /\ tx[s].rows[m].status \in From(tx[s].pc)
  BY <1>1 DEF SimInv, ListedOK, SameVersion
<1>3. "SETTLED" \notin From(tx[s].pc)
  BY DEF From
<1>. QED BY <1>1, <1>2, <1>3

\* A market that is settled, suspended or reopened by a session keeps the invariant.
LEMMA MarketKeeps ==
  ASSUME SimInv, NEW s \in Sessions, NEW m \in Markets, SettleMarket(s, m) \/ Transition(s, m)
  PROVE  SimInv'
<1>0. /\ tx[s] \in SimTx /\ markets[m] \in MarketRows /\ tx[s].todo \ {m} \in SUBSET Markets
      /\ tx \in [Sessions -> SimTx] /\ admin \in 0 .. MaxDisturbances
      /\ tx[s].copy.winner \in Teams \cup {"none"}
  BY DEF SimInv, SimTypeOK, SimTx, MatchRows
<1>1. ASSUME NEW u \in SimTx, Goto(s, u), tx[s].pc # "bowl",
             u.pc = tx[s].pc, u.copy = tx[s].copy, u.rows = tx[s].rows,
             u.todo \subseteq tx[s].todo, u.locked => tx[s].locked
      PROVE  /\ tx' \in [Sessions -> SimTx]
             /\ \A z \in Sessions :
                  /\ tx'[z].pc = tx[z].pc /\ tx'[z].copy = tx[z].copy /\ tx'[z].rows = tx[z].rows
                  /\ tx'[z].todo \subseteq tx[z].todo
                  /\ (tx'[z].locked => tx[z].locked)
                  /\ (tx[z].pc = "bowl" => tx'[z] = tx[z])
  BY <1>0, <1>1 DEF Goto
<1>2. CASE SettleMarket(s, m)
  <2>. DEFINE u == [tx[s] EXCEPT !.todo = @ \ {m}]
              row == [status |-> "SETTLED", version |-> markets[m].version + 1,
                      paid |-> tx[s].copy.winner]
  <2>1. Goto(s, u) /\ markets' = [markets EXCEPT ![m] = row]
        /\ UNCHANGED <<match, event, feed, admin, faults>> /\ tx[s].pc # "bowl"
    BY <1>2 DEF SettleMarket
  <2>2. u \in SimTx /\ u.pc = tx[s].pc /\ u.copy = tx[s].copy /\ u.rows = tx[s].rows
        /\ u.todo \subseteq tx[s].todo /\ u.locked = tx[s].locked
    BY <1>0 DEF SimTx
  <2>3. "SETTLED" \in MarketStatuses
    BY DEF MarketStatuses
  <2>4. row \in MarketRows /\ row.version = markets[m].version + 1
    BY <1>0, <2>3, WrittenMarket
  <2>. HIDE DEF u, row
  <2>. QED BY <1>0, <1>1, <2>1, <2>2, <2>4, MarketStep
<1>3. CASE Transition(s, m)
  <2>. DEFINE u == [tx[s] EXCEPT !.todo = @ \ {m}, !.locked = FALSE]
              status == IF tx[s].pc = "reopen" THEN "OPEN" ELSE "SUSPENDED"
              row == [markets[m] EXCEPT !.status = status, !.version = @ + 1]
  <2>1. Goto(s, u) /\ UNCHANGED <<match, event, feed, admin, faults>> /\ tx[s].pc # "bowl"
    BY <1>3 DEF Transition
  <2>2. u \in SimTx /\ u.pc = tx[s].pc /\ u.copy = tx[s].copy /\ u.rows = tx[s].rows
        /\ u.todo \subseteq tx[s].todo /\ ~ u.locked
    BY <1>0 DEF SimTx
  <2>3. status \in MarketStatuses
    BY DEF MarketStatuses
  <2>4. markets' = [markets EXCEPT ![m] = row]
    BY <1>3 DEF Transition
  <2>. HIDE DEF status
  <2>5. row \in MarketRows /\ row.version = markets[m].version + 1
    BY <1>0, <2>3, WrittenMarket
  <2>. HIDE DEF u, row
  <2>. QED BY <1>0, <1>1, <2>1, <2>2, <2>4, <2>5, MarketStep
<1>. QED BY <1>2, <1>3

\* So does one an admin suspends, reopens or closes.
LEMMA AdminKeeps ==
  ASSUME SimInv, NEW m \in Markets, NEW target \in MarketStatuses, AdminTransition(m, target)
  PROVE  SimInv'
<1>. DEFINE row == [markets[m] EXCEPT !.status = target, !.version = @ + 1]
<1>1. markets[m] \in MarketRows /\ tx \in [Sessions -> SimTx] /\ admin \in 0 .. MaxDisturbances
  BY DEF SimInv, SimTypeOK
<1>2. row \in MarketRows /\ row.version = markets[m].version + 1
  BY <1>1, WrittenMarket
<1>3. markets' = [markets EXCEPT ![m] = row] /\ UNCHANGED <<match, event, feed, tx, faults>>
  BY DEF AdminTransition
<1>4. admin' \in 0 .. MaxDisturbances
  <2>1. admin \in Nat /\ faults \in Nat /\ MaxDisturbances \in Nat
    BY SimulatorNumbers DEF SimInv, SimTypeOK
  <2>. QED BY <2>1 DEF AdminTransition
<1>. HIDE DEF row
<1>. QED BY <1>1, <1>2, <1>3, <1>4, MarketStep

\* A swallowed conflict, and the end of a loop over markets.
LEMMA ConflictKeeps ==
  ASSUME SimInv, NEW s \in Sessions,
         TransitionsLogged(s) \/ (\E m \in Markets : TransitionConflict(s, m))
  PROVE  SimInv'
<1>. USE StartShapes
<1>0. tx[s] \in SimTx /\ faults \in 0 .. MaxDisturbances
  BY DEF SimInv, SimTypeOK
<1>1. ASSUME NEW t \in SimTx, Reads(s, Returned(t)) PROVE SimInv'
  BY <1>1, ReturnedShape, PlainRead
<1>2. CASE TransitionsLogged(s)
  <2>. DEFINE u == [IdleSim EXCEPT !.pc = "clear"]
  <2>1. "clear" \in SimPCs
    BY DEF SimPCs
  <2>2. u \in SimTx /\ u.pc = "clear" /\ ~ u.locked
    BY <2>1, MovedShape
  <2>3. CASE Reads(s, u)
    <3>. HIDE DEF u
    <3>. QED BY <2>2, <2>3, PlainRead
  <2>. QED BY <1>0, <1>1, <1>2, <2>3 DEF TransitionsLogged
<1>3. CASE \E m \in Markets : TransitionConflict(s, m)
  <2>. DEFINE u == [tx[s] EXCEPT !.todo = {}, !.locked = FALSE]
  <2>1. u \in SimTx /\ u.pc = tx[s].pc /\ u.rows = tx[s].rows /\ u.todo = {} /\ ~ u.locked
    BY <1>0 DEF SimTx
  <2>2. CASE Reads(s, u) /\ tx[s].pc \in {"reopen", "suspend"}
    <3>. HIDE DEF u
    <3>1. ReadOK(s, u)
      BY <2>1, <2>2 DEF ReadOK, SimInv, ListedOK
    <3>. QED BY <1>0, <2>1, <2>2, <3>1, ReadStep DEF Reads
  <2>. QED BY <1>1, <1>3, <2>2 DEF TransitionConflict
<1>. QED BY <1>2, <1>3

-----------------------------------------------------------------------------
(* Theorems                                                                 *)

\* Every step of any session or admin keeps the invariant.
LEMMA SimStep ==
  ASSUME SimInv, [SimNext]_simVars
  PROVE  SimInv'
<1>1. CASE UNCHANGED simVars
  BY <1>1 DEF simVars, SimInv, SimTypeOK, FeedReplays, NothingBeforeStart, OneLock,
              BowlsFromRow, ListedOK
<1>2. ASSUME NEW s \in Sessions, Continue(s) PROVE SimInv'
  BY <1>2, EndKeeps, ReadKeeps, WriteKeeps, BallKeeps, ListKeeps, MarketKeeps, ConflictKeeps
     DEF Continue
<1>3. ASSUME NEW s \in Sessions, Call(s) \/ Return(s) \/ Fail(s) PROVE SimInv'
  BY <1>3, CallKeeps, EndKeeps
<1>4. ASSUME NEW m \in Markets, NEW target \in MarketStatuses, AdminTransition(m, target)
      PROVE  SimInv'
  BY <1>4, AdminKeeps
<1>. QED BY <1>1, <1>2, <1>3, <1>4 DEF SimNext

\* The start satisfies it.
LEMMA SimStart == SimInit => SimInv
<1>. SUFFICES ASSUME SimInit PROVE SimInv
  OBVIOUS
<1>. USE StartShapes
<1>1. SimTypeOK
  BY SimulatorNumbers DEF SimInit, SimTypeOK, EventStatuses, MarketRows, MarketStatuses
<1>2. FeedReplays /\ NothingBeforeStart
  BY DEF SimInit, FeedReplays, NothingBeforeStart, NoMatch
<1>3. OneLock /\ BowlsFromRow /\ ListedOK
  BY DEF SimInit, OneLock, BowlsFromRow, ListedOK
<1>. QED BY <1>1, <1>2, <1>3 DEF SimInv

\* The inductive invariant, of the engine called in any way by any number of
\* sessions.
THEOREM SimInvariant == SimSpec => []SimInv
<1>1. SimInv /\ [SimNext]_simVars => SimInv'
  BY SimStep
<1>. QED BY SimStart, <1>1, PTL DEF SimSpec

\* Every variable keeps its shape.
THEOREM SimTypeCorrect == SimSpec => []SimTypeOK
<1>1. SimInv => SimTypeOK
  BY DEF SimInv
<1>. QED BY SimInvariant, <1>1, PTL

\* The play-by-play adds up to the score, whatever ticks and admin operations
\* run at the same time, and wherever they die.
THEOREM FeedReplayed == SimSpec => []FeedReplays
<1>1. SimInv => FeedReplays
  BY DEF SimInv
<1>. QED BY SimInvariant, <1>1, PTL

\* Only a tick changes the score.
LEMMA OnlyBallsScore ==
  ASSUME SimInv, SimNext, match'.score # match.score
  PROVE  match.status = "LIVE" /\ ~ match.suspended
<1>1. PICK s \in Sessions :
        (\E target \in Targets : StartWrite(s, target)) \/ PauseWrite(s) \/ ResumeWrite(s)
          \/ FinishWrite(s) \/ TickClear(s) \/ (\E ball \in Balls : TickBall(s, ball))
  <2>1. match' # match
    OBVIOUS
  <2>. QED
    BY <2>1, ZenonT(60) DEF SimNext, Call, Continue, Return, Fail, Reads, Begin, StartEvent, StartRead,
       StartDuplicate, PauseRead, ResumeRead, TickBegin, Refresh, FinishRead, EventComplete,
       SettleMarket, SettleStale, SettleDone, ListMarkets, Transition, TransitionConflict,
       TransitionsLogged, AdminTransition
<1>2. CASE \E ball \in Balls : TickBall(s, ball)
  BY <1>2 DEF TickBall, SimInv, BowlsFromRow
<1>3. match \in MatchRows
  BY DEF SimInv, SimTypeOK
<1>4. CASE \E target \in Targets : StartWrite(s, target)
  <2>1. CASE match' = [match EXCEPT !.status = "LIVE"]
    BY <1>3, <2>1 DEF MatchRows
  <2>2. ASSUME match.status = "NONE", NEW target,
               match' = [NoMatch EXCEPT !.status = "LIVE", !.target = target]
        PROVE  match'.score = match.score
    BY <2>2 DEF SimInv, NothingBeforeStart, NoMatch
  <2>. QED BY <1>4, <2>1, <2>2 DEF StartWrite
<1>5. CASE PauseWrite(s) \/ ResumeWrite(s) \/ FinishWrite(s) \/ TickClear(s)
  BY <1>3, <1>5 DEF PauseWrite, ResumeWrite, FinishWrite, TickClear, MatchRows
<1>. QED BY <1>1, <1>2, <1>4, <1>5

\* A ball is bowled on a match that is LIVE and has its markets open at that moment.
THEOREM BowledLive == SimSpec => BowledOnlyWhileLive
<1>1. SimInv /\ [SimNext]_simVars
        => [match'.score # match.score => match.status = "LIVE" /\ ~ match.suspended]_simVars
  BY OnlyBallsScore
<1>. QED BY SimInvariant, <1>1, PTL DEF SimSpec, BowledOnlyWhileLive

\* A step leaves the settled markets alone.
LEMMA SettledKept ==
  ASSUME SimInv, SimNext, NEW m \in Markets, markets[m].status = "SETTLED"
  PROVE  markets'[m] = markets[m]
<1>0. markets \in [Markets -> MarketRows]
  BY DEF SimInv, SimTypeOK
<1>1. CASE markets' = markets
  BY <1>1
<1>2. CASE markets' # markets
  <2>1. \/ \E s \in Sessions, n \in Markets : SettleMarket(s, n) \/ Transition(s, n)
        \/ \E n \in Markets, target \in MarketStatuses : AdminTransition(n, target)
    BY <1>2, ZenonT(60) DEF SimNext, Call, Continue, Return, Fail, Reads, Begin, StartEvent, StartRead,
       StartWrite, StartDuplicate, PauseRead, PauseWrite, ResumeRead, ResumeWrite, TickBegin,
       TickBall, Refresh, FinishRead, FinishWrite, EventComplete, SettleStale, SettleDone,
       ListMarkets, TransitionConflict, TransitionsLogged, TickClear
  <2>2. ASSUME NEW s \in Sessions, NEW n \in Markets, SettleMarket(s, n) \/ Transition(s, n)
        PROVE  markets'[m] = markets[m]
    <3>1. markets[n].status # "SETTLED"
      BY <2>2, Listed DEF SettleMarket, Transition
    <3>. QED BY <1>0, <2>2, <3>1 DEF SettleMarket, Transition
  <2>3. ASSUME NEW n \in Markets, NEW target \in MarketStatuses, AdminTransition(n, target)
        PROVE  markets'[m] = markets[m]
    BY <1>0, <2>3 DEF AdminTransition
  <2>. QED BY <2>1, <2>2, <2>3
<1>. QED BY <1>1, <1>2

\* A settled market stays as it is, however old a session's list of markets.
THEOREM SettledMarketKept == SimSpec => SettledMarketIsFinal
<1>1. SimInv /\ [SimNext]_simVars
        => [\A m \in Markets : markets[m].status = "SETTLED" => markets'[m] = markets[m]]_simVars
  BY SettledKept
<1>. QED BY SimInvariant, <1>1, PTL DEF SimSpec, SettledMarketIsFinal

-----------------------------------------------------------------------------
(* One session: each call returns before the next is made                   *)

\* It is enough that what the session goes on with fits the rows it leaves.
LEMMA SoloStep ==
  ASSUME SimInv, NEW s \in Sessions, Sessions = {s}, NEW t, Goto(s, t), WinnerByScore',
         t.pc = "finish" => t.copy = match',
         admin' = 0 => SuspendedIsFlagged' /\ ReopensOK(t)'
  PROVE  SoloInv'
<1>1. tx'[s] = t
  BY DEF Goto, SimInv, SimTypeOK
<1>2. ReopensOK(t)' => ReopensOK(tx[s])'
  BY <1>1 DEF ReopensOK
<1>. QED BY <1>1, <1>2 DEF SoloInv

\* Nothing to keep in mind for a session at these places.
LEMMA SoloFree ==
  ASSUME NEW t, t.pc \notin {"finish", "reopen", "suspend", "clear", "list"}
  PROVE  ReopensOK(t)'
  BY DEF ReopensOK

\* A step that writes neither the match nor a market.
LEMMA SoloRead ==
  ASSUME SimInv, SoloInv, NEW s \in Sessions, Sessions = {s}, NEW t, Goto(s, t),
         UNCHANGED <<match, markets, admin>>,
         t.pc = "finish" => t.copy = match, admin = 0 => ReopensOK(t)
  PROVE  SoloInv'
<1>1. WinnerByScore' /\ (admin = 0 => SuspendedIsFlagged')
  BY DEF SoloInv, WinnerByScore, Winner, SuspendedIsFlagged
<1>2. admin = 0 => ReopensOK(t)'
  BY DEF ReopensOK
<1>. QED BY <1>1, <1>2, SoloStep

\* Most such steps lead where there is nothing to keep in mind.
LEMMA SoloPlainRead ==
  ASSUME SimInv, SoloInv, NEW s \in Sessions, Sessions = {s}, NEW t, Goto(s, t),
         UNCHANGED <<match, markets, admin>>,
         t.pc \notin {"finish", "reopen", "suspend", "clear", "list"}
  PROVE  SoloInv'
<1>1. ReopensOK(t)
  BY DEF ReopensOK
<1>. QED BY <1>1, SoloRead

\* Calls, and reads that list nothing.
LEMMA SoloReads ==
  ASSUME SimInv, SoloInv, NEW s \in Sessions, Sessions = {s},
         \/ Call(s) \/ Return(s) \/ Fail(s) \/ StartDuplicate(s) \/ SettleDone(s)
         \/ \E m \in Markets : SettleStale(s, m)
         \/ StartRead(s) \/ PauseRead(s) \/ ResumeRead(s) \/ FinishRead(s) \/ Refresh(s)
  PROVE  SoloInv'
<1>. USE DEF Reads
<1>0. tx[s] \in SimTx /\ IdleSim \in SimTx /\ IdleSim.pc = "idle"
  BY StartShapes DEF SimInv, SimTypeOK
<1>1. ASSUME NEW t \in SimTx, Goto(s, Returned(t)), UNCHANGED <<match, markets, admin>>
      PROVE  SoloInv'
  BY <1>1, ReturnedShape, SoloPlainRead
<1>2. ASSUME NEW t \in SimTx, NEW pc \in SimPCs \ {"finish", "reopen", "suspend", "clear", "list"},
             Goto(s, [t EXCEPT !.pc = pc]), UNCHANGED <<match, markets, admin>>
      PROVE  SoloInv'
  BY <1>2, MovedShape, SoloPlainRead
<1>3. CASE Return(s) \/ Fail(s) \/ StartDuplicate(s) \/ SettleDone(s)
             \/ (\E m \in Markets : SettleStale(s, m))
  <2>1. CASE Return(s)
    BY <1>0, <2>1, SoloPlainRead DEF Return
  <2>. QED BY <1>0, <1>1, <1>3, <2>1 DEF Fail, StartDuplicate, SettleDone, SettleStale
<1>4. CASE StartEvent(s)
  <2>. DEFINE u == [IdleSim EXCEPT !.pc = "startRead", !.event = event]
  <2>1. Goto(s, u) /\ UNCHANGED <<match, markets, admin>>
    BY <1>4 DEF StartEvent
  <2>2. u.pc = "startRead"
    BY DEF IdleSim
  <2>. HIDE DEF u
  <2>. QED BY <2>1, <2>2, SoloPlainRead
<1>5. CASE TickBegin(s)
  <2>. DEFINE u == [[IdleSim EXCEPT !.locked = TRUE] EXCEPT !.pc = "list", !.phase = "reopen"]
              v == [[IdleSim EXCEPT !.locked = TRUE] EXCEPT !.pc = "bowl", !.copy = match]
              w == Returned([IdleSim EXCEPT !.over = TRUE])
  <2>1. /\ Goto(s, w) \/ Goto(s, u) \/ Goto(s, v)
        /\ UNCHANGED <<match, markets, admin>>
    BY <1>5 DEF TickBegin
  <2>2. u.pc = "list" /\ u.phase = "reopen" /\ v.pc = "bowl" /\ w.pc = "done"
    BY DEF IdleSim, Returned
  <2>. HIDE DEF u, v, w
  <2>3. ReopensOK(u)
    BY <2>2 DEF ReopensOK
  <2>. QED BY <2>1, <2>2, <2>3, SoloPlainRead, SoloRead
<1>6. CASE Begin(s, "pauseRead") \/ Begin(s, "finishRead") \/ Begin(s, "resumeRead")
  BY <1>0, <1>2, <1>6 DEF Begin, SimPCs
<1>7. CASE StartRead(s)
  <2>. DEFINE u == [tx[s] EXCEPT !.pc = "start", !.copy = match]
              v == [Returned(tx[s]) EXCEPT !.start = TRUE]
  <2>1. Goto(s, u) \/ Goto(s, v)
    BY <1>7 DEF StartRead
  <2>2. u.pc = "start" /\ v.pc = "done"
    BY <1>0, ReturnedShape DEF SimTx
  <2>. HIDE DEF u, v
  <2>. QED BY <1>7, <2>1, <2>2, SoloPlainRead DEF StartRead
<1>8. CASE PauseRead(s) \/ ResumeRead(s)
  BY <1>0, <1>1, <1>2, <1>8 DEF PauseRead, ResumeRead, SimPCs
<1>9. CASE FinishRead(s)
  <2>. DEFINE u == [tx[s] EXCEPT !.pc = "finish", !.copy = match]
  <2>1. CASE Goto(s, u) /\ UNCHANGED <<match, markets, admin>>
    <3>1. u.pc = "finish" /\ u.copy = match
      BY <1>0 DEF SimTx
    <3>. HIDE DEF u
    <3>2. ReopensOK(u)
      BY <3>1 DEF ReopensOK
    <3>. QED BY <2>1, <3>1, <3>2, SoloRead
  <2>. QED BY <1>0, <1>1, <1>9, <2>1 DEF FinishRead
<1>10. CASE Refresh(s)
  <2>. DEFINE u == [IdleSim EXCEPT !.pc = "list", !.phase = "suspend"]
              v == [Returned(tx[s]) EXCEPT !.pc = "event", !.copy.winner = match.winner]
  <2>1. \/ Goto(s, v) \/ Goto(s, Returned(tx[s]))
        \/ Goto(s, u) /\ match.suspended
    BY <1>10 DEF Refresh
  <2>2. UNCHANGED <<match, markets, admin>>
    BY <1>10 DEF Refresh
  <2>3. u.pc = "list" /\ v.pc = "event"
    BY DEF IdleSim, Returned
  <2>. HIDE DEF u, v
  <2>4. match.suspended => ReopensOK(u)
    BY <2>3 DEF ReopensOK
  <2>. QED BY <1>0, <1>1, <2>1, <2>2, <2>3, <2>4, SoloPlainRead, SoloRead
<1>. QED BY <1>3, <1>4, <1>5, <1>6, <1>7, <1>8, <1>9, <1>10 DEF Call

\* Steps that write the match: a winner is the one by the score, the flag stays
\* up, or goes when nothing is suspended any more.
LEMMA SoloMatchWrites ==
  ASSUME SimInv, SoloInv, NEW s \in Sessions, Sessions = {s},
         (\E target \in Targets : StartWrite(s, target))
           \/ PauseWrite(s) \/ ResumeWrite(s) \/ FinishWrite(s) \/ TickClear(s)
           \/ (\E ball \in Balls : TickBall(s, ball))
  PROVE  SoloInv'
<1>0. match \in MatchRows /\ tx[s] \in SimTx
  BY DEF SimInv, SimTypeOK
<1>1. ASSUME NEW t, Goto(s, t), t.pc \in {"done", "refresh"}, UNCHANGED <<markets, admin>>,
             WinnerByScore', admin = 0 => SuspendedIsFlagged'
      PROVE  SoloInv'
  BY <1>1, SoloFree, SoloStep
<1>2. /\ WinnerByScore
      /\ admin = 0 => /\ \A m \in Markets : markets[m].status = "SUSPENDED" => match.suspended
                      /\ match.status = "NONE" => ~ match.suspended
                      /\ ReopensOK(tx[s])
  BY DEF SoloInv, SuspendedIsFlagged
<1>3. ASSUME NEW status \in {"LIVE", "PAUSED"}, match' = [match EXCEPT !.status = status],
             UNCHANGED <<markets, admin>>
      PROVE  WinnerByScore' /\ (admin = 0 => SuspendedIsFlagged')
  <2>1. match'.status = status /\ match'.suspended = match.suspended
    BY <1>0, <1>3 DEF MatchRows
  <2>. QED BY <1>2, <1>3, <2>1 DEF WinnerByScore, SuspendedIsFlagged
<1>4. ASSUME NEW target \in Targets, StartWrite(s, target) PROVE SoloInv'
  <2>. DEFINE u == [Returned(tx[s]) EXCEPT !.start = TRUE]
  <2>1. Goto(s, u) /\ UNCHANGED <<markets, admin>>
    BY <1>4 DEF StartWrite
  <2>2. u.pc = "done"
    BY <1>0, ReturnedShape
  <2>3. CASE match' = [match EXCEPT !.status = "LIVE"]
    <3>. HIDE DEF u
    <3>. QED BY <1>1, <1>3, <2>1, <2>2, <2>3
  <2>4. CASE match.status = "NONE" /\ match' = [NoMatch EXCEPT !.status = "LIVE", !.target = target]
    <3>1. match'.status = "LIVE" /\ match'.suspended = FALSE
      BY <2>4 DEF NoMatch
    <3>2. WinnerByScore' /\ (admin = 0 => SuspendedIsFlagged')
      BY <1>2, <2>1, <2>4, <3>1 DEF WinnerByScore, SuspendedIsFlagged
    <3>. HIDE DEF u
    <3>. QED BY <1>1, <2>1, <2>2, <3>2
  <2>. QED BY <1>4, <2>3, <2>4 DEF StartWrite
<1>5. CASE PauseWrite(s)
  BY <1>0, <1>1, <1>3, <1>5, ReturnedShape DEF PauseWrite
<1>6. CASE ResumeWrite(s)
  <2>. DEFINE u == [Returned(tx[s]) EXCEPT !.start = TRUE]
  <2>1. Goto(s, u) /\ UNCHANGED <<markets, admin>> /\ match' = [match EXCEPT !.status = "LIVE"]
    BY <1>6 DEF ResumeWrite
  <2>2. u.pc = "done"
    BY <1>0, ReturnedShape
  <2>. HIDE DEF u
  <2>. QED BY <1>1, <1>3, <2>1, <2>2
<1>7. CASE FinishWrite(s)
  <2>. DEFINE u == [IdleSim EXCEPT !.pc = "refresh", !.over = TRUE]
              winner == Winner(match.score, match.target)
  <2>1. tx[s].pc = "finish" /\ tx[s].copy = match
    BY <1>7 DEF FinishWrite, SoloInv
  <2>2. Goto(s, u) /\ UNCHANGED <<markets, admin>>
    BY <1>7 DEF FinishWrite
  <2>3. match' = [match EXCEPT !.status = "COMPLETED",
                               !.winner = IF winner # match.winner THEN winner ELSE @]
    BY <1>7, <2>1 DEF FinishWrite
  <2>4. u.pc = "refresh"
    BY DEF IdleSim
  <2>. HIDE DEF u, winner
  <2>5. /\ match'.status = "COMPLETED" /\ match'.winner = winner
        /\ match'.score = match.score /\ match'.target = match.target
        /\ match'.suspended = match.suspended
    BY <1>0, <2>3 DEF MatchRows
  <2>6. WinnerByScore'
    BY <2>5 DEF WinnerByScore, Winner, winner
  <2>7. admin = 0 => SuspendedIsFlagged'
    BY <1>2, <2>2, <2>5 DEF SuspendedIsFlagged
  <2>. QED BY <1>1, <2>2, <2>4, <2>6, <2>7
<1>8. CASE TickClear(s)
  <2>1. /\ Goto(s, Returned(tx[s])) /\ UNCHANGED <<markets, admin>> /\ tx[s].pc = "clear"
        /\ match' = [match EXCEPT !.suspended = FALSE]
    BY <1>8 DEF TickClear
  <2>2. match'.suspended = FALSE /\ match'.status = match.status /\ match'.score = match.score
        /\ match'.target = match.target /\ match'.winner = match.winner
    BY <1>0, <2>1 DEF MatchRows
  <2>3. admin = 0 => \A m \in Markets : markets[m].status # "SUSPENDED"
    BY <1>2, <2>1 DEF ReopensOK
  <2>4. WinnerByScore' /\ (admin = 0 => SuspendedIsFlagged')
    BY <1>2, <2>1, <2>2, <2>3 DEF WinnerByScore, Winner, SuspendedIsFlagged
  <2>. QED BY <1>0, <1>1, <2>1, <2>4, ReturnedShape
<1>9. ASSUME NEW ball \in Balls, TickBall(s, ball) PROVE SoloInv'
  <2>. DEFINE score == AddBall(match.score, ball)
              over == InningsOver(score, match.target)
              u == [IdleSim EXCEPT !.pc = "refresh", !.over = over]
  <2>1. tx[s].copy = match /\ match.status = "LIVE"
    BY <1>9 DEF TickBall, SimInv, BowlsFromRow
  <2>2. Goto(s, u) /\ UNCHANGED <<markets, admin>>
    BY <1>9, <2>1 DEF TickBall
  <2>3. match' = [match EXCEPT
                    !.score = score,
                    !.status = IF over THEN "COMPLETED" ELSE @,
                    !.winner = IF over THEN Winner(score, match.target) ELSE @,
                    !.suspended = @ \/ (~ over /\ ball.wickets = 1)]
    BY <1>9, <2>1 DEF TickBall
  <2>4. u.pc = "refresh"
    BY DEF IdleSim
  <2>. HIDE DEF u, score, over
  <2>5. /\ match'.score = score /\ match'.target = match.target
        /\ match'.status = IF over THEN "COMPLETED" ELSE "LIVE"
        /\ match'.winner = IF over THEN Winner(score, match.target) ELSE match.winner
        /\ match.suspended => match'.suspended
    BY <1>0, <2>1, <2>3 DEF MatchRows
  <2>6. WinnerByScore'
    BY <2>5 DEF WinnerByScore, Winner
  <2>7. admin = 0 => SuspendedIsFlagged'
    BY <1>2, <2>2, <2>5 DEF SuspendedIsFlagged
  <2>. QED BY <1>1, <2>2, <2>4, <2>6, <2>7
<1>. QED BY <1>4, <1>5, <1>6, <1>7, <1>8, <1>9

\* Steps over listed markets.
LEMMA SoloMarkets ==
  ASSUME SimInv, SoloInv, NEW s \in Sessions, Sessions = {s},
         \/ EventComplete(s) \/ ListMarkets(s) \/ TransitionsLogged(s)
         \/ \E m \in Markets : SettleMarket(s, m) \/ Transition(s, m) \/ TransitionConflict(s, m)
  PROVE  SoloInv'
<1>0. /\ tx[s] \in SimTx /\ markets \in [Markets -> MarketRows] /\ IdleSim \in SimTx
      /\ \A m \in Markets : markets[m].version \in Nat
  BY StartShapes DEF SimInv, SimTypeOK, MarketRows
<1>1. /\ WinnerByScore
      /\ admin = 0 => SuspendedIsFlagged /\ ReopensOK(tx[s])
  BY DEF SoloInv
<1>2. CASE EventComplete(s)
  <2>. DEFINE u == [tx[s] EXCEPT !.pc = "list", !.phase = "settle"]
  <2>1. Goto(s, u) /\ UNCHANGED <<match, markets, admin>>
    BY <1>2 DEF EventComplete
  <2>2. u.pc = "list" /\ u.phase = "settle"
    BY <1>0 DEF SimTx
  <2>. HIDE DEF u
  <2>3. ReopensOK(u)
    BY <2>2 DEF ReopensOK
  <2>. QED BY <2>1, <2>2, <2>3, SoloRead
<1>3. CASE ListMarkets(s)
  <2>. DEFINE listed == {m \in Markets : markets[m].status \in From(tx[s].phase)}
              u == [tx[s] EXCEPT !.pc = tx[s].phase, !.rows = markets, !.todo = listed]
  <2>1. Goto(s, u) /\ UNCHANGED <<match, markets, admin>> /\ tx[s].pc = "list"
    BY <1>3 DEF ListMarkets, Reads
  <2>2. tx[s].phase \in {"reopen", "suspend", "settle"}
    BY <1>0 DEF SimTx
  <2>3. u.pc = tx[s].phase /\ u.phase = tx[s].phase /\ u.rows = markets /\ u.todo = listed
    BY <1>0 DEF SimTx
  <2>4. u.pc = "reopen" => \A m \in Markets \ listed : markets[m].status # "SUSPENDED"
    BY <2>3 DEF From
  <2>5. listed \subseteq Markets
    OBVIOUS
  <2>. HIDE DEF u, listed
  <2>6. admin = 0 => ReopensOK(u)
    BY <1>1, <2>1, <2>2, <2>3, <2>4 DEF ReopensOK
  <2>. QED BY <2>1, <2>2, <2>3, <2>6, SoloRead
<1>4. CASE TransitionsLogged(s)
  <2>. DEFINE u == [IdleSim EXCEPT !.pc = "clear"]
  <2>1. CASE tx[s].pc = "reopen" /\ Goto(s, u)
    <3>1. u.pc = "clear"
      BY DEF IdleSim
    <3>. HIDE DEF u
    <3>2. admin = 0 => \A m \in Markets : markets[m].status # "SUSPENDED"
      BY <1>1, <1>4, <2>1 DEF TransitionsLogged, ReopensOK
    <3>3. admin = 0 => ReopensOK(u)
      BY <3>1, <3>2 DEF ReopensOK
    <3>. QED BY <1>4, <2>1, <3>1, <3>3, SoloRead DEF TransitionsLogged, Reads
  <2>2. CASE Goto(s, Returned(tx[s]))
    BY <1>0, <1>4, <2>2, ReturnedShape, SoloPlainRead DEF TransitionsLogged, Reads
  <2>. QED BY <1>4, <2>1, <2>2 DEF TransitionsLogged, Reads
<1>5. ASSUME NEW m \in Markets, SettleMarket(s, m) PROVE SoloInv'
  <2>. DEFINE u == [tx[s] EXCEPT !.todo = @ \ {m}]
  <2>1. Goto(s, u) /\ UNCHANGED <<match, admin>> /\ tx[s].pc = "settle"
    BY <1>5 DEF SettleMarket
  <2>2. u.pc = "settle"
    BY <1>0, <2>1 DEF SimTx
  <2>3. \A n \in Markets : markets'[n] = markets[n] \/ markets'[n].status = "SETTLED"
    BY <1>0, <1>5 DEF SettleMarket
  <2>. HIDE DEF u
  <2>4. WinnerByScore' /\ (admin = 0 => SuspendedIsFlagged')
    BY <1>1, <2>1, <2>3 DEF WinnerByScore, Winner, SuspendedIsFlagged
  <2>. QED BY <2>1, <2>2, <2>4, SoloFree, SoloStep
<1>6. ASSUME NEW m \in Markets, Transition(s, m) PROVE SoloInv'
  <2>0. PICK u : u = [tx[s] EXCEPT !.todo = @ \ {m}, !.locked = FALSE]
    OBVIOUS
  <2>. DEFINE status == IF tx[s].pc = "reopen" THEN "OPEN" ELSE "SUSPENDED"
  <2>1. Goto(s, u) /\ UNCHANGED <<match, admin>> /\ tx[s].pc \in {"reopen", "suspend"}
    BY <1>6, <2>0 DEF Transition
  <2>2. u.pc = tx[s].pc /\ u.phase = tx[s].phase /\ u.rows = tx[s].rows /\ u.todo = tx[s].todo \ {m}
    BY <1>0, <2>0 DEF SimTx
  <2>3. /\ \A n \in Markets \ {m} : markets'[n] = markets[n]
        /\ markets'[m].status = status
    BY <1>0, <1>6 DEF Transition, MarketRows
  <2>4. tx[s].todo \subseteq Markets
    BY <1>0 DEF SimTx
  <2>5. admin = 0 => SuspendedIsFlagged' /\ ReopensOK(u)'
    <3>. SUFFICES ASSUME admin = 0 PROVE SuspendedIsFlagged' /\ ReopensOK(u)'
      OBVIOUS
    <3>1. tx[s].pc = "suspend" => match.suspended
      BY <1>1 DEF ReopensOK
    <3>2. SuspendedIsFlagged'
      BY <1>1, <2>1, <2>3, <3>1 DEF SuspendedIsFlagged
    <3>3. \A n \in u.todo : u.rows[n].version = markets'[n].version
      BY <1>1, <2>1, <2>2, <2>3, <2>4 DEF ReopensOK
    <3>4. u.pc = "reopen" => \A n \in Markets \ u.todo : markets'[n].status # "SUSPENDED"
      BY <1>1, <2>1, <2>2, <2>3 DEF ReopensOK
    <3>5. u.pc = "suspend" => match.suspended
      BY <1>1, <2>1, <2>2 DEF ReopensOK
    <3>. QED BY <2>1, <2>2, <3>2, <3>3, <3>4, <3>5 DEF ReopensOK
  <2>6. WinnerByScore'
    BY <1>1, <2>1 DEF WinnerByScore, Winner
  <2>. QED BY <2>1, <2>2, <2>5, <2>6, SoloStep
<1>7. ASSUME NEW m \in Markets, TransitionConflict(s, m) PROVE SoloInv'
  <2>. DEFINE u == [tx[s] EXCEPT !.todo = {}, !.locked = FALSE]
  <2>1. tx[s].pc \in {"reopen", "suspend"} /\ m \in tx[s].todo /\ ~ SameVersion(s, m)
        /\ UNCHANGED <<match, markets, admin>>
    BY <1>7 DEF TransitionConflict, Reads
  <2>2. admin # 0
    BY <1>1, <2>1 DEF ReopensOK, SameVersion
  <2>3. CASE Goto(s, u)
    <3>1. u.pc = tx[s].pc
      BY <1>0 DEF SimTx
    <3>. HIDE DEF u
    <3>. QED BY <2>1, <2>2, <2>3, <3>1, SoloRead
  <2>4. CASE Goto(s, Returned(IdleSim))
    BY <1>0, <2>1, <2>4, ReturnedShape, SoloPlainRead
  <2>. QED BY <1>7, <2>3, <2>4 DEF TransitionConflict, Reads
<1>. QED BY <1>2, <1>3, <1>4, <1>5, <1>6, <1>7

\* Whatever an admin does to a market, the match is not touched.
LEMMA SoloAdmin ==
  ASSUME SimInv, SoloInv, NEW m \in Markets, NEW target \in MarketStatuses, AdminTransition(m, target)
  PROVE  SoloInv'
<1>1. admin \in Nat /\ admin' = admin + 1 /\ UNCHANGED <<match, tx>>
  BY SimulatorNumbers DEF AdminTransition, SimInv, SimTypeOK
<1>2. admin' # 0
  BY <1>1
<1>. QED BY <1>1, <1>2 DEF SoloInv, WinnerByScore, Winner

\* Every step of the one session or of an admin keeps the invariant.
LEMMA SoloNext ==
  ASSUME Solo, SimInv, SoloInv, [SimNext]_simVars
  PROVE  SoloInv'
<1>1. CASE UNCHANGED simVars
  BY <1>1 DEF simVars, SoloInv, WinnerByScore, Winner, SuspendedIsFlagged, ReopensOK
<1>2. PICK s : Sessions = {s}
  BY DEF Solo
<1>3. CASE Call(s) \/ Continue(s) \/ Return(s) \/ Fail(s)
  BY <1>2, <1>3, SoloReads, SoloMatchWrites, SoloMarkets DEF Continue
<1>4. ASSUME NEW m \in Markets, NEW target \in MarketStatuses, AdminTransition(m, target)
      PROVE  SoloInv'
  BY <1>4, SoloAdmin
<1>. QED BY <1>1, <1>2, <1>3, <1>4 DEF SimNext

\* The start satisfies it.
LEMMA SoloStart == SimInit => SoloInv
  BY DEF SimInit, SoloInv, WinnerByScore, NoMatch, SuspendedIsFlagged, ReopensOK, IdleSim

\* The inductive invariant of one session.
LEMMA SoloInvariant == Solo => (SimSpec => [](SimInv /\ SoloInv))
<1>. SUFFICES ASSUME Solo PROVE SimSpec => [](SimInv /\ SoloInv)
  OBVIOUS
<1>1. SimInv /\ SoloInv /\ [SimNext]_simVars => SoloInv'
  BY SoloNext
<1>. QED BY SimInvariant, SoloStart, <1>1, PTL DEF SimSpec

\* A match that is over was won by the team the score on the board names, also after
\* a restart, and whether a ball or an admin has ended it, where one call returns before the next.
THEOREM WonByScore == Solo => (SimSpec => []WinnerByScore)
<1>. SUFFICES ASSUME Solo PROVE SimSpec => []WinnerByScore
  OBVIOUS
<1>1. SoloInv => WinnerByScore
  BY DEF SoloInv
<1>. QED BY SoloInvariant, <1>1, PTL

\* Between two calls a suspended market has its flag in the match state, wherever
\* an earlier tick has died, where one call returns before the next and no admin interferes.
THEOREM SuspendedReopens == Solo => (SimSpec => []SuspendedWillReopen)
<1>. SUFFICES ASSUME Solo PROVE SimSpec => []SuspendedWillReopen
  OBVIOUS
<1>1. SoloInv => SuspendedWillReopen
  BY DEF SoloInv, SuspendedIsFlagged, SuspendedWillReopen
<1>. QED BY SoloInvariant, <1>1, PTL

-----------------------------------------------------------------------------
(* The runner: every set of tasks and requests                              *)

\* The inductive invariant: that of the engine, the shapes, and the registry.
RunnerInv == SimInv /\ TypeOK /\ RegisteredRuns

\* Tasks and requests call the engine in sessions of their own.
LEMMA Callers ==
  /\ \A t \in Loops : t \in Sessions /\ t \notin Requests /\ t # "none"
  /\ \A q \in Requests : q \in Sessions /\ q \notin Loops
  BY CallersAssumption

\* A step of one session leaves the others alone.
LEMMA SessionOnly ==
  ASSUME tx \in [Sessions -> SimTx], NEW s \in Sessions,
         Call(s) \/ Continue(s) \/ Return(s) \/ Fail(s), NEW z \in Sessions \ {s}
  PROVE  tx'[z] = tx[z]
<1>1. PICK t : Goto(s, t)
  BY DEF Call, Continue, Return, Fail, Reads, Begin, StartEvent, StartRead, StartWrite,
     StartDuplicate, PauseRead, PauseWrite, ResumeRead, ResumeWrite, TickBegin, TickBall,
     Refresh, FinishRead, FinishWrite, EventComplete, SettleMarket, SettleStale, SettleDone,
     ListMarkets, Transition, TransitionConflict, TransitionsLogged, TickClear
<1>. QED BY <1>1 DEF Goto

\* Whatever a task or a request does to the tables, the engine may do; only the
\* end of a cancelled task and a restart are no steps of it.
LEMMA EngineStep ==
  ASSUME [Next]_vars,
         \A t \in Loops : ~ LoopUnwind(t),
         ~ Restart
  PROVE  [SimNext]_simVars
<1>1. CASE UNCHANGED vars
  BY <1>1 DEF vars, simVars
<1>2. ASSUME NEW t \in Loops,
             LoopTick(t) \/ LoopStep(t) \/ LoopAgain(t) \/ LoopEnds(t) \/ LoopInFlight(t)
      PROVE  SimNext
  <2>1. t \in Sessions
    BY Callers
  <2>. QED
    BY <1>2, <2>1 DEF LoopTick, LoopStep, LoopAgain, LoopEnds, LoopInFlight, SimNext, Call
<1>3. ASSUME NEW q \in Requests,
             RequestStart(q) \/ RequestStop(q) \/ RequestTick(q) \/ RequestStep(q)
               \/ RequestReturn(q)
      PROVE  SimNext
  <2>1. q \in Sessions
    BY Callers
  <2>. QED
    BY <1>3, <2>1 DEF RequestStart, RequestStop, RequestTick, RequestStep, RequestReturn,
       SimNext, Call
<1>4. ASSUME \E m \in Markets, target \in MarketStatuses : AdminTransition(m, target)
      PROVE  SimNext
  BY <1>4 DEF SimNext
<1>. QED BY <1>1, <1>2, <1>3, <1>4 DEF Next

\* A restart leaves no call under way.
LEMMA RestartKeeps ==
  ASSUME SimInv, Restart
  PROVE  SimInv'
<1>. USE StartShapes
<1>1. tx' = [s \in Sessions |-> IdleSim] /\ UNCHANGED <<match, event, markets, feed, admin>>
  BY DEF Restart
<1>2. faults' \in 0 .. MaxDisturbances
  BY SimulatorNumbers DEF Restart, SimInv, SimTypeOK
<1>3. SimTypeOK' /\ FeedReplays' /\ NothingBeforeStart'
  BY <1>1, <1>2 DEF SimInv, SimTypeOK, FeedReplays, NothingBeforeStart
<1>4. OneLock' /\ BowlsFromRow' /\ ListedOK'
  BY <1>1 DEF OneLock, BowlsFromRow, ListedOK
<1>. QED BY <1>3, <1>4 DEF SimInv

\* Every step keeps the invariant of the engine.
LEMMA EngineKept ==
  ASSUME SimInv, [Next]_vars
  PROVE  SimInv'
<1>1. CASE Restart
  BY <1>1, RestartKeeps
<1>2. ASSUME NEW t \in Loops, LoopUnwind(t) PROVE SimInv'
  BY <1>2, Callers, StartShapes, PlainRead DEF LoopUnwind
<1>3. CASE ~ Restart /\ \A t \in Loops : ~ LoopUnwind(t)
  BY <1>3, EngineStep, SimStep
<1>. QED BY <1>1, <1>2, <1>3

\* What is left to show of a step: the registry and the tasks, and that a task
\* in no tick has no session open.
TasksOK ==
  /\ loop \in [Loops -> LoopStates]
  /\ registry \in Loops \cup {"none"}
  /\ \A t \in Loops : loop[t] \in {"absent", "asleep"} => tx[t] = IdleSim
  /\ RegisteredRuns

\* A step of a task.
LEMMA LoopKeeps ==
  ASSUME RunnerInv, NEW t \in Loops,
         LoopTick(t) \/ LoopStep(t) \/ LoopAgain(t) \/ LoopEnds(t) \/ LoopInFlight(t)
           \/ LoopUnwind(t)
  PROVE  TasksOK'
<1>0. /\ loop \in [Loops -> LoopStates] /\ registry \in Loops \cup {"none"}
      /\ tx \in [Sessions -> SimTx] /\ t \in Sessions
      /\ \A z \in Loops : loop[z] \in {"absent", "asleep"} => tx[z] = IdleSim
  BY Callers DEF RunnerInv, TypeOK, SimInv, SimTypeOK
<1>1. ASSUME NEW z \in Loops, z # t PROVE tx'[z] = tx[z]
  <2>1. z \in Sessions \ {t}
    BY <1>1, Callers
  <2>2. CASE LoopUnwind(t)
    BY <1>0, <2>1, <2>2 DEF LoopUnwind, Reads, Goto
  <2>3. CASE ~ LoopUnwind(t)
    <3>1. Call(t) \/ Continue(t) \/ Return(t) \/ Fail(t)
      BY <2>3 DEF LoopTick, LoopStep, LoopAgain, LoopEnds, LoopInFlight, Call
    <3>. QED BY <1>0, <2>1, <3>1, SessionOnly
  <2>. QED BY <2>2, <2>3
<1>2. ASSUME NEW state \in LoopStates, loop' = [loop EXCEPT ![t] = state],
             registry' \in {registry, "none"},
             state \in {"absent", "asleep"} => tx'[t] = IdleSim,
             registry' = t => state \in {"asleep", "ticking"}
      PROVE  TasksOK'
  <2>1. loop' \in [Loops -> LoopStates] /\ registry' \in Loops \cup {"none"}
    BY <1>0, <1>2
  <2>2. \A z \in Loops : loop'[z] = IF z = t THEN state ELSE loop[z]
    BY <1>0, <1>2
  <2>3. \A z \in Loops : loop'[z] \in {"absent", "asleep"} => tx'[z] = IdleSim
    BY <1>0, <1>1, <1>2, <2>2
  <2>4. RegisteredRuns'
    BY <1>0, <1>2, <2>2 DEF RegisteredRuns, IsRunning, RunnerInv
  <2>. QED BY <2>1, <2>3, <2>4 DEF TasksOK
<1>3. loop[t] \in LoopStates /\ (registry = t => loop[t] \in {"asleep", "ticking"})
  BY <1>0, Callers DEF RunnerInv, RegisteredRuns, IsRunning
<1>4. /\ "absent" \in LoopStates /\ "asleep" \in LoopStates /\ "ticking" \in LoopStates
      /\ "cancelled" \in LoopStates
  BY DEF LoopStates
<1>5. ASSUME Return(t) PROVE tx'[t] = IdleSim
  BY <1>0, <1>5 DEF Return, Reads, Goto
<1>6. CASE LoopTick(t)
  BY <1>2, <1>4, <1>6 DEF LoopTick
<1>7. CASE LoopStep(t)
  <2>1. loop' = [loop EXCEPT ![t] = "ticking"] /\ registry' = registry
    BY <1>0, <1>7 DEF LoopStep, Unregistered
  <2>. QED BY <1>2, <1>4, <2>1
<1>8. CASE LoopAgain(t)
  BY <1>2, <1>4, <1>5, <1>8 DEF LoopAgain
<1>9. CASE LoopEnds(t)
  BY <1>2, <1>4, <1>5, <1>9, Callers DEF LoopEnds
<1>10. CASE LoopInFlight(t)
  BY <1>2, <1>3, <1>4, <1>10 DEF LoopInFlight
<1>11. CASE LoopUnwind(t)
  <2>1. tx'[t] = IdleSim
    BY <1>0, <1>11 DEF LoopUnwind, Reads, Goto
  <2>. QED BY <1>2, <1>4, <1>11, <2>1, Callers DEF LoopUnwind
<1>. QED BY <1>6, <1>7, <1>8, <1>9, <1>10, <1>11

\* A step of a request.
LEMMA RequestKeeps ==
  ASSUME RunnerInv, NEW q \in Requests,
         RequestStart(q) \/ RequestStop(q) \/ RequestTick(q) \/ RequestStep(q)
           \/ RequestReturn(q)
  PROVE  TasksOK'
<1>0. /\ loop \in [Loops -> LoopStates] /\ registry \in Loops \cup {"none"}
      /\ tx \in [Sessions -> SimTx]
      /\ \A z \in Loops : loop[z] \in {"absent", "asleep"} => tx[z] = IdleSim
      /\ RegisteredRuns
  BY DEF RunnerInv, TypeOK, SimInv, SimTypeOK
<1>1. ASSUME NEW z \in Loops PROVE tx'[z] = tx[z]
  <2>1. q \in Sessions /\ z \in Sessions \ {q}
    BY Callers
  <2>2. Call(q) \/ Continue(q) \/ Return(q) \/ Fail(q)
    BY DEF RequestStart, RequestStop, RequestTick, RequestStep, RequestReturn, Call
  <2>. QED BY <1>0, <2>1, <2>2, SessionOnly
<1>2. CASE UNCHANGED <<loop, registry>>
  BY <1>0, <1>1, <1>2 DEF TasksOK, RegisteredRuns, IsRunning
<1>3. CASE StopTask
  <2>1. registry' = "none"
    BY <1>3 DEF StopTask
  <2>2. CASE ~ IsRunning
    BY <1>0, <1>1, <1>3, <2>1, <2>2 DEF StopTask, TasksOK, RegisteredRuns, IsRunning
  <2>3. CASE IsRunning
    <3>. DEFINE state == IF loop[registry] = "ticking" THEN "inFlight" ELSE "cancelled"
    <3>1. loop' = [loop EXCEPT ![registry] = state] /\ registry \in Loops
      BY <1>0, <1>3, <2>3 DEF StopTask, IsRunning
    <3>2. state \in LoopStates /\ state \notin {"absent", "asleep"}
      BY DEF LoopStates
    <3>. HIDE DEF state
    <3>. QED BY <1>0, <1>1, <2>1, <3>1, <3>2 DEF TasksOK, RegisteredRuns, IsRunning
  <2>. QED BY <2>2, <2>3
<1>4. CASE StartTask
  <2>1. CASE IsRunning
    BY <1>2, <1>4, <2>1 DEF StartTask
  <2>2. CASE ~ IsRunning
    <3>1. PICK t \in Loops :
            loop[t] = "absent" /\ loop' = [loop EXCEPT ![t] = "asleep"] /\ registry' = t
      BY <1>4, <2>2 DEF StartTask
    <3>2. "asleep" \in LoopStates
      BY DEF LoopStates
    <3>. QED BY <1>0, <1>1, <3>1, <3>2 DEF TasksOK, RegisteredRuns, IsRunning
  <2>. QED BY <2>1, <2>2
<1>. QED
  BY <1>2, <1>3, <1>4 DEF RequestStart, RequestStop, RequestTick, RequestStep, RequestReturn,
     Unregistered

\* A restart.
LEMMA RestartTasks ==
  ASSUME RunnerInv, Restart
  PROVE  TasksOK'
<1>1. \A z \in Loops : tx'[z] = IdleSim
  BY Callers DEF Restart
<1>2. "asleep" \in LoopStates /\ "absent" \in LoopStates
  BY DEF LoopStates
<1>3. CASE match.status = "LIVE"
  <2>1. PICK t \in Loops :
          loop' = [z \in Loops |-> IF z = t THEN "asleep" ELSE "absent"] /\ registry' = t
    BY <1>3 DEF Restart
  <2>. QED BY <1>1, <1>2, <2>1 DEF TasksOK, RegisteredRuns, IsRunning
<1>4. CASE match.status # "LIVE"
  <2>1. loop' = [z \in Loops |-> "absent"] /\ registry' = "none"
    BY <1>4 DEF Restart
  <2>. QED BY <1>1, <1>2, <2>1 DEF TasksOK, RegisteredRuns, IsRunning
<1>. QED BY <1>3, <1>4

-----------------------------------------------------------------------------
(* Theorems                                                                 *)

\* Every step keeps the invariant.
LEMMA RunnerStep ==
  ASSUME RunnerInv, [Next]_vars
  PROVE  RunnerInv'
<1>1. SimInv'
  BY EngineKept DEF RunnerInv
<1>2. TasksOK'
  <2>1. CASE UNCHANGED <<tx, loop, registry>>
    BY <2>1 DEF RunnerInv, TypeOK, TasksOK, RegisteredRuns, IsRunning
  <2>2. ASSUME NEW m \in Markets, NEW target \in MarketStatuses,
               AdminTransition(m, target), Unregistered
        PROVE  TasksOK'
    BY <2>1, <2>2 DEF AdminTransition, Unregistered
  <2>. QED BY <2>1, <2>2, LoopKeeps, RequestKeeps, RestartTasks DEF Next, vars
<1>. QED BY <1>1, <1>2 DEF RunnerInv, TypeOK, TasksOK, SimInv

\* The start satisfies it.
LEMMA RunnerStart == Init => RunnerInv
<1>. SUFFICES ASSUME Init PROVE RunnerInv
  OBVIOUS
<1>1. SimInv
  BY SimStart DEF Init
<1>2. TasksOK
  BY Callers DEF Init, SimInit, TasksOK, LoopStates, RegisteredRuns, IsRunning
<1>. QED BY <1>1, <1>2 DEF RunnerInv, TypeOK, TasksOK, SimInv

\* The inductive invariant of the runner.
THEOREM RunnerInvariant == Spec => []RunnerInv
<1>1. RunnerInv /\ [Next]_vars => RunnerInv'
  BY RunnerStep
<1>. QED BY RunnerStart, <1>1, PTL DEF Spec

\* Every variable keeps its shape, and a task in no tick has no session open.
THEOREM RunnerTypeCorrect == Spec => []TypeOK
<1>1. RunnerInv => TypeOK
  BY DEF RunnerInv
<1>. QED BY RunnerInvariant, <1>1, PTL

\* A registered task is one that goes on ticking.
THEOREM RegisteredTasksRun == Spec => []RegisteredRuns
<1>1. RunnerInv => RegisteredRuns
  BY DEF RunnerInv
<1>. QED BY RunnerInvariant, <1>1, PTL

\* Restarts and cancelled tasks included, the play-by-play adds up to the score.
THEOREM RunnerFeedReplayed == Spec => []FeedReplays
<1>1. RunnerInv => FeedReplays
  BY DEF RunnerInv, SimInv
<1>. QED BY RunnerInvariant, <1>1, PTL
=============================================================================
