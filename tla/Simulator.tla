----------------------------- MODULE Simulator -----------------------------
(***************************************************************************)
(* The match simulator: SimulationEngine.start_match, pause_match,          *)
(* resume_match, finish_match and tick for one event, its match state and   *)
(* its markets, called by any number of database sessions at the same time. *)
(*                                                                          *)
(* tick alone reads the match state FOR UPDATE; the others read it without  *)
(* a lock, look at the copy, and send an UPDATE of the columns they         *)
(* changed, which waits for a tick's lock and then overwrites.  MatchState   *)
(* has no version column; Market has one.  Each operation commits several   *)
(* times, and gives its locks back at the first commit.                     *)
(*                                                                          *)
(* Quoting (_ensure_bot, _requote_all_markets) writes none of these tables  *)
(* and is part of the time between a session's last commit here and its     *)
(* return.  Every market of the event has the two teams as its selections.  *)
(***************************************************************************)
EXTENDS Integers

CONSTANTS
    Markets,           \* the markets of the event
    Sessions,          \* database sessions: how many calls run at once
    Targets,           \* the values random.randint may draw for target_runs
    BallRuns,          \* the runs a ball that is not a wicket may score
    MaxBalls,          \* max_overs * 6
    MaxWickets,        \* wickets that end the innings, 10 in the code
    MaxExtraBalls,     \* bound: balls after the last, before no one starts or resumes
    MaxDisturbances    \* bound: market transitions by an admin, calls that die,
                       \* restarts of the server, all together

ASSUME SimulatorNumbers ==
    /\ Targets \subseteq Nat /\ BallRuns \subseteq Nat
    /\ MaxBalls \in Nat /\ MaxWickets \in Nat /\ MaxExtraBalls \in Nat
    /\ MaxDisturbances \in Nat

VARIABLES
    match,    \* the committed match_states row
    event,    \* the event's committed status
    markets,  \* committed market rows: [status, version, paid]; paid is the team
              \* the market was settled for
    feed,     \* what the committed BALL entries of simulator_events add up to
    tx,       \* what each session is doing
    admin,    \* market transitions made by an admin so far
    faults    \* calls that died, restarts

simVars == <<match, event, markets, feed, tx, admin, faults>>

-----------------------------------------------------------------------------
(* Rows and sessions                                                        *)

SimStatuses == {"NONE", "LIVE", "PAUSED", "COMPLETED"}   \* NONE: no row yet
EventStatuses == {"SCHEDULED", "LIVE", "COMPLETED"}
MarketStatuses == {"OPEN", "SUSPENDED", "CLOSED", "SETTLED"}
Teams == {"batting", "bowling"}

Scores == [runs : Nat, wickets : Nat, balls : Nat]
NoScore == [runs |-> 0, wickets |-> 0, balls |-> 0]

MatchRows ==
    [status : SimStatuses, target : Nat, score : Scores,
     suspended : BOOLEAN, winner : Teams \cup {"none"}]
NoMatch ==
    [status |-> "NONE", target |-> 0, score |-> NoScore,
     suspended |-> FALSE, winner |-> "none"]

MarketRows == [status : MarketStatuses, version : Nat, paid : Teams \cup {"none"}]

SimPCs == {"idle", "startRead", "start", "pauseRead", "pause", "resumeRead", "resume",
           "finishRead", "finish", "bowl", "refresh", "event", "list",
           "reopen", "suspend", "settle", "clear", "done"}

IdleSim ==
    [pc |-> "idle", copy |-> NoMatch, event |-> "SCHEDULED",
     locked |-> FALSE,                  \* holds the row lock of the match state
     over |-> FALSE,                    \* tick: the match is no longer LIVE
     phase |-> "settle",                \* what the listed markets are for
     rows |-> [m \in Markets |-> [status |-> "OPEN", version |-> 0, paid |-> "none"]],
     todo |-> {},                       \* listed markets still to write
     start |-> FALSE]                   \* done: the caller starts the loop

SimTx ==
    [pc : SimPCs, copy : MatchRows, event : EventStatuses, locked : BOOLEAN,
     over : BOOLEAN, phase : {"reopen", "suspend", "settle"},
     rows : [Markets -> MarketRows], todo : SUBSET Markets, start : BOOLEAN]

\* Slip: tick reads the match state without FOR UPDATE.
NoLock(s) == TRUE

\* Can session s lock or update the match state?
LockFree(s) == \A z \in Sessions \ {s} : ~ tx[z].locked

\* Slip: the version of a market is not looked at.
UnversionedMarket(s, m) == TRUE

\* Market's version_id_col: no one has written the market since it was listed.
SameVersion(s, m) == tx[s].rows[m].version = markets[m].version

Goto(s, t) == tx' = [tx EXCEPT ![s] = t]
Returned(t) == [IdleSim EXCEPT !.pc = "done", !.over = t.over]

\* A step that reads, and writes no table.
Reads(s, t) == Goto(s, t) /\ UNCHANGED <<match, event, markets, feed, admin, faults>>

Begin(s, pc) == tx[s].pc = "idle" /\ Reads(s, [IdleSim EXCEPT !.pc = pc])

-----------------------------------------------------------------------------
(* start_match, pause_match, resume_match                                   *)

\* events.get_by_id.
StartEvent(s) ==
    /\ tx[s].pc = "idle"
    /\ match.score.balls < MaxBalls + MaxExtraBalls
    /\ Reads(s, [IdleSim EXCEPT !.pc = "startRead", !.event = event])

\* The existing match state; one that is LIVE or PAUSED is returned as it is.
StartRead(s) ==
    /\ tx[s].pc = "startRead"
    /\ Reads(s, IF match.status \in {"LIVE", "PAUSED"}
                THEN [Returned(tx[s]) EXCEPT !.start = TRUE]
                ELSE [tx[s] EXCEPT !.pc = "start", !.copy = match])

\* A new row if there was none, and no one else has inserted one since; the
\* old row otherwise.  The event's status is written if the copy differs.
StartWrite(s, target) ==
    LET t == tx[s]
    IN  /\ t.pc = "start"
        /\ \/ /\ t.copy.status = "NONE" /\ match.status = "NONE"
              /\ match' = [NoMatch EXCEPT !.status = "LIVE", !.target = target]
           \/ /\ t.copy.status # "NONE" /\ LockFree(s)
              /\ match' = [match EXCEPT !.status = "LIVE"]
        /\ event' = IF t.event # "LIVE" THEN "LIVE" ELSE event
        /\ Goto(s, [Returned(t) EXCEPT !.start = TRUE])
        /\ UNCHANGED <<markets, feed, admin, faults>>

\* The unique index on event_id: another start has inserted the row.
StartDuplicate(s) ==
    /\ tx[s].pc = "start" /\ tx[s].copy.status = "NONE" /\ match.status # "NONE"
    /\ Reads(s, Returned(tx[s]))

\* pause_match: 404 or 409 unless the match is LIVE.
PauseRead(s) ==
    /\ tx[s].pc = "pauseRead"
    /\ Reads(s, IF match.status = "LIVE" THEN [tx[s] EXCEPT !.pc = "pause"]
                ELSE Returned(tx[s]))

PauseWrite(s) ==
    /\ tx[s].pc = "pause" /\ LockFree(s)
    /\ match' = [match EXCEPT !.status = "PAUSED"]
    /\ Goto(s, Returned(tx[s]))
    /\ UNCHANGED <<event, markets, feed, admin, faults>>

\* resume_match: 404 or 409 unless the match is PAUSED.
ResumeRead(s) ==
    /\ tx[s].pc = "resumeRead"
    /\ Reads(s, IF match.status = "PAUSED" THEN [tx[s] EXCEPT !.pc = "resume"]
                ELSE Returned(tx[s]))

ResumeWrite(s) ==
    /\ tx[s].pc = "resume" /\ LockFree(s)
    /\ match' = [match EXCEPT !.status = "LIVE"]
    /\ Goto(s, [Returned(tx[s]) EXCEPT !.start = TRUE])
    /\ UNCHANGED <<event, markets, feed, admin, faults>>

-----------------------------------------------------------------------------
(* tick                                                                     *)

\* _BALL_OUTCOMES: runs, or a wicket.
Balls == [runs : BallRuns, wickets : {0}] \cup {[runs |-> 0, wickets |-> 1]}

AddBall(score, ball) ==
    [runs |-> score.runs + ball.runs, wickets |-> score.wickets + ball.wickets,
     balls |-> score.balls + 1]

\* _check_completion.
InningsOver(score, target) ==
    score.runs >= target \/ score.wickets >= MaxWickets \/ score.balls >= MaxBalls

\* Slip: one run short is a tie.
WinnerOrTie(score, target) ==
    IF score.runs >= target THEN "batting"
    ELSE IF score.runs + 1 = target THEN "tie" ELSE "bowling"

Winner(score, target) == IF score.runs >= target THEN "batting" ELSE "bowling"

\* get_for_update_by_event_id: a match that is not LIVE ends the loop; with
\* the markets suspended this tick reopens them; otherwise a ball is bowled.
TickBegin(s) ==
    LET t == [IdleSim EXCEPT !.locked = TRUE]
    IN  /\ tx[s].pc = "idle"
        /\ LockFree(s)
        /\ Reads(s, IF match.status # "LIVE" THEN Returned([IdleSim EXCEPT !.over = TRUE])
                    ELSE IF match.suspended THEN [t EXCEPT !.pc = "list", !.phase = "reopen"]
                    ELSE [t EXCEPT !.pc = "bowl", !.copy = match])

\* Slip: the winner is the one by the score before the ball.
TickBallEarly(s, ball) ==
    LET t == tx[s]
        score == AddBall(t.copy.score, ball)
        over == InningsOver(score, t.copy.target)
    IN  /\ t.pc = "bowl"
        /\ match' = [match EXCEPT
                !.score = score,
                !.status = IF over THEN "COMPLETED" ELSE @,
                !.winner = IF over THEN Winner(t.copy.score, t.copy.target) ELSE @,
                !.suspended = @ \/ (~ over /\ ball.wickets = 1)]
        /\ feed' = AddBall(feed, ball)
        /\ Goto(s, [IdleSim EXCEPT !.pc = "refresh", !.over = over])
        /\ UNCHANGED <<event, markets, admin, faults>>

\* The ball, its log entry, the end of the innings or the flag of a wicket, in
\* one commit, which gives the lock back.
TickBall(s, ball) ==
    LET t == tx[s]
        score == AddBall(t.copy.score, ball)
        over == InningsOver(score, t.copy.target)
    IN  /\ t.pc = "bowl"
        /\ match' = [match EXCEPT
                !.score = score,
                !.status = IF over THEN "COMPLETED" ELSE @,
                !.winner = IF over THEN Winner(score, t.copy.target) ELSE @,
                !.suspended = @ \/ (~ over /\ ball.wickets = 1)]
        /\ feed' = AddBall(feed, ball)
        /\ Goto(s, [IdleSim EXCEPT !.pc = "refresh", !.over = over])
        /\ UNCHANGED <<event, markets, admin, faults>>

\* The row is read again, and what follows looks at the new copy; of a match
\* that is over, only at its winner.
Refresh(s) ==
    /\ tx[s].pc = "refresh"
    /\ Reads(s, IF tx[s].over
                THEN [Returned(tx[s]) EXCEPT !.pc = "event", !.copy.winner = match.winner]
                ELSE IF match.suspended THEN [IdleSim EXCEPT !.pc = "list", !.phase = "suspend"]
                ELSE Returned(tx[s]))

-----------------------------------------------------------------------------
(* finish_match and _finalize_match                                         *)

\* A match that is COMPLETED is returned as it is.
FinishRead(s) ==
    /\ tx[s].pc = "finishRead"
    /\ Reads(s, IF match.status \in {"NONE", "COMPLETED"} THEN Returned(tx[s])
                ELSE [tx[s] EXCEPT !.pc = "finish", !.copy = match])

\* COMPLETED, and the winner by the score of the copy if that is news to it.
FinishWrite(s) ==
    LET copy == tx[s].copy
        winner == Winner(copy.score, copy.target)
    IN  /\ tx[s].pc = "finish" /\ LockFree(s)
        /\ match' = [match EXCEPT !.status = "COMPLETED",
                                  !.winner = IF winner # copy.winner THEN winner ELSE @]
        /\ Goto(s, [IdleSim EXCEPT !.pc = "refresh", !.over = TRUE])
        /\ UNCHANGED <<event, markets, feed, admin, faults>>

\* The event's status, in a commit of its own.
EventComplete(s) ==
    /\ tx[s].pc = "event"
    /\ event' = "COMPLETED"
    /\ Goto(s, [tx[s] EXCEPT !.pc = "list", !.phase = "settle"])
    /\ UNCHANGED <<match, markets, feed, admin, faults>>

\* SettlementService.settle_market for one market, seen from outside: the
\* commit with the market's version check (module Exchange has its inside).
SettleMarket(s, m) ==
    LET t == tx[s]
    IN  /\ t.pc = "settle" /\ m \in t.todo
        /\ SameVersion(s, m)
        /\ markets' = [markets EXCEPT ![m] = [status |-> "SETTLED", version |-> @.version + 1,
                                              paid |-> t.copy.winner]]
        /\ Goto(s, [t EXCEPT !.todo = @ \ {m}])
        /\ UNCHANGED <<match, event, feed, admin, faults>>

\* StaleDataError: the call ends with it, and with it the remaining markets.
SettleStale(s, m) ==
    /\ tx[s].pc = "settle" /\ m \in tx[s].todo
    /\ ~ SameVersion(s, m)
    /\ Reads(s, Returned(IdleSim))

SettleDone(s) == tx[s].pc = "settle" /\ tx[s].todo = {} /\ Reads(s, Returned(tx[s]))

-----------------------------------------------------------------------------
(* _suspend_all_markets and _reopen_all_markets                             *)

\* Slip: the markets that are already open are reopened.
FromOpen(phase) == {"OPEN"}

\* The statuses of the markets a phase writes.
From(phase) ==
    CASE phase = "reopen" -> {"SUSPENDED"}
      [] phase = "suspend" -> {"OPEN"}
      [] phase = "settle" -> {"OPEN", "SUSPENDED", "CLOSED"}

\* list_by_event: the rows stay in the session's identity map.
ListMarkets(s) ==
    LET t == tx[s]
    IN  /\ t.pc = "list"
        /\ Reads(s, [t EXCEPT !.pc = t.phase, !.rows = markets,
                     !.todo = {m \in Markets : markets[m].status \in From(t.phase)}])

\* suspend_market or reopen_market of one market, with its commit.
Transition(s, m) ==
    LET t == tx[s]
    IN  /\ t.pc \in {"reopen", "suspend"} /\ m \in t.todo
        /\ SameVersion(s, m)
        /\ markets' = [markets EXCEPT
                ![m].status = IF t.pc = "reopen" THEN "OPEN" ELSE "SUSPENDED",
                ![m].version = @ + 1]
        /\ Goto(s, [t EXCEPT !.todo = @ \ {m}, !.locked = FALSE])
        /\ UNCHANGED <<match, event, feed, admin, faults>>

\* A version conflict is swallowed, but the rollback has expired every object
\* of the session: a look at the next market of the list raises.
TransitionConflict(s, m) ==
    LET t == tx[s]
    IN  /\ t.pc \in {"reopen", "suspend"} /\ m \in t.todo
        /\ ~ SameVersion(s, m)
        /\ \/ t.todo = {m} /\ Reads(s, [t EXCEPT !.todo = {}, !.locked = FALSE])
           \/ /\ \E n \in Markets \ {m} : n \in t.todo \/ t.rows[n].status \notin From(t.phase)
              /\ Reads(s, Returned(IdleSim))

\* The log entry of the loop, and its commit.
TransitionsLogged(s) ==
    LET t == tx[s]
    IN  /\ t.pc \in {"reopen", "suspend"} /\ t.todo = {}
        /\ Reads(s, IF t.pc = "reopen" THEN [IdleSim EXCEPT !.pc = "clear"]
                    ELSE Returned(t))

\* tick after reopening: the flag of the wicket goes.
TickClear(s) ==
    /\ tx[s].pc = "clear" /\ LockFree(s)
    /\ match' = [match EXCEPT !.suspended = FALSE]
    /\ Goto(s, Returned(tx[s]))
    /\ UNCHANGED <<event, markets, feed, admin, faults>>

-----------------------------------------------------------------------------
(* Other calls, failures, the specification                                 *)

\* MarketService._transition for an admin: what it read is what it overwrites.
AdminTransition(m, target) ==
    /\ admin + faults < MaxDisturbances
    /\ \/ markets[m].status = "OPEN" /\ target \in {"SUSPENDED", "CLOSED"}
       \/ markets[m].status = "SUSPENDED" /\ target \in {"OPEN", "CLOSED"}
    /\ markets' = [markets EXCEPT ![m].status = target, ![m].version = @ + 1]
    /\ admin' = admin + 1
    /\ UNCHANGED <<match, event, feed, tx, faults>>

\* An error of the database or of the code: between two commits, or in the
\* quoting and publishing after the last.
Fail(s) ==
    /\ tx[s].pc # "idle"
    /\ admin + faults < MaxDisturbances
    /\ faults' = faults + 1
    /\ Goto(s, Returned(IdleSim))
    /\ UNCHANGED <<match, event, markets, feed, admin>>

Return(s) == tx[s].pc = "done" /\ Reads(s, IdleSim)

\* The next step of a call that is under way.
Continue(s) ==
    \/ StartRead(s) \/ StartDuplicate(s) \/ \E target \in Targets : StartWrite(s, target)
    \/ PauseRead(s) \/ PauseWrite(s) \/ ResumeRead(s) \/ ResumeWrite(s)
    \/ FinishRead(s) \/ FinishWrite(s)
    \/ \E ball \in Balls : TickBall(s, ball)
    \/ Refresh(s) \/ EventComplete(s) \/ ListMarkets(s)
    \/ \E m \in Markets :
          SettleMarket(s, m) \/ SettleStale(s, m) \/ Transition(s, m) \/ TransitionConflict(s, m)
    \/ SettleDone(s) \/ TransitionsLogged(s) \/ TickClear(s)

\* Whoever may call the engine.
Call(s) ==
    \/ StartEvent(s) \/ TickBegin(s)
    \/ Begin(s, "pauseRead") \/ Begin(s, "finishRead")
    \/ match.score.balls < MaxBalls + MaxExtraBalls /\ Begin(s, "resumeRead")

SimInit ==
    /\ match = NoMatch
    /\ event = "SCHEDULED"
    /\ markets = [m \in Markets |-> [status |-> "OPEN", version |-> 0, paid |-> "none"]]
    /\ feed = NoScore
    /\ tx = [s \in Sessions |-> IdleSim]
    /\ admin = 0
    /\ faults = 0

SimNext ==
    \/ \E s \in Sessions : Call(s) \/ Continue(s) \/ Return(s) \/ Fail(s)
    \/ \E m \in Markets, target \in MarketStatuses : AdminTransition(m, target)

\* A coroutine that can go on does: the event loop is fair and the database
\* answers.  Nobody has to call anything, and nothing has to fail.
SimFairness == \A s \in Sessions : WF_simVars(Continue(s)) /\ WF_simVars(Return(s))

SimSpec == SimInit /\ [][SimNext]_simVars /\ SimFairness

-----------------------------------------------------------------------------
(* Properties                                                               *)

\* Every variable has its shape.
SimTypeOK ==
    /\ match \in MatchRows
    /\ event \in EventStatuses
    /\ markets \in [Markets -> MarketRows]
    /\ feed \in Scores
    /\ tx \in [Sessions -> SimTx]
    /\ admin \in 0 .. MaxDisturbances
    /\ faults \in 0 .. MaxDisturbances

\* The play-by-play can be replayed to the score (SimulatorEvent: "the raw
\* feed MatchState is derived from"): of two ticks at once none loses a ball,
\* and no pause, resume or finish puts an old score back.
FeedReplays == match.score = feed

\* No ball is bowled on a match that was paused, finished or waiting to
\* reopen its markets when the ball was committed: a pause that has returned
\* is not overtaken by a tick that began before it.
BowledOnlyWhileLive ==
    [][match'.score # match.score => match.status = "LIVE" /\ ~ match.suspended]_simVars

\* A settled market is not suspended or reopened by a tick, nor settled again
\* for another team, however old the tick's copy of it.
SettledMarketIsFinal ==
    [][\A m \in Markets : markets[m].status = "SETTLED" => markets'[m] = markets[m]]_simVars

\* No call is under way.
Quiet == \A s \in Sessions : tx[s].pc \in {"idle", "done"}

\* Between two ticks a SUSPENDED market of a match that goes on carries the flag
\* that makes the next tick reopen it (tick: "reopens markets if this tick
\* follows a wicket-suspension"), also after a tick that died half way; a market
\* an admin has suspended is the admin's to reopen.
SuspendedWillReopen ==
    Quiet /\ admin = 0 /\ match.status \in {"LIVE", "PAUSED"} =>
        \A m \in Markets : markets[m].status = "SUSPENDED" => match.suspended

\* The winner of a match that is over is the one the score on the board gives.
WinnerByScore ==
    match.status = "COMPLETED" => match.winner = Winner(match.score, match.target)

\* A market is settled for the team the match says has won ("handoff to
\* SettlementService when the match concludes").  It does not hold of a match
\* that is started again after its end, and no run checks it (see the README).
SettledForWinner ==
    match.status = "COMPLETED" =>
        \A m \in Markets : markets[m].status = "SETTLED" => markets[m].paid = match.winner

\* No market is left unsettled.
AllSettled == \A m \in Markets : markets[m].status = "SETTLED"

\* Once a match is over its markets come to be settled, unless the call that
\* ended it died, or an admin wrote a market while it was being settled.
SettledUnlessFault == match.status = "COMPLETED" ~> AllSettled \/ faults > 0 \/ admin > 0
=============================================================================
