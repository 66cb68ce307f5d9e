------------------------------- MODULE Runner -------------------------------
(***************************************************************************)
(* The simulation runner: the asyncio tasks that tick a match, the registry *)
(* _running_tasks that is to keep them to one, the admin requests that      *)
(* start and stop them, and the server that resumes them when it boots.     *)
(* The engine calls a task or a request makes are those of module           *)
(* Simulator, each in a database session of the caller's own.               *)
(*                                                                          *)
(* Cancelling a task takes effect at its next turn: by then its registry    *)
(* entry is gone already, the statement it has in flight may still be       *)
(* carried out, and its finally clause runs later than whatever the         *)
(* canceller does next.                                                     *)
(***************************************************************************)
EXTENDS Simulator

CONSTANTS
    Loops,      \* task objects; bound: how many exist at once
    Requests    \* admin requests under way at once

ASSUME CallersAssumption ==
    /\ Sessions = Loops \cup Requests /\ Loops \cap Requests = {}
    /\ Loops # {} /\ "none" \notin Loops

VARIABLES
    loop,       \* what each task is doing
    registry    \* _running_tasks[event_id]

vars == <<match, event, markets, feed, tx, admin, faults, loop, registry>>

\* absent: no such task; asleep: between two ticks; ticking: in a tick;
\* inFlight: cancelled, one statement may still be carried out; cancelled.
LoopStates == {"absent", "asleep", "ticking", "inFlight", "cancelled"}

Unregistered == UNCHANGED <<loop, registry>>

IsRunning == registry # "none"

\* start_simulation_task.
StartTask ==
    IF IsRunning THEN UNCHANGED <<loop, registry>>
    ELSE \E t \in Loops :
            /\ loop[t] = "absent"
            /\ loop' = [loop EXCEPT ![t] = "asleep"]
            /\ registry' = t

\* Slip: the task is looked up and not popped.
StopRegistered ==
    /\ loop' = IF IsRunning
               THEN [loop EXCEPT ![registry] = IF @ = "ticking" THEN "inFlight" ELSE "cancelled"]
               ELSE loop
    /\ UNCHANGED registry

\* stop_simulation_task: out of the registry, and cancelled at its next turn.
StopTask ==
    /\ registry' = "none"
    /\ loop' = IF IsRunning
               THEN [loop EXCEPT ![registry] = IF @ = "ticking" THEN "inFlight" ELSE "cancelled"]
               ELSE loop

-----------------------------------------------------------------------------
(* _run_loop                                                                *)

\* The sleep is over: a session is opened and tick called.
LoopTick(t) ==
    /\ loop[t] = "asleep"
    /\ TickBegin(t)
    /\ loop' = [loop EXCEPT ![t] = "ticking"]
    /\ UNCHANGED registry

\* The tick goes on, or it fails and the failure is logged.
LoopStep(t) ==
    /\ loop[t] = "ticking"
    /\ Continue(t) \/ Fail(t)
    /\ Unregistered

\* Slip: the loop is left without its finally clause.
LoopLost(t) ==
    /\ loop[t] = "ticking" /\ ~ tx[t].over /\ Return(t)
    /\ loop' = [loop EXCEPT ![t] = "absent"]
    /\ UNCHANGED registry

\* The match goes on: back to sleep.
LoopAgain(t) ==
    /\ loop[t] = "ticking" /\ ~ tx[t].over /\ Return(t)
    /\ loop' = [loop EXCEPT ![t] = "asleep"]
    /\ UNCHANGED registry

\* tick says the match is over: the finally clause takes whatever task is
\* registered out, and the next demo match is started, on an event of its own.
LoopEnds(t) ==
    /\ loop[t] = "ticking" /\ tx[t].over /\ Return(t)
    /\ loop' = [loop EXCEPT ![t] = "absent"]
    /\ registry' = "none"

\* The statement in flight when the task was cancelled is carried out.
LoopInFlight(t) ==
    /\ loop[t] = "inFlight"
    /\ Continue(t)
    /\ loop' = [loop EXCEPT ![t] = "cancelled"]
    /\ UNCHANGED registry

\* Slip: the session of a cancelled task is not closed.
UnwindOpen(t) ==
    /\ loop[t] \in {"inFlight", "cancelled"}
    /\ loop' = [loop EXCEPT ![t] = "absent"]
    /\ registry' = "none"
    /\ UNCHANGED simVars

\* CancelledError reaches the task: its session is rolled back, and its
\* finally clause takes whatever task is registered out.
LoopUnwind(t) ==
    /\ loop[t] \in {"inFlight", "cancelled"}
    /\ Reads(t, IdleSim)
    /\ loop' = [loop EXCEPT ![t] = "absent"]
    /\ registry' = "none"

-----------------------------------------------------------------------------
(* The admin's requests (api/v1/simulator.py)                               *)

\* start and resume call the engine first.
RequestStart(q) ==
    /\ StartEvent(q) \/ (match.score.balls < MaxBalls + MaxExtraBalls /\ Begin(q, "resumeRead"))
    /\ Unregistered

\* pause and finish stop the loop before they call the engine.
RequestStop(q) ==
    /\ Begin(q, "pauseRead") \/ Begin(q, "finishRead")
    /\ StopTask

RequestTick(q) == TickBegin(q) /\ Unregistered

RequestStep(q) == (Continue(q) \/ Fail(q)) /\ Unregistered

\* The engine has returned; start and resume register a loop.
RequestReturn(q) ==
    /\ Return(q)
    /\ IF tx[q].start THEN StartTask ELSE UNCHANGED <<loop, registry>>

-----------------------------------------------------------------------------

\* The server is killed and boots: every transaction under way is rolled back,
\* and lifespan starts a loop for a match it finds LIVE.
Restart ==
    /\ admin + faults < MaxDisturbances
    /\ faults' = faults + 1
    /\ tx' = [s \in Sessions |-> IdleSim]
    /\ IF match.status = "LIVE"
       THEN \E t \in Loops : /\ loop' = [z \in Loops |-> IF z = t THEN "asleep" ELSE "absent"]
                             /\ registry' = t
       ELSE loop' = [z \in Loops |-> "absent"] /\ registry' = "none"
    /\ UNCHANGED <<match, event, markets, feed, admin>>

Init ==
    /\ SimInit
    /\ loop = [t \in Loops |-> "absent"]
    /\ registry = "none"

Next ==
    \/ \E t \in Loops :
         LoopTick(t) \/ LoopStep(t) \/ LoopAgain(t) \/ LoopEnds(t) \/ LoopInFlight(t) \/ LoopUnwind(t)
    \/ \E q \in Requests :
         RequestStart(q) \/ RequestStop(q) \/ RequestTick(q) \/ RequestStep(q) \/ RequestReturn(q)
    \/ (\E m \in Markets, target \in MarketStatuses : AdminTransition(m, target)) /\ Unregistered
    \/ Restart

\* The event loop is fair to every task and every request under way.
Fairness ==
    /\ \A t \in Loops :
         /\ WF_vars(LoopTick(t)) /\ WF_vars(loop[t] = "ticking" /\ Continue(t) /\ Unregistered)
         /\ WF_vars(LoopAgain(t)) /\ WF_vars(LoopEnds(t)) /\ WF_vars(LoopUnwind(t))
    /\ \A q \in Requests : WF_vars(Continue(q) /\ Unregistered) /\ WF_vars(RequestReturn(q))

Spec == Init /\ [][Next]_vars /\ Fairness

-----------------------------------------------------------------------------
(* Properties                                                               *)

\* Every variable has its shape, and a task that is in no tick has no session
\* open, and so no lock on the match state.
TypeOK ==
    /\ SimTypeOK
    /\ loop \in [Loops -> LoopStates]
    /\ registry \in Loops \cup {"none"}
    /\ \A t \in Loops : loop[t] \in {"absent", "asleep"} => tx[t] = IdleSim

\* A registered task is one that goes on ticking: a start that finds the match
\* registered may leave it at that.
RegisteredRuns == IsRunning => loop[registry] \in {"asleep", "ticking"}

\* A LIVE match with a registered loop comes to its end, unless it is paused
\* or its loop is stopped.
DrivenMatchEnds ==
    match.status = "LIVE" /\ IsRunning ~> match.status # "LIVE" \/ ~ IsRunning

\* A loop ends because its tick says so.
LoopEnded == \E t \in Loops : loop[t] = "ticking" /\ loop'[t] = "absent"

\* The next demo match is started by this match's end ("a manual stop never
\* triggers an auto-restart, only the match actually finishing does").  It does
\* not hold of a PAUSED match that is started, and no run checks it (README).
NextOnlyAfterEnd == [][LoopEnded /\ faults' = faults => match.status = "COMPLETED"]_vars
=============================================================================
