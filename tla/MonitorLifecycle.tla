-------------------------- MODULE MonitorLifecycle --------------------------
(***************************************************************************)
(* ForwardTestingMonitor (app/forward_testing/monitor.py): start(), stop() *)
(* and the loop that runs a pass in a worker thread, sleeps, and runs the  *)
(* next.  What a pass does to the predictions is ForwardTesting's subject; *)
(* here a pass is a thread that is busy.                                   *)
(*                                                                         *)
(* Everything but the threads runs on one event loop, so a step goes from  *)
(* one await to the next.  Cancelling a task throws CancelledError into it *)
(* at its next turn, also while it awaits a thread: the thread then goes   *)
(* on alone.                                                               *)
(***************************************************************************)
EXTENDS Integers, FiniteSets

CONSTANTS
    Controllers,    \* coroutines that call start() and stop()
    MaxTasks        \* bound: tasks that are alive, awaited or have a thread

VARIABLES
    task,           \* self._task: the task's number, 0 for None
    loops,          \* per task, its state
    stopper         \* per controller, the task its stop() awaits, or 0

monitorVars == <<task, loops, stopper>>

Tasks == 1..MaxTasks

\* phase: where the coroutine stands; cancelled: task.cancel() was called;
\* thread: its worker thread's pass, "none", "busy" or how it ended.
Loop == [phase : {"ready", "passing", "sleeping", "done"},
         cancelled : BOOLEAN,
         thread : {"none", "busy", "returned", "raised"}]

Finished == [phase |-> "done", cancelled |-> FALSE, thread |-> "none"]

ASSUME MonitorAssumption == MaxTasks \in Nat \ {0} /\ 0 \notin Controllers

Live(t) == loops[t].phase \in {"ready", "passing", "sleeping"}

\* ForwardTestingMonitor.running
Running == task # 0 /\ Live(task)

\* A number that a new task may have: nothing is left of the task before.
Free(t) ==
    /\ ~Live(t)
    /\ loops[t].thread # "busy"
    /\ \A c \in Controllers : stopper[c] # t

-----------------------------------------------------------------------------
(* start() and stop() *)

\* A start() while running returns at once and changes nothing.
Start(c) ==
    /\ stopper[c] = 0
    /\ ~Running
    /\ \E t \in Tasks :
          /\ Free(t)
          /\ task' = t
          /\ loops' = [loops EXCEPT ![t] = [Finished EXCEPT !.phase = "ready"]]
    /\ UNCHANGED stopper

\* Mutant of Stop: the task is cancelled but not awaited.
StopAtOnce(c) ==
    /\ stopper[c] = 0
    /\ task # 0
    /\ loops' = [loops EXCEPT ![task].cancelled = TRUE]
    /\ task' = 0
    /\ UNCHANGED stopper

\* Up to the await: a task that is done already is awaited without a pause.
Stop(c) ==
    /\ stopper[c] = 0
    /\ task # 0
    /\ IF Live(task)
       THEN /\ loops' = [loops EXCEPT ![task].cancelled = TRUE]
            /\ stopper' = [stopper EXCEPT ![c] = task]
            /\ UNCHANGED task
       ELSE /\ task' = 0
            /\ UNCHANGED <<loops, stopper>>

\* The awaited task is done and the stopper's turn comes.
Stopped(c) ==
    /\ stopper[c] # 0
    /\ ~Live(stopper[c])
    /\ task' = 0
    /\ stopper' = [stopper EXCEPT ![c] = 0]
    /\ UNCHANGED loops

-----------------------------------------------------------------------------
(* _loop *)

\* The loop starts, or its sleep is over: run_pass hands a thread the pass.
RunPass(t) ==
    /\ loops[t].phase \in {"ready", "sleeping"}
    /\ ~loops[t].cancelled
    /\ loops' = [loops EXCEPT ![t].phase = "passing", ![t].thread = "busy"]
    /\ UNCHANGED <<task, stopper>>

\* The thread is through with monitor_once, whether or not its task is there.
ThreadEnds(t, how) ==
    /\ loops[t].thread = "busy"
    /\ loops' = [loops EXCEPT ![t].thread = how]
    /\ UNCHANGED <<task, stopper>>

\* Mutant of AfterPass: only the good pass is followed by another.
OnlyAfterGoodPass(how) == IF how = "returned" THEN "sleeping" ELSE "done"

\* A bad pass is logged and slept over like a good one.
AfterPass(how) == "sleeping"

EndPass(t) ==
    /\ loops[t].phase = "passing"
    /\ loops[t].thread \in {"returned", "raised"}
    /\ ~loops[t].cancelled
    /\ loops' = [loops EXCEPT ![t].phase = AfterPass(loops[t].thread),
                              ![t].thread = "none"]
    /\ UNCHANGED <<task, stopper>>

Cancellable(t) == loops[t].cancelled

\* CancelledError is thrown into the loop, which lets it through.
Cancel(t) ==
    /\ Live(t)
    /\ Cancellable(t)
    /\ loops' = [loops EXCEPT ![t].phase = "done"]
    /\ UNCHANGED <<task, stopper>>

-----------------------------------------------------------------------------

MonitorInit ==
    /\ task = 0
    /\ loops = [t \in Tasks |-> Finished]
    /\ stopper = [c \in Controllers |-> 0]

LoopStep(t) == RunPass(t) \/ EndPass(t) \/ Cancel(t)
ThreadStep(t) == \E how \in {"returned", "raised"} : ThreadEnds(t, how)

MonitorNext ==
    \/ \E c \in Controllers : Start(c) \/ Stop(c) \/ Stopped(c)
    \/ \E t \in Tasks : LoopStep(t) \/ ThreadStep(t)

MonitorSpec == MonitorInit /\ [][MonitorNext]_monitorVars

\* The event loop gives every ready coroutine its turn.  A thread that hangs in
\* a fetch is not assumed to end.
EventLoopFairness ==
    /\ \A c \in Controllers : WF_monitorVars(Stopped(c))
    /\ \A t \in Tasks : WF_monitorVars(LoopStep(t))

HangingSpec == MonitorSpec /\ EventLoopFairness

-----------------------------------------------------------------------------
(* Properties *)

MonitorTypeOK ==
    /\ task \in 0..MaxTasks
    /\ loops \in [Tasks -> Loop]
    /\ stopper \in [Controllers -> 0..MaxTasks]

\* "True while the monitor loop is active" (monitor.py:52): every loop that
\* lives is the one self._task points to, so that running tells the truth,
\* stop() reaches it and start() starts no second one.  It holds of one
\* controller, and fails of two whose stop() calls overlap.
RunningWhileActive == \A t \in Tasks : Live(t) => task = t

\* "a bad pass must not kill the loop" (monitor.py:70): after a pass that
\* returned or raised, a loop that nobody stops begins the next.
NextPassComes ==
    \A t \in Tasks :
        loops[t].thread \in {"returned", "raised"}
        ~> (loops[t].cancelled \/ loops[t].thread = "busy")

=============================================================================
