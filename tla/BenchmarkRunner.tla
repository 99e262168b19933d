--------------------------- MODULE BenchmarkRunner ---------------------------
(***************************************************************************)
(* measure() of benchmark/runner.py at one (batch size, concurrency)       *)
(* point: each worker warms up and is timed on one thread, with a          *)
(* threading.Barrier between the two phases whose action starts the clock. *)
(* A request, the action and the start of a thread may fail; an interrupt  *)
(* may end the main thread's join.                                         *)
(*                                                                         *)
(* The barrier is the one of the Python library: a worker that arrives     *)
(* counts itself, the last one runs the action and opens the barrier, the  *)
(* others leave when they see it open or broken.                           *)
(***************************************************************************)
EXTENDS Naturals, Sequences, FiniteSets

CONSTANTS NumWorkers,        \* concurrency
          Warmup, Iters,     \* warmup_iters, iters
          MaxFailures        \* bound: requests or actions that raise

ASSUME RunnerAssumption ==
    /\ NumWorkers \in Nat \ {0} /\ Iters \in Nat \ {0}
    /\ Warmup \in Nat /\ MaxFailures \in Nat

VARIABLES pc,                \* worker -> where its thread is
          warm, timed,       \* worker -> requests done in each phase
          barrier, waiting,  \* state of the barrier, workers inside wait()
          begun,             \* times the action started the clock
          errors,            \* the failures, in order, as the failing worker
          main, next,        \* main thread; the worker whose thread it starts next
          failures

vars == <<pc, warm, timed, barrier, waiting, begun, errors, main, next, failures>>

Worker == 1 .. NumWorkers

TypeOK ==
    /\ pc \in [Worker -> {"new", "warmup", "waiting", "timing", "raising", "ended"}]
    /\ warm \in [Worker -> 0 .. Warmup]
    /\ timed \in [Worker -> 0 .. Iters]
    /\ barrier \in {"filling", "draining", "broken"}
    /\ waiting \subseteq Worker
    /\ begun \in Nat
    /\ errors \in Seq(Worker)
    /\ main \in {"starting", "joining", "measured", "failed", "no_thread", "interrupted"}
    /\ next \in 1 .. (NumWorkers + 1)
    /\ failures \in 0 .. MaxFailures

Init ==
    /\ pc = [w \in Worker |-> "new"]
    /\ warm = [w \in Worker |-> 0]
    /\ timed = [w \in Worker |-> 0]
    /\ barrier = "filling"
    /\ waiting = {}
    /\ begun = 0
    /\ errors = << >>
    /\ main = "starting"
    /\ next = 1
    /\ failures = 0

Goto(w, label) == pc' = [pc EXCEPT ![w] = label]

-----------------------------------------------------------------------------
(* The main thread *)

\* The threads are started one by one; the first may be far ahead of the last.
StartThread ==
    /\ main = "starting" /\ next <= NumWorkers
    /\ Goto(next, "warmup")
    /\ next' = next + 1
    /\ UNCHANGED <<warm, timed, barrier, waiting, begun, errors, main, failures>>

\* Thread.start() raises when the system has no thread left; one worker needs none.
StartFails ==
    /\ NumWorkers > 1
    /\ main = "starting" /\ next <= NumWorkers
    /\ main' = "no_thread"
    /\ UNCHANGED <<pc, warm, timed, barrier, waiting, begun, errors, next, failures>>

BeginJoin ==
    /\ main = "starting" /\ next > NumWorkers
    /\ main' = "joining"
    /\ UNCHANGED <<pc, warm, timed, barrier, waiting, begun, errors, next, failures>>

\* Mutant: the errors of the workers are not looked at.
ReportAnyway ==
    /\ main = "joining"
    /\ \A w \in Worker : pc[w] = "ended"
    /\ main' = "measured"
    /\ UNCHANGED <<pc, warm, timed, barrier, waiting, begun, errors, next, failures>>

\* All threads have ended: the first error is raised, or the results are reported.
Report ==
    /\ main = "joining"
    /\ \A w \in Worker : pc[w] = "ended"
    /\ main' = IF errors # << >> THEN "failed" ELSE "measured"
    /\ UNCHANGED <<pc, warm, timed, barrier, waiting, begun, errors, next, failures>>

\* join() is left by KeyboardInterrupt; the threads go on.
Interrupt ==
    /\ NumWorkers > 1
    /\ main \in {"starting", "joining"}
    /\ main' = "interrupted"
    /\ UNCHANGED <<pc, warm, timed, barrier, waiting, begun, errors, next, failures>>

-----------------------------------------------------------------------------
(* A worker *)

WarmupCall(w) ==
    /\ pc[w] = "warmup" /\ warm[w] < Warmup
    /\ warm' = [warm EXCEPT ![w] = @ + 1]
    /\ UNCHANGED <<pc, timed, barrier, waiting, begun, errors, main, next, failures>>

TimedCall(w) ==
    /\ pc[w] = "timing" /\ timed[w] < Iters
    /\ timed' = [timed EXCEPT ![w] = @ + 1]
    /\ UNCHANGED <<pc, warm, barrier, waiting, begun, errors, main, next, failures>>

CallFails(w) ==
    /\ \/ pc[w] = "warmup" /\ warm[w] < Warmup
       \/ pc[w] = "timing" /\ timed[w] < Iters
    /\ failures < MaxFailures
    /\ failures' = failures + 1
    /\ Goto(w, "raising")
    /\ UNCHANGED <<warm, timed, barrier, waiting, begun, errors, main, next>>

\* Mutant: only the error is kept.
RaiseWithoutAbort(w) ==
    /\ pc[w] = "raising"
    /\ errors' = Append(errors, w)
    /\ Goto(w, "ended")
    /\ UNCHANGED <<warm, timed, barrier, waiting, begun, main, next, failures>>

\* except BaseException: keep the error, then break the barrier for the others.
Raise(w) ==
    /\ pc[w] = "raising"
    /\ errors' = Append(errors, w)
    /\ barrier' = "broken"
    /\ Goto(w, "ended")
    /\ UNCHANGED <<warm, timed, waiting, begun, main, next, failures>>

WarmedUp(w) == pc[w] = "warmup" /\ warm[w] = Warmup

\* wait() on a broken barrier raises BrokenBarrierError, which run() swallows.
ArriveBroken(w) ==
    /\ WarmedUp(w) /\ barrier = "broken"
    /\ Goto(w, "ended")
    /\ UNCHANGED <<warm, timed, barrier, waiting, begun, errors, main, next, failures>>

\* Not the last one: wait inside.
Arrive(w) ==
    /\ WarmedUp(w) /\ barrier = "filling"
    /\ Cardinality(waiting) + 1 < NumWorkers
    /\ waiting' = waiting \cup {w}
    /\ Goto(w, "waiting")
    /\ UNCHANGED <<warm, timed, barrier, begun, errors, main, next, failures>>

\* Mutant: the barrier is made for one worker less.
ArriveBeforeLast(w) ==
    /\ WarmedUp(w) /\ barrier = "filling"
    /\ Cardinality(waiting) + 2 >= NumWorkers
    /\ begun' = begun + 1
    /\ barrier' = IF waiting = {} THEN "filling" ELSE "draining"
    /\ Goto(w, "timing")
    /\ UNCHANGED <<warm, timed, waiting, errors, main, next, failures>>

\* The last worker runs begin() and opens the barrier.
ArriveLast(w) ==
    /\ WarmedUp(w) /\ barrier = "filling"
    /\ Cardinality(waiting) + 1 = NumWorkers
    /\ begun' = begun + 1
    /\ barrier' = IF waiting = {} THEN "filling" ELSE "draining"
    /\ Goto(w, "timing")
    /\ UNCHANGED <<warm, timed, waiting, errors, main, next, failures>>

\* begin() raises (the server's snapshot cannot be taken): the barrier breaks.
BeginFails(w) ==
    /\ WarmedUp(w) /\ barrier = "filling"
    /\ Cardinality(waiting) + 1 = NumWorkers
    /\ failures < MaxFailures
    /\ failures' = failures + 1
    /\ barrier' = "broken"
    /\ Goto(w, "raising")
    /\ UNCHANGED <<warm, timed, waiting, begun, errors, main, next>>

\* Mutant: the first worker to leave closes the barrier.
LeaveAndClose(w) ==
    /\ pc[w] = "waiting" /\ barrier # "filling"
    /\ waiting' = waiting \ {w}
    /\ barrier' = IF barrier = "draining" THEN "filling" ELSE barrier
    /\ Goto(w, IF barrier = "draining" THEN "timing" ELSE "ended")
    /\ UNCHANGED <<warm, timed, begun, errors, main, next, failures>>

\* A waiting worker wakes up: timed if the barrier is open, out if it is broken,
\* even if it was open before. The last one to leave closes an open barrier.
Leave(w) ==
    /\ pc[w] = "waiting" /\ barrier # "filling"
    /\ waiting' = waiting \ {w}
    /\ barrier' = IF barrier = "draining" /\ waiting = {w} THEN "filling" ELSE barrier
    /\ Goto(w, IF barrier = "draining" THEN "timing" ELSE "ended")
    /\ UNCHANGED <<warm, timed, begun, errors, main, next, failures>>

EndTimed(w) ==
    /\ pc[w] = "timing" /\ timed[w] = Iters
    /\ Goto(w, "ended")
    /\ UNCHANGED <<warm, timed, barrier, waiting, begun, errors, main, next, failures>>

-----------------------------------------------------------------------------

WorkerStep(w) ==
    \/ WarmupCall(w) \/ TimedCall(w) \/ CallFails(w) \/ Raise(w)
    \/ ArriveBroken(w) \/ Arrive(w) \/ ArriveLast(w) \/ BeginFails(w)
    \/ Leave(w) \/ EndTimed(w)

MainStep == StartThread \/ BeginJoin \/ Report

Next == MainStep \/ StartFails \/ Interrupt \/ \E w \in Worker : WorkerStep(w)

Spec ==
    /\ Init /\ [][Next]_vars
    /\ WF_vars(MainStep) /\ \A w \in Worker : WF_vars(WorkerStep(w))

-----------------------------------------------------------------------------
(* Properties *)

\* "Runs once, after every worker has finished warmup and before any starts timing"
\* (runner.py:103): no warmup request ever overlaps the timed section.
ClockStartsBetweenPhases ==
    /\ begun <= 1
    /\ begun = 1 => \A w \in Worker : warm[w] = Warmup
    /\ \A w \in Worker : pc[w] = "timing" \/ timed[w] > 0 => begun = 1

\* A worker that gave up before its last request did so because some worker failed
\* whose error is kept, or is about to be (runner.py:120-124): swallowing
\* BrokenBarrierError never hides a failure.
GivingUpIsExplained ==
    \A w \in Worker :
        pc[w] = "ended" /\ timed[w] < Iters =>
            errors # << >> \/ \E v \in Worker : pc[v] = "raising"

\* A measurement is reported only if every worker did all its timed requests.
MeasuredIsComplete ==
    main = "measured" =>
        failures = 0 /\ begun = 1 /\ \A w \in Worker : timed[w] = Iters

\* Once all threads are started every one of them ends, even if nobody waits for
\* them any more: none stays in the barrier for ever.
ThreadsEnd == next > NumWorkers ~> \A w \in Worker : pc[w] = "ended"

=============================================================================
