----------------------------- MODULE SweepProofs -----------------------------
(***************************************************************************)
(* Theorems about BenchmarkRunner and Sweep, for any number of points,     *)
(* workers, requests, failures and foreign requests.  The first part is    *)
(* about one measurement; the second shows that what the first says holds  *)
(* of every point of a sweep, and that unnoted server times are ours.      *)
(***************************************************************************)
EXTENDS Sweep, FiniteSetTheorems, TLAPS

-----------------------------------------------------------------------------
(* One measurement *)

\* Who waits in the barrier has warmed up.
WaitersWarm ==
    /\ waiting = {w \in Worker : pc[w] = "waiting"}
    /\ \A w \in Worker : pc[w] = "waiting" => warm[w] = Warmup

\* Before the clock starts nobody is timed and the barrier is not open.
BeforeClock ==
    begun = 0 =>
        /\ barrier # "draining"
        /\ \A w \in Worker : pc[w] # "timing" /\ timed[w] = 0

\* Afterwards nobody is warming up, or will.
AfterClock ==
    begun # 0 =>
        /\ begun = 1
        /\ \A w \in Worker : pc[w] \notin {"new", "warmup"} /\ warm[w] = Warmup

\* A failure is kept, or about to be kept.
Explained == errors # << >> \/ \E v \in Worker : pc[v] = "raising"

\* A failure, a broken barrier and a worker that gave up all have an explanation.
FailuresExplained ==
    failures # 0 \/ barrier = "broken" \/ (\E w \in Worker : pc[w] = "ended" /\ timed[w] # Iters)
        => Explained

\* A report is made when all threads have ended without an error.
ReportFinal == main = "measured" => errors = << >> /\ \A w \in Worker : pc[w] = "ended"

\* A thread that is still to be started has done nothing.
NotStarted == main = "starting" => \A w \in Worker : w >= next => pc[w] = "new"

IInv ==
    /\ TypeOK /\ WaitersWarm /\ BeforeClock /\ AfterClock /\ FailuresExplained
    /\ ReportFinal /\ NotStarted

-----------------------------------------------------------------------------

\* The last one to arrive finds everyone else in the barrier (threading.Barrier
\* counts, it does not know who is inside).
LEMMA LastIsLast ==
    ASSUME NEW w \in Worker, waiting \subseteq Worker, w \notin waiting,
           Cardinality(waiting) + 1 = NumWorkers
    PROVE  Worker = waiting \cup {w}
<1>1. NumWorkers \in Nat \ {0}
  BY RunnerAssumption
<1>2. IsFiniteSet(Worker) /\ Cardinality(Worker) = NumWorkers
  BY <1>1, FS_Interval DEF Worker
<1>3. IsFiniteSet(waiting)
  BY <1>2, FS_Subset
<1>4. Cardinality(waiting \cup {w}) = Cardinality(waiting) + 1
  BY <1>3, FS_AddElement
<1>5. waiting \cup {w} \in SUBSET Worker
  OBVIOUS
<1>6. QED
  BY <1>2, <1>4, <1>5, FS_Subset

\* The steps of the threads and of the main thread keep the types.
LEMMA TypeStep ==
    ASSUME TypeOK, [Next]_vars
    PROVE  TypeOK'
<1> USE RunnerAssumption
<1>1. CASE StartThread
  BY <1>1 DEF TypeOK, StartThread, Goto, Worker
<1>2. CASE BeginJoin \/ Report \/ StartFails \/ Interrupt
  BY <1>2 DEF TypeOK, BeginJoin, Report, StartFails, Interrupt
<1>3. ASSUME NEW w \in Worker, WorkerStep(w)
      PROVE  TypeOK'
  <2>1. CASE WarmupCall(w) \/ TimedCall(w)
    <3>1. warm[w] \in 0 .. Warmup /\ timed[w] \in 0 .. Iters
      BY <1>3 DEF TypeOK
    <3>2. CASE WarmupCall(w)
      <4>1. warm[w] + 1 \in 0 .. Warmup
        BY <3>1, <3>2 DEF WarmupCall
      <4>2. QED
        BY <1>3, <3>2, <4>1 DEF TypeOK, WarmupCall
    <3>3. CASE TimedCall(w)
      <4>1. timed[w] + 1 \in 0 .. Iters
        BY <3>1, <3>3 DEF TimedCall
      <4>2. QED
        BY <1>3, <3>3, <4>1 DEF TypeOK, TimedCall
    <3>4. QED
      BY <2>1, <3>2, <3>3
  <2>2. CASE CallFails(w) \/ BeginFails(w)
    <3>1. failures' \in 0 .. MaxFailures
      BY <2>2 DEF TypeOK, CallFails, BeginFails
    <3>2. QED
      BY <1>3, <2>2, <3>1 DEF TypeOK, CallFails, BeginFails, Goto
  <2>3. CASE Raise(w)
    BY <1>3, <2>3 DEF TypeOK, Raise, Goto
  <2>4. CASE ArriveBroken(w) \/ Arrive(w) \/ EndTimed(w)
    BY <1>3, <2>4 DEF TypeOK, ArriveBroken, Arrive, EndTimed, Goto
  <2>5. CASE ArriveLast(w)
    BY <1>3, <2>5 DEF TypeOK, ArriveLast, Goto
  <2>6. CASE Leave(w)
    BY <1>3, <2>6 DEF TypeOK, Leave, Goto
  <2>7. QED
    BY <1>3, <2>1, <2>2, <2>3, <2>4, <2>5, <2>6 DEF WorkerStep
<1>4. CASE UNCHANGED vars
  BY <1>4 DEF TypeOK, vars
<1>5. QED
  BY <1>1, <1>2, <1>3, <1>4 DEF Next, MainStep

\* Workers enter the barrier warm, and leave the set of waiters when they leave it.
LEMMA WaitersStep ==
    ASSUME TypeOK, NotStarted, WaitersWarm, [Next]_vars
    PROVE  WaitersWarm'
<1> USE RunnerAssumption
<1>0. CASE StartThread
  <2>1. next \in Worker
    BY <1>0 DEF TypeOK, StartThread, Worker
  <2>2. pc[next] = "new"
    BY <1>0, <2>1 DEF NotStarted, StartThread, Worker
  <2>3. QED
    BY <1>0, <2>1, <2>2 DEF TypeOK, WaitersWarm, StartThread, Goto
<1>1. CASE BeginJoin \/ Report \/ StartFails \/ Interrupt \/ UNCHANGED vars
  BY <1>1 DEF WaitersWarm, BeginJoin, Report, StartFails, Interrupt, vars
<1>2. ASSUME NEW w \in Worker, WorkerStep(w)
      PROVE  WaitersWarm'
  <2>1. CASE WarmupCall(w) \/ TimedCall(w)
    BY <1>2, <2>1 DEF TypeOK, WaitersWarm, WarmupCall, TimedCall
  <2>2. CASE CallFails(w) \/ BeginFails(w) \/ Raise(w)
    BY <1>2, <2>2 DEF TypeOK, WaitersWarm, CallFails, BeginFails, Raise, WarmedUp, Goto
  <2>3. CASE ArriveBroken(w) \/ ArriveLast(w) \/ EndTimed(w)
    BY <1>2, <2>3 DEF TypeOK, WaitersWarm, ArriveBroken, ArriveLast, EndTimed, WarmedUp, Goto
  <2>4. CASE Arrive(w)
    BY <1>2, <2>4 DEF TypeOK, WaitersWarm, Arrive, WarmedUp, Goto
  <2>5. CASE Leave(w)
    BY <1>2, <2>5 DEF TypeOK, WaitersWarm, Leave, Goto
  <2>6. QED
    BY <1>2, <2>1, <2>2, <2>3, <2>4, <2>5 DEF WorkerStep
<1>3. QED
  BY <1>0, <1>1, <1>2 DEF Next, MainStep

\* The clock starts in the step of the last worker to arrive, when all are warm, and
\* never again: nobody is left to arrive.
LEMMA ClockStep ==
    ASSUME TypeOK, WaitersWarm, NotStarted, BeforeClock, AfterClock, [Next]_vars
    PROVE  BeforeClock' /\ AfterClock'
<1> USE RunnerAssumption
<1>1. CASE StartThread
  <2>1. next \in Worker
    BY <1>1 DEF TypeOK, StartThread, Worker
  <2>2. pc[next] = "new"
    BY <1>1, <2>1 DEF NotStarted, StartThread, Worker
  <2>3. begun = 0
    BY <2>1, <2>2 DEF AfterClock
  <2>4. QED
    BY <1>1, <2>1, <2>3 DEF TypeOK, BeforeClock, AfterClock, StartThread, Goto
<1>2. CASE BeginJoin \/ Report \/ StartFails \/ Interrupt \/ UNCHANGED vars
  BY <1>2 DEF BeforeClock, AfterClock, BeginJoin, Report, StartFails, Interrupt, vars
<1>3. ASSUME NEW w \in Worker, WorkerStep(w)
      PROVE  BeforeClock' /\ AfterClock'
  <2>1. CASE WarmupCall(w) \/ TimedCall(w)
    BY <1>3, <2>1 DEF TypeOK, BeforeClock, AfterClock, WarmupCall, TimedCall
  <2>2. CASE CallFails(w) \/ BeginFails(w) \/ Raise(w)
    BY <1>3, <2>2 DEF TypeOK, BeforeClock, AfterClock, CallFails, BeginFails, Raise, WarmedUp,
                      Goto
  <2>3. CASE ArriveBroken(w) \/ Arrive(w) \/ EndTimed(w)
    BY <1>3, <2>3 DEF TypeOK, BeforeClock, AfterClock, ArriveBroken, Arrive, EndTimed, WarmedUp,
                      Goto
  <2>4. CASE ArriveLast(w)
    <3>1. pc[w] = "warmup" /\ warm[w] = Warmup
      BY <2>4 DEF ArriveLast, WarmedUp
    <3>2. w \notin waiting /\ waiting \subseteq Worker
      BY <3>1 DEF WaitersWarm
    <3>3. Worker = waiting \cup {w}
      BY <1>3, <2>4, <3>2, LastIsLast DEF ArriveLast
    <3>4. \A v \in Worker : warm[v] = Warmup /\ pc[v] \in {"warmup", "waiting"}
      BY <3>1, <3>3 DEF WaitersWarm
    <3>5. begun = 0
      BY <1>3, <3>1 DEF AfterClock
    <3>6. \A v \in Worker : pc'[v] \in {"timing", "waiting"}
      BY <2>4, <3>3 DEF ArriveLast, Goto, TypeOK, WaitersWarm
    <3>7. begun' = 1 /\ warm' = warm
      BY <2>4, <3>5 DEF ArriveLast
    <3>8. QED
      BY <3>4, <3>6, <3>7 DEF BeforeClock, AfterClock
  <2>5. CASE Leave(w)
    BY <1>3, <2>5 DEF TypeOK, BeforeClock, AfterClock, Leave, Goto
  <2>6. QED
    BY <1>3, <2>1, <2>2, <2>3, <2>4, <2>5 DEF WorkerStep
<1>4. QED
  BY <1>1, <1>2, <1>3 DEF Next, MainStep

\* A worker ends early only at a broken barrier or with an error of its own, and the
\* one that breaks the barrier raises.
LEMMA ExplainedStep ==
    ASSUME TypeOK, NotStarted, FailuresExplained, [Next]_vars
    PROVE  FailuresExplained'
<1> USE RunnerAssumption
<1>1. CASE StartThread
  <2>1. next \in Worker
    BY <1>1 DEF StartThread, TypeOK, Worker
  <2>2. pc[next] = "new"
    BY <1>1, <2>1 DEF NotStarted, StartThread, Worker
  <2>3. pc' = [pc EXCEPT ![next] = "warmup"]
        /\ UNCHANGED <<failures, barrier, timed, errors>>
    BY <1>1 DEF StartThread, Goto
  <2>4. Explained => Explained'
    BY <2>2, <2>3 DEF TypeOK, Explained
  <2>5. QED
    BY <2>1, <2>3, <2>4 DEF TypeOK, FailuresExplained
<1>2. CASE BeginJoin \/ Report \/ StartFails \/ Interrupt \/ UNCHANGED vars
  BY <1>2 DEF FailuresExplained, Explained, BeginJoin, Report, StartFails, Interrupt, vars
<1>3. ASSUME NEW w \in Worker, WorkerStep(w)
      PROVE  FailuresExplained'
  <2>1. CASE WarmupCall(w)
    BY <1>3, <2>1 DEF TypeOK, FailuresExplained, Explained, WarmupCall
  <2>2. CASE TimedCall(w)
    BY <1>3, <2>2 DEF TypeOK, FailuresExplained, Explained, TimedCall
  <2>3. CASE CallFails(w) \/ BeginFails(w)
    <3>1. pc'[w] = "raising"
      BY <1>3, <2>3 DEF TypeOK, CallFails, BeginFails, Goto
    <3>2. QED
      BY <1>3, <3>1 DEF FailuresExplained, Explained
  <2>4. CASE Raise(w)
    <3>1. errors' # << >>
      BY <1>3, <2>4 DEF TypeOK, Raise
    <3>2. QED
      BY <3>1 DEF FailuresExplained, Explained
  <2>5. CASE ArriveBroken(w)
    <3>1. Explained
      BY <2>5 DEF ArriveBroken, FailuresExplained
    <3>2. Explained'
      BY <1>3, <2>5, <3>1 DEF TypeOK, Explained, ArriveBroken, WarmedUp, Goto
    <3>3. QED
      BY <3>2 DEF FailuresExplained
  <2>6. CASE Arrive(w) \/ ArriveLast(w) \/ EndTimed(w)
    BY <1>3, <2>6 DEF TypeOK, FailuresExplained, Explained, Arrive, ArriveLast, EndTimed,
                      WarmedUp, Goto
  <2>7. CASE Leave(w) /\ barrier = "draining"
    BY <1>3, <2>7 DEF TypeOK, FailuresExplained, Explained, Leave, Goto
  <2>8. CASE Leave(w) /\ barrier = "broken"
    <3>1. Explained
      BY <2>8 DEF FailuresExplained
    <3>2. Explained'
      BY <1>3, <2>8, <3>1 DEF TypeOK, Explained, Leave, Goto
    <3>3. QED
      BY <3>2 DEF FailuresExplained
  <2>9. QED
    BY <1>3, <2>1, <2>2, <2>3, <2>4, <2>5, <2>6, <2>7, <2>8 DEF WorkerStep, Leave, TypeOK
<1>4. QED
  BY <1>1, <1>2, <1>3 DEF Next, MainStep

\* Only the main thread starts a thread, and in order.
LEMMA NotStartedStep ==
    ASSUME TypeOK, NotStarted, [Next]_vars
    PROVE  NotStarted'
<1> USE RunnerAssumption
<1>1. CASE StartThread
  BY <1>1 DEF TypeOK, NotStarted, StartThread, Goto, Worker
<1>2. CASE BeginJoin \/ Report \/ StartFails \/ Interrupt \/ UNCHANGED vars
  BY <1>2 DEF NotStarted, BeginJoin, Report, StartFails, Interrupt, vars
<1>3. ASSUME NEW w \in Worker, WorkerStep(w)
      PROVE  NotStarted'
  <2>1. pc[w] # "new" /\ main' = main /\ next' = next
    BY <1>3 DEF WorkerStep, WarmupCall, TimedCall, CallFails, Raise, ArriveBroken, Arrive,
                ArriveLast, BeginFails, Leave, EndTimed, WarmedUp
  <2>2. \A v \in Worker : v # w => pc'[v] = pc[v]
    BY <1>3 DEF TypeOK, WorkerStep, WarmupCall, TimedCall, CallFails, Raise, ArriveBroken,
                Arrive, ArriveLast, BeginFails, Leave, EndTimed, WarmedUp, Goto
  <2>3. QED
    BY <2>1, <2>2 DEF NotStarted
<1>4. QED
  BY <1>1, <1>2, <1>3 DEF Next, MainStep

\* Ended threads do not move, and the main thread is done.
LEMMA ReportStep ==
    ASSUME TypeOK, ReportFinal, [Next]_vars
    PROVE  ReportFinal'
<1>1. CASE MainStep \/ StartFails \/ Interrupt \/ UNCHANGED vars
  BY <1>1 DEF ReportFinal, MainStep, StartThread, BeginJoin, Report, StartFails, Interrupt, vars
<1>2. ASSUME NEW w \in Worker, WorkerStep(w)
      PROVE  ReportFinal'
  <2>1. pc[w] # "ended" /\ main' = main
    BY <1>2 DEF WorkerStep, WarmupCall, TimedCall, CallFails, Raise, ArriveBroken, Arrive,
                ArriveLast, BeginFails, Leave, EndTimed, WarmedUp
  <2>2. QED
    BY <1>2, <2>1 DEF ReportFinal
<1>3. QED
  BY <1>1, <1>2 DEF Next

-----------------------------------------------------------------------------

\* All of it holds throughout measure().
LEMMA Invariant == Spec => []IInv
<1>1. Init => IInv
  BY RunnerAssumption
  DEF Init, IInv, TypeOK, WaitersWarm, BeforeClock, AfterClock, FailuresExplained, ReportFinal,
      NotStarted, Worker
<1>2. IInv /\ [Next]_vars => IInv'
  BY TypeStep, WaitersStep, ClockStep, ExplainedStep, ReportStep,
     NotStartedStep DEF IInv
<1>3. QED
  BY <1>1, <1>2, PTL DEF Spec

\* The state of a measurement has its type.
THEOREM TypeCorrect == Spec => []TypeOK
<1>1. IInv => TypeOK
  BY DEF IInv
<1>2. QED
  BY <1>1, Invariant, PTL

\* What it says of the clock, of those who gave up and of a report.
LEMMA Consequences ==
    ASSUME IInv
    PROVE  ClockStartsBetweenPhases /\ GivingUpIsExplained /\ MeasuredIsComplete
<1>1. ClockStartsBetweenPhases
  BY RunnerAssumption
  DEF IInv, TypeOK, BeforeClock, AfterClock, ClockStartsBetweenPhases
<1>2. GivingUpIsExplained
  BY RunnerAssumption
  DEF IInv, TypeOK, FailuresExplained, Explained, GivingUpIsExplained
<1>3. MeasuredIsComplete
  <2>1. SUFFICES ASSUME main = "measured"
                 PROVE  failures = 0 /\ begun = 1 /\ \A w \in Worker : timed[w] = Iters
    BY DEF MeasuredIsComplete
  <2>2. ~ Explained
    BY <2>1 DEF IInv, ReportFinal, Explained
  <2>3. failures = 0 /\ \A w \in Worker : timed[w] = Iters
    BY <2>1, <2>2 DEF IInv, FailuresExplained, ReportFinal
  <2>4. 1 \in Worker /\ timed[1] # 0
    BY <2>3, RunnerAssumption DEF Worker
  <2>5. QED
    BY <2>1, <2>3, <2>4 DEF IInv, BeforeClock, AfterClock
<1>4. QED
  BY <1>1, <1>2, <1>3

\* The clock starts once, after every warmup request and before any timed one
\* (runner.py:102-117), for any number of workers.
THEOREM ClockStartsBetweenPhasesCorrect == Spec => []ClockStartsBetweenPhases
BY Consequences, Invariant, PTL

\* A worker that gave up is explained by an error (runner.py:120-124).
THEOREM GivingUpIsExplainedCorrect == Spec => []GivingUpIsExplained
BY Consequences, Invariant, PTL

\* Only a complete measurement without a failure is reported (runner.py:126-159).
THEOREM MeasuredIsCompleteCorrect == Spec => []MeasuredIsComplete
BY Consequences, Invariant, PTL

-----------------------------------------------------------------------------
(* A sweep: every point is such a measurement *)

\* An open barrier is one that somebody has still to leave, so a measurement that is
\* reported leaves it closed for the next point.
DrainingHasWaiters == barrier = "draining" => waiting # {}

\* The timed requests that have been answered.
Answered == {r \in Worker \X (1 .. Iters) : r[2] <= timed[r[1]]}

\* The server has counted those, and the stray ones.
Counting ==
    phase = "measuring" =>
        IF counted = Absent THEN stray = 0
        ELSE begun = 1 /\ counted = stray + Cardinality(Answered)

SweepInv ==
    /\ IInv /\ DrainingHasWaiters
    /\ SweepTypeOK /\ Counting /\ UnnotedTimesAreOurs

-----------------------------------------------------------------------------
(* The runner within a sweep *)

\* A step of a sweep is one of the runner, leaves the runner alone, or sets it up again.
LEMMA RunnerSteps ==
    ASSUME [SweepNext]_<<vars, sweep>>
    PROVE  [Next]_vars \/ Finish
BY DEF SweepNext, MainProceeds, Skip, Prepare, PrepareFails, Stop, Done, Start, MainMoves,
       MainGivesUp, WorkerMoves, Request, RequestFails, Snapshot, SnapshotFails, OtherSteps,
       OtherTraffic, Next, MainStep, WorkerStep, vars

LEMMA DrainingStep ==
    ASSUME TypeOK, DrainingHasWaiters, [Next]_vars
    PROVE  DrainingHasWaiters'
<1>1. ASSUME NEW w \in Worker, Leave(w)
      PROVE  DrainingHasWaiters'
  BY <1>1 DEF DrainingHasWaiters, Leave
<1>2. ASSUME NEW w \in Worker, WorkerStep(w), ~ Leave(w)
      PROVE  DrainingHasWaiters'
  BY <1>2 DEF DrainingHasWaiters, WorkerStep, WarmupCall, TimedCall, CallFails, Raise,
     ArriveBroken, Arrive, ArriveLast, BeginFails, EndTimed
<1>3. CASE UNCHANGED <<barrier, waiting>>
  BY <1>3 DEF DrainingHasWaiters
<1>4. QED
  BY <1>1, <1>2, <1>3 DEF Next, MainStep, StartThread, BeginJoin, Report, StartFails, Interrupt,
     vars

\* A measurement that is reported leaves the runner as it was at the start: nobody waits,
\* nothing failed, the barrier is closed.
LEMMA ResetStep ==
    ASSUME IInv, DrainingHasWaiters, main = "measured", Reset
    PROVE  IInv' /\ DrainingHasWaiters'
<1>1. errors = << >> /\ \A w \in Worker : pc[w] = "ended"
  BY DEF IInv, ReportFinal
<1>2. waiting = {}
  BY <1>1 DEF IInv, WaitersWarm
<1>3. barrier = "filling" /\ failures = 0
  BY <1>1, <1>2 DEF IInv, TypeOK, DrainingHasWaiters, FailuresExplained, Explained
<1>4. TypeOK'
  BY RunnerAssumption DEF IInv, TypeOK, Reset, Worker
<1>5. WaitersWarm' /\ NotStarted' /\ ReportFinal'
  BY <1>2 DEF Reset, WaitersWarm, NotStarted, ReportFinal
<1>6. BeforeClock' /\ AfterClock' /\ DrainingHasWaiters'
  BY <1>3 DEF Reset, BeforeClock, AfterClock, DrainingHasWaiters
<1>7. FailuresExplained'
  BY <1>3 DEF Reset, FailuresExplained
<1>8. QED
  BY <1>4, <1>5, <1>6, <1>7 DEF IInv

LEMMA RunnerStep ==
    ASSUME IInv, DrainingHasWaiters, [SweepNext]_<<vars, sweep>>
    PROVE  IInv' /\ DrainingHasWaiters'
<1>1. CASE [Next]_vars
  BY <1>1, TypeStep, WaitersStep, ClockStep, ExplainedStep, ReportStep, NotStartedStep,
     DrainingStep DEF IInv
<1>2. CASE Finish
  BY <1>2, ResetStep DEF Finish
<1>3. QED
  BY <1>1, <1>2, RunnerSteps

-----------------------------------------------------------------------------
(* Types of the sweep *)

LEMMA ClientStep ==
    ASSUME SweepTypeOK, NEW i \in Idents, NEW thread \in [point : Nat, worker : Nat],
           Client(i, thread)
    PROVE  clients' \in [Idents -> [point : Nat, worker : Nat] \cup {Absent}]
BY DEF SweepTypeOK, Client

LEMMA Threads ==
    ASSUME SweepTypeOK
    PROVE  /\ MainThread \in [point : Nat, worker : Nat] /\ 0 \in Idents
           /\ \A w \in Worker : Thread(w) \in [point : Nat, worker : Nat] /\ ident[w] \in Idents
BY RunnerAssumption, SweepAssumption DEF SweepTypeOK, MainThread, Thread, Idents, Worker

\* The identifier of a thread, new or used before.
LEMMA StartIdent ==
    ASSUME TypeOK, NEW i \in IF NumWorkers = 1 THEN {0}
                              ELSE {next + NumWorkers * k : k \in 0 .. (Recycle - 1)},
           next <= NumWorkers
    PROVE  i \in Idents
<1>1. NumWorkers \in Nat \ {0} /\ Recycle \in Nat \ {0} /\ next \in 1 .. NumWorkers
  BY RunnerAssumption, SweepAssumption DEF TypeOK
<1>2. CASE i = 0
  BY <1>1, <1>2 DEF Idents
<1>3. ASSUME NEW k \in 0 .. (Recycle - 1), i = next + NumWorkers * k
      PROVE  i \in Idents
  <2>1. k + 1 <= Recycle /\ k \in Nat
    BY <1>1
  <2>2. NumWorkers * (k + 1) <= NumWorkers * Recycle
    BY <1>1, <2>1
  <2>3. NumWorkers * (k + 1) = NumWorkers * k + NumWorkers
    BY <1>1, <2>1
  <2>4. NumWorkers * k \in Nat
    BY <1>1, <2>1
  <2>5. QED
    BY <1>1, <1>3, <2>2, <2>3, <2>4 DEF Idents
<1>4. QED
  BY <1>2, <1>3

LEMMA RowsGrow ==
    ASSUME SweepTypeOK, NEW row \in Row, rows' = Append(rows, row)
    PROVE  /\ rows' \in Seq(Row)
           /\ \A k \in DOMAIN rows' : (k \in DOMAIN rows /\ rows'[k] = rows[k]) \/ rows'[k] = row
BY DEF SweepTypeOK

\* What Finish writes down.
FinishedRow(readable) ==
    IF counted = Absent \/ ~readable
    THEN [skipped |-> FALSE, times |-> Absent, note |-> target = "triton"]
    ELSE [skipped |-> FALSE, times |-> [requests |-> counted, strange |-> stray],
          note |-> Note(counted)]

LEMMA FinishedIsRow ==
    ASSUME SweepTypeOK, NEW readable \in BOOLEAN
    PROVE  FinishedRow(readable) \in Row
<1>1. Note(counted) \in BOOLEAN
  BY DEF Note
<1>2. counted # Absent => [requests |-> counted, strange |-> stray] \in [requests : Nat, strange : Nat]
  BY DEF SweepTypeOK
<1>3. QED
  BY <1>1, <1>2 DEF FinishedRow, Row

LEMMA SweepTypeStep ==
    ASSUME TypeOK, SweepTypeOK, [SweepNext]_<<vars, sweep>>
    PROVE  SweepTypeOK'
<1>1. CASE Skip
  <2>1. [skipped |-> TRUE, times |-> Absent, note |-> FALSE] \in Row
    BY DEF Row
  <2>2. rows' \in Seq(Row)
    BY <1>1, <2>1, RowsGrow DEF Skip
  <2>3. QED
    BY <1>1, <2>2 DEF Skip, SweepTypeOK
<1>2. CASE Prepare
  BY <1>2, ClientStep, Threads DEF Prepare, SweepTypeOK
<1>3. CASE PrepareFails \/ Stop \/ Done
  BY <1>3 DEF PrepareFails, Stop, Done, Close, SweepTypeOK
<1>4. CASE Finish
  <2>1. PICK readable \in BOOLEAN : rows' = Append(rows, FinishedRow(readable))
    BY <1>4 DEF Finish, FinishedRow
  <2>2. rows' \in Seq(Row)
    BY <2>1, FinishedIsRow, RowsGrow
  <2>3. QED
    BY <1>4, <2>2, ClientStep, Threads DEF Finish, SweepTypeOK
<1>5. CASE Start
  <2>1. PICK i \in IF NumWorkers = 1 THEN {0}
                    ELSE {next + NumWorkers * k : k \in 0 .. (Recycle - 1)} :
          ident' = [ident EXCEPT ![next] = i]
    BY <1>5 DEF Start
  <2>2. i \in Idents
    BY <1>5, <2>1, StartIdent DEF Start, StartThread
  <2>3. QED
    BY <1>5, <2>1, <2>2 DEF Start, SweepTypeOK
<1>6. CASE UNCHANGED sweep
  BY <1>6 DEF sweep, SweepTypeOK
<1>7. ASSUME NEW w \in Worker, Request(w) \/ RequestFails(w) \/ Snapshot(w) \/ SnapshotFails(w)
      PROVE  SweepTypeOK'
  <2>1. clients' \in [Idents -> [point : Nat, worker : Nat] \cup {Absent}]
    BY <1>7, ClientStep, Threads DEF Request, RequestFails, Snapshot, SnapshotFails
  <2>2. counted' \in Nat \cup {Absent} /\ stray' \in Nat
    BY <1>7 DEF Request, RequestFails, Snapshot, SnapshotFails, SweepTypeOK
  <2>3. QED
    BY <1>7, <2>1, <2>2 DEF Request, RequestFails, Snapshot, SnapshotFails, SweepTypeOK
<1>8. CASE OtherTraffic
  BY <1>8 DEF OtherTraffic, SweepTypeOK
<1>9. QED
  BY <1>1, <1>2, <1>3, <1>4, <1>5, <1>6, <1>7, <1>8
  DEF SweepNext, MainProceeds, MainMoves, MainGivesUp, WorkerMoves, OtherSteps, sweep

-----------------------------------------------------------------------------
(* What the server counts *)

LEMMA AnsweredFinite == IsFiniteSet(Answered)
<1>1. IsFiniteSet(Worker) /\ IsFiniteSet(1 .. Iters)
  BY RunnerAssumption, FS_Interval DEF Worker
<1>2. IsFiniteSet(Worker \X (1 .. Iters))
  BY <1>1, FS_Product
<1>3. QED
  BY <1>2, FS_Subset DEF Answered

\* A timed request adds one.
LEMMA AnsweredGrows ==
    ASSUME TypeOK, NEW w \in Worker, TimedCall(w)
    PROVE  Cardinality(Answered') = Cardinality(Answered) + 1
<1> DEFINE r == <<w, timed[w] + 1>>
<1>1. timed[w] \in 0 .. Iters /\ timed[w] < Iters /\ timed' = [timed EXCEPT ![w] = timed[w] + 1]
  BY DEF TypeOK, TimedCall
<1>2. r \in Worker \X (1 .. Iters) /\ r \notin Answered
  BY <1>1, RunnerAssumption DEF Answered
<1>3. ASSUME NEW v \in Worker, NEW i \in 1 .. Iters
      PROVE  i <= timed'[v] <=> (i <= timed[v] \/ <<v, i>> = r)
  <2>1. timed[v] \in 0 .. Iters
    BY DEF TypeOK
  <2>2. CASE v = w
    BY <1>1, <2>1, <2>2 DEF TypeOK
  <2>3. CASE v # w
    BY <1>1, <2>3 DEF TypeOK
  <2>4. QED
    BY <2>2, <2>3
<1>4. Answered' = Answered \cup {r}
  BY <1>2, <1>3 DEF Answered
<1>5. QED
  BY <1>2, <1>4, AnsweredFinite, FS_AddElement

\* Before the first there are none, after the last as many as were to be sent.
LEMMA AnsweredNone ==
    ASSUME \A w \in Worker : timed[w] = 0
    PROVE  Cardinality(Answered) = 0
<1>1. Answered = {}
  BY DEF Answered
<1>2. QED
  BY <1>1, FS_EmptySet

LEMMA AnsweredAll ==
    ASSUME \A w \in Worker : timed[w] = Iters
    PROVE  Cardinality(Answered) = NumWorkers * Iters
<1>1. NumWorkers \in Nat /\ Iters \in Nat
  BY RunnerAssumption
<1>2. IsFiniteSet(Worker) /\ Cardinality(Worker) = NumWorkers
  BY <1>1, FS_Interval DEF Worker
<1>3. IsFiniteSet(1 .. Iters) /\ Cardinality(1 .. Iters) = Iters
  BY <1>1, FS_Interval
<1>4. Answered = Worker \X (1 .. Iters)
  BY <1>1 DEF Answered
<1>5. QED
  BY <1>2, <1>3, <1>4, FS_Product

LEMMA CountingStep ==
    ASSUME IInv, SweepTypeOK, Counting, [SweepNext]_<<vars, sweep>>
    PROVE  Counting'
<1> SUFFICES ASSUME phase' = "measuring"
             PROVE  IF counted' = Absent THEN stray' = 0
                    ELSE begun' = 1 /\ counted' = stray' + Cardinality(Answered')
  BY DEF Counting
<1>1. CASE Prepare
  BY <1>1, SweepAssumption DEF Prepare
<1>2. CASE Skip \/ PrepareFails \/ Finish \/ Stop \/ Done
  BY <1>2 DEF Skip, PrepareFails, Finish, Stop, Done, Close
<1>3. ASSUME phase = "measuring", UNCHANGED <<counted, stray, begun, timed>>
      PROVE  Counting'
  BY <1>3 DEF Counting, Answered
<1>4. ASSUME NEW w \in Worker, phase = "measuring", Request(w)
      PROVE  Counting'
  <2>1. CASE counted = Absent
    BY <1>4, <2>1 DEF Request, Counting
  <2>2. CASE counted # Absent
    <3>1. begun = 1 /\ counted = stray + Cardinality(Answered) /\ counted \in Nat
      BY <1>4, <2>2 DEF Counting, SweepTypeOK
    <3>2. pc[w] # "warmup" /\ TimedCall(w)
      BY <1>4, <3>1 DEF Request, WarmupCall, IInv, AfterClock
    <3>3. begun' = 1 /\ counted' = counted + 1 /\ stray' = stray
      BY <1>4, <2>2, <3>1, <3>2 DEF Request, TimedCall
    <3>4. Cardinality(Answered') = Cardinality(Answered) + 1
      BY <3>2, AnsweredGrows DEF IInv
    <3>5. Cardinality(Answered) \in Nat /\ stray \in Nat
      BY AnsweredFinite, FS_CardinalityType DEF SweepTypeOK
    <3>6. counted' = stray' + Cardinality(Answered')
      BY <3>1, <3>3, <3>4, <3>5
    <3>7. QED
      BY <3>3, <3>6, <3>1, SweepAssumption DEF Counting
  <2>3. QED
    BY <2>1, <2>2
<1>5. ASSUME NEW w \in Worker, phase = "measuring", Snapshot(w)
      PROVE  Counting'
  <2>1. ArriveLast(w) /\ pc[w] = "warmup" /\ timed' = timed /\ stray' = stray
    BY <1>5 DEF Snapshot, ArriveLast, WarmedUp
  <2>2. begun = 0
    BY <2>1 DEF IInv, AfterClock
  <2>3. begun' = 1 /\ Cardinality(Answered) = 0
    BY <2>1, <2>2, AnsweredNone DEF ArriveLast, IInv, BeforeClock
  <2>4. counted = Absent /\ stray = 0
    BY <1>5, <2>2 DEF Counting
  <2>5. Cardinality(Answered') = 0
    BY <2>1, <2>3 DEF Answered
  <2>6. counted' \in {0, Absent}
    BY <1>5 DEF Snapshot
  <2>7. QED
    BY <2>1, <2>3, <2>4, <2>5, <2>6 DEF Counting
<1>6. CASE OtherTraffic /\ phase = "measuring"
  <2>1. begun = 1 /\ counted = stray + Cardinality(Answered) /\ stray \in Nat
    BY <1>6 DEF OtherTraffic, Counting, SweepTypeOK
  <2>2. begun' = begun /\ timed' = timed /\ counted' = counted + 1 /\ stray' = stray + 1
    BY <1>6 DEF OtherTraffic, vars
  <2>3. Answered' = Answered /\ Cardinality(Answered) \in Nat
    BY <2>2, AnsweredFinite, FS_CardinalityType DEF Answered
  <2>4. counted' = stray' + Cardinality(Answered') /\ counted' \in Nat
    BY <2>1, <2>2, <2>3
  <2>5. QED
    BY <2>1, <2>2, <2>4, SweepAssumption DEF Counting
<1>7. ASSUME NEW w \in Worker, phase # "preparing",
             RequestFails(w) \/ SnapshotFails(w) \/ OtherSteps(w)
      PROVE  UNCHANGED <<phase, counted, stray, begun, timed>>
  BY <1>7 DEF RequestFails, SnapshotFails, OtherSteps, sweep, CallFails, BeginFails, Raise,
     ArriveBroken, Arrive, Leave, EndTimed
<1>8. ASSUME Start \/ MainMoves \/ MainGivesUp \/ UNCHANGED <<vars, sweep>>
      PROVE  UNCHANGED <<phase, counted, stray, begun, timed>>
  BY <1>8 DEF Start, StartThread, MainMoves, MainGivesUp, BeginJoin, Report, StartFails, Interrupt,
     sweep, vars
<1>9. ASSUME NEW w \in Worker, Request(w) \/ Snapshot(w)
      PROVE  phase' = phase
  BY <1>9 DEF Request, Snapshot
<1>10. QED
  BY <1>1, <1>2, <1>3, <1>4, <1>5, <1>6, <1>7, <1>8, <1>9
  DEF SweepNext, MainProceeds, WorkerMoves, Counting

\* A row is written when all have been answered.
LEMMA NotedStep ==
    ASSUME IInv, SweepTypeOK, Counting, UnnotedTimesAreOurs, [SweepNext]_<<vars, sweep>>
    PROVE  UnnotedTimesAreOurs'
<1>1. CASE rows' = rows
  BY <1>1 DEF UnnotedTimesAreOurs
<1>2. CASE Skip
  <2> DEFINE row == [skipped |-> TRUE, times |-> Absent, note |-> FALSE]
  <2>1. row \in Row /\ rows' = Append(rows, row)
    BY <1>2 DEF Skip, Row
  <2>2. \A k \in DOMAIN rows' : (k \in DOMAIN rows /\ rows'[k] = rows[k]) \/ rows'[k] = row
    BY <2>1, RowsGrow
  <2>3. QED
    BY <2>2 DEF UnnotedTimesAreOurs
<1>3. CASE Finish
  <2>1. PICK readable \in BOOLEAN : rows' = Append(rows, FinishedRow(readable))
    BY <1>3 DEF Finish, FinishedRow
  <2> DEFINE row == FinishedRow(readable)
  <2>2. \A k \in DOMAIN rows' : (k \in DOMAIN rows /\ rows'[k] = rows[k]) \/ rows'[k] = row
    BY <2>1, FinishedIsRow, RowsGrow
  <2>3. \A w \in Worker : timed[w] = Iters
    BY <1>3, Consequences DEF Finish, MeasuredIsComplete
  <2>4. counted # Absent => counted = stray + NumWorkers * Iters /\ counted \in Nat
    BY <1>3, <2>3, AnsweredAll DEF Finish, Counting, SweepTypeOK
  <2>5. NumWorkers * Iters \in Nat /\ stray \in Nat
    BY RunnerAssumption DEF SweepTypeOK
  <2>6. row.times # Absent /\ ~ row.note
          => row.times.requests = NumWorkers * Iters /\ row.times.strange = 0
    BY <2>4, <2>5 DEF FinishedRow, Note
  <2>7. QED
    BY <2>2, <2>6 DEF UnnotedTimesAreOurs
<1>4. QED
  BY <1>1, <1>2, <1>3
  DEF SweepNext, MainProceeds, Prepare, PrepareFails, Stop, Done, Start, MainMoves, MainGivesUp,
      WorkerMoves, Request, RequestFails, Snapshot, SnapshotFails, OtherSteps, OtherTraffic, sweep

-----------------------------------------------------------------------------

LEMMA SweepInvariant == SweepSpec => []SweepInv
<1>1. SweepInit => SweepInv
  <2>1. SUFFICES ASSUME SweepInit
                 PROVE  SweepInv
    OBVIOUS
  <2>2. IInv
    BY <2>1, RunnerAssumption
    DEF SweepInit, Init, IInv, TypeOK, WaitersWarm, BeforeClock, AfterClock, FailuresExplained,
        ReportFinal, NotStarted, Worker
  <2>3. 0 \in Idents
    BY RunnerAssumption, SweepAssumption DEF Idents
  <2>4. SweepTypeOK
    BY <2>1, <2>3 DEF SweepInit, SweepTypeOK
  <2>5. DrainingHasWaiters /\ Counting /\ UnnotedTimesAreOurs
    BY <2>1 DEF SweepInit, Init, DrainingHasWaiters, Counting, UnnotedTimesAreOurs
  <2>6. QED
    BY <2>2, <2>4, <2>5 DEF SweepInv
<1>2. SweepInv /\ [SweepNext]_<<vars, sweep>> => SweepInv'
  BY RunnerStep, SweepTypeStep, CountingStep, NotedStep DEF SweepInv, IInv
<1>3. QED
  BY <1>1, <1>2, PTL DEF SweepSpec

\* The state of a sweep, and of the measurement it is at, has its type.
THEOREM SweepTypeCorrect == SweepSpec => [](TypeOK /\ SweepTypeOK)
<1>1. SweepInv => TypeOK /\ SweepTypeOK
  BY DEF SweepInv, IInv
<1>2. QED
  BY <1>1, SweepInvariant, PTL

\* At every point of a sweep the clock starts between warmup and timed requests, and only
\* a complete measurement is reported (benchmark/run.py, runner.py:102-159).
THEOREM EveryPointCorrect ==
    SweepSpec => [](ClockStartsBetweenPhases /\ MeasuredIsComplete)
<1>1. SweepInv => ClockStartsBetweenPhases /\ MeasuredIsComplete
  BY Consequences DEF SweepInv
<1>2. QED
  BY <1>1, SweepInvariant, PTL

\* Server-side times without a note are of the timed requests, all of them and no other
\* (triton_target.py:29-60), whatever else the server does.
THEOREM UnnotedTimesAreOursCorrect == SweepSpec => []UnnotedTimesAreOurs
<1>1. SweepInv => UnnotedTimesAreOurs
  BY DEF SweepInv
<1>2. QED
  BY <1>1, SweepInvariant, PTL

=============================================================================
