-------------------------- MODULE TritonServerProofs --------------------------
(***************************************************************************)
(* Theorems about TritonServer, for any serves and stops and any number of *)
(* probes.                                                                 *)
(***************************************************************************)
EXTENDS TritonServer, TLAPS

\* A serve that has not come past `docker run` has launched nothing.
NotYetLaunched == \A c \in Serve : pc[c] \in {"idle", "run"} => ~ launched[c]

\* While commands do not overlap there is one at a time ...
Alone == ~ overlapped => \A c, d \in Running : c = d

\* ... and a serve that waits sees no container but its own.
Waiting == {"inspect", "probe", "deadline", "remove", "status"}
OwnOrNone ==
    ~ overlapped => \A c \in Serve : pc[c] \in Waiting => container = Absent \/ container.owner = c

IInv == TypeOK /\ NotYetLaunched /\ Alone /\ OwnOrNone /\ FailedWaitLeavesNothing

\* The steps of a command once it has been issued.
Work(c) == (c \in Serve /\ ServeStep(c)) \/ (c \in Stop /\ StopStep(c))

LEMMA NextIs ==
    ASSUME Next
    PROVE  \/ \E c \in Serve : BeginServe(c)
           \/ \E c \in Stop : BeginStop(c)
           \/ \E c \in Command : Work(c)
           \/ BecomesReady \/ Exits
BY DEF Next, Work, Command

-----------------------------------------------------------------------------

\* The steps of the commands and of the container keep the types.
LEMMA TypeStep ==
    ASSUME TypeOK, [Next]_vars
    PROVE  TypeOK'
<1> USE ServerAssumption
<1>1. ASSUME NEW c \in Command, (c \in Serve /\ BeginServe(c)) \/ (c \in Stop /\ BeginStop(c))
      PROVE  TypeOK'
  BY <1>1 DEF TypeOK, BeginServe, BeginStop, Issue, Goto, Ended
<1>2. ASSUME NEW c \in Serve, DockerRun(c) \/ DockerRunFails(c)
      PROVE  TypeOK'
  <2>1. container' \in Container \cup {Absent}
    <3>1. New(c, "created") \in Container /\ New(c, "running") \in Container
      BY DEF New, Container
    <3>2. QED
      BY <1>2, <3>1 DEF TypeOK, DockerRun, DockerRunFails
  <2>2. launched' \in [Serve -> BOOLEAN]
    BY <1>2 DEF TypeOK, DockerRun, DockerRunFails
  <2>3. QED
    BY <1>2, <2>1, <2>2 DEF TypeOK, DockerRun, DockerRunFails, Goto, Ended, Command
<1>3. ASSUME NEW c \in Serve,
             Inspect(c) \/ Probe(c) \/ WaitFails(c) \/ Remove(c) \/ RemoveFails(c)
                 \/ ServeStatus(c) \/ ServeStatusFails(c)
      PROVE  TypeOK'
  BY <1>3 DEF TypeOK, Inspect, Probe, WaitFails, Remove, RemoveFails, ServeStatus,
              ServeStatusFails, Goto, Ended, Command
<1>4. ASSUME NEW c \in Serve, Deadline(c)
      PROVE  TypeOK'
  <2>1. polls[c] \in 0 .. MaxPolls
    BY DEF TypeOK
  <2>2. polls' \in [Serve -> 0 .. MaxPolls]
    BY <1>4, <2>1 DEF TypeOK, Deadline
  <2>3. QED
    BY <1>4, <2>2 DEF TypeOK, Deadline, Goto, Ended, Command
<1>5. ASSUME NEW c \in Stop, StopStep(c)
      PROVE  TypeOK'
  <2>1. container' \in Container \cup {Absent}
    BY <1>5 DEF TypeOK, StopStep, DockerStop, DockerStopFails, DockerRemove, Container
  <2>2. QED
    BY <1>5, <2>1 DEF TypeOK, StopStep, DockerStop, DockerStopFails, DockerRemove, Goto, Ended, Command
<1>6. ASSUME BecomesReady \/ Exits
      PROVE  TypeOK'
  BY <1>6 DEF TypeOK, BecomesReady, Exits, State, Container
<1>7. ASSUME UNCHANGED vars
      PROVE  TypeOK'
  BY <1>7 DEF TypeOK, vars
<1>8. QED
  <2>1. ASSUME NEW c \in Serve, BeginServe(c) \/ ServeStep(c)
        PROVE  TypeOK'
    BY <1>1, <1>2, <1>3, <1>4, <2>1 DEF ServeStep, Command
  <2>2. ASSUME NEW c \in Stop, BeginStop(c) \/ StopStep(c)
        PROVE  TypeOK'
    BY <1>1, <1>5, <2>2 DEF Command
  <2>3. QED
    BY <1>6, <1>7, <2>1, <2>2 DEF Next

\* `docker run` is made once, so nothing is launched before it.
LEMMA NotYetLaunchedStep ==
    ASSUME TypeOK, NotYetLaunched, [Next]_vars
    PROVE  NotYetLaunched'
<1> USE ServerAssumption DEF TypeOK, NotYetLaunched, Command
<1>1. ASSUME NEW c \in Command, BeginServe(c) \/ BeginStop(c)
      PROVE  NotYetLaunched'
  BY <1>1 DEF BeginServe, BeginStop, Issue, Goto
<1>2. ASSUME NEW c \in Serve, ServeStep(c)
      PROVE  NotYetLaunched'
  BY <1>2 DEF ServeStep, DockerRun, DockerRunFails, Inspect, Probe, Deadline, WaitFails,
              Remove, RemoveFails, ServeStatus, ServeStatusFails, Goto
<1>3. ASSUME NEW c \in Stop, StopStep(c)
      PROVE  NotYetLaunched'
  BY <1>3 DEF StopStep, DockerStop, DockerStopFails, DockerRemove, Goto
<1>4. ASSUME BecomesReady \/ Exits \/ UNCHANGED vars
      PROVE  NotYetLaunched'
  BY <1>4 DEF BecomesReady, Exits, vars
<1>5. QED
  BY <1>1, <1>2, <1>3, <1>4 DEF Next

\* Issuing a command while another runs sets overlapped; no other step lets a
\* command begin.
LEMMA AloneStep ==
    ASSUME TypeOK, Alone, [Next]_vars
    PROVE  Alone'
<1> USE DEF TypeOK, Command
<1>1. ASSUME NEW c \in Command, BeginServe(c) \/ BeginStop(c)
      PROVE  Alone'
  BY <1>1 DEF Alone, Running, BeginServe, BeginStop, Issue, Goto
<1>2. ASSUME NEW c \in Command, Work(c)
      PROVE  Alone'
  <2>1. Running' \subseteq Running
    BY <1>2 DEF Running, Ended, Work, ServeStep, DockerRun, DockerRunFails, Inspect, Probe, Deadline,
       WaitFails, Remove, RemoveFails, ServeStatus, ServeStatusFails, StopStep, DockerStop,
       DockerStopFails, DockerRemove, Goto
  <2>2. overlapped' = overlapped
    BY <1>2 DEF Work, ServeStep, DockerRun, DockerRunFails, Inspect, Probe, Deadline,
       WaitFails, Remove, RemoveFails, ServeStatus, ServeStatusFails, StopStep, DockerStop,
       DockerStopFails, DockerRemove
  <2>3. QED
    BY <2>1, <2>2 DEF Alone
<1>3. ASSUME BecomesReady \/ Exits \/ UNCHANGED vars
      PROVE  Alone'
  BY <1>3 DEF Alone, Running, BecomesReady, Exits, vars
<1>4. QED
  BY <1>1, <1>2, <1>3, NextIs DEF Next

\* A container appears by the `docker run` of a serve that is alone.
LEMMA OwnOrNoneStep ==
    ASSUME TypeOK, Alone, OwnOrNone, [Next]_vars
    PROVE  OwnOrNone'
<1> USE ServerAssumption DEF TypeOK, Command, Waiting
<1>1. ASSUME NEW c \in Command, (c \in Serve /\ BeginServe(c)) \/ (c \in Stop /\ BeginStop(c))
      PROVE  OwnOrNone'
  <2>1. SUFFICES ASSUME ~ overlapped', NEW d \in Serve, pc'[d] \in Waiting
                 PROVE  FALSE
    BY DEF OwnOrNone
  <2>2. Running = {}
    BY <1>1, <2>1 DEF BeginServe, BeginStop, Issue
  <2>3. pc'[d] \in {"run", "failed", "ok", "stop"} \/ pc'[d] = pc[d]
    BY <1>1 DEF BeginServe, BeginStop, Goto
  <2>4. QED
    BY <2>1, <2>2, <2>3 DEF Running, Ended
<1>2. ASSUME NEW c \in Serve, DockerRun(c) \/ DockerRunFails(c)
      PROVE  OwnOrNone'
  <2>1. SUFFICES ASSUME ~ overlapped', NEW d \in Serve, pc'[d] \in Waiting
                 PROVE  container' = Absent \/ container'.owner = d
    BY DEF OwnOrNone
  <2>2. CASE d = c
    BY <1>2, <2>1, <2>2 DEF DockerRun, DockerRunFails, New, Goto
  <2>3. CASE d # c
    <3>1. pc[d] \in Waiting /\ pc[c] = "run" /\ ~ overlapped
      BY <1>2, <2>1, <2>3 DEF DockerRun, DockerRunFails, Goto
    <3>2. {c, d} \subseteq Running
      BY <3>1 DEF Running, Ended
    <3>3. QED
      BY <2>3, <3>1, <3>2 DEF Alone
  <2>4. QED
    BY <2>2, <2>3
<1>3. ASSUME NEW c \in Serve,
             Inspect(c) \/ Probe(c) \/ Deadline(c) \/ WaitFails(c) \/ Remove(c) \/ RemoveFails(c)
                 \/ ServeStatus(c) \/ ServeStatusFails(c)
      PROVE  OwnOrNone'
  <2>1. /\ container' \in {container, Absent} /\ overlapped' = overlapped
        /\ pc[c] \in Waiting /\ \A d \in Serve : d # c => pc'[d] = pc[d]
    BY <1>3 DEF Inspect, Probe, Deadline, WaitFails, Remove, RemoveFails, ServeStatus,
                ServeStatusFails, Goto
  <2>2. QED
    BY <2>1 DEF OwnOrNone
<1>4. ASSUME NEW c \in Stop, StopStep(c)
      PROVE  OwnOrNone'
  <2>1. container' = Absent \/ container'.owner = container.owner
    BY <1>4 DEF StopStep, DockerStop, DockerStopFails, DockerRemove, Container
  <2>2. overlapped' = overlapped /\ \A d \in Serve : pc'[d] = pc[d]
    BY <1>4 DEF StopStep, DockerStop, DockerStopFails, DockerRemove, Goto
  <2>3. container = Absent => container' = Absent
    BY <1>4 DEF StopStep, DockerStop, DockerStopFails, DockerRemove
  <2>4. QED
    BY <2>1, <2>2, <2>3 DEF OwnOrNone
<1>5. ASSUME BecomesReady \/ Exits \/ UNCHANGED vars
      PROVE  OwnOrNone'
  BY <1>5 DEF OwnOrNone, BecomesReady, Exits, State, Container, vars
<1>6. QED
  BY <1>1, <1>2, <1>3, <1>4, <1>5 DEF Next, ServeStep

\* A serve that is waiting fails through `docker rm` only.
LEMMA FailedWaitStep ==
    ASSUME TypeOK, NotYetLaunched, FailedWaitLeavesNothing, [Next]_vars
    PROVE  FailedWaitLeavesNothing'
<1> USE ServerAssumption DEF TypeOK, Command
<1>1. ASSUME NEW c \in Command, (c \in Serve /\ BeginServe(c)) \/ (c \in Stop /\ BeginStop(c))
      PROVE  FailedWaitLeavesNothing'
  BY <1>1 DEF NotYetLaunched, FailedWaitLeavesNothing, BeginServe, BeginStop, Issue, Goto
<1>2. ASSUME NEW c \in Serve, DockerRun(c) \/ DockerRunFails(c)
      PROVE  FailedWaitLeavesNothing'
  <2>1. SUFFICES ASSUME NEW d \in Serve, pc'[d] = "failed", launched'[d]
                 PROVE  container' = Absent \/ container'.owner # d
    BY DEF FailedWaitLeavesNothing
  <2>2. d # c
    BY <1>2, <2>1 DEF NotYetLaunched, DockerRun, DockerRunFails, Goto
  <2>3. pc[d] = "failed" /\ launched[d]
    BY <1>2, <2>1, <2>2 DEF DockerRun, DockerRunFails, Goto
  <2>4. QED
    BY <1>2, <2>2, <2>3 DEF FailedWaitLeavesNothing, DockerRun, DockerRunFails, New
<1>3. ASSUME NEW c \in Serve,
             Inspect(c) \/ Probe(c) \/ Deadline(c) \/ WaitFails(c) \/ Remove(c) \/ RemoveFails(c)
                 \/ ServeStatus(c) \/ ServeStatusFails(c)
      PROVE  FailedWaitLeavesNothing'
  BY <1>3 DEF FailedWaitLeavesNothing, Inspect, Probe, Deadline, WaitFails, Remove, RemoveFails,
              ServeStatus, ServeStatusFails, Goto
<1>4. ASSUME NEW c \in Stop, StopStep(c)
      PROVE  FailedWaitLeavesNothing'
  <2>1. /\ launched' = launched /\ \A d \in Serve : pc'[d] = pc[d]
        /\ container' = Absent \/ (container # Absent /\ container'.owner = container.owner)
              \/ container' = container
    BY <1>4 DEF StopStep, DockerStop, DockerStopFails, DockerRemove, Goto, Container
  <2>2. QED
    BY <2>1 DEF FailedWaitLeavesNothing
<1>5. ASSUME BecomesReady \/ Exits \/ UNCHANGED vars
      PROVE  FailedWaitLeavesNothing'
  BY <1>5 DEF FailedWaitLeavesNothing, BecomesReady, Exits, State, Container, vars
<1>6. QED
  BY <1>1, <1>2, <1>3, <1>4, <1>5 DEF Next, ServeStep

-----------------------------------------------------------------------------

LEMMA Invariant == Spec => []IInv
<1>1. Init => IInv
  <2>1. SUFFICES ASSUME Init
                 PROVE  IInv
    OBVIOUS
  <2>2. polls \in [Serve -> 0 .. MaxPolls]
    BY <2>1, ServerAssumption DEF Init
  <2>3. launched \in [Serve -> BOOLEAN] /\ overlapped \in BOOLEAN
    BY <2>1 DEF Init
  <2>4. container = Absent /\ \A c \in Command : pc[c] = "idle"
    BY <2>1 DEF Init
  <2>5. TypeOK
    BY <2>1, <2>2, <2>3 DEF Init, TypeOK
  <2>6. NotYetLaunched
    BY <2>1 DEF Init, NotYetLaunched
  <2>7. Alone
    BY <2>4 DEF Alone, Running
  <2>8. OwnOrNone /\ FailedWaitLeavesNothing
    BY <2>4 DEF OwnOrNone, FailedWaitLeavesNothing
  <2>9. QED
    BY <2>5, <2>6, <2>7, <2>8 DEF IInv
<1>2. IInv /\ [Next]_vars => IInv'
  BY TypeStep, NotYetLaunchedStep, AloneStep, OwnOrNoneStep, FailedWaitStep DEF IInv
<1>3. QED
  BY <1>1, <1>2, PTL DEF Spec

\* The state of the commands and of the container has its type.
THEOREM TypeCorrect == Spec => []TypeOK
<1>1. IInv => TypeOK
  BY DEF IInv
<1>2. QED
  BY <1>1, Invariant, PTL

\* However many commands interleave, a serve that fails while it waits for what it launched
\* has left no container of its own behind (server.py:214-218), unless docker kept it.
THEOREM FailedWaitCorrect == Spec => []FailedWaitLeavesNothing
<1>1. IInv => FailedWaitLeavesNothing
  BY DEF IInv
<1>2. QED
  BY <1>1, Invariant, PTL

\* While commands do not overlap a serve removes its own container only
\* (server.py:187, DECISIONS.md:335).
THEOREM NeverTouchesOthersCorrect == Spec => NeverTouchesOthers
<1>1. IInv /\ [Next]_vars =>
        [\A c \in Serve :
            ~ overlapped /\ pc[c] = "remove" /\ pc'[c] = "failed" =>
                container = Absent \/ container.owner = c]_vars
  BY DEF IInv, OwnOrNone, Waiting
<1>2. QED
  BY <1>1, Invariant, PTL DEF Spec, NeverTouchesOthers

=============================================================================
