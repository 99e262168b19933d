---------------------------- MODULE TritonServer ----------------------------
(***************************************************************************)
(* `trtship serve` and `trtship stop` (triton/server.py): commands that    *)
(* start and remove one Docker container of a fixed name.  Commands know   *)
(* the container only by its name, and nothing keeps two of them apart.    *)
(* Docker, the server in the container and its image are external: the     *)
(* container may fail to start, stop by itself, or never become ready.     *)
(*                                                                         *)
(* Abstractions.  A container remembers the command that created it, which *)
(* no command can see.  One step is one docker call or one readiness probe *)
(* over HTTP; a probe that fails and one that is refused are the same.     *)
(***************************************************************************)
EXTENDS Naturals

CONSTANTS Serve, Stop,       \* the commands: each is issued once
          MaxPolls,          \* probes before startup_timeout_s is over
          Absent             \* "no container of that name"

ASSUME ServerAssumption ==
    /\ Serve \cap Stop = {}
    /\ MaxPolls \in Nat \ {0}

VARIABLES container,         \* [owner, state, ready] or Absent
          pc,
          polls,             \* probes the command has made
          launched,          \* whether its `docker run` succeeded
          overlapped         \* history: two commands ran at once

vars == <<container, pc, polls, launched, overlapped>>

Command == Serve \cup Stop
Container == [owner : Serve, state : {"created", "running", "exited"}, ready : BOOLEAN]
Ended == {"ok", "failed", "kept", "unreported"}
Running == {c \in Command : pc[c] \notin Ended \cup {"idle"}}

State == IF container = Absent THEN "absent" ELSE container.state

TypeOK ==
    /\ container \in Container \cup {Absent}
    /\ pc \in [Command -> {"idle", "run", "inspect", "probe", "deadline", "remove",
                           "status", "stop", "rm"} \cup Ended]
    /\ polls \in [Serve -> 0 .. MaxPolls]
    /\ launched \in [Serve -> BOOLEAN]
    /\ overlapped \in BOOLEAN

Init ==
    /\ container = Absent
    /\ pc = [c \in Command |-> "idle"]
    /\ polls = [c \in Serve |-> 0]
    /\ launched = [c \in Serve |-> FALSE]
    /\ overlapped = FALSE

Goto(c, label) == pc' = [pc EXCEPT ![c] = label]
Issue(c) == pc[c] = "idle" /\ overlapped' = (overlapped \/ Running # {})
New(c, state) == [owner |-> c, state |-> state, ready |-> FALSE]

-----------------------------------------------------------------------------
(* serve *)

\* Mutant: a container that is there is waited for.
BeginServeReuses(c) ==
    /\ Issue(c)
    /\ Goto(c, IF State = "absent" THEN "run" ELSE "inspect")
    /\ UNCHANGED <<container, polls, launched>>

\* A container of the name, in whatever state, makes serve refuse.
BeginServe(c) ==
    /\ Issue(c)
    /\ Goto(c, IF State = "absent" THEN "run" ELSE "failed")
    /\ UNCHANGED <<container, polls, launched>>

DockerRun(c) ==
    /\ pc[c] = "run" /\ container = Absent
    /\ container' = New(c, "running")
    /\ launched' = [launched EXCEPT ![c] = TRUE]
    /\ Goto(c, "inspect")
    /\ UNCHANGED <<polls, overlapped>>

\* `docker run` reports an error, or is cut off after 300 s: before a container
\* was created, or after (a port is taken; the daemon was still at work).
DockerRunFails(c) ==
    /\ pc[c] = "run"
    /\ \/ UNCHANGED container
       \/ container = Absent /\ container' \in {New(c, "created"), New(c, "running")}
    /\ Goto(c, "failed")
    /\ UNCHANGED <<polls, launched, overlapped>>

\* _wait_until_ready: the container must be running ...
Inspect(c) ==
    /\ pc[c] = "inspect"
    /\ Goto(c, IF State = "running" THEN "probe" ELSE "remove")
    /\ UNCHANGED <<container, polls, launched, overlapped>>

\* ... and the server and its models ready.
Probe(c) ==
    /\ pc[c] = "probe"
    /\ Goto(c, IF State = "running" /\ container.ready THEN "status" ELSE "deadline")
    /\ UNCHANGED <<container, polls, launched, overlapped>>

\* Mutant: the deadline is never checked.
DeadlineUnchecked(c) ==
    /\ pc[c] = "deadline"
    /\ Goto(c, "inspect")
    /\ UNCHANGED <<container, polls, launched, overlapped>>

\* The deadline is checked after the probe, so one probe is always made.
Deadline(c) ==
    /\ pc[c] = "deadline"
    /\ IF polls[c] + 1 < MaxPolls
       THEN Goto(c, "inspect") /\ polls' = [polls EXCEPT ![c] = @ + 1]
       ELSE Goto(c, "remove") /\ UNCHANGED polls
    /\ UNCHANGED <<container, launched, overlapped>>

\* Mutant: an interrupt is not caught.
WaitFailsUncaught(c) ==
    /\ pc[c] \in {"inspect", "probe", "deadline"}
    /\ Goto(c, "failed")
    /\ UNCHANGED <<container, polls, launched, overlapped>>

\* docker fails, or the user interrupts, while serve waits.
WaitFails(c) ==
    /\ pc[c] \in {"inspect", "probe", "deadline"}
    /\ Goto(c, "remove")
    /\ UNCHANGED <<container, polls, launched, overlapped>>

\* _remove(): `docker rm --force` by name, the original error raised again.
Remove(c) ==
    /\ pc[c] = "remove"
    /\ container' = Absent
    /\ Goto(c, "failed")
    /\ UNCHANGED <<polls, launched, overlapped>>

\* The result of that `docker rm` is not looked at, and it may be cut off or
\* interrupted: serve fails all the same.
RemoveFails(c) ==
    /\ pc[c] = "remove"
    /\ Goto(c, "kept")
    /\ UNCHANGED <<container, polls, launched, overlapped>>

\* status() looks again, and reports what is there now.
ServeStatus(c) ==
    /\ pc[c] = "status"
    /\ Goto(c, "ok")
    /\ UNCHANGED <<container, polls, launched, overlapped>>

\* status() fails when docker does, and may be interrupted.  Nothing catches that: serve
\* fails and its server stays, although "on any failure the container is removed"
\* (server.py:195).
ServeStatusFails(c) ==
    /\ pc[c] = "status"
    /\ Goto(c, "unreported")
    /\ UNCHANGED <<container, polls, launched, overlapped>>

(* stop *)

BeginStop(c) ==
    /\ Issue(c)
    /\ Goto(c, IF State = "absent" THEN "ok" ELSE "stop")
    /\ UNCHANGED <<container, polls, launched>>

\* "no such container" is as good as stopped.
DockerStop(c) ==
    /\ pc[c] = "stop"
    /\ container' = IF container = Absent THEN Absent
                    ELSE [container EXCEPT !.state = "exited", !.ready = FALSE]
    /\ Goto(c, "rm")
    /\ UNCHANGED <<polls, launched, overlapped>>

DockerStopFails(c) ==
    /\ pc[c] \in {"stop", "rm"}
    /\ Goto(c, "failed")
    /\ UNCHANGED <<container, polls, launched, overlapped>>

DockerRemove(c) ==
    /\ pc[c] = "rm"
    /\ container' = Absent
    /\ Goto(c, "ok")
    /\ UNCHANGED <<polls, launched, overlapped>>

(* The container *)

BecomesReady ==
    /\ State = "running" /\ ~ container.ready
    /\ container' = [container EXCEPT !.ready = TRUE]
    /\ UNCHANGED <<pc, polls, launched, overlapped>>

Exits ==
    /\ State = "running"
    /\ container' = [container EXCEPT !.state = "exited", !.ready = FALSE]
    /\ UNCHANGED <<pc, polls, launched, overlapped>>

-----------------------------------------------------------------------------

ServeStep(c) ==
    \/ DockerRun(c) \/ DockerRunFails(c) \/ Inspect(c) \/ Probe(c) \/ Deadline(c)
    \/ WaitFails(c) \/ Remove(c) \/ RemoveFails(c)
    \/ ServeStatus(c) \/ ServeStatusFails(c)
StopStep(c) == DockerStop(c) \/ DockerStopFails(c) \/ DockerRemove(c)

Next ==
    \/ \E c \in Serve : BeginServe(c) \/ ServeStep(c)
    \/ \E c \in Stop : BeginStop(c) \/ StopStep(c)
    \/ BecomesReady \/ Exits

Spec ==
    /\ Init /\ [][Next]_vars
    /\ \A c \in Serve : WF_vars(ServeStep(c))
    /\ \A c \in Stop : WF_vars(StopStep(c))

-----------------------------------------------------------------------------
(* Properties *)

\* A serve that launched its container and fails while it waits for it (server.py:214-218)
\* does not leave it behind, not even if it was stopped, replaced or restarted meanwhile,
\* unless docker did not remove what it was told to remove.  It says nothing of a serve
\* that fails before the wait (DockerRunFails) or after it (ServeStatusFails).
FailedWaitLeavesNothing ==
    \A c \in Serve :
        pc[c] = "failed" /\ launched[c] => container = Absent \/ container.owner # c

\* While commands do not overlap: "Never touch someone else's container" (DECISIONS.md:335):
\* a serve never stops or removes a container that another serve created.
NeverTouchesOthers ==
    [][\A c \in Serve :
          ~ overlapped /\ pc[c] = "remove" /\ pc'[c] = "failed" =>
              container = Absent \/ container.owner = c]_vars

\* Every command ends: a server that is never ready does not hold serve for ever.
CommandsEnd == \A c \in Command : c \in Running ~> c \notin Running

=============================================================================
