---------------------------------- MODULE Sweep ----------------------------------
(***************************************************************************)
(* run_matrix() of benchmark/run.py: one target measured at several batch  *)
(* sizes, each point by the runner of BenchmarkRunner.  For a target that  *)
(* is a Triton server (benchmark/triton_target.py) it adds the client each *)
(* thread keeps under its identifier, and the server's request counter,    *)
(* read when the clock starts and after the threads have ended.            *)
(***************************************************************************)
EXTENDS BenchmarkRunner

CONSTANTS Points,       \* how many batch sizes are measured
          Recycle,      \* bound: identifiers that a worker's thread may be given
          MaxStray,     \* bound: requests of others counted between the snapshots
          Absent

ASSUME SweepAssumption ==
    /\ Points \in Nat \ {0} /\ Recycle \in Nat \ {0} /\ MaxStray \in Nat
    /\ Absent \notin Nat

VARIABLES target,       \* a Triton server, or an engine executed directly
          phase,        \* of the sweep
          rows,         \* the results, one per point
          ident,        \* worker -> identifier of its thread
          clients,      \* identifier -> the thread that made the client kept there
          counted,      \* requests counted since the first snapshot, Absent without one
          stray         \* those of them that are not timed requests

sweep == <<target, phase, rows, ident, clients, counted, stray>>

Idents == 0 .. (NumWorkers * Recycle)      \* 0 is the main thread
Thread(w) == [point |-> Len(rows) + 1, worker |-> w]
MainThread == [point |-> 0, worker |-> 0]

Row == [skipped : BOOLEAN, times : [requests : Nat, strange : Nat] \cup {Absent}, note : BOOLEAN]

SweepTypeOK ==
    /\ target \in {"triton", "tensorrt"}
    /\ phase \in {"preparing", "measuring", "closed"}
    /\ rows \in Seq(Row)
    /\ ident \in [Worker -> Idents]
    /\ clients \in [Idents -> [point : Nat, worker : Nat] \cup {Absent}]
    /\ counted \in Nat \cup {Absent}
    /\ stray \in Nat

SweepInit ==
    /\ Init
    /\ target \in {"triton", "tensorrt"}
    /\ phase = "preparing"
    /\ rows = << >>
    /\ ident = [w \in Worker |-> 0]
    /\ clients = [i \in Idents |-> Absent]
    /\ counted = Absent
    /\ stray = 0

\* _client(): the client kept for the calling thread's identifier, or a new one.
Client(i, thread) ==
    clients' = IF target = "triton" /\ clients[i] = Absent
               THEN [clients EXCEPT ![i] = thread] ELSE clients

Close ==
    /\ phase' = "closed"
    /\ clients' = [i \in Idents |-> Absent]

\* The runner of the next point; nothing failed, and the barrier is empty and closed.
Reset ==
    /\ pc' = [w \in Worker |-> "new"]
    /\ warm' = [w \in Worker |-> 0]
    /\ timed' = [w \in Worker |-> 0]
    /\ begun' = 0 /\ main' = "starting" /\ next' = 1
    /\ UNCHANGED <<barrier, waiting, errors, failures>>

-----------------------------------------------------------------------------
(* The sweep, on the main thread *)

\* An executed engine takes one request at a time.
Skip ==
    /\ phase = "preparing" /\ Len(rows) < Points
    /\ target = "tensorrt" /\ NumWorkers > 1
    /\ rows' = Append(rows, [skipped |-> TRUE, times |-> Absent, note |-> FALSE])
    /\ UNCHANGED <<vars, target, phase, ident, clients, counted, stray>>

\* prepare() and the cold call, which is the first worker's but made by the main thread.
Prepare ==
    /\ phase = "preparing" /\ Len(rows) < Points
    /\ target = "triton" \/ NumWorkers = 1
    /\ phase' = "measuring"
    /\ Client(0, MainThread)
    /\ counted' = Absent /\ stray' = 0
    /\ UNCHANGED <<vars, target, rows, ident>>

\* The model is not ready, or the cold call fails.
PrepareFails ==
    /\ phase = "preparing" /\ Len(rows) < Points
    /\ target = "triton" \/ NumWorkers = 1
    /\ Close
    /\ UNCHANGED <<vars, target, rows, ident, counted, stray>>

\* A mutant: only requests that are missing are worth a note.
NoteIfFewer(n) == n < NumWorkers * Iters

\* server_side_delta: the count differs from what was sent.
Note(n) == n # NumWorkers * Iters

\* timed_finished, with statistics that can be read or not, and the row of the point.
Finish ==
    /\ phase = "measuring" /\ main = "measured"
    /\ Client(0, MainThread)
    /\ \E readable \in BOOLEAN :
         rows' = Append(rows,
           IF counted = Absent \/ ~readable
           THEN [skipped |-> FALSE, times |-> Absent, note |-> target = "triton"]
           ELSE [skipped |-> FALSE, times |-> [requests |-> counted, strange |-> stray],
                 note |-> Note(counted)])
    /\ Reset
    /\ phase' = "preparing"
    /\ UNCHANGED <<target, ident, counted, stray>>

\* The measurement raised: the target is closed, even if threads are left running.
Stop ==
    /\ phase = "measuring" /\ main \in {"failed", "no_thread", "interrupted"}
    /\ Close
    /\ UNCHANGED <<vars, target, rows, ident, counted, stray>>

Done ==
    /\ phase = "preparing" /\ Len(rows) = Points
    /\ Close
    /\ UNCHANGED <<vars, target, rows, ident, counted, stray>>

-----------------------------------------------------------------------------
(* The runner, and what its steps do to the target *)

\* A new thread may be given the identifier of one that has ended.
Start ==
    /\ StartThread
    /\ \E i \in IF NumWorkers = 1 THEN {0}
                ELSE {next + NumWorkers * k : k \in 0 .. (Recycle - 1)} :
         ident' = [ident EXCEPT ![next] = i]
    /\ UNCHANGED <<target, phase, rows, clients, counted, stray>>

MainMoves ==
    /\ BeginJoin \/ Report
    /\ UNCHANGED sweep

MainGivesUp ==
    /\ StartFails \/ Interrupt
    /\ UNCHANGED sweep

\* A request that succeeds is counted by the server.
Request(w) ==
    /\ WarmupCall(w) \/ TimedCall(w)
    /\ Client(ident[w], Thread(w))
    /\ counted' = IF counted = Absent THEN Absent ELSE counted + 1
    /\ stray' = IF counted # Absent /\ pc[w] = "warmup" THEN stray + 1 ELSE stray
    /\ UNCHANGED <<target, phase, rows, ident>>

RequestFails(w) ==
    /\ CallFails(w)
    /\ Client(ident[w], Thread(w))
    /\ UNCHANGED <<target, phase, rows, ident, counted, stray>>

\* timed_started, by the last worker to arrive: an unreadable statistic is only noted.
Snapshot(w) ==
    /\ ArriveLast(w)
    /\ Client(ident[w], Thread(w))
    /\ counted' \in IF target = "triton" THEN {0, Absent} ELSE {Absent}
    /\ UNCHANGED <<target, phase, rows, ident, stray>>

SnapshotFails(w) ==
    /\ target = "triton"
    /\ BeginFails(w)
    /\ Client(ident[w], Thread(w))
    /\ UNCHANGED <<target, phase, rows, ident, counted, stray>>

OtherSteps(w) ==
    /\ Raise(w) \/ ArriveBroken(w) \/ Arrive(w) \/ Leave(w) \/ EndTimed(w)
    /\ UNCHANGED sweep

WorkerMoves(w) ==
    Request(w) \/ RequestFails(w) \/ Snapshot(w) \/ SnapshotFails(w) \/ OtherSteps(w)

\* The server serves somebody else.
OtherTraffic ==
    /\ counted # Absent /\ stray < MaxStray
    /\ counted' = counted + 1 /\ stray' = stray + 1
    /\ UNCHANGED <<vars, target, phase, rows, ident, clients>>

MainProceeds == Skip \/ Prepare \/ Finish \/ Stop \/ Done
                \/ (phase = "measuring" /\ (Start \/ MainMoves))

SweepNext ==
    \/ MainProceeds
    \/ PrepareFails
    \/ phase = "measuring" /\ MainGivesUp
    \/ \E w \in Worker : phase # "preparing" /\ WorkerMoves(w)
    \/ phase = "measuring" /\ OtherTraffic

\* The main thread and every worker's thread are scheduled.
SweepSpec ==
    /\ SweepInit /\ [][SweepNext]_<<vars, sweep>>
    /\ WF_<<vars, sweep>>(MainProceeds)
    /\ \A w \in Worker : WF_<<vars, sweep>>(phase # "preparing" /\ WorkerMoves(w))

-----------------------------------------------------------------------------
(* Properties *)

\* Server-side times that carry no note are means over exactly the timed requests:
\* a warmup request or somebody else's never goes in unnoticed (triton_target.py:5-8).
UnnotedTimesAreOurs ==
    \A k \in DOMAIN rows :
        rows[k].times # Absent /\ ~rows[k].note =>
            rows[k].times.requests = NumWorkers * Iters /\ rows[k].times.strange = 0

\* A sweep over a server or an engine always ends, whoever fails.
SweepEnds == <>(phase = "closed")
=============================================================================
