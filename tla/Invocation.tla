------------------------------ MODULE Invocation ------------------------------
(***************************************************************************)
(* `trtship run` up to the first stage (cli/commands/run_cmd.py): the      *)
(* layers of the configuration are merged, the stages are ordered (module  *)
(* StageOrder) and selected, the machine (module Environment) is compared  *)
(* with what they need, and a run directory is created or opened.          *)
(* Commands follow each other on the same directories, each with its own   *)
(* options, environment variables and machine; one may be killed while it  *)
(* creates a directory.  Between them come `doctor` and the commands that  *)
(* only require capabilities.  What stages then do is module Pipeline.     *)
(***************************************************************************)
EXTENDS StageOrder, Environment

CONSTANTS None,
          Tables,           \* bound: the stage tables commands are run for
          Options,          \* the values of --from, --only and --until
          Files, Environs, Overrides,   \* the layers of a configuration: parts of one
          Defaults,         \* a whole configuration: its sections tensorrt and artifacts
          Skipped(_),       \* the stages a value of tensorrt does not need
          Needs,            \* stage -> capabilities it requires
          Machines,         \* bound: the machines (module Environment) commands run on
          Requests,         \* the sets of names that doctor --require is given
          RunId

(* --- configuration: defaults < file < environment < --set --- *)

\* The sections that assignments give a value win over those of data.
ApplyOverrides(data, assignments) ==
  [k \in DOMAIN data \cup DOMAIN assignments |->
     IF k \in DOMAIN assignments THEN assignments[k] ELSE data[k]]

LoadConfig(file, environ, set) ==
  ApplyOverrides(ApplyOverrides(ApplyOverrides(Defaults, file), environ), set)

ASSUME InvocationAssumption ==
  /\ None \notin Stage
  /\ {"tensorrt", "artifacts"} \subseteq DOMAIN Defaults
  /\ \A f \in Files, e \in Environs, s \in Overrides : LoadConfig(f, e, s) # None

VARIABLES pc, cmd, hint, runs

command == <<pc, cmd, hint>>
invocationVars == <<vars, command, runs>>

Layers == Files \cup Environs \cup Overrides \cup {Defaults}
Path == {l.artifacts : l \in {k \in Layers : "artifacts" \in DOMAIN k}}
Dir == Path \X RunId

\* What a resumed run is compared on: every section but artifacts.
Compared(config) == [k \in DOMAIN config \ {"artifacts"} |-> config[k]]

(* --- selection --- *)

Position(s) == CHOOSE n \in DOMAIN ordered : ordered[n] = s
Target(o) == IF o.only # None THEN o.only ELSE o.from
Start(o) == IF o.from = None THEN 1 ELSE Position(o.from)
End(o) == IF o.until = None THEN NumStages ELSE Position(o.until)

\* Mutant: the first stage of the list that is passed in, not of the order.
NeedsRunUnordered(c) == Target(c) \notin {None, 1} /\ c.run = None

\* A later stage can only be the first one of a run that exists.
NeedsRun(c) == Target(c) \notin {None, ordered[1]} /\ c.run = None

Misused(o) ==
  \/ \E s \in {o.from, o.only, o.until} : s \notin Stage \cup {None}
  \/ o.only # None /\ (o.from # None \/ o.until # None)
  \/ Start(o) > End(o)

SelectStages(o) ==
  IF o.only # None THEN <<o.only>> ELSE SubSeq(ordered, Start(o), End(o))

(* --- preflight --- *)

Applies(c, s) == s \notin Skipped(c.config.tensorrt)
Lacks(c, s) == \E name \in Needs[s] : c.report[name] # "ok"
Problems(c) == {s \in Range(SelectStages(c)) : Applies(c, s) /\ Lacks(c, s)}

\* Mutant: every stage that lacks nothing, wherever it is.
RunnableAnywhere(c) ==
  LET sel == SelectStages(c) IN {n \in DOMAIN sel : Applies(c, sel[n]) /\ ~ Lacks(c, sel[n])}

\* The places of the stages before the first problem that have something to do.
Runnable(c) ==
  LET sel == SelectStages(c) IN
  {n \in DOMAIN sel : Applies(c, sel[n]) /\ \A i \in 1 .. n : sel[i] \notin Problems(c)}

HintOf(c) ==
  IF Runnable(c) = {} THEN None
  ELSE SelectStages(c)[CHOOSE n \in Runnable(c) : \A i \in Runnable(c) : i <= n]

(* --- the command --- *)

NoCommand == [run |-> None]

InvocationInit ==
  /\ Init
  /\ pc = "idle" /\ cmd = NoCommand /\ hint = None
  /\ runs = [d \in Dir |-> None]

Order == Next /\ UNCHANGED <<command, runs>>

\* A command: its options, the configuration, and what the probes report.
Commands ==
  {[from |-> o.from, only |-> o.only, until |-> o.until, run |-> r, id |-> i, environ |-> e,
    config |-> LoadConfig(f, e, s), report |-> ProbeAll(m)] :
     o \in Options, r \in Dir \cup {None}, i \in RunId, f \in Files, e \in Environs,
     s \in Overrides, m \in Machines}

Accepted == {c \in Commands : ~ NeedsRun(c) /\ ~ Misused(c)}

AtPrompt == outcome = "ordered" /\ pc = "idle" /\ [c |-> consumes, p |-> produces] \in Tables
Answer(c, reply) == cmd' = c /\ pc' = reply /\ UNCHANGED <<vars, runs>>

Refuse ==
  /\ AtPrompt
  /\ \E c \in Commands \ Accepted : Answer(c, "usage")
  /\ UNCHANGED hint

DryRun ==
  /\ AtPrompt
  /\ \E c \in Accepted : Answer(c, "planned")
  /\ UNCHANGED hint

PreflightFails ==
  /\ AtPrompt
  /\ \E c \in Accepted :
        /\ Problems(c) # {}
        /\ hint' = HintOf(c)
        /\ Answer(c, "unavailable")

PreflightPasses ==
  /\ AtPrompt
  /\ \E c \in Accepted :
        /\ Problems(c) = {}
        /\ Answer(c, IF c.run = None THEN "new" ELSE "open")
  /\ UNCHANGED hint

(* --- commands that ask about the machine and leave every directory alone --- *)

Doctor ==
  /\ AtPrompt
  /\ \E required \in Requests, m \in Machines :
        LET report == ProbeAll(m) IN
        Answer([required |-> required, report |-> report],
               IF ~ (required \subseteq Known) THEN "usage"
               ELSE IF Failures(report, required) = {} THEN "healthy" ELSE "unhealthy")
  /\ UNCHANGED hint

RequireCapabilities ==
  /\ AtPrompt
  /\ \E name \in DOMAIN Requirements, m \in Machines :
        LET report == ProbeAll(m) IN
        Answer([command |-> name, report |-> report], Require(report, Requirements[name]))
  /\ UNCHANGED hint

Where == IF cmd.run = None THEN <<cmd.config.artifacts, cmd.id>> ELSE cmd.run

Goto(label) == pc' = label /\ UNCHANGED <<vars, cmd, hint>>

(* --- resuming: the snapshot is loaded like any configuration file --- *)

IsRun(d) == runs[d] # None /\ runs[d].manifest

OpenFails ==
  /\ pc = "open" /\ ~ IsRun(cmd.run)
  /\ Goto("not_a_run") /\ UNCHANGED runs

\* Mutant: a difference is only looked for if the artifacts section agrees.
DiffersWhereStored(c) ==
  LET snapshot == LoadConfig(runs[c.run].snapshot, c.environ, << >>) IN
  snapshot.artifacts = c.config.artifacts /\ Compared(snapshot) # Compared(c.config)

Differs(c) ==
  Compared(LoadConfig(runs[c.run].snapshot, c.environ, << >>)) # Compared(c.config)

RefuseToResume ==
  /\ pc = "open" /\ IsRun(cmd.run) /\ Differs(cmd)
  /\ Goto("differs") /\ UNCHANGED runs

Resume ==
  /\ pc = "open" /\ IsRun(cmd.run) /\ ~ Differs(cmd)
  /\ Goto("running") /\ UNCHANGED runs

(* --- creating: the directory, the snapshot, the manifest --- *)

CreateFails ==
  /\ pc = "new" /\ runs[Where] # None
  /\ Goto("exists") /\ UNCHANGED runs

MakeDirectory ==
  /\ pc = "new" /\ runs[Where] = None
  /\ runs' = [runs EXCEPT ![Where] = [snapshot |-> None, manifest |-> FALSE]]
  /\ Goto("made")

WriteSnapshot ==
  /\ pc = "made"
  /\ runs' = [runs EXCEPT ![Where].snapshot = cmd.config]
  /\ Goto("described")

WriteManifest ==
  /\ pc = "described"
  /\ runs' = [runs EXCEPT ![Where].manifest = TRUE]
  /\ Goto("running")

Crash ==
  /\ pc \in {"made", "described"}
  /\ Goto("killed") /\ UNCHANGED runs

\* The command has answered, or its stages have run; another one may follow.
Finish ==
  /\ pc \notin {"idle", "new", "open", "made", "described"}
  /\ pc' = "idle" /\ cmd' = NoCommand /\ hint' = None
  /\ UNCHANGED <<vars, runs>>

InvocationNext ==
  \/ Order \/ Refuse \/ DryRun \/ PreflightFails \/ PreflightPasses
  \/ Doctor \/ RequireCapabilities
  \/ OpenFails \/ RefuseToResume \/ Resume
  \/ CreateFails \/ MakeDirectory \/ WriteSnapshot \/ WriteManifest \/ Crash
  \/ Finish

InvocationSpec == InvocationInit /\ [][InvocationNext]_invocationVars

-----------------------------------------------------------------------------
(* Properties *)

\* The --until value that a failed preflight proposes (orchestrator.py:153-163,
\* docs/pipeline/overview.md) makes the same command pass, and it is proposed
\* unless the first stage with something to do is already impossible.
HintWorks ==
  pc = "unavailable" =>
    LET retry == [cmd EXCEPT !.until = hint] IN
    IF hint = None
    THEN LET sel == SelectStages(cmd)
             first == CHOOSE n \in DOMAIN sel : Applies(cmd, sel[n])
                          /\ \A i \in 1 .. (n - 1) : ~ Applies(cmd, sel[i])
         IN sel[first] \in Problems(cmd)
    ELSE ~ NeedsRun(retry) /\ ~ Misused(retry) /\ Problems(retry) = {}

\* In a new run no selected stage has to do without something that another stage
\* of the program makes: its producers are selected and run before it.
NewRunFeedsItself ==
  pc = "running" /\ cmd.run = None =>
    LET sel == SelectStages(cmd) IN
    \A n \in DOMAIN sel : \A p \in Stage :
        Feeds(p, sel[n]) => \E m \in 1 .. (n - 1) : sel[m] = p

\* "A run may only be continued with the configuration it was created with"
\* (run_cmd.py:43), artifacts aside.
SameConfiguration ==
  pc = "running" => Compared(runs[Where].snapshot) = Compared(cmd.config)

\* It is kept as long as no environment variable overrides the configuration,
\* whatever happened to the directory; and only a whole run is continued.
ResumesWhatWasCreated ==
  pc = "running" =>
    /\ runs[Where].manifest /\ runs[Where].snapshot # None
    /\ cmd.environ = << >> => Compared(runs[Where].snapshot) = Compared(cmd.config)

=============================================================================
