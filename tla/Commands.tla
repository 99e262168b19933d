-------------------------------- MODULE Commands --------------------------------
(***************************************************************************)
(* The commands that leave a file behind: export, optimize, build, package *)
(* and calibrate (cli/commands), as processes that share a directory.      *)
(* Each looks whether its output exists, reads, works, writes next to the  *)
(* output and publishes without overwriting (utils/fs.py, and a rename or  *)
(* mkdir for directories).  build also writes the description that package *)
(* reads, and calibrate may adopt an older cache.  Any step may fail, a    *)
(* process may be killed, and the user may edit, damage or remove files.   *)
(* The timing cache of the builder is left out.                            *)
(***************************************************************************)
EXTENDS Integers

CONSTANTS Process, None,
          Torn,         \* what is left of a description that was not fully written
          Exported,     \* the graphs the model may export to
          Datasets,     \* the states of the calibration data
          MaxBuilds,    \* bound: engines built and calibrations run
          MaxEvents     \* bound: kills and things the user does

VARIABLES files,        \* the published file or repository of each kind
          info,         \* MODEL.plan.json: None, Torn, or the plan it describes
          caches,       \* calibration cache directories: what is in their two files
          model, data,  \* what an export gives and calibration reads now
          proc,         \* what each process does
          temps,        \* the processes that have left a temporary file
          builds,       \* engines built so far, which names the next one
          disturbed,    \* the graph or the data changed under a running calibration
          parted,       \* a plan was removed that something still described or relied on
          events

vars == <<files, info, caches, model, data, proc, temps, builds, disturbed, parted, events>>

Kinds == {"onnx", "opt", "plan", "repo"}
Dirs == {"fresh", "adopted"}
Idle == [cmd |-> None, step |-> "idle", held |-> None]
EmptyDir == [bytes |-> None, meta |-> None]

(* What is in the files: None is none of it. *)
Optimized == {<<"optimized", g>> : g \in Exported}
Plans == [id : Nat, graph : Exported]
Repository == [plan : Plans, config : Plans]
Need == [data : Datasets, graph : Exported]
Bytes == [data : Datasets, graph : Exported, run : Int]     \* run is -1 when damaged
Meta == [for : Need, hash : Bytes]
CacheDir == [bytes : Bytes \cup {None}, meta : Meta \cup {None}]

Cmds == {"export", "optimize", "build", "package", "calibrate", "adopt"}

ASSUME CommandsAssumption ==
  /\ None \notin Cmds \cup Exported \cup Plans \cup Bytes \cup Meta \cup CacheDir
  /\ Torn # None /\ MaxEvents \in Nat

FileOf(k) == [onnx |-> Exported, opt |-> Optimized, plan |-> Plans, repo |-> Repository][k]

\* A process that holds something: what it is doing, where it is, and what it has read.
Doing(cmds, steps, held) == [cmd : cmds, step : steps, held : held]
Busy ==
  Doing({"export", "optimize", "build"}, {"begun"}, {None})
    \cup Doing({"export"}, {"written"}, Exported)
    \cup Doing({"optimize"}, {"written"}, Optimized)
    \cup Doing({"build"}, {"written", "describing", "filling"}, Plans)
    \cup Doing({"package"}, {"begun"}, Plans)
    \cup Doing({"package"}, {"staged"}, Repository)
    \cup Doing({"calibrate", "adopt"}, {"begun"}, [need : Need])
    \cup Doing({"adopt"}, {"adopting"}, [need : Need, meta : Meta])
    \cup Doing({"calibrate", "adopt"}, {"mkdir", "cache", "metadata"},
               [need : Need, bytes : Bytes, meta : Meta])

TypeOK ==
  /\ DOMAIN files = Kinds /\ \A k \in Kinds : files[k] \in FileOf(k) \cup {None}
  /\ info \in Plans \cup {None, Torn}
  /\ caches \in [Dirs -> CacheDir \cup {None}]
  /\ model \in Exported /\ data \in Datasets
  /\ proc \in [Process -> Busy \cup {Idle}]
  /\ temps \subseteq Process
  /\ builds \in Nat /\ events \in Nat /\ disturbed \in BOOLEAN /\ parted \in BOOLEAN

Init ==
  /\ files = [k \in Kinds |-> None]
  /\ info = None
  /\ caches = [d \in Dirs |-> None]
  /\ model \in Exported
  /\ data \in Datasets
  /\ proc = [p \in Process |-> Idle]
  /\ temps = {}
  /\ builds = 0
  /\ disturbed = FALSE /\ parted = FALSE
  /\ events = 0

At(p, cmd, step) == proc[p].cmd = cmd /\ proc[p].step = step
Goto(p, step, held) == proc' = [proc EXCEPT ![p] = [cmd |-> @.cmd, step |-> step, held |-> held]]
End(p) == proc' = [proc EXCEPT ![p] = Idle]

(* --- starting: the output must not exist --- *)

Begin(p, cmd) ==
  /\ proc[p] = Idle
  /\ cmd \in {"export", "optimize", "build"}
  /\ files[[export |-> "onnx", optimize |-> "opt", build |-> "plan"][cmd]] = None
  /\ proc' = [proc EXCEPT ![p] = [cmd |-> cmd, step |-> "begun", held |-> None]]
  /\ UNCHANGED <<files, info, caches, model, data, temps, builds, disturbed, parted, events>>

(* --- export and optimize: the output is written beside its place and checked --- *)

WriteExport(p) ==
  /\ At(p, "export", "begun")
  /\ temps' = temps \cup {p}
  /\ Goto(p, "written", model)
  /\ UNCHANGED <<files, info, caches, model, data, builds, disturbed, parted, events>>

WriteOptimized(p) ==
  /\ At(p, "optimize", "begun") /\ files["onnx"] # None
  /\ temps' = temps \cup {p}
  /\ Goto(p, "written", <<"optimized", files["onnx"]>>)
  /\ UNCHANGED <<files, info, caches, model, data, builds, disturbed, parted, events>>

(* --- build --- *)

\* The graph is parsed, the engine built and inspected, and the plan written.
Plan(p) ==
  /\ At(p, "build", "begun") /\ files["onnx"] # None
  /\ builds < MaxBuilds /\ builds' = builds + 1
  /\ temps' = temps \cup {p}
  /\ Goto(p, "written", [id |-> builds, graph |-> files["onnx"]])
  /\ UNCHANGED <<files, info, caches, model, data, disturbed, parted, events>>

(* --- publishing: a hard link, which fails if the place is taken --- *)

Output(p) == [export |-> "onnx", optimize |-> "opt", build |-> "plan"][proc[p].cmd]
AfterPublish(p) == IF proc[p].cmd = "build" THEN Goto(p, "describing", proc[p].held) ELSE End(p)

\* A mutant: the file is moved over whatever is there.
PublishOver(p) ==
  /\ proc[p].step = "written"
  /\ files' = [files EXCEPT ![Output(p)] = proc[p].held]
  /\ AfterPublish(p)
  /\ temps' = temps \ {p}
  /\ UNCHANGED <<info, caches, model, data, builds, disturbed, parted, events>>

\* A mutant: a build that lost the race describes its engine all the same.
PublishOrGoOn(p) ==
  /\ proc[p].step = "written"
  /\ files' = IF files[Output(p)] = None THEN [files EXCEPT ![Output(p)] = proc[p].held] ELSE files
  /\ AfterPublish(p)
  /\ temps' = temps \ {p}
  /\ UNCHANGED <<info, caches, model, data, builds, disturbed, parted, events>>

\* publish_new: the temporary file is removed either way.
Publish(p) ==
  /\ proc[p].step = "written"
  /\ IF files[Output(p)] = None
     THEN files' = [files EXCEPT ![Output(p)] = proc[p].held] /\ AfterPublish(p)
     ELSE End(p) /\ UNCHANGED files
  /\ temps' = temps \ {p}
  /\ UNCHANGED <<info, caches, model, data, builds, disturbed, parted, events>>

\* write_text of MODEL.plan.json: the file is emptied, then filled.
Describe(p) ==
  /\ \/ At(p, "build", "describing") /\ info' = Torn /\ Goto(p, "filling", proc[p].held)
     \/ At(p, "build", "filling") /\ info' = proc[p].held /\ End(p)
  /\ UNCHANGED <<files, caches, model, data, temps, builds, disturbed, parted, events>>

(* --- package --- *)

\* The description must be readable, the place free and the plan there.
BeginPackage(p) ==
  /\ proc[p] = Idle
  /\ info \notin {None, Torn} /\ files["repo"] = None /\ files["plan"] # None
  /\ proc' = [proc EXCEPT ![p] = [cmd |-> "package", step |-> "begun", held |-> info]]
  /\ UNCHANGED <<files, info, caches, model, data, temps, builds, disturbed, parted, events>>

CopyPlan(p) ==
  /\ At(p, "package", "begun") /\ files["plan"] # None
  /\ temps' = temps \cup {p}
  /\ Goto(p, "staged", [plan |-> files["plan"], config |-> proc[p].held])
  /\ UNCHANGED <<files, info, caches, model, data, builds, disturbed, parted, events>>

\* rename() does not replace a repository, which is never empty.
MoveRepository(p) ==
  /\ At(p, "package", "staged")
  /\ files' = IF files["repo"] = None THEN [files EXCEPT !["repo"] = proc[p].held] ELSE files
  /\ temps' = temps \ {p}
  /\ End(p)
  /\ UNCHANGED <<info, caches, model, data, builds, disturbed, parted, events>>

(* --- calibrate --- *)

\* prepare() and the hash of the graph: what the scales will depend on.
Prepare(p, cmd) ==
  /\ proc[p] = Idle
  /\ cmd \in {"calibrate", "adopt"}
  /\ files["onnx"] # None
  /\ proc' = [proc EXCEPT ![p] = [cmd |-> cmd, step |-> "begun",
                                  held |-> [need |-> [data |-> data, graph |-> files["onnx"]]]]]
  /\ UNCHANGED <<files, info, caches, model, data, temps, builds, disturbed, parted, events>>

\* TensorRT reads the batches while it builds in a scratch directory, which goes again.
Calibrate(p) ==
  /\ At(p, "calibrate", "begun") /\ files["onnx"] # None
  /\ LET need == proc[p].held.need
         bytes == [data |-> data, graph |-> files["onnx"], run |-> builds]
     IN Goto(p, "mkdir", [need |-> need, bytes |-> bytes, meta |-> [for |-> need, hash |-> bytes]])
  /\ builds < MaxBuilds /\ builds' = builds + 1
  /\ UNCHANGED <<files, info, caches, model, data, temps, disturbed, parted, events>>

\* read_cache_dir: the metadata first, if both files are there.
AdoptMeta(p) ==
  /\ At(p, "adopt", "begun")
  /\ caches["fresh"] # None /\ caches["fresh"].bytes # None /\ caches["fresh"].meta # None
  /\ Goto(p, "adopting", [need |-> proc[p].held.need, meta |-> caches["fresh"].meta])
  /\ UNCHANGED <<files, info, caches, model, data, temps, builds, disturbed, parted, events>>

\* The bytes are those the metadata was written for.
Described(bytes, meta) == meta.hash = bytes

\* A mutant: the data may have changed since.
CompatibleModel(meta, need) == meta.for.graph = need.graph

\* compatibility_problems is empty.
Compatible(meta, need) == meta.for = need

AdoptBytes(p) ==
  /\ At(p, "adopt", "adopting")
  /\ caches["fresh"] # None
  /\ LET bytes == caches["fresh"].bytes
         meta == proc[p].held.meta
     IN /\ Described(bytes, meta) /\ Compatible(meta, proc[p].held.need)
        /\ Goto(p, "mkdir", [need |-> proc[p].held.need, bytes |-> bytes, meta |-> meta])
  /\ UNCHANGED <<files, info, caches, model, data, temps, builds, disturbed, parted, events>>

Target(p) == [calibrate |-> "fresh", adopt |-> "adopted"][proc[p].cmd]

\* write_cache_dir: the directory, then its two files, each of them whole; writing a file
\* makes the directory again if it is gone.
WriteCacheDir(p) ==
  /\ proc[p].cmd \in {"calibrate", "adopt"}
  /\ LET d == Target(p)
         held == proc[p].held
         dir == IF caches[d] = None THEN EmptyDir ELSE caches[d]
     IN \/ /\ proc[p].step = "mkdir" /\ caches[d] = None
           /\ caches' = [caches EXCEPT ![d] = EmptyDir]
           /\ Goto(p, "cache", held)
        \/ /\ proc[p].step = "cache"
           /\ caches' = [caches EXCEPT ![d] = [dir EXCEPT !.bytes = held.bytes]]
           /\ Goto(p, "metadata", held)
        \/ /\ proc[p].step = "metadata"
           /\ caches' = [caches EXCEPT ![d] = [dir EXCEPT !.meta = held.meta]]
           /\ End(p)
  /\ UNCHANGED <<files, info, model, data, temps, builds, disturbed, parted, events>>

(* --- failures, kills and the user --- *)

\* A mutant: an error leaves the temporary file where it is.
FailUntidy(p) ==
  /\ proc[p] # Idle
  /\ End(p)
  /\ UNCHANGED <<files, info, caches, model, data, temps, builds, disturbed, parted, events>>

\* Whatever raises, the temporary file or directory is removed; what has been
\* published, and a cache directory that is only begun, stay.
Fail(p) ==
  /\ proc[p] # Idle
  /\ temps' = temps \ {p}
  /\ End(p)
  /\ UNCHANGED <<files, info, caches, model, data, builds, disturbed, parted, events>>

Event == events < MaxEvents /\ events' = events + 1
Calibrating == \E p \in Process : At(p, "calibrate", "begun")

Kill(p) ==
  /\ Event /\ proc[p] # Idle
  /\ End(p)
  /\ UNCHANGED <<files, info, caches, model, data, temps, builds, disturbed, parted>>

\* A process that has published a plan and not yet described it, or has read the
\* description of a plan that it has not yet copied.
ReliesOnPlan(s) ==
  \/ s.cmd = "build" /\ s.step \in {"describing", "filling"}
  \/ s.cmd = "package" /\ s.step = "begun"

\* "Remove the file yourself": at any time, and the description of a plan stays.
RemoveFile(k) ==
  /\ Event /\ files[k] # None
  /\ files' = [files EXCEPT ![k] = None]
  /\ disturbed' = (disturbed \/ (k = "onnx" /\ Calibrating))
  /\ parted' = (parted \/ (k = "plan" /\ (\/ info \notin {None, Torn}
                                        \/ \E p \in Process : ReliesOnPlan(proc[p]))))
  /\ UNCHANGED <<info, caches, model, data, proc, temps, builds>>

\* A build that is filling the description fills a file that has no name any more, and
\* does nothing else that can be seen.
RemoveInfo ==
  /\ Event /\ info # None
  /\ info' = None
  /\ proc' = [p \in Process |-> IF At(p, "build", "filling") THEN Idle ELSE proc[p]]
  /\ UNCHANGED <<files, caches, model, data, temps, builds, disturbed, parted>>

RemoveCache(d) ==
  /\ Event /\ caches[d] # None
  /\ caches' = [caches EXCEPT ![d] = None]
  /\ UNCHANGED <<files, info, model, data, proc, temps, builds, disturbed, parted>>

Damage(d) ==
  /\ Event /\ caches[d] # None /\ caches[d].bytes # None
  /\ caches' = [caches EXCEPT ![d].bytes = [@ EXCEPT !.run = -1]]
  /\ UNCHANGED <<files, info, model, data, proc, temps, builds, disturbed, parted>>

Edit ==
  /\ Event
  /\ \/ model' \in Exported \ {model} /\ UNCHANGED <<data, disturbed>>
     \/ data' \in Datasets \ {data} /\ UNCHANGED model /\ disturbed' = (disturbed \/ Calibrating)
  /\ UNCHANGED <<files, info, caches, proc, temps, builds, parted>>

Step(p) ==
  \/ \E cmd \in {"export", "optimize", "build"} : Begin(p, cmd)
  \/ WriteExport(p) \/ WriteOptimized(p)
  \/ Plan(p) \/ Publish(p) \/ Describe(p)
  \/ BeginPackage(p) \/ CopyPlan(p) \/ MoveRepository(p)
  \/ \E cmd \in {"calibrate", "adopt"} : Prepare(p, cmd)
  \/ Calibrate(p) \/ AdoptMeta(p) \/ AdoptBytes(p) \/ WriteCacheDir(p)
  \/ Fail(p)

Next ==
  \/ \E p \in Process : Step(p) \/ Kill(p)
  \/ RemoveInfo \/ \E k \in Kinds : RemoveFile(k)
  \/ \E d \in Dirs : RemoveCache(d) \/ Damage(d)
  \/ Edit

Spec == Init /\ [][Next]_vars
--------------------------------------------------------------------------------
(* "Artifacts are immutable" (utils/fs.py:57): no command ever changes a file    *)
(* that is published, whoever else runs; only the user takes it away.            *)
NeverOverwritten ==
  [][\A k \in Kinds : files[k] # None => files'[k] \in {files[k], None}]_vars

(* A repository's config.pbtxt was rendered for the plan beside it, although the *)
(* two are read at different times and the description is not written with the   *)
(* plan: unless a plan was removed while its description stayed, while the build *)
(* that published it had yet to describe it, or while a package that had read    *)
(* the description had yet to copy it.  Without that condition it does not hold: *)
(* package never compares the two.                                               *)
PackagedPair == ~parted /\ files["repo"] # None => files["repo"].plan = files["repo"].config

(* Temporary files are removed by the command that made them, also when it fails: *)
(* until the first kill, or the first thing the user does, those that exist are   *)
(* of running commands.  (A failure may leave a begun cache directory or a torn   *)
(* description, which are not temporary files.)                                   *)
NoLitter == events = 0 => \A p \in temps : proc[p] # Idle

(* "A stale cache is never used silently" (calibration/cache.py:6): what a run   *)
(* adopts is intact and was computed from the data and the graph this run needs,  *)
(* unless they changed while the calibration that wrote it was reading them.      *)
AdoptionMatches ==
  \A p \in Process :
    proc[p].cmd = "adopt" /\ proc[p].step \in {"mkdir", "cache", "metadata"} /\ ~disturbed =>
      LET bytes == proc[p].held.bytes
      IN [data |-> bytes.data, graph |-> bytes.graph] = proc[p].held.need /\ bytes.run >= 0
=============================================================================
