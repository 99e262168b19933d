# A TLA+ development of trtship

trtship takes a PyTorch model through export, graph optimization, calibration, TensorRT engine
builds, validation, benchmarks and packaging for Triton. Most of its lines call other libraries.
Its own logic, and the subject of this development, is what happens to *files, records, keys,
processes and containers* while that goes on: what may be reused, what a crash leaves behind, what
two processes do to each other, and what a measurement or a running server may claim.

Source paths below are relative to `src/src/trtship/`; line numbers are those of the same tree.

## Inventory

| Component | State | Operations | What is hard | What makes it correct |
|---|---|---|---|---|
| Artifact store (`artifacts/store.py`, `artifacts/records.py`, `pipeline/stage.py`) | files of a run, artifact records in `manifest.json` | `publish`, `register`, `latest`, `require`, `verify`, `verify_all` | two writes (file, then record) with a crash between; record replacement; tampering | nothing is overwritten, a path has one record, provenance is closed, intact unless tampered with |
| Shared cache (`artifacts/store.py`) | `<cache_dir>/<key>`, one staging directory per key | `store`, `load`, `adopt` | no lock; every writer uses the same staging path; verify-then-copy; damaged entries | an entry is whole or absent, first writer wins, a hit is one build |
| Orchestrator (`pipeline/orchestrator.py`, `cli/commands/run_cmd.py`) | manifest: run status, stage records (status, key, ids), weights hash; the process | `execute`, `_execute_stage`, `_up_to_date`, `_finish`, `_fail` | stale keys, crashes mid-stage, partial adoption, weights that change | a finished stage's key describes its outputs; success means "built from this model"; a rerun is a no-op; recovery |
| Stage ordering (`pipeline/orchestrator.py`) | the list being ordered | `order_stages` | cycles, ties, self-use | producers first, complete, stable, exact cycle verdict |
| Stage selection, preflight | none | `select_stages`, `plan_stages`, `preflight_stages` | option combinations; the `--until` hint | the hint names stages that do run |
| Stages (`pipeline/stages/`) | metadata of artifacts | nine `run` methods | which engine, ONNX file and report a later stage picks | what is validated is what is packaged |
| Run directory (`artifacts/run.py`, `utils/fs.py`) | directory, manifest | `create`, `open`, `latest`, `update_manifest`, atomic writes | single writer assumed, crash between temp file and rename | readers see whole files; a taken id is refused |
| Benchmark runner (`benchmark/runner.py`) | worker threads, barrier, clock, errors | `measure` | failure while others wait, interrupt, a thread that does not start | the clock separates the phases; only complete measurements are reported; nobody waits for ever |
| Benchmark drivers and targets (`benchmark/`) | rows, per-thread clients, server counters | sweeps, `make_worker`, `timed_*` | counters shared with warmup and with others, thread identifiers reused | unnoted server times are of the timed requests; a sweep ends |
| Triton control (`triton/server.py`) | one container, known by name | `serve`, `stop`, `status` | look-then-act on a name, timeouts, partial failure of docker | failed serves leave nothing; foreign containers are not touched; commands end |
| Triton repository, configuration (`triton/`) | repository directory | `build_repository`, `render_config` | which engine, which report, which batches | a repository holds a plan and its own description; a rejected engine is not packaged; declared batches fit |
| Calibration (`calibration/`) | batches consumed, calibration cache directory | calibrator callbacks, `calibrate`, adoption | shapes shared with other inputs, a cache that no longer fits | a batch has one assignment of sizes; a cache is used only for what it was made for |
| TensorRT build and executor (`tensorrt/`) | plan, its description; contexts | `build_engine`, `bind` | published beside other commands; several profiles | nothing published changes; what is measured fits the profile |
| ONNX export, optimization, validation (`export/`, `onnx/`) | a graph | tracing, passes, comparison | dimensions made constant; passes that feed each other, sub-graphs | meaning is kept; what passed validation is the model at every size |
| Engine validation, metrics (`validation/`) | reports | comparisons, verdicts | values that are not finite, the worst of samples, combination of verdicts | a pass means every output of every sample was close |
| Models, specs (`models/`, `specs.py`) | none | sizes of symbols, signatures | symbols seen through two runs only | a symbol is attributed where it belongs |
| Configuration (`config/`) | none | conditions between sections, layers | order of layers, the snapshot of a run | later layers win; a run keeps its configuration |
| Environment probes (`utils/env.py`) | none | capability verdicts, `doctor`, the requirements of commands | probes that fail, drivers that do not know a query | a requirement is never satisfied by an unknown |
| Command line, errors (`cli/`, `errors.py`) | files it leaves | `export`, `optimize`, `build`, `package`, `calibrate`, `run`, `serve` | two commands on one output, kills | nothing is overwritten or left half-written |
| Reporting, logging, small utilities | none | rendering | - | - |

Interactions: a `trtship run` process drives one run directory through the store, one stage after
the other; processes meet in the shared cache only (the manifest is declared single-writer,
`artifacts/run.py:165`). The stages call the exporters and builders and hand files to `publish`.
The benchmark runner calls a target from several threads. `serve` and `stop` are separate processes
that meet in the docker daemon.

## Modules

| Module | Models | Used by |
|---|---|---|
| `RunDirectory` | what the stages of a run share: files, records, clock; `register`, `publish`'s choice of a path, `latest`, `verify` | `ArtifactStore`, `Pipeline` |
| `ArtifactStore` | the store alone, with any caller: publish, adopt, register, crash, tamper, delete | its proofs |
| `CacheEntry` | abstract: what a key of the shared cache promises | `ArtifactCache` |
| `ArtifactCache` | the steps of `load`, `adopt` and `store` by concurrent processes on one key | its proofs |
| `Pipeline` | invocations of `trtship run` on run directories that share a cache | its proofs |
| `StageOrder` | the loop of `order_stages` | `Invocation`, whose proofs contain its own |
| `Environment` | what the probes make of a machine, what `doctor` concludes and what the other commands require | `Invocation` |
| `Invocation` | `trtship run` up to the first stage: layers of the configuration, order, selection, preflight and its hint, creating or resuming a run; between runs, `doctor` and the commands that only require capabilities | its proofs |
| `BenchmarkRunner` | `measure`, its threads and barrier | `Sweep` |
| `Sweep` | `run_matrix` over batch sizes, with clients per thread and the counters of a server | its proofs, which contain those of `BenchmarkRunner` |
| `TritonServer` | `serve` and `stop` on one container name | its proofs |
| `Configuration` | the sections of a configuration and when they are accepted | `Shapes` |
| `Shapes` | every shape derived from a configuration: sizes of symbols, signature, shape points, profiles, engine description, binding, batches measured and declared | `Deployment` |
| `OnnxPasses` | graphs, what they mean, and the passes that rewrite them | `Deployment` |
| `Comparison` | how outputs are judged: errors, cosine, agreement, verdict | `Deployment` |
| `Deployment` | the nine stages over one configuration, from loading to packaging, over several invocations | its proofs |
| `Commands` | the commands that leave files: export, optimize, build, package, calibrate, by several processes in one directory | its proofs |
| `*Proofs` | theorems about the modules they name | |
| `MC*` | values of constants and symmetries for TLC | |

**State.** `files` is the run directory, `artifacts` is `manifest.artifacts`, `stageRec`,
`runStatus` and `modelSha` are the other parts of the manifest; `cache` (in `Pipeline`) and `entry`,
`staging` (in `ArtifactCache`) are the cache directory; `proc`, `pc`, `item`, `fd` are program
counters and locals of processes and threads. Variables whose comment says *history* exist for the
properties only.

**Steps.** An action is the code between two points at which a crash, another process or another
thread can make a difference. A file becomes visible in one action and its record in the next,
because `publish` moves and then registers. `ArtifactCache` splits `store` at every file: opening
and writing are two steps because a file stays open while its directory is renamed or removed.
`Pipeline` takes a cache entry as published in one step; `ArtifactCache` is where that is looked
into. In `BenchmarkRunner` a step is one request, one barrier operation or one step of the main
thread; `measure`'s cold call before the threads start is sequential and left out. In
`TritonServer` a step is one docker call or one probe.

`Invocation` splits the creation of a run at its three writes, where a kill leaves a directory
without manifest or snapshot; before that a command only reads, so its options, layers, machine and
verdicts are one step. A `Deployment` step is one stage: what a stage reads was published by earlier
ones, and `Pipeline` is where stages are interrupted. `Commands` splits each command at its look at
the output, its reads, the temporary file, and the publication, since that is where another process
comes in. A `Sweep` step is one of `BenchmarkRunner` with what it does to the clients and counters.

**Data.** A content stands for its hash; an id keeps the whole hash (the code keeps 12 digits). In
`Pipeline` every content remembers in `origin` what it was built from, which the code cannot see and
the properties can; reports and engines are *salted* (they contain times, or TensorRT does not
reproduce them), the ONNX files are not. The configuration and the tool versions are fixed there: they
are part of every key, and `Invocation` has the check that a run is continued with the same one.
In `Deployment` a model is the dimensions of its output, each a constant times some symbols; a graph
is nodes at places with terms as meaning; what engines compute is one of a few small integer
tensors, with errors in integers and thresholds in percent. In `Commands` a graph, a data set and a
plan are values that can only be told apart, and a plan remembers the graph it was built from.
In `Environment` a machine is a record of how its tools answer and its packages are installed, and
a probe is an operator on it; in `Invocation` the layers of a configuration are functions from
sections to fields to values.

External, modelled from how the code uses them: `threading.Barrier`, the file system's renaming of
open files, docker and the Triton server in its container, and, as free choices within their
interfaces, the exporter, TensorRT (`Deployment.Export`, `Calibrate`, `Observed`) and the requests of
other clients (`Sweep.OtherTraffic`).

## Runs

| Run | Question | Bounds |
|---|---|---|
| `store` | Do publishing, adopting, registering, crashes and tampering in any order keep the store's promises? | 2 types, 2 contents, 2 versions of a name, `MaxTime` = 3 registrations |
| `cache` | Does a cache key behave like `CacheEntry`, and what does it promise besides while writers do not meet? | 2 processes, 2 artifacts, `MaxBuilds` = 3, `MaxDamage` = 1 |
| `pipeline` | Do keys, parents and records tell the truth, does success mean "built from this model", is repetition a no-op, can every run be completed after the last fault? | export, optimize, calibrate (not applicable), build; `MaxInvocations` = 3, `MaxRuns` = 2, `MaxFaults` = 1, 2 weights, `MaxContent` = 12 |
| `invocation` | Is every order right, does the hint of a failed preflight work, does a new run make what it needs, what is resumed? | all 4096 tables of 3 stages and 2 types are ordered; commands for 3 of them: every option value, 2 roots with one id, 3 machines, 2 environments and 4 `--set` |
| `sweep` | Does a sweep end, report complete measurements only, and count the requests it claims to? | 3 workers, 1 warmup and 2 timed requests, 2 points, `MaxFailures` = 2, `Recycle` = 1, `MaxStray` = 1; server and engine |
| `server` | What do serves and stops do to each other's containers? | 2 serves, 1 stop, `MaxPolls` = 2 |
| `deployment` | Do the shapes, graphs and verdicts of nine stages fit together? | 5 input lists of two symbols, sizes 1 to 3, all profiles over them and pairs of narrow ones; all graphs of two nodes and some of three; all pairs of two-element outputs over 0, 1, 3 and NaN; two precisions over up to 3 invocations |
| `commands` | What do commands that share a directory do to each other's files? | 2 processes, 2 exports, 2 states of the data, `MaxBuilds` = 2, `MaxEvents` = 2 kills, edits, removals or damages |
| `cache_torn`, `pipeline_stale`, `pipeline_missing`, `resume_env` | Statements of the repository that do not hold; see Findings | |

*Why the bounds are enough.* Two types and contents are what it takes for an id to be confused with
another or a path to hold something else; two versions make `publish` pass over one and give up
after the next (`PublishTooMany` fires). Two writers suffice for every pair of steps of `store` to
interleave; two artifacts make an entry partial; three builds let a third process come to what two
left. In `Pipeline` an invocation can fail, a second repair it and a third find it up to date; two
run directories are needed to adopt; two weights to be stale. `MaxContent` and `MaxVersion` are above
what the other bounds let it use, so no behaviour is cut by them. Weights put back count as a fault
in `Pipeline`, like crashes, failing stages and damaged files: `pipeline` explores each fault alone,
and `pipeline_stale` needs two. Three workers give a first, a middle and a last arrival at the
barrier, and two failures let one happen while the other is handled; two points make a client, a
counter and a failed thread outlive a measurement; one foreign request is enough to make a count
wrong, and one recycled identifier per worker to meet another thread's client. Two polls give a retry
before the deadline. Three stages have first, middle and last places for `--from`, `--only` and
`--until`, and each of the tables runs for a different reason in another order than it is given.
Sizes 1 to 3 (`LargestSize` is 3) leave a minimum, an optimum and a maximum that differ, and two symbols that may agree or
not. Three invocations of `Deployment` are what it takes to build, fail, rebuild in part and package.
Two processes in `Commands` are both sides of every race for a place; the user's events come between
any two of their steps, and two of them are what it takes to remove a plan and its description.

The runs check what is written, with its source, at the end of the modules. Every `TypeOK`
is proved, and is therefore part of no run.

*Conditions in properties.* Some promises hold only while a certain thing has not happened, and the
property says so with a history variable instead of leaving the thing out of the model: two
processes inside `store()` at once, or two commands at once (`overlapped`), weights that return to
an earlier value (`reverted`), a deleted file (`deleted`), a container that docker did not remove
(`kept`), data that changed while it was being read (`disturbed`), a plan that the user removed although its
description stayed, or while a build had yet to describe it or a package to copy it (`parted`).
`FailedWaitLeavesNothing` is about a serve that fails while it waits for the container it launched, not
one that fails before (`docker run`) or after (`status`). `DeclaredBatchesFit` speaks of engines
with one profile that starts at one: `max_batch_size` has no way to say anything else.
`AttributionIsRight` leaves out symbols that took the same sizes in both runs of the model, which two
runs cannot tell apart. `ResumesWhatWasCreated` is about commands without overriding environment
variables. What happens otherwise is under Findings.

**Fairness.** `Pipeline`, `BenchmarkRunner` and `Sweep` assume weak fairness of the process and of
each thread: nothing in the code waits except for its own next step and for the barrier. Crashes,
failures, edits, foreign requests and the start of invocations are not fair. `TritonServer` assumes it
of each command's steps: docker calls have timeouts (60, 90 and 300 s) and probes 5 s, so each call
returns; becoming ready is not fair. `RunRecovers` asks for the last fault to be over, not for its
absence. `ThreadsEnd` asks that all threads have been started: if `Thread.start` raises, or the main
thread is interrupted before the last start, the earlier threads do wait in the barrier for ever
(`runner.py:177-181`), while `measure` itself returns and the sweep ends (`SweepEnds`).

## Proofs

Every theorem holds for all values of the constants that satisfy the assumption of the module, which
TLC evaluates in the runs; nothing else is assumed.

| Module | Theorem | States |
|---|---|---|
| `ArtifactStoreProofs` | `TypeCorrect` | `Spec => []TypeOK` |
| | `OnePathCorrect` | `Spec => []OnePathOneRecord` |
| | `ProvenanceCorrect` | `Spec => []ProvenanceClosed` |
| | `IntactCorrect` | `Spec => []UntamperedIntact` |
| | `NeverOverwritesCorrect` | `Spec => NeverOverwrites` |
| `ArtifactCacheProofs` | `TypeCorrect` | `Spec => []TypeOK` |
| | `FirstWriterWinsCorrect` | `Spec => FirstWriterWins`, the refinement of `CacheEntry` |
| | `PublishedEntryLoadsCorrect` | `Spec => []PublishedEntryLoads` |
| | `StoreNeverFailsCorrect` | `Spec => []StoreNeverFails` |
| | `HitIsOneBuildCorrect` | `Spec => []HitIsOneBuild` |
| `InvocationProofs` | `TypeCorrect` | `Spec => []TypeOK`, of the loop (`StageOrder`) |
| | `ProducersFirstCorrect` | `Spec => []ProducersFirst` |
| | `CompleteCorrect` | `Spec => []Complete` |
| | `CycleExactCorrect` | `Spec => []CycleExact` |
| | `TiesKeepOrderCorrect` | `Spec => []TiesKeepOrder` |
| | `HintWorksCorrect` | `InvocationSpec => []HintWorks` |
| | `NewRunFeedsItselfCorrect` | `InvocationSpec => []NewRunFeedsItself` |
| | `ResumesWhatWasCreatedCorrect` | `InvocationSpec => []ResumesWhatWasCreated` |
| `PipelineProofs` | `TypeCorrect` | `Spec => []TypeOK` |
| | `KeyDescribesOutputsCorrect` | `Spec => []KeyDescribesOutputs` |
| | `ParentsAreSourcesCorrect` | `Spec => []ParentsAreSources` |
| | `RerunIsNoopCorrect` | `Spec => []RerunIsNoop` |
| | `SuccessMatchesModelCorrect` | `Spec => []SuccessMatchesModel` |
| | `InputsAreCurrentCorrect` | `Spec => []InputsAreCurrent` |
| `CommandsProofs` | `TypeCorrect` | `Spec => []TypeOK` |
| | `NeverOverwrittenCorrect` | `Spec => NeverOverwritten` |
| | `PackagedPairCorrect` | `Spec => []PackagedPair` |
| | `NoLitterCorrect` | `Spec => []NoLitter` |
| | `AdoptionMatchesCorrect` | `Spec => []AdoptionMatches` |
| `SweepProofs` | `TypeCorrect` | `Spec => []TypeOK`, of one measurement (`BenchmarkRunner`) |
| | `ClockStartsBetweenPhasesCorrect` | `Spec => []ClockStartsBetweenPhases` |
| | `GivingUpIsExplainedCorrect` | `Spec => []GivingUpIsExplained` |
| | `MeasuredIsCompleteCorrect` | `Spec => []MeasuredIsComplete` |
| | `SweepTypeCorrect` | `SweepSpec => [](TypeOK /\ SweepTypeOK)` |
| | `EveryPointCorrect` | the three properties of a measurement, at every point of a sweep |
| | `UnnotedTimesAreOursCorrect` | `SweepSpec => []UnnotedTimesAreOurs` |
| `DeploymentProofs` | `BenchmarkFitsCorrect` | `Spec => []BenchmarkFits` |
| | `DeclaredBatchesFitCorrect` | `Spec => []DeclaredBatchesFit` |
| | `CalibrationIsConsistentCorrect` | `Spec => []CalibrationIsConsistent` |
| | `PassMeansCloseCorrect` | `Spec => []PassMeansClose` |
| | `RejectedNeverPackagedCorrect` | `Spec => []RejectedNeverPackaged` |
| | `AttributionIsRightCorrect` | `Spec => []AttributionIsRight` |
| | `ValidatedEngineIsModelCorrect` | `Spec => []ValidatedEngineIsModel` |
| | `MeaningPreservedCorrect` | `Spec => []MeaningPreserved` |
| `TritonServerProofs` | `TypeCorrect` | `Spec => []TypeOK` |
| | `FailedWaitCorrect` | `Spec => []FailedWaitLeavesNothing` |
| | `NeverTouchesOthersCorrect` | `Spec => NeverTouchesOthers` |

*The store*, for every set of types, contents, names and stages and every `MaxVersion`.
`RegisterFacts` lists once what `register` can reply and what it then knows of the path;
`DestinationFacts` says that `publish` ends at a path of the name that is free or already has the
content. `OnePathOneRecord` is inductive given types, because `register` adds a record only for a
path that no record has (or replaces the record of the same id). `ProvenanceClosed` is inductive
because records are replaced but never removed, so the set of ids only grows. `UntamperedIntact` is
not inductive alone: replacing a record moves an id to another path, and only `OnePathOneRecord`
excludes that an older record of that path is thereby refuted; a `Publish` keeps it because the
destination is free or has the same content, an adoption because the path was free - and a free path
with a record on it is one that was tampered with. `NeverOverwrites` follows from the same facts
about destinations. The conjunction of the four is the inductive invariant.

*The cache*, for any number of processes, artifacts, builds and damaged files, also while two writers
share the staging directory. A step must either leave the index of the entry alone or put a build
there for the first time. `DirsKept` says this of every step: a file that is open where its directory
was renamed writes an artifact, never the index, and an entry only gains names (`Grows`). For that,
a file must be open in a directory that exists (`OpenSomewhere`), and an index must list a build
(`IndexIsBuild`), which follows from who writes it (`Holding`). `StillThere` carries what `load` read over
to the step that hands it out.

While writers do not meet, the cache promises more, and `SoloInv` says why: `OneWriter` gives the staging
directory to one process, `Staged` says how far that process has filled it at each of its steps (no
directory, the artifacts before this one, all of them, a loadable entry), `OpenWhileWriting` that no file
is open otherwise, and `Adopted` that whoever is past an artifact copied it from the build whose index
it read. A kill between `CheckEntry` and `Rename` leaves a directory that `ClearStaging` removes, so
`Staged` starts over. `PublishedEntryLoads` is what `Staged` says before `Rename`.

*Ordering*, for any number of stages and any dependency structure. Besides the properties themselves
the inductive invariant has four parts. `NoRepeats`: no stage is taken twice. `CirclesUntouched`: no
stage of a set that waits for itself is ever taken, since the first of it would have had to be
ready; so a returned order means that there is no cycle. `Ends`: the loop stops with nothing left or
with nothing ready; in the second case what remains is such a set. `SmallerWaits`: a stage that was
passed over by a later one of the list still waited for a producer then, which is what stability
(`TiesKeepOrder`) needs at the step that finally takes it.

*The benchmark runner*, for any number of workers, requests and failures. `WaitersWarm` says who is in
the barrier and that they are warm. `BeforeClock` and `AfterClock` separate the two phases; the step
between them is `ArriveLast`, and there `LastIsLast` turns the barrier's count into the fact that
everybody else is inside, which is all `threading.Barrier` knows. `FailuresExplained` ties every broken
barrier, failure and early end to an error that is kept or about to be kept; `ReportFinal` keeps the
state a report was made in. `NotStarted` says that threads still to be started have done nothing:
without it a thread could be started a second time out of the barrier. 
*A sweep*, for any number of points, workers, foreign requests and recycled identifiers. A step of
`Sweep` is a step of the runner, leaves it alone, or sets it up for the next point. The last is where the
invariant of one measurement might break, because the runner's variables are taken over:
`DrainingHasWaiters` (an open barrier is one that somebody has still to leave) and `ReportFinal` together
say that a measurement that is reported left the barrier closed, nobody in it and no error behind, so
the next point starts as the first did, and `EveryPointCorrect` follows. For the server's
counters, the invariant equates what was counted with what was stray plus the timed requests answered
(`Answered`, a set of pairs of worker and request that grows by one element in `AnsweredGrows`, is empty
before the first and everything after the last). A row without a note is one where that sum equals
the number of requests, hence nothing was stray.

*A command before its first stage*, for any tables, options, layers of configuration, machines and runs.
A step of `Invocation` is one of `StageOrder` or leaves it alone, so the theorems about the order hold
here. `Places` turns them into what selection needs: each stage has one place. `Selected` is what
`select_stages` returns, one stage or an interval of places, and `PrefixFeedsItself` follows as a new
run's interval starts at the first place. `HintIsLastRunnable` and `HintPasses` say that the hint is a
place of the selection, that cutting there gives a prefix of it, and that no place of that prefix is
lacking; `NoHint` covers the empty case. All of them choose a least or greatest element of a set of
numbers; `LeastExists` proves that there is one from the fact that finite sets are well-founded by
inclusion, applied to the intervals below the elements. `Creating` says how far a directory has come at each of
the three writes and `RunsSound` that every run with a manifest has the whole configuration it
was created with, so a kill can only leave what `OpenFails` refuses; `LoadsAsItIs` says that such a
snapshot, loaded without other layers, is itself.

*The pipeline*, for any stages, tables of inputs and outputs, runs, invocations and faults. Neither
`KeyDescribesOutputs` nor `ParentsAreSources` is inductive: what a stage lists are the ids its process
gathered, those name files it has just put in place or a cache entry it adopts, and the entry was stored
by a process of another run. The invariant says of each of these places that its contents were built
from what its key names (`BuiltUnder`): `FilesSound` of files, `ManifestSound` of records, `CacheSound` of
entries, `RecordsSound` of finished stages and `ProcSound` of the process at each of its steps. Histories
are only appended to, so what was built stays built (`OriginFrame`, and one frame lemma per variable),
and ids are only registered for contents that were (`Holds`). The assumption that every stage has an output
is what makes an entry list something; every stage of the repository declares one.

`RerunIsNoop` compares two invocations. `RInv` says where the first one stands: the stages before its
position have finished records under the key they would compute now (`Behind`, `Fresh`), the weights it
has loaded are those the manifest names (`Placed`), what it is busy with is under the current key
(`AtWork`), and at the end all of this is said of all stages (`Finished`). A stage cannot make the key of
an earlier one stale, because what it publishes is consumed by later stages only. The records' files
are intact since nobody touched them (`AllIntact`).

`SuccessMatchesModel` follows artifacts through all their sources. An artifact is *recent* (`Recent`) if
it is in a set closed under sources whose members were each built from the newest weights and have a
source of every type the run has (`Fits`). The heart of `SInv` is `Renewed`: of two artifacts of one stage
and type, the later one is recent if the earlier is. A new artifact is built from the newest of each
type, so if an earlier one is recent then so are the newest sources, hence the new one (`RenewedRegister`);
what becomes recent or stops being so when something else is registered or built is in
`RecentBefore` and `RecentAfter`. After a full success the first stage without recent inputs would have an
input whose producer, an earlier stage, has recent inputs and therefore a recent output, and the newest of
that type is recent by `Renewed` (`InputsRecent`, with a least position instead of an induction).
That the root weights of a recent artifact are the model's is read off the closed set, and `RootWeights`,
a recursive function, is only used through its equation, which `RootWeightsStep` proves from the
intersection of all closed sets. The rest of `SInv`: records have the sources their stage asks for
(`Shaped`, `Rooted`), no weights are newer than the file's (`Bound`), and what is listed, cached and
gathered is an output of every type the stage has (`Listed`, `CacheListed`, `Gathered`).

`InputsAreCurrent` needs that what a stage lists is the newest it made (`Standing`, `Tops`). It is,
except for a stage whose key is out of date for good (`Moved`, `MovedStays`: an input has been superseded, a
type has appeared or the weights are newer, and none of that is undone): such a stage will have run or
adopted again before a later one asks for its outputs. What is run or adopted again must come out as the
newest of its type although `register` may return an old record. For what is not salted, `InSequence`
says that later artifacts of a stage are of later inputs and weights; so anything later than a record
found again has the very same sources, and is it (`Lineage`). What is salted is new when it is built
(`Unshared`) and has one path wherever it is adopted (`OnePlace`), so it is on record only where it stands.
Last, an adoption must not bring back what the stage lists already: while nothing is deleted a record's
file is there (`Kept`), so the entry of a listed key is closed to `adopt` (`Taken`, `Opened`, `Running`).
`CInv` has these parts, each with the condition it needs. It was checked by TLC on three stages with one
and with two salted outputs before it was proved, which is also how the condition on deleted files was
found (see Findings).

These three rest on more assumptions about the tables of stages. `OrderAssumption`: a stage has one place
and is before whatever consumes its outputs, which `ProducersFirstCorrect` proves of every order that
`order_stages` returns. `SourceAssumption`: a stage whose output is a function of the weights has them in its
key, and every other stage requires an artifact (`inspect` and `export` read the model; every other class in
`pipeline/stages/` declares `requires`). `ProducerAssumption`: only the reports of validations have several
producers (`validate`, `optimize`, `validate_engine`), they are consumed by `package`, and what `package`
publishes no stage consumes. Without the last, `latest` would be a choice between stages.

*Commands in one directory*, for any processes, graphs, data sets, kills and events of the user.
`NeverOverwritten` holds of every step because all publications go through one that looks and links in
one step, or make a directory that must not exist. `PackagedPair` needs `DescribesPlan`: the
description appears after its plan and describes that very plan, and what a builder or packager holds
is of the plan that is there (`Fits`), until the user removes a plan that something describes or
relies on; from then on (`parted`) nothing is claimed, and `PartedStays` says that there is no way back. `TempsAreWritten` ties every
temporary file to a command that is about to publish it, so without kills none is left. `CachesHonest` says
that, unless data or graph changed under a calibration, what a cache's metadata names is what it
was made from, at each step from `Prepared` over `Truthful` to the directory; an adoption compares
with that.

*Serving*, for any serves and stops. `NotYetLaunched` makes a `docker run` something that happens once
per serve: so whoever has failed in its wait came through the removal, and no later container is its
own. A serve that fails after the wait ends elsewhere (`unreported`), with its container. While commands do not overlap, `Alone` says that one command runs, and `OwnOrNone` that a
serve that waits sees no container but its own.

*From a configuration to a repository*, for any inputs, symbols, profiles, models, samples, tolerances
and invocations. `Control` carries what each stage may rely on: past the first, the configuration is
accepted and no symbol has two sizes; `EnginesAreBuilt` says that every engine has the inputs and
profiles of the configuration, which cover every dynamic input. The lemmas on sizes do the rest:
`NamesAreDistinct` (an injection between sets of equal size), `FirstProfile`, and `SizeOfAxis`, which says that
without a conflict the size of a symbol is the one on *every* axis that carries it. Hence `OneRange`:
two axes of one symbol have one range, so a batch size that fits the first input fits all of them,
although `batch_inputs` looks at the first only (`BatchFits`). `DeclaredFits` is the same for what Triton is
told, where the least of the largest batches bounds them all. `ReportsInOrder` says that an engine which the
newest report is not about, although an older one is, has a newer engine of its precision; it holds
after each validation because that covers the newest engine of every precision, and it is why looking at the
newest report is enough for `package`. `PassMeansClose` goes from the verdict of a point to every sample and
output (`PointPasses`) and from an empty set of failures to the values (`TensorPasses`): as many values that
are not finite as the reference, which has none. `FedIsShaped` puts the calibrated input, taken apart
into batch and sample, together again.

`AttributionIsRight` compares two assignments of sizes. `ProbesDiffer` and `SizesDiffer` say that the
second gives every symbol that is not pinned another size than the first, so a dimension that is one such
symbol is not taken for static; the attributed symbol has the same two sizes, hence is the symbol or a
twin of it (`InferredIsRight`), and a pinned one is static at its size. `FirstIsOne` is why it does not
matter which of several matches comes first.

`ValidatedEngineIsModel`, for every `LargestSize`, is about products over sets of symbols (`Eval`). The
library defines them by a recursive function on subsets; `EvalUnfolds` takes one factor out, and
`ProductsExist` that there is such a function: `FoldExists` shows it of every fold used here by considering a
least size of subset for which there would be none, since there is no induction to cite. `EvalIsMonotone` looks at a least set on which larger sizes would
give a smaller product. A dimension that the graph has constant and that agrees at the least and greatest
sizes of the first profile is therefore the same everywhere between (`EvalIsConstant`, `AgreeingGraphIsModel`);
those two are among the shape points, and `SizesAreInside` says that whatever `BindOK` accepts is
between them. `GraphIsChecked` is the invariant: a graph that is marked checked, or optimized, agrees at
every shape point.

`MeaningPreserved`, for every graph the ONNX checker accepts and every selection of passes. A graph has its
nodes at places, so that a node that is removed moves no other. What it computes is the environment that a fold over
its nodes leaves; `EnvSolves` says that it solves the equations of the graph (a given name has its
start, an output of a node the term of that node), and `SolutionIsEnv` that nothing else does, by the first
place where another solution would differ. So no pass needs an induction: `SoundRewriting` says once that
whoever leaves some of the nodes, renames reads to names with the same term that are defined before, and keeps
the outputs defined, leaves the meaning what it was and the graph one that the checker accepts. Each pass is such
a rewriting (`ConstantsExtracted`, `IdentityEliminated`, `InitializersDeduplicated`, `DeadNodesEliminated`,
`UnusedInitializersEliminated`). Bodies are where it could go wrong: `RenamedTerm` needs that a body defines
no name of the graph around it, and `AliveIs` that a needed node keeps alive what its body reads.
That a second round changes nothing follows from what each pass leaves (no constant, no
identity, no two initializers of one value, no dead node, no unused initializer) and from the later passes
not bringing any of it back (`Reduced`, `OptimizeTwice`); that no dead node is left is about the last node that
would be (`NoDeadNodesLeft`).

The assumptions: the symbols of a configuration are in the order that attribution tries them, a dimension
of the model is a product of some of them and a natural number, the exported graphs are what
`analyze_graph` lets through (`WellFormed`: `optimize_onnx` calls it before any pass, `optimize.py:303`),
parsing makes lists of integers (`Typed`), a configured batch size is not negative,
and of what is compared there is at least one sample and one output (`config/models.py:282`,
`models/outputs.py:55`), with as many values in an engine's output as in the model's; an output of another
shape is told by its shape, which the model derives separately, before any value is looked at.

Model-checked only: liveness (`RunRecovers`, `ThreadsEnd`, `SweepEnds`, `CommandsEnd`), because the prover
has no rules for fairness here.

## Findings

Runs that show a statement of the repository violated:

- `cache_torn`: `store.py:214` promises "first writer wins" and `store.py:233` that the other's entry
  "is equivalent". All writers of a key share one staging directory (`store.py:218`). One writer can
  rename it while the other is still copying into it, or after the other removed a file from it; the
  published entry has an index and fails verification for good, because `store` leaves an entry with
  an index alone. On the same race `mkdir` or `copy2` raises outside the `try`, so a stage that has
  published everything is recorded as failed; and a file still open when its directory is renamed
  overwrites a verified entry, so an adoption may copy another build's artifact than it verified
  (`HitIsOneBuild` and `StoreNeverFails` are therefore stated for writers that do not meet).
- `pipeline_stale`: `docs/pipeline/models.md:33-35` says other weights show up "as changed weights and
  invalidated caches rather than passing silently". Weights 1, 2, and 1 again: the export finds its
  old file under its old name, `register` returns the *old* record (`store.py:112-113`), and `latest`
  keeps preferring the files of weights 2 by their `created_at`. The stages that compare with the model
  notice when the exported file is such a stale one. In the run's behaviour it is not, because it was
  damaged and therefore registered anew; the optimized file is, nobody compares it, and the build,
  whose key has no weights, succeeds on it.
- `pipeline_missing`: `docs/pipeline/overview.md:44-45` says a *missing* artifact is rebuilt as a new
  version. `publish` finds the path free and moves the new file there; `register` finds the old record
  of the path with another hash and raises.
- `resume_env`: `run_cmd.py:44` says that "a run may only be continued with the configuration it was
  created with". The snapshot is read by `load_config` like any file (`run_cmd.py:45`), and environment
  variables are applied to it (`config/loader.py:106`). A variable that was not set at creation
  therefore changes both sides of the comparison, nothing differs, and the run is continued with
  another configuration than its snapshot.

Seen while modelling and described by weaker properties. `serve` removes the container only when it
fails in its wait (`server.py:214-218`), although `server.py:195-196` and `docs/triton/server.md:49` say
that this is so on any failure. `docker run` may fail after it created the container (a taken port, the
300 s limit; `server.py:207-213`), and the look at the container in `status()` after the wait may fail
with docker or be interrupted (`server.py:219`, `:168-178`): the command reports a failure, the container
stays, in the second case with its server running, and the next `serve` refuses. The model has both
(`DockerRunFails`, `ServeStatusFails`), and `FailedWaitLeavesNothing` is about the wait. A serve whose container was
stopped removes by name the container of a later serve (`server.py:187`; `NeverTouchesOthers` is stated
for commands that do not overlap). A damaged artifact of a deterministic stage is rebuilt with the
same id, which replaces the record of the damaged file, so that nothing flags that file any more,
although `docs/pipeline/overview.md:45-46` says `trtship report` does (`store.py:124`). A crash during
an adoption leaves part of a file at its final path, although `overview.md:41` says nothing is left
half-written (`store.py:277`; the run recovers, `RunRecovers`). A build that ends between the plan and
its description (`build_cmd.py:42-46`) leaves a plan that `package` refuses and `build` will not
replace. A user who then, or at any time, follows the hint to "remove the file yourself"
(`utils/fs.py:57`) and removes the plan only, may after a rebuild that ends in the same place, or while
it is there, package the new plan with the older description: `package` does not compare them
(`package_cmd.py:40-49`), although `DECISIONS.md:302-304` says that names, dtypes and batch limits
"cannot drift from the plan". Removing a plan while a `package` has read its description and not yet
copied it does the same (`PackagedPair` is stated until such a removal). Clients of a benchmark are kept per thread identifier,
which the system may reuse, so a later point's thread can be given an earlier thread's client
(`triton_target.py:96`).

An adoption may list an older artifact than `latest` returns: an entry was stored, its run was killed
before the stage was recorded as finished, the stage ran again and was killed again, and the first
version's file was deleted. The next adoption finds that path free, `register` returns the old record with
its old `created_at`, and the stage lists an engine that later stages do not use
(`orchestrator.py:269-277`, `store.py:112-113`). `InputsAreCurrent` is therefore stated while no file is
deleted.

`doctor` lists "TensorRT build, calibration, benchmark" as ready when there are a GPU and TensorRT
(`cli/commands/doctor.py:40`), while calibrating, validating and benchmarking also require a PyTorch that
sees the GPU; `Environment` has both.

## Not modelled

- Two restrictions, so that the model has more behaviours than the code: `optimize` checks the
  interface of its result again, without the pinned sizes that `export` allows (`optimize.py:318`), and
  so refuses graphs that `OptimizeStage` accepts; and `EngineInfo` keeps -1 for a symbol that the newer
  exporter made a constant.
- A clock that steps back. Records are ordered by wall-clock time (`store.py:142`); the model's clock
  is monotone.
- Two processes on one run directory. The manifest is declared single-writer and has no lock.
- Damage to an input between its verification and its use inside one stage.
- The timing cache of the builder, which several builds may read and replace: losing timings costs
  time only.
- Listing runs and finding the newest one; the naming of run ids.
- Which samples calibration draws and how they are preprocessed; percentiles and throughput; the
  means and the divergence reported beside a verdict: numerics over reals.
- Reporting: it renders values that are final when it starts. That a served measurement may be paired
  with an older direct one is listed as a hazard without a property.
- The text of `config.pbtxt` and of reports, parsing of YAML, logging, commands that only read and
  print, and the calls into PyTorch, ONNX Runtime, TensorRT, CUDA and Triton.

## Plan

What is left.

1. Reporting: which of several measurements of one point a serving report pairs with which, the hazard
   listed at `reporting/serving_report.py`.
2. `Pipeline`: how far `InputsAreCurrent` holds after a deletion that no adoption of the same stage follows.
