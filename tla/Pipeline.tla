------------------------------ MODULE Pipeline ------------------------------
(***************************************************************************)
(* The pipeline of one model (pipeline/orchestrator.py, pipeline/stage.py):*)
(* invocations of `trtship run` execute a contiguous part of the stages on *)
(* a run directory, one stage at a time, reuse what is up to date, adopt   *)
(* what the shared cache has, and otherwise run the stage.  A process may  *)
(* stop between any two writes; the model's weights may change; files of   *)
(* the run and of the cache may be damaged or deleted between stages.      *)
(*                                                                         *)
(* Abstractions.  A stage builds a content per output; origin remembers    *)
(* what each content was built from, so that a deterministic output built  *)
(* twice from the same things is the same content, and a salted one (it    *)
(* holds a timestamp, or is not reproducible) never is.  The configuration *)
(* and the tool versions, which every cache key covers, do not change: a   *)
(* run refuses another configuration.  The cache entry of a key is         *)
(* published in one step (ArtifactCache models the steps).                 *)
(***************************************************************************)
EXTENDS RunDirectory, Sequences, Functions

CONSTANTS Order,            \* the stages in pipeline order
          Requires, Uses,   \* stage -> types of its required and optional inputs
          Outputs,          \* stage -> sequence of the types it publishes
          Cacheable,        \* stages whose outputs may be reused
          Skipped,          \* stages that do not apply to the configuration
          DependsOnModel,   \* stages with the weights hash in their key
          LoadsModel,       \* stages that load the model when they run
          FromModel,        \* stages whose output is a function of the weights
          Compares,         \* stages that compare their input with the model
          Salted,           \* output types that differ at every execution
          Weights, NoWeights

CONSTANTS MaxContent,       \* bounds: contents built,
          MaxInvocations,   \* invocations of the command,
          MaxRuns,          \* run directories,
          MaxFaults,        \* crashes, failing stages, damaged files, weights put back,
          MayDelete,        \* whether files of the run may be deleted,
          MayRevert         \* whether the weights may return to an earlier value

ASSUME PipelineAssumption ==
    /\ Order \in Seq(StageName)
    /\ Requires \in [StageName -> SUBSET ArtifactType]
    /\ Uses \in [StageName -> SUBSET ArtifactType]
    /\ Outputs \in [StageName -> Seq(ArtifactType)]
    /\ \A s \in StageName : Outputs[s] # << >>
    /\ {Cacheable, Skipped, DependsOnModel, LoadsModel, FromModel, Compares} \subseteq SUBSET StageName
    /\ DependsOnModel \subseteq LoadsModel
    /\ Salted \subseteq ArtifactType /\ ArtifactType \subseteq Name
    /\ Weights \subseteq Nat /\ NoWeights \notin Weights
    /\ MaxContent \in Nat /\ Content = 0 .. MaxContent

Consumes(s) == Requires[s] \cup Uses[s]
Publishes(s, type) == type \in Range(Outputs[s])

\* order_stages: a stage has one place, and what it publishes is consumed by later ones only.
ASSUME OrderAssumption ==
    \A m, n \in DOMAIN Order :
        /\ Order[m] = Order[n] => m = n
        /\ m <= n => \A t \in Consumes(Order[m]) : ~ Publishes(Order[n], t)

\* Every stage builds from the weights or from another stage's output (default_stages).
ASSUME SourceAssumption ==
    /\ FromModel \subseteq DependsOnModel
    /\ \A n \in DOMAIN Order : Order[n] \in FromModel \/ Requires[Order[n]] # {}

\* Several stages publish reports of one type (validate, optimize, validate_engine): what is
\* made with one (by package) is an input of no stage.
ASSUME ProducerAssumption ==
    \A m, n \in DOMAIN Order : \A t \in ArtifactType :
        m # n /\ Publishes(Order[m], t) /\ Publishes(Order[n], t) =>
            \A k, l \in DOMAIN Order : t \in Consumes(Order[k]) =>
                \A u \in Consumes(Order[l]) : ~ Publishes(Order[k], u)

VARIABLES runStatus,        \* manifest.status
          stageRec,         \* manifest.stages: status, cache_key, artifact_ids
          modelSha,         \* manifest.model_sha256
          cache,            \* key -> [items, damaged], the published entries
          weights,          \* the weights file of the model
          origin,           \* what each content was built from
          proc,             \* the process, its position and what it holds
          invocations, runs, faults,
          error,            \* how the last failed stage failed
          tampered,         \* history: paths of this run changed from outside,
          deleted,          \* those of them that were deleted,
          reverted          \* and whether the weights returned to an earlier value

store == <<files, artifacts, clock>>
bounds == <<invocations, runs, faults>>
history == <<tampered, deleted, reverted>>
vars == <<store, runStatus, stageRec, modelSha, cache, weights, origin, proc,
          bounds, error, history>>

Torn == 0
Built == DOMAIN origin
Done == {"succeeded", "cached", "skipped"}
NoKey == [stage |-> "none", inputs |-> {}, weights |-> NoWeights]

\* The parts of a process that outlive a stage: the selection and the loaded model.
IdleProc(first, last) ==
    [pc |-> "idle", cur |-> first, first |-> first, last |-> last, loaded |-> NoWeights,
     key |-> NoKey, item |-> 1, ids |-> << >>, path |-> {}]

TypeOK ==
    /\ DOMAIN files \subseteq Path /\ \A p \in DOMAIN files : files[p] \in {Torn} \cup Built
    /\ DOMAIN artifacts \subseteq Id /\ \A i \in Registered : artifacts[i] \in Record
    /\ clock \in Nat
    /\ runStatus \in {"created", "running", "succeeded", "failed"}
    /\ \A s \in StageName :
          /\ stageRec[s].status \in Done \cup {"pending", "running", "failed"}
          /\ Range(stageRec[s].ids) \subseteq Registered
    /\ modelSha \in Weights \cup {NoWeights} /\ weights \in Weights
    /\ Built \subseteq Content
    /\ \A k \in DOMAIN cache : \A n \in DOMAIN cache[k].items :
          cache[k].items[n].path \in Path /\ cache[k].items[n].id \in Id
    /\ proc.pc \in {"idle", "stage", "adopt", "adopted", "run", "published", "store",
                    "succeeded", "cached", "failing"}
    /\ proc.path \subseteq Path /\ Range(proc.ids) \subseteq Registered

Init ==
    /\ files = [p \in {} |-> Torn]
    /\ artifacts = [i \in {} |-> {}]
    /\ clock = 0
    /\ runStatus = "created"
    /\ stageRec = [s \in StageName |-> [status |-> "pending", key |-> NoKey, ids |-> << >>]]
    /\ modelSha = NoWeights
    /\ cache = [k \in {} |-> {}]
    /\ weights \in {w \in Weights : \A v \in Weights : w <= v}
    /\ origin = << >>
    /\ proc = IdleProc(1, Len(Order))
    /\ invocations = 0 /\ runs = 1 /\ faults = 0
    /\ error = "none"
    /\ tampered = {} /\ deleted = {}
    /\ reverted = FALSE

-----------------------------------------------------------------------------
(* Inputs, keys and outputs of a stage *)

Current == Order[proc.cur]

\* The newest artifact of every required and optional type the run has.
Inputs(s) == UNION {Latest(t) : t \in Consumes(s)}

InputsMissing(s) == \E t \in Requires[s] : Latest(t) = {}
\* Mutant: every artifact of the run must be intact, needed or not.
AnythingDamaged(s) == VerifyAll # {}

InputsDamaged(s) == \E id \in Inputs(s) : ~ Intact(id)

KeyOf(s, w) ==
    [stage |-> s, inputs |-> Inputs(s),
     weights |-> IF s \in DependsOnModel THEN w ELSE NoWeights]

\* The model is loaded once per process, when a stage first needs it.
LoadBy(users, s) ==
    IF s \in users /\ proc.loaded = NoWeights THEN weights ELSE proc.loaded

\* Loading records the weights hash in the manifest.
RecordModel(loaded) ==
    modelSha' = IF loaded # proc.loaded THEN loaded ELSE modelSha

\* Mutant: the status of the earlier execution is not looked at.
UpToDateInAnyStatus(s, key) ==
    /\ s \in Cacheable
    /\ stageRec[s].key = key
    /\ stageRec[s].ids # << >>
    /\ \A id \in Range(stageRec[s].ids) : id \in Registered /\ Intact(id)

\* Mutant: the key of the earlier execution is not looked at.
UpToDateUnderAnyKey(s, key) ==
    /\ s \in Cacheable
    /\ stageRec[s].status \in Done
    /\ stageRec[s].ids # << >>
    /\ \A id \in Range(stageRec[s].ids) : id \in Registered /\ Intact(id)

\* Intact outputs of an earlier finished execution with the same key.
UpToDate(s, key) ==
    /\ s \in Cacheable
    /\ stageRec[s].key = key
    /\ stageRec[s].status \in Done
    /\ stageRec[s].ids # << >>
    /\ \A id \in Range(stageRec[s].ids) : id \in Registered /\ Intact(id)

CacheHit(s, key) == s \in Cacheable /\ key \in DOMAIN cache /\ ~ cache[key].damaged

\* What an output of type is a function of.
Source(type, key) ==
    [type |-> type, stage |-> key.stage, inputs |-> key.inputs,
     weights |-> IF key.stage \in FromModel THEN key.weights ELSE NoWeights]

\* The contents an execution may produce: the one built before, or a new one.
Produces(type, key) ==
    LET known == {c \in Built : origin[c] = Source(type, key)} IN
    IF type \in Salted \/ known = {} THEN {Len(origin) + 1} ELSE known

SetStage(s, status, key, ids) ==
    stageRec' = [stageRec EXCEPT ![s] = [status |-> status, key |-> key, ids |-> ids]]

\* On to the next stage of the selection.
NextStage == [proc EXCEPT !.pc = "stage", !.cur = @ + 1, !.key = NoKey, !.item = 1,
                          !.ids = << >>, !.path = {}]

-----------------------------------------------------------------------------
(* An invocation and its stages *)

\* `trtship run`: --from and --only need a run directory that was used before.
Start(first, last) ==
    /\ proc.pc = "idle"
    /\ invocations < MaxInvocations
    /\ first = 1 \/ runStatus # "created"
    /\ runStatus' = "running"
    /\ proc' = [IdleProc(first, last) EXCEPT !.pc = "stage"]
    /\ invocations' = invocations + 1
    /\ UNCHANGED <<store, stageRec, modelSha, cache, weights, origin, runs, faults,
                   error, history>>

Entering(s) == proc.pc = "stage" /\ proc.cur <= proc.last /\ s = Current

\* The configuration has nothing for the stage to do; its key and ids are kept.
SkipStage(s) ==
    /\ Entering(s) /\ s \in Skipped
    /\ SetStage(s, "skipped", stageRec[s].key, stageRec[s].ids)
    /\ proc' = NextStage
    /\ UNCHANGED <<store, runStatus, modelSha, cache, weights, origin, bounds, error,
                   history>>

Fail(reason) ==
    /\ SetStage(Current, "failed", stageRec[Current].key, stageRec[Current].ids)
    /\ error' = reason
    /\ proc' = [proc EXCEPT !.pc = "failing"]
    /\ UNCHANGED <<runStatus, cache, weights, invocations, runs, history>>

\* ctx.input() raises for a missing required input, and for a damaged one.
FailInputs(s) ==
    /\ Entering(s) /\ s \notin Skipped
    /\ InputsMissing(s) \/ InputsDamaged(s)
    /\ Fail(IF InputsMissing(s) THEN "missing_input" ELSE "damaged_input")
    /\ UNCHANGED <<store, modelSha, origin, faults>>

InputsReady(s) ==
    Entering(s) /\ s \notin Skipped /\ ~ InputsMissing(s) /\ ~ InputsDamaged(s)

ReuseOwn(s) ==
    LET loaded == LoadBy(DependsOnModel, s)
        key == KeyOf(s, loaded) IN
    /\ InputsReady(s)
    /\ UpToDate(s, key)
    /\ SetStage(s, "skipped", key, stageRec[s].ids)
    /\ RecordModel(loaded)
    /\ proc' = [NextStage EXCEPT !.loaded = loaded]
    /\ UNCHANGED <<store, runStatus, cache, weights, origin, bounds, error, history>>

\* adopt() starts on an entry that load() has verified.
BeginAdopt(s) ==
    LET loaded == LoadBy(DependsOnModel, s)
        key == KeyOf(s, loaded) IN
    /\ InputsReady(s)
    /\ ~ UpToDate(s, key) /\ CacheHit(s, key)
    /\ RecordModel(loaded)
    /\ proc' = [proc EXCEPT !.pc = "adopt", !.key = key, !.loaded = loaded]
    /\ UNCHANGED <<store, runStatus, stageRec, cache, weights, origin, bounds, error,
                   history>>

\* The stage is marked running under its new key, still with its old ids.
RunUnder(s, key, loaded) ==
    /\ stageRec' = [stageRec EXCEPT ![s].status = "running", ![s].key = key]
    /\ RecordModel(loaded)
    /\ proc' = [proc EXCEPT !.pc = "run", !.key = key, !.loaded = loaded, !.item = 1,
                            !.ids = << >>, !.path = {}]
    /\ UNCHANGED <<store, runStatus, cache, weights, origin, bounds, error, history>>

BeginRun(s) ==
    LET key == KeyOf(s, LoadBy(DependsOnModel, s)) IN
    /\ InputsReady(s)
    /\ ~ UpToDate(s, key) /\ ~ CacheHit(s, key)
    /\ RunUnder(s, key, LoadBy(LoadsModel, s))

(* adopt(): one cached artifact at a time, the file and then its record *)

Cached == cache[proc.key].items[proc.item]

\* Something is at the target: a miss, even if earlier artifacts were adopted.
AdoptMiss(s) ==
    /\ proc.pc = "adopt" /\ s = Current
    /\ Exists(Cached.path)
    /\ RunUnder(s, proc.key, LoadBy(LoadsModel, s))

AdoptCopy ==
    /\ proc.pc = "adopt"
    /\ ~ Exists(Cached.path)
    /\ files' = Bind(files, Cached.path, Sha(Cached.id))
    /\ proc' = [proc EXCEPT !.pc = "adopted"]
    /\ UNCHANGED <<artifacts, clock, runStatus, stageRec, modelSha, cache, weights, origin,
                   bounds, error, history>>

\* The file is copied straight to its place: stopping meanwhile leaves part of it.
AdoptTorn ==
    /\ proc.pc = "adopt"
    /\ ~ Exists(Cached.path)
    /\ faults < MaxFaults
    /\ files' = Bind(files, Cached.path, Torn)
    /\ proc' = IdleProc(proc.first, proc.last)
    /\ faults' = faults + 1
    /\ UNCHANGED <<artifacts, clock, runStatus, stageRec, modelSha, cache, weights, origin,
                   invocations, runs, error, history>>

\* register() with the stage's inputs as parents; label is where the last item leads.
Registering(path, type, items, again, label) ==
    LET reply == RegisterReply(path, type, proc.key.inputs) IN
    /\ RegisterFile(path, type, Current, proc.key.inputs)
    /\ \/ /\ reply \in {"existing", "added"}
          /\ proc' = [proc EXCEPT !.ids = Append(@, MakeId(type, files[path])),
                                 !.path = {},
                                 !.item = @ + 1,
                                 !.pc = IF proc.item < Len(items) THEN again ELSE label]
          /\ UNCHANGED <<runStatus, stageRec, cache, weights, invocations, runs, error,
                         history>>
       \/ reply \notin {"existing", "added"} /\ Fail(reply)
    /\ UNCHANGED <<files, modelSha, origin, faults>>

AdoptRegister ==
    /\ proc.pc = "adopted"
    /\ Registering(Cached.path, TypeOf(Cached.id), cache[proc.key].items, "adopt", "cached")

(* The stage itself *)

\* The outputs of an ONNX file built from other weights differ from the model's.
\* A stage that compares them publishes its report first and then raises.
Mismatch ==
    /\ Current \in Compares
    /\ proc.ids # << >>
    /\ \E id \in proc.key.inputs : origin[Sha(id)].weights \notin {NoWeights, proc.loaded}

ComparisonFails ==
    /\ proc.pc \in {"run", "store"}
    /\ Mismatch
    /\ Fail("mismatch")
    /\ UNCHANGED <<store, modelSha, origin, faults>>

\* stage.run() writes to its scratch directory and publishes one output.
PublishItem ==
    /\ proc.pc = "run" /\ ~ Mismatch
    /\ LET type == Outputs[Current][proc.item] IN
       \E content \in Produces(type, proc.key) :
          /\ content <= MaxContent
          /\ origin' = IF content \in Built THEN origin
                       ELSE Append(origin, Source(type, proc.key))
          /\ \E path \in Destination(type, content) :
                /\ files' = Bind(files, path, content)
                /\ proc' = [proc EXCEPT !.pc = "published", !.path = {path}]
    /\ UNCHANGED <<artifacts, clock, runStatus, stageRec, modelSha, cache, weights,
                   bounds, error, history>>

RegisterItem ==
    /\ proc.pc = "published"
    /\ \E path \in proc.path :
          Registering(path, Outputs[Current][proc.item], Outputs[Current], "run", "store")

\* stage.run() raises before it publishes its next output.
StageFails ==
    /\ proc.pc = "run"
    /\ faults < MaxFaults
    /\ faults' = faults + 1
    /\ Fail("stage_error")
    /\ UNCHANGED <<store, modelSha, origin>>

\* store() keeps an entry the key has, damaged or not.
StoreInCache ==
    /\ proc.pc = "store" /\ ~ Mismatch
    /\ LET items == [n \in DOMAIN proc.ids |->
                        [id |-> proc.ids[n], path |-> artifacts[proc.ids[n]].path]] IN
       cache' = IF Current \in Cacheable /\ proc.key \notin DOMAIN cache
                THEN Bind(cache, proc.key, [items |-> items, damaged |-> FALSE])
                ELSE cache
    /\ proc' = [proc EXCEPT !.pc = "succeeded"]
    /\ UNCHANGED <<store, runStatus, stageRec, modelSha, weights, origin, bounds, error,
                   history>>

\* Mutant: the key is not recorded when the stage finishes.
FinishWithoutKey(s) ==
    /\ proc.pc \in {"succeeded", "cached"} /\ s = Current
    /\ SetStage(s, proc.pc, stageRec[s].key, proc.ids)
    /\ proc' = NextStage
    /\ UNCHANGED <<store, runStatus, modelSha, cache, weights, origin, bounds, error,
                   history>>

\* _finish() after an adoption or an execution.
Finish(s) ==
    /\ proc.pc \in {"succeeded", "cached"} /\ s = Current
    /\ SetStage(s, proc.pc, proc.key, proc.ids)
    /\ proc' = NextStage
    /\ UNCHANGED <<store, runStatus, modelSha, cache, weights, origin, bounds, error,
                   history>>

\* Every selected stage is through.
Succeed ==
    /\ proc.pc = "stage" /\ proc.cur > proc.last
    /\ runStatus' = "succeeded"
    /\ proc' = IdleProc(proc.first, proc.last)
    /\ UNCHANGED <<store, stageRec, modelSha, cache, weights, origin, bounds, error,
                   history>>

\* The exception ends the invocation.
FailRun ==
    /\ proc.pc = "failing"
    /\ runStatus' = "failed"
    /\ proc' = IdleProc(proc.first, proc.last)
    /\ UNCHANGED <<store, stageRec, modelSha, cache, weights, origin, bounds, error,
                   history>>

-----------------------------------------------------------------------------
(* The environment *)

\* The process is killed: what it wrote stays, nothing is cleaned up.
Crash ==
    /\ proc.pc # "idle"
    /\ faults < MaxFaults
    /\ faults' = faults + 1
    /\ proc' = IdleProc(proc.first, proc.last)
    /\ UNCHANGED <<store, runStatus, stageRec, modelSha, cache, weights, origin,
                   invocations, runs, error, history>>

\* A run directory of its own; the cache and the weights are shared.
NewRun ==
    /\ proc.pc = "idle"
    /\ runs < MaxRuns
    /\ runs' = runs + 1
    /\ files' = [p \in {} |-> Torn]
    /\ artifacts' = [i \in {} |-> {}]
    /\ runStatus' = "created"
    /\ stageRec' = [s \in StageName |-> [status |-> "pending", key |-> NoKey, ids |-> << >>]]
    /\ modelSha' = NoWeights
    /\ error' = "none"
    /\ tampered' = {} /\ deleted' = {}
    /\ UNCHANGED <<clock, cache, weights, origin, proc, invocations, faults, reverted>>

\* The weights change whenever they may be read next; a change in between is one
\* that comes later.
EditWeights(w) ==
    /\ proc.pc \in {"idle", "stage", "adopt"}
    /\ weights < w
    /\ weights' = w
    /\ UNCHANGED <<store, runStatus, stageRec, modelSha, cache, origin, proc, bounds,
                   error, history>>

RevertWeights(w) ==
    /\ proc.pc \in {"idle", "stage", "adopt"}
    /\ MayRevert /\ w < weights
    /\ faults < MaxFaults
    /\ faults' = faults + 1
    /\ weights' = w
    /\ reverted' = TRUE
    /\ UNCHANGED <<store, runStatus, stageRec, modelSha, cache, origin, proc, invocations,
                   runs, error, tampered, deleted>>

\* Files change between stages, not between the steps of one.
Outside == proc.pc \in {"idle", "stage"} /\ faults < MaxFaults /\ faults' = faults + 1

Tamper(path) ==
    /\ Outside
    /\ Exists(path) /\ files[path] # Torn
    /\ files' = Bind(files, path, Torn)
    /\ tampered' = tampered \cup {path}
    /\ UNCHANGED <<artifacts, clock, runStatus, stageRec, modelSha, cache, weights, origin,
                   proc, invocations, runs, error, deleted, reverted>>

Delete(path) ==
    /\ Outside /\ MayDelete
    /\ Exists(path)
    /\ files' = Unbind(files, path)
    /\ tampered' = tampered \cup {path}
    /\ deleted' = deleted \cup {path}
    /\ UNCHANGED <<artifacts, clock, runStatus, stageRec, modelSha, cache, weights, origin,
                   proc, invocations, runs, error, reverted>>

DamageCache(key) ==
    /\ Outside
    /\ ~ cache[key].damaged
    /\ cache' = [cache EXCEPT ![key].damaged = TRUE]
    /\ UNCHANGED <<store, runStatus, stageRec, modelSha, weights, origin, proc,
                   invocations, runs, error, history>>

-----------------------------------------------------------------------------

\* The steps of the process, which no one can stop it from taking.
Step ==
    \/ \E s \in StageName :
          \/ SkipStage(s) \/ FailInputs(s) \/ ReuseOwn(s) \/ BeginAdopt(s) \/ BeginRun(s)
          \/ AdoptMiss(s) \/ Finish(s)
    \/ AdoptCopy \/ AdoptRegister
    \/ PublishItem \/ RegisterItem \/ ComparisonFails \/ StoreInCache
    \/ Succeed \/ FailRun

Fault ==
    \/ AdoptTorn \/ StageFails \/ Crash
    \/ \E path \in DOMAIN files : Tamper(path) \/ Delete(path)
    \/ \E key \in DOMAIN cache : DamageCache(key)

Next ==
    \/ \E first, last \in DOMAIN Order : first <= last /\ Start(first, last)
    \/ NewRun
    \/ \E w \in Weights : EditWeights(w) \/ RevertWeights(w)
    \/ Step
    \/ Fault

Spec == Init /\ [][Next]_vars /\ WF_vars(Step)

-----------------------------------------------------------------------------
(* Properties *)

Applicable == {Order[n] : n \in DOMAIN Order} \ Skipped

\* The last invocation ran every stage and succeeded.
FullSuccess ==
    proc.pc = "idle" /\ runStatus = "succeeded" /\ proc.first = 1 /\ proc.last = Len(Order)

\* A finished stage's recorded artifacts were built from what its recorded key
\* names, whatever failed, crashed or was adopted before (_up_to_date and _finish,
\* orchestrator.py:319-370): a new key is never left next to old artifact ids.
KeyDescribesOutputs ==
    \A s \in StageName :
        stageRec[s].status \in Done =>
            \A id \in Range(stageRec[s].ids) :
                origin[Sha(id)] = Source(TypeOf(id), stageRec[s].key)

\* The parents of an artifact are exactly what it was built from: provenance
\* survives adoption into another run and republication (register, adopt).
ParentsAreSources ==
    \A i \in Registered : artifacts[i].parents = origin[Sha(i)].inputs

\* The weights that went into a content, directly or through its inputs.
RootWeights ==
    LET from[c \in Built] ==
            ({origin[c].weights} \ {NoWeights})
                \cup UNION {from[Sha(i)] : i \in origin[c].inputs}
    IN  from

\* Everything that every applicable stage lists was built from the weights the
\* manifest names and from no others.
BuiltFromModel ==
    \A s \in Applicable :
        /\ stageRec[s].status \in Done
        /\ \A id \in Range(stageRec[s].ids) : RootWeights[Sha(id)] = {modelSha}

\* A full successful run is built from the model's weights, whatever failed, crashed,
\* was damaged or deleted before, as long as the weights never return to an earlier
\* value (cache_key, stage.py:155-170; latest, store.py:144-146).
SuccessMatchesModel == FullSuccess /\ ~ reverted => BuiltFromModel

\* Other weights, earlier ones too, show up "as changed weights and invalidated caches
\* rather than passing silently" (docs/pipeline/models.md:33-35).
NeverPassesSilently == FullSuccess => BuiltFromModel

\* In an invocation from the first stage on, a stage works on what the stages before
\* it list as their outputs, not on what an earlier execution left in the run
\* (input, stage.py:60-74; latest, store.py:144-146), unless the weights returned to
\* an earlier value or a file was deleted: an adoption may then put an older version
\* on the list, while latest() still gives the newer one.
InputsAreCurrent ==
    proc.first = 1 /\ deleted = {} /\ ~ reverted =>
        proc.key.inputs \subseteq UNION {Range(stageRec[s].ids) : s \in StageName}

\* After a full successful run that nobody interfered with, running again has
\* nothing to do: every cacheable stage is up to date (docs/pipeline/overview.md:51-52).
RerunIsNoop ==
    FullSuccess /\ tampered = {} /\ weights = modelSha =>
        \A s \in Applicable \cap Cacheable : UpToDate(s, KeyOf(s, weights))

\* "A modified or missing artifact is detected, and the stage that produced it is
\* rebuilt as a new version" (docs/pipeline/overview.md:44-45).
MissingIsRebuilt == error # "conflict"

\* A run can always be completed: a full invocation after the last fault and the
\* last change of the weights succeeds, whatever state the faults left behind.
FullStart == proc.pc = "stage" /\ proc.cur = 1 /\ proc.last = Len(Order)
RunRecovers ==
    FullStart /\ faults = MaxFaults /\ deleted = {} /\ ~ reverted ~> runStatus = "succeeded"

=============================================================================
