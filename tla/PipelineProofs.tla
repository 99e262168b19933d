--------------------------- MODULE PipelineProofs ---------------------------
(***************************************************************************)
(* What a run records about its artifacts is true, a run that nobody       *)
(* interfered with is not done again, what a successful run lists was made *)
(* from the model its manifest names, and a stage works on what the stages *)
(* before it list: for every set of stages, every order and every table of *)
(* inputs and outputs that meets the assumptions, with any number of       *)
(* invocations, run directories, faults and versions.                      *)
(*                                                                         *)
(* None of these properties is inductive.  Each section strengthens the    *)
(* invariant of the one before it:                                         *)
(*   IInv  every place a stage's outputs pass through (the files, the      *)
(*         process, the cache entries) holds content built under its key;  *)
(*   RInv  the stages the process is through with have records that a      *)
(*         second look would accept, and nothing of theirs has changed;    *)
(*   SInv  every artifact has the sources its key stands for, the records  *)
(*         and entries list what was built for them, and of two artifacts  *)
(*         of one stage and type the later one is recent if the earlier is;*)
(*   CInv  a stage's later artifacts are of later inputs, so what is built *)
(*         or adopted is the newest of its type, and what a stage lists is *)
(*         the newest it made unless its key is out of date for good.      *)
(***************************************************************************)
EXTENDS Pipeline, FiniteSetTheorems, WellFoundedInduction, TLAPS

Hash == Weights \cup {NoWeights}
Origin == [type : ArtifactType, stage : StageName \cup {NoKey.stage}, inputs : SUBSET Id,
           weights : Hash]
Field == {"pc", "cur", "first", "last", "loaded", "key", "item", "ids", "path"}
Busy == {"adopt", "adopted", "run", "published", "store", "succeeded", "cached"}

\* The content of id was built from what key names.
BuiltUnder(id, key) == Sha(id) \in Built /\ origin[Sha(id)] = Source(TypeOf(id), key)

OriginSound == origin \in Seq(Origin) /\ Built \subseteq Content

FilesSound == DOMAIN files \subseteq Path /\ \A p \in DOMAIN files : files[p] \in {Torn} \cup Built

ManifestSound ==
    /\ DOMAIN artifacts \subseteq Id
    /\ \A i \in Registered : /\ artifacts[i] \in Record
                             /\ Sha(i) \in Built
                             /\ artifacts[i].parents = origin[Sha(i)].inputs

EntrySound(key, entry) ==
    /\ DOMAIN entry = {"items", "damaged"}
    /\ entry.items \in Seq([id : Id, path : Path]) /\ entry.items # << >>
    /\ \A n \in DOMAIN entry.items : BuiltUnder(entry.items[n].id, key)

CacheSound == \A k \in DOMAIN cache : EntrySound(k, cache[k])

RecSound(s, rec) ==
    /\ DOMAIN rec = {"status", "key", "ids"}
    /\ rec.status \in Done \cup {"pending", "running", "failed"}
    /\ Range(rec.ids) \subseteq Registered
    /\ rec.status \in Done => \A id \in Range(rec.ids) : BuiltUnder(id, rec.key)
    /\ s \in Skipped => rec.ids = << >>

RecordsSound == DOMAIN stageRec = StageName /\ \A s \in StageName : RecSound(s, stageRec[s])

ProcTyped ==
    /\ DOMAIN proc = Field
    /\ proc.pc \in {"idle", "stage", "adopt", "adopted", "run", "published", "store",
                    "succeeded", "cached", "failing"}
    /\ proc.loaded \in Hash
    /\ proc.key.inputs \subseteq Id /\ proc.key.weights \in Hash
    /\ proc.key.stage \in StageName \cup {NoKey.stage}
    /\ proc.item \in Nat \ {0}
    /\ proc.ids \in Seq(Id)
    /\ proc.path \subseteq Path

\* What the process holds at each of its steps.
ProcSound ==
    /\ Range(proc.ids) \subseteq Registered
    /\ \A id \in Range(proc.ids) : BuiltUnder(id, proc.key)
    /\ proc.pc \in {"idle", "stage"} => proc.ids = << >> /\ proc.item = 1
    /\ proc.pc \in Busy => Current \in StageName \ Skipped
    /\ proc.pc \in {"adopt", "adopted"} =>
          proc.key \in DOMAIN cache /\ proc.item \in DOMAIN cache[proc.key].items
    /\ proc.pc = "adopted" => Holds(Cached.path, Sha(Cached.id))
    /\ proc.pc \in {"run", "published"} => proc.item \in DOMAIN Outputs[Current]
    /\ proc.pc = "published" => \A path \in proc.path :
          /\ Exists(path) /\ files[path] \in Built
          /\ origin[files[path]] = Source(Outputs[Current][proc.item], proc.key)
    /\ proc.pc = "store" => proc.ids # << >>

ScalarsTyped ==
    /\ clock \in Nat
    /\ runStatus \in {"created", "running", "succeeded", "failed"}
    /\ modelSha \in Hash /\ weights \in Weights

\* The inductive invariant.
IInv == /\ OriginSound /\ FilesSound /\ ManifestSound /\ CacheSound /\ RecordsSound
        /\ ProcTyped /\ ProcSound /\ ScalarsTyped

-----------------------------------------------------------------------------
(* What each action can change *)

\* Only publishing an output adds a content.
LEMMA OriginFrame == [Next]_vars => origin' = origin \/ PublishItem
<1> SUFFICES ASSUME [Next]_vars PROVE origin' = origin \/ PublishItem
  OBVIOUS
<1>1. ASSUME Step, ~ PublishItem PROVE origin' = origin
  BY <1>1 DEF Step, SkipStage, FailInputs, Fail, ReuseOwn, BeginAdopt, BeginRun, RunUnder,
     AdoptMiss, Finish, AdoptCopy, AdoptRegister, RegisterItem, Registering, ComparisonFails,
     StoreInCache, Succeed, FailRun
<1>2. ASSUME Fault PROVE origin' = origin
  BY <1>2 DEF Fault, AdoptTorn, StageFails, Crash, Tamper, Delete, DamageCache
<1>3. QED
  BY <1>1, <1>2 DEF Next, Start, NewRun, EditWeights, RevertWeights, vars

\* Files are written by copying from the cache and by publishing; only a new run
\* and the world outside take one away.
FilesChange ==
    \/ AdoptCopy \/ AdoptTorn \/ PublishItem \/ NewRun
    \/ \E path \in DOMAIN files : Tamper(path) \/ Delete(path)

LEMMA FilesFrame == [Next]_vars => files' = files \/ FilesChange
<1> SUFFICES ASSUME [Next]_vars, ~ FilesChange PROVE files' = files
  OBVIOUS
<1>1. ASSUME Step PROVE files' = files
  BY <1>1 DEF FilesChange, Step, SkipStage, FailInputs, Fail, ReuseOwn, BeginAdopt, BeginRun,
     RunUnder, AdoptMiss, Finish, AdoptRegister, RegisterItem, Registering, ComparisonFails,
     StoreInCache, Succeed, FailRun, store
<1>2. ASSUME Fault PROVE files' = files
  BY <1>2 DEF FilesChange, Fault, StageFails, Crash, DamageCache, store
<1>3. QED
  BY <1>1, <1>2 DEF Next, FilesChange, Start, EditWeights, RevertWeights, vars, store

\* The manifest's artifacts change when one is registered, and with the run.
LEMMA ManifestFrame ==
    [Next]_vars => UNCHANGED <<artifacts, clock>> \/ AdoptRegister \/ RegisterItem \/ NewRun
<1> SUFFICES ASSUME [Next]_vars, ~ AdoptRegister, ~ RegisterItem, ~ NewRun
             PROVE  UNCHANGED <<artifacts, clock>>
  OBVIOUS
<1>1. ASSUME Step PROVE UNCHANGED <<artifacts, clock>>
  BY <1>1 DEF Step, SkipStage, FailInputs, Fail, ReuseOwn, BeginAdopt, BeginRun, RunUnder,
     AdoptMiss, Finish, AdoptCopy, PublishItem, ComparisonFails, StoreInCache, Succeed,
     FailRun, store
<1>2. ASSUME Fault PROVE UNCHANGED <<artifacts, clock>>
  BY <1>2 DEF Fault, AdoptTorn, StageFails, Crash, Tamper, Delete, DamageCache, store
<1>3. QED
  BY <1>1, <1>2 DEF Next, Start, EditWeights, RevertWeights, vars, store

\* Entries of the shared cache are stored once, and only ever damaged.
LEMMA CacheFrame ==
    [Next]_vars => \/ cache' = cache \/ StoreInCache
                   \/ \E key \in DOMAIN cache : DamageCache(key)
<1> SUFFICES ASSUME [Next]_vars, ~ StoreInCache,
                    ~ \E key \in DOMAIN cache : DamageCache(key)
             PROVE  cache' = cache
  OBVIOUS
<1>1. ASSUME Step PROVE cache' = cache
  BY <1>1 DEF Step, SkipStage, FailInputs, Fail, ReuseOwn, BeginAdopt, BeginRun, RunUnder,
     AdoptMiss, Finish, AdoptCopy, AdoptRegister, RegisterItem, Registering, PublishItem,
     ComparisonFails, Succeed, FailRun
<1>2. ASSUME Fault PROVE cache' = cache
  BY <1>2 DEF Fault, AdoptTorn, StageFails, Fail, Crash, Tamper, Delete
<1>3. QED
  BY <1>1, <1>2 DEF Next, Start, NewRun, EditWeights, RevertWeights, vars

-----------------------------------------------------------------------------
(* The contents that were built *)

\* A content keeps what it was built from: whatever was built under a key still is.
LEMMA BuiltGrows ==
    ASSUME OriginSound, NEW x, origin' = Append(origin, x)
    PROVE  /\ Built' = Built \cup {Len(origin) + 1} /\ Len(origin) + 1 \notin Built
           /\ \A c \in Built : origin'[c] = origin[c]
           /\ origin'[Len(origin) + 1] = x
BY DEF OriginSound, Built

\* What an execution produces is a content built from what its key names.
LEMMA ProducesFacts ==
    ASSUME OriginSound, NEW type \in ArtifactType, NEW key, key.inputs \subseteq Id,
           key.weights \in Hash, key.stage \in StageName \cup {NoKey.stage},
           NEW content \in Produces(type, key), content <= MaxContent,
           origin' = IF content \in Built THEN origin ELSE Append(origin, Source(type, key))
    PROVE  /\ OriginSound'
           /\ \A c \in Built : c \in Built' /\ origin'[c] = origin[c]
           /\ content \in Built' /\ content \in Nat
           /\ origin'[content] = Source(type, key)
<1>1. Source(type, key) \in Origin
  BY DEF Source, Origin, Hash
<1>2. CASE content \in Built
  <2>1. content # Len(origin) + 1
    BY <1>2 DEF OriginSound, Built
  <2>2. content \in {c \in Built : origin[c] = Source(type, key)}
    BY <2>1 DEF Produces
  <2>3. origin' = origin
    BY <1>2
  <2>4. QED
    BY <1>2, <2>2, <2>3 DEF OriginSound, Built
<1>3. CASE content \notin Built
  <2>1. content = Len(origin) + 1
    BY <1>3 DEF Produces
  <2>2. origin' = Append(origin, Source(type, key))
    BY <1>3
  <2>3. origin' \in Seq(Origin)
    BY <1>1, <2>2 DEF OriginSound
  <2>4. content \in Content
    BY <2>1, PipelineAssumption DEF OriginSound
  <2>5. /\ Built' = Built \cup {content}
        /\ \A c \in Built : origin'[c] = origin[c]
        /\ origin'[content] = Source(type, key)
    BY <2>1, <2>2, BuiltGrows
  <2>6. OriginSound'
    BY <2>3, <2>4, <2>5 DEF OriginSound
  <2>7. content \in Nat
    BY <2>1 DEF OriginSound
  <2>8. QED
    BY <2>5, <2>6, <2>7
<1>4. QED
  BY <1>2, <1>3

-----------------------------------------------------------------------------
(* Publishing and registering an output *)

\* The path publish() ends at is free or already holds the content.
LEMMA DestinationFacts ==
    ASSUME NEW name \in Name, NEW content, NEW path \in Destination(name, content)
    PROVE  path \in Path /\ (Exists(path) => files[path] = content)
<1>1. path \in {name} \X Candidates(name, content)
  BY DEF Destination
<1>2. PICK v \in Candidates(name, content) : path = <<name, v>>
  BY <1>1
<1>3. v \in 1 .. MaxVersion /\ (Exists(<<name, v>>) => files[<<name, v>>] = content)
  BY DEF Candidates
<1>4. QED
  BY <1>2, <1>3 DEF Path

\* What was built stays built, from the same things.
Grows == \A c \in Built : c \in Built' /\ origin'[c] = origin[c]

\* The type of the output a busy process is at.
LEMMA OutputTyped ==
    ASSUME IInv, proc.pc \in {"run", "published"}
    PROVE  Outputs[Current][proc.item] \in ArtifactType
<1>1. Current \in StageName /\ proc.item \in DOMAIN Outputs[Current]
  BY DEF IInv, ProcSound, Busy
<1>2. Outputs[Current] \in Seq(ArtifactType)
  BY <1>1, PipelineAssumption
<1>3. QED
  BY <1>1, <1>2

\* A published output is built from what the process's key names, and is in place.
LEMMA PublishFacts ==
    ASSUME IInv, PublishItem
    PROVE  /\ OriginSound' /\ Grows
           /\ \E path \in Path, content \in Built' :
                 /\ files' = Bind(files, path, content)
                 /\ origin'[content] = Source(Outputs[Current][proc.item], proc.key)
                 /\ proc' = [proc EXCEPT !.pc = "published", !.path = {path}]
<1> DEFINE type == Outputs[Current][proc.item]
<1>1. type \in ArtifactType /\ type \in Name
  BY OutputTyped, PipelineAssumption DEF PublishItem
<1>2. /\ OriginSound /\ proc.key.inputs \subseteq Id /\ proc.key.weights \in Hash
      /\ proc.key.stage \in StageName \cup {NoKey.stage}
  BY DEF IInv, ProcTyped
<1> HIDE DEF type
<1>3. PICK content \in Produces(type, proc.key) :
         /\ content <= MaxContent
         /\ origin' = IF content \in Built THEN origin
                      ELSE Append(origin, Source(type, proc.key))
         /\ \E path \in Destination(type, content) :
               /\ files' = Bind(files, path, content)
               /\ proc' = [proc EXCEPT !.pc = "published", !.path = {path}]
  BY DEF PublishItem, type
<1>4. /\ OriginSound' /\ Grows
      /\ content \in Built' /\ origin'[content] = Source(type, proc.key)
  BY <1>1, <1>2, <1>3, ProducesFacts DEF Grows
<1>5. PICK path \in Destination(type, content) :
         /\ files' = Bind(files, path, content)
         /\ proc' = [proc EXCEPT !.pc = "published", !.path = {path}]
  BY <1>3
<1>6. path \in Path
  BY <1>1, DestinationFacts
<1>7. QED
  BY <1>4, <1>5, <1>6 DEF type

LEMMA OriginStep == IInv /\ [Next]_vars => OriginSound' /\ Grows
<1> SUFFICES ASSUME IInv, [Next]_vars PROVE OriginSound' /\ Grows
  OBVIOUS
<1>1. CASE origin' = origin
  BY <1>1 DEF IInv, OriginSound, Built, Grows
<1>2. CASE PublishItem
  BY <1>2, PublishFacts
<1>3. QED
  BY <1>1, <1>2, OriginFrame

\* register() of a file that was built from what the process's key names: its id is
\* in the manifest afterwards with the right parents, unless it is refused.
LEMMA RegisterFacts ==
    ASSUME IInv, NEW path \in Path, NEW type \in ArtifactType, Current \in StageName,
           Exists(path), files[path] \in Built,
           origin[files[path]] = Source(type, proc.key),
           RegisterFile(path, type, Current, proc.key.inputs),
           origin' = origin
    PROVE  /\ MakeId(type, files[path]) \in Id
           /\ BuiltUnder(MakeId(type, files[path]), proc.key)
           /\ ManifestSound' /\ clock' \in Nat /\ Registered \subseteq Registered'
           /\ RegisterReply(path, type, proc.key.inputs) \in {"existing", "added"}
                 => MakeId(type, files[path]) \in Registered'
<1> DEFINE id == MakeId(type, files[path])
           rec == [path |-> path, created |-> clock, stage |-> Current,
                   parents |-> proc.key.inputs]
<1>1. /\ TypeOf(id) = type /\ Sha(id) = files[path]
      /\ id \in Id /\ BuiltUnder(id, proc.key)
  BY DEF IInv, OriginSound, Id, MakeId, TypeOf, Sha, BuiltUnder
<1>2. rec \in Record /\ rec.parents = origin[Sha(id)].inputs
  BY <1>1 DEF IInv, ProcTyped, ScalarsTyped, Record, Source
<1>3. CASE RegisterReply(path, type, proc.key.inputs) = "added"
  <2>1. artifacts' = Bind(artifacts, id, rec) /\ clock' = clock + 1
    BY <1>3 DEF RegisterFile
  <2> HIDE DEF id, rec
  <2>2. Registered' = Registered \cup {id}
    BY <2>1 DEF Bind, Registered
  <2>3. \A i \in Registered' : artifacts'[i] = IF i = id THEN rec ELSE artifacts[i]
    BY <2>1 DEF Bind, Registered
  <2>4. ManifestSound'
    BY <1>1, <1>2, <2>2, <2>3 DEF IInv, ManifestSound, Registered, Built, BuiltUnder
  <2>5. clock' \in Nat
    BY <2>1 DEF IInv, ScalarsTyped
  <2>6. QED
    BY <1>1, <2>2, <2>4, <2>5 DEF id
<1>4. CASE RegisterReply(path, type, proc.key.inputs) # "added"
  <2>1. UNCHANGED <<artifacts, clock>>
    BY <1>4 DEF RegisterFile
  <2>2. ManifestSound' /\ clock' \in Nat /\ Registered' = Registered
    BY <2>1 DEF IInv, ManifestSound, ScalarsTyped, Registered, Built
  <2>3. RegisterReply(path, type, proc.key.inputs) = "existing" => id \in Registered
    BY DEF RegisterReply, IdsAt
  <2>4. QED
    BY <1>1, <1>4, <2>2, <2>3
<1>5. QED
  BY <1>3, <1>4

\* The cached artifact an adoption is at.
LEMMA CachedFacts ==
    ASSUME IInv, proc.pc \in {"adopt", "adopted"}
    PROVE  /\ cache[proc.key].items \in Seq([id : Id, path : Path])
           /\ Cached.id \in Id /\ Cached.path \in Path
           /\ TypeOf(Cached.id) \in ArtifactType
           /\ BuiltUnder(Cached.id, proc.key)
<1>1. /\ proc.key \in DOMAIN cache /\ proc.item \in DOMAIN cache[proc.key].items
      /\ EntrySound(proc.key, cache[proc.key])
  BY DEF IInv, ProcSound, CacheSound
<1>2. BuiltUnder(Cached.id, proc.key)
  BY <1>1 DEF EntrySound, Cached
<1>3. cache[proc.key].items \in Seq([id : Id, path : Path])
  BY <1>1 DEF EntrySound
<1>4. Cached \in [id : Id, path : Path]
  <2> DEFINE Item == [id : Id, path : Path]
  <2>1. ASSUME NEW items \in Seq(Item), NEW n \in DOMAIN items PROVE items[n] \in Item
    <3> HIDE DEF Item
    <3>1. QED
      BY <2>1
  <2>2. QED
    BY <1>1, <1>3, <2>1 DEF Cached
<1>5. QED
  BY <1>2, <1>3, <1>4 DEF Id, TypeOf

\* The two places that register: a copied cache entry, and a published output.
Registers(id, items, again, label) ==
    /\ id \in Registered' /\ stageRec' = stageRec
    /\ proc' = [proc EXCEPT !.ids = Append(@, id), !.path = {}, !.item = @ + 1,
                            !.pc = IF proc.item < Len(items) THEN again ELSE label]

RegisterOutcome ==
    /\ ManifestSound' /\ clock' \in Nat /\ Registered \subseteq Registered'
    /\ UNCHANGED <<files, cache, origin, modelSha, runStatus, weights>>
    /\ \E id \in Id :
          /\ BuiltUnder(id, proc.key)
          /\ \/ proc.pc = "adopted" /\ Registers(id, cache[proc.key].items, "adopt", "cached")
             \/ proc.pc = "published" /\ Registers(id, Outputs[Current], "run", "store")
             \/ \E reason : Fail(reason)

LEMMA AdoptRegisterFacts == ASSUME IInv, AdoptRegister PROVE RegisterOutcome
<1> DEFINE type == TypeOf(Cached.id)
           id == MakeId(type, files[Cached.path])
<1>1. /\ Cached.path \in Path /\ type \in ArtifactType
      /\ BuiltUnder(Cached.id, proc.key)
  BY CachedFacts DEF AdoptRegister
<1>2. Exists(Cached.path) /\ files[Cached.path] = Sha(Cached.id)
  BY DEF IInv, ProcSound, AdoptRegister, Holds
<1>3. Current \in StageName
  BY DEF IInv, ProcSound, Busy, AdoptRegister
<1>4. files[Cached.path] \in Built /\ origin[files[Cached.path]] = Source(type, proc.key)
  BY <1>1, <1>2 DEF BuiltUnder
<1>5. /\ RegisterFile(Cached.path, type, Current, proc.key.inputs)
      /\ UNCHANGED <<files, modelSha, origin, faults>>
      /\ \/ /\ RegisterReply(Cached.path, type, proc.key.inputs) \in {"existing", "added"}
            /\ proc' = [proc EXCEPT !.ids = Append(@, id), !.path = {}, !.item = @ + 1,
                           !.pc = IF proc.item < Len(cache[proc.key].items)
                                  THEN "adopt" ELSE "cached"]
            /\ UNCHANGED <<runStatus, stageRec, cache, weights>>
         \/ Fail(RegisterReply(Cached.path, type, proc.key.inputs))
  BY DEF AdoptRegister, Registering
<1>6. /\ id \in Id /\ BuiltUnder(id, proc.key)
      /\ ManifestSound' /\ clock' \in Nat /\ Registered \subseteq Registered'
      /\ RegisterReply(Cached.path, type, proc.key.inputs) \in {"existing", "added"}
            => id \in Registered'
  <2> HIDE DEF type
  <2>1. QED
    BY <1>1, <1>2, <1>3, <1>4, <1>5, RegisterFacts
<1>7. UNCHANGED <<cache, runStatus, weights>>
  BY <1>5 DEF Fail
<1> HIDE DEF id, type
<1>8. QED
  BY <1>5, <1>6, <1>7 DEF RegisterOutcome, Registers, AdoptRegister

LEMMA RegisterItemFacts == ASSUME IInv, RegisterItem PROVE RegisterOutcome
<1> DEFINE type == Outputs[Current][proc.item]
<1>1. type \in ArtifactType /\ Current \in StageName
  BY OutputTyped DEF RegisterItem, IInv, ProcSound, Busy
<1>2. PICK path \in proc.path :
         Registering(path, Outputs[Current][proc.item], Outputs[Current], "run", "store")
  BY DEF RegisterItem
<1>3. /\ path \in Path /\ Exists(path) /\ files[path] \in Built
      /\ origin[files[path]] = Source(type, proc.key)
  BY DEF IInv, ProcTyped, ProcSound, RegisterItem
<1> DEFINE id == MakeId(type, files[path])
<1>4. /\ RegisterFile(path, type, Current, proc.key.inputs)
      /\ UNCHANGED <<files, modelSha, origin, faults>>
      /\ \/ /\ RegisterReply(path, type, proc.key.inputs) \in {"existing", "added"}
            /\ proc' = [proc EXCEPT !.ids = Append(@, id), !.path = {}, !.item = @ + 1,
                           !.pc = IF proc.item < Len(Outputs[Current])
                                  THEN "run" ELSE "store"]
            /\ UNCHANGED <<runStatus, stageRec, cache, weights>>
         \/ Fail(RegisterReply(path, type, proc.key.inputs))
  BY <1>2 DEF Registering
<1>5. /\ id \in Id /\ BuiltUnder(id, proc.key)
      /\ ManifestSound' /\ clock' \in Nat /\ Registered \subseteq Registered'
      /\ RegisterReply(path, type, proc.key.inputs) \in {"existing", "added"}
            => id \in Registered'
  <2> HIDE DEF type
  <2>1. QED
    BY <1>1, <1>3, <1>4, RegisterFacts
<1>6. UNCHANGED <<cache, runStatus, weights>>
  BY <1>4 DEF Fail
<1> HIDE DEF id, type
<1>7. QED
  BY <1>4, <1>5, <1>6 DEF RegisterOutcome, Registers, RegisterItem

-----------------------------------------------------------------------------
(* Each part of the invariant is preserved by every step *)

LEMMA FilesStep == IInv /\ [Next]_vars => FilesSound'
<1> SUFFICES ASSUME IInv, [Next]_vars PROVE FilesSound'
  OBVIOUS
<1>1. /\ Grows /\ DOMAIN files \subseteq Path
      /\ \A p \in DOMAIN files : files[p] \in {Torn} \cup Built
  BY OriginStep DEF IInv, FilesSound
<1>2. \A c \in {Torn} \cup Built : c \in {Torn} \cup Built'
  BY <1>1 DEF Grows
<1>3. CASE files' = files
  BY <1>1, <1>2, <1>3 DEF FilesSound
<1>4. ASSUME NEW path \in Path, NEW c \in {Torn} \cup Built', files' = Bind(files, path, c)
      PROVE  FilesSound'
  BY <1>1, <1>2, <1>4 DEF FilesSound, Bind
<1>5. CASE AdoptCopy
  <2>1. Cached.path \in Path /\ Sha(Cached.id) \in Built
    BY <1>5, CachedFacts DEF AdoptCopy, BuiltUnder
  <2>2. QED
    BY <1>1, <1>4, <1>5, <2>1 DEF AdoptCopy, Grows
<1>6. CASE AdoptTorn
  <2>1. Cached.path \in Path
    BY <1>6, CachedFacts DEF AdoptTorn
  <2>2. QED
    BY <1>4, <1>6, <2>1 DEF AdoptTorn
<1>7. CASE PublishItem
  BY <1>4, <1>7, PublishFacts
<1>8. CASE NewRun
  BY <1>8 DEF NewRun, FilesSound
<1>9. CASE \E path \in DOMAIN files : Tamper(path) \/ Delete(path)
  <2>1. PICK path \in DOMAIN files : Tamper(path) \/ Delete(path)
    BY <1>9
  <2>2. CASE Tamper(path)
    BY <1>1, <1>4, <2>2 DEF Tamper
  <2>3. CASE Delete(path)
    <3>1. files' = Unbind(files, path)
      BY <2>3 DEF Delete
    <3>2. QED
      BY <1>1, <1>2, <3>1 DEF FilesSound, Unbind
  <2>4. QED
    BY <2>1, <2>2, <2>3
<1>10. QED
  BY <1>3, <1>5, <1>6, <1>7, <1>8, <1>9, FilesFrame DEF FilesChange

LEMMA ManifestStep ==
    IInv /\ [Next]_vars =>
       /\ ManifestSound' /\ clock' \in Nat
       /\ NewRun \/ Registered \subseteq Registered'
<1> SUFFICES ASSUME IInv, [Next]_vars
             PROVE  /\ ManifestSound' /\ clock' \in Nat
                    /\ NewRun \/ Registered \subseteq Registered'
  OBVIOUS
<1>1. CASE UNCHANGED <<artifacts, clock>>
  <2>1. Grows /\ ManifestSound /\ clock \in Nat
    BY OriginStep DEF IInv, ScalarsTyped
  <2>2. ManifestSound'
    BY <1>1, <2>1 DEF ManifestSound, Grows, Registered
  <2>3. QED
    BY <1>1, <2>1, <2>2 DEF Registered
<1>2. CASE AdoptRegister \/ RegisterItem
  BY <1>2, AdoptRegisterFacts, RegisterItemFacts DEF RegisterOutcome
<1>3. CASE NewRun
  BY <1>3 DEF NewRun, ManifestSound, Registered, IInv, ScalarsTyped
<1>4. QED
  BY <1>1, <1>2, <1>3, ManifestFrame

\* An entry that was sound stays sound.
LEMMA EntryStays ==
    ASSUME Grows, NEW key, NEW entry, EntrySound(key, entry)
    PROVE  EntrySound(key, entry)'
BY DEF EntrySound, BuiltUnder, Grows

\* What a stage is about to store is sound under its key.
LEMMA StoredIsSound ==
    ASSUME IInv, proc.pc = "store",
           NEW items, items = [n \in DOMAIN proc.ids |->
                        [id |-> proc.ids[n], path |-> artifacts[proc.ids[n]].path]]
    PROVE  EntrySound(proc.key, [items |-> items, damaged |-> FALSE])
<1>1. /\ proc.ids \in Seq(Id) /\ proc.ids # << >>
      /\ \A n \in DOMAIN proc.ids : /\ proc.ids[n] \in Registered
                                    /\ BuiltUnder(proc.ids[n], proc.key)
  BY DEF IInv, ProcTyped, ProcSound, Range
<1>2. \A n \in DOMAIN proc.ids : artifacts[proc.ids[n]] \in Record /\ proc.ids[n] \in Id
  BY <1>1 DEF IInv, ManifestSound, Registered
<1>3. \A i \in Registered : artifacts[i] \in Record => artifacts[i].path \in Path
  BY DEF Record
<1>4. \A n \in DOMAIN proc.ids :
         [id |-> proc.ids[n], path |-> artifacts[proc.ids[n]].path] \in [id : Id, path : Path]
  BY <1>1, <1>2, <1>3
<1>5. DOMAIN proc.ids = 1 .. Len(proc.ids) /\ Len(proc.ids) \in Nat \ {0}
  BY <1>1
<1>6. items \in Seq([id : Id, path : Path]) /\ items # << >>
  <2> DEFINE Item == [id : Id, path : Path]
  <2>1. items \in [1 .. Len(proc.ids) -> Item] /\ items # << >>
    BY <1>4, <1>5
  <2> HIDE DEF Item
  <2>2. QED
    <3>1. items \in Seq(Item)
      BY <1>5, <2>1
    <3>2. QED
      BY <2>1, <3>1 DEF Item
<1>7. \A n \in DOMAIN items : BuiltUnder(items[n].id, proc.key)
  BY <1>1
<1>8. QED
  BY <1>6, <1>7 DEF EntrySound

LEMMA CacheStep == IInv /\ [Next]_vars => CacheSound'
<1> SUFFICES ASSUME IInv, [Next]_vars PROVE CacheSound'
  OBVIOUS
<1>1. Grows /\ \A k \in DOMAIN cache : EntrySound(k, cache[k])
  BY OriginStep DEF IInv, CacheSound
<1>2. \A k, entry : EntrySound(k, entry) => EntrySound(k, entry)'
  BY <1>1, EntryStays
<1>3. CASE cache' = cache
  BY <1>1, <1>2, <1>3 DEF CacheSound
<1>4. CASE StoreInCache
  <2> DEFINE items == [n \in DOMAIN proc.ids |->
                          [id |-> proc.ids[n], path |-> artifacts[proc.ids[n]].path]]
             entry == [items |-> items, damaged |-> FALSE]
  <2>1. proc.pc = "store"
    BY <1>4 DEF StoreInCache
  <2>2. EntrySound(proc.key, entry)
    <3>1. items = [n \in DOMAIN proc.ids |->
                     [id |-> proc.ids[n], path |-> artifacts[proc.ids[n]].path]]
      OBVIOUS
    <3> HIDE DEF items
    <3>2. QED
      BY <2>1, <3>1, StoredIsSound
  <2>3. cache' = cache \/ cache' = Bind(cache, proc.key, entry)
    BY <1>4 DEF StoreInCache
  <2> HIDE DEF entry
  <2>4. QED
    BY <1>1, <1>2, <1>3, <2>2, <2>3 DEF CacheSound, Bind
<1>5. CASE \E key \in DOMAIN cache : DamageCache(key)
  <2>1. PICK key \in DOMAIN cache : cache' = [cache EXCEPT ![key].damaged = TRUE]
    BY <1>5 DEF DamageCache
  <2> DEFINE entry == [cache[key] EXCEPT !.damaged = TRUE]
  <2>2. EntrySound(key, entry)
    BY <1>1, <2>1 DEF EntrySound
  <2>3. DOMAIN cache' = DOMAIN cache /\ \A k \in DOMAIN cache :
           cache'[k] = IF k = key THEN entry ELSE cache[k]
    BY <2>1
  <2> HIDE DEF entry
  <2>4. QED
    BY <1>1, <1>2, <2>2, <2>3 DEF CacheSound
<1>6. QED
  BY <1>3, <1>4, <1>5, CacheFrame

\* The key of a stage is typed, and loading a model gives a hash.
LEMMA KeyTyped ==
    ASSUME IInv, NEW s \in StageName, NEW w \in Hash
    PROVE  /\ KeyOf(s, w).inputs \subseteq Id /\ KeyOf(s, w).weights \in Hash
           /\ KeyOf(s, w).stage \in StageName \cup {NoKey.stage}
           /\ \A users : LoadBy(users, s) \in Hash
<1>1. Inputs(s) \subseteq Registered
  BY DEF Inputs, Latest, Records
<1>2. QED
  BY <1>1 DEF IInv, ManifestSound, Registered, KeyOf, LoadBy, ProcTyped, ScalarsTyped, Hash

LEMMA ScalarsStep == IInv /\ [Next]_vars => ScalarsTyped'
<1> SUFFICES ASSUME IInv, [Next]_vars PROVE ScalarsTyped'
  OBVIOUS
<1>1. /\ clock' \in Nat /\ modelSha \in Hash /\ weights \in Weights
      /\ runStatus \in {"created", "running", "succeeded", "failed"}
      /\ \A w \in Weights : w \in Hash
      /\ NoWeights \in Hash
  BY ManifestStep DEF IInv, ScalarsTyped, Hash
<1>2. runStatus' \in {"created", "running", "succeeded", "failed"}
  <2>1. ASSUME Step PROVE runStatus' \in {"created", "running", "succeeded", "failed"}
    <3>1. CASE AdoptRegister \/ RegisterItem
      BY <1>1, <3>1, AdoptRegisterFacts, RegisterItemFacts DEF RegisterOutcome
    <3>2. QED
      BY <1>1, <2>1, <3>1 DEF Step, SkipStage, FailInputs, Fail, ReuseOwn, BeginAdopt,
         BeginRun, RunUnder, AdoptMiss, Finish, AdoptCopy, PublishItem, ComparisonFails,
         StoreInCache, Succeed, FailRun
  <2>2. ASSUME Fault PROVE runStatus' \in {"created", "running", "succeeded", "failed"}
    BY <1>1, <2>2 DEF Fault, AdoptTorn, StageFails, Fail, Crash, Tamper, Delete, DamageCache
  <2>3. QED
    BY <1>1, <2>1, <2>2 DEF Next, Start, NewRun, EditWeights, RevertWeights, vars
<1>3. weights' \in Weights
  <2>1. ASSUME Step PROVE weights' \in Weights
    <3>1. CASE AdoptRegister \/ RegisterItem
      BY <1>1, <3>1, AdoptRegisterFacts, RegisterItemFacts DEF RegisterOutcome
    <3>2. QED
      BY <1>1, <2>1, <3>1 DEF Step, SkipStage, FailInputs, Fail, ReuseOwn, BeginAdopt,
         BeginRun, RunUnder, AdoptMiss, Finish, AdoptCopy, PublishItem, ComparisonFails,
         StoreInCache, Succeed, FailRun
  <2>2. ASSUME Fault PROVE weights' \in Weights
    BY <1>1, <2>2 DEF Fault, AdoptTorn, StageFails, Fail, Crash, Tamper, Delete, DamageCache
  <2>3. QED
    BY <1>1, <2>1, <2>2 DEF Next, Start, NewRun, EditWeights, RevertWeights, vars
<1>4. modelSha' \in Hash
  <2>1. ASSUME NEW loaded \in Hash, RecordModel(loaded) PROVE modelSha' \in Hash
    BY <1>1, <2>1 DEF RecordModel
  <2>2. ASSUME NEW s \in StageName, NEW users PROVE LoadBy(users, s) \in Hash
    BY <1>1, <2>2, KeyTyped
  <2>3. ASSUME Step PROVE modelSha' \in Hash
    <3>1. CASE AdoptRegister \/ RegisterItem
      BY <1>1, <3>1, AdoptRegisterFacts, RegisterItemFacts DEF RegisterOutcome
    <3>2. QED
      BY <1>1, <2>1, <2>2, <2>3, <3>1 DEF Step, SkipStage, FailInputs, Fail, ReuseOwn,
         BeginAdopt, BeginRun, RunUnder, AdoptMiss, Finish, AdoptCopy, PublishItem,
         ComparisonFails, StoreInCache, Succeed, FailRun
  <2>4. ASSUME Fault PROVE modelSha' \in Hash
    BY <1>1, <2>4 DEF Fault, AdoptTorn, StageFails, Fail, Crash, Tamper, Delete, DamageCache
  <2>5. QED
    BY <1>1, <2>3, <2>4 DEF Next, Start, NewRun, EditWeights, RevertWeights, vars
<1>5. QED
  BY <1>1, <1>2, <1>3, <1>4 DEF ScalarsTyped

(* The stage records and the process, which change together *)

Work == RecordsSound /\ ProcTyped /\ ProcSound

\* A process between stages, or between invocations, holds nothing.
LEMMA RestingSound ==
    ASSUME DOMAIN proc' = Field, proc'.pc \in {"idle", "stage"}, proc'.loaded \in Hash,
           proc'.key = NoKey, proc'.item = 1, proc'.ids = << >>, proc'.path = {}
    PROVE  ProcTyped' /\ ProcSound'
<1>1. NoKey.inputs = {} /\ NoKey.weights \in Hash
  BY DEF NoKey, Hash
<1>2. ProcTyped'
  BY <1>1 DEF ProcTyped
<1>3. Range(<< >>) = {}
  BY DEF Range
<1>4. ProcSound'
  BY <1>3 DEF ProcSound, Busy
<1>5. QED
  BY <1>2, <1>4

LEMMA IdleSound ==
    ASSUME NEW a, NEW b, NEW pc \in {"idle", "stage"},
           proc' = [IdleProc(a, b) EXCEPT !.pc = pc] \/ proc' = IdleProc(a, b)
    PROVE  ProcTyped' /\ ProcSound'
<1>1. /\ DOMAIN proc' = Field /\ proc'.pc \in {"idle", "stage"} /\ proc'.loaded = NoWeights
      /\ proc'.key = NoKey /\ proc'.item = 1 /\ proc'.ids = << >> /\ proc'.path = {}
  BY DEF IdleProc, Field
<1>2. NoWeights \in Hash
  BY DEF Hash
<1>3. QED
  BY <1>1, <1>2, RestingSound

LEMMA NextStageSound ==
    ASSUME ProcTyped, NEW loaded \in Hash,
           proc' = NextStage \/ proc' = [NextStage EXCEPT !.loaded = loaded]
    PROVE  ProcTyped' /\ ProcSound'
<1>1. DOMAIN proc = Field /\ proc.loaded \in Hash
  BY DEF ProcTyped
<1>2. /\ DOMAIN proc' = Field /\ proc'.pc = "stage" /\ proc'.loaded \in Hash
      /\ proc'.key = NoKey /\ proc'.item = 1 /\ proc'.ids = << >> /\ proc'.path = {}
  BY <1>1 DEF NextStage, Field
<1>3. QED
  BY <1>2, RestingSound

\* A record stays sound while contents are only added and nothing is unregistered.
LEMMA RecordStays ==
    ASSUME Grows, Registered \subseteq Registered', NEW s, NEW rec, RecSound(s, rec)
    PROVE  RecSound(s, rec)'
BY DEF RecSound, BuiltUnder, Grows

LEMMA RecordsKept ==
    ASSUME RecordsSound, Grows, Registered \subseteq Registered', stageRec' = stageRec
    PROVE  RecordsSound'
BY RecordStays DEF RecordsSound

\* One stage's record is replaced.
LEMMA RecordSet ==
    ASSUME RecordsSound, Grows, Registered \subseteq Registered',
           NEW s \in StageName, NEW rec, RecSound(s, rec),
           stageRec' = [stageRec EXCEPT ![s] = rec]
    PROVE  RecordsSound'
<1>1. /\ DOMAIN stageRec' = StageName
      /\ \A other \in StageName :
            stageRec'[other] = IF other = s THEN rec ELSE stageRec[other]
  BY DEF RecordsSound
<1>2. \A other \in StageName : RecSound(other, stageRec'[other])
  BY <1>1 DEF RecordsSound
<1>3. QED
  BY <1>1, <1>2, RecordStays DEF RecordsSound

\* A failing stage keeps its record's key and ids, and the process what it holds.
LEMMA FailSound ==
    ASSUME IInv, Grows, Registered \subseteq Registered', Current \in StageName,
           NEW reason, Fail(reason)
    PROVE  Work'
<1> DEFINE rec == [status |-> "failed", key |-> stageRec[Current].key,
                   ids |-> stageRec[Current].ids]
<1>1. stageRec' = [stageRec EXCEPT ![Current] = rec]
  BY DEF Fail, SetStage
<1>2. RecSound(Current, rec)
  BY DEF IInv, RecordsSound, RecSound, Done
<1> HIDE DEF rec
<1>3. RecordsSound'
  BY <1>1, <1>2, RecordSet DEF IInv
<1>4. /\ DOMAIN proc' = Field /\ proc'.pc = "failing" /\ proc'.loaded = proc.loaded
      /\ proc'.key = proc.key /\ proc'.item = proc.item /\ proc'.ids = proc.ids
      /\ proc'.path = proc.path
  BY DEF Fail, IInv, ProcTyped, Field
<1>5. ProcTyped'
  BY <1>4 DEF IInv, ProcTyped
<1>6. \A id \in Range(proc.ids) : BuiltUnder(id, proc.key) /\ id \in Registered
  BY DEF IInv, ProcSound
<1>7. ProcSound'
  BY <1>4, <1>6 DEF ProcSound, Busy, BuiltUnder, Grows
<1>8. QED
  BY <1>3, <1>5, <1>7 DEF Work

\* A stage that starts to run keeps its old ids under its new key, as not done.
LEMMA RunUnderSound ==
    ASSUME IInv, Grows, Registered \subseteq Registered',
           NEW s \in StageName \ Skipped, s = Current,
           NEW key, key.inputs \subseteq Id, key.weights \in Hash,
           key.stage \in StageName \cup {NoKey.stage}, NEW loaded \in Hash,
           RunUnder(s, key, loaded)
    PROVE  Work'
<1> DEFINE rec == [stageRec[s] EXCEPT !.status = "running", !.key = key]
<1>1. stageRec' = [stageRec EXCEPT ![s] = rec]
  BY DEF RunUnder, IInv, RecordsSound
<1>2. RecSound(s, rec)
  BY DEF IInv, RecordsSound, RecSound, Done
<1> HIDE DEF rec
<1>3. RecordsSound'
  BY <1>1, <1>2, RecordSet DEF IInv
<1>4. /\ DOMAIN proc' = Field /\ proc'.pc = "run" /\ proc'.loaded = loaded
      /\ proc'.key = key /\ proc'.item = 1 /\ proc'.ids = << >>
      /\ proc'.path = {} /\ proc'.cur = proc.cur
  BY DEF RunUnder, IInv, ProcTyped, Field
<1>5. ProcTyped'
  BY <1>4 DEF ProcTyped
<1>6. 1 \in DOMAIN Outputs[Current]
  BY PipelineAssumption
<1>7. Range(<< >>) = {}
  BY DEF Range
<1>8. Current' = Current
  BY <1>4 DEF Current
<1>9. ProcSound'
  BY <1>4, <1>6, <1>7, <1>8 DEF ProcSound, Busy
<1>10. QED
  BY <1>3, <1>5, <1>9 DEF Work

\* The facts every action but NewRun has: contents and records are only added.
Adds == Grows /\ Registered \subseteq Registered'

LEMMA SkipSound ==
    ASSUME IInv, Adds, NEW s \in StageName, SkipStage(s) PROVE Work'
<1> DEFINE rec == [status |-> "skipped", key |-> stageRec[s].key, ids |-> stageRec[s].ids]
<1>1. stageRec' = [stageRec EXCEPT ![s] = rec] /\ proc' = NextStage /\ s \in Skipped
  BY DEF SkipStage, SetStage
<1>2. stageRec[s].ids = << >> /\ Range(<< >>) = {}
  BY <1>1 DEF IInv, RecordsSound, RecSound, Range
<1>3. RecSound(s, rec)
  BY <1>2 DEF RecSound, Done
<1> HIDE DEF rec
<1>4. RecordsSound'
  BY <1>1, <1>3, RecordSet DEF IInv, Adds
<1>5. NoWeights \in Hash
  BY DEF Hash
<1>6. QED
  BY <1>1, <1>4, <1>5, NextStageSound DEF IInv, Work

LEMMA ReuseSound ==
    ASSUME IInv, Adds, NEW s \in StageName, ReuseOwn(s) PROVE Work'
<1> DEFINE loaded == LoadBy(DependsOnModel, s)
           key == KeyOf(s, loaded)
           rec == [status |-> "skipped", key |-> key, ids |-> stageRec[s].ids]
<1>1. /\ UpToDate(s, key)
      /\ stageRec' = [stageRec EXCEPT ![s] = rec]
      /\ proc' = [NextStage EXCEPT !.loaded = loaded]
      /\ s \notin Skipped
  BY DEF ReuseOwn, SetStage, InputsReady
<1>2. loaded \in Hash
  BY KeyTyped DEF IInv, ProcTyped
<1> HIDE DEF key, loaded
<1>3. RecSound(s, rec)
  BY <1>1 DEF UpToDate, IInv, RecordsSound, RecSound, Done
<1> HIDE DEF rec
<1>4. RecordsSound'
  BY <1>1, <1>3, RecordSet DEF IInv, Adds
<1>5. QED
  BY <1>1, <1>2, <1>4, NextStageSound DEF IInv, Work

LEMMA BeginAdoptSound ==
    ASSUME IInv, Adds, NEW s \in StageName, BeginAdopt(s) PROVE Work'
<1> DEFINE loaded == LoadBy(DependsOnModel, s)
           key == KeyOf(s, loaded)
<1>1. /\ CacheHit(s, key) /\ UNCHANGED <<stageRec, cache>>
      /\ proc' = [proc EXCEPT !.pc = "adopt", !.key = key, !.loaded = loaded]
      /\ s \notin Skipped /\ s = Current /\ proc.pc = "stage"
  BY DEF BeginAdopt, InputsReady, Entering
<1>2. loaded \in Hash
  BY KeyTyped DEF IInv, ProcTyped
<1>3. /\ key.inputs \subseteq Id /\ key.weights \in Hash
      /\ key.stage \in StageName \cup {NoKey.stage}
  BY <1>2, KeyTyped
<1> HIDE DEF key, loaded
<1>4. /\ DOMAIN proc' = Field /\ proc'.pc = "adopt" /\ proc'.loaded = loaded
      /\ proc'.key = key /\ proc'.item = 1 /\ proc'.ids = << >>
      /\ proc'.path = proc.path /\ proc'.cur = proc.cur
  BY <1>1 DEF IInv, ProcTyped, ProcSound, Field
<1>5. ProcTyped'
  BY <1>2, <1>3, <1>4 DEF IInv, ProcTyped
<1>6. key \in DOMAIN cache /\ EntrySound(key, cache[key])
  BY <1>1 DEF CacheHit, IInv, CacheSound
<1>7. 1 \in DOMAIN cache[key].items
  <2>1. ASSUME NEW T, NEW items \in Seq(T), items # << >> PROVE 1 \in DOMAIN items
    BY <2>1
  <2>2. QED
    BY <1>6, <2>1 DEF EntrySound
<1>8. Range(<< >>) = {} /\ Current' = Current
  BY <1>4 DEF Range, Current
<1>9. ProcSound'
  BY <1>1, <1>4, <1>6, <1>7, <1>8 DEF ProcSound, Busy
<1>10. RecordsSound'
  BY <1>1, RecordsKept DEF IInv, Adds
<1>11. QED
  BY <1>5, <1>9, <1>10 DEF Work

LEMMA FinishSound ==
    ASSUME IInv, Adds, NEW s \in StageName, Finish(s) PROVE Work'
<1> DEFINE rec == [status |-> proc.pc, key |-> proc.key, ids |-> proc.ids]
<1>1. /\ proc.pc \in {"succeeded", "cached"} /\ s = Current
      /\ stageRec' = [stageRec EXCEPT ![s] = rec] /\ proc' = NextStage
  BY DEF Finish, SetStage
<1>2. s \notin Skipped
  BY <1>1 DEF IInv, ProcSound, Busy
<1>3. RecSound(s, rec)
  BY <1>1, <1>2 DEF IInv, ProcSound, RecSound, Done
<1> HIDE DEF rec
<1>4. RecordsSound'
  BY <1>1, <1>3, RecordSet DEF IInv, Adds
<1>5. NoWeights \in Hash
  BY DEF Hash
<1>6. QED
  BY <1>1, <1>4, <1>5, NextStageSound DEF IInv, Work

LEMMA CopySound == ASSUME IInv, Adds, AdoptCopy PROVE Work'
<1>1. /\ proc.pc = "adopt" /\ UNCHANGED <<stageRec, cache>>
      /\ files' = Bind(files, Cached.path, Sha(Cached.id))
      /\ proc' = [proc EXCEPT !.pc = "adopted"]
  BY DEF AdoptCopy
<1>2. /\ DOMAIN proc' = Field /\ proc'.pc = "adopted" /\ proc'.loaded = proc.loaded
      /\ proc'.key = proc.key /\ proc'.item = proc.item /\ proc'.ids = proc.ids
      /\ proc'.path = proc.path /\ proc'.cur = proc.cur
  BY <1>1 DEF IInv, ProcTyped, Field
<1>3. ProcTyped'
  BY <1>2 DEF IInv, ProcTyped
<1>4. Cached' = Cached /\ Current' = Current
  BY <1>1, <1>2 DEF Cached, Current
<1>5. Holds(Cached.path, Sha(Cached.id))'
  <2>1. ASSUME NEW path, NEW c, files' = Bind(files, path, c)
        PROVE  path \in DOMAIN files' /\ files'[path] = c
    BY <2>1 DEF Bind
  <2>2. QED
    BY <1>1, <1>4, <2>1 DEF Holds, Exists
<1>6. \A id \in Range(proc.ids) : BuiltUnder(id, proc.key) /\ id \in Registered
  BY DEF IInv, ProcSound
<1>7. /\ Current \in StageName \ Skipped
      /\ proc.key \in DOMAIN cache /\ proc.item \in DOMAIN cache[proc.key].items
  BY <1>1 DEF IInv, ProcSound, Busy
<1>8. ProcSound'
  BY <1>1, <1>2, <1>4, <1>5, <1>6, <1>7 DEF ProcSound, Busy, BuiltUnder, Adds, Grows
<1>9. RecordsSound'
  BY <1>1, RecordsKept DEF IInv, Adds
<1>10. QED
  BY <1>3, <1>8, <1>9 DEF Work

\* The ids a process has gathered, with one more.
LEMMA GatheredGrows ==
    ASSUME IInv, Adds, NEW id \in Id, id \in Registered', BuiltUnder(id, proc.key),
           proc'.key = proc.key, proc'.ids = Append(proc.ids, id)
    PROVE  /\ proc'.ids \in Seq(Id) /\ proc'.ids # << >>
           /\ Range(proc'.ids) \subseteq Registered'
           /\ \A i \in Range(proc'.ids) : BuiltUnder(i, proc.key)'
<1>1. proc.ids \in Seq(Id)
  BY DEF IInv, ProcTyped
<1>2. proc'.ids \in Seq(Id) /\ proc'.ids # << >>
  BY <1>1
<1>3. \A i \in Range(proc'.ids) : i \in Range(proc.ids) \/ i = id
  BY <1>1 DEF Range
<1>4. \A i \in Range(proc.ids) : BuiltUnder(i, proc.key) /\ i \in Registered
  BY DEF IInv, ProcSound
<1>5. QED
  BY <1>2, <1>3, <1>4 DEF BuiltUnder, Adds, Grows

LEMMA RegisterSound ==
    ASSUME IInv, Adds, AdoptRegister \/ RegisterItem PROVE Work'
<1>1. RegisterOutcome
  BY AdoptRegisterFacts, RegisterItemFacts
<1>2. /\ Current \in StageName \ Skipped /\ proc.pc \in {"adopted", "published"}
      /\ proc.item \in Nat
  BY DEF AdoptRegister, RegisterItem, IInv, ProcSound, ProcTyped, Busy
<1>3. PICK id \in Id :
         /\ BuiltUnder(id, proc.key)
         /\ \/ proc.pc = "adopted" /\ Registers(id, cache[proc.key].items, "adopt", "cached")
            \/ proc.pc = "published" /\ Registers(id, Outputs[Current], "run", "store")
            \/ \E reason : Fail(reason)
  BY <1>1 DEF RegisterOutcome
<1>4. CASE \E reason : Fail(reason)
  BY <1>2, <1>4, FailSound DEF Adds
<1>5. ASSUME NEW items, NEW again \in {"adopt", "run"}, NEW label \in {"cached", "store"},
             Registers(id, items, again, label)
      PROVE  /\ RecordsSound' /\ ProcTyped' /\ Current' = Current
             /\ proc'.pc = (IF proc.item < Len(items) THEN again ELSE label)
             /\ proc'.item = proc.item + 1 /\ proc'.key = proc.key
             /\ proc'.ids # << >> /\ Range(proc'.ids) \subseteq Registered'
             /\ \A i \in Range(proc'.ids) : BuiltUnder(i, proc.key)'
  <2>1. /\ id \in Registered' /\ stageRec' = stageRec
        /\ DOMAIN proc' = Field /\ proc'.loaded = proc.loaded /\ proc'.key = proc.key
        /\ proc'.pc = (IF proc.item < Len(items) THEN again ELSE label)
        /\ proc'.item = proc.item + 1 /\ proc'.ids = Append(proc.ids, id)
        /\ proc'.path = {} /\ proc'.cur = proc.cur
    BY <1>5 DEF Registers, IInv, ProcTyped, Field
  <2>2. /\ proc'.ids \in Seq(Id) /\ proc'.ids # << >>
        /\ Range(proc'.ids) \subseteq Registered'
        /\ \A i \in Range(proc'.ids) : BuiltUnder(i, proc.key)'
    BY <1>3, <2>1, GatheredGrows
  <2>3. ProcTyped'
    BY <1>2, <2>1, <2>2 DEF IInv, ProcTyped
  <2>4. RecordsSound'
    BY <2>1, RecordsKept DEF IInv, Adds
  <2>5. Current' = Current
    BY <2>1 DEF Current
  <2>6. QED
    BY <2>1, <2>2, <2>3, <2>4, <2>5
<1>6. CASE proc.pc = "adopted" /\ Registers(id, cache[proc.key].items, "adopt", "cached")
  <2>1. /\ proc.key \in DOMAIN cache /\ proc.item \in DOMAIN cache[proc.key].items
        /\ cache[proc.key].items \in Seq([id : Id, path : Path])
    BY <1>6, CachedFacts DEF IInv, ProcSound
  <2>2. proc.item < Len(cache[proc.key].items) =>
           proc.item + 1 \in DOMAIN cache[proc.key].items
    <3>1. ASSUME NEW T, NEW items \in Seq(T), NEW n \in DOMAIN items, n < Len(items)
          PROVE  n + 1 \in DOMAIN items
      BY <3>1
    <3>2. QED
      BY <2>1, <3>1
  <2>3. cache' = cache
    BY <1>1 DEF RegisterOutcome
  <2>4. ProcSound'
    BY <1>2, <1>5, <1>6, <2>1, <2>2, <2>3 DEF ProcSound, Busy, BuiltUnder
  <2>5. QED
    BY <1>5, <1>6, <2>4 DEF Work
<1>7. CASE proc.pc = "published" /\ Registers(id, Outputs[Current], "run", "store")
  <2>1. proc.item \in DOMAIN Outputs[Current] /\ Outputs[Current] \in Seq(ArtifactType)
    BY <1>2, <1>7, PipelineAssumption DEF IInv, ProcSound
  <2>2. proc.item < Len(Outputs[Current]) => proc.item + 1 \in DOMAIN Outputs[Current]
    BY <2>1
  <2>3. ProcSound'
    BY <1>2, <1>5, <1>7, <2>1, <2>2 DEF ProcSound, Busy, BuiltUnder
  <2>4. QED
    BY <1>5, <1>7, <2>3 DEF Work
<1>8. QED
  BY <1>3, <1>4, <1>6, <1>7

LEMMA PublishSound == ASSUME IInv, Adds, PublishItem PROVE Work'
<1>1. proc.pc = "run" /\ stageRec' = stageRec
  BY DEF PublishItem
<1>2. PICK path \in Path, content \in Built' :
         /\ files' = Bind(files, path, content)
         /\ origin'[content] = Source(Outputs[Current][proc.item], proc.key)
         /\ proc' = [proc EXCEPT !.pc = "published", !.path = {path}]
  BY PublishFacts
<1>3. /\ DOMAIN proc' = Field /\ proc'.pc = "published" /\ proc'.loaded = proc.loaded
      /\ proc'.key = proc.key /\ proc'.item = proc.item /\ proc'.ids = proc.ids
      /\ proc'.path = {path} /\ proc'.cur = proc.cur
  BY <1>2 DEF IInv, ProcTyped, Field
<1>4. ProcTyped'
  BY <1>3 DEF IInv, ProcTyped
<1>5. Current' = Current
  BY <1>3 DEF Current
<1>6. path \in DOMAIN files' /\ files'[path] = content
  BY <1>2 DEF Bind
<1>7. /\ Current \in StageName \ Skipped /\ proc.item \in DOMAIN Outputs[Current]
      /\ \A id \in Range(proc.ids) : BuiltUnder(id, proc.key) /\ id \in Registered
  BY <1>1 DEF IInv, ProcSound, Busy
<1>8. ProcSound'
  BY <1>2, <1>3, <1>5, <1>6, <1>7 DEF ProcSound, Busy, BuiltUnder, Adds, Grows, Exists
<1>9. RecordsSound'
  BY <1>1, RecordsKept DEF IInv, Adds
<1>10. QED
  BY <1>4, <1>8, <1>9 DEF Work

LEMMA StoreSound == ASSUME IInv, Adds, StoreInCache PROVE Work'
<1>1. /\ proc.pc = "store" /\ stageRec' = stageRec
      /\ proc' = [proc EXCEPT !.pc = "succeeded"]
  BY DEF StoreInCache
<1>2. /\ DOMAIN proc' = Field /\ proc'.pc = "succeeded" /\ proc'.loaded = proc.loaded
      /\ proc'.key = proc.key /\ proc'.item = proc.item /\ proc'.ids = proc.ids
      /\ proc'.path = proc.path /\ proc'.cur = proc.cur
  BY <1>1 DEF IInv, ProcTyped, Field
<1>3. ProcTyped'
  BY <1>2 DEF IInv, ProcTyped
<1>4. Current' = Current
  BY <1>2 DEF Current
<1>5. /\ Current \in StageName \ Skipped
      /\ \A id \in Range(proc.ids) : BuiltUnder(id, proc.key) /\ id \in Registered
  BY <1>1 DEF IInv, ProcSound, Busy
<1>6. ProcSound'
  BY <1>2, <1>4, <1>5 DEF ProcSound, Busy, BuiltUnder, Adds, Grows
<1>7. RecordsSound'
  BY <1>1, RecordsKept DEF IInv, Adds
<1>8. QED
  BY <1>3, <1>6, <1>7 DEF Work

LEMMA StepSound == ASSUME IInv, Adds, Step PROVE Work'
<1>1. ASSUME NEW s \in StageName, FailInputs(s) PROVE Work'
  BY <1>1, FailSound DEF FailInputs, Entering, Adds
<1>2. ASSUME NEW s \in StageName, BeginRun(s) PROVE Work'
  <2> DEFINE key == KeyOf(s, LoadBy(DependsOnModel, s))
             loaded == LoadBy(LoadsModel, s)
  <2>1. s \in StageName \ Skipped /\ s = Current /\ RunUnder(s, key, loaded)
    BY <1>2 DEF BeginRun, InputsReady, Entering
  <2>2. proc.loaded \in Hash
    BY DEF IInv, ProcTyped
  <2>3. LoadBy(DependsOnModel, s) \in Hash /\ loaded \in Hash
    BY <2>2, KeyTyped
  <2>4. /\ key.inputs \subseteq Id /\ key.weights \in Hash
        /\ key.stage \in StageName \cup {NoKey.stage}
    BY <2>3, KeyTyped
  <2> HIDE DEF key, loaded
  <2>5. QED
    BY <2>1, <2>3, <2>4, RunUnderSound DEF Adds
<1>3. ASSUME NEW s \in StageName, AdoptMiss(s) PROVE Work'
  <2> DEFINE loaded == LoadBy(LoadsModel, s)
  <2>1. s \in StageName \ Skipped /\ s = Current /\ RunUnder(s, proc.key, loaded)
    BY <1>3 DEF AdoptMiss, IInv, ProcSound, Busy
  <2>2. /\ proc.loaded \in Hash
        /\ proc.key.inputs \subseteq Id /\ proc.key.weights \in Hash
        /\ proc.key.stage \in StageName \cup {NoKey.stage}
    BY DEF IInv, ProcTyped
  <2>3. loaded \in Hash
    BY <2>2, KeyTyped
  <2> HIDE DEF loaded
  <2>4. QED
    BY <2>1, <2>2, <2>3, RunUnderSound DEF Adds
<1>4. ASSUME ComparisonFails PROVE Work'
  <2>1. Current \in StageName /\ Fail("mismatch")
    BY <1>4 DEF ComparisonFails, IInv, ProcSound, Busy
  <2>2. QED
    BY <2>1, FailSound DEF Adds
<1>5. ASSUME Succeed \/ FailRun PROVE Work'
  <2>1. stageRec' = stageRec /\ proc' = IdleProc(proc.first, proc.last)
    BY <1>5 DEF Succeed, FailRun
  <2>2. ProcTyped' /\ ProcSound'
    BY <2>1, IdleSound
  <2>3. RecordsSound'
    BY <2>1, RecordsKept DEF IInv, Adds
  <2>4. QED
    BY <2>2, <2>3 DEF Work
<1>6. QED
  BY <1>1, <1>2, <1>3, <1>4, <1>5, SkipSound, ReuseSound, BeginAdoptSound, FinishSound,
     CopySound, RegisterSound, PublishSound, StoreSound DEF Step

LEMMA FaultSound == ASSUME IInv, Adds, Fault PROVE Work'
<1>1. ASSUME StageFails PROVE Work'
  <2>1. Current \in StageName /\ Fail("stage_error")
    BY <1>1 DEF StageFails, IInv, ProcSound, Busy
  <2>2. QED
    BY <2>1, FailSound DEF Adds
<1>2. ASSUME AdoptTorn \/ Crash PROVE Work'
  <2>1. stageRec' = stageRec /\ proc' = IdleProc(proc.first, proc.last)
    BY <1>2 DEF AdoptTorn, Crash
  <2>2. ProcTyped' /\ ProcSound'
    BY <2>1, IdleSound
  <2>3. RecordsSound'
    BY <2>1, RecordsKept DEF IInv, Adds
  <2>4. QED
    BY <2>2, <2>3 DEF Work
<1>3. ASSUME \/ \E path \in DOMAIN files : Tamper(path) \/ Delete(path)
             \/ \E key \in DOMAIN cache : DamageCache(key)
      PROVE  Work'
  <2>1. UNCHANGED <<stageRec, proc>> /\ proc.pc \in {"idle", "stage"}
    BY <1>3 DEF Tamper, Delete, DamageCache, Outside
  <2>2. ProcTyped /\ Range(<< >>) = {} /\ proc.ids = << >> /\ proc.item = 1
    BY <2>1 DEF IInv, ProcSound, Range
  <2>3. ProcTyped' /\ ProcSound'
    BY <2>1, <2>2 DEF ProcTyped, ProcSound, Busy
  <2>4. RecordsSound'
    BY <2>1, RecordsKept DEF IInv, Adds
  <2>5. QED
    BY <2>3, <2>4 DEF Work
<1>4. QED
  BY <1>1, <1>2, <1>3 DEF Fault

LEMMA WorkStep == IInv /\ [Next]_vars => Work'
<1> SUFFICES ASSUME IInv, [Next]_vars PROVE Work'
  OBVIOUS
<1>1. Adds \/ NewRun
  BY OriginStep, ManifestStep DEF Adds
<1>2. ASSUME NEW first, NEW last, Start(first, last) PROVE Work'
  <2>1. stageRec' = stageRec /\ proc' = [IdleProc(first, last) EXCEPT !.pc = "stage"]
    BY <1>2 DEF Start
  <2>2. ProcTyped' /\ ProcSound'
    BY <2>1, IdleSound
  <2>3. Adds
    BY <1>2, OriginStep DEF Start, store, Adds, Registered
  <2>4. RecordsSound'
    BY <2>1, <2>3, RecordsKept DEF IInv, Adds
  <2>5. QED
    BY <2>2, <2>4 DEF Work
<1>3. ASSUME NewRun PROVE Work'
  <2>1. /\ proc' = proc /\ proc.pc = "idle"
        /\ stageRec' = [s \in StageName |->
                           [status |-> "pending", key |-> NoKey, ids |-> << >>]]
    BY <1>3 DEF NewRun
  <2>2. ProcTyped /\ Range(<< >>) = {} /\ proc.ids = << >> /\ proc.item = 1
    BY <2>1 DEF IInv, ProcSound, Range
  <2>3. ProcTyped' /\ ProcSound'
    BY <2>1, <2>2 DEF ProcTyped, ProcSound, Busy
  <2>4. RecordsSound'
    BY <2>1, <2>2 DEF RecordsSound, RecSound, Done
  <2>5. QED
    BY <2>3, <2>4 DEF Work
<1>4. ASSUME UNCHANGED <<store, stageRec, cache, origin, proc>> PROVE Work'
  <2>1. UNCHANGED <<files, artifacts, stageRec, cache, origin, proc>>
    BY <1>4 DEF store
  <2>2. RecordsSound /\ ProcTyped /\ ProcSound
    BY DEF IInv
  <2>3. RecordsSound'
    BY <2>1, <2>2 DEF RecordsSound, RecSound, BuiltUnder, Built, Registered
  <2>4. ProcTyped' /\ ProcSound'
    BY <2>1, <2>2 DEF ProcTyped, ProcSound, BuiltUnder, Built, Registered, Current, Cached,
       Holds, Exists
  <2>5. QED
    BY <2>3, <2>4 DEF Work
<1>5. CASE Step \/ Fault
  BY <1>1, <1>3, <1>5, StepSound, FaultSound
<1>6. QED
  BY <1>2, <1>3, <1>4, <1>5 DEF Next, EditWeights, RevertWeights, vars

-----------------------------------------------------------------------------
(* The theorems *)

LEMMA InitInv == Init => IInv
<1> SUFFICES ASSUME Init PROVE IInv
  OBVIOUS
<1>1. /\ origin = << >> /\ DOMAIN files = {} /\ DOMAIN artifacts = {} /\ DOMAIN cache = {}
      /\ clock = 0 /\ runStatus = "created" /\ modelSha = NoWeights /\ weights \in Weights
      /\ proc = IdleProc(1, Len(Order))
      /\ stageRec = [s \in StageName |-> [status |-> "pending", key |-> NoKey, ids |-> << >>]]
  BY DEF Init
<1>2. Range(<< >>) = {} /\ NoWeights \in Hash
  BY DEF Range, Hash
<1>3. OriginSound
  BY <1>1 DEF OriginSound, Built
<1>4. FilesSound /\ ManifestSound /\ CacheSound /\ ScalarsTyped
  BY <1>1, <1>2 DEF FilesSound, ManifestSound, CacheSound, ScalarsTyped, Registered
<1>5. RecordsSound
  BY <1>1, <1>2 DEF RecordsSound, RecSound, Done
<1>6. ProcTyped /\ ProcSound
  BY <1>1, <1>2 DEF ProcTyped, ProcSound, IdleProc, NoKey, Field, Busy
<1>7. QED
  BY <1>3, <1>4, <1>5, <1>6 DEF IInv

LEMMA InvStep == IInv /\ [Next]_vars => IInv'
BY OriginStep, FilesStep, ManifestStep, CacheStep, WorkStep, ScalarsStep DEF IInv, Work

LEMMA IInvCorrect == Spec => []IInv
BY InitInv, InvStep, PTL DEF Spec

\* What the invariant says of the state a reader of the run sees.
LEMMA IInvTypes == IInv => TypeOK
<1> SUFFICES ASSUME IInv PROVE TypeOK
  OBVIOUS
<1>1. ASSUME NEW k \in DOMAIN cache, NEW n \in DOMAIN cache[k].items
      PROVE  cache[k].items[n].path \in Path /\ cache[k].items[n].id \in Id
  <2> DEFINE Item == [id : Id, path : Path]
  <2>1. ASSUME NEW items \in Seq(Item), NEW m \in DOMAIN items PROVE items[m] \in Item
    <3> HIDE DEF Item
    <3>1. QED
      BY <2>1
  <2>2. cache[k].items \in Seq(Item)
    BY DEF IInv, CacheSound, EntrySound
  <2>3. QED
    BY <2>1, <2>2
<1>2. /\ FilesSound /\ ManifestSound /\ OriginSound /\ ScalarsTyped
      /\ RecordsSound /\ ProcTyped /\ ProcSound
  BY DEF IInv
<1>3. \A s \in StageName : /\ stageRec[s].status \in Done \cup {"pending", "running", "failed"}
                           /\ Range(stageRec[s].ids) \subseteq Registered
  BY <1>2 DEF RecordsSound, RecSound
<1>4. QED
  BY <1>1, <1>2, <1>3 DEF TypeOK, FilesSound, ManifestSound, OriginSound, ScalarsTyped,
     ProcTyped, ProcSound, Hash

\* Type correctness: every file, record, cache entry and stage record is of its kind,
\* a stage lists only registered artifacts, and so does the process that runs it.
THEOREM TypeCorrect == Spec => []TypeOK
BY IInvCorrect, IInvTypes, PTL

\* A finished stage's artifacts were built from what its recorded key names
\* (_up_to_date and _finish, orchestrator.py:319-370), whichever crash, failure,
\* adoption, edit of the weights or change of the files came before.
THEOREM KeyDescribesOutputsCorrect == Spec => []KeyDescribesOutputs
<1>1. IInv => KeyDescribesOutputs
  BY DEF IInv, RecordsSound, RecSound, BuiltUnder, KeyDescribesOutputs
<1>2. QED
  BY <1>1, IInvCorrect, PTL

\* The parents in an artifact's record are what its content was built from (register,
\* store.py; adopt, cache.py), in every run directory that shares the cache.
THEOREM ParentsAreSourcesCorrect == Spec => []ParentsAreSources
<1>1. IInv => ParentsAreSources
  BY DEF IInv, ManifestSound, ParentsAreSources
<1>2. QED
  BY <1>1, IInvCorrect, PTL

-----------------------------------------------------------------------------
(* A run that nobody interfered with has nothing left to do                *)

\* What a stage that the invocation is through with has recorded.
Fresh(s, w) ==
    /\ stageRec[s].status \in Done
    /\ stageRec[s].key = KeyOf(s, w)
    /\ stageRec[s].ids # << >>
    /\ s \in DependsOnModel => w # NoWeights

\* Only tampering changes a registered file.
AllIntact == tampered = {} => \A id \in Registered : Intact(id)

\* An entry holds outputs of its stage.
CacheTyped ==
    \A k \in DOMAIN cache : \A n \in DOMAIN cache[k].items :
        TypeOf(cache[k].items[n].id) \in Range(Outputs[k.stage])

\* Where an invocation is, and whose weights it has read.
Placed ==
    /\ proc.cur \in Nat \ {0} /\ proc.first \in Nat \ {0}
    /\ proc.pc # "idle" => proc.last \in DOMAIN Order /\ runStatus = "running"
    /\ proc.pc = "idle" => proc.loaded = NoWeights
    /\ proc.loaded # NoWeights => modelSha = proc.loaded

\* The key a stage works under is still the one it would compute now.
AtWork ==
    proc.pc \in Busy =>
        /\ proc.cur \in DOMAIN Order
        /\ proc.key = KeyOf(Current, proc.loaded)
        /\ Current \in DependsOnModel => proc.loaded # NoWeights
        /\ \A id \in Range(proc.ids) : TypeOf(id) \in Range(Outputs[Current])
        /\ proc.pc \in {"store", "succeeded", "cached"} => proc.ids # << >>

\* The stages that a whole run has passed need not be run again.
Behind ==
    proc.pc # "idle" /\ proc.first = 1 =>
        \A n \in DOMAIN Order :
            n < proc.cur /\ Order[n] \notin Skipped => Fresh(Order[n], proc.loaded)

\* Nor does any stage after a full success.
Finished ==
    FullSuccess => \A n \in DOMAIN Order : Order[n] \notin Skipped => Fresh(Order[n], modelSha)

\* The invariant, on top of IInv.
RInv == AllIntact /\ CacheTyped /\ Placed /\ AtWork /\ Behind /\ Finished

\* Artifacts of one type only are registered by a step.
OnlyType(type) ==
    \A id : TypeOf(id) # type =>
        /\ id \in Registered' <=> id \in Registered
        /\ id \in Registered => artifacts'[id] = artifacts[id]

\* Registering a file touches artifacts of its own type only.
LEMMA RegisterFrame ==
    ASSUME NEW path, NEW type, NEW s, NEW parents, RegisterFile(path, type, s, parents)
    PROVE  OnlyType(type)
BY DEF RegisterFile, OnlyType, Bind, Registered, MakeId, TypeOf

\* What a stage would take as its inputs depends on artifacts of their types only.
LEMMA KeyStays ==
    ASSUME NEW type, OnlyType(type), NEW s, type \notin Consumes(s), NEW w
    PROVE  KeyOf(s, w)' = KeyOf(s, w)
<1>1. ASSUME NEW t, t # type PROVE Latest(t)' = Latest(t)
  <2>1. Records(t)' = Records(t)
    BY <1>1 DEF OnlyType, Records
  <2>2. \A id \in Records(t) : artifacts'[id] = artifacts[id]
    BY <1>1 DEF OnlyType, Records
  <2>3. QED
    BY <2>1, <2>2 DEF Latest
<1>2. \A t \in Consumes(s) : Latest(t)' = Latest(t)
  BY <1>1
<1>3. Inputs(s)' = Inputs(s)
  BY <1>2 DEF Inputs
<1>4. QED
  BY <1>3 DEF KeyOf

\* Without a new artifact, every key is what it was.
LEMMA KeyFixed == ASSUME artifacts' = artifacts, NEW s, NEW w PROVE KeyOf(s, w)' = KeyOf(s, w)
BY DEF KeyOf, Inputs, Latest, Records, Registered

\* The weights count in the keys of the stages that depend on the model only.
LEMMA FreshLoaded ==
    ASSUME NEW s, NEW v, NEW w, Fresh(s, v), v = NoWeights \/ v = w
    PROVE  Fresh(s, w)
BY DEF Fresh, KeyOf

\* What a stage recorded keeps standing for what it would do, while its inputs do.
LEMMA FreshStays ==
    ASSUME NEW s, NEW w, Fresh(s, w), stageRec'[s] = stageRec[s], KeyOf(s, w)' = KeyOf(s, w)
    PROVE  Fresh(s, w)'
BY DEF Fresh

Gathers(id, items, again, label) ==
    proc' = [proc EXCEPT !.ids = Append(@, id), !.path = {}, !.item = @ + 1,
                         !.pc = IF proc.item < Len(items) THEN again ELSE label]

\* Both places that register have put one of the stage's outputs in the run.
RegistersAt(path, type) ==
    /\ RegisterFile(path, type, Current, proc.key.inputs)
    /\ UNCHANGED <<files, cache, modelSha, runStatus, tampered>>
    /\ \/ /\ stageRec' = stageRec
          /\ \E items : \E again \in {"adopt", "run"}, label \in {"cached", "store"} :
                Gathers(MakeId(type, files[path]), items, again, label)
       \/ \E reason : Fail(reason)

RegisterStep == \E path : \E type \in Range(Outputs[Current]) : RegistersAt(path, type)

\* The two actions that register an output are one kind of step.
LEMMA RegisteringStep ==
    ASSUME NEW path, NEW type \in Range(Outputs[Current]), NEW items,
           NEW again \in {"adopt", "run"}, NEW label \in {"cached", "store"},
           Registering(path, type, items, again, label)
    PROVE  RegisterStep
<1>1. /\ RegisterFile(path, type, Current, proc.key.inputs)
      /\ UNCHANGED <<files, cache, modelSha, runStatus, tampered>>
  BY DEF Registering, Fail, history
<1>2. \/ /\ stageRec' = stageRec
         /\ Gathers(MakeId(type, files[path]), items, again, label)
      \/ \E reason : Fail(reason)
  <2>1. CASE RegisterReply(path, type, proc.key.inputs) \in {"existing", "added"}
             /\ stageRec' = stageRec
    BY <2>1 DEF Registering, Gathers, Fail
  <2>2. CASE Fail(RegisterReply(path, type, proc.key.inputs))
    BY <2>2
  <2>3. QED
    BY <2>1, <2>2 DEF Registering
<1>3. QED
  BY <1>1, <1>2 DEF RegistersAt, RegisterStep

LEMMA RegisterSteps == ASSUME IInv, RInv, AdoptRegister \/ RegisterItem PROVE RegisterStep
<1>1. CASE AdoptRegister
  <2>1. /\ proc.key \in DOMAIN cache /\ proc.item \in DOMAIN cache[proc.key].items
        /\ proc.key.stage = Current
    BY <1>1 DEF AdoptRegister, IInv, ProcSound, RInv, AtWork, Busy, KeyOf
  <2>2. TypeOf(Cached.id) \in Range(Outputs[Current])
    BY <2>1 DEF RInv, CacheTyped, Cached
  <2>3. Registering(Cached.path, TypeOf(Cached.id), cache[proc.key].items, "adopt", "cached")
    BY <1>1 DEF AdoptRegister
  <2>4. QED
    BY <2>2, <2>3, RegisteringStep
<1>2. CASE RegisterItem
  <2>1. PICK path \in proc.path :
          Registering(path, Outputs[Current][proc.item], Outputs[Current], "run", "store")
    BY <1>2 DEF RegisterItem
  <2>2. Outputs[Current][proc.item] \in Range(Outputs[Current])
    BY <1>2 DEF RegisterItem, IInv, ProcSound, Range
  <2>3. QED
    BY <2>1, <2>2, RegisteringStep
<1>3. QED
  BY <1>1, <1>2

\* A registered file is the one its record names.
LEMMA RegisterIntact ==
    ASSUME NEW path, NEW type, NEW s, NEW parents, RegisterFile(path, type, s, parents),
           files' = files, \A id \in Registered : Intact(id)
    PROVE  \A id \in Registered' : Intact(id)'
<1>1. CASE artifacts' = artifacts
  BY <1>1 DEF Registered, Intact, Holds, Exists
<1>2. CASE RegisterReply(path, type, parents) = "added"
  <2> DEFINE new == MakeId(type, files[path])
             record == [path |-> path, created |-> clock, stage |-> s, parents |-> parents]
  <2>1. artifacts' = Bind(artifacts, new, record)
    BY <1>2 DEF RegisterFile
  <2>2. Exists(path) /\ record.path = path /\ Sha(new) = files[path]
    BY <1>2 DEF RegisterReply, MakeId, Sha
  <2> HIDE DEF new, record
  <2>3. \A id \in Registered' :
           IF id = new THEN artifacts'[id] = record
                       ELSE id \in Registered /\ artifacts'[id] = artifacts[id]
    BY <2>1 DEF Bind, Registered
  <2>4. QED
    BY <2>2, <2>3 DEF Intact, Holds, Exists
<1>3. QED
  BY <1>1, <1>2 DEF RegisterFile

\* Files that are there stay what they are, but for the world outside.
LEMMA IntactStep == IInv /\ RInv /\ [Next]_vars => AllIntact'
<1> SUFFICES ASSUME IInv, RInv, [Next]_vars, tampered' = {}
             PROVE  \A id \in Registered' : Intact(id)'
  BY DEF AllIntact
<1>1. CASE NewRun
  BY <1>1 DEF NewRun, Registered
<1>2. ASSUME ~ NewRun PROVE tampered = {}
  <2>1. \/ tampered' = tampered
        \/ \E path \in DOMAIN files : tampered' = tampered \cup {path}
    <3>1. ASSUME Step PROVE tampered' = tampered
      BY <3>1 DEF Step, SkipStage, FailInputs, Fail, ReuseOwn, BeginAdopt, BeginRun, RunUnder,
         AdoptMiss, Finish, AdoptCopy, AdoptRegister, RegisterItem, Registering, PublishItem,
         ComparisonFails, StoreInCache, Succeed, FailRun, history
    <3>2. ASSUME Fault
          PROVE  \/ tampered' = tampered
                 \/ \E path \in DOMAIN files : tampered' = tampered \cup {path}
      BY <3>2 DEF Fault, AdoptTorn, StageFails, Fail, Crash, Tamper, Delete, DamageCache, history
    <3>3. QED
      BY <1>2, <3>1, <3>2 DEF Next, Start, EditWeights, RevertWeights, vars, history
  <2>2. QED
    BY <2>1
<1>3. ASSUME ~ NewRun PROVE \A id \in Registered : Intact(id)
  BY <1>2, <1>3 DEF RInv, AllIntact
<1>4. CASE AdoptRegister \/ RegisterItem
  <2>1. ~ NewRun
    BY <1>4 DEF AdoptRegister, RegisterItem, NewRun
  <2>2. RegisterStep
    BY <1>4, RegisterSteps
  <2>3. QED
    BY <1>3, <2>1, <2>2, RegisterIntact DEF RegisterStep, RegistersAt
<1>5. CASE UNCHANGED <<artifacts, files>> /\ ~ NewRun
  BY <1>3, <1>5 DEF Registered, Intact, Holds, Exists
<1>6. ASSUME artifacts' = artifacts, ~ NewRun,
             NEW path, NEW content, files' = Bind(files, path, content),
             Exists(path) => files[path] = content
      PROVE  \A id \in Registered' : Intact(id)'
  <2>1. \A p \in DOMAIN files : p \in DOMAIN files' /\ files'[p] = files[p]
    BY <1>6 DEF Bind, Exists
  <2>2. QED
    BY <1>3, <1>6, <2>1 DEF Registered, Intact, Holds, Exists
<1>7. CASE AdoptCopy \/ AdoptTorn
  <2>1. artifacts' = artifacts /\ ~ NewRun /\ ~ Exists(Cached.path)
    BY <1>7 DEF AdoptCopy, AdoptTorn, NewRun
  <2>2. \E content : files' = Bind(files, Cached.path, content)
    BY <1>7 DEF AdoptCopy, AdoptTorn
  <2>3. QED
    BY <1>6, <2>1, <2>2
<1>8. CASE PublishItem
  <2>1. artifacts' = artifacts /\ ~ NewRun
    BY <1>8 DEF PublishItem, NewRun
  <2>2. Outputs[Current][proc.item] \in Name
    BY <1>8, OutputTyped, PipelineAssumption DEF PublishItem
  <2>3. PICK content : \E path \in Destination(Outputs[Current][proc.item], content) :
                          files' = Bind(files, path, content)
    BY <1>8 DEF PublishItem
  <2>4. QED
    BY <1>6, <2>1, <2>2, <2>3, DestinationFacts
<1>9. ASSUME NEW path \in DOMAIN files, Tamper(path) \/ Delete(path) PROVE FALSE
  BY <1>9 DEF Tamper, Delete
<1>10. QED
  BY <1>1, <1>4, <1>5, <1>7, <1>8, <1>9, ManifestFrame, FilesFrame DEF FilesChange

\* What is stored under a stage's key are outputs of that stage.
LEMMA CacheTypedStep == IInv /\ RInv /\ [Next]_vars => CacheTyped'
<1> SUFFICES ASSUME IInv, RInv, [Next]_vars PROVE CacheTyped'
  OBVIOUS
<1>1. CASE cache' = cache
  BY <1>1 DEF RInv, CacheTyped
<1>2. CASE StoreInCache
  <2> DEFINE items == [n \in DOMAIN proc.ids |->
                         [id |-> proc.ids[n], path |-> artifacts[proc.ids[n]].path]]
  <2>1. cache' = cache \/ cache' = Bind(cache, proc.key, [items |-> items, damaged |-> FALSE])
    BY <1>2 DEF StoreInCache
  <2>2. \A n \in DOMAIN items : TypeOf(items[n].id) \in Range(Outputs[proc.key.stage])
    <3>1. /\ proc.key.stage = Current
          /\ \A id \in Range(proc.ids) : TypeOf(id) \in Range(Outputs[Current])
      BY <1>2 DEF StoreInCache, RInv, AtWork, Busy, KeyOf
    <3>2. \A n \in DOMAIN items : items[n].id \in Range(proc.ids)
      BY DEF Range
    <3> HIDE DEF items
    <3>3. QED
      BY <3>1, <3>2
  <2> HIDE DEF items
  <2>3. QED
    BY <2>1, <2>2 DEF RInv, CacheTyped, Bind
<1>3. CASE \E key \in DOMAIN cache : DamageCache(key)
  <2>1. PICK key \in DOMAIN cache : cache' = [cache EXCEPT ![key].damaged = TRUE]
    BY <1>3 DEF DamageCache
  <2>2. \A k \in DOMAIN cache : EntrySound(k, cache[k])
    BY DEF IInv, CacheSound
  <2>3. DOMAIN cache' = DOMAIN cache /\ \A k \in DOMAIN cache : cache'[k].items = cache[k].items
    BY <2>1, <2>2 DEF EntrySound
  <2>4. QED
    BY <2>3 DEF RInv, CacheTyped
<1>4. QED
  BY <1>1, <1>2, <1>3, CacheFrame

(* The kinds of steps an invocation makes *)

\* The model is loaded once, and then the manifest names its weights.
Loads ==
    \/ proc'.loaded = proc.loaded /\ modelSha' = modelSha
    \/ proc.loaded = NoWeights /\ modelSha' = proc'.loaded

Moves == proc'.first = proc.first /\ proc'.last = proc.last

OthersKept == \A s \in StageName : s # Current => stageRec'[s] = stageRec[s]

\* Nothing of the invocation changes.
Rests == UNCHANGED <<artifacts, stageRec, proc, runStatus, modelSha>>

\* It ends, successfully or not.
Ends ==
    /\ proc'.pc = "idle" /\ proc'.cur = proc.first /\ proc'.loaded = NoWeights /\ Moves
    /\ UNCHANGED <<artifacts, stageRec, modelSha>>
    /\ \/ runStatus' = "failed"
       \/ runStatus' = runStatus /\ proc.pc # "idle"
       \/ runStatus' = "succeeded" /\ proc.pc = "stage" /\ proc.cur > proc.last

\* It goes on from stage s, with the model w.
Leaves(s, w) ==
    /\ s = Current /\ w = proc'.loaded
    /\ proc.pc # "idle" /\ proc'.pc = "stage" /\ proc.cur \in DOMAIN Order
    /\ proc'.cur = proc.cur + 1 /\ Moves /\ Loads
    /\ UNCHANGED <<artifacts, runStatus>> /\ OthersKept
    /\ s \notin Skipped => Fresh(s, w)'

\* It stays at its stage.
Stays ==
    /\ proc.pc # "idle" /\ proc'.pc # "idle" /\ proc.cur \in DOMAIN Order
    /\ proc'.cur = proc.cur /\ Moves /\ Loads
    /\ runStatus' = runStatus /\ OthersKept
    /\ artifacts' = artifacts \/ \E type \in Range(Outputs[Current]) : OnlyType(type)

\* A process at work is at one of the stages of the order.
LEMMA AtPlace ==
    ASSUME IInv, RInv, proc.pc \in Busy \cup {"stage"}, proc.pc = "stage" => proc.cur <= proc.last
    PROVE  proc.cur \in DOMAIN Order
<1>1. CASE proc.pc \in Busy
  BY <1>1 DEF RInv, AtWork
<1>2. CASE proc.pc = "stage"
  <2>1. proc.cur \in Nat \ {0} /\ proc.last \in DOMAIN Order /\ Order \in Seq(StageName)
    BY <1>2, PipelineAssumption DEF RInv, Placed
  <2>2. QED
    BY <1>2, <2>1
<1>3. QED
  BY <1>1, <1>2

\* The weights are read once, and the manifest then names what was read.
LEMMA LoadFacts ==
    ASSUME IInv, NEW users, NEW s,
           RecordModel(LoadBy(users, s)), proc'.loaded = LoadBy(users, s)
    PROVE  Loads /\ (s \in users => proc'.loaded # NoWeights)
<1>1. weights # NoWeights
  BY PipelineAssumption DEF IInv, ScalarsTyped
<1>2. QED
  BY <1>1 DEF LoadBy, RecordModel, Loads

\* A stage that gives up leaves the records of the other stages as they were.
LEMMA FailStays ==
    ASSUME IInv, RInv, NEW reason, Fail(reason), proc.pc \in Busy \cup {"stage"},
           proc.pc = "stage" => proc.cur <= proc.last, modelSha' = modelSha,
           artifacts' = artifacts \/ \E type \in Range(Outputs[Current]) : OnlyType(type)
    PROVE  Stays /\ proc'.pc = "failing"
<1>1. /\ proc'.pc = "failing" /\ proc'.cur = proc.cur /\ Moves /\ proc'.loaded = proc.loaded
  BY DEF Fail, IInv, ProcTyped, Field, Moves
<1>2. runStatus' = runStatus /\ OthersKept
  BY DEF Fail, SetStage, OthersKept, IInv, RecordsSound
<1>3. proc.pc # "idle" /\ proc.cur \in DOMAIN Order
  BY AtPlace DEF Busy
<1>4. QED
  BY <1>1, <1>2, <1>3 DEF Stays, Loads

\* So does a stage that starts to run.
LEMMA RunStays ==
    ASSUME IInv, RInv, NEW s, s = Current, NEW key, RunUnder(s, key, LoadBy(LoadsModel, s)),
           proc.pc \in {"stage", "adopt"}, proc.pc = "stage" => proc.cur <= proc.last
    PROVE  Stays /\ (s \in LoadsModel => proc'.loaded # NoWeights)
<1>1. /\ proc'.pc = "run" /\ proc'.cur = proc.cur /\ Moves
      /\ proc'.loaded = LoadBy(LoadsModel, s)
  BY DEF RunUnder, IInv, ProcTyped, Field, Moves
<1>2. runStatus' = runStatus /\ artifacts' = artifacts /\ OthersKept
  BY DEF RunUnder, store, OthersKept, IInv, RecordsSound
<1>3. Loads /\ (s \in LoadsModel => proc'.loaded # NoWeights)
  BY <1>1, LoadFacts DEF RunUnder
<1>4. proc.pc # "idle" /\ proc.cur \in DOMAIN Order
  BY AtPlace DEF Busy
<1>5. QED
  BY <1>1, <1>2, <1>3, <1>4 DEF Stays

\* Passing over a stage, reusing its outputs and recording new ones.
LEMMA StageLeaves ==
    ASSUME IInv, RInv, NEW s \in StageName, SkipStage(s) \/ ReuseOwn(s) \/ Finish(s)
    PROVE  \E w : Leaves(s, w)
<1>1. s = Current /\ proc.pc # "idle" /\ proc.cur \in DOMAIN Order
  BY AtPlace DEF SkipStage, ReuseOwn, InputsReady, Entering, Finish, Busy
<1>2. artifacts' = artifacts /\ runStatus' = runStatus
  BY DEF SkipStage, ReuseOwn, Finish, store
<1>3. OthersKept
  BY <1>1 DEF SkipStage, ReuseOwn, Finish, SetStage, OthersKept, IInv, RecordsSound
<1>4. proc'.pc = "stage" /\ proc'.cur = proc.cur + 1 /\ Moves
  BY DEF SkipStage, ReuseOwn, Finish, NextStage, IInv, ProcTyped, Field, Moves
<1>5. \A w : KeyOf(s, w)' = KeyOf(s, w)
  BY <1>2, KeyFixed
<1>6. CASE SkipStage(s)
  <2>1. Loads /\ s \in Skipped
    BY <1>6 DEF SkipStage, NextStage, IInv, ProcTyped, Field, Loads
  <2>2. QED
    BY <1>1, <1>2, <1>3, <1>4, <2>1 DEF Leaves
<1>7. CASE ReuseOwn(s)
  <2>1. PICK w : w = LoadBy(DependsOnModel, s)
    OBVIOUS
  <2>2. /\ proc'.loaded = w /\ RecordModel(w) /\ UpToDate(s, KeyOf(s, w))
        /\ stageRec'[s] = [status |-> "skipped", key |-> KeyOf(s, w), ids |-> stageRec[s].ids]
    BY <1>7, <2>1 DEF ReuseOwn, NextStage, SetStage, IInv, ProcTyped, Field, RecordsSound
  <2>3. Loads /\ (s \in DependsOnModel => w # NoWeights)
    BY <2>1, <2>2, LoadFacts
  <2>4. Fresh(s, w)'
    BY <1>5, <2>2, <2>3 DEF Fresh, UpToDate, Done
  <2>5. QED
    BY <1>1, <1>2, <1>3, <1>4, <2>2, <2>3, <2>4 DEF Leaves
<1>8. CASE Finish(s)
  <2>1. PICK w : w = proc.loaded
    OBVIOUS
  <2>2. /\ proc'.loaded = w /\ modelSha' = modelSha /\ proc.pc \in {"succeeded", "cached"}
        /\ stageRec'[s] = [status |-> proc.pc, key |-> proc.key, ids |-> proc.ids]
    BY <1>8, <2>1 DEF Finish, NextStage, SetStage, IInv, ProcTyped, Field, RecordsSound
  <2>3. /\ proc.key = KeyOf(s, w) /\ proc.ids # << >>
        /\ s \in DependsOnModel => w # NoWeights
    BY <1>1, <2>1, <2>2 DEF RInv, AtWork, Busy
  <2>4. Fresh(s, w)'
    BY <1>5, <2>2, <2>3 DEF Fresh, Done
  <2>5. QED
    BY <1>1, <1>2, <1>3, <1>4, <2>1, <2>2, <2>4 DEF Leaves, Loads
<1>9. QED
  BY <1>6, <1>7, <1>8

\* The kind of every step.
LEMMA StepKind ==
    ASSUME IInv, RInv, [Next]_vars
    PROVE  \/ Rests \/ Ends \/ Stays
           \/ \E s, w : Leaves(s, w)
           \/ NewRun
           \/ \E first, last \in DOMAIN Order : Start(first, last)
<1>1. ASSUME NEW s \in StageName, FailInputs(s) PROVE Stays
  BY <1>1, FailStays DEF FailInputs, Entering, store
<1>2. ASSUME NEW s \in StageName, BeginAdopt(s) PROVE Stays
  <2>1. /\ proc'.pc = "adopt" /\ proc'.cur = proc.cur /\ Moves
        /\ proc'.loaded = LoadBy(DependsOnModel, s)
    BY <1>2 DEF BeginAdopt, IInv, ProcTyped, Field, Moves
  <2>2. Loads
    BY <1>2, <2>1, LoadFacts DEF BeginAdopt
  <2>3. UNCHANGED <<artifacts, runStatus, stageRec>> /\ proc.pc = "stage" /\ proc.cur <= proc.last
    BY <1>2 DEF BeginAdopt, InputsReady, Entering, store
  <2>4. QED
    BY <2>1, <2>2, <2>3, AtPlace DEF Stays, OthersKept
<1>3. ASSUME NEW s \in StageName, BeginRun(s) \/ AdoptMiss(s) PROVE Stays
  BY <1>3, RunStays DEF BeginRun, AdoptMiss, InputsReady, Entering
<1>4. ASSUME AdoptRegister \/ RegisterItem PROVE Stays
  <2>1. PICK path : \E type \in Range(Outputs[Current]) : RegistersAt(path, type)
    BY <1>4, RegisterSteps DEF RegisterStep
  <2> PICK type \in Range(Outputs[Current]) : RegistersAt(path, type)
    BY <2>1
  <2>2. OnlyType(type) /\ proc.pc \in {"adopted", "published"}
    BY <1>4, RegisterFrame DEF RegistersAt, AdoptRegister, RegisterItem
  <2>3. CASE \E reason : Fail(reason)
    BY <2>2, <2>3, FailStays DEF RegistersAt, Busy
  <2>4. ASSUME NEW items, NEW again \in {"adopt", "run"}, NEW label \in {"cached", "store"},
               NEW id, Gathers(id, items, again, label), stageRec' = stageRec
        PROVE  Stays
    <3>1. proc'.pc # "idle" /\ proc'.cur = proc.cur /\ Moves /\ proc'.loaded = proc.loaded
      BY <2>4 DEF Gathers, IInv, ProcTyped, Field, Moves
    <3>2. QED
      BY <2>2, <2>4, <3>1, AtPlace DEF RegistersAt, Stays, Busy, Loads, OthersKept
  <2>5. QED
    BY <2>3, <2>4 DEF RegistersAt
<1>5. ASSUME AdoptCopy \/ PublishItem \/ StoreInCache PROVE Stays
  <2>1. /\ proc'.pc # "idle" /\ proc'.cur = proc.cur /\ Moves /\ proc'.loaded = proc.loaded
        /\ proc.pc \in Busy
    BY <1>5 DEF AdoptCopy, PublishItem, StoreInCache, IInv, ProcTyped, Field, Moves, Busy
  <2>2. UNCHANGED <<artifacts, runStatus, stageRec, modelSha>>
    BY <1>5 DEF AdoptCopy, PublishItem, StoreInCache, store
  <2>3. QED
    BY <2>1, <2>2, AtPlace DEF Stays, Busy, Loads, OthersKept
<1>6. ASSUME ComparisonFails \/ StageFails PROVE Stays
  BY <1>6, FailStays DEF ComparisonFails, StageFails, Busy, store
<1>7. ASSUME Succeed \/ FailRun \/ AdoptTorn \/ Crash PROVE Ends
  BY <1>7 DEF Succeed, FailRun, AdoptTorn, Crash, IdleProc, Ends, Moves, store
<1>8. ASSUME \/ \E path \in DOMAIN files : Tamper(path) \/ Delete(path)
             \/ \E key \in DOMAIN cache : DamageCache(key)
      PROVE  Rests
  BY <1>8 DEF Tamper, Delete, DamageCache, Rests, store
<1>9. CASE Step \/ Fault
  BY <1>1, <1>2, <1>3, <1>4, <1>5, <1>6, <1>7, <1>8, <1>9, StageLeaves DEF Step, Fault
<1>10. ASSUME (\E w \in Weights : EditWeights(w) \/ RevertWeights(w)) \/ vars' = vars PROVE Rests
  BY <1>10 DEF EditWeights, RevertWeights, vars, Rests, store
<1>11. QED
  BY <1>9, <1>10 DEF Next

\* Where an invocation begins.
LEMMA StartFacts ==
    ASSUME NEW first \in DOMAIN Order, NEW last \in DOMAIN Order, Start(first, last)
    PROVE  /\ proc'.pc = "stage" /\ proc'.cur = first /\ proc'.first = first /\ proc'.last = last
           /\ proc'.loaded = NoWeights /\ runStatus' = "running" /\ first \in Nat \ {0}
  BY PipelineAssumption DEF Start, IdleProc

\* The process stays within the stages of the invocation.
LEMMA PlacedStep == IInv /\ RInv /\ [Next]_vars => Placed'
<1> SUFFICES ASSUME IInv, RInv, [Next]_vars PROVE Placed'
  OBVIOUS
<1>1. Placed
  BY DEF RInv
<1>2. CASE Rests
  BY <1>1, <1>2 DEF Rests, Placed
<1>3. CASE Ends
  BY <1>1, <1>3 DEF Ends, Moves, Placed
<1>4. CASE Stays
  BY <1>1, <1>4 DEF Stays, Moves, Loads, Placed
<1>5. ASSUME NEW s, NEW w, Leaves(s, w) PROVE Placed'
  BY <1>1, <1>5 DEF Leaves, Moves, Loads, Placed
<1>6. CASE NewRun
  BY <1>1, <1>6 DEF NewRun, Placed
<1>7. ASSUME NEW first \in DOMAIN Order, NEW last \in DOMAIN Order, Start(first, last) PROVE Placed'
  BY <1>7, StartFacts DEF Placed
<1>8. QED
  BY <1>2, <1>3, <1>4, <1>5, <1>6, <1>7, StepKind

\* What the earlier stages have recorded stays, whatever the current one registers.
LEMMA BehindStays ==
    ASSUME IInv, RInv, Stays \/ \E s, w : Leaves(s, w), proc.first = 1,
           NEW n \in DOMAIN Order, n < proc.cur, Order[n] \notin Skipped,
           NEW w, w = proc'.loaded
    PROVE  Fresh(Order[n], w)'
<1>1. proc.pc # "idle" /\ proc.cur \in DOMAIN Order /\ Loads /\ OthersKept
  BY DEF Stays, Leaves
<1>2. Fresh(Order[n], proc.loaded)
  BY <1>1 DEF RInv, Behind
<1>3. Fresh(Order[n], w)
  BY <1>1, <1>2, FreshLoaded DEF Loads
<1>4. Order[n] \in StageName /\ Order[n] # Current /\ n \in Nat /\ proc.cur \in Nat
  BY <1>1, PipelineAssumption, OrderAssumption DEF Current
<1>5. artifacts' = artifacts \/ \E type \in Range(Outputs[Current]) : OnlyType(type)
  BY DEF Stays, Leaves
<1>6. \A type \in Range(Outputs[Current]) : type \notin Consumes(Order[n])
  BY <1>1, <1>4, OrderAssumption DEF Current, Publishes
<1>7. KeyOf(Order[n], w)' = KeyOf(Order[n], w)
  BY <1>5, <1>6, KeyStays, KeyFixed
<1>8. stageRec'[Order[n]] = stageRec[Order[n]]
  BY <1>1, <1>4 DEF OthersKept
<1>9. QED
  BY <1>3, <1>7, <1>8, FreshStays

\* Every stage the process has passed keeps a record that a second look accepts.
LEMMA BehindStep == IInv /\ RInv /\ [Next]_vars => Behind'
<1> SUFFICES ASSUME IInv, RInv, [Next]_vars, proc'.pc # "idle", proc'.first = 1,
                    NEW n \in DOMAIN Order, n < proc'.cur, Order[n] \notin Skipped,
                    NEW w, w = proc'.loaded
             PROVE  Fresh(Order[n], w)'
  BY DEF Behind
<1>1. n \in Nat \ {0} /\ proc.cur \in Nat
  BY PipelineAssumption DEF RInv, Placed
<1>2. CASE Rests
  <2>1. Fresh(Order[n], w)
    BY <1>2 DEF Rests, RInv, Behind
  <2>2. QED
    BY <1>2, <2>1, FreshStays, KeyFixed DEF Rests
<1>3. CASE Ends \/ NewRun
  BY <1>3 DEF Ends, NewRun
<1>4. CASE Stays
  BY <1>4, BehindStays DEF Stays, Moves
<1>5. ASSUME NEW s, NEW v, Leaves(s, v) PROVE Fresh(Order[n], w)'
  <2>1. n < proc.cur \/ n = proc.cur
    BY <1>1, <1>5 DEF Leaves
  <2>2. CASE n = proc.cur
    BY <1>5, <2>2 DEF Leaves, Current
  <2>3. CASE n < proc.cur
    BY <1>5, <2>3, BehindStays DEF Leaves, Moves
  <2>4. QED
    BY <2>1, <2>2, <2>3
<1>6. ASSUME NEW first \in DOMAIN Order, NEW last \in DOMAIN Order, Start(first, last) PROVE FALSE
  BY <1>1, <1>6, StartFacts
<1>7. QED
  BY <1>2, <1>3, <1>4, <1>5, <1>6, StepKind

\* A run that has succeeded keeps the records of all its stages.
LEMMA FinishedStep == IInv /\ RInv /\ [Next]_vars => Finished'
<1> SUFFICES ASSUME IInv, RInv, [Next]_vars, FullSuccess',
                    NEW n \in DOMAIN Order, Order[n] \notin Skipped,
                    NEW w, w = modelSha'
             PROVE  Fresh(Order[n], w)'
  BY DEF Finished
<1>1. CASE Rests
  <2>1. Fresh(Order[n], w)
    BY <1>1 DEF Rests, RInv, Finished, FullSuccess
  <2>2. QED
    BY <1>1, <2>1, FreshStays, KeyFixed DEF Rests
<1>2. CASE Ends
  <2>1. /\ proc.pc = "stage" /\ proc.cur > proc.last /\ proc.first = 1 /\ proc.last = Len(Order)
        /\ UNCHANGED <<artifacts, stageRec, modelSha>>
    BY <1>2 DEF Ends, Moves, FullSuccess, RInv, Placed
  <2>2. n < proc.cur
    BY <2>1, PipelineAssumption DEF RInv, Placed
  <2>3. Fresh(Order[n], proc.loaded)
    BY <2>1, <2>2 DEF RInv, Behind
  <2>4. Fresh(Order[n], w)
    BY <2>1, <2>3, FreshLoaded DEF RInv, Placed
  <2>5. QED
    BY <2>1, <2>4, FreshStays, KeyFixed
<1>3. CASE Stays \/ NewRun \/ \E s, v : Leaves(s, v)
  BY <1>3 DEF Stays, NewRun, Leaves, FullSuccess
<1>4. ASSUME NEW first \in DOMAIN Order, NEW last \in DOMAIN Order, Start(first, last) PROVE FALSE
  BY <1>4, StartFacts DEF FullSuccess
<1>5. QED
  BY <1>1, <1>2, <1>3, <1>4, StepKind

\* The work goes on with the key it has: no artifact of the stage is among its inputs.
LEMMA WorkGoesOn ==
    ASSUME IInv, RInv, proc.pc \in Busy, Stays, proc'.key = proc.key,
           proc'.loaded = proc.loaded, NEW ids, ids = proc'.ids,
           \A id \in Range(ids) : TypeOf(id) \in Range(Outputs[Current]),
           proc'.pc \in {"store", "succeeded", "cached"} => ids # << >>
    PROVE  AtWork'
<1>1. PICK s, w : s = Current /\ w = proc.loaded
  OBVIOUS
<1>2. /\ proc.cur \in DOMAIN Order /\ proc'.cur = proc.cur /\ Current' = s
      /\ proc.key = KeyOf(s, w) /\ (s \in DependsOnModel => w # NoWeights)
  BY <1>1 DEF RInv, AtWork, Stays, Current
<1>3. \A type \in Range(Outputs[s]) : type \notin Consumes(s)
  <2>1. proc.cur <= proc.cur /\ s = Order[proc.cur]
    BY <1>1, <1>2, PipelineAssumption DEF Current
  <2>2. \A t \in Consumes(s) : ~ Publishes(s, t)
    BY <1>2, <2>1, OrderAssumption
  <2>3. QED
    BY <2>2 DEF Publishes
<1>4. KeyOf(s, w)' = KeyOf(s, w)
  BY <1>1, <1>3, KeyStays, KeyFixed DEF Stays
<1>5. proc'.key = KeyOf(s, w)' /\ proc'.loaded = w
  BY <1>1, <1>2, <1>4
<1>6. QED
  BY <1>1, <1>2, <1>5 DEF AtWork

\* A stage begins its work under the key of its inputs and the model.
LEMMA WorkBegins ==
    ASSUME IInv, RInv, NEW s, s = Current, Stays, artifacts' = artifacts,
           NEW v, NEW w, w = proc'.loaded, proc'.key = KeyOf(s, v),
           s \in DependsOnModel => v = w /\ w # NoWeights,
           proc'.ids = << >>, proc'.pc \in {"adopt", "run"}
    PROVE  AtWork'
<1>1. proc.cur \in DOMAIN Order /\ proc'.cur = proc.cur /\ Current' = s
  BY DEF Stays, Current
<1>2. KeyOf(s, v) = KeyOf(s, w)
  BY DEF KeyOf
<1>3. proc'.key = KeyOf(s, w)'
  BY <1>2, KeyFixed
<1>4. Range(<< >>) = {}
  BY DEF Range
<1>5. QED
  BY <1>1, <1>3, <1>4 DEF AtWork

\* A registered output is the next one of the stage at work.
LEMMA RegisterWork ==
    ASSUME IInv, RInv, AdoptRegister \/ RegisterItem, Stays, proc'.pc \in Busy PROVE AtWork'
<1>1. PICK path : \E type \in Range(Outputs[Current]) : RegistersAt(path, type)
  BY RegisterSteps DEF RegisterStep
<1>2. PICK type \in Range(Outputs[Current]) : RegistersAt(path, type)
  BY <1>1
<1>3. \A reason : ~ Fail(reason)
  BY DEF Fail, Busy, IInv, ProcTyped, Field
<1>4. PICK id, items : \E again \in {"adopt", "run"}, label \in {"cached", "store"} :
         Gathers(id, items, again, label) /\ id = MakeId(type, files[path])
  BY <1>2, <1>3 DEF RegistersAt
<1>5. /\ proc'.key = proc.key /\ proc'.loaded = proc.loaded /\ proc'.ids = Append(proc.ids, id)
      /\ TypeOf(id) = type /\ proc.ids \in Seq(Id)
  BY <1>4 DEF Gathers, IInv, ProcTyped, Field, MakeId, TypeOf
<1>6. PICK ids : ids = Append(proc.ids, id)
  OBVIOUS
<1>7. ids # << >> /\ \A i \in Range(ids) : i \in Range(proc.ids) \/ i = id
  BY <1>5, <1>6 DEF Range
<1>8. proc.pc \in Busy
  BY DEF AdoptRegister, RegisterItem, Busy
<1>9. \A i \in Range(proc.ids) : TypeOf(i) \in Range(Outputs[Current])
  BY <1>8 DEF RInv, AtWork
<1>10. QED
  BY <1>2, <1>5, <1>6, <1>7, <1>8, <1>9, WorkGoesOn

\* What the process does is done for the stage it is at.
LEMMA WorkAtStep == IInv /\ RInv /\ [Next]_vars => AtWork'
<1> SUFFICES ASSUME IInv, RInv, [Next]_vars, proc'.pc \in Busy PROVE AtWork'
  BY DEF AtWork
<1>1. ASSUME Rests PROVE AtWork'
  <2>1. PICK s, w : s = Current /\ w = proc.loaded
    OBVIOUS
  <2>2. KeyOf(s, w)' = KeyOf(s, w) /\ Current' = s /\ proc' = proc
    BY <1>1, <2>1, KeyFixed DEF Rests, Current
  <2>3. proc'.key = KeyOf(s, w)'
    BY <2>1, <2>2 DEF RInv, AtWork
  <2>4. QED
    BY <2>1, <2>2, <2>3 DEF RInv, AtWork
<1>2. CASE Ends \/ NewRun \/ \E s, v : Leaves(s, v)
  BY <1>2 DEF Ends, NewRun, Leaves, Busy
<1>3. ASSUME NEW first \in DOMAIN Order, NEW last \in DOMAIN Order, Start(first, last) PROVE FALSE
  BY <1>3, StartFacts DEF Busy
<1>4. CASE Stays
  <2>1. \A reason : ~ Fail(reason)
    BY DEF Fail, Busy, IInv, ProcTyped, Field
  <2>3. ASSUME NEW s \in StageName, BeginAdopt(s) PROVE AtWork'
    <3>1. PICK w : w = LoadBy(DependsOnModel, s)
      OBVIOUS
    <3>2. /\ proc'.loaded = w /\ proc'.key = KeyOf(s, w) /\ proc'.ids = << >>
          /\ proc'.pc = "adopt" /\ artifacts' = artifacts /\ RecordModel(w) /\ s = Current
      BY <2>3, <3>1 DEF BeginAdopt, InputsReady, Entering, store, IInv, ProcTyped, ProcSound, Field
    <3>3. s \in DependsOnModel => w # NoWeights
      BY <3>1, <3>2, LoadFacts
    <3>4. QED
      BY <1>4, <3>2, <3>3, WorkBegins
  <2>4. ASSUME NEW s \in StageName, BeginRun(s) PROVE AtWork'
    <3>1. PICK v, w : v = LoadBy(DependsOnModel, s) /\ w = LoadBy(LoadsModel, s)
      OBVIOUS
    <3>2. /\ proc'.loaded = w /\ proc'.key = KeyOf(s, v) /\ proc'.ids = << >>
          /\ proc'.pc = "run" /\ artifacts' = artifacts /\ RecordModel(w) /\ s = Current
      BY <2>4, <3>1 DEF BeginRun, RunUnder, InputsReady, Entering, store, IInv, ProcTyped, Field
    <3>3. s \in DependsOnModel => v = w /\ w # NoWeights
      BY <3>1, <3>2, LoadFacts, PipelineAssumption DEF LoadBy
    <3>4. QED
      BY <1>4, <3>2, <3>3, WorkBegins
  <2>5. ASSUME NEW s \in StageName, AdoptMiss(s) PROVE AtWork'
    <3>1. PICK v, w : v = proc.loaded /\ w = LoadBy(LoadsModel, s)
      OBVIOUS
    <3>2. /\ proc'.loaded = w /\ proc'.key = proc.key /\ proc'.ids = << >>
          /\ proc'.pc = "run" /\ artifacts' = artifacts /\ s = Current /\ proc.pc = "adopt"
      BY <2>5, <3>1 DEF AdoptMiss, RunUnder, store, IInv, ProcTyped, Field
    <3>3. proc.key = KeyOf(s, v) /\ (s \in DependsOnModel => v # NoWeights)
      BY <3>1, <3>2 DEF RInv, AtWork, Busy
    <3>4. s \in DependsOnModel => v = w /\ w # NoWeights
      BY <3>1, <3>3 DEF LoadBy
    <3>5. QED
      BY <1>4, <3>2, <3>3, <3>4, WorkBegins
  <2>6. ASSUME AdoptCopy \/ PublishItem \/ StoreInCache PROVE AtWork'
    <3>1. /\ proc.pc \in Busy /\ proc'.key = proc.key /\ proc'.loaded = proc.loaded
          /\ proc'.ids = proc.ids
          /\ proc'.pc \in {"store", "succeeded", "cached"} => proc.pc = "store"
      BY <2>6 DEF AdoptCopy, PublishItem, StoreInCache, IInv, ProcTyped, Field, Busy
    <3>2. /\ \A id \in Range(proc.ids) : TypeOf(id) \in Range(Outputs[Current])
          /\ proc.pc = "store" => proc.ids # << >>
      BY <3>1 DEF RInv, AtWork
    <3>3. QED
      BY <1>4, <3>1, <3>2, WorkGoesOn
  <2>7. ASSUME Succeed \/ FailRun \/ AdoptTorn \/ Crash PROVE FALSE
    BY <2>7 DEF Succeed, FailRun, AdoptTorn, Crash, IdleProc, Busy
  <2>8. ASSUME NEW s \in StageName, SkipStage(s) \/ ReuseOwn(s) \/ Finish(s) PROVE FALSE
    BY <2>8, StageLeaves DEF Leaves, Busy
  <2>9. CASE Step \/ Fault
    <3>1. ASSUME \/ \E path \in DOMAIN files : Tamper(path) \/ Delete(path)
                 \/ \E key \in DOMAIN cache : DamageCache(key)
          PROVE  Rests
      BY <3>1 DEF Tamper, Delete, DamageCache, Rests, store
    <3>2. QED
      BY <1>1, <1>4, <2>1, <2>3, <2>4, <2>5, <2>6, <2>7, <2>8, <2>9, <3>1, RegisterWork
         DEF Step, Fault, FailInputs, ComparisonFails, StageFails
  <2>10. CASE \/ \E w \in Weights : EditWeights(w) \/ RevertWeights(w)
              \/ vars' = vars
    <3>1. Rests
      BY <2>10 DEF EditWeights, RevertWeights, vars, Rests, store
    <3>2. QED
      BY <1>1, <3>1
  <2>11. QED
    BY <1>2, <1>3, <2>9, <2>10 DEF Next
<1>5. QED
  BY <1>1, <1>2, <1>3, <1>4, StepKind

LEMMA RerunInit == Init => RInv
<1> SUFFICES ASSUME Init PROVE RInv
  OBVIOUS
<1>1. /\ DOMAIN artifacts = {} /\ DOMAIN cache = {} /\ runStatus = "created"
      /\ modelSha = NoWeights /\ proc = IdleProc(1, Len(Order))
  BY DEF Init
<1>2. AllIntact /\ CacheTyped /\ Behind /\ Finished /\ AtWork
  BY <1>1 DEF AllIntact, Registered, CacheTyped, Behind, Finished, FullSuccess, AtWork,
     IdleProc, Busy
<1>3. Placed
  BY <1>1 DEF Placed, IdleProc
<1>4. QED
  BY <1>2, <1>3 DEF RInv

LEMMA RerunStep == IInv /\ RInv /\ [Next]_vars => RInv'
BY IntactStep, CacheTypedStep, PlacedStep, WorkAtStep, BehindStep, FinishedStep DEF RInv

\* After a full successful run that nobody interfered with, every cacheable stage is up
\* to date (_up_to_date, orchestrator.py:319-334): running again has nothing to do, even
\* if earlier invocations failed, were killed, or worked on other weights.
THEOREM RerunIsNoopCorrect == Spec => []RerunIsNoop
<1>1. IInv /\ RInv => RerunIsNoop
  <2> SUFFICES ASSUME IInv, RInv, FullSuccess, tampered = {}, weights = modelSha,
                      NEW s \in Applicable \cap Cacheable
               PROVE  UpToDate(s, KeyOf(s, weights))
    BY DEF RerunIsNoop
  <2>1. PICK n \in DOMAIN Order : Order[n] = s
    BY DEF Applicable
  <2>2. Fresh(s, modelSha)
    BY <2>1 DEF Applicable, RInv, Finished
  <2>3. s \in StageName
    BY <2>1, PipelineAssumption
  <2>4. Range(stageRec[s].ids) \subseteq Registered
    BY <2>3 DEF IInv, RecordsSound, RecSound
  <2>5. \A id \in Registered : Intact(id)
    BY DEF RInv, AllIntact
  <2>6. QED
    BY <2>2, <2>4, <2>5 DEF UpToDate, Fresh
<1>2. Init => IInv /\ RInv
  BY InitInv, RerunInit
<1>3. (IInv /\ RInv) /\ [Next]_vars => (IInv /\ RInv)'
  BY InvStep, RerunStep
<1>4. QED
  BY <1>1, <1>2, <1>3, PTL DEF Spec

-----------------------------------------------------------------------------
(* What a run is built from.  Records and origins are parameters here, so that *)
(* one state can be compared with the next.                                     *)

\* Every type the stage consumes comes from one stage only.
Plain(s) ==
    \A t \in Consumes(s) : \A m, n \in DOMAIN Order :
        Publishes(Order[m], t) /\ Publishes(Order[n], t) => m = n

\* No content was built from newer weights.
Newest(O, c) == \A d \in DOMAIN O : O[d].weights # NoWeights => O[d].weights <= O[c].weights

Present(A, t) == \E x \in DOMAIN A : TypeOf(x) = t

\* The stage of artifact x would find the newest weights, and a parent of every type that
\* the run has for it.
Fits(A, O, x) ==
    /\ Plain(A[x].stage)
    /\ A[x].stage \in FromModel => Newest(O, Sha(x))
    /\ \A t \in Consumes(A[x].stage) : Present(A, t) => \E p \in A[x].parents : TypeOf(p) = t

\* That holds of an artifact and of everything it was built from.
Recent(A, O, i) ==
    \E X \in SUBSET DOMAIN A :
        i \in X /\ \A x \in X : Fits(A, O, x) /\ A[x].parents \subseteq X

\* What is recorded of an artifact agrees with its stage and with its content.
Shaped(A, O) ==
    \A x \in DOMAIN A :
        /\ A[x].stage \in Range(Order) \ Skipped
        /\ Publishes(A[x].stage, TypeOf(x))
        /\ A[x].parents \subseteq DOMAIN A
        /\ \A p \in A[x].parents : TypeOf(p) \in Consumes(A[x].stage)
        /\ \A t \in Requires[A[x].stage] : \E p \in A[x].parents : TypeOf(p) = t
        /\ Sha(x) \in DOMAIN O /\ O[Sha(x)].stage = A[x].stage

\* What a content was built from is built, and the weights are those of a stage that reads them.
Rooted(O) ==
    \A c \in DOMAIN O :
        /\ O[c].weights \in Hash
        /\ IF O[c].stage \in FromModel THEN O[c].weights \in Weights ELSE O[c].weights = NoWeights
        /\ \A i \in O[c].inputs : Sha(i) \in DOMAIN O

\* Of two artifacts of a stage and a type, the later one is recent if the earlier one is.
Renewed(A, O) ==
    \A i, k \in DOMAIN A :
        /\ TypeOf(i) = TypeOf(k) /\ A[i].stage = A[k].stage /\ A[i].created <= A[k].created
        /\ Recent(A, O, i)
        => Recent(A, O, k)

\* Recent is a fixed point: what is recent fits, and so do its parents,
LEMMA RecentFits ==
    ASSUME NEW A, NEW O, NEW i, Recent(A, O, i)
    PROVE  /\ i \in DOMAIN A /\ Fits(A, O, i)
           /\ \A p \in A[i].parents : p \in DOMAIN A /\ Recent(A, O, p)
BY DEF Recent

\* and what fits and has recent parents is recent.
LEMMA FitsRecent ==
    ASSUME NEW A, NEW O, NEW i \in DOMAIN A, Fits(A, O, i),
           \A p \in A[i].parents : Recent(A, O, p)
    PROVE  Recent(A, O, i)
<1> DEFINE X == {x \in DOMAIN A : Recent(A, O, x)} \cup {i}
<1>1. X \in SUBSET DOMAIN A /\ i \in X
  OBVIOUS
<1>2. ASSUME NEW x \in X PROVE Fits(A, O, x) /\ A[x].parents \subseteq X
  BY <1>2, RecentFits
<1> HIDE DEF X
<1>3. QED
  BY <1>1, <1>2 DEF Recent

\* Artifacts of one type that a plain stage may consume come from one stage.
LEMMA OneSource ==
    ASSUME NEW A, NEW O, Shaped(A, O), NEW s, Plain(s), NEW t \in Consumes(s),
           NEW p \in DOMAIN A, NEW q \in DOMAIN A, TypeOf(p) = t, TypeOf(q) = t
    PROVE  A[p].stage = A[q].stage
<1>1. PICK m \in DOMAIN Order : A[p].stage = Order[m]
  BY DEF Shaped, Range
<1>2. PICK n \in DOMAIN Order : A[q].stage = Order[n]
  BY DEF Shaped, Range
<1>3. Publishes(Order[m], t) /\ Publishes(Order[n], t)
  BY <1>1, <1>2 DEF Shaped
<1>4. QED
  BY <1>1, <1>2, <1>3 DEF Plain

\* A step that only adds: records B and origins P after A and O.
Extends(A, O, B, P) ==
    /\ \A x \in DOMAIN A : /\ x \in DOMAIN B /\ B[x].stage = A[x].stage
                           /\ B[x].parents = A[x].parents
    /\ \A c \in DOMAIN O : c \in DOMAIN P /\ P[c] = O[c]
    /\ \A y \in DOMAIN B : Sha(y) \in DOMAIN O
    /\ \A y \in DOMAIN B \ DOMAIN A : \A t \in Consumes(B[y].stage) :
          Present(B, t) => Present(A, t)

\* A stage with a recent artifact found nothing new among its inputs.
LEMMA NoNewInput ==
    ASSUME NEW A, NEW O, NEW B, NEW P, Extends(A, O, B, P), Shaped(A, O),
           NEW y, Recent(B, P, y), NEW t \in Consumes(B[y].stage), Present(B, t)
    PROVE  Present(A, t)
<1>1. CASE y \in DOMAIN A
  <2>1. PICK p \in B[y].parents : TypeOf(p) = t
    BY RecentFits DEF Fits
  <2>2. p \in DOMAIN A
    BY <1>1, <2>1 DEF Extends, Shaped
  <2>3. QED
    BY <2>1, <2>2 DEF Present
<1>2. CASE y \notin DOMAIN A
  BY <1>2, RecentFits DEF Extends
<1>3. QED
  BY <1>1, <1>2

\* What is recent after the step was recent before.
LEMMA RecentBefore ==
    ASSUME NEW A, NEW O, NEW B, NEW P, Extends(A, O, B, P), Shaped(A, O), Shaped(B, P),
           NEW i \in DOMAIN A, Recent(B, P, i)
    PROVE  Recent(A, O, i)
<1> DEFINE X == {x \in DOMAIN A : Recent(B, P, x)}
<1>1. ASSUME NEW x \in X PROVE Fits(A, O, x) /\ A[x].parents \subseteq X
  <2>1. Fits(B, P, x) /\ \A p \in B[x].parents : Recent(B, P, p)
    BY <1>1, RecentFits
  <2>2. B[x].stage = A[x].stage /\ B[x].parents = A[x].parents /\ Sha(x) \in DOMAIN O
    BY <1>1 DEF Extends, Shaped
  <2>3. A[x].parents \subseteq X
    BY <1>1, <2>1, <2>2 DEF Shaped
  <2>4. A[x].stage \in FromModel => Newest(O, Sha(x))
    BY <2>1, <2>2 DEF Fits, Newest, Extends
  <2>5. ASSUME NEW t \in Consumes(A[x].stage), Present(A, t)
        PROVE  \E p \in A[x].parents : TypeOf(p) = t
    <3>1. Present(B, t)
      BY <2>5 DEF Present, Extends
    <3>2. QED
      BY <2>1, <2>2, <2>5, <3>1 DEF Fits
  <2>6. QED
    BY <2>1, <2>2, <2>3, <2>4, <2>5 DEF Fits
<1>2. X \in SUBSET DOMAIN A /\ i \in X
  OBVIOUS
<1> HIDE DEF X
<1>3. QED
  BY <1>1, <1>2 DEF Recent

\* What was recent before and has a recent counterpart after the step is recent after it.
LEMMA RecentAfter ==
    ASSUME NEW A, NEW O, NEW B, NEW P, Extends(A, O, B, P), Shaped(A, O), Shaped(B, P),
           Rooted(P), NEW i, NEW k, Recent(B, P, i), Recent(A, O, k),
           TypeOf(i) = TypeOf(k), B[i].stage = A[k].stage
    PROVE  Recent(B, P, k)
<1> DEFINE Same(x, y) == TypeOf(y) = TypeOf(x) /\ B[y].stage = A[x].stage
           X == {x \in DOMAIN A : Recent(A, O, x) /\ \E y \in DOMAIN B : Same(x, y) /\ Recent(B, P, y)}
<1>1. ASSUME NEW x \in X PROVE Fits(B, P, x) /\ B[x].parents \subseteq X
  <2>1. PICK y \in DOMAIN B : Same(x, y) /\ Recent(B, P, y)
    OBVIOUS
  <2>2. /\ x \in DOMAIN A /\ Fits(A, O, x)
        /\ \A p \in A[x].parents : p \in DOMAIN A /\ Recent(A, O, p)
    BY RecentFits
  <2>3. Fits(B, P, y) /\ \A q \in B[y].parents : q \in DOMAIN B /\ Recent(B, P, q)
    BY <2>1, RecentFits
  <2>4. /\ B[x].stage = A[x].stage /\ B[x].parents = A[x].parents /\ B[y].stage = A[x].stage
        /\ Sha(x) \in DOMAIN O /\ Sha(y) \in DOMAIN O
    BY <2>1, <2>2 DEF Extends, Shaped
  <2>5. ASSUME NEW p \in A[x].parents PROVE p \in X
    <3>1. p \in DOMAIN A /\ p \in DOMAIN B /\ TypeOf(p) \in Consumes(A[x].stage)
      BY <2>2 DEF Shaped, Extends
    <3>2. PICK q \in B[y].parents : TypeOf(q) = TypeOf(p)
      BY <2>3, <2>4, <3>1 DEF Fits, Present
    <3>3. q \in DOMAIN B /\ Recent(B, P, q)
      BY <2>3, <3>2
    <3>4. B[p].stage = B[q].stage
      BY <2>2, <3>1, <3>2, <3>3, OneSource DEF Fits
    <3>5. B[q].stage = A[p].stage
      BY <3>1, <3>4 DEF Extends
    <3>6. QED
      BY <2>2, <3>1, <3>2, <3>3, <3>5
  <2>6. ASSUME A[x].stage \in FromModel PROVE Newest(P, Sha(x))
    <3>1. Newest(O, Sha(x)) /\ Newest(P, Sha(y))
      BY <2>2, <2>3, <2>4, <2>6 DEF Fits
    <3>2. P[Sha(x)] = O[Sha(x)] /\ P[Sha(y)] = O[Sha(y)]
      BY <2>4 DEF Extends
    <3>3. P[Sha(x)].weights \in Weights /\ P[Sha(y)].weights \in Weights
      BY <2>1, <2>4, <2>6 DEF Shaped, Rooted, Extends
    <3>4. P[Sha(y)].weights <= P[Sha(x)].weights
      BY <2>4, <3>1, <3>2, <3>3, PipelineAssumption DEF Newest
    <3>5. ASSUME NEW d \in DOMAIN P, P[d].weights # NoWeights
          PROVE  P[d].weights <= P[Sha(x)].weights
      <4>1. P[d].weights \in Weights
        BY <3>5 DEF Rooted, Hash
      <4>2. P[d].weights <= P[Sha(y)].weights
        BY <3>1, <3>5 DEF Newest
      <4>3. Weights \subseteq Nat
        BY PipelineAssumption
      <4>4. \A u, v, w \in Nat : u <= v /\ v <= w => u <= w
        OBVIOUS
      <4>5. QED
        BY <3>3, <3>4, <4>1, <4>2, <4>3, <4>4
    <3>6. QED
      BY <3>5 DEF Newest
  <2>7. ASSUME NEW t \in Consumes(A[x].stage), Present(B, t)
        PROVE  \E p \in A[x].parents : TypeOf(p) = t
    <3>1. Present(A, t)
      BY <2>1, <2>4, <2>7, NoNewInput
    <3>2. QED
      BY <2>2, <2>7, <3>1 DEF Fits
  <2>8. QED
    BY <2>2, <2>4, <2>5, <2>6, <2>7 DEF Fits
<1>2. X \in SUBSET DOMAIN B
  BY DEF Extends
<1>3. k \in X
  BY RecentFits
<1> HIDE DEF X
<1>4. QED
  BY <1>1, <1>2, <1>3 DEF Recent

\* A new content changes nothing about which artifacts are renewed.
LEMMA RenewedPublish ==
    ASSUME NEW A, NEW O, NEW P, Extends(A, O, A, P), Shaped(A, O), Shaped(A, P), Rooted(P),
           Renewed(A, O)
    PROVE  Renewed(A, P)
<1> SUFFICES ASSUME NEW i \in DOMAIN A, NEW k \in DOMAIN A, TypeOf(i) = TypeOf(k),
                    A[i].stage = A[k].stage, A[i].created <= A[k].created, Recent(A, P, i)
             PROVE  Recent(A, P, k)
  BY DEF Renewed
<1>1. Recent(A, O, i)
  BY RecentBefore
<1>2. Recent(A, O, k)
  BY <1>1 DEF Renewed
<1>3. QED
  BY <1>2, RecentAfter

\* p is the newest record of its type.
LatestOf(A, p) ==
    p \in DOMAIN A /\ \A q \in DOMAIN A : TypeOf(q) = TypeOf(p) => A[q].created <= A[p].created

\* A stage that registers j with the latest artifacts as its parents renews its output.
LEMMA RenewedRegister ==
    ASSUME NEW A, NEW O, NEW B, Extends(A, O, B, O), Shaped(A, O), Shaped(B, O), Rooted(O),
           Renewed(A, O), NEW j \in DOMAIN B, DOMAIN B = DOMAIN A \cup {j},
           \A x \in DOMAIN B : B[x].created \in Nat,
           \A x \in DOMAIN A : x # j => B[x].created = A[x].created /\ A[x].created < B[j].created,
           \A p \in B[j].parents : LatestOf(A, p),
           \A t \in Consumes(B[j].stage) : Present(A, t) => \E p \in B[j].parents : TypeOf(p) = t,
           B[j].stage \in FromModel => Newest(O, Sha(j))
    PROVE  Renewed(B, O)
<1> SUFFICES ASSUME NEW i \in DOMAIN B, NEW k \in DOMAIN B, TypeOf(i) = TypeOf(k),
                    B[i].stage = B[k].stage, B[i].created <= B[k].created, Recent(B, O, i),
                    i # k
             PROVE  Recent(B, O, k)
  BY DEF Renewed
<1>1. i # j
  <2>1. ASSUME i = j PROVE FALSE
    <3>1. B[k].created < B[i].created
      BY <2>1
    <3>2. B[k].created \in Nat /\ B[i].created \in Nat
      OBVIOUS
    <3>3. QED
      BY <3>1, <3>2
  <2>2. QED
    BY <2>1
<1>2. i \in DOMAIN A /\ Recent(A, O, i)
  BY <1>1, RecentBefore
<1>3. CASE k # j
  <2>1. k \in DOMAIN A /\ A[i].created <= A[k].created /\ A[i].stage = A[k].stage
    BY <1>1, <1>2, <1>3 DEF Extends
  <2>2. Recent(A, O, k)
    BY <1>2, <2>1 DEF Renewed
  <2>3. B[i].stage = A[k].stage
    BY <2>1 DEF Extends
  <2>4. QED
    BY <2>2, <2>3, RecentAfter
<1>4. CASE k = j
  <2>1. Fits(B, O, i) /\ \A q \in B[i].parents : q \in DOMAIN B /\ Recent(B, O, q)
    BY RecentFits
  <2>2. ASSUME NEW t \in Consumes(B[j].stage), Present(B, t)
        PROVE  \E p \in B[j].parents : TypeOf(p) = t
    BY <1>4, <2>2, NoNewInput
  <2>3. Fits(B, O, j)
    BY <1>4, <2>1, <2>2 DEF Fits
  <2>4. ASSUME NEW p \in B[j].parents PROVE Recent(B, O, p)
    <3>1. p \in DOMAIN A /\ p \in DOMAIN B /\ TypeOf(p) \in Consumes(B[i].stage)
      BY <1>4 DEF Shaped, LatestOf
    <3>2. PICK q \in B[i].parents : TypeOf(q) = TypeOf(p)
      BY <2>1, <3>1 DEF Fits, Present
    <3>3. q \in DOMAIN A /\ Recent(B, O, q) /\ Recent(A, O, q)
      <4>1. q \in DOMAIN A
        BY <1>2, <3>2 DEF Extends, Shaped
      <4>2. QED
        BY <2>1, <3>2, <4>1, RecentBefore
    <3>4. A[p].stage = A[q].stage
      <4>1. Plain(B[i].stage)
        BY <2>1 DEF Fits
      <4>2. QED
        BY <3>1, <3>2, <3>3, <4>1, OneSource
    <3>5. A[q].created <= A[p].created
      BY <3>2, <3>3 DEF LatestOf
    <3>6. Recent(A, O, p)
      BY <3>1, <3>2, <3>3, <3>4, <3>5 DEF Renewed
    <3>7. B[q].stage = A[p].stage
      BY <3>3, <3>4 DEF Extends
    <3>8. QED
      BY <3>2, <3>3, <3>6, <3>7, RecentAfter
  <2>5. QED
    BY <1>4, <2>3, <2>4, FitsRecent
<1>5. QED
  BY <1>3, <1>4

\* A set of numbers has a least element: the intervals below its elements are finite
\* sets, which are well-founded by inclusion.
LEMMA LeastExists ==
    ASSUME NEW T \in SUBSET Nat, T # {}
    PROVE  \E x \in T : \A y \in T : x <= y
<1> DEFINE R == StrictSubsetOrdering(Nat)
           Below == {1 .. n : n \in T}
<1>1. IsWellFoundedOn(R, FiniteSubsetsOf(Nat))
  BY FS_StrictSubsetOrderingWellFounded
<1>2. Below \subseteq FiniteSubsetsOf(Nat) /\ Below # {}
  <2>1. \A n \in T : 1 .. n \subseteq Nat /\ IsFiniteSet(1 .. n)
    BY FS_Interval
  <2>2. QED
    BY <2>1 DEF FiniteSubsetsOf
<1>3. \E b \in Below : \A c \in Below : ~ (<<c, b>> \in R)
  <2> HIDE DEF R, Below
  <2>1. QED
    BY <1>1, <1>2, WFMin
<1>4. PICK x \in T : \A y \in T : ~ (<<1 .. y, 1 .. x>> \in R)
  BY <1>3
<1>5. ASSUME NEW y \in T, y < x PROVE FALSE
  <2>1. 1 .. y \subseteq 1 .. x /\ x \in 1 .. x /\ x \notin 1 .. y
    BY <1>5
  <2>2. 1 .. y \in SUBSET Nat /\ 1 .. x \in SUBSET Nat
    OBVIOUS
  <2>3. <<1 .. y, 1 .. x>> \in R
    BY <2>1, <2>2 DEF StrictSubsetOrdering
  <2>4. QED
    BY <1>4, <2>3
<1>6. QED
  BY <1>5

\* What a stage lists are its outputs, in their order.
Prefixes(s, ids) == \A m \in DOMAIN ids : m \in DOMAIN Outputs[s] /\ TypeOf(ids[m]) = Outputs[s][m]
Listing(s, ids) == Prefixes(s, ids) /\ DOMAIN ids = DOMAIN Outputs[s]

\* The weights grow, unless they return to an earlier value.
Bound ==
    ~ reverted =>
        /\ modelSha # NoWeights => modelSha <= weights
        /\ \A c \in Built : origin[c].weights # NoWeights =>
              /\ origin[c].weights <= weights
              /\ modelSha # NoWeights => origin[c].weights <= modelSha

\* The types the run has have a newest artifact, older than the next one will be.
Stocked ==
    /\ \A t : Records(t) # {} => Latest(t) # {}
    /\ \A x \in Registered : artifacts[x].created < clock

\* A finished stage lists one artifact of each of its outputs, and what it requires is there.
Listed ==
    \A s \in StageName \ Skipped : stageRec[s].status \in Done =>
        Listing(s, stageRec[s].ids) /\ \A t \in Requires[s] : Records(t) # {}

\* So does a cache entry.
CacheListed == \A k \in DOMAIN cache :
    /\ DOMAIN cache[k].items = DOMAIN Outputs[k.stage]
    /\ \A m \in DOMAIN cache[k].items : TypeOf(cache[k].items[m].id) = Outputs[k.stage][m]

\* What the process has gathered so far.
Gathered ==
    /\ proc.pc \in Busy => Prefixes(Current, proc.ids) /\ \A t \in Requires[Current] : Records(t) # {}
    /\ proc.pc \in {"adopt", "adopted", "run", "published"} => proc.item = Len(proc.ids) + 1
    /\ proc.pc \in {"store", "succeeded", "cached"} => DOMAIN proc.ids = DOMAIN Outputs[Current]

\* The invariant, on top of IInv and RInv.
SInv ==
    /\ Shaped(artifacts, origin) /\ Rooted(origin) /\ Bound /\ Stocked
    /\ Listed /\ CacheListed /\ Gathered
    /\ ~ reverted => Renewed(artifacts, origin)

\* The inputs of a stage are the newest artifacts, one for every type the run has.
LEMMA InputFacts ==
    ASSUME Stocked, NEW s
    PROVE  /\ \A p \in Inputs(s) : LatestOf(artifacts, p) /\ TypeOf(p) \in Consumes(s)
           /\ \A t \in Consumes(s) : Present(artifacts, t) => \E p \in Inputs(s) : TypeOf(p) = t
<1>1. \A p \in Inputs(s) : LatestOf(artifacts, p) /\ TypeOf(p) \in Consumes(s)
  BY DEF Inputs, Latest, Records, Registered, LatestOf
<1>2. ASSUME NEW t \in Consumes(s), Present(artifacts, t)
      PROVE  \E p \in Inputs(s) : TypeOf(p) = t
  <2>1. Records(t) # {}
    BY <1>2 DEF Present, Records, Registered
  <2>2. PICK p : p \in Latest(t)
    BY <2>1 DEF Stocked
  <2>3. QED
    BY <2>2 DEF Inputs, Latest, Records
<1>3. QED
  BY <1>1, <1>2

\* An input of a stage comes from an earlier stage.
LEMMA Upstream ==
    ASSUME Shaped(artifacts, origin), NEW n \in DOMAIN Order, NEW p \in Registered,
           TypeOf(p) \in Consumes(Order[n])
    PROVE  \E m \in DOMAIN Order : m < n /\ artifacts[p].stage = Order[m] /\ Order[m] \notin Skipped
<1>1. PICK m \in DOMAIN Order : artifacts[p].stage = Order[m]
  BY DEF Shaped, Range, Registered
<1>2. Publishes(Order[m], TypeOf(p)) /\ Order[m] \notin Skipped
  BY <1>1 DEF Shaped, Registered
<1>3. ~ (n <= m)
  BY <1>2, OrderAssumption
<1>4. m \in Nat /\ n \in Nat
  BY PipelineAssumption
<1>5. QED
  BY <1>1, <1>2, <1>3, <1>4

\* After a full success, every applicable stage lists an artifact of each of its outputs,
\* made from its inputs as they are and from the model's weights.
LEMMA Relisted ==
    ASSUME IInv, RInv, SInv, FullSuccess, NEW s \in Applicable, NEW t \in Range(Outputs[s])
    PROVE  \E k \in Registered :
              /\ TypeOf(k) = t /\ artifacts[k].stage = s /\ artifacts[k].parents = Inputs(s)
              /\ s \in FromModel => origin[Sha(k)].weights = modelSha /\ modelSha # NoWeights
<1>1. s \in StageName \ Skipped /\ Fresh(s, modelSha)
  BY PipelineAssumption DEF Applicable, RInv, Finished
<1>2. /\ Listing(s, stageRec[s].ids) /\ Range(stageRec[s].ids) \subseteq Registered
      /\ \A id \in Range(stageRec[s].ids) : BuiltUnder(id, KeyOf(s, modelSha))
  BY <1>1 DEF Fresh, SInv, Listed, IInv, RecordsSound, RecSound
<1>3. PICK k \in Range(stageRec[s].ids) : TypeOf(k) = t
  <2>1. PICK m \in DOMAIN Outputs[s] : Outputs[s][m] = t
    BY DEF Range
  <2>2. QED
    BY <1>2, <2>1 DEF Listing, Prefixes, Range
<1>4. /\ k \in Registered /\ origin[Sha(k)] = Source(t, KeyOf(s, modelSha))
  BY <1>2, <1>3 DEF BuiltUnder
<1>5. artifacts[k].stage = s /\ artifacts[k].parents = Inputs(s)
  BY <1>4 DEF SInv, Shaped, Registered, IInv, ManifestSound, Source, KeyOf
<1>6. s \in FromModel => origin[Sha(k)].weights = modelSha /\ modelSha # NoWeights
  BY <1>1, <1>4, SourceAssumption DEF Source, KeyOf, Fresh
<1>7. QED
  BY <1>3, <1>4, <1>5, <1>6

\* The stages that consume what another one publishes leave each type to one stage.
LEMMA InputsPlain ==
    ASSUME NEW n \in DOMAIN Order, NEW l \in DOMAIN Order, NEW u \in Consumes(Order[l]),
           Publishes(Order[n], u)
    PROVE  Plain(Order[n])
<1> SUFFICES ASSUME NEW t \in Consumes(Order[n]), NEW a \in DOMAIN Order, NEW b \in DOMAIN Order,
                    Publishes(Order[a], t), Publishes(Order[b], t), a # b
             PROVE  FALSE
  BY DEF Plain
<1>1. t \in ArtifactType
  BY PipelineAssumption DEF Consumes
<1>2. \A k, j \in DOMAIN Order : t \in Consumes(Order[k]) =>
         \A v \in Consumes(Order[j]) : ~ Publishes(Order[k], v)
  BY <1>1, ProducerAssumption
<1>3. QED
  BY <1>2

\* After a full success, everything the stages took as inputs is recent.
LEMMA InputsRecent ==
    ASSUME IInv, RInv, SInv, FullSuccess, ~ reverted, NEW s \in Applicable, NEW j \in Inputs(s)
    PROVE  Recent(artifacts, origin, j)
<1> DEFINE Stale(n, p) ==
             /\ p \in Registered /\ artifacts[p].stage = Order[n]
             /\ \E r \in Applicable : p \in Inputs(r)
             /\ ~ Recent(artifacts, origin, p)
           Late == {n \in DOMAIN Order : \E p : Stale(n, p)}
<1> SUFFICES ASSUME ~ Recent(artifacts, origin, j) PROVE FALSE
  OBVIOUS
<1>1. \A r, p : p \in Inputs(r) => p \in Registered /\ TypeOf(p) \in Consumes(r)
  BY InputFacts DEF SInv, LatestOf, Registered
<1>2. j \in Registered
  BY <1>1
<1>3. PICK m \in DOMAIN Order : artifacts[j].stage = Order[m]
  BY <1>2 DEF SInv, Shaped, Range, Registered
<1>4. Late # {} /\ Late \subseteq Nat
  <2>1. Stale(m, j)
    BY <1>2, <1>3
  <2>2. DOMAIN Order \subseteq Nat
    BY PipelineAssumption
  <2>3. QED
    BY <2>1, <2>2
<1> HIDE DEF Late
<1>5. PICK n \in Late : \A l \in Late : n <= l
  BY <1>4, LeastExists
<1> USE DEF Late
<1>6. PICK p : Stale(n, p)
  OBVIOUS
<1>7. PICK r \in Applicable : p \in Inputs(r)
  BY <1>6
<1>8. PICK l \in DOMAIN Order : r = Order[l]
  BY DEF Applicable
<1>9. Order[n] \in Applicable /\ Publishes(Order[n], TypeOf(p))
  BY <1>6 DEF SInv, Shaped, Applicable, Registered
<1>10. PICK k \in Registered :
          /\ TypeOf(k) = TypeOf(p) /\ artifacts[k].stage = Order[n]
          /\ artifacts[k].parents = Inputs(Order[n])
          /\ Order[n] \in FromModel => origin[Sha(k)].weights = modelSha /\ modelSha # NoWeights
  BY <1>9, Relisted DEF Publishes
<1>11. ASSUME NEW q \in artifacts[k].parents PROVE Recent(artifacts, origin, q)
  <2>1. q \in Registered /\ TypeOf(q) \in Consumes(Order[n])
    BY <1>1, <1>10
  <2>2. PICK i \in DOMAIN Order : i < n /\ artifacts[q].stage = Order[i]
    BY <2>1, Upstream DEF SInv
  <2>3. i \in Nat /\ n \in Nat
    BY PipelineAssumption
  <2>4. i \notin Late
    BY <1>5, <2>2, <2>3
  <2>5. QED
    BY <1>9, <1>10, <2>1, <2>2, <2>4
<1>12. Fits(artifacts, origin, k)
  <2>1. Plain(Order[n])
    BY <1>1, <1>7, <1>8, <1>9, InputsPlain
  <2>2. Order[n] \in FromModel => Newest(origin, Sha(k))
    BY <1>10 DEF SInv, Bound, Newest, Built
  <2>3. \A t \in Consumes(Order[n]) : Present(artifacts, t) => \E q \in Inputs(Order[n]) : TypeOf(q) = t
    BY InputFacts DEF SInv
  <2>4. QED
    BY <1>10, <2>1, <2>2, <2>3 DEF Fits
<1>13. Recent(artifacts, origin, k)
  BY <1>11, <1>12, FitsRecent DEF Registered
<1>14. artifacts[k].created <= artifacts[p].created
  BY <1>7, <1>10, InputFacts DEF SInv, LatestOf, Registered
<1>15. QED
  BY <1>6, <1>10, <1>13, <1>14 DEF SInv, Renewed, Registered

(* The weights that went into a content *)

\* The contents that went into content c: what belongs to every set that has c, and with
\* a content what it was built from.
RootClosed(X) == X \subseteq Built /\ \A d \in X : \A i \in origin[d].inputs : Sha(i) \in X
Roots(c) == {d \in Built : \A X \in SUBSET Built : c \in X /\ RootClosed(X) => d \in X}
RootsOf == [c \in Built |-> {origin[d].weights : d \in Roots(c)} \ {NoWeights}]

\* What a content goes back to: itself and what its inputs go back to.
LEMMA RootsStep ==
    ASSUME Rooted(origin), NEW c \in Built
    PROVE  Roots(c) = {c} \cup UNION {Roots(Sha(i)) : i \in origin[c].inputs}
<1> DEFINE Y == {c} \cup UNION {Roots(Sha(i)) : i \in origin[c].inputs}
<1>1. \A i \in origin[c].inputs : Sha(i) \in Built
  BY DEF Rooted, Built
<1>2. \A e : Roots(e) \subseteq Built /\ (e \in Built => e \in Roots(e))
  BY DEF Roots
<1>3. ASSUME NEW e, NEW d \in Roots(e), NEW i \in origin[d].inputs PROVE Sha(i) \in Roots(e)
  <2>1. Sha(i) \in Built
    BY <1>3 DEF Rooted, Built, Roots
  <2>2. QED
    BY <1>3, <2>1 DEF Roots, RootClosed
<1>4. RootClosed(Y)
  <2>1. Y \subseteq Built
    BY <1>2
  <2>2. ASSUME NEW d \in Y, NEW i \in origin[d].inputs PROVE Sha(i) \in Y
    BY <1>1, <1>2, <1>3, <2>2
  <2>3. QED
    BY <2>1, <2>2 DEF RootClosed
<1>5. Roots(c) \subseteq Y
  <2>1. Y \in SUBSET Built /\ c \in Y
    BY <1>4 DEF RootClosed
  <2> HIDE DEF Y
  <2>2. QED
    BY <1>4, <2>1 DEF Roots
<1>6. ASSUME NEW i \in origin[c].inputs, NEW d \in Roots(Sha(i)) PROVE d \in Roots(c)
  <2>1. ASSUME NEW X \in SUBSET Built, c \in X, RootClosed(X) PROVE d \in X
    BY <1>6, <2>1 DEF RootClosed, Roots
  <2>2. QED
    BY <1>6, <2>1 DEF Roots
<1>7. QED
  BY <1>2, <1>5, <1>6

\* Such a function exists, so RootWeights is one: its equation holds.
LEMMA RootWeightsStep ==
    ASSUME Rooted(origin), NEW c \in Built
    PROVE  RootWeights[c] = ({origin[c].weights} \ {NoWeights})
                               \cup UNION {RootWeights[Sha(i)] : i \in origin[c].inputs}
<1> DEFINE Step1(f, d) == ({origin[d].weights} \ {NoWeights})
                               \cup UNION {f[Sha(i)] : i \in origin[d].inputs}
<1>1. ASSUME NEW d \in Built PROVE RootsOf[d] = Step1(RootsOf, d)
  <2>1. \A i \in origin[d].inputs : Sha(i) \in Built
    BY DEF Rooted, Built
  <2>2. Roots(d) = {d} \cup UNION {Roots(Sha(i)) : i \in origin[d].inputs}
    BY RootsStep
  <2>3. \A e \in Built : RootsOf[e] = {origin[x].weights : x \in Roots(e)} \ {NoWeights}
    BY DEF RootsOf
  <2>4. \A i \in origin[d].inputs :
           RootsOf[Sha(i)] = {origin[x].weights : x \in Roots(Sha(i))} \ {NoWeights}
    BY <2>1, <2>3
  <2>5. ASSUME NEW w PROVE w \in RootsOf[d] <=> w \in Step1(RootsOf, d)
    BY <2>2, <2>3, <2>4
  <2>6. QED
    BY <2>5
<1>2. RootsOf = [d \in Built |-> Step1(RootsOf, d)]
  BY <1>1 DEF RootsOf
<1>3. \E f : f = [d \in Built |-> Step1(f, d)]
  BY <1>2
<1>4. RootWeights = CHOOSE f : f = [d \in Built |-> Step1(f, d)]
  BY DEF RootWeights
<1>5. RootWeights = [d \in Built |-> Step1(RootWeights, d)]
  BY <1>3, <1>4
<1>6. QED
  BY <1>5

\* The first applicable stage reads the weights: a content was built from the model's.
LEMMA ModelRead ==
    ASSUME IInv, RInv, SInv, FullSuccess, Applicable # {}
    PROVE  modelSha \in Weights /\ \E c \in Built : origin[c].weights = modelSha
<1> DEFINE Places == {n \in DOMAIN Order : Order[n] \notin Skipped}
<1>1. Places # {} /\ Places \subseteq Nat
  BY PipelineAssumption DEF Applicable
<1> HIDE DEF Places
<1>2. PICK n \in Places : \A l \in Places : n <= l
  BY <1>1, LeastExists
<1> USE DEF Places
<1>3. Order[n] \in Applicable /\ Order[n] \in StageName \ Skipped
  BY PipelineAssumption DEF Applicable
<1>4. Order[n] \in FromModel
  <2>1. ASSUME Requires[Order[n]] # {} PROVE FALSE
    <3>1. PICK t \in Requires[Order[n]] : Records(t) # {}
      BY <1>3, <2>1 DEF SInv, Listed, RInv, Finished, Fresh
    <3>2. PICK q \in Registered : TypeOf(q) \in Consumes(Order[n])
      BY <3>1 DEF Records, Consumes
    <3>3. PICK m \in DOMAIN Order : m < n /\ Order[m] \notin Skipped
      BY <3>2, Upstream DEF SInv
    <3>4. n <= m /\ n \in Nat /\ m \in Nat
      BY <1>1, <1>2, <3>3
    <3>5. QED
      BY <3>3, <3>4
  <2>2. QED
    BY <2>1, SourceAssumption
<1>5. PICK t : t \in Range(Outputs[Order[n]])
  <2>1. Outputs[Order[n]] \in Seq(ArtifactType) /\ Outputs[Order[n]] # << >>
    BY <1>3, PipelineAssumption
  <2>2. 1 \in DOMAIN Outputs[Order[n]]
    BY <2>1
  <2>3. QED
    BY <2>2 DEF Range
<1>6. PICK k \in Registered : origin[Sha(k)].weights = modelSha /\ modelSha # NoWeights
  BY <1>3, <1>4, <1>5, Relisted
<1>7. QED
  BY <1>6 DEF IInv, ManifestSound, ScalarsTyped, Hash

\* A recent artifact was built from the model's weights and no others.
LEMMA RecentRoots ==
    ASSUME IInv, RInv, SInv, FullSuccess, ~ reverted, NEW j, Recent(artifacts, origin, j)
    PROVE  RootWeights[Sha(j)] = {modelSha}
<1> DEFINE Bad(n, p) ==
             /\ Recent(artifacts, origin, p) /\ artifacts[p].stage = Order[n]
             /\ RootWeights[Sha(p)] # {modelSha}
           Places == {n \in DOMAIN Order : \E p : Bad(n, p)}
<1> SUFFICES ASSUME RootWeights[Sha(j)] # {modelSha} PROVE FALSE
  OBVIOUS
<1>1. ASSUME NEW p, Recent(artifacts, origin, p)
      PROVE  /\ p \in Registered /\ Sha(p) \in Built
             /\ \E n \in DOMAIN Order : artifacts[p].stage = Order[n] /\ Order[n] \in Applicable
  BY <1>1, RecentFits DEF SInv, Shaped, Range, Registered, Built, Applicable
<1>2. Places # {} /\ Places \subseteq Nat
  <2>1. PICK n \in DOMAIN Order : artifacts[j].stage = Order[n]
    BY <1>1
  <2>2. Bad(n, j)
    BY <2>1
  <2>3. DOMAIN Order \subseteq Nat
    BY PipelineAssumption
  <2>4. QED
    BY <2>2, <2>3
<1> HIDE DEF Places
<1>3. PICK n \in Places : \A l \in Places : n <= l
  BY <1>2, LeastExists
<1> USE DEF Places
<1>4. PICK p : Bad(n, p)
  OBVIOUS
<1>5. p \in Registered /\ Sha(p) \in Built /\ Order[n] \in Applicable
  BY <1>1, <1>4
<1>6. modelSha \in Weights /\ \E c \in Built : origin[c].weights = modelSha
  BY <1>5, ModelRead
<1>7. ASSUME NEW q \in artifacts[p].parents PROVE RootWeights[Sha(q)] = {modelSha}
  <2>1. q \in Registered /\ TypeOf(q) \in Consumes(Order[n]) /\ Recent(artifacts, origin, q)
    BY <1>4, <1>5, RecentFits DEF SInv, Shaped, Registered
  <2>2. PICK i \in DOMAIN Order : i < n /\ artifacts[q].stage = Order[i]
    BY <2>1, Upstream DEF SInv
  <2>3. i \in Nat /\ n \in Nat
    BY PipelineAssumption
  <2>4. i \notin Places
    BY <1>3, <2>2, <2>3
  <2>5. QED
    BY <2>1, <2>2, <2>4
<1>8. /\ origin[Sha(p)].stage = Order[n] /\ artifacts[p].parents = origin[Sha(p)].inputs
  BY <1>4, <1>5 DEF SInv, Shaped, Registered, IInv, ManifestSound
<1>9. RootWeights[Sha(p)] = ({origin[Sha(p)].weights} \ {NoWeights})
                               \cup UNION {RootWeights[Sha(i)] : i \in artifacts[p].parents}
  BY <1>5, <1>8, RootWeightsStep DEF SInv
<1>10. CASE Order[n] \in FromModel
  <2>1. Newest(origin, Sha(p)) /\ origin[Sha(p)].weights \in Weights
    BY <1>4, <1>5, <1>8, <1>10, RecentFits DEF Fits, SInv, Rooted, Built
  <2>2. Weights \subseteq Nat /\ NoWeights \notin Weights
    BY PipelineAssumption
  <2>3. modelSha <= origin[Sha(p)].weights
    BY <1>6, <2>1, <2>2 DEF Newest, Built
  <2>4. origin[Sha(p)].weights <= modelSha
    BY <1>5, <1>6, <2>1, <2>2 DEF SInv, Bound
  <2>5. origin[Sha(p)].weights = modelSha
    <3>1. \A v, w \in Nat : v <= w /\ w <= v => v = w
      OBVIOUS
    <3>2. QED
      BY <1>6, <2>1, <2>2, <2>3, <2>4, <3>1
  <2>6. QED
    BY <1>4, <1>6, <1>7, <1>9, <2>2, <2>5
<1>11. CASE Order[n] \notin FromModel
  <2>1. origin[Sha(p)].weights = NoWeights
    BY <1>5, <1>8, <1>11 DEF SInv, Rooted, Built
  <2>2. \E q : q \in artifacts[p].parents
    BY <1>4, <1>5, <1>11, SourceAssumption DEF SInv, Shaped, Registered
  <2>3. QED
    BY <1>4, <1>7, <1>9, <2>1, <2>2
<1>12. QED
  BY <1>10, <1>11

\* What every applicable stage lists is built from the model.
LEMMA ListedFromModel ==
    ASSUME IInv, RInv, SInv, FullSuccess, ~ reverted PROVE BuiltFromModel
<1> SUFFICES ASSUME NEW s \in Applicable
             PROVE  /\ stageRec[s].status \in Done
                    /\ \A id \in Range(stageRec[s].ids) : RootWeights[Sha(id)] = {modelSha}
  BY DEF BuiltFromModel
<1>1. s \in StageName \ Skipped /\ Fresh(s, modelSha)
  BY PipelineAssumption DEF Applicable, RInv, Finished
<1>2. ASSUME NEW id \in Range(stageRec[s].ids) PROVE RootWeights[Sha(id)] = {modelSha}
  <2>1. Sha(id) \in Built /\ origin[Sha(id)] = Source(TypeOf(id), KeyOf(s, modelSha))
    BY <1>1, <1>2 DEF Fresh, IInv, RecordsSound, RecSound, BuiltUnder
  <2>2. RootWeights[Sha(id)] = ({origin[Sha(id)].weights} \ {NoWeights})
                                  \cup UNION {RootWeights[Sha(i)] : i \in Inputs(s)}
    BY <2>1, RootWeightsStep DEF SInv, Source, KeyOf
  <2>3. \A i \in Inputs(s) : RootWeights[Sha(i)] = {modelSha}
    BY InputsRecent, RecentRoots
  <2>4. CASE s \in FromModel
    <3>1. origin[Sha(id)].weights = modelSha /\ modelSha # NoWeights
      BY <1>1, <2>1, <2>4, SourceAssumption DEF Source, KeyOf, Fresh
    <3>2. QED
      BY <2>2, <2>3, <3>1
  <2>5. CASE s \notin FromModel
    <3>1. origin[Sha(id)].weights = NoWeights
      BY <2>1, <2>5 DEF Source, KeyOf
    <3>2. \E i : i \in Inputs(s)
      <4>1. Requires[s] # {}
        BY <2>5, SourceAssumption DEF Applicable
      <4>2. PICK t \in Requires[s] : Records(t) # {}
        BY <1>1, <4>1 DEF SInv, Listed, Fresh
      <4>3. t \in Consumes(s) /\ Present(artifacts, t)
        BY <4>2 DEF Consumes, Records, Present, Registered
      <4>4. QED
        BY <4>3, InputFacts DEF SInv
    <3>3. QED
      BY <2>2, <2>3, <3>1, <3>2
  <2>6. QED
    BY <2>4, <2>5
<1>3. QED
  BY <1>1, <1>2 DEF Fresh

-----------------------------------------------------------------------------
(* What a step does to the artifacts *)

\* Two sequences with one domain are equally long.
LEMMA SameLen ==
    ASSUME NEW T, NEW U, NEW a \in Seq(T), NEW b \in Seq(U), DOMAIN a = DOMAIN b
    PROVE  Len(a) = Len(b)
<1>1. \A m, n \in Nat : 1 .. m = 1 .. n => ~ (m < n)
  <2> SUFFICES ASSUME NEW m \in Nat, NEW n \in Nat, 1 .. m = 1 .. n, m < n PROVE FALSE
    OBVIOUS
  <2>1. n \in 1 .. n /\ n \notin 1 .. m
    OBVIOUS
  <2>2. QED
    BY <2>1
<1>2. /\ Len(a) \in Nat /\ Len(b) \in Nat
      /\ DOMAIN a = 1 .. Len(a) /\ DOMAIN b = 1 .. Len(b)
  OBVIOUS
<1>3. ~ (Len(a) < Len(b)) /\ ~ (Len(b) < Len(a))
  BY <1>1, <1>2
<1>4. \A m, n \in Nat : ~ (m < n) /\ ~ (n < m) => m = n
  OBVIOUS
<1>5. QED
  BY <1>2, <1>3, <1>4

\* The record of id is new, or replaces an older one.
Enters(id) ==
    /\ proc.key.inputs \subseteq Registered /\ clock' = clock + 1
    /\ \E path : artifacts' = Bind(artifacts, id,
          [path |-> path, created |-> clock, stage |-> Current, parents |-> proc.key.inputs])

\* The process goes on to its next output, or is through with them.
Takes(id) ==
    /\ proc'.ids = Append(proc.ids, id) /\ proc'.item = proc.item + 1
    /\ proc'.cur = proc.cur
    /\ proc'.pc \in IF proc.item < Len(Outputs[Current]) THEN {"adopt", "run"}
                                                          ELSE {"cached", "store"}

\* A registration enters one artifact or changes nothing.
LEMMA RegisterEnters ==
    ASSUME NEW path, NEW type, RegisterFile(path, type, Current, proc.key.inputs)
    PROVE  UNCHANGED <<artifacts, clock>> \/ Enters(MakeId(type, files[path]))
<1>1. CASE RegisterReply(path, type, proc.key.inputs) = "added"
  <2>1. proc.key.inputs \subseteq Registered
    BY <1>1 DEF RegisterReply
  <2>2. QED
    BY <1>1, <2>1 DEF RegisterFile, Enters
<1>2. QED
  BY <1>1 DEF RegisterFile

\* Both places that register take the output the process is at.
LEMMA Registration ==
    ASSUME IInv, RInv, SInv, AdoptRegister \/ RegisterItem
    PROVE  \E id :
              /\ BuiltUnder(id, proc.key) /\ TypeOf(id) = Outputs[Current][proc.item]
              /\ proc.item \in DOMAIN Outputs[Current]
              /\ UNCHANGED <<artifacts, clock>> \/ Enters(id)
              /\ (stageRec' = stageRec /\ Takes(id)) \/ \E reason : Fail(reason)
<1>1. CASE AdoptRegister
  <2> DEFINE items == cache[proc.key].items
             type == TypeOf(Cached.id)
  <2>1. /\ proc.pc = "adopted" /\ proc.key \in DOMAIN cache /\ proc.item \in DOMAIN items
        /\ proc.key.stage = Current /\ Current \in StageName
        /\ Holds(Cached.path, Sha(Cached.id))
    BY <1>1 DEF AdoptRegister, IInv, ProcSound, RInv, AtWork, Busy, KeyOf
  <2>2. /\ BuiltUnder(Cached.id, proc.key) /\ Cached.id \in Id
        /\ items \in Seq([id : Id, path : Path])
    BY <2>1, CachedFacts
  <2>3. /\ DOMAIN items = DOMAIN Outputs[Current]
        /\ type = Outputs[Current][proc.item]
    BY <2>1 DEF SInv, CacheListed, Cached
  <2>4. Outputs[Current] \in Seq(ArtifactType)
    BY <2>1, PipelineAssumption
  <2>5. Len(items) = Len(Outputs[Current])
    <3> HIDE DEF items
    <3>1. QED
      BY <2>2, <2>3, <2>4, SameLen
  <2>6. Cached.id = MakeId(type, files[Cached.path])
    BY <2>1, <2>2 DEF Holds, MakeId, TypeOf, Sha, Id
  <2>7. /\ RegisterFile(Cached.path, type, Current, proc.key.inputs)
        /\ \/ /\ proc' = [proc EXCEPT !.ids = Append(@, Cached.id), !.path = {}, !.item = @ + 1,
                           !.pc = IF proc.item < Len(items) THEN "adopt" ELSE "cached"]
              /\ stageRec' = stageRec
           \/ \E reason : Fail(reason)
    BY <1>1, <2>6 DEF AdoptRegister, Registering
  <2>8. UNCHANGED <<artifacts, clock>> \/ Enters(Cached.id)
    BY <2>6, <2>7, RegisterEnters
  <2>9. (stageRec' = stageRec /\ Takes(Cached.id)) \/ \E reason : Fail(reason)
    BY <2>5, <2>7 DEF Takes, IInv, ProcTyped, Field
  <2>10. QED
    BY <2>1, <2>2, <2>3, <2>8, <2>9
<1>2. CASE RegisterItem
  <2> DEFINE type == Outputs[Current][proc.item]
  <2>1. proc.pc = "published" /\ proc.item \in DOMAIN Outputs[Current]
    BY <1>2 DEF RegisterItem, IInv, ProcSound
  <2>2. PICK path \in proc.path : Registering(path, type, Outputs[Current], "run", "store")
    BY <1>2 DEF RegisterItem
  <2>3. files[path] \in Built /\ origin[files[path]] = Source(type, proc.key)
    BY <2>1 DEF IInv, ProcSound
  <2> DEFINE id == MakeId(type, files[path])
  <2>4. BuiltUnder(id, proc.key) /\ TypeOf(id) = type
    BY <2>3 DEF BuiltUnder, MakeId, TypeOf, Sha
  <2>5. /\ RegisterFile(path, type, Current, proc.key.inputs)
        /\ \/ /\ proc' = [proc EXCEPT !.ids = Append(@, id), !.path = {}, !.item = @ + 1,
                           !.pc = IF proc.item < Len(Outputs[Current]) THEN "run" ELSE "store"]
              /\ stageRec' = stageRec
           \/ \E reason : Fail(reason)
    BY <2>2 DEF Registering
  <2>6. UNCHANGED <<artifacts, clock>> \/ Enters(id)
    BY <2>5, RegisterEnters
  <2>7. (stageRec' = stageRec /\ Takes(id)) \/ \E reason : Fail(reason)
    BY <2>5 DEF Takes, IInv, ProcTyped, Field
  <2> HIDE DEF id
  <2>8. QED
    BY <2>1, <2>4, <2>6, <2>7
<1>3. QED
  BY <1>1, <1>2

\* What the process builds from while it is busy.
LEMMA WorkFacts ==
    ASSUME IInv, RInv, SInv, proc.pc \in Busy
    PROVE  /\ Current \in StageName \ Skipped /\ Current \in Range(Order)
           /\ proc.key.stage = Current /\ proc.key.inputs = Inputs(Current)
           /\ Current \in FromModel =>
                 proc.key.weights = modelSha /\ modelSha \in Weights
           /\ \A t \in Requires[Current] : \E p \in Inputs(Current) : TypeOf(p) = t
<1>1. /\ proc.cur \in DOMAIN Order /\ proc.key = KeyOf(Current, proc.loaded)
      /\ Current \in DependsOnModel => proc.loaded # NoWeights
      /\ Current \in StageName \ Skipped
  BY DEF RInv, AtWork, IInv, ProcSound
<1>2. proc.loaded # NoWeights => modelSha = proc.loaded /\ modelSha \in Weights
  BY DEF RInv, Placed, IInv, ScalarsTyped, Hash
<1>3. Current \in FromModel => proc.key.weights = modelSha /\ modelSha \in Weights
  BY <1>1, <1>2, SourceAssumption DEF KeyOf
<1>4. ASSUME NEW t \in Requires[Current] PROVE \E p \in Inputs(Current) : TypeOf(p) = t
  <2>1. t \in Consumes(Current) /\ Present(artifacts, t)
    BY <1>4 DEF SInv, Gathered, Records, Registered, Present, Consumes
  <2>2. QED
    BY <2>1, InputFacts DEF SInv
<1>5. QED
  BY <1>1, <1>3, <1>4 DEF KeyOf, Current, Range

\* A new content is built from what the process has.
LEMMA PublishedOrigin ==
    ASSUME IInv, PublishItem
    PROVE  \A c \in Built' : \/ c \in Built /\ origin'[c] = origin[c]
                             \/ origin'[c] = Source(Outputs[Current][proc.item], proc.key)
<1>1. \/ origin' = origin
      \/ origin' = Append(origin, Source(Outputs[Current][proc.item], proc.key))
  BY DEF PublishItem
<1>2. CASE origin' = origin
  BY <1>2 DEF Built
<1>3. CASE origin' = Append(origin, Source(Outputs[Current][proc.item], proc.key))
  BY <1>3, BuiltGrows DEF IInv
<1>4. QED
  BY <1>1, <1>2, <1>3

LEMMA RootedStep == IInv /\ RInv /\ SInv /\ [Next]_vars => Rooted(origin)'
<1> SUFFICES ASSUME IInv, RInv, SInv, [Next]_vars PROVE Rooted(origin)'
  OBVIOUS
<1>1. CASE origin' = origin
  BY <1>1 DEF SInv, Rooted
<1>2. CASE PublishItem
  <2>1. /\ Grows /\ proc.pc \in Busy
    BY <1>2, PublishFacts DEF PublishItem, Busy
  <2> DEFINE new == Source(Outputs[Current][proc.item], proc.key)
  <2>2. /\ new.weights \in Hash
        /\ IF new.stage \in FromModel THEN new.weights \in Weights ELSE new.weights = NoWeights
        /\ \A i \in new.inputs : Sha(i) \in Built
    BY <2>1, WorkFacts, InputFacts
       DEF Source, Hash, SInv, LatestOf, Shaped, Built
  <2> HIDE DEF new
  <2>3. \A c \in Built' : (c \in Built /\ origin'[c] = origin[c]) \/ origin'[c] = new
    BY <1>2, PublishedOrigin DEF new
  <2>4. ASSUME NEW c \in Built'
        PROVE  /\ origin'[c].weights \in Hash
               /\ IF origin'[c].stage \in FromModel THEN origin'[c].weights \in Weights
                                                    ELSE origin'[c].weights = NoWeights
               /\ \A i \in origin'[c].inputs : Sha(i) \in Built'
    <3>1. Built \subseteq Built'
      BY <2>1 DEF Grows
    <3>2. CASE c \in Built /\ origin'[c] = origin[c]
      BY <3>1, <3>2 DEF SInv, Rooted, Built
    <3>3. CASE origin'[c] = new
      BY <2>2, <3>1, <3>3
    <3>4. QED
      BY <2>3, <3>2, <3>3
  <2>5. QED
    BY <2>4 DEF Rooted, Built
<1>3. QED
  BY <1>1, <1>2, OriginFrame

\* An artifact that enters is recorded with its stage and inputs; no other record changes.
LEMMA EntersFacts ==
    ASSUME IInv, RInv, SInv, AdoptRegister \/ RegisterItem, NEW id, BuiltUnder(id, proc.key),
           TypeOf(id) = Outputs[Current][proc.item], proc.item \in DOMAIN Outputs[Current],
           Enters(id)
    PROVE  /\ Registered' = Registered \cup {id} /\ proc.pc \in Busy /\ origin' = origin
           /\ artifacts'[id].stage = Current /\ artifacts'[id].parents = Inputs(Current)
           /\ artifacts'[id].created = clock /\ clock' = clock + 1 /\ clock \in Nat
           /\ \A x \in Registered : x # id => artifacts'[x] = artifacts[x]
           /\ Inputs(Current) \subseteq Registered
           /\ Sha(id) \in Built /\ origin[Sha(id)] = Source(TypeOf(id), proc.key)
           /\ TypeOf(id) \in Range(Outputs[Current]) /\ TypeOf(id) \notin Consumes(Current)
<1>1. proc.pc \in Busy /\ origin' = origin
  BY AdoptRegisterFacts, RegisterItemFacts DEF AdoptRegister, RegisterItem, Busy, RegisterOutcome
<1>2. /\ proc.key.inputs = Inputs(Current) /\ Current \in Range(Order)
  BY <1>1, WorkFacts
<1>3. PICK path : artifacts' = Bind(artifacts, id,
          [path |-> path, created |-> clock, stage |-> Current, parents |-> proc.key.inputs])
  BY DEF Enters
<1>4. TypeOf(id) \in Range(Outputs[Current])
  BY DEF Range
<1>5. TypeOf(id) \notin Consumes(Current)
  <2>1. PICK n \in DOMAIN Order : Current = Order[n]
    BY <1>2 DEF Range
  <2>2. n \in Nat
    BY PipelineAssumption
  <2>3. n <= n
    BY <2>2
  <2>4. QED
    BY <1>4, <2>1, <2>3, OrderAssumption DEF Publishes
<1>6. /\ Registered' = Registered \cup {id}
      /\ artifacts'[id].stage = Current /\ artifacts'[id].parents = Inputs(Current)
      /\ artifacts'[id].created = clock
      /\ \A x \in Registered : x # id => artifacts'[x] = artifacts[x]
  BY <1>2, <1>3 DEF Bind, Registered
<1>7. clock' = clock + 1 /\ clock \in Nat /\ Inputs(Current) \subseteq Registered
  BY <1>2 DEF Enters, IInv, ScalarsTyped
<1>8. QED
  BY <1>1, <1>4, <1>5, <1>6, <1>7 DEF BuiltUnder

\* The record that a new one of the same id replaces has the same stage and parents.
LEMMA SameRecord ==
    ASSUME IInv, RInv, SInv, proc.pc \in Busy, NEW id \in Registered,
           origin[Sha(id)] = Source(TypeOf(id), proc.key)
    PROVE  artifacts[id].stage = Current /\ artifacts[id].parents = Inputs(Current)
BY WorkFacts DEF SInv, Shaped, Registered, IInv, ManifestSound, Source

LEMMA ShapedStep == IInv /\ RInv /\ SInv /\ [Next]_vars => Shaped(artifacts, origin)'
<1> SUFFICES ASSUME IInv, RInv, SInv, [Next]_vars PROVE Shaped(artifacts, origin)'
  OBVIOUS
<1>1. CASE artifacts' = artifacts
  <2>1. \A c \in Built : c \in Built' /\ origin'[c] = origin[c]
    BY OriginStep DEF Grows
  <2>2. QED
    BY <1>1, <2>1 DEF SInv, Shaped, Built
<1>2. CASE NewRun
  BY <1>2 DEF NewRun, Shaped
<1>3. CASE AdoptRegister \/ RegisterItem
  <2>1. PICK id : /\ BuiltUnder(id, proc.key) /\ TypeOf(id) = Outputs[Current][proc.item]
                  /\ proc.item \in DOMAIN Outputs[Current]
                  /\ UNCHANGED <<artifacts, clock>> \/ Enters(id)
    BY <1>3, Registration
  <2>2. CASE Enters(id)
    <3>1. /\ Registered' = Registered \cup {id} /\ proc.pc \in Busy /\ origin' = origin
          /\ artifacts'[id].stage = Current /\ artifacts'[id].parents = Inputs(Current)
          /\ \A x \in Registered : x # id => artifacts'[x] = artifacts[x]
          /\ Inputs(Current) \subseteq Registered
          /\ Sha(id) \in Built /\ origin[Sha(id)] = Source(TypeOf(id), proc.key)
          /\ TypeOf(id) \in Range(Outputs[Current])
      BY <1>3, <2>1, <2>2, EntersFacts
    <3>2. /\ Current \in StageName \ Skipped /\ Current \in Range(Order)
          /\ proc.key.stage = Current
          /\ \A t \in Requires[Current] : \E p \in Inputs(Current) : TypeOf(p) = t
      BY <3>1, WorkFacts
    <3>3. \A p \in Inputs(Current) : TypeOf(p) \in Consumes(Current)
      BY InputFacts DEF SInv
    <3>4. ASSUME NEW x \in Registered'
          PROVE  /\ artifacts'[x].stage \in Range(Order) \ Skipped
                 /\ Publishes(artifacts'[x].stage, TypeOf(x))
                 /\ artifacts'[x].parents \subseteq Registered'
                 /\ \A p \in artifacts'[x].parents : TypeOf(p) \in Consumes(artifacts'[x].stage)
                 /\ \A t \in Requires[artifacts'[x].stage] :
                       \E p \in artifacts'[x].parents : TypeOf(p) = t
                 /\ Sha(x) \in Built /\ origin[Sha(x)].stage = artifacts'[x].stage
      <4>1. CASE x = id
        BY <3>1, <3>2, <3>3, <4>1 DEF Publishes, Source
      <4>2. CASE x # id
        BY <3>1, <4>2 DEF SInv, Shaped, Registered, Built
      <4>3. QED
        BY <4>1, <4>2
    <3>5. QED
      BY <3>1, <3>4 DEF Shaped, Registered, Built
  <2>3. QED
    BY <1>1, <2>1, <2>2
<1>4. QED
  BY <1>1, <1>2, <1>3, ManifestFrame

\* Weights that were put back once stay so.
LEMMA NotReverted == ASSUME [Next]_vars, ~ reverted' PROVE ~ reverted
<1>1. ASSUME Step \/ Fault \/ NewRun PROVE reverted' = reverted
  BY <1>1 DEF Fault, AdoptTorn, StageFails, Fail, Crash, Tamper, Delete, DamageCache, history,
     Step, SkipStage, FailInputs, ReuseOwn, BeginAdopt, BeginRun, RunUnder,
     AdoptMiss, Finish, AdoptCopy, AdoptRegister, RegisterItem, Registering, PublishItem,
     ComparisonFails, StoreInCache, Succeed, FailRun, NewRun
<1>2. QED
  BY <1>1 DEF Next, Start, EditWeights, RevertWeights, vars, history

\* Of two artifacts of one stage and type the later stays recent if the earlier is.
LEMMA RenewedStep ==
    IInv /\ RInv /\ SInv /\ [Next]_vars => (~ reverted => Renewed(artifacts, origin))'
<1> SUFFICES ASSUME IInv, RInv, SInv, [Next]_vars, ~ reverted'
             PROVE  Renewed(artifacts, origin)'
  OBVIOUS
<1>1. Shaped(artifacts, origin)' /\ Rooted(origin)' /\ Grows
  BY ShapedStep, RootedStep, OriginStep
<1>2. Shaped(artifacts, origin)
  BY DEF SInv
<1>3. ~ reverted
  BY NotReverted
<1>4. Renewed(artifacts, origin)
  BY <1>3 DEF SInv
<1>5. CASE artifacts' = artifacts
  <2>1. PICK A, O, P : A = artifacts /\ O = origin /\ P = origin'
    OBVIOUS
  <2>2. Extends(A, O, A, P) /\ Shaped(A, O) /\ Shaped(A, P) /\ Rooted(P) /\ Renewed(A, O)
    BY <1>1, <1>2, <1>4, <1>5, <2>1 DEF Extends, Grows, Built, Shaped
  <2>3. Renewed(A, P)
    BY <2>2, RenewedPublish
  <2>4. QED
    BY <1>5, <2>1, <2>3
<1>6. CASE NewRun
  BY <1>6 DEF NewRun, Renewed
<1>7. CASE AdoptRegister \/ RegisterItem
  <2>1. PICK id : /\ BuiltUnder(id, proc.key) /\ TypeOf(id) = Outputs[Current][proc.item]
                  /\ proc.item \in DOMAIN Outputs[Current]
                  /\ UNCHANGED <<artifacts, clock>> \/ Enters(id)
    BY <1>7, Registration
  <2>2. CASE Enters(id)
    <3>1. /\ Registered' = Registered \cup {id} /\ proc.pc \in Busy /\ origin' = origin
          /\ artifacts'[id].stage = Current /\ artifacts'[id].parents = Inputs(Current)
          /\ artifacts'[id].created = clock /\ clock \in Nat
          /\ \A x \in Registered : x # id => artifacts'[x] = artifacts[x]
          /\ Sha(id) \in Built /\ origin[Sha(id)] = Source(TypeOf(id), proc.key)
          /\ TypeOf(id) \notin Consumes(Current)
      BY <1>7, <2>1, <2>2, EntersFacts
    <3>2. PICK A, O, B, J : A = artifacts /\ O = origin /\ B = artifacts' /\ J = Inputs(Current)
      OBVIOUS
    <3>3. /\ DOMAIN B = DOMAIN A \cup {id} /\ B[id].stage = Current /\ B[id].parents = J
          /\ B[id].created = clock
          /\ \A x \in DOMAIN A : x # id => B[x] = A[x]
      BY <3>1, <3>2 DEF Registered
    <3>4. id \in DOMAIN A => A[id].stage = Current /\ A[id].parents = J
      BY <3>1, <3>2, SameRecord DEF Registered
    <3>5. Shaped(A, O) /\ Shaped(B, O) /\ Rooted(O) /\ Renewed(A, O)
      BY <1>1, <1>2, <1>4, <3>1, <3>2
    <3>6. Extends(A, O, B, O)
      <4>1. \A x \in DOMAIN A : /\ x \in DOMAIN B /\ B[x].stage = A[x].stage
                                /\ B[x].parents = A[x].parents
        BY <3>3, <3>4
      <4>2. \A y \in DOMAIN B : Sha(y) \in DOMAIN O
        BY <3>5 DEF Shaped
      <4>3. \A t \in Consumes(B[id].stage) : Present(B, t) => Present(A, t)
        BY <3>1, <3>3 DEF Present
      <4>4. \A y \in DOMAIN B \ DOMAIN A : y = id
        BY <3>3
      <4>5. QED
        BY <4>1, <4>2, <4>3, <4>4 DEF Extends
    <3>7. /\ \A x \in DOMAIN B : B[x].created \in Nat
          /\ \A x \in DOMAIN A : x # id => B[x].created = A[x].created /\ A[x].created < B[id].created
      BY <3>1, <3>2, <3>3 DEF SInv, Stocked, Registered, IInv, ManifestSound, Record
    <3>8. /\ \A p \in B[id].parents : LatestOf(A, p)
          /\ \A t \in Consumes(B[id].stage) : Present(A, t) => \E p \in B[id].parents : TypeOf(p) = t
      BY <3>2, <3>3, InputFacts DEF SInv
    <3>9. B[id].stage \in FromModel => Newest(O, Sha(id))
      <4>1. ASSUME Current \in FromModel
            PROVE  origin[Sha(id)].weights = modelSha /\ modelSha \in Weights
        BY <3>1, <4>1, WorkFacts DEF Source
      <4>2. NoWeights \notin Weights
        BY PipelineAssumption
      <4>3. QED
        BY <1>3, <3>2, <3>3, <4>1, <4>2 DEF SInv, Bound, Newest, Built
    <3>10. Renewed(B, O)
      BY <3>3, <3>5, <3>6, <3>7, <3>8, <3>9, RenewedRegister
    <3>11. QED
      BY <3>1, <3>2, <3>10
  <2>3. QED
    BY <1>5, <2>1, <2>2
<1>8. QED
  BY <1>5, <1>6, <1>7, ManifestFrame

-----------------------------------------------------------------------------
(* The manifest, the weights and the cache entries *)

\* The manifest names the weights that were read, and the weights grow.
LEMMA ModelStep ==
    ASSUME IInv, [Next]_vars, ~ reverted'
    PROVE  /\ modelSha' \in {modelSha, NoWeights, weights}
           /\ weights' = weights \/ (weights < weights' /\ modelSha' = modelSha)
<1>1. CASE Fault \/ NewRun
  BY <1>1 DEF Fault, AdoptTorn, StageFails, Fail, Crash, Tamper, Delete, DamageCache, NewRun
<1>2. CASE Step
  <2>1. ASSUME NEW loaded, NEW users, NEW s, RecordModel(loaded), loaded = LoadBy(users, s)
        PROVE  modelSha' = modelSha \/ modelSha' = weights
    BY <2>1 DEF RecordModel, LoadBy
  <2>2. ASSUME NEW s \in StageName, ReuseOwn(s) \/ BeginAdopt(s) \/ BeginRun(s) \/ AdoptMiss(s)
        PROVE  weights' = weights /\ (modelSha' = modelSha \/ modelSha' = weights)
    BY <2>1, <2>2 DEF ReuseOwn, BeginAdopt, BeginRun, AdoptMiss, RunUnder
  <2>3. weights' = weights /\ (modelSha' = modelSha \/ modelSha' = weights)
    BY <1>2, <2>2 DEF Step, SkipStage, FailInputs, Fail,
       Finish, AdoptCopy, AdoptRegister, RegisterItem, Registering, PublishItem,
       ComparisonFails, StoreInCache, Succeed, FailRun
  <2>4. QED
    BY <2>3
<1>3. ASSUME NEW w \in Weights, EditWeights(w) \/ RevertWeights(w)
      PROVE  weights < weights' /\ modelSha' = modelSha
  BY <1>3 DEF EditWeights, RevertWeights
<1>4. ASSUME NEW first, NEW last, Start(first, last) PROVE weights' = weights /\ modelSha' = modelSha
  BY <1>4 DEF Start
<1>5. CASE vars' = vars
  BY <1>5 DEF vars
<1>6. QED
  BY <1>1, <1>2, <1>3, <1>4, <1>5 DEF Next

\* The manifest never names weights newer than the file, nor does a content.
LEMMA BoundStep == IInv /\ RInv /\ SInv /\ [Next]_vars => Bound'
<1> SUFFICES ASSUME IInv, RInv, SInv, [Next]_vars, ~ reverted'
             PROVE  /\ modelSha' # NoWeights => modelSha' <= weights'
                    /\ \A c \in Built' : origin'[c].weights # NoWeights =>
                          /\ origin'[c].weights <= weights'
                          /\ modelSha' # NoWeights => origin'[c].weights <= modelSha'
  BY DEF Bound
<1>1. /\ Weights \subseteq Nat /\ NoWeights \notin Weights
      /\ weights \in Weights /\ weights' \in Weights
      /\ modelSha \in Hash /\ modelSha' \in Hash
  BY PipelineAssumption, ScalarsStep DEF IInv, ScalarsTyped
<1>2. /\ ~ reverted
      /\ modelSha' \in {modelSha, NoWeights, weights}
      /\ weights' = weights \/ (weights < weights' /\ modelSha' = modelSha)
  BY ModelStep, NotReverted
<1>3. /\ modelSha # NoWeights => modelSha <= weights
      /\ \A c \in Built : origin[c].weights # NoWeights =>
              /\ origin[c].weights <= weights
              /\ modelSha # NoWeights => origin[c].weights <= modelSha
  BY <1>2 DEF SInv, Bound
<1>4. \A u, v, w \in Nat : /\ u <= u /\ (u < v => u <= v)
                           /\ u <= v /\ v <= w => u <= w
  OBVIOUS
<1>5. modelSha' # NoWeights => modelSha' <= weights'
  BY <1>1, <1>2, <1>3, <1>4 DEF Hash
<1>6. ASSUME NEW w \in Weights, w <= weights, modelSha # NoWeights => w <= modelSha
      PROVE  w <= weights' /\ (modelSha' # NoWeights => w <= modelSha')
  BY <1>1, <1>2, <1>4, <1>6 DEF Hash
<1>7. ASSUME NEW c \in Built, origin[c].weights # NoWeights
      PROVE  /\ origin[c].weights \in Weights /\ origin[c].weights <= weights
             /\ modelSha # NoWeights => origin[c].weights <= modelSha
  BY <1>3, <1>7 DEF SInv, Rooted, Hash, Built
<1>8. CASE origin' = origin
  BY <1>5, <1>6, <1>7, <1>8 DEF Built
<1>9. CASE PublishItem
  <2> DEFINE new == Source(Outputs[Current][proc.item], proc.key)
  <2>1. proc.pc \in Busy
    BY <1>9 DEF PublishItem, Busy
  <2>2. new.weights # NoWeights => new.weights = modelSha /\ modelSha \in Weights
    BY <2>1, WorkFacts DEF Source
  <2>3. new.weights # NoWeights =>
           /\ new.weights \in Weights /\ new.weights <= weights
           /\ modelSha # NoWeights => new.weights <= modelSha
    BY <1>1, <1>3, <1>4, <2>2
  <2> HIDE DEF new
  <2>4. \A c \in Built' : (c \in Built /\ origin'[c] = origin[c]) \/ origin'[c] = new
    BY <1>9, PublishedOrigin DEF new
  <2>5. ASSUME NEW c \in Built', origin'[c].weights # NoWeights
        PROVE  /\ origin'[c].weights <= weights'
               /\ modelSha' # NoWeights => origin'[c].weights <= modelSha'
    <3>1. CASE c \in Built /\ origin'[c] = origin[c]
      BY <1>6, <1>7, <2>5, <3>1
    <3>2. CASE origin'[c] = new
      BY <1>6, <2>3, <2>5, <3>2
    <3>3. QED
      BY <2>4, <3>1, <3>2
  <2>6. QED
    BY <1>5, <2>5
<1>10. QED
  BY <1>5, <1>8, <1>9, OriginFrame

\* A new artifact is younger than all others, so a type keeps a newest one.
LEMMA StockedStep == IInv /\ RInv /\ SInv /\ [Next]_vars => Stocked'
<1> SUFFICES ASSUME IInv, RInv, SInv, [Next]_vars PROVE Stocked'
  OBVIOUS
<1>1. CASE UNCHANGED <<artifacts, clock>>
  BY <1>1 DEF SInv, Stocked, Records, Latest, Registered
<1>2. CASE NewRun
  BY <1>2 DEF NewRun, Stocked, Records, Registered
<1>3. CASE AdoptRegister \/ RegisterItem
  <2>1. PICK id : /\ BuiltUnder(id, proc.key) /\ TypeOf(id) = Outputs[Current][proc.item]
                  /\ proc.item \in DOMAIN Outputs[Current]
                  /\ UNCHANGED <<artifacts, clock>> \/ Enters(id)
    BY <1>3, Registration
  <2>2. CASE Enters(id)
    <3>1. /\ Registered' = Registered \cup {id}
          /\ artifacts'[id].created = clock /\ clock' = clock + 1 /\ clock \in Nat
          /\ \A x \in Registered : x # id => artifacts'[x] = artifacts[x]
      BY <1>3, <2>1, <2>2, EntersFacts
    <3>2. \A x \in Registered : artifacts[x].created \in Nat /\ artifacts[x].created < clock
      BY DEF SInv, Stocked, IInv, ManifestSound, Record
    <3>3. \A x \in Registered' : artifacts'[x].created <= clock /\ artifacts'[x].created < clock'
      <4>1. ASSUME NEW m \in Nat, m < clock \/ m = clock PROVE m <= clock /\ m < clock + 1
        BY <3>1, <4>1
      <4>2. \A x \in Registered' :
               /\ artifacts'[x].created \in Nat
               /\ artifacts'[x].created < clock \/ artifacts'[x].created = clock
        BY <3>1, <3>2
      <4>3. QED
        BY <3>1, <4>1, <4>2
    <3>4. ASSUME NEW t, Records(t)' # {} PROVE Latest(t)' # {}
      <4>1. CASE t = TypeOf(id)
        <5>1. id \in Latest(t)'
          BY <3>1, <3>3, <4>1 DEF Latest, Records
        <5>2. QED
          BY <5>1
      <4>2. CASE t # TypeOf(id)
        <5>1. Records(t)' = Records(t)
          BY <3>1, <4>2 DEF Records
        <5>2. \A x \in Records(t) : artifacts'[x] = artifacts[x]
          BY <3>1, <4>2 DEF Records
        <5>3. Latest(t)' = Latest(t)
          BY <5>1, <5>2 DEF Latest
        <5>4. QED
          BY <3>4, <5>1, <5>3 DEF SInv, Stocked
      <4>3. QED
        BY <4>1, <4>2
    <3>5. QED
      BY <3>3, <3>4 DEF Stocked
  <2>3. QED
    BY <1>1, <2>1, <2>2
<1>4. QED
  BY <1>1, <1>2, <1>3, ManifestFrame

-----------------------------------------------------------------------------
(* What the stage records and the process list *)

\* What the run has of a type it keeps, as long as the run lasts.
LEMMA RecordsStay ==
    ASSUME IInv, [Next]_vars, ~ NewRun, NEW t, Records(t) # {}
    PROVE  Records(t)' # {}
BY ManifestStep DEF Records

\* How a stage's record can change.
LEMMA RecCases ==
    ASSUME IInv, [Next]_vars, NEW s \in StageName \ Skipped
    PROVE  \/ stageRec'[s] = stageRec[s] /\ ~ NewRun
           \/ stageRec'[s].status \notin Done
           \/ ReuseOwn(s) \/ Finish(s)
<1>1. DOMAIN stageRec = StageName
  BY DEF IInv, RecordsSound
<1>2. CASE NewRun
  BY <1>2 DEF NewRun, Done
<1>3. ASSUME NEW reason, Fail(reason)
      PROVE  stageRec'[s] = stageRec[s] \/ stageRec'[s].status \notin Done
  BY <1>1, <1>3 DEF Fail, SetStage, Done
<1>4. ASSUME NEW r, NEW key, NEW loaded, RunUnder(r, key, loaded)
      PROVE  stageRec'[s] = stageRec[s] \/ stageRec'[s].status \notin Done
  <2>1. DOMAIN stageRec[s] = {"status", "key", "ids"}
    BY DEF IInv, RecordsSound, RecSound
  <2>2. CASE r = s
    BY <1>1, <1>4, <2>1, <2>2 DEF RunUnder, Done
  <2>3. CASE r # s
    BY <1>1, <1>4, <2>3 DEF RunUnder
  <2>4. QED
    BY <2>2, <2>3
<1>5. ASSUME NEW r \in StageName, SkipStage(r) PROVE stageRec'[s] = stageRec[s]
  BY <1>1, <1>5 DEF SkipStage, SetStage
<1>6. ASSUME NEW r \in StageName, ReuseOwn(r) \/ Finish(r), r # s PROVE stageRec'[s] = stageRec[s]
  BY <1>1, <1>6 DEF ReuseOwn, Finish, SetStage
<1>7. ASSUME Step \/ Fault
      PROVE  \/ stageRec'[s] = stageRec[s]
             \/ stageRec'[s].status \notin Done
             \/ ReuseOwn(s) \/ Finish(s)
  <2>1. ASSUME \/ AdoptTorn \/ Crash \/ Succeed \/ FailRun \/ AdoptCopy \/ PublishItem
               \/ StoreInCache
               \/ \E path \in DOMAIN files : Tamper(path) \/ Delete(path)
               \/ \E key \in DOMAIN cache : DamageCache(key)
               \/ \E r \in StageName : BeginAdopt(r)
        PROVE  stageRec' = stageRec
    BY <2>1 DEF AdoptTorn, Crash, Succeed, FailRun, AdoptCopy, PublishItem, StoreInCache,
       Tamper, Delete, DamageCache, BeginAdopt
  <2>2. ASSUME NEW path, NEW type, NEW items, NEW again, NEW label,
               Registering(path, type, items, again, label)
        PROVE  stageRec' = stageRec \/ \E reason : Fail(reason)
    BY <2>2 DEF Registering
  <2>3. ASSUME AdoptRegister \/ RegisterItem
        PROVE  stageRec' = stageRec \/ \E reason : Fail(reason)
    BY <2>2, <2>3 DEF AdoptRegister, RegisterItem
  <2>4. ASSUME NEW r \in StageName, BeginRun(r) \/ AdoptMiss(r)
        PROVE  stageRec'[s] = stageRec[s] \/ stageRec'[s].status \notin Done
    BY <1>4, <2>4 DEF BeginRun, AdoptMiss
  <2>5. QED
    BY <1>3, <1>5, <1>6, <1>7, <2>1, <2>3, <2>4 DEF Step, Fault, FailInputs, ComparisonFails,
       StageFails
<1>8. ASSUME \/ \E first, last : Start(first, last)
             \/ \E w \in Weights : EditWeights(w) \/ RevertWeights(w)
             \/ vars' = vars
      PROVE  stageRec' = stageRec
  BY <1>8 DEF Start, EditWeights, RevertWeights, vars
<1>9. QED
  BY <1>2, <1>7, <1>8 DEF Next

\* A finished stage lists an artifact of each of its outputs, registered in the run.
LEMMA ListedStep == IInv /\ RInv /\ SInv /\ [Next]_vars => Listed'
<1> SUFFICES ASSUME IInv, RInv, SInv, [Next]_vars, NEW s \in StageName \ Skipped,
                    stageRec'[s].status \in Done
             PROVE  /\ Listing(s, stageRec'[s].ids)
                    /\ \A t \in Requires[s] : Records(t)' # {}
  BY DEF Listed, Listing, Prefixes
<1>1. CASE stageRec'[s] = stageRec[s] /\ ~ NewRun
  BY <1>1, RecordsStay DEF SInv, Listed
<1>2. CASE ReuseOwn(s)
  <2>1. stageRec'[s].ids = stageRec[s].ids /\ stageRec[s].status \in Done /\ ~ NewRun
    BY <1>2 DEF ReuseOwn, SetStage, UpToDate, IInv, RecordsSound, InputsReady, Entering, NewRun
  <2>2. QED
    BY <2>1, RecordsStay DEF SInv, Listed
<1>3. CASE Finish(s)
  <2>1. /\ stageRec'[s].ids = proc.ids /\ s = Current /\ ~ NewRun
        /\ proc.pc \in {"succeeded", "cached"}
    BY <1>3 DEF Finish, SetStage, IInv, RecordsSound, NewRun
  <2>2. Listing(s, proc.ids) /\ \A t \in Requires[s] : Records(t) # {}
    BY <2>1 DEF SInv, Gathered, Listing, Busy
  <2>3. QED
    BY <2>1, <2>2, RecordsStay
<1>4. QED
  BY <1>1, <1>2, <1>3, RecCases

\* An entry lists an output of every type its stage publishes, in their order.
LEMMA CacheListedStep == IInv /\ RInv /\ SInv /\ [Next]_vars => CacheListed'
<1> SUFFICES ASSUME IInv, RInv, SInv, [Next]_vars PROVE CacheListed'
  OBVIOUS
<1>1. CASE cache' = cache
  BY <1>1 DEF SInv, CacheListed
<1>2. CASE StoreInCache
  <2> DEFINE items == [n \in DOMAIN proc.ids |->
                         [id |-> proc.ids[n], path |-> artifacts[proc.ids[n]].path]]
  <2>1. cache' = cache \/ cache' = Bind(cache, proc.key, [items |-> items, damaged |-> FALSE])
    BY <1>2 DEF StoreInCache
  <2>2. proc.key.stage = Current /\ Listing(Current, proc.ids)
    BY <1>2, WorkFacts DEF StoreInCache, Busy, SInv, Gathered, Listing
  <2>3. /\ DOMAIN items = DOMAIN Outputs[proc.key.stage]
        /\ \A n \in DOMAIN items : TypeOf(items[n].id) = Outputs[proc.key.stage][n]
    BY <2>2 DEF Listing, Prefixes
  <2> HIDE DEF items
  <2>4. QED
    BY <2>1, <2>3 DEF SInv, CacheListed, Bind
<1>3. CASE \E key \in DOMAIN cache : DamageCache(key)
  <2>1. PICK key \in DOMAIN cache : cache' = [cache EXCEPT ![key].damaged = TRUE]
    BY <1>3 DEF DamageCache
  <2>2. \A k \in DOMAIN cache : EntrySound(k, cache[k])
    BY DEF IInv, CacheSound
  <2>3. DOMAIN cache' = DOMAIN cache /\ \A k \in DOMAIN cache : cache'[k].items = cache[k].items
    BY <2>1, <2>2 DEF EntrySound
  <2>4. QED
    BY <2>3 DEF SInv, CacheListed
<1>4. QED
  BY <1>1, <1>2, <1>3, CacheFrame

\* The process begins on the outputs of a stage whose inputs are there.
LEMMA GatherBegins ==
    ASSUME proc'.ids = << >>, proc'.item = 1, proc'.cur = proc.cur, artifacts' = artifacts,
           proc'.pc \in {"adopt", "run"}, \A t \in Requires[Current] : Records(t) # {}
    PROVE  Gathered'
<1>1. Current' = Current /\ Len(<< >>) = 0 /\ DOMAIN << >> = {}
  BY DEF Current
<1>2. Prefixes(Current, << >>)
  BY <1>1 DEF Prefixes
<1>3. \A t : Records(t)' = Records(t)
  BY DEF Records, Registered
<1>4. QED
  BY <1>1, <1>2, <1>3 DEF Gathered, Prefixes

\* It goes on with what it has.
LEMMA GatherStays ==
    ASSUME SInv, proc.pc \in Busy, proc'.ids = proc.ids, proc'.item = proc.item, proc'.cur = proc.cur,
           artifacts' = artifacts,
           proc'.pc \in {"adopt", "adopted", "run", "published"} =>
              proc.pc \in {"adopt", "adopted", "run", "published"},
           proc'.pc \in {"store", "succeeded", "cached"} =>
              proc.pc \in {"store", "succeeded", "cached"}
    PROVE  Gathered'
<1>1. Current' = Current
  BY DEF Current
<1>2. \A t : Records(t)' = Records(t)
  BY DEF Records, Registered
<1>3. QED
  BY <1>1, <1>2 DEF SInv, Gathered, Prefixes

\* A registration gathers the next output.
LEMMA GatherOne ==
    ASSUME IInv, RInv, SInv, [Next]_vars, AdoptRegister \/ RegisterItem, proc'.pc \in Busy
    PROVE  Gathered'
<1>1. PICK id : /\ TypeOf(id) = Outputs[Current][proc.item] /\ proc.item \in DOMAIN Outputs[Current]
                /\ (stageRec' = stageRec /\ Takes(id)) \/ \E reason : Fail(reason)
  BY Registration
<1>2. \A reason : ~ Fail(reason)
  BY DEF Fail, Busy, IInv, ProcTyped, Field
<1>3. Takes(id)
  BY <1>1, <1>2
<1>4. /\ proc.pc \in {"adopted", "published"} /\ ~ NewRun
  BY DEF AdoptRegister, RegisterItem, NewRun
<1>5. /\ Prefixes(Current, proc.ids) /\ proc.item = Len(proc.ids) + 1
      /\ \A t \in Requires[Current] : Records(t) # {}
  BY <1>4 DEF SInv, Gathered, Busy
<1>6. proc.ids \in Seq(Id) /\ Current' = Current /\ Outputs[Current] \in Seq(ArtifactType)
  BY <1>3, <1>4, PipelineAssumption DEF IInv, ProcTyped, ProcSound, Takes, Current, Busy
<1>7. PICK old, ids, outs, l : old = proc.ids /\ ids = proc'.ids /\ outs = Outputs[Current] /\ l = Len(old)
  OBVIOUS
<1>8. /\ l \in Nat /\ DOMAIN old = 1 .. l /\ ids = Append(old, id)
      /\ DOMAIN ids = 1 .. l + 1 /\ Len(ids) = l + 1
      /\ ids[l + 1] = id /\ \A m \in 1 .. l : ids[m] = old[m]
  BY <1>3, <1>6, <1>7 DEF Takes
<1>9. Prefixes(Current, ids)
  <2>1. ASSUME NEW m \in DOMAIN ids
        PROVE  m \in DOMAIN outs /\ TypeOf(ids[m]) = outs[m]
    <3>1. m \in 1 .. l \/ m = l + 1
      BY <1>8
    <3>2. QED
      BY <1>1, <1>5, <1>7, <1>8, <3>1 DEF Prefixes
  <2>2. QED
    BY <1>7, <2>1 DEF Prefixes
<1>10. proc'.item = Len(ids) + 1
  BY <1>3, <1>5, <1>7, <1>8 DEF Takes
<1>11. proc'.pc \in {"store", "succeeded", "cached"} => DOMAIN ids = DOMAIN outs
  <2> SUFFICES ASSUME proc'.pc \in {"store", "succeeded", "cached"} PROVE DOMAIN ids = DOMAIN outs
    OBVIOUS
  <2>1. ~ (l + 1 < Len(outs)) /\ l + 1 \in DOMAIN outs
    BY <1>1, <1>3, <1>5, <1>7 DEF Takes
  <2>2. Len(outs) \in Nat /\ DOMAIN outs = 1 .. Len(outs)
    BY <1>6, <1>7
  <2>3. l + 1 = Len(outs)
    BY <1>8, <2>1, <2>2
  <2>4. QED
    BY <1>8, <2>2, <2>3
<1>12. \A t \in Requires[Current] : Records(t)' # {}
  BY <1>4, <1>5, RecordsStay
<1>13. QED
  BY <1>6, <1>7, <1>9, <1>10, <1>11, <1>12 DEF Gathered, Prefixes

\* The process has gathered one artifact of each output it is past.
LEMMA GatheredStep == IInv /\ RInv /\ SInv /\ [Next]_vars => Gathered'
<1> SUFFICES ASSUME IInv, RInv, SInv, [Next]_vars, proc'.pc \in Busy PROVE Gathered'
  BY DEF Gathered, Busy
<1>1. CASE Rests
  <2>1. Current' = Current /\ proc' = proc /\ \A t : Records(t)' = Records(t)
    BY <1>1 DEF Rests, Current, Records, Registered
  <2>2. QED
    BY <2>1 DEF SInv, Gathered, Prefixes
<1>2. CASE Ends \/ NewRun \/ \E s, v : Leaves(s, v)
  BY <1>2 DEF Ends, NewRun, Leaves, Busy, Placed
<1>3. ASSUME NEW first \in DOMAIN Order, NEW last \in DOMAIN Order, Start(first, last) PROVE FALSE
  BY <1>3, StartFacts DEF Busy
<1>4. \A reason : ~ Fail(reason)
  BY DEF Fail, Busy, IInv, ProcTyped, Field
<1>5. ASSUME NEW s \in StageName, BeginAdopt(s) \/ BeginRun(s) PROVE Gathered'
  <2>1. /\ proc'.ids = << >> /\ proc'.item = 1 /\ proc'.cur = proc.cur /\ artifacts' = artifacts
        /\ proc'.pc \in {"adopt", "run"} /\ s = Current /\ ~ InputsMissing(s)
    BY <1>5 DEF BeginAdopt, BeginRun, RunUnder, InputsReady, Entering, store, IInv, ProcTyped,
       ProcSound, Field
  <2>2. \A t \in Requires[Current] : Records(t) # {}
    BY <2>1 DEF InputsMissing, Latest
  <2>3. QED
    BY <2>1, <2>2, GatherBegins
<1>6. ASSUME NEW s \in StageName, AdoptMiss(s) PROVE Gathered'
  <2>1. /\ proc'.ids = << >> /\ proc'.item = 1 /\ proc'.cur = proc.cur /\ artifacts' = artifacts
        /\ proc'.pc \in {"adopt", "run"} /\ proc.pc \in Busy
    BY <1>6 DEF AdoptMiss, RunUnder, store, IInv, ProcTyped, Field, Busy
  <2>2. \A t \in Requires[Current] : Records(t) # {}
    BY <2>1 DEF SInv, Gathered
  <2>3. QED
    BY <2>1, <2>2, GatherBegins
<1>7. ASSUME AdoptCopy \/ PublishItem \/ StoreInCache PROVE Gathered'
  <2>1. /\ proc.pc \in Busy /\ proc'.ids = proc.ids /\ proc'.item = proc.item
        /\ proc'.cur = proc.cur /\ artifacts' = artifacts
        /\ \/ proc.pc \in {"adopt", "run"} /\ proc'.pc \in {"adopted", "published"}
           \/ proc.pc = "store" /\ proc'.pc = "succeeded"
    BY <1>7 DEF AdoptCopy, PublishItem, StoreInCache, IInv, ProcTyped, Field, Busy, store
  <2>2. QED
    BY <2>1, GatherStays
<1>8. ASSUME Succeed \/ FailRun \/ AdoptTorn \/ Crash PROVE FALSE
  BY <1>8 DEF Succeed, FailRun, AdoptTorn, Crash, IdleProc, Busy
<1>9. ASSUME NEW s \in StageName, SkipStage(s) \/ ReuseOwn(s) \/ Finish(s) PROVE FALSE
  BY <1>9, StageLeaves DEF Leaves, Busy
<1>10. ASSUME \/ \E path \in DOMAIN files : Tamper(path) \/ Delete(path)
              \/ \E key \in DOMAIN cache : DamageCache(key)
       PROVE  Rests
  BY <1>10 DEF Tamper, Delete, DamageCache, Rests, store
<1>11. CASE Step \/ Fault
  BY <1>1, <1>4, <1>5, <1>6, <1>7, <1>8, <1>9, <1>10, <1>11, GatherOne
     DEF Step, Fault, FailInputs, ComparisonFails, StageFails
<1>12. ASSUME (\E w \in Weights : EditWeights(w) \/ RevertWeights(w)) \/ vars' = vars PROVE Rests
  BY <1>12 DEF EditWeights, RevertWeights, vars, Rests, store
<1>13. QED
  BY <1>1, <1>2, <1>3, <1>11, <1>12 DEF Next

LEMMA RootInit == Init => SInv
<1> SUFFICES ASSUME Init PROVE SInv
  OBVIOUS
<1>1. /\ DOMAIN artifacts = {} /\ DOMAIN cache = {} /\ origin = << >>
      /\ modelSha = NoWeights /\ proc = IdleProc(1, Len(Order))
      /\ stageRec = [s \in StageName |-> [status |-> "pending", key |-> NoKey, ids |-> << >>]]
  BY DEF Init
<1>2. Built = {} /\ DOMAIN origin = {}
  BY <1>1 DEF Built
<1>3. /\ Shaped(artifacts, origin) /\ Rooted(origin) /\ Bound /\ Renewed(artifacts, origin)
      /\ CacheListed
  BY <1>1, <1>2 DEF Shaped, Rooted, Bound, Renewed, CacheListed
<1>4. Stocked
  BY <1>1 DEF Stocked, Records, Registered
<1>5. Listed
  BY <1>1 DEF Listed, Done
<1>6. Gathered
  BY <1>1 DEF Gathered, IdleProc, Busy
<1>7. QED
  BY <1>3, <1>4, <1>5, <1>6 DEF SInv

LEMMA RootStep == IInv /\ RInv /\ SInv /\ [Next]_vars => SInv'
BY ShapedStep, RootedStep, BoundStep, StockedStep, ListedStep, CacheListedStep, GatheredStep,
   RenewedStep DEF SInv

\* A full successful run is built from the model's weights and no others, whatever failed,
\* crashed, was damaged or deleted before, and whatever other runs put in the cache, as long
\* as the weights never return to an earlier value (cache_key, stage.py:155-170; latest,
\* store.py:144-146).
THEOREM SuccessMatchesModelCorrect == Spec => []SuccessMatchesModel
<1>1. IInv /\ RInv /\ SInv => SuccessMatchesModel
  BY ListedFromModel DEF SuccessMatchesModel
<1>2. Init => IInv /\ RInv /\ SInv
  BY InitInv, RerunInit, RootInit
<1>3. (IInv /\ RInv /\ SInv) /\ [Next]_vars => (IInv /\ RInv /\ SInv)'
  BY InvStep, RerunStep, RootStep
<1>4. QED
  BY <1>1, <1>2, <1>3, PTL DEF Spec

-----------------------------------------------------------------------------
(* The newest artifact of a type is the one its stage lists *)

\* Two records are never of the same moment.
Stamped == \A x, y \in Registered : artifacts[x].created = artifacts[y].created => x = y

\* A record is of the type its content was built as.
Named == \A x \in Registered : origin[Sha(x)].type = TypeOf(x)

\* What is not salted is determined by what it was built from.
Single == \A c, d \in Built : origin[c] = origin[d] /\ origin[c].type \notin Salted => c = d

\* k was made from what i was made from, or from something newer.
Follows(A, O, i, k) ==
    /\ \A p \in A[i].parents : \E q \in A[k].parents : TypeOf(q) = TypeOf(p)
    /\ \A p \in A[i].parents, q \in A[k].parents :
          TypeOf(q) = TypeOf(p) => A[p].created <= A[q].created
    /\ A[i].stage \in FromModel => O[Sha(i)].weights <= O[Sha(k)].weights

InSequence(A, O) ==
    \A i, k \in DOMAIN A :
        /\ Plain(A[i].stage) /\ TypeOf(i) = TypeOf(k) /\ A[i].stage = A[k].stage
        /\ A[i].created <= A[k].created
        => Follows(A, O, i, k)

\* Nothing of its stage and type is newer than i.
Tip(A, i) ==
    \A x \in DOMAIN A : TypeOf(x) = TypeOf(i) /\ A[x].stage = A[i].stage => A[x].created <= A[i].created

\* An adoption of the entry ends before it changed anything.
FirstPath(k) == cache[k].items[1].path
Closed(k) == cache[k].damaged \/ Exists(FirstPath(k))

Items == UNION {Range(cache[k].items) : k \in DOMAIN cache}
Entered(id) == \E x \in Items : x.id = id

\* A salted artifact of an entry has one path.
OnePlace ==
    \A x \in Items : TypeOf(x.id) \in Salted =>
        /\ x.id \in Registered => artifacts[x.id].path = x.path
        /\ \A y \in Items : y.id = x.id => y.path = x.path

\* What was made in this execution is in no entry yet.
Unshared ==
    /\ proc.pc \in {"run", "published", "store"} =>
          \A id \in Range(proc.ids) : TypeOf(id) \in Salted => ~ Entered(id)
    /\ proc.pc = "published" /\ Outputs[Current][proc.item] \in Salted =>
          \A path \in proc.path :
              LET id == MakeId(Outputs[Current][proc.item], files[path])
              IN id \notin Registered /\ ~ Entered(id)

\* A record's file is there.
Kept == \A i \in Registered : Exists(artifacts[i].path)

\* The key a stage recorded.
Keyed ==
    \A s \in StageName \ Skipped : stageRec[s].status \in Done =>
        LET key == stageRec[s].key IN
        /\ key = [stage |-> s, inputs |-> key.inputs, weights |-> key.weights]
        /\ key.inputs \subseteq Registered
        /\ \A p \in key.inputs : TypeOf(p) \in Consumes(s)
        /\ IF s \in DependsOnModel
           THEN key.weights \in Weights /\ modelSha # NoWeights
           ELSE key.weights = NoWeights

\* It names no weights newer than those the manifest names.
KeyedBefore ==
    \A s \in DependsOnModel \ Skipped :
        stageRec[s].status \in Done => stageRec[s].key.weights <= modelSha

\* The stage would not compute the key again that it recorded.
Moved(s) ==
    \/ \E p \in stageRec[s].key.inputs : ~ LatestOf(artifacts, p)
    \/ \E t \in Consumes(s) :
          Present(artifacts, t) /\ \A p \in stageRec[s].key.inputs : TypeOf(p) # t
    \/ s \in DependsOnModel /\ stageRec[s].key.weights < modelSha

\* The ids have the newest of everything the stage has made, of the types they have.
Tops(A, s, ids) ==
    \A id \in Range(ids) : \A k \in DOMAIN A :
        A[k].stage = s /\ TypeOf(k) = TypeOf(id) =>
            \E x \in Range(ids) : TypeOf(x) = TypeOf(k) /\ A[k].created <= A[x].created

Standing ==
    \A s \in Applicable :
        Plain(s) /\ stageRec[s].status \in Done => Moved(s) \/ Tops(artifacts, s, stageRec[s].ids)

Taken ==
    \A s \in Cacheable \ Skipped : stageRec[s].status \in Done =>
        stageRec[s].key \in DOMAIN cache /\ Closed(stageRec[s].key)

Adopting ==
    proc.pc \in {"adopt", "adopted"} => Current \in Cacheable /\ ~ cache[proc.key].damaged

\* An adoption that has begun is of another entry than the stage's outputs are of.
Opened ==
    /\ proc.pc = "adopted" \/ (proc.pc = "adopt" /\ proc.item > 1) =>
          /\ Exists(FirstPath(proc.key))
          /\ stageRec[Current].status \in Done => stageRec[Current].key # proc.key
    /\ proc.pc = "adopted" => IdsAt(Cached.path) = {}

\* A stage that runs had nothing it could adopt.
Running ==
    /\ proc.pc \in {"run", "published", "store"} /\ Current \in Cacheable =>
          (proc.key \in DOMAIN cache => Closed(proc.key))
    /\ proc.pc \in {"succeeded", "cached"} /\ Current \in Cacheable =>
          proc.key \in DOMAIN cache /\ Closed(proc.key)

Resting == proc.pc \in {"idle", "stage"} => proc.key = NoKey

Unfinished ==
    proc.pc \in {"run", "published", "store", "succeeded"} => stageRec[Current].status \notin Done

Ahead == proc.pc \in Busy /\ Plain(Current) => Tops(artifacts, Current, proc.ids)

UsesListed == proc.key.inputs \subseteq UNION {Range(stageRec[s].ids) : s \in StageName}
Failing == proc.pc = "failing" /\ proc.first = 1 => UsesListed

CInv ==
    /\ Stamped /\ Named /\ Single /\ OnePlace /\ Unshared /\ Keyed /\ Adopting /\ Resting
    /\ Unfinished
    /\ deleted = {} => Kept /\ Taken /\ Opened /\ Running
    /\ deleted = {} /\ ~ reverted =>
          KeyedBefore /\ InSequence(artifacts, origin) /\ Standing /\ Ahead /\ Failing

\* A step that registers id, the file at path.
Arrives(id, path) ==
    /\ BuiltUnder(id, proc.key) /\ TypeOf(id) = Outputs[Current][proc.item]
    /\ proc.item \in DOMAIN Outputs[Current]
    /\ Exists(path) /\ id = MakeId(TypeOf(id), files[path])
    /\ \/ proc.pc = "adopted" /\ path = Cached.path /\ id = Cached.id
       \/ proc.pc = "published" /\ path \in proc.path
    /\ UNCHANGED <<files, cache, origin, modelSha, weights, deleted>>
    /\ RegisterFile(path, TypeOf(id), Current, proc.key.inputs)
    /\ \/ /\ stageRec' = stageRec /\ Takes(id) /\ proc'.key = proc.key
          /\ RegisterReply(path, TypeOf(id), proc.key.inputs) \in {"existing", "added"}
       \/ \E reason : Fail(reason)

\* Both registrations register the file of what the process built or adopted.
LEMMA Arrival ==
    ASSUME IInv, RInv, SInv, AdoptRegister \/ RegisterItem
    PROVE  \E id, path : Arrives(id, path)
<1>1. CASE AdoptRegister
  <2> DEFINE items == cache[proc.key].items
             type == TypeOf(Cached.id)
  <2>1. /\ proc.pc = "adopted" /\ proc.key \in DOMAIN cache /\ proc.item \in DOMAIN items
        /\ proc.key.stage = Current /\ Current \in StageName
        /\ Holds(Cached.path, Sha(Cached.id))
    BY <1>1 DEF AdoptRegister, IInv, ProcSound, RInv, AtWork, Busy, KeyOf
  <2>2. /\ BuiltUnder(Cached.id, proc.key) /\ Cached.id \in Id
        /\ items \in Seq([id : Id, path : Path])
    BY <2>1, CachedFacts
  <2>3. /\ DOMAIN items = DOMAIN Outputs[Current]
        /\ type = Outputs[Current][proc.item]
    BY <2>1 DEF SInv, CacheListed, Cached
  <2>4. Outputs[Current] \in Seq(ArtifactType)
    BY <2>1, PipelineAssumption
  <2>5. Len(items) = Len(Outputs[Current])
    <3> HIDE DEF items
    <3>1. QED
      BY <2>2, <2>3, <2>4, SameLen
  <2>6. Cached.id = MakeId(type, files[Cached.path])
    BY <2>1, <2>2 DEF Holds, MakeId, TypeOf, Sha, Id
  <2>7. /\ RegisterFile(Cached.path, type, Current, proc.key.inputs)
        /\ UNCHANGED <<files, modelSha, origin>>
        /\ \/ /\ proc' = [proc EXCEPT !.ids = Append(@, Cached.id), !.path = {}, !.item = @ + 1,
                           !.pc = IF proc.item < Len(items) THEN "adopt" ELSE "cached"]
              /\ UNCHANGED <<stageRec, cache, weights, deleted>>
              /\ RegisterReply(Cached.path, type, proc.key.inputs) \in {"existing", "added"}
           \/ Fail(RegisterReply(Cached.path, type, proc.key.inputs))
    BY <1>1, <2>6 DEF AdoptRegister, Registering, history
  <2>8. UNCHANGED <<cache, weights, deleted>>
    BY <2>7 DEF Fail, history
  <2>9. \/ /\ stageRec' = stageRec /\ Takes(Cached.id) /\ proc'.key = proc.key
           /\ RegisterReply(Cached.path, type, proc.key.inputs) \in {"existing", "added"}
        \/ \E reason : Fail(reason)
    BY <2>5, <2>7 DEF Takes, IInv, ProcTyped, Field
  <2>10. Arrives(Cached.id, Cached.path)
    BY <2>1, <2>2, <2>3, <2>6, <2>7, <2>8, <2>9 DEF Arrives, Holds
  <2>11. QED
    BY <2>10
<1>2. CASE RegisterItem
  <2> DEFINE type == Outputs[Current][proc.item]
  <2>1. proc.pc = "published" /\ proc.item \in DOMAIN Outputs[Current]
    BY <1>2 DEF RegisterItem, IInv, ProcSound
  <2>2. PICK path \in proc.path : Registering(path, type, Outputs[Current], "run", "store")
    BY <1>2 DEF RegisterItem
  <2>3. files[path] \in Built /\ origin[files[path]] = Source(type, proc.key) /\ Exists(path)
    BY <2>1 DEF IInv, ProcSound
  <2> DEFINE id == MakeId(type, files[path])
  <2>4. BuiltUnder(id, proc.key) /\ TypeOf(id) = type
    BY <2>3 DEF BuiltUnder, MakeId, TypeOf, Sha
  <2>5. /\ RegisterFile(path, type, Current, proc.key.inputs)
        /\ UNCHANGED <<files, modelSha, origin>>
        /\ \/ /\ proc' = [proc EXCEPT !.ids = Append(@, id), !.path = {}, !.item = @ + 1,
                           !.pc = IF proc.item < Len(Outputs[Current]) THEN "run" ELSE "store"]
              /\ UNCHANGED <<stageRec, cache, weights, deleted>>
              /\ RegisterReply(path, type, proc.key.inputs) \in {"existing", "added"}
           \/ Fail(RegisterReply(path, type, proc.key.inputs))
    BY <2>2 DEF Registering, history
  <2>6. UNCHANGED <<cache, weights, deleted>>
    BY <2>5 DEF Fail, history
  <2>7. \/ /\ stageRec' = stageRec /\ Takes(id) /\ proc'.key = proc.key
           /\ RegisterReply(path, type, proc.key.inputs) \in {"existing", "added"}
        \/ \E reason : Fail(reason)
    BY <2>5 DEF Takes, IInv, ProcTyped, Field
  <2>8. id = MakeId(TypeOf(id), files[path])
    BY <2>4
  <2> HIDE DEF id
  <2>9. Arrives(id, path)
    BY <2>1, <2>3, <2>4, <2>5, <2>6, <2>7, <2>8 DEF Arrives
  <2>10. QED
    BY <2>9
<1>3. QED
  BY <1>1, <1>2

\* An artifact enters, or the file is already on record.
LEMMA ArrivesHow ==
    ASSUME IInv, RInv, SInv, AdoptRegister \/ RegisterItem, NEW id, NEW path, Arrives(id, path)
    PROVE  /\ id \in Id
           /\ \/ UNCHANGED <<artifacts, clock>> /\ (id \in IdsAt(path) \/ \E reason : Fail(reason))
              \/ Enters(id) /\ IdsAt(path) = {} /\ artifacts'[id].path = path
<1>1. id \in Id
  <2>1. Outputs[Current] \in Seq(ArtifactType) /\ Built \subseteq Content
    BY WorkFacts, PipelineAssumption DEF Arrives, Busy, IInv, OriginSound
  <2>2. TypeOf(id) \in ArtifactType
    BY <2>1 DEF Arrives
  <2>3. Sha(id) \in Content
    BY <2>1 DEF Arrives, BuiltUnder
  <2>4. QED
    BY <2>2, <2>3 DEF Arrives, MakeId, Sha, TypeOf, Id
<1>2. CASE RegisterReply(path, TypeOf(id), proc.key.inputs) = "added"
  <2>1. proc.key.inputs \subseteq Registered /\ IdsAt(path) = {}
    BY <1>2 DEF RegisterReply
  <2>2. /\ artifacts' = Bind(artifacts, id, [path |-> path, created |-> clock,
                              stage |-> Current, parents |-> proc.key.inputs])
        /\ clock' = clock + 1
    BY <1>2 DEF Arrives, RegisterFile
  <2>3. QED
    BY <1>1, <2>1, <2>2 DEF Enters, Bind
<1>3. CASE RegisterReply(path, TypeOf(id), proc.key.inputs) # "added"
  <2>1. UNCHANGED <<artifacts, clock>>
    BY <1>3 DEF Arrives, RegisterFile
  <2>2. id \in IdsAt(path) \/ \E reason : Fail(reason)
    <3>1. CASE RegisterReply(path, TypeOf(id), proc.key.inputs) = "existing"
      <4>1. MakeId(TypeOf(id), files[path]) \in IdsAt(path)
        BY <3>1 DEF RegisterReply
      <4>2. QED
        BY <4>1 DEF Arrives
    <3>2. CASE \E reason : Fail(reason)
      BY <3>2
    <3>3. QED
      BY <1>3, <3>1, <3>2 DEF Arrives
  <2>3. QED
    BY <1>1, <2>1, <2>2
<1>4. QED
  BY <1>2, <1>3

\* The step that enters id into the manifest, from the file at path.
Entry(id, path) ==
    /\ AdoptRegister \/ RegisterItem
    /\ Arrives(id, path) /\ Enters(id)
    /\ IdsAt(path) = {} /\ artifacts'[id].path = path

\* The manifest changes when a run begins and when an artifact enters it.
LEMMA ManifestCases ==
    ASSUME IInv, RInv, SInv, [Next]_vars
    PROVE  UNCHANGED <<artifacts, clock>> \/ NewRun \/ \E id, path : Entry(id, path)
<1>1. CASE AdoptRegister \/ RegisterItem
  <2>1. PICK id, path : Arrives(id, path)
    BY <1>1, Arrival
  <2>2. \/ UNCHANGED <<artifacts, clock>>
        \/ Enters(id) /\ IdsAt(path) = {} /\ artifacts'[id].path = path
    BY <1>1, <2>1, ArrivesHow
  <2>3. QED
    BY <1>1, <2>1, <2>2 DEF Entry
<1>2. QED
  BY <1>1, ManifestFrame

\* An artifact enters as the youngest, with what it was built from as parents.
LEMMA EntryFacts ==
    ASSUME IInv, RInv, SInv, NEW id, NEW path, Entry(id, path)
    PROVE  /\ Registered' = Registered \cup {id} /\ proc.pc \in Busy /\ origin' = origin
           /\ artifacts'[id].stage = Current /\ artifacts'[id].parents = Inputs(Current)
           /\ artifacts'[id].created = clock /\ clock' = clock + 1 /\ clock \in Nat
           /\ \A x \in Registered : x # id => artifacts'[x] = artifacts[x]
           /\ Inputs(Current) \subseteq Registered
           /\ Sha(id) \in Built /\ origin[Sha(id)] = Source(TypeOf(id), proc.key)
           /\ TypeOf(id) \in Range(Outputs[Current]) /\ TypeOf(id) \notin Consumes(Current)
           /\ \A x \in Registered : artifacts[x].created \in Nat /\ artifacts[x].created < clock
<1>1. \A x \in Registered : artifacts[x].created \in Nat /\ artifacts[x].created < clock
  BY DEF SInv, Stocked, IInv, ManifestSound, Record
<1>2. QED
  BY <1>1, EntersFacts DEF Entry, Arrives

\* No two records are of one moment.
LEMMA StampedStep == IInv /\ RInv /\ SInv /\ Stamped /\ [Next]_vars => Stamped'
<1> SUFFICES ASSUME IInv, RInv, SInv, Stamped, [Next]_vars PROVE Stamped'
  OBVIOUS
<1>1. CASE UNCHANGED <<artifacts, clock>>
  BY <1>1 DEF Stamped, Registered
<1>2. CASE NewRun
  BY <1>2 DEF NewRun, Stamped, Registered
<1>3. ASSUME NEW id, NEW path, Entry(id, path) PROVE Stamped'
  <2>1. /\ Registered' = Registered \cup {id} /\ artifacts'[id].created = clock
        /\ \A x \in Registered : x # id => artifacts'[x] = artifacts[x]
        /\ \A x \in Registered : artifacts[x].created \in Nat /\ artifacts[x].created < clock
        /\ clock \in Nat
    BY <1>3, EntryFacts
  <2>2. \A x \in Registered : artifacts[x].created # clock
    BY <2>1
  <2>3. QED
    BY <2>1, <2>2 DEF Stamped
<1>4. QED
  BY <1>1, <1>2, <1>3, ManifestCases

\* A content that is not salted is made once.
LEMMA SingleStep == IInv /\ Single /\ [Next]_vars => Single'
<1> SUFFICES ASSUME IInv, Single, [Next]_vars PROVE Single'
  OBVIOUS
<1>1. CASE origin' = origin
  BY <1>1 DEF Single, Built
<1>2. CASE PublishItem /\ origin' # origin
  <2> DEFINE type == Outputs[Current][proc.item]
             new == Len(origin) + 1
  <2>1. PICK content \in Produces(type, proc.key) :
           origin' = IF content \in Built THEN origin ELSE Append(origin, Source(type, proc.key))
    BY <1>2 DEF PublishItem
  <2>2. content \notin Built /\ origin' = Append(origin, Source(type, proc.key))
    BY <1>2, <2>1
  <2>3. type \notin Salted => \A c \in Built : origin[c] # Source(type, proc.key)
    BY <2>1, <2>2 DEF Produces
  <2>4. /\ Built' = Built \cup {new} /\ new \notin Built
        /\ \A c \in Built : origin'[c] = origin[c]
        /\ origin'[new] = Source(type, proc.key)
    BY <2>2, BuiltGrows DEF IInv
  <2>5. Source(type, proc.key).type = type
    BY DEF Source
  <2> HIDE DEF new, type
  <2>6. \A c \in Built : origin'[c] = origin'[new] => origin'[new].type \in Salted
    BY <2>3, <2>4, <2>5
  <2>7. QED
    BY <2>4, <2>6 DEF Single
<1>3. QED
  BY <1>1, <1>2, OriginFrame

\* Files disappear only when they are deleted.
LEMMA NotDeleted == ASSUME [Next]_vars, deleted' = {}, ~ NewRun PROVE deleted = {}
<1>1. ASSUME Step PROVE deleted' = deleted
  BY <1>1 DEF history, Fail,
     Step, SkipStage, FailInputs, ReuseOwn, BeginAdopt, BeginRun, RunUnder,
     AdoptMiss, Finish, AdoptCopy, AdoptRegister, RegisterItem, Registering, PublishItem,
     ComparisonFails, StoreInCache, Succeed, FailRun
<1>2. ASSUME Fault PROVE deleted' = deleted \/ \E path : deleted' = deleted \cup {path}
  BY <1>2 DEF Fault, AdoptTorn, StageFails, Fail, Crash, Tamper, Delete, DamageCache, history
<1>3. QED
  BY <1>1, <1>2 DEF Next, Start, EditWeights, RevertWeights, vars, history

\* No other step takes a file away.
LEMMA FilesStay ==
    ASSUME [Next]_vars, deleted' = {}, ~ NewRun
    PROVE  \A p : Exists(p) => Exists(p)'
<1>1. files' = files \/ FilesChange
  BY FilesFrame
<1>2. \A p \in DOMAIN files : ~ Delete(p)
  BY DEF Delete
<1>3. DOMAIN files \subseteq DOMAIN files'
  BY <1>1, <1>2 DEF FilesChange, AdoptCopy, AdoptTorn, PublishItem, Tamper, Bind
<1>4. QED
  BY <1>3 DEF Exists

\* While nothing is deleted, every record has its file.
LEMMA KeptStep ==
    ASSUME IInv, RInv, SInv, deleted = {} => Kept, [Next]_vars, deleted' = {}
    PROVE  Kept'
<1>1. CASE NewRun
  BY <1>1 DEF NewRun, Kept, Registered
<1>2. CASE ~ NewRun
  <2>1. Kept /\ \A p : Exists(p) => Exists(p)'
    BY <1>2, NotDeleted, FilesStay
  <2>2. CASE UNCHANGED <<artifacts, clock>>
    BY <2>1, <2>2 DEF Kept, Registered
  <2>3. ASSUME NEW id, NEW path, Entry(id, path) PROVE Kept'
    <3>1. /\ Registered' = Registered \cup {id} /\ artifacts'[id].path = path
          /\ \A x \in Registered : x # id => artifacts'[x] = artifacts[x]
      BY <2>3, EntryFacts DEF Entry
    <3>2. Exists(path)'
      BY <2>1, <2>3 DEF Entry, Arrives
    <3>3. QED
      BY <2>1, <3>1, <3>2 DEF Kept
  <2>4. QED
    BY <1>2, <2>2, <2>3, ManifestCases
<1>3. QED
  BY <1>1, <1>2

\* Nothing of the run, the process and the cache changes.
Standstill == UNCHANGED <<proc, files, artifacts, clock, cache, stageRec, modelSha, origin, deleted>>

\* The steps after which a stage is at work.
LEMMA BusyCases ==
    ASSUME IInv, RInv, SInv, [Next]_vars, proc'.pc \in Busy
    PROVE  \/ Standstill
           \/ \E s \in StageName : BeginAdopt(s) \/ BeginRun(s) \/ AdoptMiss(s)
           \/ AdoptCopy \/ PublishItem \/ StoreInCache
           \/ /\ AdoptRegister \/ RegisterItem
              /\ \E id, path : Arrives(id, path) /\ Takes(id) /\ stageRec' = stageRec
                               /\ proc'.key = proc.key
                               /\ RegisterReply(path, TypeOf(id), proc.key.inputs) \in {"existing", "added"}
<1>1. \A reason : ~ Fail(reason)
  BY DEF Fail, Busy, IInv, ProcTyped, Field
<1>2. ASSUME AdoptRegister \/ RegisterItem
      PROVE  \E id, path : Arrives(id, path) /\ Takes(id) /\ stageRec' = stageRec
                           /\ proc'.key = proc.key
                           /\ RegisterReply(path, TypeOf(id), proc.key.inputs) \in {"existing", "added"}
  <2>1. PICK id, path : Arrives(id, path)
    BY <1>2, Arrival
  <2>2. QED
    BY <1>1, <2>1 DEF Arrives
<1>3. ASSUME NEW first \in DOMAIN Order, NEW last \in DOMAIN Order, Start(first, last) PROVE FALSE
  BY <1>3, StartFacts DEF Busy
<1>4. ASSUME Succeed \/ FailRun \/ AdoptTorn \/ Crash PROVE FALSE
  BY <1>4 DEF Succeed, FailRun, AdoptTorn, Crash, IdleProc, Busy
<1>5. ASSUME NEW s \in StageName, SkipStage(s) \/ ReuseOwn(s) \/ Finish(s) PROVE FALSE
  BY <1>5, StageLeaves DEF Leaves, Busy
<1>6. ASSUME NewRun \/ Fault PROVE FALSE
  <2>1. CASE NewRun
    BY <2>1 DEF NewRun, Busy
  <2>2. CASE Fault
    BY <1>1, <1>4, <2>2 DEF Fault, StageFails, Tamper, Delete, DamageCache, Outside, Busy
  <2>3. QED
    BY <1>6, <2>1, <2>2
<1>7. ASSUME (\E w \in Weights : EditWeights(w) \/ RevertWeights(w)) \/ vars' = vars PROVE Standstill
  BY <1>7 DEF EditWeights, RevertWeights, vars, Standstill, store, history
<1>8. CASE Step
  BY <1>1, <1>2, <1>4, <1>5, <1>8 DEF Step, FailInputs, ComparisonFails
<1>9. QED
  BY <1>3, <1>6, <1>7, <1>8 DEF Next

\* What a stage stores are its outputs, at their places.
Stored == {[id |-> id, path |-> artifacts[id].path] : id \in Range(proc.ids)}

\* Entries only gain what a stage stores.
LEMMA ItemsStep ==
    ASSUME IInv, [Next]_vars
    PROVE  \/ Items' = Items
           \/ StoreInCache /\ Items' = Items \cup Stored
<1>1. CASE cache' = cache
  BY <1>1 DEF Items
<1>2. CASE StoreInCache /\ cache' # cache
  <2> DEFINE items == [n \in DOMAIN proc.ids |->
                        [id |-> proc.ids[n], path |-> artifacts[proc.ids[n]].path]]
             entry == [items |-> items, damaged |-> FALSE]
  <2>1. cache' = Bind(cache, proc.key, entry) /\ proc.key \notin DOMAIN cache
    BY <1>2 DEF StoreInCache
  <2>2. entry.items = items /\ Range(items) = Stored
    BY DEF Range, Stored
  <2> HIDE DEF entry, items
  <2>3. Items' = Items \cup Range(entry.items)
    BY <2>1 DEF Items, Bind
  <2>4. QED
    BY <1>2, <2>2, <2>3
<1>3. ASSUME NEW key \in DOMAIN cache, DamageCache(key) PROVE Items' = Items
  <2>1. cache' = [cache EXCEPT ![key].damaged = TRUE]
    BY <1>3 DEF DamageCache
  <2>2. \A k \in DOMAIN cache : DOMAIN cache[k] = {"items", "damaged"}
    BY DEF IInv, CacheSound, EntrySound
  <2>3. DOMAIN cache' = DOMAIN cache /\ \A k \in DOMAIN cache : cache'[k].items = cache[k].items
    BY <2>1, <2>2
  <2>4. QED
    BY <2>3 DEF Items
<1>4. QED
  BY <1>1, <1>2, <1>3, CacheFrame

\* What an entry has was built.
LEMMA ItemBuilt == ASSUME IInv, NEW x \in Items PROVE Sha(x.id) \in Built
<1>1. PICK k \in DOMAIN cache : x \in Range(cache[k].items)
  BY DEF Items
<1>2. PICK n \in DOMAIN cache[k].items : x = cache[k].items[n]
  BY <1>1 DEF Range
<1>3. QED
  BY <1>2 DEF IInv, CacheSound, EntrySound, BuiltUnder

\* The path of a salted artifact that an entry has is the same in every run.
LEMMA OnePlaceStep ==
    ASSUME IInv, RInv, SInv, OnePlace, Unshared, [Next]_vars
    PROVE  OnePlace'
<1>1. \A x \in Items' : TypeOf(x.id) \in Salted => \A y \in Items' : y.id = x.id => y.path = x.path
  <2>1. CASE Items' = Items
    BY <2>1 DEF OnePlace
  <2>2. CASE StoreInCache /\ Items' = Items \cup Stored
    <3>1. \A id \in Range(proc.ids) : TypeOf(id) \in Salted => \A x \in Items : x.id # id
      BY <2>2 DEF StoreInCache, Unshared, Entered
    <3>2. \A x \in Stored : x.id \in Range(proc.ids) /\ x.path = artifacts[x.id].path
      BY DEF Stored
    <3>3. \A x \in Items, y \in Items : TypeOf(x.id) \in Salted /\ y.id = x.id => y.path = x.path
      BY DEF OnePlace
    <3>4. QED
      BY <2>2, <3>1, <3>2, <3>3
  <2>3. QED
    BY <2>1, <2>2, ItemsStep
<1>2. ASSUME NEW x \in Items', TypeOf(x.id) \in Salted, x.id \in Registered'
      PROVE  artifacts'[x.id].path = x.path
  <2>1. CASE UNCHANGED <<artifacts, clock>>
    <3>1. CASE x \in Items
      BY <1>2, <2>1, <3>1 DEF OnePlace, Registered
    <3>2. CASE x \notin Items
      <4>1. x \in Stored
        BY <1>2, <3>2, ItemsStep
      <4>2. QED
        BY <2>1, <4>1 DEF Stored
    <3>3. QED
      BY <3>1, <3>2
  <2>2. CASE NewRun
    BY <1>2, <2>2 DEF NewRun, Registered
  <2>3. ASSUME NEW id, NEW path, Entry(id, path) PROVE artifacts'[x.id].path = x.path
    <3>1. /\ Registered' = Registered \cup {id} /\ artifacts'[id].path = path
          /\ \A y \in Registered : y # id => artifacts'[y] = artifacts[y]
          /\ Items' = Items
      BY <2>3, EntryFacts DEF Entry, Arrives, Items
    <3>2. CASE x.id # id
      BY <1>2, <3>1, <3>2 DEF OnePlace
    <3>3. CASE x.id = id /\ proc.pc = "adopted" /\ path = Cached.path /\ id = Cached.id
      <4>1. Cached \in Items
        BY <3>3 DEF IInv, ProcSound, Items, Cached, Range
      <4>2. QED
        BY <1>2, <3>1, <3>3, <4>1 DEF OnePlace
    <3>4. CASE x.id = id /\ proc.pc = "published" /\ path \in proc.path
      <4>1. Entered(id) /\ id = MakeId(Outputs[Current][proc.item], files[path])
        BY <1>2, <2>3, <3>1, <3>4 DEF Entered, Entry, Arrives
      <4>2. Outputs[Current][proc.item] \in Salted
        BY <1>2, <2>3, <3>4 DEF Entry, Arrives
      <4>3. QED
        BY <3>4, <4>1, <4>2 DEF Unshared
    <3>5. QED
      BY <2>3, <3>2, <3>3, <3>4 DEF Entry, Arrives
  <2>4. QED
    BY <2>1, <2>2, <2>3, ManifestCases
<1>3. QED
  BY <1>1, <1>2 DEF OnePlace

\* A salted output is new until the execution that made it is stored.
LEMMA UnsharedStep ==
    ASSUME IInv, RInv, SInv, Unshared, [Next]_vars
    PROVE  Unshared'
<1> SUFFICES ASSUME proc'.pc \in {"run", "published", "store"} PROVE Unshared'
  BY DEF Unshared
<1>1. CASE Standstill
  <2>1. Items' = Items /\ Current' = Current /\ Registered' = Registered
    BY <1>1 DEF Standstill, Items, Current, Registered
  <2>2. QED
    BY <1>1, <2>1 DEF Unshared, Standstill, Entered
<1>2. ASSUME NEW s \in StageName, BeginAdopt(s) \/ BeginRun(s) \/ AdoptMiss(s) PROVE Unshared'
  <2>1. proc'.pc = "run" /\ proc'.ids = << >>
    BY <1>2 DEF BeginAdopt, BeginRun, AdoptMiss, RunUnder, IInv, ProcTyped, Field
  <2>2. QED
    BY <2>1 DEF Unshared, Range
<1>3. CASE PublishItem
  <2> DEFINE type == Outputs[Current][proc.item]
  <2>1. PICK content \in Produces(type, proc.key) : \E path \in Destination(type, content) :
           files' = Bind(files, path, content) /\ proc' = [proc EXCEPT !.pc = "published", !.path = {path}]
    BY <1>3 DEF PublishItem
  <2>2. PICK path : files' = Bind(files, path, content)
                    /\ proc' = [proc EXCEPT !.pc = "published", !.path = {path}]
    BY <2>1
  <2>3. /\ proc'.path = {path} /\ proc'.ids = proc.ids /\ proc'.item = proc.item /\ Current' = Current
        /\ files'[path] = content /\ proc.pc = "run" /\ Registered' = Registered /\ Items' = Items
    <3>1. /\ proc'.path = {path} /\ proc'.ids = proc.ids /\ proc'.item = proc.item
          /\ proc'.cur = proc.cur
      BY <2>2 DEF IInv, ProcTyped, Field
    <3>2. UNCHANGED <<artifacts, cache>> /\ proc.pc = "run"
      BY <1>3 DEF PublishItem
    <3>3. files'[path] = content
      BY <2>2 DEF Bind
    <3>4. QED
      BY <3>1, <3>2, <3>3 DEF Current, Registered, Items
  <2>4. type \in Salted => content \notin Built
    <3>1. Len(origin) + 1 \notin Built
      BY DEF IInv, OriginSound, Built
    <3>2. QED
      BY <2>1, <3>1 DEF Produces
  <2>5. type \in Salted => MakeId(type, content) \notin Registered /\ ~ Entered(MakeId(type, content))
    BY <2>4, ItemBuilt DEF IInv, ManifestSound, MakeId, Sha, Entered
  <2> HIDE DEF type
  <2>7. \A id \in Range(proc'.ids) : TypeOf(id) \in Salted => ~ Entered(id)'
    BY <2>3 DEF Unshared, Entered
  <2>8. QED
    BY <2>3, <2>5, <2>7 DEF Unshared, type, Entered
<1>4. CASE AdoptRegister \/ RegisterItem
  <2>1. PICK id, path : Arrives(id, path) /\ Takes(id)
    <3>1. \A reason : ~ Fail(reason)
      BY DEF Fail, IInv, ProcTyped, Field
    <3>2. QED
      BY <1>4, <3>1, Arrival DEF Arrives
  <2>2. proc.pc = "published" /\ path \in proc.path
    BY <1>4, <2>1 DEF Arrives, AdoptRegister, Registering, RegisterItem, Fail, IInv, ProcTyped, Field
  <2>3. TypeOf(id) \in Salted => ~ Entered(id)
    BY <2>1, <2>2 DEF Unshared, Arrives
  <2>4. Range(proc'.ids) = Range(proc.ids) \cup {id} /\ Items' = Items
    <3>1. proc'.ids = Append(proc.ids, id) /\ proc.ids \in Seq(Id)
      BY <2>1 DEF Takes, IInv, ProcTyped
    <3>2. QED
      BY <2>1, <3>1 DEF Range, Items, Arrives
  <2>5. proc'.pc # "published"
    BY <2>1 DEF Takes
  <2>6. QED
    BY <2>2, <2>3, <2>4, <2>5 DEF Unshared, Entered
<1>5. CASE AdoptCopy \/ StoreInCache
  BY <1>5 DEF AdoptCopy, StoreInCache, IInv, ProcTyped, Field
<1>6. QED
  BY <1>1, <1>2, <1>3, <1>4, <1>5, BusyCases DEF Busy

-----------------------------------------------------------------------------
(* The keys that stages recorded *)

\* What the manifest names of the model is not forgotten.
LEMMA ModelStays ==
    ASSUME IInv, [Next]_vars, ~ NewRun, modelSha # NoWeights
    PROVE  modelSha' # NoWeights
<1>1. CASE Fault
  BY <1>1 DEF Fault, AdoptTorn, StageFails, Fail, Crash, Tamper, Delete, DamageCache
<1>2. CASE Step
  <2>1. ASSUME NEW loaded, NEW users, NEW s, RecordModel(loaded), loaded = LoadBy(users, s)
        PROVE  modelSha' = modelSha \/ modelSha' = weights
    BY <2>1 DEF RecordModel, LoadBy
  <2>2. ASSUME NEW s \in StageName, ReuseOwn(s) \/ BeginAdopt(s) \/ BeginRun(s) \/ AdoptMiss(s)
        PROVE  modelSha' = modelSha \/ modelSha' = weights
    BY <2>1, <2>2 DEF ReuseOwn, BeginAdopt, BeginRun, AdoptMiss, RunUnder
  <2>3. modelSha' = modelSha \/ modelSha' = weights
    BY <1>2, <2>2 DEF Step, SkipStage, FailInputs, Fail,
       Finish, AdoptCopy, AdoptRegister, RegisterItem, Registering, PublishItem,
       ComparisonFails, StoreInCache, Succeed, FailRun
  <2>4. QED
    BY <2>3, PipelineAssumption DEF IInv, ScalarsTyped
<1>3. ASSUME NEW w \in Weights, EditWeights(w) \/ RevertWeights(w) PROVE modelSha' = modelSha
  BY <1>3 DEF EditWeights, RevertWeights
<1>4. ASSUME NEW first, NEW last, Start(first, last) PROVE modelSha' = modelSha
  BY <1>4 DEF Start
<1>5. CASE vars' = vars
  BY <1>5 DEF vars
<1>6. QED
  BY <1>1, <1>2, <1>3, <1>4, <1>5 DEF Next

\* The manifest names newer weights or the same.
LEMMA ModelGrows ==
    ASSUME IInv, SInv, [Next]_vars, ~ NewRun, ~ reverted', modelSha # NoWeights
    PROVE  /\ modelSha \in Weights /\ modelSha' \in Weights /\ modelSha <= modelSha'
           /\ modelSha' = modelSha \/ modelSha' = weights
<1>1. /\ Weights \subseteq Nat /\ weights \in Weights /\ modelSha \in Weights
  BY PipelineAssumption DEF IInv, ScalarsTyped, Hash
<1>2. modelSha' # NoWeights /\ modelSha' \in {modelSha, NoWeights, weights}
  BY ModelStep, ModelStays
<1>3. ~ reverted
  BY NotReverted
<1>4. modelSha <= weights
  BY <1>3 DEF SInv, Bound
<1>5. modelSha <= modelSha
  BY <1>1
<1>6. QED
  BY <1>1, <1>2, <1>4, <1>5

\* The key a stage leaves is the one it would compute.
LEMMA RecordedKey ==
    ASSUME IInv, RInv, SInv, [Next]_vars, NEW s \in StageName \ Skipped, ReuseOwn(s) \/ Finish(s)
    PROVE  /\ s = Current /\ artifacts' = artifacts /\ stageRec'[s].status \in Done
           /\ stageRec'[s].key = KeyOf(s, modelSha')
           /\ s \in DependsOnModel => modelSha' \in Weights
<1>1. PICK w : Leaves(s, w)
  BY StageLeaves
<1>2. /\ s = Current /\ artifacts' = artifacts /\ w = proc'.loaded /\ Fresh(s, w)'
  BY <1>1 DEF Leaves
<1>3. proc'.loaded # NoWeights => modelSha' = proc'.loaded
  BY PlacedStep DEF Placed
<1>4. modelSha' \in Hash
  BY ScalarsStep DEF ScalarsTyped
<1>5. KeyOf(s, w)' = KeyOf(s, w)
  BY <1>2, KeyFixed
<1>6. stageRec'[s].status \in Done /\ stageRec'[s].key = KeyOf(s, w) /\ (s \in DependsOnModel => w # NoWeights)
  BY <1>2, <1>5 DEF Fresh
<1>7. s \in DependsOnModel => w = modelSha' /\ modelSha' \in Weights
  BY <1>2, <1>3, <1>4, <1>6 DEF Hash
<1>8. KeyOf(s, w) = KeyOf(s, modelSha')
  BY <1>7 DEF KeyOf
<1>9. QED
  BY <1>2, <1>6, <1>7, <1>8

\* The recorded key is of registered artifacts and of weights.
LEMMA KeyedStep == IInv /\ RInv /\ SInv /\ Keyed /\ [Next]_vars => Keyed'
<1> SUFFICES ASSUME IInv, RInv, SInv, Keyed, [Next]_vars, NEW s \in StageName \ Skipped,
                    stageRec'[s].status \in Done, NEW key, key = stageRec'[s].key
             PROVE  /\ key = [stage |-> s, inputs |-> key.inputs, weights |-> key.weights]
                    /\ key.inputs \subseteq Registered'
                    /\ \A p \in key.inputs : TypeOf(p) \in Consumes(s)
                    /\ IF s \in DependsOnModel
                       THEN key.weights \in Weights /\ modelSha' # NoWeights
                       ELSE key.weights = NoWeights
  BY DEF Keyed
<1>1. CASE stageRec'[s] = stageRec[s] /\ ~ NewRun
  <2>1. Registered \subseteq Registered'
    BY <1>1, ManifestStep
  <2>2. QED
    BY <1>1, <2>1, ModelStays DEF Keyed
<1>2. CASE ReuseOwn(s) \/ Finish(s)
  <2>1. /\ artifacts' = artifacts /\ key = KeyOf(s, modelSha')
        /\ s \in DependsOnModel => modelSha' \in Weights
    BY <1>2, RecordedKey
  <2>2. \A p \in Inputs(s) : p \in Registered /\ TypeOf(p) \in Consumes(s)
    BY InputFacts DEF SInv, LatestOf, Registered
  <2>3. QED
    BY <2>1, <2>2, PipelineAssumption DEF KeyOf, Registered
<1>3. QED
  BY <1>1, <1>2, RecCases

\* Recorded weights are not newer than the manifest's.
LEMMA KeyedBeforeStep ==
    ASSUME IInv, RInv, SInv, Keyed, [Next]_vars, ~ reverted', ~ NewRun, KeyedBefore
    PROVE  KeyedBefore'
<1> SUFFICES ASSUME NEW s \in DependsOnModel \ Skipped, stageRec'[s].status \in Done
             PROVE  stageRec'[s].key.weights <= modelSha'
  BY DEF KeyedBefore
<1>1. s \in StageName \ Skipped /\ Weights \subseteq Nat
  BY PipelineAssumption
<1>2. CASE stageRec'[s] = stageRec[s]
  <2>1. stageRec[s].key.weights \in Weights /\ modelSha # NoWeights
    BY <1>1, <1>2 DEF Keyed
  <2>2. stageRec[s].key.weights <= modelSha
    BY <1>1, <1>2 DEF KeyedBefore
  <2>3. modelSha \in Weights /\ modelSha' \in Weights /\ modelSha <= modelSha'
    BY <2>1, ModelGrows
  <2>4. \A u, v, x \in Nat : u <= v /\ v <= x => u <= x
    OBVIOUS
  <2>5. stageRec[s].key.weights <= modelSha'
    BY <1>1, <2>1, <2>2, <2>3, <2>4
  <2>6. QED
    BY <1>2, <2>5
<1>3. CASE ReuseOwn(s) \/ Finish(s)
  <2>1. stageRec'[s].key = KeyOf(s, modelSha') /\ modelSha' \in Weights
    BY <1>1, <1>3, RecordedKey
  <2>2. stageRec'[s].key.weights = modelSha'
    BY <2>1 DEF KeyOf
  <2>3. QED
    BY <1>1, <2>1, <2>2
<1>4. QED
  BY <1>1, <1>2, <1>3, RecCases

-----------------------------------------------------------------------------
(* Adoptions and executions *)

\* Where a registration leads.
LEMMA RegisterLeads ==
    ASSUME IInv, proc'.pc \in Busy
    PROVE  /\ AdoptRegister => proc.pc = "adopted" /\ proc'.pc \in {"adopt", "cached"}
           /\ RegisterItem => proc.pc = "published" /\ proc'.pc \in {"run", "store"}
<1>1. \A reason : ~ Fail(reason)
  BY DEF Fail, Busy, IInv, ProcTyped, Field
<1>2. QED
  BY <1>1 DEF AdoptRegister, RegisterItem, Registering, IInv, ProcTyped, Field

\* What marking a stage as running does.
LEMMA RunUnderFacts ==
    ASSUME IInv, NEW s, NEW key, NEW loaded, RunUnder(s, key, loaded)
    PROVE  /\ proc'.pc = "run" /\ proc'.cur = proc.cur /\ proc'.key = key
           /\ UNCHANGED <<store, cache>>
           /\ s \in StageName => stageRec'[s].status = "running"
BY DEF RunUnder, IInv, ProcTyped, Field, RecordsSound, RecSound

\* A stage that runs is not recorded as finished.
LEMMA UnfinishedStep ==
    ASSUME IInv, RInv, SInv, Unfinished, [Next]_vars
    PROVE  Unfinished'
<1> SUFFICES ASSUME proc'.pc \in {"run", "published", "store", "succeeded"}
             PROVE  stageRec'[Current'].status \notin Done
  BY DEF Unfinished
<1>1. CASE Standstill
  BY <1>1 DEF Standstill, Unfinished, Current
<1>2. ASSUME NEW s \in StageName, BeginAdopt(s) PROVE FALSE
  BY <1>2 DEF BeginAdopt, IInv, ProcTyped, Field
<1>3. ASSUME NEW s \in StageName, BeginRun(s) \/ AdoptMiss(s)
      PROVE stageRec'[Current'].status \notin Done
  <2>1. s = Current /\ \E key, loaded : RunUnder(s, key, loaded)
    BY <1>3 DEF BeginRun, AdoptMiss, InputsReady, Entering
  <2>2. proc'.cur = proc.cur /\ stageRec'[s].status = "running"
    BY <2>1, RunUnderFacts
  <2>3. QED
    BY <2>1, <2>2 DEF Current, Done
<1>4. CASE PublishItem \/ StoreInCache
  <2>1. proc'.cur = proc.cur /\ stageRec' = stageRec /\ proc.pc \in {"run", "store"}
    BY <1>4 DEF PublishItem, StoreInCache, IInv, ProcTyped, Field
  <2>2. QED
    BY <2>1 DEF Unfinished, Current
<1>5. CASE AdoptCopy
  BY <1>5 DEF AdoptCopy, IInv, ProcTyped, Field
<1>6. ASSUME AdoptRegister \/ RegisterItem, NEW id, Takes(id), stageRec' = stageRec
      PROVE stageRec'[Current'].status \notin Done
  <2>1. proc.pc = "published"
    BY <1>6, RegisterLeads DEF Busy
  <2>2. QED
    BY <1>6, <2>1 DEF Takes, Unfinished, Current
<1>7. QED
  BY <1>1, <1>2, <1>3, <1>4, <1>5, <1>6, BusyCases DEF Busy

\* An entry is not damaged while it is adopted.
LEMMA AdoptingStep ==
    ASSUME IInv, RInv, SInv, Adopting, [Next]_vars
    PROVE  Adopting'
<1> SUFFICES ASSUME proc'.pc \in {"adopt", "adopted"}
             PROVE  Current' \in Cacheable /\ ~ cache'[proc'.key].damaged
  BY DEF Adopting
<1>1. CASE Standstill
  BY <1>1 DEF Standstill, Adopting, Current
<1>2. ASSUME NEW s \in StageName, BeginAdopt(s)
      PROVE  Current' \in Cacheable /\ ~ cache'[proc'.key].damaged
  <2>1. /\ s = Current /\ CacheHit(s, proc'.key) /\ proc'.cur = proc.cur /\ cache' = cache
    BY <1>2 DEF BeginAdopt, InputsReady, Entering, IInv, ProcTyped, Field
  <2>2. QED
    BY <2>1 DEF CacheHit, Current
<1>3. ASSUME NEW s \in StageName, BeginRun(s) \/ AdoptMiss(s) PROVE FALSE
  <2>1. \E key, loaded : RunUnder(s, key, loaded)
    BY <1>3 DEF BeginRun, AdoptMiss
  <2>2. QED
    BY <2>1, RunUnderFacts
<1>4. CASE PublishItem \/ StoreInCache
  <2>1. PublishItem => \E path : proc' = [proc EXCEPT !.pc = "published", !.path = {path}]
    BY DEF PublishItem
  <2>2. StoreInCache => proc' = [proc EXCEPT !.pc = "succeeded"]
    BY DEF StoreInCache
  <2>3. proc'.pc \in {"published", "succeeded"}
    BY <1>4, <2>1, <2>2 DEF IInv, ProcTyped, Field
  <2>4. QED
    BY <2>3
<1>5. CASE AdoptCopy
  <2>1. /\ proc'.cur = proc.cur /\ proc'.key = proc.key /\ cache' = cache /\ proc.pc = "adopt"
    BY <1>5 DEF AdoptCopy, IInv, ProcTyped, Field
  <2>2. QED
    BY <2>1 DEF Adopting, Current
<1>6. ASSUME AdoptRegister \/ RegisterItem, NEW id, NEW path, Arrives(id, path), Takes(id),
             proc'.key = proc.key
      PROVE  Current' \in Cacheable /\ ~ cache'[proc'.key].damaged
  <2>1. proc.pc = "adopted"
    BY <1>6, RegisterLeads DEF Busy
  <2>2. QED
    BY <1>6, <2>1 DEF Takes, Arrives, Adopting, Current
<1>7. QED
  BY <1>1, <1>2, <1>3, <1>4, <1>5, <1>6, BusyCases DEF Busy

\* An entry stays closed to an adoption.
LEMMA ClosedStays ==
    ASSUME IInv, [Next]_vars, deleted' = {}, ~ NewRun, NEW k \in DOMAIN cache, Closed(k)
    PROVE  k \in DOMAIN cache' /\ Closed(k)'
<1>1. \A p : Exists(p) => Exists(p)'
  BY FilesStay
<1>2. \A x \in DOMAIN cache : DOMAIN cache[x] = {"items", "damaged"}
  BY DEF IInv, CacheSound, EntrySound
<1>3. /\ k \in DOMAIN cache' /\ cache'[k].items = cache[k].items
      /\ cache[k].damaged => cache'[k].damaged
  <2>1. CASE StoreInCache
    BY <2>1 DEF StoreInCache, Bind
  <2>2. ASSUME NEW key \in DOMAIN cache, DamageCache(key)
        PROVE  /\ k \in DOMAIN cache' /\ cache'[k].items = cache[k].items
               /\ cache[k].damaged => cache'[k].damaged
    <3>1. cache' = [cache EXCEPT ![key].damaged = TRUE]
      BY <2>2 DEF DamageCache
    <3>2. CASE k = key
      BY <1>2, <3>1, <3>2
    <3>3. CASE k # key
      BY <3>1, <3>3
    <3>4. QED
      BY <3>2, <3>3
  <2>3. QED
    BY <2>1, <2>2, CacheFrame
<1>4. QED
  BY <1>1, <1>3 DEF Closed, FirstPath

\* The entry of what a stage lists is not adopted again in this run.
LEMMA TakenStep ==
    ASSUME IInv, RInv, SInv, [Next]_vars, deleted' = {}, ~ NewRun, Taken, Running
    PROVE  Taken'
<1> SUFFICES ASSUME NEW s \in Cacheable \ Skipped, stageRec'[s].status \in Done
             PROVE  stageRec'[s].key \in DOMAIN cache' /\ Closed(stageRec[s].key)'
  BY DEF Taken
<1>1. s \in StageName \ Skipped
  BY PipelineAssumption
<1>2. PICK key : key = stageRec'[s].key
  OBVIOUS
<1>3. key \in DOMAIN cache /\ Closed(key)
  <2>1. CASE stageRec'[s] = stageRec[s]
    BY <1>2, <2>1 DEF Taken
  <2>2. CASE ReuseOwn(s)
    <3>1. stageRec'[s].key = stageRec[s].key /\ stageRec[s].status \in Done
      BY <1>1, <2>2 DEF ReuseOwn, SetStage, UpToDate, IInv, RecordsSound
    <3>2. QED
      BY <1>2, <3>1 DEF Taken
  <2>3. CASE Finish(s)
    <3>1. stageRec'[s].key = proc.key /\ s = Current /\ proc.pc \in {"succeeded", "cached"}
      BY <1>1, <2>3 DEF Finish, SetStage, IInv, RecordsSound
    <3>2. QED
      BY <1>2, <3>1 DEF Running
  <2>4. QED
    BY <1>1, <2>1, <2>2, <2>3, RecCases
<1>4. key \in DOMAIN cache' /\ Closed(key)'
  BY <1>3, ClosedStays
<1>5. QED
  BY <1>2, <1>4 DEF Closed, FirstPath

\* Nor is the entry of a stage that runs.
LEMMA RunningStep ==
    ASSUME IInv, RInv, SInv, [Next]_vars, deleted' = {}, Kept, Running, Opened
    PROVE  Running'
<1> SUFFICES ASSUME proc'.pc \in Busy PROVE Running'
  BY DEF Running, Busy
<1>1. PICK key : key = proc.key
  OBVIOUS
<1>2. ~ NewRun
  BY DEF NewRun, Busy
<1>3. key \in DOMAIN cache /\ Closed(key) => key \in DOMAIN cache' /\ Closed(key)'
  BY <1>2, ClosedStays
<1>4. CASE Standstill
  BY <1>4 DEF Standstill, Running, Current, Closed, FirstPath, Exists
<1>5. ASSUME NEW s \in StageName, BeginAdopt(s) PROVE Running'
  BY <1>5 DEF BeginAdopt, IInv, ProcTyped, Field, Running
<1>6. ASSUME NEW s \in StageName, BeginRun(s) PROVE Running'
  <2>1. PICK begun, loaded : s = Current /\ ~ CacheHit(s, begun) /\ RunUnder(s, begun, loaded)
    BY <1>6 DEF BeginRun, InputsReady, Entering
  <2>2. /\ proc'.pc = "run" /\ proc'.cur = proc.cur /\ proc'.key = begun
        /\ UNCHANGED <<store, cache>>
    BY <2>1, RunUnderFacts
  <2>3. s \in Cacheable /\ begun \in DOMAIN cache => cache[begun].damaged
    BY <2>1 DEF CacheHit
  <2>4. QED
    BY <2>1, <2>2, <2>3 DEF Running, Current, Closed
<1>7. ASSUME NEW s \in StageName, AdoptMiss(s) PROVE Running'
  <2>1. PICK loaded : s = Current /\ proc.pc = "adopt" /\ Exists(Cached.path) /\ RunUnder(s, proc.key, loaded)
    BY <1>7 DEF AdoptMiss
  <2>2. /\ proc'.pc = "run" /\ proc'.cur = proc.cur /\ proc'.key = proc.key
        /\ UNCHANGED <<store, cache>>
    BY <2>1, RunUnderFacts
  <2>3. Exists(FirstPath(proc.key))
    <3>1. CASE proc.item = 1
      BY <2>1, <3>1 DEF Cached, FirstPath
    <3>2. CASE proc.item > 1
      BY <2>1, <3>2 DEF Opened
    <3>3. QED
      BY <3>1, <3>2 DEF IInv, ProcTyped
  <2>4. QED
    BY <2>2, <2>3 DEF Running, Closed, FirstPath, Exists, store
<1>8. CASE PublishItem
  <2>1. PICK path : proc' = [proc EXCEPT !.pc = "published", !.path = {path}]
    BY <1>8 DEF PublishItem
  <2>2. /\ proc'.pc = "published" /\ proc'.key = proc.key /\ Current' = Current
    BY <2>1 DEF IInv, ProcTyped, Field, Current
  <2>3. cache' = cache /\ proc.pc = "run"
    BY <1>8 DEF PublishItem
  <2>4. Current \in Cacheable /\ key \in DOMAIN cache => Closed(key)
    BY <1>1, <2>3 DEF Running
  <2>5. QED
    BY <1>1, <1>3, <2>2, <2>3, <2>4 DEF Running, Closed, FirstPath
<1>9. CASE AdoptCopy
  BY <1>9 DEF AdoptCopy, IInv, ProcTyped, Field, Running
<1>10. CASE StoreInCache
  <2>1. proc' = [proc EXCEPT !.pc = "succeeded"] /\ proc.pc = "store" /\ UNCHANGED <<files, artifacts>>
    BY <1>10 DEF StoreInCache, store
  <2>2. /\ proc'.pc = "succeeded" /\ proc'.key = proc.key /\ Current' = Current
    BY <2>1 DEF IInv, ProcTyped, Field, Current
  <2>3. CASE Current \in Cacheable /\ proc.key \in DOMAIN cache
    <3>1. key \in DOMAIN cache' /\ Closed(key)'
      BY <1>1, <1>3, <2>1, <2>3 DEF Running
    <3>2. QED
      BY <1>1, <2>2, <3>1 DEF Running, Closed, FirstPath
  <2>4. CASE Current \in Cacheable /\ proc.key \notin DOMAIN cache
    <3> DEFINE items == [n \in DOMAIN proc.ids |->
                          [id |-> proc.ids[n], path |-> artifacts[proc.ids[n]].path]]
    <3>1. cache' = Bind(cache, proc.key, [items |-> items, damaged |-> FALSE])
      BY <1>10, <2>4 DEF StoreInCache
    <3>2. proc.ids \in Seq(Id) /\ proc.ids # << >> /\ Range(proc.ids) \subseteq Registered
      BY <2>1 DEF IInv, ProcTyped, ProcSound
    <3>3. 1 \in DOMAIN proc.ids /\ proc.ids[1] \in Registered
      BY <3>2 DEF Range
    <3>4. items[1].path = artifacts[proc.ids[1]].path
      BY <3>3
    <3> HIDE DEF items
    <3>5. proc.key \in DOMAIN cache' /\ cache'[proc.key].items[1].path = artifacts[proc.ids[1]].path
      BY <3>1, <3>4 DEF Bind
    <3>6. Exists(artifacts[proc.ids[1]].path)
      BY <3>3 DEF Kept
    <3>7. QED
      BY <2>1, <2>2, <3>5, <3>6 DEF Running, Closed, FirstPath, Exists
  <2>5. CASE Current \notin Cacheable
    BY <2>2, <2>5 DEF Running
  <2>6. QED
    BY <2>3, <2>4, <2>5
<1>11. ASSUME AdoptRegister \/ RegisterItem, NEW id, NEW path, Arrives(id, path), Takes(id),
             proc'.key = proc.key
      PROVE  Running'
  <2>1. UNCHANGED <<files, cache>> /\ Current' = Current
    BY <1>11 DEF Arrives, Takes, Current
  <2>2. CASE AdoptRegister
    <3>1. proc.pc = "adopted" /\ proc'.pc \in {"adopt", "cached"} /\ proc.key \in DOMAIN cache
      BY <2>2, RegisterLeads DEF IInv, ProcSound
    <3>2. QED
      BY <1>11, <2>1, <3>1 DEF Running, Opened, Closed, FirstPath, Exists
  <2>3. CASE RegisterItem
    <3>1. proc.pc = "published" /\ proc'.pc \in {"run", "store"}
      BY <2>3, RegisterLeads
    <3>2. QED
      BY <1>11, <2>1, <3>1 DEF Running, Closed, FirstPath, Exists
  <2>4. QED
    BY <1>11, <2>2, <2>3
<1>12. QED
  BY <1>4, <1>5, <1>6, <1>7, <1>8, <1>9, <1>10, <1>11, BusyCases

\* An adoption in progress is not of what the stage lists.
LEMMA OpenedStep ==
    ASSUME IInv, RInv, SInv, [Next]_vars, deleted' = {}, Adopting, Kept, Taken, Opened
    PROVE  Opened'
<1> SUFFICES ASSUME proc'.pc \in {"adopt", "adopted"} PROVE Opened'
  BY DEF Opened
<1>1. ~ NewRun /\ proc'.pc \in Busy
  BY DEF NewRun, Busy
<1>2. CASE Standstill
  BY <1>2 DEF Standstill, Opened, Current, FirstPath, Exists, IdsAt, Registered, Cached
<1>3. ASSUME NEW s \in StageName, BeginAdopt(s) PROVE Opened'
  <2>1. proc.item = 1
    BY <1>3 DEF BeginAdopt, InputsReady, Entering, IInv, ProcSound
  <2>2. proc'.pc = "adopt" /\ proc'.item = 1
    BY <1>3, <2>1 DEF BeginAdopt, IInv, ProcTyped, Field
  <2>3. QED
    BY <2>2 DEF Opened
<1>4. ASSUME NEW s \in StageName, BeginRun(s) \/ AdoptMiss(s) PROVE FALSE
  <2>1. \E key, loaded : RunUnder(s, key, loaded)
    BY <1>4 DEF BeginRun, AdoptMiss
  <2>2. QED
    BY <2>1, RunUnderFacts
<1>5. CASE PublishItem \/ StoreInCache
  <2>1. PublishItem => \E path : proc' = [proc EXCEPT !.pc = "published", !.path = {path}]
    BY DEF PublishItem
  <2>2. StoreInCache => proc' = [proc EXCEPT !.pc = "succeeded"]
    BY DEF StoreInCache
  <2>3. proc'.pc \in {"published", "succeeded"}
    BY <1>5, <2>1, <2>2 DEF IInv, ProcTyped, Field
  <2>4. QED
    BY <2>3
<1>6. CASE AdoptCopy
  <2>1. /\ proc.pc = "adopt" /\ ~ Exists(Cached.path) /\ UNCHANGED <<artifacts, cache, stageRec>>
        /\ files' = Bind(files, Cached.path, Sha(Cached.id))
        /\ proc' = [proc EXCEPT !.pc = "adopted"]
    BY <1>6 DEF AdoptCopy
  <2>2. /\ proc'.pc = "adopted" /\ proc'.item = proc.item /\ proc'.key = proc.key /\ Current' = Current
        /\ Cached' = Cached
    BY <2>1 DEF IInv, ProcTyped, Field, Current, Cached
  <2>3. /\ Current \in Cacheable \ Skipped /\ ~ cache[proc.key].damaged
    BY <2>1 DEF Adopting, IInv, ProcSound, Busy
  <2>4. IdsAt(Cached.path) = {}
    BY <2>1 DEF Kept, IdsAt
  <2>5. /\ Exists(FirstPath(proc.key))'
        /\ stageRec[Current].status \in Done => stageRec[Current].key # proc.key
    <3>1. CASE proc.item = 1
      <4>1. FirstPath(proc.key) = Cached.path
        BY <3>1 DEF FirstPath, Cached
      <4>2. ~ Closed(proc.key)
        BY <2>1, <2>3, <4>1 DEF Closed
      <4>3. Exists(FirstPath(proc.key))'
        BY <2>1, <4>1 DEF Exists, Bind, FirstPath
      <4>4. QED
        BY <2>3, <4>2, <4>3 DEF Taken
    <3>2. CASE proc.item > 1
      BY <2>1, <3>2 DEF Opened, Exists, Bind, FirstPath
    <3>3. QED
      BY <3>1, <3>2 DEF IInv, ProcTyped
  <2>6. IdsAt(Cached.path)' = {}
    BY <2>1, <2>2, <2>4 DEF IdsAt, Registered
  <2>7. QED
    BY <2>1, <2>2, <2>5, <2>6 DEF Opened, FirstPath, Exists
<1>7. ASSUME AdoptRegister \/ RegisterItem, NEW id, NEW path, Arrives(id, path), Takes(id),
             stageRec' = stageRec, proc'.key = proc.key
      PROVE  Opened'
  <2>1. proc.pc = "adopted" /\ proc'.pc = "adopt"
    BY <1>1, <1>7, RegisterLeads
  <2>2. UNCHANGED <<files, cache, stageRec>> /\ Current' = Current /\ proc'.key = proc.key
    BY <1>7 DEF Arrives, Takes, Current
  <2>3. QED
    BY <2>1, <2>2 DEF Opened, FirstPath, Exists
<1>8. QED
  BY <1>1, <1>2, <1>3, <1>4, <1>5, <1>6, <1>7, BusyCases

\* The type of a record is that of its content.
LEMMA NamedStep == IInv /\ RInv /\ SInv /\ Named /\ [Next]_vars => Named'
<1> SUFFICES ASSUME IInv, RInv, SInv, Named, [Next]_vars PROVE Named'
  OBVIOUS
<1>1. CASE UNCHANGED <<artifacts, clock>>
  <2>1. \A x \in Registered : origin'[Sha(x)] = origin[Sha(x)]
    BY OriginStep DEF Grows, IInv, ManifestSound
  <2>2. QED
    BY <1>1, <2>1 DEF Named, Registered
<1>2. CASE NewRun
  BY <1>2 DEF NewRun, Named, Registered
<1>3. ASSUME NEW id, NEW path, Entry(id, path) PROVE Named'
  <2>1. /\ Registered' = Registered \cup {id} /\ origin' = origin
        /\ origin[Sha(id)] = Source(TypeOf(id), proc.key)
    BY <1>3, EntryFacts
  <2>2. origin[Sha(id)].type = TypeOf(id)
    BY <2>1 DEF Source
  <2>3. QED
    BY <2>1, <2>2 DEF Named
<1>4. QED
  BY <1>1, <1>2, <1>3, ManifestCases

\* Between stages the process has no key.
LEMMA RestingStep == IInv /\ RInv /\ SInv /\ Resting /\ [Next]_vars => Resting'
<1> SUFFICES ASSUME IInv, RInv, SInv, Resting, [Next]_vars, proc'.pc \in {"idle", "stage"}
             PROVE  proc'.key = NoKey
  BY DEF Resting
<1>1. CASE proc' = proc
  BY <1>1 DEF Resting
<1>2. ASSUME NEW first, NEW last, Start(first, last) PROVE proc'.key = NoKey
  BY <1>2 DEF Start, IdleProc
<1>3. CASE \/ Fault \/ NewRun \/ \E w \in Weights : EditWeights(w) \/ RevertWeights(w)
  <2>1. \A reason : ~ Fail(reason)
    BY DEF Fail, IInv, ProcTyped, Field
  <2>2. proc' = proc \/ proc' = IdleProc(proc.first, proc.last)
    BY <1>3, <2>1 DEF Fault, AdoptTorn, StageFails, Crash, Tamper, Delete, DamageCache, NewRun,
       EditWeights, RevertWeights
  <2>3. QED
    BY <1>1, <2>2 DEF IdleProc
<1>4. CASE Step
  <2>1. \A reason : ~ Fail(reason)
    BY DEF Fail, IInv, ProcTyped, Field
  <2>2. ASSUME NEW s \in StageName, SkipStage(s) \/ ReuseOwn(s) \/ Finish(s) PROVE proc'.key = NoKey
    BY <2>2 DEF SkipStage, ReuseOwn, Finish, NextStage, IInv, ProcTyped, Field
  <2>3. ASSUME NEW s \in StageName, BeginAdopt(s) PROVE FALSE
    BY <2>3 DEF BeginAdopt, IInv, ProcTyped, Field
  <2>4. ASSUME NEW s \in StageName, BeginRun(s) \/ AdoptMiss(s) PROVE FALSE
    <3>1. \E key, loaded : RunUnder(s, key, loaded)
      BY <2>4 DEF BeginRun, AdoptMiss
    <3>2. QED
      BY <3>1, RunUnderFacts
  <2>5. CASE Succeed \/ FailRun
    BY <2>5 DEF Succeed, FailRun, IdleProc
  <2>6. CASE AdoptRegister \/ RegisterItem
    BY <2>1, <2>6, Arrival DEF Arrives, Takes
  <2>7. CASE AdoptCopy \/ StoreInCache
    BY <2>7 DEF AdoptCopy, StoreInCache, IInv, ProcTyped, Field
  <2>8. CASE PublishItem
    BY <2>8 DEF PublishItem, IInv, ProcTyped, Field
  <2>9. QED
    BY <1>4, <2>1, <2>2, <2>3, <2>4, <2>5, <2>6, <2>7, <2>8 DEF Step, FailInputs, ComparisonFails
<1>5. CASE vars' = vars
  BY <1>1, <1>5 DEF vars
<1>6. QED
  BY <1>2, <1>3, <1>4, <1>5 DEF Next

-----------------------------------------------------------------------------
(* What a stage makes is the newest of its type *)

\* Two records of equal age are one, and an input is the newest of its type.
LEMMA NewestAlone ==
    ASSUME IInv, Stamped, NEW p, NEW q, LatestOf(artifacts, p), q \in Registered,
           TypeOf(q) = TypeOf(p), artifacts[p].created <= artifacts[q].created
    PROVE  p = q
<1>1. p \in Registered /\ artifacts[q].created <= artifacts[p].created
  BY DEF LatestOf, Registered
<1>2. artifacts[p].created \in Nat /\ artifacts[q].created \in Nat
  BY <1>1 DEF IInv, ManifestSound, Record
<1>3. artifacts[p].created = artifacts[q].created
  BY <1>1, <1>2
<1>4. QED
  BY <1>1, <1>3 DEF Stamped

\* What a stage would make again, and is not salted, is the newest it made.
LEMMA Lineage ==
    ASSUME IInv, RInv, SInv, Stamped, Named, Single, ~ reverted, InSequence(artifacts, origin),
           proc.pc \in Busy, Plain(Current), NEW id \in Registered,
           origin[Sha(id)] = Source(TypeOf(id), proc.key), TypeOf(id) \notin Salted
    PROVE  Tip(artifacts, id)
<1> SUFFICES ASSUME NEW x \in Registered, TypeOf(x) = TypeOf(id),
                    artifacts[x].stage = artifacts[id].stage
             PROVE  artifacts[x].created <= artifacts[id].created
  BY DEF Tip, Registered
<1>1. artifacts[x].created \in Nat /\ artifacts[id].created \in Nat
  BY DEF IInv, ManifestSound, Record
<1>2. CASE artifacts[id].created <= artifacts[x].created
  <2>1. artifacts[id].stage = Current /\ artifacts[id].parents = Inputs(Current)
    BY SameRecord
  <2>2. Follows(artifacts, origin, id, x)
    BY <1>2, <2>1 DEF InSequence, Registered
  <2>3. /\ \A p \in Inputs(Current) : LatestOf(artifacts, p) /\ TypeOf(p) \in Consumes(Current)
        /\ \A t \in Consumes(Current) : Present(artifacts, t) => \E p \in Inputs(Current) : TypeOf(p) = t
    BY InputFacts DEF SInv
  <2>4. /\ \A q \in artifacts[x].parents : q \in Registered /\ TypeOf(q) \in Consumes(Current)
        /\ origin[Sha(x)].stage = Current
    BY <2>1 DEF SInv, Shaped, Registered
  <2>5. \A p \in Inputs(Current) : \A q \in artifacts[x].parents : TypeOf(q) = TypeOf(p) => p = q
    BY <2>1, <2>2, <2>3, <2>4, NewestAlone DEF Follows
  <2>6. Inputs(Current) \subseteq artifacts[x].parents
    BY <2>1, <2>2, <2>5 DEF Follows
  <2>7. artifacts[x].parents \subseteq Inputs(Current)
    <3>1. ASSUME NEW q \in artifacts[x].parents PROVE q \in Inputs(Current)
      <4>1. Present(artifacts, TypeOf(q))
        BY <2>4 DEF Present, Registered
      <4>2. PICK p \in Inputs(Current) : TypeOf(p) = TypeOf(q)
        BY <2>3, <2>4, <4>1
      <4>3. QED
        BY <2>5, <4>2
    <3>2. QED
      BY <3>1
  <2>8. origin[Sha(x)].weights = origin[Sha(id)].weights
    <3>1. /\ Sha(x) \in Built /\ Sha(id) \in Built /\ origin[Sha(id)].stage = Current
      BY <2>1 DEF IInv, ManifestSound, SInv, Shaped, Registered
    <3>2. CASE Current \in FromModel
      <4>1. origin[Sha(id)].weights = modelSha /\ modelSha \in Weights
        BY <3>2, WorkFacts DEF Source
      <4>2. origin[Sha(x)].weights \in Weights
        BY <2>4, <3>1, <3>2 DEF SInv, Rooted, Built
      <4>3. Weights \subseteq Nat /\ NoWeights \notin Weights
        BY PipelineAssumption
      <4>4. origin[Sha(id)].weights <= origin[Sha(x)].weights
        BY <2>1, <2>2, <3>2 DEF Follows
      <4>5. origin[Sha(x)].weights <= modelSha
        BY <3>1, <4>1, <4>2, <4>3 DEF SInv, Bound
      <4>6. QED
        BY <4>1, <4>2, <4>3, <4>4, <4>5
    <3>3. CASE Current \notin FromModel
      BY <2>4, <3>1, <3>3 DEF SInv, Rooted, Built
    <3>4. QED
      BY <3>2, <3>3
  <2>9. origin[Sha(x)] = origin[Sha(id)]
    <3>1. /\ Sha(x) \in Built /\ Sha(id) \in Built
          /\ origin[Sha(x)].inputs = artifacts[x].parents
          /\ origin[Sha(id)].inputs = artifacts[id].parents
      BY DEF IInv, ManifestSound
    <3>2. origin[Sha(x)] \in Origin /\ origin[Sha(id)] \in Origin
      BY <3>1 DEF IInv, OriginSound, Built
    <3>3. origin[Sha(x)].type = origin[Sha(id)].type
      BY DEF Named
    <3>4. origin[Sha(x)].inputs = origin[Sha(id)].inputs
      <4>1. artifacts[x].parents = Inputs(Current)
        BY <2>6, <2>7
      <4>2. QED
        BY <2>1, <3>1, <4>1
    <3>5. origin[Sha(x)].stage = origin[Sha(id)].stage
      BY <2>1, <2>4 DEF SInv, Shaped, Registered
    <3>6. QED
      BY <2>8, <3>2, <3>3, <3>4, <3>5 DEF Origin
  <2>10. Sha(x) = Sha(id)
    <3>1. Sha(x) \in Built /\ Sha(id) \in Built /\ origin[Sha(x)].type \notin Salted
      BY DEF IInv, ManifestSound, Named
    <3>2. QED
      BY <2>9, <3>1 DEF Single
  <2>11. x = id
    <3>1. x \in Id /\ id \in Id
      BY DEF IInv, ManifestSound, Registered
    <3>2. QED
      BY <2>10, <3>1 DEF Id, Sha, TypeOf
  <2>12. QED
    BY <1>1, <2>11
<1>3. QED
  BY <1>1, <1>2

\* A file that is registered is new to the run, or on record as the newest of its type.
LEMMA ArrivesTip ==
    ASSUME IInv, RInv, SInv, CInv, deleted = {}, ~ reverted, Plain(Current),
           AdoptRegister \/ RegisterItem, NEW id, NEW path, Arrives(id, path)
    PROVE  /\ id \notin Registered \/ Tip(artifacts, id)
           /\ id \in IdsAt(path) => Tip(artifacts, id)
<1>1. /\ proc.pc \in Busy /\ origin[Sha(id)] = Source(TypeOf(id), proc.key)
      /\ Stamped /\ Named /\ Single /\ InSequence(artifacts, origin) /\ OnePlace /\ Unshared
      /\ Opened
  BY DEF Arrives, Busy, BuiltUnder, CInv
<1>2. CASE TypeOf(id) \notin Salted
  <2>1. id \in Registered => Tip(artifacts, id)
    BY <1>1, <1>2, Lineage
  <2>2. id \in IdsAt(path) => id \in Registered
    BY DEF IdsAt
  <2>3. QED
    BY <2>1, <2>2
<1>3. CASE TypeOf(id) \in Salted /\ proc.pc = "published" /\ path \in proc.path
  <2>1. id \notin Registered
    BY <1>1, <1>3 DEF Unshared, Arrives
  <2>2. QED
    BY <2>1 DEF IdsAt
<1>4. CASE TypeOf(id) \in Salted /\ proc.pc = "adopted" /\ path = Cached.path /\ id = Cached.id
  <2>1. IdsAt(path) = {}
    BY <1>1, <1>4 DEF Opened
  <2>2. Cached \in Items
    BY <1>4 DEF IInv, ProcSound, Items, Cached, Range
  <2>3. id \in Registered => artifacts[id].path = path
    BY <1>1, <1>4, <2>2 DEF OnePlace
  <2>4. QED
    BY <2>1, <2>3 DEF IdsAt
<1>5. QED
  BY <1>2, <1>3, <1>4 DEF Arrives

\* A stage that ran again built from the newest inputs, and built the newest outputs.
LEMMA InSequenceStep ==
    ASSUME IInv, RInv, SInv, CInv, [Next]_vars, deleted' = {}, ~ reverted', ~ NewRun
    PROVE  InSequence(artifacts, origin)'
<1>1. deleted = {} /\ ~ reverted /\ InSequence(artifacts, origin) /\ Stamped
  BY NotDeleted, NotReverted DEF CInv
<1>2. \A x \in Registered : origin'[Sha(x)] = origin[Sha(x)]
  BY OriginStep DEF Grows, IInv, ManifestSound
<1>3. CASE UNCHANGED <<artifacts, clock>>
  <2>1. artifacts' = artifacts
    BY <1>3
  <2>2. ASSUME NEW i \in Registered, NEW k \in Registered, Follows(artifacts, origin, i, k)
        PROVE  Follows(artifacts, origin', i, k)
    BY <1>2, <2>2 DEF Follows
  <2>3. InSequence(artifacts, origin')
    BY <1>1, <2>2 DEF InSequence, Registered
  <2>4. QED
    BY <2>1, <2>3
<1>4. ASSUME NEW id, NEW path, Entry(id, path) PROVE InSequence(artifacts, origin)'
  <2> DEFINE A == artifacts
             B == artifacts'
  <2>1. /\ DOMAIN B = DOMAIN A \cup {id} /\ proc.pc \in Busy /\ origin' = origin
        /\ B[id].stage = Current /\ B[id].parents = Inputs(Current)
        /\ B[id].created = clock /\ clock \in Nat
        /\ \A x \in DOMAIN A : x # id => B[x] = A[x]
        /\ Inputs(Current) \subseteq DOMAIN A
        /\ Sha(id) \in Built /\ origin[Sha(id)] = Source(TypeOf(id), proc.key)
        /\ TypeOf(id) \in Range(Outputs[Current]) /\ TypeOf(id) \notin Consumes(Current)
        /\ \A x \in DOMAIN A : A[x].created \in Nat /\ A[x].created < clock
    BY <1>4, EntryFacts DEF Registered
  <2>2. Plain(Current) => id \notin DOMAIN A \/ Tip(A, id)
    BY <1>1, <1>4, ArrivesTip DEF Entry, Registered
  <2>3. Shaped(A, origin) /\ Shaped(B, origin)
    BY <2>1, ShapedStep DEF SInv
  <2>4. /\ \A p \in Inputs(Current) : LatestOf(A, p) /\ TypeOf(p) \in Consumes(Current)
        /\ \A t \in Consumes(Current) : Present(A, t) => \E p \in Inputs(Current) : TypeOf(p) = t
    BY InputFacts DEF SInv
  <2>5. PICK n \in DOMAIN Order : Order[n] = Current
    BY <2>1, WorkFacts DEF Range
  <2> HIDE DEF A, B
  <2>6. ASSUME NEW i \in DOMAIN B, NEW k \in DOMAIN B, Plain(B[i].stage), TypeOf(i) = TypeOf(k),
               B[i].stage = B[k].stage, B[i].created <= B[k].created
        PROVE  Follows(B, origin, i, k)
    <3>1. CASE i # id /\ k # id
      <4>1. Follows(A, origin, i, k) /\ i \in DOMAIN A /\ k \in DOMAIN A
        BY <1>1, <2>1, <2>6, <3>1 DEF InSequence, A
      <4>2. B[i].parents = A[i].parents /\ B[k].parents = A[k].parents /\ B[i].stage = A[i].stage
        BY <2>1, <3>1, <4>1
      <4>3. ASSUME NEW p \in B[i].parents, NEW q \in B[k].parents, TypeOf(q) = TypeOf(p)
            PROVE  B[p].created <= B[q].created
        <5>1. p \in DOMAIN A /\ q \in DOMAIN A /\ TypeOf(p) \in Consumes(B[i].stage)
          BY <2>3, <4>1, <4>2 DEF Shaped
        <5>2. A[p].created <= A[q].created
          BY <4>1, <4>2, <4>3 DEF Follows
        <5>3. CASE q = id
          BY <2>1, <5>1, <5>3
        <5>4. CASE p = id /\ q # id
          <6>1. B[id].stage = B[q].stage
            BY <2>1, <2>3, <2>6, <4>3, <5>1, <5>4, OneSource
          <6>2. A[q].stage = A[id].stage /\ A[id].stage = Current
            BY <2>1, <2>3, <2>6, <4>2, <4>3, <5>1, <5>4, <6>1, OneSource
          <6>3. Plain(Current)
            <7>1. PICK l \in DOMAIN Order : Order[l] = B[i].stage
              BY <2>3 DEF Shaped, Range
            <7>2. Publishes(Order[n], TypeOf(id))
              BY <2>1, <2>5 DEF Publishes
            <7>3. QED
              BY <2>5, <5>1, <5>4, <7>1, <7>2, InputsPlain
          <6>4. A[q].created <= A[id].created
            BY <2>2, <4>3, <5>1, <5>4, <6>2, <6>3 DEF Tip
          <6>5. A[q].created = A[id].created
            BY <2>1, <5>1, <5>2, <5>4, <6>4
          <6>6. QED
            BY <1>1, <5>1, <5>4, <6>5 DEF Stamped, Registered, A
        <5>5. CASE p # id /\ q # id
          BY <2>1, <5>1, <5>2, <5>5
        <5>6. QED
          BY <5>3, <5>4, <5>5
      <4>4. QED
        BY <4>1, <4>2, <4>3 DEF Follows
    <3>2. CASE k = id
      <4>1. /\ B[k].parents = Inputs(Current) /\ B[i].stage = Current
            /\ origin[Sha(k)] = Source(TypeOf(k), proc.key)
        BY <2>1, <2>6, <3>2
      <4>2. \A p \in B[i].parents : p \in DOMAIN B /\ TypeOf(p) \in Consumes(Current) /\ p # id
        BY <2>1, <2>3, <2>6, <4>1 DEF Shaped
      <4>3. \A p \in B[i].parents : p \in DOMAIN A /\ B[p] = A[p]
        BY <2>1, <4>2
      <4>4. ASSUME NEW p \in B[i].parents PROVE \E q \in B[k].parents : TypeOf(q) = TypeOf(p)
        <5>1. Present(A, TypeOf(p))
          BY <4>3 DEF Present
        <5>2. QED
          BY <2>4, <4>1, <4>2, <5>1
      <4>5. ASSUME NEW p \in B[i].parents, NEW q \in B[k].parents, TypeOf(q) = TypeOf(p)
            PROVE  B[p].created <= B[q].created
        <5>1. LatestOf(A, q) /\ q # id /\ B[q] = A[q]
          BY <2>1, <2>4, <4>1
        <5>2. QED
          BY <4>3, <4>5, <5>1 DEF LatestOf
      <4>6. ASSUME B[i].stage \in FromModel
            PROVE  origin[Sha(i)].weights <= origin[Sha(k)].weights
        <5>1. origin[Sha(k)].weights = modelSha /\ modelSha \in Weights
          BY <2>1, <4>1, <4>6, WorkFacts DEF Source
        <5>2. Sha(i) \in Built /\ origin[Sha(i)].stage = Current
          BY <2>3, <4>1 DEF Shaped, Built
        <5>3. origin[Sha(i)].weights \in Weights
          BY <4>1, <4>6, <5>2 DEF SInv, Rooted, Built
        <5>4. NoWeights \notin Weights
          BY PipelineAssumption
        <5>5. QED
          BY <1>1, <5>1, <5>2, <5>3, <5>4 DEF SInv, Bound
      <4>7. QED
        BY <4>4, <4>5, <4>6 DEF Follows
    <3>3. CASE i = id /\ k # id
      <4>1. B[k] = A[k] /\ k \in DOMAIN A
        BY <2>1, <3>3
      <4>2. B[k].created \in Nat /\ B[k].created < clock /\ clock <= B[k].created
        BY <2>1, <2>6, <3>3, <4>1
      <4>3. QED
        BY <2>1, <4>2
    <3>4. QED
      BY <3>1, <3>2, <3>3
  <2>7. InSequence(B, origin)
    BY <2>6 DEF InSequence
  <2>8. QED
    BY <2>1, <2>7 DEF B
<1>5. QED
  BY <1>3, <1>4, ManifestCases

\* A type the run has stays there.
LEMMA PresentStays ==
    ASSUME IInv, [Next]_vars, ~ NewRun, NEW t, Present(artifacts, t)
    PROVE  Present(artifacts, t)'
BY ManifestStep DEF Present, Registered

\* The producer of an input is plain.
LEMMA ProducerPlain ==
    ASSUME Shaped(artifacts, origin), NEW s \in Range(Order), NEW p \in Registered,
           TypeOf(p) \in Consumes(s)
    PROVE  artifacts[p].stage \in Applicable /\ Plain(artifacts[p].stage)
<1>1. PICK l \in DOMAIN Order : Order[l] = s
  BY DEF Range
<1>2. /\ artifacts[p].stage \in Range(Order) \ Skipped
      /\ Publishes(artifacts[p].stage, TypeOf(p))
  BY DEF Shaped, Registered
<1>3. PICK n \in DOMAIN Order : Order[n] = artifacts[p].stage
  BY <1>2 DEF Range
<1>4. Plain(artifacts[p].stage)
  BY <1>1, <1>2, <1>3, InputsPlain
<1>5. QED
  BY <1>2, <1>3, <1>4 DEF Applicable

\* A key that is no longer computed is never computed again.
LEMMA MovedStays ==
    ASSUME IInv, RInv, SInv, CInv, [Next]_vars, deleted' = {}, ~ reverted', ~ NewRun,
           NEW s \in Applicable, Plain(s), stageRec[s].status \in Done,
           stageRec'[s] = stageRec[s], Moved(s)
    PROVE  Moved(s)'
<1>1. deleted = {} /\ ~ reverted /\ InSequence(artifacts, origin) /\ Stamped /\ Keyed
  BY NotDeleted, NotReverted DEF CInv
<1>2. s \in StageName \ Skipped /\ s \in Range(Order)
  BY PipelineAssumption DEF Applicable, Range
<1>3. PICK key : key = stageRec[s].key
  OBVIOUS
<1>4. /\ \A p \in key.inputs : p \in Registered /\ TypeOf(p) \in Consumes(s)
      /\ s \in DependsOnModel => key.weights \in Weights /\ modelSha # NoWeights
  BY <1>1, <1>2, <1>3 DEF Keyed
<1>5. ASSUME NEW p \in key.inputs, ~ LatestOf(artifacts, p) PROVE ~ LatestOf(artifacts', p)
  <2>1. p \in Registered /\ TypeOf(p) \in Consumes(s)
    BY <1>4
  <2>2. PICK q \in Registered : TypeOf(q) = TypeOf(p) /\ ~ (artifacts[q].created <= artifacts[p].created)
    BY <1>5, <2>1 DEF LatestOf, Registered
  <2>3. CASE UNCHANGED <<artifacts, clock>>
    BY <1>5, <2>3
  <2>4. ASSUME NEW id, NEW path, Entry(id, path) PROVE ~ LatestOf(artifacts', p)
    <3>1. /\ Registered' = Registered \cup {id} /\ artifacts'[id].created = clock /\ clock \in Nat
          /\ \A x \in Registered : x # id => artifacts'[x] = artifacts[x]
          /\ \A x \in Registered : artifacts[x].created \in Nat /\ artifacts[x].created < clock
          /\ TypeOf(id) \in Range(Outputs[Current]) /\ proc.pc \in Busy /\ origin' = origin
          /\ artifacts'[id].stage = Current
      BY <2>4, EntryFacts
    <3>2. CASE p = id
      <4>1. artifacts[p].stage = artifacts[q].stage
        BY <2>1, <2>2, OneSource DEF SInv, Registered
      <4>2. Plain(artifacts[p].stage)
        BY <1>2, <2>1, ProducerPlain DEF SInv
      <4>3. artifacts'[q].stage = artifacts[q].stage
        BY <2>2, <3>1, <3>2, <2>1
      <4>4. artifacts'[q].stage = artifacts'[p].stage
        <5>1. Shaped(artifacts', origin)
          BY <3>1, ShapedStep
        <5>2. p \in DOMAIN artifacts' /\ q \in DOMAIN artifacts'
          BY <2>1, <2>2, <3>1 DEF Registered
        <5>3. QED
          BY <2>1, <2>2, <5>1, <5>2, OneSource
      <4>5. Plain(Current)
        BY <3>1, <3>2, <4>1, <4>2, <4>3, <4>4
      <4>6. Tip(artifacts, p)
        BY <1>1, <2>1, <2>4, <3>2, <4>5, ArrivesTip DEF Entry
      <4>7. QED
        BY <2>2, <4>1, <4>6 DEF Tip, Registered
    <3>3. CASE p # id /\ q = id
      <4>1. artifacts'[p].created < clock /\ artifacts'[p].created \in Nat
        BY <2>1, <3>1, <3>3
      <4>2. ~ (artifacts'[q].created <= artifacts'[p].created)
        BY <3>1, <3>3, <4>1
      <4>3. QED
        BY <2>2, <3>1, <4>2 DEF LatestOf, Registered
    <3>4. CASE p # id /\ q # id
      BY <2>1, <2>2, <3>1, <3>4 DEF LatestOf, Registered
    <3>5. QED
      BY <3>2, <3>3, <3>4
  <2>5. QED
    BY <2>3, <2>4, ManifestCases
<1>6. ASSUME NEW t \in Consumes(s), Present(artifacts, t) PROVE Present(artifacts', t)
  BY <1>6, PresentStays
<1>7. ASSUME s \in DependsOnModel, key.weights < modelSha PROVE key.weights < modelSha'
  <2>1. /\ key.weights \in Weights /\ modelSha \in Weights /\ modelSha' \in Weights /\ modelSha <= modelSha'
    BY <1>4, <1>7, ModelGrows
  <2>2. Weights \subseteq Nat
    BY PipelineAssumption
  <2>3. \A u, v, w \in Nat : u < v /\ v <= w => u < w
    OBVIOUS
  <2>4. QED
    BY <1>7, <2>1, <2>2, <2>3
<1>8. stageRec'[s].key = key
  BY <1>3
<1>9. CASE \E p \in key.inputs : ~ LatestOf(artifacts, p)
  <2>1. \E p \in key.inputs : ~ LatestOf(artifacts', p)
    BY <1>5, <1>9
  <2>2. QED
    BY <1>8, <2>1 DEF Moved
<1>10. CASE \E t \in Consumes(s) : Present(artifacts, t) /\ \A p \in key.inputs : TypeOf(p) # t
  <2>1. \E t \in Consumes(s) : Present(artifacts', t) /\ \A p \in key.inputs : TypeOf(p) # t
    BY <1>6, <1>10
  <2>2. QED
    BY <1>8, <2>1 DEF Moved
<1>11. CASE s \in DependsOnModel /\ key.weights < modelSha
  BY <1>7, <1>8, <1>11 DEF Moved
<1>12. QED
  BY <1>3, <1>9, <1>10, <1>11 DEF Moved

\* A key that would be computed now is not moved, and the other way round.
LEMMA KeyMoved ==
    ASSUME IInv, SInv, Stamped, Keyed, ~ reverted, KeyedBefore, NEW s \in StageName \ Skipped,
           stageRec[s].status \in Done
    PROVE  stageRec[s].key = KeyOf(s, modelSha) <=> ~ Moved(s)
<1>1. PICK key : key = stageRec[s].key
  OBVIOUS
<1>2. /\ key = [stage |-> s, inputs |-> key.inputs, weights |-> key.weights]
      /\ \A p \in key.inputs : p \in Registered /\ TypeOf(p) \in Consumes(s)
      /\ IF s \in DependsOnModel THEN key.weights \in Weights /\ modelSha # NoWeights
         ELSE key.weights = NoWeights
  BY <1>1 DEF Keyed
<1>3. /\ \A p \in Inputs(s) : LatestOf(artifacts, p) /\ TypeOf(p) \in Consumes(s)
      /\ \A t \in Consumes(s) : Present(artifacts, t) => \E p \in Inputs(s) : TypeOf(p) = t
  BY InputFacts DEF SInv
<1>4. s \in DependsOnModel => /\ key.weights \in Nat /\ modelSha \in Nat
                              /\ key.weights <= modelSha
  BY <1>1, <1>2, PipelineAssumption DEF KeyedBefore, IInv, ScalarsTyped, Hash
<1>5. ASSUME key = KeyOf(s, modelSha) PROVE ~ Moved(s)
  <2>1. key.inputs = Inputs(s) /\ (s \in DependsOnModel => key.weights = modelSha)
    BY <1>5 DEF KeyOf
  <2>2. s \in DependsOnModel => ~ (key.weights < modelSha)
    BY <1>4, <2>1
  <2>3. QED
    BY <1>1, <1>3, <2>1, <2>2 DEF Moved
<1>6. ASSUME ~ Moved(s) PROVE key = KeyOf(s, modelSha)
  <2>1. /\ \A p \in key.inputs : LatestOf(artifacts, p)
        /\ \A t \in Consumes(s) : Present(artifacts, t) => \E p \in key.inputs : TypeOf(p) = t
        /\ s \in DependsOnModel => ~ (key.weights < modelSha)
    BY <1>1, <1>6 DEF Moved
  <2>2. ASSUME NEW p, LatestOf(artifacts, p), NEW q, LatestOf(artifacts, q), TypeOf(q) = TypeOf(p)
        PROVE  p = q
    <3>1. q \in Registered /\ artifacts[p].created <= artifacts[q].created
      BY <2>2 DEF LatestOf, Registered
    <3>2. QED
      BY <2>2, <3>1, NewestAlone
  <2>3. \A p : LatestOf(artifacts, p) => Present(artifacts, TypeOf(p))
    BY DEF LatestOf, Present
  <2>4. key.inputs = Inputs(s)
    <3>1. ASSUME NEW p \in key.inputs PROVE p \in Inputs(s)
      <4>1. PICK q \in Inputs(s) : TypeOf(q) = TypeOf(p)
        BY <1>2, <1>3, <2>1, <2>3, <3>1
      <4>2. QED
        BY <1>3, <2>1, <2>2, <4>1
    <3>2. ASSUME NEW p \in Inputs(s) PROVE p \in key.inputs
      <4>1. PICK q \in key.inputs : TypeOf(q) = TypeOf(p)
        BY <1>3, <2>1, <2>3, <3>2
      <4>2. QED
        BY <1>3, <2>1, <2>2, <4>1
    <3>3. QED
      BY <3>1, <3>2
  <2>5. s \in DependsOnModel => key.weights = modelSha
    BY <1>4, <2>1
  <2>6. QED
    BY <1>2, <2>4, <2>5 DEF KeyOf
<1>7. QED
  BY <1>1, <1>5, <1>6

\* The key of the stage at work is the one it would compute.
LEMMA KeyNow == ASSUME IInv, RInv, proc.pc \in Busy PROVE proc.key = KeyOf(Current, modelSha)
<1>1. proc.key = KeyOf(Current, proc.loaded) /\ (Current \in DependsOnModel => proc.loaded # NoWeights)
  BY DEF RInv, AtWork
<1>2. Current \in DependsOnModel => proc.loaded = modelSha
  BY <1>1 DEF RInv, Placed
<1>3. QED
  BY <1>1, <1>2 DEF KeyOf

\* What a finished stage lists is the newest it made, unless it would not be up to date.
LEMMA StandingStep ==
    ASSUME IInv, RInv, SInv, CInv, [Next]_vars, deleted' = {}, ~ reverted', ~ NewRun
    PROVE  Standing'
<1> SUFFICES ASSUME NEW s \in Applicable, Plain(s), stageRec'[s].status \in Done,
                    NEW ids, ids = stageRec'[s].ids
             PROVE  Moved(s)' \/ Tops(artifacts', s, ids)
  BY DEF Standing
<1>1. /\ deleted = {} /\ ~ reverted /\ Stamped /\ Keyed /\ KeyedBefore /\ Standing /\ Ahead
      /\ Unfinished /\ Opened
  BY NotDeleted, NotReverted DEF CInv
<1>2. s \in StageName \ Skipped
  BY PipelineAssumption DEF Applicable
<1>3. RecSound(s, stageRec[s]) /\ DOMAIN stageRec = StageName
  BY <1>2 DEF IInv, RecordsSound
<1>4. CASE stageRec'[s] = stageRec[s]
  <2>1. CASE Moved(s)
    BY <1>4, <2>1, MovedStays
  <2>2. CASE Tops(artifacts, s, ids) /\ UNCHANGED <<artifacts, clock>>
    BY <2>2
  <2>3. ASSUME Tops(artifacts, s, ids), ~ Moved(s), NEW id, NEW path, Entry(id, path)
        PROVE  Tops(artifacts', s, ids)
    <3>1. /\ Registered' = Registered \cup {id} /\ artifacts'[id].created = clock /\ clock \in Nat
          /\ \A x \in Registered : x # id => artifacts'[x] = artifacts[x]
          /\ \A x \in Registered : artifacts[x].created \in Nat /\ artifacts[x].created < clock
          /\ proc.pc \in Busy /\ artifacts'[id].stage = Current
      BY <2>3, EntryFacts
    <3>2. Current # s
      <4>1. ASSUME Current = s PROVE FALSE
        <5>1. proc.pc = "adopted"
          BY <1>1, <1>4, <2>3, <4>1 DEF Entry, Arrives, Unfinished
        <5>2. stageRec[s].key # proc.key
          BY <1>1, <1>4, <4>1, <5>1 DEF Opened
        <5>3. stageRec[s].key = KeyOf(s, modelSha)
          BY <1>1, <1>2, <1>4, <2>3, KeyMoved
        <5>4. QED
          BY <3>1, <4>1, <5>2, <5>3, KeyNow
      <4>2. QED
        BY <4>1
    <3>3. Range(ids) \subseteq Registered
      BY <1>3, <1>4 DEF RecSound
    <3>4. \A x \in Registered : artifacts[x].created \in Nat /\ artifacts'[x].created \in Nat
                                /\ artifacts[x].created <= artifacts'[x].created
      <4>1. ASSUME NEW x \in Registered
            PROVE  artifacts[x].created \in Nat /\ artifacts'[x].created \in Nat
                   /\ artifacts[x].created <= artifacts'[x].created
        BY <3>1
      <4>2. QED
        BY <4>1
    <3>5. ASSUME NEW i \in Range(ids), NEW k \in Registered', artifacts'[k].stage = s,
                 TypeOf(k) = TypeOf(i)
          PROVE  \E x \in Range(ids) : TypeOf(x) = TypeOf(k) /\ artifacts'[k].created <= artifacts'[x].created
      <4>1. k # id /\ k \in Registered /\ artifacts'[k] = artifacts[k]
        BY <3>1, <3>2, <3>5
      <4>2. PICK x \in Range(ids) : TypeOf(x) = TypeOf(k) /\ artifacts[k].created <= artifacts[x].created
        BY <2>3, <3>5, <4>1 DEF Tops, Registered
      <4>3. /\ artifacts[k].created \in Nat /\ artifacts[x].created \in Nat
            /\ artifacts'[x].created \in Nat /\ artifacts[x].created <= artifacts'[x].created
        BY <3>3, <3>4, <4>1, <4>2
      <4>4. artifacts'[k].created <= artifacts'[x].created
        BY <4>1, <4>2, <4>3
      <4>5. QED
        BY <4>2, <4>4
    <3>6. QED
      BY <3>5 DEF Tops, Registered
  <2>4. Moved(s) \/ Tops(artifacts, s, ids)
    BY <1>1, <1>4 DEF Standing
  <2>5. QED
    BY <2>1, <2>2, <2>3, <2>4, ManifestCases
<1>5. CASE Finish(s)
  <2>1. /\ ids = proc.ids /\ s = Current /\ proc.pc \in Busy /\ artifacts' = artifacts
    BY <1>2, <1>3, <1>5 DEF Finish, SetStage, Busy, store
  <2>2. QED
    BY <1>1, <2>1 DEF Ahead
<1>6. CASE ReuseOwn(s)
  <2>1. /\ ids = stageRec[s].ids /\ stageRec[s].status \in Done /\ artifacts' = artifacts
        /\ stageRec'[s].key = stageRec[s].key
    BY <1>2, <1>3, <1>6 DEF ReuseOwn, SetStage, UpToDate, store
  <2>2. stageRec[s].key = KeyOf(s, modelSha') /\ (s \in DependsOnModel => modelSha' \in Weights)
    BY <1>2, <1>6, <2>1, RecordedKey
  <2>3. s \in DependsOnModel => modelSha' = modelSha
    <3>1. ASSUME s \in DependsOnModel PROVE modelSha' = modelSha
      <4>1. stageRec[s].key.weights = modelSha'
        BY <2>2, <3>1 DEF KeyOf
      <4>2. stageRec[s].key.weights <= modelSha /\ modelSha # NoWeights
        BY <1>1, <1>2, <2>1, <3>1 DEF KeyedBefore, Keyed
      <4>3. modelSha \in Weights /\ modelSha' \in Weights /\ modelSha <= modelSha'
        BY <4>2, ModelGrows
      <4>4. Weights \subseteq Nat
        BY PipelineAssumption
      <4>5. \A u, v \in Nat : u <= v /\ v <= u => u = v
        OBVIOUS
      <4>6. QED
        BY <4>1, <4>2, <4>3, <4>4, <4>5
    <3>2. QED
      BY <3>1
  <2>4. stageRec[s].key = KeyOf(s, modelSha)
    BY <2>2, <2>3 DEF KeyOf
  <2>5. ~ Moved(s)
    BY <1>1, <1>2, <2>1, <2>4, KeyMoved
  <2>6. Tops(artifacts, s, ids)
    BY <1>1, <2>1, <2>5 DEF Standing
  <2>7. QED
    BY <2>1, <2>6
<1>7. QED
  BY <1>2, <1>4, <1>5, <1>6, RecCases

\* So is what the stage at work has gathered.
LEMMA AheadStep ==
    ASSUME IInv, RInv, SInv, CInv, [Next]_vars, deleted' = {}, ~ reverted'
    PROVE  Ahead'
<1> SUFFICES ASSUME proc'.pc \in Busy, NEW s, s = Current', Plain(s), NEW ids, ids = proc'.ids
             PROVE  Tops(artifacts', s, ids)
  BY DEF Ahead
<1>1. ~ NewRun
  BY DEF NewRun, Busy
<1>2. deleted = {} /\ ~ reverted /\ Ahead
  BY <1>1, NotDeleted, NotReverted DEF CInv
<1>3. CASE ids = << >>
  BY <1>3 DEF Tops, Range
<1>4. CASE ids = proc.ids /\ s = Current /\ artifacts' = artifacts /\ proc.pc \in Busy
  BY <1>2, <1>4 DEF Ahead
<1>5. ASSUME NEW r \in StageName, BeginAdopt(r) PROVE ids = << >>
  BY <1>5 DEF BeginAdopt, InputsReady, Entering, IInv, ProcTyped, ProcSound, Field
<1>6. ASSUME NEW r \in StageName, BeginRun(r) \/ AdoptMiss(r) PROVE ids = << >>
  BY <1>6 DEF BeginRun, AdoptMiss, RunUnder, IInv, ProcTyped, Field
<1>7. CASE AdoptCopy \/ StoreInCache
  <2>1. ids = proc.ids /\ s = Current /\ artifacts' = artifacts /\ proc.pc \in Busy
    BY <1>7 DEF AdoptCopy, StoreInCache, IInv, ProcTyped, Field, Current, Busy, store
  <2>2. QED
    BY <1>4, <2>1
<1>8. CASE PublishItem
  <2>1. PICK path : proc' = [proc EXCEPT !.pc = "published", !.path = {path}]
    BY <1>8 DEF PublishItem
  <2>2. ids = proc.ids /\ s = Current
    BY <2>1 DEF IInv, ProcTyped, Field, Current
  <2>3. artifacts' = artifacts /\ proc.pc \in Busy
    BY <1>8 DEF PublishItem, Busy
  <2>4. QED
    BY <1>4, <2>2, <2>3
<1>9. ASSUME AdoptRegister \/ RegisterItem, NEW id, NEW path, Arrives(id, path), Takes(id),
             RegisterReply(path, TypeOf(id), proc.key.inputs) \in {"existing", "added"}
      PROVE  Tops(artifacts', s, ids)
  <2>1. /\ s = Current /\ proc.pc \in Busy /\ Range(ids) = Range(proc.ids) \cup {id}
        /\ Range(proc.ids) \subseteq Registered
    <3>1. /\ proc'.ids = Append(proc.ids, id) /\ proc.ids \in Seq(Id) /\ Range(proc.ids) \subseteq Registered
          /\ proc'.cur = proc.cur /\ proc.pc \in {"adopted", "published"}
      BY <1>9 DEF Takes, IInv, ProcTyped, ProcSound, Arrives
    <3>2. Range(Append(proc.ids, id)) = Range(proc.ids) \cup {id}
      BY <3>1 DEF Range
    <3>3. QED
      BY <3>1, <3>2 DEF Current, Busy
  <2>2. Tops(artifacts, s, proc.ids)
    BY <1>2, <2>1 DEF Ahead
  <2>3. CASE UNCHANGED <<artifacts, clock>>
    <3>1. Tip(artifacts, id)
      <4>1. \A reason : ~ Fail(reason)
        BY DEF Fail, Busy, IInv, ProcTyped, Field
      <4>2. CASE id \in IdsAt(path)
        BY <1>2, <1>9, <2>1, <4>2, ArrivesTip
      <4>3. CASE Enters(id)
        <5>1. clock' = clock + 1 /\ clock' = clock
          BY <2>3, <4>3 DEF Enters
        <5>2. clock \in Nat
          BY DEF IInv, ScalarsTyped
        <5>3. QED
          BY <5>1, <5>2
      <4>4. QED
        BY <1>9, <4>1, <4>2, <4>3, ArrivesHow
    <3>2. id \in Registered /\ artifacts[id].stage = Current
      <4>1. id \in Registered
        BY <1>1, <2>1, <2>3, WorkStep DEF Work, ProcSound, Registered
      <4>2. QED
        BY <1>9, <2>1, <4>1, SameRecord DEF Arrives, BuiltUnder
    <3>3. QED
      BY <2>1, <2>2, <2>3, <3>1, <3>2 DEF Tops, Tip
  <2>4. CASE Entry(id, path)
    <3>1. /\ Registered' = Registered \cup {id} /\ artifacts'[id].created = clock /\ clock \in Nat
          /\ \A x \in Registered : x # id => artifacts'[x] = artifacts[x]
          /\ \A x \in Registered : artifacts[x].created \in Nat /\ artifacts[x].created < clock
      BY <2>4, EntryFacts
    <3>2. ASSUME NEW i \in Range(ids), NEW k \in Registered', artifacts'[k].stage = s,
                 TypeOf(k) = TypeOf(i)
          PROVE  \E x \in Range(ids) : TypeOf(x) = TypeOf(k) /\ artifacts'[k].created <= artifacts'[x].created
      <4>1. CASE TypeOf(k) = TypeOf(id)
        <5>1. artifacts'[k].created <= artifacts'[id].created
          BY <3>1
        <5>2. QED
          BY <2>1, <4>1, <5>1
      <4>2. CASE TypeOf(k) # TypeOf(id)
        <5>1. k # id /\ k \in Registered /\ artifacts'[k] = artifacts[k] /\ i \in Range(proc.ids)
          BY <2>1, <3>1, <3>2, <4>2
        <5>2. PICK x \in Range(proc.ids) : TypeOf(x) = TypeOf(k) /\ artifacts[k].created <= artifacts[x].created
          BY <2>2, <3>2, <5>1 DEF Tops, Registered
        <5>3. x # id /\ x \in Registered
          BY <2>1, <4>2, <5>2
        <5>4. QED
          BY <2>1, <3>1, <5>1, <5>2, <5>3
      <4>3. QED
        BY <4>1, <4>2
    <3>3. QED
      BY <3>2 DEF Tops, Registered
  <2>5. QED
    <3>1. \A reason : ~ Fail(reason)
      BY DEF Fail, Busy, IInv, ProcTyped, Field
    <3>2. QED
      BY <1>9, <2>3, <2>4, <3>1, ArrivesHow DEF Entry
<1>10. CASE Standstill
  <2>1. proc.pc \in Busy /\ ids = proc.ids /\ s = Current /\ artifacts' = artifacts
    BY <1>10 DEF Standstill, Current
  <2>2. QED
    BY <1>4, <2>1
<1>11. QED
  BY <1>3, <1>5, <1>6, <1>7, <1>8, <1>9, <1>10, BusyCases

-----------------------------------------------------------------------------
(* A stage works on what the stages before it list *)

\* While the stage is at work, the stages before it are up to date: they list its inputs.
LEMMA BusyUsesListed ==
    ASSUME IInv, RInv, SInv, CInv, deleted = {}, ~ reverted, proc.pc \in Busy, proc.first = 1
    PROVE  UsesListed
<1>1. Stamped /\ Keyed /\ KeyedBefore /\ Standing
  BY DEF CInv
<1>2. proc.key.inputs = Inputs(Current) /\ proc.cur \in DOMAIN Order
  BY WorkFacts DEF RInv, AtWork
<1>3. ASSUME NEW p \in Inputs(Current)
      PROVE  \E s \in StageName : p \in Range(stageRec[s].ids)
  <2>1. LatestOf(artifacts, p) /\ p \in Registered /\ TypeOf(p) \in Consumes(Current)
    BY InputFacts DEF SInv, LatestOf, Registered
  <2>2. PICK m \in DOMAIN Order : m < proc.cur /\ artifacts[p].stage = Order[m] /\ Order[m] \notin Skipped
    BY <1>2, <2>1, Upstream DEF SInv, Current
  <2> DEFINE s == Order[m]
  <2>3. /\ s \in Applicable /\ s \in StageName \ Skipped
        /\ TypeOf(p) \in Range(Outputs[s]) /\ artifacts[p].stage = s
    BY <2>1, <2>2, PipelineAssumption DEF Applicable, SInv, Shaped, Registered, Publishes
  <2>4. Plain(s)
    <3>1. Current \in Range(Order)
      BY <1>2 DEF Current, Range
    <3>2. QED
      BY <2>1, <2>3, <3>1, ProducerPlain DEF SInv
  <2> HIDE DEF s
  <2>5. Fresh(s, proc.loaded)
    BY <2>2 DEF RInv, Behind, Busy, s
  <2>6. stageRec[s].status \in Done /\ stageRec[s].key = KeyOf(s, modelSha)
    <3>1. s \in DependsOnModel => proc.loaded = modelSha
      BY <2>5 DEF Fresh, RInv, Placed
    <3>2. KeyOf(s, proc.loaded) = KeyOf(s, modelSha)
      BY <3>1 DEF KeyOf
    <3>3. QED
      BY <2>5, <3>2 DEF Fresh
  <2>7. ~ Moved(s)
    BY <1>1, <2>3, <2>6, KeyMoved
  <2>8. Tops(artifacts, s, stageRec[s].ids)
    BY <1>1, <2>3, <2>4, <2>6, <2>7 DEF Standing
  <2>9. PICK i \in Range(stageRec[s].ids) : TypeOf(i) = TypeOf(p)
    <3>1. Listing(s, stageRec[s].ids)
      BY <2>3, <2>6 DEF SInv, Listed
    <3>2. QED
      BY <2>3, <3>1 DEF Listing, Prefixes, Range
  <2>10. PICK x \in Range(stageRec[s].ids) :
            TypeOf(x) = TypeOf(p) /\ artifacts[p].created <= artifacts[x].created
    BY <2>1, <2>3, <2>8, <2>9 DEF Tops, Registered
  <2>11. x \in Registered
    BY <2>3, <2>10 DEF IInv, RecordsSound, RecSound
  <2>12. p = x
    BY <1>1, <2>1, <2>10, <2>11, NewestAlone
  <2>13. QED
    BY <2>3, <2>10, <2>12
<1>4. QED
  BY <1>2, <1>3 DEF UsesListed

\* How a stage comes to fail.
LEMMA FailingCases ==
    ASSUME IInv, RInv, SInv, [Next]_vars, proc'.pc = "failing"
    PROVE  \/ proc' = proc /\ stageRec' = stageRec
           \/ proc.pc \in Busy \cup {"stage"} /\ \E reason : Fail(reason)
<1>1. CASE \E reason : Fail(reason)
  <2>1. CASE \E s \in StageName : FailInputs(s)
    BY <1>1, <2>1 DEF FailInputs, Entering
  <2>2. CASE AdoptRegister \/ RegisterItem \/ ComparisonFails \/ StageFails
    BY <1>1, <2>2 DEF AdoptRegister, RegisterItem, ComparisonFails, StageFails, Busy
  <2>3. CASE vars' = vars \/ \E w \in Weights : EditWeights(w) \/ RevertWeights(w)
    BY <2>3 DEF vars, EditWeights, RevertWeights
  <2>4. CASE NewRun \/ (\E path \in DOMAIN files : Tamper(path) \/ Delete(path))
             \/ \E key \in DOMAIN cache : DamageCache(key)
    BY <2>4 DEF NewRun, Tamper, Delete, DamageCache, Outside, Busy
  <2>5. ASSUME NEW first, NEW last, Start(first, last) PROVE FALSE
    BY <2>5 DEF Start, IdleProc
  <2>6. CASE Succeed \/ FailRun \/ AdoptTorn \/ Crash
    BY <2>6 DEF Succeed, FailRun, AdoptTorn, Crash, IdleProc
  <2>7. CASE AdoptCopy \/ PublishItem \/ StoreInCache
    BY <1>1, <2>7 DEF AdoptCopy, PublishItem, StoreInCache, Busy
  <2>8. CASE \E s \in StageName : BeginAdopt(s) \/ BeginRun(s) \/ AdoptMiss(s)
    BY <1>1, <2>8 DEF BeginAdopt, BeginRun, AdoptMiss, InputsReady, Entering, Busy
  <2>9. ASSUME NEW s \in StageName, SkipStage(s) \/ ReuseOwn(s) \/ Finish(s) PROVE FALSE
    BY <2>9, StageLeaves DEF Leaves
  <2>10. QED
    BY <2>1, <2>2, <2>3, <2>4, <2>5, <2>6, <2>7, <2>8, <2>9 DEF Next, Step, Fault
<1>2. CASE \A reason : ~ Fail(reason)
  <2>1. ASSUME NEW s \in StageName, SkipStage(s) \/ ReuseOwn(s) \/ Finish(s) PROVE FALSE
    BY <2>1, StageLeaves DEF Leaves
  <2>2. ASSUME NEW s \in StageName, BeginAdopt(s) PROVE FALSE
    BY <2>2 DEF BeginAdopt, IInv, ProcTyped, Field
  <2>3. ASSUME NEW s \in StageName, BeginRun(s) \/ AdoptMiss(s) PROVE FALSE
    <3>1. \E key, loaded : RunUnder(s, key, loaded)
      BY <2>3 DEF BeginRun, AdoptMiss
    <3>2. QED
      BY <3>1, RunUnderFacts
  <2>4. ~ (AdoptRegister \/ RegisterItem)
    BY <1>2, Arrival DEF Arrives, Takes
  <2>5. ~ (AdoptCopy \/ StoreInCache)
    BY DEF AdoptCopy, StoreInCache, IInv, ProcTyped, Field
  <2>6. ~ PublishItem
    BY DEF PublishItem, IInv, ProcTyped, Field
  <2>7. ~ (Succeed \/ FailRun \/ AdoptTorn \/ Crash)
    BY DEF Succeed, FailRun, AdoptTorn, Crash, IdleProc
  <2>8. ~ (\E s \in StageName : FailInputs(s)) /\ ~ ComparisonFails /\ ~ StageFails
    BY <1>2 DEF FailInputs, ComparisonFails, StageFails
  <2>9. ASSUME NEW first, NEW last, Start(first, last) PROVE FALSE
    BY <2>9 DEF Start, IdleProc
  <2>10. ASSUME \/ vars' = vars
                \/ \E w \in Weights : EditWeights(w) \/ RevertWeights(w)
                \/ \E path \in DOMAIN files : Tamper(path) \/ Delete(path)
                \/ \E key \in DOMAIN cache : DamageCache(key)
         PROVE  proc' = proc /\ stageRec' = stageRec
    BY <2>10 DEF vars, EditWeights, RevertWeights, Tamper, Delete, DamageCache
  <2>11. ~ NewRun
    BY DEF NewRun
  <2>12. QED
    BY <2>1, <2>2, <2>3, <2>4, <2>5, <2>6, <2>7, <2>8, <2>9, <2>10, <2>11 DEF Next, Step, Fault
<1>3. QED
  BY <1>1, <1>2

\* A stage that fails had worked on what was listed.
LEMMA FailingStep ==
    ASSUME IInv, RInv, SInv, CInv, [Next]_vars, deleted' = {}, ~ reverted'
    PROVE  Failing'
<1> SUFFICES ASSUME proc'.pc = "failing", proc'.first = 1 PROVE UsesListed'
  BY DEF Failing
<1>1. ~ NewRun
  BY DEF NewRun, IInv, ProcTyped
<1>2. deleted = {} /\ ~ reverted /\ Failing /\ Resting
  BY <1>1, NotDeleted, NotReverted DEF CInv
<1>3. CASE proc' = proc /\ stageRec' = stageRec
  BY <1>2, <1>3 DEF Failing, UsesListed
<1>4. CASE proc.pc \in Busy \cup {"stage"} /\ \E reason : Fail(reason)
  <2>1. /\ proc'.key = proc.key /\ proc'.first = proc.first
        /\ \A s \in StageName : stageRec'[s].ids = stageRec[s].ids
    BY <1>4 DEF Fail, SetStage, IInv, ProcTyped, Field, RecordsSound
  <2>2. UsesListed
    <3>1. CASE proc.pc = "stage"
      BY <1>2, <3>1 DEF Resting, NoKey, UsesListed
    <3>2. CASE proc.pc \in Busy
      BY <1>2, <2>1, <3>2, BusyUsesListed
    <3>3. QED
      BY <1>4, <3>1, <3>2
  <2>3. QED
    BY <2>1, <2>2 DEF UsesListed
<1>5. QED
  BY <1>3, <1>4, FailingCases

\* CInv holds at first.
LEMMA CurrentInit == Init => CInv
<1> SUFFICES ASSUME Init PROVE CInv
  OBVIOUS
<1>1. Registered = {} /\ Built = {} /\ Items = {} /\ proc.pc = "idle" /\ proc.key = NoKey
  BY DEF Init, Registered, Built, Items, IdleProc
<1>2. \A s \in StageName : stageRec[s].status \notin Done
  BY DEF Init, Done
<1>3. Stamped /\ Named /\ Single /\ OnePlace /\ Unshared /\ Adopting /\ Resting /\ Unfinished /\ Kept
  BY <1>1 DEF Stamped, Named, Single, OnePlace, Unshared, Adopting, Resting, Unfinished, Kept
<1>4. Keyed /\ Taken /\ KeyedBefore /\ Standing
  BY <1>2, PipelineAssumption DEF Keyed, Taken, KeyedBefore, Standing, Applicable
<1>5. Opened /\ Running /\ Ahead /\ Failing /\ InSequence(artifacts, origin)
  BY <1>1 DEF Opened, Running, Ahead, Busy, Failing, InSequence, Registered
<1>6. QED
  BY <1>3, <1>4, <1>5 DEF CInv

\* Every step keeps CInv.
LEMMA CurrentStep == IInv /\ RInv /\ SInv /\ CInv /\ [Next]_vars => CInv'
<1> SUFFICES ASSUME IInv, RInv, SInv, CInv, [Next]_vars PROVE CInv'
  OBVIOUS
<1>1. /\ Stamped' /\ Named' /\ Single' /\ OnePlace' /\ Unshared' /\ Keyed' /\ Adopting' /\ Resting'
      /\ Unfinished'
  BY StampedStep, NamedStep, SingleStep, OnePlaceStep, UnsharedStep, KeyedStep, AdoptingStep,
     RestingStep, UnfinishedStep DEF CInv
<1>2. ASSUME deleted' = {} PROVE Kept' /\ Taken' /\ Opened' /\ Running'
  <2>1. CASE NewRun
    <3>1. Registered' = {} /\ proc'.pc = "idle" /\ \A s \in StageName : stageRec'[s].status \notin Done
      BY <2>1 DEF NewRun, Registered, Done
    <3>2. QED
      BY <3>1, PipelineAssumption DEF Kept, Taken, Opened, Running
  <2>2. CASE ~ NewRun
    BY <1>2, <2>2, NotDeleted, KeptStep, TakenStep, OpenedStep, RunningStep DEF CInv
  <2>3. QED
    BY <2>1, <2>2
<1>3. ASSUME deleted' = {}, ~ reverted'
      PROVE  KeyedBefore' /\ InSequence(artifacts, origin)' /\ Standing' /\ Ahead' /\ Failing'
  <2>1. CASE NewRun
    <3>1. Registered' = {} /\ \A s \in StageName : stageRec'[s].status \notin Done
      BY <2>1 DEF NewRun, Registered, Done
    <3>2. KeyedBefore' /\ Standing' /\ InSequence(artifacts, origin)'
      BY <3>1, PipelineAssumption DEF KeyedBefore, Standing, Applicable, InSequence, Registered
    <3>3. QED
      BY <1>3, <3>2, AheadStep, FailingStep
  <2>2. CASE ~ NewRun
    <3>1. deleted = {} /\ ~ reverted /\ Keyed /\ KeyedBefore
      BY <1>3, <2>2, NotDeleted, NotReverted DEF CInv
    <3>2. QED
      BY <1>3, <2>2, <3>1, KeyedBeforeStep, InSequenceStep, StandingStep, AheadStep, FailingStep
  <2>3. QED
    BY <2>1, <2>2
<1>4. QED
  BY <1>1, <1>2, <1>3 DEF CInv

\* In an invocation from the first stage on, a stage works on what the stages before it
\* list as their outputs (input, stage.py:60-74; latest, store.py:144-146).
THEOREM InputsAreCurrentCorrect == Spec => []InputsAreCurrent
<1> DEFINE All == IInv /\ RInv /\ SInv /\ CInv
<1>1. Init => All
  BY InitInv, RerunInit, RootInit, CurrentInit
<1>2. All /\ [Next]_vars => All'
  BY InvStep, RerunStep, RootStep, CurrentStep
<1>3. All => InputsAreCurrent
  <2> SUFFICES ASSUME All, proc.first = 1, deleted = {}, ~ reverted PROVE UsesListed
    BY DEF InputsAreCurrent, UsesListed
  <2>1. Resting /\ Failing
    BY DEF CInv
  <2>2. CASE proc.pc \in {"idle", "stage"}
    BY <2>1, <2>2 DEF Resting, NoKey, UsesListed
  <2>3. CASE proc.pc \in Busy
    BY <2>3, BusyUsesListed
  <2>4. CASE proc.pc = "failing"
    BY <2>1, <2>4 DEF Failing
  <2>5. QED
    BY <2>2, <2>3, <2>4 DEF IInv, ProcTyped, Busy
<1>4. QED
  BY <1>1, <1>2, <1>3, PTL DEF Spec

=============================================================================
