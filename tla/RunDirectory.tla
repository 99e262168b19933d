---------------------------- MODULE RunDirectory ----------------------------
(***************************************************************************)
(* The part of a run directory that its stages share: the files, the       *)
(* artifact records of manifest.json, and the clock that stamps them.      *)
(* ArtifactStore (a store on its own) and Pipeline (the orchestrator that  *)
(* drives one) both extend this module.                                    *)
(*                                                                         *)
(* Abstractions.  A content stands for its SHA-256; ids keep the whole     *)
(* hash where the code keeps 12 hex digits.  <<name, v>> is the path a     *)
(* stage gets for its v-th version of name (name.ext, name.2.ext, ...);    *)
(* a name fixes its directory.  The clock ticks at every registration, so  *)
(* no two records have the same created_at.                                *)
(***************************************************************************)
EXTENDS Naturals, FiniteSets

CONSTANTS ArtifactType,   \* model_report, onnx, engine, ...
          Content,        \* what a file can hold
          Name,           \* artifact file names, without the version
          StageName,
          MaxVersion      \* versions of a name that publish tries (999)

ASSUME MaxVersionAssumption == MaxVersion \in Nat

VARIABLES files,          \* path -> content, for the paths that exist
          artifacts,      \* manifest.artifacts: id -> record
          clock

Path == Name \X (1 .. MaxVersion)
Id == ArtifactType \X Content
Record == [path : Path, created : Nat, stage : StageName, parents : SUBSET Id]

MakeId(type, sha) == <<type, sha>>
TypeOf(id) == id[1]
Sha(id) == id[2]

Exists(path) == path \in DOMAIN files
Holds(path, content) == Exists(path) /\ files[path] = content
Registered == DOMAIN artifacts

\* f with key k bound to v, whether or not k was bound before.
Bind(f, k, v) == [x \in DOMAIN f \cup {k} |-> IF x = k THEN v ELSE f[x]]
Unbind(f, k) == [x \in DOMAIN f \ {k} |-> f[x]]

-----------------------------------------------------------------------------
(* Lookup and integrity *)

\* verify() raises unless the file is there and hashes to the recorded sha256.
Intact(id) == Holds(artifacts[id].path, Sha(id))

Records(type) == {id \in Registered : TypeOf(id) = type}

\* Mutant: the records are sorted the wrong way round.
LatestIsOldest(type) ==
    {id \in Records(type) :
        \A other \in Records(type) : artifacts[id].created <= artifacts[other].created}

\* The record with the greatest created_at; {} if the run has none.
Latest(type) ==
    {id \in Records(type) :
        \A other \in Records(type) : artifacts[other].created <= artifacts[id].created}

\* verify_all(): the artifacts a report lists as damaged.
VerifyAll == {id \in Registered : ~ Intact(id)}

-----------------------------------------------------------------------------
(* Publishing and registration *)

\* The versions at which the loop of publish() stops: free, or already this content.
Candidates(name, content) ==
    {v \in 1 .. MaxVersion : Exists(<<name, v>>) => files[<<name, v>>] = content}

\* Mutant: publish() replaces the first version.
DestinationIsFirst(name, content) == {<<name, 1>>}

\* The path publish() ends at: the first such version; {} if there is none.
Destination(name, content) ==
    {path \in {name} \X Candidates(name, content) :
        \A v \in Candidates(name, content) : path[2] <= v}

IdsAt(path) == {id \in Registered : artifacts[id].path = path}

\* Mutant: register() takes the parents as they are.
RegisterReplyAnyParents(path, type, parents) ==
    IF ~ Exists(path) THEN "missing"
    ELSE IF MakeId(type, files[path]) \in IdsAt(path) THEN "existing"
    ELSE IF IdsAt(path) # {} THEN "conflict"
    ELSE "added"

\* Mutant: a path may have a second record.
RegisterReplyNoConflict(path, type, parents) ==
    IF ~ Exists(path) THEN "missing"
    ELSE IF MakeId(type, files[path]) \in IdsAt(path) THEN "existing"
    ELSE IF ~ (parents \subseteq Registered) THEN "unknown_parent"
    ELSE "added"

\* How register() ends for the file now at path.
RegisterReply(path, type, parents) ==
    IF ~ Exists(path) THEN "missing"
    ELSE IF MakeId(type, files[path]) \in IdsAt(path) THEN "existing"
    ELSE IF IdsAt(path) # {} THEN "conflict"
    ELSE IF ~ (parents \subseteq Registered) THEN "unknown_parent"
    ELSE "added"

\* Mutant: the new record has no parents.
RegisterFileNoParents(path, type, stage, parents) ==
    IF RegisterReply(path, type, parents) = "added"
    THEN /\ artifacts' = Bind(artifacts, MakeId(type, files[path]),
                              [path |-> path, created |-> clock,
                               stage |-> stage, parents |-> {}])
         /\ clock' = clock + 1
    ELSE UNCHANGED <<artifacts, clock>>

\* manifest.artifacts[record.id] = record: an older record of the id is replaced.
RegisterFile(path, type, stage, parents) ==
    IF RegisterReply(path, type, parents) = "added"
    THEN /\ artifacts' = Bind(artifacts, MakeId(type, files[path]),
                              [path |-> path, created |-> clock,
                               stage |-> stage, parents |-> parents])
         /\ clock' = clock + 1
    ELSE UNCHANGED <<artifacts, clock>>

=============================================================================
