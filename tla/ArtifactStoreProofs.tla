------------------------- MODULE ArtifactStoreProofs -------------------------
(***************************************************************************)
(* The store's invariants, for every set of types, contents, names and     *)
(* stages, any number of versions and any bound on the clock.  TypeOK is   *)
(* inductive by itself; OnePathOneRecord, ProvenanceClosed and             *)
(* UntamperedIntact are inductive relative to it.                          *)
(***************************************************************************)
EXTENDS ArtifactStore, TLAPS

\* The loop of publish() ends at a path of the run that is free or already holds
\* the content: whatever it finds there, no other content is lost.
LEMMA DestinationFacts ==
    ASSUME NEW name \in Name, NEW content \in Content,
           NEW path \in Destination(name, content)
    PROVE  path \in Path /\ (Exists(path) => files[path] = content)
<1>1. path \in {name} \X Candidates(name, content)
  BY DEF Destination
<1>2. PICK v \in Candidates(name, content) : path = <<name, v>>
  BY <1>1
<1>3. v \in 1 .. MaxVersion /\ (Exists(<<name, v>>) => files[<<name, v>>] = content)
  BY DEF Candidates
<1>4. QED
  BY <1>2, <1>3 DEF Path

\* Writing one file keeps the files typed.
LEMMA WriteType ==
    ASSUME TypeOK, NEW path \in Path, NEW content \in Content,
           files' = Bind(files, path, content)
    PROVE  DOMAIN files' \subseteq Path /\ files' \in [DOMAIN files' -> Content]
BY DEF TypeOK, Bind

\* Adding one record keeps the manifest typed.
LEMMA AddType ==
    ASSUME TypeOK, NEW id \in Id, NEW rec \in Record,
           artifacts' = Bind(artifacts, id, rec)
    PROVE  DOMAIN artifacts' \subseteq Id /\ artifacts' \in [DOMAIN artifacts' -> Record]
BY DEF TypeOK, Bind

\* register() stamps and adds one record, or leaves the manifest as it is.
LEMMA RegisterFacts ==
    ASSUME TypeOK, NEW req \in pending, Register(req)
    PROVE  \/ UNCHANGED <<artifacts, clock>>
           \/ LET id == MakeId(req.type, files[req.path])
                  rec == [path |-> req.path, created |-> clock,
                          stage |-> req.stage, parents |-> req.parents] IN
              /\ id \in Id /\ rec \in Record
              /\ Exists(req.path) /\ IdsAt(req.path) = {} /\ req.parents \subseteq Registered
              /\ artifacts' = Bind(artifacts, id, rec)
              /\ clock' = clock + 1
<1>1. req \in Request
  BY DEF TypeOK
<1>2. CASE RegisterReply(req.path, req.type, req.parents) = "added"
  <2>1. /\ Exists(req.path) /\ IdsAt(req.path) = {} /\ req.parents \subseteq Registered
    BY <1>2 DEF RegisterReply
  <2>2. files[req.path] \in Content
    BY <2>1 DEF TypeOK, Exists
  <2>3. MakeId(req.type, files[req.path]) \in Id
    BY <1>1, <2>2 DEF MakeId, Id, Request
  <2>4. [path |-> req.path, created |-> clock, stage |-> req.stage,
         parents |-> req.parents] \in Record
    BY <1>1 DEF Request, Record, TypeOK
  <2>5. QED
    BY <1>2, <2>1, <2>3, <2>4 DEF Register, RegisterFile
<1>3. CASE RegisterReply(req.path, req.type, req.parents) # "added"
  BY <1>3 DEF Register, RegisterFile
<1>4. QED
  BY <1>2, <1>3

\* Type correctness is preserved by every action.
LEMMA TypeStep == TypeOK /\ [Next]_vars => TypeOK'
<1> SUFFICES ASSUME TypeOK, [Next]_vars PROVE TypeOK'
  OBVIOUS
<1> USE DEF TypeOK
<1>1. ASSUME NEW name \in Name, NEW type \in ArtifactType, NEW content \in Content,
             NEW stage \in StageName, NEW parents \in SUBSET Id,
             Publish(name, type, content, stage, parents)
      PROVE  TypeOK'
  <2>1. PICK path \in Destination(name, content) :
             /\ files' = Bind(files, path, content)
             /\ pending' = {[path |-> path, type |-> type, stage |-> stage,
                             parents |-> parents]}
    BY <1>1 DEF Publish
  <2> path \in Path
    BY DestinationFacts
  <2>2. DOMAIN files' \subseteq Path /\ files' \in [DOMAIN files' -> Content]
    BY <2>1, WriteType
  <2>3. pending' \in SUBSET Request
    BY <2>1 DEF Request
  <2>4. QED
    BY <1>1, <2>2, <2>3 DEF Publish
<1>2. ASSUME NEW name \in Name, NEW content \in Content, PublishTooMany(name, content)
      PROVE  TypeOK'
  BY <1>2 DEF PublishTooMany, Reply
<1>3. ASSUME NEW path \in Path, NEW type \in ArtifactType, NEW content \in Content,
             NEW stage \in StageName, NEW parents \in SUBSET Id,
             CopyIn(path, type, content, stage, parents)
      PROVE  TypeOK'
  <2>1. DOMAIN files' \subseteq Path /\ files' \in [DOMAIN files' -> Content]
    BY <1>3, WriteType DEF CopyIn
  <2>2. pending' \in SUBSET Request
    BY <1>3 DEF CopyIn, Request
  <2>3. QED
    BY <1>3, <2>1, <2>2 DEF CopyIn
<1>4. ASSUME NEW req \in pending, Register(req)
      PROVE  TypeOK'
  <2>1. /\ DOMAIN artifacts' \subseteq Id
        /\ artifacts' \in [DOMAIN artifacts' -> Record]
        /\ clock' \in Nat
    <3>1. CASE UNCHANGED <<artifacts, clock>>
      BY <3>1
    <3>2. CASE ~ UNCHANGED <<artifacts, clock>>
      <4> DEFINE id == MakeId(req.type, files[req.path])
      <4> DEFINE rec == [path |-> req.path, created |-> clock,
                         stage |-> req.stage, parents |-> req.parents]
      <4>1. /\ id \in Id /\ rec \in Record
            /\ artifacts' = Bind(artifacts, id, rec)
            /\ clock' = clock + 1
        BY <1>4, <3>2, RegisterFacts
      <4> HIDE DEF id, rec
      <4>2. QED
        BY <4>1, AddType
    <3>3. QED
      BY <3>1, <3>2
  <2>2. reply' \in Reply
    BY <1>4 DEF Register, RegisterReply, Reply
  <2>3. QED
    BY <1>4, <2>1, <2>2 DEF Register
<1>5. ASSUME Crash PROVE TypeOK'
  BY <1>5 DEF Crash
<1>6. ASSUME NEW path \in Path, NEW content \in Content, Tamper(path, content)
      PROVE  TypeOK'
  <2>1. DOMAIN files' \subseteq Path /\ files' \in [DOMAIN files' -> Content]
    BY <1>6, WriteType DEF Tamper
  <2>2. QED
    BY <1>6, <2>1 DEF Tamper
<1>7. ASSUME NEW path \in Path, Delete(path)
      PROVE  TypeOK'
  <2>1. DOMAIN files' \subseteq Path /\ files' \in [DOMAIN files' -> Content]
    BY <1>7 DEF Delete, Unbind
  <2>2. QED
    BY <1>7, <2>1 DEF Delete
<1>8. CASE UNCHANGED vars
  BY <1>8 DEF vars
<1>9. QED
  BY <1>1, <1>2, <1>3, <1>4, <1>5, <1>6, <1>7, <1>8 DEF Next

\* The run directory, its records and the request in hand always have their types.
THEOREM TypeCorrect == Spec => []TypeOK
<1>1. Init => TypeOK
  BY DEF Init, TypeOK, Reply
<1>2. QED
  BY <1>1, TypeStep, PTL DEF Spec

-----------------------------------------------------------------------------
(* What a step can do to the files and to the manifest *)

\* Files change only from outside, and what was tampered with stays on record.
LEMMA FilesStep ==
    ASSUME TypeOK, [Next]_vars
    PROVE  /\ \A p \in DOMAIN files :
                 (p \in DOMAIN files' /\ files'[p] = files[p]) \/ p \in tampered'
           /\ tampered \subseteq tampered'
<1>1. ASSUME NEW name \in Name, NEW type \in ArtifactType, NEW content \in Content,
             NEW stage \in StageName, NEW parents \in SUBSET Id,
             Publish(name, type, content, stage, parents)
      PROVE  /\ \A p \in DOMAIN files : p \in DOMAIN files' /\ files'[p] = files[p]
             /\ tampered' = tampered
  <2>1. PICK path \in Destination(name, content) : files' = Bind(files, path, content)
    BY <1>1 DEF Publish
  <2>2. Exists(path) => files[path] = content
    BY DestinationFacts
  <2>3. QED
    BY <1>1, <2>1, <2>2 DEF Publish, Bind, Exists
<1>2. ASSUME NEW path \in Path, NEW type \in ArtifactType, NEW content \in Content,
             NEW stage \in StageName, NEW parents \in SUBSET Id,
             CopyIn(path, type, content, stage, parents)
      PROVE  /\ \A p \in DOMAIN files : p \in DOMAIN files' /\ files'[p] = files[p]
             /\ tampered' = tampered
  BY <1>2 DEF CopyIn, Bind, Exists
<1>3. ASSUME NEW path \in Path, NEW content \in Content, Tamper(path, content)
      PROVE  /\ \A p \in DOMAIN files \ {path} : p \in DOMAIN files' /\ files'[p] = files[p]
             /\ tampered' = tampered \cup {path}
  BY <1>3 DEF Tamper, Bind
<1>4. ASSUME NEW path \in Path, Delete(path)
      PROVE  /\ \A p \in DOMAIN files \ {path} : p \in DOMAIN files' /\ files'[p] = files[p]
             /\ tampered' = tampered \cup {path}
  BY <1>4 DEF Delete, Unbind
<1>5. CASE UNCHANGED <<files, tampered>>
  BY <1>5
<1>6. QED
  BY <1>1, <1>2, <1>3, <1>4, <1>5 DEF Next, PublishTooMany, Register, Crash, vars

\* The manifest changes only when register() adds the record of a file that is there.
LEMMA ManifestStep ==
    ASSUME TypeOK, [Next]_vars, artifacts' # artifacts
    PROVE  \E id \in Id, rec \in Record :
              /\ artifacts' = Bind(artifacts, id, rec)
              /\ Holds(rec.path, Sha(id))
              /\ IdsAt(rec.path) = {} /\ rec.parents \subseteq Registered
              /\ files' = files
<1>1. PICK req \in pending : Register(req)
  BY DEF Next, Publish, PublishTooMany, CopyIn, Crash, Tamper, Delete, vars
<1> DEFINE id == MakeId(req.type, files[req.path])
<1> DEFINE rec == [path |-> req.path, created |-> clock,
                   stage |-> req.stage, parents |-> req.parents]
<1>2. /\ id \in Id /\ rec \in Record
      /\ Exists(req.path) /\ IdsAt(req.path) = {} /\ req.parents \subseteq Registered
      /\ artifacts' = Bind(artifacts, id, rec)
  BY <1>1, RegisterFacts
<1>3. Holds(req.path, Sha(id))
  BY <1>2 DEF Holds, Sha, MakeId
<1>4. files' = files
  BY <1>1 DEF Register
<1>5. rec.path = req.path /\ rec.parents = req.parents
  OBVIOUS
<1> HIDE DEF id, rec
<1>6. QED
  BY <1>2, <1>3, <1>4, <1>5

-----------------------------------------------------------------------------
(* The invariants *)

\* register() refuses a path that a record names, so two records never share one.
LEMMA OnePathStep == TypeOK /\ OnePathOneRecord /\ [Next]_vars => OnePathOneRecord'
<1> SUFFICES ASSUME TypeOK, OnePathOneRecord, [Next]_vars PROVE OnePathOneRecord'
  OBVIOUS
<1>1. CASE artifacts' = artifacts
  BY <1>1 DEF OnePathOneRecord, Registered
<1>2. CASE artifacts' # artifacts
  <2>1. PICK id \in Id, rec \in Record :
             artifacts' = Bind(artifacts, id, rec) /\ IdsAt(rec.path) = {}
    BY <1>2, ManifestStep
  <2>2. \A i \in Registered : artifacts[i].path # rec.path
    BY <2>1 DEF IdsAt
  <2>3. QED
    BY <2>1, <2>2 DEF OnePathOneRecord, Registered, Bind
<1>3. QED
  BY <1>1, <1>2

\* A replaced record keeps its id, so no parent reference is ever left dangling.
LEMMA ProvenanceStep == TypeOK /\ ProvenanceClosed /\ [Next]_vars => ProvenanceClosed'
<1> SUFFICES ASSUME TypeOK, ProvenanceClosed, [Next]_vars PROVE ProvenanceClosed'
  OBVIOUS
<1>1. CASE artifacts' = artifacts
  BY <1>1 DEF ProvenanceClosed, Registered
<1>2. CASE artifacts' # artifacts
  <2>1. PICK id \in Id, rec \in Record :
             artifacts' = Bind(artifacts, id, rec) /\ rec.parents \subseteq Registered
    BY <1>2, ManifestStep
  <2>2. QED
    BY <2>1 DEF ProvenanceClosed, Registered, Bind
<1>3. QED
  BY <1>1, <1>2

\* A record is born intact, and only tampering with its own file breaks it.
LEMMA IntactStep == TypeOK /\ UntamperedIntact /\ [Next]_vars => UntamperedIntact'
<1> SUFFICES ASSUME TypeOK, UntamperedIntact, [Next]_vars,
                    NEW i \in Registered', artifacts'[i].path \notin tampered'
             PROVE  Intact(i)'
  BY DEF UntamperedIntact
<1>1. CASE i \in Registered /\ artifacts'[i] = artifacts[i]
  <2>1. Holds(artifacts[i].path, Sha(i)) /\ artifacts[i].path \notin tampered'
    BY <1>1, FilesStep DEF UntamperedIntact, Intact
  <2>2. QED
    BY <1>1, <2>1, FilesStep DEF Intact, Holds, Exists, Sha
<1>2. CASE ~ (i \in Registered /\ artifacts'[i] = artifacts[i])
  <2>1. PICK id \in Id, rec \in Record :
             /\ artifacts' = Bind(artifacts, id, rec)
             /\ Holds(rec.path, Sha(id)) /\ files' = files
    BY <1>2, ManifestStep DEF Registered
  <2>2. i = id /\ artifacts'[i] = rec
    BY <1>2, <2>1 DEF Bind, Registered
  <2>3. QED
    BY <2>1, <2>2 DEF Intact, Holds, Exists, Sha
<1>3. QED
  BY <1>1, <1>2

\* The records of a run never share a path: see OnePathOneRecord.
THEOREM OnePathCorrect == Spec => []OnePathOneRecord
<1>1. Init => OnePathOneRecord
  BY DEF Init, OnePathOneRecord, Registered
<1>2. QED
  BY <1>1, TypeCorrect, OnePathStep, PTL DEF Spec

\* The provenance graph of a run never has a dangling edge: see ProvenanceClosed.
THEOREM ProvenanceCorrect == Spec => []ProvenanceClosed
<1>1. Init => ProvenanceClosed
  BY DEF Init, ProvenanceClosed, Registered
<1>2. QED
  BY <1>1, TypeCorrect, ProvenanceStep, PTL DEF Spec

\* Only outside tampering makes a registered artifact fail verification.
THEOREM IntactCorrect == Spec => []UntamperedIntact
<1>1. Init => UntamperedIntact
  BY DEF Init, UntamperedIntact, Registered
<1>2. QED
  BY <1>1, TypeCorrect, IntactStep, PTL DEF Spec

\* No action of the store overwrites or removes a file of the run.
THEOREM NeverOverwritesCorrect == Spec => NeverOverwrites
<1>1. TypeOK /\ [Next]_vars =>
        [\A p \in DOMAIN files :
            (p \in DOMAIN files' /\ files'[p] = files[p]) \/ p \in tampered']_vars
  BY FilesStep
<1>2. QED
  BY <1>1, TypeCorrect, PTL DEF Spec, NeverOverwrites

=============================================================================
