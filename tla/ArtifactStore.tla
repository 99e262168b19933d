--------------------------- MODULE ArtifactStore ---------------------------
(***************************************************************************)
(* The artifact store of one run (artifacts/store.py, StageContext.publish *)
(* in pipeline/stage.py): one process publishes files and adopts files     *)
(* from the shared cache, each in two steps, the file first and the        *)
(* manifest second, and may stop between them; meanwhile anyone may damage *)
(* or delete a file of the run directory.                                  *)
(***************************************************************************)
EXTENDS RunDirectory

CONSTANT MaxTime          \* bound: no new request once the clock reaches it

VARIABLES pending,        \* the request whose file is in place and not yet registered
          reply,          \* how the last request ended
          tampered        \* history: the paths changed from outside

vars == <<files, artifacts, clock, pending, reply, tampered>>

Request == [path : Path, type : ArtifactType, stage : StageName, parents : SUBSET Id]
Reply == {"none", "ok", "missing", "conflict", "unknown_parent", "too_many_versions"}

TypeOK ==
    /\ DOMAIN files \subseteq Path
    /\ files \in [DOMAIN files -> Content]
    /\ DOMAIN artifacts \subseteq Id
    /\ artifacts \in [DOMAIN artifacts -> Record]
    /\ clock \in Nat
    /\ pending \in SUBSET Request
    /\ reply \in Reply
    /\ tampered \in SUBSET Path

Init ==
    /\ files = [p \in {} |-> {}]
    /\ artifacts = [i \in {} |-> {}]
    /\ clock = 0
    /\ pending = {}
    /\ reply = "none"
    /\ tampered = {}

-----------------------------------------------------------------------------

Idle == pending = {} /\ clock < MaxTime

\* publish(): move the file to the first version that is free, or drop it
\* where an existing version has the same content.
Publish(name, type, content, stage, parents) ==
    /\ Idle
    /\ \E path \in Destination(name, content) :
          /\ files' = Bind(files, path, content)
          /\ pending' = {[path |-> path, type |-> type, stage |-> stage, parents |-> parents]}
    /\ UNCHANGED <<artifacts, clock, reply, tampered>>

\* publish() gives up after MaxVersion versions.
PublishTooMany(name, content) ==
    /\ Idle
    /\ Destination(name, content) = {}
    /\ reply' = "too_many_versions"
    /\ UNCHANGED <<files, artifacts, clock, pending, tampered>>

\* Mutant: adopt() copies over what is there.
CopyInAnyway(path, type, content, stage, parents) ==
    /\ Idle
    /\ files' = Bind(files, path, content)
    /\ pending' = {[path |-> path, type |-> type, stage |-> stage, parents |-> parents]}
    /\ UNCHANGED <<artifacts, clock, reply, tampered>>

\* adopt(): copy a cached file to the path it had in the run that stored it,
\* unless something is there.
CopyIn(path, type, content, stage, parents) ==
    /\ Idle
    /\ ~ Exists(path)
    /\ files' = Bind(files, path, content)
    /\ pending' = {[path |-> path, type |-> type, stage |-> stage, parents |-> parents]}
    /\ UNCHANGED <<artifacts, clock, reply, tampered>>

\* register() re-hashes the file that is now at the path.
Register(req) ==
    /\ req \in pending
    /\ RegisterFile(req.path, req.type, req.stage, req.parents)
    /\ pending' = {}
    /\ LET outcome == RegisterReply(req.path, req.type, req.parents) IN
       reply' = IF outcome \in {"existing", "added"} THEN "ok" ELSE outcome
    /\ UNCHANGED <<files, tampered>>

\* The process stops between moving a file in and registering it.
Crash ==
    /\ pending # {}
    /\ pending' = {}
    /\ UNCHANGED <<files, artifacts, clock, reply, tampered>>

Tamper(path, content) ==
    /\ Exists(path)
    /\ files[path] # content
    /\ files' = Bind(files, path, content)
    /\ tampered' = tampered \cup {path}
    /\ UNCHANGED <<artifacts, clock, pending, reply>>

Delete(path) ==
    /\ Exists(path)
    /\ files' = Unbind(files, path)
    /\ tampered' = tampered \cup {path}
    /\ UNCHANGED <<artifacts, clock, pending, reply>>

Next ==
    \/ \E name \in Name, type \in ArtifactType, content \in Content,
          stage \in StageName, parents \in SUBSET Id :
          Publish(name, type, content, stage, parents)
    \/ \E name \in Name, content \in Content : PublishTooMany(name, content)
    \/ \E path \in Path, type \in ArtifactType, content \in Content,
          stage \in StageName, parents \in SUBSET Id :
          CopyIn(path, type, content, stage, parents)
    \/ \E req \in pending : Register(req)
    \/ Crash
    \/ \E path \in Path, content \in Content : Tamper(path, content)
    \/ \E path \in Path : Delete(path)

Spec == Init /\ [][Next]_vars

-----------------------------------------------------------------------------
(* Properties *)

\* Two records never name the same path (register, store.py:111-119), so the
\* content of a file can never satisfy one record and refute another.
OnePathOneRecord ==
    \A i, j \in Registered : artifacts[i].path = artifacts[j].path => i = j

\* Every parent a record names is itself registered (store.py:120-122), whatever
\* records were replaced since: the provenance graph has no dangling edge.
ProvenanceClosed ==
    \A i \in Registered : artifacts[i].parents \subseteq Registered

\* A registered artifact verifies unless its own file was changed from outside:
\* no publish, adoption, crash or later registration ever damages one.
UntamperedIntact ==
    \A i \in Registered : artifacts[i].path \notin tampered => Intact(i)

\* Nothing the store does overwrites or removes a file (stage.py:87-105,
\* store.py:270-275): a path changes only when someone tampers with it.
NeverOverwrites ==
    [][\A p \in DOMAIN files :
          (p \in DOMAIN files' /\ files'[p] = files[p]) \/ p \in tampered']_vars

=============================================================================
