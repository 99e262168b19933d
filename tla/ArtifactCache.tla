---------------------------- MODULE ArtifactCache ----------------------------
(***************************************************************************)
(* One entry of the shared artifact cache (ArtifactCache in                *)
(* artifacts/store.py) under the processes that use it: each loads and     *)
(* verifies the entry and copies a hit into its own run; on a miss it runs *)
(* the stage and stores what it built.  There is no lock.  A process may   *)
(* stop at any point, and a published entry may be damaged on disk.        *)
(*                                                                         *)
(* Abstractions.  A directory maps the names in it to contents.  Item i    *)
(* of build b has the content b, index.json lists the hashes of one build, *)
(* and Torn is the content of a file that is being written or was          *)
(* damaged.  Removing a directory is one step, as is the fsync'd index     *)
(* write, and reading a file.  Writing a file is two (open, then data),    *)
(* because a file stays open when its directory is renamed or removed.     *)
(***************************************************************************)
EXTENDS Naturals

CONSTANTS Proc,
          NumItems,    \* artifacts of the stage
          MaxBuilds,   \* bound: executions of the stage
          MaxDamage,   \* bound: files damaged on disk
          NoDir        \* "no such directory"

ASSUME CacheAssumption ==
    /\ NumItems \in Nat \ {0}
    /\ {MaxBuilds, MaxDamage} \subseteq Nat
    /\ \A names \in SUBSET (0 .. NumItems) : NoDir \notin [names -> 0 .. MaxBuilds]

VARIABLES entry,       \* <cache_dir>/<key>
          staging,     \* <cache_dir>/.<key>.staging, the same path for every writer
          pc, item,    \* where a process is, and the artifact it is at
          mine,        \* the build a process holds
          fd,          \* where the file it is writing now lives
          index,       \* the build listed by the index.json it read
          got,         \* <<item, content>> pairs it copied out of the entry
          builds,      \* executions of the stage so far
          damages,
          hits,        \* history: the builds for which verification succeeded
          overlapped   \* history: two processes were inside store() at once

vars == <<entry, staging, pc, item, mine, fd, index, got, builds, damages, hits,
          overlapped>>

Item == 1 .. NumItems
IndexFile == 0
Build == 1 .. MaxBuilds
Torn == 0

\* Directories: partial functions from the names in use to contents.
Dir == UNION {[names -> Build \cup {Torn}] : names \in SUBSET (Item \cup {IndexFile})}
EmptyDir == [name \in {} |-> Torn]

Has(dir, name) == dir # NoDir /\ name \in DOMAIN dir
Put(dir, name, content) ==
    [n \in DOMAIN dir \cup {name} |-> IF n = name THEN content ELSE dir[n]]

StorePc == {"clear", "mkdir", "open", "write", "index", "rename", "discard"}
Pc == {"start", "verify", "adopt", "run", "check", "done", "failed"} \cup StorePc

Storing == {p \in Proc : pc[p] \in StorePc}

TypeOK ==
    /\ entry \in Dir \cup {NoDir}
    /\ staging \in Dir \cup {NoDir}
    /\ pc \in [Proc -> Pc]
    /\ item \in [Proc -> Item]
    /\ mine \in [Proc -> 0 .. MaxBuilds]
    /\ fd \in [Proc -> {"closed", "staging", "entry", "unlinked"}]
    /\ index \in [Proc -> 0 .. MaxBuilds]
    /\ got \in [Proc -> SUBSET (Item \X (0 .. MaxBuilds))]
    /\ builds \in 0 .. MaxBuilds
    /\ damages \in 0 .. MaxDamage
    /\ hits \subseteq Build
    /\ overlapped \in BOOLEAN

Init ==
    /\ entry = NoDir
    /\ staging = NoDir
    /\ pc = [p \in Proc |-> "start"]
    /\ item = [p \in Proc |-> 1]
    /\ mine = [p \in Proc |-> 0]
    /\ fd = [p \in Proc |-> "closed"]
    /\ index = [p \in Proc |-> 0]
    /\ got = [p \in Proc |-> {}]
    /\ builds = 0
    /\ damages = 0
    /\ hits = {}
    /\ overlapped = FALSE

-----------------------------------------------------------------------------

Goto(p, label) == pc' = [pc EXCEPT ![p] = label]
At(p, i) == item' = [item EXCEPT ![p] = i]

\* Go on with the next artifact, or to label once the last one is handled.
Advance(p, label) ==
    IF item[p] < NumItems
    THEN At(p, item[p] + 1) /\ UNCHANGED pc
    ELSE At(p, 1) /\ Goto(p, label)

\* Files open in a directory follow it when it is renamed, or lose their name.
MoveFds(from, to) == fd' = [p \in Proc |-> IF fd[p] = from THEN to ELSE fd[p]]

(* load() and the copies of adopt() *)

\* load(): a miss without an index; otherwise the records of one build.
ReadIndex(p) ==
    /\ pc[p] = "start"
    /\ At(p, 1)
    /\ IF Has(entry, IndexFile)
       THEN Goto(p, "verify") /\ index' = [index EXCEPT ![p] = entry[IndexFile]]
       ELSE Goto(p, "run") /\ UNCHANGED index
    /\ UNCHANGED <<entry, staging, mine, fd, got, builds, damages, hits, overlapped>>

\* load(): every artifact must be there and hash to its record.
VerifyItem(p) ==
    /\ pc[p] = "verify"
    /\ IF Has(entry, item[p]) /\ entry[item[p]] = index[p]
       THEN /\ Advance(p, "adopt")
            /\ hits' = IF item[p] = NumItems THEN hits \cup {index[p]} ELSE hits
       ELSE Goto(p, "run") /\ At(p, 1) /\ UNCHANGED hits
    /\ UNCHANGED <<entry, staging, mine, fd, index, got, builds, damages, overlapped>>

\* Mutant: adopt() returns from inside the loop.
AdoptItemAndReturn(p) ==
    /\ pc[p] = "adopt"
    /\ got' = [got EXCEPT ![p] = @ \cup {<<item[p], entry[item[p]]>>}]
    /\ Goto(p, "done") /\ UNCHANGED item
    /\ UNCHANGED <<entry, staging, mine, fd, index, builds, damages, hits, overlapped>>

\* adopt(): copy the artifact out of the entry, as it is now.
AdoptItem(p) ==
    /\ pc[p] = "adopt"
    /\ got' = [got EXCEPT ![p] = @ \cup {<<item[p], entry[item[p]]>>}]
    /\ Advance(p, "done")
    /\ UNCHANGED <<entry, staging, mine, fd, index, builds, damages, hits, overlapped>>

\* A miss: the stage runs and publishes its own artifacts in the run.
RunStage(p) ==
    /\ pc[p] = "run"
    /\ builds < MaxBuilds
    /\ builds' = builds + 1
    /\ mine' = [mine EXCEPT ![p] = builds + 1]
    /\ Goto(p, "check")
    /\ UNCHANGED <<entry, staging, item, fd, index, got, damages, hits, overlapped>>

(* store() *)

\* An entry with an index is left alone, whatever else is in it.
CheckEntry(p) ==
    /\ pc[p] = "check"
    /\ Goto(p, IF Has(entry, IndexFile) THEN "done" ELSE "clear")
    /\ overlapped' = (overlapped \/ (~ Has(entry, IndexFile) /\ Storing # {}))
    /\ UNCHANGED <<entry, staging, item, mine, fd, index, got, builds, damages, hits>>

\* Mutant: what an earlier writer left in staging is not removed first.
ClearStagingAfterwards(p) ==
    /\ pc[p] \in {"clear", "discard"}
    /\ IF pc[p] = "discard"
       THEN staging' = NoDir /\ MoveFds("staging", "unlinked")
       ELSE UNCHANGED <<staging, fd>>
    /\ Goto(p, IF pc[p] = "clear" THEN "mkdir" ELSE "done")
    /\ UNCHANGED <<entry, item, mine, index, got, builds, damages, hits, overlapped>>

\* rmtree(staging, ignore_errors=True)
ClearStaging(p) ==
    /\ pc[p] \in {"clear", "discard"}
    /\ staging' = NoDir
    /\ MoveFds("staging", "unlinked")
    /\ Goto(p, IF pc[p] = "clear" THEN "mkdir" ELSE "done")
    /\ UNCHANGED <<entry, item, mine, index, got, builds, damages, hits, overlapped>>

\* staging.mkdir(parents=True) raises FileExistsError if it is back.
MakeStaging(p) ==
    /\ pc[p] = "mkdir"
    /\ At(p, 1)
    /\ IF staging = NoDir
       THEN staging' = EmptyDir /\ Goto(p, "open")
       ELSE UNCHANGED staging /\ Goto(p, "failed")
    /\ UNCHANGED <<entry, mine, fd, index, got, builds, damages, hits, overlapped>>

\* copy2 opens the target for writing, truncating what is there.
OpenItem(p) ==
    /\ pc[p] = "open"
    /\ IF staging # NoDir
       THEN /\ staging' = Put(staging, item[p], Torn)
            /\ fd' = [fd EXCEPT ![p] = "staging"]
            /\ Goto(p, "write")
       ELSE Goto(p, "failed") /\ UNCHANGED <<staging, fd>>
    /\ UNCHANGED <<entry, item, mine, index, got, builds, damages, hits, overlapped>>

\* The data goes to the open file, wherever it is now; copying the file's times
\* afterwards raises FileNotFoundError if the path is gone.
WriteItem(p) ==
    /\ pc[p] = "write"
    /\ staging' = IF fd[p] = "staging" THEN Put(staging, item[p], mine[p]) ELSE staging
    /\ entry' = IF fd[p] = "entry" THEN Put(entry, item[p], mine[p]) ELSE entry
    /\ fd' = [fd EXCEPT ![p] = "closed"]
    /\ IF ~ Has(staging, item[p])
       THEN Goto(p, "failed") /\ UNCHANGED item
       ELSE IF item[p] < NumItems
            THEN Goto(p, "open") /\ At(p, item[p] + 1)
            ELSE Goto(p, "index") /\ UNCHANGED item
    /\ UNCHANGED <<mine, index, got, builds, damages, hits, overlapped>>

\* Mutant: the index lists the newest build, not the one that was copied.
WriteIndexOfNewest(p) ==
    /\ pc[p] = "index"
    /\ staging' = Put(IF staging = NoDir THEN EmptyDir ELSE staging, IndexFile, builds)
    /\ Goto(p, "rename")
    /\ UNCHANGED <<entry, item, mine, fd, index, got, builds, damages, hits, overlapped>>

\* atomic_write_json creates the directory again if someone removed it.
WriteIndex(p) ==
    /\ pc[p] = "index"
    /\ staging' = Put(IF staging = NoDir THEN EmptyDir ELSE staging, IndexFile, mine[p])
    /\ Goto(p, "rename")
    /\ UNCHANGED <<entry, item, mine, fd, index, got, builds, damages, hits, overlapped>>

\* Mutant: the last writer wins.
RenameReplaces(p) ==
    /\ pc[p] = "rename"
    /\ IF staging # NoDir
       THEN /\ entry' = staging
            /\ staging' = NoDir
            /\ MoveFds("staging", "entry")
            /\ Goto(p, "done")
       ELSE Goto(p, "discard") /\ UNCHANGED <<entry, staging, fd>>
    /\ UNCHANGED <<item, mine, index, got, builds, damages, hits, overlapped>>

\* rename() replaces nothing but an empty directory; OSError is taken to mean that
\* another writer published the key.
Rename(p) ==
    /\ pc[p] = "rename"
    /\ IF staging # NoDir /\ entry \in {NoDir, EmptyDir}
       THEN /\ entry' = staging
            /\ staging' = NoDir
            /\ MoveFds("staging", "entry")
            /\ Goto(p, "done")
       ELSE Goto(p, "discard") /\ UNCHANGED <<entry, staging, fd>>
    /\ UNCHANGED <<item, mine, index, got, builds, damages, hits, overlapped>>

(* The environment *)

\* A process stops, or is done, and its run is started again.
Restart(p) ==
    /\ pc[p] # "start"
    /\ Goto(p, "start")
    /\ At(p, 1)
    /\ mine' = [mine EXCEPT ![p] = 0]
    /\ fd' = [fd EXCEPT ![p] = "closed"]
    /\ index' = [index EXCEPT ![p] = 0]
    /\ got' = [got EXCEPT ![p] = {}]
    /\ UNCHANGED <<entry, staging, builds, damages, hits, overlapped>>

Damage(i) ==
    /\ damages < MaxDamage
    /\ Has(entry, i)
    /\ entry[i] # Torn
    /\ entry' = Put(entry, i, Torn)
    /\ damages' = damages + 1
    /\ UNCHANGED <<staging, pc, item, mine, fd, index, got, builds, hits, overlapped>>

Step(p) ==
    \/ ReadIndex(p) \/ VerifyItem(p) \/ AdoptItem(p) \/ RunStage(p)
    \/ CheckEntry(p) \/ ClearStaging(p) \/ MakeStaging(p)
    \/ OpenItem(p) \/ WriteItem(p) \/ WriteIndex(p) \/ Rename(p)

Next ==
    \/ \E p \in Proc : Step(p) \/ Restart(p)
    \/ \E i \in Item : Damage(i)

Spec == Init /\ [][Next]_vars

-----------------------------------------------------------------------------
(* Properties *)

\* What load() accepts: an index, and every artifact as the index lists it.
Loads(dir) ==
    Has(dir, IndexFile) /\ \A i \in Item : Has(dir, i) /\ dir[i] = dir[IndexFile]

\* Unless two writers met, an entry that was never damaged is a hit (store,
\* store.py:213-234): what a crash leaves behind stays in staging, so an entry is
\* published whole or not at all.
PublishedEntryLoads ==
    ~ overlapped /\ entry # NoDir /\ damages = 0 => Loads(entry)

\* Storing alone, whatever an earlier writer left in staging, store() does not
\* make the stage that called it fail (store.py:218-220).
StoreNeverFails == ~ overlapped => \A p \in Proc : pc[p] # "failed"

\* Unless two writers met, a process that has adopted an entry holds every artifact
\* of one build, never a mixture (load verifies, store.py:251-254; adopt copies
\* later, 271-275).
HitIsOneBuild ==
    \A p \in Proc :
        ~ overlapped /\ pc[p] = "done" /\ got[p] # {} /\ damages = 0 =>
            \E b \in Build : got[p] = {<<i, b>> : i \in Item}

\* Two writers may also meet: "first writer wins" (store.py:214), "theirs is
\* equivalent" (233), so what is published is still a whole entry.
RacingWritersPublishWhole == entry # NoDir /\ damages = 0 => Loads(entry)

\* The cache implements CacheEntry: a key stands for the first build whose index
\* is published, for good, and verification succeeds for no other build.
PublishedBuild == IF Has(entry, IndexFile) THEN entry[IndexFile] ELSE Torn
Abstract == INSTANCE CacheEntry WITH NoBuild <- Torn, published <- PublishedBuild
FirstWriterWins == Abstract!Spec

=============================================================================
