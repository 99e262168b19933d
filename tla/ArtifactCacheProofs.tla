-------------------------- MODULE ArtifactCacheProofs --------------------------
(***************************************************************************)
(* Theorems about ArtifactCache, for any processes, number of artifacts,   *)
(* builds and damaged files: it has its types and implements CacheEntry,   *)
(* and, unless two writers meet, what it publishes and hands out is whole. *)
(***************************************************************************)
EXTENDS ArtifactCache, TLAPS

Names == Item \cup {IndexFile}

\* A file is open in a directory that is there.
OpenSomewhere ==
    \A p \in Proc : /\ fd[p] = "staging" => staging # NoDir
                    /\ fd[p] = "entry" => entry # NoDir

\* Whoever stores holds a build, and an index lists one.
Holding == \A p \in Proc : pc[p] \in StorePc \cup {"check"} => mine[p] \in Build
IndexIsBuild(dir) == Has(dir, IndexFile) => dir[IndexFile] \in Build

\* What a process read in the index and verified of the entry is still in it.
StillThere ==
    \A p \in Proc :
        /\ pc[p] = "verify" => /\ Has(entry, IndexFile) /\ index[p] = entry[IndexFile]
                               /\ \A i \in Item : i < item[p] => Has(entry, i)
        /\ pc[p] = "adopt" => \A i \in Item : Has(entry, i)

IInv ==
    /\ TypeOK /\ OpenSomewhere /\ Holding /\ StillThere
    /\ IndexIsBuild(entry) /\ IndexIsBuild(staging)

\* An entry keeps its names, and its index for good.
Grows ==
    /\ entry # NoDir => entry' # NoDir /\ DOMAIN entry \subseteq DOMAIN entry'
    /\ Has(entry, IndexFile) => entry'[IndexFile] = entry[IndexFile]

-----------------------------------------------------------------------------
(* Directories *)

LEMMA DirFacts ==
    ASSUME NEW dir \in Dir
    PROVE  /\ dir = [n \in DOMAIN dir |-> dir[n]]
           /\ DOMAIN dir \subseteq Names
           /\ \A n \in DOMAIN dir : dir[n] \in 0 .. MaxBuilds
<1>1. PICK names \in SUBSET Names : dir \in [names -> Build \cup {Torn}]
  BY DEF Dir, Names
<1>2. Build \cup {Torn} \subseteq 0 .. MaxBuilds
  BY CacheAssumption DEF Build, Torn
<1>3. QED
  BY <1>1, <1>2

LEMMA IsDir ==
    ASSUME NEW names \in SUBSET Names, NEW dir \in [names -> 0 .. MaxBuilds]
    PROVE  dir \in Dir /\ dir # NoDir
<1>1. 0 .. MaxBuilds = Build \cup {Torn}
  BY CacheAssumption DEF Build, Torn
<1>2. Names = 0 .. NumItems
  BY CacheAssumption DEF Names, Item, IndexFile
<1>3. dir # NoDir
  BY <1>2, CacheAssumption
<1>4. dir \in Dir
  BY <1>1 DEF Dir, Names
<1>5. QED
  BY <1>3, <1>4

LEMMA EmptyIsDir == EmptyDir \in Dir /\ EmptyDir # NoDir /\ DOMAIN EmptyDir = {}
<1>1. {} \in SUBSET Names /\ EmptyDir \in [{} -> 0 .. MaxBuilds]
  BY DEF EmptyDir
<1>2. EmptyDir \in Dir /\ EmptyDir # NoDir
  BY <1>1, IsDir
<1>3. QED
  BY <1>2 DEF EmptyDir

\* Writing a file keeps the other names and contents.
LEMMA PutFacts ==
    ASSUME NEW dir \in Dir, NEW name \in Names, NEW content \in 0 .. MaxBuilds
    PROVE  /\ Put(dir, name, content) \in Dir
           /\ Put(dir, name, content) # NoDir
           /\ DOMAIN Put(dir, name, content) = DOMAIN dir \cup {name}
           /\ Put(dir, name, content)[name] = content
           /\ \A n \in DOMAIN dir : n # name => Put(dir, name, content)[n] = dir[n]
<1> DEFINE put == Put(dir, name, content)
<1>1. put = [n \in DOMAIN dir \cup {name} |-> IF n = name THEN content ELSE dir[n]]
  BY DEF Put
<1>2. DOMAIN dir \cup {name} \in SUBSET Names
  BY DirFacts
<1>3. put \in [DOMAIN dir \cup {name} -> 0 .. MaxBuilds]
  BY <1>1, DirFacts
<1>4. put \in Dir /\ put # NoDir
  BY <1>2, <1>3, IsDir
<1>5. QED
  BY <1>1, <1>4

\* What every step does to the two directories and the files open in them.
DirsKept ==
    /\ {entry', staging'} \subseteq Dir \cup {NoDir}
    /\ OpenSomewhere'
    /\ IndexIsBuild(entry)' /\ IndexIsBuild(staging)'
    /\ Grows

LEMMA ClearKeepsDirs ==
    ASSUME IInv, NEW p \in Proc, ClearStaging(p)
    PROVE  DirsKept
BY DEF IInv, TypeOK, OpenSomewhere, IndexIsBuild, Has, ClearStaging, MoveFds, DirsKept, Grows

LEMMA MakeKeepsDirs ==
    ASSUME IInv, NEW p \in Proc, MakeStaging(p)
    PROVE  DirsKept
BY EmptyIsDir
DEF IInv, TypeOK, OpenSomewhere, IndexIsBuild, Has, MakeStaging, DirsKept, Grows

\* The same of an artifact's file, seen from the index.
LEMMA PutItem ==
    ASSUME NEW dir \in Dir, NEW i \in Item, NEW content \in 0 .. MaxBuilds
    PROVE  /\ Put(dir, i, content) \in Dir
           /\ Put(dir, i, content) # NoDir
           /\ DOMAIN dir \subseteq DOMAIN Put(dir, i, content)
           /\ Has(Put(dir, i, content), IndexFile) <=> Has(dir, IndexFile)
           /\ Has(dir, IndexFile) => Put(dir, i, content)[IndexFile] = dir[IndexFile]
<1>1. i \in Names /\ i # IndexFile
  BY CacheAssumption DEF Names, Item, IndexFile
<1>2. dir # NoDir
  BY DirFacts, IsDir
<1>3. PICK put : put = Put(dir, i, content)
  OBVIOUS
<1>4. /\ put \in Dir /\ put # NoDir /\ DOMAIN put = DOMAIN dir \cup {i}
      /\ \A n \in DOMAIN dir : n # i => put[n] = dir[n]
  BY <1>1, <1>3, PutFacts, Zenon
<1>5. /\ DOMAIN dir \subseteq DOMAIN put
      /\ Has(put, IndexFile) <=> Has(dir, IndexFile)
      /\ Has(dir, IndexFile) => put[IndexFile] = dir[IndexFile]
  BY <1>1, <1>2, <1>4 DEF Has
<1>6. QED
  BY <1>3, <1>4, <1>5

LEMMA OpenKeepsDirs ==
    ASSUME IInv, NEW p \in Proc, OpenItem(p)
    PROVE  DirsKept
<1>1. CASE staging = NoDir
  BY <1>1 DEF IInv, TypeOK, OpenSomewhere, IndexIsBuild, Has, OpenItem, DirsKept, Grows
<1>2. CASE staging # NoDir
  <2>1. staging \in Dir /\ item[p] \in Item /\ Torn \in 0 .. MaxBuilds
    BY <1>2, CacheAssumption DEF IInv, TypeOK, Torn
  <2>2. /\ staging' = Put(staging, item[p], Torn)
        /\ fd' = [fd EXCEPT ![p] = "staging"] /\ entry' = entry
    BY <1>2 DEF OpenItem
  <2>3. /\ staging' \in Dir /\ staging' # NoDir
        /\ Has(staging', IndexFile) <=> Has(staging, IndexFile)
        /\ Has(staging, IndexFile) => staging'[IndexFile] = staging[IndexFile]
    BY <2>1, <2>2, PutItem
  <2>4. OpenSomewhere'
    BY <1>2, <2>2, <2>3 DEF IInv, TypeOK, OpenSomewhere
  <2>5. IndexIsBuild(staging)'
    BY <2>3 DEF IInv, IndexIsBuild
  <2>6. QED
    BY <2>2, <2>3, <2>4, <2>5 DEF IInv, TypeOK, DirsKept, Grows, IndexIsBuild
<1>3. QED
  BY <1>1, <1>2

LEMMA WriteKeepsDirs ==
    ASSUME IInv, NEW p \in Proc, WriteItem(p)
    PROVE  DirsKept
<1>1. item[p] \in Item /\ mine[p] \in 0 .. MaxBuilds
  BY DEF IInv, TypeOK
<1>2. fd' = [fd EXCEPT ![p] = "closed"]
  BY DEF WriteItem
<1>3. CASE fd[p] = "staging"
  <2>1. staging \in Dir /\ staging' = Put(staging, item[p], mine[p]) /\ entry' = entry
    BY <1>3 DEF IInv, TypeOK, OpenSomewhere, WriteItem
  <2>2. /\ staging' \in Dir /\ staging' # NoDir
        /\ Has(staging', IndexFile) <=> Has(staging, IndexFile)
        /\ Has(staging, IndexFile) => staging'[IndexFile] = staging[IndexFile]
    BY <1>1, <2>1, PutItem
  <2>3. OpenSomewhere'
    BY <1>2, <2>1, <2>2 DEF IInv, TypeOK, OpenSomewhere
  <2>4. QED
    BY <2>1, <2>2, <2>3 DEF IInv, TypeOK, DirsKept, Grows, IndexIsBuild
<1>4. CASE fd[p] = "entry"
  <2>1. entry \in Dir /\ entry' = Put(entry, item[p], mine[p]) /\ staging' = staging
    BY <1>4 DEF IInv, TypeOK, OpenSomewhere, WriteItem
  <2>2. /\ entry' \in Dir /\ entry' # NoDir /\ DOMAIN entry \subseteq DOMAIN entry'
        /\ Has(entry', IndexFile) <=> Has(entry, IndexFile)
        /\ Has(entry, IndexFile) => entry'[IndexFile] = entry[IndexFile]
    BY <1>1, <2>1, PutItem
  <2>3. OpenSomewhere'
    BY <1>2, <2>1, <2>2 DEF IInv, TypeOK, OpenSomewhere
  <2>4. QED
    BY <2>1, <2>2, <2>3 DEF IInv, TypeOK, DirsKept, Grows, IndexIsBuild
<1>5. CASE fd[p] \notin {"staging", "entry"}
  BY <1>2, <1>5 DEF WriteItem, IInv, TypeOK, OpenSomewhere, IndexIsBuild, Has, DirsKept, Grows
<1>6. QED
  BY <1>3, <1>4, <1>5

LEMMA IndexKeepsDirs ==
    ASSUME IInv, NEW p \in Proc, WriteIndex(p)
    PROVE  DirsKept
<1>1. mine[p] \in Build /\ mine[p] \in 0 .. MaxBuilds
  BY DEF IInv, TypeOK, Holding, WriteIndex, StorePc
<1>2. entry' = entry /\ fd' = fd
  BY DEF WriteIndex
<1>3. PICK dir \in Dir : staging' = Put(dir, IndexFile, mine[p])
  BY EmptyIsDir DEF IInv, TypeOK, WriteIndex
<1>4. IndexFile \in Names
  BY DEF Names
<1>5. /\ Put(dir, IndexFile, mine[p]) \in Dir /\ Put(dir, IndexFile, mine[p]) # NoDir
      /\ Put(dir, IndexFile, mine[p])[IndexFile] = mine[p]
  BY <1>1, <1>4, PutFacts
<1>6. OpenSomewhere'
  BY <1>2, <1>3, <1>5 DEF IInv, OpenSomewhere
<1>7. QED
  BY <1>1, <1>2, <1>3, <1>5, <1>6 DEF IInv, TypeOK, DirsKept, Grows, IndexIsBuild

LEMMA RenameKeepsDirs ==
    ASSUME IInv, NEW p \in Proc, Rename(p)
    PROVE  DirsKept
<1>1. CASE staging # NoDir /\ entry \in {NoDir, EmptyDir}
  <2>1. entry' = staging /\ staging' = NoDir /\ MoveFds("staging", "entry")
    BY <1>1 DEF Rename
  <2>2. OpenSomewhere'
    BY <1>1, <2>1 DEF IInv, TypeOK, OpenSomewhere, MoveFds
  <2>3. Grows
    BY <1>1, <2>1, EmptyIsDir DEF Grows, Has
  <2>4. IndexIsBuild(entry)' /\ IndexIsBuild(staging)'
    BY <2>1 DEF IInv, IndexIsBuild, Has
  <2>5. QED
    BY <2>1, <2>2, <2>3, <2>4 DEF IInv, TypeOK, DirsKept
<1>2. CASE ~ (staging # NoDir /\ entry \in {NoDir, EmptyDir})
  BY <1>2 DEF IInv, TypeOK, OpenSomewhere, IndexIsBuild, Has, Rename, DirsKept, Grows
<1>3. QED
  BY <1>1, <1>2

LEMMA DamageKeepsDirs ==
    ASSUME IInv, NEW i \in Item, Damage(i)
    PROVE  DirsKept
<1>1. entry \in Dir /\ i \in Names /\ i # IndexFile /\ Torn \in 0 .. MaxBuilds
  BY CacheAssumption DEF IInv, TypeOK, Damage, Has, Names, Item, IndexFile, Torn
<1>2. /\ entry' \in Dir /\ entry' # NoDir /\ DOMAIN entry' = DOMAIN entry \cup {i}
      /\ \A n \in DOMAIN entry : n # i => entry'[n] = entry[n]
  BY <1>1, PutFacts DEF Damage
<1>3. staging' = staging /\ fd' = fd /\ entry # NoDir
  BY DEF Damage, Has
<1>4. OpenSomewhere' /\ IndexIsBuild(entry)' /\ Grows
  BY <1>1, <1>2, <1>3 DEF IInv, OpenSomewhere, IndexIsBuild, Has, Grows
<1>5. QED
  BY <1>1, <1>2, <1>3, <1>4 DEF IInv, TypeOK, DirsKept, IndexIsBuild

LEMMA DirsStep ==
    ASSUME IInv, [Next]_vars
    PROVE  DirsKept
<1>1. ASSUME UNCHANGED <<entry, staging>>, NEW p \in Proc, fd' \in {fd, [fd EXCEPT ![p] = "closed"]}
      PROVE  DirsKept
  BY <1>1 DEF IInv, TypeOK, OpenSomewhere, IndexIsBuild, Has, DirsKept, Grows
<1>2. ASSUME NEW p \in Proc, ReadIndex(p) \/ VerifyItem(p) \/ AdoptItem(p) \/ RunStage(p)
                              \/ CheckEntry(p) \/ Restart(p)
      PROVE  DirsKept
  BY <1>1, <1>2 DEF ReadIndex, VerifyItem, AdoptItem, RunStage, CheckEntry, Restart
<1>3. CASE UNCHANGED vars
  BY <1>3 DEF vars, IInv, TypeOK, OpenSomewhere, IndexIsBuild, Has, DirsKept, Grows
<1>4. QED
  BY <1>2, <1>3, ClearKeepsDirs, MakeKeepsDirs, OpenKeepsDirs, WriteKeepsDirs, IndexKeepsDirs,
     RenameKeepsDirs, DamageKeepsDirs DEF Next, Step

-----------------------------------------------------------------------------
(* Processes *)

\* The next item is an item.
LEMMA NextItem ==
    ASSUME TypeOK, NEW p \in Proc
    PROVE  /\ 1 \in Item /\ item[p] \in Item
           /\ item[p] < NumItems => item[p] + 1 \in Item
BY CacheAssumption DEF TypeOK, Item

LEMMA AdvanceFacts ==
    ASSUME TypeOK, NEW p \in Proc, NEW label \in Pc, Advance(p, label)
    PROVE  item' \in [Proc -> Item] /\ pc' \in [Proc -> Pc]
BY NextItem DEF TypeOK, Advance, At, Goto

\* Every step keeps a type; the two directories are kept by DirsStep.
LEMMA TypeStep ==
    ASSUME IInv, [Next]_vars
    PROVE  TypeOK'
<1>1. DirsKept
  BY DirsStep
<1>2. ASSUME NEW p \in Proc, ReadIndex(p)
      PROVE  TypeOK'
  <2>1. Has(entry, IndexFile) => entry[IndexFile] \in 0 .. MaxBuilds
    BY DirFacts DEF IInv, TypeOK, Has
  <2>2. index' \in [Proc -> 0 .. MaxBuilds]
    BY <1>2, <2>1 DEF IInv, TypeOK, ReadIndex
  <2>3. pc' \in [Proc -> Pc] /\ item' \in [Proc -> Item]
    BY <1>2, NextItem DEF IInv, TypeOK, ReadIndex, Goto, At, Pc
  <2>4. QED
    BY <1>1, <1>2, <2>2, <2>3 DEF IInv, TypeOK, DirsKept, ReadIndex
<1>3. ASSUME NEW p \in Proc, VerifyItem(p)
      PROVE  TypeOK'
  <2>1. index[p] \in Build
    BY <1>3 DEF IInv, VerifyItem, StillThere, IndexIsBuild
  <2>2. hits' \subseteq Build
    BY <1>3, <2>1 DEF IInv, TypeOK, VerifyItem
  <2>3. pc' \in [Proc -> Pc] /\ item' \in [Proc -> Item]
    <3>1. CASE Advance(p, "adopt")
      BY <3>1, AdvanceFacts DEF IInv, Pc
    <3>2. CASE Goto(p, "run") /\ At(p, 1)
      BY <3>2, NextItem DEF IInv, TypeOK, Goto, At, Pc
    <3>3. QED
      BY <1>3, <3>1, <3>2 DEF VerifyItem
  <2>4. QED
    BY <1>1, <1>3, <2>2, <2>3 DEF IInv, TypeOK, DirsKept, VerifyItem
<1>4. ASSUME NEW p \in Proc, AdoptItem(p)
      PROVE  TypeOK'
  <2>1. item[p] \in Item /\ Has(entry, item[p])
    BY <1>4 DEF IInv, TypeOK, StillThere, AdoptItem
  <2>2. entry[item[p]] \in 0 .. MaxBuilds
    BY <2>1, DirFacts DEF IInv, TypeOK, Has
  <2>3. got' \in [Proc -> SUBSET (Item \X (0 .. MaxBuilds))]
    BY <1>4, <2>1, <2>2 DEF IInv, TypeOK, AdoptItem
  <2>4. pc' \in [Proc -> Pc] /\ item' \in [Proc -> Item]
    BY <1>4, AdvanceFacts DEF IInv, AdoptItem, Pc
  <2>5. QED
    BY <1>1, <1>4, <2>3, <2>4 DEF IInv, TypeOK, DirsKept, AdoptItem
<1>5. ASSUME NEW p \in Proc, RunStage(p)
      PROVE  TypeOK'
  <2>1. builds' \in 0 .. MaxBuilds
    BY <1>5, CacheAssumption DEF IInv, TypeOK, RunStage
  <2>2. QED
    BY <1>1, <1>5, <2>1 DEF IInv, TypeOK, DirsKept, RunStage, Goto, Pc
<1>6. ASSUME NEW p \in Proc, CheckEntry(p) \/ ClearStaging(p) \/ WriteIndex(p) \/ Rename(p)
      PROVE  TypeOK'
  <2>1. pc' \in [Proc -> Pc]
    BY <1>6 DEF IInv, TypeOK, CheckEntry, ClearStaging, WriteIndex, Rename, Goto, Pc, StorePc
  <2>2. fd' \in [Proc -> {"closed", "staging", "entry", "unlinked"}]
    BY <1>6 DEF IInv, TypeOK, CheckEntry, ClearStaging, WriteIndex, Rename, MoveFds
  <2>3. overlapped' \in BOOLEAN
    BY <1>6 DEF IInv, TypeOK, CheckEntry, ClearStaging, WriteIndex, Rename
  <2>4. UNCHANGED <<item, mine, index, got, builds, damages, hits>>
    BY <1>6 DEF CheckEntry, ClearStaging, WriteIndex, Rename
  <2>5. QED
    BY <1>1, <2>1, <2>2, <2>3, <2>4 DEF IInv, TypeOK, DirsKept
<1>7. ASSUME NEW p \in Proc, MakeStaging(p) \/ OpenItem(p) \/ WriteItem(p) \/ Restart(p)
      PROVE  TypeOK'
  <2>1. pc' \in [Proc -> Pc]
    BY <1>7 DEF IInv, TypeOK, MakeStaging, OpenItem, WriteItem, Restart, Goto, Pc, StorePc
  <2>2. fd' \in [Proc -> {"closed", "staging", "entry", "unlinked"}]
    BY <1>7 DEF IInv, TypeOK, MakeStaging, OpenItem, WriteItem, Restart
  <2>3. item' \in [Proc -> Item]
    BY <1>7, NextItem DEF IInv, TypeOK, MakeStaging, OpenItem, WriteItem, Restart, At
  <2>4. /\ mine' \in [Proc -> 0 .. MaxBuilds] /\ index' \in [Proc -> 0 .. MaxBuilds]
        /\ got' \in [Proc -> SUBSET (Item \X (0 .. MaxBuilds))]
    BY <1>7, CacheAssumption DEF IInv, TypeOK, MakeStaging, OpenItem, WriteItem, Restart
  <2>5. UNCHANGED <<builds, damages, hits, overlapped>>
    BY <1>7 DEF MakeStaging, OpenItem, WriteItem, Restart
  <2>6. QED
    BY <1>1, <2>1, <2>2, <2>3, <2>4, <2>5 DEF IInv, TypeOK, DirsKept
<1>8. ASSUME NEW i \in Item, Damage(i)
      PROVE  TypeOK'
  <2>1. damages' \in 0 .. MaxDamage
    BY <1>8, CacheAssumption DEF IInv, TypeOK, Damage
  <2>2. QED
    BY <1>1, <1>8, <2>1 DEF IInv, TypeOK, DirsKept, Damage
<1>9. CASE UNCHANGED vars
  BY <1>9 DEF IInv, TypeOK, vars
<1>10. QED
  BY <1>2, <1>3, <1>4, <1>5, <1>6, <1>7, <1>8, <1>9 DEF Next, Step

\* A process enters store() with the build it has just made.
LEMMA HoldingStep ==
    ASSUME IInv, [Next]_vars
    PROVE  Holding'
<1> DEFINE Keeps == StorePc \cup {"check"}
<1>1. ASSUME NEW p \in Proc, RunStage(p)
      PROVE  Holding'
  <2>1. builds + 1 \in Build
    BY <1>1, CacheAssumption DEF IInv, TypeOK, RunStage, Build
  <2>2. QED
    BY <1>1, <2>1 DEF IInv, TypeOK, Holding, RunStage, Goto
<1>2. ASSUME NEW p \in Proc,
             ReadIndex(p) \/ VerifyItem(p) \/ AdoptItem(p) \/ Restart(p)
      PROVE  Holding'
  <2>1. pc'[p] \notin Keeps /\ \A q \in Proc : q # p => pc'[q] = pc[q] /\ mine'[q] = mine[q]
    BY <1>2 DEF IInv, TypeOK, ReadIndex, VerifyItem, AdoptItem, Restart, Advance, At, Goto, StorePc
  <2>2. QED
    BY <2>1 DEF IInv, Holding
<1>3. ASSUME NEW p \in Proc,
             CheckEntry(p) \/ ClearStaging(p) \/ MakeStaging(p) \/ OpenItem(p) \/ WriteItem(p)
                 \/ WriteIndex(p) \/ Rename(p)
      PROVE  Holding'
  <2>1. mine' = mine /\ pc[p] \in Keeps /\ \A q \in Proc : q # p => pc'[q] = pc[q]
    BY <1>3 DEF CheckEntry, ClearStaging, MakeStaging, OpenItem, WriteItem, WriteIndex, Rename,
       IInv, TypeOK, Goto, At, StorePc
  <2>2. QED
    BY <2>1 DEF IInv, Holding
<1>4. ASSUME NEW i \in Item, Damage(i)
      PROVE  Holding'
  BY <1>4 DEF IInv, Holding, Damage
<1>5. CASE UNCHANGED vars
  BY <1>5 DEF IInv, Holding, vars
<1>6. QED
  BY <1>1, <1>2, <1>3, <1>4, <1>5 DEF Next, Step

\* What one process verified is not taken away by another.
LEMMA StillThereStep ==
    ASSUME IInv, [Next]_vars
    PROVE  StillThere'
<1>1. DirsKept
  BY DirsStep
<1>2. \A name : Has(entry, name) => Has(entry', name)
  BY <1>1 DEF DirsKept, Grows, Has
<1>3. ASSUME NEW q \in Proc, pc'[q] = pc[q], index'[q] = index[q], item'[q] = item[q]
      PROVE  /\ pc'[q] = "verify" => /\ Has(entry', IndexFile) /\ index'[q] = entry'[IndexFile]
                                     /\ \A i \in Item : i < item'[q] => Has(entry', i)
             /\ pc'[q] = "adopt" => \A i \in Item : Has(entry', i)
  BY <1>1, <1>2, <1>3 DEF IInv, StillThere, DirsKept, Grows
<1>4. ASSUME NEW p \in Proc, Step(p) \/ Restart(p),
             /\ pc'[p] = "verify" => /\ Has(entry', IndexFile) /\ index'[p] = entry'[IndexFile]
                                     /\ \A i \in Item : i < item'[p] => Has(entry', i)
             /\ pc'[p] = "adopt" => \A i \in Item : Has(entry', i)
      PROVE  StillThere'
  <2>1. \A q \in Proc : q # p => pc'[q] = pc[q] /\ index'[q] = index[q] /\ item'[q] = item[q]
    BY <1>4 DEF Step, ReadIndex, VerifyItem, AdoptItem, RunStage, CheckEntry, ClearStaging,
       MakeStaging, OpenItem, WriteItem, WriteIndex, Rename, Restart, Advance, At, Goto, IInv, TypeOK
  <2>2. QED
    BY <1>3, <1>4, <2>1 DEF StillThere
<1>5. ASSUME NEW p \in Proc, ReadIndex(p)
      PROVE  StillThere'
  <2>1. pc'[p] # "adopt" /\ item'[p] = 1 /\ entry' = entry
    BY <1>5 DEF IInv, TypeOK, ReadIndex, At, Goto
  <2>2. pc'[p] = "verify" => Has(entry, IndexFile) /\ index'[p] = entry[IndexFile]
    BY <1>5 DEF IInv, TypeOK, ReadIndex, Goto
  <2>3. \A i \in Item : ~ (i < 1)
    BY CacheAssumption DEF Item
  <2>4. QED
    BY <1>4, <1>5, <2>1, <2>2, <2>3 DEF Step
<1>6. ASSUME NEW p \in Proc, VerifyItem(p)
      PROVE  StillThere'
  <2>1. /\ Has(entry, IndexFile) /\ index[p] = entry[IndexFile] /\ item[p] \in Item
        /\ \A i \in Item : i < item[p] => Has(entry, i)
        /\ entry' = entry /\ index' = index
    BY <1>6 DEF IInv, TypeOK, StillThere, VerifyItem
  <2>2. CASE pc'[p] = "run"
    BY <1>4, <1>6, <2>2 DEF Step
  <2>3. CASE Has(entry, item[p]) /\ Advance(p, "adopt")
    <3>1. CASE item[p] < NumItems
      <4>1. pc'[p] = "verify" /\ item'[p] = item[p] + 1
        BY <1>6, <2>3, <3>1 DEF IInv, TypeOK, VerifyItem, Advance, At
      <4>2. \A i \in Item : i < item[p] + 1 => i < item[p] \/ i = item[p]
        BY <2>1, CacheAssumption DEF Item
      <4>3. QED
        BY <1>4, <1>6, <2>1, <2>3, <4>1, <4>2 DEF Step
    <3>2. CASE ~ (item[p] < NumItems)
      <4>1. pc'[p] = "adopt"
        BY <2>3, <3>2 DEF IInv, TypeOK, Advance, Goto
      <4>2. \A i \in Item : i < item[p] \/ i = item[p]
        BY <2>1, <3>2, CacheAssumption DEF Item
      <4>3. QED
        BY <1>4, <1>6, <2>1, <2>3, <4>1, <4>2 DEF Step
    <3>3. QED
      BY <3>1, <3>2
  <2>4. QED
    BY <1>6, <2>2, <2>3 DEF VerifyItem, IInv, TypeOK, Goto
<1>7. ASSUME NEW p \in Proc, AdoptItem(p)
      PROVE  StillThere'
  <2>1. entry' = entry /\ pc'[p] # "verify" /\ \A i \in Item : Has(entry, i)
    BY <1>7 DEF IInv, TypeOK, StillThere, AdoptItem, Advance, Goto
  <2>2. QED
    BY <1>4, <1>7, <2>1 DEF Step
<1>8. ASSUME NEW p \in Proc,
             RunStage(p) \/ CheckEntry(p) \/ ClearStaging(p) \/ MakeStaging(p) \/ OpenItem(p)
                 \/ WriteItem(p) \/ WriteIndex(p) \/ Rename(p) \/ Restart(p)
      PROVE  StillThere'
  <2>1. pc'[p] \notin {"verify", "adopt"}
    BY <1>8 DEF RunStage, CheckEntry, ClearStaging, MakeStaging, OpenItem, WriteItem, WriteIndex,
       Rename, Restart, Goto, IInv, TypeOK
  <2>2. QED
    BY <1>4, <1>8, <2>1 DEF Step
<1>9. ASSUME UNCHANGED <<pc, index, item>>
      PROVE  StillThere'
  BY <1>3, <1>9 DEF StillThere
<1>10. QED
  BY <1>5, <1>6, <1>7, <1>8, <1>9 DEF Next, Step, Damage, vars

-----------------------------------------------------------------------------

LEMMA Invariant == Spec => []IInv
<1>1. Init => IInv
  <2>1. SUFFICES ASSUME Init
                 PROVE  IInv
    OBVIOUS
  <2>2. 1 \in Item /\ 0 \in 0 .. MaxBuilds /\ 0 \in 0 .. MaxDamage
    BY CacheAssumption DEF Item
  <2>3. TypeOK
    BY <2>1, <2>2 DEF Init, TypeOK, Pc
  <2>4. OpenSomewhere /\ Holding /\ StillThere
    BY <2>1 DEF Init, OpenSomewhere, Holding, StillThere, StorePc
  <2>5. IndexIsBuild(entry) /\ IndexIsBuild(staging)
    BY <2>1 DEF Init, IndexIsBuild, Has
  <2>6. QED
    BY <2>3, <2>4, <2>5 DEF IInv
<1>2. IInv /\ [Next]_vars => IInv'
  BY DirsStep, TypeStep, HoldingStep, StillThereStep DEF IInv, DirsKept
<1>3. QED
  BY <1>1, <1>2, PTL DEF Spec

\* The state of the cache and of the processes that use it has its type.
THEOREM TypeCorrect == Spec => []TypeOK
<1>1. IInv => TypeOK
  BY DEF IInv
<1>2. QED
  BY <1>1, Invariant, PTL

\* A step of the cache is a step of CacheEntry, or leaves it as it is.
LEMMA StepRefines ==
    ASSUME IInv, IInv', [Next]_vars
    PROVE  [Abstract!Next]_<<PublishedBuild, hits>>
<1>1. DirsKept
  BY DirsStep
<1>2. Torn \notin Build
  BY CacheAssumption DEF Torn, Build
<1>3. CASE hits' = hits
  <2>1. CASE Has(entry, IndexFile)
    BY <1>1, <1>3, <2>1 DEF PublishedBuild, DirsKept, Grows, Has
  <2>2. CASE ~ Has(entry, IndexFile)
    <3>1. PublishedBuild = Torn /\ (PublishedBuild' = Torn \/ PublishedBuild' \in Build)
      BY <2>2 DEF PublishedBuild, IInv, IndexIsBuild
    <3>2. QED
      BY <1>3, <3>1 DEF Abstract!Next, Abstract!Publish
  <2>3. QED
    BY <2>1, <2>2
<1>4. CASE hits' # hits
  <2>1. PICK p \in Proc : VerifyItem(p)
    BY <1>4 DEF Next, Step, ReadIndex, AdoptItem, RunStage, CheckEntry, ClearStaging,
       MakeStaging, OpenItem, WriteItem, WriteIndex, Rename, Restart, Damage, vars
  <2>2. entry' = entry /\ hits' = hits \cup {index[p]} /\ Has(entry, IndexFile)
        /\ index[p] = entry[IndexFile]
    BY <1>4, <2>1 DEF IInv, StillThere, VerifyItem
  <2>3. PublishedBuild' = PublishedBuild /\ PublishedBuild = index[p] /\ PublishedBuild \in Build
    BY <2>2 DEF PublishedBuild, IInv, IndexIsBuild
  <2>4. QED
    BY <1>2, <2>2, <2>3 DEF Abstract!Next, Abstract!Hit
<1>5. QED
  BY <1>3, <1>4

\* However processes interleave, stop and are damaged, a key stands for the first build
\* that was published under it and no other is handed out (store.py:213-234).
THEOREM FirstWriterWinsCorrect == Spec => FirstWriterWins
<1>1. Init => Abstract!Init
  BY DEF Init, Abstract!Init, PublishedBuild, Has
<1>2. IInv /\ IInv' /\ [Next]_vars => [Abstract!Next]_<<PublishedBuild, hits>>
  BY StepRefines
<1>3. QED
  BY <1>1, <1>2, Invariant, PTL DEF Spec, FirstWriterWins, Abstract!Spec

-----------------------------------------------------------------------------
(* One writer at a time *)

\* A file is open only while its data is written.
OpenWhileWriting == \A p \in Proc : fd[p] # "closed" => pc[p] = "write"

OneWriter == \A p, q \in Storing : p = q

\* The artifacts below i are in staging, as p built them.
Copied(p, i) ==
    staging # NoDir /\ \A j \in Item : j < i => Has(staging, j) /\ staging[j] = mine[p]

\* How far the writer is, seen in staging.
Staged(p) ==
    /\ pc[p] = "mkdir" => staging = NoDir
    /\ pc[p] \in {"open", "write"} => Copied(p, item[p])
    /\ pc[p] = "write" => fd[p] = "staging" /\ Has(staging, item[p])
    /\ pc[p] = "index" => Copied(p, NumItems + 1)
    /\ pc[p] = "rename" => Loads(staging)
    /\ pc[p] # "failed"

\* Whoever is adopting copied the artifacts it is past, of the build it verified.
Adopted(p) ==
    /\ pc[p] = "adopt" => /\ Has(entry, IndexFile) /\ index[p] = entry[IndexFile]
                          /\ got[p] = {<<i, index[p]>> : i \in 1 .. (item[p] - 1)}
    /\ pc[p] = "done" => \/ got[p] = {}
                         \/ \E b \in Build : got[p] = {<<i, b>> : i \in Item}
    /\ pc[p] \notin {"adopt", "done"} => got[p] = {}

Alone ==
    ~ overlapped =>
        /\ OneWriter
        /\ \A p \in Proc : Staged(p)
        /\ damages = 0 => /\ entry # NoDir => Loads(entry)
                          /\ \A p \in Proc : Adopted(p)

SoloInv == IInv /\ OpenWhileWriting /\ Alone

-----------------------------------------------------------------------------

\* A process changes no other process, but where the files lie that others have open.
LEMMA OthersKept ==
    ASSUME TypeOK, NEW p \in Proc, Step(p) \/ Restart(p), NEW q \in Proc, q # p
    PROVE  /\ pc'[q] = pc[q] /\ item'[q] = item[q] /\ mine'[q] = mine[q]
           /\ index'[q] = index[q] /\ got'[q] = got[q]
           /\ fd'[q] # "closed" => fd[q] # "closed"
<1>1. /\ pc'[q] = pc[q] /\ item'[q] = item[q] /\ mine'[q] = mine[q]
      /\ index'[q] = index[q] /\ got'[q] = got[q]
  BY DEF TypeOK, Step, ReadIndex, VerifyItem, AdoptItem, RunStage, CheckEntry, ClearStaging,
     MakeStaging, OpenItem, WriteItem, WriteIndex, Rename, Restart, Advance, At, Goto
<1>2. fd'[q] # "closed" => fd[q] # "closed"
  BY DEF TypeOK, Step, ReadIndex, VerifyItem, AdoptItem, RunStage, CheckEntry, ClearStaging,
     MakeStaging, OpenItem, WriteItem, WriteIndex, Rename, Restart, MoveFds
<1>3. QED
  BY <1>1, <1>2

LEMMA OpenWhileWritingStep ==
    ASSUME SoloInv, [Next]_vars
    PROVE  OpenWhileWriting'
<1>1. TypeOK
  BY DEF SoloInv, IInv
<1>2. ASSUME NEW p \in Proc, Step(p) \/ Restart(p), fd'[p] # "closed" => pc'[p] = "write"
      PROVE  OpenWhileWriting'
  BY <1>1, <1>2, OthersKept DEF SoloInv, OpenWhileWriting
<1>3. ASSUME NEW p \in Proc, Step(p) \/ Restart(p)
      PROVE  fd'[p] # "closed" => pc'[p] = "write"
  <2>1. CASE \/ ReadIndex(p) \/ VerifyItem(p) \/ AdoptItem(p) \/ RunStage(p) \/ CheckEntry(p)
             \/ MakeStaging(p) \/ WriteIndex(p)
    BY <1>1, <2>1 DEF SoloInv, OpenWhileWriting, ReadIndex, VerifyItem, AdoptItem, RunStage,
       CheckEntry, MakeStaging, WriteIndex
  <2>2. CASE ClearStaging(p) \/ Rename(p)
    BY <1>1, <2>2 DEF TypeOK, SoloInv, OpenWhileWriting, ClearStaging, Rename, MoveFds
  <2>3. CASE OpenItem(p) \/ WriteItem(p) \/ Restart(p)
    BY <1>1, <2>3 DEF TypeOK, SoloInv, OpenWhileWriting, OpenItem, WriteItem, Restart, Goto
  <2>4. QED
    BY <1>3, <2>1, <2>2, <2>3 DEF Step
<1>4. QED
  BY <1>2, <1>3 DEF Next, Damage, vars, SoloInv, OpenWhileWriting

\* Only an empty store() lets a writer in unnoticed.
LEMMA OneWriterStep ==
    ASSUME SoloInv, [Next]_vars, ~ overlapped'
    PROVE  ~ overlapped /\ OneWriter'
<1>1. TypeOK
  BY DEF SoloInv, IInv
<1>2. ~ overlapped
  BY <1>1 DEF TypeOK, Next, Step, ReadIndex, VerifyItem, AdoptItem, RunStage, CheckEntry, ClearStaging,
     MakeStaging, OpenItem, WriteItem, WriteIndex, Rename, Restart, Damage, vars
<1>3. OneWriter
  BY <1>2 DEF SoloInv, Alone
<1>4. ASSUME NEW p \in Proc, CheckEntry(p)
      PROVE  OneWriter'
  <2>1. CASE Storing = {}
    BY <1>1, <1>4, <2>1, OthersKept DEF Step, Storing, OneWriter
  <2>2. CASE Has(entry, IndexFile)
    BY <1>1, <1>3, <1>4, <2>2, OthersKept
    DEF TypeOK, Step, CheckEntry, Goto, Storing, OneWriter, StorePc
  <2>3. QED
    BY <1>4, <2>1, <2>2 DEF CheckEntry
<1>5. ASSUME NEW p \in Proc, Step(p) \/ Restart(p), ~ CheckEntry(p)
      PROVE  pc'[p] \in StorePc => pc[p] \in StorePc
  BY <1>1, <1>5 DEF TypeOK, Step, ReadIndex, VerifyItem, AdoptItem, RunStage, ClearStaging,
     MakeStaging, OpenItem, WriteItem, WriteIndex, Rename, Restart, Advance, At, Goto, StorePc
<1>6. ASSUME NEW p \in Proc, Step(p) \/ Restart(p), ~ CheckEntry(p)
      PROVE  OneWriter'
  BY <1>1, <1>3, <1>5, <1>6, OthersKept DEF Storing, OneWriter
<1>7. ASSUME UNCHANGED pc
      PROVE  OneWriter'
  BY <1>3, <1>7 DEF Storing, OneWriter
<1>8. QED
  BY <1>2, <1>4, <1>6, <1>7 DEF Next, Damage, vars

\* Writing artifact i leaves those below it.
LEMMA CopiedOneMore ==
    ASSUME IInv, NEW p \in Proc, NEW i \in Item, staging # NoDir, Copied(p, i), mine' = mine,
           NEW content \in 0 .. MaxBuilds, staging' = Put(staging, i, content)
    PROVE  /\ staging' # NoDir
           /\ \A j \in Item : j < i => Has(staging', j) /\ staging'[j] = mine[p]
           /\ Has(staging', i) /\ staging'[i] = content
<1>1. staging \in Dir /\ i \in Names
  BY DEF IInv, TypeOK, Names
<1>2. /\ staging' # NoDir /\ DOMAIN staging' = DOMAIN staging \cup {i}
      /\ staging'[i] = content
      /\ \A n \in DOMAIN staging : n # i => staging'[n] = staging[n]
  <2> DEFINE put == Put(staging, i, content)
  <2>1. /\ put # NoDir /\ DOMAIN put = DOMAIN staging \cup {i}
        /\ put[i] = content
        /\ \A n \in DOMAIN staging : n # i => put[n] = staging[n]
    BY <1>1, PutFacts, Zenon
  <2>2. staging' = put
    OBVIOUS
  <2> HIDE DEF put
  <2>3. QED
    BY <2>1, <2>2
<1>3. ASSUME NEW j \in Item, j < i
      PROVE  Has(staging', j) /\ staging'[j] = mine[p]
  <2>1. j # i
    BY <1>1, <1>3, CacheAssumption DEF Item
  <2>2. Has(staging, j) /\ staging[j] = mine[p]
    BY <1>3 DEF Copied
  <2>3. QED
    BY <1>2, <2>1, <2>2 DEF Has
<1>4. QED
  BY <1>2, <1>3 DEF Has

\* Each step of the only writer leaves staging as far as the writer is.
LEMMA WriterStaged ==
    ASSUME SoloInv, NEW p \in Proc, Staged(p),
           \/ ClearStaging(p) \/ MakeStaging(p) \/ OpenItem(p) \/ WriteItem(p) \/ WriteIndex(p)
           \/ Rename(p)
    PROVE  Staged(p)'
<1>1. IInv /\ TypeOK /\ item[p] \in Item /\ mine[p] \in Build /\ mine[p] \in 0 .. MaxBuilds
  BY DEF SoloInv, IInv, TypeOK, Holding, StorePc, ClearStaging, MakeStaging, OpenItem,
     WriteItem, WriteIndex, Rename
<1>2. CASE ClearStaging(p)
  BY <1>1, <1>2 DEF TypeOK, ClearStaging, Goto, Staged
<1>3. CASE MakeStaging(p)
  <2>1. staging = NoDir /\ staging' = EmptyDir /\ pc'[p] = "open" /\ item'[p] = 1
    BY <1>1, <1>3 DEF TypeOK, MakeStaging, Goto, At, Staged
  <2>2. \A j \in Item : ~ (j < 1)
    BY CacheAssumption DEF Item
  <2>3. QED
    BY <2>1, <2>2, EmptyIsDir DEF Staged, Copied
<1>4. CASE OpenItem(p)
  <2>1. /\ Copied(p, item[p]) /\ staging # NoDir /\ staging' = Put(staging, item[p], Torn)
        /\ pc'[p] = "write" /\ fd'[p] = "staging" /\ item' = item /\ mine' = mine
    BY <1>1, <1>4 DEF TypeOK, OpenItem, Goto, Staged, Copied
  <2>2. Torn \in 0 .. MaxBuilds
    BY CacheAssumption DEF Torn
  <2>3. /\ staging' # NoDir /\ Has(staging', item[p])
        /\ \A j \in Item : j < item[p] => Has(staging', j) /\ staging'[j] = mine[p]
    BY <1>1, <2>1, <2>2, CopiedOneMore
  <2>4. QED
    BY <2>1, <2>3 DEF Staged, Copied
<1>5. CASE WriteItem(p)
  <2>1. /\ Copied(p, item[p]) /\ staging # NoDir /\ staging' = Put(staging, item[p], mine[p])
        /\ Has(staging, item[p]) /\ mine' = mine
    BY <1>1, <1>5 DEF TypeOK, WriteItem, Staged, Copied
  <2>2. /\ staging' # NoDir /\ Has(staging', item[p]) /\ staging'[item[p]] = mine[p]
        /\ \A j \in Item : j < item[p] => Has(staging', j) /\ staging'[j] = mine[p]
    BY <1>1, <2>1, CopiedOneMore
  <2>3. \A j \in Item : j < item[p] + 1 => Has(staging', j) /\ staging'[j] = mine[p]
    <3>1. \A j \in Item : j < item[p] + 1 => j < item[p] \/ j = item[p]
      BY <1>1, CacheAssumption DEF Item
    <3>2. QED
      BY <2>2, <3>1
  <2>4. CASE item[p] < NumItems
    <3>1. pc'[p] = "open" /\ item'[p] = item[p] + 1
      BY <1>1, <1>5, <2>1, <2>4 DEF TypeOK, WriteItem, Goto, At
    <3>2. QED
      BY <2>1, <2>2, <2>3, <3>1 DEF Staged, Copied
  <2>5. CASE ~ (item[p] < NumItems)
    <3>1. pc'[p] = "index" /\ item[p] = NumItems
      BY <1>1, <1>5, <2>1, <2>5, CacheAssumption DEF TypeOK, WriteItem, Goto, Item
    <3>2. QED
      BY <2>1, <2>2, <2>3, <3>1 DEF Staged, Copied
  <2>6. QED
    BY <2>4, <2>5
<1>6. CASE WriteIndex(p)
  <2>1. /\ pc'[p] = "rename" /\ staging # NoDir /\ staging \in Dir
        /\ staging' = Put(staging, IndexFile, mine[p])
        /\ \A j \in Item : Has(staging, j) /\ staging[j] = mine[p]
    <3>1. Copied(p, NumItems + 1)
      BY <1>6 DEF WriteIndex, Staged
    <3>2. \A j \in Item : j < NumItems + 1
      BY CacheAssumption DEF Item
    <3>3. QED
      BY <1>1, <1>6, <3>1, <3>2 DEF TypeOK, WriteIndex, Goto, Copied
  <2>2. IndexFile \in Names /\ IndexFile \notin Item
    BY CacheAssumption DEF Names, IndexFile, Item
  <2>3. /\ staging' # NoDir /\ DOMAIN staging' = DOMAIN staging \cup {IndexFile}
        /\ staging'[IndexFile] = mine[p]
        /\ \A n \in DOMAIN staging : n # IndexFile => staging'[n] = staging[n]
    <3> DEFINE put == Put(staging, IndexFile, mine[p])
    <3>1. /\ put # NoDir /\ DOMAIN put = DOMAIN staging \cup {IndexFile}
          /\ put[IndexFile] = mine[p]
          /\ \A n \in DOMAIN staging : n # IndexFile => put[n] = staging[n]
      BY <1>1, <2>1, <2>2, PutFacts, Zenon
    <3>2. staging' = put
      BY <2>1
    <3> HIDE DEF put
    <3>3. QED
      BY <3>1, <3>2
  <2>4. Loads(staging')
    BY <2>1, <2>2, <2>3 DEF Loads, Has
  <2>5. QED
    BY <2>1, <2>4 DEF Staged, Loads
<1>7. CASE Rename(p)
  BY <1>1, <1>7 DEF TypeOK, Rename, Goto, Staged
<1>8. QED
  BY <1>2, <1>3, <1>4, <1>5, <1>6, <1>7

LEMMA StagedStep ==
    ASSUME SoloInv, [Next]_vars, ~ overlapped'
    PROVE  \A q \in Proc : Staged(q)'
<1>1. TypeOK /\ OneWriter /\ \A q \in Proc : Staged(q)
  BY OneWriterStep DEF SoloInv, IInv, Alone
<1>2. ASSUME NEW p \in Proc,
             \/ ReadIndex(p) \/ VerifyItem(p) \/ AdoptItem(p) \/ RunStage(p) \/ CheckEntry(p)
             \/ Restart(p),
             NEW q \in Proc
      PROVE  Staged(q)'
  <2>1. staging' = staging
    BY <1>2 DEF ReadIndex, VerifyItem, AdoptItem, RunStage, CheckEntry, Restart
  <2>2. CASE q = p
    <3>1. pc'[p] \in {"start", "verify", "adopt", "run", "check", "done", "clear"}
      BY <1>1, <1>2 DEF TypeOK, ReadIndex, VerifyItem, AdoptItem, RunStage, CheckEntry, Restart,
         Advance, At, Goto
    <3>2. QED
      BY <2>2, <3>1 DEF Staged
  <2>3. CASE q # p
    <3>1. pc'[q] = pc[q] /\ item'[q] = item[q] /\ mine'[q] = mine[q]
      BY <1>1, <1>2, <2>3, OthersKept DEF Step
    <3>2. fd'[q] = fd[q]
      BY <1>1, <1>2, <2>3 DEF TypeOK, ReadIndex, VerifyItem, AdoptItem, RunStage, CheckEntry, Restart
    <3>3. QED
      BY <1>1, <2>1, <3>1, <3>2 DEF Staged, Copied, Loads
  <2>4. QED
    BY <2>2, <2>3
<1>3. ASSUME NEW p \in Proc,
             \/ ClearStaging(p) \/ MakeStaging(p) \/ OpenItem(p) \/ WriteItem(p) \/ WriteIndex(p)
             \/ Rename(p),
             NEW q \in Proc
      PROVE  Staged(q)'
  <2>1. CASE q = p
    BY <1>1, <1>3, <2>1, WriterStaged
  <2>2. CASE q # p
    <3>1. pc'[q] = pc[q]
      BY <1>1, <1>3, <2>2, OthersKept DEF Step
    <3>2. p \in Storing
      BY <1>3 DEF Storing, StorePc, ClearStaging, MakeStaging, OpenItem, WriteItem, WriteIndex, Rename
    <3>3. pc[q] \notin StorePc /\ pc[q] # "failed"
      BY <1>1, <2>2, <3>2 DEF OneWriter, Storing, Staged
    <3>4. QED
      BY <3>1, <3>3 DEF Staged, StorePc
  <2>3. QED
    BY <2>1, <2>2
<1>4. ASSUME UNCHANGED <<staging, pc, item, mine, fd>>, NEW q \in Proc
      PROVE  Staged(q)'
  BY <1>1, <1>4 DEF Staged, Copied, Loads
<1>5. QED
  BY <1>2, <1>3, <1>4 DEF Next, Step, Damage, vars

\* Only the rename of a whole staging directory makes the entry what it is.
LEMMA EntryStep ==
    ASSUME SoloInv, [Next]_vars, ~ overlapped', damages' = 0, entry' # NoDir
    PROVE  Loads(entry')
<1>1. /\ TypeOK /\ ~ overlapped /\ \A q \in Proc : Staged(q)
      /\ damages = 0 /\ entry # NoDir => Loads(entry)
  BY OneWriterStep DEF SoloInv, IInv, Alone
<1>2. damages = 0 /\ ~ \E i \in Item : Damage(i)
  BY <1>1 DEF TypeOK, Next, Step, ReadIndex, VerifyItem, AdoptItem, RunStage, CheckEntry, ClearStaging,
     MakeStaging, OpenItem, WriteItem, WriteIndex, Rename, Restart, Damage, vars
<1>3. CASE entry' = entry
  BY <1>1, <1>2, <1>3
<1>4. CASE entry' # entry
  <2>1. PICK p \in Proc : WriteItem(p) \/ Rename(p)
    BY <1>2, <1>4 DEF Next, Step, ReadIndex, VerifyItem, AdoptItem, RunStage, CheckEntry,
       ClearStaging, MakeStaging, OpenItem, WriteIndex, Restart, vars
  <2>2. ~ WriteItem(p)
    BY <1>1, <1>4 DEF WriteItem, Staged
  <2>3. entry' = staging /\ Loads(staging)
    BY <1>1, <1>4, <2>1, <2>2 DEF Rename, Staged
  <2>4. QED
    BY <2>3
<1>5. QED
  BY <1>3, <1>4

LEMMA AdoptedStep ==
    ASSUME SoloInv, [Next]_vars, ~ overlapped', damages' = 0
    PROVE  \A q \in Proc : Adopted(q)'
<1>1. /\ IInv /\ TypeOK /\ ~ overlapped
      /\ damages = 0 => /\ \A q \in Proc : Adopted(q)
                        /\ entry # NoDir => Loads(entry)
  BY OneWriterStep DEF SoloInv, IInv, Alone
<1>2. damages = 0
  BY <1>1 DEF TypeOK, Next, Step, ReadIndex, VerifyItem, AdoptItem, RunStage, CheckEntry, ClearStaging,
     MakeStaging, OpenItem, WriteItem, WriteIndex, Rename, Restart, Damage, vars
<1>3. DirsKept
  BY <1>1, DirsStep
<1>4. Has(entry, IndexFile) => Has(entry', IndexFile) /\ entry'[IndexFile] = entry[IndexFile]
  BY <1>3 DEF DirsKept, Grows, Has
<1>5. ASSUME NEW q \in Proc, pc'[q] = pc[q], item'[q] = item[q], index'[q] = index[q], got'[q] = got[q]
      PROVE  Adopted(q)'
  BY <1>1, <1>2, <1>4, <1>5 DEF Adopted
<1>6. ASSUME NEW p \in Proc, Step(p) \/ Restart(p), Adopted(p)'
      PROVE  \A q \in Proc : Adopted(q)'
  BY <1>1, <1>5, <1>6, OthersKept
<1>7. ASSUME NEW p \in Proc, VerifyItem(p)
      PROVE  Adopted(p)'
  <2>1. /\ got'[p] = got[p] /\ got[p] = {} /\ index'[p] = index[p] /\ entry' = entry
        /\ pc[p] = "verify" /\ Has(entry, IndexFile) /\ index[p] = entry[IndexFile]
    BY <1>1, <1>2, <1>7 DEF VerifyItem, Adopted, IInv, StillThere
  <2>2. pc'[p] \in {"verify", "run"} \/ (pc'[p] = "adopt" /\ item'[p] = 1)
    BY <1>1, <1>7 DEF TypeOK, VerifyItem, Advance, At, Goto
  <2>3. {<<i, index[p]>> : i \in 1 .. (1 - 1)} = {}
    OBVIOUS
  <2>4. QED
    BY <2>1, <2>2, <2>3 DEF Adopted
<1>8. ASSUME NEW p \in Proc, AdoptItem(p)
      PROVE  Adopted(p)'
  <2>1. /\ Has(entry, IndexFile) /\ index[p] = entry[IndexFile] /\ index[p] \in Build
        /\ got[p] = {<<i, index[p]>> : i \in 1 .. (item[p] - 1)}
        /\ item[p] \in Item /\ index'[p] = index[p] /\ entry' = entry
    BY <1>1, <1>2, <1>8 DEF TypeOK, AdoptItem, Adopted, IInv, IndexIsBuild
  <2>2. entry[item[p]] = index[p]
    BY <1>1, <1>2, <2>1 DEF Loads, Has
  <2>3. got'[p] = got[p] \cup {<<item[p], index[p]>>}
    BY <1>1, <1>8, <2>2 DEF TypeOK, AdoptItem
  <2>4. 1 .. item[p] = (1 .. (item[p] - 1)) \cup {item[p]}
    BY <2>1, CacheAssumption DEF Item
  <2>5. got'[p] = {<<i, index[p]>> : i \in 1 .. item[p]}
    BY <2>1, <2>3, <2>4, Zenon
  <2>6. CASE item[p] < NumItems
    <3>1. pc'[p] = "adopt" /\ item'[p] = item[p] + 1
      BY <1>1, <1>8, <2>6 DEF TypeOK, AdoptItem, Advance, At
    <3>2. item'[p] - 1 = item[p]
      BY <2>1, <3>1, CacheAssumption DEF Item
    <3>3. QED
      BY <2>1, <2>5, <3>1, <3>2 DEF Adopted
  <2>7. CASE ~ (item[p] < NumItems)
    <3>1. pc'[p] = "done"
      BY <1>1, <1>8, <2>7 DEF TypeOK, AdoptItem, Advance, Goto
    <3>2. 1 .. item[p] = Item
      BY <2>1, <2>7, CacheAssumption DEF Item
    <3>3. got'[p] = {<<i, index[p]>> : i \in Item}
      BY <2>5, <3>2
    <3>4. QED
      BY <2>1, <3>1, <3>3 DEF Adopted
  <2>8. QED
    BY <2>6, <2>7
<1>9. ASSUME NEW p \in Proc,
             \/ ReadIndex(p) \/ RunStage(p) \/ CheckEntry(p) \/ ClearStaging(p) \/ MakeStaging(p)
             \/ OpenItem(p) \/ WriteItem(p) \/ WriteIndex(p) \/ Rename(p) \/ Restart(p)
      PROVE  Adopted(p)'
  <2>1. pc'[p] # "adopt"
    BY <1>1, <1>9 DEF TypeOK, ReadIndex, RunStage, CheckEntry, ClearStaging, MakeStaging, OpenItem,
       WriteItem, WriteIndex, Rename, Restart, Goto
  <2>2. got'[p] = {}
    BY <1>1, <1>2, <1>9 DEF TypeOK, Adopted, ReadIndex, RunStage, CheckEntry, ClearStaging,
       MakeStaging, OpenItem, WriteItem, WriteIndex, Rename, Restart
  <2>3. QED
    BY <2>1, <2>2 DEF Adopted
<1>10. ASSUME UNCHANGED <<pc, item, index, got>>
       PROVE  \A q \in Proc : Adopted(q)'
  BY <1>5, <1>10
<1>11. QED
  BY <1>6, <1>7, <1>8, <1>9, <1>10 DEF Next, Step, Damage, vars

LEMMA SoloInvariant == Spec => []SoloInv
<1>1. Init => OpenWhileWriting /\ Alone
  BY DEF Init, OpenWhileWriting, Alone, OneWriter, Storing, StorePc, Staged, Adopted
<1>2. SoloInv /\ [Next]_vars => (OpenWhileWriting /\ Alone)'
  BY OpenWhileWritingStep, OneWriterStep, StagedStep, EntryStep, AdoptedStep DEF Alone, Staged, Adopted
<1>3. QED
  BY <1>1, <1>2, Invariant, PTL DEF Spec, SoloInv

\* Unless two writers meet, an entry is published whole or not at all, whatever a crash
\* left behind (store, store.py:213-234).
THEOREM PublishedEntryLoadsCorrect == Spec => []PublishedEntryLoads
<1>1. SoloInv => PublishedEntryLoads
  BY DEF SoloInv, Alone, PublishedEntryLoads
<1>2. QED
  BY <1>1, SoloInvariant, PTL

\* A writer that is alone in store() never makes its stage fail (store.py:218-220).
THEOREM StoreNeverFailsCorrect == Spec => []StoreNeverFails
<1>1. SoloInv => StoreNeverFails
  BY DEF SoloInv, Alone, Staged, StoreNeverFails
<1>2. QED
  BY <1>1, SoloInvariant, PTL

\* Unless two writers meet, what a process adopts is every artifact of one build
\* (store.py:251-254, 271-275).
THEOREM HitIsOneBuildCorrect == Spec => []HitIsOneBuild
<1>1. SoloInv => HitIsOneBuild
  BY DEF SoloInv, Alone, Adopted, HitIsOneBuild
<1>2. QED
  BY <1>1, SoloInvariant, PTL

=============================================================================
