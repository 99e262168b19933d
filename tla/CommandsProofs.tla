------------------------------- MODULE CommandsProofs -------------------------------
(***************************************************************************)
(* Theorems about Commands, for any processes, graphs, data sets, kills    *)
(* and things the user does.                                               *)
(***************************************************************************)
EXTENDS Commands, TLAPS

\* What a process that builds or packages holds belongs to the plan that is there,
\* and what it has staged belongs together.
Fits(s, plan) ==
  /\ s.cmd = "build" /\ s.step \in {"describing", "filling"} => plan = s.held
  /\ s.cmd = "package" /\ s.step = "begun" => plan = s.held
  /\ s.cmd = "package" /\ s.step = "staged" => s.held.plan = s.held.config

\* So does the description, if there is one that can be read ...
Paired ==
  /\ info \notin {None, Torn} => files["plan"] = info
  /\ \A p \in Process : Fits(proc[p], files["plan"])

\* ... until the user removes a plan that something describes or relies on.
DescribesPlan == ~ parted => Paired

\* Temporary files belong to commands that are about to publish them.
TempsAreWritten ==
  events = 0 => \A p \in temps : proc[p].step \in {"written", "staged"}

\* What was read is what the metadata says it was.
Honest(meta) ==
  [data |-> meta.hash.data, graph |-> meta.hash.graph] = meta.for /\ meta.hash.run >= 0

\* A calibration that is about to read has prepared for what is there to be read.
Prepared(s, d, graph) ==
  s.cmd = "calibrate" /\ s.step = "begun" => s.held.need = [data |-> d, graph |-> graph]

\* What a calibration has read or adopted is honest, intact and what it needs.
Truthful(s) ==
  /\ s.step \in {"adopting", "mkdir", "cache", "metadata"} => Honest(s.held.meta)
  /\ s.step \in {"mkdir", "cache", "metadata"} =>
       s.held.bytes = s.held.meta.hash /\ s.held.meta.for = s.held.need

\* All of this is so unless something changed under a calibration.
CachesHonest ==
  ~ disturbed =>
    /\ \A p \in Process : Prepared(proc[p], data, files["onnx"]) /\ Truthful(proc[p])
    /\ \A d \in Dirs : caches[d] # None /\ caches[d].meta # None => Honest(caches[d].meta)

IInv == TypeOK /\ DescribesPlan /\ PackagedPair /\ TempsAreWritten /\ CachesHonest

-----------------------------------------------------------------------------
(* Types *)

\* What a process holds follows from where it is.
LEMMA Where ==
  ASSUME TypeOK, NEW p \in Process
  PROVE  LET s == proc[p]
         IN /\ s = [cmd |-> s.cmd, step |-> s.step, held |-> s.held]
            /\ s = Idle \/ (s.cmd \in Cmds /\ s.step # "idle")
            /\ s.step = "begun" /\ s.cmd \in {"export", "optimize", "build"} => s.held = None
            /\ s.step = "written" => \/ s.cmd = "export" /\ s.held \in Exported
                                     \/ s.cmd = "optimize" /\ s.held \in Optimized
                                     \/ s.cmd = "build" /\ s.held \in Plans
            /\ s.step \in {"describing", "filling"} => s.cmd = "build" /\ s.held \in Plans
            /\ s.cmd = "package" => \/ s.step = "begun" /\ s.held \in Plans
                                    \/ s.step = "staged" /\ s.held \in Repository
            /\ s.cmd \in {"calibrate", "adopt"} =>
                 \/ s.step = "begun" /\ s.held \in [need : Need]
                 \/ /\ s.cmd = "adopt" /\ s.step = "adopting"
                    /\ s.held \in [need : Need, meta : Meta]
                 \/ /\ s.step \in {"mkdir", "cache", "metadata"}
                    /\ s.held \in [need : Need, bytes : Bytes, meta : Meta]
<1>1. proc[p] \in Busy \cup {Idle}
  BY DEF TypeOK
<1>2. QED
  BY <1>1, CommandsAssumption DEF Busy, Doing, Idle, Cmds

LEMMA GotoIs ==
  ASSUME TypeOK, NEW p \in Process, NEW step, NEW held, Goto(p, step, held)
  PROVE  proc' = [proc EXCEPT ![p] = [cmd |-> proc[p].cmd, step |-> step, held |-> held]]
BY DEF Goto

\* The process moves to a state of its kind.
LEMMA ProcStep ==
  ASSUME TypeOK, NEW p \in Process, NEW s \in Busy \cup {Idle}, proc' = [proc EXCEPT ![p] = s]
  PROVE  proc' \in [Process -> Busy \cup {Idle}]
BY DEF TypeOK

LEMMA EndIs ==
  ASSUME TypeOK, NEW p \in Process, End(p)
  PROVE  proc' \in [Process -> Busy \cup {Idle}]
BY DEF TypeOK, End

\* A process publishes what it holds under the name of its kind.
LEMMA OutputFacts ==
  ASSUME TypeOK, NEW p \in Process, proc[p].step = "written"
  PROVE  Output(p) \in Kinds \ {"repo"} /\ proc[p].held \in FileOf(Output(p))
<1>1. CASE proc[p].cmd = "export" /\ proc[p].held \in Exported
  BY <1>1 DEF Output, FileOf, Kinds
<1>2. CASE proc[p].cmd = "optimize" /\ proc[p].held \in Optimized
  BY <1>2 DEF Output, FileOf, Kinds
<1>3. CASE proc[p].cmd = "build" /\ proc[p].held \in Plans
  BY <1>3 DEF Output, FileOf, Kinds
<1>4. QED
  BY <1>1, <1>2, <1>3, Where

LEMMA FilesAre ==
  ASSUME TypeOK
  PROVE  /\ files["onnx"] \in Exported \cup {None}
         /\ files["plan"] \in Plans \cup {None}
         /\ files["repo"] \in Repository \cup {None}
BY DEF TypeOK, FileOf, Kinds

LEMMA TypeStep ==
  ASSUME TypeOK, [Next]_vars
  PROVE  TypeOK'
<1>1. ASSUME NEW p \in Process, Step(p)
      PROVE  TypeOK'
  <2>1. ASSUME NEW cmd \in {"export", "optimize", "build"}, Begin(p, cmd)
        PROVE  TypeOK'
    <3>1. [cmd |-> cmd, step |-> "begun", held |-> None] \in Busy
      BY DEF Busy, Doing
    <3>2. QED
      BY <2>1, <3>1, ProcStep DEF Begin, TypeOK
  <2>2. CASE WriteExport(p)
    <3>1. [cmd |-> proc[p].cmd, step |-> "written", held |-> model] \in Busy
      BY <2>2 DEF WriteExport, At, Busy, Doing, TypeOK
    <3>2. proc' \in [Process -> Busy \cup {Idle}]
      BY <2>2, <3>1, GotoIs, ProcStep DEF WriteExport
    <3>3. QED
      BY <2>2, <3>2 DEF WriteExport, TypeOK
  <2>3. CASE WriteOptimized(p)
    <3>1. <<"optimized", files["onnx"]>> \in Optimized
      BY <2>3, FilesAre DEF WriteOptimized, Optimized
    <3>2. [cmd |-> proc[p].cmd, step |-> "written", held |-> <<"optimized", files["onnx"]>>] \in Busy
      BY <2>3, <3>1 DEF WriteOptimized, At, Busy, Doing
    <3>3. proc' \in [Process -> Busy \cup {Idle}]
      BY <2>3, <3>2, GotoIs, ProcStep DEF WriteOptimized
    <3>4. QED
      BY <2>3, <3>3 DEF WriteOptimized, TypeOK
  <2>4. CASE Plan(p)
    <3>1. [id |-> builds, graph |-> files["onnx"]] \in Plans
      BY <2>4, FilesAre DEF Plan, Plans, TypeOK
    <3>2. [cmd |-> proc[p].cmd, step |-> "written",
           held |-> [id |-> builds, graph |-> files["onnx"]]] \in Busy
      BY <2>4, <3>1 DEF Plan, At, Busy, Doing
    <3>3. proc' \in [Process -> Busy \cup {Idle}]
      BY <2>4, <3>2, GotoIs, ProcStep DEF Plan
    <3>4. QED
      BY <2>4, <3>3 DEF Plan, TypeOK
  <2>5. CASE Publish(p)
    <3>1. Output(p) \in Kinds /\ proc[p].held \in FileOf(Output(p))
      BY <2>5, OutputFacts DEF Publish
    <3>2. DOMAIN files' = Kinds /\ \A k \in Kinds : files'[k] \in FileOf(k) \cup {None}
      BY <2>5, <3>1 DEF Publish, TypeOK
    <3>3. proc' \in [Process -> Busy \cup {Idle}]
      <4>1. CASE End(p)
        BY <4>1, EndIs
      <4>2. CASE proc[p].cmd = "build" /\ Goto(p, "describing", proc[p].held)
        <5>1. proc[p].held \in Plans
          BY <2>5, <4>2, Where DEF Publish
        <5>2. [cmd |-> proc[p].cmd, step |-> "describing", held |-> proc[p].held] \in Busy
          BY <4>2, <5>1 DEF Busy, Doing
        <5>3. QED
          BY <4>2, <5>2, GotoIs, ProcStep
      <4>3. QED
        BY <2>5, <4>1, <4>2 DEF Publish, AfterPublish
    <3>4. QED
      BY <2>5, <3>2, <3>3 DEF Publish, TypeOK
  <2>6. CASE Describe(p)
    <3>1. proc[p].held \in Plans /\ proc[p].cmd = "build"
      BY <2>6, Where DEF Describe, At
    <3>2. [cmd |-> proc[p].cmd, step |-> "filling", held |-> proc[p].held] \in Busy
      BY <3>1 DEF Busy, Doing
    <3>3. proc' \in [Process -> Busy \cup {Idle}]
      BY <2>6, <3>2, GotoIs, ProcStep, EndIs DEF Describe
    <3>4. info' \in Plans \cup {None, Torn}
      BY <2>6, <3>1 DEF Describe
    <3>5. QED
      BY <2>6, <3>3, <3>4 DEF Describe, TypeOK
  <2>7. CASE BeginPackage(p)
    <3>1. [cmd |-> "package", step |-> "begun", held |-> info] \in Busy
      BY <2>7 DEF BeginPackage, TypeOK, Busy, Doing
    <3>2. QED
      BY <2>7, <3>1, ProcStep DEF BeginPackage, TypeOK
  <2>8. CASE CopyPlan(p)
    <3>1. [plan |-> files["plan"], config |-> proc[p].held] \in Repository
      BY <2>8, FilesAre, Where DEF CopyPlan, At, Repository
    <3>2. [cmd |-> proc[p].cmd, step |-> "staged",
           held |-> [plan |-> files["plan"], config |-> proc[p].held]] \in Busy
      BY <2>8, <3>1 DEF CopyPlan, At, Busy, Doing
    <3>3. proc' \in [Process -> Busy \cup {Idle}]
      BY <2>8, <3>2, GotoIs, ProcStep DEF CopyPlan
    <3>4. QED
      BY <2>8, <3>3 DEF CopyPlan, TypeOK
  <2>9. CASE MoveRepository(p)
    <3>1. proc[p].held \in FileOf("repo") /\ "repo" \in Kinds
      BY <2>9, Where DEF MoveRepository, At, FileOf, Kinds
    <3>2. DOMAIN files' = Kinds /\ \A k \in Kinds : files'[k] \in FileOf(k) \cup {None}
      BY <2>9, <3>1 DEF MoveRepository, TypeOK
    <3>3. QED
      BY <2>9, <3>2, EndIs DEF MoveRepository, TypeOK
  <2>10. ASSUME NEW cmd \in {"calibrate", "adopt"}, Prepare(p, cmd)
         PROVE  TypeOK'
    <3>1. [data |-> data, graph |-> files["onnx"]] \in Need
      BY <2>10, FilesAre DEF Prepare, Need, TypeOK
    <3>2. [cmd |-> cmd, step |-> "begun",
           held |-> [need |-> [data |-> data, graph |-> files["onnx"]]]] \in Busy
      BY <3>1 DEF Busy, Doing
    <3>3. QED
      BY <2>10, <3>2, ProcStep DEF Prepare, TypeOK
  <2>11. CASE Calibrate(p)
    <3> DEFINE need == proc[p].held.need
               bytes == [data |-> data, graph |-> files["onnx"], run |-> builds]
               held == [need |-> need, bytes |-> bytes, meta |-> [for |-> need, hash |-> bytes]]
    <3>1. need \in Need
      BY <2>11, Where DEF Calibrate, At
    <3>2. bytes \in Bytes
      BY <2>11, FilesAre DEF Calibrate, Bytes, TypeOK
    <3>3. held \in [need : Need, bytes : Bytes, meta : Meta]
      BY <3>1, <3>2 DEF Meta
    <3> HIDE DEF held
    <3>4. [cmd |-> proc[p].cmd, step |-> "mkdir", held |-> held] \in Busy
      BY <2>11, <3>3 DEF Calibrate, At, Busy, Doing
    <3>5. Goto(p, "mkdir", held)
      BY <2>11 DEF Calibrate, held
    <3>6. proc' \in [Process -> Busy \cup {Idle}]
      BY <3>4, <3>5, GotoIs, ProcStep
    <3>7. QED
      BY <2>11, <3>6 DEF Calibrate, TypeOK
  <2>12. CASE AdoptMeta(p)
    <3> DEFINE held == [need |-> proc[p].held.need, meta |-> caches["fresh"].meta]
    <3>1. caches["fresh"].meta \in Meta
      BY <2>12 DEF AdoptMeta, TypeOK, Dirs, CacheDir
    <3>2. held \in [need : Need, meta : Meta]
      BY <2>12, <3>1, Where DEF AdoptMeta, At
    <3> HIDE DEF held
    <3>3. [cmd |-> proc[p].cmd, step |-> "adopting", held |-> held] \in Busy
      BY <2>12, <3>2 DEF AdoptMeta, At, Busy, Doing
    <3>4. Goto(p, "adopting", held)
      BY <2>12 DEF AdoptMeta, held
    <3>5. proc' \in [Process -> Busy \cup {Idle}]
      BY <3>3, <3>4, GotoIs, ProcStep
    <3>6. QED
      BY <2>12, <3>5 DEF AdoptMeta, TypeOK
  <2>13. CASE AdoptBytes(p)
    <3> DEFINE held == [need |-> proc[p].held.need, bytes |-> caches["fresh"].bytes,
                        meta |-> proc[p].held.meta]
    <3>1. proc[p].held \in [need : Need, meta : Meta]
      BY <2>13, Where DEF AdoptBytes, At
    <3>2. caches["fresh"].bytes = proc[p].held.meta.hash
      BY <2>13 DEF AdoptBytes, Described
    <3>3. held \in [need : Need, bytes : Bytes, meta : Meta]
      BY <3>1, <3>2 DEF Meta
    <3> HIDE DEF held
    <3>4. [cmd |-> proc[p].cmd, step |-> "mkdir", held |-> held] \in Busy
      BY <2>13, <3>3 DEF AdoptBytes, At, Busy, Doing
    <3>5. Goto(p, "mkdir", held)
      BY <2>13 DEF AdoptBytes, held
    <3>6. proc' \in [Process -> Busy \cup {Idle}]
      BY <3>4, <3>5, GotoIs, ProcStep
    <3>7. QED
      BY <2>13, <3>6 DEF AdoptBytes, TypeOK
  <2>14. CASE WriteCacheDir(p)
    <3> DEFINE held == proc[p].held
    <3>0. Target(p) \in Dirs
      BY <2>14 DEF WriteCacheDir, Target, Dirs
    <3>1. proc[p].step \in {"mkdir", "cache", "metadata"}
          /\ held \in [need : Need, bytes : Bytes, meta : Meta]
      BY <2>14, Where DEF WriteCacheDir
    <3>2. caches' \in [Dirs -> CacheDir \cup {None}]
      <4>1. EmptyDir \in CacheDir
        BY DEF EmptyDir, CacheDir
      <4>2. CASE caches' = [caches EXCEPT ![Target(p)] = EmptyDir]
        BY <3>0, <4>1, <4>2 DEF TypeOK
      <4>3. ASSUME NEW dir \in CacheDir
            PROVE  /\ [dir EXCEPT !.bytes = held.bytes] \in CacheDir
                   /\ [dir EXCEPT !.meta = held.meta] \in CacheDir
        BY <3>1, <4>3 DEF CacheDir
      <4>4. (IF caches[Target(p)] = None THEN EmptyDir ELSE caches[Target(p)]) \in CacheDir
        BY <3>0, <4>1 DEF TypeOK
      <4>5. QED
        BY <2>14, <3>0, <4>2, <4>3, <4>4 DEF WriteCacheDir, TypeOK
    <3>3. ASSUME NEW step \in {"cache", "metadata"}
          PROVE  [cmd |-> proc[p].cmd, step |-> step, held |-> held] \in Busy
      BY <2>14, <3>1, <3>3 DEF WriteCacheDir, Busy, Doing
    <3>4. proc' \in [Process -> Busy \cup {Idle}]
      BY <2>14, <3>3, GotoIs, ProcStep, EndIs DEF WriteCacheDir
    <3>5. QED
      BY <2>14, <3>2, <3>4 DEF WriteCacheDir, TypeOK
  <2>15. CASE Fail(p)
    BY <2>15, EndIs DEF Fail, TypeOK
  <2>16. QED
    BY <1>1, <2>1, <2>2, <2>3, <2>4, <2>5, <2>6, <2>7, <2>8, <2>9, <2>10, <2>11, <2>12, <2>13,
       <2>14, <2>15 DEF Step
<1>2. ASSUME NEW p \in Process, Kill(p)
      PROVE  TypeOK'
  BY <1>2, EndIs DEF Kill, Event, TypeOK
<1>3. ASSUME NEW k \in Kinds, RemoveFile(k)
      PROVE  TypeOK'
  <2>1. disturbed' \in BOOLEAN /\ parted' \in BOOLEAN
    BY <1>3 DEF RemoveFile, TypeOK, Calibrating
  <2>2. QED
    BY <1>3, <2>1 DEF RemoveFile, Event, TypeOK
<1>3a. ASSUME RemoveInfo
      PROVE  TypeOK'
  <2>1. proc' \in [Process -> Busy \cup {Idle}]
    BY <1>3a DEF RemoveInfo, TypeOK
  <2>2. QED
    BY <1>3a, <2>1 DEF RemoveInfo, Event, TypeOK
<1>4. ASSUME NEW d \in Dirs, RemoveCache(d)
      PROVE  TypeOK'
  BY <1>4 DEF RemoveCache, Event, TypeOK
<1>5. ASSUME NEW d \in Dirs, Damage(d)
      PROVE  TypeOK'
  <2>1. [caches[d] EXCEPT !.bytes = [@ EXCEPT !.run = -1]] \in CacheDir
    BY <1>5 DEF Damage, TypeOK, CacheDir, Bytes
  <2>2. QED
    BY <1>5, <2>1 DEF Damage, Event, TypeOK
<1>6. CASE Edit
  <2>1. Calibrating \in BOOLEAN
    BY DEF Calibrating
  <2>2. disturbed' \in BOOLEAN
    BY <1>6, <2>1 DEF Edit, TypeOK
  <2>3. QED
    BY <1>6, <2>2 DEF Edit, Event, TypeOK
<1>7. CASE UNCHANGED vars
  BY <1>7 DEF vars, TypeOK
<1>8. QED
  BY <1>1, <1>2, <1>3, <1>3a, <1>4, <1>5, <1>6, <1>7 DEF Next

-----------------------------------------------------------------------------
(* What a step does to the processes *)

LEMMA OthersStay ==
  ASSUME TypeOK, NEW p \in Process, Step(p) \/ Kill(p), NEW q \in Process, q # p
  PROVE  proc'[q] = proc[q]
BY DEF TypeOK, Step, Begin, WriteExport, WriteOptimized, Plan, Publish, AfterPublish, Describe,
       BeginPackage, CopyPlan, MoveRepository, Prepare, Calibrate, AdoptMeta, AdoptBytes,
       WriteCacheDir, Fail, Kill, Goto, End

LEMMA Arrives ==
  ASSUME TypeOK, NEW p \in Process, NEW step, NEW held, Goto(p, step, held)
  PROVE  proc'[p].cmd = proc[p].cmd /\ proc'[p].step = step /\ proc'[p].held = held
BY DEF TypeOK, Goto

LEMMA Ends ==
  ASSUME TypeOK, NEW p \in Process, End(p)
  PROVE  proc'[p] = Idle
BY DEF TypeOK, End

-----------------------------------------------------------------------------
(* Published files and temporary ones *)

\* A command puts a file only where there is none.
LEMMA FilesStep ==
  ASSUME TypeOK, [Next]_vars
  PROVE  \A k \in Kinds : files[k] # None => files'[k] \in {files[k], None}
<1>1. ASSUME NEW p \in Process, Publish(p)
      PROVE  \A k \in Kinds : files[k] # None => files'[k] = files[k]
  BY <1>1, OutputFacts DEF Publish, TypeOK
<1>2. ASSUME NEW p \in Process, MoveRepository(p)
      PROVE  \A k \in Kinds : files[k] # None => files'[k] = files[k]
  BY <1>2 DEF MoveRepository, TypeOK, Kinds
<1>3. ASSUME NEW k \in Kinds, RemoveFile(k)
      PROVE  \A j \in Kinds : files'[j] \in {files[j], None}
  BY <1>3 DEF RemoveFile, TypeOK
<1>4. ASSUME files' = files
      PROVE  \A k \in Kinds : files'[k] = files[k]
  BY <1>4
<1>5. QED
  BY <1>1, <1>2, <1>3, <1>4 DEF Next, Step, Begin, WriteExport, WriteOptimized, Plan, Describe,
     BeginPackage, CopyPlan, Prepare, Calibrate, AdoptMeta, AdoptBytes, WriteCacheDir, Fail, Kill,
     RemoveInfo, RemoveCache, Damage, Edit, vars

\* A command removes its temporary file in the step in which it publishes or fails.
LEMMA TempsStep ==
  ASSUME TypeOK, TempsAreWritten, [Next]_vars
  PROVE  TempsAreWritten'
<1> SUFFICES ASSUME events' = 0
             PROVE  \A q \in temps' : proc'[q].step \in {"written", "staged"}
  BY DEF TempsAreWritten
<1>1. ASSUME NEW p \in Process, Step(p)
      PROVE  \A q \in temps' : proc'[q].step \in {"written", "staged"}
  <2>1. events = 0 /\ \A q \in temps : proc[q].step \in {"written", "staged"}
    BY <1>1 DEF TempsAreWritten, Step, Begin, WriteExport, WriteOptimized, Plan, Publish, Describe,
       BeginPackage, CopyPlan, MoveRepository, Prepare, Calibrate, AdoptMeta, AdoptBytes,
       WriteCacheDir, Fail
  <2>2. \A q \in temps : q # p => proc'[q].step \in {"written", "staged"}
    BY <1>1, <2>1, OthersStay DEF TypeOK
  <2>3. CASE WriteExport(p) \/ WriteOptimized(p) \/ Plan(p) \/ CopyPlan(p)
    <3>1. temps' = temps \cup {p} /\ proc'[p].step \in {"written", "staged"}
      BY <2>3, Arrives DEF WriteExport, WriteOptimized, Plan, CopyPlan
    <3>2. QED
      BY <2>2, <3>1
  <2>4. CASE Publish(p) \/ MoveRepository(p) \/ Fail(p)
    BY <2>2, <2>4 DEF Publish, MoveRepository, Fail
  <2>5. ASSUME temps' = temps, proc[p].step \notin {"written", "staged"}
        PROVE  \A q \in temps' : proc'[q].step \in {"written", "staged"}
    BY <2>1, <2>2, <2>5
  <2>6. QED
    BY <1>1, <2>3, <2>4, <2>5 DEF Step, Begin, Describe, BeginPackage, Prepare, Calibrate,
       AdoptMeta, AdoptBytes, WriteCacheDir, At, Idle
<1>2. ASSUME Event
      PROVE  FALSE
  BY <1>2 DEF Event, TypeOK
<1>3. CASE UNCHANGED vars
  BY <1>3 DEF vars, TempsAreWritten
<1>4. QED
  BY <1>1, <1>2, <1>3 DEF Next, Kill, RemoveFile, RemoveInfo, RemoveCache, Damage, Edit

-----------------------------------------------------------------------------
(* Plans and their descriptions *)

\* A command never takes a plan away.
LEMMA PlanStays ==
  ASSUME TypeOK, NEW p \in Process, Step(p), files["plan"] # None
  PROVE  files'["plan"] = files["plan"]
<1>1. CASE Publish(p)
  BY <1>1, OutputFacts DEF Publish, TypeOK, Kinds
<1>2. CASE MoveRepository(p)
  BY <1>2 DEF MoveRepository, TypeOK, Kinds
<1>3. CASE files' = files
  BY <1>3
<1>4. QED
  BY <1>1, <1>2, <1>3 DEF Step, Begin, WriteExport, WriteOptimized, Plan, Describe,
     BeginPackage, CopyPlan, Prepare, Calibrate, AdoptMeta, AdoptBytes, WriteCacheDir, Fail

LEMMA PlansExist ==
  ASSUME TypeOK, Paired
  PROVE  /\ info \notin {None, Torn} => files["plan"] # None
         /\ \A p \in Process :
              (\/ proc[p].cmd = "build" /\ proc[p].step \in {"describing", "filling"}
               \/ proc[p].cmd = "package" /\ proc[p].step = "begun") => files["plan"] # None
BY Where, CommandsAssumption DEF Paired, Fits

LEMMA IdleFits ==
  ASSUME NEW plan
  PROVE  Fits(Idle, plan)
BY CommandsAssumption DEF Fits, Idle, Cmds

LEMMA PartedStays ==
  ASSUME TypeOK, [Next]_vars, parted
  PROVE  parted'
BY DEF Next, Step, Begin, WriteExport, WriteOptimized, Plan, Publish, Describe, BeginPackage,
   CopyPlan, MoveRepository, Prepare, Calibrate, AdoptMeta, AdoptBytes, WriteCacheDir, Fail, Kill,
   RemoveFile, RemoveInfo, RemoveCache, Damage, Edit, vars

LEMMA DescribesStep ==
  ASSUME TypeOK, DescribesPlan, [Next]_vars
  PROVE  DescribesPlan'
<1> SUFFICES ASSUME Paired, ~ parted'
               PROVE  Paired'
  BY PartedStays DEF DescribesPlan
<1> DEFINE plan == files["plan"]
<1>1. \A q \in Process : Fits(proc[q], plan)
  BY DEF Paired
<1>2. ASSUME info' \notin {None, Torn} => plan' = info', \A q \in Process : Fits(proc'[q], plan')
      PROVE  Paired'
  BY <1>2 DEF Paired, Fits
<1>3. ASSUME NEW p \in Process, Step(p) \/ Kill(p),
             info' \notin {None, Torn} => plan' = info', Fits(proc'[p], plan'),
             plan # None => plan' = plan
      PROVE  Paired'
  <2>1. ASSUME NEW q \in Process, q # p
        PROVE  Fits(proc'[q], plan')
    <3>1. proc'[q] = proc[q]
      BY <1>3, <2>1, OthersStay
    <3>2. Fits(proc[q], plan)
      BY <1>1
    <3>3. plan = None => Fits(proc[q], plan')
      BY <3>2, PlansExist DEF Fits
    <3>4. QED
      BY <1>3, <3>1, <3>2, <3>3
  <2>2. QED
    BY <1>2, <1>3, <2>1
<1>4. ASSUME NEW p \in Process, Step(p)
      PROVE  Paired'
  <2>1. plan # None => plan' = plan
    BY <1>4, PlanStays
  <2>2. ASSUME info' = info
        PROVE  info' \notin {None, Torn} => plan' = info'
    BY <2>1, <2>2, PlansExist DEF Paired
  <2>3. ASSUME info' = info, Fits(proc'[p], plan')
        PROVE  Paired'
    BY <1>3, <1>4, <2>1, <2>2, <2>3
  <2>4. ASSUME proc'[p].cmd \notin {"build", "package"} \/ proc'[p].step \in {"mkdir", "written"}
                 \/ (proc'[p].cmd = "build" /\ proc'[p].step = "begun")
        PROVE  Fits(proc'[p], plan')
    BY <2>4 DEF Fits
  <2>5. CASE \E cmd \in {"export", "optimize", "build"} : Begin(p, cmd)
    BY <2>3, <2>4, <2>5 DEF Begin, TypeOK
  <2>6. CASE WriteExport(p) \/ WriteOptimized(p) \/ Plan(p)
    BY <2>3, <2>4, <2>6, Arrives DEF WriteExport, WriteOptimized, Plan
  <2>7. CASE Publish(p)
    <3>1. CASE End(p)
      BY <2>3, <2>7, <3>1, Ends, IdleFits DEF Publish
    <3>2. CASE proc[p].cmd = "build" /\ plan' = proc[p].held /\ Goto(p, "describing", proc[p].held)
      <4>1. Fits(proc'[p], plan')
        BY <3>2, Arrives DEF Fits
      <4>2. QED
        BY <2>3, <2>7, <4>1 DEF Publish
    <3>3. QED
      BY <2>7, <3>1, <3>2 DEF Publish, AfterPublish, Output, TypeOK, Kinds
  <2>8. CASE Describe(p)
    <3>1. proc[p].held = plan /\ files' = files /\ proc[p].cmd = "build"
      BY <2>8 DEF Paired, Fits, Describe, At
    <3>2. info' \notin {None, Torn} => plan' = info'
      BY <2>8, <3>1 DEF Describe
    <3>3. Fits(proc'[p], plan')
      BY <2>8, <3>1, Arrives, Ends, IdleFits DEF Describe, Fits
    <3>4. QED
      BY <1>3, <1>4, <2>1, <3>2, <3>3
  <2>9. CASE BeginPackage(p)
    <3>1. proc'[p] = [cmd |-> "package", step |-> "begun", held |-> info] /\ plan' = info
      BY <2>9 DEF BeginPackage, TypeOK, Paired
    <3>2. QED
      BY <2>3, <2>9, <3>1 DEF BeginPackage, Fits
  <2>10. CASE CopyPlan(p)
    <3>1. plan = proc[p].held
      BY <2>10 DEF CopyPlan, At, Paired, Fits
    <3>2. proc'[p].step = "staged" /\ proc'[p].held = [plan |-> plan, config |-> proc[p].held]
      BY <2>10, Arrives DEF CopyPlan, At
    <3>3. QED
      BY <2>3, <2>10, <3>1, <3>2 DEF CopyPlan, Fits
  <2>11. CASE \E cmd \in {"calibrate", "adopt"} : Prepare(p, cmd)
    BY <2>3, <2>4, <2>11 DEF Prepare, TypeOK
  <2>12. CASE Calibrate(p) \/ AdoptMeta(p) \/ AdoptBytes(p)
    <3>1. proc'[p].cmd \in {"calibrate", "adopt"} /\ info' = info
      BY <2>12, Arrives DEF Calibrate, AdoptMeta, AdoptBytes, At
    <3>2. QED
      BY <2>3, <2>4, <3>1
  <2>13. CASE WriteCacheDir(p)
    <3>1. info' = info /\ (proc'[p] = Idle \/ proc'[p].cmd \in {"calibrate", "adopt"})
      BY <2>13, Arrives, Ends DEF WriteCacheDir
    <3>2. QED
      BY <2>3, <2>4, <3>1, IdleFits
  <2>14. CASE MoveRepository(p) \/ Fail(p)
    BY <2>3, <2>14, Ends, IdleFits DEF MoveRepository, Fail
  <2>15. QED
    BY <1>4, <2>5, <2>6, <2>7, <2>8, <2>9, <2>10, <2>11, <2>12, <2>13, <2>14 DEF Step
<1>5. ASSUME NEW p \in Process, Kill(p)
      PROVE  Paired'
  BY <1>3, <1>5, Ends, IdleFits DEF Kill, Paired
<1>6. ASSUME NEW k \in Kinds, RemoveFile(k)
      PROVE  Paired'
  <2>1. CASE k = "plan"
    <3>1. info' \in {None, Torn}
      BY <1>6, <2>1 DEF RemoveFile
    <3>2. \A q \in Process : ~ ReliesOnPlan(proc[q]) /\ proc'[q] = proc[q]
      BY <1>6, <2>1 DEF RemoveFile
    <3>3. \A q \in Process : Fits(proc'[q], plan')
      BY <1>1, <3>2 DEF Fits, ReliesOnPlan
    <3>4. QED
      BY <1>2, <3>1, <3>3
  <2>2. CASE k # "plan"
    BY <1>1, <1>2, <1>6, <2>2 DEF RemoveFile, TypeOK, Paired
  <2>3. QED
    BY <2>1, <2>2
<1>6a. ASSUME RemoveInfo
      PROVE  Paired'
  <2>1. \A q \in Process : Fits(proc'[q], plan')
    BY <1>1, <1>6a, IdleFits DEF RemoveInfo, TypeOK
  <2>2. QED
    BY <1>2, <1>6a, <2>1 DEF RemoveInfo
<1>7. ASSUME UNCHANGED <<files, info, proc>>
      PROVE  Paired'
  BY <1>7 DEF Paired
<1>8. QED
  BY <1>4, <1>5, <1>6, <1>6a, <1>7 DEF Next, RemoveCache, Damage, Edit, vars

\* A repository is published as it was staged.
LEMMA PairStep ==
  ASSUME TypeOK, DescribesPlan, PackagedPair, [Next]_vars
  PROVE  PackagedPair'
<1>0. SUFFICES ASSUME ~ parted, ~ parted'
               PROVE  PackagedPair'
  BY PartedStays DEF PackagedPair
<1>1. CASE files'["repo"] \in {files["repo"], None}
  BY <1>0, <1>1 DEF PackagedPair
<1>2. ASSUME NEW p \in Process, MoveRepository(p)
      PROVE  PackagedPair'
  BY <1>0, <1>2 DEF MoveRepository, At, TypeOK, DescribesPlan, Paired, Fits, PackagedPair, Kinds
<1>3. ASSUME NEW p \in Process, Publish(p)
      PROVE  files'["repo"] = files["repo"]
  BY <1>3, OutputFacts DEF Publish, TypeOK, Kinds
<1>4. ASSUME NEW k \in Kinds, RemoveFile(k)
      PROVE  files'["repo"] \in {files["repo"], None}
  BY <1>4 DEF RemoveFile, TypeOK, Kinds
<1>5. QED
  BY <1>1, <1>2, <1>3, <1>4 DEF Next, Step, Begin, WriteExport, WriteOptimized, Plan, Describe,
     BeginPackage, CopyPlan, Prepare, Calibrate, AdoptMeta, AdoptBytes, WriteCacheDir, Fail, Kill,
     RemoveInfo, RemoveCache, Damage, Edit, vars

-----------------------------------------------------------------------------
(* Calibration caches *)

\* A process that is not in a calibration has nothing to be honest about.
LEMMA OthersTruthful ==
  ASSUME NEW s, NEW d, NEW graph,
         s.step \notin {"adopting", "mkdir", "cache", "metadata"},
         s.cmd # "calibrate" \/ s.step # "begun"
  PROVE  Prepared(s, d, graph) /\ Truthful(s)
BY DEF Prepared, Truthful

\* While a calibration is about to read, a change of what it reads is noticed.
LEMMA PreparedStays ==
  ASSUME TypeOK, CachesHonest, [Next]_vars, ~ disturbed', NEW q \in Process,
         At(q, "calibrate", "begun")
  PROVE  data' = data /\ files'["onnx"] = files["onnx"]
<1>1. ~ disturbed
  BY DEF Next, Step, Begin, WriteExport, WriteOptimized, Plan, Publish, Describe, BeginPackage,
     CopyPlan, MoveRepository, Prepare, Calibrate, AdoptMeta, AdoptBytes, WriteCacheDir, Fail,
     Kill, RemoveFile, RemoveInfo, RemoveCache, Damage, Edit, vars
<1>2. files["onnx"] # None
  <2>1. proc[q].held.need = [data |-> data, graph |-> files["onnx"]]
    BY <1>1 DEF CachesHonest, Prepared, At
  <2>2. proc[q].held.need \in Need
    BY Where DEF At
  <2>3. files["onnx"] \in Exported
    BY <2>1, <2>2 DEF Need
  <2>4. QED
    BY <2>3, CommandsAssumption
<1>3. Calibrating
  BY DEF Calibrating
<1>4. ASSUME NEW k \in Kinds, RemoveFile(k)
      PROVE  k # "onnx" /\ data' = data
  BY <1>3, <1>4 DEF RemoveFile
<1>5. CASE Edit
  BY <1>3, <1>5 DEF Edit
<1>6. files'["onnx"] \in {files["onnx"], None}
  BY <1>2, FilesStep DEF Kinds
<1>7. ASSUME files'["onnx"] = None
      PROVE  \E k \in Kinds : RemoveFile(k) /\ k = "onnx"
  <2>1. ASSUME NEW p \in Process, Publish(p)
        PROVE  files'["onnx"] = files["onnx"]
    BY <1>2, <2>1, OutputFacts DEF Publish, TypeOK, Kinds
  <2>2. ASSUME NEW p \in Process, MoveRepository(p)
        PROVE  files'["onnx"] = files["onnx"]
    BY <2>2 DEF MoveRepository, TypeOK, Kinds
  <2>3. ASSUME NEW k \in Kinds, RemoveFile(k), k # "onnx"
        PROVE  files'["onnx"] = files["onnx"]
    BY <2>3 DEF RemoveFile, TypeOK, Kinds
  <2>4. QED
    BY <1>2, <1>7, <2>1, <2>2, <2>3 DEF Next, Step, Begin, WriteExport, WriteOptimized, Plan,
       Describe, BeginPackage, CopyPlan, Prepare, Calibrate, AdoptMeta, AdoptBytes, WriteCacheDir,
       Fail, Kill, RemoveInfo, RemoveCache, Damage, Edit, vars
<1>8. files'["onnx"] = files["onnx"]
  BY <1>4, <1>6, <1>7
<1>9. data' = data
  BY <1>4, <1>5 DEF Next, Step, Begin, WriteExport, WriteOptimized, Plan, Publish, Describe,
     BeginPackage, CopyPlan, MoveRepository, Prepare, Calibrate, AdoptMeta, AdoptBytes,
     WriteCacheDir, Fail, Kill, RemoveInfo, RemoveCache, Damage, vars
<1>10. QED
  BY <1>8, <1>9

LEMMA HonestStep ==
  ASSUME TypeOK, CachesHonest, [Next]_vars
  PROVE  CachesHonest'
<1> SUFFICES ASSUME ~ disturbed'
             PROVE  /\ \A q \in Process : Prepared(proc'[q], data', files'["onnx"])
                                          /\ Truthful(proc'[q])
                    /\ \A d \in Dirs : caches'[d] # None /\ caches'[d].meta # None
                                         => Honest(caches'[d].meta)
  BY DEF CachesHonest
<1> DEFINE OldCachesHonest ==
             \A d \in Dirs : caches[d] # None /\ caches[d].meta # None => Honest(caches[d].meta)
           NewCachesHonest ==
             \A d \in Dirs : caches'[d] # None /\ caches'[d].meta # None
                              => Honest(caches'[d].meta)
<1>1. ~ disturbed
  BY DEF Next, Step, Begin, WriteExport, WriteOptimized, Plan, Publish, Describe, BeginPackage,
     CopyPlan, MoveRepository, Prepare, Calibrate, AdoptMeta, AdoptBytes, WriteCacheDir, Fail,
     Kill, RemoveFile, RemoveInfo, RemoveCache, Damage, Edit, vars
<1>2. OldCachesHonest /\ \A q \in Process : Prepared(proc[q], data, files["onnx"])
                                             /\ Truthful(proc[q])
  BY <1>1 DEF CachesHonest
<1>3. ASSUME NEW q \in Process, proc'[q] = proc[q]
      PROVE  Prepared(proc'[q], data', files'["onnx"]) /\ Truthful(proc'[q])
  <2>1. CASE At(q, "calibrate", "begun")
    BY <1>2, <1>3, <2>1, PreparedStays
  <2>2. CASE ~ At(q, "calibrate", "begun")
    BY <1>2, <1>3, <2>2 DEF At, Prepared
  <2>3. QED
    BY <2>1, <2>2
<1>4. NewCachesHonest
  <2>1. ASSUME caches' = caches
        PROVE  NewCachesHonest
    BY <1>2, <2>1
  <2>2. ASSUME NEW p \in Process, WriteCacheDir(p)
        PROVE  NewCachesHonest
    <3>1. Target(p) \in Dirs
      BY <2>2 DEF WriteCacheDir, Target, Dirs
    <3>2. CASE caches' = [caches EXCEPT ![Target(p)] = EmptyDir]
      BY <1>2, <3>1, <3>2 DEF TypeOK, EmptyDir
    <3> DEFINE dir == IF caches[Target(p)] = None THEN EmptyDir ELSE caches[Target(p)]
    <3>2a. dir \in CacheDir
      BY <3>1 DEF TypeOK, EmptyDir, CacheDir
    <3>2b. dir.meta # None => caches[Target(p)] # None /\ dir.meta = caches[Target(p)].meta
      BY DEF EmptyDir
    <3>3. CASE caches' = [caches EXCEPT ![Target(p)] = [dir EXCEPT !.bytes = proc[p].held.bytes]]
      <4>2. \A d \in Dirs : d # Target(p) => caches'[d] = caches[d]
        BY <3>3 DEF TypeOK
      <4>3. caches'[Target(p)].meta = dir.meta
        BY <3>1, <3>3, <3>2a DEF TypeOK, CacheDir
      <4>4. QED
        BY <1>2, <3>1, <3>2b, <4>2, <4>3
    <3>4. CASE proc[p].step = "metadata"
               /\ caches' = [caches EXCEPT ![Target(p)] = [dir EXCEPT !.meta = proc[p].held.meta]]
      <4>2. \A d \in Dirs : d # Target(p) => caches'[d] = caches[d]
        BY <3>4 DEF TypeOK
      <4>3. caches'[Target(p)].meta = proc[p].held.meta
        BY <3>1, <3>4, <3>2a DEF TypeOK, CacheDir
      <4>4. Honest(proc[p].held.meta)
        BY <1>2, <3>4 DEF Truthful
      <4>5. QED
        BY <1>2, <4>2, <4>3, <4>4
    <3>5. QED
      BY <2>2, <3>2, <3>3, <3>4 DEF WriteCacheDir
  <2>3. ASSUME NEW d \in Dirs, RemoveCache(d)
        PROVE  NewCachesHonest
    BY <1>2, <2>3 DEF RemoveCache, TypeOK
  <2>4. ASSUME NEW d \in Dirs, Damage(d)
        PROVE  NewCachesHonest
    <3>1. caches[d] \in CacheDir
      BY <2>4 DEF Damage, TypeOK
    <3>2. caches'[d].meta = caches[d].meta /\ \A c \in Dirs : c # d => caches'[c] = caches[c]
      BY <2>4, <3>1 DEF Damage, TypeOK, CacheDir
    <3>3. QED
      BY <1>2, <2>4, <3>2 DEF Damage
  <2>5. QED
    BY <2>1, <2>2, <2>3, <2>4 DEF Next, Step, Begin, WriteExport, WriteOptimized, Plan, Publish,
       Describe, BeginPackage, CopyPlan, MoveRepository, Prepare, Calibrate, AdoptMeta, AdoptBytes,
       Fail, Kill, RemoveFile, RemoveInfo, Edit, vars
<1>5. ASSUME NEW p \in Process, Step(p) \/ Kill(p)
      PROVE  Prepared(proc'[p], data', files'["onnx"]) /\ Truthful(proc'[p])
  <2>1. ASSUME proc'[p].step \notin {"adopting", "mkdir", "cache", "metadata"},
               proc'[p].cmd # "calibrate" \/ proc'[p].step # "begun"
        PROVE  Prepared(proc'[p], data', files'["onnx"]) /\ Truthful(proc'[p])
    BY <2>1, OthersTruthful
  <2>2. CASE \E cmd \in {"export", "optimize", "build"} : Begin(p, cmd)
    BY <2>1, <2>2 DEF Begin, TypeOK
  <2>3. CASE WriteExport(p) \/ WriteOptimized(p) \/ Plan(p) \/ CopyPlan(p)
    BY <2>1, <2>3, Arrives DEF WriteExport, WriteOptimized, Plan, CopyPlan
  <2>4. CASE End(p)
    <3>1. proc'[p].step = "idle"
      BY <2>4, Ends DEF Idle
    <3>2. QED
      BY <2>1, <3>1
  <2>5. CASE Publish(p)
    BY <2>1, <2>4, <2>5, Arrives DEF Publish, AfterPublish
  <2>6. CASE Describe(p)
    BY <2>1, <2>4, <2>6, Arrives DEF Describe
  <2>7. CASE BeginPackage(p)
    BY <2>1, <2>7 DEF BeginPackage, TypeOK
  <2>8. ASSUME NEW cmd \in {"calibrate", "adopt"}, Prepare(p, cmd)
        PROVE  Prepared(proc'[p], data', files'["onnx"]) /\ Truthful(proc'[p])
    BY <2>8 DEF Prepare, TypeOK, Prepared, Truthful
  <2>9. CASE Calibrate(p)
    <3> DEFINE need == proc[p].held.need
               bytes == [data |-> data, graph |-> files["onnx"], run |-> builds]
    <3>1. proc'[p].step = "mkdir"
          /\ proc'[p].held = [need |-> need, bytes |-> bytes, meta |-> [for |-> need, hash |-> bytes]]
      BY <2>9, Arrives DEF Calibrate
    <3>2. need = [data |-> data, graph |-> files["onnx"]]
      BY <1>2, <2>9 DEF Calibrate, At, Prepared
    <3>3. QED
      BY <3>1, <3>2 DEF Prepared, Truthful, Honest, TypeOK
  <2>10. CASE AdoptMeta(p)
    <3>1. proc'[p].cmd = "adopt" /\ proc'[p].step = "adopting"
          /\ proc'[p].held = [need |-> proc[p].held.need, meta |-> caches["fresh"].meta]
      BY <2>10, Arrives DEF AdoptMeta, At
    <3>2. Honest(caches["fresh"].meta)
      BY <1>2, <2>10 DEF AdoptMeta, Dirs
    <3>3. QED
      BY <3>1, <3>2 DEF Prepared, Truthful
  <2>11. CASE AdoptBytes(p)
    <3>1. proc'[p].step = "mkdir"
          /\ proc'[p].held = [need |-> proc[p].held.need, bytes |-> caches["fresh"].bytes,
                              meta |-> proc[p].held.meta]
      BY <2>11, Arrives DEF AdoptBytes
    <3>2. Honest(proc[p].held.meta)
      BY <1>2, <2>11 DEF AdoptBytes, At, Truthful
    <3>3. QED
      BY <2>11, <3>1, <3>2 DEF AdoptBytes, Described, Compatible, Prepared, Truthful
  <2>12. CASE WriteCacheDir(p)
    <3>1. CASE proc'[p].step \in {"cache", "metadata"} /\ proc'[p].held = proc[p].held
               /\ proc[p].step \in {"mkdir", "cache"}
      BY <1>2, <3>1 DEF Truthful, Prepared
    <3>2. QED
      BY <2>4, <2>12, <3>1, Arrives DEF WriteCacheDir
  <2>13. CASE MoveRepository(p) \/ Fail(p) \/ Kill(p)
    BY <2>4, <2>13 DEF MoveRepository, Fail, Kill
  <2>14. QED
    BY <1>5, <2>2, <2>3, <2>5, <2>6, <2>7, <2>8, <2>9, <2>10, <2>11, <2>12, <2>13 DEF Step
<1>5a. ASSUME RemoveInfo
      PROVE  \A q \in Process : Prepared(proc'[q], data', files'["onnx"]) /\ Truthful(proc'[q])
  <2>1. ASSUME NEW q \in Process
        PROVE  proc'[q] = proc[q] \/ proc'[q] = Idle
    BY <1>5a, <2>1 DEF RemoveInfo, TypeOK
  <2>2. ASSUME NEW q \in Process, proc'[q] = Idle
        PROVE  Prepared(proc'[q], data', files'["onnx"]) /\ Truthful(proc'[q])
    BY <2>2, OthersTruthful DEF Idle
  <2>3. QED
    BY <1>3, <2>1, <2>2
<1>6. \A q \in Process : Prepared(proc'[q], data', files'["onnx"]) /\ Truthful(proc'[q])
  <2>1. ASSUME proc' = proc
        PROVE  \A q \in Process : Prepared(proc'[q], data', files'["onnx"]) /\ Truthful(proc'[q])
    BY <1>3, <2>1
  <2>2. ASSUME NEW p \in Process, Step(p) \/ Kill(p)
        PROVE  \A q \in Process : Prepared(proc'[q], data', files'["onnx"]) /\ Truthful(proc'[q])
    BY <1>3, <1>5, <2>2, OthersStay
  <2>3. QED
    BY <1>5a, <2>1, <2>2 DEF Next, RemoveFile, RemoveCache, Damage, Edit, vars
<1>7. QED
  BY <1>4, <1>6

-----------------------------------------------------------------------------

LEMMA Invariant == Spec => []IInv
<1>1. Init => IInv
  <2>1. SUFFICES ASSUME Init
                 PROVE  IInv
    OBVIOUS
  <2>2. \A p \in Process : proc[p] = Idle
    BY <2>1 DEF Init
  <2>3. TypeOK
    BY <2>1, CommandsAssumption DEF Init, TypeOK
  <2>4. DescribesPlan
    BY <2>1, <2>2, IdleFits DEF Init, DescribesPlan, Paired
  <2>5. PackagedPair /\ TempsAreWritten
    BY <2>1 DEF Init, PackagedPair, Kinds, TempsAreWritten
  <2>6. CachesHonest
    BY <2>1, <2>2, OthersTruthful DEF Init, CachesHonest, Idle
  <2>7. QED
    BY <2>3, <2>4, <2>5, <2>6 DEF IInv
<1>2. IInv /\ [Next]_vars => IInv'
  BY TypeStep, DescribesStep, PairStep, TempsStep, HonestStep DEF IInv
<1>3. QED
  BY <1>1, <1>2, PTL DEF Spec

\* What is in the files and what the processes hold has its type.
THEOREM TypeCorrect == Spec => []TypeOK
<1>1. IInv => TypeOK
  BY DEF IInv
<1>2. QED
  BY <1>1, Invariant, PTL

\* Whatever commands run at once, nothing that is published is changed (utils/fs.py:57).
THEOREM NeverOverwrittenCorrect == Spec => NeverOverwritten
<1>1. IInv /\ [Next]_vars
        => [\A k \in Kinds : files[k] # None => files'[k] \in {files[k], None}]_vars
  BY FilesStep DEF IInv
<1>2. QED
  BY <1>1, Invariant, PTL DEF Spec, NeverOverwritten

\* Unless the user removed a plan that something described or relied on, a repository holds a
\* plan and the description of that very plan (cli/commands/build_cmd.py,
\* cli/commands/package_cmd.py, triton/repository.py).
THEOREM PackagedPairCorrect == Spec => []PackagedPair
<1>1. IInv => PackagedPair
  BY DEF IInv
<1>2. QED
  BY <1>1, Invariant, PTL

\* Temporary files are removed by the command that made them (utils/fs.py).
THEOREM NoLitterCorrect == Spec => []NoLitter
<1>1. IInv => NoLitter
  BY DEF IInv, TempsAreWritten, NoLitter, Idle
<1>2. QED
  BY <1>1, Invariant, PTL

\* An adopted cache was made from what the run that adopts it needs (calibration/run.py).
THEOREM AdoptionMatchesCorrect == Spec => []AdoptionMatches
<1>1. IInv => AdoptionMatches
  BY DEF IInv, CachesHonest, Truthful, Honest, AdoptionMatches
<1>2. QED
  BY <1>1, Invariant, PTL

=============================================================================
