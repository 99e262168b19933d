--------------------------- MODULE InvocationProofs ---------------------------
(***************************************************************************)
(* Theorems about the order of the stages (StageOrder), for any number of  *)
(* stages and any types, and about a command `trtship run` before its      *)
(* first stage (Invocation), for any tables, options, layers of            *)
(* configuration, machines and runs.  The second part rests on the first.  *)
(***************************************************************************)
EXTENDS Invocation, FiniteSetTheorems, WellFoundedInduction, TLAPS

-----------------------------------------------------------------------------
(* The loop of order_stages *)

\* No stage is taken twice.
NoRepeats == \A m, n \in DOMAIN ordered : ordered[m] = ordered[n] => m = n

\* Each stage of S waits for another one of S.
Circular(S) == \A s \in S : \E p \in S : Feeds(p, s)

\* No stage of a circle is ever taken.
CirclesUntouched == \A S \in SUBSET Stage : Circular(S) => S \cap Done = {}

\* When ordered[m] was taken, a smaller stage that is still there was not ready.
SmallerWaits ==
    \A m \in DOMAIN ordered : \A s \in remaining :
        s < ordered[m] => \E p \in After(s) : \A i \in 1 .. (m - 1) : ordered[i] # p

\* How the loop has ended, if it has.
Ends ==
    /\ outcome = "ordered" => remaining = {}
    /\ outcome = "cycle" => remaining # {} /\ Ready = {}

IInv ==
    /\ TypeOK /\ NoRepeats /\ CirclesUntouched /\ SmallerWaits /\ Ends
    /\ ProducersFirst /\ TiesKeepOrder

-----------------------------------------------------------------------------

\* After and Feeds say the same, once about a stage and once about a pair.
LEMMA AfterFeeds ==
    ASSUME NEW s \in Stage, NEW p \in Stage
    PROVE  p \in After(s) <=> Feeds(p, s)
BY DEF After, Feeds

\* What TakeReady does, as facts about sequences and sets: the loop of order_stages.
LEMMA TakeFacts ==
    ASSUME TypeOK, TakeReady
    PROVE  \E s \in Ready :
              /\ s \in Stage /\ s \in remaining /\ s \notin Done
              /\ After(s) \subseteq Done
              /\ \A r \in Ready : s <= r
              /\ ordered' = Append(ordered, s)
              /\ ordered' \in Seq(Stage)
              /\ DOMAIN ordered = 1 .. Len(ordered) /\ Len(ordered) \in Nat
              /\ DOMAIN ordered' = 1 .. (Len(ordered) + 1)
              /\ \A n \in DOMAIN ordered : ordered'[n] = ordered[n]
              /\ ordered'[Len(ordered) + 1] = s
              /\ Done' = Done \cup {s}
              /\ remaining' = remaining \ {s}
<1>1. PICK s \in Ready :
        /\ \A r \in Ready : s <= r
        /\ ordered' = Append(ordered, s)
        /\ remaining' = remaining \ {s}
  BY DEF TakeReady
<1>2. s \in Stage /\ s \in remaining /\ s \notin Done /\ After(s) \subseteq Done
  BY DEF Ready, TypeOK
<1>3. ordered \in Seq(Stage)
  BY DEF TypeOK
<1>4. /\ ordered' \in Seq(Stage)
      /\ DOMAIN ordered = 1 .. Len(ordered) /\ Len(ordered) \in Nat
      /\ DOMAIN ordered' = 1 .. (Len(ordered) + 1)
      /\ \A n \in DOMAIN ordered : ordered'[n] = ordered[n]
      /\ ordered'[Len(ordered) + 1] = s
  BY <1>1, <1>2, <1>3
<1>5. Done' = Done \cup {s}
  BY <1>4 DEF Done, Range
<1>6. QED
  BY <1>1, <1>2, <1>4, <1>5

\* The stages stay typed, and what is not taken is what remains.
LEMMA TypeStep ==
    ASSUME TypeOK, [Next]_vars
    PROVE  TypeOK'
<1>1. CASE TakeReady
  <2>1. PICK s \in Ready :
          /\ s \in Stage /\ ordered' \in Seq(Stage)
          /\ Done' = Done \cup {s} /\ remaining' = remaining \ {s}
    BY <1>1, TakeFacts
  <2>2. UNCHANGED <<consumes, produces, outcome>>
    BY <1>1 DEF TakeReady, inputs
  <2>3. remaining' = Stage \ Done'
    BY <2>1 DEF TypeOK
  <2>4. QED
    BY <2>1, <2>2, <2>3 DEF TypeOK
<1>2. CASE ReportCycle
  BY <1>2 DEF TypeOK, ReportCycle, inputs, Done
<1>3. CASE Return
  BY <1>3 DEF TypeOK, Return, inputs, Done
<1>4. CASE UNCHANGED vars
  BY <1>4 DEF TypeOK, vars, inputs, Done
<1>5. QED
  BY <1>1, <1>2, <1>3, <1>4 DEF Next

\* Done grows by a stage that was not in it: no stage is taken twice.
LEMMA NoRepeatsStep ==
    ASSUME TypeOK, NoRepeats, [Next]_vars
    PROVE  NoRepeats'
<1>1. CASE TakeReady
  <2>1. PICK s \in Ready :
          /\ s \notin Done
          /\ DOMAIN ordered = 1 .. Len(ordered) /\ Len(ordered) \in Nat
          /\ DOMAIN ordered' = 1 .. (Len(ordered) + 1)
          /\ \A n \in DOMAIN ordered : ordered'[n] = ordered[n]
          /\ ordered'[Len(ordered) + 1] = s
    BY <1>1, TakeFacts
  <2>2. \A n \in DOMAIN ordered : ordered[n] # s
    BY <2>1 DEF Done, Range
  <2>3. \A n \in DOMAIN ordered' : n \in DOMAIN ordered \/ n = Len(ordered) + 1
    BY <2>1
  <2>4. QED
    BY <2>1, <2>2, <2>3 DEF NoRepeats
<1>2. CASE ordered' = ordered
  BY <1>2 DEF NoRepeats
<1>3. QED
  BY <1>1, <1>2 DEF Next, ReportCycle, Return, vars

\* A stage of a circle waits for another one of the circle, so it is never ready.
LEMMA CirclesStep ==
    ASSUME TypeOK, CirclesUntouched, [Next]_vars
    PROVE  CirclesUntouched'
<1>1. consumes' = consumes /\ produces' = produces
  BY DEF Next, TakeReady, ReportCycle, Return, vars, inputs
<1>2. \A S : Circular(S)' <=> Circular(S)
  BY <1>1 DEF Circular, Feeds
<1>3. CASE TakeReady
  <2>1. PICK s \in Ready :
          s \in Stage /\ After(s) \subseteq Done /\ Done' = Done \cup {s}
    BY <1>3, TakeFacts
  <2>2. SUFFICES ASSUME NEW S \in SUBSET Stage, Circular(S), s \in S
                 PROVE  FALSE
    BY <1>2, <2>1 DEF CirclesUntouched
  <2>3. PICK p \in S : Feeds(p, s)
    BY <2>2 DEF Circular
  <2>4. p \in After(s)
    BY <2>1, <2>2, <2>3, AfterFeeds
  <2>5. p \in S \cap Done
    BY <2>1, <2>4
  <2>6. QED
    BY <2>2, <2>5 DEF CirclesUntouched
<1>4. CASE ordered' = ordered
  BY <1>2, <1>4 DEF CirclesUntouched, Done
<1>5. QED
  BY <1>3, <1>4 DEF Next, ReportCycle, Return, vars

\* The stage that is taken is the first one that is ready.
LEMMA SmallerStep ==
    ASSUME TypeOK, SmallerWaits, [Next]_vars
    PROVE  SmallerWaits'
<1>1. \A s : After(s)' = After(s)
  BY DEF Next, TakeReady, ReportCycle, Return, vars, inputs, After, Stage
<1>2. CASE TakeReady
  <2>1. PICK x \in Ready :
          /\ x \in Stage
          /\ \A r \in Ready : x <= r
          /\ DOMAIN ordered = 1 .. Len(ordered) /\ Len(ordered) \in Nat
          /\ DOMAIN ordered' = 1 .. (Len(ordered) + 1)
          /\ \A n \in DOMAIN ordered : ordered'[n] = ordered[n]
          /\ ordered'[Len(ordered) + 1] = x
          /\ remaining' = remaining \ {x}
    BY <1>2, TakeFacts
  <2>2. SUFFICES ASSUME NEW m \in DOMAIN ordered', NEW s \in remaining', s < ordered'[m]
                 PROVE  \E p \in After(s) : \A i \in 1 .. (m - 1) : ordered'[i] # p
    BY <1>1 DEF SmallerWaits
  <2>3. s \in remaining /\ s \in Stage
    BY <2>1 DEF TypeOK
  <2>4. CASE m \in DOMAIN ordered
    <3>1. PICK p \in After(s) : \A i \in 1 .. (m - 1) : ordered[i] # p
      BY <2>1, <2>2, <2>3, <2>4 DEF SmallerWaits
    <3>2. \A i \in 1 .. (m - 1) : i \in DOMAIN ordered
      BY <2>1, <2>4
    <3>3. QED
      BY <2>1, <3>1, <3>2
  <2>5. CASE m = Len(ordered) + 1
    <3>1. s \notin Ready
      BY <2>1, <2>2, <2>3, <2>5, NumStagesAssumption DEF Stage
    <3>2. PICK p \in After(s) : p \notin Done
      BY <2>3, <3>1 DEF Ready
    <3>3. \A i \in DOMAIN ordered : ordered'[i] # p
      BY <2>1, <3>2 DEF Done, Range
    <3>4. QED
      BY <2>1, <2>5, <3>2, <3>3
  <2>6. QED
    BY <2>1, <2>4, <2>5
<1>3. CASE ordered' = ordered /\ remaining' = remaining
  BY <1>1, <1>3 DEF SmallerWaits
<1>4. QED
  BY <1>2, <1>3 DEF Next, ReportCycle, Return, vars

\* Once the loop has ended nothing moves.
LEMMA EndsStep ==
    ASSUME TypeOK, Ends, [Next]_vars
    PROVE  Ends'
<1>1. CASE TakeReady
  BY <1>1 DEF TakeReady, Ends
<1>2. CASE ReportCycle
  BY <1>2 DEF ReportCycle, Ends, Ready, After, Stage, Done, inputs
<1>3. CASE Return
  BY <1>3 DEF Return, Ends
<1>4. CASE UNCHANGED vars
  BY <1>4 DEF vars, inputs, Ends, Ready, After, Stage, Done
<1>5. QED
  BY <1>1, <1>2, <1>3, <1>4 DEF Next

\* A stage is taken when everything it waits for is placed.
LEMMA ProducersStep ==
    ASSUME TypeOK, ProducersFirst, [Next]_vars
    PROVE  ProducersFirst'
<1>1. \A p, s : Feeds(p, s)' <=> Feeds(p, s)
  BY DEF Next, TakeReady, ReportCycle, Return, vars, inputs, Feeds
<1>2. CASE TakeReady
  <2>1. PICK x \in Ready :
          /\ x \in Stage /\ After(x) \subseteq Done
          /\ DOMAIN ordered = 1 .. Len(ordered) /\ Len(ordered) \in Nat
          /\ DOMAIN ordered' = 1 .. (Len(ordered) + 1)
          /\ \A n \in DOMAIN ordered : ordered'[n] = ordered[n]
          /\ ordered'[Len(ordered) + 1] = x
    BY <1>2, TakeFacts
  <2>2. SUFFICES ASSUME NEW n \in DOMAIN ordered', NEW p \in Stage, Feeds(p, ordered'[n])
                 PROVE  \E m \in 1 .. (n - 1) : ordered'[m] = p
    BY <1>1 DEF ProducersFirst, Stage
  <2>3. CASE n \in DOMAIN ordered
    <3>1. PICK m \in 1 .. (n - 1) : ordered[m] = p
      BY <2>1, <2>2, <2>3 DEF ProducersFirst
    <3>2. m \in DOMAIN ordered
      BY <2>1, <2>3
    <3>3. QED
      BY <2>1, <3>1, <3>2
  <2>4. CASE n = Len(ordered) + 1
    <3>1. p \in Done
      BY <2>1, <2>2, <2>4, AfterFeeds
    <3>2. PICK m \in DOMAIN ordered : ordered[m] = p
      BY <3>1 DEF Done, Range
    <3>3. m \in 1 .. (n - 1)
      BY <2>1, <2>4
    <3>4. QED
      BY <2>1, <3>2, <3>3
  <2>5. QED
    BY <2>1, <2>3, <2>4
<1>3. CASE ordered' = ordered
  BY <1>1, <1>3 DEF ProducersFirst, Stage
<1>4. QED
  BY <1>2, <1>3 DEF Next, ReportCycle, Return, vars

\* What made a smaller stage wait is placed between the one that overtook it and itself.
LEMMA TiesStep ==
    ASSUME TypeOK, SmallerWaits, TiesKeepOrder, [Next]_vars
    PROVE  TiesKeepOrder'
<1>1. \A p, s : Feeds(p, s)' <=> Feeds(p, s)
  BY DEF Next, TakeReady, ReportCycle, Return, vars, inputs, Feeds
<1>2. CASE TakeReady
  <2>1. PICK x \in Ready :
          /\ x \in Stage /\ x \in remaining /\ After(x) \subseteq Done
          /\ DOMAIN ordered = 1 .. Len(ordered) /\ Len(ordered) \in Nat
          /\ DOMAIN ordered' = 1 .. (Len(ordered) + 1)
          /\ \A n \in DOMAIN ordered : ordered'[n] = ordered[n]
          /\ ordered'[Len(ordered) + 1] = x
    BY <1>2, TakeFacts
  <2>2. SUFFICES ASSUME NEW m \in DOMAIN ordered', NEW n \in DOMAIN ordered',
                        m < n, ordered'[n] < ordered'[m]
                 PROVE  \E k \in m .. (n - 1) : Feeds(ordered'[k], ordered'[n])
    BY <1>1 DEF TiesKeepOrder
  <2>3. m \in DOMAIN ordered
    BY <2>1, <2>2
  <2>4. CASE n \in DOMAIN ordered
    <3>1. PICK k \in m .. (n - 1) : Feeds(ordered[k], ordered[n])
      BY <2>1, <2>2, <2>3, <2>4 DEF TiesKeepOrder
    <3>2. k \in DOMAIN ordered
      BY <2>1, <2>3, <2>4
    <3>3. QED
      BY <2>1, <2>4, <3>1, <3>2
  <2>5. CASE n = Len(ordered) + 1
    <3>1. PICK p \in After(x) : \A i \in 1 .. (m - 1) : ordered[i] # p
      BY <2>1, <2>2, <2>3, <2>5 DEF SmallerWaits
    <3>2. PICK k \in DOMAIN ordered : ordered[k] = p
      BY <2>1, <3>1 DEF Done, Range
    <3>3. k \in m .. (n - 1)
      BY <2>1, <2>3, <2>5, <3>1, <3>2
    <3>4. Feeds(p, x)
      BY <2>1, <3>1, AfterFeeds DEF After
    <3>5. QED
      BY <2>1, <2>5, <3>2, <3>3, <3>4
  <2>6. QED
    BY <2>1, <2>4, <2>5
<1>3. CASE ordered' = ordered
  BY <1>1, <1>3 DEF TiesKeepOrder
<1>4. QED
  BY <1>2, <1>3 DEF Next, ReportCycle, Return, vars

-----------------------------------------------------------------------------

\* All of it holds throughout the loop of order_stages.
LEMMA Invariant == Spec => []IInv
<1>1. Init => IInv
  <2>1. SUFFICES ASSUME Init PROVE IInv
    OBVIOUS
  <2>2. ordered \in Seq(Stage) /\ DOMAIN ordered = {}
    BY <2>1 DEF Init
  <2>3. Done = {}
    BY <2>2 DEF Done, Range
  <2>4. QED
    BY <2>1, <2>2, <2>3 DEF Init, IInv, TypeOK, NoRepeats, CirclesUntouched, SmallerWaits,
                            Ends, ProducersFirst, TiesKeepOrder
<1>2. IInv /\ [Next]_vars => IInv'
  BY TypeStep, NoRepeatsStep, CirclesStep, SmallerStep, EndsStep, ProducersStep, TiesStep
  DEF IInv
<1>3. QED
  BY <1>1, <1>2, PTL DEF Spec

\* The list, what remains and the verdict are what their types say (order_stages,
\* orchestrator.py:78-88).
THEOREM TypeCorrect == Spec => []TypeOK
<1>1. IInv => TypeOK
  BY DEF IInv
<1>2. QED
  BY <1>1, Invariant, PTL

\* Every stage comes after all producers of what it consumes, for any stages.
THEOREM ProducersFirstCorrect == Spec => []ProducersFirst
<1>1. IInv => ProducersFirst
  BY DEF IInv
<1>2. QED
  BY <1>1, Invariant, PTL

\* What is returned lists every stage once.
THEOREM CompleteCorrect == Spec => []Complete
<1>1. IInv => Complete
  BY DEF IInv, Ends, TypeOK, Done, Range, Complete, NoRepeats
<1>2. QED
  BY <1>1, Invariant, PTL

\* A cycle is reported exactly when there is one: what remains is a circle, and no
\* stage of a circle is ever taken.
THEOREM CycleExactCorrect == Spec => []CycleExact
<1>1. IInv => CycleExact
  <2>1. SUFFICES ASSUME IInv PROVE CycleExact
    OBVIOUS
  <2>2. ASSUME outcome = "cycle" PROVE Cyclic
    <3>1. remaining # {} /\ Ready = {} /\ remaining = Stage \ Done
      BY <2>1, <2>2 DEF IInv, Ends, TypeOK
    <3>2. \A s \in remaining : \E p \in After(s) : p \in remaining
      BY <3>1 DEF Ready, After
    <3>3. \A s \in remaining : \E p \in remaining : Feeds(p, s)
      BY <3>1, <3>2, AfterFeeds
    <3>4. QED
      BY <3>1, <3>3 DEF Cyclic
  <2>3. ASSUME outcome = "ordered", Cyclic PROVE FALSE
    <3>1. PICK S \in SUBSET Stage : S # {} /\ Circular(S)
      BY <2>3 DEF Cyclic, Circular
    <3>2. Stage = Done
      BY <2>1, <2>3 DEF IInv, Ends, TypeOK, Done, Range
    <3>3. QED
      BY <2>1, <3>1, <3>2 DEF IInv, CirclesUntouched
  <2>4. QED
    BY <2>2, <2>3 DEF CycleExact
<1>2. QED
  BY <1>1, Invariant, PTL

\* Ties keep the order of the list: only a missing producer lets a later stage pass.
THEOREM TiesKeepOrderCorrect == Spec => []TiesKeepOrder
<1>1. IInv => TiesKeepOrder
  BY DEF IInv
<1>2. QED
  BY <1>1, Invariant, PTL

-----------------------------------------------------------------------------
(* A command on the ordered stages *)

\* A command line as the program keeps it.
Loaded(c) ==
    \E f \in Files, e \in Environs, s \in Overrides :
        c.environ = e /\ c.config = LoadConfig(f, e, s)

CommandSound(c) ==
    /\ DOMAIN c = {"from", "only", "until", "run", "id", "environ", "config", "report"}
    /\ c.run \in Dir \cup {None} /\ c.id \in RunId
    /\ Loaded(c)
    /\ ~ NeedsRun(c) /\ ~ Misused(c)

\* A preflight has failed, and the hint is about what it found.
Unavailable ==
    pc = "unavailable" =>
        CommandSound(cmd) /\ Problems(cmd) # {} /\ hint = HintOf(cmd)

\* How far a new run's directory has come.
Creating ==
    /\ pc \in {"new", "made", "described"} => CommandSound(cmd) /\ cmd.run = None
    /\ pc = "open" => CommandSound(cmd) /\ cmd.run # None
    /\ pc = "running" => CommandSound(cmd)
    /\ pc \in {"made", "described"} =>
          DOMAIN runs[Where] = {"snapshot", "manifest"} /\ ~ runs[Where].manifest
    /\ pc = "described" => runs[Where].snapshot = cmd.config

\* A configuration has every section, and is not None.
Whole(config) ==
    /\ config # None /\ DOMAIN Defaults \subseteq DOMAIN config
    /\ config = [k \in DOMAIN config |-> config[k]]

\* A run with a manifest has the whole snapshot it was created with.
RunsSound ==
    /\ DOMAIN runs = Dir
    /\ \A d \in Dir : IsRun(d) => Whole(runs[d].snapshot)

RunInv ==
    /\ IInv
    /\ pc # "idle" => outcome = "ordered"
    /\ Unavailable /\ Creating /\ RunsSound /\ ResumesWhatWasCreated

-----------------------------------------------------------------------------
(* Least and greatest elements *)

\* A set of numbers has a least element: the intervals below its elements are finite
\* sets, which are well-founded by inclusion.
LEMMA LeastExists ==
    ASSUME NEW T \in SUBSET Nat, T # {}
    PROVE  \E x \in T : \A y \in T : x <= y
<1> DEFINE R == StrictSubsetOrdering(Nat)
           Below == {1 .. n : n \in T}
<1>1. IsWellFoundedOn(R, FiniteSubsetsOf(Nat))
  BY FS_StrictSubsetOrderingWellFounded
<1>2. Below \subseteq FiniteSubsetsOf(Nat) /\ Below # {}
  <2>1. \A n \in T : 1 .. n \subseteq Nat /\ IsFiniteSet(1 .. n)
    BY FS_Interval
  <2>2. QED
    BY <2>1 DEF FiniteSubsetsOf
<1>3. \E b \in Below : \A c \in Below : ~ (<<c, b>> \in R)
  <2> HIDE DEF R, Below
  <2>1. QED
    BY <1>1, <1>2, WFMin
<1>4. PICK x \in T : \A y \in T : ~ (<<1 .. y, 1 .. x>> \in R)
  BY <1>3
<1>5. ASSUME NEW y \in T, y < x PROVE FALSE
  <2>1. 1 .. y \subseteq 1 .. x /\ x \in 1 .. x /\ x \notin 1 .. y
    BY <1>5
  <2>2. 1 .. y \in SUBSET Nat /\ 1 .. x \in SUBSET Nat
    OBVIOUS
  <2>3. <<1 .. y, 1 .. x>> \in R
    BY <2>1, <2>2 DEF StrictSubsetOrdering
  <2>4. QED
    BY <1>4, <2>3
<1>6. QED
  BY <1>5

LEMMA GreatestExists ==
    ASSUME NEW N \in Nat, NEW T \in SUBSET (1 .. N), T # {}
    PROVE  \E x \in T : \A y \in T : y <= x
<1> DEFINE Gap == {N - x : x \in T}
<1>1. Gap \in SUBSET Nat /\ Gap # {}
  <2>1. \A x \in T : N - x \in Nat
    OBVIOUS
  <2>2. QED
    BY <2>1
<1>2. PICK g \in Gap : \A h \in Gap : g <= h
  <2> HIDE DEF Gap
  <2>1. QED
    BY <1>1, LeastExists
<1>3. PICK x \in T : g = N - x
  OBVIOUS
<1>4. \A y \in T : N - x <= N - y
  BY <1>2, <1>3
<1>5. QED
  BY <1>3, <1>4

-----------------------------------------------------------------------------
(* The order, and what is selected from it *)

\* The order lists every stage at one place.
LEMMA Places ==
    ASSUME IInv, outcome = "ordered"
    PROVE  /\ Len(ordered) = NumStages /\ DOMAIN ordered = 1 .. NumStages
           /\ ordered \in Seq(Stage)
           /\ \A n \in 1 .. NumStages : ordered[n] \in Stage /\ Position(ordered[n]) = n
           /\ \A s \in Stage : Position(s) \in 1 .. NumStages /\ ordered[Position(s)] = s
<1>1. ordered \in Seq(Stage) /\ Done = Stage
  <2>1. ordered \in Seq(Stage) /\ remaining = Stage \ Done /\ remaining = {}
    BY DEF IInv, TypeOK, Ends
  <2>2. Done \subseteq Stage
    BY <2>1 DEF Done, Range
  <2>3. QED
    BY <2>1, <2>2
<1>2. \A m, n \in DOMAIN ordered : ordered[m] = ordered[n] => m = n
  BY DEF IInv, NoRepeats
<1>3. DOMAIN ordered = 1 .. Len(ordered) /\ Len(ordered) \in Nat
  BY <1>1
<1>4. ordered \in Bijection(1 .. Len(ordered), Stage)
  <2>1. ordered \in [1 .. Len(ordered) -> Stage]
    BY <1>1
  <2>2. ordered \in Injection(1 .. Len(ordered), Stage)
    BY <1>2, <1>3, <2>1 DEF Injection, IsInjective
  <2>3. ordered \in Surjection(1 .. Len(ordered), Stage)
    BY <1>1, <1>3, <2>1 DEF Surjection, Done, Range
  <2>4. QED
    BY <2>2, <2>3 DEF Bijection
<1>5. Len(ordered) = NumStages
  <2>1. ASSUME NEW n \in Nat PROVE IsFiniteSet(1 .. n) /\ Cardinality(1 .. n) = n
    <3>1. IsFiniteSet(1 .. n) /\ Cardinality(1 .. n) = IF 1 > n THEN 0 ELSE n - 1 + 1
      BY FS_Interval
    <3>2. QED
      BY <3>1
  <2>2. ExistsBijection(1 .. Len(ordered), Stage)
    BY <1>4 DEF ExistsBijection
  <2>3. QED
    BY <1>3, <2>1, <2>2, FS_Bijection, NumStagesAssumption DEF Stage
<1>6. \A s \in Stage : Position(s) \in 1 .. NumStages /\ ordered[Position(s)] = s
  BY <1>1, <1>3, <1>5 DEF Position, Done, Range
<1>7. \A n \in 1 .. NumStages : ordered[n] \in Stage /\ Position(ordered[n]) = n
  BY <1>1, <1>2, <1>3, <1>5 DEF Position
<1>8. QED
  BY <1>1, <1>3, <1>5, <1>6, <1>7

\* What select_stages returns for options that are not misused: one stage, or those
\* between two places of the order.
LEMMA Selected ==
    ASSUME IInv, outcome = "ordered", NEW c, ~ Misused(c)
    PROVE  \/ /\ c.only \in Stage /\ c.until = None /\ Target(c) = c.only
              /\ SelectStages(c) = <<c.only>>
           \/ /\ c.only = None /\ Target(c) = c.from /\ c.from \in Stage \cup {None}
              /\ Start(c) \in 1 .. NumStages /\ End(c) \in Start(c) .. NumStages
              /\ SelectStages(c) = SubSeq(ordered, Start(c), End(c))
              /\ Len(SelectStages(c)) = End(c) - Start(c) + 1
              /\ DOMAIN SelectStages(c) = 1 .. (End(c) - Start(c) + 1)
              /\ \A i \in 1 .. (End(c) - Start(c) + 1) :
                    SelectStages(c)[i] = ordered[Start(c) + i - 1]
<1>1. c.from \in Stage \cup {None} /\ c.only \in Stage \cup {None} /\ c.until \in Stage \cup {None}
  BY DEF Misused
<1>2. CASE c.only # None
  BY <1>1, <1>2 DEF Misused, Target, SelectStages
<1>3. CASE c.only = None
  <2>1. Start(c) \in 1 .. NumStages \/ Start(c) = 1
    BY <1>1, Places DEF Start
  <2>2. End(c) \in 0 .. NumStages
    BY <1>1, Places, NumStagesAssumption DEF End
  <2>3. Start(c) <= End(c)
    BY <2>1, <2>2, NumStagesAssumption DEF Misused
  <2>4. Start(c) \in 1 .. NumStages /\ End(c) \in Start(c) .. NumStages
    BY <2>1, <2>2, <2>3, NumStagesAssumption
  <2>5. SelectStages(c) = SubSeq(ordered, Start(c), End(c))
    BY <1>3 DEF SelectStages
  <2>6. ASSUME NEW a \in 1 .. NumStages, NEW b \in a .. NumStages
        PROVE  /\ Len(SubSeq(ordered, a, b)) = b - a + 1
               /\ DOMAIN SubSeq(ordered, a, b) = 1 .. (b - a + 1)
               /\ \A i \in 1 .. (b - a + 1) : SubSeq(ordered, a, b)[i] = ordered[a + i - 1]
    BY Places, NumStagesAssumption
  <2>7. QED
    BY <1>1, <1>3, <2>4, <2>5, <2>6 DEF Target
<1>4. QED
  BY <1>2, <1>3

-----------------------------------------------------------------------------
(* What a new run selects, and what a hint proposes *)

\* The first stage of the order is fed by none, and a prefix of it feeds itself.
LEMMA PrefixFeedsItself ==
    ASSUME IInv, outcome = "ordered", NEW c, ~ Misused(c), ~ NeedsRun(c), c.run = None,
           NEW n \in DOMAIN SelectStages(c), NEW p \in Stage, Feeds(p, SelectStages(c)[n])
    PROVE  \E m \in 1 .. (n - 1) : SelectStages(c)[m] = p
<1>1. Target(c) \in {None, ordered[1]}
  BY DEF NeedsRun
<1>2. \A k \in 1 .. NumStages : Feeds(p, ordered[k]) => \E m \in 1 .. (k - 1) : ordered[m] = p
  BY Places DEF IInv, ProducersFirst
<1>3. CASE c.only \in Stage /\ Target(c) = c.only /\ SelectStages(c) = <<c.only>>
  <2>1. c.only = ordered[1]
    BY <1>1, <1>3, InvocationAssumption
  <2>2. n = 1 /\ SelectStages(c)[n] = ordered[1] /\ 1 \in 1 .. NumStages
    BY <1>3, <2>1, NumStagesAssumption DEF Stage
  <2>3. QED
    BY <1>2, <2>2
<1>4. CASE /\ Target(c) = c.from /\ c.from \in Stage \cup {None}
           /\ Start(c) \in 1 .. NumStages /\ End(c) \in Start(c) .. NumStages
           /\ DOMAIN SelectStages(c) = 1 .. (End(c) - Start(c) + 1)
           /\ \A i \in 1 .. (End(c) - Start(c) + 1) :
                 SelectStages(c)[i] = ordered[Start(c) + i - 1]
  <2>1. 1 \in 1 .. NumStages
    BY <1>4, NumStagesAssumption
  <2>2. Start(c) = 1
    BY <1>1, <1>4, <2>1, Places DEF Start
  <2>3. /\ n \in 1 .. End(c) /\ End(c) \in 1 .. NumStages
        /\ \A i \in 1 .. End(c) : SelectStages(c)[i] = ordered[i]
    BY <1>4, <2>2, NumStagesAssumption
  <2>4. PICK m \in 1 .. (n - 1) : ordered[m] = p
    BY <1>2, <2>3, NumStagesAssumption
  <2>5. m \in 1 .. End(c)
    BY <2>3, <2>4, NumStagesAssumption
  <2>6. QED
    BY <2>3, <2>4, <2>5
<1>5. QED
  BY <1>3, <1>4, Selected

\* The places of the runnable stages are places of the selection.
LEMMA SelectedLength ==
    ASSUME IInv, outcome = "ordered", NEW c, ~ Misused(c)
    PROVE  /\ Len(SelectStages(c)) \in Nat
           /\ DOMAIN SelectStages(c) = 1 .. Len(SelectStages(c))
           /\ Runnable(c) \in SUBSET (1 .. Len(SelectStages(c)))
           /\ \A n \in DOMAIN SelectStages(c) : SelectStages(c)[n] \in Stage
<1>1. CASE c.only \in Stage /\ SelectStages(c) = <<c.only>>
  BY <1>1 DEF Runnable
<1>2. CASE /\ Start(c) \in 1 .. NumStages /\ End(c) \in Start(c) .. NumStages
           /\ Len(SelectStages(c)) = End(c) - Start(c) + 1
           /\ DOMAIN SelectStages(c) = 1 .. (End(c) - Start(c) + 1)
           /\ \A i \in 1 .. (End(c) - Start(c) + 1) :
                 SelectStages(c)[i] = ordered[Start(c) + i - 1]
  <2>1. \A i \in 1 .. (End(c) - Start(c) + 1) : Start(c) + i - 1 \in 1 .. NumStages
    BY <1>2, NumStagesAssumption
  <2>2. \A i \in 1 .. (End(c) - Start(c) + 1) : SelectStages(c)[i] \in Stage
    BY <1>2, <2>1, Places
  <2>3. Len(SelectStages(c)) \in Nat
    BY <1>2, NumStagesAssumption
  <2>4. QED
    BY <1>2, <2>2, <2>3 DEF Runnable
<1>3. QED
  BY <1>1, <1>2, Selected

\* A hint is the last runnable stage; without one, nothing is runnable.
LEMMA HintIsLastRunnable ==
    ASSUME IInv, outcome = "ordered", NEW c, ~ Misused(c)
    PROVE  IF HintOf(c) = None THEN Runnable(c) = {}
           ELSE \E n \in Runnable(c) : HintOf(c) = SelectStages(c)[n]
<1>1. CASE Runnable(c) = {}
  BY <1>1 DEF HintOf
<1>2. CASE Runnable(c) # {}
  <2>1. \E n \in Runnable(c) : \A i \in Runnable(c) : i <= n
    BY <1>2, SelectedLength, GreatestExists
  <2>2. PICK n \in Runnable(c) : HintOf(c) = SelectStages(c)[n]
    BY <1>2, <2>1 DEF HintOf
  <2>3. HintOf(c) # None
    BY <2>2, SelectedLength, InvocationAssumption
  <2>4. QED
    BY <2>2, <2>3
<1>3. QED
  BY <1>1, <1>2

\* Without a hint, the first stage that has something to do is impossible.
LEMMA NoHint ==
    ASSUME IInv, outcome = "ordered", NEW c, ~ Misused(c), Problems(c) # {}, Runnable(c) = {}
    PROVE  LET sel == SelectStages(c)
               first == CHOOSE n \in DOMAIN sel : Applies(c, sel[n])
                            /\ \A i \in 1 .. (n - 1) : ~ Applies(c, sel[i])
           IN sel[first] \in Problems(c)
<1> DEFINE sel == SelectStages(c)
           T == {n \in DOMAIN sel : Applies(c, sel[n])}
           first == CHOOSE n \in DOMAIN sel : Applies(c, sel[n])
                        /\ \A i \in 1 .. (n - 1) : ~ Applies(c, sel[i])
<1>1. DOMAIN sel = 1 .. Len(sel) /\ Len(sel) \in Nat
  BY SelectedLength
<1>2. T \in SUBSET Nat /\ T # {}
  BY <1>1 DEF Problems, Range
<1>3. PICK n \in T : \A i \in T : n <= i
  <2> HIDE DEF T
  <2>1. QED
    BY <1>2, LeastExists
<1>4. n \in DOMAIN sel /\ Applies(c, sel[n]) /\ \A i \in 1 .. (n - 1) : ~ Applies(c, sel[i])
  BY <1>1, <1>3
<1>5. first \in DOMAIN sel /\ Applies(c, sel[first])
      /\ \A i \in 1 .. (first - 1) : ~ Applies(c, sel[i])
  BY <1>4
<1> HIDE DEF first, T
<1>6. SUFFICES ASSUME sel[first] \notin Problems(c) PROVE FALSE
  BY DEF first
<1>7. \A i \in 1 .. first : sel[i] \notin Problems(c)
  BY <1>1, <1>5, <1>6 DEF Problems
<1>8. first \in Runnable(c)
  BY <1>5, <1>7 DEF Runnable
<1>9. QED
  BY <1>8

\* With its hint as --until, the command is accepted and has no problem left.
LEMMA HintPasses ==
    ASSUME IInv, outcome = "ordered", NEW c, CommandSound(c), Problems(c) # {},
           NEW n \in Runnable(c),
           NEW retry, retry = [c EXCEPT !.until = SelectStages(c)[n]]
    PROVE  ~ NeedsRun(retry) /\ ~ Misused(retry) /\ Problems(retry) = {}
<1>1. ~ Misused(c) /\ ~ NeedsRun(c)
  BY DEF CommandSound
<1>2. /\ retry.from = c.from /\ retry.only = c.only /\ retry.run = c.run
      /\ retry.config = c.config /\ retry.report = c.report
      /\ retry.until = SelectStages(c)[n]
  BY DEF CommandSound
<1>3. /\ n \in DOMAIN SelectStages(c)
      /\ \A i \in 1 .. n : SelectStages(c)[i] \notin Problems(c)
  BY DEF Runnable
<1>4. ~ NeedsRun(retry)
  BY <1>1, <1>2 DEF NeedsRun, Target
<1>5. CASE c.only \in Stage /\ SelectStages(c) = <<c.only>>
  <2>1. n = 1 /\ c.only \notin Problems(c) /\ Range(<<c.only>>) = {c.only}
    BY <1>3, <1>5 DEF Range
  <2>2. QED
    BY <1>5, <2>1 DEF Problems
<1>6. CASE /\ c.only = None
           /\ Start(c) \in 1 .. NumStages /\ End(c) \in Start(c) .. NumStages
           /\ DOMAIN SelectStages(c) = 1 .. (End(c) - Start(c) + 1)
           /\ \A i \in 1 .. (End(c) - Start(c) + 1) :
                 SelectStages(c)[i] = ordered[Start(c) + i - 1]
  <2> DEFINE place == Start(c) + n - 1
  <2>1. n \in 1 .. (End(c) - Start(c) + 1) /\ place \in 1 .. NumStages /\ Start(c) <= place
    BY <1>3, <1>6, NumStagesAssumption
  <2>2. retry.until = ordered[place]
    BY <1>2, <1>6, <2>1
  <2>3. retry.until \in Stage /\ Position(retry.until) = place
    BY <2>1, <2>2, Places
  <2>4. Start(retry) = Start(c) /\ End(retry) = place
    BY <1>2, <2>3, InvocationAssumption DEF Start, End
  <2>5. ~ Misused(retry)
    BY <1>1, <1>2, <1>6, <2>1, <2>3, <2>4, NumStagesAssumption DEF Misused
  <2>6. /\ DOMAIN SelectStages(retry) = 1 .. n
        /\ \A i \in 1 .. n : SelectStages(retry)[i] = SelectStages(c)[i]
    <3>1. /\ DOMAIN SelectStages(retry) = 1 .. (place - Start(c) + 1)
          /\ \A i \in 1 .. (place - Start(c) + 1) :
                SelectStages(retry)[i] = ordered[Start(c) + i - 1]
      <4>1. retry.only \notin Stage
        BY <1>2, <1>6, InvocationAssumption
      <4>2. QED
        BY <2>4, <2>5, <4>1, Selected
    <3>2. place - Start(c) + 1 = n
      BY <1>6, <2>1, NumStagesAssumption
    <3>3. \A i \in 1 .. n : i \in 1 .. (End(c) - Start(c) + 1)
      BY <1>6, <2>1, NumStagesAssumption
    <3>4. QED
      BY <1>6, <3>1, <3>2, <3>3
  <2>7. \A i \in 1 .. n : SelectStages(c)[i] \in Range(SelectStages(c))
    BY <1>6, <2>1, NumStagesAssumption DEF Range
  <2>8. Problems(retry) = {}
    <3>1. ASSUME NEW i \in 1 .. n, SelectStages(retry)[i] \in Problems(retry) PROVE FALSE
      <4>1. SelectStages(c)[i] \in Problems(retry) /\ SelectStages(c)[i] \in Range(SelectStages(c))
        BY <2>6, <2>7, <3>1
      <4>2. SelectStages(c)[i] \in Problems(c)
        BY <1>2, <4>1 DEF Problems, Applies, Lacks
      <4>3. QED
        BY <1>3, <4>2
    <3>2. \A s \in Problems(retry) : \E i \in 1 .. n : s = SelectStages(retry)[i]
      BY <2>6 DEF Problems, Range
    <3>3. QED
      BY <3>1, <3>2
  <2>9. QED
    BY <1>4, <2>5, <2>8
<1>7. QED
  BY <1>1, <1>5, <1>6, Selected

-----------------------------------------------------------------------------
(* Configurations *)

LEMMA LoadedIsWhole ==
    ASSUME NEW c, Loaded(c)
    PROVE  Whole(c.config) /\ c.config.artifacts \in Path
<1>1. PICK f \in Files, e \in Environs, s \in Overrides : c.config = LoadConfig(f, e, s)
  BY DEF Loaded
<1>2. c.config # None
  BY <1>1, InvocationAssumption
<1>3. /\ DOMAIN c.config = ((DOMAIN Defaults \cup DOMAIN f) \cup DOMAIN e) \cup DOMAIN s
      /\ c.config = [k \in DOMAIN c.config |-> c.config[k]]
  BY <1>1 DEF LoadConfig, ApplyOverrides
<1>4. "artifacts" \in DOMAIN Defaults
  BY InvocationAssumption
<1>5. \E l \in {Defaults, f, e, s} :
        "artifacts" \in DOMAIN l /\ c.config["artifacts"] = l["artifacts"]
  BY <1>1, <1>4 DEF LoadConfig, ApplyOverrides
<1>6. c.config.artifacts \in Path
  BY <1>5 DEF Path, Layers
<1>7. QED
  BY <1>2, <1>3, <1>6 DEF Whole

\* A whole configuration that is loaded from a file, with no other layer, is itself.
LEMMA LoadsAsItIs ==
    ASSUME NEW config, Whole(config)
    PROVE  LoadConfig(config, << >>, << >>) = config
<1>1. DOMAIN << >> = {}
  OBVIOUS
<1>2. ASSUME NEW d PROVE ApplyOverrides(d, << >>) = [k \in DOMAIN d |-> d[k]]
  BY <1>1 DEF ApplyOverrides
<1>3. ApplyOverrides(Defaults, config) = [k \in DOMAIN config |-> config[k]]
  <2>1. DOMAIN Defaults \cup DOMAIN config = DOMAIN config
    BY DEF Whole
  <2>2. QED
    BY <2>1 DEF ApplyOverrides
<1>4. ApplyOverrides(Defaults, config) = config
  BY <1>3 DEF Whole
<1>5. ApplyOverrides(config, << >>) = config
  BY <1>2 DEF Whole
<1>6. QED
  BY <1>4, <1>5 DEF LoadConfig

LEMMA WhereIsADirectory ==
    ASSUME CommandSound(cmd)
    PROVE  Where \in Dir
<1>1. cmd.config.artifacts \in Path
  BY LoadedIsWhole DEF CommandSound
<1>2. QED
  BY <1>1 DEF CommandSound, Where, Dir

-----------------------------------------------------------------------------
(* Steps *)

\* What a command that only requires capabilities answers: that they are usable, or
\* the name of one that is not.
LEMMA Replies ==
    ASSUME NEW report, NEW name \in DOMAIN Requirements
    PROVE  Require(report, Requirements[name]) \in
             {"usable", "nvidia_gpu", "tensorrt", "torch_cuda", "docker",
              "docker_nvidia_runtime", "tritonclient"}
<1> DEFINE names == Requirements[name]
           Names == {"nvidia_gpu", "tensorrt", "torch_cuda", "docker",
                     "docker_nvidia_runtime", "tritonclient"}
<1>1. names \in Seq(Names)
  <2>1. Tensorrt \in Seq(Names) /\ "torch_cuda" \in Names
    BY DEF Tensorrt
  <2>2. Append(Tensorrt, "torch_cuda") \in Seq(Names)
    BY <2>1
  <2>3. /\ <<"docker", "docker_nvidia_runtime">> \in Seq(Names)
        /\ <<"docker">> \in Seq(Names) /\ <<"tritonclient">> \in Seq(Names)
    OBVIOUS
  <2> HIDE DEF Names
  <2>4. names \in {Tensorrt, Append(Tensorrt, "torch_cuda"),
                  <<"docker", "docker_nvidia_runtime">>, <<"docker">>, <<"tritonclient">>}
    BY DEF Requirements
  <2> HIDE DEF names
  <2>5. QED
    BY <2>1, <2>2, <2>3, <2>4
<1>2. Lacking(report, names) \in SUBSET Nat /\ Lacking(report, names) \subseteq DOMAIN names
  <2> HIDE DEF names, Names
  <2>1. QED
    BY <1>1 DEF Lacking
<1>3. CASE Lacking(report, names) = {}
  BY <1>3 DEF Require
<1>4. CASE Lacking(report, names) # {}
  <2> DEFINE first == CHOOSE n \in Lacking(report, names) :
                        \A i \in Lacking(report, names) : n <= i
  <2> HIDE DEF names
  <2>1. \E n \in Lacking(report, names) : \A i \in Lacking(report, names) : n <= i
    BY <1>2, <1>4, LeastExists
  <2>2. first \in DOMAIN names
    BY <1>2, <2>1
  <2>3. names[first] \in Names
    <3> HIDE DEF first, Names
    <3>1. QED
      BY <1>1, <2>2
  <2>4. Require(report, names) = names[first]
    BY <1>4 DEF Require
  <2>5. QED
    BY <2>3, <2>4 DEF names
<1>5. QED
  BY <1>3, <1>4

\* A step of a command is a stutter of the ordering.
LEMMA StepOrders ==
    ASSUME [InvocationNext]_invocationVars
    PROVE  [Next]_vars
BY DEF InvocationNext, invocationVars, Order, Refuse, DryRun, PreflightFails, PreflightPasses,
       Answer, Doctor, RequireCapabilities, OpenFails, RefuseToResume, Resume, Goto,
       CreateFails, MakeDirectory, WriteSnapshot, WriteManifest, Crash, Finish

\* As long as the order stays, what a command selects and lacks stays.
LEMMA Frame ==
    ASSUME UNCHANGED vars
    PROVE  /\ outcome' = outcome
           /\ \A c : CommandSound(c)' <=> CommandSound(c)
           /\ \A c : Problems(c)' = Problems(c)
           /\ \A c : HintOf(c)' = HintOf(c)
<1>1. ordered' = ordered /\ outcome' = outcome
  BY DEF vars
<1>2. \A s : Position(s)' = Position(s)
  BY <1>1 DEF Position
<1>3. \A c : Start(c)' = Start(c) /\ End(c)' = End(c)
  BY <1>2 DEF Start, End
<1>4. \A c : (NeedsRun(c)' <=> NeedsRun(c)) /\ (Misused(c)' <=> Misused(c))
  BY <1>1, <1>3 DEF NeedsRun, Misused
<1>5. \A c : SelectStages(c)' = SelectStages(c)
  BY <1>1, <1>3 DEF SelectStages
<1>6. \A c : Problems(c)' = Problems(c)
  BY <1>5 DEF Problems
<1>7. \A c : Runnable(c)' = Runnable(c)
  BY <1>5, <1>6 DEF Runnable
<1>8. \A c : HintOf(c)' = HintOf(c)
  <2>1. TAKE c
  <2> DEFINE Last(R) == CHOOSE n \in R : \A i \in R : i <= n
  <2>2. SelectStages(c)' = SelectStages(c) /\ Runnable(c)' = Runnable(c)
    BY <1>5, <1>7
  <2>3. HintOf(c) = IF Runnable(c) = {} THEN None ELSE SelectStages(c)[Last(Runnable(c))]
    BY DEF HintOf
  <2>4. HintOf(c)' = IF Runnable(c)' = {} THEN None ELSE SelectStages(c)'[Last(Runnable(c)')]
    BY DEF HintOf
  <2> HIDE DEF Last
  <2>5. QED
    BY <2>2, <2>3, <2>4
<1>9. \A c : CommandSound(c)' <=> CommandSound(c)
  BY <1>4 DEF CommandSound
<1>10. QED
  BY <1>1, <1>6, <1>8, <1>9

\* In every step but those of the ordering, the order is complete and stays.
LEMMA OrderIsDone ==
    ASSUME RunInv, [InvocationNext]_invocationVars, ~ Order
    PROVE  UNCHANGED vars
BY DEF InvocationNext, invocationVars, Refuse, DryRun, PreflightFails, PreflightPasses,
       Answer, Doctor, RequireCapabilities, OpenFails, RefuseToResume, Resume, Goto,
       CreateFails, MakeDirectory, WriteSnapshot, WriteManifest, Crash, Finish

\* What is accepted is sound.
LEMMA AcceptedIsSound ==
    ASSUME NEW c \in Accepted
    PROVE  CommandSound(c)
<1>1. c \in Commands /\ ~ NeedsRun(c) /\ ~ Misused(c)
  BY DEF Accepted
<1>2. PICK o \in Options, r \in Dir \cup {None}, i \in RunId, f \in Files, e \in Environs,
           s \in Overrides, m \in Machines :
        c = [from |-> o.from, only |-> o.only, until |-> o.until, run |-> r, id |-> i,
             environ |-> e, config |-> LoadConfig(f, e, s), report |-> ProbeAll(m)]
  BY <1>1 DEF Commands
<1>3. /\ DOMAIN c = {"from", "only", "until", "run", "id", "environ", "config", "report"}
      /\ c.run \in Dir \cup {None} /\ c.id \in RunId
      /\ c.environ = e /\ c.config = LoadConfig(f, e, s)
  BY <1>2
<1>4. QED
  BY <1>1, <1>3 DEF CommandSound, Loaded

\* What the command lines that are answered at once leave behind.
LEMMA AnswerStep ==
    ASSUME RunInv, UNCHANGED <<vars, runs>>, outcome = "ordered",
           pc' \notin {"unavailable", "new", "made", "described", "open", "running"}
    PROVE  (pc # "idle" => outcome = "ordered")' /\ Unavailable' /\ Creating' /\ RunsSound'
           /\ ResumesWhatWasCreated'
BY DEF RunInv, vars, Unavailable, Creating, RunsSound, IsRun, Whole, ResumesWhatWasCreated

\* Writing one file of a run directory.
LEMMA Written ==
    ASSUME NEW dir, DOMAIN dir = {"snapshot", "manifest"}, NEW x
    PROVE  /\ DOMAIN [dir EXCEPT !.snapshot = x] = {"snapshot", "manifest"}
           /\ [dir EXCEPT !.snapshot = x].snapshot = x
           /\ [dir EXCEPT !.snapshot = x].manifest = dir.manifest
           /\ [dir EXCEPT !.manifest = x].snapshot = dir.snapshot
           /\ [dir EXCEPT !.manifest = x].manifest = x
OBVIOUS

LEMMA RunStep ==
    ASSUME RunInv, IInv', [InvocationNext]_invocationVars
    PROVE  RunInv'
<1> DEFINE Goal == /\ (pc # "idle" => outcome = "ordered")'
                   /\ Unavailable' /\ Creating' /\ RunsSound' /\ ResumesWhatWasCreated'
<1> SUFFICES Goal
  BY DEF RunInv
<1>a. pc # "idle" => outcome = "ordered"
  BY DEF RunInv
<1>1. CASE Order
  <2>1. pc = "idle" /\ pc' = "idle" /\ runs' = runs
    BY <1>1, <1>a DEF Order, command, Next, TakeReady, ReportCycle, Return
  <2>2. RunsSound
    BY DEF RunInv
  <2>3. RunsSound'
    BY <2>1, <2>2 DEF RunsSound, IsRun, Whole
  <2>4. QED
    BY <2>1, <2>3 DEF Unavailable, Creating, ResumesWhatWasCreated
<1>2. CASE UNCHANGED invocationVars
  <2>1. UNCHANGED <<vars, pc, cmd, hint, runs>>
    BY <1>2 DEF invocationVars, command
  <2>2. Where' = Where
    BY <2>1 DEF Where
  <2>3. QED
    BY <2>1, <2>2, Frame DEF RunInv, Unavailable, Creating, RunsSound, IsRun, Whole,
       ResumesWhatWasCreated, Compared
<1>3. CASE Refuse \/ DryRun \/ Doctor
  BY <1>3, AnswerStep DEF Refuse, DryRun, Doctor, AtPrompt, Answer
<1>4. CASE RequireCapabilities
  <2>1. /\ outcome = "ordered" /\ UNCHANGED <<vars, runs>>
        /\ \E name \in DOMAIN Requirements, m \in Machines :
              pc' = Require(ProbeAll(m), Requirements[name])
    BY <1>4 DEF RequireCapabilities, AtPrompt, Answer
  <2>2. pc' \notin {"unavailable", "new", "made", "described", "open", "running"}
    BY <2>1, Replies
  <2>3. QED
    BY <2>1, <2>2, AnswerStep
<1>5. CASE PreflightFails
  <2>1. PICK c \in Accepted : Problems(c) # {} /\ hint' = HintOf(c) /\ Answer(c, "unavailable")
    BY <1>5 DEF PreflightFails
  <2>2. cmd' = c /\ pc' = "unavailable" /\ UNCHANGED <<vars, runs>> /\ outcome = "ordered"
    BY <1>5, <2>1 DEF Answer, PreflightFails, AtPrompt
  <2>3. CommandSound(c)' /\ Problems(c)' # {} /\ hint' = HintOf(c)'
    BY <2>1, <2>2, AcceptedIsSound, Frame
  <2>4. Unavailable'
    BY <2>2, <2>3 DEF Unavailable
  <2>5. QED
    BY <2>2, <2>4, Frame DEF RunInv, Creating, RunsSound, IsRun, Whole, ResumesWhatWasCreated
<1>6. CASE PreflightPasses
  <2>1. PICK c \in Accepted : Answer(c, IF c.run = None THEN "new" ELSE "open")
    BY <1>6 DEF PreflightPasses
  <2>2. /\ cmd' = c /\ pc' = (IF c.run = None THEN "new" ELSE "open")
        /\ UNCHANGED <<vars, runs>> /\ outcome = "ordered"
    BY <1>6, <2>1 DEF Answer, PreflightPasses, AtPrompt
  <2>3. CommandSound(c)'
    BY <2>2, AcceptedIsSound, Frame
  <2>4. Creating'
    BY <2>2, <2>3 DEF Creating
  <2>5. QED
    BY <2>2, <2>4, Frame DEF RunInv, Unavailable, RunsSound, IsRun, Whole,
       ResumesWhatWasCreated
<1>7. CASE OpenFails \/ RefuseToResume \/ CreateFails \/ Crash
  <2>1. /\ outcome = "ordered" /\ UNCHANGED <<vars, runs>>
        /\ pc' \in {"not_a_run", "differs", "exists", "killed"}
    BY <1>7, <1>a DEF OpenFails, RefuseToResume, CreateFails, Crash, Goto
  <2>2. QED
    BY <2>1, AnswerStep
<1>8. CASE Finish
  <2>1. outcome = "ordered" /\ UNCHANGED <<vars, runs>> /\ pc' = "idle"
    BY <1>8, <1>a DEF Finish
  <2>2. QED
    BY <2>1, AnswerStep
<1>9. CASE Resume
  <2>1. /\ pc = "open" /\ IsRun(cmd.run) /\ ~ Differs(cmd) /\ outcome = "ordered"
        /\ pc' = "running" /\ UNCHANGED <<vars, cmd, hint, runs>>
    BY <1>9, <1>a DEF Resume, Goto
  <2>2. CommandSound(cmd) /\ cmd.run # None /\ Where = cmd.run /\ cmd.run \in Dir
    BY <2>1 DEF RunInv, Creating, CommandSound, Where
  <2>3. Whole(runs[cmd.run].snapshot) /\ runs[cmd.run].manifest
    BY <2>1, <2>2 DEF RunInv, RunsSound, IsRun
  <2>4. cmd.environ = << >> => Compared(runs[cmd.run].snapshot) = Compared(cmd.config)
    BY <2>1, <2>3, LoadsAsItIs DEF Differs
  <2>5. cmd' = cmd /\ runs' = runs /\ Where' = Where
    BY <2>1 DEF Where
  <2>6. ResumesWhatWasCreated'
    <3>1. Compared(runs'[Where'].snapshot) = Compared(runs[cmd.run].snapshot)
      BY <2>2, <2>5
    <3>2. QED
      BY <2>2, <2>3, <2>4, <2>5, <3>1 DEF ResumesWhatWasCreated, Whole, Compared
  <2>7. CommandSound(cmd)'
    BY <2>1, <2>2, Frame
  <2>8. QED
    BY <2>1, <2>6, <2>7, Frame DEF RunInv, Unavailable, Creating, RunsSound, IsRun, Whole
<1>10. CASE MakeDirectory
  <2>1. /\ pc = "new" /\ outcome = "ordered" /\ pc' = "made" /\ UNCHANGED <<vars, cmd, hint>>
        /\ runs' = [runs EXCEPT ![Where] = [snapshot |-> None, manifest |-> FALSE]]
    BY <1>10, <1>a DEF MakeDirectory, Goto
  <2>2. CommandSound(cmd) /\ cmd.run = None /\ Where \in Dir /\ DOMAIN runs = Dir
    BY <2>1, WhereIsADirectory DEF RunInv, Creating, RunsSound
  <2>3. /\ Where' = Where /\ DOMAIN runs'[Where] = {"snapshot", "manifest"}
        /\ ~ runs'[Where].manifest
    BY <2>1, <2>2 DEF Where
  <2>4. \A d \in Dir \ {Where} : runs'[d] = runs[d]
    BY <2>1, <2>2
  <2>5. RunsSound'
    <3>1. DOMAIN runs' = Dir
      BY <2>1, <2>2
    <3>2. \A d \in Dir : IsRun(d)' => d # Where /\ IsRun(d) /\ runs'[d] = runs[d]
      BY <2>3, <2>4 DEF IsRun
    <3>3. \A d \in Dir : IsRun(d) => Whole(runs[d].snapshot)
      BY DEF RunInv, RunsSound
    <3>4. \A d \in Dir : IsRun(d)' => Whole(runs'[d].snapshot)
      BY <3>2, <3>3
    <3>5. QED
      BY <3>1, <3>4 DEF RunsSound, Whole
  <2>6. CommandSound(cmd)'
    BY <2>1, <2>2, Frame
  <2>7. Creating'
    BY <2>1, <2>2, <2>3, <2>6 DEF Creating
  <2>8. QED
    BY <2>1, <2>5, <2>7, Frame DEF Unavailable, ResumesWhatWasCreated
<1>11. CASE WriteSnapshot
  <2>1. /\ pc = "made" /\ outcome = "ordered" /\ pc' = "described"
        /\ UNCHANGED <<vars, cmd, hint>>
        /\ runs' = [runs EXCEPT ![Where].snapshot = cmd.config]
    BY <1>11, <1>a DEF WriteSnapshot, Goto
  <2>2. /\ CommandSound(cmd) /\ cmd.run = None /\ Where \in Dir /\ DOMAIN runs = Dir
        /\ DOMAIN runs[Where] = {"snapshot", "manifest"} /\ ~ runs[Where].manifest
    BY <2>1, WhereIsADirectory DEF RunInv, Creating, RunsSound
  <2>3. /\ Where' = Where /\ DOMAIN runs'[Where] = {"snapshot", "manifest"}
        /\ runs'[Where].snapshot = cmd.config /\ ~ runs'[Where].manifest
    <3>1. runs'[Where] = [runs[Where] EXCEPT !.snapshot = cmd.config]
      BY <2>1, <2>2
    <3>2. QED
      BY <2>1, <2>2, <3>1, Written DEF Where
  <2>4. \A d \in Dir \ {Where} : runs'[d] = runs[d]
    BY <2>1, <2>2
  <2>5. RunsSound'
    <3>1. DOMAIN runs' = Dir
      BY <2>1, <2>2
    <3>2. \A d \in Dir : IsRun(d)' => d # Where /\ IsRun(d) /\ runs'[d] = runs[d]
      BY <2>3, <2>4 DEF IsRun
    <3>3. \A d \in Dir : IsRun(d) => Whole(runs[d].snapshot)
      BY DEF RunInv, RunsSound
    <3>4. \A d \in Dir : IsRun(d)' => Whole(runs'[d].snapshot)
      BY <3>2, <3>3
    <3>5. QED
      BY <3>1, <3>4 DEF RunsSound, Whole
  <2>6. CommandSound(cmd)'
    BY <2>1, <2>2, Frame
  <2>7. Creating'
    BY <2>1, <2>2, <2>3, <2>6 DEF Creating
  <2>8. QED
    BY <2>1, <2>5, <2>7, Frame DEF Unavailable, ResumesWhatWasCreated
<1>12. CASE WriteManifest
  <2>1. /\ pc = "described" /\ outcome = "ordered" /\ pc' = "running"
        /\ UNCHANGED <<vars, cmd, hint>>
        /\ runs' = [runs EXCEPT ![Where].manifest = TRUE]
    BY <1>12, <1>a DEF WriteManifest, Goto
  <2>2. /\ CommandSound(cmd) /\ cmd.run = None /\ Where \in Dir /\ DOMAIN runs = Dir
        /\ DOMAIN runs[Where] = {"snapshot", "manifest"}
        /\ runs[Where].snapshot = cmd.config
    BY <2>1, WhereIsADirectory DEF RunInv, Creating, RunsSound
  <2>3. /\ Where' = Where
        /\ runs'[Where].snapshot = cmd.config /\ runs'[Where].manifest
    <3>1. runs'[Where] = [runs[Where] EXCEPT !.manifest = TRUE]
      BY <2>1, <2>2
    <3>2. QED
      BY <2>1, <2>2, <3>1, Written DEF Where
  <2>4. \A d \in Dir \ {Where} : runs'[d] = runs[d]
    BY <2>1, <2>2
  <2>5. Whole(cmd.config)
    BY <2>2, LoadedIsWhole DEF CommandSound
  <2>6. RunsSound'
    <3>1. DOMAIN runs' = Dir
      BY <2>1, <2>2
    <3>2. \A d \in Dir \ {Where} : IsRun(d)' => IsRun(d) /\ runs'[d] = runs[d]
      BY <2>4 DEF IsRun
    <3>3. \A d \in Dir : IsRun(d) => Whole(runs[d].snapshot)
      BY DEF RunInv, RunsSound
    <3>4. \A d \in Dir : IsRun(d)' => Whole(runs'[d].snapshot)
      BY <2>3, <2>5, <3>2, <3>3
    <3>5. QED
      BY <3>1, <3>4 DEF RunsSound, Whole
  <2>7. CommandSound(cmd)'
    BY <2>1, <2>2, Frame
  <2>8. Creating'
    BY <2>1, <2>7 DEF Creating
  <2>9. ResumesWhatWasCreated'
    <3>1. runs'[Where'].snapshot = cmd.config /\ runs'[Where'].manifest /\ cmd' = cmd
      BY <2>1, <2>3
    <3>2. QED
      BY <2>5, <3>1 DEF ResumesWhatWasCreated, Whole, Compared
  <2>10. QED
    BY <2>1, <2>6, <2>8, <2>9, Frame DEF Unavailable
<1>13. QED
  BY <1>1, <1>2, <1>3, <1>4, <1>5, <1>6, <1>7, <1>8, <1>9, <1>10, <1>11, <1>12
     DEF InvocationNext

LEMMA OrderInvariant == InvocationSpec => []IInv
<1>1. InvocationInit => Init
  BY DEF InvocationInit
<1>2. [InvocationNext]_invocationVars => [Next]_vars
  BY StepOrders
<1>3. InvocationSpec => Spec
  BY <1>1, <1>2, PTL DEF InvocationSpec, Spec
<1>4. QED
  BY <1>3, Invariant, PTL

LEMMA RunInvariant == InvocationSpec => []RunInv
<1>1. InvocationInit /\ IInv => RunInv
  <2>1. SUFFICES ASSUME InvocationInit, IInv PROVE RunInv
    OBVIOUS
  <2>2. pc = "idle" /\ runs = [d \in Dir |-> None]
    BY <2>1 DEF InvocationInit
  <2>3. RunsSound
    BY <2>2 DEF RunsSound, IsRun
  <2>4. Unavailable /\ Creating /\ ResumesWhatWasCreated
    BY <2>2 DEF Unavailable, Creating, ResumesWhatWasCreated
  <2>5. QED
    BY <2>1, <2>2, <2>3, <2>4 DEF RunInv
<1>2. RunInv /\ IInv' /\ [InvocationNext]_invocationVars => RunInv'
  BY RunStep
<1>3. QED
  BY <1>1, <1>2, OrderInvariant, PTL DEF InvocationSpec

-----------------------------------------------------------------------------
(* Theorems *)

\* A failed preflight (orchestrator.py:153-163) proposes an --until value with which
\* the same command is accepted and finds nothing lacking; it proposes none only if
\* the first stage with something to do lacks something.
THEOREM HintWorksCorrect == InvocationSpec => []HintWorks
<1>1. RunInv => HintWorks
  <2>1. SUFFICES ASSUME RunInv, pc = "unavailable" PROVE HintWorks
    BY DEF HintWorks
  <2>2. /\ IInv /\ outcome = "ordered" /\ CommandSound(cmd) /\ ~ Misused(cmd)
        /\ Problems(cmd) # {} /\ hint = HintOf(cmd)
    BY <2>1 DEF RunInv, Unavailable, CommandSound
  <2>3. CASE hint = None
    <3>1. Runnable(cmd) = {}
      BY <2>2, <2>3, HintIsLastRunnable
    <3>2. QED
      BY <2>2, <2>3, <3>1, NoHint DEF HintWorks
  <2>4. CASE hint # None
    <3>1. PICK n \in Runnable(cmd) : hint = SelectStages(cmd)[n]
      BY <2>2, <2>4, HintIsLastRunnable
    <3>2. \A retry : retry = [cmd EXCEPT !.until = SelectStages(cmd)[n]] =>
            ~ NeedsRun(retry) /\ ~ Misused(retry) /\ Problems(retry) = {}
      BY <2>2, <3>1, HintPasses
    <3>3. QED
      BY <2>4, <3>1, <3>2 DEF HintWorks
  <2>5. QED
    BY <2>3, <2>4
<1>2. QED
  BY <1>1, RunInvariant, PTL

\* Nothing that another stage makes is missing in a new run: its producers are
\* selected before it (select_stages and the refusal of run_cmd.py).
THEOREM NewRunFeedsItselfCorrect == InvocationSpec => []NewRunFeedsItself
<1>1. RunInv => NewRunFeedsItself
  <2>1. SUFFICES ASSUME RunInv, pc = "running", cmd.run = None PROVE NewRunFeedsItself
    BY DEF NewRunFeedsItself
  <2>2. IInv /\ outcome = "ordered" /\ ~ NeedsRun(cmd) /\ ~ Misused(cmd)
    BY <2>1 DEF RunInv, Creating, CommandSound
  <2>3. QED
    BY <2>1, <2>2, PrefixFeedsItself DEF NewRunFeedsItself
<1>2. QED
  BY <1>1, RunInvariant, PTL

\* Only a run that was created whole is run or continued, and, as long as no
\* environment variable changes the configuration, with the one it was created with
\* (run_cmd.py, artifacts/run.py), wherever commands were killed.
THEOREM ResumesWhatWasCreatedCorrect == InvocationSpec => []ResumesWhatWasCreated
<1>1. RunInv => ResumesWhatWasCreated
  BY DEF RunInv
<1>2. QED
  BY <1>1, RunInvariant, PTL

=============================================================================
