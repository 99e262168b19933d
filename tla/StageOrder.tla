----------------------------- MODULE StageOrder -----------------------------
(***************************************************************************)
(* order_stages() (pipeline/orchestrator.py): stages are ordered by the    *)
(* artifact types they produce and consume.  The loop takes, again and     *)
(* again, the first remaining stage whose producers are all done.  Stages  *)
(* are numbered by their position in the list that is passed in, whose     *)
(* names are distinct.                                                     *)
(***************************************************************************)
EXTENDS Naturals, Sequences, Functions

CONSTANTS NumStages, ArtifactType

ASSUME NumStagesAssumption == NumStages \in Nat

VARIABLES consumes,    \* stage -> types it requires or uses
          produces,    \* stage -> types it produces
          ordered, remaining, outcome

inputs == <<consumes, produces>>
vars == <<inputs, ordered, remaining, outcome>>

Stage == 1 .. NumStages

\* Mutant: a stage waits for itself.
AfterItself(s) == {p \in Stage : consumes[s] \cap produces[p] # {}}

\* The stages that must run before s: every other producer of what it consumes.
After(s) == {p \in Stage \ {s} : consumes[s] \cap produces[p] # {}}

Done == Range(ordered)
\* Mutant: one producer is enough.
ReadyAfterOne == {s \in remaining : After(s) = {} \/ After(s) \cap Done # {}}

Ready == {s \in remaining : After(s) \subseteq Done}

TypeOK ==
    /\ consumes \in [Stage -> SUBSET ArtifactType]
    /\ produces \in [Stage -> SUBSET ArtifactType]
    /\ ordered \in Seq(Stage)
    /\ remaining = Stage \ Done
    /\ outcome \in {"ordering", "ordered", "cycle"}

Init ==
    /\ consumes \in [Stage -> SUBSET ArtifactType]
    /\ produces \in [Stage -> SUBSET ArtifactType]
    /\ ordered = << >>
    /\ remaining = Stage
    /\ outcome = "ordering"

\* Mutant: the last stage that is ready is taken.
TakeLastReady ==
    /\ outcome = "ordering"
    /\ \E s \in Ready :
          /\ \A r \in Ready : r <= s
          /\ ordered' = Append(ordered, s)
          /\ remaining' = remaining \ {s}
    /\ UNCHANGED <<inputs, outcome>>

TakeReady ==
    /\ outcome = "ordering"
    /\ \E s \in Ready :
          /\ \A r \in Ready : s <= r
          /\ ordered' = Append(ordered, s)
          /\ remaining' = remaining \ {s}
    /\ UNCHANGED <<inputs, outcome>>

\* ConfigError: no remaining stage is ready.
ReportCycle ==
    /\ outcome = "ordering"
    /\ remaining # {} /\ Ready = {}
    /\ outcome' = "cycle"
    /\ UNCHANGED <<inputs, ordered, remaining>>

Return ==
    /\ outcome = "ordering"
    /\ remaining = {}
    /\ outcome' = "ordered"
    /\ UNCHANGED <<inputs, ordered, remaining>>

Next == TakeReady \/ ReportCycle \/ Return

Spec == Init /\ [][Next]_vars

-----------------------------------------------------------------------------
(* Properties *)

\* What the order has to respect: p makes something that s consumes.
Feeds(p, s) == p # s /\ produces[p] \cap consumes[s] # {}

\* Every stage comes after all producers of what it consumes
\* (orchestrator.py:64-65), at every point of the loop.
ProducersFirst ==
    \A n \in DOMAIN ordered : \A p \in Stage :
        Feeds(p, ordered[n]) => \E m \in 1 .. (n - 1) : ordered[m] = p

\* The result lists every stage exactly once.
Complete ==
    outcome = "ordered" =>
        /\ Done = Stage
        /\ \A m, n \in DOMAIN ordered : ordered[m] = ordered[n] => m = n

\* A cycle is reported exactly when there is one: a set of stages each of which
\* waits for another of the set (orchestrator.py:82-84).
Cyclic == \E S \in SUBSET Stage : S # {} /\ \A s \in S : \E p \in S : Feeds(p, s)
CycleExact ==
    /\ outcome = "cycle" => Cyclic
    /\ outcome = "ordered" => ~ Cyclic

\* "Ties keep the order of stages": a stage overtakes an earlier one of the list
\* only if that one still waits for a producer placed at or before the overtaker.
TiesKeepOrder ==
    \A m, n \in DOMAIN ordered :
        m < n /\ ordered[n] < ordered[m] =>
            \E k \in m .. (n - 1) : Feeds(ordered[k], ordered[n])

=============================================================================
