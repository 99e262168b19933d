----------------------------- MODULE CacheEntry -----------------------------
(***************************************************************************)
(* What the shared cache promises for one key: the first build published   *)
(* under the key stays the one the key stands for ("first writer wins"),   *)
(* and a hit hands out that build and no other.                            *)
(***************************************************************************)
CONSTANTS Build,       \* executions of the stage
          NoBuild      \* none of them

VARIABLES published,   \* the build the key stands for, NoBuild before the first
          hits         \* the builds handed out so far

Init == published = NoBuild /\ hits = {}

Publish ==
    /\ published = NoBuild
    /\ published' \in Build
    /\ UNCHANGED hits

Hit ==
    /\ published # NoBuild
    /\ hits' = hits \cup {published}
    /\ UNCHANGED published

Next == Publish \/ Hit

Spec == Init /\ [][Next]_<<published, hits>>

=============================================================================
