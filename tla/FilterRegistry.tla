--------------------------- MODULE FilterRegistry ---------------------------
(***************************************************************************)
(* What a filter engine promises its caller about the Registry (spec.md 3  *)
(* and 6), stated without sessions, handles or engine calls.              *)
(*                                                                         *)
(*   registry : the identifiers the engine keeps for later removal         *)
(*   active   : the filters it installed that the platform still enforces *)
(*                                                                         *)
(* A submission makes fresh identifiers active and registered at once.    *)
(* Afterwards an identifier can stop being enforced without the registry  *)
(* noticing (a session closed under it), but it leaves the registry only  *)
(* in the step that removes its filter: the registry never forgets a      *)
(* filter that is still enforced.                                         *)
(***************************************************************************)
VARIABLES registry, active

vars == <<registry, active>>

Init == registry = {} /\ active = {}

\* Successful submissions: the new identifiers were never registered.
Submit ==
    LET new == active' \ active
    IN  /\ new # {}
        /\ new \cap registry = {}
        /\ registry' = registry \cup new

\* Deletions and session closes: filters stop being enforced; an
\* identifier is dropped from the registry only with its filter.
Remove ==
    /\ registry' \subseteq registry
    /\ active' \subseteq active
    /\ registry \ registry' \subseteq active \ active'

Next == Submit \/ Remove

Spec == Init /\ [][Next]_vars

\* Every enforced filter can still be reached through the registry.
Reachable == active \subseteq registry
=============================================================================
