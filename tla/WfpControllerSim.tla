-------------------------- MODULE WfpControllerSim --------------------------
(***************************************************************************)
(* WfpController on platforms without WFP (the `not(target_os =           *)
(* "windows")` builds): initialize, add_filters, delete_filters and       *)
(* cleanup only keep the filter_ids list; no engine is called.            *)
(***************************************************************************)
EXTENDS FilterRule, SequencesExt

CONSTANTS
    Batches,        \* rule lists a caller passes to add_filters
    Requests,       \* id lists a caller passes to delete_filters
    MaxRegistry     \* bound on the length of filter_ids

VARIABLES
    filter_ids,     \* WfpController.filter_ids
    result          \* value the last operation returned to the caller

vars == <<filter_ids, result>>

Ok(op, ids, count) == [op |-> op, ok |-> TRUE, ids |-> ids, count |-> count]

Init ==
    /\ filter_ids = <<>>
    /\ result = Ok("new", <<>>, 0)

(* initialize_non_windows: only log lines; always Ok.                    *)
Initialize ==
    /\ result' = Ok("initialize", <<>>, 0)
    /\ UNCHANGED filter_ids

(* add_filters_non_windows: the mock id of a rule is its 1-based position *)
(* in this batch; a rule failing validate() is skipped.  Always Ok, with  *)
(* the ids of the rules that passed.                                     *)
\* The mock id taken as the 0-based index (a mutation of MockIds).
MockIdsZeroBased(batch) ==
    SelectSeq([i \in 1 .. Len(batch) |-> IF Validate(batch[i]) THEN i - 1 ELSE -1],
              LAMBDA i : i # -1)

MockIds(batch) ==
    SelectSeq([i \in 1 .. Len(batch) |-> IF Validate(batch[i]) THEN i ELSE 0],
              LAMBDA i : i # 0)

AddFilters(batch) ==
    LET added == MockIds(batch)
    IN  /\ Len(filter_ids) + Len(added) <= MaxRegistry
        /\ filter_ids' = filter_ids \o added
        /\ result' = Ok("add", added, 0)

(* delete_filters_non_windows: each requested id found in filter_ids has  *)
(* its first occurrence removed and is counted; the others are skipped.  *)
(* Always Ok with the count.                                             *)
\* Counting an id also when it is not found (a mutation of DeleteEach).
RECURSIVE DeleteEachCountsMisses(_, _, _)
DeleteEachCountsMisses(ids, reg, count) ==
    IF ids = <<>> THEN [reg |-> reg, count |-> count]
    ELSE DeleteEachCountsMisses(Tail(ids), RemoveFirst(reg, Head(ids)), count + 1)

RECURSIVE DeleteEach(_, _, _)
DeleteEach(ids, reg, count) ==
    IF ids = <<>> THEN [reg |-> reg, count |-> count]
    ELSE IF Contains(reg, Head(ids))
         THEN DeleteEach(Tail(ids), RemoveFirst(reg, Head(ids)), count + 1)
         ELSE DeleteEach(Tail(ids), reg, count)

DeleteFilters(req) ==
    LET d == DeleteEach(req, filter_ids, 0)
    IN  /\ filter_ids' = d.reg
        /\ result' = Ok("delete", <<>>, d.count)

(* cleanup_non_windows: clears filter_ids; always Ok.                     *)
Cleanup ==
    /\ filter_ids' = <<>>
    /\ result' = Ok("cleanup", <<>>, 0)

Next ==
    \/ Initialize
    \/ \E b \in Batches : AddFilters(b)
    \/ \E r \in Requests : DeleteFilters(r)
    \/ Cleanup

Spec == Init /\ [][Next]_vars

-----------------------------------------------------------------------------

TypeOK ==
    /\ filter_ids \in Seq(Nat \ {0})
    /\ Len(filter_ids) <= MaxRegistry
    /\ result.op \in {"new", "initialize", "add", "delete", "cleanup"}

(* delete_filters reports as deleted exactly the entries it took out of   *)
(* filter_ids: the count equals the shrinkage of the registry and what    *)
(* is left is the old registry with those entries removed.               *)
DeleteCountMatches ==
    [][result'.op = "delete" =>
        /\ result'.count = Len(filter_ids) - Len(filter_ids')
        /\ ToBag(filter_ids') \sqsubseteq ToBag(filter_ids)]_vars

(* spec.md 3 and 9: filter ids are unique while installed, so deleting    *)
(* one id removes one filter.  The mock ids restart at 1 in every         *)
(* add_filters call, so a second batch reuses the first batch's ids.      *)
RegistryIdsUnique ==
    \A i, j \in 1 .. Len(filter_ids) : i # j => filter_ids[i] # filter_ids[j]
=============================================================================
