---------------------------- MODULE WfpController ----------------------------
(***************************************************************************)
(* WfpController on Windows: initialize, add_filters, delete_filters and *)
(* cleanup against the Windows Filtering Platform engine.                *)
(*                                                                         *)
(* The controller keeps the session handle (engine_handle) and the list  *)
(* of filter ids it installed (filter_ids).  The engine side is modelled  *)
(* by what those calls observe of it: the open sessions, the live filters *)
(* with the session that added them, and the next runtime filter id.     *)
(* The sessions are dynamic (FWPM_SESSION_FLAG_DYNAMIC): closing one      *)
(* removes every filter it added.  Filters of other WFP clients are live  *)
(* from the start (owner Other).                                          *)
(*                                                                         *)
(* Every engine call may fail for reasons outside the code (no elevation, *)
(* RPC errors, a filter the engine rejects); a call on a handle that is   *)
(* not an open session always fails.  Each operation is one action: the   *)
(* caller blocks until every engine call of it has returned.             *)
(***************************************************************************)
EXTENDS FilterCompiler, SequencesExt

CONSTANTS
    Handles,        \* session handles the engine can hand out
    NullHandle,     \* HANDLE::default(), the handle before initialize
    Other,          \* owner of the filters of other WFP clients
    ForeignIds,     \* runtime ids of those filters
    MaxFilterId,    \* bound on the runtime filter ids the engine assigns
    Batches,        \* rule lists a caller passes to add_filters
    Requests        \* id lists a caller passes to delete_filters

ASSUME NullHandle \notin Handles /\ ForeignIds \subseteq 1 .. MaxFilterId

VARIABLES
    engine_handle,  \* WfpController.engine_handle
    filter_ids,     \* WfpController.filter_ids
    sessions,       \* engine: open sessions
    live,           \* engine: live filters, [id, owner]
    nextId,         \* engine: next runtime filter id
    result          \* value the last operation returned to the caller

vars == <<engine_handle, filter_ids, sessions, live, nextId, result>>

LiveIds == {f.id : f \in live}

Ok(op, ids, count) == [op |-> op, ok |-> TRUE, ids |-> ids, count |-> count]
Err(op) == [op |-> op, ok |-> FALSE, ids |-> <<>>, count |-> 0]

Init ==
    /\ engine_handle = NullHandle
    /\ filter_ids = <<>>
    /\ sessions = {}
    /\ live = {[id |-> i, owner |-> Other] : i \in ForeignIds}
    /\ nextId = IF ForeignIds = {} THEN 1 ELSE Max(ForeignIds) + 1
    /\ result = [op |-> "new", ok |-> TRUE, ids |-> <<>>, count |-> 0]

-----------------------------------------------------------------------------
(* initialize_windows: FwpmEngineOpen0 with a dynamic session writes the  *)
(* new handle into engine_handle; on failure the handle is left as it     *)
(* was.  Nothing checks whether a session is already open.                *)
Initialize ==
    /\ \/ \E h \in Handles \ sessions :
             /\ engine_handle' = h
             /\ sessions' = sessions \cup {h}
             /\ result' = Ok("initialize", <<>>, 0)
       \/ /\ result' = Err("initialize")
          /\ UNCHANGED <<engine_handle, sessions>>
    /\ UNCHANGED <<filter_ids, live, nextId>>

(* The units add_filters_windows submits, in order: one FWPM_FILTER0 per *)
(* layer of each rule that passes validate(); a rule that fails is        *)
(* skipped.                                                                *)
Units(batch) ==
    FlattenSeq([i \in 1 .. Len(batch) |->
                    LET r == batch[i]
                        L == GetLayersForRule(r)
                    IN  IF Validate(r) THEN [k \in 1 .. Len(L) |-> Filter(r, L[k])]
                        ELSE <<>>])

(* How many units of a batch FwpmFilterAdd0 can accept: on an open       *)
(* session, those whose conditions fit their layer.                       *)
Addable(units) ==
    IF engine_handle \in sessions
    THEN Cardinality({k \in 1 .. Len(units) : EngineAccepts(units[k])})
    ELSE 0

(* add_filters_windows with the push and the count outside the match:   *)
(* a failed unit pushes the untouched filter_id 0 and counts as added     *)
(* (a mutation of AddFilters).                                            *)
AddFiltersPushesFailed(batch) ==
    LET units == Units(batch)
    IN  \E n \in 0 .. Addable(units) :
          LET added == [k \in 1 .. Len(units) |->
                            IF k <= n THEN nextId + k - 1 ELSE 0]
          IN  /\ nextId + n - 1 <= MaxFilterId
              /\ live' = live \cup {[id |-> added[k], owner |-> engine_handle]
                                      : k \in 1 .. n}
              /\ nextId' = nextId + n
              /\ filter_ids' = filter_ids \o added
              /\ result' = IF Len(units) > 0 THEN Ok("add", added, 0)
                           ELSE Err("add")
              /\ UNCHANGED <<engine_handle, sessions>>

(* add_filters_windows: FwpmFilterAdd0 once per unit.  Each success gets  *)
(* the engine's next runtime id, which is pushed onto filter_ids and the  *)
(* returned list; a failure is only logged.  Ok when something was added, *)
(* an error otherwise.  Which units fail does not change the state, only  *)
(* how many do: the ids are handed out in order.                         *)
AddFilters(batch) ==
    LET units == Units(batch)
    IN  \E n \in 0 .. Addable(units) :
          LET added == [k \in 1 .. n |-> nextId + k - 1]
          IN  /\ nextId + n - 1 <= MaxFilterId
              /\ live' = live \cup {[id |-> added[k], owner |-> engine_handle]
                                      : k \in 1 .. n}
              /\ nextId' = nextId + n
              /\ filter_ids' = filter_ids \o added
              /\ result' = IF n > 0 THEN Ok("add", added, 0) ELSE Err("add")
              /\ UNCHANGED <<engine_handle, sessions>>

(* FwpmFilterDeleteById0 on the controller's handle, for each id of ids in *)
(* order; fails[i] says the engine refused the i-th call.  A call succeeds *)
(* on an open session for any live filter, whoever added it.  Returns the *)
(* live filters left and the ids whose deletion succeeded.               *)
RECURSIVE DeleteEach(_, _, _, _)
DeleteEach(ids, fails, lv, done) ==
    IF ids = <<>> THEN [live |-> lv, deleted |-> done]
    ELSE LET x  == Head(ids)
             ok == /\ engine_handle \in sessions
                   /\ x \in {f.id : f \in lv}
                   /\ ~Head(fails)
         IN  DeleteEach(Tail(ids), Tail(fails),
                        IF ok THEN {f \in lv : f.id # x} ELSE lv,
                        IF ok THEN Append(done, x) ELSE done)

(* delete_filters_windows dropping every requested id from filter_ids,   *)
(* deleted by the engine or not (a mutation of DeleteFilters).           *)
DeleteFiltersDropsAll(req) ==
    \E fails \in [1 .. Len(req) -> BOOLEAN] :
        LET d == DeleteEach(req, fails, live, <<>>)
        IN  /\ live' = d.live
            /\ filter_ids' = FoldLeft(RemoveFirst, filter_ids, req)
            /\ result' = IF Len(d.deleted) > 0
                         THEN Ok("delete", <<>>, Len(d.deleted))
                         ELSE Err("delete")
            /\ UNCHANGED <<engine_handle, sessions, nextId>>

(* delete_filters_windows returning an error as soon as one engine call  *)
(* fails, after the deletions before it (a mutation of DeleteFilters).     *)
DeleteFiltersStopsAtFailure(req) ==
    \E fails \in [1 .. Len(req) -> BOOLEAN] :
        LET d == DeleteEach(req, fails, live, <<>>)
        IN  /\ live' = d.live
            /\ filter_ids' = FoldLeft(RemoveFirst, filter_ids, d.deleted)
            /\ result' = IF Len(d.deleted) = Len(req)
                         THEN Ok("delete", <<>>, Len(d.deleted))
                         ELSE Err("delete")
            /\ UNCHANGED <<engine_handle, sessions, nextId>>

(* delete_filters_windows: for each requested id that the engine deletes, *)
(* drop its first occurrence from filter_ids (if any) and count it.  Ok   *)
(* with the count when it is positive, an error otherwise.               *)
DeleteFilters(req) ==
    \E fails \in [1 .. Len(req) -> BOOLEAN] :
        LET d == DeleteEach(req, fails, live, <<>>)
        IN  /\ live' = d.live
            /\ filter_ids' = FoldLeft(RemoveFirst, filter_ids, d.deleted)
            /\ result' = IF Len(d.deleted) > 0
                         THEN Ok("delete", <<>>, Len(d.deleted))
                         ELSE Err("delete")
            /\ UNCHANGED <<engine_handle, sessions, nextId>>

(* cleanup_windows: FwpmFilterDeleteById0 for every id in filter_ids      *)
(* (failures logged), then FwpmEngineClose0, which closes the dynamic     *)
(* session and with it every filter the session added.  A close that      *)
(* fails (always on a handle that is not an open session) returns an     *)
(* error and leaves the session open.  filter_ids and engine_handle are   *)
(* left as they were in every case.                                      *)
Cleanup ==
    \E fails \in [1 .. Len(filter_ids) -> BOOLEAN] :
        LET d == DeleteEach(filter_ids, fails, live, <<>>)
        IN  /\ \/ /\ engine_handle \in sessions
                  /\ sessions' = sessions \ {engine_handle}
                  /\ live' = {f \in d.live : f.owner # engine_handle}
                  /\ result' = Ok("cleanup", <<>>, 0)
               \/ /\ live' = d.live
                  /\ result' = Err("cleanup")
                  /\ UNCHANGED sessions
            /\ UNCHANGED <<engine_handle, filter_ids, nextId>>

Next ==
    \/ Initialize
    \/ \E b \in Batches : AddFilters(b)
    \/ \E r \in Requests : DeleteFilters(r)
    \/ Cleanup

Spec == Init /\ [][Next]_vars

-----------------------------------------------------------------------------

TypeOK ==
    /\ engine_handle \in Handles \cup {NullHandle}
    /\ filter_ids \in Seq(1 .. MaxFilterId)
    /\ sessions \subseteq Handles
    /\ live \subseteq [id : 1 .. MaxFilterId, owner : Handles \cup {Other}]
    /\ nextId \in 1 .. MaxFilterId + 1
    /\ result.op \in {"new", "initialize", "add", "delete", "cleanup"}

(* The ids of the live filters this controller's sessions added.         *)
OwnLive == {f.id : f \in {g \in live : g.owner \in Handles}}

Registry == INSTANCE FilterRegistry
                WITH registry <- Range(filter_ids), active <- OwnLive

(* The controller implements FilterRegistry: add_filters registers the   *)
(* fresh ids of the filters it installed, and an id leaves filter_ids      *)
(* only in the delete_filters step whose engine call removed its filter;  *)
(* refused deletions, failed closes and cleanup keep it, so no filter of  *)
(* this controller is ever live without its id in filter_ids.            *)
ImplementsFilterRegistry == Registry!Spec

(* add_filters returns exactly what it installed: on Ok a non-empty list  *)
(* of ids that were not live before, are now live in the controller's    *)
(* session and were appended to filter_ids in that order; on an error it *)
(* installed nothing and left filter_ids alone.                          *)
AddReturnsWhatItInstalled ==
    [][result'.op = "add" =>
        IF result'.ok
        THEN /\ result'.ids # <<>>
             /\ filter_ids' = filter_ids \o result'.ids
             /\ \A x \in Range(result'.ids) :
                    x \notin LiveIds
                    /\ [id |-> x, owner |-> engine_handle] \in live'
        ELSE filter_ids' = filter_ids /\ live' = live]_vars
DeleteReportsRemovals ==
    [][result'.op = "delete" =>
        IF result'.ok
        THEN /\ result'.count > 0
             /\ result'.count = Cardinality(live \ live')
        ELSE live' = live /\ filter_ids' = filter_ids]_vars

(* After cleanup() returns Ok, no filter this controller installed is     *)
(* still active.  A second initialize overwrites engine_handle and leaves *)
(* the first session open, so a filter of that session whose deletion    *)
(* fails survives the close of the second one.                           *)
CleanupRemovesOwnFilters ==
    [][result'.op = "cleanup" /\ result'.ok =>
        \A f \in live' : f.owner \notin Handles]_vars
=============================================================================
