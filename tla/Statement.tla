------------------------------ MODULE Statement ------------------------------
(***************************************************************************)
(* One statement that calls one function of the extension: for each row a  *)
(* scalar function, for one row PC_Explode until it is done or the executor*)
(* has enough, for each input an aggregate's transition and then its final *)
(* function, once or more (as for a window).  After each call the executor *)
(* takes the result and resets the context of the call.                    *)
(***************************************************************************)
EXTENDS SqlCalls, FiniteSets

CONSTANTS
  MaxRows,     \* rows a scalar function is called for, at most
  MaxInputs,   \* inputs of an aggregate, at most
  MaxFinals,   \* results taken from one aggregate state, at most
  MaxPoints    \* points of an exploded patch, at most
ASSUME StatementBounds == {MaxRows, MaxInputs, MaxFinals, MaxPoints} \subseteq Nat \ {0}

VARIABLES
  fn,      \* the function the statement calls
  phase,   \* "open", "closed" or "aborted"
  call,    \* what is being called: "scalar", "transition", "final", "unnest"
  calls,   \* rows or transitions so far
  finals,  \* final calls so far
  srf,     \* NULL, or the cross-call state of PC_Explode
  rows     \* numbers of the points the executor got from PC_Explode

(* FuncCallContext and the element fetched last; no pointer is one of them.  *)
SrfStates == [nextelem : Nat, numelems : Nat, elem : Nat \cup {NULL}, done : BOOLEAN]
ASSUME NullIsNoState == NULL \notin SrfStates

statement == <<fn, phase, call, calls, finals, srf, rows>>
vars == <<memory, statement>>

Scalar ==
  [pcpoint_get_value |-> pcpoint_get_value, pcpoint_get_values |-> pcpoint_get_values,
   pcpoint_in |-> pcpoint_in, pcpoint_from_double_array |-> pcpoint_from_double_array,
   pcpoint_out |-> pcpoint_out, pcpatch_in |-> pcpatch_in, pcpatch_out |-> pcpatch_out,
   pcpatch_as_text |-> pcpatch_as_text, pcpatch_envelope_as_bytea |-> pcpatch_envelope_as_bytea,
   pcpatch_bounding_diagonal_as_bytea |-> pcpatch_bounding_diagonal_as_bytea,
   pcpatch_get_stat |-> pcpatch_get_stat, pcpatch_summary |-> pcpatch_summary,
   pcpatch_enforce_typmod |-> pcpatch_enforce_typmod, pcpatch_uncompress |-> pcpatch_uncompress,
   pcpatch_compress |-> pcpatch_compress, pcpatch_pointn |-> pcpatch_pointn,
   pcpatch_range |-> pcpatch_range, pcpatch_filter |-> pcpatch_filter, pcpatch_sort |-> pcpatch_sort,
   pcpatch_is_sorted |-> pcpatch_is_sorted, pcpatch_setpcid |-> pcpatch_setpcid,
   pcpatch_transform |-> pcpatch_transform,
   pcpatch_from_pcpoint_array |-> pcpatch_from_pcpoint_array,
   pcpatch_from_pcpatch_array |-> pcpatch_from_pcpatch_array,
   pcpatch_from_float_array |-> pcpatch_from_float_array]

Final ==
  [pcpatch_agg_final_array |-> pcpatch_agg_final_array,
   pcpoint_agg_final_pcpatch |-> pcpoint_agg_final_pcpatch,
   pcpatch_agg_final_pcpatch |-> pcpatch_agg_final_pcpatch]

Unnest == "pcpatch_unnest"
Functions == DOMAIN Scalar \cup DOMAIN Final \cup {Unnest}

Kind == IF fn \in DOMAIN Scalar THEN "scalar" ELSE IF fn \in DOMAIN Final THEN "aggregate" ELSE "unnest"

(* What every call starts from.                                             *)
Given == [v \in {"row", "ring", "ring2", "state"} |->
            CASE v = "row" -> Row [] v = "ring" -> Ring [] v = "ring2" -> Ring2 [] OTHER -> NULL]

Init ==
  /\ \E stored, comp, comp2 \in Forms :
       heap = [b \in Fixed |->
                 CASE b = Row  -> Cell("row", stored, "stored", NULL)
                   [] b = Ring -> Cell("ring", comp, "fn", NULL)
                   [] OTHER    -> Cell("ring2", comp2, "fn", NULL)]
  /\ var = Given
  /\ todo = <<>> /\ brk = 3 /\ ctx = "call" /\ status = "idle"
  /\ fn \in Functions
  /\ phase = "open" /\ call = "none" /\ calls = 0 /\ finals = 0 /\ srf = NULL /\ rows = <<>>

-----------------------------------------------------------------------------
Ready == phase = "open" /\ status = "idle"

Call(kind, prog) ==
  /\ Ready
  /\ call' = kind /\ todo' = prog /\ ctx' = "call" /\ status' = "running"
  /\ UNCHANGED <<heap, var, brk, fn, phase, rows>>

CallScalar ==
  /\ Kind = "scalar" /\ calls < MaxRows
  /\ Call("scalar", Scalar[fn]) /\ calls' = calls + 1 /\ UNCHANGED <<finals, srf>>

CallTransition ==
  /\ Kind = "aggregate" /\ calls < MaxInputs
  /\ Call("transition", pointcloud_agg_transfn) /\ calls' = calls + 1 /\ UNCHANGED <<finals, srf>>

CallFinal ==
  /\ Kind = "aggregate" /\ finals < MaxFinals
  /\ Call("final", Final[fn]) /\ finals' = finals + 1 /\ UNCHANGED <<calls, srf>>

AnyCall == <<Read("fctx"), Ins("per_call", NULL, NULL, NULL)>>

(* SRF_IS_FIRSTCALL is asked on every call.                                 *)
CallUnnest ==
  /\ Kind = "unnest"
  /\ IF srf = NULL
     THEN /\ \E n \in 1 .. MaxPoints : srf' = [nextelem |-> 0, numelems |-> n, elem |-> NULL, done |-> FALSE]
          /\ Call("unnest", UnnestFirst \o AnyCall)
     ELSE ~srf.done /\ Call("unnest", AnyCall) /\ UNCHANGED srf
  /\ UNCHANGED <<calls, finals>>

(* Slip: the element is not counted.                                        *)
FetchAgain(s) == [s EXCEPT !.elem = s.nextelem]

Fetch(s) == [s EXCEPT !.elem = s.nextelem, !.nextelem = @ + 1]

Live(dead) == {b \in DOMAIN heap : heap[b].ctx \notin dead}
Drop(dead) == heap' = [b \in Live(dead) |-> heap[b]]

(* Slip: one element too many.                                              *)
MoreElementsIncl(s) == s.nextelem <= s.numelems

MoreElements(s) == s.nextelem < s.numelems

NextElement ==
  /\ Running("per_call") /\ MoreElements(srf)
  /\ Continue(UnnestNext) /\ srf' = Fetch(srf)
  /\ UNCHANGED <<heap, var, brk, fn, phase, call, calls, finals, rows>>

(* Slip: the executor is not told that there are no more.                   *)
FinishedNot(s) == [s EXCEPT !.elem = NULL]

Finished(s) == [s EXCEPT !.elem = NULL, !.done = TRUE]

(* SRF_RETURN_DONE deletes the multi-call context.                          *)
NoMoreElements ==
  /\ Running("per_call") /\ ~MoreElements(srf)
  /\ Continue(UnnestDone) /\ srf' = Finished(srf) /\ Drop({"multi"})
  /\ UNCHANGED <<var, brk, fn, phase, call, calls, finals, rows>>

Run == Step /\ UNCHANGED statement
Fail == Raise /\ UNCHANGED statement

-----------------------------------------------------------------------------
(* The executor takes the result and resets the call's context.             *)
Consume ==
  /\ status = "returned" /\ call # "transition"
  /\ Drop({"call"})
  /\ rows' = IF call = "unnest" /\ srf.elem # NULL THEN Append(rows, srf.elem) ELSE rows
  /\ var' = IF call = "unnest" THEN [v \in DOMAIN var \ {"ret"} |-> var[v]] ELSE [Given EXCEPT !["state"] = var["state"]]
  /\ status' = "idle" /\ UNCHANGED <<todo, brk, ctx, fn, phase, call, calls, finals, srf>>

(* A new transition value is copied to the aggregate's context: eight bytes,*)
(* the pointer to the array; an old one that comes back stays where it is.  *)
TakeState ==
  /\ status = "returned" /\ call = "transition"
  /\ IF var["ret"] = var["state"]
     THEN Drop({"call"}) /\ UNCHANGED brk /\ var' = [Given EXCEPT !["state"] = var["state"]]
     ELSE /\ heap' = [b \in Live({"call"}) \cup {brk} |->
                        IF b = brk THEN [Cell("a", "abs_trans", "agg", NULL) EXCEPT !.data = At("ret").data]
                        ELSE heap[b]]
          /\ brk' = brk + 1 /\ var' = [Given EXCEPT !["state"] = brk]
  /\ status' = "idle" /\ UNCHANGED <<todo, ctx, fn, phase, call, calls, finals, srf, rows>>

End(to) ==
  /\ Drop({"call", "multi", "agg", "fn"})
  /\ var' = [Given EXCEPT !["state"] = NULL]
  /\ phase' = to /\ status' = "idle"
  /\ UNCHANGED <<todo, brk, ctx, fn, call, calls, finals, srf, rows>>

(* An error unwinds every context of the statement.                         *)
Abort == status = "raised" /\ End("aborted")

Close ==
  /\ Ready /\ (Kind = "unnest" => srf # NULL /\ srf.done) /\ (Kind = "aggregate" => finals > 0)
  /\ End("closed")

(* LIMIT: no more rows are wanted, whatever PC_Explode still holds.         *)
Shutdown == Ready /\ Kind = "unnest" /\ srf # NULL /\ ~srf.done /\ End("closed")

Proceed ==
  \/ CallScalar \/ CallTransition \/ CallFinal \/ CallUnnest \/ NextElement \/ NoMoreElements
  \/ Run \/ Consume \/ TakeState \/ Abort \/ Close

Next == Proceed \/ Fail \/ Shutdown

Spec == Init /\ [][Next]_vars

(* The backend runs and the executor asks for rows until there are none.    *)
FairSpec == Spec /\ WF_vars(Proceed)

-----------------------------------------------------------------------------
(* Stored bytes survive every call and every error, cached schemas every    *)
(* call of their statement: no function frees what it was only lent.        *)
LentStays == Row \in DOMAIN heap /\ (phase = "open" => Fixed \subseteq DOMAIN heap)

(* What a function returns can outlive everything else it made: it points   *)
(* into nothing, and is of the call's context or the argument itself.       *)
ResultStandsAlone ==
  status = "returned" /\ var["ret"] # NULL /\ call # "transition" =>
    LET c == At("ret")
    IN /\ c.data = NULL /\ c.stats = NULL /\ c.schema = NULL
       /\ c.ctx = "call" \/ var["ret"] = Row

(* What the C code leaves to the reset of the call's context: copies of     *)
(* arguments, and the blocks that no path frees.  Everything else a         *)
(* function makes it has freed, or something left behind still owns it.     *)
ArgumentCopies == {"serpa", "serpt", "serpatch", "array", "arrptr"}
Forgotten == {"pcu", "pau", "stats", "palist", "pl", "patch", "elems"}
Orphans == DOMAIN heap \ UNION {Owned(heap[b]) : b \in DOMAIN heap}
OnlyKnownLeftovers ==
  status = "returned" =>
    \A b \in Orphans \ {var["ret"]} :
      heap[b].ctx = "call" => heap[b].name \in ArgumentCopies \cup Forgotten

(* However many rows are aggregated, the state is its holder and one array. *)
AggregateStaysSmall ==
  Ready /\ Kind = "aggregate" => Cardinality(Live({"stored", "fn"})) <= 2

(* Memory does not pile up: not in a call, and not from row to row.         *)
NothingPilesUp == OnlyKnownLeftovers /\ AggregateStaysSmall

(* PC_Explode gives every point once, in order, and stops after the last.   *)
EveryPointOnce ==
  Kind = "unnest" =>
    /\ rows = [i \in 1 .. Len(rows) |-> i - 1]
    /\ srf # NULL => Len(rows) <= srf.numelems
    /\ srf # NULL /\ srf.done => Len(rows) = srf.numelems

(* Every statement ends, whatever is called and however often it raises.    *)
StatementEnds == <>(phase # "open")
=============================================================================
