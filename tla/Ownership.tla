----------------------------- MODULE Ownership -----------------------------
(***************************************************************************)
(* Blocks of memory as the library handles them: who frees which block,    *)
(* who only points into it, in which memory context it dies.  A C function *)
(* is a sequence of instructions (see PatchCalls and SqlCalls); a call     *)
(* runs them one at a time and any of them may raise, because pcalloc and  *)
(* pcerror leave through ereport(ERROR).                                   *)
(***************************************************************************)
EXTENDS Naturals, Sequences

CONSTANT NULL
ASSUME NullIsNoBlock == NULL \notin Nat

VARIABLES
  heap,     \* live blocks
  var,      \* what each C variable holds: a block (perhaps dead) or NULL
  todo,     \* instructions of the running call
  brk,      \* blocks handed out so far; none is handed out twice
  ctx,      \* CurrentMemoryContext
  status    \* "idle", "running", "returned" or "raised"

memory == <<heap, var, todo, brk, ctx, status>>

(* Blocks that outlive every call: the bytes of the stored row and the      *)
(* schemas of two pcids in the ring of the call site.                       *)
Row == 0
Ring == 1
Ring2 == 2
Fixed == {Row, Ring, Ring2}

(* stats and data are blocks; the cell frees stats, and in owns its data    *)
(* unless it is readonly (PCPATCH, PCPOINT, PCBYTES), then NULL.            *)
Cell(n, f, c, sch) ==
  [name |-> n, form |-> f, ctx |-> c, stats |-> NULL, data |-> NULL, owns |-> NULL, schema |-> sch]

Holding(c, d, own) ==
  [name |-> c.name, form |-> c.form, ctx |-> c.ctx, stats |-> c.stats, data |-> d, owns |-> own, schema |-> c.schema]

WithStats(c, st) ==
  [name |-> c.name, form |-> c.form, ctx |-> c.ctx, stats |-> st, data |-> c.data, owns |-> c.owns, schema |-> c.schema]

Gone == Cell("gone", "none", "none", NULL)
Look(b) == IF b \in DOMAIN heap THEN heap[b] ELSE Gone

(* A variable that was not assigned yet holds no block.                      *)
Value(v) == IF v \in DOMAIN var THEN var[v] ELSE NULL
At(v) == Look(Value(v))
With(f, k, e) == [x \in DOMAIN f \cup {k} |-> IF x = k THEN e ELSE f[x]]

SchemaOf(v) == IF v = NULL THEN NULL ELSE IF At(v).schema = NULL THEN Value(v) ELSE At(v).schema
BytesOf(v) == IF At(v).data = NULL THEN Value(v) ELSE At(v).data

-----------------------------------------------------------------------------
(* Instructions: an operation, a destination, a source, an argument.        *)
Ins(op, d, s, x) == [op |-> op, d |-> d, s |-> s, x |-> x]

Alloc(d, form, s)   == Ins("alloc", d, s, form)       \* d = pcalloc(..); d->schema = s->schema
OwnData(d, s)       == Ins("own_data", d, s, "data")    \* d->data = pcalloc(..), filled from s
Borrow(d, s)        == Ins("borrow", d, s, NULL)        \* d->data points into s, readonly
MoveData(d, s)      == Ins("move_data", d, s, NULL)     \* d->data = s->data; s->readonly = PC_TRUE
NewStats(d)         == Ins("new_stats", d, NULL, NULL)
CloneStats(d, s)    == Ins("clone_stats", d, s, NULL)   \* NULL when s has none
BorrowStats(d, s)   == Ins("borrow_stats", d, s, NULL)  \* a shell that points into s
MoveStats(d, s)     == Ins("move_stats", d, s, NULL)    \* d->stats = s->stats; s->stats = NULL
SetSchema(d, s)     == Ins("set_schema", d, s, NULL)
Read(s)             == Ins("read", NULL, s, NULL)
NeedStats(s)        == Ins("need_stats", NULL, s, NULL)
Free(d)             == Ins("free", d, NULL, NULL)
Alias(d, s)         == Ins("alias", d, s, NULL)
Null(d)             == Ins("null", d, NULL, NULL)
ByType(s, prog)     == Ins("by_type", NULL, s, prog)    \* switch (s->type)
ByTarget(s, prog)   == Ins("by_target", NULL, s, prog)  \* switch (s->schema->compression)
IfSame(d, s, yes, no) == Ins("if_same", d, s, <<yes, no>>)
IfNull(s, yes, no)  == Ins("if_null", NULL, s, <<yes, no>>)
IfEmpty(s, yes, no) == Ins("if_empty", NULL, s, <<yes, no>>)   \* no points, so no data
Either(progs)       == Ins("either", NULL, NULL, progs) \* depends on values the model leaves out
SwitchTo(c)         == Ins("switch_to", NULL, NULL, c)
Return(s)           == Ins("return", NULL, s, NULL)
ReturnNull          == Ins("return", NULL, NULL, NULL)

-----------------------------------------------------------------------------
Now == Head(todo)
Running(op) == status = "running" /\ todo # <<>> /\ Now.op = op
Continue(more) == todo' = more \o Tail(todo) /\ UNCHANGED <<ctx, status>>
Keep == UNCHANGED <<heap, brk>>

DoAlloc ==
  /\ Running("alloc")
  /\ heap' = With(heap, brk, Cell(Now.d, Now.x, ctx, SchemaOf(Now.s)))
  /\ var' = With(var, Now.d, brk)
  /\ brk' = brk + 1
  /\ Continue(<<>>)

Attach(b, cell, d) ==
  /\ heap' = [With(heap, b, cell) EXCEPT ![Value(d)] = Holding(@, b, b)]
  /\ brk' = brk + 1

DoOwnData ==
  /\ Running("own_data")
  /\ Attach(brk, Cell("data", "bytes", ctx, NULL), Now.d)
  /\ Continue(<<>>) /\ UNCHANGED var

(* Slip: the one that only points into s is not marked readonly.            *)
DoBorrowOwned ==
  /\ Running("borrow")
  /\ heap' = [heap EXCEPT ![Value(Now.d)] = Holding(@, BytesOf(Now.s), BytesOf(Now.s))]
  /\ Continue(<<>>) /\ UNCHANGED <<var, brk>>

DoBorrow ==
  /\ Running("borrow")
  /\ heap' = [heap EXCEPT ![Value(Now.d)] = Holding(@, BytesOf(Now.s), NULL)]
  /\ Continue(<<>>) /\ UNCHANGED <<var, brk>>

(* pc_patch_uncompressed_readonly: the receiver frees from now on.          *)
DoMoveData ==
  /\ Running("move_data")
  /\ heap' = [b \in DOMAIN heap |->
                CASE b = Value(Now.s) -> Holding(heap[b], heap[b].data, NULL)
                  [] b = Value(Now.d) /\ b # Value(Now.s) -> Holding(heap[b], At(Now.s).data, At(Now.s).owns)
                  [] OTHER -> heap[b]]
  /\ Continue(<<>>) /\ UNCHANGED <<var, brk>>

AttachStats(cell) ==
  /\ heap' = [With(heap, brk, cell) EXCEPT ![Value(Now.d)] = WithStats(@, brk)]
  /\ brk' = brk + 1

(* pc_patch_uncompressed_compute_stats frees the statistics it replaces.    *)
DoNewStats ==
  /\ Running("new_stats")
  /\ LET old == {At(Now.d).stats}
         kept == [x \in (DOMAIN heap \ old) \cup {brk} |->
                    IF x = brk THEN Cell("stats", "stats", ctx, At(Now.d).schema) ELSE heap[x]]
     IN heap' = [kept EXCEPT ![Value(Now.d)] = WithStats(@, brk)]
  /\ brk' = brk + 1
  /\ Continue(<<>>) /\ UNCHANGED var

DoCloneStats ==
  /\ Running("clone_stats")
  /\ IF At(Now.s).stats = NULL
     THEN heap' = [heap EXCEPT ![Value(Now.d)] = WithStats(@, NULL)] /\ UNCHANGED brk
     ELSE AttachStats(Cell("stats", "stats", ctx, Look(At(Now.s).stats).schema))
  /\ Continue(<<>>) /\ UNCHANGED var

DoBorrowStats ==
  /\ Running("borrow_stats")
  /\ AttachStats([Cell("stats", "stats", ctx, At(Now.d).schema) EXCEPT !.data = BytesOf(Now.s)])
  /\ Continue(<<>>) /\ UNCHANGED var

(* Slip: pu->stats is not cleared.                                          *)
DoMoveStatsKept ==
  /\ Running("move_stats")
  /\ heap' = [heap EXCEPT ![Value(Now.d)] = WithStats(@, At(Now.s).stats)]
  /\ Continue(<<>>) /\ UNCHANGED <<var, brk>>

DoMoveStats ==
  /\ Running("move_stats")
  /\ heap' = [b \in DOMAIN heap |->
                CASE b = Value(Now.d) /\ b # Value(Now.s) -> WithStats(heap[b], At(Now.s).stats)
                  [] b = Value(Now.s) /\ b # Value(Now.d) -> WithStats(heap[b], NULL)
                  [] OTHER -> heap[b]]
  /\ Continue(<<>>) /\ UNCHANGED <<var, brk>>

DoSetSchema ==
  /\ Running("set_schema")
  /\ heap' = [heap EXCEPT ![Value(Now.d)].schema = Value(Now.s)]
  /\ Continue(<<>>) /\ UNCHANGED <<var, brk>>

DoRead == Running("read") /\ Continue(<<>>) /\ Keep /\ UNCHANGED var

(* pc_patch_serialize raises on a patch without statistics.                 *)
DoNeedStats ==
  /\ Running("need_stats") /\ At(Now.s).stats # NULL
  /\ Continue(<<>>) /\ Keep /\ UNCHANGED var

(* What one call of the free function of a struct returns to the allocator. *)
Owned(c) == {c.stats, c.owns} \ {NULL}
Freed(v) == {Value(v)} \cup Owned(At(v))

DoFree ==
  /\ Running("free")
  /\ heap' = [b \in DOMAIN heap \ Freed(Now.d) |-> heap[b]]
  /\ Continue(<<>>) /\ UNCHANGED <<var, brk>>

Assign(v, b) == var' = With(var, v, b)

DoAlias == Running("alias") /\ Assign(Now.d, Value(Now.s)) /\ Continue(<<>>) /\ Keep
DoNull == Running("null") /\ Assign(Now.d, NULL) /\ Continue(<<>>) /\ Keep

(* A form that no case names is an error: only Raise is left.               *)
Switch(form) == form \in DOMAIN Now.x /\ Continue(Now.x[form]) /\ Keep /\ UNCHANGED var

DoByType == Running("by_type") /\ Switch(At(Now.s).form)
DoByTarget == Running("by_target") /\ Switch(Look(At(Now.s).schema).form)
DoIfSame ==
  /\ Running("if_same")
  /\ Continue(Now.x[IF Value(Now.d) = Value(Now.s) THEN 1 ELSE 2]) /\ Keep /\ UNCHANGED var
DoIfNull ==
  /\ Running("if_null")
  /\ Continue(Now.x[IF Value(Now.s) = NULL THEN 1 ELSE 2]) /\ Keep /\ UNCHANGED var
DoIfEmpty ==
  /\ Running("if_empty")
  /\ Continue(Now.x[IF At(Now.s).data = NULL THEN 1 ELSE 2]) /\ Keep /\ UNCHANGED var
DoEither ==
  Running("either") /\ (\E k \in DOMAIN Now.x : Continue(Now.x[k])) /\ Keep /\ UNCHANGED var

DoSwitchTo ==
  /\ Running("switch_to")
  /\ ctx' = Now.x /\ todo' = Tail(todo) /\ Keep /\ UNCHANGED <<var, status>>

DoReturn ==
  /\ Running("return")
  /\ Assign("ret", IF Now.s = NULL THEN NULL ELSE Value(Now.s))
  /\ todo' = <<>> /\ status' = "returned" /\ Keep /\ UNCHANGED ctx

(* ereport(ERROR), from the function itself or from the allocator.          *)
Raise ==
  /\ status = "running"
  /\ todo' = <<>> /\ status' = "raised" /\ Keep /\ UNCHANGED <<var, ctx>>

Step ==
  \/ DoAlloc \/ DoOwnData \/ DoBorrow \/ DoMoveData
  \/ DoNewStats \/ DoCloneStats \/ DoBorrowStats \/ DoMoveStats
  \/ DoSetSchema \/ DoRead \/ DoNeedStats \/ DoFree \/ DoAlias \/ DoNull
  \/ DoByType \/ DoByTarget \/ DoIfSame \/ DoIfNull \/ DoIfEmpty \/ DoEither
  \/ DoSwitchTo \/ DoReturn

-----------------------------------------------------------------------------
(* Everything a function may look at through a pointer.                     *)
Reach(v) ==
  LET c == At(v)
  IN {Value(v)} \cup ({c.stats, Look(c.stats).data, Look(c.stats).schema, c.data, c.schema} \ {NULL})

(* Blocks the next instruction dereferences.  Freeing a dimensional patch   *)
(* walks schema->ndims columns.                                             *)
Uses ==
  CASE Now.op = "free" -> Freed(Now.d) \cup (IF At(Now.d).form = "dim" THEN {At(Now.d).schema} \ {NULL} ELSE {})
    [] Now.op = "alloc" -> IF Now.s = NULL THEN {} ELSE {Value(Now.s), SchemaOf(Now.s)}
    [] Now.op \in {"read", "by_type", "by_target", "if_empty"} -> Reach(Now.s)
    [] Now.op = "need_stats" -> Reach(Now.s) \cup {At(Now.s).stats}
    [] Now.op \in {"own_data", "borrow", "move_data", "clone_stats", "borrow_stats", "move_stats"} ->
         Reach(Now.s) \cup {Value(Now.d)}
    [] Now.op \in {"new_stats", "set_schema"} -> Reach(Now.d)
    [] Now.op = "return" /\ Now.s # NULL -> {Value(Now.s)}
    [] OTHER -> {}

(* No function touches or frees a block that is already gone, in any order  *)
(* of conversions, results that are their own input and early returns, and  *)
(* pc_patch_serialize always finds statistics in the patch it is given.     *)
NoUseAfterFree == status = "running" /\ todo # <<>> => Uses \subseteq DOMAIN heap

(* A block has at most one owner, so that no two free functions meet on it: *)
(* buffers and statistics change hands with readonly set or stats cleared.  *)
ExclusiveOwner ==
  \A a, b \in DOMAIN heap : a # b => Owned(heap[a]) \cap Owned(heap[b]) = {}

(* Nothing that points into a stored row or into a cached schema owns it.   *)
FixedNotOwned == \A b \in DOMAIN heap : Owned(heap[b]) \cap Fixed = {}

(* Memory is handed over, lent and taken back so that no free function can  *)
(* hit what it should not.                                                  *)
OwnersApart == ExclusiveOwner /\ FixedNotOwned
=============================================================================
