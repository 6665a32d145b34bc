--------------------------- MODULE OwnershipProofs ---------------------------
(***************************************************************************)
(* Proofs about Statement for every function, every order of its           *)
(* instructions, every number of rows and every patch: whatever programs   *)
(* the instructions form, they leave every block with at most one owner;   *)
(* none of the programs of the extension frees what it was only lent; and  *)
(* PC_Explode hands over every point once.                                 *)
(***************************************************************************)
EXTENDS Statement, TLAPS

(* A cell has the fields of a cell, and does not own one block twice.       *)
IsCell(c) ==
  /\ c = [name |-> c.name, form |-> c.form, ctx |-> c.ctx, stats |-> c.stats,
          data |-> c.data, owns |-> c.owns, schema |-> c.schema]
  /\ c.owns # NULL => c.stats # c.owns

Fresh == 3 .. brk - 1

(* The inductive invariant.  Blocks are numbered in the order they were     *)
(* handed out, so that a new one has no owner yet; a cell owns only blocks  *)
(* that were handed out, never one of the three that were there before; it  *)
(* does not own one block as its data and as its statistics, so that data   *)
(* and statistics can change hands one without the other.                   *)
Numbered ==
  /\ brk \in Nat /\ brk >= 3
  /\ heap = [b \in DOMAIN heap |-> heap[b]] /\ DOMAIN heap \subseteq 0 .. brk - 1
Cells == \A b \in DOMAIN heap : IsCell(heap[b]) /\ Owned(heap[b]) \subseteq Fresh
OwnersInv == Numbered /\ Cells /\ ExclusiveOwner

(* A fresh cell owns nothing.                                               *)
LEMMA NewCell ==
  ASSUME NEW n, NEW f, NEW c, NEW s
  PROVE  /\ IsCell(Cell(n, f, c, s))
         /\ Owned(Cell(n, f, c, s)) = {}
         /\ Cell(n, f, c, s).data = NULL /\ Cell(n, f, c, s).stats = NULL
         /\ Cell(n, f, c, s).owns = NULL
  BY DEF IsCell, Cell, Owned

(* What a cell owns after some of its fields were assigned.                 *)
LEMMA Reassigned ==
  ASSUME NEW c, IsCell(c), NEW x, NEW y
  PROVE  /\ Owned([c EXCEPT !.schema = x]) = Owned(c) /\ IsCell([c EXCEPT !.schema = x])
         /\ Owned([c EXCEPT !.data = x]) = Owned(c) /\ IsCell([c EXCEPT !.data = x])
         /\ Owned([c EXCEPT !.owns = NULL]) \subseteq Owned(c) /\ IsCell([c EXCEPT !.owns = NULL])
         /\ Owned(WithStats(c, x)) \subseteq Owned(c) \cup ({x} \ {NULL})
         /\ x \notin Owned(c) => IsCell(WithStats(c, x))
         /\ Owned(Holding(c, x, y)) \subseteq Owned(c) \cup ({y} \ {NULL})
         /\ y \notin Owned(c) => IsCell(Holding(c, x, y))
<1>1. Owned([c EXCEPT !.schema = x]) = Owned(c) /\ IsCell([c EXCEPT !.schema = x])
  <2>1. [c EXCEPT !.schema = x]
         = [name |-> c.name, form |-> c.form, ctx |-> c.ctx, stats |-> c.stats,
            data |-> c.data, owns |-> c.owns, schema |-> x]
    BY DEF IsCell
  <2> QED
    BY <2>1 DEF IsCell, Owned
<1>2. Owned([c EXCEPT !.owns = NULL]) \subseteq Owned(c) /\ IsCell([c EXCEPT !.owns = NULL])
  <2>1. [c EXCEPT !.owns = NULL]
         = [name |-> c.name, form |-> c.form, ctx |-> c.ctx, stats |-> c.stats,
            data |-> c.data, owns |-> NULL, schema |-> c.schema]
    BY DEF IsCell
  <2> QED
    BY <2>1 DEF IsCell, Owned
<1>3. /\ Owned(WithStats(c, x)) \subseteq Owned(c) \cup ({x} \ {NULL})
      /\ x \notin Owned(c) => IsCell(WithStats(c, x))
  BY DEF IsCell, Owned, WithStats
<1>4. /\ Owned(Holding(c, x, y)) \subseteq Owned(c) \cup ({y} \ {NULL})
      /\ y \notin Owned(c) => IsCell(Holding(c, x, y))
  BY DEF IsCell, Owned, Holding
<1>5. Owned([c EXCEPT !.data = x]) = Owned(c) /\ IsCell([c EXCEPT !.data = x])
  <2>1. [c EXCEPT !.data = x]
         = [name |-> c.name, form |-> c.form, ctx |-> c.ctx, stats |-> c.stats,
            data |-> x, owns |-> c.owns, schema |-> c.schema]
    BY DEF IsCell
  <2> QED
    BY <2>1 DEF IsCell, Owned
<1> QED
  BY <1>1, <1>2, <1>3, <1>4, <1>5

(* A step that gives the one new block, if any, to one cell d, and lets no  *)
(* other cell own more than it did, keeps the invariant.                    *)
Grows ==
  /\ brk' \in {brk, brk + 1}
  /\ heap' = [b \in DOMAIN heap' |-> heap'[b]]
  /\ DOMAIN heap' \subseteq DOMAIN heap \cup (brk .. brk' - 1)
OnlyGains(d) ==
  \A b \in DOMAIN heap' :
    /\ IsCell(heap'[b])
    /\ Owned(heap'[b]) \subseteq Owned(Look(b)) \cup (IF b = d THEN brk .. brk' - 1 ELSE {})

LEMMA Preserved ==
  ASSUME OwnersInv, Grows, NEW d, OnlyGains(d)
  PROVE  OwnersInv'
<1> USE DEF Grows, OnlyGains
<1>1. Numbered'
  BY DEF OwnersInv, Numbered
<1>2. \A b : Owned(Look(b)) \subseteq Fresh
  BY NewCell DEF OwnersInv, Cells, Look, Gone
<1>3. \A a, b : a # b => Owned(Look(a)) \cap Owned(Look(b)) = {}
  BY NewCell DEF OwnersInv, ExclusiveOwner, Look, Gone
<1>4. Cells'
  BY <1>2 DEF OwnersInv, Numbered, Cells, Fresh
<1>5. ExclusiveOwner'
  <2> SUFFICES ASSUME NEW a \in DOMAIN heap', NEW b \in DOMAIN heap', a # b,
                      NEW x, x \in Owned(heap'[a]), x \in Owned(heap'[b])
               PROVE  FALSE
    BY DEF ExclusiveOwner
  <2>1. /\ x \in Owned(Look(a)) \/ (a = d /\ x \in brk .. brk' - 1)
        /\ x \in Owned(Look(b)) \/ (b = d /\ x \in brk .. brk' - 1)
    OBVIOUS
  <2>2. x \in brk .. brk' - 1 => x \notin Fresh
    BY DEF OwnersInv, Numbered, Fresh
  <2> QED
    BY <1>2, <1>3, <2>1, <2>2
<1> QED
  BY <1>1, <1>4, <1>5 DEF OwnersInv
(* A block that was just handed out, before anything points to it.          *)
LEMMA Handed ==
  ASSUME OwnersInv, NEW cell, IsCell(cell), Owned(cell) = {}
  PROVE  LET h == With(heap, brk, cell)
         IN /\ h = [b \in DOMAIN h |-> h[b]] /\ DOMAIN h = DOMAIN heap \cup {brk}
            /\ \A b \in DOMAIN h :
                 IsCell(h[b]) /\ Owned(h[b]) \subseteq Owned(Look(b)) /\ brk \notin Owned(h[b])
<1> DEFINE h == With(heap, brk, cell)
<1>1. h = [b \in DOMAIN h |-> h[b]] /\ DOMAIN h = DOMAIN heap \cup {brk}
  BY DEF With
<1>2. ASSUME NEW b \in DOMAIN h
      PROVE  IsCell(h[b]) /\ Owned(h[b]) \subseteq Owned(Look(b)) /\ brk \notin Owned(h[b])
  <2>1. CASE b = brk
    BY <2>1 DEF With
  <2>2. CASE b # brk
    <3>1. h[b] = heap[b] /\ b \in DOMAIN heap
      BY <1>1, <2>2 DEF With
    <3> QED
      BY <3>1 DEF OwnersInv, Cells, Numbered, Fresh, Look
  <2> QED
    BY <2>1, <2>2
<1> QED
  BY <1>1, <1>2

(* Blocks are let go, none is handed out.                                   *)
LEMMA LetGo ==
  ASSUME OwnersInv, NEW D, D \subseteq DOMAIN heap, heap' = [b \in D |-> heap[b]], brk' = brk
  PROVE  OwnersInv'
  BY DEF OwnersInv, Numbered, Cells, Fresh, ExclusiveOwner

(* A cell is assigned to one of the blocks there are; what it owns then it  *)
(* owned before, or it is the block that was just handed out.               *)
LEMMA Assigned ==
  ASSUME OwnersInv, NEW cell, IsCell(cell), Owned(cell) = {}, NEW v, NEW c, brk' = brk + 1,
         LET h == With(heap, brk, cell)
         IN /\ heap' = [h EXCEPT ![v] = c]
            /\ v \in DOMAIN h => IsCell(c) /\ Owned(c) \subseteq Owned(h[v]) \cup {brk}
  PROVE  OwnersInv'
<1> DEFINE h == With(heap, brk, cell)
<1>1. /\ h = [b \in DOMAIN h |-> h[b]] /\ DOMAIN h = DOMAIN heap \cup {brk}
      /\ \A b \in DOMAIN h : IsCell(h[b]) /\ Owned(h[b]) \subseteq Owned(Look(b))
  BY Handed
<1> HIDE DEF h
<1>2. heap' = [b \in DOMAIN h |-> IF b = v THEN c ELSE h[b]]
  BY <1>1 DEF h
<1>3. brk .. brk' - 1 = {brk}
  BY DEF OwnersInv, Numbered
<1>4. OnlyGains(v)
  BY <1>1, <1>2, <1>3 DEF h, OnlyGains
<1>5. Grows
  BY <1>1, <1>2, <1>3 DEF Grows
<1> QED
  BY <1>4, <1>5, Preserved

(* The same when no block was handed out.                                   *)
LEMMA AssignedOld ==
  ASSUME OwnersInv, NEW v, NEW c, brk' = brk, heap' = [heap EXCEPT ![v] = c],
         v \in DOMAIN heap => IsCell(c) /\ Owned(c) \subseteq Owned(heap[v])
  PROVE  OwnersInv'
<1>1. brk .. brk' - 1 = {}
  BY DEF OwnersInv, Numbered
<1>2. heap' = [b \in DOMAIN heap |-> IF b = v THEN c ELSE heap[b]]
  BY DEF OwnersInv, Numbered
<1>3. OnlyGains(v)
  BY <1>1, <1>2 DEF OnlyGains, OwnersInv, Cells, Look
<1>4. Grows
  BY <1>1, <1>2 DEF Grows
<1> QED
  BY <1>3, <1>4, Preserved

(* Data changes hands: s gives up what d frees from now on.                 *)
LEMMA DataMoves ==
  ASSUME OwnersInv, DoMoveData
  PROVE  OwnersInv'
<1> DEFINE d == Value(Now.d)
           s == Value(Now.s)
           x == Look(s).data
           y == Look(s).owns
<1>1. /\ brk' = brk /\ DOMAIN heap' = DOMAIN heap /\ heap' = [b \in DOMAIN heap |-> heap'[b]]
      /\ \A b \in DOMAIN heap :
           /\ b = s => heap'[b] = Holding(heap[b], heap[b].data, NULL)
           /\ b # s => heap'[b] = IF b = d THEN Holding(heap[b], x, y) ELSE heap[b]
  BY DEF DoMoveData, At
<1>2. \A b \in DOMAIN heap : IsCell(heap[b]) /\ Owned(heap[b]) \subseteq Fresh
  BY DEF OwnersInv, Cells
<1>3. \A b \in DOMAIN heap : y # NULL /\ y \in Owned(heap[b]) => b = s
  BY <1>2 DEF OwnersInv, ExclusiveOwner, Look, Gone, Cell, Owned
<1>4. y # NULL => s \in DOMAIN heap /\ y = heap[s].owns /\ y # heap[s].stats
  BY <1>2 DEF Look, Gone, Cell, IsCell
<1>5. \A b \in DOMAIN heap :
        Owned(heap'[b]) = {heap[b].stats, IF b = s THEN NULL ELSE IF b = d THEN y ELSE heap[b].owns} \ {NULL}
  <2> TAKE b \in DOMAIN heap
  <2>1. CASE b = s
    BY <1>1, <2>1 DEF Holding, Owned
  <2>2. CASE b # s /\ b = d
    BY <1>1, <2>2 DEF Holding, Owned
  <2>3. CASE b # s /\ b # d
    BY <1>1, <2>3 DEF Owned
  <2> QED
    BY <2>1, <2>2, <2>3
<1>6. \A b \in DOMAIN heap : IsCell(heap'[b])
  <2> TAKE b \in DOMAIN heap
  <2>1. IsCell(heap[b]) /\ (b # s => y \notin Owned(heap[b]))
    BY <1>2, <1>3 DEF Owned
  <2>2. IsCell(Holding(heap[b], heap[b].data, NULL)) /\ (b # s => IsCell(Holding(heap[b], x, y)))
    <3>1. IsCell(Holding(heap[b], heap[b].data, NULL))
      BY DEF IsCell, Holding
    <3>2. b # s => IsCell(Holding(heap[b], x, y))
      <4> HIDE DEF x, y
      <4> QED
        BY <2>1 DEF IsCell, Owned, Holding
    <3> QED
      BY <3>1, <3>2
  <2> QED
    BY <1>1, <2>1, <2>2
<1>7. Numbered'
  BY <1>1 DEF OwnersInv, Numbered
<1>8. Cells'
  <2>1. \A b \in DOMAIN heap : Owned(heap'[b]) \subseteq Fresh
    BY <1>2, <1>4, <1>5 DEF Owned
  <2> QED
    BY <1>1, <1>6, <2>1 DEF Cells, Fresh
<1>9. ExclusiveOwner'
  <2> SUFFICES ASSUME NEW a \in DOMAIN heap, NEW b \in DOMAIN heap, a # b,
                      NEW z, z \in Owned(heap'[a]), z \in Owned(heap'[b])
               PROVE  FALSE
    BY <1>1 DEF ExclusiveOwner
  <2>1. \A e \in DOMAIN heap : z \in Owned(heap'[e]) => z \in Owned(heap[e]) \/ (z = y /\ e # s)
    BY <1>5 DEF Owned
  <2>2. z # NULL
    BY DEF Owned
  <2>3. ~(z \in Owned(heap[a]) /\ z \in Owned(heap[b]))
    BY DEF OwnersInv, ExclusiveOwner
  <2>4. CASE z = y
    <3>1. \A e \in DOMAIN heap : e # s => z \notin Owned(heap[e])
      BY <1>3, <2>2, <2>4
    <3>2. s \in DOMAIN heap => z \notin Owned(heap'[s])
      BY <1>4, <1>5, <2>2, <2>4
    <3>3. a # s /\ b # s
      BY <3>2
    <3>4. \A e \in DOMAIN heap : e # s /\ z \in Owned(heap'[e]) => e = d
      BY <1>5, <2>4, <3>1 DEF Owned
    <3> QED
      BY <3>3, <3>4
  <2>5. CASE z # y
    BY <2>1, <2>3, <2>5
  <2> QED
    BY <2>4, <2>5
<1> QED
  BY <1>7, <1>8, <1>9 DEF OwnersInv

(* Statistics change hands: s forgets them before anything frees it.        *)
LEMMA StatsMove ==
  ASSUME OwnersInv, DoMoveStats
  PROVE  OwnersInv'
<1> DEFINE d == Value(Now.d)
           s == Value(Now.s)
           y == Look(s).stats
<1>1. /\ brk' = brk /\ DOMAIN heap' = DOMAIN heap /\ heap' = [b \in DOMAIN heap |-> heap'[b]]
      /\ \A b \in DOMAIN heap :
           /\ b = d /\ b # s => heap'[b] = WithStats(heap[b], y)
           /\ b = s /\ b # d => heap'[b] = WithStats(heap[b], NULL)
           /\ b # s /\ b # d => heap'[b] = heap[b]
           /\ s = d => heap'[b] = heap[b]
  BY DEF DoMoveStats, At
<1>2. \A b \in DOMAIN heap : IsCell(heap[b]) /\ Owned(heap[b]) \subseteq Fresh
  BY DEF OwnersInv, Cells
<1>3. \A b \in DOMAIN heap : y # NULL /\ y \in Owned(heap[b]) => b = s
  BY <1>2 DEF OwnersInv, ExclusiveOwner, Look, Gone, Cell, Owned
<1>4. y # NULL => s \in DOMAIN heap /\ y = heap[s].stats /\ y # heap[s].owns
  BY <1>2 DEF Look, Gone, Cell, IsCell
<1>5. \A b \in DOMAIN heap :
        /\ IsCell(heap'[b])
        /\ Owned(heap'[b]) = {heap[b].owns, IF s = d \/ (b # s /\ b # d) THEN heap[b].stats
                                            ELSE IF b = d THEN y ELSE NULL} \ {NULL}
  <2> TAKE b \in DOMAIN heap
  <2>1. CASE s # d /\ b = d
    <3>1. heap'[b] = WithStats(heap[b], y)
      BY <1>1, <2>1
    <3>2. IsCell(heap[b]) /\ y \notin Owned(heap[b])
      BY <1>2, <1>3, <2>1 DEF Owned
    <3>3. heap'[b].owns = heap[b].owns /\ heap'[b].stats = y
      BY <3>1 DEF WithStats
    <3>4. IsCell(heap'[b])
      BY <3>1, <3>2 DEF IsCell, Owned, WithStats
    <3>5. Owned(heap'[b]) = {heap[b].owns, y} \ {NULL}
      BY <3>3 DEF Owned
    <3> QED
      BY <2>1, <3>4, <3>5
  <2>2. CASE s # d /\ b = s
    <3>1. heap'[b] = WithStats(heap[b], NULL)
      BY <1>1, <2>2
    <3>2. IsCell(heap[b]) /\ NULL \notin Owned(heap[b])
      BY <1>2 DEF Owned
    <3>3. heap'[b].owns = heap[b].owns /\ heap'[b].stats = NULL
      BY <3>1 DEF WithStats
    <3>4. IsCell(heap'[b])
      BY <3>1, <3>2 DEF IsCell, Owned, WithStats
    <3>5. Owned(heap'[b]) = {heap[b].owns, NULL} \ {NULL}
      BY <3>3 DEF Owned
    <3> QED
      BY <2>2, <3>4, <3>5
  <2>3. CASE s = d \/ (b # s /\ b # d)
    BY <1>1, <1>2, <2>3 DEF Owned
  <2> QED
    BY <2>1, <2>2, <2>3
<1>6. Numbered'
  BY <1>1 DEF OwnersInv, Numbered
<1>7. Cells'
  <2>1. \A b \in DOMAIN heap : Owned(heap'[b]) \subseteq Fresh
    BY <1>2, <1>4, <1>5 DEF Owned
  <2> QED
    BY <1>1, <1>5, <2>1 DEF Cells, Fresh
<1>8. ExclusiveOwner'
  <2> SUFFICES ASSUME NEW a \in DOMAIN heap, NEW b \in DOMAIN heap, a # b,
                      NEW z, z \in Owned(heap'[a]), z \in Owned(heap'[b])
               PROVE  FALSE
    BY <1>1 DEF ExclusiveOwner
  <2>1. \A e \in DOMAIN heap : z \in Owned(heap'[e]) => z \in Owned(heap[e]) \/ (z = y /\ e = d /\ s # d)
    BY <1>5 DEF Owned
  <2>2. z # NULL
    BY DEF Owned
  <2>3. ~(z \in Owned(heap[a]) /\ z \in Owned(heap[b]))
    BY DEF OwnersInv, ExclusiveOwner
  <2>4. CASE z = y /\ s # d
    <3>1. \A e \in DOMAIN heap : e # s => z \notin Owned(heap[e])
      BY <1>3, <2>2, <2>4
    <3>2. s \in DOMAIN heap => z \notin Owned(heap'[s])
      BY <1>4, <1>5, <2>2, <2>4
    <3> QED
      BY <2>1, <3>1, <3>2
  <2>5. CASE ~(z = y /\ s # d)
    BY <2>1, <2>3, <2>5
  <2> QED
    BY <2>4, <2>5
<1> QED
  BY <1>6, <1>7, <1>8 DEF OwnersInv

(* New statistics replace the old ones, which are freed.                    *)
LEMMA StatsReplaced ==
  ASSUME OwnersInv, DoNewStats
  PROVE  OwnersInv'
<1> DEFINE d == Value(Now.d)
           cell == Cell("stats", "stats", ctx, At(Now.d).schema)
           kept == [x \in (DOMAIN heap \ {At(Now.d).stats}) \cup {brk} |-> IF x = brk THEN cell ELSE heap[x]]
<1>1. heap' = [b \in DOMAIN kept |-> IF b = d THEN WithStats(kept[b], brk) ELSE kept[b]] /\ brk' = brk + 1
  BY DEF DoNewStats
<1>2. \A b \in DOMAIN kept : IsCell(kept[b]) /\ Owned(kept[b]) \subseteq Owned(Look(b)) /\ brk \notin Owned(kept[b])
  <2> TAKE b \in DOMAIN kept
  <2>1. CASE b = brk
    BY <2>1, NewCell
  <2>2. CASE b # brk
    BY <2>2 DEF OwnersInv, Cells, Numbered, Fresh, Look
  <2> QED
    BY <2>1, <2>2
<1>3. DOMAIN kept \subseteq DOMAIN heap \cup {brk}
  OBVIOUS
<1> HIDE DEF kept, d
<1>4. brk .. brk' - 1 = {brk}
  BY <1>1 DEF OwnersInv, Numbered
<1>5. OnlyGains(d)
  <2> SUFFICES ASSUME NEW b \in DOMAIN kept
               PROVE  /\ IsCell(heap'[b])
                      /\ Owned(heap'[b]) \subseteq Owned(Look(b)) \cup (IF b = d THEN {brk} ELSE {})
    BY <1>1, <1>4 DEF OnlyGains
  <2>1. CASE b = d
    <3>1. heap'[b] = WithStats(kept[b], brk)
      BY <1>1, <2>1
    <3>2. IsCell(heap'[b])
      BY <1>2, <3>1 DEF IsCell, Owned, WithStats
    <3>3. Owned(heap'[b]) \subseteq Owned(kept[b]) \cup {brk}
      BY <3>1 DEF Owned, WithStats
    <3> QED
      BY <1>2, <2>1, <3>2, <3>3
  <2>2. CASE b # d
    BY <1>1, <1>2, <2>2
  <2> QED
    BY <2>1, <2>2
<1>6. Grows
  BY <1>1, <1>3, <1>4 DEF Grows
<1> QED
  BY <1>5, <1>6, Preserved

(* Each instruction keeps the invariant, whatever program it stands in.     *)
LEMMA StepKeeps ==
  ASSUME OwnersInv, Step
  PROVE  OwnersInv'
<1>1. CASE DoAlloc
  <2> DEFINE cell == Cell(Now.d, Now.x, ctx, SchemaOf(Now.s))
  <2>1. IsCell(cell) /\ Owned(cell) = {}
    BY NewCell
  <2> HIDE DEF cell
  <2>2. heap' = With(heap, brk, cell) /\ brk' = brk + 1
    BY <1>1 DEF DoAlloc, cell
  <2>3. brk .. brk' - 1 = {brk}
    BY <2>2 DEF OwnersInv, Numbered
  <2>4. OnlyGains(brk) /\ Grows
    BY <2>1, <2>2, <2>3, Handed DEF OnlyGains, Grows
  <2> QED
    BY <2>4, Preserved
<1>2. CASE DoOwnData
  <2> DEFINE cell == Cell("data", "bytes", ctx, NULL)
             h == With(heap, brk, cell)
             v == Value(Now.d)
             c == Holding(h[v], brk, brk)
  <2>1. IsCell(cell) /\ Owned(cell) = {}
    BY NewCell
  <2>2. heap' = [h EXCEPT ![v] = c] /\ brk' = brk + 1
    BY <1>2 DEF DoOwnData, Attach
  <2>3. v \in DOMAIN h => IsCell(h[v]) /\ brk \notin Owned(h[v])
    BY <2>1, Handed
  <2> HIDE DEF cell, v
  <2>4. v \in DOMAIN h => IsCell(c) /\ Owned(c) \subseteq Owned(h[v]) \cup {brk}
    BY <2>3, Reassigned DEF Owned
  <2> HIDE DEF c
  <2> QED
    BY <2>1, <2>2, <2>4, Assigned
<1>3. CASE DoBorrow
  <2> DEFINE v == Value(Now.d)
             c == Holding(heap[v], BytesOf(Now.s), NULL)
  <2>1. heap' = [heap EXCEPT ![v] = c] /\ brk' = brk
    BY <1>3 DEF DoBorrow
  <2>2. v \in DOMAIN heap => IsCell(c) /\ Owned(c) \subseteq Owned(heap[v])
    BY DEF OwnersInv, Cells, IsCell, Owned, Holding
  <2> HIDE DEF v, c
  <2> QED
    BY <2>1, <2>2, AssignedOld
<1>4. CASE DoMoveData
  BY <1>4, DataMoves
<1>5. CASE DoNewStats
  BY <1>5, StatsReplaced
<1>6. ASSUME NEW cell, IsCell(cell), Owned(cell) = {}, AttachStats(cell)
      PROVE  OwnersInv'
  <2> DEFINE h == With(heap, brk, cell)
             v == Value(Now.d)
             c == WithStats(h[v], brk)
  <2>1. heap' = [h EXCEPT ![v] = c] /\ brk' = brk + 1
    BY <1>6 DEF AttachStats
  <2>2. v \in DOMAIN h => IsCell(h[v]) /\ brk \notin Owned(h[v])
    BY <1>6, Handed
  <2> HIDE DEF v
  <2>3. v \in DOMAIN h => IsCell(c) /\ Owned(c) \subseteq Owned(h[v]) \cup {brk}
    BY <2>2 DEF IsCell, Owned, WithStats
  <2> HIDE DEF c
  <2> QED
    BY <1>6, <2>1, <2>3, Assigned
<1>7. CASE DoCloneStats
  <2>1. CASE At(Now.s).stats = NULL
    <3> DEFINE v == Value(Now.d)
               c == WithStats(heap[v], NULL)
    <3>1. heap' = [heap EXCEPT ![v] = c] /\ brk' = brk
      BY <1>7, <2>1 DEF DoCloneStats
    <3>2. v \in DOMAIN heap => IsCell(c) /\ Owned(c) \subseteq Owned(heap[v])
      BY DEF OwnersInv, Cells, IsCell, Owned, WithStats
    <3> HIDE DEF v, c
    <3> QED
      BY <3>1, <3>2, AssignedOld
  <2>2. CASE At(Now.s).stats # NULL
    BY <1>6, <1>7, <2>2, NewCell DEF DoCloneStats
  <2> QED
    BY <2>1, <2>2
<1>8. CASE DoBorrowStats
  <2> DEFINE bare == Cell("stats", "stats", ctx, At(Now.d).schema)
             cell == [bare EXCEPT !.data = BytesOf(Now.s)]
  <2>1. IsCell(bare) /\ Owned(bare) = {}
    BY NewCell
  <2>2. IsCell(cell) /\ Owned(cell) = {}
    BY DEF Cell, IsCell, Owned
  <2>3. AttachStats(cell)
    BY <1>8 DEF DoBorrowStats
  <2> HIDE DEF cell
  <2> QED
    BY <1>6, <2>2, <2>3
<1>9. CASE DoMoveStats
  BY <1>9, StatsMove
<1>10. CASE DoSetSchema
  <2> DEFINE v == Value(Now.d)
             c == [heap[v] EXCEPT !.schema = Value(Now.s)]
  <2>1. heap' = [heap EXCEPT ![v] = c] /\ brk' = brk
    BY <1>10 DEF DoSetSchema
  <2>2. v \in DOMAIN heap => IsCell(c) /\ Owned(c) \subseteq Owned(heap[v])
    BY Reassigned DEF OwnersInv, Cells
  <2> HIDE DEF v, c
  <2> QED
    BY <2>1, <2>2, AssignedOld
<1>11. CASE DoFree
  <2>1. heap' = [b \in DOMAIN heap \ Freed(Now.d) |-> heap[b]] /\ brk' = brk
    BY <1>11 DEF DoFree
  <2>2. DOMAIN heap \ Freed(Now.d) \subseteq DOMAIN heap
    OBVIOUS
  <2> QED
    BY <2>1, <2>2, LetGo
<1>12. CASE UNCHANGED <<heap, brk>>
  BY <1>12 DEF OwnersInv, Numbered, Cells, Fresh, ExclusiveOwner
<1>13. ASSUME DoRead \/ DoNeedStats \/ DoAlias \/ DoNull \/ DoByType \/ DoByTarget
              \/ DoIfSame \/ DoIfNull \/ DoIfEmpty \/ DoEither \/ DoSwitchTo \/ DoReturn
       PROVE  OwnersInv'
  BY <1>12, <1>13 DEF DoRead, DoNeedStats, DoAlias, DoNull, DoByType, DoByTarget, DoIfSame, DoIfNull,
     DoIfEmpty, DoEither, DoSwitchTo, DoReturn, Keep, Switch
<1> QED
  BY <1>1, <1>2, <1>3, <1>4, <1>5, <1>7, <1>8, <1>9, <1>10, <1>11, <1>13 DEF Step

-----------------------------------------------------------------------------
LEMMA InitOwners == Init => OwnersInv
<1> SUFFICES ASSUME Init PROVE OwnersInv
  OBVIOUS
<1>1. PICK stored, comp, comp2 \in Forms :
        heap = [b \in Fixed |->
                  CASE b = Row  -> Cell("row", stored, "stored", NULL)
                    [] b = Ring -> Cell("ring", comp, "fn", NULL)
                    [] OTHER    -> Cell("ring2", comp2, "fn", NULL)]
  BY DEF Init
<1>2. \A b \in DOMAIN heap : IsCell(heap[b]) /\ Owned(heap[b]) = {}
  BY <1>1, NewCell DEF Fixed
<1>3. brk = 3 /\ heap = [b \in DOMAIN heap |-> heap[b]] /\ DOMAIN heap \subseteq 0 .. 2
  BY <1>1 DEF Init, Fixed, Row, Ring, Ring2
<1> QED
  BY <1>2, <1>3 DEF OwnersInv, Numbered, Cells, ExclusiveOwner, Fresh

(* The executor only lets blocks go, or copies a pointer nobody frees.      *)
LEMMA ExecutorKeeps ==
  ASSUME OwnersInv, [Next]_vars
  PROVE  OwnersInv'
<1>1. ASSUME NEW dead, Drop(dead), brk' = brk
      PROVE  OwnersInv'
  BY <1>1, LetGo DEF Drop, Live
<1>2. CASE UNCHANGED <<heap, brk>>
  BY <1>2 DEF OwnersInv, Numbered, Cells, Fresh, ExclusiveOwner
<1>3. CASE Run
  BY <1>3, StepKeeps DEF Run
<1>4. CASE CallScalar \/ CallTransition \/ CallFinal \/ CallUnnest \/ NextElement \/ Fail
  BY <1>2, <1>4 DEF CallScalar, CallTransition, CallFinal, CallUnnest, Call, NextElement, Fail, Raise, Keep
<1>5. CASE NoMoreElements \/ Consume
  BY <1>1, <1>5 DEF NoMoreElements, Consume
<1>6. CASE TakeState
  <2>1. CASE var["ret"] = var["state"]
    BY <1>1, <1>6, <2>1 DEF TakeState
  <2>2. CASE var["ret"] # var["state"]
    <3> DEFINE cell == [Cell("a", "abs_trans", "agg", NULL) EXCEPT !.data = At("ret").data]
    <3>1. IsCell(cell) /\ Owned(cell) = {}
      BY DEF Cell, IsCell, Owned
    <3> HIDE DEF cell
    <3>2. /\ heap' = [b \in Live({"call"}) \cup {brk} |-> IF b = brk THEN cell ELSE heap[b]]
          /\ brk' = brk + 1 /\ Live({"call"}) \subseteq DOMAIN heap
      BY <1>6, <2>2 DEF TakeState, cell, Live
    <3>3. brk .. brk' - 1 = {brk}
      BY <3>2 DEF OwnersInv, Numbered
    <3>4. OnlyGains(brk) /\ Grows
      BY <3>1, <3>2, <3>3 DEF OnlyGains, Grows, OwnersInv, Cells, Look
    <3> QED
      BY <3>4, Preserved
  <2> QED
    BY <2>1, <2>2
<1>7. CASE Abort \/ Close \/ Shutdown
  BY <1>1, <1>7 DEF Abort, Close, Shutdown, End
<1>8. CASE UNCHANGED vars
  BY <1>2, <1>8 DEF vars, memory
<1> QED
  BY <1>3, <1>4, <1>5, <1>6, <1>7, <1>8 DEF Next, Proceed

(* No two blocks own one block: a buffer, an array of columns or statistics *)
(* is freed by one free function at most.  And none owns the stored row it  *)
(* was read from or the cached schema it carries.                           *)
THEOREM OwnersStayApart == Spec => []OwnersApart
<1>1. OwnersInv => ExclusiveOwner
  BY DEF OwnersInv
<1>2. OwnersInv => FixedNotOwned
  BY DEF OwnersInv, Numbered, Cells, FixedNotOwned, Fresh, Fixed, Row, Ring, Ring2
<1>3. OwnersInv => OwnersApart
  BY <1>1, <1>2 DEF OwnersApart
<1> QED
  BY InitOwners, ExecutorKeeps, <1>3, PTL DEF Spec

-----------------------------------------------------------------------------
(* Instructions and programs that cannot free what was lent.                *)
(* Variables that may hold the stored row or a cached schema; one that may  *)
(* hold the row; all others hold what the call made itself.                 *)
Lent == {"row", "ring", "ring2", "state", "ret", "schema", "oschema", "nschema",
         "serpa", "serpt", "array", "arrptr", "arg", "a"}
Args == {"serpatch"}
Own(v) == v \notin Lent \cup Args

Plain == {"own_data", "borrow", "move_data", "new_stats", "clone_stats", "borrow_stats", "move_stats",
          "set_schema", "read", "need_stats", "switch_to"}

(* An instruction that cannot free what was lent; last holds "return" if    *)
(* the program may return.                                                  *)
Straight(last, i) ==
  \/ i.op \in Plain \cup last
  \/ i.op \in {"alloc", "null"} /\ i.d # "row"
  \/ /\ i.op = "alias" /\ i.d # "row"
     /\ (Own(i.d) => Own(i.s)) /\ (i.d \in Args => Own(i.s) \/ i.s \in Args \cup {"row"})
  \/ i.op = "free" /\ Own(i.d)

Branching(X, i) ==
  \/ i.op \in {"by_type", "by_target", "either"} /\ \A k \in DOMAIN i.x : i.x[k] \in Seq(X)
  \/ i.op \in {"if_same", "if_null", "if_empty"} /\ i.x[1] \in Seq(X) /\ i.x[2] \in Seq(X)
  \/ i.op = "if_same" /\ i.s = "row" /\ i.d \in Args /\ i.x[1] = <<>> /\ i.x[2] = <<Free(i.d)>>

Closed(last, X) == \A i \in X : Straight(last, i) \/ Branching(X, i)
Good(last, i) == \E X : Closed(last, X) /\ i \in X
Sound(last, p) == \E X : Closed(last, X) /\ p \in Seq(X)

(* A sequence over a set is one over a larger set.                          *)
LEMMA SeqWider == ASSUME NEW X, NEW Y, X \subseteq Y, NEW p \in Seq(X) PROVE p \in Seq(Y)
OBVIOUS

(* Closed sets of instructions add up to a closed set.                      *)
LEMMA ClosedUnion ==
  ASSUME NEW last, NEW D, \A X \in D : Closed(last, X)
  PROVE  Closed(last, UNION D)
<1> SUFFICES ASSUME NEW X \in D, NEW i \in X
             PROVE  Straight(last, i) \/ Branching(UNION D, i)
  BY DEF Closed
<1>1. Straight(last, i) \/ Branching(X, i)
  BY DEF Closed
<1>2. X \subseteq UNION D
  OBVIOUS
<1>3. \A p : p \in Seq(X) => p \in Seq(UNION D)
  BY <1>2, SeqWider
<1> QED
  BY <1>1, <1>3 DEF Branching

(* Good instructions one after the other are a sound program.               *)
LEMMA SoundFrom ==
  ASSUME NEW last, NEW S, NEW p \in Seq(S), \A k \in 1 .. Len(p) : Good(last, p[k])
  PROVE  Sound(last, p)
<1> DEFINE X(k) == CHOOSE Y : Closed(last, Y) /\ p[k] \in Y
           D == {X(k) : k \in 1 .. Len(p)}
<1>1. \A k \in 1 .. Len(p) : Closed(last, X(k)) /\ p[k] \in X(k)
  BY DEF Good
<1> HIDE DEF X
<1>2. Closed(last, UNION D)
  BY <1>1, ClosedUnion
<1>3. \A k \in 1 .. Len(p) : p[k] \in UNION D
  BY <1>1
<1> HIDE DEF D
<1>4. p \in Seq(UNION D)
  BY <1>3
<1> QED
  BY <1>2, <1>4 DEF Sound

(* And a sound program consists of good instructions.                       *)
LEMMA SoundGood ==
  ASSUME NEW last, NEW p, Sound(last, p)
  PROVE  /\ \E S : p \in Seq(S)
         /\ Len(p) \in Nat /\ \A k \in 1 .. Len(p) : Good(last, p[k])
  BY DEF Sound, Good

(* Sound programs follow one another.                                       *)
LEMMA SoundJoin ==
  ASSUME NEW last, NEW p, NEW q, Sound(last, p), Sound(last, q)
  PROVE  Sound(last, p \o q)
<1>1. PICK S, T : p \in Seq(S) /\ q \in Seq(T)
  BY SoundGood
<1>2. p \in Seq(S \cup T) /\ q \in Seq(S \cup T)
  BY <1>1, SeqWider
<1>3. p \o q \in Seq(S \cup T) /\ Len(p \o q) = Len(p) + Len(q) /\ Len(p) \in Nat /\ Len(q) \in Nat
  BY <1>2
<1>4. ASSUME NEW k \in 1 .. Len(p \o q) PROVE Good(last, (p \o q)[k])
  <2>1. CASE k <= Len(p)
    <3>1. (p \o q)[k] = p[k]
      BY <1>2, <1>3, <2>1
    <3> QED
      BY <1>3, <2>1, <3>1, SoundGood
  <2>2. CASE k > Len(p)
    <3>1. (p \o q)[k] = q[k - Len(p)] /\ k - Len(p) \in 1 .. Len(q)
      BY <1>2, <1>3, <2>2
    <3> QED
      BY <3>1, SoundGood
  <2> QED
    BY <1>3, <2>1, <2>2
<1> QED
  BY <1>3, <1>4, SoundFrom

(* Programs written out instruction by instruction.                         *)
LEMMA SoundTuples ==
  ASSUME NEW last
  PROVE  /\ Sound(last, <<>>)
         /\ \A a : Good(last, a) => Sound(last, <<a>>)
         /\ \A a, b : Good(last, a) /\ Good(last, b) => Sound(last, <<a, b>>)
         /\ \A a, b, c : Good(last, a) /\ Good(last, b) /\ Good(last, c) => Sound(last, <<a, b, c>>)
         /\ \A a, b, c, d : Good(last, a) /\ Good(last, b) /\ Good(last, c) /\ Good(last, d)
              => Sound(last, <<a, b, c, d>>)
<1>1. Sound(last, <<>>)
  <2>1. <<>> \in Seq({}) /\ \A k \in 1 .. Len(<<>>) : Good(last, <<>>[k])
    OBVIOUS
  <2> QED
    BY <2>1, SoundFrom
<1>2. ASSUME NEW a, Good(last, a) PROVE Sound(last, <<a>>)
  <2>1. <<a>> \in Seq({a}) /\ \A k \in 1 .. Len(<<a>>) : <<a>>[k] = a
    OBVIOUS
  <2> QED
    BY <1>2, <2>1, SoundFrom
<1>3. ASSUME NEW a, NEW p, Good(last, a), Sound(last, p) PROVE Sound(last, <<a>> \o p)
  BY <1>2, <1>3, SoundJoin
<1>4. ASSUME NEW a, NEW b, Good(last, a), Good(last, b) PROVE Sound(last, <<a, b>>)
  <2>1. <<a, b>> \in Seq({a, b}) /\ \A k \in 1 .. Len(<<a, b>>) : <<a, b>>[k] \in {a, b}
    OBVIOUS
  <2> QED
    BY <1>4, <2>1, SoundFrom
<1>5. ASSUME NEW a, NEW b, NEW c, Good(last, a), Good(last, b), Good(last, c) PROVE Sound(last, <<a, b, c>>)
  <2>1. <<a, b, c>> = <<a>> \o <<b, c>>
    OBVIOUS
  <2> QED
    BY <1>4, <1>3, <1>5, <2>1
<1>6. ASSUME NEW a, NEW b, NEW c, NEW d, Good(last, a), Good(last, b), Good(last, c), Good(last, d)
      PROVE  Sound(last, <<a, b, c, d>>)
  <2>1. <<a, b, c, d>> = <<a>> \o <<b, c, d>>
    OBVIOUS
  <2> QED
    BY <1>5, <1>3, <1>6, <2>1
<1> QED
  BY <1>1, <1>2, <1>4, <1>5, <1>6

(* And longer ones.                                                         *)
LEMMA LongTuples ==
  ASSUME NEW last
  PROVE  /\ \A a, b, c, d, e : Good(last, a) /\ Good(last, b) /\ Good(last, c) /\ Good(last, d) /\ Good(last, e)
              => Sound(last, <<a, b, c, d, e>>)
         /\ \A a, b, c, d, e, f : /\ Good(last, a) /\ Good(last, b) /\ Good(last, c) /\ Good(last, d)
                                  /\ Good(last, e) /\ Good(last, f)
              => Sound(last, <<a, b, c, d, e, f>>)
         /\ \A a, b, c, d, e, f, g : /\ Good(last, a) /\ Good(last, b) /\ Good(last, c) /\ Good(last, d)
                                     /\ Good(last, e) /\ Good(last, f) /\ Good(last, g)
              => Sound(last, <<a, b, c, d, e, f, g>>)
<1>1. ASSUME NEW a, NEW b, NEW c, NEW d, NEW e, Good(last, a), Good(last, b), Good(last, c),
             Good(last, d), Good(last, e)
      PROVE  Sound(last, <<a, b, c, d, e>>)
  <2>1. <<a, b, c, d, e>> = <<a, b>> \o <<c, d, e>>
    OBVIOUS
  <2> QED
    BY <1>1, <2>1, SoundTuples, SoundJoin
<1>2. ASSUME NEW a, NEW b, NEW c, NEW d, NEW e, NEW f, Good(last, a), Good(last, b), Good(last, c),
             Good(last, d), Good(last, e), Good(last, f)
      PROVE  Sound(last, <<a, b, c, d, e, f>>)
  <2>1. <<a, b, c, d, e, f>> = <<a, b, c>> \o <<d, e, f>>
    OBVIOUS
  <2> QED
    BY <1>2, <2>1, SoundTuples, SoundJoin
<1>3. ASSUME NEW a, NEW b, NEW c, NEW d, NEW e, NEW f, NEW g, Good(last, a), Good(last, b), Good(last, c),
             Good(last, d), Good(last, e), Good(last, f), Good(last, g)
      PROVE  Sound(last, <<a, b, c, d, e, f, g>>)
  <2>1. <<a, b, c, d, e, f, g>> = <<a, b, c>> \o <<d, e, f, g>>
    OBVIOUS
  <2> QED
    BY <1>3, <2>1, SoundTuples, SoundJoin
<1> QED
  BY <1>1, <1>2, <1>3

(* An instruction without branches is good by itself.                       *)
LEMMA StraightGood ==
  ASSUME NEW last, NEW i, Straight(last, i)
  PROVE  Good(last, i)
<1>1. Closed(last, {i})
  BY DEF Closed
<1> QED
  BY <1>1 DEF Good

(* Which of the model's instructions are good, by the names they use.       *)
LEMMA Instructions ==
  ASSUME NEW last, NEW d, NEW s, NEW x
  PROVE  /\ Good(last, OwnData(d, s)) /\ Good(last, Borrow(d, s)) /\ Good(last, MoveData(d, s))
         /\ Good(last, NewStats(d)) /\ Good(last, CloneStats(d, s)) /\ Good(last, BorrowStats(d, s))
         /\ Good(last, MoveStats(d, s)) /\ Good(last, SetSchema(d, s)) /\ Good(last, Read(s))
         /\ Good(last, NeedStats(s)) /\ Good(last, SwitchTo(x))
         /\ d # "row" => Good(last, Alloc(d, x, s)) /\ Good(last, Null(d))
         /\ Own(d) => Good(last, Free(d)) /\ (Own(s) => Good(last, Alias(d, s)))
         /\ d \in Lent \ {"row"} => Good(last, Alias(d, s))
         /\ d \in Args => Good(last, Alias(d, "row"))
         /\ "return" \in last => Good(last, Return(s)) /\ Good(last, ReturnNull)
<1>1. /\ Good(last, OwnData(d, s)) /\ Good(last, Borrow(d, s)) /\ Good(last, MoveData(d, s))
      /\ Good(last, NewStats(d)) /\ Good(last, CloneStats(d, s)) /\ Good(last, BorrowStats(d, s))
  BY StraightGood DEF Straight, Plain, Ins, OwnData, Borrow, MoveData, NewStats, CloneStats, BorrowStats
<1>2. /\ Good(last, MoveStats(d, s)) /\ Good(last, SetSchema(d, s)) /\ Good(last, Read(s))
      /\ Good(last, NeedStats(s)) /\ Good(last, SwitchTo(x))
  BY StraightGood DEF Straight, Plain, Ins, MoveStats, SetSchema, Read, NeedStats, SwitchTo
<1>3. d # "row" => Good(last, Alloc(d, x, s)) /\ Good(last, Null(d))
  BY StraightGood DEF Straight, Ins, Alloc, Null
<1>4. Own(d) => Good(last, Free(d)) /\ (Own(s) => Good(last, Alias(d, s)))
  BY StraightGood DEF Straight, Ins, Free, Alias, Own, Lent
<1>5. d \in Lent \ {"row"} => Good(last, Alias(d, s))
  BY StraightGood DEF Straight, Ins, Alias, Own, Lent, Args
<1>6. d \in Args => Good(last, Alias(d, "row"))
  BY StraightGood DEF Straight, Ins, Alias, Own, Lent, Args
<1>7. "return" \in last => Good(last, Return(s)) /\ Good(last, ReturnNull)
  BY StraightGood DEF Straight, Ins, Return, ReturnNull
<1> QED
  BY <1>1, <1>2, <1>3, <1>4, <1>5, <1>6, <1>7

(* A branch is good if each of its ways is.                                 *)
LEMMA BranchGood ==
  ASSUME NEW last, NEW i,
         \/ i.op \in {"by_type", "by_target", "either"} /\ \A k \in DOMAIN i.x : Sound(last, i.x[k])
         \/ i.op \in {"if_same", "if_null", "if_empty"} /\ Sound(last, i.x[1]) /\ Sound(last, i.x[2])
  PROVE  Good(last, i)
<1> DEFINE K == IF i.op \in {"by_type", "by_target", "either"} THEN DOMAIN i.x ELSE {1, 2}
           X(k) == CHOOSE Y : Closed(last, Y) /\ i.x[k] \in Seq(Y)
           D == {X(k) : k \in K}
           Z == (UNION D) \cup {i}
<1>1. \A k \in K : Closed(last, X(k)) /\ i.x[k] \in Seq(X(k))
  BY DEF Sound
<1> HIDE DEF X
<1>2. Closed(last, UNION D)
  BY <1>1, ClosedUnion
<1>3. \A k \in K : i.x[k] \in Seq(Z)
  <2> TAKE k \in K
  <2>1. X(k) \subseteq Z
    OBVIOUS
  <2> QED
    BY <1>1, <2>1, SeqWider
<1>4. Branching(Z, i)
  <2> HIDE DEF Z
  <2> QED
    BY <1>3 DEF Branching
<1>5. ASSUME NEW j \in UNION D PROVE Straight(last, j) \/ Branching(Z, j)
  <2>1. Straight(last, j) \/ Branching(UNION D, j)
    BY <1>2 DEF Closed
  <2>2. \A p : p \in Seq(UNION D) => p \in Seq(Z)
    <3>1. UNION D \subseteq Z
      OBVIOUS
    <3> QED
      BY <3>1, SeqWider
  <2> HIDE DEF D, Z
  <2> QED
    BY <2>1, <2>2 DEF Branching
<1>6. Closed(last, Z)
  BY <1>4, <1>5 DEF Closed
<1> QED
  BY <1>6 DEF Good

(* The branches the programs are written with.                              *)
LEMMA Branches ==
  ASSUME NEW last, NEW d, NEW s, NEW p, NEW q, Sound(last, p), Sound(last, q)
  PROVE  /\ Good(last, IfNull(s, p, q)) /\ Good(last, IfEmpty(s, p, q)) /\ Good(last, IfSame(d, s, p, q))
         /\ Good(last, Either(<<p, q>>))
         /\ \A r : Sound(last, r) =>
              /\ Good(last, Either(<<p, q, r>>))
              /\ Good(last, ByType(s, [none |-> p, dim |-> q, laz |-> r]))
              /\ Good(last, ByTarget(s, [none |-> p, dim |-> q, laz |-> r]))
<1>1. Good(last, IfNull(s, p, q)) /\ Good(last, IfEmpty(s, p, q)) /\ Good(last, IfSame(d, s, p, q))
  BY BranchGood DEF IfNull, IfEmpty, IfSame, Ins
<1>2. Good(last, Either(<<p, q>>))
  <2>1. \A k \in DOMAIN <<p, q>> : Sound(last, <<p, q>>[k])
    OBVIOUS
  <2> QED
    BY <2>1, BranchGood DEF Either, Ins
<1>3. ASSUME NEW r, Sound(last, r)
      PROVE  /\ Good(last, Either(<<p, q, r>>))
             /\ Good(last, ByType(s, [none |-> p, dim |-> q, laz |-> r]))
             /\ Good(last, ByTarget(s, [none |-> p, dim |-> q, laz |-> r]))
  <2>1. \A k \in DOMAIN <<p, q, r>> : Sound(last, <<p, q, r>>[k])
    BY <1>3
  <2> DEFINE x == [none |-> p, dim |-> q, laz |-> r]
  <2>2. \A k \in DOMAIN x : Sound(last, x[k])
    BY <1>3
  <2> HIDE DEF x
  <2>3. Good(last, ByType(s, x)) /\ Good(last, ByTarget(s, x))
    BY <2>2, BranchGood DEF ByType, ByTarget, Ins
  <2>4. Good(last, Either(<<p, q, r>>))
    BY <2>1, BranchGood DEF Either, Ins
  <2> QED
    BY <2>3, <2>4 DEF x
<1> QED
  BY <1>1, <1>2, <1>3

(* The same text for every form.                                            *)
LEMMA SwitchGood ==
  ASSUME NEW last, NEW s, NEW x, \A f \in DOMAIN x : Sound(last, x[f])
  PROVE  Good(last, ByType(s, x)) /\ Good(last, ByTarget(s, x)) /\ Good(last, Either(x))
  BY BranchGood DEF ByType, ByTarget, Either, Ins

(* Names of what calls make themselves.                                     *)
LEMMA OwnNames ==
  /\ Own("pdl_uncompressed") /\ Own("pds") /\ Own("pcdu") /\ Own("pcu") /\ Own("pal") /\ Own("pad")
  /\ Own("pt_extent") /\ Own("pau") /\ Own("dstats") /\ Own("pu") /\ Own("pts") /\ Own("pdl_list")
  /\ Own("dim") /\ Own("dpcb") /\ Own("map") /\ Own("dpt") /\ Own("pain") /\ Own("converted")
  /\ Own("pt") /\ Own("dim_str") /\ Own("numeric") /\ Own("vals") /\ Own("elems") /\ Own("result") /\ Own("wkb")
  /\ Own("bytes") /\ Own("text") /\ Own("patch") /\ Own("hexwkb") /\ Own("str") /\ Own("txt") /\ Own("stats")
  /\ Own("serpa_out") /\ Own("clone") /\ Own("pa") /\ Own("patch_in") /\ Own("pdl") /\ Own("patchout")
  /\ Own("serpaout") /\ Own("patch_filtered") /\ Own("serpatch_filtered") /\ Own("dim_name")
  /\ Own("patch_sorted") /\ Own("serpatch_sorted") /\ Own("paout") /\ Own("pl") /\ Own("pa1") /\ Own("pa2")
  /\ Own("palist") /\ Own("s") /\ Own("fctx") /\ Own("pointlist")
  BY DEF Own, Lent, Args

(* The stored row is not among them.                                        *)
LEMMA OwnIs == \A v : Own(v) => v # "row"
  BY DEF Own, Lent

-----------------------------------------------------------------------------
(* The parts of the functions on patches (PatchCalls).                      *)
(* The library's functions, for any result and argument of the call's own.  *)
LEMMA Makes ==
  ASSUME NEW last, NEW d, NEW s, NEW f, d # "row"
  PROVE  /\ Sound(last, UncompressedMake(d, s)) /\ Sound(last, EmptyPatch(d, s))
         /\ Sound(last, DimensionalDecompress(d, s)) /\ Sound(last, UncompressedFromLazperf(d, s))
         /\ Sound(last, LazperfFromUncompressed(d, s)) /\ Sound(last, DimensionalFromUncompressed(d, s))
         /\ Sound(last, DimensionalFilter(d, s)) /\ Sound(last, PointDeserialize(d, s, f))
         /\ Sound(last, PointMake(d, f)) /\ Sound(last, PointSerialize(d, s))
         /\ Sound(last, PointlistFromUncompressed(d, s)) /\ Sound(last, PatchToWkb(d, s))
<1>1. Sound(last, UncompressedMake(d, s)) /\ Sound(last, EmptyPatch(d, s))
  BY SoundTuples, Instructions DEF UncompressedMake, EmptyPatch
<1>2. Sound(last, DimensionalDecompress(d, s)) /\ Sound(last, UncompressedFromLazperf(d, s))
  BY SoundTuples, Instructions DEF DimensionalDecompress, UncompressedFromLazperf
<1>3. Sound(last, LazperfFromUncompressed(d, s)) /\ Sound(last, DimensionalFromUncompressed(d, s))
  BY SoundTuples, Instructions DEF LazperfFromUncompressed, DimensionalFromUncompressed
<1>4. Sound(last, DimensionalFilter(d, s)) /\ Sound(last, PointDeserialize(d, s, f))
  BY SoundTuples, Instructions DEF DimensionalFilter, PointDeserialize
<1>5. Sound(last, PointMake(d, f)) /\ Sound(last, PointSerialize(d, s))
  BY SoundTuples, Instructions DEF PointMake, PointSerialize
<1>6. Sound(last, PointlistFromUncompressed(d, s)) /\ Sound(last, PatchToWkb(d, s))
  BY SoundTuples, Instructions DEF PointlistFromUncompressed, PatchToWkb
<1> QED
  BY <1>1, <1>2, <1>3, <1>4, <1>5, <1>6

(* What the call made may be freed.                                         *)
LEMMA Frees ==
  ASSUME NEW last, NEW v, NEW s, Own(v)
  PROVE  Sound(last, FreeUnlessSame(v, s)) /\ Sound(last, <<Free(v)>>) /\ Sound(last, Nop)
<1>1. Sound(last, <<Free(v)>>) /\ Sound(last, Nop)
  BY SoundTuples, Instructions DEF Nop
<1> QED
  BY <1>1, SoundTuples, Branches DEF FreeUnlessSame

(* pc_patch_uncompressed_from_dimensional.                                  *)
LEMMA FromDimensional ==
  ASSUME NEW last, NEW d, NEW s, d # "row"
  PROVE  Sound(last, UncompressedFromDimensional(d, s))
<1>1. Sound(last, <<Alloc(d, "none", s), CloneStats(d, s), OwnData(d, s)>>)
  BY SoundTuples, Instructions
<1>2. Sound(last, DimensionalDecompress("pdl_uncompressed", s))
  BY Makes
<1>3. Sound(last, <<Read("pdl_uncompressed"), Free("pdl_uncompressed")>>)
  BY SoundTuples, Instructions, OwnNames
<1> QED
  BY <1>1, <1>2, <1>3, SoundJoin DEF UncompressedFromDimensional

(* pc_patch_dimensional_compress, with statistics of its own if given none. *)
LEMMA Compresses ==
  ASSUME NEW last, NEW d, NEW s, NEW pds, d # "row"
  PROVE  Sound(last, DimensionalCompress(d, s, pds))
<1>1. Sound(last, IF pds = NULL THEN <<Alloc("pds", "dimstats", s)>> ELSE <<Read(pds)>>)
  BY SoundTuples, Instructions
<1>2. Sound(last, <<Alloc(d, "dim", s), CloneStats(d, s), OwnData(d, s)>>)
  BY SoundTuples, Instructions
<1>3. Sound(last, IF pds = NULL THEN <<Free("pds")>> ELSE Nop)
  BY Frees, OwnNames
<1> QED
  BY <1>1, <1>2, <1>3, SoundJoin DEF DimensionalCompress

(* pc_patch_uncompress gives back its argument or a new patch.              *)
LEMMA Uncompresses ==
  ASSUME NEW last, NEW d, NEW s, Own(d), Own(s)
  PROVE  Sound(last, Uncompress(d, s))
<1>1. Sound(last, <<Alias(d, s)>>)
  BY SoundTuples, Instructions
<1>2. Sound(last, UncompressedFromDimensional(d, s)) /\ Sound(last, UncompressedFromLazperf(d, s))
  BY FromDimensional, Makes, OwnIs
<1> QED
  BY <1>1, <1>2, SoundTuples, Branches DEF Uncompress

(* pc_patch_compress, with the patch of points it may make on the way.      *)
LEMMA CompressesTo ==
  ASSUME NEW last, NEW d, NEW s, NEW pds, Own(d), Own(s)
  PROVE  Sound(last, Compress(d, s, pds))
<1> USE OwnIs, OwnNames
<1>1. Sound(last, <<Alias(d, s)>>)
  BY SoundTuples, Instructions
<1>2. \A x, y, z : x # "row" => Sound(last, DimensionalCompress(x, y, z))
  BY Compresses
<1>3. \A x, y : x # "row" => /\ Sound(last, UncompressedFromDimensional(x, y))
                             /\ Sound(last, UncompressedFromLazperf(x, y))
                             /\ Sound(last, DimensionalFromUncompressed(x, y))
                             /\ Sound(last, LazperfFromUncompressed(x, y))
  BY FromDimensional, Makes
<1>4. Sound(last, <<Free("pcdu")>>) /\ Sound(last, <<Free("pal")>>) /\ Sound(last, <<Free("pad")>>)
  BY Frees
<1>5. Sound(last, DimensionalFromUncompressed("pcdu", s) \o DimensionalCompress(d, "pcdu", pds) \o <<Free("pcdu")>>)
  BY <1>2, <1>3, <1>4, SoundJoin
<1>6. Sound(last, UncompressedFromLazperf("pcu", s) \o DimensionalFromUncompressed("pal", "pcu")
                   \o DimensionalCompress(d, "pal", NULL) \o <<Free("pal")>>)
  BY <1>2, <1>3, <1>4, SoundJoin
<1>7. Sound(last, UncompressedFromDimensional("pad", s) \o LazperfFromUncompressed(d, "pad") \o <<Free("pad")>>)
  BY <1>3, <1>4, SoundJoin
<1>8. Sound(last, <<ByType(s,
         [none |-> DimensionalFromUncompressed("pcdu", s) \o DimensionalCompress(d, "pcdu", pds) \o <<Free("pcdu")>>,
          dim  |-> DimensionalCompress(d, s, pds),
          laz  |-> UncompressedFromLazperf("pcu", s) \o DimensionalFromUncompressed("pal", "pcu")
                   \o DimensionalCompress(d, "pal", NULL) \o <<Free("pal")>>])>>)
  BY <1>2, <1>5, <1>6, SoundTuples, Branches
<1>9. Sound(last, <<ByType(s,
         [none |-> LazperfFromUncompressed(d, s),
          dim  |-> UncompressedFromDimensional("pad", s) \o LazperfFromUncompressed(d, "pad") \o <<Free("pad")>>,
          laz  |-> <<Alias(d, s)>>])>>)
  BY <1>1, <1>3, <1>7, SoundTuples, Branches
<1>10. Sound(last, Uncompress(d, s))
  BY Uncompresses
<1> QED
  BY <1>8, <1>9, <1>10, SoundTuples, Branches DEF Compress

(* Extents and statistics of a patch in any form.                           *)
LEMMA Extents ==
  ASSUME NEW last, NEW s
  PROVE  /\ Sound(last, UncompressedComputeExtent(s)) /\ Sound(last, ComputeExtent(s))
         /\ Sound(last, UncompressedComputeStats(s)) /\ Sound(last, ComputeStats(s))
<1> USE OwnIs, OwnNames
<1>1. \A v : Sound(last, UncompressedComputeExtent(v))
  BY SoundTuples, Instructions DEF UncompressedComputeExtent
<1>2. \A v : Sound(last, UncompressedComputeStats(v))
  BY SoundTuples, Instructions DEF UncompressedComputeStats
<1>3. \A v : Own(v) => Sound(last, UncompressedFromLazperf(v, s)) /\ Sound(last, UncompressedFromDimensional(v, s))
  BY Makes, FromDimensional
<1>4. Sound(last, ComputeExtent(s))
  <2>1. Sound(last, UncompressedFromLazperf("pau", s) \o UncompressedComputeExtent("pau"))
    BY <1>1, <1>3, SoundJoin
  <2>2. Sound(last, <<Read(s)>>)
    BY SoundTuples, Instructions
  <2> QED
    BY <1>1, <2>1, <2>2, SoundTuples, Branches DEF ComputeExtent
<1>5. Sound(last, ComputeStats(s))
  <2>1. Sound(last, <<MoveStats(s, "pu"), Free("pu")>>) /\ Sound(last, <<CloneStats(s, "pu"), Free("pu")>>)
    BY SoundTuples, Instructions
  <2>2. Sound(last, UncompressedFromDimensional("pu", s) \o UncompressedComputeStats("pu")
                    \o <<MoveStats(s, "pu"), Free("pu")>>)
    BY <1>2, <1>3, <2>1, SoundJoin
  <2>3. Sound(last, UncompressedFromLazperf("pu", s) \o UncompressedComputeStats("pu")
                    \o <<CloneStats(s, "pu"), Free("pu")>>)
    BY <1>2, <1>3, <2>1, SoundJoin
  <2> QED
    BY <1>2, <2>2, <2>3, SoundTuples, Branches DEF ComputeStats
<1> QED
  BY <1>1, <1>2, <1>4, <1>5

(* Patches read from WKB.                                                   *)
LEMMA ReadsWkb ==
  ASSUME NEW last, NEW d, NEW s, NEW schema, d # "row"
  PROVE  Sound(last, PatchFromWkb(d, s, schema))
<1>1. \A f : Sound(last, <<Alloc(d, f, schema), OwnData(d, s)>>)
  BY SoundTuples, Instructions
<1>2. Sound(last, <<Either(<< <<Alloc(d, "none", schema), OwnData(d, s)>>,
                              <<Alloc(d, "dim", schema), OwnData(d, s)>>,
                              <<Alloc(d, "laz", schema), OwnData(d, s)>> >>)>>)
  BY <1>1, SoundTuples, Branches
<1> QED
  BY <1>2, Extents, SoundJoin DEF PatchFromWkb

(* A temporary that is read and freed.                                      *)
LEMMA ThroughTemporary ==
  ASSUME NEW last, NEW v, NEW s, Own(v)
  PROVE  /\ Sound(last, UncompressedFromDimensional(v, s) \o <<Read(v), Free(v)>>)
         /\ Sound(last, UncompressedFromLazperf(v, s) \o <<Read(v), Free(v)>>)
<1>1. Sound(last, <<Read(v), Free(v)>>)
  BY SoundTuples, Instructions
<1> QED
  BY <1>1, Makes, FromDimensional, OwnIs, SoundJoin

(* A patch as text.                                                         *)
LEMMA Prints ==
  ASSUME NEW last, NEW d, NEW s, d # "row"
  PROVE  Sound(last, PatchToString(d, s))
<1> DEFINE text(v) == <<Read(v), Alloc(d, "bytes", NULL)>>
<1>1. \A v : Sound(last, text(v))
  BY SoundTuples, Instructions
<1>2. Sound(last, <<Free("pts")>>)
  BY Frees, OwnNames
<1> HIDE DEF text
<1>3. Sound(last, UncompressedFromDimensional("pts", s)) /\ Sound(last, UncompressedFromLazperf("pts", s))
  BY Makes, FromDimensional, OwnIs, OwnNames
<1>4. /\ Sound(last, UncompressedFromDimensional("pts", s) \o text("pts") \o <<Free("pts")>>)
      /\ Sound(last, UncompressedFromLazperf("pts", s) \o text("pts") \o <<Free("pts")>>)
  BY <1>1, <1>2, <1>3, SoundJoin
<1> QED
  BY <1>1, <1>4, SoundTuples, Branches DEF PatchToString, text

(* Lists of points taken from a patch.                                      *)
LEMMA Lists ==
  ASSUME NEW last, NEW d, NEW s, d # "row"
  PROVE  Sound(last, PointlistFromPatch(d, s)) /\ Sound(last, PatchFromPointlist(d, s))
<1> USE OwnNames, OwnIs
<1>1. Sound(last, PointlistFromDimensional(d, s))
  <2>1. Sound(last, <<Alloc(d, "points", s), OwnData(d, "pdl_list"), Free("pdl_list")>>)
    BY SoundTuples, Instructions
  <2> QED
    BY <2>1, Makes, SoundJoin DEF PointlistFromDimensional
<1>2. Sound(last, PointlistFromLazperf(d, s))
  <2>1. Sound(last, <<MoveData(d, "pu"), Free("pu")>>)
    BY SoundTuples, Instructions
  <2> QED
    BY <2>1, Makes, SoundJoin DEF PointlistFromLazperf
<1>3. Sound(last, PointlistFromUncompressed(d, s))
  BY Makes
<1>4. Sound(last, <<Read(s), Alloc(d, "none", s), OwnData(d, s)>>)
  BY SoundTuples, Instructions
<1> QED
  BY <1>1, <1>2, <1>3, <1>4, SoundTuples, Branches, SoundJoin, Extents DEF PointlistFromPatch, PatchFromPointlist

(* Points of a patch, copied into another.                                  *)
LEMMA Copies ==
  ASSUME NEW last, NEW s
  PROVE  Sound(last, CopyPointsOf(s))
<1>1. Sound(last, <<Read(s)>>)
  BY SoundTuples, Instructions
<1> QED
  BY <1>1, ThroughTemporary, OwnNames, SoundTuples, Branches DEF CopyPointsOf

(* pc_patch_range.                                                          *)
LEMMA Ranges ==
  ASSUME NEW last, NEW d, NEW s, Own(d), Own(s)
  PROVE  Sound(last, PatchRange(d, s))
<1> USE OwnNames, OwnIs
<1>1. Sound(last, <<Null(d)>>) /\ Sound(last, <<Alias(d, s)>>) /\ Sound(last, <<Read("pu")>>)
  BY SoundTuples, Instructions
<1>2. Sound(last, UncompressedMake(d, s)) /\ Sound(last, Uncompress("pu", s)) /\ Sound(last, FreeUnlessSame("pu", s))
  BY Makes, Uncompresses, Frees
<1>3. Sound(last, UncompressedMake(d, s) \o Uncompress("pu", s) \o <<Read("pu")>> \o FreeUnlessSame("pu", s)
                  \o UncompressedComputeExtent(d) \o UncompressedComputeStats(d))
  BY <1>1, <1>2, Extents, SoundJoin
<1> QED
  BY <1>1, <1>3, SoundTuples, Branches DEF PatchRange

(* pc_patch_pointn.                                                         *)
LEMMA PicksPoint ==
  ASSUME NEW last, NEW d, NEW s, d # "row"
  PROVE  Sound(last, PatchPointN(d, s))
<1>1. /\ Sound(last, <<Null(d)>>) /\ Sound(last, <<Alloc(d, "point", s), Borrow(d, s)>>)
      /\ Sound(last, <<Alloc(d, "point", s), OwnData(d, s)>>)
  BY SoundTuples, Instructions
<1>2. Sound(last, PointMake(d, s) \o UncompressedFromLazperf("pau", s) \o <<Read("pau"), Free("pau")>>)
  <2>1. Sound(last, PointMake(d, s)) /\ Sound(last, UncompressedFromLazperf("pau", s))
    BY Makes, OwnNames, OwnIs
  <2>2. Sound(last, <<Read("pau"), Free("pau")>>)
    BY SoundTuples, Instructions, OwnNames
  <2> QED
    BY <2>1, <2>2, SoundJoin
<1>3. Sound(last, <<ByType(s, [none |-> <<Alloc(d, "point", s), Borrow(d, s)>>,
                               dim  |-> <<Alloc(d, "point", s), OwnData(d, s)>>,
                               laz  |-> PointMake(d, s) \o UncompressedFromLazperf("pau", s)
                                        \o <<Read("pau"), Free("pau")>>])>>)
  BY <1>1, <1>2, SoundTuples, Branches
<1> QED
  BY <1>1, <1>3, SoundTuples, Branches DEF PatchPointN

(* pc_patch_sort.                                                           *)
LEMMA Sorts ==
  ASSUME NEW last, NEW d, NEW s, Own(d), Own(s)
  PROVE  Sound(last, PatchSort(d, s)) /\ Sound(last, PatchIsSorted(s))
<1> USE OwnNames, OwnIs
<1>1. /\ Sound(last, <<Alloc("dim", "list", NULL)>>) /\ Sound(last, <<CloneStats(d, "pu"), Free("dim")>>)
      /\ Sound(last, <<Read(s)>>) /\ Sound(last, <<Alloc("dpcb", "bytes", NULL), Read(s), Free("dpcb")>>)
  BY SoundTuples, Instructions
<1>2. Sound(last, PatchSort(d, s))
  <2>1. Sound(last, Uncompress("pu", s)) /\ Sound(last, UncompressedMake(d, "pu")) /\ Sound(last, FreeUnlessSame("pu", s))
    BY Uncompresses, Makes, Frees
  <2> QED
    BY <1>1, <2>1, SoundJoin DEF PatchSort
<1>3. Sound(last, PatchIsSorted(s))
  <2> DEFINE scan == UncompressedFromDimensional("pu", s) \o <<Read("pu"), Free("pu")>>
             lazy == UncompressedFromLazperf("pu", s) \o <<Read("pu"), Free("pu")>>
             any == <<Either(<< scan, <<Read(s)>>, <<Alloc("dpcb", "bytes", NULL), Read(s), Free("dpcb")>> >>)>>
             cases == ByType(s, [none |-> <<Read(s)>>, dim |-> any, laz |-> lazy])
  <2>1. Sound(last, scan) /\ Sound(last, lazy)
    BY ThroughTemporary
  <2> HIDE DEF scan, lazy
  <2>2. Sound(last, any)
    BY <1>1, <2>1, SoundTuples, Branches
  <2> HIDE DEF any
  <2>3. Good(last, cases)
    BY <1>1, <2>1, <2>2, Branches
  <2> HIDE DEF cases
  <2>4. Sound(last, <<Alloc("dim", "list", NULL), cases, Free("dim")>>)
    BY <2>3, SoundTuples, Instructions
  <2> QED
    BY <2>4 DEF PatchIsSorted, cases, any, scan, lazy
<1> QED
  BY <1>2, <1>3

(* A bitmap of the points to keep, what is done with it, and its end.       *)
LEMMA Bitmaps ==
  ASSUME NEW last, NEW d, NEW s, NEW pts, NEW filtered, NEW cleanup, d # "row",
         Sound(last, filtered), Sound(last, cleanup)
  PROVE  Sound(last, ThroughBitmap(d, s, pts, filtered, cleanup))
<1>1. Sound(last, <<Free("map")>>) /\ Sound(last, EmptyPatch(d, s))
  BY Frees, Makes, OwnNames
<1>2. Sound(last, <<Free("map")>> \o cleanup \o EmptyPatch(d, s)) /\ Sound(last, filtered \o <<Free("map")>> \o cleanup)
  BY <1>1, SoundJoin
<1>3. Good(last, Either(<< <<Free("map")>> \o cleanup \o EmptyPatch(d, s), filtered \o <<Free("map")>> \o cleanup >>))
  BY <1>2, Branches
<1>4. Good(last, Read(pts)) /\ Good(last, Alloc("map", "bitmap", NULL))
  BY Instructions, OwnNames, OwnIs
<1> QED
  BY <1>3, <1>4, SoundTuples DEF ThroughBitmap

(* pc_patch_filter.                                                         *)
LEMMA Filters ==
  ASSUME NEW last, NEW d, NEW s, d # "row"
  PROVE  Sound(last, PatchFilter(d, s))
<1> USE OwnNames, OwnIs
<1>1. \A v : Sound(last, <<Read(v)>>)
  BY SoundTuples, Instructions
<1>2. \A v : Sound(last, UncompressedFilter(d, v))
  BY <1>1, Makes, Extents, SoundJoin DEF UncompressedFilter
<1>3. /\ Sound(last, DimensionalFilter(d, s)) /\ Sound(last, Nop) /\ Sound(last, <<Free("pau")>>)
      /\ Sound(last, UncompressedFromLazperf("pau", s))
  BY Makes, Frees
<1>4. /\ Sound(last, ThroughBitmap(d, s, s, UncompressedFilter(d, s), Nop))
      /\ Sound(last, ThroughBitmap(d, s, s, DimensionalFilter(d, s), Nop))
      /\ Sound(last, ThroughBitmap(d, s, "pau", UncompressedFilter(d, "pau"), <<Free("pau")>>))
  BY <1>2, <1>3, Bitmaps
<1>5. Sound(last, UncompressedFromLazperf("pau", s)
                  \o ThroughBitmap(d, s, "pau", UncompressedFilter(d, "pau"), <<Free("pau")>>))
  BY <1>3, <1>4, SoundJoin
<1>6. Sound(last, <<ByType(s,
                 [none |-> ThroughBitmap(d, s, s, UncompressedFilter(d, s), Nop),
                  dim  |-> ThroughBitmap(d, s, s, DimensionalFilter(d, s), Nop),
                  laz  |-> UncompressedFromLazperf("pau", s)
                           \o ThroughBitmap(d, s, "pau", UncompressedFilter(d, "pau"), <<Free("pau")>>)])>>)
  BY <1>4, <1>5, SoundTuples, Branches
<1>7. Sound(last, <<Read(s)>> \o EmptyPatch(d, s))
  BY <1>1, Makes, SoundJoin
<1> QED
  BY <1>6, <1>7, SoundTuples, Branches DEF PatchFilter

(* pc_patch_set_schema and pc_patch_transform.                              *)
LEMMA Reschemas ==
  ASSUME NEW last, NEW d, NEW s, NEW schema, Own(d), Own(s)
  PROVE  Sound(last, PatchSetSchema(d, s, schema)) /\ Sound(last, PatchTransform(d, s, schema))
<1> USE OwnNames, OwnIs
<1>1. /\ Sound(last, PointMake("dpt", schema)) /\ Sound(last, Uncompress("pain", s))
      /\ Sound(last, UncompressedMake(d, schema)) /\ Sound(last, FreeUnlessSame("pain", s))
  BY Makes, Uncompresses, Frees
<1>2. /\ Sound(last, <<Read("pain"), Read("dpt"), NewStats(d), Read(s), Free("dpt")>>)
      /\ Sound(last, <<Read("pain")>>) /\ Sound(last, <<Null(d)>>)
  BY SoundTuples, LongTuples, Instructions
<1>3. Sound(last, PatchSetSchema(d, s, schema))
  BY <1>1, <1>2, SoundJoin DEF PatchSetSchema
<1>4. Sound(last, Uncompress("pain", s) \o UncompressedMake(d, schema) \o <<Read("pain")>> \o FreeUnlessSame("pain", s)
              \o UncompressedComputeExtent(d) \o UncompressedComputeStats(d))
  BY <1>1, <1>2, Extents, SoundJoin
<1>5. Sound(last, PatchTransform(d, s, schema))
  BY <1>2, <1>4, SoundTuples, Branches DEF PatchTransform
<1> QED
  BY <1>3, <1>5

(* pc_patch_serialize and pc_patch_serialize_to_uncompressed.               *)
LEMMA Serializes ==
  ASSUME NEW last, NEW d, NEW s, NEW pds, d # "row", Own(s)
  PROVE  Sound(last, PatchSerialize(d, s, pds)) /\ Sound(last, SerializeToUncompressed(d, s))
<1> USE OwnNames, OwnIs
<1>1. \A v : Sound(last, Encode(d, v))
  <2> TAKE v
  <2> DEFINE x == [f \in Forms |-> <<Alloc(d, f, NULL)>>]
  <2>1. \A f \in DOMAIN x : Sound(last, x[f])
    BY SoundTuples, Instructions
  <2> HIDE DEF x
  <2>2. Good(last, ByType(v, x)) /\ Good(last, NeedStats(v))
    BY <2>1, SwitchGood, Instructions
  <2> QED
    BY <2>2, SoundTuples DEF Encode, x
<1>2. Sound(last, FreeUnlessSame("converted", s)) /\ Sound(last, Uncompress("converted", s))
  BY Frees, Uncompresses
<1>3. Sound(last, SerializeToUncompressed(d, s))
  BY <1>1, <1>2, SoundJoin DEF SerializeToUncompressed
<1>4. Sound(last, PatchSerialize(d, s, pds))
  <2> DEFINE way(f, g) == IF f = g THEN <<Alias("converted", s)>> ELSE Compress("converted", s, pds)
             x(f) == [g \in Forms |-> way(f, g)]
             y == [f \in Forms |-> <<ByType(s, x(f))>>]
  <2>1. \A f, g : Sound(last, way(f, g))
    BY SoundTuples, Instructions, CompressesTo
  <2> HIDE DEF way
  <2>2. \A f : Good(last, ByType(s, x(f)))
    BY <2>1, SwitchGood
  <2> HIDE DEF x
  <2>3. \A f \in DOMAIN y : Sound(last, y[f])
    BY <2>2, SoundTuples
  <2> HIDE DEF y
  <2>4. Good(last, ByTarget(s, y)) /\ Good(last, NeedStats(s))
    BY <2>3, SwitchGood, Instructions
  <2>5. Sound(last, <<NeedStats(s), ByTarget(s, y)>>)
    BY <2>4, SoundTuples
  <2>6. Sound(last, <<NeedStats(s), ByTarget(s, y)>> \o Encode(d, "converted") \o FreeUnlessSame("converted", s))
    BY <1>1, <1>2, <2>5, SoundJoin
  <2> QED
    BY <2>6 DEF PatchSerialize, y, x, way
<1> QED
  BY <1>3, <1>4

(* pc_patch_deserialize, for each form of the stored bytes.                 *)
LEMMA Deserializes ==
  ASSUME NEW last, NEW d, NEW s, NEW schema, d # "row"
  PROVE  /\ \A f : Sound(last, DeserializeAs(f, d, s, schema))
         /\ Sound(last, PatchDeserialize(d, s, schema))
<1>1. \A f : Sound(last, DeserializeAs(f, d, s, schema))
  <2> TAKE f
  <2>1. /\ Sound(last, <<Alloc(d, f, schema), BorrowStats(d, s)>>)
        /\ Sound(last, IF f = "laz" THEN <<OwnData(d, s)>> ELSE <<Borrow(d, s)>>)
    BY SoundTuples, Instructions
  <2> QED
    BY <2>1, SoundJoin DEF DeserializeAs
<1>2. Sound(last, PatchDeserialize(d, s, schema))
  <2> DEFINE x == [f \in Forms |-> DeserializeAs(f, d, s, schema)]
  <2>1. \A f \in DOMAIN x : Sound(last, x[f])
    BY <1>1
  <2> HIDE DEF x
  <2>2. Good(last, ByType(s, x))
    BY <2>1, SwitchGood
  <2> QED
    BY <2>2, SoundTuples DEF PatchDeserialize, x
<1> QED
  BY <1>1, <1>2

-----------------------------------------------------------------------------
(* The functions of the extension (SqlCalls).                               *)
(* A function of the extension may return.                                  *)
Returns == {"return"}

(* An argument is the stored row or a copy of it; either may be held.       *)
LEMMA Arguments ==
  ASSUME NEW last, NEW v, v \in Lent \cup Args, v # "row"
  PROVE  Sound(last, GetArg(v)) /\ Sound(last, Copied(v))
<1>1. Sound(last, Copied(v))
  <2> DEFINE x == [f \in Forms |-> <<Alloc(v, f, NULL), Read("row")>>]
  <2>1. \A f \in DOMAIN x : Sound(last, x[f])
    BY SoundTuples, Instructions
  <2> HIDE DEF x
  <2>2. Good(last, ByType("row", x))
    BY <2>1, SwitchGood
  <2> QED
    BY <2>2, SoundTuples DEF Copied, x
<1>2. Sound(last, <<Alias(v, "row")>>)
  BY SoundTuples, Instructions
<1> QED
  BY <1>1, <1>2, SoundTuples, Branches DEF GetArg

(* Names that may hold what was lent.                                       *)
LEMMA LentNames ==
  /\ {"schema", "oschema", "nschema", "serpa", "serpt", "array", "arrptr", "arg", "a"} \subseteq Lent \ {"row"}
  /\ "serpatch" \in Args /\ "serpatch" # "row"
  BY DEF Lent, Args

(* Schemas of the ring are only pointed to.                                 *)
LEMMA Schemas ==
  ASSUME NEW last, NEW v \in Lent \ {"row"}
  PROVE  Sound(last, FromPcid(v)) /\ Sound(last, <<Alias(v, "ring2")>>)
  BY SoundTuples, Instructions DEF FromPcid

(* Points and patches of an argument.                                       *)
LEMMA Gets ==
  ASSUME NEW last, NEW d, NEW s, Own(d), s \in {"serpa", "serpt", "serpatch"}
  PROVE  Sound(last, GetPatch(d, s)) /\ Sound(last, GetPoint(d, s))
<1>1. Sound(last, GetArg(s)) /\ Sound(last, FromPcid("schema"))
  BY Arguments, Schemas, LentNames
<1>2. Sound(last, PatchDeserialize(d, s, "schema")) /\ Sound(last, PointDeserialize(d, s, "schema"))
  BY Deserializes, Makes, OwnIs
<1> QED
  BY <1>1, <1>2, SoundJoin DEF GetPatch, GetPoint

(* A function may return what it made.                                      *)
LEMMA ReturnsMade ==
  ASSUME NEW out, NEW v, out # "row", Own(v)
  PROVE  Sound(Returns, ReturnPatch(out, v)) /\ Sound(Returns, ReturnPoint(out, v))
<1>1. Sound(Returns, <<Free(v), Return(out)>>)
  BY SoundTuples, Instructions DEF Returns
<1>2. Sound(Returns, PatchSerialize(out, v, NULL)) /\ Sound(Returns, PointSerialize(out, v))
  BY Serializes, Makes
<1> QED
  BY <1>1, <1>2, SoundJoin DEF ReturnPatch, ReturnPoint

(* PG_FREE_IF_COPY: what is not the row itself is a copy of it.             *)
LEMMA FreesCopy == ASSUME NEW last PROVE Sound(last, FreeIfCopy("serpatch"))
<1> DEFINE i == IfSame("serpatch", "row", Nop, <<Free("serpatch")>>)
<1>1. Branching({i}, i)
  BY DEF Branching, IfSame, Ins, Args, Nop
<1>2. Good(last, i)
  BY <1>1 DEF Good, Closed
<1> HIDE DEF i
<1>3. Sound(last, <<i>>)
  BY <1>2, SoundTuples
<1> QED
  BY <1>3 DEF FreeIfCopy, FreeUnlessSame, i

-----------------------------------------------------------------------------
(* Functions on points.                                                     *)
LEMMA PointFunctions ==
  /\ Sound(Returns, pcpoint_get_value) /\ Sound(Returns, pcpoint_get_values) /\ Sound(Returns, pcpoint_in)
  /\ Sound(Returns, pcpoint_from_double_array) /\ Sound(Returns, pcpoint_out)
<1> USE OwnNames, OwnIs, LentNames
<1>0. Sound(Returns, GetPoint("pt", "serpt")) /\ Sound(Returns, FromPcid("schema")) /\ Sound(Returns, ReturnPoint("serpt", "pt"))
  BY Gets, Schemas, ReturnsMade
<1>1. Sound(Returns, pcpoint_get_value)
  <2>1. Sound(Returns, <<Alloc("dim_str", "bytes", NULL), Read("pt"), Free("dim_str"), Free("pt"),
                         Alloc("numeric", "bytes", NULL), Return("numeric")>>)
    BY LongTuples, Instructions DEF Returns
  <2> QED
    BY <1>0, <2>1, SoundJoin DEF pcpoint_get_value
<1>2. Sound(Returns, pcpoint_get_values)
  <2>1. Sound(Returns, <<Alloc("elems", "bytes", NULL), Alloc("vals", "bytes", NULL), Read("pt"), Free("vals"),
                         Alloc("result", "bytes", NULL), Free("pt"), Return("result")>>)
    BY LongTuples, Instructions DEF Returns
  <2> QED
    BY <1>0, <2>1, SoundJoin DEF pcpoint_get_values
<1>3. Sound(Returns, pcpoint_in)
  <2>1. /\ Sound(Returns, <<Alloc("wkb", "bytes", NULL)>>)
        /\ Sound(Returns, <<Alloc("pt", "point", "schema"), OwnData("pt", "wkb"), Free("wkb")>>)
    BY SoundTuples, Instructions
  <2> QED
    BY <1>0, <2>1, SoundJoin DEF pcpoint_in
<1>4. Sound(Returns, pcpoint_from_double_array)
  BY <1>0, Makes, SoundJoin DEF pcpoint_from_double_array
<1>5. Sound(Returns, pcpoint_out)
  <2>1. Sound(Returns, <<Read("pt"), Alloc("bytes", "bytes", NULL), Alloc("text", "bytes", NULL),
                         Free("pt"), Free("bytes"), Return("text")>>)
    BY LongTuples, Instructions DEF Returns
  <2> QED
    BY <1>0, <2>1, SoundJoin DEF pcpoint_out
<1> QED
  BY <1>1, <1>2, <1>3, <1>4, <1>5

(* Input and output of patches.                                             *)
LEMMA PatchesInAndOut ==
  /\ Sound(Returns, pcpatch_in) /\ Sound(Returns, pcpatch_out) /\ Sound(Returns, pcpatch_as_text)
<1> USE OwnNames, OwnIs, LentNames
<1>1. Sound(Returns, pcpatch_in)
  <2>1. Sound(Returns, <<Alloc("wkb", "bytes", NULL)>>) /\ Sound(Returns, <<Free("wkb")>>)
    BY SoundTuples, Instructions
  <2>2. /\ Sound(Returns, FromPcid("schema")) /\ Sound(Returns, PatchFromWkb("patch", "wkb", "schema"))
        /\ Sound(Returns, ReturnPatch("serpatch", "patch"))
    BY Schemas, ReadsWkb, ReturnsMade
  <2> QED
    BY <2>1, <2>2, SoundJoin DEF pcpatch_in
<1>2. Sound(Returns, pcpatch_out)
  <2>1. Sound(Returns, <<Alloc("hexwkb", "bytes", NULL), Free("wkb"), Free("patch"), Return("hexwkb")>>)
    BY SoundTuples, Instructions DEF Returns
  <2>2. Sound(Returns, GetPatch("patch", "serpatch")) /\ Sound(Returns, PatchToWkb("wkb", "patch"))
    BY Gets, Makes
  <2> QED
    BY <2>1, <2>2, SoundJoin DEF pcpatch_out
<1>3. Sound(Returns, pcpatch_as_text)
  <2>1. Sound(Returns, <<Free("patch"), Alloc("txt", "bytes", NULL), Free("str"), Return("txt")>>)
    BY SoundTuples, Instructions DEF Returns
  <2>2. Sound(Returns, GetPatch("patch", "serpatch")) /\ Sound(Returns, PatchToString("str", "patch"))
    BY Gets, Prints
  <2> QED
    BY <2>1, <2>2, SoundJoin DEF pcpatch_as_text
<1> QED
  BY <1>1, <1>2, <1>3

(* Functions that look at the statistics or the whole of a patch.           *)
LEMMA SliceFunctions ==
  /\ Sound(Returns, pcpatch_envelope_as_bytea) /\ Sound(Returns, pcpatch_bounding_diagonal_as_bytea)
  /\ Sound(Returns, pcpatch_get_stat) /\ Sound(Returns, pcpatch_summary) /\ Sound(Returns, pcpatch_enforce_typmod)
<1> USE OwnNames, OwnIs, LentNames
<1>1. /\ Sound(Returns, Copied("serpatch")) /\ Sound(Returns, Copied("serpa")) /\ Sound(Returns, GetArg("serpa"))
      /\ Sound(Returns, GetArg("arg")) /\ Sound(Returns, FromPcid("schema")) /\ Sound(Returns, Nop)
  BY Arguments, Schemas, Frees
<1>2. Sound(Returns, <<Either(<< Nop, Copied("serpa") >>)>>) /\ Sound(Returns, <<Either(<< Nop, Copied("serpatch") >>)>>)
  BY <1>1, SoundTuples, Branches
<1>3. Sound(Returns, StatsOf("serpa")) /\ Sound(Returns, StatsOf("serpatch"))
  <2>1. \A v : Sound(Returns, <<Alloc("stats", "stats", "schema"), Borrow("stats", v)>>)
    BY SoundTuples, Instructions
  <2> QED
    BY <1>1, <1>2, <2>1, SoundJoin DEF StatsOf
<1>4. Sound(Returns, pcpatch_envelope_as_bytea)
  <2>1. Sound(Returns, <<Read("serpatch"), Alloc("bytes", "bytes", NULL), Alloc("wkb", "bytes", NULL),
                         Free("bytes"), Return("wkb")>>)
    BY LongTuples, Instructions DEF Returns
  <2> QED
    BY <1>1, <2>1, SoundJoin DEF pcpatch_envelope_as_bytea
<1>5. Sound(Returns, pcpatch_bounding_diagonal_as_bytea)
  <2>1. Sound(Returns, <<Read("stats"), Alloc("bytes", "bytes", NULL), Free("stats"), Alloc("wkb", "bytes", NULL),
                         Free("bytes"), Return("wkb")>>)
    BY LongTuples, Instructions DEF Returns
  <2> QED
    BY <1>3, <2>1, SoundJoin DEF pcpatch_bounding_diagonal_as_bytea
<1>6. Sound(Returns, pcpatch_get_stat)
  <2>1. Sound(Returns, <<Free("stats"), Return("serpt")>>) /\ Sound(Returns, PointSerialize("serpt", "stats"))
    BY SoundTuples, Instructions, Makes DEF Returns
  <2>2. Sound(Returns, <<Alloc("dim_str", "bytes", NULL), Read("stats"), Free("stats"), Free("dim_str"),
                         Alloc("numeric", "bytes", NULL), Return("numeric")>>)
    BY LongTuples, Instructions DEF Returns
  <2>3. Sound(Returns, PointSerialize("serpt", "stats") \o <<Free("stats"), Return("serpt")>>)
    BY <2>1, SoundJoin
  <2>4. Sound(Returns, <<Either(<< PointSerialize("serpt", "stats") \o <<Free("stats"), Return("serpt")>>,
                 <<Alloc("dim_str", "bytes", NULL), Read("stats"), Free("stats"), Free("dim_str"),
                   Alloc("numeric", "bytes", NULL), Return("numeric")>> >>)>>)
    BY <2>2, <2>3, SoundTuples, Branches
  <2> QED
    BY <1>3, <2>4, SoundJoin DEF pcpatch_get_stat
<1>7. Sound(Returns, pcpatch_summary)
  <2> DEFINE whole == GetArg("serpa") \o PatchDeserialize("patch", "serpa", "schema") \o <<Read("patch")>>
             x == [f \in Forms |-> IF f = "dim" THEN whole ELSE <<Either(<< Nop, Copied("serpa") >>)>>]
  <2>1. Sound(Returns, whole)
    <3>1. Sound(Returns, <<Read("patch")>>) /\ Sound(Returns, PatchDeserialize("patch", "serpa", "schema"))
      BY SoundTuples, Instructions, Deserializes
    <3> QED
      BY <1>1, <3>1, SoundJoin
  <2> HIDE DEF whole
  <2>2. \A f \in DOMAIN x : Sound(Returns, x[f])
    BY <1>2, <2>1
  <2> HIDE DEF x
  <2>3. Good(Returns, ByType("row", x))
    BY <2>2, SwitchGood
  <2>4. Sound(Returns, <<ByType("row", x)>>)
    BY <2>3, SoundTuples
  <2>5. Sound(Returns, <<Alloc("stats", "stats", "schema"), Borrow("stats", "serpa"), Read("stats"),
                         Alloc("ret", "bytes", NULL), Return("ret")>>)
    BY LongTuples, Instructions DEF Returns
  <2>6. Sound(Returns, Copied("serpa") \o FromPcid("schema") \o <<ByType("row", x)>>
                       \o <<Alloc("stats", "stats", "schema"), Borrow("stats", "serpa"), Read("stats"),
                            Alloc("ret", "bytes", NULL), Return("ret")>>)
    BY <1>1, <2>4, <2>5, SoundJoin
  <2> QED
    BY <2>6 DEF pcpatch_summary, x, whole
<1>8. Sound(Returns, pcpatch_enforce_typmod)
  <2>1. Sound(Returns, <<Read("arg"), Return("arg")>>)
    BY SoundTuples, Instructions DEF Returns
  <2> QED
    BY <1>1, <2>1, SoundJoin DEF pcpatch_enforce_typmod
<1> QED
  BY <1>4, <1>5, <1>6, <1>7, <1>8

(* PC_Uncompress and PC_Compress.                                           *)
LEMMA CompressFunctions == Sound(Returns, pcpatch_uncompress) /\ Sound(Returns, pcpatch_compress)
<1> USE OwnNames, OwnIs, LentNames
<1>1. Sound(Returns, pcpatch_uncompress)
  <2>1. Sound(Returns, <<Free("patch"), Return("serpa_out")>>)
    BY SoundTuples, Instructions DEF Returns
  <2>2. Sound(Returns, GetPatch("patch", "serpa")) /\ Sound(Returns, SerializeToUncompressed("serpa_out", "patch"))
    BY Gets, Serializes
  <2> QED
    BY <2>1, <2>2, SoundJoin DEF pcpatch_uncompress
<1>2. Sound(Returns, pcpatch_compress)
  <2> DEFINE x == [f \in Forms |-> <<Alloc("clone", f, NULL), Read("schema")>>]
             clone == <<ByType("schema", x)>>
             cloneAs(f) == <<Read("schema"), Alloc("clone", f, NULL)>>
             finish(stats) ==
               <<SetSchema("pa", "clone")>> \o PatchSerialize("serpa_out", "pa", stats)
               \o FreeUnlessSame("pa", "patch_in") \o <<Free("patch_in"), Free("clone"), Return("serpa_out")>>
             third == cloneAs("dim") \o DimensionalFromUncompressed("pdl", "pa")
                      \o <<Alloc("stats", "dimstats", NULL), Read("clone"), Read("pdl")>>
                      \o FreeUnlessSame("pa", "patch_in") \o DimensionalCompress("pa", "pdl", "stats")
                      \o <<Free("pdl")>> \o finish("stats")
  <2>1. \A st : Sound(Returns, finish(st))
    <3>1. /\ Sound(Returns, <<SetSchema("pa", "clone")>>)
          /\ Sound(Returns, <<Free("patch_in"), Free("clone"), Return("serpa_out")>>)
      BY SoundTuples, Instructions DEF Returns
    <3>2. /\ \A st : Sound(Returns, PatchSerialize("serpa_out", "pa", st))
          /\ Sound(Returns, FreeUnlessSame("pa", "patch_in"))
      BY Serializes, Frees
    <3> QED
      BY <3>1, <3>2, SoundJoin
  <2> HIDE DEF finish
  <2>2. \A f : Sound(Returns, cloneAs(f))
    BY SoundTuples, Instructions
  <2> HIDE DEF cloneAs
  <2>3. Sound(Returns, clone)
    <3>1. \A f \in DOMAIN x : Sound(Returns, x[f])
      BY SoundTuples, Instructions
    <3> HIDE DEF x
    <3>2. Good(Returns, ByType("schema", x))
      BY <3>1, SwitchGood
    <3> QED
      BY <3>2, SoundTuples
  <2> HIDE DEF clone
  <2>4. Sound(Returns, third)
    <3>1. /\ Sound(Returns, <<Alloc("stats", "dimstats", NULL), Read("clone"), Read("pdl")>>)
          /\ Sound(Returns, <<Free("pdl")>>)
      BY SoundTuples, Instructions
    <3>2. /\ Sound(Returns, DimensionalFromUncompressed("pdl", "pa")) /\ Sound(Returns, FreeUnlessSame("pa", "patch_in"))
          /\ Sound(Returns, DimensionalCompress("pa", "pdl", "stats"))
      BY Makes, Frees, Compresses
    <3> QED
      BY <2>1, <2>2, <3>1, <3>2, SoundJoin
  <2> HIDE DEF third
  <2>5. Sound(Returns, clone \o finish(NULL)) /\ Sound(Returns, cloneAs("laz") \o finish(NULL))
    BY <2>1, <2>2, <2>3, SoundJoin
  <2>6. Sound(Returns, <<Either(<<clone \o finish(NULL), cloneAs("laz") \o finish(NULL), third>>)>>)
    BY <2>4, <2>5, SoundTuples, Branches
  <2>7. Sound(Returns, GetPatch("patch_in", "serpa")) /\ Sound(Returns, Uncompress("pa", "patch_in"))
    BY Gets, Uncompresses
  <2>8. Sound(Returns, GetPatch("patch_in", "serpa") \o Uncompress("pa", "patch_in")
                       \o <<Either(<<clone \o finish(NULL), cloneAs("laz") \o finish(NULL), third>>)>>)
    BY <2>6, <2>7, SoundJoin
  <2> QED
    BY <2>8 DEF pcpatch_compress, third, clone, cloneAs, finish, x
<1> QED
  BY <1>1, <1>2

(* A function that returns NULL for an argument that is NULL.               *)
LEMMA OrNull ==
  ASSUME NEW v, NEW p, Sound(Returns, p)
  PROVE  /\ Good(Returns, IfNull(v, <<ReturnNull>>, p)) /\ Sound(Returns, <<IfNull(v, <<ReturnNull>>, p)>>)
         /\ Sound(Returns, <<ReturnNull>>)
<1>1. Sound(Returns, <<ReturnNull>>)
  BY SoundTuples, Instructions DEF Returns
<1> QED
  BY <1>1, SoundTuples, Branches

(* PC_PointN, PC_Range and the filters.                                     *)
LEMMA SelectFunctions ==
  Sound(Returns, pcpatch_pointn) /\ Sound(Returns, pcpatch_range) /\ Sound(Returns, pcpatch_filter)
<1> USE OwnNames, OwnIs, LentNames
<1>1. Sound(Returns, pcpatch_pointn)
  <2>1. Good(Returns, Free("patch")) /\ Good(Returns, IfNull("pt", <<ReturnNull>>, ReturnPoint("serpt", "pt")))
    BY Instructions, OrNull, ReturnsMade
  <2>2. Sound(Returns, <<Free("patch"), IfNull("pt", <<ReturnNull>>, ReturnPoint("serpt", "pt"))>>)
    BY <2>1, SoundTuples
  <2>3. Sound(Returns, GetPatch("patch", "serpa")) /\ Sound(Returns, PatchPointN("pt", "patch"))
    BY Gets, PicksPoint
  <2> QED
    BY <2>2, <2>3, SoundJoin DEF pcpatch_pointn
<1>2. Sound(Returns, pcpatch_range)
  <2>1. Sound(Returns, <<IfNull("patchout", <<ReturnNull>>, ReturnPatch("serpaout", "patchout"))>>)
    BY OrNull, ReturnsMade
  <2>2. /\ Sound(Returns, GetPatch("patch", "serpa")) /\ Sound(Returns, PatchRange("patchout", "patch"))
        /\ Sound(Returns, FreeUnlessSame("patch", "patchout"))
    BY Gets, Ranges, Frees
  <2> QED
    BY <2>1, <2>2, SoundJoin DEF pcpatch_range
<1>3. Sound(Returns, pcpatch_filter)
  <2>1. Sound(Returns, Filtered("patch_filtered"))
    <3>1. Sound(Returns, <<Free("patch_filtered"), ReturnNull>>)
      BY SoundTuples, Instructions DEF Returns
    <3>2. Sound(Returns, ReturnPatch("serpatch_filtered", "patch_filtered"))
      BY ReturnsMade
    <3> QED
      BY <3>1, <3>2, SoundTuples, Branches DEF Filtered
  <2>2. /\ Sound(Returns, <<Alloc("dim_name", "bytes", NULL)>>) /\ Sound(Returns, <<Free("patch")>>)
        /\ Sound(Returns, <<Free("dim_name")>>)
    BY SoundTuples, Instructions
  <2>3. /\ Sound(Returns, GetArg("serpatch")) /\ Sound(Returns, FromPcid("schema")) /\ Sound(Returns, FreeIfCopy("serpatch"))
        /\ Sound(Returns, PatchDeserialize("patch", "serpatch", "schema"))
        /\ Sound(Returns, PatchFilter("patch_filtered", "patch"))
    BY Arguments, Schemas, FreesCopy, Deserializes, Filters
  <2> QED
    BY <2>1, <2>2, <2>3, SoundJoin DEF pcpatch_filter
<1> QED
  BY <1>1, <1>2, <1>3

(* PC_Sort and PC_IsSorted.                                                 *)
LEMMA SortFunctions == Sound(Returns, pcpatch_sort) /\ Sound(Returns, pcpatch_is_sorted)
<1> USE OwnNames, OwnIs, LentNames
<1>1. Sound(Returns, <<Alloc("dim_name", "list", NULL)>>) /\ Sound(Returns, <<Free("dim_name"), Free("patch")>>)
  BY SoundTuples, Instructions
<1>2. Sound(Returns, pcpatch_sort)
  <2> DEFINE sorted == <<Alloc("dim_name", "list", NULL)>> \o FromPcid("schema")
           \o PatchDeserialize("patch", "serpatch", "schema") \o PatchSort("patch_sorted", "patch")
           \o <<Free("dim_name"), Free("patch")>> \o FreeIfCopy("serpatch")
           \o ReturnPatch("serpatch_sorted", "patch_sorted")
  <2>1. /\ Sound(Returns, FromPcid("schema")) /\ Sound(Returns, PatchDeserialize("patch", "serpatch", "schema"))
        /\ Sound(Returns, PatchSort("patch_sorted", "patch")) /\ Sound(Returns, FreeIfCopy("serpatch"))
        /\ Sound(Returns, ReturnPatch("serpatch_sorted", "patch_sorted"))
    BY Schemas, Deserializes, Sorts, FreesCopy, ReturnsMade
  <2>2. Sound(Returns, sorted)
    BY <1>1, <2>1, SoundJoin
  <2> HIDE DEF sorted
  <2>3. Sound(Returns, SortByNothing)
    BY SoundTuples, Instructions DEF Returns, SortByNothing
  <2>4. Sound(Returns, <<Either(<<SortByNothing, sorted>>)>>)
    BY <2>2, <2>3, SoundTuples, Branches
  <2>5. Sound(Returns, GetArg("serpatch") \o <<Either(<<SortByNothing, sorted>>)>>)
    BY <2>4, Arguments, SoundJoin
  <2> QED
    BY <2>5 DEF pcpatch_sort, sorted
<1>3. Sound(Returns, pcpatch_is_sorted)
  <2>1. Sound(Returns, <<Free("dim_name"), Free("patch"), ReturnNull>>)
    BY SoundTuples, Instructions DEF Returns
  <2>2. Sound(Returns, GetPatch("patch", "serpatch")) /\ Sound(Returns, PatchIsSorted("patch"))
    BY Gets, Sorts
  <2> QED
    BY <1>1, <2>1, <2>2, SoundJoin DEF pcpatch_is_sorted
<1> QED
  BY <1>2, <1>3

(* PC_SetPCId and PC_Transform.                                             *)
LEMMA PcidFunctions == Sound(Returns, pcpatch_setpcid) /\ Sound(Returns, pcpatch_transform)
<1> USE OwnNames, OwnIs, LentNames
<1>1. /\ Sound(Returns, GetArg("serpa")) /\ Sound(Returns, FromPcid("oschema"))
      /\ Sound(Returns, <<Alias("nschema", "ring2")>>)
  BY Arguments, Schemas
<1>2. Sound(Returns, ReturnPatch("serpatch", "paout"))
  BY ReturnsMade
<1>3. Sound(Returns, pcpatch_setpcid)
  <2> DEFINE x == [f \in Forms |-> <<Alloc("serpatch", f, NULL)>>]
             copyBytes == <<Read("serpa"), ByType("serpa", x), Return("serpatch")>>
             otherForm == PatchDeserialize("paout", "serpa", "oschema") \o <<SetSchema("paout", "nschema")>>
                          \o ReturnPatch("serpatch", "paout")
             y(f) == [g \in Forms |-> IF f = g THEN copyBytes ELSE otherForm]
             z == [f \in Forms |-> <<ByType("nschema", y(f))>>]
             same == <<ByType("oschema", z)>>
             changed == PatchDeserialize("patch", "serpa", "oschema") \o PatchSetSchema("paout", "patch", "nschema")
                        \o FreeUnlessSame("patch", "paout") \o ReturnPatch("serpatch", "paout")
             ways == Either(<<same, changed>>)
  <2>1. Sound(Returns, copyBytes)
    <3>1. \A f \in DOMAIN x : Sound(Returns, x[f])
      BY SoundTuples, Instructions
    <3> HIDE DEF x
    <3>2. Good(Returns, ByType("serpa", x)) /\ Good(Returns, Read("serpa")) /\ Good(Returns, Return("serpatch"))
      BY <3>1, SwitchGood, Instructions DEF Returns
    <3> QED
      BY <3>2, SoundTuples
  <2> HIDE DEF copyBytes
  <2>2. Sound(Returns, otherForm)
    <3>1. Sound(Returns, PatchDeserialize("paout", "serpa", "oschema")) /\ Sound(Returns, <<SetSchema("paout", "nschema")>>)
      BY Deserializes, SoundTuples, Instructions
    <3> QED
      BY <1>2, <3>1, SoundJoin
  <2> HIDE DEF otherForm
  <2>3. \A f : Good(Returns, ByType("nschema", y(f)))
    BY <2>1, <2>2, SwitchGood
  <2> HIDE DEF y
  <2>4. \A f \in DOMAIN z : Sound(Returns, z[f])
    BY <2>3, SoundTuples
  <2> HIDE DEF z
  <2>5. Good(Returns, ByType("oschema", z))
    BY <2>4, SwitchGood
  <2>6. Sound(Returns, same)
    BY <2>5, SoundTuples
  <2> HIDE DEF same
  <2>7. Sound(Returns, changed)
    <3>1. /\ Sound(Returns, PatchDeserialize("patch", "serpa", "oschema"))
          /\ Sound(Returns, PatchSetSchema("paout", "patch", "nschema"))
          /\ Sound(Returns, FreeUnlessSame("patch", "paout"))
      BY Deserializes, Reschemas, Frees
    <3> QED
      BY <1>2, <3>1, SoundJoin
  <2> HIDE DEF changed
  <2>8. Good(Returns, ways) /\ Good(Returns, Alias("nschema", "ring2"))
    BY <2>6, <2>7, Branches, Instructions
  <2> HIDE DEF ways
  <2>9. Sound(Returns, <<Alias("nschema", "ring2"), ways>>)
    BY <2>8, SoundTuples
  <2>10. Sound(Returns, GetArg("serpa") \o FromPcid("oschema") \o <<Alias("nschema", "ring2"), ways>>)
    BY <1>1, <2>9, SoundJoin
  <2> QED
    BY <2>10 DEF pcpatch_setpcid, ways, changed, same, z, y, otherForm, copyBytes, x
<1>4. Sound(Returns, pcpatch_transform)
  <2>1. Good(Returns, Free("patch")) /\ Good(Returns, IfNull("paout", <<ReturnNull>>, ReturnPatch("serpatch", "paout")))
    BY <1>2, Instructions, OrNull
  <2>2. Sound(Returns, <<Free("patch"), IfNull("paout", <<ReturnNull>>, ReturnPatch("serpatch", "paout"))>>)
    BY <2>1, SoundTuples
  <2>3. Sound(Returns, GetPatch("patch", "serpa")) /\ Sound(Returns, PatchTransform("paout", "patch", "nschema"))
    BY Gets, Reschemas
  <2> QED
    BY <1>1, <2>2, <2>3, SoundJoin DEF pcpatch_transform
<1> QED
  BY <1>3, <1>4

(* Arrays of points and patches.                                            *)
LEMMA ArrayParts ==
  /\ Sound(Returns, PatchFromPointArray("pa", "array")) /\ Sound(Returns, PatchFromPatchArray("pa", "array"))
  /\ Sound(Returns, PatchOrNull("pa")) /\ Sound(Returns, FromPcid("schema"))
<1> USE OwnNames, OwnIs, LentNames
<1>1. Sound(Returns, PatchFromPointArray("pa", "array"))
  <2>1. /\ Sound(Returns, <<Null("pa")>>) /\ Sound(Returns, <<Alloc("pl", "points", "schema"), Null("pa")>>)
        /\ Sound(Returns, <<Alloc("pl", "points", "schema"), Borrow("pl", "array")>>)
        /\ Sound(Returns, <<Free("pl")>>)
    BY SoundTuples, Instructions
  <2>2. Sound(Returns, <<Alloc("pl", "points", "schema"), Borrow("pl", "array")>>
                       \o PatchFromPointlist("pa", "pl") \o <<Free("pl")>>)
    BY <2>1, Lists, SoundJoin
  <2> QED
    BY <2>1, <2>2, SoundTuples, Branches DEF PatchFromPointArray
<1>2. Sound(Returns, PatchFromPatchArray("pa", "array"))
  <2>1. /\ Sound(Returns, <<Null("pa")>>) /\ Sound(Returns, <<Alloc("palist", "list", NULL), Null("pa")>>)
        /\ Sound(Returns, <<Alloc("palist", "list", NULL)>>)
        /\ Sound(Returns, <<Free("pa1"), Free("pa2"), Free("palist")>>)
    BY SoundTuples, Instructions
  <2>2. \A v : Own(v) => Sound(Returns, DeserializeElement(v, "array"))
    BY Deserializes, SoundTuples, Branches DEF DeserializeElement
  <2>3. /\ Sound(Returns, UncompressedMake("pa", "pa1")) /\ Sound(Returns, CopyPointsOf("pa1"))
        /\ Sound(Returns, CopyPointsOf("pa2")) /\ Sound(Returns, UncompressedComputeStats("pa"))
    BY Makes, Copies, Extents
  <2>4. Sound(Returns, <<Alloc("palist", "list", NULL)>> \o DeserializeElement("pa1", "array")
                \o DeserializeElement("pa2", "array")
                \o UncompressedMake("pa", "pa1") \o CopyPointsOf("pa1") \o CopyPointsOf("pa2")
                \o UncompressedComputeStats("pa") \o <<Free("pa1"), Free("pa2"), Free("palist")>>)
    BY <2>1, <2>2, <2>3, SoundJoin
  <2> QED
    BY <2>1, <2>4, SoundTuples, Branches DEF PatchFromPatchArray
<1>3. Sound(Returns, PatchOrNull("pa"))
  BY OrNull, ReturnsMade DEF PatchOrNull
<1>4. Sound(Returns, FromPcid("schema"))
  BY Schemas
<1> QED
  BY <1>1, <1>2, <1>3, <1>4

(* Patches made from arrays of points, patches or numbers.                  *)
LEMMA ArrayFunctions ==
  /\ Sound(Returns, pcpatch_from_pcpoint_array) /\ Sound(Returns, pcpatch_from_pcpatch_array)
  /\ Sound(Returns, pcpatch_from_float_array)
<1> USE OwnNames, OwnIs, LentNames
<1>1. Sound(Returns, pcpatch_from_pcpoint_array)
  BY ArrayParts, Arguments, SoundJoin DEF pcpatch_from_pcpoint_array
<1>2. Sound(Returns, pcpatch_from_pcpatch_array)
  BY ArrayParts, Arguments, SoundJoin DEF pcpatch_from_pcpatch_array
<1>3. Sound(Returns, pcpatch_from_float_array)
  <2>1. /\ Sound(Returns, <<Alloc("pl", "points", "schema"), OwnData("pl", "arrptr")>>)
        /\ Sound(Returns, <<Free("pl")>>)
    BY SoundTuples, Instructions
  <2>2. Sound(Returns, GetArg("arrptr")) /\ Sound(Returns, PatchFromPointlist("pa", "pl"))
    BY Arguments, Lists
  <2> QED
    BY <2>1, <2>2, ArrayParts, SoundJoin DEF pcpatch_from_float_array
<1> QED
  BY <1>1, <1>2, <1>3

(* The transition and the final functions of the aggregates.                *)
LEMMA AggregateFunctions ==
  /\ Sound(Returns, pointcloud_agg_transfn) /\ Sound(Returns, pcpatch_agg_final_array)
  /\ Sound(Returns, pcpoint_agg_final_pcpatch) /\ Sound(Returns, pcpatch_agg_final_pcpatch)
<1> USE OwnNames, OwnIs, LentNames
<1>1. Sound(Returns, pointcloud_agg_transfn)
  <2> DEFINE first == <<Alloc("a", "abs_trans", NULL), SwitchTo("agg"), Alloc("s", "array_state", NULL),
                        SwitchTo("call"), Borrow("a", "s")>>
             i == IfNull("state", first, <<Alias("a", "state")>>)
  <2>1. Sound(Returns, first) /\ Sound(Returns, <<Alias("a", "state")>>)
    BY LongTuples, SoundTuples, Instructions
  <2> HIDE DEF first
  <2>2. Good(Returns, i) /\ Good(Returns, Read("a")) /\ Good(Returns, Read("row")) /\ Good(Returns, Return("a"))
    BY <2>1, Branches, Instructions DEF Returns
  <2> HIDE DEF i
  <2>3. Sound(Returns, <<i, Read("a"), Read("row"), Return("a")>>)
    BY <2>2, SoundTuples
  <2> QED
    BY <2>3 DEF pointcloud_agg_transfn, i, first
<1>2. ASSUME NEW d, d # "row", NEW more, Sound(Returns, more)
      PROVE  Sound(Returns, pointcloud_agg_final(d, more))
  <2> DEFINE x == [f \in Forms |-> <<Alloc(d, f, NULL)>>]
             taken == <<Read("state"), ByType("row", x)>>
  <2>1. \A f \in DOMAIN x : Sound(Returns, x[f])
    BY <1>2, SoundTuples, Instructions
  <2> HIDE DEF x
  <2>2. Good(Returns, ByType("row", x)) /\ Good(Returns, Read("state"))
    BY <2>1, SwitchGood, Instructions
  <2>3. Sound(Returns, taken)
    BY <2>2, SoundTuples
  <2>4. Sound(Returns, taken \o more)
    BY <1>2, <2>3, SoundJoin
  <2> HIDE DEF taken
  <2>5. Sound(Returns, <<IfNull("state", <<ReturnNull>>, taken \o more)>>)
    BY <2>4, OrNull
  <2> QED
    BY <2>5 DEF pointcloud_agg_final, taken, x
<1>3. Sound(Returns, <<Return("result")>>)
  BY SoundTuples, Instructions DEF Returns
<1>4. /\ Sound(Returns, FromPcid("schema") \o PatchFromPointArray("pa", "array") \o PatchOrNull("pa"))
      /\ Sound(Returns, FromPcid("schema") \o PatchFromPatchArray("pa", "array") \o PatchOrNull("pa"))
  BY ArrayParts, SoundJoin
<1>5. "result" # "row" /\ "array" # "row"
  OBVIOUS
<1>6. Sound(Returns, pcpatch_agg_final_array)
  BY <1>2, <1>3, <1>5 DEF pcpatch_agg_final_array
<1>7. Sound(Returns, pcpoint_agg_final_pcpatch) /\ Sound(Returns, pcpatch_agg_final_pcpatch)
  BY <1>2, <1>4, <1>5 DEF pcpoint_agg_final_pcpatch, pcpatch_agg_final_pcpatch
<1> QED
  BY <1>1, <1>6, <1>7

(* PC_Explode's first call does not return before it has asked for a point. *)
LEMMA UnnestFunctions ==
  /\ Sound({}, UnnestFirst) /\ Sound({}, <<Read("fctx")>>)
  /\ Sound(Returns, UnnestNext) /\ Sound(Returns, UnnestDone)
<1> USE OwnNames, OwnIs, LentNames
<1>1. Sound({}, UnnestFirst)
  <2> DEFINE x == [f \in Forms |-> <<Alloc("schema", f, NULL)>>]
  <2>1. \A f \in DOMAIN x : Sound({}, x[f])
    BY SoundTuples, Instructions
  <2> HIDE DEF x
  <2>2. Good({}, ByType("ring", x))
    BY <2>1, SwitchGood
  <2>3. Sound({}, <<ByType("ring", x)>>)
    BY <2>2, SoundTuples
  <2>4. /\ Sound({}, <<SwitchTo("multi")>>) /\ Sound({}, <<SwitchTo("call")>>)
        /\ Sound({}, <<Alloc("fctx", "fctx", NULL)>>)
    BY SoundTuples, Instructions
  <2>5. /\ Sound({}, GetArg("serpatch")) /\ Sound({}, PatchDeserialize("patch", "serpatch", "schema"))
        /\ Sound({}, PointlistFromPatch("pointlist", "patch"))
    BY Arguments, Deserializes, Lists
  <2>6. Sound({}, <<SwitchTo("multi")>> \o GetArg("serpatch") \o <<ByType("ring", x)>>
                  \o PatchDeserialize("patch", "serpatch", "schema") \o <<Alloc("fctx", "fctx", NULL)>>
                  \o PointlistFromPatch("pointlist", "patch") \o <<SwitchTo("call")>>)
    BY <2>3, <2>4, <2>5, SoundJoin
  <2> QED
    BY <2>6 DEF UnnestFirst, x
<1>2. Sound({}, <<Read("fctx")>>)
  BY SoundTuples, Instructions
<1>3. Sound(Returns, UnnestNext)
  <2>1. Sound(Returns, <<Read("pointlist")>>) /\ Sound(Returns, <<Return("serpt")>>)
    BY SoundTuples, Instructions DEF Returns
  <2>2. Sound(Returns, PointSerialize("serpt", "pointlist"))
    BY Makes
  <2> QED
    BY <2>1, <2>2, SoundJoin DEF UnnestNext
<1>4. Sound(Returns, UnnestDone)
  BY SoundTuples, Instructions DEF Returns, UnnestDone
<1> QED
  BY <1>1, <1>2, <1>3, <1>4

(* So every function of the extension is a sound program.                   *)
LEMMA EveryFunction ==
  /\ \A f \in DOMAIN Scalar : Sound(Returns, Scalar[f])
  /\ \A f \in DOMAIN Final : Sound(Returns, Final[f])
  /\ Unnest \notin DOMAIN Scalar /\ Unnest \notin DOMAIN Final
  /\ DOMAIN Scalar \cap DOMAIN Final = {}
<1>1. \A f \in DOMAIN Scalar : Sound(Returns, Scalar[f])
  <2> TAKE f \in DOMAIN Scalar
  <2> QED
    BY PointFunctions, PatchesInAndOut, SliceFunctions, CompressFunctions, SelectFunctions, SortFunctions,
       PcidFunctions, ArrayFunctions DEF Scalar
<1>2. \A f \in DOMAIN Final : Sound(Returns, Final[f])
  BY AggregateFunctions DEF Final
<1>3. Unnest \notin DOMAIN Scalar /\ Unnest \notin DOMAIN Final /\ DOMAIN Scalar \cap DOMAIN Final = {}
  BY DEF Unnest, Scalar, Final
<1> QED
  BY <1>1, <1>2, <1>3

-----------------------------------------------------------------------------
(* A sound program runs.                                                    *)
(* Variables hold what their names allow.                                   *)
VarsOk ==
  /\ "row" \in DOMAIN var /\ var["row"] = Row
  /\ \A v \in DOMAIN var : /\ Own(v) => var[v] \notin Fixed
                           /\ v \in Args => var[v] \notin {Ring, Ring2}

(* What is left of a program; after a comparison with the row it may begin  *)
(* by freeing the copy.                                                     *)
Left(last, p) ==
  \/ Sound(last, p)
  \/ \E d, q : p = <<Free(d)>> \o q /\ Sound(last, q) /\ Value(d) \notin Fixed

KeepsFixed ==
  \A b \in Fixed \cap DOMAIN heap : b \in DOMAIN heap' /\ heap'[b].ctx = heap[b].ctx

(* The lent blocks are the first three.                                     *)
LEMMA FixedIs == Fixed = {0, 1, 2} /\ NULL \notin Fixed /\ Row = 0 /\ Ring = 1 /\ Ring2 = 2
  BY NullIsNoBlock DEF Fixed, Row, Ring, Ring2

(* What a variable may hold, by its name.                                   *)
LEMMA ValuesOk ==
  ASSUME VarsOk, NEW v
  PROVE  /\ Own(v) => Value(v) \notin Fixed
         /\ v \in Args => Value(v) \notin {Ring, Ring2}
         /\ Value("row") = Row
  BY FixedIs DEF VarsOk, Value, Fixed

(* An assignment that respects the name of its variable.                    *)
LEMMA AssignOk ==
  ASSUME VarsOk, NEW d, NEW b, var' = With(var, d, b), d # "row",
         Own(d) => b \notin Fixed, d \in Args => b \notin {Ring, Ring2}
  PROVE  VarsOk'
  BY DEF VarsOk, With

(* Contexts never change, and what has a new owner is new.                  *)
LEMMA ContextsKept ==
  ASSUME NEW h, NEW x, NEW y, NEW z, IsCell(h)
  PROVE  /\ Holding(h, x, y).ctx = h.ctx /\ WithStats(h, x).ctx = h.ctx
         /\ [h EXCEPT !.schema = x].ctx = h.ctx
  BY DEF Holding, WithStats, IsCell

(* No instruction takes a lent block away, unless it frees a variable that  *)
(* holds one.                                                               *)
LEMMA HeapStep ==
  ASSUME OwnersInv, Step, Now.op = "free" => Value(Now.d) \notin Fixed
  PROVE  KeepsFixed
<1> USE DEF KeepsFixed
<1>0. \A b \in DOMAIN heap : IsCell(heap[b]) /\ Owned(heap[b]) \cap Fixed = {}
  BY FixedIs DEF OwnersInv, Numbered, Cells, Fresh
<1>1. brk \notin Fixed
  BY FixedIs DEF OwnersInv, Numbered
<1>2. CASE UNCHANGED heap
  BY <1>2
<1>3. CASE DoAlloc
  BY <1>1, <1>3 DEF DoAlloc, With
<1>4. CASE DoOwnData
  BY <1>0, <1>1, <1>4, ContextsKept DEF DoOwnData, Attach, With
<1>5. CASE DoBorrow
  BY <1>0, <1>5, ContextsKept DEF DoBorrow
<1>6. CASE DoMoveData
  BY <1>0, <1>6, ContextsKept DEF DoMoveData
<1>7. CASE DoNewStats
  <2> DEFINE old == {At(Now.d).stats}
             cell == Cell("stats", "stats", ctx, At(Now.d).schema)
             kept == [x \in (DOMAIN heap \ old) \cup {brk} |-> IF x = brk THEN cell ELSE heap[x]]
             v == Value(Now.d)
  <2>1. heap' = [kept EXCEPT ![v] = WithStats(@, brk)]
    BY <1>7 DEF DoNewStats
  <2>2. old \cap Fixed = {}
    BY <1>0, FixedIs DEF At, Look, Gone, Cell, Owned
  <2>3. ASSUME NEW b \in Fixed \cap DOMAIN heap PROVE b \in DOMAIN kept /\ kept[b] = heap[b]
    BY <1>1, <2>2
  <2> HIDE DEF kept, v
  <2> QED
    BY <1>0, <2>1, <2>3, ContextsKept
<1>8. ASSUME NEW cell, AttachStats(cell) PROVE KeepsFixed
  BY <1>0, <1>1, <1>8, ContextsKept DEF AttachStats, With
<1>9. CASE DoCloneStats
  <2>1. CASE At(Now.s).stats = NULL
    BY <1>0, <1>9, <2>1, ContextsKept DEF DoCloneStats
  <2> QED
    BY <1>8, <1>9, <2>1 DEF DoCloneStats
<1>10. CASE DoBorrowStats
  BY <1>8, <1>10 DEF DoBorrowStats
<1>11. CASE DoMoveStats
  BY <1>0, <1>11, ContextsKept DEF DoMoveStats
<1>12. CASE DoSetSchema
  <2> DEFINE v == Value(Now.d)
             y == Value(Now.s)
  <2>1. heap' = [heap EXCEPT ![v] = [heap[v] EXCEPT !.schema = y]]
    BY <1>12 DEF DoSetSchema
  <2> HIDE DEF v, y
  <2> QED
    BY <1>0, <2>1, ContextsKept
<1>13. CASE DoFree
  <2>1. Freed(Now.d) \cap Fixed = {}
    <3>1. Owned(At(Now.d)) \cap Fixed = {}
      BY <1>0, FixedIs DEF At, Look, Gone, Cell, Owned
    <3>2. Value(Now.d) \notin Fixed
      BY <1>13 DEF DoFree, Running
    <3> QED
      BY <3>1, <3>2 DEF Freed
  <2> QED
    BY <1>13, <2>1 DEF DoFree
<1>14. CASE DoRead \/ DoNeedStats \/ DoAlias \/ DoNull \/ DoByType \/ DoByTarget
              \/ DoIfSame \/ DoIfNull \/ DoIfEmpty \/ DoEither \/ DoSwitchTo \/ DoReturn
  BY <1>2, <1>14 DEF DoRead, DoNeedStats, DoAlias, DoNull, DoByType, DoByTarget, DoIfSame, DoIfNull,
     DoIfEmpty, DoEither, DoSwitchTo, DoReturn, Keep, Switch
<1> QED
  BY <1>3, <1>4, <1>5, <1>6, <1>7, <1>9, <1>10, <1>11, <1>12, <1>13, <1>14 DEF Step

-----------------------------------------------------------------------------
(* The first instruction of a program, and the others.                      *)
LEMMA TakeOne ==
  ASSUME NEW S, NEW p \in Seq(S), NEW q \in Seq(S), p # <<>>
  PROVE  /\ Head(p \o q) = p[1] /\ Tail(p \o q) = Tail(p) \o q /\ Tail(p) \in Seq(S)
         /\ Len(p) \in Nat /\ Len(p) >= 1 /\ Len(Tail(p)) = Len(p) - 1
         /\ \A k \in 1 .. Len(Tail(p)) : Tail(p)[k] = p[k + 1]
         /\ p \o q # <<>>
  OBVIOUS

(* After one instruction, the rest of a sound program is sound.             *)
LEMMA SoundTail ==
  ASSUME NEW last, NEW p, Sound(last, p), p # <<>>
  PROVE  Sound(last, Tail(p)) /\ Good(last, p[1])
<1>1. PICK S : p \in Seq(S)
  BY SoundGood
<1>2. Tail(p) \in Seq(S) /\ Len(p) \in Nat /\ Len(p) >= 1 /\ Len(Tail(p)) = Len(p) - 1
      /\ \A k \in 1 .. Len(Tail(p)) : Tail(p)[k] = p[k + 1]
  BY <1>1
<1>3. \A k \in 1 .. Len(p) : Good(last, p[k])
  BY SoundGood
<1>4. \A k \in 1 .. Len(Tail(p)) : Good(last, Tail(p)[k])
  BY <1>2, <1>3
<1>5. Good(last, p[1])
  BY <1>2, <1>3
<1> DEFINE t == Tail(p)
<1>6. t \in Seq(S) /\ \A k \in 1 .. Len(t) : Good(last, t[k])
  BY <1>2, <1>4
<1> HIDE DEF t
<1>7. Sound(last, t)
  BY <1>6, SoundFrom
<1> QED
  BY <1>5, <1>7 DEF t

(* What a good instruction may be, and where it may lead.                   *)
Leads(last, i) ==
  \/ Straight(last, i)
  \/ i.op \in {"by_type", "by_target", "either"} /\ \A k \in DOMAIN i.x : Sound(last, i.x[k])
  \/ i.op \in {"if_same", "if_null", "if_empty"} /\ Sound(last, i.x[1]) /\ Sound(last, i.x[2])
  \/ i.op = "if_same" /\ i.s = "row" /\ i.d \in Args /\ i.x[1] = <<>> /\ i.x[2] = <<Free(i.d)>>

(* A good instruction leads only to sound programs, or frees a copy.        *)
LEMMA GoodLeads ==
  ASSUME NEW last, NEW i, Good(last, i)
  PROVE  Leads(last, i)
  BY DEF Good, Closed, Branching, Sound, Leads

Texts(tail) == \E S : tail \in Seq(S)

(* Programs put one behind the other.                                       *)
LEMMA JoinThree ==
  ASSUME NEW p, NEW q, NEW r, Texts(p), Texts(q), Texts(r)
  PROVE  p \o (q \o r) = (p \o q) \o r /\ <<>> \o (q \o r) = q \o r /\ <<>> \o q = q
<1>1. PICK S, T, U : p \in Seq(S) /\ q \in Seq(T) /\ r \in Seq(U)
  BY DEF Texts
<1>2. p \in Seq(S \cup T \cup U) /\ q \in Seq(S \cup T \cup U) /\ r \in Seq(S \cup T \cup U)
  BY <1>1, SeqWider
<1> HIDE DEF Texts
<1> QED
  BY <1>2

(* A sound program is a sequence.                                           *)
LEMMA SoundText == ASSUME NEW last, NEW p, Sound(last, p) PROVE Texts(p)
  BY SoundGood DEF Texts

(* One instruction of a sound program.                                      *)
LEMMA SoundStep ==
  ASSUME VarsOk, OwnersInv, NEW last \in {{}, Returns}, NEW p, NEW tail, Texts(tail),
         todo = p \o tail, p # <<>>, Sound(last, p), Step
  PROVE  /\ VarsOk' /\ KeepsFixed
         /\ \/ status' = "running" /\ \E q : todo' = q \o tail /\ Left(last, q)'
            \/ last = Returns /\ status' = "returned"
<1>1. Now = p[1] /\ Tail(todo) = Tail(p) \o tail
  <2>1. PICK S, T : p \in Seq(S) /\ tail \in Seq(T)
    BY SoundText DEF Texts
  <2>2. p \in Seq(S \cup T) /\ tail \in Seq(S \cup T)
    BY <2>1, SeqWider
  <2> QED
    BY <2>2, TakeOne DEF Now
<1>2. Sound(last, Tail(p)) /\ Leads(last, Now)
  BY <1>1, SoundTail, GoodLeads
<1>3. Texts(Tail(p)) /\ Texts(<<>>)
  BY <1>2, SoundText, SoundTuples
<1>4. ASSUME NEW more, Continue(more), Left(last, more \o Tail(p))', Texts(more), status = "running"
      PROVE  status' = "running" /\ \E q : todo' = q \o tail /\ Left(last, q)'
  <2>1. todo' = more \o (Tail(p) \o tail) /\ status' = status
    BY <1>1, <1>4 DEF Continue
  <2>2. todo' = (more \o Tail(p)) \o tail
    BY <1>3, <1>4, <2>1, JoinThree
  <2> QED
    BY <1>4, <2>1, <2>2
<1>5. ASSUME NEW more, Sound(last, more) PROVE Left(last, more \o Tail(p))' /\ Texts(more)
  BY <1>2, <1>5, SoundJoin, SoundText DEF Left
<1>6. ASSUME Continue(<<>>), status = "running"
      PROVE  status' = "running" /\ \E q : todo' = q \o tail /\ Left(last, q)'
  BY <1>4, <1>5, <1>6, SoundTuples
<1>7. Now.op = "free" => Own(Now.d)
  BY <1>2 DEF Leads, Straight, Plain, Returns
<1>8. KeepsFixed
  BY <1>7, ValuesOk, HeapStep
<1>9. CASE DoAlloc
  <2>1. Now.d # "row" /\ status = "running" /\ Continue(<<>>) /\ var' = With(var, Now.d, brk)
    BY <1>2, <1>9 DEF DoAlloc, Running, Leads, Straight, Plain, Returns
  <2>2. brk \notin Fixed /\ brk \notin {Ring, Ring2}
    BY FixedIs DEF OwnersInv, Numbered
  <2> QED
    BY <1>6, <1>8, <2>1, <2>2, AssignOk
<1>10. CASE DoOwnData \/ DoBorrow \/ DoMoveData \/ DoNewStats \/ DoCloneStats \/ DoBorrowStats \/ DoMoveStats
            \/ DoSetSchema \/ DoRead \/ DoNeedStats \/ DoFree
  <2>1. status = "running" /\ Continue(<<>>) /\ var' = var
    BY <1>10 DEF DoOwnData, DoBorrow, DoMoveData, DoNewStats, DoCloneStats, DoBorrowStats, DoMoveStats,
       DoSetSchema, DoRead, DoNeedStats, DoFree, Running
  <2>2. VarsOk'
    BY <2>1 DEF VarsOk
  <2> QED
    BY <1>6, <1>8, <2>1, <2>2
<1>11. CASE DoAlias
  <2>1. /\ Now.d # "row" /\ status = "running" /\ Continue(<<>>) /\ var' = With(var, Now.d, Value(Now.s))
        /\ Own(Now.d) => Own(Now.s)
        /\ Now.d \in Args => Own(Now.s) \/ Now.s \in Args \cup {"row"}
    BY <1>2, <1>11 DEF DoAlias, Assign, Running, Leads, Straight, Plain, Returns
  <2>2. /\ Own(Now.d) => Value(Now.s) \notin Fixed
        /\ Now.d \in Args => Value(Now.s) \notin {Ring, Ring2}
    BY <2>1, ValuesOk, FixedIs DEF Fixed
  <2> QED
    BY <1>6, <1>8, <2>1, <2>2, AssignOk
<1>12. CASE DoNull
  <2>1. Now.d # "row" /\ status = "running" /\ Continue(<<>>) /\ var' = With(var, Now.d, NULL)
    BY <1>2, <1>12 DEF DoNull, Assign, Running, Leads, Straight, Plain, Returns
  <2>2. NULL \notin Fixed /\ NULL \notin {Ring, Ring2}
    BY FixedIs DEF Fixed
  <2> QED
    BY <1>6, <1>8, <2>1, <2>2, AssignOk
<1>13. CASE DoByType \/ DoByTarget \/ DoEither
  <2>1. PICK k \in DOMAIN Now.x : Continue(Now.x[k])
    BY <1>13 DEF DoByType, DoByTarget, DoEither, Switch
  <2>2. Now.op \in {"by_type", "by_target", "either"} /\ status = "running" /\ var' = var
    BY <1>13 DEF DoByType, DoByTarget, DoEither, Switch, Running
  <2>3. Sound(last, Now.x[k])
    BY <1>2, <2>2 DEF Leads, Straight, Plain, Returns
  <2>4. VarsOk'
    BY <2>2 DEF VarsOk
  <2> QED
    BY <1>4, <1>5, <1>8, <2>1, <2>2, <2>3, <2>4
<1>14. CASE DoIfNull \/ DoIfEmpty \/ DoIfSame
  <2>1. PICK k \in {1, 2} : /\ Continue(Now.x[k])
                            /\ Now.op = "if_same" /\ k = 2 => Value(Now.d) # Value(Now.s)
    BY <1>14 DEF DoIfNull, DoIfEmpty, DoIfSame, Running
  <2>2. Now.op \in {"if_same", "if_null", "if_empty"} /\ status = "running" /\ var' = var
    BY <1>14 DEF DoIfNull, DoIfEmpty, DoIfSame, Running
  <2>3. VarsOk' /\ \A v : Value(v)' = Value(v)
    <3>1. VarsOk'
      BY <2>2 DEF VarsOk
    <3>2. ASSUME NEW v PROVE Value(v)' = Value(v)
      BY <2>2 DEF Value
    <3> QED
      BY <3>1, <3>2
  <2>4. CASE Sound(last, Now.x[k])
    BY <1>4, <1>5, <1>8, <2>1, <2>2, <2>3, <2>4
  <2>5. CASE Now.op = "if_same" /\ Now.s = "row" /\ Now.d \in Args /\ Now.x[1] = <<>> /\ Now.x[2] = <<Free(Now.d)>>
    <3>1. CASE k = 1
      BY <1>6, <1>8, <2>1, <2>2, <2>3, <2>5, <3>1
    <3>2. CASE k = 2
      <4>1. PICK d, n : d = Now.d /\ n = Now.x[k]
        OBVIOUS
      <4>2. Value(d) \notin Fixed
        BY <2>1, <2>5, <3>2, <4>1, ValuesOk DEF Fixed
      <4>3. Value(d)' \notin Fixed /\ n = <<Free(d)>>
        BY <2>3, <2>5, <3>2, <4>1, <4>2
      <4>4. n \o Tail(p) = <<Free(d)>> \o Tail(p) /\ Sound(last, Tail(p))
        BY <1>2, <4>3
      <4>5. Left(last, n \o Tail(p))'
        BY <4>3, <4>4 DEF Left
      <4>6. Texts(n)
        <5>1. <<Free(d)>> \in Seq({Free(d)})
          OBVIOUS
        <5> QED
          BY <4>3, <5>1 DEF Texts
      <4> QED
        BY <1>4, <1>8, <2>1, <2>2, <2>3, <4>1, <4>5, <4>6
    <3> QED
      BY <3>1, <3>2
  <2> QED
    BY <1>2, <2>2, <2>4, <2>5 DEF Leads, Straight, Plain, Returns
<1>15. CASE DoSwitchTo
  <2>1. status' = "running" /\ todo' = Tail(p) \o tail /\ var' = var
    BY <1>1, <1>15 DEF DoSwitchTo, Running
  <2>2. VarsOk' /\ Left(last, Tail(p))'
    BY <1>2, <2>1 DEF VarsOk, Left
  <2> QED
    BY <1>8, <2>1, <2>2
<1>16. CASE DoReturn
  <2>1. last = Returns /\ status' = "returned"
    BY <1>2, <1>16 DEF DoReturn, Running, Leads, Straight, Plain, Returns
  <2>2. PICK b : var' = With(var, "ret", b)
    BY <1>16 DEF DoReturn, Assign
  <2>3. ~Own("ret") /\ "ret" \notin Args /\ "ret" # "row"
    BY DEF Own, Lent, Args
  <2> QED
    BY <1>8, <2>1, <2>2, <2>3, AssignOk
<1> QED
  BY <1>9, <1>10, <1>11, <1>12, <1>13, <1>14, <1>15, <1>16 DEF Step

(* The same for what is left of a program, the free of a copy included.     *)
LEMMA LeftStep ==
  ASSUME VarsOk, OwnersInv, NEW last \in {{}, Returns}, NEW p, NEW tail, Texts(tail),
         todo = p \o tail, p # <<>>, Left(last, p), Step
  PROVE  /\ VarsOk' /\ KeepsFixed
         /\ \/ status' = "running" /\ \E q : todo' = q \o tail /\ Left(last, q)'
            \/ last = Returns /\ status' = "returned"
<1>1. CASE Sound(last, p)
  BY <1>1, SoundStep
<1>2. CASE \E d, q : p = <<Free(d)>> \o q /\ Sound(last, q) /\ Value(d) \notin Fixed
  <2>1. PICK d, q : p = <<Free(d)>> \o q /\ Sound(last, q) /\ Value(d) \notin Fixed
    BY <1>2
  <2>2. Now = Free(d) /\ Tail(todo) = q \o tail
    <3> DEFINE f == <<Free(d)>>
    <3>1. PICK S, T : q \in Seq(S) /\ tail \in Seq(T)
      BY <2>1, SoundText DEF Texts
    <3>2. f \in Seq({Free(d)}) /\ f # <<>> /\ f[1] = Free(d) /\ Tail(f) = <<>>
      OBVIOUS
    <3> HIDE DEF f
    <3>3. q \o tail \in Seq(S \cup T)
      <4>1. q \in Seq(S \cup T) /\ tail \in Seq(S \cup T)
        BY <3>1, SeqWider
      <4> QED
        BY <4>1
    <3>4. f \in Seq({Free(d)} \cup S \cup T) /\ q \o tail \in Seq({Free(d)} \cup S \cup T)
      BY <3>2, <3>3, SeqWider
    <3>5. Texts(f) /\ Texts(q) /\ Texts(tail)
      BY <3>1, <3>2 DEF Texts
    <3>6. todo = f \o (q \o tail)
      BY <2>1, <3>5, JoinThree DEF f
    <3>7. Head(todo) = f[1] /\ Tail(todo) = Tail(f) \o (q \o tail)
      BY <3>2, <3>4, <3>6, TakeOne
    <3>8. Texts(<<>>) /\ <<>> \o (q \o tail) = q \o tail
      <4>1. Texts(<<>>)
        BY SoundTuples, SoundText
      <4> QED
        BY <3>5, <4>1, JoinThree
    <3> QED
      BY <3>2, <3>7, <3>8 DEF Now
  <2>3. DoFree /\ Now.d = d /\ Now.op = "free"
    BY <2>2 DEF Step, Free, Ins, Running, DoAlloc, DoOwnData, DoBorrow, DoMoveData, DoNewStats, DoCloneStats,
       DoBorrowStats, DoMoveStats, DoSetSchema, DoRead, DoNeedStats, DoFree, DoAlias, DoNull, DoByType, DoByTarget,
       DoIfSame, DoIfNull, DoIfEmpty, DoEither, DoSwitchTo, DoReturn
  <2>4. KeepsFixed
    BY <2>1, <2>3, HeapStep
  <2>5. status' = "running" /\ var' = var /\ todo' = <<>> \o (q \o tail)
    BY <2>2, <2>3 DEF DoFree, Running, Continue
  <2>6. todo' = q \o tail
    BY <2>1, <2>5, SoundText, SoundTuples, JoinThree
  <2>7. VarsOk' /\ Left(last, q)'
    BY <2>1, <2>5 DEF VarsOk, Left
  <2> QED
    BY <2>4, <2>5, <2>6, <2>7
<1> QED
  BY <1>1, <1>2 DEF Left

-----------------------------------------------------------------------------
(* The executor and PC_Explode.                                             *)
(* The instruction that hands over to the macros of a set-returning call.   *)
PerCall == Ins("per_call", NULL, NULL, NULL)

(* Left of the call is a program, and behind it what the executor adds.     *)
Ahead(last, tail) == \E p : todo = p \o tail /\ Left(last, p)

LentOk ==
  /\ Row \in DOMAIN heap /\ heap[Row].ctx = "stored"
  /\ phase = "open" => \A b \in {Ring, Ring2} : b \in DOMAIN heap /\ heap[b].ctx = "fn"

(* What a call of PC_Explode will return: the next element, or the end.     *)
Fetched ==
  \/ srf.elem = Len(rows) /\ srf.nextelem = Len(rows) + 1 /\ ~srf.done
  \/ srf.elem = NULL /\ srf.done

(* The rows the executor has, the elements fetched, and how far the running *)
(* call is with the next one.                                               *)
RowsInOrder == rows \in Seq(Nat) /\ \A i \in 1 .. Len(rows) : rows[i] = i - 1
Counted ==
  /\ srf \in SrfStates
  /\ Len(rows) <= srf.nextelem /\ srf.nextelem <= srf.numelems
  /\ srf.done => Len(rows) = srf.numelems
  /\ phase = "open" /\ status = "idle" => srf.nextelem = Len(rows)
  /\ status = "running" => \/ Ahead({}, <<PerCall>>) /\ ~srf.done /\ srf.nextelem = Len(rows)
                           \/ Ahead(Returns, <<>>) /\ Fetched
  /\ status = "returned" => Fetched
ExplodeInv ==
  /\ RowsInOrder
  /\ status # "idle" => call = "unnest"
  /\ IF srf = NULL THEN rows = <<>> /\ status = "idle" ELSE Counted

(* The inductive invariant of what is lent and of the points of PC_Explode. *)
LendingInv ==
  /\ OwnersInv /\ VarsOk /\ LentOk
  /\ phase # "open" => status = "idle"
  /\ Kind # "unnest" => (status = "running" => Ahead(Returns, <<>>))
  /\ Kind = "unnest" => ExplodeInv

(* The invariant holds at first.                                            *)
LEMMA InitLending == Init => LendingInv
<1> SUFFICES ASSUME Init PROVE LendingInv
  OBVIOUS
<1>1. PICK stored, comp, comp2 \in Forms :
        heap = [b \in Fixed |->
                  CASE b = Row  -> Cell("row", stored, "stored", NULL)
                    [] b = Ring -> Cell("ring", comp, "fn", NULL)
                    [] OTHER    -> Cell("ring2", comp2, "fn", NULL)]
  BY DEF Init
<1>2. LentOk
  BY <1>1, FixedIs DEF LentOk, Cell
<1>3. VarsOk
  BY DEF Init, VarsOk, Given, Own, Lent, Args
<1>4. ExplodeInv
  BY DEF Init, ExplodeInv, RowsInOrder
<1>5. status = "idle"
  BY DEF Init
<1> QED
  BY <1>2, <1>3, <1>4, <1>5, InitOwners DEF LendingInv

(* The variables a call starts from.                                        *)
LEMMA GivenOk ==
  /\ var' = Given => VarsOk'
  /\ \A b : var' = [Given EXCEPT !["state"] = b] => VarsOk'
<1>1. var' = Given => VarsOk'
  BY DEF VarsOk, Given, Own, Lent, Args
<1>2. ASSUME NEW b, var' = [Given EXCEPT !["state"] = b] PROVE VarsOk'
  <2>1. DOMAIN var' = {"row", "ring", "ring2", "state"} /\ var'["row"] = Row
    BY <1>2 DEF Given
  <2> QED
    BY <2>1 DEF VarsOk, Own, Lent, Args
<1> QED
  BY <1>1, <1>2

(* Contexts that are reset hold nothing that was lent.                      *)
LEMMA ResetOk ==
  ASSUME LentOk, NEW dead, Drop(dead), "stored" \notin dead, "fn" \in dead => phase' # "open",
         phase' = "open" => phase = "open"
  PROVE  LentOk'
  BY DEF LentOk, Drop, Live

(* What keeps the lent blocks keeps them for the statement.                 *)
LEMMA KeptOk ==
  ASSUME LentOk, KeepsFixed, phase' = phase
  PROVE  LentOk'
<1>1. \A b \in Fixed : b \in DOMAIN heap => b \in DOMAIN heap' /\ heap'[b].ctx = heap[b].ctx
  BY DEF KeepsFixed
<1> QED
  BY <1>1 DEF LentOk, Fixed

(* An instruction runs only in a running call.                              *)
LEMMA StepRuns ==
  ASSUME Step
  PROVE  status = "running" /\ todo # <<>> /\ Now.op # "per_call"
  BY DEF Step, Running, DoAlloc, DoOwnData, DoBorrow, DoMoveData, DoNewStats, DoCloneStats,
     DoBorrowStats, DoMoveStats, DoSetSchema, DoRead, DoNeedStats, DoFree, DoAlias, DoNull, DoByType, DoByTarget,
     DoIfSame, DoIfNull, DoIfEmpty, DoEither, DoSwitchTo, DoReturn

(* What stands behind the program of a call.                                *)
LEMMA Tails == Texts(<<>>) /\ Texts(<<PerCall>>) /\ Head(<<PerCall>>).op = "per_call" /\ Tail(<<PerCall>>) = <<>>
<1>1. <<>> \in Seq({}) /\ <<PerCall>> \in Seq({PerCall})
  OBVIOUS
<1>2. Head(<<PerCall>>) = PerCall /\ Tail(<<PerCall>>) = <<>>
  OBVIOUS
<1>3. PerCall.op = "per_call"
  BY DEF PerCall, Ins
<1>4. Texts(<<>>) /\ Texts(<<PerCall>>)
  BY <1>1 DEF Texts
<1> QED
  BY <1>2, <1>3, <1>4

(* What is left of a program is a sequence.                                 *)
LEMMA LeftText ==
  ASSUME NEW last, NEW p, Left(last, p)
  PROVE  Texts(p)
<1>1. CASE Sound(last, p)
  BY <1>1, SoundText
<1>2. ASSUME NEW d, NEW q, p = <<Free(d)>> \o q, Sound(last, q) PROVE Texts(p)
  <2>1. PICK S : q \in Seq(S)
    BY <1>2, SoundText DEF Texts
  <2>2. q \in Seq(S \cup {Free(d)}) /\ <<Free(d)>> \in Seq(S \cup {Free(d)})
    BY <2>1
  <2> QED
    BY <1>2, <2>2 DEF Texts
<1> QED
  BY <1>1, <1>2 DEF Left

(* One instruction of a call: the program goes on, or it has returned.      *)
LEMMA AheadStep ==
  ASSUME VarsOk, OwnersInv, NEW last \in {{}, Returns}, NEW tail \in {<<>>, <<PerCall>>}, Ahead(last, tail), Step
  PROVE  /\ VarsOk' /\ KeepsFixed
         /\ \/ status' = "running" /\ Ahead(last, tail)'
            \/ last = Returns /\ status' = "returned"
<1>1. PICK p : todo = p \o tail /\ Left(last, p)
  BY DEF Ahead
<1>2. Texts(p) /\ Texts(tail)
  BY <1>1, LeftText, Tails
<1>3. p # <<>>
  <2> SUFFICES ASSUME p = <<>> PROVE FALSE
    OBVIOUS
  <2>1. todo = tail
    BY <1>1, <1>2, JoinThree
  <2> QED
    BY <2>1, StepRuns, Tails DEF Now
<1>4. /\ VarsOk' /\ KeepsFixed
      /\ \/ status' = "running" /\ \E q : todo' = q \o tail /\ Left(last, q)'
         \/ last = Returns /\ status' = "returned"
  BY <1>1, <1>2, <1>3, LeftStep
<1> QED
  BY <1>4 DEF Ahead

(* No function of the extension holds the macros' instruction itself.       *)
LEMMA NotPerCall ==
  ASSUME NEW last \in {{}, Returns}, NEW p, NEW tail \in {<<>>, <<PerCall>>}, Left(last, p), todo = p \o tail,
         p # <<>>
  PROVE  Now.op # "per_call"
<1>1. PICK S, T : p \in Seq(S) /\ tail \in Seq(T)
  BY LeftText, Tails DEF Texts
<1>2. p \in Seq(S \cup T) /\ tail \in Seq(S \cup T)
  BY <1>1, SeqWider
<1>3. Now = p[1]
  BY <1>2, TakeOne DEF Now
<1>4. CASE Sound(last, p)
  <2>1. Leads(last, p[1])
    BY <1>4, SoundTail, GoodLeads
  <2> QED
    BY <1>3, <2>1 DEF Leads, Straight, Plain, Returns
<1>5. ASSUME NEW d, NEW q, p = <<Free(d)>> \o q, Sound(last, q) PROVE Now.op # "per_call"
  <2>1. PICK U : q \in Seq(U)
    BY <1>5, SoundText DEF Texts
  <2>2. q \in Seq(U \cup {Free(d)}) /\ <<Free(d)>> \in Seq(U \cup {Free(d)})
    BY <2>1
  <2>3. p[1] = Free(d)
    BY <1>5, <2>2
  <2> QED
    BY <1>3, <2>3 DEF Free, Ins
<1> QED
  BY <1>4, <1>5 DEF Left

(* So the macros run when the program before them is through.               *)
LEMMA AtPerCall ==
  ASSUME Running("per_call")
  PROVE  /\ ~Ahead(Returns, <<>>)
         /\ Ahead({}, <<PerCall>>) => Tail(todo) = <<>>
<1>1. ASSUME NEW last \in {{}, Returns}, NEW tail \in {<<>>, <<PerCall>>}, Ahead(last, tail)
      PROVE  todo = tail
  <2>1. PICK p : todo = p \o tail /\ Left(last, p)
    BY <1>1 DEF Ahead
  <2>2. p = <<>>
    BY <2>1, NotPerCall DEF Running
  <2> QED
    BY <2>1, <2>2, Tails, JoinThree
<1>2. ~Ahead(Returns, <<>>)
  BY <1>1 DEF Running
<1> QED
  BY <1>1, <1>2, Tails

(* A program that is started is what is left of it.                         *)
LEMMA Started ==
  ASSUME NEW last, NEW p, NEW tail, Sound(last, p), todo' = p \o tail
  PROVE  Ahead(last, tail)'
<1>1. Left(last, p)'
  BY DEF Left
<1> QED
  BY <1>1 DEF Ahead

(* What each step of the executor does to the lent blocks and the programs. *)
LEMMA LentKeeps ==
  ASSUME LendingInv, [Next]_vars
  PROVE  /\ OwnersInv' /\ VarsOk' /\ LentOk' /\ fn' = fn
         /\ phase' # "open" => status' = "idle"
         /\ Kind # "unnest" => (status' = "running" => Ahead(Returns, <<>>)')
<1> USE DEF LendingInv
<1>0. OwnersInv'
  BY ExecutorKeeps
<1>1. CASE UNCHANGED vars
  <2>1. VarsOk' /\ LentOk' /\ fn' = fn /\ phase' = phase /\ status' = status /\ (Ahead(Returns, <<>>) => Ahead(Returns, <<>>)')
    BY <1>1 DEF vars, memory, statement, VarsOk, LentOk, Ahead, Left, Value
  <2> QED
    BY <1>0, <2>1
<1>2. ASSUME NEW kind, NEW prog, Call(kind, prog), Sound(Returns, prog) \/ Kind = "unnest"
      PROVE  /\ VarsOk' /\ LentOk' /\ fn' = fn /\ phase' = "open"
             /\ Kind # "unnest" => (status' = "running" => Ahead(Returns, <<>>)')
  <2>1. VarsOk' /\ LentOk' /\ fn' = fn /\ phase' = "open" /\ todo' = prog
    BY <1>2 DEF Call, Ready, VarsOk, LentOk
  <2>2. Sound(Returns, prog) => prog = prog \o <<>>
    <3>1. ASSUME NEW S, prog \in Seq(S) PROVE prog = prog \o <<>>
      BY <3>1
    <3> QED
      BY <3>1, SoundGood
  <2> QED
    BY <1>2, <2>1, <2>2, Started
<1>3. CASE CallScalar
  <2>1. PICK prog : prog = Scalar[fn]
    OBVIOUS
  <2>2. Sound(Returns, prog)
    BY <1>3, <2>1, EveryFunction DEF CallScalar, Kind
  <2> QED
    BY <1>0, <1>2, <1>3, <2>1, <2>2 DEF CallScalar
<1>4. CASE CallTransition
  <2>1. Sound(Returns, pointcloud_agg_transfn)
    BY AggregateFunctions
  <2> QED
    BY <1>0, <1>2, <1>4, <2>1 DEF CallTransition
<1>5. CASE CallFinal
  <2>1. PICK prog : prog = Final[fn]
    OBVIOUS
  <2>2. Sound(Returns, prog)
    BY <1>5, <2>1, EveryFunction DEF CallFinal, Kind
  <2> QED
    BY <1>0, <1>2, <1>5, <2>1, <2>2 DEF CallFinal
<1>6. CASE CallUnnest
  BY <1>0, <1>2, <1>6 DEF CallUnnest
<1>7. CASE NextElement
  <2>1. VarsOk' /\ LentOk' /\ fn' = fn /\ phase' = phase
    BY <1>7 DEF NextElement, VarsOk, LentOk
  <2> QED
    BY <1>0, <1>7, <2>1, AtPerCall DEF NextElement, Running
<1>8. CASE NoMoreElements
  <2>1. VarsOk' /\ LentOk' /\ fn' = fn /\ phase' = phase
    BY <1>8, ResetOk DEF NoMoreElements, VarsOk
  <2> QED
    BY <1>0, <1>8, <2>1, AtPerCall DEF NoMoreElements, Running
<1>9. CASE Run
  <2>1. fn' = fn /\ phase' = phase /\ Step /\ status = "running"
    BY <1>9, StepRuns DEF Run, statement
  <2>2. CASE Kind # "unnest"
    <3>1. Ahead(Returns, <<>>)
      BY <2>1, <2>2
    <3>2. VarsOk' /\ KeepsFixed /\ (status' = "running" => Ahead(Returns, <<>>)')
      BY <2>1, <3>1, AheadStep
    <3> QED
      BY <1>0, <2>1, <3>2, KeptOk
  <2>3. CASE Kind = "unnest"
    <3>1. Ahead({}, <<PerCall>>) \/ Ahead(Returns, <<>>)
      BY <2>1, <2>3 DEF ExplodeInv, Counted
    <3>2. VarsOk' /\ KeepsFixed
      BY <2>1, <3>1, AheadStep
    <3> QED
      BY <1>0, <2>1, <2>3, <3>2, KeptOk
  <2> QED
    BY <2>2, <2>3
<1>10. CASE Fail
  BY <1>0, <1>10 DEF Fail, Raise, Keep, statement, VarsOk, LentOk
<1>11. CASE Consume
  <2>1. var' = [v \in DOMAIN var \ {"ret"} |-> var[v]] \/ var' = [Given EXCEPT !["state"] = var["state"]]
    BY <1>11 DEF Consume
  <2>2. VarsOk'
    <3>1. CASE var' = [v \in DOMAIN var \ {"ret"} |-> var[v]]
      BY <3>1 DEF VarsOk
    <3>2. PICK b : b = var["state"]
      OBVIOUS
    <3> QED
      BY <2>1, <3>1, <3>2, GivenOk
  <2>3. LentOk' /\ fn' = fn /\ status' = "idle"
    BY <1>11, ResetOk DEF Consume
  <2> QED
    BY <1>0, <2>2, <2>3
<1>12. CASE TakeState
  <2>1. PICK b : var' = [Given EXCEPT !["state"] = b]
    BY <1>12 DEF TakeState
  <2>2. fn' = fn /\ status' = "idle" /\ phase' = phase
    BY <1>12 DEF TakeState
  <2>3. LentOk'
    <3>1. CASE Drop({"call"})
      BY <2>2, <3>1, ResetOk
    <3>2. CASE ~Drop({"call"})
      <4>1. PICK cell : heap' = [x \in Live({"call"}) \cup {brk} |-> IF x = brk THEN cell ELSE heap[x]]
        BY <1>12, <3>2 DEF TakeState
      <4>2. brk \notin Fixed
        BY FixedIs DEF OwnersInv, Numbered
      <4> QED
        BY <2>2, <4>1, <4>2 DEF LentOk, Live, Fixed
    <3> QED
      BY <3>1, <3>2
  <2> QED
    BY <1>0, <2>1, <2>2, <2>3, GivenOk
<1>13. CASE Abort \/ Close \/ Shutdown
  <2>1. PICK to \in {"aborted", "closed"} : End(to)
    BY <1>13 DEF Abort, Close, Shutdown
  <2>2. LentOk' /\ fn' = fn /\ status' = "idle"
    BY <2>1, ResetOk DEF End
  <2>3. VarsOk'
    BY <2>1, GivenOk DEF End
  <2> QED
    BY <1>0, <2>2, <2>3
<1> QED
  BY <1>1, <1>3, <1>4, <1>5, <1>6, <1>7, <1>8, <1>9, <1>10, <1>11, <1>12, <1>13 DEF Next, Proceed

(* And to the points of PC_Explode.                                         *)
LEMMA ExplodeKeeps ==
  ASSUME LendingInv, [Next]_vars, Kind = "unnest"
  PROVE  ExplodeInv'
<1> USE DEF LendingInv
<1>0. Kind # "scalar" /\ Kind # "aggregate" /\ ExplodeInv /\ VarsOk /\ OwnersInv
  OBVIOUS
<1>1. CASE UNCHANGED vars
  <2>1. \A last, tail : Ahead(last, tail) => Ahead(last, tail)'
    BY <1>1 DEF vars, memory, Ahead, Left, Value
  <2> QED
    BY <1>0, <1>1, <2>1 DEF vars, memory, statement, ExplodeInv, RowsInOrder, Counted, Fetched
<1>2. Sound({}, <<Read("fctx")>>) /\ Sound({}, UnnestFirst)
  BY UnnestFunctions
<1>3. CASE CallUnnest
  <2>1. phase' = phase /\ phase = "open" /\ status = "idle" /\ status' = "running" /\ call' = "unnest" /\ rows' = rows
    BY <1>3 DEF CallUnnest, Call, Ready
  <2>2. Ahead({}, <<PerCall>>)'
    <3> DEFINE r == <<Read("fctx")>>
    <3>1. AnyCall = r \o <<PerCall>>
      BY DEF AnyCall, PerCall
    <3>2. UnnestFirst \o AnyCall = (UnnestFirst \o r) \o <<PerCall>>
      <4>1. Texts(UnnestFirst) /\ Texts(r) /\ Texts(<<PerCall>>)
        BY <1>2, SoundText, Tails
      <4> HIDE DEF r
      <4> QED
        BY <3>1, <4>1, JoinThree
    <3>3. Sound({}, r) /\ Sound({}, UnnestFirst \o r)
      BY <1>2, SoundJoin
    <3>4. todo' = UnnestFirst \o AnyCall \/ todo' = AnyCall
      BY <1>3 DEF CallUnnest, Call
    <3> HIDE DEF r
    <3> QED
      BY <3>1, <3>2, <3>3, <3>4, Started
  <2>3. CASE srf = NULL
    <3>1. PICK n \in 1 .. MaxPoints : srf' = [nextelem |-> 0, numelems |-> n, elem |-> NULL, done |-> FALSE]
      BY <1>3, <2>3 DEF CallUnnest
    <3>2. n \in Nat /\ srf' \in SrfStates
      BY <3>1, StatementBounds DEF SrfStates
    <3>3. srf' # NULL /\ rows = <<>>
      BY <1>0, <2>3, <3>2, NullIsNoState DEF ExplodeInv
    <3> QED
      BY <1>0, <2>1, <2>2, <3>1, <3>2, <3>3 DEF ExplodeInv, RowsInOrder, Counted
  <2>4. CASE srf # NULL
    <3>1. srf' = srf /\ ~srf.done
      BY <1>3, <2>4 DEF CallUnnest
    <3> QED
      BY <1>0, <2>1, <2>2, <2>4, <3>1 DEF ExplodeInv, RowsInOrder, Counted
  <2> QED
    BY <2>3, <2>4
<1>4. ASSUME Running("per_call")
      PROVE  /\ status = "running" /\ call = "unnest" /\ srf # NULL /\ Counted /\ phase = "open"
             /\ ~srf.done /\ srf.nextelem = Len(rows) /\ Tail(todo) = <<>>
  BY <1>0, <1>4, AtPerCall DEF ExplodeInv, Counted, Running
<1>5. CASE NextElement
  <2>1. /\ srf # NULL /\ Counted /\ ~srf.done /\ srf.nextelem = Len(rows) /\ call' = "unnest" /\ status' = "running"
        /\ phase' = phase /\ rows' = rows /\ todo' = UnnestNext \o <<>> /\ srf.nextelem < srf.numelems
    BY <1>4, <1>5 DEF NextElement, Continue, MoreElements
  <2>2. Ahead(Returns, <<>>)'
    BY <2>1, UnnestFunctions, Started
  <2>3. /\ srf' \in SrfStates /\ srf'.elem = Len(rows) /\ srf'.nextelem = Len(rows) + 1
        /\ srf'.numelems = srf.numelems /\ ~srf'.done
    <3>1. srf \in SrfStates /\ srf' = [srf EXCEPT !.elem = srf.nextelem, !.nextelem = @ + 1]
      BY <1>5, <2>1 DEF NextElement, Fetch, Counted
    <3>2. srf.nextelem \in Nat /\ srf.nextelem + 1 \in Nat /\ srf.done = FALSE
      BY <2>1, <3>1 DEF SrfStates
    <3>3. /\ srf'.elem = srf.nextelem /\ srf'.nextelem = srf.nextelem + 1 /\ srf'.done = srf.done
          /\ srf'.numelems = srf.numelems /\ srf' \in SrfStates
      BY <3>1, <3>2 DEF SrfStates
    <3> QED
      BY <2>1, <3>2, <3>3
  <2>4. Len(rows) \in Nat /\ srf.numelems \in Nat
    BY <1>0, <2>1 DEF ExplodeInv, RowsInOrder, Counted, SrfStates
  <2>5. Counted'
    BY <2>1, <2>2, <2>3, <2>4 DEF Counted, Fetched
  <2> QED
    BY <1>0, <2>1, <2>3, <2>5, NullIsNoState DEF ExplodeInv, RowsInOrder
<1>6. CASE NoMoreElements
  <2>1. /\ srf # NULL /\ Counted /\ ~srf.done /\ srf.nextelem = Len(rows) /\ call' = "unnest" /\ status' = "running"
        /\ phase' = phase /\ rows' = rows /\ todo' = UnnestDone \o <<>> /\ ~(srf.nextelem < srf.numelems)
    BY <1>4, <1>6 DEF NoMoreElements, Continue, MoreElements
  <2>2. Ahead(Returns, <<>>)'
    BY <2>1, UnnestFunctions, Started
  <2>3. /\ srf' \in SrfStates /\ srf'.elem = NULL /\ srf'.nextelem = srf.nextelem
        /\ srf'.numelems = srf.numelems /\ srf'.done
    BY <1>6, <2>1 DEF NoMoreElements, Finished, Counted, SrfStates
  <2>4. Len(rows) \in Nat /\ srf.numelems = Len(rows)
    BY <1>0, <2>1 DEF ExplodeInv, RowsInOrder, Counted, SrfStates
  <2>5. Counted'
    BY <2>1, <2>2, <2>3, <2>4 DEF Counted, Fetched
  <2> QED
    BY <1>0, <2>1, <2>3, <2>5, NullIsNoState DEF ExplodeInv, RowsInOrder
<1>7. CASE Run
  <2>1. UNCHANGED <<phase, call, srf, rows>> /\ Step /\ status = "running"
    BY <1>7, StepRuns DEF Run, statement
  <2>2. srf # NULL /\ Counted /\ call = "unnest" /\ phase = "open"
    BY <1>0, <2>1 DEF ExplodeInv
  <2>3. CASE Ahead({}, <<PerCall>>) /\ ~srf.done /\ srf.nextelem = Len(rows)
    <3>1. status' = "running" /\ Ahead({}, <<PerCall>>)'
      BY <1>0, <2>1, <2>3, AheadStep DEF Returns
    <3> QED
      BY <1>0, <2>1, <2>2, <2>3, <3>1 DEF ExplodeInv, RowsInOrder, Counted
  <2>4. CASE Ahead(Returns, <<>>) /\ Fetched
    <3>1. (status' = "running" /\ Ahead(Returns, <<>>)') \/ status' = "returned"
      BY <1>0, <2>1, <2>4, AheadStep
    <3> QED
      BY <1>0, <2>1, <2>2, <2>4, <3>1 DEF ExplodeInv, RowsInOrder, Counted, Fetched
  <2> QED
    BY <2>1, <2>2, <2>3, <2>4 DEF Counted
<1>8. CASE Fail
  BY <1>0, <1>8 DEF Fail, Raise, Keep, statement, ExplodeInv, RowsInOrder, Counted
<1>9. CASE Consume
  <2>1. /\ call = "unnest" /\ srf # NULL /\ Counted /\ Fetched /\ status' = "idle" /\ phase' = phase /\ srf' = srf
        /\ call' = call /\ phase = "open" /\ rows' = IF srf.elem # NULL THEN Append(rows, srf.elem) ELSE rows
    BY <1>0, <1>9 DEF Consume, ExplodeInv, Counted
  <2>2. rows \in Seq(Nat) /\ Len(rows) \in Nat /\ srf.numelems \in Nat /\ srf.nextelem \in Nat
    BY <1>0, <2>1 DEF ExplodeInv, RowsInOrder, Counted, SrfStates
  <2>3. CASE srf.elem = Len(rows) /\ srf.nextelem = Len(rows) + 1 /\ ~srf.done
    <3>1. rows' = Append(rows, Len(rows))
      BY <2>1, <2>2, <2>3, NullIsNoBlock
    <3>2. /\ rows' \in Seq(Nat) /\ Len(rows') = Len(rows) + 1 /\ rows'[Len(rows) + 1] = Len(rows)
          /\ \A i \in 1 .. Len(rows) : rows'[i] = rows[i]
      BY <2>2, <3>1
    <3>3. RowsInOrder'
      <4>1. \A i \in 1 .. Len(rows) : rows[i] = i - 1
        BY <1>0 DEF ExplodeInv, RowsInOrder
      <4>2. ASSUME NEW i \in 1 .. Len(rows) + 1 PROVE rows'[i] = i - 1
        <5>1. CASE i = Len(rows) + 1
          <6>1. rows'[i] = Len(rows)
            BY <3>2, <5>1
          <6> QED
            BY <2>2, <5>1, <6>1
        <5>2. CASE i # Len(rows) + 1
          <6>1. i \in 1 .. Len(rows)
            BY <2>2, <5>2
          <6> QED
            BY <3>2, <4>1, <6>1
        <5> QED
          BY <5>1, <5>2
      <4> QED
        BY <3>2, <4>2 DEF RowsInOrder
    <3>4. Counted'
      BY <2>1, <2>2, <2>3, <3>2 DEF Counted
    <3> QED
      BY <2>1, <3>3, <3>4 DEF ExplodeInv
  <2>4. CASE srf.elem = NULL /\ srf.done
    <3>1. rows' = rows
      BY <2>1, <2>4
    <3> QED
      BY <1>0, <2>1, <2>2, <2>4, <3>1 DEF ExplodeInv, RowsInOrder, Counted
  <2> QED
    BY <2>1, <2>3, <2>4 DEF Fetched
<1>10. CASE Abort \/ Close \/ Shutdown
  <2>1. PICK to \in {"aborted", "closed"} : End(to)
    BY <1>10 DEF Abort, Close, Shutdown
  <2>2. phase' # "open" /\ status' = "idle" /\ rows' = rows /\ srf' = srf
    BY <2>1 DEF End
  <2> QED
    BY <1>0, <2>2 DEF ExplodeInv, RowsInOrder, Counted
<1>11. ~(CallScalar \/ CallTransition \/ CallFinal \/ TakeState)
  BY <1>0 DEF CallScalar, CallTransition, CallFinal, TakeState, ExplodeInv
<1> QED
  BY <1>1, <1>3, <1>5, <1>6, <1>7, <1>8, <1>9, <1>10, <1>11 DEF Next, Proceed

(* Every step of the executor and of the functions keeps the invariant.     *)
LEMMA LendingKeeps ==
  ASSUME LendingInv, [Next]_vars
  PROVE  LendingInv'
<1>1. Kind' = Kind
  BY LentKeeps DEF Kind
<1> QED
  BY <1>1, LentKeeps, ExplodeKeeps DEF LendingInv

(* The bytes of a stored row outlive every call and every error, and the    *)
(* schemas a call site keeps every call of their statement: no function of  *)
(* the extension frees, on any path and after any error, what it was lent.  *)
THEOREM LentSurvives == Spec => []LentStays
<1>1. LendingInv => LentStays
  BY FixedIs DEF LendingInv, LentOk, LentStays, Fixed
<1> QED
  BY InitLending, LendingKeeps, <1>1, PTL DEF Spec

(* PC_Explode hands the executor the points in order, each once, and says   *)
(* that it is done when the last one was taken.                             *)
THEOREM PointsExplodedOnce == Spec => []EveryPointOnce
<1>1. LendingInv => EveryPointOnce
  <2> SUFFICES ASSUME LendingInv, Kind = "unnest" PROVE EveryPointOnce
    BY DEF EveryPointOnce
  <2>1. ExplodeInv
    BY DEF LendingInv
  <2>2. rows = [i \in 1 .. Len(rows) |-> i - 1]
    BY <2>1 DEF ExplodeInv, RowsInOrder
  <2>3. srf # NULL => Len(rows) <= srf.numelems /\ (srf.done => Len(rows) = srf.numelems)
    BY <2>1 DEF ExplodeInv, RowsInOrder, Counted, SrfStates
  <2> QED
    BY <2>2, <2>3 DEF EveryPointOnce
<1> QED
  BY InitLending, LendingKeeps, <1>1, PTL DEF Spec
=============================================================================
