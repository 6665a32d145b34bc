--------------------------- MODULE MCSchemaCache ---------------------------
(* The schema cache on small instances, and its refinement of SchemaMemo.   *)
EXTENDS SchemaCache

(* The ring read from its oldest entry: slots fill from 0 up, and once all  *)
(* are used the oldest entry is the one next_slot points at.                *)
Full(r) == \A i \in Slot : r.pcid[i] # 0

Used(r) == IF Full(r) THEN CacheSize ELSE r.next

Oldest(r, k) == IF Full(r) THEN (r.next + k - 1) % CacheSize ELSE k - 1

Queue(r) == [k \in 1 .. Used(r) |-> r.schema[Oldest(r, k)]]

Memo == INSTANCE SchemaMemo WITH
          Capacity <- CacheSize,
          memo     <- [s \in Site |-> Queue(ring[s])]

(* The ring of next_slot implements a queue of the CacheSize most recently  *)
(* loaded pcids: what pc_schema_from_pcid answers is what the queue holds.  *)
ImplementsMemo == Memo!Spec

=============================================================================
