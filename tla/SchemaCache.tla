---------------------------- MODULE SchemaCache ----------------------------
(***************************************************************************)
(* The schema cache of the PostgreSQL glue (pgsql/pc_pgsql.c).             *)
(*                                                                         *)
(* Every SQL function that touches a point or a patch turns the pcid in    *)
(* the value's header into a schema.  The schemas are rows of the table    *)
(* pointcloud_formats, which any session may edit; a function's call site  *)
(* (its FmgrInfo) keeps the ones it has loaded in fn_extra, a ring of      *)
(* SchemaCacheSize slots that starts out as zeroed memory.                 *)
(***************************************************************************)
EXTENDS Naturals, FiniteSets

CONSTANTS
  Pcid,       \* pcids the table's CHECK constraint admits: positive integers
  Asked,      \* pcids found in the headers that call sites look up
  Site,       \* call sites: one FmgrInfo each
  Doc,        \* schema documents a row may hold, all of them parseable
  CacheSize,  \* SchemaCacheSize, 16 in the code
  NoRow,      \* pcid absent from pointcloud_formats
  NullRow,    \* row whose schema or srid column is NULL
  NULL        \* the null pointer

ASSUME PcidAssumption == Pcid \subseteq Nat \ {0} /\ Asked \subseteq Nat
ASSUME CacheSizeAssumption == CacheSize \in Nat \ {0}
ASSUME RowAssumption == NoRow \notin Doc /\ NullRow \notin Doc /\ NoRow # NullRow

VARIABLES
  formats,    \* the committed content of pointcloud_formats
  live,       \* live[s]: the FmgrInfo of s exists
  ring,       \* ring[s]: the SchemaCache in fn_extra
  loading,    \* loading[s]: the row a cache miss has read and not yet stored
  reply,      \* reply[s]: what the last lookup of s returned
  witnessed   \* history: documents each pcid has had since s came to life

vars == <<formats, live, ring, loading, reply, witnessed>>

Slot == 0 .. CacheSize - 1

(* A PCSCHEMA as the glue builds it: the parsed document, its pcid and the  *)
(* compression a caller may have overridden in a copy.                      *)
Schema == [pcid : Pcid, doc : Doc, override : BOOLEAN]

ASSUME NullAssumption == NULL \notin Schema

Load(p, d) == [pcid |-> p, doc |-> d, override |-> FALSE]

Idle   == [state |-> "idle"]
Nobody == [state |-> "none"]
Failed == [state |-> "error"]

(* memset(cache, 0, sizeof(SchemaCache)): pcid 0 and a null schema in       *)
(* every slot.                                                              *)
FreshRing == [next   |-> 0,
              pcid   |-> [i \in Slot |-> 0],
              schema |-> [i \in Slot |-> NULL]]

(* Slip: the scan stops one slot early.                                     *)
HoldsShort(s, p) == \E i \in Slot \ {CacheSize - 1} : ring[s].pcid[i] = p

Holds(s, p) == \E i \in Slot : ring[s].pcid[i] = p

(* Slips: next_slot never wraps; it advances before the store instead of   *)
(* after; it stays where it is; the schema is not stored.                   *)
PutUnwrapped(r, sc) == [next   |-> r.next + 1,
                        pcid   |-> [r.pcid EXCEPT ![r.next] = sc.pcid],
                        schema |-> [r.schema EXCEPT ![r.next] = sc]]

PutAhead(r, sc) == LET i == (r.next + 1) % CacheSize
                   IN [next   |-> i,
                       pcid   |-> [r.pcid EXCEPT ![i] = sc.pcid],
                       schema |-> [r.schema EXCEPT ![i] = sc]]

PutInPlace(r, sc) == [r EXCEPT !.pcid[r.next] = sc.pcid, !.schema[r.next] = sc]

PutPcidOnly(r, sc) == [r EXCEPT !.next = (@ + 1) % CacheSize, !.pcid[r.next] = sc.pcid]

(* The next slot takes the schema, whatever it held, and next_slot advances.*)
Put(r, sc) == [next   |-> (r.next + 1) % CacheSize,
               pcid   |-> [r.pcid EXCEPT ![r.next] = sc.pcid],
               schema |-> [r.schema EXCEPT ![r.next] = sc]]

(* The linear scan stops at the first slot whose pcid matches.              *)
FirstSlot(s, p) ==
  CHOOSE i \in Slot : /\ ring[s].pcid[i] = p
                      /\ \A j \in Slot : ring[s].pcid[j] = p => i <= j

Committed(p) == {formats[p]} \cap Doc

-----------------------------------------------------------------------------
Init ==
  /\ formats   \in [Pcid -> Doc \cup {NoRow, NullRow}]
  /\ live      = [s \in Site |-> FALSE]
  /\ ring      = [s \in Site |-> FreshRing]
  /\ loading   = [s \in Site |-> Idle]
  /\ reply     = [s \in Site |-> Nobody]
  /\ witnessed = [s \in Site |-> [p \in Pcid |-> {}]]

(* The executor sets a call site up; its first lookup finds fn_extra NULL   *)
(* and zeroes a new ring.                                                   *)
Open(s) ==
  /\ ~live[s]
  /\ live'      = [live EXCEPT ![s] = TRUE]
  /\ ring'      = [ring EXCEPT ![s] = FreshRing]
  /\ witnessed' = [witnessed EXCEPT ![s] = [p \in Pcid |-> Committed(p)]]
  /\ UNCHANGED <<formats, loading, reply>>

(* Slip: the ring outlives the schemas' memory context.                     *)
CloseKeepsRing(s) ==
  /\ live[s]
  /\ live'      = [live EXCEPT ![s] = FALSE]
  /\ loading'   = [loading EXCEPT ![s] = Idle]
  /\ reply'     = [reply EXCEPT ![s] = Nobody]
  /\ witnessed' = [witnessed EXCEPT ![s] = [p \in Pcid |-> {}]]
  /\ UNCHANGED <<formats, ring>>

(* The memory context of the call site is reset: ring and schemas go.       *)
Close(s) ==
  /\ live[s]
  /\ live'      = [live EXCEPT ![s] = FALSE]
  /\ ring'      = [ring EXCEPT ![s] = FreshRing]
  /\ loading'   = [loading EXCEPT ![s] = Idle]
  /\ reply'     = [reply EXCEPT ![s] = Nobody]
  /\ witnessed' = [witnessed EXCEPT ![s] = [p \in Pcid |-> {}]]
  /\ UNCHANGED formats

Ready(s) == live[s] /\ loading[s] = Idle

LookupHit(s, p) ==
  /\ Ready(s)
  /\ Holds(s, p)
  /\ reply' = [reply EXCEPT ![s] = [state  |-> "served", pcid |-> p,
                                    schema |-> ring[s].schema[FirstSlot(s, p)]]]
  /\ UNCHANGED <<formats, live, ring, loading, witnessed>>

(* A miss reads the row as committed at this moment (a fresh SPI snapshot). *)
LookupMiss(s, p) ==
  /\ Ready(s)
  /\ ~Holds(s, p)
  /\ p \in Pcid
  /\ formats[p] \in Doc
  /\ loading' = [loading EXCEPT ![s] = [state |-> "read", pcid |-> p, doc |-> formats[p]]]
  /\ UNCHANGED <<formats, live, ring, reply, witnessed>>

(* No row, or a NULL column: elog(ERROR) leaves before the ring is touched. *)
LookupFails(s, p) ==
  /\ Ready(s)
  /\ ~Holds(s, p)
  /\ p \in Pcid => formats[p] \notin Doc
  /\ reply' = [reply EXCEPT ![s] = Failed]
  /\ UNCHANGED <<formats, live, ring, loading, witnessed>>

(* The row is parsed, tagged with its pcid, stored and returned.            *)
Install(s) ==
  /\ live[s]
  /\ loading[s] # Idle
  /\ LET p  == loading[s].pcid
         sc == Load(p, loading[s].doc)
     IN /\ ring' = [ring EXCEPT ![s] = Put(@, sc)]
        /\ reply' = [reply EXCEPT ![s] = [state |-> "served", pcid |-> p, schema |-> sc]]
  /\ loading' = [loading EXCEPT ![s] = Idle]
  /\ UNCHANGED <<formats, live, witnessed>>

(* Slip: the override is written to the cached schema itself.               *)
OverrideCached(s) ==
  /\ Ready(s)
  /\ reply[s].state = "served"
  /\ reply[s].schema # NULL
  /\ Holds(s, reply[s].pcid)
  /\ reply' = [reply EXCEPT ![s].schema.override = TRUE]
  /\ ring'  = [ring EXCEPT ![s].schema[FirstSlot(s, reply[s].pcid)].override = TRUE]
  /\ UNCHANGED <<formats, live, loading, witnessed>>

(* PC_Compress works on a clone whose compression it overrides: the schema  *)
(* it was handed stays as it is in the ring.                                *)
Override(s) ==
  /\ Ready(s)
  /\ reply[s].state = "served"
  /\ reply[s].schema # NULL
  /\ reply' = [reply EXCEPT ![s].schema.override = TRUE]
  /\ UNCHANGED <<formats, live, ring, loading, witnessed>>

(* INSERT, UPDATE or DELETE on pointcloud_formats, committed by any session.*)
Edit(p, row) ==
  /\ formats[p] # row
  /\ formats'   = [formats EXCEPT ![p] = row]
  /\ witnessed' = [s \in Site |-> IF live[s]
                                  THEN [witnessed[s] EXCEPT ![p] = @ \cup ({row} \cap Doc)]
                                  ELSE witnessed[s]]
  /\ UNCHANGED <<live, ring, loading, reply>>

Next ==
  \/ \E s \in Site : Open(s) \/ Close(s) \/ Install(s) \/ Override(s)
  \/ \E s \in Site, p \in Asked : LookupHit(s, p) \/ LookupMiss(s, p) \/ LookupFails(s, p)
  \/ \E p \in Pcid, row \in Doc \cup {NoRow, NullRow} : Edit(p, row)

Spec == Init /\ [][Next]_vars

-----------------------------------------------------------------------------
(* Types of the variables; a ring's pcid 0 marks a slot never used.         *)
Loading == {Idle} \cup [state : {"read"}, pcid : Pcid, doc : Doc]
Reply   == {Nobody, Failed}
             \cup [state : {"served"}, pcid : Nat, schema : Schema \cup {NULL}]
Ring    == [next : Slot, pcid : [Slot -> Pcid \cup {0}], schema : [Slot -> Schema \cup {NULL}]]

TypeOK ==
  /\ formats   \in [Pcid -> Doc \cup {NoRow, NullRow}]
  /\ live      \in [Site -> BOOLEAN]
  /\ ring      \in [Site -> Ring]
  /\ loading   \in [Site -> Loading]
  /\ reply     \in [Site -> Reply]
  /\ witnessed \in [Site -> [Pcid -> SUBSET Doc]]

(* A pcid is loaded into one slot only: pc_schema_from_pcid returns the     *)
(* first match, so a second copy would shadow or outlive the first.         *)
NoDuplicates ==
  \A s \in Site : \A i, j \in Slot :
    ring[s].pcid[i] = ring[s].pcid[j] /\ ring[s].pcid[i] # 0 => i = j

(* The slots never used are the ones from next_slot up: the ring overwrites *)
(* a schema only when it is full, and a pending miss is not in it yet.      *)
FilledInOrder ==
  \A s \in Site :
    /\ \A i \in Slot : ring[s].pcid[i] = 0 =>
         \A j \in Slot : (ring[s].pcid[j] = 0) <=> (j >= ring[s].next)
    /\ loading[s] # Idle => ~Holds(s, loading[s].pcid)

(* The linear scan and next_slot agree on which slots are used, and for     *)
(* what: edits, failing loads and the reset of the ring never leave two     *)
(* copies of a pcid or a gap between used slots.                            *)
RingInOrder == NoDuplicates /\ FilledInOrder

(* What a call site decodes with: a schema in the slot of pcid p is the     *)
(* schema of p, unmodified, as some session committed it while the call     *)
(* site was alive (pc_pgsql.c calls this the statement level cache).        *)
ServesWitnessed ==
  \A s \in Site :
    /\ \A i \in Slot : ring[s].pcid[i] # 0 =>
         LET sc == ring[s].schema[i]
         IN sc \in Schema /\ sc.pcid = ring[s].pcid[i]
              /\ sc.doc \in witnessed[s][sc.pcid] /\ ~sc.override
    /\ loading[s] # Idle => loading[s].doc \in witnessed[s][loading[s].pcid]

(* pc_schema_from_pcid returns a schema or raises: its callers dereference  *)
(* what they get.                                                           *)
NeverServesNull == \A s \in Site : reply[s].state = "served" => reply[s].schema # NULL

(* Two lookups of one pcid at one call site return the same schema unless   *)
(* the ring was full and the pcid was its oldest entry: an edit of the      *)
(* formats never changes, in the middle of a statement, what is cached.     *)
OnlyOldestLeaves ==
  [][\A s \in Site, i \in Slot :
       live[s] /\ live'[s] /\ ring[s].pcid[i] # 0
         => \/ /\ ring'[s].pcid[i]   = ring[s].pcid[i]
               /\ ring'[s].schema[i] = ring[s].schema[i]
            \/ /\ i = ring[s].next
               /\ \A j \in Slot : ring[s].pcid[j] # 0]_vars
=============================================================================
