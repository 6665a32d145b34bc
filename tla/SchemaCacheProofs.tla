-------------------------- MODULE SchemaCacheProofs --------------------------
(***************************************************************************)
(* Proofs about SchemaCache for every set of pcids, call sites and         *)
(* documents and every ring size: its invariants, and that the ring, read  *)
(* from its oldest entry, implements the memo of SchemaMemo.               *)
(***************************************************************************)
EXTENDS MCSchemaCache, SequenceTheorems, TLAPS

(* The inductive invariant: which slots are filled is needed to know that  *)
(* an Install overwrites an entry only when the ring is full, that a        *)
(* pending load is not cached to know that it creates no duplicate, and     *)
(* that a call site that is gone has no pending load to know that Open      *)
(* starts its history afresh, and that the committed row of a pcid is       *)
(* witnessed to know that a miss reads a witnessed document.                *)
ClosedIsIdle == \A s \in Site : ~live[s] => loading[s] = Idle

CurrentIsWitnessed ==
  \A s \in Site, p \in Pcid : live[s] /\ formats[p] \in Doc => formats[p] \in witnessed[s][p]

Inv == TypeOK /\ ClosedIsIdle /\ CurrentIsWitnessed /\ NoDuplicates /\ FilledInOrder /\ ServesWitnessed

(* (next_slot + 1) % SchemaCacheSize steps to the next slot or wraps to 0.  *)
LEMMA NextSlot ==
  ASSUME NEW n \in Slot
  PROVE  (n + 1) % CacheSize = IF n + 1 = CacheSize THEN 0 ELSE n + 1
  BY CacheSizeAssumption, SMT DEF Slot

(* The scan of pc_schema_from_pcid ends at a slot that holds the pcid it    *)
(* was asked for: the only one, or for pcid 0 the next slot to be used.     *)
LEMMA FirstSlotHolds ==
  ASSUME Inv, NEW s \in Site, NEW p, Holds(s, p)
  PROVE  FirstSlot(s, p) \in Slot /\ ring[s].pcid[FirstSlot(s, p)] = p
<1> DEFINE First(i) == /\ ring[s].pcid[i] = p
                       /\ \A j \in Slot : ring[s].pcid[j] = p => i <= j
<1> SUFFICES \E i \in Slot : First(i)
  BY DEF FirstSlot
<1>1. PICK k \in Slot : ring[s].pcid[k] = p
  BY DEF Holds
<1>2. CASE p = 0
  <2>1. \A j \in Slot : (ring[s].pcid[j] = 0) <=> (j >= ring[s].next)
    BY <1>1, <1>2 DEF Inv, FilledInOrder
  <2>2. ring[s].next \in Slot
    BY DEF Inv, TypeOK, Ring
  <2>3. First(ring[s].next)
    BY <1>2, <2>1, <2>2 DEF Slot
  <2> QED
    BY <2>2, <2>3
<1>3. CASE p # 0
  <2>1. \A j \in Slot : ring[s].pcid[j] = p => j = k
    BY <1>1, <1>3 DEF Inv, NoDuplicates
  <2>2. k <= k
    BY <1>1, CacheSizeAssumption DEF Slot
  <2> QED
    BY <1>1, <2>1, <2>2
<1> QED
  BY <1>2, <1>3

(* The initial states satisfy the invariant: no call site is alive.         *)
LEMMA InitInv == Init => Inv
<1> SUFFICES ASSUME Init PROVE Inv
  OBVIOUS
<1>1. TypeOK
  BY CacheSizeAssumption DEF Init, TypeOK, Ring, Loading, Reply, FreshRing, Slot
<1>2. NoDuplicates
  BY DEF Init, NoDuplicates, FreshRing
<1>3. FilledInOrder
  BY CacheSizeAssumption DEF Init, FilledInOrder, FreshRing, Slot
<1>4. ServesWitnessed
  BY DEF Init, ServesWitnessed, FreshRing
<1>5. ClosedIsIdle /\ CurrentIsWitnessed
  BY DEF Init, ClosedIsIdle, CurrentIsWitnessed
<1> QED
  BY <1>1, <1>2, <1>3, <1>4, <1>5 DEF Inv

(* The actions that leave every ring and every pending load alone, and only *)
(* add to what was witnessed, keep the parts about the rings.               *)
LEMMA RingUntouched ==
  ASSUME Inv, UNCHANGED <<ring, loading>>,
         \A s \in Site, p \in Pcid : witnessed[s][p] \subseteq witnessed'[s][p]
  PROVE  NoDuplicates' /\ FilledInOrder' /\ ServesWitnessed'
<1>1. NoDuplicates' /\ FilledInOrder'
  BY DEF Inv, NoDuplicates, FilledInOrder, Holds
<1>2. ServesWitnessed'
  <2> SUFFICES ASSUME NEW s \in Site
               PROVE  /\ \A i \in Slot : ring[s].pcid[i] # 0 =>
                           /\ ring[s].schema[i] \in Schema
                           /\ ring[s].schema[i].pcid = ring[s].pcid[i]
                           /\ ring[s].schema[i].doc \in witnessed'[s][ring[s].schema[i].pcid]
                           /\ ~ring[s].schema[i].override
                      /\ loading[s] # Idle => loading[s].doc \in witnessed'[s][loading[s].pcid]
    BY DEF ServesWitnessed
  <2>1. ASSUME NEW i \in Slot, ring[s].pcid[i] # 0
        PROVE  /\ ring[s].schema[i] \in Schema
               /\ ring[s].schema[i].pcid = ring[s].pcid[i]
               /\ ring[s].schema[i].doc \in witnessed'[s][ring[s].schema[i].pcid]
               /\ ~ring[s].schema[i].override
    BY <2>1 DEF Inv, ServesWitnessed, Schema
  <2>2. ASSUME loading[s] # Idle
        PROVE  loading[s].doc \in witnessed'[s][loading[s].pcid]
    BY <2>2 DEF Inv, TypeOK, Loading, ServesWitnessed
  <2> QED
    BY <2>1, <2>2
<1> QED
  BY <1>1, <1>2

(* A lookup that only answers, and the caller's use of the answer.          *)
LEMMA ReplyOnly ==
  ASSUME Inv, UNCHANGED <<formats, live, ring, loading, witnessed>>, reply' \in [Site -> Reply]
  PROVE  Inv'
<1>1. TypeOK' /\ ClosedIsIdle' /\ CurrentIsWitnessed'
  BY DEF Inv, TypeOK, ClosedIsIdle, CurrentIsWitnessed
<1>2. NoDuplicates' /\ FilledInOrder' /\ ServesWitnessed'
  BY RingUntouched
<1> QED
  BY <1>1, <1>2 DEF Inv

(* Storing a schema: the pcid is not in the ring yet, so it stays in one    *)
(* slot; and the slot written is the first unused one, or any when none is. *)
LEMMA InstallInv ==
  ASSUME Inv, NEW s \in Site, Install(s)
  PROVE  Inv'
<1> DEFINE n  == ring[s].next
           p  == loading[s].pcid
           sc == Load(p, loading[s].doc)
<1>1. /\ n \in Slot
      /\ p \in Pcid /\ loading[s].doc \in Doc
      /\ p # 0 /\ sc \in Schema
      /\ loading[s] # Idle
  BY PcidAssumption DEF Inv, TypeOK, Ring, Loading, Install, Load, Schema
<1>2. /\ ring'[s].pcid = [ring[s].pcid EXCEPT ![n] = p]
      /\ ring'[s].schema = [ring[s].schema EXCEPT ![n] = sc]
      /\ ring'[s].next = (n + 1) % CacheSize
      /\ \A t \in Site : t # s => ring'[t] = ring[t]
      /\ ring' = [ring EXCEPT ![s] = [next   |-> (n + 1) % CacheSize,
                                      pcid   |-> [ring[s].pcid EXCEPT ![n] = p],
                                      schema |-> [ring[s].schema EXCEPT ![n] = sc]]]
  <2>1. ring \in [Site -> Ring] /\ sc.pcid = p
    BY DEF Inv, TypeOK, Load
  <2>2. ring' = [ring EXCEPT ![s] = Put(ring[s], sc)]
    BY DEF Install
  <2>3. ring'[s] = Put(ring[s], sc) /\ \A t \in Site : t # s => ring'[t] = ring[t]
    BY <2>1, <2>2
  <2> HIDE DEF p, sc
  <2> QED
    BY <2>1, <2>2, <2>3 DEF Put
<1>3. ring'[s].next = IF n + 1 = CacheSize THEN 0 ELSE n + 1
  BY <1>1, <1>2, NextSlot
<1>4. /\ loading' = [loading EXCEPT ![s] = Idle]
      /\ UNCHANGED <<formats, live, witnessed>>
      /\ reply' = [reply EXCEPT ![s] = [state |-> "served", pcid |-> p, schema |-> sc]]
  BY DEF Install
<1>5. TypeOK'
  <2>1. ring' \in [Site -> Ring]
    <3>1. (n + 1) % CacheSize \in Slot
      BY <1>1, NextSlot, CacheSizeAssumption DEF Slot
    <3> QED
      BY <1>1, <1>2, <3>1 DEF Inv, TypeOK, Ring
  <2>2. reply' \in [Site -> Reply]
    BY <1>1, <1>4, PcidAssumption DEF Inv, TypeOK, Reply
  <2> QED
    BY <1>4, <2>1, <2>2 DEF Inv, TypeOK, Loading
<1>6. NoDuplicates'
  <2>1. \A i \in Slot : ring[s].pcid[i] # p
    BY <1>1 DEF Inv, FilledInOrder, Holds
  <2> QED
    BY <1>1, <1>2, <2>1 DEF Inv, TypeOK, Ring, NoDuplicates
<1>7. FilledInOrder'
  <2> SUFFICES ASSUME NEW t \in Site
               PROVE  /\ \A i \in Slot : ring'[t].pcid[i] = 0 =>
                           \A j \in Slot : (ring'[t].pcid[j] = 0) <=> (j >= ring'[t].next)
                      /\ loading'[t] # Idle => ~Holds(t, loading[t].pcid)'
    BY <1>4 DEF FilledInOrder, Inv, TypeOK, Holds
  <2>1. CASE t # s
    BY <1>2, <1>4, <2>1 DEF Inv, TypeOK, FilledInOrder, Holds
  <2>2. CASE t = s
    <3>1. loading'[s] = Idle
      BY <1>4 DEF Inv, TypeOK
    <3>2. ASSUME NEW i \in Slot, ring'[s].pcid[i] = 0
          PROVE  \A j \in Slot : (ring'[s].pcid[j] = 0) <=> (j >= ring'[s].next)
      <4>1. i # n /\ ring[s].pcid[i] = 0
        BY <1>1, <1>2, <3>2 DEF Inv, TypeOK, Ring
      <4>2. \A j \in Slot : (ring[s].pcid[j] = 0) <=> (j >= n)
        BY <4>1 DEF Inv, FilledInOrder
      <4>3. \A j \in Slot : (ring'[s].pcid[j] = 0) <=> (j >= n /\ j # n)
        BY <1>1, <1>2, <4>2 DEF Inv, TypeOK, Ring
      <4>4. i > n
        BY <1>1, <4>1, <4>2 DEF Slot
      <4>5. n + 1 # CacheSize
        BY <1>1, <4>4, CacheSizeAssumption DEF Slot
      <4> QED
        BY <1>1, <1>3, <4>3, <4>5, CacheSizeAssumption DEF Slot
    <3> QED
      BY <2>2, <3>1, <3>2
  <2> QED
    BY <2>1, <2>2
<1>8. ServesWitnessed'
  <2>1. loading[s].doc \in witnessed[s][p]
    BY <1>1 DEF Inv, ServesWitnessed
  <2>2. sc.pcid = p /\ sc.doc = loading[s].doc /\ ~sc.override
    BY DEF Load
  <2> SUFFICES ASSUME NEW t \in Site
               PROVE  /\ \A i \in Slot : ring'[t].pcid[i] # 0 =>
                           /\ ring'[t].schema[i] \in Schema
                           /\ ring'[t].schema[i].pcid = ring'[t].pcid[i]
                           /\ ring'[t].schema[i].doc \in witnessed[t][ring'[t].schema[i].pcid]
                           /\ ~ring'[t].schema[i].override
                      /\ loading'[t] # Idle => loading'[t].doc \in witnessed[t][loading'[t].pcid]
    BY <1>4 DEF ServesWitnessed
  <2>3. loading'[t] # Idle => loading'[t].doc \in witnessed[t][loading'[t].pcid]
    BY <1>4 DEF Inv, TypeOK, ServesWitnessed
  <2>4. ASSUME NEW i \in Slot, ring'[t].pcid[i] # 0
        PROVE  /\ ring'[t].schema[i] \in Schema
               /\ ring'[t].schema[i].pcid = ring'[t].pcid[i]
               /\ ring'[t].schema[i].doc \in witnessed[t][ring'[t].schema[i].pcid]
               /\ ~ring'[t].schema[i].override
    <3>1. CASE t = s /\ i = n
      <4>1. ring'[t].schema[i] = sc /\ ring'[t].pcid[i] = p
        BY <1>1, <1>2, <3>1 DEF Inv, TypeOK, Ring
      <4> HIDE DEF sc
      <4> QED
        BY <1>1, <2>1, <2>2, <3>1, <4>1
    <3>2. CASE ~(t = s /\ i = n)
      <4>1. ring'[t].schema[i] = ring[t].schema[i] /\ ring'[t].pcid[i] = ring[t].pcid[i]
        BY <1>1, <1>2, <3>2 DEF Inv, TypeOK, Ring
      <4> QED
        BY <2>4, <4>1 DEF Inv, ServesWitnessed
    <3> QED
      BY <3>1, <3>2
  <2> QED
    BY <2>3, <2>4
<1>9. ClosedIsIdle' /\ CurrentIsWitnessed'
  BY <1>4 DEF Inv, TypeOK, ClosedIsIdle, CurrentIsWitnessed
<1> QED
  BY <1>5, <1>6, <1>7, <1>8, <1>9 DEF Inv

(* A call site that opens or closes has an empty ring and nothing pending;  *)
(* every other call site keeps what it had.                                 *)
LEMMA FreshInv ==
  ASSUME Inv, NEW s \in Site,
         ring' = [ring EXCEPT ![s] = FreshRing],
         loading' = [loading EXCEPT ![s] = Idle],
         \A t \in Site : t # s => witnessed'[t] = witnessed[t]
  PROVE  NoDuplicates' /\ FilledInOrder' /\ ServesWitnessed'
<1>1. /\ ring'[s] = FreshRing /\ loading'[s] = Idle
      /\ \A t \in Site : t # s => ring'[t] = ring[t] /\ loading'[t] = loading[t]
  BY DEF Inv, TypeOK
<1>2. NoDuplicates'
  BY <1>1 DEF Inv, NoDuplicates, FreshRing
<1>3. FilledInOrder'
  BY <1>1, CacheSizeAssumption DEF Inv, FilledInOrder, FreshRing, Slot, Holds
<1>4. ServesWitnessed'
  BY <1>1 DEF Inv, ServesWitnessed, FreshRing
<1> QED
  BY <1>2, <1>3, <1>4

(* Every step keeps the invariant.                                          *)
LEMMA StepInv == Inv /\ [Next]_vars => Inv'
<1> SUFFICES ASSUME Inv, [Next]_vars
             PROVE  Inv'
  OBVIOUS
<1>1. ASSUME NEW s \in Site, Open(s)
      PROVE  Inv'
  <2>1. loading' = [loading EXCEPT ![s] = Idle]
    BY <1>1 DEF Open, Inv, TypeOK, ClosedIsIdle
  <2>2. TypeOK'
    BY <1>1, CacheSizeAssumption DEF Inv, TypeOK, Open, FreshRing, Ring, Slot, Committed
  <2>3. ClosedIsIdle' /\ CurrentIsWitnessed'
    BY <1>1 DEF Inv, TypeOK, Open, ClosedIsIdle, CurrentIsWitnessed, Committed
  <2>4. \A t \in Site : t # s => witnessed'[t] = witnessed[t]
    BY <1>1 DEF Inv, TypeOK, Open
  <2>5. NoDuplicates' /\ FilledInOrder' /\ ServesWitnessed'
    BY <1>1, <2>1, <2>4, FreshInv DEF Open
  <2> QED
    BY <2>2, <2>3, <2>5 DEF Inv
<1>2. ASSUME NEW s \in Site, Close(s)
      PROVE  Inv'
  <2>1. TypeOK'
    BY <1>2, CacheSizeAssumption
       DEF Inv, TypeOK, Close, FreshRing, Ring, Slot, Loading, Reply
  <2>2. ClosedIsIdle' /\ CurrentIsWitnessed'
    BY <1>2 DEF Inv, TypeOK, Close, ClosedIsIdle, CurrentIsWitnessed
  <2>3. \A t \in Site : t # s => witnessed'[t] = witnessed[t]
    BY <1>2 DEF Inv, TypeOK, Close
  <2>4. NoDuplicates' /\ FilledInOrder' /\ ServesWitnessed'
    BY <1>2, <2>3, FreshInv DEF Close
  <2> QED
    BY <2>1, <2>2, <2>4 DEF Inv
<1>3. ASSUME NEW s \in Site, NEW p \in Asked, LookupHit(s, p)
      PROVE  Inv'
  <2>1. UNCHANGED <<formats, live, ring, loading, witnessed>>
    BY <1>3 DEF LookupHit
  <2>2. FirstSlot(s, p) \in Slot
    BY <1>3, FirstSlotHolds DEF LookupHit
  <2>3. ring[s].schema[FirstSlot(s, p)] \in Schema \cup {NULL}
    BY <2>2 DEF Inv, TypeOK, Ring
  <2>4. reply' \in [Site -> Reply]
    BY <1>3, <2>3, PcidAssumption DEF LookupHit, Inv, TypeOK, Reply
  <2> QED
    BY <2>1, <2>4, ReplyOnly
<1>4. ASSUME NEW s \in Site, NEW p \in Asked, LookupMiss(s, p)
      PROVE  Inv'
  <2>1. /\ UNCHANGED <<formats, live, ring, reply, witnessed>>
        /\ live[s] /\ ~Holds(s, p) /\ p \in Pcid /\ formats[p] \in Doc
        /\ loading' = [loading EXCEPT ![s] = [state |-> "read", pcid |-> p, doc |-> formats[p]]]
    BY <1>4 DEF LookupMiss, Ready
  <2>2. TypeOK' /\ ClosedIsIdle' /\ CurrentIsWitnessed'
    BY <2>1 DEF Inv, TypeOK, Loading, ClosedIsIdle, CurrentIsWitnessed
  <2>3. NoDuplicates'
    BY <2>1 DEF Inv, NoDuplicates
  <2>4. FilledInOrder'
    BY <2>1 DEF Inv, TypeOK, FilledInOrder, Holds
  <2>5. ServesWitnessed'
    BY <2>1 DEF Inv, TypeOK, ServesWitnessed, CurrentIsWitnessed
  <2> QED
    BY <2>2, <2>3, <2>4, <2>5 DEF Inv
<1>5. ASSUME NEW s \in Site, NEW p \in Asked, LookupFails(s, p)
      PROVE  Inv'
  <2>1. reply' \in [Site -> Reply]
    BY <1>5 DEF LookupFails, Inv, TypeOK, Reply
  <2> QED
    BY <1>5, <2>1, ReplyOnly DEF LookupFails
<1>6. ASSUME NEW s \in Site, Install(s)
      PROVE  Inv'
  BY <1>6, InstallInv
<1>7. ASSUME NEW s \in Site, Override(s)
      PROVE  Inv'
  <2>1. reply' \in [Site -> Reply]
    BY <1>7 DEF Override, Inv, TypeOK, Reply, Schema, Nobody, Failed
  <2> QED
    BY <1>7, <2>1, ReplyOnly DEF Override
<1>8. ASSUME NEW p \in Pcid, NEW row \in Doc \cup {NoRow, NullRow}, Edit(p, row)
      PROVE  Inv'
  <2>1. UNCHANGED <<live, ring, loading, reply>>
    BY <1>8 DEF Edit
  <2>2. \A s \in Site, q \in Pcid :
           witnessed'[s][q] = IF live[s] /\ q = p
                              THEN witnessed[s][q] \cup ({row} \cap Doc)
                              ELSE witnessed[s][q]
    BY <1>8 DEF Edit, Inv, TypeOK
  <2>3. TypeOK'
    BY <1>8, <2>1 DEF Edit, Inv, TypeOK
  <2>4. ClosedIsIdle' /\ CurrentIsWitnessed'
    BY <1>8, <2>1, <2>2 DEF Edit, Inv, TypeOK, ClosedIsIdle, CurrentIsWitnessed
  <2>5. NoDuplicates' /\ FilledInOrder' /\ ServesWitnessed'
    BY <2>1, <2>2, RingUntouched
  <2> QED
    BY <2>3, <2>4, <2>5 DEF Inv
<1>9. CASE UNCHANGED vars
  BY <1>9, ReplyOnly DEF vars, Inv, TypeOK
<1> QED
  BY <1>1, <1>2, <1>3, <1>4, <1>5, <1>6, <1>7, <1>8, <1>9 DEF Next

(* The invariant of every behaviour of the schema cache.                    *)
THEOREM InvHolds == Spec => []Inv
  BY InitInv, StepInv, PTL DEF Spec

(* Every value stays in its type: in particular next_slot is a slot.        *)
THEOREM TypeCorrect == Spec => []TypeOK
<1>1. Inv => TypeOK
  BY DEF Inv
<1> QED
  BY <1>1, InvHolds, PTL

(* One slot per pcid, and an entry is only overwritten in a full ring, for  *)
(* any ring size: the linear scan of pc_schema_from_pcid can stop at the    *)
(* first match.                                                             *)
THEOREM OneSlotPerPcid == Spec => []RingInOrder
<1>1. Inv => RingInOrder
  BY DEF Inv, RingInOrder
<1> QED
  BY <1>1, InvHolds, PTL

(* Whatever the sessions do to pointcloud_formats, a cached schema is the   *)
(* unmodified document some session committed for its pcid while the call   *)
(* site was alive.                                                          *)
THEOREM CacheServesWitnessed == Spec => []ServesWitnessed
<1>1. Inv => ServesWitnessed
  BY DEF Inv
<1> QED
  BY <1>1, InvHolds, PTL

(* The step form of OnlyOldestLeaves: a used slot changes, while its call   *)
(* site lives on, only by an Install into a ring without unused slots.      *)
LEMMA StepKeepsYounger ==
  ASSUME Inv, [Next]_vars, NEW s \in Site, NEW i \in Slot,
         live[s], live'[s], ring[s].pcid[i] # 0
  PROVE  \/ ring'[s].pcid[i] = ring[s].pcid[i] /\ ring'[s].schema[i] = ring[s].schema[i]
         \/ i = ring[s].next /\ \A j \in Slot : ring[s].pcid[j] # 0
<1>1. ASSUME NEW t \in Site, Install(t)
      PROVE  \/ ring'[s].pcid[i] = ring[s].pcid[i] /\ ring'[s].schema[i] = ring[s].schema[i]
             \/ i = ring[s].next /\ \A j \in Slot : ring[s].pcid[j] # 0
  <2>1. ring[s] \in Ring /\ ring \in [Site -> Ring]
    BY DEF Inv, TypeOK
  <2>2. CASE t # s \/ i # ring[s].next
    <3>1. ring'[s].pcid[i] = ring[s].pcid[i] /\ ring'[s].schema[i] = ring[s].schema[i]
      BY <1>1, <2>1, <2>2 DEF Install, Put, Ring
    <3> QED
      BY <3>1
  <2>3. CASE i = ring[s].next
    <3>1. ASSUME NEW j \in Slot, ring[s].pcid[j] = 0
          PROVE  FALSE
      <4>1. (ring[s].pcid[i] = 0) <=> (i >= ring[s].next)
        BY <3>1 DEF Inv, FilledInOrder
      <4>2. i >= ring[s].next
        BY <2>3, CacheSizeAssumption DEF Slot
      <4> QED
        BY <4>1, <4>2
    <3> QED
      BY <2>3, <3>1
  <2> QED
    BY <2>2, <2>3
<1>2. ASSUME NEW t \in Site, Open(t) \/ Close(t)
      PROVE  ring'[s] = ring[s]
  <2>1. t # s
    BY <1>2 DEF Open, Close, Inv, TypeOK
  <2> QED
    BY <1>2, <2>1 DEF Open, Close, Inv, TypeOK
<1>3. ASSUME NEW t \in Site, Override(t)
      PROVE  ring'[s] = ring[s]
  BY <1>3 DEF Override
<1>4. ASSUME NEW t \in Site, NEW p \in Asked,
             LookupHit(t, p) \/ LookupMiss(t, p) \/ LookupFails(t, p)
      PROVE  ring'[s] = ring[s]
  BY <1>4 DEF LookupHit, LookupMiss, LookupFails
<1>5. ASSUME NEW p \in Pcid, NEW row \in Doc \cup {NoRow, NullRow}, Edit(p, row)
      PROVE  ring'[s] = ring[s]
  BY <1>5 DEF Edit
<1>6. CASE UNCHANGED vars
  BY <1>6 DEF vars
<1> QED
  BY <1>1, <1>2, <1>3, <1>4, <1>5, <1>6 DEF Next

(* A statement keeps decoding with the schema it first loaded for a pcid    *)
(* until CacheSize other pcids have been loaded since.                      *)
THEOREM OldestLeavesFirst == Spec => OnlyOldestLeaves
<1>1. Inv /\ [Next]_vars =>
        [\A s \in Site, i \in Slot :
           live[s] /\ live'[s] /\ ring[s].pcid[i] # 0
             => \/ /\ ring'[s].pcid[i]   = ring[s].pcid[i]
                   /\ ring'[s].schema[i] = ring[s].schema[i]
                \/ /\ i = ring[s].next
                   /\ \A j \in Slot : ring[s].pcid[j] # 0]_vars
  BY StepKeepsYounger
<1> QED
  BY <1>1, InvHolds, PTL DEF Spec, OnlyOldestLeaves

(* When no call site looks up pcid 0, the pcid of the slots never used, a   *)
(* lookup returns a schema or raises.                                       *)
THEOREM SchemaOrError ==
  ASSUME 0 \notin Asked
  PROVE  Spec => []NeverServesNull
<1>1. Init => NeverServesNull
  BY DEF Init, Nobody, NeverServesNull
<1>2. ASSUME Inv, NeverServesNull, [Next]_vars
      PROVE  NeverServesNull'
  <2>1. ASSUME NEW s \in Site, NEW p \in Asked, LookupHit(s, p)
        PROVE  NeverServesNull'
    <3>1. FirstSlot(s, p) \in Slot /\ ring[s].pcid[FirstSlot(s, p)] = p
      BY <1>2, <2>1, FirstSlotHolds DEF LookupHit
    <3>2. ring[s].schema[FirstSlot(s, p)] \in Schema
      BY <1>2, <3>1 DEF Inv, ServesWitnessed
    <3> QED
      BY <1>2, <2>1, <3>2, NullAssumption DEF LookupHit, NeverServesNull, Inv, TypeOK
  <2>2. ASSUME NEW s \in Site, Install(s)
        PROVE  NeverServesNull'
    <3>1. Load(loading[s].pcid, loading[s].doc) \in Schema
      BY <1>2, <2>2 DEF Install, Load, Schema, Loading, Inv, TypeOK
    <3> QED
      BY <1>2, <2>2, <3>1, NullAssumption DEF Install, NeverServesNull, Inv, TypeOK
  <2>3. ASSUME NEW s \in Site, Override(s)
        PROVE  NeverServesNull'
    <3>1. reply[s] \in [state : {"served"}, pcid : Nat, schema : Schema]
      BY <1>2, <2>3 DEF Override, Inv, TypeOK, Reply, Nobody, Failed
    <3>2. reply'[s].schema \in Schema
      <4>1. reply'[s] = [reply[s] EXCEPT !.schema.override = TRUE]
        BY <1>2, <2>3 DEF Override, Inv, TypeOK
      <4>2. reply'[s].schema = [reply[s].schema EXCEPT !.override = TRUE]
        BY <3>1, <4>1
      <4> QED
        BY <3>1, <4>2 DEF Schema
    <3> QED
      BY <1>2, <2>3, <3>2, NullAssumption DEF Override, NeverServesNull, Inv, TypeOK
  <2>4. ASSUME NEW s \in Site, Open(s) \/ Close(s)
        PROVE  NeverServesNull'
    BY <1>2, <2>4 DEF Open, Close, Nobody, NeverServesNull, Inv, TypeOK
  <2>5. ASSUME NEW s \in Site, NEW p \in Asked, LookupMiss(s, p) \/ LookupFails(s, p)
        PROVE  NeverServesNull'
    <3>1. CASE LookupMiss(s, p)
      BY <1>2, <3>1 DEF LookupMiss, NeverServesNull
    <3>2. CASE LookupFails(s, p)
      <4>1. reply' = [reply EXCEPT ![s] = Failed]
        BY <3>2 DEF LookupFails
      <4> QED
        BY <1>2, <4>1 DEF Failed, NeverServesNull, Inv, TypeOK
    <3> QED
      BY <2>5, <3>1, <3>2
  <2>6. ASSUME NEW p \in Pcid, NEW row \in Doc \cup {NoRow, NullRow}, Edit(p, row)
        PROVE  NeverServesNull'
    BY <1>2, <2>6 DEF Edit, NeverServesNull
  <2>7. CASE UNCHANGED vars
    BY <1>2, <2>7 DEF vars, NeverServesNull
  <2> QED
    BY <1>2, <2>1, <2>2, <2>3, <2>4, <2>5, <2>6, <2>7 DEF Next
<1> QED
  BY <1>1, <1>2, InvHolds, PTL DEF Spec

-----------------------------------------------------------------------------
(* Slots fill from 0 up to next_slot: FilledInOrder, said of one ring.      *)
Ordered(r) == \A i \in Slot : r.pcid[i] = 0 =>
                \A j \in Slot : (r.pcid[j] = 0) <=> (j >= r.next)

Entries == Schema \cup {NULL}

(* The slot of the k-th oldest entry, without the remainder.                *)
Wrapped(n, k) == IF n + k - 1 < CacheSize THEN n + k - 1 ELSE n + k - 1 - CacheSize

LEMMA Wraps ==
  ASSUME NEW n \in Slot, NEW k \in 1 .. CacheSize
  PROVE  (n + k - 1) % CacheSize = Wrapped(n, k) /\ Wrapped(n, k) \in Slot
  BY CacheSizeAssumption, SMT DEF Slot, Wrapped

LEMMA OldestIs ==
  ASSUME NEW r \in Ring, NEW k \in 1 .. CacheSize
  PROVE  Oldest(r, k) = IF Full(r) THEN Wrapped(r.next, k) ELSE k - 1
  BY Wraps DEF Oldest, Ring

(* How many slots are used: next_slot of them until the ring is full.       *)
LEMMA UsedIs ==
  ASSUME NEW r \in Ring, Ordered(r)
  PROVE  /\ Used(r) \in 0 .. CacheSize
         /\ ~Full(r) => r.next < CacheSize /\ \A j \in Slot : (r.pcid[j] = 0) <=> (j >= r.next)
<1>1. r.next \in Slot
  BY DEF Ring
<1> QED
  BY <1>1, CacheSizeAssumption DEF Used, Full, Ordered, Slot

(* The memo is a sequence, and its k-th entry sits in a used slot.          *)
LEMMA QueueIs ==
  ASSUME NEW r \in Ring, Ordered(r)
  PROVE  /\ Queue(r) \in Seq(Entries)
         /\ Len(Queue(r)) = Used(r)
         /\ \A k \in 1 .. Used(r) : /\ Oldest(r, k) \in Slot
                                    /\ r.pcid[Oldest(r, k)] # 0
                                    /\ Queue(r)[k] = r.schema[Oldest(r, k)]
<1>1. Used(r) \in Nat /\ Used(r) <= CacheSize
  BY UsedIs, CacheSizeAssumption
<1>2. ASSUME NEW k \in 1 .. Used(r)
      PROVE  Oldest(r, k) \in Slot /\ r.pcid[Oldest(r, k)] # 0
  <2>1. k \in 1 .. CacheSize /\ r.next \in Slot
    BY <1>1, CacheSizeAssumption DEF Ring
  <2>2. CASE Full(r)
    BY <2>1, <2>2, OldestIs, Wraps DEF Full
  <2>3. CASE ~Full(r)
    <3>1. Oldest(r, k) = k - 1 /\ k <= r.next
      BY <2>3 DEF Oldest, Used
    <3>2. k - 1 \in Slot /\ ~(k - 1 >= r.next)
      BY <2>1, <3>1, CacheSizeAssumption DEF Slot
    <3> QED
      BY <2>3, <3>1, <3>2, UsedIs
  <2> QED
    BY <2>2, <2>3
<1>3. \A k \in 1 .. Used(r) : r.schema[Oldest(r, k)] \in Entries
  BY <1>2 DEF Ring, Entries
<1>4. Queue(r) \in [1 .. Used(r) -> Entries]
  BY <1>3 DEF Queue
<1>5. Queue(r) \in Seq(Entries) /\ Len(Queue(r)) = Used(r)
  BY <1>1, <1>4
<1> QED
  BY <1>2, <1>5 DEF Queue

(* Every used slot is in the memo.                                          *)
LEMMA SlotIsQueued ==
  ASSUME NEW r \in Ring, Ordered(r), NEW i \in Slot, r.pcid[i] # 0
  PROVE  \E k \in 1 .. Used(r) : Oldest(r, k) = i
<1>1. r.next \in Slot /\ Used(r) \in Nat
  BY UsedIs, CacheSizeAssumption DEF Ring
<1>2. CASE Full(r)
  <2> DEFINE k == IF i >= r.next THEN i - r.next + 1 ELSE i - r.next + 1 + CacheSize
  <2>1. k \in 1 .. CacheSize /\ Wrapped(r.next, k) = i
    BY <1>1, CacheSizeAssumption DEF Slot, Wrapped
  <2> HIDE DEF k
  <2>2. Oldest(r, k) = i
    BY <1>2, <2>1, OldestIs
  <2> QED
    BY <1>2, <2>1, <2>2 DEF Used
<1>3. CASE ~Full(r)
  <2>1. i < r.next
    BY <1>1, <1>3, UsedIs, CacheSizeAssumption DEF Slot
  <2>2. i + 1 \in 1 .. Used(r) /\ Oldest(r, i + 1) = i
    BY <1>1, <1>3, <2>1, CacheSizeAssumption DEF Used, Oldest, Slot
  <2> QED
    BY <2>2
<1> QED
  BY <1>2, <1>3

(* A ring of zeroed memory remembers nothing.                               *)
LEMMA FreshQueue == Queue(FreshRing) = << >>
<1>1. 0 \in Slot
  BY CacheSizeAssumption DEF Slot
<1>2. Used(FreshRing) = 0
  BY <1>1 DEF Used, Full, FreshRing
<1> QED
  BY <1>2 DEF Queue

(* The memo a load leaves: the new schema last, the oldest entry gone when  *)
(* there was no room.                                                       *)
Pushed(q, e) == Append(IF Len(q) = CacheSize THEN Tail(q) ELSE q, e)

(* What Put leaves of the ring.                                             *)
LEMMA PutIs ==
  ASSUME NEW r \in Ring, NEW sc \in Schema
  PROVE  /\ Put(r, sc).next = IF r.next + 1 = CacheSize THEN 0 ELSE r.next + 1
         /\ Put(r, sc).next \in Slot
         /\ \A i \in Slot : Put(r, sc).pcid[i] = IF i = r.next THEN sc.pcid ELSE r.pcid[i]
         /\ \A i \in Slot : Put(r, sc).schema[i] = IF i = r.next THEN sc ELSE r.schema[i]
         /\ Put(r, sc) \in Ring
         /\ sc.pcid # 0
<1>1. r.next \in Slot /\ r.pcid \in [Slot -> Pcid \cup {0}] /\ r.schema \in [Slot -> Entries]
  BY DEF Ring, Entries
<1>2. sc.pcid \in Pcid /\ sc.pcid # 0 /\ sc \in Entries
  BY PcidAssumption DEF Schema, Entries
<1>3. (r.next + 1) % CacheSize = IF r.next + 1 = CacheSize THEN 0 ELSE r.next + 1
  BY <1>1, NextSlot
<1>4. (r.next + 1) % CacheSize \in Slot
  BY <1>1, <1>3, CacheSizeAssumption DEF Slot
<1>5. /\ Put(r, sc).next = (r.next + 1) % CacheSize
      /\ Put(r, sc).pcid = [r.pcid EXCEPT ![r.next] = sc.pcid]
      /\ Put(r, sc).schema = [r.schema EXCEPT ![r.next] = sc]
  BY DEF Put
<1>6. Put(r, sc).pcid \in [Slot -> Pcid \cup {0}] /\ Put(r, sc).schema \in [Slot -> Entries]
  BY <1>1, <1>2, <1>5
<1>7. Put(r, sc) \in Ring
  BY <1>4, <1>5, <1>6 DEF Put, Ring, Entries
<1> QED
  BY <1>1, <1>2, <1>3, <1>4, <1>5, <1>7

(* Two memos with the same entries are equal.                               *)
LEMMA SameQueue ==
  ASSUME NEW a \in Seq(Entries), NEW b \in Seq(Entries), Len(a) = Len(b),
         \A k \in 1 .. Len(a) : a[k] = b[k]
  PROVE  a = b
  BY SeqEqual

(* A load into a ring with unused slots takes the first of them.            *)
LEMMA PutRoom ==
  ASSUME NEW r \in Ring, Ordered(r), NEW sc \in Schema, ~Full(r)
  PROVE  Ordered(Put(r, sc)) /\ Queue(Put(r, sc)) = Pushed(Queue(r), sc)
<1> DEFINE n == r.next
           t == Put(r, sc)
           q == Queue(r)
<1>1. n \in Slot /\ n \in Nat /\ n < CacheSize /\ \A j \in Slot : (r.pcid[j] = 0) <=> (j >= n)
  BY UsedIs, CacheSizeAssumption DEF Ring, Slot
<1>2. t \in Ring /\ t.next \in Slot /\ t.next = IF n + 1 = CacheSize THEN 0 ELSE n + 1
  BY PutIs
<1>3. \A j \in Slot : (t.pcid[j] = 0) <=> (j >= n + 1)
  BY <1>1, PutIs, CacheSizeAssumption DEF Slot
<1> HIDE DEF t
<1>4. Ordered(t)
  BY <1>1, <1>2, <1>3, CacheSizeAssumption DEF Ordered, Slot
<1>5. Used(r) = n /\ n # CacheSize
  BY <1>1 DEF Used
<1>6. Full(t) <=> n + 1 = CacheSize
  <2>1. CASE n + 1 = CacheSize
    BY <1>1, <1>3, <2>1, CacheSizeAssumption DEF Full, Slot
  <2>2. CASE n + 1 # CacheSize
    <3>1. n + 1 \in Slot
      BY <1>1, <2>2, CacheSizeAssumption DEF Slot
    <3>2. t.pcid[n + 1] = 0
      BY <1>1, <1>3, <3>1
    <3> QED
      BY <2>2, <3>1, <3>2 DEF Full
  <2> QED
    BY <2>1, <2>2
<1>7. Used(t) = n + 1
  BY <1>1, <1>2, <1>6, CacheSizeAssumption DEF Used
<1>8. \A k \in 1 .. n + 1 : Oldest(t, k) = k - 1
  <2> TAKE k \in 1 .. n + 1
  <2>1. CASE ~Full(t)
    BY <2>1 DEF Oldest
  <2>2. CASE Full(t)
    BY <1>1, <1>2, <1>6, <2>2, OldestIs, CacheSizeAssumption DEF Wrapped
  <2> QED
    BY <2>1, <2>2
<1>9. \A k \in 1 .. n : Oldest(r, k) = k - 1
  BY DEF Oldest
<1>10. /\ q \in Seq(Entries) /\ Len(q) = n
       /\ \A k \in 1 .. n : q[k] = r.schema[k - 1]
  BY <1>5, <1>9, QueueIs
<1>11. /\ Queue(t) \in Seq(Entries) /\ Len(Queue(t)) = n + 1
       /\ \A k \in 1 .. n + 1 : Queue(t)[k] = t.schema[k - 1]
  BY <1>2, <1>4, <1>7, <1>8, QueueIs
<1>12. \A k \in 1 .. n + 1 : t.schema[k - 1] = IF k - 1 = n THEN sc ELSE r.schema[k - 1]
  <2>1. \A k \in 1 .. n + 1 : k - 1 \in Slot
    BY <1>1, CacheSizeAssumption DEF Slot
  <2> QED
    BY <2>1, PutIs DEF t
<1> HIDE DEF q
<1>13. sc \in Entries
  BY DEF Entries
<1>14. /\ Append(q, sc) \in Seq(Entries) /\ Len(Append(q, sc)) = n + 1
       /\ \A k \in 1 .. n : Append(q, sc)[k] = q[k]
       /\ Append(q, sc)[n + 1] = sc
  BY <1>1, <1>10, <1>13, AppendProperties
<1>15. \A k \in 1 .. n + 1 : Queue(t)[k] = Append(q, sc)[k]
  <2> TAKE k \in 1 .. n + 1
  <2>1. CASE k = n + 1
    BY <1>1, <1>11, <1>12, <1>14, <2>1
  <2>2. CASE k # n + 1
    <3>1. k \in 1 .. n /\ k - 1 # n
      BY <1>1, <2>2
    <3> QED
      BY <1>10, <1>11, <1>12, <1>14, <3>1
  <2> QED
    BY <2>1, <2>2
<1>16. Queue(t) = Append(q, sc)
  BY <1>1, <1>11, <1>14, <1>15, SameQueue
<1> QED
  BY <1>4, <1>5, <1>10, <1>16 DEF Pushed, t, q

(* A load into a full ring takes the slot of the oldest entry.              *)
LEMMA PutFull ==
  ASSUME NEW r \in Ring, Ordered(r), NEW sc \in Schema, Full(r)
  PROVE  Ordered(Put(r, sc)) /\ Queue(Put(r, sc)) = Pushed(Queue(r), sc)
<1> DEFINE n == r.next
           t == Put(r, sc)
           q == Queue(r)
<1>1. n \in Slot /\ n \in Nat /\ n < CacheSize /\ CacheSize \in Nat \ {0}
  BY CacheSizeAssumption DEF Ring, Slot
<1>2. t \in Ring /\ t.next \in Slot /\ t.next = IF n + 1 = CacheSize THEN 0 ELSE n + 1
  BY PutIs
<1>3. \A j \in Slot : t.pcid[j] # 0
  BY PutIs DEF Full
<1>4. \A j \in Slot : t.schema[j] = IF j = n THEN sc ELSE r.schema[j]
  BY PutIs
<1> HIDE DEF t
<1>5. Full(t) /\ Ordered(t) /\ Used(t) = CacheSize /\ Used(r) = CacheSize
  BY <1>3 DEF Full, Ordered, Used
<1>6. /\ q \in Seq(Entries) /\ Len(q) = CacheSize
      /\ \A k \in 1 .. CacheSize : q[k] = r.schema[Wrapped(n, k)]
  BY <1>5, QueueIs, OldestIs
<1>7. /\ Queue(t) \in Seq(Entries) /\ Len(Queue(t)) = CacheSize
      /\ \A k \in 1 .. CacheSize : Queue(t)[k] = t.schema[Wrapped(t.next, k)]
  BY <1>2, <1>5, QueueIs, OldestIs
<1>8. \A k \in 1 .. CacheSize - 1 :
         /\ k \in 1 .. CacheSize /\ k + 1 \in 1 .. CacheSize
         /\ Wrapped(n, k + 1) \in Slot /\ Wrapped(n, k + 1) # n
         /\ Wrapped(t.next, k) = Wrapped(n, k + 1)
  BY <1>1, <1>2 DEF Wrapped, Slot
<1>9. Wrapped(t.next, CacheSize) = n /\ CacheSize \in 1 .. CacheSize
  BY <1>1, <1>2 DEF Wrapped
<1> HIDE DEF q
<1>10. sc \in Entries /\ q # << >>
  BY <1>1, <1>6 DEF Entries
<1>11. /\ Tail(q) \in Seq(Entries) /\ Len(Tail(q)) = CacheSize - 1
       /\ \A k \in 1 .. CacheSize - 1 : Tail(q)[k] = q[k + 1]
  BY <1>1, <1>6, <1>10, HeadTailProperties
<1> DEFINE w == Append(Tail(q), sc)
<1>12. /\ w \in Seq(Entries) /\ Len(w) = CacheSize
       /\ \A k \in 1 .. CacheSize - 1 : w[k] = Tail(q)[k]
       /\ w[CacheSize] = sc
  BY <1>1, <1>10, <1>11, AppendProperties
<1> HIDE DEF w
<1>13. \A k \in 1 .. CacheSize : Queue(t)[k] = w[k]
  <2> TAKE k \in 1 .. CacheSize
  <2>1. CASE k = CacheSize
    BY <1>1, <1>4, <1>7, <1>9, <1>12, <2>1
  <2>2. CASE k # CacheSize
    <3>1. k \in 1 .. CacheSize - 1
      BY <1>1, <2>2
    <3>2. Queue(t)[k] = r.schema[Wrapped(n, k + 1)]
      BY <1>4, <1>7, <1>8, <3>1
    <3>3. w[k] = r.schema[Wrapped(n, k + 1)]
      BY <1>6, <1>8, <1>11, <1>12, <3>1
    <3> QED
      BY <3>2, <3>3
  <2> QED
    BY <2>1, <2>2
<1>14. Queue(t) = w
  BY <1>7, <1>12, <1>13, SameQueue
<1> QED
  BY <1>5, <1>6, <1>14 DEF Pushed, t, q, w

-----------------------------------------------------------------------------
(* What the invariant says of one ring.                                     *)
LEMMA RingsOrdered ==
  ASSUME Inv, NEW s \in Site
  PROVE  ring[s] \in Ring /\ Ordered(ring[s])
  BY DEF Inv, TypeOK, FilledInOrder, Ordered

(* The entries of the memo are the schemas of the used slots, each with the *)
(* pcid of its slot.                                                        *)
LEMMA MemoHolds ==
  ASSUME Inv, NEW s \in Site, NEW e \in Memo!ToSet(Queue(ring[s]))
  PROVE  e \in Schema /\ Holds(s, e.pcid) /\ e.pcid # 0
<1>1. ring[s] \in Ring /\ Ordered(ring[s])
  BY RingsOrdered
<1>2. PICK k \in 1 .. Used(ring[s]) : e = Queue(ring[s])[k]
  BY DEF Memo!ToSet, Queue
<1>3. /\ Oldest(ring[s], k) \in Slot /\ ring[s].pcid[Oldest(ring[s], k)] # 0
      /\ e = ring[s].schema[Oldest(ring[s], k)]
  BY <1>1, <1>2, QueueIs
<1> QED
  BY <1>3 DEF Inv, ServesWitnessed, Holds

LEMMA SlotInMemo ==
  ASSUME Inv, NEW s \in Site, NEW i \in Slot, ring[s].pcid[i] # 0
  PROVE  ring[s].schema[i] \in Memo!ToSet(Queue(ring[s]))
<1>1. ring[s] \in Ring /\ Ordered(ring[s])
  BY RingsOrdered
<1>2. PICK k \in 1 .. Used(ring[s]) : Oldest(ring[s], k) = i
  BY <1>1, SlotIsQueued
<1> QED
  BY <1>2 DEF Memo!ToSet, Queue

(* The scan of the ring finds a pcid exactly when the memo knows it.        *)
LEMMA KnownIsHeld ==
  ASSUME Inv, NEW s \in Site, NEW p, p # 0
  PROVE  Memo!Known(s, p) <=> Holds(s, p)
<1>1. ASSUME Holds(s, p) PROVE Memo!Known(s, p)
  <2>1. PICK i \in Slot : ring[s].pcid[i] = p
    BY <1>1 DEF Holds
  <2>2. ring[s].schema[i].pcid = p
    BY <2>1 DEF Inv, ServesWitnessed
  <2>3. ring[s].schema[i] \in Memo!ToSet(Queue(ring[s]))
    BY <2>1, SlotInMemo
  <2> QED
    BY <2>2, <2>3 DEF Memo!Known
<1>2. ASSUME Memo!Known(s, p) PROVE Holds(s, p)
  <2>1. PICK e \in Memo!ToSet(Queue(ring[s])) : e.pcid = p
    BY <1>2 DEF Memo!Known
  <2> QED
    BY <2>1, MemoHolds
<1> QED
  BY <1>1, <1>2

Remembered == [s \in Site |-> Queue(ring[s])]

(* The first lookup of a call site: an empty memo.                          *)
LEMMA MemoInit == Init => Memo!Init
<1> SUFFICES ASSUME Init PROVE Memo!Init
  OBVIOUS
<1>1. \A s \in Site : Queue(ring[s]) = << >>
  BY FreshQueue DEF Init
<1>2. Remembered = [s \in Site |-> << >>]
  BY <1>1 DEF Remembered
<1> QED
  BY <1>2 DEF Init, Memo!Init, Memo!Idle, Idle, Nobody, Remembered

LEMMA OpenIsOpen ==
  ASSUME Inv, NEW s \in Site, Open(s)
  PROVE  Memo!Open(s)
<1>1. \A t \in Site : Queue(ring'[t]) = IF t = s THEN << >> ELSE Queue(ring[t])
  BY FreshQueue DEF Open, Inv, TypeOK
<1>2. Remembered' = [Remembered EXCEPT ![s] = << >>]
  BY <1>1 DEF Remembered
<1> QED
  BY <1>2 DEF Open, Memo!Open, Remembered

LEMMA CloseIsClose ==
  ASSUME Inv, NEW s \in Site, Close(s)
  PROVE  Memo!Close(s)
<1>1. \A t \in Site : Queue(ring'[t]) = IF t = s THEN << >> ELSE Queue(ring[t])
  BY FreshQueue DEF Close, Inv, TypeOK
<1>2. Remembered' = [Remembered EXCEPT ![s] = << >>]
  BY <1>1 DEF Remembered
<1> QED
  BY <1>2 DEF Close, Memo!Close, Remembered, Memo!Idle, Idle, Nobody

(* A hit is answered from the memo: the slot the scan stops at is used.     *)
LEMMA HitIsRecall ==
  ASSUME Inv, NEW s \in Site, NEW p \in Asked, 0 \notin Asked, LookupHit(s, p)
  PROVE  Memo!Recall(s)
<1> DEFINE i == FirstSlot(s, p)
           e == ring[s].schema[i]
<1>1. i \in Slot /\ ring[s].pcid[i] = p /\ p # 0
  BY FirstSlotHolds DEF LookupHit
<1>2. e \in Memo!ToSet(Queue(ring[s])) /\ e.pcid = p
  BY <1>1, SlotInMemo DEF Inv, ServesWitnessed
<1>3. /\ live[s] /\ loading[s] = Idle
      /\ reply' = [reply EXCEPT ![s] = [state |-> "served", pcid |-> p, schema |-> e]]
      /\ UNCHANGED <<formats, live, ring, loading>>
  BY DEF LookupHit, Ready
<1> HIDE DEF e, i
<1>4. Memo!Serve(s, e)
  BY <1>2, <1>3 DEF Memo!Serve
<1>5. \E x \in Memo!ToSet(Remembered[s]) : Memo!Serve(s, x)
  BY <1>2, <1>4 DEF Remembered
<1>6. UNCHANGED Remembered
  BY <1>3 DEF Remembered
<1> QED
  BY <1>3, <1>5, <1>6 DEF Memo!Recall, Memo!Idle, Idle, Remembered

LEMMA MissIsRead ==
  ASSUME Inv, NEW s \in Site, NEW p \in Asked, 0 \notin Asked, LookupMiss(s, p)
  PROVE  Memo!Read(s, p)
<1>1. ~Memo!Known(s, p)
  BY KnownIsHeld DEF LookupMiss
<1>2. UNCHANGED Remembered
  BY DEF LookupMiss, Remembered
<1> QED
  BY <1>1, <1>2 DEF LookupMiss, Ready, Memo!Read, Memo!Idle, Idle, Remembered

LEMMA FailureIsFail ==
  ASSUME Inv, NEW s \in Site, NEW p \in Asked, 0 \notin Asked, LookupFails(s, p)
  PROVE  Memo!Fail(s, p)
<1>1. ~Memo!Known(s, p)
  BY KnownIsHeld DEF LookupFails
<1>2. UNCHANGED Remembered
  BY DEF LookupFails, Remembered
<1> QED
  BY <1>1, <1>2 DEF LookupFails, Ready, Memo!Fail, Memo!Idle, Idle, Failed, Remembered

(* Storing the schema in the next slot appends it to the memo, and drops    *)
(* the oldest entry when the ring is full.                                  *)
LEMMA InstallIsRemember ==
  ASSUME Inv, NEW s \in Site, Install(s)
  PROVE  Memo!Remember(s)
<1> DEFINE p  == loading[s].pcid
           sc == Load(p, loading[s].doc)
<1>1. sc \in Schema /\ sc.pcid = p
  BY DEF Inv, TypeOK, Loading, Install, Load, Schema
<1>2. ring[s] \in Ring /\ Ordered(ring[s]) /\ ring \in [Site -> Ring]
  BY RingsOrdered DEF Inv, TypeOK
<1>3. /\ live[s] /\ loading[s] # Idle
      /\ ring' = [ring EXCEPT ![s] = Put(ring[s], sc)]
      /\ reply' = [reply EXCEPT ![s] = [state |-> "served", pcid |-> p, schema |-> sc]]
      /\ loading' = [loading EXCEPT ![s] = Idle]
      /\ UNCHANGED <<formats, live>>
  BY DEF Install
<1>4. sc = Memo!Entry(p, loading[s].doc)
  BY DEF Load, Memo!Entry
<1> HIDE DEF sc
<1>5. Queue(Put(ring[s], sc)) = Pushed(Queue(ring[s]), sc)
  BY <1>1, <1>2, PutRoom, PutFull
<1>6. \A t \in Site : Queue(ring'[t]) = IF t = s THEN Pushed(Queue(ring[s]), sc) ELSE Queue(ring[t])
  BY <1>2, <1>3, <1>5
<1>7. Remembered' = [Remembered EXCEPT ![s] = Pushed(Remembered[s], sc)]
  BY <1>6 DEF Remembered
<1>8. Memo!Serve(s, sc)
  BY <1>1, <1>3 DEF Memo!Serve
<1> QED
  BY <1>3, <1>4, <1>7, <1>8 DEF Memo!Remember, Memo!Idle, Idle, Pushed, Remembered

(* The caller's copy is not the memo's entry.                               *)
LEMMA OverrideIsAlter ==
  ASSUME Inv, NEW s \in Site, Override(s)
  PROVE  Memo!Alter(s)
<1>1. UNCHANGED Remembered
  BY DEF Override, Remembered
<1> QED
  BY <1>1 DEF Override, Ready, Memo!Alter, Memo!Idle, Idle, Remembered

LEMMA EditIsEdit ==
  ASSUME Inv, NEW p \in Pcid, NEW row \in Doc \cup {NoRow, NullRow}, Edit(p, row)
  PROVE  Memo!Edit(p, row)
<1>1. UNCHANGED Remembered
  BY DEF Edit, Remembered
<1> QED
  BY <1>1 DEF Edit, Memo!Edit, Remembered

(* Every step of the cache is a step of the memo.                           *)
LEMMA MemoStep ==
  ASSUME 0 \notin Asked, Inv, [Next]_vars
  PROVE  [Memo!Next]_(Memo!vars)
<1>1. ASSUME NEW s \in Site, Open(s) \/ Close(s) \/ Install(s) \/ Override(s)
      PROVE  Memo!Next
  BY <1>1, OpenIsOpen, CloseIsClose, InstallIsRemember, OverrideIsAlter DEF Memo!Next
<1>2. ASSUME NEW s \in Site, NEW p \in Asked,
             LookupHit(s, p) \/ LookupMiss(s, p) \/ LookupFails(s, p)
      PROVE  Memo!Next
  BY <1>2, HitIsRecall, MissIsRead, FailureIsFail DEF Memo!Next
<1>3. ASSUME NEW p \in Pcid, NEW row \in Doc \cup {NoRow, NullRow}, Edit(p, row)
      PROVE  Memo!Next
  BY <1>3, EditIsEdit DEF Memo!Next
<1>4. CASE UNCHANGED vars
  BY <1>4 DEF vars, Memo!vars
<1> QED
  BY <1>1, <1>2, <1>3, <1>4 DEF Next

(* Whatever a statement looks up and the sessions edit, what a call site    *)
(* answers is what a memo of the last CacheSize loaded pcids would answer:  *)
(* the ring's scan, its next_slot and its overwriting are not observable.   *)
(* pcid 0 is left out: it is the pcid of the slots never used.              *)
THEOREM CacheIsMemo ==
  ASSUME 0 \notin Asked
  PROVE  Spec => ImplementsMemo
<1>1. Inv /\ [Next]_vars => [Memo!Next]_(Memo!vars)
  BY MemoStep
<1> QED
  BY <1>1, MemoInit, InvHolds, PTL DEF Spec, ImplementsMemo, Memo!Spec
=============================================================================
