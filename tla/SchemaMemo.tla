---------------------------- MODULE SchemaMemo -----------------------------
(***************************************************************************)
(* What the schema cache promises, without its ring: each call site        *)
(* remembers the schemas of the last Capacity distinct pcids it had to     *)
(* load, oldest first, answers from them, and reads pointcloud_formats     *)
(* only for a pcid that is not among them.                                 *)
(***************************************************************************)
EXTENDS Naturals, SequencesExt

CONSTANTS Pcid, Asked, Site, Doc, Capacity, NoRow, NullRow

VARIABLES formats, live, memo, loading, reply

vars == <<formats, live, memo, loading, reply>>

Entry(p, d) == [pcid |-> p, doc |-> d, override |-> FALSE]

Idle == [state |-> "idle"]

Known(s, p) == \E e \in ToSet(memo[s]) : e.pcid = p

Serve(s, e) == reply' = [reply EXCEPT ![s] = [state |-> "served", pcid |-> e.pcid, schema |-> e]]

Init ==
  /\ formats \in [Pcid -> Doc \cup {NoRow, NullRow}]
  /\ live    = [s \in Site |-> FALSE]
  /\ memo    = [s \in Site |-> <<>>]
  /\ loading = [s \in Site |-> Idle]
  /\ reply   = [s \in Site |-> [state |-> "none"]]

Open(s) ==
  /\ ~live[s]
  /\ live' = [live EXCEPT ![s] = TRUE]
  /\ memo' = [memo EXCEPT ![s] = <<>>]
  /\ UNCHANGED <<formats, loading, reply>>

Close(s) ==
  /\ live[s]
  /\ live'    = [live EXCEPT ![s] = FALSE]
  /\ memo'    = [memo EXCEPT ![s] = <<>>]
  /\ loading' = [loading EXCEPT ![s] = Idle]
  /\ reply'   = [reply EXCEPT ![s] = [state |-> "none"]]
  /\ UNCHANGED formats

(* A remembered pcid is answered from the memo, whatever the table says now.*)
Recall(s) ==
  /\ live[s] /\ loading[s] = Idle
  /\ \E e \in ToSet(memo[s]) : Serve(s, e)
  /\ UNCHANGED <<formats, live, memo, loading>>

Read(s, p) ==
  /\ live[s] /\ loading[s] = Idle /\ ~Known(s, p)
  /\ p \in Pcid /\ formats[p] \in Doc
  /\ loading' = [loading EXCEPT ![s] = [state |-> "read", pcid |-> p, doc |-> formats[p]]]
  /\ UNCHANGED <<formats, live, memo, reply>>

Fail(s, p) ==
  /\ live[s] /\ loading[s] = Idle /\ ~Known(s, p)
  /\ p \in Pcid => formats[p] \notin Doc
  /\ reply' = [reply EXCEPT ![s] = [state |-> "error"]]
  /\ UNCHANGED <<formats, live, memo, loading>>

(* The new schema joins at the end; beyond Capacity the oldest is dropped.  *)
Remember(s) ==
  /\ live[s] /\ loading[s] # Idle
  /\ LET e == Entry(loading[s].pcid, loading[s].doc)
     IN /\ memo' = [memo EXCEPT ![s] = Append(IF Len(@) = Capacity THEN Tail(@) ELSE @, e)]
        /\ Serve(s, e)
  /\ loading' = [loading EXCEPT ![s] = Idle]
  /\ UNCHANGED <<formats, live>>

(* A caller alters its own copy of the schema it was served.                *)
Alter(s) ==
  /\ live[s] /\ loading[s] = Idle /\ reply[s].state = "served"
  /\ reply' = [reply EXCEPT ![s].schema.override = TRUE]
  /\ UNCHANGED <<formats, live, memo, loading>>

Edit(p, row) ==
  /\ formats' = [formats EXCEPT ![p] = row]
  /\ UNCHANGED <<live, memo, loading, reply>>

Next ==
  \/ \E s \in Site : Open(s) \/ Close(s) \/ Recall(s) \/ Remember(s) \/ Alter(s)
  \/ \E s \in Site, p \in Asked : Read(s, p) \/ Fail(s, p)
  \/ \E p \in Pcid, row \in Doc \cup {NoRow, NullRow} : Edit(p, row)

Spec == Init /\ [][Next]_vars
=============================================================================
