----------------------------- MODULE SchemaDoc -----------------------------
(***************************************************************************)
(* lib/pc_schema.c: a PCSCHEMA is read from a document dimension by        *)
(* dimension, in the order of the document, each stored at the position it *)
(* states; then its layout and its coordinates are worked out, its         *)
(* metadata read, and the result kept only if it is valid.  PC_Compress    *)
(* clones it, changes the clone and frees it.                              *)
(*                                                                         *)
(* mem is the sequence of PCDIMENSIONs allocated so far, and an index into *)
(* it is a pointer.  The XML parser is external: a document is a number of *)
(* dimension elements, then entries of metadata.                           *)
(***************************************************************************)
EXTENDS Hashtable

CONSTANTS
  Axis,       \* Axis[name]: the coordinate a name stands for, or "none"
  Bytes,      \* Bytes[interpretation]: size of a value
  MaxDims,    \* bound on the number of dimensions of a document
  Word        \* 2^32: positions and offsets are uint32_t

Coordinate == {"x", "y", "z", "m"}
Compression == {"none", "dimensional", "laz"}
Interpretation == DOMAIN Bytes
Unknown == "unknown"

ASSUME SchemaDocAssumption ==
  /\ NULL \notin Nat /\ NULL \notin Key
  /\ Axis \in [Key -> Coordinate \cup {"none"}]
  /\ Bytes \in [Interpretation -> Nat \ {0}]
  /\ MaxDims \in Nat
  /\ Word \in Nat /\ MaxDims + 1 < Word
  /\ Unknown \in Interpretation => Bytes[Unknown] = Word - 1
  /\ \E widest \in 1 .. Word : /\ \A i \in Interpretation \ {Unknown} : Bytes[i] <= widest
                              /\ MaxDims * widest < Word

VARIABLES
  mem,     \* the dimensions allocated
  s,       \* the schema read, or NULL
  copy,    \* a clone of it, or NULL
  phase    \* how far pc_schema_from_xml is

vars == <<mem, s, copy, phase>>

SchemaNew(n) ==
  [ndims |-> n, dims |-> [p \in 0 .. n - 1 |-> NULL], namehash |-> CreateHashtable,
   size |-> 0, at |-> [c \in Coordinate |-> NULL], compression |-> "none"]

-----------------------------------------------------------------------------
Filled(sch) == {p \in DOMAIN sch.dims : sch.dims[p] # NULL}

SizeAt(m, sch, p) == IF p \in Filled(sch) THEN Bytes[m[sch.dims[p]].interpretation] ELSE 0

(* Slip: the offset advances before it is stored.                           *)
BeforeInclusive(m, sch, p) ==
  LET upto[q \in 0 .. sch.ndims] == SizeAt(m, sch, q) + (IF q = 0 THEN 0 ELSE upto[q - 1])
  IN upto[p]

(* The bytes of the dimensions stored before position p.                    *)
Before(m, sch, p) ==
  LET upto[q \in 0 .. sch.ndims] == IF q = 0 THEN 0 ELSE upto[q - 1] + SizeAt(m, sch, q - 1)
  IN upto[p]

(* Slip: an offset is as wide as the size.                                  *)
WithOffsetsWide(m, sch) ==
  [d \in DOMAIN m |->
     IF \E p \in Filled(sch) : sch.dims[p] = d
     THEN [m[d] EXCEPT !.byteoffset = Before(m, sch, m[d].position)]
     ELSE m[d]]

(* pc_schema_calculate_byteoffsets, in the dimensions and in the schema; an *)
(* offset is a uint32_t, the size of a point a size_t.                      *)
WithOffsets(m, sch) ==
  [d \in DOMAIN m |->
     IF \E p \in Filled(sch) : sch.dims[p] = d
     THEN [m[d] EXCEPT !.byteoffset = Before(m, sch, m[d].position) % Word]
     ELSE m[d]]

WithSize(m, sch) == [sch EXCEPT !.size = Before(m, sch, sch.ndims)]

(* pc_schema_set_dimension: dimension d of m at the position it states; one *)
(* without a name is not in the table.                                      *)
Stored(m, sch, d) ==
  [sch EXCEPT !.dims[m[d].position] = d,
              !.namehash = IF m[d].name = NULL THEN @ ELSE Insert(@, m[d].name, d)]

SetDimension(m, sch, d) ==
  LET stored == Stored(m, sch, d)
  IN [mem |-> WithOffsets(m, stored), sch |-> WithSize(m, stored)]

(* pc_schema_check_xyzm: every dimension is looked at, the last that bears  *)
(* a name of the coordinate is taken.                                       *)
CheckXyzm(m, sch) ==
  LET Bearing(c) == {p \in DOMAIN sch.dims : /\ m[sch.dims[p]].name # NULL
                                             /\ Axis[m[sch.dims[p]].name] = c}
  IN [sch EXCEPT !.at = [c \in Coordinate |->
        IF Bearing(c) = {} THEN @[c] ELSE sch.dims[Max(Bearing(c))]]]

SchemaIsValid(sch) ==
  /\ sch.at["x"] # NULL /\ sch.at["y"] # NULL
  /\ sch.ndims > 0
  /\ Filled(sch) = DOMAIN sch.dims

-----------------------------------------------------------------------------
Init ==
  /\ mem = <<>> /\ copy = NULL /\ phase = "dimensions"
  /\ \E n \in 0 .. MaxDims : s = SchemaNew(n)

(* What the children of an element say; an element without text says        *)
(* nothing.  A position that is not stated stays 0, like a stated 1.        *)
Element ==
  [name : Key \cup {NULL}, position : {(stated - 1) % Word : stated \in 0 .. MaxDims + 1},
   interpretation : Interpretation, byteoffset : {0}]

Reading == phase = "dimensions" /\ Len(mem) < s.ndims

(* Slip: a dimension may replace one stored before it.                      *)
StoreDimensionOver(d) ==
  /\ Reading
  /\ d.position < s.ndims
  /\ LET set == SetDimension(Append(mem, d), s, Len(mem) + 1)
     IN mem' = set.mem /\ s' = set.sch
  /\ UNCHANGED <<copy, phase>>

StoreDimension(d) ==
  /\ Reading
  /\ d.position < s.ndims /\ s.dims[d.position] = NULL
  /\ LET set == SetDimension(Append(mem, d), s, Len(mem) + 1)
     IN mem' = set.mem /\ s' = set.sch
  /\ UNCHANGED <<copy, phase>>

(* The position lies outside, or is declared twice: the dimension is freed, *)
(* and the rest of the document is not read.                                *)
RejectDimension(d) ==
  /\ Reading
  /\ d.position < s.ndims => s.dims[d.position] # NULL
  /\ phase' = "cleanup"
  /\ UNCHANGED <<mem, s, copy>>

CompleteDimensions ==
  /\ phase = "dimensions" /\ Len(mem) = s.ndims
  /\ mem' = WithOffsets(mem, s)
  /\ s' = CheckXyzm(mem, WithSize(mem, s))
  /\ phase' = "metadata"
  /\ UNCHANGED copy

(* An entry "compression"; a value that is not known means none.            *)
ReadMetadata(value) ==
  /\ phase = "metadata"
  /\ s' = [s EXCEPT !.compression = IF value \in Compression THEN value ELSE "none"]
  /\ UNCHANGED <<mem, copy, phase>>

EndOfDocument ==
  /\ phase = "metadata"
  /\ phase' = "cleanup"
  /\ UNCHANGED <<mem, s, copy>>

(* Slip: what has been read is returned.                                    *)
CleanUpNothing ==
  /\ phase = "cleanup"
  /\ phase' = "read"
  /\ UNCHANGED <<mem, s, copy>>

CleanUp ==
  /\ phase = "cleanup"
  /\ phase' = "read"
  /\ IF SchemaIsValid(s) THEN UNCHANGED <<mem, s>> ELSE mem' = <<>> /\ s' = NULL
  /\ UNCHANGED copy

-----------------------------------------------------------------------------
WithCopy(m, sch, done, p) ==
  IF sch.dims[p] = NULL THEN done
  ELSE SetDimension(Append(done.mem, m[sch.dims[p]]), done.sch, Len(done.mem) + 1)

(* The dimensions of a clone, allocated and stored position by position.    *)
Cloned(m, sch) ==
  LET upto[p \in 0 .. sch.ndims] ==
        IF p = 0 THEN [mem |-> m, sch |-> SchemaNew(sch.ndims)]
        ELSE WithCopy(m, sch, upto[p - 1], p - 1)
  IN upto[sch.ndims]

(* Slip: the coordinates of the clone are those of the original.            *)
CoordinatesShared(sch, clone) == [clone EXCEPT !.at = sch.at]

Coordinates(sch, clone) ==
  [clone EXCEPT !.at = [c \in Coordinate |->
     IF sch.at[c] = NULL THEN NULL ELSE clone.dims[mem[sch.at[c]].position]]]

(* pc_schema_clone.                                                         *)
SchemaClone ==
  /\ phase = "read" /\ s # NULL /\ copy = NULL
  /\ LET made == Cloned(mem, s)
     IN /\ mem' = WithOffsets(made.mem, made.sch)
        /\ copy' = [Coordinates(s, made.sch) EXCEPT !.compression = s.compression]
  /\ UNCHANGED <<s, phase>>

(* PC_Compress installs the scheme its caller names in the clone.           *)
Override(compression) ==
  /\ copy # NULL
  /\ copy' = [copy EXCEPT !.compression = compression]
  /\ UNCHANGED <<mem, s, phase>>

(* pc_schema_free of the clone: its dimensions were allocated last.         *)
SchemaFree ==
  /\ copy # NULL
  /\ mem' = SubSeq(mem, 1, Len(mem) - Cardinality(Filled(copy)))
  /\ copy' = NULL
  /\ UNCHANGED <<s, phase>>

Next ==
  \/ \E d \in Element : StoreDimension(d) \/ RejectDimension(d)
  \/ CompleteDimensions
  \/ \E value \in Compression \cup {"other"} : ReadMetadata(value)
  \/ EndOfDocument
  \/ CleanUp
  \/ SchemaClone
  \/ \E compression \in {"dimensional", "laz"} : Override(compression)
  \/ SchemaFree

Spec == Init /\ [][Next]_vars

-----------------------------------------------------------------------------
Schemas == {s, copy} \ {NULL}

Pointer == 1 .. Len(mem)

TypeOK ==
  /\ phase \in {"dimensions", "metadata", "cleanup", "read"}
  /\ \A sch \in Schemas :
       /\ sch.ndims \in 0 .. MaxDims
       /\ sch.dims \in [0 .. sch.ndims - 1 -> Pointer \cup {NULL}]
       /\ sch.at \in [Coordinate -> Pointer \cup {NULL}]
       /\ sch.compression \in Compression
  /\ \A d \in Pointer : mem[d] \in [name : Key \cup {NULL}, position : 0 .. MaxDims - 1,
                                    interpretation : Interpretation, byteoffset : 0 .. Word - 1]

(* pc_schema_check_xyzm follows the pointer at every position without a     *)
(* test: when all the elements of a document have been stored, none of the  *)
(* positions may be empty.                                                  *)
NoHole ==
  phase = "dimensions" /\ Len(mem) = s.ndims => Filled(s) = DOMAIN s.dims

(* pc_schema_from_xml returns NULL or a schema every function may use: each *)
(* position holds the dimension that states it, and the coordinates x and y *)
(* point at dimensions with a name of theirs.                               *)
ReturnedUsable ==
  phase = "read" /\ s # NULL =>
    /\ \A p \in DOMAIN s.dims : s.dims[p] # NULL /\ mem[s.dims[p]].position = p
    /\ \A c \in {"x", "y"} : s.at[c] # NULL /\ Axis[mem[s.at[c]].name] = c

(* Whatever the order of the elements and the positions they state, the     *)
(* values of a point lie side by side in order of position: each of its     *)
(* bytes belongs to one dimension.  (Not when an interpretation is unknown, *)
(* see the README.)                                                         *)
LayoutTiles ==
  \A sch \in Schemas :
    LET At(p) == mem[sch.dims[p]]
    IN (\A p \in Filled(sch) : At(p).interpretation # Unknown) =>
         /\ \A p, q \in Filled(sch) : p < q => At(p).byteoffset < At(q).byteoffset
         /\ \A b \in 0 .. sch.size - 1 :
              Cardinality({p \in Filled(sch) :
                b - At(p).byteoffset \in 0 .. Bytes[At(p).interpretation] - 1}) = 1

(* A look-up by name finds a dimension that has the name and is at its      *)
(* position of this very schema, if and only if there is one: also after    *)
(* collisions, duplicate names and growth of the table.                     *)
LookupFinds ==
  \A sch \in Schemas, k \in Key :
    LET d == Search(sch.namehash, k)
    IN IF d = NULL THEN \A p \in Filled(sch) : mem[sch.dims[p]].name # k
       ELSE /\ d \in Pointer
            /\ mem[d].name = k
            /\ sch.dims[mem[d].position] = d

DistinctNames(sch) ==
  \A p, q \in Filled(sch) :
    p # q => mem[sch.dims[p]].name = NULL \/ mem[sch.dims[p]].name # mem[sch.dims[q]].name

(* A clone is the schema again, in memory of its own: the same dimensions   *)
(* at the same positions, the same layout and coordinates and, if no name   *)
(* occurs twice, the same dimension for every name; freeing it must leave   *)
(* the schema, which the call site keeps, as it was.                        *)
CloneFaithful ==
  copy # NULL =>
    LET Same(d, e) == mem[d] = mem[e] /\ d # e
    IN /\ copy.ndims = s.ndims /\ copy.size = s.size
       /\ \A p \in DOMAIN s.dims : Same(copy.dims[p], s.dims[p])
       /\ \A c \in Coordinate : IF s.at[c] = NULL THEN copy.at[c] = NULL
                                                  ELSE Same(copy.at[c], s.at[c])
       /\ DistinctNames(s) =>
            \A k \in Key : LET d == Search(s.namehash, k) e == Search(copy.namehash, k)
                           IN IF d = NULL THEN e = NULL ELSE Same(e, d)
=============================================================================
