# A TLA+ development of pgPointcloud

pgPointcloud stores LIDAR points in PostgreSQL. This directory holds TLA+
modules that model its core, the TLC configurations that check them on small
instances, and proofs about them for the TLA+ proof system. All paths below are
paths of the repository (`src/...`).

## The system

| component | source | state it keeps | operations |
|---|---|---|---|
| schema cache | `pgsql/pc_pgsql.c` 347-510 | per call site a ring of 16 (pcid, schema) slots in `fn_extra`; the table `pointcloud_formats` | look up a pcid, load a row, overwrite a slot; any session edits the table |
| patches | `lib/pc_patch*.c`, `pgsql/pc_access.c`, `pc_editor.c` | a row's patch: form (uncompressed, dimensional, LAZ), data, npoints, bounds, min/max/avg points | make, read from WKB, union, filter, range, sort, compress, uncompress, change pcid, transform |
| encoded dimensions | `lib/pc_bytes.c` | a column of raw values: plain, run-length, significant-bits or zlib | encode, decode, filter, bitmap, minimum/maximum/sum, random access, byte swap |
| queries | `lib/pc_patch.c`, `pc_sort.c`, `pc_util.c`, `pc_stats.c` | none | PC_PointN, PC_IsSorted, PC_Intersects, statistics |
| schemas and values | `lib/pc_schema.c`, `pc_val.c`, `pc_point.c` | dimensions by position and by name, scale, offset, interpretation | read and write a value, compare schemas, parse XML |
| schema documents | `lib/pc_schema.c`, `lib/hashtable.c` | a schema under construction: dimensions at their positions, a table of names, coordinates | read a document, lay out, find by name, validate, clone, override, free |
| dimension statistics | `lib/pc_dimstats.c` | counters accumulated over patches, a recommended encoding per dimension | sample a patch, recommend, override |
| memory of a call | `pgsql/pc_access.c`, `pc_mem.c`, `pc_patch*.c` | blocks, who owns and who borrows them, in which memory context they die | allocate, lend, hand over, free; raise from anywhere |
| aggregates, PC_Explode | `pgsql/pc_access.c` | state kept between the calls of a statement | transition, final; first call, next row, done |
| WKB input and output | `lib/pc_patch.c`, `pc_point.c`, `pc_util.c`, `pgsql/pc_inout.c` | none | parse and write headers, byte order |
| typmods | `pgsql/pc_inout.c`, `pc_pgsql.c` | the number a column declares | check on input, on assignment |
| LAZ, zlib, sort_r, string buffer | vendored or external | | |

A SQL function reads a serialized value, looks its pcid up in the schema cache,
deserializes the patch (pointers into the stored bytes), calls the library, and
serializes the result, converting it to the form the schema asks for. The
library is sequential; nothing in it blocks, retries or runs in the background.
What is concurrent is the table of formats: other sessions commit edits between
any two lookups of a statement. What makes the rest hard is that the same points
live in several representations, that each function has its own code path per
representation, and that bounds and statistics are computed by one function and
trusted by many later ones.

What makes each component correct:

- *schema cache*: a lookup returns a schema of the pcid asked for, as some
  session committed it, unmodified, the same at every lookup until 16 other
  pcids have been loaded, or raises.
- *patches*: whatever form a patch is stored in and whatever it went through, a
  SQL function does to its points what it would do to a plain sequence of
  points; bounds, minimum and maximum are those of the points.
- *encoded dimensions*: every operation on the encoded bytes answers like the
  operation on the values; no access outside the bytes.
- *queries*: the answer depends on the points, not on the form.
- *schema documents*: what is returned has a dimension at every position, values
  that tile a point, and finds its dimensions by name; a clone is independent.
- *dimension statistics*: a recommended encoding makes the column smaller; the
  sample is bounded; what the user names is what he gets.
- *memory*: nothing is used after it was freed, nothing has two owners, nothing
  stored or cached is freed; every statement ends with its contexts gone.
- *WKB, typmods*: what was written arrives on any machine; a column holds values of
  the pcid it declares, and accepts again what it holds.

## Modules

| module | models |
|---|---|
| `SchemaCache` | `pc_schema_from_pcid`, `pc_schema_from_pcid_uncached`, `GetSchemaCache` against edits of `pointcloud_formats` |
| `SchemaMemo` | abstract: each call site remembers the last *Capacity* distinct pcids it loaded, first in first out |
| `MCSchemaCache` | the refinement mapping, ring to queue |
| `SchemaCacheProofs` | theorems about `SchemaCache` |
| `RunLength` | operators on columns: encode, decode, filter, bitmap, random access, aggregates |
| `RunLengthProofs` | induction over naturals, folds and recursive functions, and what the operators of `RunLength` compute, for every column |
| `RunColumn` | the life of one column: encoded, filtered repeatedly, re-encoded |
| `DimStats`, `MCDimStats` | the statistics that choose a column's encoding, and their users, over `RunColumn` |
| `DimStatsProofs` | theorems about `RunColumn` and `DimStats` |
| `SigBits`, `MCSigBits` | the loops of the significant-bits encoder and decoder, and direct access |
| `SigBitsProofs` | theorems about `SigBits` |
| `PointSchema` | schemas, scaling, clamping, rounding, lexicographic comparison |
| `PatchRow` | a pcpatch of one row under every SQL function that rewrites it |
| `PointRow` | abstract: the same functions on a sequence of points |
| `PatchQuery` | PC_PointN, PC_IsSorted, PC_Intersects on a stored patch |
| `MCPatchRow`, `MCPatchQuery` | schemas, comparisons, the refinement mapping |
| `PatchRowProofs` | theorems about `PatchRow`, `PatchQuery` and the refinement |
| `Wkb`, `MCWkb` | patches and points written as WKB, read on machines of either byte order and kept in columns with typmods |
| `WkbProofs` | theorems about `Wkb` |
| `Hashtable` | the chained hash table of dimension names |
| `SchemaDoc`, `MCSchemaDoc` | a schema read from a document, cloned, overridden, freed |
| `SchemaDocProofs` | theorems about `SchemaDoc` and `Hashtable` |
| `Ownership` | blocks of memory and the instructions functions are made of |
| `PatchCalls`, `SqlCalls` | the library's and the extension's functions as sequences of those instructions |
| `Statement` | a statement that calls one function, once, per row, or as an aggregate |
| `OwnershipProofs` | theorems about `Statement` |

`PatchRow` composes `PointSchema` and `RunLength`, and `PatchQuery` extends it.
`DimStats` extends `RunColumn`, `SchemaDoc` extends `Hashtable`, `Statement`
composes `Ownership`, `PatchCalls` and `SqlCalls`.
A definition whose comment begins with "Slip:" is a variant of the definition
that follows, with a plausible mistake in it. No specification
uses them: substituted for the definition, each makes TLC find the property
violated that guards against it (`mutants` in `PROJECT.json`).

### SchemaCache

`ring[s]` is the `SchemaCache` struct in the `fn_extra` of call site *s*, zeroed
by `Open` (the first lookup); `Close` is the reset of its memory context. A
lookup is split where the database comes in: `LookupHit` is the scan that finds
a slot; `LookupMiss` reads the row that is committed at this moment, and
`Install` parses it and stores it, so that an edit can fall between the two;
`LookupFails` is every error exit, all of which leave the ring alone. `Edit` is
a committed INSERT, UPDATE or DELETE. `Override` is PC_Compress, which changes
the compression of a clone. `witnessed` is a history variable: the documents each
pcid has had since the call site came to life. The XML of a row is a model value,
and a document that does not parse behaves as `NullRow`: both raise before the
ring is touched.

### RunLength, RunColumn, SigBits

A run-length column is a sequence of runs (count, value). Sigbits and zlib
columns show as their values in `RunLength`, since every operation decodes them
first; how sigbits packs them is `SigBits`, one action per value, with the two
cursors of the C loops (`ptr`, `bit`). A word is the set of its one-bits, so that and, or
and the shifts of the code are intersection, union and translation within the width.
The code has a copy for each of 1, 2, 4 and 8 byte words; the model has one with
the differences as conditions on `size`: the rounding of the buffer, the copy
for bytes that leaves its read head on a used-up word, and shifts by the whole
width, which are defined for words narrower than an int (they are promoted) and
undefined for the others: there the result is 0 or the unshifted word, chosen
nondeterministically.

### DimStats

`pds` is one dimension's `PCDIMSTAT` with the two totals of its `PCDIMSTATS`, as
they stand between calls; `Sampled` is `pc_dimstats_update` behind the test of
`PCDIMSTATS_MIN_SAMPLE`, and `Recommended` the comparison of estimated sizes, with
the ratios 1.6 and 4.0 multiplied out. Three callers use it: a patch compressed on
its own (`CompressAlone`), a caller that passes the same statistics again and again
(`CompressShared`), and PC_Compress (`PcCompress`), which pretends that the sample is
complete so that the encodings the user named stay. The configuration string of
PC_Compress is abstracted to the entry for the one dimension that is followed.
`RecommendationShrinks` compares the recommendation with the size the encoder really
gives the column (`EncodedSize`), for words of 1, 2, 4 and 8 bytes.

### SchemaDoc, Hashtable

`mem` holds the `PCDIMENSION`s in the order they were allocated and an index into it
is a pointer. The XML parser is external: a document is a number of elements
(`Init`) and what each says (`Element`): a name or none, a position, an
interpretation. A position that is not stated stays 0 like a stated 1, and a stated
0 wraps to the greatest word. `StoreDimension` is `pc_schema_set_dimension` with the layout it
works out again each time; `RejectDimension` is a position declared twice or
outside. `CompleteDimensions` is the second layout and `pc_schema_check_xyzm`, which
follows a pointer at every position: `NoHole` is what it relies on. Then come
metadata, `CleanUp` with `pc_schema_is_valid`, and the use PC_Compress makes of the
schema: a clone that is changed and freed. `Hashtable` has the chains, the
insertion at the head, and the growth at 65 hundredths of the length, which empties the chains in
order and so reverses them; keys stand for all their spellings, since they are
hashed and compared without case. Memory is assumed to suffice. The loop over the
dimensions that works out offsets (`Before`) and the one that copies them into a clone
(`Cloned`) are recursive functions of the position. `SchemaDocAssumption` says that
the values of a point fit a word: `MaxDims` dimensions of the widest known interpretation
(8 bytes in the code) are less than 2^32 bytes, so only an unknown one can wrap an offset.

### PatchRow, PointRow, PatchQuery

A row is NULL or a patch record: pcid, form, data, npoints, bounds, stats. Each
action is one SQL function with everything it does, the conversion at
serialization included (`Store`). Where dimension statistics choose the
encoding of a column, the choice is nondeterministic among `Encodings`.
Statistics are points of the schema, so they are clamped and rounded as
`pc_double_to_ptr` does. A filter that keeps nothing returns an empty patch in the
code, of which every other function returns NULL or an empty patch; here it is
NULL. Sorting is any permutation in order, as sort_r is not stable.

`PointRow` has only a pcid and a sequence of points. `Seen` in `MCPatchRow` maps
a row to its decoded points, and `ImplementsPoints` says that every step of
`PatchRow` is a step of `PointRow` or a stutter (compressing, uncompressing). It
does not say which step: a filter that lost its last point would pass for a
range. `AnswersExact` says that for the functions that answer from
statistics, bounds, bitmaps and positions: `Filtered` and `Ranged` return exactly the
points that `PointRow` selects, PC_PointN the point, and PC_Intersects never denies a shared
one, for every row and every argument.

What is abstracted: values are integers, signed or unsigned: `interp[d]` is the
least and the greatest one, where the code clamps; scales and offsets are integers in units of the
smallest scale; `Planar` holds one dimension, *x*, since the code treats *x* and
*y* alike; LAZ is lossless; patches without points are left out.

### Wkb

`Wkb` works on bytes: a value in memory is its `Image` in the byte order of the
machine, a patch or a single point is the bytes of its points or of its columns, and a WKB is the
flat sequence `ToWkb` (`pc_patch_*_to_wkb`, `pc_point_to_wkb`) with the order of the writer as its
first byte. Where a part begins is the sum of the sizes before it (`Past`, `Rest`), a recursive
function of the position; `Fits` and `ReadColumn` are one column's length check and its
reading. `LayoutAssumption` says what the layout relies on: every schema has dimensions, a value
fits its bytes, and a header integer holds pcids, form numbers, and column sizes up to
`MaxPoints` points. `ReadPatch` is `pcpatch_in`: the header fields through `GetInt`, the length
check and `FlipPoints` for uncompressed points, the walk `Columns` for columns, the
size that precedes the buffer of LAZ, and at last the typmod and the conversion to the form that the
reading database asks for. `ReadPoint` is `pcpoint_in`. What zlib or lazperf makes
of bytes is one opaque element of the sequence. `sent` is
what the last writer meant. A read ends with a value, an error ("refused"), an error
because the column is of another pcid ("inconsistent") or a
failed assertion ("died"); `FlipAsserts` is the assertion on npoints that
`pc_bytes_deserialize` runs into because it flips before npoints is set.

`typmod` is the number declared by the column that the value lies in, -1 for none or
for an expression. Three checks decide what gets there, and they differ:
`Consistent` (`pcid_consistent`, on input) lets 0 take every pcid, `Enforced` (the
casts, on assignment) lets it take none, and PostgreSQL skips the cast between
columns of one typmod. `PcidFromTypmod` masks the low 16 bits.
`PcidRange`, `Base` and `IntSize` (4, 4 and 2) stand for 2^16, 256 and 4: as in the
code, an integer of a header has more room than a pcid. (The table of binary formats in
`doc/concepts/binary.rst` gives 2 as the number of dimensional compression; the
code writes and reads 1.)

### Ownership, PatchCalls, SqlCalls, Statement

`heap` holds the blocks that live. A block is a struct with its buffer and its
statistics: `data` is where its `data` pointer leads, `owns` the buffer that its free
function would free (NULL when it is readonly), `stats` its statistics, which it
frees, `schema` the schema it refers to. The columns of a dimensional patch are one
buffer. A C function is a sequence of instructions over C variables (`var`), one for each
statement that allocates, lends, hands over, reads through or frees memory or
switches the memory context; a branch on something the model has (the form of the
patch, a result that is its own input, statistics present) follows it, and one on
values it has not (`Either`) goes both ways. A variable that was not assigned yet is NULL (`Value`), and
a form that no case of a `switch` names leaves only the error (`Switch`). Between two instructions `Raise` may
strike: `ereport(ERROR)` from the function, a callee or the allocator.

`PatchCalls` translates the library's functions and `SqlCalls` the SQL functions,
in the order of their C statements. `Statement` is the executor: it calls the function
for a row, or an aggregate's transition and final functions, or PC_Explode until it
is done or nobody wants more rows (`Shutdown`), resets the context of each call, copies a new
transition value into the aggregate's context, and at the end or on an error deletes the contexts
of the statement. A block number is never used twice, so a stale pointer is never
mistaken for a new block. Three blocks precede the statement: the stored row and two cached
schemas; an argument may be a detoasted copy or the row itself. Where the code keeps an
argument that was not copied over several calls (PC_Explode), the executor is taken to keep it
too. Elements of arrays have any form. Array errors are cases of `Raise`.

## Runs

| run | bounds | shows |
|---|---|---|
| `schema_cache` | 3 pcids and a fourth that is asked for and not in the table, 2 documents, a ring of 2 slots, one call site | one slot per pcid and slots used in order (`RingInOrder`), only documents some session committed (`ServesWitnessed`), a schema or an error (`NeverServesNull`), the oldest leaves first (`OnlyOldestLeaves`), and that the ring implements the memo |
| `run_column` | columns of up to 6 values over 3, runs of at most 3, statistics that are complete after 5 points, words of 8 bytes, integer or double | operations on runs answer as operations on values, after any filters; a recommended encoding shrinks the column; shared statistics stay bounded; the user's choice sticks |
| `sig_bits` | bytes of 2 bits, words of 1, 2 and 4 bytes, up to 5 values | accesses stay in the buffer, packing has no gaps, values come back, direct access finds them while the offset fits a word |
| `patch_row` | up to 3 points, a signed and an unsigned dimension, runs of at most 2, 3 schemas (one per compression; one offset per schema; the third has another scale and one dimension less) | bounds, minimum and maximum exact, columns aligned, PC_PointN and PC_Intersects answer for the points, filters and PC_Range return exactly the points asked for, points in order stay in order in every form and encoding until PC_Sort or new points undo it (`OrderSurvives`), refinement of `PointRow` |
| `patch_query_plain` | as above without run-length encoding, and without an offset where columns are filtered | averages exact, PC_IsSorted accepts what PC_Sort returned, stored in any form |
| `patch_rle_sorted` | as `patch_row`, rle only | *violation*: PC_IsSorted never compares the last two runs, so a column that descends there counts as sorted (`SortedMeansInOrder`) |
| `patch_rle_average` | as `patch_query_plain`, rle only | *violation*: a filter counts each run once in the average |
| `patch_laz_wkb` | LAZ patches from WKB | *violation*: their bounds stay zero |
| `wkb` | two machines of opposite byte order, dimensions of one and two bytes, up to 3 points, columns without typmod and with 0, a pcid, and a number masked to it; across byte orders only uncompressed patches and points | every machine reads the same header, columns and LAZ buffers fill the WKB exactly, values arrive as they were sent over any number of hops, conversions and assignments, and a column holds its pcid and takes back what it holds |
| `wkb_swapped` | dimensional patches across byte orders too | *violation*: their values are not swapped |
| `schema_doc` | documents of up to 3 dimensions with any positions, 4 names of which two stand for *x*, three interpretations one of which is unknown, a table that grows from 2 to 3 chains | no hole when the coordinates are looked for, only usable schemas are returned, values tile a point, look-ups find, a clone is faithful and independent |
| `ownership` | every function of the extension; one row, two inputs, two final calls, patches of up to 3 points; an error after every instruction | no use after free and no patch serialized without statistics, one owner, nothing lent is freed, results stand alone, nothing but known blocks is left behind and aggregate state stays bounded, every point exploded once, and every statement ends |

Why the bounds are enough. The cache compares pcids for equality and moves one
index around the ring, so a ring of two with three pcids has every situation:
empty, partly filled, full, overwritten, and the overwritten pcid loaded again;
call sites share nothing but the table, which one site sees edited at every
point. With runs of at most three and columns of six a run is cut by the count
limit, filtered at both ends and in the middle, dropped, and left beside a run
of the same value; a sample is complete at once, after two patches, or never. With five values of one to eight unique bits a field ends
with its word, is split, and leaves a remainder. Of the two schemas of `wkb` the
wide dimension is last in one and first in the other, and both make points of
the same length, so that a wrong pcid, offset or swap shows in the values and
not only in a length. Three points and runs of at
most two give a patch two runs of one value, a partial filter, and a proper
range; raw values below and above zero are clamped at both ends of the signed
type. Three dimensions are permuted, collide, repeat a name, share a coordinate and grow the table once.
Functions keep nothing between rows but the schema cache, which the model fixes, so one row per
scalar call does; two inputs make an aggregate create and extend its state, two final calls read it twice.

Three specifications stop and are run without deadlock checking: the loops of `sig_bits` end,
a document is read once, and a statement ends.

Fairness. `Statement` is the only specification with a liveness property,
`StatementEnds`. It assumes `WF_vars(Proceed)`: the backend executes its next
instruction, and the executor goes on calling until it has been told that there are no more
rows or is content. That is what a PostgreSQL backend does unless it is killed; nothing in
the extension waits for a lock, a message or another process. Errors and an
executor that stops early (`Fail`, `Shutdown`) are possible at any time and promised at none, so the
property needs neither. It fails if a call of PC_Explode forgets to say that it is done. Elsewhere no liveness is claimed: the cache waits for nobody,
and the other models are sequences of SQL calls that users may end when they like.

The exclusions in the passing runs are the violations: `AvgExact` holds without
run-length encoding, `BoundsExact` without LAZ from WKB, `WhatWasSentArrives` while
dimensional and LAZ patches stay in one byte order, `NeverServesNull` if pcid 0 is not looked up.
`SortedMeansInOrder`, what the documentation says of PC_IsSorted in either mode, is checked
only in the run that refutes it. Without run-length encoding the scan of `lib/pc_sort.c` is the comparison of
neighbours that defines the order, so that it would hold by its shape. What is claimed of order in the
passing runs is about the other functions: what PC_Sort returns is accepted in whatever form it is stored, and
order is not lost on the way (`OrderSurvives`). "In order" there is what `UncompressedIsSorted` says
of the decoded points, with either value of `strict` as the code reads it: 1 allows equal neighbours, 0 does not.

### Divergences without a run of their own

- PC_SetPCId between schemas with the same dimensions keeps the old bounds
  (`pgsql/pc_editor.c` 29) also when scales differ. The schemas of `patch_row` never differ in
  scale alone, so `BoundsExact` holds there.
- PC_PointN on a significant-bits dimension multiplies position and width in the
  word of the dimension (`lib/pc_bytes.c` 1728), so in narrow words the offset wraps;
  `PointNWithinWord` (in `ValuesComeBack`) is stated for offsets that fit.
- Filtering a dimensional patch adds the offset of a dimension once to the sum of all
  points (`lib/pc_filter.c` 164). `DimensionalFilter` does so too, and with `Schemas` in place of
  `SchemasForAverages` the run `patch_query_plain` finds `AvgExact` violated by one filter that
  keeps two points.
- pcid 0 hits an empty slot of the zeroed ring (`pgsql/pc_pgsql.c` 484).
- With `strict`, PC_IsSorted lets equal neighbours pass, without it they are rejected
  (`lib/pc_sort.c` 111, and its unit test `lib/cunit/cu_pc_sort.c` 242-243), while
  `doc/functions/patchs.rst` 138 says that the option "further checks that the ordering is strict (no duplicates)" and
  `lib/pc_sort.c` 167 that the "run_length should be 1 if strict". `PatchIsSorted` does what the code does, and no
  property says what `strict` promises.
- A missing or unknown interpretation has the size -1 (`lib/pc_schema.c` 25) and is stored:
  offsets behind it wrap and dimensions overlap, and `pc_schema_is_valid` does not
  object. `LayoutTiles` is stated for known interpretations; the run has the unknown one too.
- A column `PcPatch(0)` accepts every pcid on input and none by assignment;
  `PcPatch(65537)` is a column for pcid 1.
- The WKB of a LAZ patch of the other byte order is not swapped either.
- Functions that leave blocks to the reset of the call's context are listed by block in
  `Forgotten` of `Statement`.

## Proofs

`SchemaCacheProofs` proves, for every set of pcids, documents and call sites and
every `CacheSize` > 0:

- `TypeCorrect`: `Spec => []TypeOK`; in particular next_slot stays in the ring;
- `OneSlotPerPcid`: `Spec => []RingInOrder`, which is `NoDuplicates /\ FilledInOrder`;
- `CacheServesWitnessed`: `Spec => []ServesWitnessed`;
- `OldestLeavesFirst`: `Spec => OnlyOldestLeaves`;
- `SchemaOrError`: if 0 is not among the pcids asked for, `Spec => []NeverServesNull`;
- `CacheIsMemo`: if 0 is not among the pcids asked for, `Spec => ImplementsMemo`: the ring
  implements the abstract memo.

The assumptions are those `SchemaCache` names: pcids are positive, the ring has a
slot, `NoRow`, `NullRow` and `NULL` are none of the values they stand beside.
`NoDuplicates` is not inductive: a store could duplicate a pcid that is already in
the ring. What rules this out is that a pending load is for a pcid the ring does
not hold, which the scan established before the row was read and which stays true
because the call site does nothing else meanwhile: the second part of
`FilledInOrder`. Its first part (unused slots are those from next_slot up) is what
makes "overwrites only when full" follow, and it needs `NoDuplicates` for nothing,
but typing of next_slot. The invariant is the conjunction, with one step per action.
`ServesWitnessed` is inductive with typing, because `witnessed` only grows while a
call site lives and a load reads a document that is in it. `NeverServesNull` needs
it, to know that a used slot holds a schema.

For the refinement, each step of the cache is shown to be a step of the memo or a
stutter, under the map from the ring to the queue of its used slots, oldest first. A store
into an unused slot appends; a store into a full ring drops the head, because the slot
next_slot points at is the oldest and the ring is read from there. The exception for pcid 0
is real: an unused slot has pcid 0, so the scan finds it (see the divergences).

`OwnershipProofs` proves, for any number of rows, inputs, final calls and points:

- `OwnersStayApart`: `Spec => []OwnersApart`, which is `ExclusiveOwner /\ FixedNotOwned`: no
  block has two owners, and none owns the stored row or a cached schema;
- `LentSurvives`: `Spec => []LentStays`: the stored row is never freed, nor is a cached schema
  before its statement ends;
- `PointsExplodedOnce`: `Spec => []EveryPointOnce`.

The proof of the first does not look at the functions: each instruction, in any program, preserves
`OwnersInv == Numbered /\ Cells /\ ExclusiveOwner`. `ExclusiveOwner` alone is not
inductive. A new block must not already be owned, so owned blocks must be below `brk`
(`Numbered`, `Cells`); the stored row and the cached schemas must not become
owned, so they must lie below every block handed out (`Cells` again: what is owned is in `Fresh`); and when data
changes hands without statistics, or the other way round, a struct must not own one
block as both (`IsCell`). Each lemma is about one way in which the heap changes: a block is
handed out, let go, assigned, given another buffer, or gives its data or statistics to another.
The typing of the heap that a type invariant would state is `Numbered`.

The other two depend on what the functions do. Names of C variables are sorted into those that
may hold what was lent (`Lent`: arguments, schemas), one that holds the row or a copy of it
(`Args`: `serpatch`), and all others, which hold only what the call made (`Own`). An instruction is
`Good` if it lies in a set of instructions that frees and assigns by these names and is closed under
branching, and a program is `Sound` if its instructions are good. That each of the functions in `Scalar`,
`Final`, the transition and PC_Explode is sound is one lemma per function of the library and of the
extension, from the lemma of each function it calls (`EveryFunction`). The one free that
names do not justify is PG_FREE_IF_COPY, which frees `serpatch` if it is not the row: `Left`
says that a program may begin with such a free when the variable holds no lent block. One instruction of
a sound program then leaves a sound rest, respects the names and keeps the lent blocks (`LeftStep`); a
context that is reset holds none. `LendingInv` is `OwnersInv` (what a free function
finds in `owns` and `stats` is not lent) with `VarsOk`, `LentOk` and what is left of the running program;
for PC_Explode it counts (`ExplodeInv`): the executor has the points 0 to `Len(rows) - 1`, the next to
fetch is that of the running call, and a call returns only behind the macros that fetched, because the program before them
holds no return. `EveryPointOnce` alone says nothing of a point that was fetched and not yet taken.
It is assumed that NULL is no block and no state of a set-returning call.

`RunLengthProofs` proves, for every sequence of values and every `MaxRun` > 0, what the
operators on columns compute: decoding what was encoded gives the values, a filter on runs
keeps the values whose bit is set, and positions, bitmaps, extremes, sums and run counts
found on runs are those of the values. The lemmas on `Represents(col, pts, S)` say so for a
column under any encoding; all further proofs about columns use only these. The operators
are folds, as the C functions are loops. The induction theorems of the library take an operator, which
the provers cannot instantiate, so induction comes from the well-founded order of the naturals
instead: a set of naturals that contains 0 and the successor of
each member contains all up to any bound (`UpTo`), and from it that a fold or a recursive
function exists and unrolls step by step.

`SigBitsProofs` proves, for every word size, byte width and number of values:

- `SigBitsTypes`: `Spec => []TypeOK`;
- `SigBitsStayInBounds`: `Spec => []InBounds`: no access outside the buffer;
- `SigBitsPackedExactly`: `Spec => []PackedExactly`: no gap between values, and head words that
  hold the number of unique bits and exactly the bits that all values share;
- `SigBitsValuesComeBack`: `Spec => []ValuesComeBack`, through the loop and by direct access.

The invariant `SigInv` reads the words as one stream of bits. `Filled(m)` says that a bit of a word is one
exactly where a bit of one of the first *m* values belongs, `Gapless` that the two cursors stand behind the
values handled so far; both survive a value that ends with its word, one that is split over two, and the
two shifts by the whole width. The decoder moves its cursors over the same stream, and as the
shared bits are in the head (`HeadExact`), each value it assembles is the one packed there.

`DimStatsProofs` proves, for every set of values, length of column and minimal sample:

- `TypeCorrect`: `SharedSpec => []TypeOK`;
- `ColumnsAnswer`: `SharedSpec => []ColumnAnswers`;
- `SamplesBounded`: `SharedSpec => []SampleBounded`;
- `OverridesStick`: `SharedSpec => OverrideSticks`;
- `RecommendationsPay`: if `MaxRun` is at least 3 (the code's is 255), `SharedSpec => []RecommendationShrinks`.

The invariant is `SharedInv == ColumnInv /\ StatsInv`. `ColumnInv` is `Represents` for the column and
the values it stands for. `StatsInv` bounds each counter by the number of points sampled
(a column has no more runs than values, and of its words no more bits are common than they
have): `SampleBounded` alone would not survive an update. It needs what `DimsAssumption` says:
a minimal sample is at least one point, and a raw value fits the word of its dimension (`Fits`). That a recommended
run-length encoding pays although runs are cut at `MaxRun`: `MaxRun` times the runs written is at
most the values plus `MaxRun` times the runs counted, and the ratio asked for leaves room for that.

`PatchRowProofs` proves, for every table of schemas, number of points and filter, in all
three forms:

- `TypeCorrect`: `Spec => []TypeOK`, which includes `ColumnsAligned`;
- `MinMaxStayExact`: `Spec => []MinMaxExact`;
- `BoundsStayExact`: if `BoundsKept`, `Spec => []BoundsExact`;
- `AnswersStayExact`: if `BoundsKept` and NULL is no patch, `Spec => []AnswersExact`;
- `RowIsPoints`: if NULL is no patch, `Spec => ImplementsPoints`: `PatchRow` implements `PointRow`;
- `OrderStays`: `Spec => OrderSurvives`, for every encoding;
- `SortGivesSorted`: if run-length encoding is not among `Encodings`, `Spec => SortedAfterSort`.

The invariant `RowInv` says that a row stands for some non-empty sequence of points of its
schema: `Good(pa, p, pts)` is that the data decode to `pts` (`Holds`), that the bounds are their extent
(`Boxed`) and that the minimum and maximum points are theirs (`Summary`). None of these can do without
the others: a filter takes its new extremes from runs and
decides from the old ones that nothing can pass, and PC_Intersects trusts bounds that a conversion only
carried along. There is one lemma per function of the library (`...Keeps`, or `...Stands` where
the points change, saying what the new ones are), and one per action of `PointRow` for the refinement.
`BoundsKept` excludes what breaks the bounds in the code: LAZ patches from WKB, and two schemas
with the same dimensions but other scales or offsets in x and y. The averages are proved to be in range only,
because they are not exact in the code.

`OrderStays` rests on the same invariant, since whatever form a patch takes it decodes to its points, and on
three facts about points. Neighbours in order make all points in order (`BelowThroughout`, by the
induction of `RunLengthProofs`), so that what filters and PC_Range pick is in order, not only what is contiguous
(`PickedSorted`). A change of pcid moves raw values to the dimensions of the same names and leaves
comparisons alone (`PrecedesAlike`). `RawOf` is monotone: dividing, rounding half away
from zero and clamping keep the order of two values (`RawOfKeepsOrder`), for any scales and offsets. They may make
two values equal, which is why PC_Transform is excused where equal neighbours are refused (`strict = 0`) or where a second
dimension then decides.

`SchemaDocProofs` proves, for any number of dimensions, names and interpretations, every hash
function and every table of primes:

- `NeverAHole`: `Spec => []NoHole`;
- `TypeCorrect`: `Spec => []TypeOK`;
- `ReturnedStayUsable`: `Spec => []ReturnedUsable`;
- `LayoutStaysTiled`: `Spec => []LayoutTiles`;
- `LookupsFind`: `Spec => []LookupFinds`;
- `ClonesStayFaithful`: `Spec => []CloneFaithful`.

`NoHole` is not inductive, as it says nothing until the last element is stored. The
invariant `FoundWhereStated` says that each stored dimension is found at the
position it states, which the two tests before an element is stored preserve. The
positions stated are then distinct, and as many distinct positions as there are
leave none empty (`Pigeonhole`, by the cardinality of injections).

The others follow from `DocInv`, for which `FoundWhereStated` is needed in turn, where the coordinates are looked for. It says
that every schema is `Sound`: typed (`Shaped`), each dimension at the position it states (`Placed`), the
table holding the named dimensions and no other entry (`Tabled`), offsets and size those of the
layout (`LaidOut`); that coordinates are dimensions of the schema (`Coords`); and that a clone
repeats the schema in the memory behind it (`Cloning`), so that freeing it leaves the schema. About the
table it is proved that an insertion adds one entry and loses none, growth included
(`InsertAdds`), and that a search finds an entry with the name if there is one (`SearchFinds`). That the
values tile a point is the monotonicity of the sums in `Before`, and that they fit a word.

`WkbProofs` proves, for every table of pcids and dimensions, machines of either order, base of the
bytes and bound on the points:

- `ColumnsHoldTheirPcid`: `Spec => []ColumnHoldsItsPcid`;
- `WkbTypes`: `Spec => []TypeOK`;
- `PartsAreFound`: `Spec => []PartsFoundEverywhere`;
- `ValuesArrive`: if only uncompressed patches and points cross byte orders, `Spec => []WhatWasSentArrives`.

For the first the invariant is that the input function of a column would take what it holds. A typmod that is a
pcid survives its mask, because the CHECK constraint of `pointcloud_formats` keeps pcids below it.

The others follow from `WkbInv`: what a machine holds, and what a WKB carries, is the layout of some points
of a schema (`Known`). It is not enough to say so of what was sent: patches whose bytes nothing swaps
are read as other points (`MisreadPoints`), in whose layout every part must still be found, by this machine and
the next. So each read is shown to yield a layout: bytes swapped by `FlipPoints`
are the image in the other order, an image gives its value back (induction over its digits), the walk over
columns finds each at the sum of the sizes before it (induction over the dimensions), and a column that
is not swapped is the column of its misread values. `ValuesArrive` needs its hypothesis, as `wkb_swapped` shows.

Only model-checked:

- `StatementEnds`: liveness under fairness is beyond the provers.
- `NoUseAfterFree`, `ResultStandsAlone` and `NothingPilesUp`: they depend on which blocks live at each
  instruction of some forty programs, and on which paths through them exclude each other; names do not tell, and a proof
  would need an annotation for each instruction.
- `AvgExact`: it is false with run-length encoding (`patch_rle_average`) and with offsets
  where columns are filtered, so that it holds for some sets of constants only, which the run has.
- The violations: the properties are false.

## Not modelled, and why

- XML parsing, text and JSON output, the string buffer, geometry output: formatting,
  or encodings of what other modules hold. The PostGIS casts are SQL text.
- lazperf, zlib and sort_r are external or vendored; they show as a lossless codec and
  as any permutation in order.
- Floating point dimensions: values are integers, so that rounding is exact.
- Patches without points: no SQL function stores one, but WKB can bring one in.
- WKB of significant-bits columns (the head words and their swap), and the hexadecimal digits.
- `pc_patch_uncompressed_add_point` and its growing buffer, which nothing calls.
- The constants cache of the extension's schema name, which lives as long as the backend.
- Memory of malloc (hash tables, lazperf buffers), which belongs to no context.
- The build without lazperf: `HAVE_LAZPERF` is assumed.
- A stored patch always has statistics, so the branches without them are not reached.

## Plan

1. A composition of `SchemaCache` and `PatchRow`: a stored row decoded under an
   edited document.
2. WKB of sigbits columns; patches without points.
3. `NoUseAfterFree` for every instance: an annotation of each function's instructions with the blocks
   that live there, beside the sorting of names that `LentSurvives` rests on.
