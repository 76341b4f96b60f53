------------------------------ MODULE RowStore ------------------------------
(***************************************************************************)
(* A chunk from the heap to the values that a kernel sees: the backend     *)
(* fills row stores with the tuples of a relation (datastore.c) and lays   *)
(* out the column store, the server chooses a work group size              *)
(* (clserv_compute_workgroup_size), the device copies rows to columns      *)
(* (kern_row_to_column) and kernels read them (kern_get_datum).            *)
(*                                                                         *)
(* Offsets and lengths are those of the code, in bytes, over a short row   *)
(* store.  The contents of an attribute is the pair of its tuple and its   *)
(* column.  heap_getnext and heap_form_tuple are PostgreSQL's.             *)
(***************************************************************************)
EXTENDS Integers, Sequences, FiniteSets, SequencesExt

CONSTANTS
  Cols,         \* columns: [attlen, attalign, notnull, referenced]
  TupleKinds,   \* tuples: [natts, nulls, varsize, short]
  Relations,    \* the sequences of tuples that a scan may see
  StoreLen,     \* rstore->kern.length
  HtupLen,      \* HEAPTUPLESIZE
  Hoff,         \* t_hoff
  ParamLists,   \* lists of Const and Param nodes
  Threads,      \* lengths of other chunks, for the work group size
  Devices,      \* [maxsize, unit, localmem, usage] of device and kernel
  NULL

ASSUME BoundsAssumption == Relations \subseteq Seq(TupleKinds) /\ Threads \subseteq Nat

\* A length that is not positive is a variable one.
ASSUME ColsAssumption ==
  Cols \in Seq([attlen : Int, attalign : Nat \ {0}, notnull : BOOLEAN, referenced : BOOLEAN])
ASSUME TuplesAssumption ==
  /\ TupleKinds \subseteq
       [natts : Nat, nulls : SUBSET Nat, varsize : Nat, short : BOOLEAN]
  /\ StoreLen \in Nat /\ HtupLen \in Nat \ {0} /\ Hoff \in Nat

\* The limits are unsigned numbers of the driver; 0 units is a driver that does
\* not tell the preferred multiple.
ASSUME DevicesAssumption ==
  \A d \in Devices : {d.maxsize, d.unit, d.localmem, d.usage} \subseteq Nat

UIntSize == 4
UnitSize == 32                                \* PGSTROM_WORKGROUP_UNITSZ
TypeAlign(a, n) == ((n + a - 1) \div a) * a
StromAlign(n) == TypeAlign(16, n)
ColCount == Len(Cols)
RowHeadLen == 12 + 8 * ColCount   \* offsetof(kern_row_store, colmeta[ncols])

VARIABLES
  rel,          \* the tuples that the scan sees
  params,       \* used_params of the plan
  pos,          \* the tuple heap_getnext returned last
  head, tail,   \* usage_head, usage_tail
  offs,         \* p_offset
  tups,         \* the tuples copied, by row
  scanDone,
  ofsOf,        \* cs_ofs, by column of the column store
  kcsLen,       \* kcs_head->length
  lwork, gwork, \* the launch
  device,       \* where it was made
  loaded,       \* tuples of the chunks that are complete
  pc

chunkVars == <<head, tail, offs, tups>>
launchVars == <<lwork, gwork, device>>
layoutVars == <<ofsOf, kcsLen>>
vars == <<rel, params, pos, chunkVars, scanDone, layoutVars, launchVars,
          loaded, pc>>

NRows == Len(offs)

(***************************************************************************)
(* Tuples, as PostgreSQL forms them.                                       *)
(***************************************************************************)
AttrSize(k, j) == IF Cols[j].attlen > 0 THEN Cols[j].attlen ELSE k.varsize

\* A short varlena is not aligned; the others follow zero bytes.
AttrStart(k, j, o) ==
  IF Cols[j].attlen < 0 /\ k.short THEN o ELSE TypeAlign(Cols[j].attalign, o)

\* A tuple has no value in the columns added after it was formed.
NoAttr(k, j) == j \in k.nulls \/ j > k.natts

\* Where heap_form_tuple ends the first j attributes.
FormedEnd(k) ==
  LET end[j \in 0..ColCount] ==
        IF j = 0 THEN Hoff
        ELSE IF NoAttr(k, j) THEN end[j - 1]
        ELSE AttrStart(k, j, end[j - 1]) + AttrSize(k, j)
  IN end
FormedAt(k, j) == AttrStart(k, j, FormedEnd(k)[j - 1])

\* HEAPTUPLESIZE + MAXALIGN(t_len)
TupleLen(k) == HtupLen + TypeAlign(8, FormedEnd(k)[ColCount])

(***************************************************************************)
(* Backend: pgstrom_load_row_store_heap.                                   *)
(***************************************************************************)
StartStore ==
  /\ pc = "alloc"
  /\ head' = RowHeadLen /\ tail' = StoreLen
  /\ offs' = << >> /\ tups' = << >>
  /\ pc' = "load"
  /\ UNCHANGED <<rel, params, pos, scanDone, layoutVars, launchVars, loaded>>

\* "out of shared memory"
StartStoreFails ==
  /\ pc = "alloc"
  /\ pc' = "error"
  /\ UNCHANGED <<rel, params, pos, chunkVars, scanDone, layoutVars,
                 launchVars, loaded>>

\* usage_tail - length < sizeof(cl_uint) + usage_head, in unsigned
\* arithmetic: a tuple longer than what is left below usage_tail passes.
NoRoom(k) == tail - TupleLen(k) \in 0..(UIntSize + head - 1)

LoadTuple ==
  /\ pc = "load" /\ pos < Len(rel) /\ ~NoRoom(rel[pos + 1])
  /\ pos' = pos + 1
  /\ tail' = tail - TupleLen(rel[pos + 1])
  /\ head' = head + UIntSize
  /\ offs' = Append(offs, tail')
  /\ tups' = Append(tups, pos + 1)
  /\ pc' = IF tail' < 0 THEN "ub" ELSE "load"
  /\ UNCHANGED <<rel, params, scanDone, layoutVars, launchVars, loaded>>

\* Slip: the tuple that found no room is not given back to the scan.
StoreFullNoRewind ==
  /\ pc = "load" /\ pos < Len(rel) /\ NoRoom(rel[pos + 1])
  /\ pos' = pos + 1
  /\ scanDone' = FALSE
  /\ pc' = "layout"
  /\ UNCHANGED <<rel, params, chunkVars, layoutVars, launchVars, loaded>>

\* No room: the scan is moved back, so that the next chunk reads the tuple.
StoreFull ==
  /\ pc = "load" /\ pos < Len(rel) /\ NoRoom(rel[pos + 1])
  /\ scanDone' = FALSE
  /\ pc' = "layout"
  /\ UNCHANGED <<rel, params, pos, chunkVars, layoutVars, launchVars, loaded>>

EndOfHeap ==
  /\ pc = "load" /\ pos = Len(rel)
  /\ scanDone' = TRUE
  /\ pc' = "layout"
  /\ UNCHANGED <<rel, params, pos, chunkVars, layoutVars, launchVars, loaded>>

\* The columns that the kernel references, in the order of the relation.
RefCols ==
  LET refs[j \in 0..ColCount] ==
        IF j = 0 THEN << >>
        ELSE IF Cols[j].referenced THEN Append(refs[j - 1], j) ELSE refs[j - 1]
  IN refs[ColCount]
Cell(j) == IF Cols[j].attlen > 0 THEN Cols[j].attlen ELSE UIntSize
NullMapLen(n) == StromAlign((n + 7) \div 8)
KcsHeadLen == StromAlign(12 + 8 * Len(RefCols))

\* Slip: the room of the null map is given to columns that have none.
ColumnSpaceSwapped(j) ==
  (IF Cols[j].notnull THEN NullMapLen(NRows) ELSE 0)
    + StromAlign(NRows * Cell(j))
ColumnSpace(j) ==
  (IF Cols[j].notnull THEN 0 ELSE NullMapLen(NRows))
    + StromAlign(NRows * Cell(j))

\* `offset` after the first i columns
LayoutEnd ==
  LET end[i \in 0..Len(RefCols)] ==
        IF i = 0 THEN KcsHeadLen ELSE end[i - 1] + ColumnSpace(RefCols[i])
  IN end

\* cs_ofs of every column, and the length of the column store
Layout ==
  /\ pc = "layout"
  /\ ofsOf' = [i \in 1..Len(RefCols) |-> LayoutEnd[i - 1]]
  /\ kcsLen' = LayoutEnd[Len(RefCols)]
  /\ pc' = IF NRows > 0 THEN "launch" ELSE "assert"
  /\ UNCHANGED <<rel, params, pos, chunkVars, scanDone, launchVars, loaded>>

(***************************************************************************)
(* Server: clserv_compute_workgroup_size and the global size.              *)
(***************************************************************************)
RoundDown(n, u) == n - (n % u)
LocalPerThread == 2 * UIntSize

\* workgroup_unitsz
Unit(d) == IF d.unit = 0 THEN UnitSize ELSE TypeAlign(UnitSize, d.unit)

\* Slip: the size that local memory allows is not rounded to the unit.
WorkgroupSizeLast(d, threads) ==
  LET unit == Unit(d)
      few == IF threads < d.maxsize THEN threads + unit - 1 ELSE d.maxsize
      free == d.localmem - d.usage
  IN IF d.usage > d.localmem THEN 0
     ELSE IF LocalPerThread * few > free THEN free \div LocalPerThread
     ELSE RoundDown(few, unit)

WorkgroupSize(d, threads) ==
  LET unit == Unit(d)
      hw == RoundDown(d.maxsize, unit)
      few == IF threads < hw THEN RoundDown(threads + unit - 1, unit) ELSE hw
      free == d.localmem - d.usage
  IN IF d.usage > d.localmem THEN 0
     ELSE IF LocalPerThread * few > free
          THEN RoundDown(free \div LocalPerThread, unit)
          ELSE few

\* gwork_sz = ((nrows + lwork_sz - 1) / lwork_sz) * lwork_sz
Launch ==
  /\ pc = "launch"
  /\ \E d \in Devices :
       /\ device' = d
       /\ lwork' = WorkgroupSize(d, NRows)
       /\ gwork' = IF lwork' = 0 THEN 0
                   ELSE ((NRows + lwork' - 1) \div lwork') * lwork'
       /\ pc' = IF lwork' = 0 THEN "ub" ELSE "device"
  /\ UNCHANGED <<rel, params, pos, chunkVars, scanDone, layoutVars, loaded>>

\* clGetKernelWorkGroupInfo fails: the size is 0, and 0 divides nrows.
LaunchNoSize ==
  /\ pc = "launch"
  /\ lwork' = 0
  /\ pc' = "ub"
  /\ UNCHANGED <<rel, params, pos, chunkVars, scanDone, layoutVars, gwork,
                 device, loaded>>

\* The chunk is evaluated; the backend goes on with the next one.
NextChunk ==
  /\ pc = "device"
  /\ loaded' = loaded \o tups
  /\ pc' = IF scanDone THEN "end" ELSE "alloc"
  /\ UNCHANGED <<rel, params, pos, chunkVars, scanDone, layoutVars,
                 launchVars>>

Stopped ==
  /\ pc \in {"end", "error", "assert", "ub"}
  /\ UNCHANGED vars

(***************************************************************************)
(* Device: kern_row_to_column.                                             *)
(***************************************************************************)
Kind(r) == rel[tups[r]]

\* HEAP_HASNULL and a bit of t_bits, which is 0 after the last attribute; a
\* tuple without null values has no bits, and t_natts is not looked at.
KernelNull(k, j) == k.nulls # {} /\ NoAttr(k, j)

\* VARATT_NOT_PAD_BYTE: the byte at an offset is the first of a varlena, and
\* not zero as the low byte of a length may be.
NotPadByte(k, j, o) ==
  ~NoAttr(k, j) /\ o = FormedAt(k, j) /\ (k.short \/ k.varsize % 64 # 0)

\* The offset that a column is read at, when the one before ends at o.
WalkStart(k, j, o) ==
  IF Cols[j].attlen < 0 /\ NotPadByte(k, j, o) THEN o
  ELSE TypeAlign(Cols[j].attalign, o)

\* Slip: only the columns that are referenced are walked over.
WalkReferenced(k) ==
  LET end[j \in 0..ColCount] ==
        IF j = 0 THEN Hoff
        ELSE IF KernelNull(k, j) \/ ~Cols[j].referenced THEN end[j - 1]
        ELSE WalkStart(k, j, end[j - 1]) + AttrSize(k, j)
  IN end

\* `offset` after the first j columns
Walk(k) ==
  LET end[j \in 0..ColCount] ==
        IF j = 0 THEN Hoff
        ELSE IF KernelNull(k, j) THEN end[j - 1]
        ELSE WalkStart(k, j, end[j - 1]) + AttrSize(k, j)
  IN end

\* src, from the head of the row store
Source(r, j) == offs[r] + HtupLen + WalkStart(Kind(r), j, Walk(Kind(r))[j - 1])

\* The attributes in the row store: where they are, and whose they are.
Stored ==
  {[at |-> offs[p[1]] + HtupLen + FormedAt(Kind(p[1]), p[2]),
    val |-> <<tups[p[1]], p[2]>>] :
     p \in {q \in (1..NRows) \X (1..ColCount) : ~NoAttr(Kind(q[1]), q[2])}}

\* dest: row r (from 1) of the i-th column of the column store
Dest(i, r) ==
  LET j == RefCols[i]
  IN ofsOf[i] + (IF Cols[j].notnull THEN 0 ELSE NullMapLen(NRows))
       + (r - 1) * Cell(j)

\* The cells that are written: the bytes at src if the length is fixed, the
\* offset src itself if it is variable.
Cells ==
  {[at |-> Dest(p[1], p[2]), len |-> Cell(RefCols[p[1]]),
    src |-> Source(p[2], RefCols[p[1]])] :
     p \in {q \in (1..Len(RefCols)) \X (1..NRows) :
              ~KernelNull(Kind(q[2]), RefCols[q[1]])}}

\* A cl_char holds bits 0 to 7; widened to a cl_uint it repeats bit 7.
ToChar(bits) == bits \cap 0..7
ToUInt(char) == IF 7 \in char THEN char \cup 8..31 ELSE char

\* A round of the reduction over the 32 lanes of workbuf.
OrRound(buf, d) ==
  [l \in 0..31 |-> IF l % (2 * d) = 0 THEN ToChar(buf[l] \cup buf[l + d])
                   ELSE buf[l]]

\* The word of the null map for rows 32 * g + 1 to 32 * g + 32: the bits of
\* the rows that are not null.
NullWord(i, g) ==
  LET j == RefCols[i]
      lane == [l \in 0..31 |->
                 LET r == 32 * g + l + 1
                 IN IF r <= NRows /\ ~KernelNull(Kind(r), j) THEN ToChar({l}) ELSE {}]
  IN ToUInt(FoldLeft(OrRound, lane, <<1, 2, 4, 8, 16>>)[0])

(***************************************************************************)
(* Device: kern_get_datum and the references that the code generator emits *)
(* (pg_<type>_vref, pg_<type>_param).                                      *)
(***************************************************************************)
\* Row r (from 1) of column i; the address, or NULL.
GetDatum(i, r) ==
  LET j == RefCols[i]
  IN IF r > NRows THEN NULL
     ELSE IF ~Cols[j].notnull
             /\ (r - 1) % 32 \notin NullWord(i, (r - 1) \div 32)
          THEN NULL
     ELSE ofsOf[i] + (IF Cols[j].notnull THEN 0 ELSE NullMapLen(NRows))
            + (r - 1) * Cell(j)

\* The value: the bytes of the cell, or what the offset in it points at in
\* the row store, which serves as the toast buffer.  An address that no value
\* begins at holds something else.
NoValue == <<0, 0>>
VarRef(i, r, cells, stored) ==
  LET a == GetDatum(i, r)
      cell == {c \in cells : c.at = a}
      here == {v \in stored : \E c \in cell : v.at = c.src}
  IN IF a = NULL THEN NULL
     ELSE IF here = {} THEN NoValue ELSE (CHOOSE v \in here : TRUE).val

(***************************************************************************)
(* Backend: pgstrom_create_kern_parambuf.                                  *)
(***************************************************************************)

\* One node of used_params: a constant stores its offset; a parameter
\* appends its value but leaves its offset as it is; one that the list does
\* not have ("absent") is passed over, and one without a type ("unset") does
\* not even advance the index.
PutParam(buf, n) ==
  LET len == StromAlign(buf.len + n.len)
      step == [buf EXCEPT !.index = @ + 1]
  IN IF n.kind = "unset" THEN [buf EXCEPT !.poffset[buf.index] = 0]
     ELSE IF n.kind = "absent" THEN step
     ELSE IF n.isnull THEN [step EXCEPT !.poffset[buf.index] = 0]
     ELSE IF n.kind = "const"
          THEN [step EXCEPT !.poffset[buf.index] = buf.len, !.len = len,
                            !.body = @ \cup {<<buf.len, n>>}]
          ELSE [step EXCEPT !.len = len, !.body = @ \cup {<<buf.len, n>>}]

\* poffset of an entry that is not assigned: it is what enlargeStringInfo
\* allocated.
Unset == -1

ParamBuf ==
  FoldLeft(PutParam,
           [poffset |-> [i \in 1..Len(params) |-> Unset],
            len |-> StromAlign(8 + UIntSize * Len(params)),
            index |-> 1, body |-> {}],
           params)

ParamRef(i) ==
  LET o == ParamBuf.poffset[i]
      here == {b \in ParamBuf.body : b[1] = o}
  IN IF o = 0 THEN NULL
     ELSE IF here = {} THEN NoValue ELSE (CHOOSE b \in here : TRUE)[2].val

(***************************************************************************)
(* Specification.                                                          *)
(***************************************************************************)
Init ==
  /\ rel \in Relations
  /\ params \in ParamLists
  /\ pos = 0 /\ head = 0 /\ tail = 0 /\ offs = << >> /\ tups = << >>
  /\ scanDone = FALSE /\ ofsOf = << >> /\ kcsLen = 0
  /\ lwork = 0 /\ gwork = 0 /\ device = NULL
  /\ loaded = << >> /\ pc = "alloc"

Next ==
  \/ StartStore \/ StartStoreFails \/ LoadTuple \/ StoreFull \/ EndOfHeap
  \/ Layout \/ Launch \/ LaunchNoSize \/ NextChunk \/ Stopped

Spec == Init /\ [][Next]_vars

(***************************************************************************)
(* Properties.                                                             *)
(***************************************************************************)

\* Over all the chunks of a scan every tuple is loaded once, in the order of
\* the scan: none is lost or read twice where a chunk is full.
LoadedOnce ==
  /\ loaded = [i \in 1..Len(loaded) |-> i]
  /\ pc = "end" => Len(loaded) = Len(rel)

\* No tuple is so long that the subtraction of NoRoom can wrap around: when
\* less is left than the longest tuple, the array of offsets has met the
\* tuples.  With 8 MB this is so of tuples up to 5.7 kB; longer ones the code
\* does not guard against.
ShortFor(l) ==
  /\ \A k \in TupleKinds : TupleLen(k) <= l
  /\ l <= StoreLen /\ l <= RowHeadLen + UIntSize * ((StoreLen - l) \div l)
TuplesShort == \E k \in TupleKinds : ShortFor(TupleLen(k))

\* "if we have no room to put the fetched tuple on the row-store, we rewind":
\* the tuples of a row store lie inside it, behind the array of offsets, and
\* do not overlap.
TuplesFit ==
  pc # "alloc" =>
    /\ \A r \in 1..NRows :
         /\ RowHeadLen + UIntSize * NRows <= offs[r]
         /\ offs[r] + TupleLen(Kind(r)) <= StoreLen
    /\ \A r, s \in 1..NRows :
         r < s => offs[s] + TupleLen(Kind(s)) <= offs[r]

\* The cells that the device writes lie inside the column store, behind its
\* header and outside of null maps, and do not overlap.
ColumnsFit ==
  pc = "device" =>
    /\ \A c \in Cells :
         /\ KcsHeadLen <= c.at /\ c.at + c.len <= kcsLen
         /\ \A i \in 1..Len(RefCols) :
              Cols[RefCols[i]].notnull
                \/ c.at + c.len <= ofsOf[i]
                \/ ofsOf[i] + UIntSize * ((NRows + 31) \div 32) <= c.at
    /\ \A c, d \in Cells :
         c # d => c.at + c.len <= d.at \/ d.at + d.len <= c.at

\* Neither store is written outside of its bounds or twice at one place.
StoresFit == TuplesFit /\ ColumnsFit

\* The sizes that device and kernel admit and the threads can use.
Sizes(d, threads) ==
  {n \in 1..d.maxsize :
     /\ n % Unit(d) = 0
     /\ n < threads + Unit(d)
     /\ d.usage + LocalPerThread * n <= d.localmem}

BestSizes == \A d \in Devices, t \in Threads :
               WorkgroupSize(d, t) = Max({0} \cup Sizes(d, t))

\* "PG-Strom expects workgroup size is multiplexer of 32": the size computed
\* is the largest such size that fits, for the rows of the chunk and for
\* longer ones, it is 0 only if none fits, and the launch covers the rows.
LaunchFits ==
  /\ BestSizes
  /\ pc = "device" =>
       /\ lwork = Max(Sizes(device, NRows))
       /\ gwork % lwork = 0 /\ NRows \in (gwork - lwork + 1)..gwork

(***************************************************************************)
(* What a kernel sees of rows, columns and parameters.                     *)
(***************************************************************************)
RefCells == (1..Len(RefCols)) \X (1..NRows)

\* Rows whose null values are all told by t_bits: the tuple has every column
\* of the relation, or a bitmap.
BitsTell(r) == Kind(r).natts >= ColCount \/ Kind(r).nulls # {}

\* Rows that the null map of a column has a bit for that survives cl_char.
MapTells(p) == Cols[RefCols[p[1]]].notnull \/ (p[2] - 1) % 32 < 8

\* In these cells the kernel sees the value that the tuple has there, or NULL.
SeenIn(S) ==
  LET cells == Cells
      stored == Stored
  IN \A p \in S :
       VarRef(p[1], p[2], cells, stored) =
         IF NoAttr(Kind(p[2]), RefCols[p[1]]) THEN NULL
         ELSE <<tups[p[2]], RefCols[p[1]]>>

\* An entry of the parameter buffer has its value, or NULL.
ParamSeen(i) ==
  ParamRef(i) = IF params[i].isnull THEN NULL ELSE params[i].val

\* What a kernel sees is what the backend has put there, after the row was
\* copied to columns of other offsets: of columns that are never null in every
\* row, of others in the first 8 of 32 rows; of constants and of parameters
\* that are NULL, unless a parameter has no type.  The other cases are what
\* the code gets wrong (KernelSees).
SeenRight ==
  pc = "device" =>
    /\ SeenIn({p \in RefCells : BitsTell(p[2]) /\ MapTells(p)})
    /\ (\A i \in 1..Len(params) : params[i].kind # "unset") =>
         \A i \in 1..Len(params) :
           params[i].kind = "const" \/ (params[i].kind = "param" /\ params[i].isnull)
             => ParamSeen(i)

\* "must not be null in the column store also", "according to the supplied
\* Const/Param list": in whichever row of the chunk a value is seen as it is
\* and a NULL as one, also in tuples from before a column was added, and every
\* entry of the parameter buffer has its value.
KernelSees ==
  pc = "device" =>
    /\ SeenIn(RefCells)
    /\ \A i \in 1..Len(params) : params[i].kind # "absent" => ParamSeen(i)
=============================================================================
