--------------------------- MODULE RowStoreProofs ---------------------------
(***************************************************************************)
(* Theorems about RowStore: over all chunks every tuple of the scan is     *)
(* loaded once and in order, the launch has the largest work group that    *)
(* the device admits, and neither store is written outside of its bounds   *)
(* or twice at one place.                                                  *)
(***************************************************************************)
EXTENDS RowStore, WellFoundedInduction, TLAPS

(***************************************************************************)
(* Loading.                                                                *)
(***************************************************************************)
\* The numbers from m + 1 on
IsRun(s, m) == s \in Seq(Nat) /\ \A k \in 1..Len(s) : s[k] = m + k

\* offs is a sequence; what it holds does not matter here.
OffsetsOK == offs \in Seq(Range(offs)) /\ Len(offs) = Len(tups)

\* The tuples read so far are those of the complete chunks, followed by those
\* of the chunk that is being loaded or evaluated; the last chunk is the one
\* that has met the end of the heap.
LoadInv ==
  /\ Len(rel) \in Nat /\ pos \in 0..Len(rel)
  /\ IsRun(loaded, 0) /\ tups \in Seq(Nat) /\ OffsetsOK
  /\ pc \in {"alloc", "end"} => pos = Len(loaded)
  /\ pc \in {"load", "layout", "launch", "device"} =>
       IsRun(tups, Len(loaded)) /\ pos = Len(loaded) + Len(tups)
  /\ pc \in {"layout", "launch", "device", "end"} => (scanDone => pos = Len(rel))
  /\ pc = "end" => scanDone

\* A sequence has all its elements in any set that each of them is in.
LEMMA SeqIn ==
  ASSUME NEW S, NEW q \in Seq(S), NEW T, \A k \in 1..Len(q) : q[k] \in T
  PROVE  q \in Seq(T)
OBVIOUS

LEMMA ElemsIn ==
  ASSUME NEW S, NEW q \in Seq(S)
  PROVE  Len(q) \in Nat /\ \A k \in 1..Len(q) : q[k] \in S
OBVIOUS

LEMMA Appended ==
  ASSUME NEW S, NEW q \in Seq(S), NEW v \in S
  PROVE  /\ Append(q, v) \in Seq(S) /\ Len(Append(q, v)) = Len(q) + 1
         /\ Append(q, v)[Len(q) + 1] = v
         /\ \A k \in 1..Len(q) : Append(q, v)[k] = q[k]
OBVIOUS

LEMMA AppendSeq ==
  ASSUME NEW S, NEW q \in Seq(S), NEW v
  PROVE  /\ Append(q, v) \in Seq(Range(Append(q, v)))
         /\ Len(Append(q, v)) = Len(q) + 1
<1> DEFINE t == Append(q, v)
<1>1. q \in Seq(S \cup {v}) /\ v \in S \cup {v}
  BY SeqIn
<1>2. t \in Seq(S \cup {v}) /\ Len(t) = Len(q) + 1
  BY <1>1
<1> HIDE DEF t
<1>3. DOMAIN t = 1..Len(t)
  BY <1>2
<1>4. \A k \in 1..Len(t) : t[k] \in Range(t)
  BY <1>3 DEF Range
<1>5. t \in Seq(Range(t))
  BY <1>2, <1>4, SeqIn
<1> QED  BY <1>2, <1>5 DEF t

LEMMA LoadInit == Init => LoadInv
<1> SUFFICES ASSUME Init PROVE LoadInv
  OBVIOUS
<1>2. rel \in Seq(TupleKinds) /\ Len(rel) \in Nat
  <2>1. rel \in Seq(TupleKinds)
    BY BoundsAssumption DEF Init
  <2> QED  BY <2>1
<1>3. << >> \in Seq(Range(<< >>)) /\ << >> \in Seq(Nat) /\ Len(<< >>) = 0
  OBVIOUS
<1> QED  BY <1>2, <1>3 DEF Init, LoadInv, IsRun, OffsetsOK

LEMMA LoadNext == LoadInv /\ [Next]_vars => LoadInv'
<1> SUFFICES ASSUME LoadInv, [Next]_vars PROVE LoadInv'
  OBVIOUS
<1> USE DEF LoadInv, OffsetsOK
<1>1. CASE StartStore
  BY <1>1 DEF StartStore, IsRun
<1>2. CASE StartStoreFails
  BY <1>2 DEF StartStoreFails, chunkVars, IsRun
<1>3. CASE LoadTuple
  <2>1. /\ pc = "load" /\ pos < Len(rel) /\ pos' = pos + 1 /\ pc' \in {"ub", "load"}
        /\ offs' = Append(offs, tail') /\ tups' = Append(tups, pos + 1)
        /\ UNCHANGED <<rel, scanDone, loaded>>
    BY <1>3 DEF LoadTuple
  <2>2. offs' \in Seq(Range(offs')) /\ Len(offs') = Len(offs) + 1
    BY <2>1, AppendSeq
  <2>3. IsRun(tups', Len(loaded)) /\ Len(tups') = Len(tups) + 1
    <3>1. /\ tups \in Seq(Nat) /\ pos + 1 \in Nat /\ Len(loaded) \in Nat
          /\ pos = Len(loaded) + Len(tups) /\ \A k \in 1..Len(tups) : tups[k] = Len(loaded) + k
      BY <2>1 DEF IsRun
    <3>2. tups' \in Seq(Nat) /\ Len(tups') = Len(tups) + 1 /\ Len(tups) \in Nat
      BY <2>1, <3>1, Appended
    <3>3. /\ tups'[Len(tups) + 1] = pos + 1
          /\ \A k \in 1..Len(tups) : tups'[k] = tups[k]
      BY <2>1, <3>1, Appended
    <3>4. \A k \in 1..Len(tups') : tups'[k] = Len(loaded) + k
      <4> SUFFICES ASSUME NEW k \in 1..Len(tups') PROVE tups'[k] = Len(loaded) + k
        OBVIOUS
      <4>1. k \in 1..Len(tups) \/ k = Len(tups) + 1
        BY <3>2
      <4>2. CASE k \in 1..Len(tups)
        BY <4>2, <3>1, <3>3
      <4>3. CASE k = Len(tups) + 1
        <5>1. tups'[k] = pos + 1
          BY <4>3, <3>3
        <5> QED  BY <5>1, <4>3, <3>1, <3>2
      <4> QED  BY <4>1, <4>2, <4>3
    <3> QED  BY <3>2, <3>4 DEF IsRun
  <2>4. IsRun(tups, Len(loaded))'
    BY <2>1, <2>3 DEF IsRun
  <2> QED  BY <2>1, <2>2, <2>3, <2>4 DEF IsRun
<1>4. CASE StoreFull
  BY <1>4 DEF StoreFull, chunkVars, IsRun
<1>5. CASE EndOfHeap
  BY <1>5 DEF EndOfHeap, chunkVars, IsRun
<1>6. CASE Layout
  <2>1. /\ pc = "layout" /\ pc' \in {"launch", "assert"}
        /\ UNCHANGED <<rel, pos, offs, tups, scanDone, loaded>>
    BY <1>6 DEF Layout, chunkVars
  <2> QED  BY <2>1 DEF IsRun
<1>7. CASE Launch
  <2>1. /\ pc = "launch" /\ pc' \in {"ub", "device"}
        /\ UNCHANGED <<rel, pos, offs, tups, scanDone, loaded>>
    BY <1>7 DEF Launch, chunkVars
  <2> QED  BY <2>1 DEF IsRun
<1>8. CASE LaunchNoSize
  BY <1>8 DEF LaunchNoSize, chunkVars, IsRun
<1>9. CASE NextChunk
  <2>1. /\ pc = "device" /\ pc' = (IF scanDone THEN "end" ELSE "alloc")
        /\ loaded' = loaded \o tups
        /\ UNCHANGED <<rel, pos, offs, tups, scanDone>>
    BY <1>9 DEF NextChunk, chunkVars
  <2>2. IsRun(loaded', 0) /\ Len(loaded') = Len(loaded) + Len(tups)
    <3>1. /\ tups \in Seq(Nat) /\ loaded \in Seq(Nat)
          /\ \A k \in 1..Len(tups) : tups[k] = Len(loaded) + k
          /\ \A k \in 1..Len(loaded) : loaded[k] = 0 + k
      BY <2>1 DEF IsRun
    <3>2. /\ loaded' \in Seq(Nat) /\ Len(loaded') = Len(loaded) + Len(tups)
          /\ Len(loaded) \in Nat /\ Len(tups) \in Nat
      BY <2>1, <3>1
    <3>3. \A k \in 1..Len(loaded') :
            loaded'[k] = IF k <= Len(loaded) THEN loaded[k] ELSE tups[k - Len(loaded)]
      BY <2>1, <3>1
    <3>4. \A k \in 1..Len(loaded') : loaded'[k] = 0 + k
      <4> SUFFICES ASSUME NEW k \in 1..Len(loaded') PROVE loaded'[k] = 0 + k
        OBVIOUS
      <4>1. loaded'[k] = IF k <= Len(loaded) THEN loaded[k] ELSE tups[k - Len(loaded)]
        BY <3>3
      <4>2. CASE k <= Len(loaded)
        BY <4>1, <4>2, <3>1, <3>2
      <4>3. CASE ~(k <= Len(loaded))
        <5>1. k - Len(loaded) \in 1..Len(tups)
          BY <4>3, <3>2
        <5>2. tups[k - Len(loaded)] = Len(loaded) + (k - Len(loaded))
          BY <5>1, <3>1
        <5> QED  BY <5>2, <4>1, <4>3, <3>2
      <4> QED  BY <4>2, <4>3
    <3> QED  BY <3>2, <3>4 DEF IsRun
  <2>3. IsRun(loaded, 0)'
    BY <2>2 DEF IsRun
  <2> QED  BY <2>1, <2>2, <2>3
<1>10. CASE Stopped \/ UNCHANGED vars
  <2>1. UNCHANGED <<rel, pos, offs, tups, scanDone, loaded, pc>>
    BY <1>10 DEF Stopped, vars, chunkVars
  <2> QED  BY <2>1 DEF IsRun
<1> QED
  BY <1>1, <1>2, <1>3, <1>4, <1>5, <1>6, <1>7, <1>8, <1>9, <1>10 DEF Next

\* pgstrom_load_row_store_heap, called again for every chunk, hands each tuple
\* of the scan to one chunk, in the order of the scan: the tuple that did not
\* fit is read again, and no other.
THEOREM EveryTupleOnce == Spec => []LoadedOnce
<1>1. LoadInv => LoadedOnce
  <2> SUFFICES ASSUME LoadInv PROVE LoadedOnce
    OBVIOUS
  <2>1. loaded = [k \in 1..Len(loaded) |-> k]
    BY DEF LoadInv, IsRun
  <2>2. pc = "end" => Len(loaded) = Len(rel)
    BY DEF LoadInv
  <2> QED  BY <2>1, <2>2 DEF LoadedOnce
<1> QED  BY <1>1, LoadInit, LoadNext, PTL DEF Spec

(***************************************************************************)
(* The work group size.                                                    *)
(***************************************************************************)
LEMMA DivMod ==
  ASSUME NEW n \in Nat, NEW u \in Nat \ {0}
  PROVE  /\ n = u * (n \div u) + (n % u) /\ n % u \in 0..(u - 1) /\ n \div u \in Nat
OBVIOUS

LEMMA Multiple ==
  ASSUME NEW q \in Nat, NEW u \in Nat \ {0}
  PROVE  (u * q) % u = 0
OBVIOUS

LEMMA Factors ==
  ASSUME NEW p \in Nat, NEW q \in Nat, NEW u \in Nat \ {0}, u * p <= u * q + u - 1
  PROVE  p <= q
OBVIOUS

LEMMA Scaled ==
  ASSUME NEW p \in Nat, NEW q \in Nat, NEW u \in Nat \ {0}, p <= q
  PROVE  u * p <= u * q
OBVIOUS

\* Between a multiple of u and the next one there is none.
LEMMA NextMultiple ==
  ASSUME NEW m \in Nat, NEW n \in Nat, NEW u \in Nat \ {0},
         m % u = 0, n % u = 0, m <= n + u - 1
  PROVE  m <= n
<1> DEFINE p == m \div u
           q == n \div u
<1>1. m = u * p /\ n = u * q /\ p \in Nat /\ q \in Nat
  <2>1. m = u * p + (m % u) /\ n = u * q + (n % u) /\ p \in Nat /\ q \in Nat
    BY DivMod
  <2> QED  BY <2>1
<1> HIDE DEF p, q
<1>2. p <= q
  BY <1>1, Factors
<1> QED  BY <1>1, <1>2, Scaled

\* RoundDown(n, u) is the largest multiple of u up to n.
LEMMA RoundsDown ==
  ASSUME NEW n \in Nat, NEW u \in Nat \ {0}
  PROVE  /\ RoundDown(n, u) \in Nat /\ RoundDown(n, u) % u = 0 /\ RoundDown(n, u) <= n
         /\ \A m \in Nat : m % u = 0 /\ m <= n => m <= RoundDown(n, u)
<1> DEFINE q == n \div u
<1>1. RoundDown(n, u) = u * q /\ q \in Nat /\ n <= u * q + u - 1 /\ u * q <= n
  BY DivMod DEF RoundDown
<1>2. u * q \in Nat /\ (u * q) % u = 0
  BY <1>1, Multiple
<1>3. ASSUME NEW m \in Nat, m % u = 0, m <= n PROVE m <= u * q
  <2>1. m <= u * q + u - 1
    BY <1>1, <1>2, <1>3
  <2> QED  BY <2>1, <1>2, <1>3, NextMultiple
<1> QED  BY <1>1, <1>2, <1>3

LEMMA UnitPositive ==
  ASSUME NEW d \in Devices
  PROVE  Unit(d) \in Nat \ {0}
<1>1. d.unit \in Nat
  BY DevicesAssumption
<1> QED  BY <1>1 DEF Unit, UnitSize, TypeAlign

\* clserv_compute_workgroup_size returns a size that is admitted, or 0, and no
\* size that is admitted is larger.
LEMMA BestSize ==
  ASSUME NEW d \in Devices, NEW t \in Nat
  PROVE  /\ WorkgroupSize(d, t) \in {0} \cup Sizes(d, t)
         /\ \A n \in {0} \cup Sizes(d, t) : n <= WorkgroupSize(d, t)
<1> DEFINE u == Unit(d)
           hw == RoundDown(d.maxsize, u)
           few == IF t < hw THEN RoundDown(t + u - 1, u) ELSE hw
           free == d.localmem - d.usage
           room == RoundDown(free \div 8, u)
           w == WorkgroupSize(d, t)
<1>0. d.maxsize \in Nat /\ d.localmem \in Nat /\ d.usage \in Nat /\ u \in Nat \ {0}
  BY DevicesAssumption, UnitPositive
<1>1. w = IF d.usage > d.localmem THEN 0 ELSE IF 8 * few > free THEN room ELSE few
  BY DEF WorkgroupSize, LocalPerThread, UIntSize
<1>2. Sizes(d, t) = {n \in 1..d.maxsize :
                       n % u = 0 /\ n < t + u /\ d.usage + 8 * n <= d.localmem}
  BY DEF Sizes, LocalPerThread, UIntSize
<1>3. /\ hw \in Nat /\ hw % u = 0 /\ hw <= d.maxsize
      /\ \A m \in Nat : m % u = 0 /\ m <= d.maxsize => m <= hw
  BY <1>0, RoundsDown
<1>4. t + u - 1 \in Nat
  BY <1>0
<1>5. /\ RoundDown(t + u - 1, u) \in Nat /\ RoundDown(t + u - 1, u) % u = 0
      /\ RoundDown(t + u - 1, u) <= t + u - 1
      /\ \A m \in Nat : m % u = 0 /\ m <= t + u - 1 => m <= RoundDown(t + u - 1, u)
  BY <1>0, <1>4, RoundsDown
<1>6. d.usage <= d.localmem => free \div 8 \in Nat
  BY <1>0
<1>7. d.usage <= d.localmem =>
        /\ room \in Nat /\ room % u = 0 /\ 8 * room <= free
        /\ \A m \in Nat : m % u = 0 /\ 8 * m <= free => m <= room
  <2> SUFFICES ASSUME d.usage <= d.localmem
               PROVE  /\ room \in Nat /\ room % u = 0 /\ 8 * room <= free
                      /\ \A m \in Nat : m % u = 0 /\ 8 * m <= free => m <= room
    OBVIOUS
  <2>1. /\ room \in Nat /\ room % u = 0 /\ room <= free \div 8
        /\ \A m \in Nat : m % u = 0 /\ m <= free \div 8 => m <= room
    BY <1>0, <1>6, RoundsDown
  <2>2. \A m \in Nat : m <= free \div 8 <=> 8 * m <= free
    BY <1>0
  <2> HIDE DEF room, free
  <2> QED  BY <2>1, <2>2
<1> HIDE DEF u, hw, room, w
<1>8. few \in Nat /\ few % u = 0 /\ few <= d.maxsize /\ few < t + u
  <2>1. few <= hw
    <3>1. CASE t < hw
      \* the least multiple of u that is not below t
      <4>1. RoundDown(t + u - 1, u) <= hw
        BY <3>1, <1>0, <1>3, <1>5, NextMultiple
      <4> QED  BY <4>1, <3>1
    <3>2. CASE ~(t < hw)
      BY <3>2, <1>3
    <3> QED  BY <3>1, <3>2
  <2> QED  BY <2>1, <1>0, <1>3, <1>5
<1>9. \A n \in Sizes(d, t) : n <= few
  BY <1>0, <1>2, <1>3, <1>5
<1> HIDE DEF few
<1>10. CASE d.usage > d.localmem
  <2>1. Sizes(d, t) = {}
    BY <1>10, <1>0, <1>2
  <2> QED  BY <2>1, <1>1, <1>10 DEF w
<1>11. CASE ~(d.usage > d.localmem)
  <2>1. /\ w \in Nat /\ w % u = 0 /\ w <= few /\ 8 * w <= free
        /\ \A n \in Sizes(d, t) : n <= w
    <3>1. \A n \in Sizes(d, t) : n \in Nat /\ n % u = 0 /\ 8 * n <= free
      BY <1>11, <1>0, <1>2
    <3> QED  BY <3>1, <1>11, <1>0, <1>1, <1>7, <1>8, <1>9
  <2>2. w # 0 => w \in Sizes(d, t)
    BY <2>1, <1>0, <1>2, <1>8
  <2>3. 0 <= w
    BY <2>1
  <2> QED  BY <2>1, <2>2, <2>3 DEF w
<1> QED  BY <1>10, <1>11

LEMMA MaxIs ==
  ASSUME NEW S \in SUBSET Nat, NEW w \in S, \A n \in S : n <= w
  PROVE  Max(S) = w
<1>1. Max(S) \in S /\ \A n \in S : Max(S) >= n
  BY DEF Max
<1>2. Max(S) \in Nat /\ w \in Nat /\ Max(S) <= w /\ Max(S) >= w
  BY <1>1
<1> QED  BY <1>2

LEMMA LargestSize ==
  ASSUME NEW d \in Devices, NEW t \in Nat
  PROVE  /\ WorkgroupSize(d, t) = Max({0} \cup Sizes(d, t))
         /\ WorkgroupSize(d, t) # 0 =>
              WorkgroupSize(d, t) \in Nat /\ WorkgroupSize(d, t) = Max(Sizes(d, t))
<1>1. Sizes(d, t) \in SUBSET Nat /\ {0} \cup Sizes(d, t) \in SUBSET Nat
  BY DevicesAssumption DEF Sizes
<1>2. WorkgroupSize(d, t) = Max({0} \cup Sizes(d, t))
  BY <1>1, BestSize, MaxIs
<1>3. ASSUME WorkgroupSize(d, t) # 0
      PROVE  WorkgroupSize(d, t) \in Nat /\ WorkgroupSize(d, t) = Max(Sizes(d, t))
  <2>1. WorkgroupSize(d, t) \in Sizes(d, t)
    BY <1>3, BestSize
  <2>2. \A n \in Sizes(d, t) : n <= WorkgroupSize(d, t)
    BY BestSize
  <2> QED  BY <2>1, <2>2, <1>1, MaxIs
<1> QED  BY <1>2, <1>3

\* The least multiple of the work group size that covers the rows
LEMMA Covers ==
  ASSUME NEW n \in Nat, NEW w \in Nat \ {0}
  PROVE  LET g == ((n + w - 1) \div w) * w
         IN g % w = 0 /\ n \in (g - w + 1)..g
<1> DEFINE q == (n + w - 1) \div w
<1>1. n + w - 1 \in Nat
  OBVIOUS
<1>2. n + w - 1 = w * q + ((n + w - 1) % w) /\ (n + w - 1) % w \in 0..(w - 1) /\ q \in Nat
  BY <1>1, DivMod
<1> HIDE DEF q
<1>3. q * w = w * q /\ (w * q) % w = 0 /\ w * q \in Nat
  <2>1. (w * q) % w = 0
    BY <1>2, Multiple
  <2>2. q * w = w * q /\ w * q \in Nat
    BY <1>2
  <2> QED  BY <2>1, <2>2
<1>4. n \in (w * q - w + 1)..(w * q)
  BY <1>2, <1>3
<1> QED  BY <1>3, <1>4 DEF q

LaunchInv ==
  pc = "device" =>
    /\ device \in Devices /\ lwork = WorkgroupSize(device, NRows) /\ lwork # 0
    /\ gwork = ((NRows + lwork - 1) \div lwork) * lwork

LEMMA LaunchNext == LaunchInv /\ [Next]_vars => LaunchInv'
<1> SUFFICES ASSUME LaunchInv, [Next]_vars PROVE LaunchInv'
  OBVIOUS
<1>1. CASE Launch
  <2>1. PICK d \in Devices :
          /\ device' = d
          /\ lwork' = WorkgroupSize(d, NRows)
          /\ gwork' = IF lwork' = 0 THEN 0
                      ELSE ((NRows + lwork' - 1) \div lwork') * lwork'
          /\ pc' = IF lwork' = 0 THEN "ub" ELSE "device"
    BY <1>1 DEF Launch
  <2>2. offs' = offs
    BY <1>1 DEF Launch, chunkVars
  <2>3. NRows' = NRows
    BY <2>2 DEF NRows
  <2> QED  BY <2>1, <2>3 DEF LaunchInv
<1>2. CASE pc' # "device"
  BY <1>2 DEF LaunchInv
<1>3. CASE ~Launch /\ pc' = "device"
  <2>1. UNCHANGED <<offs, lwork, gwork, device, pc>>
    BY <1>3 DEF Next, StartStore, StartStoreFails, LoadTuple, StoreFull, EndOfHeap,
                Layout, LaunchNoSize, NextChunk, Stopped, vars, chunkVars, launchVars
  <2> QED  BY <2>1 DEF LaunchInv, NRows
<1> QED  BY <1>1, <1>2, <1>3

\* clserv_compute_workgroup_size chooses the largest multiple of the unit that
\* device, kernel and local memory admit and the rows can use, and
\* clserv_process_gpuscan launches just enough groups of that size to cover the
\* rows, for every device and any number of rows.
THEOREM LargestLaunch == Spec => []LaunchFits
<1>1. Init => LaunchInv
  BY DEF Init, LaunchInv
<1>2. LoadInv /\ LaunchInv => LaunchFits
  <2> SUFFICES ASSUME LoadInv, LaunchInv PROVE LaunchFits
    OBVIOUS
  <2>1. BestSizes
    BY BoundsAssumption, LargestSize DEF BestSizes
  <2>2. ASSUME pc = "device"
        PROVE  /\ lwork = Max(Sizes(device, NRows))
               /\ gwork % lwork = 0 /\ NRows \in (gwork - lwork + 1)..gwork
    <3>1. NRows \in Nat
      BY DEF LoadInv, OffsetsOK, NRows
    <3>2. lwork = Max(Sizes(device, NRows)) /\ lwork \in Nat \ {0}
      BY <2>2, <3>1, LargestSize DEF LaunchInv
    <3>3. gwork % lwork = 0 /\ NRows \in (gwork - lwork + 1)..gwork
      BY <2>2, <3>1, <3>2, Covers DEF LaunchInv
    <3> QED  BY <3>2, <3>3
  <2> QED  BY <2>1, <2>2 DEF LaunchFits
<1> QED  BY <1>1, <1>2, LoadInit, LoadNext, LaunchNext, PTL DEF Spec

(***************************************************************************)
(* Recursive functions: that there is one, and where its values lie, by    *)
(* induction with the set of the numbers for which it is so.               *)
(***************************************************************************)
LEMMA SetInduction ==
  ASSUME NEW T \in SUBSET Nat, 0 \in T, \A n \in T : n + 1 \in T
  PROVE  T = Nat
<1> SUFFICES ASSUME T # Nat PROVE FALSE
  OBVIOUS
<1> DEFINE R == OpToRel(<, Nat)
<1>1. Nat \ T # {} /\ Nat \ T \subseteq Nat
  OBVIOUS
<1>2. IsWellFoundedOn(R, Nat)
  BY NatLessThanWellFounded, Zenon
<1>3. \A x, y \in Nat : x < y => <<x, y>> \in R
  BY DEF OpToRel
<1> HIDE DEF R
<1>4. PICK x \in Nat \ T : \A y \in Nat \ T : ~ (<<y, x>> \in R)
  BY <1>1, <1>2, WFMin
<1>5. x # 0 /\ x - 1 \in Nat /\ x - 1 < x
  OBVIOUS
<1>6. x - 1 \in T
  BY <1>3, <1>4, <1>5
<1> QED  BY <1>5, <1>6

\* g begins with a and goes on with the function G of the index and the value
\* before.
Follows(g, a, G, n, S) ==
  /\ g \in [0..n -> S] /\ g[0] = a
  /\ \A k \in 1..n : g[k] = G[<<k, g[k - 1]>>]

LEMMA Recursion ==
  ASSUME NEW n \in Nat, NEW S, NEW a \in S, NEW G \in [(1..n) \X S -> S]
  PROVE  \E g : Follows(g, a, G, n, S)
<1> DEFINE T == {m \in Nat : m <= n => \E g : Follows(g, a, G, m, S)}
<1>1. 0 \in T
  <2>1. Follows([k \in 0..0 |-> a], a, G, 0, S)
    BY DEF Follows
  <2> QED  BY <2>1
<1>2. ASSUME NEW m \in T PROVE m + 1 \in T
  <2> SUFFICES ASSUME m + 1 <= n PROVE \E g : Follows(g, a, G, m + 1, S)
    OBVIOUS
  <2>1. m \in Nat /\ m + 1 \in 1..n /\ m \in 0..m
    OBVIOUS
  <2>2. PICK g : Follows(g, a, G, m, S)
    BY <2>1
  <2> DEFINE c == G[<<m + 1, g[m]>>]
             h == [k \in 0..(m + 1) |-> IF k = m + 1 THEN c ELSE g[k]]
  <2>3. g[m] \in S
    BY <2>1, <2>2 DEF Follows
  <2>4. c \in S
    <3>1. <<m + 1, g[m]>> \in (1..n) \X S
      BY <2>1, <2>3
    <3> QED  BY <3>1
  <2> HIDE DEF c
  <2>5. h \in [0..(m + 1) -> S] /\ h[0] = a
    BY <2>1, <2>2, <2>4 DEF Follows
  <2>6. ASSUME NEW k \in 1..(m + 1) PROVE h[k] = G[<<k, h[k - 1]>>]
    <3>1. CASE k = m + 1
      <4>1. h[k] = c /\ h[k - 1] = g[m]
        BY <3>1, <2>1
      <4> QED  BY <4>1, <3>1 DEF c
    <3>2. CASE k # m + 1
      <4>1. k \in 1..m /\ k - 1 # m + 1 /\ k - 1 \in 0..(m + 1) /\ k \in 0..(m + 1)
        BY <3>2, <2>1
      <4>2. h[k] = g[k] /\ h[k - 1] = g[k - 1]
        BY <4>1, <3>2
      <4> QED  BY <4>1, <4>2, <2>2 DEF Follows
    <3> QED  BY <3>1, <3>2
  <2>7. Follows(h, a, G, m + 1, S)
    BY <2>5, <2>6 DEF Follows
  <2> QED  BY <2>7
<1>3. n \in T
  <2>1. T \in SUBSET Nat
    OBVIOUS
  <2> HIDE DEF T
  <2> QED  BY <2>1, <1>1, <1>2, SetInduction
<1> QED  BY <1>3

\* Values that stay in a set
LEMMA Stays ==
  ASSUME NEW n \in Nat, NEW S, NEW e, e[0] \in S, \A k \in 1..n : e[k - 1] \in S => e[k] \in S
  PROVE  \A k \in 0..n : e[k] \in S
<1> DEFINE T == {m \in Nat : m <= n => e[m] \in S}
<1>1. 0 \in T
  OBVIOUS
<1>2. ASSUME NEW m \in T PROVE m + 1 \in T
  <2> SUFFICES ASSUME m + 1 <= n PROVE e[m + 1] \in S
    OBVIOUS
  <2>1. m + 1 \in 1..n /\ (m + 1) - 1 = m /\ e[m] \in S
    OBVIOUS
  <2> QED  BY <2>1
<1>3. T = Nat
  <2>1. T \in SUBSET Nat
    OBVIOUS
  <2> HIDE DEF T
  <2> QED  BY <2>1, <1>1, <1>2, SetInduction
<1> QED  BY <1>3

(***************************************************************************)
(* Columns and tuples.                                                     *)
(***************************************************************************)
LEMMA Aligned ==
  ASSUME NEW a \in Nat \ {0}, NEW n \in Nat
  PROVE  TypeAlign(a, n) \in Nat /\ TypeAlign(a, n) >= n
<1> DEFINE m == n + a - 1
           q == m \div a
<1>1. m \in Nat
  OBVIOUS
<1>2. m = a * q + (m % a) /\ m % a \in 0..(a - 1) /\ q \in Nat
  BY <1>1, DivMod
<1>3. TypeAlign(a, n) = q * a
  BY DEF TypeAlign
<1> HIDE DEF q
<1>4. q * a \in Nat /\ q * a = a * q
  BY <1>2
<1> QED  BY <1>2, <1>3, <1>4

LEMMA ColsShape ==
  /\ ColCount \in Nat
  /\ \A j \in 1..ColCount :
       /\ Cols[j].attlen \in Int /\ Cols[j].attalign \in Nat \ {0}
       /\ Cols[j].notnull \in BOOLEAN /\ Cols[j].referenced \in BOOLEAN
       /\ Cell(j) \in Nat \ {0}
<1> DEFINE C == [attlen : Int, attalign : Nat \ {0}, notnull : BOOLEAN, referenced : BOOLEAN]
<1>1. Cols \in Seq(C)
  BY ColsAssumption
<1>2. \A c \in C : /\ c.attlen \in Int /\ c.attalign \in Nat \ {0}
                   /\ c.notnull \in BOOLEAN /\ c.referenced \in BOOLEAN
  OBVIOUS
<1> HIDE DEF C
<1>3. Len(Cols) \in Nat /\ \A j \in 1..Len(Cols) : Cols[j] \in C
  BY <1>1
<1>4. \A j \in 1..ColCount : /\ Cols[j].attlen \in Int /\ Cols[j].attalign \in Nat \ {0}
                             /\ Cols[j].notnull \in BOOLEAN /\ Cols[j].referenced \in BOOLEAN
  BY <1>2, <1>3 DEF ColCount
<1>5. \A j \in 1..ColCount : Cell(j) \in Nat \ {0}
  BY <1>4 DEF Cell, UIntSize
<1> QED  BY <1>3, <1>4, <1>5 DEF ColCount

\* Where heap_form_tuple is after an attribute
FormStep(k, j, o) == IF NoAttr(k, j) THEN o ELSE AttrStart(k, j, o) + AttrSize(k, j)

LEMMA TupleShape ==
  ASSUME NEW k \in TupleKinds
  PROVE  TupleLen(k) \in Nat \ {0}
<1> DEFINE n == ColCount
           G == [p \in (1..n) \X Nat |-> FormStep(k, p[1], p[2])]
<1>1. n \in Nat /\ Hoff \in Nat /\ HtupLen \in Nat \ {0} /\ k.varsize \in Nat
  BY ColsShape, TuplesAssumption
<1>2. \A j \in 1..n, o \in Nat : FormStep(k, j, o) \in Nat
  <2> SUFFICES ASSUME NEW j \in 1..n, NEW o \in Nat PROVE FormStep(k, j, o) \in Nat
    OBVIOUS
  <2>1. Cols[j].attlen \in Int /\ Cols[j].attalign \in Nat \ {0}
    BY ColsShape
  <2>2. AttrSize(k, j) \in Nat
    BY <2>1, <1>1 DEF AttrSize
  <2>3. AttrStart(k, j, o) \in Nat
    BY <2>1, Aligned DEF AttrStart
  <2> QED  BY <2>2, <2>3 DEF FormStep
<1>3. G \in [(1..n) \X Nat -> Nat]
  BY <1>2
<1>4. \A j \in 1..n, o \in Nat : G[<<j, o>>] = FormStep(k, j, o)
  OBVIOUS
<1> HIDE DEF G, n
<1>5. PICK g : Follows(g, Hoff, G, n, Nat)
  BY <1>1, <1>3, Recursion
<1>6. \A j \in 0..n : g[j] = IF j = 0 THEN Hoff ELSE FormStep(k, j, g[j - 1])
  <2>1. \A j \in 0..n : j = 0 \/ (j \in 1..n /\ j - 1 \in 0..n)
    BY <1>1
  <2>2. \A j \in 1..n : g[j] = G[<<j, g[j - 1]>>]
    BY <1>5 DEF Follows
  <2>3. \A j \in 0..n : g[j] \in Nat
    BY <1>5 DEF Follows
  <2>4. \A j \in 1..n : g[j - 1] \in Nat
    BY <2>1, <2>3, <1>1
  <2>5. \A j \in 1..n : g[j] = FormStep(k, j, g[j - 1])
    BY <2>2, <2>4, <1>4
  <2> QED  BY <2>1, <2>5, <1>1, <1>5 DEF Follows
<1>7. g = [j \in 0..n |-> IF j = 0 THEN Hoff ELSE IF NoAttr(k, j) THEN g[j - 1]
                          ELSE AttrStart(k, j, g[j - 1]) + AttrSize(k, j)]
  BY <1>5, <1>6 DEF Follows, FormStep
<1>8. \E e : /\ e = [j \in 0..n |-> IF j = 0 THEN Hoff ELSE IF NoAttr(k, j) THEN e[j - 1]
                                    ELSE AttrStart(k, j, e[j - 1]) + AttrSize(k, j)]
             /\ FormedEnd(k) = e
  BY <1>7, Zenon DEF FormedEnd, n
<1>9. PICK e : /\ e = [j \in 0..n |-> IF j = 0 THEN Hoff ELSE IF NoAttr(k, j) THEN e[j - 1]
                                      ELSE AttrStart(k, j, e[j - 1]) + AttrSize(k, j)]
               /\ FormedEnd(k) = e
  BY <1>8
<1>10. \A j \in 0..n : e[j] = IF j = 0 THEN Hoff ELSE FormStep(k, j, e[j - 1])
  BY <1>9 DEF FormStep
<1>11. e[0] \in Nat /\ \A j \in 1..n : e[j - 1] \in Nat => e[j] \in Nat
  BY <1>1, <1>2, <1>10
<1>12. e[n] \in Nat
  <2>1. \A j \in 0..n : e[j] \in Nat
    BY <1>1, <1>11, Stays
  <2> QED  BY <2>1, <1>1
<1>13. TypeAlign(8, e[n]) \in Nat
  BY <1>12, Aligned
<1> QED  BY <1>1, <1>9, <1>13 DEF TupleLen, n

\* The columns that are referenced are columns.
LEMMA RefShape == RefCols \in Seq(1..ColCount)
<1> DEFINE n == ColCount
           S == Seq(1..n)
           Step(j, s) == IF Cols[j].referenced THEN Append(s, j) ELSE s
           G == [p \in (1..n) \X S |-> Step(p[1], p[2])]
<1>1. n \in Nat /\ << >> \in S
  BY ColsShape
<1>2. \A j \in 1..n, s \in S : Step(j, s) \in S
  <2> SUFFICES ASSUME NEW j \in 1..n, NEW s \in S PROVE Step(j, s) \in S
    OBVIOUS
  <2>1. Append(s, j) \in S
    OBVIOUS
  <2> QED  BY <2>1
<1> HIDE DEF S
<1>3. G \in [(1..n) \X S -> S]
  BY <1>2
<1>4. \A j \in 1..n, s \in S : G[<<j, s>>] = Step(j, s)
  OBVIOUS
<1> HIDE DEF G, n
<1>5. PICK g : Follows(g, << >>, G, n, S)
  BY <1>1, <1>3, Recursion
<1>6. \A j \in 0..n : g[j] = IF j = 0 THEN << >> ELSE Step(j, g[j - 1])
  <2> HIDE DEF Step
  <2>1. \A j \in 0..n : j = 0 \/ (j \in 1..n /\ j - 1 \in 0..n)
    BY <1>1
  <2>2. \A j \in 1..n : g[j] = G[<<j, g[j - 1]>>]
    BY <1>5 DEF Follows
  <2>3. \A j \in 0..n : g[j] \in S
    BY <1>5 DEF Follows
  <2>4. \A j \in 1..n : g[j - 1] \in S
    BY <2>1, <2>3, <1>1
  <2>5. \A j \in 1..n : g[j] = Step(j, g[j - 1])
    BY <2>2, <2>4, <1>4
  <2> QED  BY <2>1, <2>5, <1>1, <1>5 DEF Follows
<1>7. g = [j \in 0..n |-> IF j = 0 THEN << >>
                          ELSE IF Cols[j].referenced THEN Append(g[j - 1], j) ELSE g[j - 1]]
  BY <1>5, <1>6 DEF Follows
<1>8. \E e : /\ e = [j \in 0..n |-> IF j = 0 THEN << >>
                         ELSE IF Cols[j].referenced THEN Append(e[j - 1], j) ELSE e[j - 1]]
             /\ RefCols = e[n]
  BY <1>7, Zenon DEF RefCols, n
<1>9. PICK e : /\ e = [j \in 0..n |-> IF j = 0 THEN << >>
                           ELSE IF Cols[j].referenced THEN Append(e[j - 1], j) ELSE e[j - 1]]
               /\ RefCols = e[n]
  BY <1>8
<1>10. \A j \in 0..n : e[j] = IF j = 0 THEN << >> ELSE Step(j, e[j - 1])
  BY <1>9
<1>11. e[0] \in S /\ \A j \in 1..n : e[j - 1] \in S => e[j] \in S
  BY <1>1, <1>2, <1>10
<1>12. e[n] \in S
  <2>1. \A j \in 0..n : e[j] \in S
    BY <1>1, <1>11, Stays
  <2> QED  BY <2>1, <1>1
<1> QED  BY <1>9, <1>12 DEF S, n

(***************************************************************************)
(* The row store.                                                          *)
(***************************************************************************)
\* The tuples lie behind the offsets, one below the other; what is used of the
\* store is at most l for every tuple.
FitInv(l) ==
  /\ rel \in Seq(TupleKinds) /\ tups \in Seq(1..Len(rel)) /\ offs \in Seq(Nat)
  /\ Len(offs) = Len(tups) /\ pos \in Nat
  /\ \A r \in 1..Len(offs) : /\ RowHeadLen + UIntSize * Len(offs) <= offs[r]
                             /\ offs[r] + TupleLen(rel[tups[r]]) <= StoreLen
  /\ \A r, s \in 1..Len(offs) : r < s => offs[s] + TupleLen(rel[tups[s]]) <= offs[r]
  /\ pc = "load" =>
       /\ head = RowHeadLen + UIntSize * Len(offs) /\ tail \in 0..StoreLen
       /\ StoreLen - tail <= l * Len(offs)
       /\ Len(offs) > 0 => head <= tail
       /\ \A r \in 1..Len(offs) : tail <= offs[r]

LEMMA FitInit ==
  ASSUME NEW l, Init
  PROVE  FitInv(l)
<1>2. rel \in Seq(TupleKinds)
  BY BoundsAssumption DEF Init
<1>3. offs = << >> /\ tups = << >> /\ Len(offs) = 0 /\ Len(tups) = 0 /\ pos = 0 /\ pc = "alloc"
  BY DEF Init
<1>4. tups \in Seq(1..Len(rel)) /\ offs \in Seq(Nat)
  BY <1>3
<1> QED  BY <1>2, <1>3, <1>4 DEF FitInv

\* What is left is longer than the tuple: with less, so many tuples are in the
\* store that their offsets reach beyond what is left.
LEMMA NoWrap ==
  ASSUME NEW l \in Nat \ {0}, ShortFor(l), FitInv(l), pc = "load", NEW k \in TupleKinds
  PROVE  TupleLen(k) \in Nat \ {0} /\ TupleLen(k) <= l /\ tail >= TupleLen(k)
<1> DEFINE n == Len(offs)
           q == (StoreLen - l) \div l
           h == RowHeadLen
           d == StoreLen - l
<1>1. TupleLen(k) \in Nat \ {0} /\ TupleLen(k) <= l
  BY TupleShape DEF ShortFor
<1>2. /\ n \in Nat /\ h \in Nat /\ StoreLen \in Nat /\ d \in Nat /\ tail \in 0..StoreLen
      /\ StoreLen - tail <= l * n /\ (n > 0 => h + 4 * n <= tail) /\ l <= h + 4 * q
  BY ColsShape, TuplesAssumption DEF FitInv, ShortFor, UIntSize, RowHeadLen
<1>3. d = l * q + (d % l) /\ d % l \in 0..(l - 1) /\ q \in Nat
  BY <1>2, DivMod
<1> HIDE DEF n, q, h, d
<1>4. CASE n = 0
  <2>1. l * n = 0
    BY <1>4
  <2> QED  BY <2>1, <1>1, <1>2 DEF d
<1>5. CASE n > 0
  <2> SUFFICES ASSUME tail < l PROVE FALSE
    BY <1>1, <1>2
  <2>1. d = StoreLen - l
    BY DEF d
  <2> DEFINE a == l * q
             b == l * n
  <2>2. a \in Nat /\ b \in Nat /\ a <= d /\ StoreLen - tail <= b
    BY <1>2, <1>3
  <2>3. a < b
    <3> HIDE DEF a, b
    <3> QED  BY <2>1, <2>2, <1>2
  <2>4. q < n
    <3> SUFFICES ASSUME n <= q PROVE FALSE
      BY <1>2, <1>3
    <3>1. l * n <= l * q
      BY <1>2, <1>3, Scaled
    <3> QED  BY <3>1, <2>2, <2>3
  <2> QED  BY <2>4, <1>2, <1>3, <1>5
<1> QED  BY <1>2, <1>4, <1>5

LEMMA LoadTupleFits ==
  ASSUME NEW l \in Nat \ {0}, ShortFor(l), FitInv(l), LoadTuple
  PROVE  FitInv(l)'
<1> DEFINE n == Len(offs)
           k == rel[pos + 1]
           z == TupleLen(k)
<1>1. /\ pc = "load" /\ pos < Len(rel) /\ ~NoRoom(k) /\ pos' = pos + 1
      /\ tail' = tail - z /\ head' = head + UIntSize /\ rel' = rel
      /\ offs' = Append(offs, tail - z) /\ tups' = Append(tups, pos + 1)
  BY DEF LoadTuple
<1>2. /\ rel \in Seq(TupleKinds) /\ tups \in Seq(1..Len(rel)) /\ offs \in Seq(Nat)
      /\ Len(tups) = n /\ n \in Nat /\ pos \in Nat /\ Len(rel) \in Nat
      /\ head = RowHeadLen + UIntSize * n /\ tail \in 0..StoreLen
      /\ StoreLen - tail <= l * n
      /\ \A r \in 1..n : tail <= offs[r]
  BY <1>1 DEF FitInv
<1>3. pos + 1 \in 1..Len(rel) /\ k \in TupleKinds
  <2>1. pos + 1 \in 1..Len(rel)
    BY <1>1, <1>2
  <2> QED  BY <2>1, <1>2, ElemsIn
<1>4. z \in Nat \ {0} /\ z <= l /\ tail >= z
  BY <1>1, <1>3, NoWrap
<1>5. RowHeadLen \in Nat /\ StoreLen \in Nat
  BY ColsShape, TuplesAssumption DEF RowHeadLen
<1> HIDE DEF z
<1>6. tail - z \in Nat /\ tail - z >= RowHeadLen + UIntSize * (n + 1)
  <2>1. tail - z \notin 0..(UIntSize + head - 1)
    BY <1>1 DEF NoRoom, z
  <2> HIDE DEF n
  <2> QED  BY <2>1, <1>2, <1>4, <1>5 DEF UIntSize
<1>7. /\ offs' \in Seq(Nat) /\ Len(offs') = n + 1
      /\ tups' \in Seq(1..Len(rel)) /\ Len(tups') = n + 1
  <2>1. offs' \in Seq(Nat) /\ Len(offs') = n + 1
    BY <1>1, <1>2, <1>6, Appended
  <2>2. tups' \in Seq(1..Len(rel)) /\ Len(tups') = Len(tups) + 1
    BY <1>1, <1>2, <1>3, Appended
  <2> QED  BY <2>1, <2>2, <1>2
<1>8. /\ offs'[n + 1] = tail - z /\ tups'[n + 1] = pos + 1
      /\ \A r \in 1..n : offs'[r] = offs[r] /\ tups'[r] = tups[r]
  <2>1. offs'[n + 1] = tail - z /\ \A r \in 1..n : offs'[r] = offs[r]
    <3> DEFINE v == tail - z
    <3>1. offs' = Append(offs, v) /\ v \in Nat /\ offs \in Seq(Nat)
      BY <1>1, <1>2, <1>6
    <3> HIDE DEF v
    <3> QED  BY <3>1, Appended DEF v
  <2>2. /\ tups'[Len(tups) + 1] = pos + 1
        /\ \A r \in 1..Len(tups) : tups'[r] = tups[r]
    <3> DEFINE v == pos + 1
               S == 1..Len(rel)
    <3>1. tups' = Append(tups, v) /\ v \in S /\ tups \in Seq(S)
      BY <1>1, <1>2, <1>3
    <3> HIDE DEF v, S
    <3> QED  BY <3>1, Appended DEF v
  <2>3. Len(tups) = n
    BY <1>2
  <2> QED  BY <2>1, <2>2, <2>3
<1>9. /\ \A r \in 1..n : /\ offs[r] \in Nat /\ tail <= offs[r]
                         /\ offs[r] + TupleLen(rel[tups[r]]) <= StoreLen
      /\ \A r, s \in 1..n : r < s => offs[s] + TupleLen(rel[tups[s]]) <= offs[r]
  <2>1. \A r \in 1..n : offs[r] \in Nat
    BY <1>2, ElemsIn
  <2>2. \A r \in 1..n : offs[r] + TupleLen(rel[tups[r]]) <= StoreLen
    BY DEF FitInv
  <2>3. \A r, s \in 1..n : r < s => offs[s] + TupleLen(rel[tups[s]]) <= offs[r]
    BY DEF FitInv
  <2> QED  BY <2>1, <2>2, <2>3, <1>2
<1>10. \A r \in 1..(n + 1) : r = n + 1 \/ r \in 1..n
  BY <1>2
<1>11. TupleLen(rel[tups'[n + 1]]) = z /\ offs'[n + 1] + z = tail
  BY <1>2, <1>4, <1>8 DEF z
<1> HIDE DEF n, k
<1>12. ASSUME NEW r \in 1..(n + 1)
       PROVE  /\ RowHeadLen + UIntSize * (n + 1) <= offs'[r]
              /\ offs'[r] + TupleLen(rel[tups'[r]]) <= StoreLen
              /\ tail - z <= offs'[r]
  <2>1. CASE r = n + 1
    BY <2>1, <1>2, <1>4, <1>5, <1>6, <1>8, <1>11
  <2>2. CASE r \in 1..n
    <3>1. offs'[r] = offs[r] /\ tups'[r] = tups[r] /\ offs[r] \in Nat /\ tail <= offs[r]
      BY <2>2, <1>8, <1>9
    <3>2. RowHeadLen + UIntSize * (n + 1) <= offs[r] /\ tail - z <= offs[r]
      <4> DEFINE c == RowHeadLen + UIntSize * (n + 1)
      <4>1. c \in Nat /\ c <= tail - z /\ tail \in Nat
        BY <1>2, <1>5, <1>6 DEF UIntSize
      <4> HIDE DEF c
      <4>2. c <= offs[r] /\ tail - z <= offs[r]
        BY <4>1, <3>1, <1>4
      <4> QED  BY <4>2 DEF c
    <3> QED  BY <3>1, <3>2, <2>2, <1>9
  <2> QED  BY <2>1, <2>2, <1>10
<1>13. ASSUME NEW r \in 1..(n + 1), NEW s \in 1..(n + 1), r < s
       PROVE  offs'[s] + TupleLen(rel[tups'[s]]) <= offs'[r]
  <2>1. r \in 1..n
    BY <1>2, <1>13
  <2>2. CASE s = n + 1
    BY <2>1, <2>2, <1>8, <1>9, <1>11
  <2>3. CASE s \in 1..n
    BY <2>1, <2>3, <1>8, <1>9, <1>13
  <2> QED  BY <2>2, <2>3, <1>10
<1>14. StoreLen - tail' <= l * (n + 1) /\ tail' \in 0..StoreLen
  <2>1. l * (n + 1) = l * n + l
    BY <1>2
  <2> DEFINE a == l * n
  <2>2. a \in Nat /\ StoreLen - tail <= a
    BY <1>2
  <2> HIDE DEF a
  <2>3. StoreLen - (tail - z) <= a + l /\ tail - z \in 0..StoreLen
    BY <2>2, <1>2, <1>4, <1>5
  <2> QED  BY <2>1, <2>3, <1>1 DEF a
<1>15. head' = RowHeadLen + UIntSize * (n + 1) /\ head' <= tail'
  BY <1>1, <1>2, <1>5, <1>6 DEF UIntSize
<1>16. pos' \in Nat
  BY <1>1, <1>2
<1> QED  BY <1>1, <1>2, <1>7, <1>12, <1>13, <1>14, <1>15, <1>16 DEF FitInv

LEMMA FitNext ==
  ASSUME NEW l \in Nat \ {0}, ShortFor(l), FitInv(l), [Next]_vars
  PROVE  FitInv(l)'
<1>1. CASE LoadTuple
  BY <1>1, LoadTupleFits
<1>2. CASE StartStore
  <2>1. /\ head' = RowHeadLen /\ tail' = StoreLen /\ offs' = << >> /\ tups' = << >>
        /\ UNCHANGED <<rel, pos>>
    BY <1>2 DEF StartStore
  <2>2. /\ Len(offs') = 0 /\ Len(tups') = 0 /\ offs' \in Seq(Nat) /\ tups' \in Seq(1..Len(rel))
        /\ rel \in Seq(TupleKinds) /\ pos \in Nat
    BY <2>1 DEF FitInv
  <2>3. RowHeadLen \in Nat /\ StoreLen \in Nat
    BY ColsShape, TuplesAssumption DEF RowHeadLen
  <2>4. head' = RowHeadLen + UIntSize * Len(offs') /\ StoreLen - tail' <= l * Len(offs')
        /\ tail' \in 0..StoreLen
    BY <2>1, <2>2, <2>3 DEF UIntSize
  <2> QED  BY <2>1, <2>2, <2>4 DEF FitInv
<1>3. CASE UNCHANGED <<rel, pos, chunkVars>> /\ (pc' = "load" => pc = "load")
  BY <1>3 DEF FitInv, chunkVars
<1>4. CASE \/ StartStoreFails \/ StoreFull \/ EndOfHeap \/ Layout \/ Launch
           \/ LaunchNoSize \/ NextChunk \/ Stopped \/ UNCHANGED vars
  BY <1>3, <1>4 DEF StartStoreFails, StoreFull, EndOfHeap, Layout, Launch, LaunchNoSize,
     NextChunk, Stopped, vars
<1> QED  BY <1>1, <1>2, <1>4 DEF Next

LEMMA FitImplies ==
  ASSUME NEW l, FitInv(l)
  PROVE  TuplesFit
BY DEF FitInv, TuplesFit, NRows, Kind

(***************************************************************************)
(* The column store.                                                       *)
(***************************************************************************)
\* The null map that column j begins with
MapLen(j) == IF Cols[j].notnull THEN 0 ELSE NullMapLen(NRows)

\* The room of a column holds its null map, in words of 32 rows, and a cell for
\* every row.
LEMMA SpaceShape ==
  ASSUME NRows \in Nat, NEW j \in 1..ColCount
  PROVE  /\ MapLen(j) \in Nat /\ ColumnSpace(j) \in Nat
         /\ Cols[j].notnull \/ UIntSize * ((NRows + 31) \div 32) <= MapLen(j)
         /\ NRows * Cell(j) \in Nat /\ MapLen(j) + NRows * Cell(j) <= ColumnSpace(j)
<1> DEFINE n == NRows
           c == n * Cell(j)
           a == StromAlign(c)
           w == NullMapLen(n)
<1>1. Cell(j) \in Nat \ {0} /\ Cols[j].notnull \in BOOLEAN
  BY ColsShape
<1>2. c \in Nat
  BY <1>1
<1>3. a \in Nat /\ a >= c
  <2> HIDE DEF c
  <2> QED  BY <1>2, Aligned DEF StromAlign
<1>4. w \in Nat /\ UIntSize * ((n + 31) \div 32) <= w
  <2> DEFINE x == (n + 7) \div 8
             y == (x + 15) \div 16
             z == (n + 31) \div 32
  <2>1. x \in Nat /\ 8 * x >= n
    OBVIOUS
  <2>2. w = y * 16
    <3>1. w = ((x + 16 - 1) \div 16) * 16
      BY DEF NullMapLen, StromAlign, TypeAlign
    <3>2. x + 16 - 1 = x + 15
      <4> HIDE DEF x
      <4> QED  BY <2>1
    <3> QED  BY <3>1, <3>2
  <2>3. z \in Nat /\ 32 * z <= n + 31
    OBVIOUS
  <2> HIDE DEF x
  <2>4. y \in Nat /\ 16 * y >= x
    BY <2>1
  <2> HIDE DEF y, z
  <2>5. 4 * z <= y * 16
    BY <2>1, <2>3, <2>4
  <2> QED  BY <2>2, <2>4, <2>5 DEF UIntSize, z
<1>5. ColumnSpace(j) = MapLen(j) + a
  BY DEF ColumnSpace, MapLen
<1>6. MapLen(j) = IF Cols[j].notnull THEN 0 ELSE w
  BY DEF MapLen
<1>7. a \in Nat /\ c \in Nat /\ c = NRows * Cell(j)
  BY <1>2, <1>3
<1> HIDE DEF a, c, w
<1>8. MapLen(j) \in Nat /\ (Cols[j].notnull \/ UIntSize * ((NRows + 31) \div 32) <= MapLen(j))
  BY <1>4, <1>6
<1>9. MapLen(j) + c <= MapLen(j) + a /\ MapLen(j) + a \in Nat
  BY <1>3, <1>7, <1>8
<1> QED  BY <1>5, <1>7, <1>8, <1>9

\* The columns follow each other from the header on.
LEMMA LayoutShape ==
  ASSUME NRows \in Nat
  PROVE  /\ Len(RefCols) \in Nat /\ \A i \in 1..Len(RefCols) : RefCols[i] \in 1..ColCount
         /\ KcsHeadLen \in Nat /\ LayoutEnd[0] = KcsHeadLen
         /\ \A i \in 0..Len(RefCols) : LayoutEnd[i] \in Nat
         /\ \A i \in 1..Len(RefCols) :
              LayoutEnd[i] = LayoutEnd[i - 1] + ColumnSpace(RefCols[i])
<1> DEFINE m == Len(RefCols)
           a == KcsHeadLen
           Step(i, o) == o + ColumnSpace(RefCols[i])
           G == [p \in (1..m) \X Nat |-> Step(p[1], p[2])]
<1>1. m \in Nat /\ \A i \in 1..m : RefCols[i] \in 1..ColCount
  BY RefShape, ElemsIn
<1>2. \A i \in 1..m : ColumnSpace(RefCols[i]) \in Nat
  BY <1>1, SpaceShape
<1>3. a \in Nat
  <2> DEFINE x == 12 + 8 * m
  <2>1. x \in Nat
    BY <1>1
  <2>2. a = TypeAlign(16, x)
    BY DEF KcsHeadLen, StromAlign
  <2> HIDE DEF x, a
  <2> QED  BY <2>1, <2>2, Aligned
<1>4. \A i \in 1..m, o \in Nat : Step(i, o) \in Nat
  BY <1>2
<1> HIDE DEF Step
<1>5. G \in [(1..m) \X Nat -> Nat]
  BY <1>4
<1>6. \A i \in 1..m, o \in Nat : G[<<i, o>>] = Step(i, o)
  OBVIOUS
<1> HIDE DEF G, m, a
<1>7. PICK g : Follows(g, a, G, m, Nat)
  BY <1>1, <1>3, <1>5, Recursion
<1>8. \A i \in 0..m : g[i] = IF i = 0 THEN a ELSE Step(i, g[i - 1])
  <2>1. \A i \in 0..m : i = 0 \/ (i \in 1..m /\ i - 1 \in 0..m)
    BY <1>1
  <2>2. \A i \in 1..m : g[i] = G[<<i, g[i - 1]>>]
    BY <1>7 DEF Follows
  <2>3. \A i \in 0..m : g[i] \in Nat
    BY <1>7 DEF Follows
  <2>4. \A i \in 1..m : g[i - 1] \in Nat
    BY <2>1, <2>3, <1>1
  <2>5. \A i \in 1..m : g[i] = Step(i, g[i - 1])
    BY <2>2, <2>4, <1>6
  <2> QED  BY <2>1, <2>5, <1>1, <1>7 DEF Follows
<1>9. g = [i \in 0..m |-> IF i = 0 THEN a ELSE g[i - 1] + ColumnSpace(RefCols[i])]
  BY <1>7, <1>8 DEF Follows, Step
<1>10. \E e : /\ e = [i \in 0..m |-> IF i = 0 THEN a ELSE e[i - 1] + ColumnSpace(RefCols[i])]
              /\ LayoutEnd = e
  BY <1>9, Zenon DEF LayoutEnd, m, a
<1>11. PICK e : /\ e = [i \in 0..m |-> IF i = 0 THEN a ELSE e[i - 1] + ColumnSpace(RefCols[i])]
                /\ LayoutEnd = e
  BY <1>10
<1>12. \A i \in 0..m : e[i] = IF i = 0 THEN a ELSE Step(i, e[i - 1])
  BY <1>11 DEF Step
<1>13. e[0] = a /\ \A i \in 1..m : e[i] = Step(i, e[i - 1])
  BY <1>1, <1>12
<1>14. \A i \in 0..m : e[i] \in Nat
  <2>1. e[0] \in Nat /\ \A i \in 1..m : e[i - 1] \in Nat => e[i] \in Nat
    BY <1>3, <1>4, <1>13
  <2> QED  BY <2>1, <1>1, Stays
<1>15. \A i \in 1..m : e[i] = e[i - 1] + ColumnSpace(RefCols[i])
  BY <1>13 DEF Step
<1> QED  BY <1>1, <1>3, <1>11, <1>13, <1>14, <1>15 DEF m, a

LEMMA EndsGrow ==
  ASSUME NRows \in Nat, NEW i \in 0..Len(RefCols), NEW k \in 0..Len(RefCols), i <= k
  PROVE  LayoutEnd[i] <= LayoutEnd[k]
<1> DEFINE m == Len(RefCols)
           T == {n \in Nat : i + n <= m => LayoutEnd[i] <= LayoutEnd[i + n]}
<1>1. /\ m \in Nat /\ i \in Nat /\ \A n \in 0..m : LayoutEnd[n] \in Nat
      /\ \A n \in 1..m : RefCols[n] \in 1..ColCount
      /\ \A n \in 1..m : LayoutEnd[n] = LayoutEnd[n - 1] + ColumnSpace(RefCols[n])
  BY LayoutShape
<1>2. 0 \in T
  <2>1. i + 0 = i /\ LayoutEnd[i] \in Nat
    BY <1>1
  <2> QED  BY <2>1
<1>3. ASSUME NEW n \in T PROVE n + 1 \in T
  <2> SUFFICES ASSUME i + (n + 1) <= m PROVE LayoutEnd[i] <= LayoutEnd[i + (n + 1)]
    OBVIOUS
  <2>1. /\ n \in Nat /\ i + (n + 1) \in 1..m /\ (i + (n + 1)) - 1 = i + n
        /\ i + n \in 0..m /\ i \in 0..m
    BY <1>1
  <2>2. LayoutEnd[i] <= LayoutEnd[i + n]
    BY <2>1
  <2>3. LayoutEnd[i + (n + 1)] = LayoutEnd[i + n] + ColumnSpace(RefCols[i + (n + 1)])
    BY <2>1, <1>1
  <2>4. ColumnSpace(RefCols[i + (n + 1)]) \in Nat
    BY <2>1, <1>1, SpaceShape
  <2>5. LayoutEnd[i] \in Nat /\ LayoutEnd[i + n] \in Nat
    BY <2>1, <1>1
  <2> QED  BY <2>2, <2>3, <2>4, <2>5
<1>4. k - i \in T
  <2>1. T \in SUBSET Nat /\ k - i \in Nat
    BY <1>1
  <2> HIDE DEF T
  <2> QED  BY <2>1, <1>2, <1>3, SetInduction
<1>5. i + (k - i) = k /\ k <= m
  BY <1>1
<1> QED  BY <1>4, <1>5

\* What Layout has left is not changed until the chunk is evaluated.
ColumnInv ==
  pc \in {"launch", "device"} =>
    /\ ofsOf = [i \in 1..Len(RefCols) |-> LayoutEnd[i - 1]]
    /\ kcsLen = LayoutEnd[Len(RefCols)]

LEMMA ColumnNext ==
  ASSUME ColumnInv, [Next]_vars
  PROVE  ColumnInv'
<1>1. ASSUME UNCHANGED offs PROVE LayoutEnd' = LayoutEnd
  BY <1>1 DEF LayoutEnd, ColumnSpace, NullMapLen, StromAlign, TypeAlign, Cell, NRows,
     KcsHeadLen, RefCols, ColCount
<1>2. RefCols' = RefCols
  BY DEF RefCols, ColCount
<1>3. CASE Layout
  <2>1. /\ ofsOf' = [i \in 1..Len(RefCols) |-> LayoutEnd[i - 1]]
        /\ kcsLen' = LayoutEnd[Len(RefCols)] /\ UNCHANGED offs
    BY <1>3 DEF Layout, chunkVars
  <2> QED  BY <2>1, <1>1, <1>2 DEF ColumnInv
<1>4. CASE Launch
  <2>1. UNCHANGED <<offs, ofsOf, kcsLen>> /\ pc = "launch"
    BY <1>4 DEF Launch, chunkVars, layoutVars
  <2> QED  BY <2>1, <1>1, <1>2 DEF ColumnInv
<1>5. CASE UNCHANGED vars
  <2>1. UNCHANGED <<offs, ofsOf, kcsLen, pc>>
    BY <1>5 DEF vars, chunkVars, layoutVars
  <2> QED  BY <2>1, <1>1, <1>2 DEF ColumnInv
<1>6. CASE pc' \notin {"launch", "device"}
  BY <1>6 DEF ColumnInv
<1>7. CASE \/ StartStore \/ StartStoreFails \/ LoadTuple \/ StoreFull \/ EndOfHeap
           \/ LaunchNoSize \/ NextChunk
  BY <1>6, <1>7 DEF StartStore, StartStoreFails, LoadTuple, StoreFull, EndOfHeap,
     LaunchNoSize, NextChunk
<1> QED  BY <1>3, <1>4, <1>5, <1>7 DEF Next, Stopped

\* A cell lies behind the null map of its column and before its end.
LEMMA CellInside ==
  ASSUME ColumnInv, NRows \in Nat, pc = "device",
         NEW i \in 1..Len(RefCols), NEW r \in 1..NRows
  PROVE  /\ Dest(i, r) \in Nat /\ Cell(RefCols[i]) \in Nat \ {0}
         /\ ofsOf[i] = LayoutEnd[i - 1] /\ LayoutEnd[i - 1] \in Nat /\ LayoutEnd[i] \in Nat
         /\ MapLen(RefCols[i]) \in Nat
         /\ Dest(i, r) = LayoutEnd[i - 1] + MapLen(RefCols[i]) + (r - 1) * Cell(RefCols[i])
         /\ LayoutEnd[i - 1] + MapLen(RefCols[i]) <= Dest(i, r)
         /\ Dest(i, r) + Cell(RefCols[i]) <= LayoutEnd[i]
<1> DEFINE j == RefCols[i]
           o == LayoutEnd[i - 1]
           w == MapLen(j)
           s == Cell(j)
           t == NRows * s
           u == (r - 1) * s
<1>1. /\ j \in 1..ColCount /\ i - 1 \in 0..Len(RefCols) /\ i \in 0..Len(RefCols)
      /\ o \in Nat /\ LayoutEnd[i] \in Nat /\ LayoutEnd[i] = o + ColumnSpace(j)
  <2>1. Len(RefCols) \in Nat
    BY LayoutShape
  <2>2. i - 1 \in 0..Len(RefCols) /\ i \in 0..Len(RefCols)
    BY <2>1
  <2> QED  BY <2>2, LayoutShape
<1>2. /\ w \in Nat /\ t \in Nat /\ ColumnSpace(j) \in Nat /\ w + t <= ColumnSpace(j)
  BY <1>1, SpaceShape
<1>3. s \in Nat \ {0}
  BY <1>1, ColsShape
<1>4. ofsOf[i] = o
  BY DEF ColumnInv
<1>5. Dest(i, r) = o + w + u
  BY <1>4 DEF Dest, MapLen
<1> HIDE DEF j, o, w, s
<1>6. u \in Nat /\ u + s <= t
  <2>1. r - 1 \in Nat /\ r \in Nat /\ r <= NRows
    OBVIOUS
  <2>2. u \in Nat /\ u + s = s * r
    BY <2>1, <1>3
  <2>3. s * r <= s * NRows /\ s * NRows = t
    BY <2>1, <1>3, Scaled
  <2> QED  BY <2>2, <2>3
<1>7. u \in Nat /\ t \in Nat
  BY <1>2, <1>6
<1>8. Dest(i, r) = o + w + (r - 1) * s
  BY <1>5
<1> HIDE DEF u, t
<1>9. Dest(i, r) \in Nat /\ o + w <= Dest(i, r) /\ Dest(i, r) + s <= LayoutEnd[i]
  BY <1>1, <1>2, <1>3, <1>5, <1>6
<1> QED  BY <1>1, <1>2, <1>3, <1>4, <1>8, <1>9 DEF j, o, w, s

LEMMA ColumnImplies ==
  ASSUME ColumnInv, NRows \in Nat, Len(RefCols) \in Nat
  PROVE  ColumnsFit
<1> SUFFICES ASSUME pc = "device" PROVE ColumnsFit
  BY DEF ColumnsFit
<1> DEFINE m == Len(RefCols)
           At(i, r) == Dest(i, r)
           Size(i) == Cell(RefCols[i])
<1>1. ASSUME NEW c \in Cells
      PROVE  \E i \in 1..m, r \in 1..NRows :
               c = [at |-> Dest(i, r), len |-> Cell(RefCols[i]), src |-> Source(r, RefCols[i])]
  BY DEF Cells
<1>2. ASSUME NEW i \in 1..m, NEW r \in 1..NRows
      PROVE  /\ KcsHeadLen <= At(i, r) /\ At(i, r) + Size(i) <= kcsLen
             /\ \A k \in 1..m : \/ Cols[RefCols[k]].notnull
                                \/ At(i, r) + Size(i) <= ofsOf[k]
                                \/ ofsOf[k] + UIntSize * ((NRows + 31) \div 32) <= At(i, r)
  <2>1. /\ At(i, r) \in Nat /\ Size(i) \in Nat \ {0} /\ LayoutEnd[i - 1] \in Nat
        /\ LayoutEnd[i] \in Nat /\ MapLen(RefCols[i]) \in Nat
        /\ LayoutEnd[i - 1] + MapLen(RefCols[i]) <= At(i, r)
        /\ At(i, r) + Size(i) <= LayoutEnd[i]
    BY CellInside
  <2>2. /\ i - 1 \in 0..m /\ i \in 0..m /\ 0 \in 0..m /\ m \in 0..m /\ i <= m /\ 0 <= i - 1
    OBVIOUS
  <2>3. /\ LayoutEnd[0] <= LayoutEnd[i - 1] /\ LayoutEnd[i] <= LayoutEnd[m]
        /\ LayoutEnd[0] = KcsHeadLen /\ LayoutEnd[0] \in Nat /\ LayoutEnd[m] \in Nat
        /\ kcsLen = LayoutEnd[m]
    <3>1. LayoutEnd[0] <= LayoutEnd[i - 1] /\ LayoutEnd[i] <= LayoutEnd[m]
      BY <2>2, EndsGrow
    <3>2. LayoutEnd[0] = KcsHeadLen /\ LayoutEnd[0] \in Nat /\ LayoutEnd[m] \in Nat
      BY <2>2, LayoutShape
    <3>3. kcsLen = LayoutEnd[m]
      BY DEF ColumnInv
    <3> QED  BY <3>1, <3>2, <3>3
  <2> HIDE DEF At, Size
  <2>4. KcsHeadLen <= At(i, r) /\ At(i, r) + Size(i) <= kcsLen
    <3> DEFINE a == LayoutEnd[0]
               b == LayoutEnd[i - 1]
               f == LayoutEnd[i]
               e == LayoutEnd[m]
               w == MapLen(RefCols[i])
               d == At(i, r)
               y == At(i, r) + Size(i)
    <3>1. /\ a \in Nat /\ b \in Nat /\ w \in Nat /\ d \in Nat
          /\ a = KcsHeadLen /\ a <= b /\ b + w <= d
      BY <2>1, <2>3, Zenon
    <3>2. /\ f \in Nat /\ e \in Nat /\ y \in Nat
          /\ kcsLen = e /\ y <= f /\ f <= e
      <4>1. y \in Nat
        BY <2>1
      <4> QED  BY <4>1, <2>1, <2>3, Zenon
    <3> HIDE DEF a, b, f, e, w, d, y
    <3>3. a <= d /\ y <= e
      BY <3>1, <3>2
    <3> QED  BY <3>1, <3>2, <3>3 DEF d, y
  <2>5. ASSUME NEW k \in 1..m, ~Cols[RefCols[k]].notnull
        PROVE  \/ At(i, r) + Size(i) <= ofsOf[k]
               \/ ofsOf[k] + UIntSize * ((NRows + 31) \div 32) <= At(i, r)
    <3> DEFINE v == UIntSize * ((NRows + 31) \div 32)
    <3>1. /\ ofsOf[k] = LayoutEnd[k - 1] /\ k - 1 \in 0..m /\ k \in 0..m
          /\ RefCols[k] \in 1..ColCount
      BY LayoutShape DEF ColumnInv
    <3>2. /\ LayoutEnd[k - 1] \in Nat /\ LayoutEnd[k] \in Nat
          /\ LayoutEnd[k] = LayoutEnd[k - 1] + ColumnSpace(RefCols[k])
      BY <3>1, LayoutShape
    <3>3. /\ MapLen(RefCols[k]) \in Nat /\ v <= MapLen(RefCols[k])
          /\ NRows * Cell(RefCols[k]) \in Nat /\ ColumnSpace(RefCols[k]) \in Nat
          /\ MapLen(RefCols[k]) + NRows * Cell(RefCols[k]) <= ColumnSpace(RefCols[k])
      BY <3>1, <2>5, SpaceShape
    <3>4. v \in Nat
      BY DEF UIntSize
    <3> HIDE DEF v
    <3>5. v <= ColumnSpace(RefCols[k])
      <4> DEFINE x == NRows * Cell(RefCols[k])
      <4>1. x \in Nat /\ MapLen(RefCols[k]) + x <= ColumnSpace(RefCols[k])
        BY <3>3
      <4> HIDE DEF x
      <4> QED  BY <4>1, <3>3, <3>4
    <3> DEFINE o == LayoutEnd[k - 1]
               e == LayoutEnd[k]
               b == LayoutEnd[i - 1]
               f == LayoutEnd[i]
               y == At(i, r) + Size(i)
               d == At(i, r)
    <3>6. /\ o \in Nat /\ e \in Nat /\ b \in Nat /\ f \in Nat /\ d \in Nat /\ y \in Nat
          /\ ofsOf[k] = o /\ o + v <= e /\ b <= d /\ y <= f
      <4>1. o + v <= e
        <5> DEFINE x == ColumnSpace(RefCols[k])
        <5>1. o \in Nat /\ x \in Nat /\ e = o + x /\ v <= x
          BY <3>2, <3>3, <3>5
        <5> HIDE DEF o, e, x
        <5> QED  BY <5>1, <3>4
      <4>2. y \in Nat
        BY <2>1
      <4>3. b <= d
        <5> DEFINE w == MapLen(RefCols[i])
        <5>1. w \in Nat /\ b + w <= d /\ b \in Nat /\ d \in Nat
          BY <2>1
        <5> HIDE DEF w, b, d
        <5> QED  BY <5>1
      <4> QED  BY <4>1, <4>2, <4>3, <3>1, <3>2, <2>1
    <3>7. CASE k = i
      <4> DEFINE w == MapLen(RefCols[i])
      <4>1. w \in Nat /\ v <= w /\ b + w <= d /\ o = b
        BY <3>3, <3>7, <2>1
      <4> HIDE DEF w, o, b, d, e, f, y
      <4>2. o + v <= d
        BY <4>1, <3>4, <3>6
      <4> QED  BY <4>2, <3>6 DEF d, v
    <3>8. CASE k < i
      <4>1. k <= i - 1
        BY <3>8
      <4>2. LayoutEnd[k] <= LayoutEnd[i - 1]
        BY <4>1, <3>1, <2>2, EndsGrow
      <4>3. e <= b
        BY <4>2
      <4> HIDE DEF o, b, d, e, f, y
      <4>4. o + v <= d
        BY <4>3, <3>4, <3>6
      <4> QED  BY <4>4, <3>6 DEF d, v
    <3>9. CASE i < k
      <4>1. i <= k - 1
        BY <3>9
      <4>2. LayoutEnd[i] <= LayoutEnd[k - 1]
        BY <4>1, <3>1, <2>2, EndsGrow
      <4>3. f <= o
        BY <4>2
      <4> HIDE DEF o, b, d, e, f, y
      <4>4. y <= o
        BY <4>3, <3>6
      <4> QED  BY <4>4, <3>6 DEF y
    <3> QED  BY <3>7, <3>8, <3>9 DEF v
  <2> QED  BY <2>4, <2>5
<1>3. ASSUME NEW i \in 1..m, NEW r \in 1..NRows, NEW k \in 1..m, NEW s \in 1..NRows,
             i < k \/ (i = k /\ r < s)
      PROVE  At(i, r) + Size(i) <= At(k, s)
  <2>1. CASE i = k /\ r < s
    <3> DEFINE z == Size(i)
               b == LayoutEnd[i - 1] + MapLen(RefCols[i])
    <3>1. /\ z \in Nat \ {0} /\ b \in Nat
          /\ At(i, r) = b + (r - 1) * z /\ At(k, s) = b + (s - 1) * z
      BY <2>1, CellInside
    <3> HIDE DEF z, b
    <3>2. r \in Nat /\ s - 1 \in Nat /\ r <= s - 1
      BY <2>1
    <3>3. z * r <= z * (s - 1)
      BY <3>1, <3>2, Scaled
    <3>4. (r - 1) * z + z = z * r /\ (s - 1) * z = z * (s - 1) /\ z * r \in Nat /\ z * (s - 1) \in Nat
          /\ (r - 1) * z \in Nat
      BY <3>1, <3>2
    <3> DEFINE x == (r - 1) * z
               y == (s - 1) * z
    <3>5. x + z <= y /\ x \in Nat /\ y \in Nat /\ At(i, r) = b + x /\ At(k, s) = b + y
      BY <3>1, <3>3, <3>4
    <3> HIDE DEF x, y, At, Size
    <3>6. At(i, r) + z <= At(k, s)
      BY <3>1, <3>5
    <3> QED  BY <3>6 DEF z
  <2>2. CASE i < k
    <3>1. /\ At(i, r) \in Nat /\ Size(i) \in Nat \ {0} /\ LayoutEnd[i] \in Nat
          /\ At(i, r) + Size(i) <= LayoutEnd[i]
      BY CellInside
    <3>2. /\ At(k, s) \in Nat /\ LayoutEnd[k - 1] \in Nat /\ MapLen(RefCols[k]) \in Nat
          /\ LayoutEnd[k - 1] + MapLen(RefCols[k]) <= At(k, s)
      BY CellInside
    <3>3. i \in 0..m /\ k - 1 \in 0..m /\ i <= k - 1
      BY <2>2
    <3>4. LayoutEnd[i] <= LayoutEnd[k - 1]
      BY <3>3, EndsGrow
    <3> DEFINE b == LayoutEnd[k - 1]
               f == LayoutEnd[i]
               w == MapLen(RefCols[k])
               y == At(i, r) + Size(i)
               d == At(k, s)
    <3>5. /\ b \in Nat /\ f \in Nat /\ w \in Nat /\ y \in Nat /\ d \in Nat
          /\ y <= f /\ f <= b /\ b + w <= d
      <4> HIDE DEF At, Size
      <4>1. y \in Nat
        BY <3>1
      <4> QED  BY <4>1, <3>1, <3>2, <3>4, Zenon
    <3> HIDE DEF b, f, w, y, d
    <3>6. y <= d
      BY <3>5
    <3> QED  BY <3>6 DEF y, d
  <2> QED  BY <2>1, <2>2, <1>3
<1>4. ASSUME NEW c \in Cells
      PROVE  /\ KcsHeadLen <= c.at /\ c.at + c.len <= kcsLen
             /\ \A i \in 1..m : \/ Cols[RefCols[i]].notnull
                                \/ c.at + c.len <= ofsOf[i]
                                \/ ofsOf[i] + UIntSize * ((NRows + 31) \div 32) <= c.at
  <2>1. PICK i \in 1..m, r \in 1..NRows : c.at = At(i, r) /\ c.len = Size(i)
    BY <1>1
  <2> HIDE DEF At, Size
  <2> QED  BY <2>1, <1>2
<1>5. ASSUME NEW c \in Cells, NEW d \in Cells, c # d
      PROVE  c.at + c.len <= d.at \/ d.at + d.len <= c.at
  <2>1. PICK i \in 1..m, r \in 1..NRows :
          c = [at |-> At(i, r), len |-> Size(i), src |-> Source(r, RefCols[i])]
    BY <1>1
  <2>2. PICK k \in 1..m, s \in 1..NRows :
          d = [at |-> At(k, s), len |-> Size(k), src |-> Source(s, RefCols[k])]
    BY <1>1
  <2>3. i # k \/ r # s
    BY <2>1, <2>2, <1>5
  <2>4. \/ i < k \/ (i = k /\ r < s)
        \/ k < i \/ (k = i /\ s < r)
    BY <2>3
  <2>5. c.at = At(i, r) /\ c.len = Size(i) /\ d.at = At(k, s) /\ d.len = Size(k)
    BY <2>1, <2>2
  <2> HIDE DEF At, Size
  <2> QED  BY <2>4, <2>5, <1>3
<1> QED  BY <1>4, <1>5 DEF ColumnsFit

\* Whatever columns and tuples a relation has, as long as no tuple makes the
\* subtraction wrap around: the tuples that pgstrom_load_row_store_heap copies
\* and the cells that kern_row_to_column writes lie inside their stores, apart
\* from each other, from offsets, headers and null maps.
THEOREM NothingOverlaps == ASSUME TuplesShort PROVE Spec => []StoresFit
<1>1. PICK k \in TupleKinds : ShortFor(TupleLen(k))
  BY DEF TuplesShort
<1> DEFINE l == TupleLen(k)
<1>2. l \in Nat \ {0} /\ ShortFor(l)
  BY <1>1, TupleShape
<1> HIDE DEF l
<1>3. Init => FitInv(l) /\ ColumnInv
  BY FitInit DEF Init, ColumnInv
<1>4. FitInv(l) /\ ColumnInv /\ [Next]_vars => FitInv(l)' /\ ColumnInv'
  BY <1>2, FitNext, ColumnNext
<1>5. FitInv(l) /\ ColumnInv => StoresFit
  <2> SUFFICES ASSUME FitInv(l), ColumnInv PROVE StoresFit
    OBVIOUS
  <2>1. NRows \in Nat
    BY DEF FitInv, NRows
  <2>2. Len(RefCols) \in Nat
    BY RefShape
  <2> QED  BY <2>1, <2>2, FitImplies, ColumnImplies DEF StoresFit
<1> QED  BY <1>3, <1>4, <1>5, PTL DEF Spec
=============================================================================
