---------------------------- MODULE ShmemProofs -----------------------------
(***************************************************************************)
(* Theorems about the shared memory allocator, for any number of clients,  *)
(* any layout of the segment and any requests.                             *)
(***************************************************************************)
EXTENDS Shmem, FiniteSetTheorems, TLAPS

(***************************************************************************)
(* The inductive invariant.                                                *)
(***************************************************************************)
\* What a client relies on where it is: it holds the spinlock of the zone it
\* works on, and the chunk it frees is on no list.
ControlInv ==
  /\ ~is_ready => held = {} /\ \A c \in Clients : pc[c] = "idle"
  /\ \A c \in Clients :
       /\ pc[c] \in {"try", "alloc", "next", "test"} => size[c] > 0
       /\ pc[c] \in {"alloc", "merge"} => at[c] \in Zones /\ lock[at[c]] = c
       /\ pc[c] \in {"alloc", "next"} => num_zones > 0

MergerOK(c) ==
  /\ cls[c] \in Classes /\ index[c] \in BlocksOf(at[c])
  /\ ~IsChained(at[c], index[c])
  /\ blocksz[at[c]][index[c]] > 0
MergeInv == \A c \in Clients : pc[c] = "merge" => MergerOK(c)

\* The descriptor of a free head has the size of its list.
ListInv ==
  \A z \in Zones, s \in Classes : \A i \in free_list[z][s] :
    blocksz[z][i] = 2^s * BlockLen

\* The size class of an area can be computed back from its size.
ActiveInv ==
  \A z \in Zones : \A i \in BlocksOf(z) :
    IsActive(z, i) /\ ~InMerge(z, i) =>
      FindLeastPot(blocksz[z][i] + MagicLen) \in Classes

\* Chunks end before the blocks that the setup has not reached.
FitInv ==
  \A z \in Zones :
    /\ blkno[z] > 0 => blkno[z] <= NumBlocks(z)
    /\ \A i \in BlocksOf(z), s \in Classes :
         IsChunk(z, i, s) => i + 2^s <= blkno[z]

\* An area in the hands of a client is an active chunk of its size.
HeldInv ==
  \A a \in held :
    /\ a.first \in BlocksOf(a.zone)
    /\ IsActive(a.zone, a.first) /\ ~InMerge(a.zone, a.first)
    /\ blocksz[a.zone][a.first] = a.size

\* The areas in use, of 2^s blocks
InUse(z, s) ==
  {i \in BlocksOf(z) : /\ IsActive(z, i) /\ ~InMerge(z, i)
                       /\ FindLeastPot(blocksz[z][i] + MagicLen) = s}

\* The counters are exact in the middle of a routine too, if the chunk that is
\* being freed is not counted.
CountInv ==
  \A z \in Zones, s \in Classes :
    /\ num_free[z][s] = Cardinality(free_list[z][s])
    /\ num_active[z][s] = Cardinality(InUse(z, s))

\* The zone z is in the middle of an allocation that has just halved a chunk:
\* there is nothing else on the list of the halves, nor on those below.
Halved(z, t) ==
  \E c \in Clients :
    /\ pc[c] = "alloc" /\ at[c] = z /\ ClassOf(c) <= t
    /\ \A j \in Classes : ClassOf(c) <= j /\ j < t => free_list[z][j] = {}
    /\ \E i \in BlocksOf(z) : free_list[z][t] = {i, i + 2^t}

\* Free buddies are the last two chunks of a zone, or the halves of a split.
BuddyInv ==
  \A z \in Zones, s \in Classes : \A i \in free_list[z][s] :
    FreeBuddies(z, i, s) =>
      NumBlocks(z) \in {i + 2^s, Buddy(i, s) + 2^s} \/ Halved(z, s)

\* The setup makes at most one chunk of a class other than the largest: there
\* is no room for two when it comes to this class.
RoomInv ==
  ~is_ready =>
    /\ \A z \in Zones, s \in Classes : s < MaxClass =>
         \A i, j \in free_list[z][s] : i = j
    /\ \A z \in Zones : z > zone => \A s \in Classes : free_list[z][s] = {}
    /\ zone \in Zones =>
         /\ \A s \in Classes : s < shift => free_list[zone][s] = {}
         /\ shift < MaxClass =>
              /\ blkno[zone] + 2^(shift+1) > NumBlocks(zone)
              /\ free_list[zone][shift] # {} =>
                   blkno[zone] + 2^shift > NumBlocks(zone)

ChunkInv == ListInv /\ ActiveInv /\ FitInv /\ ChunksDisjoint /\ WalkFindsHeads
Inv ==
  /\ TypeOK /\ ControlInv /\ MergeInv /\ ChunkInv /\ HeldInv
  /\ CountInv /\ BuddyInv /\ RoomInv

USE DEF setupVars, zoneVars, clientVars

(***************************************************************************)
(* Arithmetic of the layout.                                               *)
(***************************************************************************)
\* The number of zones and of blocks are integers.
LEMMA Layout ==
  /\ PlannedZones \in Nat
  /\ \A z \in Zones : z \in Nat /\ NumBlocks(z) \in Int
<1>1. PlannedZones \in Nat
  BY LengthsAssumption DEF PlannedZones, CeilDiv
<1>2. ASSUME NEW z \in Zones PROVE z \in Nat /\ NumBlocks(z) \in Int
  <2>1. z \in Nat
    BY <1>1 DEF Zones
  <2>2. Offset(z) \in Nat
    BY <2>1, LengthsAssumption DEF Offset
  <2>3. LengthOf(z) \in Int
    BY <2>2, LengthsAssumption DEF LengthOf
  <2> QED  BY <2>1, <2>3, LengthsAssumption DEF NumBlocks
<1> QED  BY <1>1, <1>2

\* find_least_pot returns a class, or the one beyond the last.
LEMMA LeastPotType ==
  ASSUME NEW n \in Nat
  PROVE  FindLeastPot(n) \in 0..MaxClass+1
<1> DEFINE S == {s \in Classes : 2^s * BlockLen < n}
<1>1. IsFiniteSet(0..MaxClass) /\ Cardinality(0..MaxClass) = MaxClass + 1
  BY LengthsAssumption, FS_Interval
<1>2. S \subseteq 0..MaxClass
  BY DEF Classes
<1>3. IsFiniteSet(S) /\ Cardinality(S) <= MaxClass + 1 /\ Cardinality(S) \in Nat
  BY <1>1, <1>2, FS_Subset, FS_CardinalityType
<1> QED  BY <1>3, LengthsAssumption DEF FindLeastPot

\* The chunk that find_least_pot chooses is large enough.
LEMMA LeastPotFits ==
  ASSUME NEW n \in Nat, FindLeastPot(n) \in Classes
  PROVE  n <= 2^FindLeastPot(n) * BlockLen
<1> DEFINE S == {s \in Classes : 2^s * BlockLen < n}
           k == FindLeastPot(n)
<1>0. k \in Nat /\ k <= MaxClass /\ k = Cardinality(S) /\ MaxClass \in Nat
  BY LengthsAssumption DEF Classes, FindLeastPot
<1>1. SUFFICES ASSUME ~(n <= 2^k * BlockLen) PROVE FALSE
  OBVIOUS
<1>2. 2^k * BlockLen < n
  BY <1>1, <1>0, PowersOfTwo, LengthsAssumption DEF Classes
<1>3. ASSUME NEW s \in 0..k PROVE s \in S
  <2>1. s \in Classes /\ k \in Classes
    BY <1>0 DEF Classes
  <2>2. 2^s \in Nat /\ 2^k \in Nat /\ 2^s <= 2^k
    BY <2>1, <1>0, PowersOfTwo
  <2> HIDE DEF k
  <2>3. 2^s * BlockLen <= 2^k * BlockLen
    BY <2>2, LengthsAssumption
  <2> QED  BY <2>1, <2>2, <2>3, <1>2, LengthsAssumption
<1>4. IsFiniteSet(0..k) /\ Cardinality(0..k) = k + 1
  BY <1>0, FS_Interval
<1>5. IsFiniteSet(0..MaxClass)
  BY LengthsAssumption, FS_Interval
<1>6. IsFiniteSet(S)
  BY <1>5, FS_Subset DEF Classes
<1>7. k + 1 <= Cardinality(S)
  BY <1>3, <1>4, <1>6, FS_Subset
<1> QED  BY <1>0, <1>7

\* pgstrom_shmem_alloc_alap asks for a positive size.
LEMMA RoundUpType ==
  ASSUME NEW n \in Nat
  PROVE  RoundUp(n) \in Nat
<1> DEFINE k == FindLeastPot(n + MagicLen)
<1>1. n + MagicLen \in Nat
  BY LengthsAssumption
<1>2. k \in 0..MaxClass+1
  BY <1>1, LeastPotType
<1> HIDE DEF k
<1>3. 2^k \in Nat /\ 2^k > 0
  <2>1. CASE k \in Classes
    BY <2>1, PowersOfTwo
  <2>2. CASE k = MaxClass + 1
    <3>1. MaxClass \in Classes
      BY LengthsAssumption DEF Classes
    <3> QED  BY <3>1, <2>2, PowersOfTwo
  <2> QED  BY <1>2, <2>1, <2>2, LengthsAssumption DEF Classes
<1>4. 2^k * BlockLen = BlockLen + (2^k - 1) * BlockLen /\ (2^k - 1) * BlockLen \in Nat
  BY <1>3, LengthsAssumption
<1> QED  BY <1>4, LengthsAssumption DEF RoundUp, k

\* The buddy of a chunk lies in front of it or behind it, never before the
\* zone.
LEMMA BuddyNeighbour ==
  ASSUME NEW i \in Nat, NEW s \in Classes
  PROVE  /\ Buddy(i, s) \in Nat
         /\ Buddy(i, s) = i + 2^s \/ Buddy(i, s) + 2^s = i
<1>1. 2^s \in Nat /\ 2^s > 0
  BY PowersOfTwo
<1> DEFINE p == 2^s
<1> HIDE DEF p
<1>2. (i \div p) % 2 # 0 => i >= p
  BY <1>1 DEF p
<1> QED  BY <1>1, <1>2 DEF Buddy, p

\* One block of 2^s further on, the quotient is one more.
LEMMA NextQuotient ==
  ASSUME NEW i \in Nat, NEW p \in Nat, p > 0
  PROVE  /\ i \div p \in Nat
         /\ (i + p) \div p = (i \div p) + 1
         /\ i >= p => (i - p) \div p = (i \div p) - 1
<1>1. i \div p \in Nat
  OBVIOUS
<1>2. (i + p) \div p = (i \div p) + 1
  OBVIOUS
<1>3. ASSUME i >= p PROVE (i - p) \div p = (i \div p) - 1
  BY <1>3
<1> QED  BY <1>1, <1>2, <1>3

\* A buddy is another block, and its buddy is the first one.
LEMMA BuddyBack ==
  ASSUME NEW i \in Nat, NEW s \in Classes
  PROVE  Buddy(i, s) # i /\ Buddy(Buddy(i, s), s) = i
<1>1. 2^s \in Nat /\ 2^s > 0
  BY PowersOfTwo
<1> DEFINE p == 2^s
           q == i \div p
<1>2. /\ p \in Nat /\ p > 0 /\ q \in Nat
      /\ (i + p) \div p = q + 1 /\ (i >= p => (i - p) \div p = q - 1)
  BY <1>1, NextQuotient
<1>3. q % 2 # 0 => i >= p
  BY <1>1
<1>4. \A j : Buddy(j, s) = IF (j \div p) % 2 = 0 THEN j + p ELSE j - p
  BY DEF Buddy
<1>5. q = i \div p
  OBVIOUS
<1> HIDE DEF p, q
<1>6. CASE q % 2 = 0
  <2>1. (q + 1) % 2 # 0
    BY <1>2, <1>6
  <2>2. Buddy(i, s) = i + p /\ Buddy(i + p, s) = (i + p) - p
    BY <2>1, <1>2, <1>4, <1>5, <1>6
  <2> QED  BY <2>2, <1>2
<1>7. CASE q % 2 # 0
  <2>1. (q - 1) % 2 = 0
    BY <1>2, <1>7
  <2>2. Buddy(i, s) = i - p /\ Buddy(i - p, s) = (i - p) + p
    BY <2>1, <1>2, <1>3, <1>4, <1>5, <1>7
  <2> QED  BY <2>2, <1>2
<1> QED  BY <1>6, <1>7

(***************************************************************************)
(* The sets that the counters count.                                       *)
(***************************************************************************)
\* A zone has finitely many blocks.
LEMMA ZoneFinite ==
  ASSUME TypeOK, NEW z \in Zones, NEW s \in Classes
  PROVE  IsFiniteSet(free_list[z][s]) /\ IsFiniteSet(InUse(z, s))
<1>1. IsFiniteSet(BlocksOf(z))
  <2>1. NumBlocks(z) - 1 \in Int
    BY Layout
  <2> QED  BY <2>1, FS_Interval DEF BlocksOf
<1>2. free_list[z][s] \in SUBSET BlocksOf(z) /\ InUse(z, s) \in SUBSET BlocksOf(z)
  BY DEF TypeOK, ZoneTypeOK, InUse
<1> QED  BY <1>1, <1>2, FS_Subset

\* If the same chunks are in use, with the same sizes, so they are class by
\* class.
LEMMA UseSame ==
  ASSUME \A y \in Zones : \A j \in BlocksOf(y) :
           /\ (IsActive(y, j) /\ ~InMerge(y, j))' <=> IsActive(y, j) /\ ~InMerge(y, j)
           /\ IsActive(y, j) /\ ~InMerge(y, j) => blocksz'[y][j] = blocksz[y][j]
  PROVE  \A y \in Zones, t \in Classes : InUse(y, t)' = InUse(y, t)
BY DEF InUse

\* A halved chunk stays the exception while its client stays in the routine.
LEMMA HalvedKept ==
  ASSUME NEW y \in Zones, NEW t \in Classes, Halved(y, t),
         \A j \in Classes : free_list'[y][j] = free_list[y][j],
         \A d \in Clients : pc[d] = "alloc" /\ at[d] = y =>
           pc'[d] = "alloc" /\ at'[d] = at[d] /\ size'[d] = size[d]
  PROVE  Halved(y, t)'
BY DEF Halved, ClassOf

\* The buddies of a zone whose lists have not grown are accounted for, if the
\* halved chunks are.
LEMMA BuddiesKept ==
  ASSUME Inv, NEW y \in Zones, NEW t \in Classes, NEW i \in free_list'[y][t],
         free_list'[y][t] \subseteq free_list[y][t], FreeBuddies(y, i, t)',
         FreeBuddies(y, i, t) /\ Halved(y, t) => Halved(y, t)'
  PROVE  NumBlocks(y) \in {i + 2^t, Buddy(i, t) + 2^t} \/ Halved(y, t)'
<1>1. FreeBuddies(y, i, t)
  BY DEF FreeBuddies
<1> QED  BY <1>1 DEF Inv, BuddyInv

\* The segment is empty before its setup.
LEMMA InitInv == Init => Inv
<1> SUFFICES ASSUME Init PROVE Inv
  OBVIOUS
<1> USE DEF Init
<1>1. is_ready \in BOOLEAN
  BY Zenon
<1>2. TypeOK
  <2>1. SetupTypeOK
    BY <1>1, Layout, LengthsAssumption DEF SetupTypeOK, Classes
  <2>2. ZoneTypeOK
    BY DEF ZoneTypeOK
  <2>3. ClientTypeOK
    BY DEF ClientTypeOK
  <2> QED  BY <2>1, <2>2, <2>3 DEF TypeOK
<1>3. ControlInv /\ MergeInv
  BY DEF ControlInv, MergeInv
<1>4. ListInv /\ ActiveInv
  BY DEF ListInv, ActiveInv, IsActive
<1>5. \A z \in Zones : \A i \in BlocksOf(z), s \in Classes : ~IsChunk(z, i, s)
  BY DEF IsChunk, IsActive, Merging
<1>6. FitInv /\ ChunksDisjoint /\ HeldInv
  BY <1>5 DEF FitInv, ChunksDisjoint, HeldInv
<1>7. WalkFindsHeads
  BY <1>5 DEF WalkFindsHeads
<1>8. BuddyInv /\ RoomInv
  BY LengthsAssumption DEF BuddyInv, RoomInv, Classes
<1>9. CountInv
  <2>1. \A z \in Zones, s \in Classes : InUse(z, s) = {} /\ free_list[z][s] = {}
    BY DEF InUse, IsActive
  <2> QED  BY <2>1, FS_EmptySet DEF CountInv
<1> QED  BY <1>2, <1>3, <1>4, <1>6, <1>7, <1>8, <1>9 DEF Inv, ChunkInv

(***************************************************************************)
(* Steps that leave the chunks of all zones alone.                         *)
(***************************************************************************)
SameChunks ==
  \A z \in Zones : \A i \in BlocksOf(z), s \in Classes :
    IsChunk(z, i, s)' <=> IsChunk(z, i, s)

\* If the chunks stay the same, they stay disjoint, inside their zones and
\* without gaps.
LEMMA ChunksKept ==
  ASSUME TypeOK, FitInv, ChunksDisjoint, WalkFindsHeads, blkno' = blkno, SameChunks
  PROVE  FitInv' /\ ChunksDisjoint' /\ WalkFindsHeads'
<1>1. FitInv'
  BY DEF FitInv, SameChunks
<1>2. ChunksDisjoint'
  BY DEF ChunksDisjoint, SameChunks
<1>3. WalkFindsHeads'
  <2> SUFFICES ASSUME NEW z \in Zones
               PROVE  /\ blkno[z] > 0 => \E s \in Classes : IsChunk(z, 0, s)'
                      /\ \A i \in BlocksOf(z), s \in Classes : IsChunk(z, i, s)' =>
                           \/ i + 2^s = blkno[z]
                           \/ \E t \in Classes : IsChunk(z, i + 2^s, t)'
    BY DEF WalkFindsHeads
  <2>1. \A j \in Nat : j < blkno[z] => j \in BlocksOf(z)
    BY Layout DEF FitInv, TypeOK, SetupTypeOK, BlocksOf
  <2>2. \A j \in Nat, t \in Classes : j < blkno[z] => (IsChunk(z, j, t)' <=> IsChunk(z, j, t))
    BY <2>1 DEF SameChunks
  <2>3. blkno[z] \in Nat
    BY DEF TypeOK, SetupTypeOK
  <2>4. blkno[z] > 0 => \E s \in Classes : IsChunk(z, 0, s)'
    BY <2>2, <2>3 DEF WalkFindsHeads
  <2>5. ASSUME NEW i \in BlocksOf(z), NEW s \in Classes, IsChunk(z, i, s)',
               i + 2^s # blkno[z]
        PROVE  \E t \in Classes : IsChunk(z, i + 2^s, t)'
    <3>1. IsChunk(z, i, s)
      BY <2>5 DEF SameChunks
    <3>2. i + 2^s <= blkno[z]
      BY <3>1 DEF FitInv
    <3>3. i + 2^s \in Nat /\ i + 2^s < blkno[z]
      BY <3>2, <2>3, <2>5, Layout, PowersOfTwo DEF BlocksOf
    <3>4. PICK t \in Classes : IsChunk(z, i + 2^s, t)
      BY <3>1, <2>5 DEF WalkFindsHeads
    <3> QED  BY <3>3, <3>4, <2>2
  <2> QED  BY <2>4, <2>5
<1> QED  BY <1>1, <1>2, <1>3

\* Nobody starts, continues or ends a merge.
MergersKept ==
  \A c \in Clients : pc[c] = "merge" \/ pc'[c] = "merge" =>
    pc'[c] = pc[c] /\ at'[c] = at[c] /\ index'[c] = index[c] /\ cls'[c] = cls[c]

\* Then the same chunks are being merged.
LEMMA MergersSame ==
  ASSUME MergersKept
  PROVE  \A z, i, s : /\ InMerge(z, i)' <=> InMerge(z, i)
                      /\ Merging(z, i, s)' <=> Merging(z, i, s)
BY DEF InMerge, Merging, MergersKept

\* A step that touches neither descriptors nor lists preserves what is said
\* of them.
LEMMA Quiet ==
  ASSUME Inv, UNCHANGED <<zoneVars, blkno, held>>, MergersKept
  PROVE  ChunkInv' /\ MergeInv' /\ HeldInv' /\ CountInv'
<1>1. \A z, i : /\ IsChained(z, i)' <=> IsChained(z, i)
                /\ IsActive(z, i)' <=> IsActive(z, i)
  BY DEF IsChained, IsActive
<1>2. \A z, i, s : /\ InMerge(z, i)' <=> InMerge(z, i)
                   /\ Merging(z, i, s)' <=> Merging(z, i, s)
  BY MergersSame
<1>3. SameChunks
  BY <1>1, <1>2 DEF SameChunks, IsChunk
<1>4. FitInv' /\ ChunksDisjoint' /\ WalkFindsHeads'
  BY <1>3, ChunksKept DEF Inv, ChunkInv
<1>5. ListInv' /\ ActiveInv'
  BY <1>1, <1>2 DEF Inv, ChunkInv, ListInv, ActiveInv
<1>6. MergeInv'
  BY <1>1 DEF Inv, MergeInv, MergerOK, MergersKept
<1>7. HeldInv'
  BY <1>1, <1>2 DEF Inv, HeldInv
<1>8. CountInv'
  <2>1. \A z \in Zones, s \in Classes : InUse(z, s)' = InUse(z, s)
    BY <1>1, <1>2, UseSame
  <2> QED  BY <2>1 DEF Inv, CountInv
<1> QED  BY <1>4, <1>5, <1>6, <1>7, <1>8 DEF ChunkInv

\* The steps of the setup other than the placing of a chunk
LEMMA SetupInv ==
  ASSUME Inv, SetupShift \/ SetupZone \/ SetupEnd
  PROVE  Inv'
<1>1. SetupTypeOK'
  <2>1. zone' \in 0..PlannedZones /\ num_zones' \in 0..zone' /\ shift' \in Classes
    BY Layout, LengthsAssumption
       DEF Inv, TypeOK, SetupTypeOK, SetupShift, SetupZone, SetupEnd, SettingUp, Classes
  <2>2. is_ready' \in BOOLEAN
    BY Zenon DEF Inv, TypeOK, SetupTypeOK, SetupShift, SetupZone, SetupEnd
  <2>3. blkno' = blkno
    BY DEF SetupShift, SetupZone, SetupEnd
  <2> QED  BY <2>1, <2>2, <2>3 DEF Inv, TypeOK, SetupTypeOK
<1>2. UNCHANGED <<zoneVars, blkno, held, lock, zone_index, clientVars>>
  BY DEF SetupShift, SetupZone, SetupEnd
<1>3. ZoneTypeOK' /\ ClientTypeOK'
  BY <1>2 DEF Inv, TypeOK, ZoneTypeOK, ClientTypeOK
<1>4. ControlInv'
  <2>1. ~is_ready
    BY DEF SetupShift, SetupZone, SetupEnd, SettingUp
  <2>2. held' = {} /\ \A c \in Clients : pc'[c] = "idle"
    BY <2>1, <1>2 DEF Inv, ControlInv
  <2> QED  BY <2>2 DEF ControlInv
<1>5. MergersKept
  BY <1>2 DEF MergersKept
<1>6. BuddyInv'
  <2>1. \A z \in Zones, s \in Classes : Halved(z, s)' <=> Halved(z, s)
    BY <1>2 DEF Halved, ClassOf
  <2> QED  BY <2>1, <1>2 DEF Inv, BuddyInv, FreeBuddies
<1>7. RoomInv'
  <2>1. CASE SetupShift
    <3>1. /\ shift \in Nat /\ shift' = shift - 1 /\ shift' + 1 = shift /\ shift <= MaxClass
          /\ zone' = zone /\ shift' \in Classes /\ MaxClass \in Nat
      BY <2>1, <1>1, LengthsAssumption DEF SetupShift, Inv, TypeOK, SetupTypeOK, Classes
    <3>2. blkno[zone] + 2^shift > NumBlocks(zone) /\ ~is_ready
      BY <2>1 DEF SetupShift, SettingUp
    <3>3. zone \in Zones => /\ free_list[zone][shift'] = {}
                           /\ \A s \in Classes : s < shift' => free_list[zone][s] = {}
      BY <3>1, <3>2 DEF Inv, RoomInv, Classes
    <3> QED  BY <3>1, <3>2, <3>3, <1>2 DEF Inv, RoomInv
  <2>2. CASE SetupZone
    <3>1. /\ zone' = zone + 1 /\ shift' = MaxClass /\ ~is_ready /\ zone \in Nat
      BY <2>2, Layout DEF SetupZone, SettingUp, Inv, TypeOK, SetupTypeOK
    <3>2. \A z \in Zones : z \in Nat
      BY Layout
    <3>3. \A z \in Zones : z > zone => \A s \in Classes : free_list[z][s] = {}
      BY <3>1 DEF Inv, RoomInv
    <3> QED  BY <3>1, <3>2, <3>3, <1>2, LengthsAssumption DEF Inv, RoomInv
  <2>3. CASE SetupEnd
    BY <2>3 DEF SetupEnd, RoomInv
  <2> QED  BY <2>1, <2>2, <2>3
<1> QED  BY <1>1, <1>2, <1>3, <1>4, <1>5, <1>6, <1>7, Quiet DEF Inv, TypeOK

(***************************************************************************)
(* Steps of a client that only search.                                     *)
(***************************************************************************)
SearchStep(c) ==
  \/ \E n \in Nat : Alloc(c, n)
  \/ LockZone(c) \/ ZoneFull(c) \/ OutOfRange(c) \/ NextZone(c) \/ TestZone(c)

\* The search for a zone keeps the types and the locks,
LEMMA SearchType ==
  ASSUME Inv, NEW c \in Clients, SearchStep(c)
  PROVE  TypeOK' /\ ControlInv'
<1> USE DEF Goto, Unlock, Return
<1>0. /\ SetupTypeOK /\ ZoneTypeOK /\ ClientTypeOK /\ ControlInv
      /\ ProcessOf[c] \in Processes
  BY ClientsAssumption DEF Inv, TypeOK
<1>1. CASE \E n \in Nat : Alloc(c, n)
  <2>1. PICK n \in Nat : Alloc(c, n)
    BY <1>1
  <2>2. n \in Nat /\ n > 0 /\ is_ready
    BY <2>1 DEF Alloc, Acceptable
  <2>3. SetupTypeOK' /\ ZoneTypeOK'
    BY <2>1, <1>0 DEF Alloc, SetupTypeOK, ZoneTypeOK
  <2>4. ClientTypeOK'
    BY <2>1, <2>2, <1>0 DEF Alloc, ClientTypeOK
  <2>5. ControlInv'
    BY <2>1, <2>2, <1>0 DEF Alloc, ControlInv, ClientTypeOK
  <2> QED  BY <2>3, <2>4, <2>5 DEF TypeOK
<1>2. CASE LockZone(c)
  <2> DEFINE z == zone_index[ProcessOf[c]]
  <2>1. z \in Zones /\ num_zones > 0 /\ num_zones \in Nat
    BY <1>2, <1>0, Layout DEF LockZone, ClientTypeOK, SetupTypeOK, Zones
  <2>2. SetupTypeOK' /\ ZoneTypeOK'
    BY <1>2, <1>0, <2>1 DEF LockZone, SetupTypeOK, ZoneTypeOK
  <2>3. ClientTypeOK'
    BY <1>2, <1>0, <2>1, Layout DEF LockZone, ClientTypeOK
  <2>4. ASSUME NEW d \in Clients
        PROVE  /\ pc'[d] \in {"try", "alloc", "next", "test"} => size'[d] > 0
               /\ pc'[d] \in {"alloc", "merge"} => at'[d] \in Zones /\ lock'[at'[d]] = d
               /\ pc'[d] \in {"alloc", "next"} => num_zones' > 0
    <3>1. CASE d = c
      BY <3>1, <1>2, <1>0, <2>1 DEF LockZone, ControlInv, ClientTypeOK, ZoneTypeOK
    <3>2. CASE d # c
      BY <3>2, <1>2, <1>0, <2>1, ClientsAssumption
         DEF LockZone, ControlInv, ClientTypeOK, ZoneTypeOK
    <3> QED  BY <3>1, <3>2
  <2>5. is_ready /\ is_ready'
    BY <1>2, <1>0 DEF LockZone, ControlInv
  <2> QED  BY <2>2, <2>3, <2>4, <2>5 DEF TypeOK, ControlInv
<1>3. CASE ZoneFull(c)
  <2>1. at[c] \in Zones /\ lock[at[c]] = c /\ is_ready
    BY <1>3, <1>0 DEF ZoneFull, ControlInv
  <2>2. SetupTypeOK' /\ ZoneTypeOK' /\ ClientTypeOK'
    BY <1>3, <1>0, <2>1 DEF ZoneFull, SetupTypeOK, ZoneTypeOK, ClientTypeOK
  <2>3. ControlInv'
    BY <1>3, <1>0, <2>1 DEF ZoneFull, ControlInv, ClientTypeOK, ZoneTypeOK
  <2> QED  BY <2>2, <2>3 DEF TypeOK
<1>4. CASE OutOfRange(c)
  <2>1. SetupTypeOK' /\ ZoneTypeOK' /\ ClientTypeOK'
    BY <1>4, <1>0 DEF OutOfRange, SetupTypeOK, ZoneTypeOK, ClientTypeOK
  <2>2. ControlInv'
    BY <1>4, <1>0 DEF OutOfRange, ControlInv, ClientTypeOK
  <2> QED  BY <2>1, <2>2 DEF TypeOK
<1>5. CASE NextZone(c)
  <2>1. num_zones \in Nat /\ num_zones > 0 /\ zone_index[ProcessOf[c]] \in Nat
    BY <1>5, <1>0, Layout DEF NextZone, ControlInv, SetupTypeOK, ClientTypeOK
  <2>2. (zone_index[ProcessOf[c]] + 1) % num_zones \in Nat
    BY <2>1
  <2>3. SetupTypeOK' /\ ZoneTypeOK' /\ ClientTypeOK'
    BY <1>5, <1>0, <2>2 DEF NextZone, SetupTypeOK, ZoneTypeOK, ClientTypeOK
  <2>4. ControlInv'
    BY <1>5, <1>0 DEF NextZone, ControlInv, ClientTypeOK
  <2> QED  BY <2>3, <2>4 DEF TypeOK
<1>6. CASE TestZone(c)
  <2>1. SetupTypeOK' /\ ZoneTypeOK'
    BY <1>6, <1>0 DEF TestZone, SetupTypeOK, ZoneTypeOK
  <2>5. ClientTypeOK'
    <3>1. CASE Exhausted(c)
      BY <1>6, <1>0, <3>1 DEF TestZone, ClientTypeOK
    <3>2. CASE ~Exhausted(c)
      BY <1>6, <1>0, <3>2 DEF TestZone, ClientTypeOK
    <3> QED  BY <3>1, <3>2
  <2>2. ControlInv'
    BY <1>6, <1>0 DEF TestZone, ControlInv, ClientTypeOK
  <2> QED  BY <2>1, <2>2, <2>5 DEF TypeOK
<1> QED  BY <1>1, <1>2, <1>3, <1>4, <1>5, <1>6 DEF SearchStep

\* and the invariant.
LEMMA SearchInv ==
  ASSUME Inv, NEW c \in Clients, SearchStep(c)
  PROVE  Inv'
<1>1. UNCHANGED <<zoneVars, blkno, held>>
  BY DEF SearchStep, Alloc, LockZone, ZoneFull, OutOfRange, NextZone, TestZone
<1>2. MergersKept
  <2>1. pc[c] # "merge" /\ pc'[c] # "merge" /\ \A d \in Clients \ {c} :
          pc'[d] = pc[d] /\ at'[d] = at[d] /\ index'[d] = index[d] /\ cls'[d] = cls[d]
    BY DEF SearchStep, Alloc, LockZone, ZoneFull, OutOfRange, NextZone, TestZone, Goto,
           Return, Inv, TypeOK, ClientTypeOK
  <2> QED  BY <2>1 DEF MergersKept
<1>3. RoomInv'
  <2>1. is_ready' = is_ready /\ is_ready
    BY DEF SearchStep, Alloc, Acceptable, LockZone, ZoneFull, OutOfRange, NextZone, TestZone,
           Inv, ControlInv
  <2> QED  BY <2>1 DEF RoomInv
<1>4. BuddyInv'
  <2> SUFFICES ASSUME NEW y \in Zones, NEW t \in Classes, NEW i \in free_list'[y][t],
                      FreeBuddies(y, i, t)'
               PROVE  NumBlocks(y) \in {i + 2^t, Buddy(i, t) + 2^t} \/ Halved(y, t)'
    BY DEF BuddyInv
  <2>1. \A d \in Clients \ {c} : pc'[d] = pc[d] /\ at'[d] = at[d] /\ size'[d] = size[d]
    BY DEF SearchStep, Alloc, LockZone, ZoneFull, OutOfRange, NextZone, TestZone, Goto,
           Return, Inv, TypeOK, ClientTypeOK
  <2>2. ASSUME FreeBuddies(y, i, t), Halved(y, t) PROVE pc[c] = "alloc" => at[c] # y
    <3> SUFFICES ASSUME pc[c] = "alloc", at[c] = y PROVE FALSE
      OBVIOUS
    <3>1. PICK d \in Clients : /\ pc[d] = "alloc" /\ at[d] = y /\ ClassOf(d) <= t
                               /\ \E j \in BlocksOf(y) : free_list[y][t] = {j, j + 2^t}
      BY <2>2 DEF Halved
    <3>2. d = c
      BY <3>1 DEF Inv, ControlInv
    <3>3. ClassOf(c) <= t /\ free_list[y][t] # {} /\ t < MaxClass
      BY <2>2, <3>1, <3>2 DEF FreeBuddies
    <3>4. ZoneFull(c) \/ OutOfRange(c)
      BY DEF SearchStep, Alloc, LockZone, NextZone, TestZone
    <3>5. ClassOf(c) \in Nat
      <4>1. size[c] + MagicLen \in Nat
        BY LengthsAssumption DEF Inv, TypeOK, ClientTypeOK
      <4> QED  BY <4>1, LeastPotType, LengthsAssumption DEF ClassOf
    <3> QED  BY <3>3, <3>4, <3>5, LengthsAssumption DEF ZoneFull, OutOfRange, Classes
  <2>3. FreeBuddies(y, i, t) /\ Halved(y, t) => Halved(y, t)'
    <3> SUFFICES ASSUME FreeBuddies(y, i, t), Halved(y, t) PROVE Halved(y, t)'
      OBVIOUS
    <3>1. \A d \in Clients : pc[d] = "alloc" /\ at[d] = y =>
            pc'[d] = "alloc" /\ at'[d] = at[d] /\ size'[d] = size[d]
      BY <2>1, <2>2
    <3>2. free_list' = free_list
      BY <1>1
    <3> QED  BY <3>1, <3>2, HalvedKept
  <2> QED  BY <2>3, <1>1, BuddiesKept
<1> QED  BY <1>1, <1>2, <1>3, <1>4, Quiet, SearchType DEF Inv

(***************************************************************************)
(* A chunk that changes hands stays the chunk it was.                      *)
(***************************************************************************)
\* A free head is on one list.
LEMMA OneList ==
  ASSUME Inv, NEW z \in Zones, NEW i, NEW s \in Classes, NEW t \in Classes,
         i \in free_list[z][s], i \in free_list[z][t]
  PROVE  s = t
<1>1. i \in BlocksOf(z) /\ i \in Int
  BY DEF Inv, TypeOK, ZoneTypeOK, BlocksOf
<1>2. IsChunk(z, i, s) /\ IsChunk(z, i, t)
  BY DEF IsChunk
<1>3. 2^s \in Nat \ {0} /\ 2^t \in Nat \ {0}
  BY PowersOfTwo
<1> QED  BY <1>1, <1>2, <1>3 DEF Inv, ChunkInv, ChunksDisjoint

\* Nobody else works on the zone that a client has locked.
LEMMA Exclusive ==
  ASSUME Inv, NEW c \in Clients, NEW d \in Clients, pc[c] \in {"alloc", "merge"},
         pc[d] \in {"alloc", "merge"}, at[d] = at[c]
  PROVE  d = c
BY DEF Inv, ControlInv

\* Taking a free chunk keeps the types and the locks,
LEMMA TakeType ==
  ASSUME Inv, NEW c \in Clients, Take(c)
  PROVE  TypeOK' /\ ControlInv'
<1> DEFINE z == at[c]
           s == ClassOf(c)
<1>0. SetupTypeOK /\ ZoneTypeOK /\ ClientTypeOK /\ ControlInv
  BY DEF Inv, TypeOK
<1>1. z \in Zones /\ lock[z] = c /\ size[c] \in Nat /\ is_ready
  BY <1>0 DEF Take, ControlInv, ClientTypeOK
<1>2. s \in Classes
  <2>1. size[c] + MagicLen \in Nat
    BY <1>1, LengthsAssumption
  <2>2. s \in 0..MaxClass+1
    BY <2>1, LeastPotType DEF ClassOf
  <2> QED  BY <2>2, LengthsAssumption DEF Take, Classes
<1> HIDE DEF s, z
<1>3. SetupTypeOK'
  BY <1>0 DEF Take, SetupTypeOK
<1>4. ZoneTypeOK'
  <2>1. PICK i \in free_list[z][s] :
          /\ free_list' = [free_list EXCEPT ![z][s] = @ \ {i}]
          /\ blocksz' = [blocksz EXCEPT ![z][i] = size[c]]
          /\ held' = held \cup {[zone |-> z, first |-> i, size |-> size[c]]}
    BY DEF Take, s, z
  <2>2. i \in BlocksOf(z) /\ i \in Nat
    BY <1>0, <1>1, <1>2, Layout DEF ZoneTypeOK, BlocksOf
  <2>3. held' \subseteq Areas
    BY <2>1, <2>2, <1>0, <1>1 DEF ZoneTypeOK, Areas
  <2>4. lock' \in [Zones -> Clients \cup {NoClient}]
    BY <1>0, <1>1 DEF Take, Unlock, ZoneTypeOK, z
  <2>5. /\ num_free' \in [Zones -> [Classes -> Int]]
        /\ num_active' \in [Zones -> [Classes -> Int]]
    BY <1>0, <1>1, <1>2 DEF Take, ZoneTypeOK, z, s
  <2>6. /\ DOMAIN blocksz' = Zones /\ DOMAIN free_list' = Zones
        /\ \A y \in Zones : blocksz'[y] \in [BlocksOf(y) -> Nat]
        /\ \A y \in Zones : free_list'[y] \in [Classes -> SUBSET BlocksOf(y)]
    BY <2>1, <2>2, <1>0, <1>1, <1>2 DEF ZoneTypeOK
  <2> QED  BY <2>3, <2>4, <2>5, <2>6 DEF ZoneTypeOK
<1>5. ClientTypeOK'
  BY <1>0 DEF Take, Return, Goto, ClientTypeOK
<1>6. ControlInv'
  BY <1>0, <1>1 DEF Take, Return, Goto, Unlock, ControlInv, ClientTypeOK, ZoneTypeOK, z
<1> QED  BY <1>3, <1>4, <1>5, <1>6 DEF TypeOK

\* and the chunk is in use with the class it was taken from.
LEMMA TakeInv ==
  ASSUME Inv, NEW c \in Clients, Take(c)
  PROVE  Inv'
<1> DEFINE z == at[c]
           s == ClassOf(c)
<1>0. SetupTypeOK /\ ZoneTypeOK /\ ClientTypeOK /\ ControlInv /\ MergeInv
  BY DEF Inv, TypeOK
<1>1. z \in Zones /\ size[c] \in Nat /\ size[c] > 0
  BY <1>0 DEF Take, ControlInv, ClientTypeOK
<1>2. s \in Classes
  <2>1. size[c] + MagicLen \in Nat
    BY <1>1, LengthsAssumption
  <2>2. s \in 0..MaxClass+1
    BY <2>1, LeastPotType DEF ClassOf
  <2> QED  BY <2>2, LengthsAssumption DEF Take, Classes
<1>3. PICK i \in free_list[z][s] :
        /\ free_list' = [free_list EXCEPT ![z][s] = @ \ {i}]
        /\ blocksz' = [blocksz EXCEPT ![z][i] = size[c]]
        /\ held' = held \cup {[zone |-> z, first |-> i, size |-> size[c]]}
  BY DEF Take
<1>4. FindLeastPot(size[c] + MagicLen) = s /\ blkno' = blkno
  BY DEF ClassOf, Take
<1>5. MergersKept
  BY <1>0 DEF MergersKept, Take, Return, Goto, ClientTypeOK
<1> HIDE DEF s, z
<1>6. i \in BlocksOf(z)
  BY <1>0, <1>1, <1>2 DEF ZoneTypeOK
<1>7. \A t \in Classes : i \in free_list[z][t] => t = s
  BY <1>1, <1>2, OneList
<1>8. \A y \in Zones : \A j \in BlocksOf(y) :
        /\ IsChained(y, j)' <=> IsChained(y, j) /\ ~(y = z /\ j = i)
        /\ blocksz'[y][j] = IF y = z /\ j = i THEN size[c] ELSE blocksz[y][j]
  <2>1. \A y \in Zones, t \in Classes : free_list'[y][t] =
          IF y = z /\ t = s THEN free_list[y][t] \ {i} ELSE free_list[y][t]
    BY <1>3, <1>0, <1>1, <1>2 DEF ZoneTypeOK
  <2>2. \A y \in Zones : \A j \in BlocksOf(y) :
          blocksz'[y][j] = IF y = z /\ j = i THEN size[c] ELSE blocksz[y][j]
    BY <1>3, <1>0, <1>1, <1>6 DEF ZoneTypeOK
  <2> QED  BY <2>1, <2>2, <1>7, <1>2, <1>3 DEF IsChained
<1>9. IsChained(z, i) /\ ~InMerge(z, i)
  BY <1>0, <1>2 DEF IsChained, InMerge, MergeInv, MergerOK
<1>10. \A y \in Zones : \A j \in BlocksOf(y) :
        IsActive(y, j)' <=> IsActive(y, j) \/ (y = z /\ j = i)
  BY <1>8, <1>9, <1>1 DEF IsActive
<1>11. \A y, j, t : /\ InMerge(y, j)' <=> InMerge(y, j)
                    /\ Merging(y, j, t)' <=> Merging(y, j, t)
  BY <1>5, MergersSame
<1>12. SameChunks
  <2> SUFFICES ASSUME NEW y \in Zones, NEW j \in BlocksOf(y), NEW t \in Classes
               PROVE  IsChunk(y, j, t)' <=> IsChunk(y, j, t)
    BY DEF SameChunks
  <2>1. CASE y = z /\ j = i
    <3>1. IsChunk(y, j, t)' <=> t = s
      <4>1. ~Merging(y, j, t) /\ ~InMerge(y, j)
        BY <2>1, <1>9 DEF InMerge, Merging
      <4>2. j \notin free_list'[y][t]
        BY <1>8, <1>6, <1>1, <2>1 DEF IsChained
      <4> QED  BY <4>1, <4>2, <1>4, <1>6, <1>8, <1>10, <1>11, <2>1 DEF IsChunk
    <3>2. IsChunk(y, j, t) <=> t = s
      <4>1. ~Merging(y, j, t) /\ ~IsActive(y, j)
        BY <2>1, <1>9 DEF InMerge, Merging, IsActive
      <4> QED  BY <4>1, <1>7, <2>1, <1>3 DEF IsChunk
    <3> QED  BY <3>1, <3>2
  <2>2. CASE ~(y = z /\ j = i)
    <3>1. j \in free_list'[y][t] <=> j \in free_list[y][t]
      BY <2>2, <1>3, <1>0, <1>1, <1>2 DEF ZoneTypeOK
    <3> QED  BY <3>1, <2>2, <1>8, <1>10, <1>11 DEF IsChunk
  <2> QED  BY <2>1, <2>2
<1>13. FitInv' /\ ChunksDisjoint' /\ WalkFindsHeads'
  BY <1>12, <1>4, ChunksKept DEF Inv, ChunkInv
<1>14. ListInv'
  <2> SUFFICES ASSUME NEW y \in Zones, NEW t \in Classes, NEW j \in free_list'[y][t]
               PROVE  blocksz'[y][j] = 2^t * BlockLen
    BY DEF ListInv
  <2>1. j \in free_list[y][t] /\ j \in BlocksOf(y)
    BY <1>3, <1>0, <1>1, <1>2 DEF ZoneTypeOK
  <2>2. ~(y = z /\ j = i)
    BY <1>8, <1>6, <1>1 DEF IsChained
  <2> QED  BY <2>1, <2>2, <1>8 DEF Inv, ChunkInv, ListInv
<1>15. ActiveInv'
  BY <1>2, <1>4, <1>8, <1>10, <1>11 DEF Inv, ChunkInv, ActiveInv
<1>16. MergeInv'
  <2> SUFFICES ASSUME NEW d \in Clients, pc'[d] = "merge"
               PROVE  MergerOK(d)'
    BY DEF MergeInv
  <2>1. pc[d] = "merge" /\ at'[d] = at[d] /\ index'[d] = index[d] /\ cls'[d] = cls[d]
    BY <1>5 DEF MergersKept
  <2>2. at[d] \in Zones
    BY <2>1, <1>0 DEF ControlInv
  <2> QED  BY <2>1, <2>2, <1>0, <1>1, <1>8 DEF MergeInv, MergerOK
<1>17. HeldInv'
  <2> SUFFICES ASSUME NEW a \in held'
               PROVE  /\ a.first \in BlocksOf(a.zone)
                      /\ IsActive(a.zone, a.first)' /\ ~InMerge(a.zone, a.first)'
                      /\ blocksz'[a.zone][a.first] = a.size
    BY DEF HeldInv
  <2>1. CASE a \in held
    <3>1. a.zone \in Zones
      BY <2>1, <1>0 DEF ZoneTypeOK, Areas
    <3>2. ~(a.zone = z /\ a.first = i)
      BY <2>1, <1>9 DEF Inv, HeldInv, IsActive
    <3> QED  BY <2>1, <3>1, <3>2, <1>8, <1>10, <1>11 DEF Inv, HeldInv
  <2>2. CASE a = [zone |-> z, first |-> i, size |-> size[c]]
    <3>1. a.zone = z /\ a.first = i /\ a.size = size[c]
      BY <2>2
    <3> QED  BY <3>1, <1>1, <1>6, <1>8, <1>9, <1>10, <1>11
  <2> QED  BY <2>1, <2>2, <1>3
<1>18. \A y \in Zones, t \in Classes : free_list'[y][t] =
         IF y = z /\ t = s THEN free_list[y][t] \ {i} ELSE free_list[y][t]
  BY <1>3, <1>0, <1>1, <1>2 DEF ZoneTypeOK
<1>19. CountInv'
  <2>1. \A y \in Zones, t \in Classes : InUse(y, t)' =
          IF y = z /\ t = s THEN InUse(y, t) \cup {i} ELSE InUse(y, t)
    <3> SUFFICES ASSUME NEW y \in Zones, NEW t \in Classes, NEW j \in BlocksOf(y)
                 PROVE  j \in InUse(y, t)' <=>
                          j \in InUse(y, t) \/ (y = z /\ t = s /\ j = i)
      BY <1>6 DEF InUse
    <3>1. CASE y = z /\ j = i
      BY <3>1, <1>4, <1>8, <1>9, <1>10, <1>11 DEF InUse, IsActive
    <3>2. CASE ~(y = z /\ j = i)
      BY <3>2, <1>8, <1>10, <1>11 DEF InUse
    <3> QED  BY <3>1, <3>2
  <2>2. /\ num_free' = [num_free EXCEPT ![z][s] = @ - 1]
        /\ num_active' = [num_active EXCEPT ![z][s] = @ + 1]
    BY DEF Take, s, z
  <2>3. i \notin InUse(z, s)
    BY <1>9 DEF InUse, IsActive
  <2>4. ASSUME NEW y \in Zones, NEW t \in Classes
        PROVE  num_free'[y][t] = Cardinality(free_list'[y][t])
               /\ num_active'[y][t] = Cardinality(InUse(y, t)')
    <3>0. /\ num_free[y][t] = Cardinality(free_list[y][t])
          /\ num_active[y][t] = Cardinality(InUse(y, t))
      BY DEF Inv, CountInv
    <3>1. CASE y = z /\ t = s
      <4>1. IsFiniteSet(free_list[z][s]) /\ IsFiniteSet(InUse(z, s))
        BY <1>1, <1>2, ZoneFinite DEF Inv
      <4>2. /\ Cardinality(free_list[z][s] \ {i}) = Cardinality(free_list[z][s]) - 1
            /\ Cardinality(InUse(z, s) \cup {i}) = Cardinality(InUse(z, s)) + 1
        BY <4>1, <2>3, FS_RemoveElement, FS_AddElement
      <4> QED  BY <4>2, <3>0, <3>1, <2>1, <2>2, <1>18, <1>0 DEF ZoneTypeOK
    <3>2. CASE ~(y = z /\ t = s)
      <4>1. num_free'[y][t] = num_free[y][t] /\ num_active'[y][t] = num_active[y][t]
        BY <3>2, <2>2, <1>0, <1>1, <1>2 DEF ZoneTypeOK
      <4> QED  BY <4>1, <3>0, <3>2, <2>1, <1>18
    <3> QED  BY <3>1, <3>2
  <2> QED  BY <2>4 DEF CountInv
<1>20. BuddyInv'
  <2> SUFFICES ASSUME NEW y \in Zones, NEW t \in Classes, NEW j \in free_list'[y][t],
                      FreeBuddies(y, j, t)'
               PROVE  NumBlocks(y) \in {j + 2^t, Buddy(j, t) + 2^t} \/ Halved(y, t)'
    BY DEF BuddyInv
  <2>1. \A d \in Clients \ {c} : pc'[d] = pc[d] /\ at'[d] = at[d] /\ size'[d] = size[d]
    BY <1>0 DEF Take, Goto, Return, ClientTypeOK
  <2>2. FreeBuddies(y, j, t) /\ Halved(y, t) => Halved(y, t)'
    <3> SUFFICES ASSUME Halved(y, t) PROVE Halved(y, t)'
      OBVIOUS
    <3>1. CASE y = z
      <4>1. PICK d \in Clients :
              /\ pc[d] = "alloc" /\ at[d] = y /\ ClassOf(d) <= t
              /\ \A u \in Classes : ClassOf(d) <= u /\ u < t => free_list[y][u] = {}
              /\ \E m \in BlocksOf(y) : free_list[y][t] = {m, m + 2^t}
        BY DEF Halved
      <4>2. d = c
        BY <4>1, <3>1, Exclusive DEF Take, z
      <4>3. s = t
        <5>1. s <= t /\ (s < t => free_list[z][s] = {})
          BY <4>1, <4>2, <3>1, <1>2, LengthsAssumption DEF s, Classes
        <5> QED  BY <5>1, <1>2, LengthsAssumption DEF Classes
      <4>4. PICK m \in BlocksOf(y) : free_list[y][t] = {m, m + 2^t}
        BY <4>1
      <4>5. j # Buddy(j, t) /\ {j, Buddy(j, t)} \subseteq {m, m + 2^t} \ {i}
        <5>1. j \in Nat
          <6>1. j \in free_list[y][t] /\ free_list[y][t] \subseteq BlocksOf(y)
            BY <1>0, <1>18 DEF ZoneTypeOK
          <6> QED  BY <6>1, Layout DEF BlocksOf
        <5>2. {j, Buddy(j, t)} \subseteq free_list'[y][t]
          BY DEF FreeBuddies
        <5> QED  BY <5>1, <5>2, <4>3, <4>4, <3>1, <1>18, BuddyBack
      <4> QED  BY <4>3, <4>4, <4>5, <3>1
    <3>2. CASE y # z
      <4>1. \A u \in Classes : free_list'[y][u] = free_list[y][u]
        BY <3>2, <1>18
      <4>2. \A d \in Clients : pc[d] = "alloc" /\ at[d] = y => d # c
        BY <3>2 DEF z
      <4> QED  BY <4>1, <4>2, <2>1, HalvedKept
    <3> QED  BY <3>1, <3>2
  <2>3. free_list'[y][t] \subseteq free_list[y][t]
    BY <1>18
  <2> QED  BY <2>2, <2>3, BuddiesKept
<1>21. RoomInv'
  BY <1>0 DEF Take, ControlInv, RoomInv
<1> QED  BY TakeType, <1>13, <1>14, <1>15, <1>16, <1>17, <1>19, <1>20, <1>21 DEF Inv, ChunkInv

\* The chunk to be freed is the one that was taken.
LEMMA FreeInv ==
  ASSUME Inv, NEW c \in Clients, Free(c)
  PROVE  Inv'
<1>0. SetupTypeOK /\ ZoneTypeOK /\ ClientTypeOK /\ ControlInv /\ MergeInv
  BY DEF Inv, TypeOK
<1> DEFINE class(a) == FindLeastPot(blocksz[a.zone][a.first] + MagicLen)
<1>1. PICK a \in held :
        /\ lock[a.zone] = NoClient
        /\ lock' = [lock EXCEPT ![a.zone] = c]
        /\ num_active' = [num_active EXCEPT ![a.zone][class(a)] = @ - 1]
        /\ at' = [at EXCEPT ![c] = a.zone]
        /\ index' = [index EXCEPT ![c] = a.first]
        /\ cls' = [cls EXCEPT ![c] = class(a)]
        /\ held' = held \ {a}
  BY DEF Free
<1> DEFINE z == a.zone
           i == a.first
           s == class(a)
<1>2. /\ z \in Zones /\ i \in BlocksOf(z) /\ i \in Nat /\ a \in Areas
      /\ IsActive(z, i) /\ ~InMerge(z, i) /\ blocksz[z][i] = a.size
  BY <1>0 DEF Inv, HeldInv, ZoneTypeOK, Areas
<1>3. s \in Classes
  BY <1>2 DEF Inv, ChunkInv, ActiveInv
<1>4. /\ pc[c] = "idle" /\ pc' = [pc EXCEPT ![c] = "merge"]
      /\ UNCHANGED <<setupVars, blocksz, free_list, num_free, zone_index, start, size,
                     tried>>
  BY DEF Free, Goto
<1>5. is_ready
  BY <1>1, <1>0 DEF ControlInv
<1> HIDE DEF s, z, i, class
<1>6. TypeOK'
  <2>1. SetupTypeOK'
    BY <1>0, <1>4 DEF SetupTypeOK
  <2>2. /\ lock' \in [Zones -> Clients \cup {NoClient}]
        /\ num_active' \in [Zones -> [Classes -> Int]]
    BY <1>0, <1>1, <1>2, <1>3 DEF ZoneTypeOK, z, s
  <2>3. ZoneTypeOK'
    BY <1>0, <1>1, <1>4, <2>2 DEF ZoneTypeOK
  <2>4. z \in Nat /\ s \in Nat
    BY <1>2, <1>3, Layout DEF Classes
  <2>5. ClientTypeOK'
    BY <1>0, <1>1, <1>2, <1>4, <2>4 DEF ClientTypeOK, z, s, i
  <2> QED  BY <2>1, <2>3, <2>5 DEF TypeOK
<1>7. /\ at' = [at EXCEPT ![c] = z] /\ index' = [index EXCEPT ![c] = i]
      /\ cls' = [cls EXCEPT ![c] = s] /\ lock' = [lock EXCEPT ![z] = c]
      /\ lock[z] = NoClient /\ FindLeastPot(blocksz[z][i] + MagicLen) = s
  BY <1>1 DEF s, z, i, class
<1>8. ControlInv'
  <2>1. is_ready'
    BY <1>4, <1>5
  <2> SUFFICES ASSUME NEW d \in Clients
               PROVE  /\ pc'[d] \in {"try", "alloc", "next", "test"} => size'[d] > 0
                      /\ pc'[d] \in {"alloc", "merge"} =>
                           at'[d] \in Zones /\ lock'[at'[d]] = d
                      /\ pc'[d] \in {"alloc", "next"} => num_zones' > 0
    BY <2>1 DEF ControlInv
  <2>2. CASE d = c
    BY <2>2, <1>0, <1>2, <1>4, <1>7 DEF ClientTypeOK, ZoneTypeOK
  <2>3. CASE d # c
    BY <2>3, <1>0, <1>2, <1>4, <1>7, ClientsAssumption
       DEF ControlInv, ClientTypeOK, ZoneTypeOK
  <2> QED  BY <2>2, <2>3
<1>9. \A y, j : /\ IsChained(y, j)' <=> IsChained(y, j)
                /\ IsActive(y, j)' <=> IsActive(y, j)
  BY <1>4 DEF IsChained, IsActive
<1>10. /\ pc'[c] = "merge" /\ at'[c] = z /\ index'[c] = i /\ cls'[c] = s
       /\ \A d \in Clients \ {c} : pc'[d] = pc[d] /\ at'[d] = at[d]
                                   /\ index'[d] = index[d] /\ cls'[d] = cls[d]
  BY <1>0, <1>4, <1>7 DEF ClientTypeOK
<1>11. \A y, j, t : /\ InMerge(y, j)' <=> InMerge(y, j) \/ (y = z /\ j = i)
                    /\ Merging(y, j, t)' <=> Merging(y, j, t) \/ (y = z /\ j = i /\ t = s)
  BY <1>4, <1>10 DEF InMerge, Merging
<1>12. SameChunks
  <2> SUFFICES ASSUME NEW y \in Zones, NEW j \in BlocksOf(y), NEW t \in Classes
               PROVE  IsChunk(y, j, t)' <=> IsChunk(y, j, t)
    BY DEF SameChunks
  <2>1. CASE y = z /\ j = i
    <3>1. j \notin free_list[y][t] /\ ~Merging(y, j, t)
      BY <2>1, <1>2 DEF IsActive, IsChained, InMerge, Merging
    <3> QED  BY <3>1, <2>1, <1>2, <1>4, <1>7, <1>9, <1>11 DEF IsChunk
  <2>2. CASE ~(y = z /\ j = i)
    BY <2>2, <1>4, <1>9, <1>11 DEF IsChunk
  <2> QED  BY <2>1, <2>2
<1>13. FitInv' /\ ChunksDisjoint' /\ WalkFindsHeads'
  BY <1>12, <1>4, ChunksKept DEF Inv, ChunkInv
<1>14. ListInv' /\ ActiveInv'
  BY <1>4, <1>9, <1>11 DEF Inv, ChunkInv, ListInv, ActiveInv
<1>15. MergeInv'
  <2> SUFFICES ASSUME NEW d \in Clients, pc'[d] = "merge" PROVE MergerOK(d)'
    BY DEF MergeInv
  <2>1. CASE d = c
    BY <2>1, <1>2, <1>3, <1>4, <1>9, <1>10 DEF MergerOK, IsActive
  <2>2. CASE d # c
    BY <2>2, <1>0, <1>4, <1>9, <1>10 DEF MergeInv, MergerOK
  <2> QED  BY <2>1, <2>2
<1>16. HeldInv'
  <2> SUFFICES ASSUME NEW x \in held'
               PROVE  /\ x.first \in BlocksOf(x.zone)
                      /\ IsActive(x.zone, x.first)' /\ ~InMerge(x.zone, x.first)'
                      /\ blocksz'[x.zone][x.first] = x.size
    BY DEF HeldInv
  <2>1. x \in held /\ x # a /\ x \in Areas
    BY <1>0, <1>1 DEF ZoneTypeOK
  <2>2. ~(x.zone = z /\ x.first = i)
    <3>1. blocksz[x.zone][x.first] = x.size
      BY <2>1 DEF Inv, HeldInv
    <3> QED  BY <3>1, <2>1, <1>2 DEF Areas, z, i
  <2> QED  BY <2>1, <2>2, <1>4, <1>9, <1>11 DEF Inv, HeldInv
<1>17. CountInv'
  <2>1. \A y \in Zones, t \in Classes : InUse(y, t)' =
          IF y = z /\ t = s THEN InUse(y, t) \ {i} ELSE InUse(y, t)
    <3> SUFFICES ASSUME NEW y \in Zones, NEW t \in Classes, NEW j \in BlocksOf(y)
                 PROVE  j \in InUse(y, t)' <=>
                          j \in InUse(y, t) /\ ~(y = z /\ t = s /\ j = i)
      BY DEF InUse
    <3>1. CASE y = z /\ j = i
      BY <3>1, <1>4, <1>7, <1>9, <1>11 DEF InUse
    <3>2. CASE ~(y = z /\ j = i)
      BY <3>2, <1>4, <1>9, <1>11 DEF InUse
    <3> QED  BY <3>1, <3>2
  <2>2. num_active' = [num_active EXCEPT ![z][s] = @ - 1]
    BY <1>1 DEF z, s
  <2>3. i \in InUse(z, s)
    BY <1>2, <1>7 DEF InUse
  <2>4. ASSUME NEW y \in Zones, NEW t \in Classes
        PROVE  num_active'[y][t] = Cardinality(InUse(y, t)')
    <3>0. num_active[y][t] = Cardinality(InUse(y, t))
      BY DEF Inv, CountInv
    <3>1. CASE y = z /\ t = s
      <4>1. IsFiniteSet(InUse(z, s))
        BY <1>2, <1>3, ZoneFinite DEF Inv
      <4>2. Cardinality(InUse(z, s) \ {i}) = Cardinality(InUse(z, s)) - 1
        BY <4>1, <2>3, FS_RemoveElement
      <4> QED  BY <4>2, <3>0, <3>1, <2>1, <2>2, <1>0 DEF ZoneTypeOK
    <3>2. CASE ~(y = z /\ t = s)
      <4>1. num_active'[y][t] = num_active[y][t]
        BY <3>2, <2>2, <1>0, <1>2, <1>3 DEF ZoneTypeOK
      <4> QED  BY <4>1, <3>0, <3>2, <2>1
    <3> QED  BY <3>1, <3>2
  <2> QED  BY <2>4, <1>4 DEF Inv, CountInv
<1>18. BuddyInv'
  <2> SUFFICES ASSUME NEW y \in Zones, NEW t \in Classes, NEW j \in free_list'[y][t],
                      FreeBuddies(y, j, t)'
               PROVE  NumBlocks(y) \in {j + 2^t, Buddy(j, t) + 2^t} \/ Halved(y, t)'
    BY DEF BuddyInv
  <2>1. \A d \in Clients : pc[d] = "alloc" =>
          pc'[d] = pc[d] /\ at'[d] = at[d] /\ size'[d] = size[d]
    BY <1>4, <1>10
  <2>2. FreeBuddies(y, j, t) /\ Halved(y, t) => Halved(y, t)'
    BY <2>1, <1>4, HalvedKept
  <2> QED  BY <2>2, <1>4, BuddiesKept
<1>19. RoomInv'
  BY <1>4, <1>5 DEF RoomInv
<1> QED  BY <1>6, <1>8, <1>13, <1>14, <1>15, <1>16, <1>17, <1>18, <1>19 DEF Inv, ChunkInv

\* The merged chunk goes to the list of its class.
LEMMA MergeEndInv ==
  ASSUME Inv, NEW c \in Clients, MergeEnd(c)
  PROVE  Inv'
<1> DEFINE z == at[c]
           i == index[c]
           s == cls[c]
<1>0. SetupTypeOK /\ ZoneTypeOK /\ ClientTypeOK /\ ControlInv /\ MergeInv
  BY DEF Inv, TypeOK
<1>1. /\ pc[c] = "merge" /\ is_ready
      /\ z \in Zones /\ s \in Classes /\ i \in BlocksOf(z)
      /\ ~IsChained(z, i) /\ blocksz[z][i] > 0 /\ InMerge(z, i)
  BY <1>0 DEF MergeEnd, ControlInv, MergeInv, MergerOK, InMerge
<1>2. /\ free_list' = [free_list EXCEPT ![z][s] = @ \cup {i}]
      /\ blocksz' = [blocksz EXCEPT ![z][i] = 2^s * BlockLen]
      /\ num_free' = [num_free EXCEPT ![z][s] = @ + 1]
      /\ lock' = [lock EXCEPT ![z] = NoClient]
      /\ UNCHANGED <<setupVars, num_active, zone_index, held>>
  BY DEF MergeEnd, Unlock
<1>3. 2^s * BlockLen \in Nat /\ 2^s * BlockLen > 0
  BY <1>1, PowersOfTwo, LengthsAssumption
<1>4. Return(c)
  BY DEF MergeEnd
<1> HIDE DEF s, z, i
<1>5. TypeOK'
  <2>1. SetupTypeOK'
    BY <1>0, <1>2 DEF SetupTypeOK
  <2>2. /\ lock' \in [Zones -> Clients \cup {NoClient}]
        /\ num_free' \in [Zones -> [Classes -> Int]]
    BY <1>0, <1>1, <1>2 DEF ZoneTypeOK
  <2>3. /\ DOMAIN blocksz' = Zones /\ DOMAIN free_list' = Zones
        /\ \A y \in Zones : blocksz'[y] \in [BlocksOf(y) -> Nat]
        /\ \A y \in Zones : free_list'[y] \in [Classes -> SUBSET BlocksOf(y)]
    BY <1>0, <1>1, <1>2, <1>3 DEF ZoneTypeOK
  <2>4. ZoneTypeOK'
    BY <1>0, <1>2, <2>2, <2>3 DEF ZoneTypeOK
  <2>5. ClientTypeOK'
    BY <1>0, <1>2, <1>4 DEF ClientTypeOK, Return, Goto
  <2> QED  BY <2>1, <2>4, <2>5 DEF TypeOK
<1>6. /\ pc'[c] = "idle"
      /\ \A d \in Clients \ {c} : pc'[d] = pc[d] /\ at'[d] = at[d] /\ index'[d] = index[d]
                                  /\ cls'[d] = cls[d] /\ size'[d] = size[d]
  BY <1>0, <1>4 DEF ClientTypeOK, Return, Goto
<1>7. \A d \in Clients \ {c} : pc[d] \in {"alloc", "merge"} => at[d] # z
  BY <1>1, Exclusive DEF z
<1>8. ControlInv'
  <2>1. is_ready'
    BY <1>1, <1>2
  <2> SUFFICES ASSUME NEW d \in Clients
               PROVE  /\ pc'[d] \in {"try", "alloc", "next", "test"} => size'[d] > 0
                      /\ pc'[d] \in {"alloc", "merge"} =>
                           at'[d] \in Zones /\ lock'[at'[d]] = d
                      /\ pc'[d] \in {"alloc", "next"} => num_zones' > 0
    BY <2>1 DEF ControlInv
  <2>2. CASE d = c
    BY <2>2, <1>6
  <2>3. CASE d # c
    BY SMTT(30), <2>3, <1>0, <1>1, <1>2, <1>6, <1>7 DEF ControlInv, ZoneTypeOK
  <2> QED  BY <2>2, <2>3
<1>9. \A y \in Zones : \A j \in BlocksOf(y), t \in Classes :
        /\ j \in free_list'[y][t] <=> j \in free_list[y][t] \/ (y = z /\ j = i /\ t = s)
        /\ blocksz'[y][j] = IF y = z /\ j = i THEN 2^s * BlockLen ELSE blocksz[y][j]
  BY <1>0, <1>1, <1>2 DEF ZoneTypeOK
<1>10. \A y \in Zones : \A j \in BlocksOf(y) :
        /\ IsChained(y, j)' <=> IsChained(y, j) \/ (y = z /\ j = i)
        /\ IsActive(y, j)' <=> IsActive(y, j) /\ ~(y = z /\ j = i)
  <2>1. \A y \in Zones : \A j \in BlocksOf(y) :
          IsChained(y, j)' <=> IsChained(y, j) \/ (y = z /\ j = i)
    BY <1>9, <1>1 DEF IsChained
  <2> QED  BY <2>1, <1>9, <1>1 DEF IsActive
<1>11. \A y, j, t : /\ InMerge(y, j)' <=> InMerge(y, j) /\ ~(y = z /\ j = i)
                    /\ Merging(y, j, t)' <=> Merging(y, j, t) /\ ~(y = z /\ j = i)
  BY <1>1, <1>6, <1>7 DEF InMerge, Merging, z, i
<1>12. \A t : Merging(z, i, t) <=> t = s
  BY <1>1, <1>7 DEF Merging, z, i, s
<1>13. SameChunks
  <2> SUFFICES ASSUME NEW y \in Zones, NEW j \in BlocksOf(y), NEW t \in Classes
               PROVE  IsChunk(y, j, t)' <=> IsChunk(y, j, t)
    BY DEF SameChunks
  <2>1. CASE y = z /\ j = i
    <3>1. j \notin free_list[y][t]
      BY <2>1, <1>1 DEF IsChained
    <3> QED  BY <3>1, <2>1, <1>1, <1>9, <1>10, <1>11, <1>12 DEF IsChunk
  <2>2. CASE ~(y = z /\ j = i)
    BY <2>2, <1>9, <1>10, <1>11 DEF IsChunk
  <2> QED  BY <2>1, <2>2
<1>14. FitInv' /\ ChunksDisjoint' /\ WalkFindsHeads'
  BY <1>13, <1>2, ChunksKept DEF Inv, ChunkInv
<1>15. ListInv'
  <2> SUFFICES ASSUME NEW y \in Zones, NEW t \in Classes, NEW j \in free_list'[y][t]
               PROVE  blocksz'[y][j] = 2^t * BlockLen
    BY DEF ListInv
  <2>1. j \in BlocksOf(y)
    BY <1>5 DEF TypeOK, ZoneTypeOK
  <2>2. CASE y = z /\ j = i
    <3>1. t = s
      BY <2>1, <2>2, <1>1, <1>9 DEF IsChained
    <3> QED  BY <3>1, <2>1, <2>2, <1>9
  <2>3. CASE ~(y = z /\ j = i)
    BY <2>1, <2>3, <1>9 DEF Inv, ChunkInv, ListInv
  <2> QED  BY <2>2, <2>3
<1>16. ActiveInv'
  BY <1>9, <1>10, <1>11, <1>1 DEF Inv, ChunkInv, ActiveInv
<1>17. MergeInv'
  <2> SUFFICES ASSUME NEW d \in Clients, pc'[d] = "merge" PROVE MergerOK(d)'
    BY DEF MergeInv
  <2>1. d # c /\ pc[d] = "merge" /\ at[d] # z /\ at[d] \in Zones
    BY <1>0, <1>6, <1>7 DEF ControlInv
  <2> QED  BY <2>1, <1>0, <1>1, <1>6, <1>9, <1>10 DEF MergeInv, MergerOK
<1>18. HeldInv'
  <2> SUFFICES ASSUME NEW x \in held'
               PROVE  /\ x.first \in BlocksOf(x.zone)
                      /\ IsActive(x.zone, x.first)' /\ ~InMerge(x.zone, x.first)'
                      /\ blocksz'[x.zone][x.first] = x.size
    BY DEF HeldInv
  <2>1. x \in held /\ x.zone \in Zones
    BY <1>0, <1>2 DEF ZoneTypeOK, Areas
  <2>2. ~(x.zone = z /\ x.first = i)
    BY <2>1, <1>1 DEF Inv, HeldInv
  <2> QED  BY <2>1, <2>2, <1>1, <1>9, <1>10, <1>11 DEF Inv, HeldInv
<1>19. \A y \in Zones, t \in Classes : free_list'[y][t] =
         IF y = z /\ t = s THEN free_list[y][t] \cup {i} ELSE free_list[y][t]
  BY <1>0, <1>1, <1>2 DEF ZoneTypeOK
<1>20. CountInv'
  <2>1. \A y \in Zones, t \in Classes : InUse(y, t)' = InUse(y, t)
    BY <1>1, <1>9, <1>10, <1>11, UseSame
  <2>2. ASSUME NEW y \in Zones, NEW t \in Classes
        PROVE  num_free'[y][t] = Cardinality(free_list'[y][t])
    <3>0. num_free[y][t] = Cardinality(free_list[y][t])
      BY DEF Inv, CountInv
    <3>1. CASE y = z /\ t = s
      <4>1. IsFiniteSet(free_list[z][s])
        BY <1>1, ZoneFinite DEF Inv
      <4>2. Cardinality(free_list[z][s] \cup {i}) = Cardinality(free_list[z][s]) + 1
        BY <4>1, <1>1, FS_AddElement DEF IsChained
      <4> QED  BY <4>2, <3>0, <3>1, <1>0, <1>2, <1>19 DEF ZoneTypeOK
    <3>2. CASE ~(y = z /\ t = s)
      <4>1. num_free'[y][t] = num_free[y][t]
        BY <3>2, <1>0, <1>1, <1>2 DEF ZoneTypeOK
      <4> QED  BY <4>1, <3>0, <3>2, <1>19
    <3> QED  BY <3>1, <3>2
  <2> QED  BY ZenonT(60), <2>1, <2>2, <1>2 DEF Inv, CountInv
<1>21. BuddyInv'
  <2> SUFFICES ASSUME NEW y \in Zones, NEW t \in Classes, NEW j \in free_list'[y][t],
                      FreeBuddies(y, j, t)'
               PROVE  NumBlocks(y) \in {j + 2^t, Buddy(j, t) + 2^t} \/ Halved(y, t)'
    BY DEF BuddyInv
  <2>1. \A u \in Classes : ~Halved(z, u)
    BY <1>1, <1>7 DEF Halved, z
  <2>2. CASE y = z /\ t = s /\ i \in {j, Buddy(j, t)}
    <3>0. free_list'[y][t] = free_list[z][s] \cup {i} /\ free_list[z][s] \subseteq BlocksOf(z)
      BY <2>2, <1>0, <1>1, <1>19 DEF ZoneTypeOK
    <3>1. j \in Nat /\ j \in BlocksOf(z) /\ i \in Nat
      <4>1. j \in BlocksOf(z) /\ i \in BlocksOf(z)
        BY <3>0, <1>1
      <4> QED  BY <4>1, <1>1, Layout DEF BlocksOf
    <3> DEFINE b == Buddy(i, s)
    <3>2. {j, Buddy(j, t)} = {i, b} /\ b # i /\ b \in Nat
      <4>1. /\ b # i /\ b \in Nat /\ Buddy(Buddy(j, s), s) = j
        BY <3>1, <1>1, BuddyBack, BuddyNeighbour
      <4>2. CASE i = j
        BY <4>1, <4>2, <2>2
      <4>3. CASE i = Buddy(j, s)
        BY <4>1, <4>3, <2>2
      <4> QED  BY <4>1, <4>2, <4>3, <2>2
    <3>3. b \in free_list[z][s] /\ s < MaxClass
      <4>1. {j, Buddy(j, t)} \subseteq free_list[z][s] \cup {i} /\ t < MaxClass
        BY <3>0 DEF FreeBuddies
      <4> QED  BY <4>1, <3>2, <2>2
    <3> HIDE DEF b
    <3>4. blocksz[z][b] = 2^s * BlockLen /\ ~IsActive(z, b)
      <4>1. blocksz[z][b] = 2^s * BlockLen
        BY <3>3, <1>1 DEF Inv, ChunkInv, ListInv
      <4>2. IsChained(z, b)
        BY <3>3, <1>1 DEF IsChained
      <4> QED  BY <4>1, <4>2 DEF IsActive
    <3>5. ~(b + 2^s < NumBlocks(z))
      BY <3>3, <3>4 DEF MergeEnd, Mergeable, z, s, i, b
    <3>6. b \in BlocksOf(z) /\ IsChunk(z, b, s)
      BY <3>3, <1>0, <1>1 DEF ZoneTypeOK, IsChunk
    <3>7. b + 2^s <= blkno[z] /\ blkno[z] \in Nat /\ (blkno[z] > 0 => blkno[z] <= NumBlocks(z))
      BY <3>6, <1>0, <1>1 DEF Inv, ChunkInv, FitInv, SetupTypeOK
    <3>8. NumBlocks(z) = b + 2^s
      BY <3>2, <3>5, <3>7, <1>1, PowersOfTwo, Layout
    <3> QED  BY <2>2, <3>2, <3>8
  <2>3. CASE ~(y = z /\ t = s /\ i \in {j, Buddy(j, t)})
    <3>1. FreeBuddies(y, j, t) /\ j \in free_list[y][t]
      BY ZenonT(60), <2>3, <1>19 DEF FreeBuddies
    <3>2. Halved(y, t) => Halved(y, t)'
      <4> SUFFICES ASSUME Halved(y, t) PROVE Halved(y, t)'
        OBVIOUS
      <4>1. y # z
        BY <2>1
      <4>2. \A u \in Classes : free_list'[y][u] = free_list[y][u]
        BY <4>1, <1>19
      <4>3. \A d \in Clients : pc[d] = "alloc" => d # c
        BY <1>1
      <4> QED  BY <4>2, <4>3, <1>6, HalvedKept
    <3> QED  BY <3>1, <3>2 DEF Inv, BuddyInv
  <2> QED  BY <2>2, <2>3
<1>22. RoomInv'
  BY <1>1, <1>2 DEF RoomInv
<1> QED  BY <1>5, <1>8, <1>14, <1>15, <1>16, <1>17, <1>18, <1>20, <1>21, <1>22
         DEF Inv, ChunkInv

\* A chunk lies inside its zone.
LEMMA ChunkInside ==
  ASSUME Inv, NEW z \in Zones, NEW n, NEW t \in Classes, IsChunk(z, n, t)
  PROVE  n \in BlocksOf(z) /\ n \in Nat /\ n + 2^t <= blkno[z] /\ 2^t \in Nat /\ 2^t > 0
<1>1. n \in BlocksOf(z)
  <2>1. CASE n \in free_list[z][t]
    BY <2>1 DEF Inv, TypeOK, ZoneTypeOK
  <2>2. CASE Merging(z, n, t)
    BY <2>2 DEF Merging, Inv, MergeInv, MergerOK
  <2> QED  BY <2>1, <2>2 DEF IsChunk
<1>2. n \in Nat
  BY <1>1, Layout DEF BlocksOf
<1>3. n + 2^t <= blkno[z]
  BY <1>1 DEF Inv, ChunkInv, FitInv
<1> QED  BY <1>1, <1>2, <1>3, PowersOfTwo

(***************************************************************************)
(* A split makes two chunks of one.                                        *)
(***************************************************************************)
LEMMA SplitInv ==
  ASSUME Inv, NEW c \in Clients, Split(c)
  PROVE  Inv'
<1> DEFINE z == at[c]
<1>0. SetupTypeOK /\ ZoneTypeOK /\ ClientTypeOK /\ ControlInv /\ MergeInv
  BY DEF Inv, TypeOK
<1>1. pc[c] = "alloc" /\ z \in Zones /\ size[c] \in Nat /\ is_ready
  BY <1>0 DEF Split, ControlInv, ClientTypeOK
<1>2. ClassOf(c) \in Nat
  <2>1. size[c] + MagicLen \in Nat
    BY <1>1, LengthsAssumption
  <2> QED  BY <2>1, LeastPotType, LengthsAssumption DEF ClassOf
<1>3. PICK k \in Classes : SplitsAt(z, ClassOf(c), k) /\ \E i \in free_list[z][k] :
        /\ free_list' = [free_list EXCEPT ![z][k] = @ \ {i},
                                          ![z][k-1] = @ \cup {i, i + 2^(k-1)}]
        /\ blocksz' = [blocksz EXCEPT ![z][i] = 2^(k-1) * BlockLen,
                                      ![z][i + 2^(k-1)] = 2^(k-1) * BlockLen]
        /\ num_free' = [num_free EXCEPT ![z][k] = @ - 1, ![z][k-1] = @ + 2]
  BY DEF Split
<1> DEFINE half == 2^(k-1)
<1>4. PICK i \in free_list[z][k] :
        /\ free_list' = [free_list EXCEPT ![z][k] = @ \ {i},
                                          ![z][k-1] = @ \cup {i, i + half}]
        /\ blocksz' = [blocksz EXCEPT ![z][i] = half * BlockLen,
                                      ![z][i + half] = half * BlockLen]
        /\ num_free' = [num_free EXCEPT ![z][k] = @ - 1, ![z][k-1] = @ + 2]
  BY <1>3
<1> DEFINE h == i + half
<1>5. UNCHANGED <<setupVars, num_active, lock, zone_index, held, clientVars>>
  BY DEF Split
<1>6. k - 1 \in Classes /\ k \in Nat /\ (k - 1) + 1 = k
  BY <1>2, <1>3, LengthsAssumption DEF SplitsAt, Classes
<1>7. half \in Nat /\ half > 0 /\ 2^k = 2 * half /\ 2^k \in Nat
  BY <1>6, PowersOfTwo
<1> HIDE DEF half, z
<1>8. i \in BlocksOf(z) /\ i \in Nat /\ NumBlocks(z) \in Int /\ blkno[z] \in Nat
  BY <1>0, <1>1, <1>4, Layout DEF ZoneTypeOK, BlocksOf, SetupTypeOK
<1>9. IsChunk(z, i, k)
  BY <1>4 DEF IsChunk
<1>10. i + 2^k <= blkno[z] /\ blkno[z] <= NumBlocks(z)
  BY <1>1, <1>7, <1>8, <1>9 DEF Inv, ChunkInv, FitInv
<1>11. h \in BlocksOf(z) /\ h \in Nat /\ h # i
  BY <1>7, <1>8, <1>10 DEF BlocksOf
<1>12. \A t \in Classes : 2^t \in Nat /\ 2^t > 0
  BY PowersOfTwo
<1>13. \A t \in Classes : ~IsChunk(z, h, t)
  <2> SUFFICES ASSUME NEW t \in Classes, IsChunk(z, h, t) PROVE FALSE
    OBVIOUS
  <2>1. i = h \/ i + 2^k <= h \/ h + 2^t <= i
    BY <1>1, <1>8, <1>9, <1>11 DEF Inv, ChunkInv, ChunksDisjoint
  <2> QED  BY <2>1, <1>7, <1>8, <1>11, <1>12
<1>14. \A j : ~InMerge(z, j)
  BY <1>1, Exclusive DEF InMerge, z
<1>15. ~IsChained(z, h) /\ ~IsActive(z, h)
  <2>1. ~IsChained(z, h)
    BY <1>13 DEF IsChained, IsChunk
  <2>2. ~IsActive(z, h)
    BY <1>1, <1>11, <1>13, <1>14 DEF Inv, ChunkInv, ActiveInv, IsChunk
  <2> QED  BY <2>1, <2>2
<1>16. \A t \in Classes : i \in free_list[z][t] => t = k
  BY <1>1, <1>4, OneList
<1> HIDE DEF h
<1>17. \A y \in Zones : \A t \in Classes : \A j \in BlocksOf(y) :
         j \in free_list'[y][t] <=>
           \/ j \in free_list[y][t] /\ ~(y = z /\ j = i /\ t = k)
           \/ y = z /\ t = k-1 /\ (j = i \/ j = h)
  <2>1. \A y \in Zones : \A t \in Classes : free_list'[y][t] =
          IF y = z /\ t = k THEN free_list[y][t] \ {i}
          ELSE IF y = z /\ t = k-1 THEN free_list[y][t] \cup {i, h}
          ELSE free_list[y][t]
    BY <1>0, <1>1, <1>4, <1>6 DEF ZoneTypeOK, h
  <2>2. k # k-1
    BY <1>6
  <2> SUFFICES ASSUME NEW y \in Zones, NEW t \in Classes, NEW j \in BlocksOf(y)
               PROVE  j \in free_list'[y][t] <=>
                        \/ j \in free_list[y][t] /\ ~(y = z /\ j = i /\ t = k)
                        \/ y = z /\ t = k-1 /\ (j = i \/ j = h)
    OBVIOUS
  <2>3. CASE y = z /\ t = k
    BY <2>1, <2>2, <2>3
  <2>4. CASE y = z /\ t = k-1
    BY <2>1, <2>2, <2>4
  <2>5. CASE ~(y = z /\ (t = k \/ t = k-1))
    BY <2>1, <2>5
  <2> QED  BY <2>3, <2>4, <2>5
<1>18. \A y \in Zones : \A j \in BlocksOf(y) : blocksz'[y][j] =
         IF y = z /\ (j = i \/ j = h) THEN half * BlockLen ELSE blocksz[y][j]
  BY <1>0, <1>1, <1>4, <1>8, <1>11 DEF ZoneTypeOK, h
<1>19. half * BlockLen \in Nat /\ half * BlockLen > 0
  BY <1>7, LengthsAssumption
<1>20. TypeOK'
  <2>1. SetupTypeOK' /\ ClientTypeOK'
    BY <1>0, <1>5 DEF SetupTypeOK, ClientTypeOK
  <2>2. num_free' \in [Zones -> [Classes -> Int]]
    BY <1>0, <1>1, <1>4, <1>6 DEF ZoneTypeOK
  <2>3. DOMAIN blocksz' = Zones /\ \A y \in Zones : blocksz'[y] \in [BlocksOf(y) -> Nat]
    BY <1>0, <1>1, <1>4, <1>8, <1>11, <1>19 DEF ZoneTypeOK, h
  <2>4. /\ DOMAIN free_list' = Zones
        /\ \A y \in Zones : free_list'[y] \in [Classes -> SUBSET BlocksOf(y)]
    BY <1>0, <1>1, <1>4, <1>6, <1>8, <1>11 DEF ZoneTypeOK, h
  <2>5. ZoneTypeOK'
    BY <1>0, <1>5, <2>2, <2>3, <2>4 DEF ZoneTypeOK
  <2> QED  BY <2>1, <2>5 DEF TypeOK
<1>21. ControlInv'
  BY <1>0, <1>5 DEF ControlInv
<1>22. \A y, j, t : /\ InMerge(y, j)' <=> InMerge(y, j)
                    /\ Merging(y, j, t)' <=> Merging(y, j, t)
  BY <1>5 DEF InMerge, Merging
<1>23. \A y \in Zones : \A j \in BlocksOf(y) :
         /\ IsChained(y, j)' <=> IsChained(y, j) \/ (y = z /\ j = h)
         /\ IsActive(y, j)' <=> IsActive(y, j)
  <2> SUFFICES ASSUME NEW y \in Zones, NEW j \in BlocksOf(y)
               PROVE  /\ IsChained(y, j)' <=> IsChained(y, j) \/ (y = z /\ j = h)
                      /\ IsActive(y, j)' <=> IsActive(y, j)
    OBVIOUS
  <2>1. CASE y = z /\ j = i
    <3>1. IsChained(y, j) /\ IsChained(y, j)'
      BY <2>1, <1>6, <1>8, <1>17 DEF IsChained
    <3> QED  BY <3>1 DEF IsActive
  <2>2. CASE y = z /\ j = h
    <3>1. IsChained(y, j)'
      BY <2>2, <1>6, <1>11, <1>17 DEF IsChained
    <3> QED  BY <3>1, <2>2, <1>15 DEF IsActive
  <2>3. CASE ~(y = z /\ (j = i \/ j = h))
    <3>1. IsChained(y, j)' <=> IsChained(y, j)
      BY <2>3, <1>17 DEF IsChained
    <3> QED  BY <3>1, <2>3, <1>18 DEF IsActive
  <2> QED  BY <2>1, <2>2, <2>3
<1>24. \A y \in Zones : \A j \in BlocksOf(y), t \in Classes :
         IsChunk(y, j, t)' <=> \/ IsChunk(y, j, t) /\ ~(y = z /\ j = i)
                               \/ y = z /\ t = k-1 /\ (j = i \/ j = h)
  <2> SUFFICES ASSUME NEW y \in Zones, NEW j \in BlocksOf(y), NEW t \in Classes
               PROVE  IsChunk(y, j, t)' <=> \/ IsChunk(y, j, t) /\ ~(y = z /\ j = i)
                                            \/ y = z /\ t = k-1 /\ (j = i \/ j = h)
    OBVIOUS
  <2>1. CASE y = z
    <3>1. ~Merging(y, j, t)' /\ ~Merging(y, j, t) /\ ~InMerge(y, j) /\ ~InMerge(y, j)'
      BY <2>1, <1>14, <1>22 DEF InMerge, Merging
    <3>2. CASE j = i
      <4>1. j \in free_list'[y][t] <=> t = k-1
        BY <2>1, <3>2, <1>8, <1>16, <1>17
      <4>2. ~IsActive(y, j)'
        BY <2>1, <3>2, <1>4, <1>23 DEF IsActive, IsChained
      <4> QED  BY <2>1, <3>1, <3>2, <4>1, <4>2 DEF IsChunk
    <3>3. CASE j = h
      <4>1. j \in free_list'[y][t] <=> t = k-1
        BY <2>1, <3>3, <1>6, <1>11, <1>15, <1>17 DEF IsChained
      <4>2. ~IsActive(y, j)'
        BY <2>1, <3>3, <1>15, <1>23
      <4> QED  BY <2>1, <3>1, <3>3, <4>1, <4>2, <1>11, <1>13 DEF IsChunk
    <3>4. CASE j # i /\ j # h
      BY <2>1, <3>1, <3>4, <1>17, <1>18, <1>23 DEF IsChunk
    <3> QED  BY <3>2, <3>3, <3>4
  <2>2. CASE y # z
    BY <2>2, <1>17, <1>18, <1>22, <1>23 DEF IsChunk
  <2> QED  BY <2>1, <2>2
<1>25. FitInv'
  <2>1. \A y \in Zones : blkno'[y] > 0 => blkno'[y] <= NumBlocks(y)
    BY <1>5 DEF Inv, ChunkInv, FitInv
  <2>2. ASSUME NEW y \in Zones, NEW j \in BlocksOf(y), NEW t \in Classes,
               IsChunk(y, j, t)'
        PROVE  j + 2^t <= blkno'[y]
    <3>1. CASE y = z /\ t = k-1 /\ (j = i \/ j = h)
      BY <3>1, <1>5, <1>7, <1>8, <1>10, <1>11 DEF half, h
    <3>2. CASE IsChunk(y, j, t)
      BY <3>2, <1>5 DEF Inv, ChunkInv, FitInv
    <3> QED  BY <2>2, <3>1, <3>2, <1>24
  <2> QED  BY <2>1, <2>2 DEF FitInv
<1>26. ChunksDisjoint'
  <2> SUFFICES ASSUME NEW y \in Zones, NEW j \in BlocksOf(y), NEW t \in Classes,
                      NEW m \in BlocksOf(y), NEW u \in Classes,
                      IsChunk(y, j, t)', IsChunk(y, m, u)'
               PROVE  (j = m /\ t = u) \/ j + 2^t <= m \/ m + 2^u <= j
    BY DEF ChunksDisjoint
  <2>0. j \in Int /\ m \in Int /\ 2^t \in Nat /\ 2^u \in Nat
    BY <1>12 DEF BlocksOf
  <2>1. ASSUME y = z, NEW n \in BlocksOf(z), NEW v \in Classes, IsChunk(z, n, v), n # i
        PROVE  i + 2^k <= n \/ n + 2^v <= i
    BY <2>1, <1>1, <1>8, <1>9 DEF Inv, ChunkInv, ChunksDisjoint
  <2>2. CASE /\ IsChunk(y, j, t) /\ ~(y = z /\ j = i)
             /\ IsChunk(y, m, u) /\ ~(y = z /\ m = i)
    BY <2>2 DEF Inv, ChunkInv, ChunksDisjoint
  <2>3. CASE /\ y = z /\ t = k-1 /\ (j = i \/ j = h)
             /\ IsChunk(y, m, u) /\ ~(y = z /\ m = i)
    <3>1. i + 2^k <= m \/ m + 2^u <= i
      BY <2>1, <2>3
    <3> QED  BY <3>1, <2>0, <2>3, <1>7, <1>8 DEF half, h
  <2>4. CASE /\ y = z /\ u = k-1 /\ (m = i \/ m = h)
             /\ IsChunk(y, j, t) /\ ~(y = z /\ j = i)
    <3>1. i + 2^k <= j \/ j + 2^t <= i
      BY <2>1, <2>4
    <3> QED  BY <3>1, <2>0, <2>4, <1>7, <1>8 DEF half, h
  <2>5. CASE y = z /\ t = k-1 /\ (j = i \/ j = h) /\ u = k-1 /\ (m = i \/ m = h)
    BY <2>5, <1>7, <1>8 DEF half, h
  <2> QED  BY <2>2, <2>3, <2>4, <2>5, <1>24
<1>27. ListInv'
  <2> SUFFICES ASSUME NEW y \in Zones, NEW t \in Classes, NEW j \in free_list'[y][t]
               PROVE  blocksz'[y][j] = 2^t * BlockLen
    BY DEF ListInv
  <2>1. j \in BlocksOf(y)
    BY <1>20 DEF TypeOK, ZoneTypeOK
  <2>2. CASE y = z /\ (j = i \/ j = h)
    <3>1. t = k-1
      BY <2>1, <2>2, <1>15, <1>16, <1>17 DEF IsChained
    <3> QED  BY <2>1, <2>2, <3>1, <1>18 DEF half
  <2>3. CASE ~(y = z /\ (j = i \/ j = h))
    <3>1. j \in free_list[y][t]
      BY <2>1, <2>3, <1>17
    <3> QED  BY <2>1, <2>3, <3>1, <1>18 DEF Inv, ChunkInv, ListInv
  <2> QED  BY <2>2, <2>3
<1>28. \A y \in Zones : \A j \in BlocksOf(y) :
         IsActive(y, j) => blocksz'[y][j] = blocksz[y][j]
  <2>1. ~IsActive(z, i)
    BY DEF IsActive, IsChained
  <2> QED  BY <2>1, <1>15, <1>18
<1>29. ActiveInv'
  BY <1>22, <1>23, <1>28 DEF Inv, ChunkInv, ActiveInv
<1>30. MergeInv'
  <2> SUFFICES ASSUME NEW d \in Clients, pc'[d] = "merge" PROVE MergerOK(d)'
    BY DEF MergeInv
  <2>1. pc[d] = "merge" /\ at[d] # z /\ at[d] \in Zones
    BY <1>0, <1>1, <1>5, Exclusive DEF ControlInv, z
  <2> QED  BY <2>1, <1>0, <1>5, <1>18, <1>23 DEF MergeInv, MergerOK
<1>31. HeldInv'
  <2> SUFFICES ASSUME NEW x \in held'
               PROVE  /\ x.first \in BlocksOf(x.zone)
                      /\ IsActive(x.zone, x.first)' /\ ~InMerge(x.zone, x.first)'
                      /\ blocksz'[x.zone][x.first] = x.size
    BY DEF HeldInv
  <2>1. x \in held /\ x.zone \in Zones
    BY <1>0, <1>5 DEF ZoneTypeOK, Areas
  <2> QED  BY <2>1, <1>22, <1>23, <1>28 DEF Inv, HeldInv
<1>32. \A y \in Zones : \A t \in Classes : free_list'[y][t] =
         IF y = z /\ t = k THEN free_list[y][t] \ {i}
         ELSE IF y = z /\ t = k-1 THEN free_list[y][t] \cup {i, h}
         ELSE free_list[y][t]
  BY <1>0, <1>1, <1>4, <1>6 DEF ZoneTypeOK, h
<1>33. WalkFindsHeads'
  <2> SUFFICES ASSUME NEW y \in Zones
               PROVE  /\ blkno[y] > 0 => \E t \in Classes : IsChunk(y, 0, t)'
                      /\ \A j \in BlocksOf(y), t \in Classes : IsChunk(y, j, t)' =>
                           \/ j + 2^t = blkno[y]
                           \/ \E u \in Classes : IsChunk(y, j + 2^t, u)'
    BY <1>5 DEF WalkFindsHeads
  <2>1. /\ blkno[y] > 0 => \E t \in Classes : IsChunk(y, 0, t)
        /\ \A j \in BlocksOf(y), t \in Classes : IsChunk(y, j, t) =>
             \/ j + 2^t = blkno[y]
             \/ \E u \in Classes : IsChunk(y, j + 2^t, u)
    BY DEF Inv, ChunkInv, WalkFindsHeads
  <2>2. y = z => \A j \in BlocksOf(y) : j = i \/ j = h => IsChunk(y, j, k-1)'
    BY <1>6, <1>24
  <2>3. ASSUME NEW n, NEW t \in Classes, IsChunk(y, n, t)
        PROVE  \E u \in Classes : IsChunk(y, n, u)'
    <3>1. n \in BlocksOf(y)
      BY <2>3, ChunkInside
    <3>2. CASE y = z /\ n = i
      <4>1. IsChunk(y, n, k-1)'
        BY <3>1, <3>2, <2>2
      <4> QED  BY <4>1, <1>6
    <3>3. CASE ~(y = z /\ n = i)
      BY <3>1, <3>3, <2>3, <1>24
    <3> QED  BY <3>2, <3>3
  <2>4. ASSUME NEW j \in BlocksOf(y), NEW t \in Classes, IsChunk(y, j, t)',
               j + 2^t # blkno[y]
        PROVE  \E u \in Classes : IsChunk(y, j + 2^t, u)'
    <3>1. CASE IsChunk(y, j, t)
      BY <3>1, <2>1, <2>3, <2>4
    <3>2. CASE y = z /\ t = k-1 /\ j = i
      <4>1. j + 2^t = h
        BY <3>2 DEF h, half
      <4>2. IsChunk(y, j + 2^t, k-1)'
        BY <4>1, <3>2, <2>2, <1>11
      <4> QED  BY <4>2, <1>6
    <3>3. CASE y = z /\ t = k-1 /\ j = h
      <4>1. j + 2^t = i + 2^k
        BY <3>3, <1>7, <1>8 DEF h, half
      <4>2. PICK u \in Classes : IsChunk(z, i + 2^k, u)
        BY <4>1, <3>3, <2>1, <2>4, <1>8, <1>9
      <4> QED  BY <4>1, <4>2, <3>3, <2>3
    <3> QED  BY <3>1, <3>2, <3>3, <2>4, <1>24
  <2> QED  BY <2>1, <2>3, <2>4
<1>34. CountInv'
  <2>1. \A y \in Zones, t \in Classes : InUse(y, t)' = InUse(y, t)
    BY <1>22, <1>23, <1>28, UseSame
  <2>2. ASSUME NEW y \in Zones, NEW t \in Classes
        PROVE  num_free'[y][t] = Cardinality(free_list'[y][t])
    <3>0. num_free[y][t] = Cardinality(free_list[y][t]) /\ IsFiniteSet(free_list[y][t])
          /\ num_free[y][t] \in Int
      BY <1>0, ZoneFinite DEF Inv, CountInv, ZoneTypeOK
    <3>1. CASE y = z /\ t = k
      <4>1. Cardinality(free_list[y][t] \ {i}) = Cardinality(free_list[y][t]) - 1
        BY <3>0, <3>1, FS_RemoveElement
      <4>2. num_free'[y][t] = num_free[y][t] - 1
        BY <3>1, <1>0, <1>1, <1>4, <1>6 DEF ZoneTypeOK
      <4> QED  BY <4>1, <4>2, <3>0, <3>1, <1>32
    <3>2. CASE y = z /\ t = k-1
      <4>1. i \notin free_list[y][t] /\ h \notin free_list[y][t]
        BY <3>2, <1>6, <1>15, <1>16 DEF IsChained
      <4> DEFINE L == free_list[y][t] \cup {i}
      <4>2. IsFiniteSet(L) /\ Cardinality(L) = Cardinality(free_list[y][t]) + 1
        BY <4>1, <3>0, FS_AddElement
      <4>3. h \notin L
        BY <4>1, <1>11
      <4>4. Cardinality(L \cup {h}) = Cardinality(L) + 1
        BY <4>2, <4>3, FS_AddElement
      <4>5. free_list'[y][t] = L \cup {h}
        <5>1. t # k
          BY <3>2, <1>6
        <5> QED  BY <5>1, <3>2, <1>32
      <4>6. num_free'[y][t] = num_free[y][t] + 2
        <5>1. k # k-1
          BY <1>6
        <5> QED  BY <5>1, <3>2, <1>0, <1>1, <1>4, <1>6 DEF ZoneTypeOK
      <4> HIDE DEF L
      <4> QED  BY <4>2, <4>4, <4>5, <4>6, <3>0
    <3>3. CASE ~(y = z /\ (t = k \/ t = k-1))
      <4>1. num_free'[y][t] = num_free[y][t]
        BY <3>3, <1>0, <1>1, <1>4, <1>6 DEF ZoneTypeOK
      <4> QED  BY <4>1, <3>0, <3>3, <1>32
    <3> QED  BY <3>1, <3>2, <3>3
  <2> QED  BY <2>1, <2>2, <1>5 DEF Inv, CountInv
<1>35. BuddyInv'
  <2> SUFFICES ASSUME NEW y \in Zones, NEW t \in Classes, NEW j \in free_list'[y][t],
                      FreeBuddies(y, j, t)'
               PROVE  NumBlocks(y) \in {j + 2^t, Buddy(j, t) + 2^t} \/ Halved(y, t)'
    BY DEF BuddyInv
  <2> DEFINE s == ClassOf(c)
  <2>1. /\ s < k /\ free_list[z][s] = {} /\ s \in Classes
        /\ \A u \in Classes : s < u /\ u < k => free_list[z][u] = {}
    BY <1>2, <1>3, LengthsAssumption DEF Split, SplitsAt, Classes, z
  <2>2. s' = s /\ s \in Nat
    BY <1>2, <1>5 DEF ClassOf
  <2> HIDE DEF s
  <2>3. \A u \in Classes : s <= u /\ u < k => free_list[z][u] = {}
    BY <2>1, <2>2, LengthsAssumption DEF Classes
  <2>4. CASE y = z /\ t = k-1
    <3>1. free_list'[z][t] = {i, i + 2^t}
      <4>1. free_list[z][k-1] = {}
        BY <2>1, <2>2, <2>3, <1>6
      <4> QED  BY <4>1, <2>4, <1>1, <1>6, <1>32 DEF h, half
    <3>2. \A u \in Classes : s <= u /\ u < t => free_list'[z][u] = {}
      <4> SUFFICES ASSUME NEW u \in Classes, s <= u, u < t PROVE free_list'[z][u] = {}
        OBVIOUS
      <4>1. u < k /\ u # k /\ u # k-1
        BY <2>4, <1>6, LengthsAssumption DEF Classes
      <4> QED  BY <4>1, <2>3, <1>1, <1>32
    <3>3. pc'[c] = "alloc" /\ at'[c] = z /\ s <= t /\ s = ClassOf(c)'
      BY <2>1, <2>2, <2>4, <1>1, <1>5, <1>6 DEF z, s
    <3> QED  BY <3>1, <3>2, <3>3, <2>4, <1>8 DEF Halved
  <2>5. CASE y = z /\ t # k-1
    <3>1. free_list'[y][t] \subseteq free_list[y][t]
      BY <2>5, <1>32
    <3>2. ~Halved(z, t)
      <4> SUFFICES ASSUME Halved(z, t) PROVE FALSE
        OBVIOUS
      <4>1. PICK d \in Clients :
              /\ pc[d] = "alloc" /\ at[d] = z /\ ClassOf(d) <= t
              /\ \A u \in Classes : ClassOf(d) <= u /\ u < t => free_list[z][u] = {}
              /\ \E m \in BlocksOf(z) : free_list[z][t] = {m, m + 2^t}
        BY DEF Halved
      <4>2. d = c
        BY <4>1, <1>1, Exclusive DEF z
      <4>3. s <= t /\ \A u \in Classes : s <= u /\ u < t => free_list[z][u] = {}
        BY <4>1, <4>2 DEF s
      <4>4. t = k
        <5>1. ~(k < t)
          BY <4>3, <2>1, <2>2, <1>6
        <5>2. ~(t < k)
          BY <4>1, <4>3, <2>3
        <5> QED  BY <5>1, <5>2, <1>6, LengthsAssumption DEF Classes
      <4>5. PICK m \in BlocksOf(z) : free_list[z][t] = {m, m + 2^t}
        BY <4>1
      <4>6. free_list'[z][t] = {m, m + 2^t} \ {i} /\ i \in {m, m + 2^t}
        BY <4>4, <4>5, <1>1, <1>32
      <4>7. j \in Nat
        BY <3>1, <2>5, <1>0, Layout DEF ZoneTypeOK, BlocksOf
      <4>8. {j, Buddy(j, t)} \subseteq free_list'[z][t] /\ j # Buddy(j, t)
        BY <2>5, <4>7, BuddyBack DEF FreeBuddies
      <4> QED  BY <4>6, <4>8
    <3> QED  BY <3>1, <3>2, <2>5, BuddiesKept
  <2>6. CASE y # z
    <3>1. \A u \in Classes : free_list'[y][u] = free_list[y][u]
      BY <2>6, <1>32
    <3>2. Halved(y, t) => Halved(y, t)'
      BY <3>1, <1>5, HalvedKept
    <3> QED  BY <3>1, <3>2, BuddiesKept
  <2> QED  BY <2>4, <2>5, <2>6
<1>36. RoomInv'
  BY <1>1, <1>5 DEF RoomInv
<1> QED  BY <1>20, <1>21, <1>25, <1>26, <1>27, <1>29, <1>30, <1>31, <1>33, <1>34, <1>35, <1>36
         DEF Inv, ChunkInv

(***************************************************************************)
(* A merge makes one chunk of two buddies.                                 *)
(***************************************************************************)
\* Sizes in bytes are equal only if the numbers of blocks are.
LEMMA Cancel ==
  ASSUME NEW m \in Nat, NEW n \in Nat, m * BlockLen = n * BlockLen
  PROVE  m = n
<1>1. ASSUME NEW p \in Nat, NEW q \in Nat, p < q
      PROVE  p * BlockLen < q * BlockLen
  <2>1. (q - p) * BlockLen > 0
    BY <1>1, LengthsAssumption
  <2>2. q * BlockLen = p * BlockLen + (q - p) * BlockLen
    BY LengthsAssumption
  <2>3. p * BlockLen \in Nat /\ (q - p) * BlockLen \in Int
    BY LengthsAssumption
  <2> QED  BY <2>1, <2>2, <2>3
<1>2. m * BlockLen \in Nat
  BY LengthsAssumption
<1> QED  BY <1>1, <1>2

\* A buddy that passes the test is a free chunk of the same size.
LEMMA MergeableFree ==
  ASSUME Inv, NEW c \in Clients, pc[c] = "merge", Mergeable(c)
  PROVE  /\ Buddy(index[c], cls[c]) \in BlocksOf(at[c])
         /\ Buddy(index[c], cls[c]) \in free_list[at[c]][cls[c]]
<1> DEFINE z == at[c]
           i == index[c]
           s == cls[c]
           b == Buddy(i, s)
<1>1. z \in Zones /\ s \in Classes /\ i \in BlocksOf(z) /\ i \in Nat
  BY Layout DEF Inv, ControlInv, MergeInv, MergerOK, BlocksOf
<1>2. b + 2^s < NumBlocks(z) /\ ~IsActive(z, b) /\ blocksz[z][b] = 2^s * BlockLen
  BY DEF Mergeable
<1>3. 2^s \in Nat /\ 2^s > 0 /\ b \in Nat
  BY <1>1, PowersOfTwo, BuddyNeighbour
<1> HIDE DEF b, i, s, z
<1>4. b \in BlocksOf(z)
  BY <1>1, <1>2, <1>3, Layout DEF BlocksOf
<1>5. blocksz[z][b] > 0
  BY <1>2, <1>3, LengthsAssumption
<1>6. PICK t \in Classes : b \in free_list[z][t]
  BY <1>2, <1>5 DEF IsActive, IsChained
<1>7. blocksz[z][b] = 2^t * BlockLen
  BY <1>1, <1>6 DEF Inv, ChunkInv, ListInv
<1>8. 2^t \in Nat /\ (t < s => 2^t < 2^s) /\ (s < t => 2^s < 2^t)
  BY <1>1, PowersOfTwo
<1>9. 2^t = 2^s
  BY <1>2, <1>3, <1>7, <1>8, Cancel
<1>10. t = s
  BY <1>1, <1>8, <1>9, LengthsAssumption DEF Classes
<1> QED  BY <1>4, <1>6, <1>10 DEF b, i, s, z

\* Two free buddies become one chunk of twice the size.
LEMMA MergeStepInv ==
  ASSUME Inv, NEW c \in Clients, Merge(c)
  PROVE  Inv'
<1>a. PICK z, i, s, b : /\ z = at[c] /\ i = index[c] /\ s = cls[c]
                        /\ b = Buddy(index[c], cls[c])
  OBVIOUS
<1>b. PICK low, high : /\ low = IF b < i THEN b ELSE i
                       /\ high = IF b < i THEN i ELSE b
  OBVIOUS
<1>0. SetupTypeOK /\ ZoneTypeOK /\ ClientTypeOK /\ ControlInv /\ MergeInv
  BY DEF Inv, TypeOK
<1>1. /\ pc[c] = "merge" /\ is_ready /\ Mergeable(c)
      /\ z \in Zones /\ s \in Classes /\ i \in BlocksOf(z) /\ i \in Nat
      /\ ~IsChained(z, i) /\ blocksz[z][i] > 0
  BY <1>a, <1>0, Layout DEF Merge, ControlInv, MergeInv, MergerOK, BlocksOf
<1>2. b \in BlocksOf(z) /\ b \in free_list[z][s]
  BY <1>a, <1>1, MergeableFree
<1>3. b \in Nat /\ (b = i + 2^s \/ b + 2^s = i)
  BY <1>a, <1>1, BuddyNeighbour
<1>4. /\ free_list' = [free_list EXCEPT ![z] = [j \in Classes |-> @[j] \ {b}]]
      /\ blocksz' = [blocksz EXCEPT ![z][high] = 0]
      /\ num_free' = [num_free EXCEPT ![z][s] = @ - 1]
      /\ index' = [index EXCEPT ![c] = low]
      /\ cls' = [cls EXCEPT ![c] = s + 1]
      /\ UNCHANGED <<setupVars, num_active, lock, zone_index, pc, start, at, size,
                     held, tried>>
  BY <1>a, <1>b DEF Merge
<1>5. s + 1 \in Classes /\ s \in Nat
  BY <1>a, <1>1, LengthsAssumption DEF Mergeable, Classes
<1>6. 2^s \in Nat /\ 2^s > 0 /\ 2^(s+1) = 2 * 2^s
  BY <1>1, PowersOfTwo
<1>7. /\ low \in Nat /\ high = low + 2^s
      /\ (low = i /\ high = b) \/ (low = b /\ high = i)
      /\ low \in BlocksOf(z) /\ high \in BlocksOf(z) /\ low # high
  <2>1. CASE b = i + 2^s
    <3>1. ~(b < i) /\ b # i
      BY <2>1, <1>1, <1>3, <1>6
    <3> QED  BY <3>1, <2>1, <1>b, <1>1, <1>2, <1>3, <1>6
  <2>2. CASE b + 2^s = i
    BY <2>2, <1>b, <1>1, <1>2, <1>3, <1>6
  <2> QED  BY <2>1, <2>2, <1>3
<1>8. \A d \in Clients \ {c} : pc[d] \in {"alloc", "merge"} => at[d] # z
  BY <1>a, <1>1, Exclusive
<1>9. /\ pc'[c] = "merge" /\ at'[c] = z /\ index'[c] = low /\ cls'[c] = s + 1
      /\ \A d \in Clients \ {c} : pc'[d] = pc[d] /\ at'[d] = at[d]
                                  /\ index'[d] = index[d] /\ cls'[d] = cls[d]
  BY <1>a, <1>0, <1>1, <1>4 DEF ClientTypeOK
<1>10. \A y \in Zones : \A j \in BlocksOf(y), t \in Classes :
         j \in free_list'[y][t] <=> j \in free_list[y][t] /\ ~(y = z /\ j = b)
  <2>1. \A y \in Zones : \A t \in Classes : free_list'[y][t] =
          IF y = z THEN free_list[y][t] \ {b} ELSE free_list[y][t]
    BY <1>0, <1>1, <1>4 DEF ZoneTypeOK
  <2> QED  BY <2>1
<1>11. \A y \in Zones : \A j \in BlocksOf(y) : blocksz'[y][j] =
         IF y = z /\ j = high THEN 0 ELSE blocksz[y][j]
  BY <1>0, <1>1, <1>4, <1>7 DEF ZoneTypeOK
<1>12. blocksz[z][b] > 0 /\ IsChained(z, b)
  <2>1. blocksz[z][b] = 2^s * BlockLen
    BY <1>1, <1>2 DEF Inv, ChunkInv, ListInv
  <2> QED  BY <2>1, <1>1, <1>2, <1>6, LengthsAssumption DEF IsChained
<1>13. TypeOK'
  <2>1. SetupTypeOK'
    BY <1>0, <1>4 DEF SetupTypeOK
  <2>2. ClientTypeOK'
    <3>1. s + 1 \in Nat
      BY <1>5
    <3> QED  BY <3>1, <1>0, <1>4, <1>7 DEF ClientTypeOK
  <2>3. num_free' \in [Zones -> [Classes -> Int]]
    BY <1>0, <1>1, <1>4 DEF ZoneTypeOK
  <2>4. DOMAIN blocksz' = Zones /\ \A y \in Zones : blocksz'[y] \in [BlocksOf(y) -> Nat]
    BY <1>0, <1>1, <1>4, <1>7 DEF ZoneTypeOK
  <2>5. /\ DOMAIN free_list' = Zones
        /\ \A y \in Zones : free_list'[y] \in [Classes -> SUBSET BlocksOf(y)]
    BY <1>0, <1>1, <1>4 DEF ZoneTypeOK
  <2>6. ZoneTypeOK'
    BY <1>0, <1>4, <2>3, <2>4, <2>5 DEF ZoneTypeOK
  <2> QED  BY <2>1, <2>2, <2>6 DEF TypeOK
<1>14. ControlInv'
  BY <1>0, <1>4 DEF ControlInv
<1>15. \A y \in Zones : \A j \in BlocksOf(y) :
         IsChained(y, j)' <=> IsChained(y, j) /\ ~(y = z /\ j = b)
  BY <1>10 DEF IsChained
<1>16. \A j, t : /\ InMerge(z, j) <=> j = i
                 /\ Merging(z, j, t) <=> j = i /\ t = s
                 /\ InMerge(z, j)' <=> j = low
                 /\ Merging(z, j, t)' <=> j = low /\ t = s + 1
  <2>1. \A j, t : /\ InMerge(z, j) <=> j = i
                  /\ Merging(z, j, t) <=> j = i /\ t = s
    BY <1>a, <1>1, <1>8 DEF InMerge, Merging
  <2>2. \A d \in Clients \ {c} : pc'[d] = "merge" => at'[d] # z
    BY <1>8, <1>9
  <2>3. \A j, t : /\ InMerge(z, j)' <=> j = low
                  /\ Merging(z, j, t)' <=> j = low /\ t = s + 1
    BY <1>9, <2>2 DEF InMerge, Merging
  <2> QED  BY <2>1, <2>3
<1>17. \A y : y # z => \A j, t : /\ InMerge(y, j)' <=> InMerge(y, j)
                                 /\ Merging(y, j, t)' <=> Merging(y, j, t)
  BY <1>a, <1>9 DEF InMerge, Merging
<1>18. \A y \in Zones : \A j \in BlocksOf(y) :
         /\ (IsActive(y, j) /\ ~InMerge(y, j))' <=> IsActive(y, j) /\ ~InMerge(y, j)
         /\ IsActive(y, j) /\ ~InMerge(y, j) => blocksz'[y][j] = blocksz[y][j]
  <2> SUFFICES ASSUME NEW y \in Zones, NEW j \in BlocksOf(y)
               PROVE  /\ (IsActive(y, j) /\ ~InMerge(y, j))' <=>
                           IsActive(y, j) /\ ~InMerge(y, j)
                      /\ IsActive(y, j) /\ ~InMerge(y, j) =>
                           blocksz'[y][j] = blocksz[y][j]
    OBVIOUS
  <2>1. CASE y = z /\ (j = i \/ j = b)
    <3>1. ~(IsActive(y, j) /\ ~InMerge(y, j))
      BY <2>1, <1>12, <1>16 DEF IsActive
    <3>2. ~(IsActive(y, j) /\ ~InMerge(y, j))'
      <4>1. CASE j = low
        BY <4>1, <2>1, <1>16
      <4>2. CASE j = high
        BY <4>2, <2>1, <1>11 DEF IsActive
      <4> QED  BY <4>1, <4>2, <2>1, <1>7
    <3> QED  BY <3>1, <3>2
  <2>2. CASE y = z /\ j # i /\ j # b
    <3>1. j # low /\ j # high
      BY <2>2, <1>7
    <3> QED  BY <3>1, <2>2, <1>11, <1>15, <1>16 DEF IsActive
  <2>3. CASE y # z
    BY <2>3, <1>11, <1>15, <1>17 DEF IsActive
  <2> QED  BY <2>1, <2>2, <2>3
<1>19. \A y \in Zones : \A j \in BlocksOf(y), t \in Classes :
         IsChunk(y, j, t)' <=> \/ IsChunk(y, j, t) /\ ~(y = z /\ (j = i \/ j = b))
                               \/ y = z /\ j = low /\ t = s + 1
  <2> SUFFICES ASSUME NEW y \in Zones, NEW j \in BlocksOf(y), NEW t \in Classes
               PROVE  IsChunk(y, j, t)' <=>
                        \/ IsChunk(y, j, t) /\ ~(y = z /\ (j = i \/ j = b))
                        \/ y = z /\ j = low /\ t = s + 1
    OBVIOUS
  <2>1. CASE y = z /\ (j = i \/ j = b)
    <3>1. j \notin free_list'[y][t]
      BY <2>1, <1>1, <1>10 DEF IsChained
    <3>2. ~(IsActive(y, j) /\ ~InMerge(y, j))'
      BY <2>1, <1>12, <1>16, <1>18 DEF IsActive
    <3>3. Merging(y, j, t)' <=> j = low /\ t = s + 1
      BY <2>1, <1>16
    <3> QED  BY <2>1, <3>1, <3>2, <3>3 DEF IsChunk
  <2>2. CASE y = z /\ j # i /\ j # b
    <3>1. j # low
      BY <2>2, <1>7
    <3>2. ~Merging(y, j, t)' /\ ~Merging(y, j, t)
      BY <3>1, <2>2, <1>16
    <3>3. j \in free_list'[y][t] <=> j \in free_list[y][t]
      BY <2>2, <1>10
    <3> QED  BY <2>2, <3>1, <3>2, <3>3, <1>18 DEF IsChunk
  <2>3. CASE y # z
    <3>1. j \in free_list'[y][t] <=> j \in free_list[y][t]
      BY <2>3, <1>10
    <3>2. Merging(y, j, t)' <=> Merging(y, j, t)
      BY <2>3, <1>17
    <3> QED  BY <2>3, <3>1, <3>2, <1>18 DEF IsChunk
  <2> QED  BY <2>1, <2>2, <2>3
<1>20. IsChunk(z, i, s) /\ IsChunk(z, b, s)
  BY <1>2, <1>16 DEF IsChunk
<1>21. \A t \in Classes : 2^t \in Nat /\ 2^t > 0
  BY PowersOfTwo
<1>22. FitInv'
  <2>1. \A y \in Zones : blkno'[y] > 0 => blkno'[y] <= NumBlocks(y)
    BY <1>4 DEF Inv, ChunkInv, FitInv
  <2>2. i + 2^s <= blkno[z] /\ b + 2^s <= blkno[z] /\ blkno[z] \in Nat
    BY <1>0, <1>1, <1>2, <1>20 DEF Inv, ChunkInv, FitInv, SetupTypeOK
  <2>3. low + 2^(s+1) <= blkno[z]
    BY <2>2, <1>6, <1>7
  <2>4. \A y \in Zones : \A j \in BlocksOf(y), t \in Classes :
          IsChunk(y, j, t) => j + 2^t <= blkno[y]
    BY DEF Inv, ChunkInv, FitInv
  <2> QED  BY <2>1, <2>3, <2>4, <1>4, <1>19 DEF FitInv
<1>23. ChunksDisjoint'
  <2> SUFFICES ASSUME NEW y \in Zones, NEW j \in BlocksOf(y), NEW t \in Classes,
                      NEW m \in BlocksOf(y), NEW u \in Classes,
                      IsChunk(y, j, t)', IsChunk(y, m, u)'
               PROVE  (j = m /\ t = u) \/ j + 2^t <= m \/ m + 2^u <= j
    BY DEF ChunksDisjoint
  <2>1. ASSUME NEW n \in BlocksOf(z), NEW v \in Classes, IsChunk(z, n, v),
               n # i, n # b
        PROVE  low + 2^(s+1) <= n \/ n + 2^v <= low
    <3>1. i + 2^s <= n \/ n + 2^v <= i
      BY <2>1, <1>1, <1>20 DEF Inv, ChunkInv, ChunksDisjoint
    <3>2. b + 2^s <= n \/ n + 2^v <= b
      BY <2>1, <1>1, <1>2, <1>20 DEF Inv, ChunkInv, ChunksDisjoint
    <3>3. n \in Int /\ 2^v \in Nat /\ 2^v > 0
      BY <1>21 DEF BlocksOf
    <3> QED  BY <3>1, <3>2, <3>3, <1>6, <1>7
  <2>2. CASE /\ IsChunk(y, j, t) /\ ~(y = z /\ (j = i \/ j = b))
             /\ IsChunk(y, m, u) /\ ~(y = z /\ (m = i \/ m = b))
    BY <2>2 DEF Inv, ChunkInv, ChunksDisjoint
  <2>3. CASE /\ y = z /\ j = low /\ t = s + 1
             /\ IsChunk(y, m, u) /\ ~(y = z /\ (m = i \/ m = b))
    BY <2>1, <2>3
  <2>4. CASE /\ y = z /\ m = low /\ u = s + 1
             /\ IsChunk(y, j, t) /\ ~(y = z /\ (j = i \/ j = b))
    BY <2>1, <2>4
  <2>5. CASE y = z /\ j = low /\ t = s + 1 /\ m = low /\ u = s + 1
    BY <2>5
  <2> QED  BY <2>2, <2>3, <2>4, <2>5, <1>19
<1>24. ListInv'
  <2> SUFFICES ASSUME NEW y \in Zones, NEW t \in Classes, NEW j \in free_list'[y][t]
               PROVE  blocksz'[y][j] = 2^t * BlockLen
    BY DEF ListInv
  <2>1. j \in BlocksOf(y)
    BY <1>13 DEF TypeOK, ZoneTypeOK
  <2>2. j \in free_list[y][t] /\ ~(y = z /\ j = b)
    BY <2>1, <1>10
  <2>3. ~(y = z /\ j = high)
    BY <2>2, <1>1, <1>7 DEF IsChained
  <2> QED  BY <2>1, <2>2, <2>3, <1>11 DEF Inv, ChunkInv, ListInv
<1>25. ActiveInv'
  BY <1>18 DEF Inv, ChunkInv, ActiveInv
<1>26. MergeInv'
  <2> SUFFICES ASSUME NEW d \in Clients, pc'[d] = "merge" PROVE MergerOK(d)'
    BY DEF MergeInv
  <2>1. CASE d = c
    <3>1. blocksz'[z][low] > 0
      BY <1>1, <1>7, <1>11, <1>12
    <3>2. ~IsChained(z, low)'
      BY <1>1, <1>7, <1>15
    <3> QED  BY <3>1, <3>2, <2>1, <1>5, <1>7, <1>9 DEF MergerOK
  <2>2. CASE d # c
    <3>1. pc[d] = "merge" /\ at[d] # z /\ at[d] \in Zones
      BY <2>2, <1>0, <1>8, <1>9 DEF ControlInv
    <3> QED  BY <2>2, <3>1, <1>0, <1>9, <1>11, <1>15 DEF MergeInv, MergerOK
  <2> QED  BY <2>1, <2>2
<1>27. HeldInv'
  <2> SUFFICES ASSUME NEW x \in held'
               PROVE  /\ x.first \in BlocksOf(x.zone)
                      /\ IsActive(x.zone, x.first)' /\ ~InMerge(x.zone, x.first)'
                      /\ blocksz'[x.zone][x.first] = x.size
    BY DEF HeldInv
  <2>1. x \in held /\ x.zone \in Zones
    BY <1>0, <1>4 DEF ZoneTypeOK, Areas
  <2> QED  BY <2>1, <1>18 DEF Inv, HeldInv
<1>28. \A y \in Zones : \A t \in Classes : free_list'[y][t] =
         IF y = z THEN free_list[y][t] \ {b} ELSE free_list[y][t]
  BY <1>0, <1>1, <1>4 DEF ZoneTypeOK
<1>29. WalkFindsHeads'
  <2> SUFFICES ASSUME NEW y \in Zones
               PROVE  /\ blkno[y] > 0 => \E t \in Classes : IsChunk(y, 0, t)'
                      /\ \A j \in BlocksOf(y), t \in Classes : IsChunk(y, j, t)' =>
                           \/ j + 2^t = blkno[y]
                           \/ \E u \in Classes : IsChunk(y, j + 2^t, u)'
    BY <1>4 DEF WalkFindsHeads
  <2>1. /\ blkno[y] > 0 => \E t \in Classes : IsChunk(y, 0, t)
        /\ \A j \in BlocksOf(y), t \in Classes : IsChunk(y, j, t) =>
             \/ j + 2^t = blkno[y]
             \/ \E u \in Classes : IsChunk(y, j + 2^t, u)
    BY DEF Inv, ChunkInv, WalkFindsHeads
  <2>2. y = z => IsChunk(y, low, s + 1)'
    BY <1>5, <1>7, <1>19
  <2>3. ASSUME NEW n, NEW t \in Classes, IsChunk(y, n, t), ~(y = z /\ n = high)
        PROVE  \E u \in Classes : IsChunk(y, n, u)'
    <3>1. n \in BlocksOf(y)
      BY <2>3, ChunkInside
    <3>2. CASE y = z /\ n = low
      BY <3>2, <2>2, <1>5
    <3>3. CASE ~(y = z /\ n = low)
      BY <3>1, <3>3, <2>3, <1>7, <1>19
    <3> QED  BY <3>2, <3>3
  <2>4. IsChunk(z, low, s) /\ IsChunk(z, high, s)
    BY <1>7, <1>20
  <2>5. ASSUME NEW j \in BlocksOf(y), NEW t \in Classes, IsChunk(y, j, t),
               ~(y = z /\ (j = i \/ j = b))
        PROVE  ~(y = z /\ j + 2^t = high)
    <3> SUFFICES ASSUME y = z, j + 2^t = high PROVE FALSE
      OBVIOUS
    <3>1. j # low
      BY <2>5, <1>7
    <3>2. low + 2^s <= j \/ j + 2^t <= low
      BY <2>4, <2>5, <3>1, <1>1, <1>7 DEF Inv, ChunkInv, ChunksDisjoint
    <3>3. j \in Int /\ 2^t \in Nat /\ 2^t > 0
      BY <1>21 DEF BlocksOf
    <3> QED  BY <3>2, <3>3, <1>6, <1>7
  <2>6. ASSUME NEW j \in BlocksOf(y), NEW t \in Classes, IsChunk(y, j, t)',
               j + 2^t # blkno[y]
        PROVE  \E u \in Classes : IsChunk(y, j + 2^t, u)'
    <3>1. CASE IsChunk(y, j, t) /\ ~(y = z /\ (j = i \/ j = b))
      <4>1. PICK u \in Classes : IsChunk(y, j + 2^t, u)
        BY <3>1, <2>1, <2>6
      <4> QED  BY <4>1, <3>1, <2>3, <2>5
    <3>2. CASE y = z /\ j = low /\ t = s + 1
      <4>1. j + 2^t = high + 2^s /\ high + 2^s # high
        BY <3>2, <1>6, <1>7
      <4>2. PICK u \in Classes : IsChunk(y, high + 2^s, u)
        BY <4>1, <3>2, <2>1, <2>4, <2>6, <1>1, <1>7
      <4> QED  BY <4>1, <4>2, <2>3
    <3> QED  BY <3>1, <3>2, <2>6, <1>19
  <2>7. blkno[y] > 0 => \E t \in Classes : IsChunk(y, 0, t)'
    <3>1. 0 # high
      BY <1>6, <1>7
    <3> QED  BY <3>1, <2>1, <2>3
  <2> QED  BY <2>6, <2>7
<1>30. CountInv'
  <2>1. \A y \in Zones, t \in Classes : InUse(y, t)' = InUse(y, t)
    BY <1>18, UseSame
  <2>2. ASSUME NEW y \in Zones, NEW t \in Classes
        PROVE  num_free'[y][t] = Cardinality(free_list'[y][t])
    <3>0. /\ num_free[y][t] = Cardinality(free_list[y][t]) /\ num_free[y][t] \in Int
          /\ IsFiniteSet(free_list[y][t])
      BY <1>0, ZoneFinite DEF Inv, CountInv, ZoneTypeOK
    <3>1. CASE y = z /\ t = s
      <4>1. Cardinality(free_list[y][t] \ {b}) = Cardinality(free_list[y][t]) - 1
        BY <3>0, <3>1, <1>2, FS_RemoveElement
      <4>2. num_free'[y][t] = num_free[y][t] - 1
        BY <3>1, <1>0, <1>1, <1>4 DEF ZoneTypeOK
      <4> QED  BY <4>1, <4>2, <3>0, <3>1, <1>28
    <3>2. CASE ~(y = z /\ t = s)
      <4>1. num_free'[y][t] = num_free[y][t]
        BY <3>2, <1>0, <1>1, <1>4 DEF ZoneTypeOK
      <4>2. y = z => b \notin free_list[y][t]
        BY <3>2, <1>1, <1>2, OneList
      <4>3. free_list'[y][t] = IF y = z THEN free_list[y][t] \ {b} ELSE free_list[y][t]
        BY <1>28
      <4>4. free_list'[y][t] = free_list[y][t]
        BY <4>2, <4>3
      <4> QED  BY <4>1, <4>4, <3>0
    <3> QED  BY <3>1, <3>2
  <2>3. ASSUME NEW y \in Zones, NEW t \in Classes
        PROVE  num_active'[y][t] = Cardinality(InUse(y, t)')
    <3>1. num_active'[y][t] = num_active[y][t] /\ InUse(y, t)' = InUse(y, t)
      BY <2>1, <1>4
    <3> QED  BY <3>1 DEF Inv, CountInv
  <2> QED  BY <2>2, <2>3 DEF CountInv
<1>31. BuddyInv'
  <2> SUFFICES ASSUME NEW y \in Zones, NEW t \in Classes, NEW j \in free_list'[y][t],
                      FreeBuddies(y, j, t)'
               PROVE  NumBlocks(y) \in {j + 2^t, Buddy(j, t) + 2^t} \/ Halved(y, t)'
    BY DEF BuddyInv
  <2>1. free_list'[y][t] \subseteq free_list[y][t]
    BY <1>28
  <2>2. Halved(y, t) => Halved(y, t)'
    <3> SUFFICES ASSUME Halved(y, t) PROVE Halved(y, t)'
      OBVIOUS
    <3>1. y # z
      BY <1>1, <1>8 DEF Halved
    <3>2. \A u \in Classes : free_list'[y][u] = free_list[y][u]
      BY <3>1, <1>28
    <3>3. \A d \in Clients : pc[d] = "alloc" /\ at[d] = y =>
            pc'[d] = "alloc" /\ at'[d] = at[d] /\ size'[d] = size[d]
      BY <1>4
    <3> QED  BY <3>2, <3>3, HalvedKept
  <2> QED  BY <2>1, <2>2, BuddiesKept
<1>32. RoomInv'
  BY <1>1, <1>4 DEF RoomInv
<1> QED  BY <1>13, <1>14, <1>22, <1>23, <1>24, <1>25, <1>26, <1>27, <1>29, <1>30, <1>31, <1>32
         DEF Inv, ChunkInv

(***************************************************************************)
(* The setup puts a new chunk behind the others.                           *)
(***************************************************************************)
LEMMA SetupChunkInv ==
  ASSUME Inv, SetupChunk
  PROVE  Inv'
<1>a. PICK z, k, n : z = zone /\ k = shift /\ n = blkno[zone]
  OBVIOUS
<1>0. SetupTypeOK /\ ZoneTypeOK /\ ClientTypeOK /\ ControlInv
  BY DEF Inv, TypeOK
<1>1. z \in Zones /\ k \in Classes /\ n \in Nat /\ n + 2^k <= NumBlocks(z)
  BY <1>a, <1>0, Layout DEF SetupChunk, SettingUp, SetupTypeOK, Zones
<1>2. held = {} /\ \A c \in Clients : pc[c] = "idle"
  BY <1>0 DEF SetupChunk, SettingUp, ControlInv
<1>3. /\ blocksz' = [blocksz EXCEPT ![z][n] = BlockLen * 2^k]
      /\ free_list' = [free_list EXCEPT ![z][k] = @ \cup {n}]
      /\ num_free' = [num_free EXCEPT ![z][k] = @ + 1]
      /\ blkno' = [blkno EXCEPT ![z] = @ + 2^k]
      /\ UNCHANGED <<is_ready, num_zones, zone, shift, num_active, lock, zone_index,
                     held, clientVars>>
  BY <1>a DEF SetupChunk
<1>4. 2^k \in Nat /\ 2^k > 0
  BY <1>1, PowersOfTwo
<1>5. n \in BlocksOf(z)
  BY <1>1, <1>4, Layout DEF BlocksOf
<1>6. BlockLen * 2^k = 2^k * BlockLen /\ 2^k * BlockLen \in Nat /\ 2^k * BlockLen > 0
  BY <1>4, LengthsAssumption
<1>7. \A t \in Classes : 2^t \in Nat /\ 2^t > 0
  BY PowersOfTwo
<1>8. \A t \in Classes : ~IsChunk(z, n, t)
  BY <1>a, <1>1, <1>5, <1>7 DEF Inv, ChunkInv, FitInv
<1>9. \A y, j, t : /\ ~InMerge(y, j) /\ ~InMerge(y, j)'
                   /\ ~Merging(y, j, t) /\ ~Merging(y, j, t)'
  BY <1>2, <1>3 DEF InMerge, Merging
<1>10. ~IsChained(z, n) /\ ~IsActive(z, n)
  <2>1. ~IsChained(z, n)
    BY <1>8 DEF IsChained, IsChunk
  <2> QED  BY <2>1, <1>1, <1>5, <1>8, <1>9 DEF Inv, ChunkInv, ActiveInv, IsChunk
<1>11. \A y \in Zones : \A j \in BlocksOf(y) :
         /\ \A t \in Classes : j \in free_list'[y][t] <=>
              j \in free_list[y][t] \/ (y = z /\ j = n /\ t = k)
         /\ blocksz'[y][j] = IF y = z /\ j = n THEN 2^k * BlockLen ELSE blocksz[y][j]
  BY <1>0, <1>1, <1>3, <1>5, <1>6 DEF ZoneTypeOK
<1>12. TypeOK'
  <2>1. blkno' \in [Zones -> Nat]
    <3>1. \A y \in Zones : blkno[y] + 2^k \in Nat
      BY <1>0, <1>4 DEF SetupTypeOK
    <3> QED  BY <3>1, <1>0, <1>1, <1>3 DEF SetupTypeOK
  <2>2. SetupTypeOK'
    BY <2>1, <1>0, <1>3 DEF SetupTypeOK
  <2>3. ClientTypeOK'
    BY <1>0, <1>3 DEF ClientTypeOK
  <2>4. num_free' \in [Zones -> [Classes -> Int]]
    BY <1>0, <1>1, <1>3 DEF ZoneTypeOK
  <2>5. DOMAIN blocksz' = Zones /\ \A y \in Zones : blocksz'[y] \in [BlocksOf(y) -> Nat]
    BY <1>0, <1>1, <1>3, <1>5, <1>6 DEF ZoneTypeOK
  <2>6. /\ DOMAIN free_list' = Zones
        /\ \A y \in Zones : free_list'[y] \in [Classes -> SUBSET BlocksOf(y)]
    BY <1>0, <1>1, <1>3, <1>5 DEF ZoneTypeOK
  <2>7. ZoneTypeOK'
    BY <1>0, <1>3, <2>4, <2>5, <2>6 DEF ZoneTypeOK
  <2> QED  BY <2>2, <2>3, <2>7 DEF TypeOK
<1>13. ControlInv' /\ MergeInv' /\ HeldInv'
  BY <1>2, <1>3 DEF ControlInv, MergeInv, HeldInv
<1>14. \A y \in Zones : \A j \in BlocksOf(y) :
         IsChained(y, j)' <=> IsChained(y, j) \/ (y = z /\ j = n)
  BY <1>1, <1>11 DEF IsChained
<1>15. \A y \in Zones : \A j \in BlocksOf(y) : IsActive(y, j)' <=> IsActive(y, j)
  BY <1>10, <1>11, <1>14 DEF IsActive
<1>16. \A y \in Zones : \A j \in BlocksOf(y), t \in Classes :
         IsChunk(y, j, t)' <=> IsChunk(y, j, t) \/ (y = z /\ j = n /\ t = k)
  <2> SUFFICES ASSUME NEW y \in Zones, NEW j \in BlocksOf(y), NEW t \in Classes
               PROVE  IsChunk(y, j, t)' <=>
                        IsChunk(y, j, t) \/ (y = z /\ j = n /\ t = k)
    OBVIOUS
  <2>1. CASE y = z /\ j = n
    BY <2>1, <1>8, <1>9, <1>10, <1>11, <1>15 DEF IsChunk
  <2>2. CASE ~(y = z /\ j = n)
    BY <2>2, <1>9, <1>11, <1>15 DEF IsChunk
  <2> QED  BY <2>1, <2>2
<1>17. /\ blkno'[z] = n + 2^k /\ \A y \in Zones : y # z => blkno'[y] = blkno[y]
       /\ \A y \in Zones : blkno[y] \in Nat
       /\ blkno[z] = n
  BY <1>a, <1>0, <1>1, <1>3 DEF SetupTypeOK
<1>18. \A y \in Zones : \A j \in BlocksOf(y), t \in Classes :
         IsChunk(y, j, t) => j \in Int /\ j + 2^t <= blkno[y]
  BY DEF Inv, ChunkInv, FitInv, BlocksOf
<1>19. FitInv'
  <2>1. ASSUME NEW y \in Zones PROVE blkno'[y] > 0 => blkno'[y] <= NumBlocks(y)
    BY <1>1, <1>17 DEF Inv, ChunkInv, FitInv
  <2>2. ASSUME NEW y \in Zones, NEW j \in BlocksOf(y), NEW t \in Classes,
               IsChunk(y, j, t)'
        PROVE  j + 2^t <= blkno'[y]
    <3>1. CASE y = z /\ j = n /\ t = k
      BY <3>1, <1>1, <1>4, <1>17
    <3>2. CASE IsChunk(y, j, t) /\ y = z
      BY <3>2, <1>1, <1>4, <1>7, <1>17, <1>18
    <3>3. CASE IsChunk(y, j, t) /\ y # z
      BY <3>3, <1>17, <1>18
    <3> QED  BY <2>2, <3>1, <3>2, <3>3, <1>16
  <2> QED  BY <2>1, <2>2 DEF FitInv
<1>20. ChunksDisjoint'
  <2> SUFFICES ASSUME NEW y \in Zones, NEW j \in BlocksOf(y), NEW t \in Classes,
                      NEW m \in BlocksOf(y), NEW u \in Classes,
                      IsChunk(y, j, t)', IsChunk(y, m, u)'
               PROVE  (j = m /\ t = u) \/ j + 2^t <= m \/ m + 2^u <= j
    BY DEF ChunksDisjoint
  <2>1. CASE IsChunk(y, j, t) /\ IsChunk(y, m, u)
    BY <2>1 DEF Inv, ChunkInv, ChunksDisjoint
  <2>2. CASE y = z /\ j = n /\ t = k /\ IsChunk(y, m, u)
    BY <2>2, <1>17, <1>18
  <2>3. CASE y = z /\ m = n /\ u = k /\ IsChunk(y, j, t)
    BY <2>3, <1>17, <1>18
  <2>4. CASE y = z /\ j = n /\ t = k /\ m = n /\ u = k
    BY <2>4
  <2> QED  BY <2>1, <2>2, <2>3, <2>4, <1>16
<1>21. ListInv'
  <2> SUFFICES ASSUME NEW y \in Zones, NEW t \in Classes, NEW j \in free_list'[y][t]
               PROVE  blocksz'[y][j] = 2^t * BlockLen
    BY DEF ListInv
  <2>1. j \in BlocksOf(y)
    BY <1>12 DEF TypeOK, ZoneTypeOK
  <2>2. CASE y = z /\ j = n
    BY <2>1, <2>2, <1>10, <1>11 DEF IsChained
  <2>3. CASE ~(y = z /\ j = n)
    BY <2>1, <2>3, <1>11 DEF Inv, ChunkInv, ListInv
  <2> QED  BY <2>2, <2>3
<1>22. ActiveInv'
  BY <1>9, <1>10, <1>11, <1>15 DEF Inv, ChunkInv, ActiveInv
<1>23. \A y \in Zones, t \in Classes : free_list'[y][t] =
         IF y = z /\ t = k THEN free_list[y][t] \cup {n} ELSE free_list[y][t]
  BY <1>0, <1>1, <1>3 DEF ZoneTypeOK
<1>24. WalkFindsHeads'
  <2> SUFFICES ASSUME NEW y \in Zones
               PROVE  /\ blkno'[y] > 0 => \E t \in Classes : IsChunk(y, 0, t)'
                      /\ \A j \in BlocksOf(y), t \in Classes : IsChunk(y, j, t)' =>
                           \/ j + 2^t = blkno'[y]
                           \/ \E u \in Classes : IsChunk(y, j + 2^t, u)'
    BY DEF WalkFindsHeads
  <2>1. /\ blkno[y] > 0 => \E t \in Classes : IsChunk(y, 0, t)
        /\ \A j \in BlocksOf(y), t \in Classes : IsChunk(y, j, t) =>
             \/ j + 2^t = blkno[y]
             \/ \E u \in Classes : IsChunk(y, j + 2^t, u)
    BY DEF Inv, ChunkInv, WalkFindsHeads
  <2>2. y = z => IsChunk(y, n, k)'
    BY <1>1, <1>5, <1>16
  <2>3. ASSUME NEW m, NEW t \in Classes, IsChunk(y, m, t)
        PROVE  \E u \in Classes : IsChunk(y, m, u)'
    <3>1. m \in BlocksOf(y)
      BY <2>3, ChunkInside
    <3> QED  BY <3>1, <2>3, <1>16
  <2>4. blkno'[y] > 0 => \E t \in Classes : IsChunk(y, 0, t)'
    <3>1. CASE blkno[y] > 0
      BY <3>1, <2>1, <2>3
    <3>2. CASE ~(blkno[y] > 0)
      <4>1. blkno[y] = 0
        BY <3>2, <1>17
      <4> QED  BY <4>1, <2>2, <1>1, <1>17
    <3> QED  BY <3>1, <3>2
  <2>5. ASSUME NEW j \in BlocksOf(y), NEW t \in Classes, IsChunk(y, j, t)',
               j + 2^t # blkno'[y]
        PROVE  \E u \in Classes : IsChunk(y, j + 2^t, u)'
    <3>1. IsChunk(y, j, t)
      BY <2>5, <1>16, <1>17
    <3>2. CASE j + 2^t = blkno[y]
      <4>1. y = z /\ j + 2^t = n
        BY <3>2, <2>5, <1>17
      <4> QED  BY <4>1, <2>2, <1>1
    <3>3. CASE j + 2^t # blkno[y]
      BY <3>1, <3>3, <2>1, <2>3
    <3> QED  BY <3>2, <3>3
  <2> QED  BY <2>4, <2>5
<1>25. CountInv'
  <2>1. \A y \in Zones, t \in Classes : InUse(y, t)' = InUse(y, t)
    BY <1>9, <1>10, <1>11, <1>15, UseSame
  <2>2. ASSUME NEW y \in Zones, NEW t \in Classes
        PROVE  num_free'[y][t] = Cardinality(free_list'[y][t])
    <3>0. /\ num_free[y][t] = Cardinality(free_list[y][t]) /\ num_free[y][t] \in Int
          /\ IsFiniteSet(free_list[y][t])
      BY <1>0, ZoneFinite DEF Inv, CountInv, ZoneTypeOK
    <3>1. CASE y = z /\ t = k
      <4>1. n \notin free_list[y][t]
        BY <3>1, <1>10 DEF IsChained
      <4>2. Cardinality(free_list[y][t] \cup {n}) = Cardinality(free_list[y][t]) + 1
        BY <3>0, <4>1, FS_AddElement
      <4>3. num_free'[y][t] = num_free[y][t] + 1
        BY <3>1, <1>0, <1>1, <1>3 DEF ZoneTypeOK
      <4> QED  BY <4>2, <4>3, <3>0, <3>1, <1>23
    <3>2. CASE ~(y = z /\ t = k)
      <4>1. num_free'[y][t] = num_free[y][t]
        BY <3>2, <1>0, <1>1, <1>3 DEF ZoneTypeOK
      <4> QED  BY <4>1, <3>0, <3>2, <1>23
    <3> QED  BY <3>1, <3>2
  <2> QED  BY ZenonT(60), <2>1, <2>2, <1>3 DEF Inv, CountInv
<1>26. RoomInv'
  <2>0. /\ ~is_ready /\ shift' = k /\ zone' = z /\ z \in Nat /\ k \in Nat
        /\ \A y \in Zones : y \in Nat
    BY <1>a, <1>1, <1>3, Layout DEF SetupChunk, SettingUp, Classes
  <2>1. /\ \A y \in Zones, t \in Classes : t < MaxClass =>
             \A i, j \in free_list[y][t] : i = j
        /\ \A y \in Zones : y > z => \A t \in Classes : free_list[y][t] = {}
        /\ \A t \in Classes : t < k => free_list[z][t] = {}
    BY <2>0, <1>a, <1>1 DEF Inv, RoomInv
  <2>2. ASSUME k < MaxClass
        PROVE  /\ n + 2^(k+1) > NumBlocks(z)
               /\ free_list[z][k] = {}
    <3>1. /\ n + 2^(k+1) > NumBlocks(z)
          /\ free_list[z][k] # {} => n + 2^k > NumBlocks(z)
      BY <2>0, <2>2, <1>a, <1>1 DEF Inv, RoomInv
    <3> QED  BY <3>1, <1>1, <1>4, Layout
  <2>3. k < MaxClass => /\ (n + 2^k) + 2^(k+1) > NumBlocks(z)
                        /\ (n + 2^k) + 2^k > NumBlocks(z)
    <3>1. 2^(k+1) = 2 * 2^k
      BY <1>1, PowersOfTwo
    <3> QED  BY <3>1, <2>2, <1>1, <1>4, Layout
  <2>4. \A y \in Zones, t \in Classes : t < MaxClass =>
          \A i, j \in free_list'[y][t] : i = j
    <3> SUFFICES ASSUME NEW y \in Zones, NEW t \in Classes, t < MaxClass,
                        NEW i \in free_list'[y][t], NEW j \in free_list'[y][t]
                 PROVE  i = j
      OBVIOUS
    <3>1. CASE y = z /\ t = k
      <4>1. free_list'[y][t] = {n}
        BY <3>1, <2>2, <1>23
      <4> QED  BY <4>1
    <3>2. CASE ~(y = z /\ t = k)
      <4>1. free_list'[y][t] = free_list[y][t]
        BY <3>2, <1>23
      <4> QED  BY <4>1, <2>1
    <3> QED  BY <3>1, <3>2
  <2>5. ASSUME NEW y \in Zones, y > z, NEW t \in Classes PROVE free_list'[y][t] = {}
    <3>1. y # z
      BY <2>0, <2>5
    <3>2. free_list'[y][t] = free_list[y][t]
      BY <3>1, <1>23
    <3> QED  BY <3>2, <2>1, <2>5
  <2>6. ASSUME NEW t \in Classes, t < k PROVE free_list'[z][t] = {}
    <3>1. t # k
      BY <2>0, <2>6
    <3>2. free_list'[z][t] = free_list[z][t]
      BY <3>1, <1>1, <1>23
    <3> QED  BY <3>2, <2>1, <2>6
  <2> QED  BY <2>0, <2>3, <2>4, <2>5, <2>6, <1>17 DEF RoomInv
<1>27. BuddyInv'
  <2>1. ~is_ready'
    BY <1>3 DEF SetupChunk, SettingUp
  <2> SUFFICES ASSUME NEW y \in Zones, NEW t \in Classes, NEW j \in free_list'[y][t],
                      FreeBuddies(y, j, t)'
               PROVE  FALSE
    BY DEF BuddyInv
  <2>2. t < MaxClass /\ Buddy(j, t) \in free_list'[y][t]
    BY DEF FreeBuddies
  <2>3. Buddy(j, t) = j
    BY <2>1, <2>2, <1>26 DEF RoomInv
  <2>4. j \in Nat
    BY <1>12, Layout DEF TypeOK, ZoneTypeOK, BlocksOf
  <2> QED  BY <2>3, <2>4, BuddyBack
<1> QED  BY <1>12, <1>13, <1>19, <1>20, <1>21, <1>22, <1>24, <1>25, <1>26, <1>27
         DEF Inv, ChunkInv

(***************************************************************************)
(* Every step of the allocator preserves the invariant.                    *)
(***************************************************************************)
LEMMA NextInv == Inv /\ [Next]_vars => Inv'
<1> SUFFICES ASSUME Inv, [Next]_vars PROVE Inv'
  OBVIOUS
<1>1. CASE Setup
  BY <1>1, SetupInv, SetupChunkInv DEF Setup
<1>2. ASSUME NEW c \in Clients, ClientStep(c) PROVE Inv'
  BY <1>2, SearchInv, SplitInv, TakeInv, MergeStepInv, MergeEndInv
     DEF ClientStep, SearchStep
<1>3. ASSUME NEW c \in Clients, ClientCall(c) PROVE Inv'
  <2>1. ASSUME NEW n \in Requests, Alloc(c, n) \/ AllocAlap(c, n)
        PROVE  SearchStep(c)
    BY <2>1, RequestsAssumption, RoundUpType DEF AllocAlap, SearchStep
  <2> QED  BY <1>3, <2>1, SearchInv, FreeInv DEF ClientCall
<1>4. CASE UNCHANGED vars
  <2>1. UNCHANGED <<setupVars, zoneVars, lock, zone_index, held, clientVars>>
    BY <1>4 DEF vars
  <2>2. TypeOK'
    BY <2>1 DEF Inv, TypeOK, SetupTypeOK, ZoneTypeOK, ClientTypeOK
  <2>3. ControlInv'
    BY <2>1 DEF Inv, ControlInv
  <2>4. MergersKept
    BY <2>1 DEF MergersKept
  <2>5. RoomInv'
    BY <2>1 DEF Inv, RoomInv
  <2>6. BuddyInv'
    <3>1. \A z \in Zones, s \in Classes : Halved(z, s)' <=> Halved(z, s)
      BY <2>1 DEF Halved, ClassOf
    <3> QED  BY <3>1, <2>1 DEF Inv, BuddyInv, FreeBuddies
  <2> QED  BY <2>1, <2>2, <2>3, <2>4, <2>5, <2>6, Quiet DEF Inv
<1> QED  BY <1>1, <1>2, <1>3, <1>4 DEF Next

\* The invariant holds in every reachable state.
LEMMA Invariance == Spec => []Inv
BY InitInv, NextInv, PTL DEF Spec

\* Whatever its clients do, the allocator never leaves a descriptor, list or
\* counter of a zone (shmem.c, shmem_zone) with a value outside its type: in
\* particular a free list never holds a block beyond the end of its zone.
THEOREM TypeCorrect == Spec => []TypeOK
<1>1. Inv => TypeOK
  BY DEF Inv
<1> QED  BY <1>1, Invariance, PTL

\* Through every split and merge of pgstrom_shmem_zone_block_split and
\* pgstrom_shmem_zone_block_free, no two chunks of a zone share a block.
THEOREM ChunksApart == Spec => []ChunksDisjoint
<1>1. Inv => ChunksDisjoint
  BY DEF Inv, ChunkInv
<1> QED  BY <1>1, Invariance, PTL

\* The walk of collect_shmem_block_info over a zone goes from chunk to chunk and
\* ends where the setup has ended: no block is lost by a split or a merge.
THEOREM WalkComplete == Spec => []WalkFindsHeads
<1>1. Inv => WalkFindsHeads
  BY DEF Inv, ChunkInv
<1> QED  BY <1>1, Invariance, PTL

\* num_free and num_active of a zone that nobody works on are what a walk over
\* its blocks counts.
THEOREM CountersKept == Spec => []CountersExact
<1>1. Inv => CountersExact
  <2> SUFFICES ASSUME Inv, NEW z \in Zones, NEW s \in Classes, lock[z] = NoClient
               PROVE  /\ num_free[z][s] = Cardinality(free_list[z][s])
                      /\ \A i \in free_list[z][s] : blocksz[z][i] = 2^s * BlockLen
                      /\ num_active[z][s] =
                           Cardinality({i \in BlocksOf(z) :
                              IsActive(z, i) /\ FindLeastPot(blocksz[z][i] + MagicLen) = s})
    BY DEF CountersExact
  <2>1. \A i : ~InMerge(z, i)
    BY ClientsAssumption DEF Inv, ControlInv, InMerge
  <2>2. InUse(z, s) = {i \in BlocksOf(z) :
          IsActive(z, i) /\ FindLeastPot(blocksz[z][i] + MagicLen) = s}
    BY <2>1 DEF InUse
  <2> QED  BY <2>2 DEF Inv, CountInv, ChunkInv, ListInv
<1> QED  BY <1>1, Invariance, PTL

\* pgstrom_shmem_zone_block_free leaves no two free buddies behind, except for
\* the last two chunks of a zone; nor do the setup and the splits of an
\* allocation.
THEOREM BuddiesMerged == Spec => []MergedButLast
<1>1. Inv => MergedButLast
  <2> SUFFICES ASSUME Inv, NEW z \in Zones, NEW s \in Classes, lock[z] = NoClient,
                      NEW i \in free_list[z][s], FreeBuddies(z, i, s)
               PROVE  NumBlocks(z) \in {i + 2^s, Buddy(i, s) + 2^s}
    BY DEF MergedButLast
  <2>1. ~Halved(z, s)
    BY ClientsAssumption DEF Inv, ControlInv, Halved
  <2> QED  BY <2>1 DEF Inv, BuddyInv
<1> QED  BY <1>1, Invariance, PTL

(***************************************************************************)
(* The search of an allocation, when each client has a process of its own: *)
(* threads share zone_index, and one can move it while another searches.   *)
(***************************************************************************)
OwnIndex == \A c, d \in Clients : ProcessOf[c] = ProcessOf[d] => c = d

\* The zones from a on, round the segment, up to the one before z
Before(a, z) == IF a <= z THEN a..z-1 ELSE a..num_zones-1 \cup 0..z-1

\* A call has tried the zones from where it started to where it is.
TriedOK(c) ==
  LET z == zone_index[ProcessOf[c]] a == start[c] IN
  /\ pc[c] \in {"idle", "merge"} => tried[c] = {}
  /\ pc[c] \in {"try", "alloc", "next", "test"} => a < num_zones \/ a = 0
  /\ pc[c] = "try" => tried[c] = Before(a, z)
  /\ pc[c] \in {"alloc", "next"} => z < num_zones /\ tried[c] = Before(a, z) \cup {z}
  /\ pc[c] = "test" =>
       tried[c] = IF z = a THEN 0..num_zones-1 ELSE Before(a, z)

IndexOK ==
  \A p \in Processes : /\ zone_index[p] < num_zones \/ zone_index[p] = 0
                       /\ ~is_ready => zone_index[p] = 0

SearchOK == IndexOK /\ \A c \in Clients : TriedOK(c)

\* The next zone, round the segment
LEMMA NextIndex ==
  ASSUME NEW z \in Nat, NEW n \in Nat, z < n
  PROVE  (z + 1) % n = IF z + 1 = n THEN 0 ELSE z + 1
OBVIOUS

\* What a client has tried depends on its own variables only.
LEMMA TriedKept ==
  ASSUME NEW d \in Clients, TriedOK(d), num_zones' = num_zones,
         zone_index'[ProcessOf[d]] = zone_index[ProcessOf[d]],
         pc'[d] = pc[d], start'[d] = start[d], tried'[d] = tried[d]
  PROVE  TriedOK(d)'
BY DEF TriedOK, Before

\* One step of a client keeps its own history,
LEMMA OwnTried ==
  ASSUME Inv, SearchOK, NEW c \in Clients,
         SearchStep(c) \/ Split(c) \/ Take(c) \/ Free(c) \/ Merge(c) \/ MergeEnd(c)
  PROVE  IndexOK' /\ TriedOK(c)'
<1> DEFINE p == ProcessOf[c]
           z == zone_index[p]
           a == start[c]
<1>0. /\ SetupTypeOK /\ ClientTypeOK /\ ControlInv /\ p \in Processes
      /\ IndexOK /\ TriedOK(c)
  BY ClientsAssumption DEF Inv, TypeOK, SearchOK
<1>1. z \in Nat /\ a \in Nat /\ num_zones \in Nat /\ tried[c] \subseteq Zones
  BY <1>0, Layout DEF SetupTypeOK, ClientTypeOK
<1>2. pc[c] \in {"idle", "try", "alloc", "next", "test", "merge", "ub"}
  BY <1>0 DEF ClientTypeOK
<1>3. num_zones' = num_zones /\ is_ready' = is_ready /\ (~NextZone(c) => zone_index' = zone_index)
  BY DEF SearchStep, Alloc, LockZone, ZoneFull, OutOfRange, TestZone, Split, Take, Free,
         Merge, MergeEnd, NextZone
<1>4. CASE \E n \in Nat : Alloc(c, n)
  <2>1. /\ pc[c] = "idle" /\ pc'[c] = "try" /\ start'[c] = z /\ tried'[c] = tried[c]
        /\ zone_index' = zone_index
    BY <1>0, <1>4 DEF Alloc, Goto, ClientTypeOK
  <2>2. tried[c] = {} /\ z..z-1 = {}
    BY <2>1, <1>0, <1>1 DEF TriedOK
  <2>3. z < num_zones \/ z = 0
    BY <1>0 DEF IndexOK
  <2>4. TriedOK(c)'
    BY <2>1, <2>2, <2>3, <1>1, <1>3 DEF TriedOK, Before
  <2> QED  BY <2>1, <2>4, <1>0, <1>3 DEF IndexOK
<1>5. CASE LockZone(c)
  <2>1. /\ pc[c] = "try" /\ pc'[c] = "alloc" /\ start'[c] = a /\ tried'[c] = tried[c] \cup {z}
        /\ zone_index' = zone_index /\ z < num_zones
    BY <1>0, <1>5 DEF LockZone, Goto, ClientTypeOK
  <2>2. TriedOK(c)'
    BY <2>1, <1>0, <1>3 DEF TriedOK, Before
  <2> QED  BY <2>1, <2>2, <1>0, <1>3 DEF IndexOK
<1>6. CASE ZoneFull(c)
  <2>1. /\ pc[c] = "alloc" /\ pc'[c] = "next" /\ start'[c] = a /\ tried'[c] = tried[c]
        /\ zone_index' = zone_index
    BY <1>0, <1>6 DEF ZoneFull, Goto, ClientTypeOK
  <2>2. TriedOK(c)'
    BY <2>1, <1>0, <1>3 DEF TriedOK, Before
  <2> QED  BY <2>1, <2>2, <1>0, <1>3 DEF IndexOK
<1>7. CASE OutOfRange(c)
  <2>1. pc'[c] = "ub" /\ zone_index' = zone_index
    BY <1>0, <1>7 DEF OutOfRange, Goto, ClientTypeOK
  <2> QED  BY <2>1, <1>0, <1>3 DEF TriedOK, IndexOK
<1>8. CASE NextZone(c)
  <2>1. /\ pc[c] = "next" /\ pc'[c] = "test" /\ start'[c] = a /\ tried'[c] = tried[c]
        /\ zone_index' = [zone_index EXCEPT ![p] = (z + 1) % num_zones]
    BY <1>0, <1>8 DEF NextZone, Goto, ClientTypeOK
  <2>2. /\ z < num_zones /\ tried[c] = Before(a, z) \cup {z} /\ a < num_zones
    BY <2>1, <1>0, <1>1 DEF TriedOK
  <2> DEFINE w == IF z + 1 = num_zones THEN 0 ELSE z + 1
  <2>3. zone_index'[p] = w /\ w \in Nat /\ w < num_zones
    BY SMTT(30), <2>1, <2>2, <1>0, <1>1, NextIndex DEF ClientTypeOK
  <2>4. Before(a, z) \cup {z} = IF w = a THEN 0..num_zones-1 ELSE Before(a, w)
    <3>1. CASE z + 1 = num_zones
      BY <3>1, <2>2, <1>1 DEF Before
    <3>2. CASE z + 1 # num_zones
      BY <3>2, <2>2, <1>1 DEF Before
    <3> QED  BY <3>1, <3>2
  <2> HIDE DEF w
  <2>5. TriedOK(c)'
    BY <2>1, <2>2, <2>3, <2>4, <1>3 DEF TriedOK, Before
  <2>6. is_ready
    BY <2>1, <1>0 DEF ControlInv
  <2>7. IndexOK'
    BY <2>1, <2>3, <2>6, <1>0, <1>3 DEF IndexOK, ClientTypeOK
  <2> QED  BY <2>5, <2>7
<1>9. CASE TestZone(c)
  <2>1. pc[c] = "test" /\ zone_index' = zone_index
    BY <1>9 DEF TestZone
  <2>2. CASE Exhausted(c)
    <3>1. pc'[c] = "idle" /\ tried'[c] = {}
      BY <2>2, <1>0, <1>9 DEF TestZone, Return, Goto, ClientTypeOK
    <3> QED  BY <3>1, <2>1, <1>0, <1>3 DEF TriedOK, IndexOK
  <2>3. CASE ~Exhausted(c)
    <3>1. pc'[c] = "try" /\ tried'[c] = tried[c] /\ start'[c] = a /\ z # a
      BY <2>1, <2>3, <1>0, <1>9 DEF TestZone, Goto, Exhausted, ClientTypeOK
    <3>2. TriedOK(c)'
      BY <3>1, <2>1, <1>0, <1>3 DEF TriedOK, Before
    <3> QED  BY <3>2, <2>1, <1>0, <1>3 DEF IndexOK
  <2> QED  BY <2>2, <2>3
<1>10. CASE Take(c) \/ MergeEnd(c)
  <2>1. pc'[c] = "idle" /\ tried'[c] = {} /\ zone_index' = zone_index
    BY <1>0, <1>10 DEF Take, MergeEnd, Return, Goto, ClientTypeOK
  <2> QED  BY <2>1, <1>0, <1>3 DEF TriedOK, IndexOK
<1>11. CASE Free(c)
  <2>1. pc[c] = "idle" /\ pc'[c] = "merge" /\ tried'[c] = tried[c] /\ zone_index' = zone_index
    BY <1>0, <1>11 DEF Free, Goto, ClientTypeOK
  <2> QED  BY <2>1, <1>0, <1>3 DEF TriedOK, IndexOK
<1>12. CASE Split(c) \/ Merge(c)
  <2>1. UNCHANGED <<pc, tried, start, zone_index>>
    BY <1>12 DEF Split, Merge
  <2>2. TriedOK(c)'
    BY <2>1, <1>0, <1>3, TriedKept
  <2> QED  BY <2>1, <2>2, <1>0, <1>3 DEF IndexOK
<1> QED  BY <1>4, <1>5, <1>6, <1>7, <1>8, <1>9, <1>10, <1>11, <1>12 DEF SearchStep

\* and leaves those of the others alone.
LEMMA OthersTried ==
  ASSUME OwnIndex, Inv, SearchOK, NEW c \in Clients, NEW d \in Clients, d # c,
         SearchStep(c) \/ Split(c) \/ Take(c) \/ Free(c) \/ Merge(c) \/ MergeEnd(c)
  PROVE  TriedOK(d)'
<1>1. pc'[d] = pc[d] /\ start'[d] = start[d] /\ tried'[d] = tried[d]
  BY DEF SearchStep, Alloc, LockZone, ZoneFull, OutOfRange, TestZone, NextZone, Split, Take,
         Free, Merge, MergeEnd, Return, Goto, Inv, TypeOK, ClientTypeOK
<1>2. num_zones' = num_zones
  BY DEF SearchStep, Alloc, LockZone, ZoneFull, OutOfRange, TestZone, NextZone, Split, Take,
         Free, Merge, MergeEnd
<1>3. ProcessOf[d] # ProcessOf[c] /\ ProcessOf[d] \in Processes
  BY ClientsAssumption DEF OwnIndex
<1>4. zone_index' = zone_index
      \/ \E w : zone_index' = [zone_index EXCEPT ![ProcessOf[c]] = w]
  BY DEF SearchStep, Alloc, LockZone, ZoneFull, OutOfRange, TestZone, NextZone, Split, Take,
         Free, Merge, MergeEnd
<1>5. zone_index'[ProcessOf[d]] = zone_index[ProcessOf[d]]
  BY <1>3, <1>4 DEF Inv, TypeOK, ClientTypeOK
<1> QED  BY <1>1, <1>2, <1>5, TriedKept DEF SearchOK

\* Before the segment is ready nobody searches.
LEMMA SetupTried ==
  ASSUME Inv, SearchOK, Setup
  PROVE  SearchOK'
<1>1. UNCHANGED <<zone_index, clientVars>> /\ ~is_ready
  BY DEF Setup, SetupChunk, SetupShift, SetupZone, SetupEnd, SettingUp
<1>2. (\A c \in Clients : pc[c] = "idle") /\ \A p \in Processes : zone_index[p] = 0
  BY <1>1 DEF Inv, ControlInv, SearchOK, IndexOK
<1>3. IndexOK'
  BY <1>1, <1>2 DEF IndexOK
<1>4. ASSUME NEW c \in Clients PROVE TriedOK(c)'
  BY <1>1, <1>2 DEF TriedOK, SearchOK
<1> QED  BY <1>3, <1>4 DEF SearchOK

LEMMA SearchNext ==
  ASSUME OwnIndex, Inv, SearchOK, [Next]_vars
  PROVE  SearchOK'
<1>1. CASE Setup
  BY <1>1, SetupTried
<1>2. ASSUME NEW c \in Clients, ClientStep(c) \/ ClientCall(c) PROVE SearchOK'
  <2>1. ASSUME NEW n \in Requests, Alloc(c, n) \/ AllocAlap(c, n)
        PROVE  SearchStep(c)
    BY <2>1, RequestsAssumption, RoundUpType DEF AllocAlap, SearchStep
  <2>2. SearchStep(c) \/ Split(c) \/ Take(c) \/ Free(c) \/ Merge(c) \/ MergeEnd(c)
    BY <1>2, <2>1 DEF ClientStep, ClientCall, SearchStep
  <2> QED  BY <2>2, OwnTried, OthersTried DEF SearchOK
<1>3. CASE UNCHANGED vars
  <2>1. UNCHANGED <<setupVars, zone_index, clientVars>>
    BY <1>3 DEF vars
  <2>2. \A c \in Clients : TriedOK(c)'
    BY <2>1, TriedKept DEF SearchOK
  <2>3. IndexOK'
    BY <2>1 DEF SearchOK, IndexOK
  <2> QED  BY <2>2, <2>3 DEF SearchOK
<1> QED  BY <1>1, <1>2, <1>3 DEF Next

\* pgstrom_shmem_alloc tries every zone, each of them once, before it returns
\* NULL, whichever zone its process has left off at.
THEOREM SearchCovers == ASSUME OwnIndex PROVE Spec => []SearchComplete
<1>1. Init => SearchOK
  BY DEF Init, SearchOK, IndexOK, TriedOK
<1>2. Inv /\ SearchOK /\ [Next]_vars => SearchOK'
  BY SearchNext
<1>3. Inv /\ SearchOK => SearchComplete
  <2> SUFFICES ASSUME Inv, SearchOK, NEW c \in Clients
               PROVE  /\ pc[c] = "try" => zone_index[ProcessOf[c]] \notin tried[c]
                      /\ Exhausted(c) => tried[c] = 0..num_zones-1
    BY DEF SearchComplete
  <2>1. /\ zone_index[ProcessOf[c]] \in Nat /\ start[c] \in Nat /\ num_zones \in Nat
        /\ TriedOK(c)
    BY ClientsAssumption, Layout DEF Inv, TypeOK, ClientTypeOK, SetupTypeOK, SearchOK
  <2>2. ASSUME pc[c] = "try" PROVE zone_index[ProcessOf[c]] \notin tried[c]
    BY <2>1, <2>2 DEF TriedOK, Before
  <2>3. ASSUME Exhausted(c) PROVE tried[c] = 0..num_zones-1
    BY <2>1, <2>3 DEF TriedOK, Exhausted
  <2> QED  BY <2>2, <2>3
<1> QED  BY <1>1, <1>2, <1>3, Invariance, PTL DEF Spec

(***************************************************************************)
(* The allocator implements the abstract memory.                           *)
(***************************************************************************)
LEMMA Scale ==
  ASSUME NEW m \in Int, NEW n \in Int, m <= n
  PROVE  /\ m * BlockLen \in Int /\ n * BlockLen \in Int
         /\ m * BlockLen <= n * BlockLen
<1>1. (n - m) * BlockLen >= 0
  BY LengthsAssumption
<1>2. n * BlockLen = m * BlockLen + (n - m) * BlockLen
  BY LengthsAssumption
<1>3. m * BlockLen \in Int /\ n * BlockLen \in Int /\ (n - m) * BlockLen \in Int
  BY LengthsAssumption
<1> QED  BY <1>1, <1>2, <1>3

\* An area ends inside the chunk it was taken from, magic number included.
LEMMA AreaInChunk ==
  ASSUME NEW i \in Nat, NEW n \in Nat, NEW k \in Classes,
         FindLeastPot(n + MagicLen) = k
  PROVE  /\ i * BlockLen + n + MagicLen <= (i + 2^k) * BlockLen
         /\ i * BlockLen \in Nat /\ (i + 2^k) * BlockLen \in Nat
<1>1. n + MagicLen \in Nat
  BY LengthsAssumption
<1>2. n + MagicLen <= 2^k * BlockLen
  BY <1>1, LeastPotFits
<1>3. 2^k \in Nat
  BY PowersOfTwo
<1>4. (i + 2^k) * BlockLen = i * BlockLen + 2^k * BlockLen
  BY <1>3, LengthsAssumption
<1>5. i * BlockLen \in Nat /\ 2^k * BlockLen \in Nat
  BY <1>3, LengthsAssumption
<1> QED  BY <1>1, <1>2, <1>4, <1>5, LengthsAssumption

\* Taking a chunk hands out an area that overlaps no other.
LEMMA TakeRefines ==
  ASSUME Inv, NEW c \in Clients, Take(c)
  PROVE  Memory!Alloc
<1>a. PICK z, k : z = at[c] /\ k = ClassOf(c)
  OBVIOUS
<1>0. ZoneTypeOK /\ ClientTypeOK /\ SetupTypeOK
  BY DEF Inv, TypeOK
<1>1. z \in Zones /\ size[c] \in Nat /\ size[c] > 0
  BY <1>a, <1>0 DEF Take, Inv, ControlInv, ClientTypeOK
<1>2. k \in Classes
  <2>1. size[c] + MagicLen \in Nat
    BY <1>1, LengthsAssumption
  <2>2. k \in 0..MaxClass+1
    BY <1>a, <2>1, LeastPotType DEF ClassOf
  <2> QED  BY <1>a, <2>2, LengthsAssumption DEF Take, Classes
<1>3. PICK i \in free_list[z][k] :
        held' = held \cup {[zone |-> z, first |-> i, size |-> size[c]]}
  BY <1>a DEF Take
<1>4. PICK n : n = size[c]
  OBVIOUS
<1>5. PICK a : a = [zone |-> z, first |-> i, size |-> n]
  OBVIOUS
<1>6. a.zone = z /\ a.first = i /\ a.size = n
  BY <1>5
<1>7. i \in BlocksOf(z) /\ i \in Nat /\ NumBlocks(z) \in Int
  BY <1>0, <1>1, <1>2, Layout DEF ZoneTypeOK, BlocksOf
<1>8. n \in Nat /\ n > 0 /\ FindLeastPot(n + MagicLen) = k
  BY <1>a, <1>1, <1>4 DEF ClassOf
<1>9. IsChunk(z, i, k) /\ ~IsActive(z, i)
  BY <1>2 DEF IsChunk, IsActive, IsChained
<1>10. 2^k \in Nat /\ 2^k > 0 /\ i + 2^k <= blkno[z] /\ blkno[z] <= NumBlocks(z)
       /\ blkno[z] \in Nat
  <2>1. 2^k \in Nat /\ 2^k > 0 /\ blkno[z] \in Nat
    BY <1>0, <1>1, <1>2, PowersOfTwo DEF SetupTypeOK
  <2>2. i + 2^k <= blkno[z]
    BY <1>1, <1>2, <1>7, <1>9 DEF Inv, ChunkInv, FitInv
  <2>3. blkno[z] > 0
    BY <2>1, <2>2, <1>7
  <2> QED  BY <2>1, <2>2, <2>3, <1>1 DEF Inv, ChunkInv, FitInv
<1>11. a \notin held /\ held' = held \cup {a}
  <2>1. a \notin held
    BY <1>6, <1>9 DEF Inv, HeldInv
  <2> QED  BY <2>1, <1>3, <1>4, <1>5
<1>12. /\ i * BlockLen + n + MagicLen <= (i + 2^k) * BlockLen
       /\ i * BlockLen \in Nat /\ (i + 2^k) * BlockLen \in Nat
  BY <1>2, <1>7, <1>8, AreaInChunk
<1>13. i * BlockLen + n + MagicLen <= BlockLen * NumBlocks(z)
  <2>1. /\ (i + 2^k) * BlockLen <= NumBlocks(z) * BlockLen
        /\ NumBlocks(z) * BlockLen \in Int
    BY <1>7, <1>10, Scale
  <2>2. BlockLen * NumBlocks(z) = NumBlocks(z) * BlockLen
    BY <1>7, LengthsAssumption
  <2> QED  BY <2>1, <2>2, <1>8, <1>12, LengthsAssumption
<1>14. ASSUME NEW b \in held PROVE ~Memory!Overlap(a, b)
  <2>1. CASE b.zone # z
    BY <2>1, <1>6 DEF Memory!Overlap
  <2>2. CASE b.zone = z
    <3>1. PICK j, m : j = b.first /\ m = b.size
      OBVIOUS
    <3>2. /\ j \in BlocksOf(z) /\ IsActive(z, j) /\ ~InMerge(z, j)
          /\ blocksz[z][j] = m
      BY <2>2, <3>1 DEF Inv, HeldInv
    <3>3. j \in Nat /\ m \in Nat
      BY <3>1, <1>0 DEF ZoneTypeOK, Areas
    <3>4. PICK t \in Classes : FindLeastPot(m + MagicLen) = t
      BY <3>2, <1>1 DEF Inv, ChunkInv, ActiveInv
    <3>5. IsChunk(z, j, t)
      BY <3>2, <3>4 DEF IsChunk
    <3>6. i + 2^k <= j \/ j + 2^t <= i
      BY <3>2, <3>5, <1>1, <1>2, <1>7, <1>9 DEF Inv, ChunkInv, ChunksDisjoint
    <3>7. 2^t \in Nat
      BY PowersOfTwo
    <3>8. /\ j * BlockLen + m + MagicLen <= (j + 2^t) * BlockLen
          /\ j * BlockLen \in Nat /\ (j + 2^t) * BlockLen \in Nat
      BY <3>3, <3>4, AreaInChunk
    <3>9. CASE i + 2^k <= j
      <4>1. (i + 2^k) * BlockLen <= j * BlockLen
        BY <3>3, <3>9, <1>7, <1>10, Scale
      <4>2. i * BlockLen + n + MagicLen <= j * BlockLen
        BY <4>1, <3>8, <1>8, <1>12, LengthsAssumption
      <4>3. ~(j * BlockLen < i * BlockLen + n + MagicLen)
        BY <4>2, <3>8, <1>8, <1>12, LengthsAssumption
      <4> QED  BY <4>3, <3>1, <1>6 DEF Memory!Overlap, Memory!FirstByte, Memory!EndByte
    <3>10. CASE j + 2^t <= i
      <4>1. (j + 2^t) * BlockLen <= i * BlockLen
        BY <3>3, <3>7, <3>10, <1>7, Scale
      <4>2. j * BlockLen + m + MagicLen <= i * BlockLen
        BY <4>1, <3>3, <3>8, <1>12, LengthsAssumption
      <4>3. ~(i * BlockLen < j * BlockLen + m + MagicLen)
        BY <4>2, <3>3, <3>8, <1>12, LengthsAssumption
      <4> QED  BY <4>3, <3>1, <1>6 DEF Memory!Overlap, Memory!FirstByte, Memory!EndByte
    <3> QED  BY <3>6, <3>9, <3>10
  <2> QED  BY <2>1, <2>2
<1>15. a \in held' \ held
  BY <1>11
<1>16. /\ a.first >= 0 /\ a.size > 0
       /\ Memory!EndByte(a) <= [y \in Zones |-> BlockLen * NumBlocks(y)][a.zone]
  BY <1>1, <1>6, <1>7, <1>8, <1>13 DEF Memory!EndByte, Memory!FirstByte
<1> QED  BY <1>11, <1>14, <1>15, <1>16 DEF Memory!Alloc

\* pgstrom_shmem_alloc and pgstrom_shmem_free keep the promise of
\* SharedMemory for any number of clients and any layout of the zones: the
\* areas in use lie inside their zone and share no byte, not even of the
\* magic number behind them.
THEOREM MemoryImplemented == Spec => MemoryRefined
<1>1. Init => Memory!Init
  BY DEF Init, Memory!Init
<1>2. ASSUME Inv, [Next]_vars PROVE [Memory!Next]_held
  <2>1. CASE \E c \in Clients : Take(c)
    BY <2>1, <1>2, TakeRefines DEF Memory!Next
  <2>2. CASE \E c \in Clients : Free(c)
    <3>1. \E a \in held : held' = held \ {a}
      BY <2>2 DEF Free
    <3> QED  BY <3>1 DEF Memory!Next, Memory!Free
  <2>3. CASE Setup
    BY <2>3 DEF Setup, SetupChunk, SetupShift, SetupZone, SetupEnd
  <2>4. ASSUME NEW c \in Clients, ClientStep(c) \/ ClientCall(c)
        PROVE  Take(c) \/ Free(c) \/ held' = held
    BY <2>4 DEF ClientStep, ClientCall, LockZone, Split, ZoneFull, OutOfRange, NextZone,
                TestZone, Merge, MergeEnd, Alloc, AllocAlap
  <2>5. CASE UNCHANGED vars
    BY <2>5 DEF vars
  <2> QED  BY <1>2, <2>1, <2>2, <2>3, <2>4, <2>5 DEF Next
<1> QED  BY <1>1, <1>2, Invariance, PTL DEF Spec, MemoryRefined, Memory!Spec
=============================================================================
