-------------------------------- MODULE Shmem -------------------------------
(***************************************************************************)
(* The shared memory allocator of PG-Strom (shmem.c): a segment is divided *)
(* into zones, a zone into blocks, and a buddy allocator hands out areas   *)
(* of 2^n blocks of a zone.  The descriptors of the blocks follow the      *)
(* header of the zone; blocksz of a block is its size in bytes if it is    *)
(* the head of a chunk, and 0 else.  A head is free if it is chained to a  *)
(* free list and active if not.                                            *)
(*                                                                         *)
(* The order of a free list decides which chunk is handed out first; the   *)
(* lists are sets here, and any member may be taken.                       *)
(*                                                                         *)
(* The routines that work on a zone do so under its spinlock, one step per *)
(* iteration of their loops.  A client that would index an array out of    *)
(* its bounds stops at pc "ub", with the spinlock held.                    *)
(***************************************************************************)
EXTENDS Integers, FiniteSets

CONSTANTS
  Clients,      \* threads that allocate shared memory
  Processes,
  ProcessOf,    \* the process of each client
  NoClient,     \* nobody holds the spinlock
  BlockLen,     \* SHMEM_BLOCKSZ
  MaxClass,     \* SHMEM_BLOCKSZ_BITS_RANGE
  MagicLen,     \* sizeof(cl_uint), room for the magic number
  HeaderLen,    \* offsetof(shmem_zone, blocks)
  DescLen,      \* sizeof(shmem_block)
  TotalSize,    \* pgstrom_shmem_totalsize
  ZoneLength,   \* zone_length, aligned down to the block size
  Requests      \* sizes the clients ask for

Classes == 0..MaxClass

ASSUME ClientsAssumption ==
  /\ NoClient \notin Clients
  /\ ProcessOf \in [Clients -> Processes]
ASSUME LengthsAssumption ==
  /\ BlockLen \in Nat \ {0} /\ MaxClass \in Nat
  /\ MagicLen \in Nat \ {0} /\ MagicLen < BlockLen
  /\ HeaderLen \in Nat /\ DescLen \in Nat
  /\ TotalSize \in Nat \ {0} /\ ZoneLength \in Nat \ {0}
  /\ TotalSize % BlockLen = 0 /\ ZoneLength % BlockLen = 0
ASSUME RequestsAssumption == Requests \subseteq Nat
ASSUME PowersOfTwo ==
  /\ \A s \in Classes : 2^s \in Nat \ {0} /\ 2^(s+1) = 2 * 2^s
  /\ \A s, t \in Classes : s < t => 2^s < 2^t

(***************************************************************************)
(* The layout of the segment (pgstrom_setup_shmem).                        *)
(***************************************************************************)
CeilDiv(n, d) == (n + d - 1) \div d

PlannedZones == CeilDiv(TotalSize, ZoneLength)
Zones == 0..PlannedZones-1

Offset(z) == z * ZoneLength
LengthOf(z) == IF Offset(z) + ZoneLength < TotalSize
               THEN ZoneLength ELSE TotalSize - Offset(z)

\* A rest of the segment that is too small is not used.
TooSmall(z) == LengthOf(z) <= ZoneLength \div 8

NumBlocks(z) == (LengthOf(z) - HeaderLen) \div (DescLen + BlockLen)
BlocksOf(z)  == 0..NumBlocks(z)-1

\* Slip: the class below, unless the size is a power of two.
LargestPotBelow(size) == Cardinality({s \in Classes : 2^(s+1) * BlockLen <= size})

\* find_least_pot: the number of classes that are too small for size
FindLeastPot(size) == Cardinality({s \in Classes : 2^s * BlockLen < size})

\* index ^ (1 << shift), for an index that is a multiple of 1 << shift
Buddy(i, s) == IF (i \div 2^s) % 2 = 0 THEN i + 2^s ELSE i - 2^s

VARIABLES
  is_ready,
  num_zones,
  zone,        \* zone_index of the setup
  shift,       \* size class the setup tries
  blkno,       \* blocks of each zone that the setup has put on a list
  blocksz,     \* blocksz of the descriptors
  free_list,
  num_free,
  num_active,
  lock,        \* who holds the spinlock of each zone
  zone_index,  \* static variable of pgstrom_shmem_alloc in each process
  pc,          \* where each client is
  start,       \* the zone at which its search has started
  at,          \* the zone it works on
  size,        \* argument of pgstrom_shmem_alloc
  index,       \* the chunk it frees,
  cls,         \* and its size class
  tried,       \* history: zones the call has tried
  held         \* areas handed out and not freed yet

setupVars  == <<is_ready, num_zones, zone, shift, blkno>>
zoneVars   == <<blocksz, free_list, num_free, num_active>>
clientVars == <<pc, start, at, size, index, cls, tried>>
vars == <<setupVars, zoneVars, lock, zone_index, held, clientVars>>

(***************************************************************************)
(* Setup by the server process, the whole zone one class after the other,  *)
(* the largest chunks first.                                               *)
(***************************************************************************)
SettingUp == ~is_ready /\ zone < PlannedZones /\ ~TooSmall(zone)

SetupChunk ==
  /\ SettingUp
  /\ blkno[zone] + 2^shift <= NumBlocks(zone)
  /\ blocksz' = [blocksz EXCEPT ![zone][blkno[zone]] = BlockLen * 2^shift]
  /\ free_list' = [free_list EXCEPT ![zone][shift] = @ \cup {blkno[zone]}]
  /\ num_free' = [num_free EXCEPT ![zone][shift] = @ + 1]
  /\ blkno' = [blkno EXCEPT ![zone] = @ + 2^shift]
  /\ UNCHANGED <<is_ready, num_zones, zone, shift, num_active, lock, zone_index,
                 held, clientVars>>

SetupShift ==
  /\ SettingUp
  /\ blkno[zone] < NumBlocks(zone)
  /\ blkno[zone] + 2^shift > NumBlocks(zone)
  /\ shift > 0
  /\ shift' = shift - 1
  /\ UNCHANGED <<is_ready, num_zones, zone, blkno, zoneVars, lock, zone_index,
                 held, clientVars>>

SetupZone ==
  /\ SettingUp
  /\ blkno[zone] >= NumBlocks(zone)
  /\ zone' = zone + 1
  /\ shift' = MaxClass
  /\ UNCHANGED <<is_ready, num_zones, blkno, zoneVars, lock, zone_index, held,
                 clientVars>>

SetupEnd ==
  /\ ~is_ready
  /\ zone = PlannedZones \/ TooSmall(zone)
  /\ num_zones' = zone
  /\ is_ready' = TRUE
  /\ UNCHANGED <<zone, shift, blkno, zoneVars, lock, zone_index, held,
                 clientVars>>

(***************************************************************************)
(* pgstrom_shmem_alloc: zone by zone, from where the last call succeeded.  *)
(* Before the segment is ready, and for sizes it refuses, it returns NULL  *)
(* and changes nothing.                                                    *)
(***************************************************************************)
Acceptable(n) == is_ready /\ n # 0 /\ n <= 2^MaxClass * BlockLen

Goto(c, l) == pc' = [pc EXCEPT ![c] = l]
Unlock(c) == lock' = [lock EXCEPT ![at[c]] = NoClient]

\* The local variables of the call are gone.
Return(c) ==
  /\ Goto(c, "idle")
  /\ start' = [start EXCEPT ![c] = 0]
  /\ at'    = [at    EXCEPT ![c] = 0]
  /\ size'  = [size  EXCEPT ![c] = 0]
  /\ index' = [index EXCEPT ![c] = 0]
  /\ cls'   = [cls   EXCEPT ![c] = 0]
  /\ tried' = [tried EXCEPT ![c] = {}]

Alloc(c, n) ==
  /\ pc[c] = "idle" /\ Acceptable(n)
  /\ size'  = [size EXCEPT ![c] = n]
  /\ start' = [start EXCEPT ![c] = zone_index[ProcessOf[c]]]
  /\ Goto(c, "try")
  /\ UNCHANGED <<setupVars, zoneVars, lock, zone_index, held, at, index, cls,
                 tried>>

\* pgstrom_shmem_alloc_alap: what is left of the chunk is allocated as well.
RoundUp(n) == 2^FindLeastPot(n + MagicLen) * BlockLen - MagicLen
AllocAlap(c, n) == Alloc(c, RoundUp(n))

\* Without any zone the process crashes here.
LockZone(c) ==
  LET z == zone_index[ProcessOf[c]] IN
  /\ pc[c] = "try"
  /\ z < num_zones /\ lock[z] = NoClient
  /\ lock' = [lock EXCEPT ![z] = c]
  /\ at' = [at EXCEPT ![c] = z]
  /\ tried' = [tried EXCEPT ![c] = @ \cup {z}]
  /\ Goto(c, "alloc")
  /\ UNCHANGED <<setupVars, zoneVars, zone_index, held, start, size, index, cls>>

(***************************************************************************)
(* pgstrom_shmem_zone_block_alloc, with the size class s of the request:   *)
(* pgstrom_shmem_zone_block_split halves the smallest free chunk above s   *)
(* until there is one of class s.                                          *)
(***************************************************************************)
ClassOf(c) == FindLeastPot(size[c] + MagicLen)

\* The smallest class above s that has a free chunk is k.
SplitsAt(z, s, k) ==
  /\ s < k /\ free_list[z][k] # {}
  /\ \A j \in Classes : s < j /\ j < k => free_list[z][j] = {}

\* Slip: the upper half does not become a head.
SplitLower(c) ==
  LET z == at[c] s == ClassOf(c) IN
  /\ pc[c] = "alloc" /\ s < MaxClass /\ free_list[z][s] = {}
  /\ \E k \in Classes : SplitsAt(z, s, k) /\ \E i \in free_list[z][k] :
       /\ free_list' = [free_list EXCEPT ![z][k] = @ \ {i}, ![z][k-1] = @ \cup {i}]
       /\ blocksz' = [blocksz EXCEPT ![z][i] = 2^(k-1) * BlockLen]
       /\ num_free' = [num_free EXCEPT ![z][k] = @ - 1, ![z][k-1] = @ + 1]
  /\ UNCHANGED <<setupVars, num_active, lock, zone_index, held, clientVars>>

\* Slip: the upper half is looked for behind the chunk.
SplitBehind(c) ==
  LET z == at[c] s == ClassOf(c) IN
  /\ pc[c] = "alloc" /\ s < MaxClass /\ free_list[z][s] = {}
  /\ \E k \in Classes : SplitsAt(z, s, k) /\ \E i \in free_list[z][k] :
       /\ free_list' = [free_list EXCEPT ![z][k] = @ \ {i},
                                         ![z][k-1] = @ \cup {i, i + 2^k}]
       /\ blocksz' = [blocksz EXCEPT ![z][i] = 2^(k-1) * BlockLen]
       /\ num_free' = [num_free EXCEPT ![z][k] = @ - 1, ![z][k-1] = @ + 2]
  /\ UNCHANGED <<setupVars, num_active, lock, zone_index, held, clientVars>>

Split(c) ==
  LET z == at[c] s == ClassOf(c) IN
  /\ pc[c] = "alloc" /\ s < MaxClass /\ free_list[z][s] = {}
  /\ \E k \in Classes : SplitsAt(z, s, k) /\ \E i \in free_list[z][k] :
       LET half == 2^(k-1) IN
       /\ free_list' = [free_list EXCEPT ![z][k] = @ \ {i},
                                         ![z][k-1] = @ \cup {i, i + half}]
       /\ blocksz' = [blocksz EXCEPT ![z][i] = half * BlockLen,
                                     ![z][i + half] = half * BlockLen]
       /\ num_free' = [num_free EXCEPT ![z][k] = @ - 1, ![z][k-1] = @ + 2]
  /\ UNCHANGED <<setupVars, num_active, lock, zone_index, held, clientVars>>

Take(c) ==
  LET z == at[c] s == ClassOf(c) IN
  /\ pc[c] = "alloc" /\ s <= MaxClass
  /\ \E i \in free_list[z][s] :
       /\ free_list' = [free_list EXCEPT ![z][s] = @ \ {i}]
       /\ blocksz' = [blocksz EXCEPT ![z][i] = size[c]]
       /\ held' = held \cup {[zone |-> z, first |-> i, size |-> size[c]]}
  /\ num_free' = [num_free EXCEPT ![z][s] = @ - 1]
  /\ num_active' = [num_active EXCEPT ![z][s] = @ + 1]
  /\ Unlock(c)
  /\ Return(c)
  /\ UNCHANGED <<setupVars, zone_index>>

ZoneFull(c) ==
  LET z == at[c] s == ClassOf(c) IN
  /\ pc[c] = "alloc" /\ s < MaxClass
  /\ \A k \in Classes : s <= k => free_list[z][k] = {}
  /\ Unlock(c)
  /\ Goto(c, "next")
  /\ UNCHANGED <<setupVars, zoneVars, zone_index, held, start, at, size, index, cls,
                 tried>>

\* Assert(shift > 0 && shift <= SHMEM_BLOCKSZ_BITS_RANGE) of the split fails,
\* or free_list itself is indexed beyond its end.
OutOfRange(c) ==
  /\ pc[c] = "alloc"
  /\ \/ ClassOf(c) > MaxClass
     \/ ClassOf(c) = MaxClass /\ free_list[at[c]][MaxClass] = {}
  /\ Goto(c, "ub")
  /\ UNCHANGED <<setupVars, zoneVars, lock, zone_index, held, start, at, size, index,
                 cls, tried>>

NextZone(c) ==
  /\ pc[c] = "next"
  /\ zone_index' = [zone_index EXCEPT ![ProcessOf[c]] = (@ + 1) % num_zones]
  /\ Goto(c, "test")
  /\ UNCHANGED <<setupVars, zoneVars, lock, start, at, size, index, cls, held,
                 tried>>

\* Slip: the search ends behind the last zone, wherever it has started.
ExhaustedAtEnd(c) == pc[c] = "test" /\ zone_index[ProcessOf[c]] = 0

\* All zones have been tried: NULL is returned.
Exhausted(c) == pc[c] = "test" /\ zone_index[ProcessOf[c]] = start[c]

TestZone(c) ==
  /\ pc[c] = "test"
  /\ \/ /\ Exhausted(c)
        /\ Return(c)
     \/ /\ ~Exhausted(c)
        /\ Goto(c, "try")
        /\ UNCHANGED <<start, at, size, index, cls, tried>>
  /\ UNCHANGED <<setupVars, zoneVars, lock, zone_index, held>>

(***************************************************************************)
(* pgstrom_shmem_free and pgstrom_shmem_zone_block_free.  Whoever knows an *)
(* area may free it: messages are freed by the last of their users.        *)
(***************************************************************************)
IsChained(z, i) == \E s \in Classes : i \in free_list[z][s]
IsActive(z, i) == blocksz[z][i] > 0 /\ ~IsChained(z, i)

Free(c) ==
  /\ pc[c] = "idle"
  /\ \E a \in held :
       LET s == FindLeastPot(blocksz[a.zone][a.first] + MagicLen) IN
       /\ lock[a.zone] = NoClient
       /\ lock' = [lock EXCEPT ![a.zone] = c]
       /\ num_active' = [num_active EXCEPT ![a.zone][s] = @ - 1]
       /\ at' = [at EXCEPT ![c] = a.zone]
       /\ index' = [index EXCEPT ![c] = a.first]
       /\ cls' = [cls EXCEPT ![c] = s]
       /\ held' = held \ {a}
  /\ Goto(c, "merge")
  /\ UNCHANGED <<setupVars, blocksz, free_list, num_free, zone_index, start, size,
                 tried>>

\* Slip: the size of the buddy is not compared.
MergeableAny(c) ==
  LET z == at[c] s == cls[c] b == Buddy(index[c], s) IN
  /\ s < MaxClass /\ b + 2^s < NumBlocks(z)
  /\ ~IsActive(z, b) /\ blocksz[z][b] > 0

\* Slip: a chunk is merged with the one behind it only.
MergeableUpper(c) ==
  LET z == at[c] s == cls[c] b == Buddy(index[c], s) IN
  /\ s < MaxClass /\ b + 2^s < NumBlocks(z) /\ b > index[c]
  /\ ~IsActive(z, b) /\ blocksz[z][b] = 2^s * BlockLen

\* The buddy is inside the zone, free and of the same size.
Mergeable(c) ==
  LET z == at[c] s == cls[c] b == Buddy(index[c], s) IN
  /\ s < MaxClass /\ b + 2^s < NumBlocks(z)
  /\ ~IsActive(z, b) /\ blocksz[z][b] = 2^s * BlockLen

Merge(c) ==
  LET z == at[c] s == cls[c] i == index[c] b == Buddy(i, s)
      low == IF b < i THEN b ELSE i
      high == IF b < i THEN i ELSE b
  IN
  /\ pc[c] = "merge" /\ Mergeable(c)
  /\ free_list' = [free_list EXCEPT ![z] = [j \in Classes |-> @[j] \ {b}]]
  /\ blocksz' = [blocksz EXCEPT ![z][high] = 0]
  /\ index' = [index EXCEPT ![c] = low]
  /\ num_free' = [num_free EXCEPT ![z][s] = @ - 1]
  /\ cls' = [cls EXCEPT ![c] = s + 1]
  /\ UNCHANGED <<setupVars, num_active, lock, zone_index, pc, start, at, size,
                 held, tried>>

\* Slip: the counter of the class is forgotten.
MergeEndUncounted(c) ==
  LET z == at[c] s == cls[c] i == index[c] IN
  /\ pc[c] = "merge" /\ ~Mergeable(c)
  /\ free_list' = [free_list EXCEPT ![z][s] = @ \cup {i}]
  /\ blocksz' = [blocksz EXCEPT ![z][i] = 2^s * BlockLen]
  /\ Unlock(c)
  /\ Return(c)
  /\ UNCHANGED <<setupVars, num_free, num_active, zone_index, held>>

MergeEnd(c) ==
  LET z == at[c] s == cls[c] i == index[c] IN
  /\ pc[c] = "merge" /\ ~Mergeable(c)
  /\ num_free' = [num_free EXCEPT ![z][s] = @ + 1]
  /\ free_list' = [free_list EXCEPT ![z][s] = @ \cup {i}]
  /\ blocksz' = [blocksz EXCEPT ![z][i] = 2^s * BlockLen]
  /\ Unlock(c)
  /\ Return(c)
  /\ UNCHANGED <<setupVars, num_active, zone_index, held>>

(***************************************************************************)
(* The specification.                                                      *)
(***************************************************************************)
Init ==
  /\ is_ready = FALSE /\ num_zones = 0
  /\ zone = 0 /\ shift = MaxClass
  /\ blkno = [z \in Zones |-> 0]
  /\ blocksz = [z \in Zones |-> [i \in BlocksOf(z) |-> 0]]
  /\ free_list = [z \in Zones |-> [s \in Classes |-> {}]]
  /\ num_free   = [z \in Zones |-> [s \in Classes |-> 0]]
  /\ num_active = [z \in Zones |-> [s \in Classes |-> 0]]
  /\ lock = [z \in Zones |-> NoClient]
  /\ zone_index = [p \in Processes |-> 0]
  /\ pc = [c \in Clients |-> "idle"]
  /\ start = [c \in Clients |-> 0]
  /\ at    = [c \in Clients |-> 0]
  /\ size  = [c \in Clients |-> 0]
  /\ index = [c \in Clients |-> 0]
  /\ cls   = [c \in Clients |-> 0]
  /\ held = {}
  /\ tried = [c \in Clients |-> {}]

Setup == SetupChunk \/ SetupShift \/ SetupZone \/ SetupEnd

\* What a client does inside pgstrom_shmem_alloc and pgstrom_shmem_free
ClientStep(c) ==
  \/ LockZone(c) \/ Split(c) \/ Take(c) \/ ZoneFull(c) \/ OutOfRange(c)
  \/ NextZone(c) \/ TestZone(c) \/ Merge(c) \/ MergeEnd(c)

ClientCall(c) == Free(c) \/ \E n \in Requests : Alloc(c, n) \/ AllocAlap(c, n)

Next == Setup \/ \E c \in Clients : ClientStep(c) \/ ClientCall(c)

Spec == Init /\ [][Next]_vars

(***************************************************************************)
(* Type invariant.                                                         *)
(***************************************************************************)
SetupTypeOK ==
  /\ is_ready \in BOOLEAN
  /\ zone \in 0..PlannedZones /\ num_zones \in 0..zone
  /\ shift \in Classes
  /\ blkno \in [Zones -> Nat]

Areas == [zone : Zones, first : Nat, size : Nat]

ZoneTypeOK ==
  /\ DOMAIN blocksz = Zones
  /\ \A z \in Zones : blocksz[z] \in [BlocksOf(z) -> Nat]
  /\ DOMAIN free_list = Zones
  /\ \A z \in Zones : free_list[z] \in [Classes -> SUBSET BlocksOf(z)]
  /\ num_free   \in [Zones -> [Classes -> Int]]
  /\ num_active \in [Zones -> [Classes -> Int]]
  /\ lock \in [Zones -> Clients \cup {NoClient}]
  /\ held \subseteq Areas

ClientTypeOK ==
  /\ zone_index \in [Processes -> Nat]
  /\ pc \in [Clients -> {"idle", "try", "alloc", "next", "test", "merge", "ub"}]
  /\ start \in [Clients -> Nat]
  /\ at \in [Clients -> Nat]
  /\ size \in [Clients -> Nat]
  /\ index \in [Clients -> Nat]
  /\ cls \in [Clients -> Nat]
  /\ tried \in [Clients -> SUBSET Zones]

\* Every variable has its type; the heads on the lists and the areas handed
\* out lie inside their zone.
TypeOK == SetupTypeOK /\ ZoneTypeOK /\ ClientTypeOK

(***************************************************************************)
(* The chunks of a zone.                                                   *)
(***************************************************************************)
\* Somebody is freeing the chunk of 2^s blocks that starts at block i.
Merging(z, i, s) ==
  \E c \in Clients : pc[c] = "merge" /\ at[c] = z /\ index[c] = i /\ cls[c] = s
InMerge(z, i) == \E c \in Clients : pc[c] = "merge" /\ at[c] = z /\ index[c] = i

\* A chunk of 2^s blocks starts at block i of the zone z: it is free, being
\* freed, or in use.
IsChunk(z, i, s) ==
  \/ i \in free_list[z][s]
  \/ Merging(z, i, s)
  \/ /\ i \in BlocksOf(z) /\ IsActive(z, i) /\ ~InMerge(z, i)
     /\ FindLeastPot(blocksz[z][i] + MagicLen) = s

\* No two chunks of a zone share a block, whatever splits and merges have
\* happened and in the middle of them.
ChunksDisjoint ==
  \A z \in Zones : \A i \in BlocksOf(z), s \in Classes : IsChunk(z, i, s) =>
    \A j \in BlocksOf(z), t \in Classes : IsChunk(z, j, t) =>
      \/ i = j /\ s = t
      \/ i + 2^s <= j \/ j + 2^t <= i

\* The walk of collect_shmem_block_info over a zone, from the head of a chunk
\* to the next one, never meets a block that is "neither active nor free",
\* and ends at the end of the zone.
WalkFindsHeads ==
  \A z \in Zones :
    /\ blkno[z] > 0 => \E s \in Classes : IsChunk(z, 0, s)
    /\ \A i \in BlocksOf(z), s \in Classes : IsChunk(z, i, s) =>
         \/ i + 2^s = blkno[z]
         \/ \E t \in Classes : IsChunk(z, i + 2^s, t)

\* While nobody works on a zone, its counters are those a debug build finds by
\* walking over the blocks (collect_shmem_block_info), and every free head is
\* on the list of its size.
CountersExact ==
  \A z \in Zones, s \in Classes : lock[z] = NoClient =>
    /\ num_free[z][s] = Cardinality(free_list[z][s])
    /\ \A i \in free_list[z][s] : blocksz[z][i] = 2^s * BlockLen
    /\ num_active[z][s] =
         Cardinality({i \in BlocksOf(z) :
            IsActive(z, i) /\ FindLeastPot(blocksz[z][i] + MagicLen) = s})

\* Two free chunks of the zone z that could be one
FreeBuddies(z, i, s) ==
  s < MaxClass /\ {i, Buddy(i, s)} \subseteq free_list[z][s]

\* Free buddies are merged, except for the last two chunks of a zone.
MergedButLast ==
  \A z \in Zones, s \in Classes : lock[z] = NoClient =>
    \A i \in free_list[z][s] : FreeBuddies(z, i, s) =>
      NumBlocks(z) \in {i + 2^s, Buddy(i, s) + 2^s}

\* "If no memory blocks are available, it goes into another zone to allocate
\* memory": a call tries every zone once before it returns NULL.
SearchComplete ==
  \A c \in Clients :
    /\ pc[c] = "try" => zone_index[ProcessOf[c]] \notin tried[c]
    /\ Exhausted(c) => tried[c] = 0..num_zones-1

(***************************************************************************)
(* The areas the clients hold implement an abstract memory.                *)
(***************************************************************************)
Memory == INSTANCE SharedMemory WITH
            areas <- held,
            Lengths <- [z \in Zones |-> BlockLen * NumBlocks(z)]

\* Areas handed out are inside their zone and share no byte, their magic
\* number included; an area is handed out again only after it was freed.
MemoryRefined == Memory!Spec
=============================================================================
