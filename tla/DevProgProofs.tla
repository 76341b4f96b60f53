--------------------------- MODULE DevProgProofs ---------------------------
(***************************************************************************)
(* Theorems about DevProg, for any number of backends, event loops,        *)
(* messages, entries and sources, and for every value of the sizes.        *)
(***************************************************************************)
EXTENDS DevProg, FiniteSetTheorems, TLAPS

BackPC == {"idle", "alloc", "count", "retry", "held"}
LoopPC == {"idle", "reclaim", "lookup", "build", "answer", "ub"}
Jobs == {"none", "compile", "success", "log", "logged", "error", "wake", "wakebad"}

(***************************************************************************)
(* The inductive invariant, part by part.                                  *)
(***************************************************************************)
EntryTypeOK ==
  /\ mem \in [Entries -> {"free", "private", "linked", "reclaimed"}]
  /\ source \in [Entries -> Sources \cup {None}]
  /\ refcnt \in [Entries -> Int] /\ clref \in [Entries -> Int]
  /\ program \in [Entries -> {"null", "prog", "bad"}]
  /\ building \in [Entries -> BOOLEAN] /\ errmsg \in [Entries -> BOOLEAN]
  /\ waitq \in [Entries -> SUBSET Messages]
  /\ elock \in [Entries -> BOOLEAN]
  /\ job \in [Entries -> Jobs]

ActorTypeOK ==
  /\ pc \in [Backends \cup Threads -> BackPC \cup LoopPC]
  /\ \A b \in Backends : pc[b] \in BackPC
  /\ \A t \in Threads : pc[t] \in LoopPC
  /\ reg \in [Backends \cup Entries -> 0..(UsageWidth - 1)]
  /\ key \in [Backends -> Entries \cup {None}]
  /\ want \in [Backends -> Sources \cup {None}]
  /\ scans \in [Backends -> 0..MaxScans]

MessageTypeOK ==
  /\ serving \in [Threads -> Messages \cup {None}]
  /\ queue \in Seq(Messages) /\ device \subseteq Messages
  /\ mkey \in [Messages -> Entries \cup {None}]
  /\ owner \in [Messages -> Backends \cup {None, "leaked"}]

\* The type invariant: unsigned numbers stay unsigned, lists hold entries
\* and messages, every actor is at a place of its own code.
TypeOK ==
  /\ EntryTypeOK /\ ActorTypeOK /\ MessageTypeOK
  /\ lru \in Seq(Entries) /\ usage \in 0..(UsageWidth - 1)

\* A backend has a key from the creation of an entry, or the hit, to the end
\* of its scan.  Until it links the entry nobody else knows of it.
KeysInv ==
  \A b \in Backends :
    /\ key[b] # None <=> pc[b] \in {"count", "retry", "held"}
    /\ pc[b] = "held" => mem[key[b]] = "linked"
    /\ pc[b] \in {"count", "retry"} =>
         /\ mem[key[b]] = "private" /\ source[key[b]] = want[b]
         /\ \A c \in Backends \ {b} : key[c] # key[b]

\* An entry that nobody has linked has no program.
PrivateInv == \A e \in Entries : mem[e] = "private" => program[e] = "null"

\* A message that is allocated has a key of a linked entry, and one that is
\* with the server or with a backend is allocated.
ChunksInv ==
  \A m \in Messages :
    /\ mkey[m] # None => mem[mkey[m]] = "linked"
    /\ InServer(m) \/ owner[m] # None => mkey[m] # None

Queued(m) == \E i \in 1..Len(queue) : queue[i] = m

QueueOnce == \A i, j \in 1..Len(queue) : i # j => queue[i] # queue[j]

\* A message is at one place of the server.
PlacesInv ==
  /\ QueueOnce
  /\ \A m \in Messages : Queued(m) =>
       /\ m \notin device
       /\ \A t \in Threads : serving[t] # m
       /\ \A e \in Entries : m \notin waitq[e]
  /\ \A m \in device :
       /\ \A t \in Threads : serving[t] # m
       /\ \A e \in Entries : m \notin waitq[e]
  /\ \A t \in Threads : serving[t] # None =>
       /\ \A u \in Threads \ {t} : serving[u] # serving[t]
       /\ \A e \in Entries : serving[t] \notin waitq[e]

\* A thread has a message until it parks, launches or answers it.
LoopsInv ==
  \A t \in Threads : serving[t] # None <=> pc[t] \in {"reclaim", "lookup", "answer", "ub"}

\* The list holds the linked entries only.
ListInv == \A i \in 1..Len(lru) : mem[lru[i]] = "linked"

\* m is still to be seen by clserv_lookup_device_program, or it was in the
\* hands of a thread that has ended at a bad release.
Pending(m) ==
  \/ \E e \in Entries : m \in waitq[e]
  \/ Queued(m)
  \/ \E t \in Threads : serving[t] = m /\ pc[t] \in {"reclaim", "lookup", "ub"}

\* A build keeps its program and a message that cannot be answered before
\* it ends: the entry stays in use while the driver works for it.
BuildInv ==
  \A e \in Entries :
    /\ elock[e] <=> job[e] \in {"wake", "wakebad"}
    /\ building[e] <=> job[e] # "none"
    /\ job[e] # "none" =>
         /\ program[e] = "prog"
         /\ \E m \in Messages : mkey[m] = e /\ Pending(m)
    /\ \A m \in waitq[e] : mkey[m] = e /\ job[e] # "none"

\* A kernel runs only a program whose build has ended well.
DeviceInv ==
  \A m \in device : program[mkey[m]] = "prog" /\ ~building[mkey[m]]

Inv ==
  /\ TypeOK /\ KeysInv /\ PrivateInv /\ ChunksInv /\ PlacesInv /\ LoopsInv
  /\ ListInv /\ OneEntryPerSource /\ BuildInv /\ DeviceInv
  /\ KeyRefs /\ ProgramRefs

USE DEF entryVars, cacheVars, backVars, msgVars

(***************************************************************************)
(* What the steps of each actor leave alone.                               *)
(***************************************************************************)
LEMMA BackendFrame ==
  ASSUME TypeOK, NEW b \in Backends, Backend(b)
  PROVE  /\ UNCHANGED <<job, clref, serving, device>>
         /\ \A a \in (Backends \cup Threads) \ {b} : pc'[a] = pc[a]
         /\ \A t \in Threads : pc'[t] = pc[t]
         /\ pc'[b] \in BackPC
         /\ pc' \in [Backends \cup Threads -> BackPC \cup LoopPC]
<1> USE DEF TypeOK, ActorTypeOK, BackPC, Goto, Hit
<1>1. CASE GetKey(b)  BY <1>1, DevProgAssumption, ZenonT(60) DEF GetKey
<1>2. CASE CreateEntry(b)  BY <1>2, DevProgAssumption DEF CreateEntry
<1>3. CASE CreateEntryFails(b)  BY <1>3, DevProgAssumption DEF CreateEntryFails
<1>4. CASE CountEntry(b)  BY <1>4, DevProgAssumption DEF CountEntry
<1>5. CASE LinkEntry(b)  BY <1>5, DevProgAssumption DEF LinkEntry
<1>6. CASE LoadChunk(b)  BY <1>6, DevProgAssumption DEF LoadChunk
<1>7. CASE TakeChunk(b)  BY <1>7, DevProgAssumption DEF TakeChunk
<1>8. CASE EndScan(b)  BY <1>8, DevProgAssumption DEF EndScan
<1>9. CASE AbortScan(b)  BY <1>9, DevProgAssumption DEF AbortScan
<1> QED  BY <1>1, <1>2, <1>3, <1>4, <1>5, <1>6, <1>7, <1>8, <1>9 DEF Backend

LEMMA LoopFrame ==
  ASSUME TypeOK, NEW t \in Threads, EventLoop(t)
  PROVE  /\ UNCHANGED <<source, errmsg, elock, reg, key, want, scans, owner>>
         /\ \A a \in (Backends \cup Threads) \ {t} : pc'[a] = pc[a]
         /\ \A b \in Backends : pc'[b] = pc[b]
         /\ pc'[t] \in LoopPC
         /\ pc' \in [Backends \cup Threads -> BackPC \cup LoopPC]
<1> USE DEF TypeOK, ActorTypeOK, LoopPC, Goto
<1>1. CASE TakeMessage(t)  BY <1>1, DevProgAssumption DEF TakeMessage
<1>2. CASE Reclaim(t)  BY <1>2, DevProgAssumption DEF Reclaim, ReleaseProgram
<1>3. CASE LookupNew(t)  BY <1>3, DevProgAssumption DEF LookupNew
<1>4. CASE LookupNoProgram(t)  BY <1>4, DevProgAssumption DEF LookupNoProgram
<1>5. CASE BuildReturns(t)  BY <1>5, DevProgAssumption DEF BuildReturns
<1>6. CASE LookupBuilding(t)  BY <1>6, DevProgAssumption DEF LookupBuilding
<1>7. CASE LookupReady(t)  BY <1>7, DevProgAssumption DEF LookupReady
<1>8. CASE LookupBad(t)  BY <1>8, DevProgAssumption DEF LookupBad
<1>9. CASE Answer(t)  BY <1>9, DevProgAssumption DEF Answer, Answered
<1> QED  BY <1>1, <1>2, <1>3, <1>4, <1>5, <1>6, <1>7, <1>8, <1>9 DEF EventLoop

LEMMA CallbackFrame ==
  ASSUME NEW e \in Entries, Callback(e)
  PROVE  UNCHANGED <<mem, source, refcnt, lru, pc, key, want, scans, serving,
                     device, mkey, owner>>
<1>1. CASE BuildStatus(e)  BY <1>1 DEF BuildStatus
<1>2. CASE CountLog(e)  BY <1>2 DEF CountLog
<1>3. CASE BuildLock(e)  BY <1>3 DEF BuildLock
<1>4. CASE Wake(e)  BY <1>4 DEF Wake
<1>5. CASE WakeEnd(e)  BY <1>5 DEF WakeEnd
<1> QED  BY <1>1, <1>2, <1>3, <1>4, <1>5 DEF Callback

(***************************************************************************)
(* Lists: cutting a node out, and moving it to the front.                  *)
(***************************************************************************)
LEMMA CutList ==
  ASSUME NEW S, NEW l \in Seq(S), NEW i \in 1..Len(l)
  PROVE  /\ Cut(l, i) \in Seq(S) /\ Len(Cut(l, i)) = Len(l) - 1
         /\ \A j \in 1..(Len(l) - 1) :
              Cut(l, i)[j] = IF j < i THEN l[j] ELSE l[j + 1]
<1>1. Len(l) - 1 \in Nat
  OBVIOUS
<1>2. \A j \in 1..(Len(l) - 1) : (IF j < i THEN l[j] ELSE l[j + 1]) \in S
  OBVIOUS
<1> QED  BY <1>1, <1>2 DEF Cut

LEMMA FrontList ==
  ASSUME NEW S, NEW l \in Seq(S), NEW i \in 1..Len(l)
  PROVE  LET s == <<l[i]>> \o Cut(l, i)
         IN  /\ s \in Seq(S) /\ Len(s) = Len(l) /\ s[1] = l[i]
             /\ \A j \in 2..Len(l) : s[j] = IF j <= i THEN l[j - 1] ELSE l[j]
<1>1. l[i] \in S
  OBVIOUS
<1>2. /\ Cut(l, i) \in Seq(S) /\ Len(Cut(l, i)) = Len(l) - 1
      /\ \A j \in 1..(Len(l) - 1) :
           Cut(l, i)[j] = IF j < i THEN l[j] ELSE l[j + 1]
  BY CutList
<1> HIDE DEF Cut
<1> QED  BY <1>1, <1>2

LEMMA ConsList ==
  ASSUME NEW S, NEW l \in Seq(S), NEW x \in S
  PROVE  /\ <<x>> \o l \in Seq(S) /\ Len(<<x>> \o l) = Len(l) + 1
         /\ (<<x>> \o l)[1] = x
         /\ \A j \in 2..(Len(l) + 1) : (<<x>> \o l)[j] = l[j - 1]
OBVIOUS

(***************************************************************************)
(* Counting.                                                               *)
(***************************************************************************)
\* F and G differ in x at most.
LEMMA Recount ==
  ASSUME NEW F, NEW G, NEW x, IsFiniteSet(F), G \ {x} = F \ {x}
  PROVE  /\ Cardinality(F) \in Nat
         /\ Cardinality(G) = Cardinality(F) - (IF x \in F THEN 1 ELSE 0)
                                            + (IF x \in G THEN 1 ELSE 0)
<1> DEFINE R == F \ {x}
           Rx == R \cup {x}
<1>1. IsFiniteSet(R)
  BY FS_RemoveElement
<1>2. Cardinality(F) \in Nat /\ Cardinality(R) \in Nat
  BY <1>1, FS_CardinalityType
<1>3. Cardinality(Rx) = Cardinality(R) + 1
  <2>1. x \notin R
    OBVIOUS
  <2> HIDE DEF R
  <2> QED  BY <1>1, <2>1, FS_AddElement
<1>4. /\ x \in F => F = Rx
      /\ x \notin F => F = R
      /\ x \in G => G = Rx
      /\ x \notin G => G = R
  BY Zenon
<1> HIDE DEF R, Rx
<1>5. Cardinality(F) = Cardinality(R) + (IF x \in F THEN 1 ELSE 0)
  BY <1>2, <1>3, <1>4
<1>6. Cardinality(G) = Cardinality(R) + (IF x \in G THEN 1 ELSE 0)
  BY <1>2, <1>3, <1>4
<1> QED  BY <1>2, <1>5, <1>6

(***************************************************************************)
(* Types.                                                                  *)
(***************************************************************************)
\* Differences of refcnt and of usage stay in their types.
LEMMA SizeType == \A x \in Int : Size(x) \in 0..(UsageWidth - 1)
BY DevProgAssumption DEF Size

LEMMA PutType ==
  ASSUME refcnt \in [Entries -> Int], NEW n, \A e \in Entries : n[e] \in Int, PutKeys(n)
  PROVE  refcnt' \in [Entries -> Int]
BY DEF PutKeys

\* The keys that steps follow are entries.
LEMMA KeysAreEntries ==
  ASSUME Inv
  PROVE  /\ \A b \in Backends : pc[b] \in {"count", "retry", "held"} => key[b] \in Entries
         /\ \A i \in 1..Len(lru) : lru[i] \in Entries
         /\ \A t \in Threads : pc[t] \in {"reclaim", "lookup", "answer", "ub"}
              => serving[t] \in Messages /\ mkey[serving[t]] \in Entries
         /\ \A m \in device : mkey[m] \in Entries
         /\ \A m \in Messages : owner[m] # None => mkey[m] \in Entries
BY DEF Inv, TypeOK, ActorTypeOK, MessageTypeOK, KeysInv, LoopsInv, ChunksInv, InServer

LEMMA EntryTypeNext == Inv /\ Next => EntryTypeOK'
<1> SUFFICES ASSUME Inv, Next PROVE EntryTypeOK'
  OBVIOUS
<1> USE DEF EntryTypeOK
<1>t. TypeOK /\ EntryTypeOK /\ lru \in Seq(Entries)
  BY DEF Inv, TypeOK
<1>k. \A x : \A e \in Entries : One(x)[e] \in Int
  BY DEF One
<1>1. ASSUME NEW b \in Backends, GetKey(b) PROVE EntryTypeOK'
  <2>1. refcnt' = refcnt \/ \E i \in 1..Len(lru) : refcnt' = [refcnt EXCEPT ![lru[i]] = @ + 1]
    BY <1>1 DEF GetKey, Hit, Matches
  <2>2. refcnt' \in [Entries -> Int]
    BY <2>1, <1>t, KeysAreEntries
  <2> QED  BY <1>1, <2>2, <1>t DEF GetKey
<1>2. ASSUME NEW b \in Backends, CreateEntry(b) PROVE EntryTypeOK'
  <2>1. want[b] \in Sources \cup {None}
    BY <1>t DEF TypeOK, ActorTypeOK
  <2> QED  BY <1>2, <1>t, <2>1 DEF CreateEntry
<1>3. ASSUME NEW b \in Backends, LinkEntry(b) PROVE EntryTypeOK'
  <2>1. refcnt' = refcnt \/ \E i \in 1..Len(lru) : refcnt' = [refcnt EXCEPT ![lru[i]] = @ + 1]
    BY <1>3 DEF LinkEntry, Hit, Matches
  <2>2. refcnt' \in [Entries -> Int]
    BY <2>1, <1>t, KeysAreEntries
  <2> QED  BY <1>3, <2>2, <1>t DEF LinkEntry
<1>4. ASSUME NEW b \in Backends, LoadChunk(b) PROVE EntryTypeOK'
  BY <1>4, <1>t, KeysAreEntries DEF LoadChunk
<1>5. ASSUME NEW b \in Backends, TakeChunk(b) PROVE EntryTypeOK'
  BY <1>5, <1>t, <1>k, PutType DEF TakeChunk
<1>6. ASSUME NEW b \in Backends, EndScan(b) PROVE EntryTypeOK'
  BY <1>6, <1>t, <1>k, PutType DEF EndScan
<1>7. ASSUME NEW b \in Backends, AbortScan(b) PROVE EntryTypeOK'
  <2> DEFINE gone == {m \in {m \in Messages : owner[m] = b} : ~InServer(m)}
             n == [e \in Entries |-> One(key[b])[e]
                                       + Cardinality({m \in gone : mkey[m] = e})]
  <2>1. \A e \in Entries : IsFiniteSet({m \in gone : mkey[m] = e})
    BY FS_Subset, DevProgAssumption
  <2>2. \A e \in Entries : Cardinality({m \in gone : mkey[m] = e}) \in Nat
    BY <2>1, FS_CardinalityType
  <2>3. \A e \in Entries : n[e] \in Int
    BY <2>2, <1>k
  <2>4. PutKeys(n)
    BY <1>7 DEF AbortScan
  <2>5. refcnt' \in [Entries -> Int]
    <3> HIDE DEF n
    <3> QED  BY <2>3, <2>4, <1>t, PutType
  <2> QED  BY <2>5, <1>7, <1>t DEF AbortScan
<1>8. ASSUME NEW t \in Threads, Reclaim(t) PROVE EntryTypeOK'
  <2>1. UNCHANGED <<source, refcnt, program, building, errmsg, waitq, elock, job>>
    BY <1>8 DEF Reclaim
  <2>2. mem' = mem \/ \E e : mem' = [mem EXCEPT ![e] = "reclaimed"]
    BY <1>8 DEF Reclaim
  <2>3. clref' = clref \/ \E e : clref' = [clref EXCEPT ![e] = @ - 1]
    BY <1>8 DEF Reclaim, ReleaseProgram
  <2>4. mem' \in [Entries -> {"free", "private", "linked", "reclaimed"}]
    BY <2>2, <1>t
  <2>5. clref' \in [Entries -> Int]
    BY <2>3, <1>t
  <2> QED  BY <2>1, <2>4, <2>5, <1>t
<1>9. ASSUME NEW t \in Threads, LookupNew(t) PROVE EntryTypeOK'
  <2>1. PICK e \in Entries : LookupNew(t)!(e)
    BY <1>9 DEF LookupNew
  <2>2. serving[t] \in Messages
    BY <2>1, KeysAreEntries DEF AtLookup
  <2> QED  BY <2>1, <2>2, <1>t DEF Jobs
<1>10. ASSUME NEW t \in Threads, LookupNoProgram(t) PROVE EntryTypeOK'
  BY <1>10, <1>t DEF LookupNoProgram
<1>11. ASSUME NEW t \in Threads, LookupBuilding(t) PROVE EntryTypeOK'
  <2>1. PICK e \in Entries : LookupBuilding(t)!(e)
    BY <1>11 DEF LookupBuilding
  <2>2. serving[t] \in Messages
    BY <2>1, KeysAreEntries DEF AtLookup
  <2> QED  BY <2>1, <2>2, <1>t
<1>12. ASSUME NEW t \in Threads, LookupReady(t) PROVE EntryTypeOK'
  BY <1>12, <1>t DEF LookupReady
<1>13. ASSUME NEW t \in Threads, Answer(t) PROVE EntryTypeOK'
  BY <1>13, <1>t, <1>k, PutType DEF Answer, Answered
<1>14. ASSUME NEW m \in Messages, KernelDone(m) PROVE EntryTypeOK'
  <2>1. refcnt' \in [Entries -> Int]
    BY <1>14, <1>t, <1>k, PutType DEF KernelDone, Answered
  <2> QED  BY <2>1, <1>14, <1>t, KeysAreEntries DEF KernelDone
<1>15. ASSUME NEW e \in Entries, BuildStatus(e) PROVE EntryTypeOK'
  BY <1>15, <1>t DEF BuildStatus, Jobs
<1>16. ASSUME NEW e \in Entries, CountLog(e) PROVE EntryTypeOK'
  BY <1>16, <1>t DEF CountLog, Jobs
<1>17. ASSUME NEW e \in Entries, BuildLock(e) PROVE EntryTypeOK'
  <2>1. (job[e] = "logged") \in BOOLEAN
    OBVIOUS
  <2>2. elock' \in [Entries -> BOOLEAN] /\ errmsg' \in [Entries -> BOOLEAN]
    BY <1>17, <1>t, <2>1, Zenon DEF BuildLock
  <2> QED  BY <1>17, <1>t, <2>2 DEF BuildLock, Jobs
<1>18. ASSUME NEW e \in Entries, Wake(e) PROVE EntryTypeOK'
  BY <1>18, <1>t DEF Wake
<1>19. ASSUME NEW e \in Entries, WakeEnd(e) PROVE EntryTypeOK'
  BY <1>19, <1>t DEF WakeEnd, Jobs
<1>20. ASSUME UNCHANGED entryVars PROVE EntryTypeOK'
  BY <1>20, <1>t
<1>21. \A b \in Backends : CreateEntryFails(b) \/ CountEntry(b) => UNCHANGED entryVars
  BY DEF CreateEntryFails, CountEntry
<1>22. \A t \in Threads : TakeMessage(t) \/ BuildReturns(t) \/ LookupBad(t)
         => UNCHANGED entryVars
  BY DEF TakeMessage, BuildReturns, LookupBad
<1> HIDE DEF EntryTypeOK, entryVars
<1> QED
  BY <1>1, <1>2, <1>3, <1>4, <1>5, <1>6, <1>7, <1>8, <1>9, <1>10, <1>11, <1>12,
     <1>13, <1>14, <1>15, <1>16, <1>17, <1>18, <1>19, <1>20, <1>21, <1>22
  DEF Next, Backend, EventLoop, Callback

LEMMA ActorTypeNext == Inv /\ Next => ActorTypeOK'
<1> SUFFICES ASSUME Inv, Next PROVE ActorTypeOK'
  OBVIOUS
<1>t. TypeOK /\ ActorTypeOK /\ usage \in 0..(UsageWidth - 1)
  BY DEF Inv, TypeOK
<1> DEFINE RestOK == /\ reg' \in [Backends \cup Entries -> 0..(UsageWidth - 1)]
                     /\ key' \in [Backends -> Entries \cup {None}]
                     /\ want' \in [Backends -> Sources \cup {None}]
                     /\ scans' \in [Backends -> 0..MaxScans]
<1>z. 0 \in 0..(UsageWidth - 1)
  BY DevProgAssumption
<1>1. ASSUME NEW b \in Backends, Backend(b) PROVE ActorTypeOK'
  <2>1. CASE GetKey(b)
    <3>1. scans' \in [Backends -> 0..MaxScans] /\ reg' = reg
      BY <2>1, <1>t, DevProgAssumption DEF GetKey, ActorTypeOK
    <3>2. want' \in [Backends -> Sources \cup {None}]
      BY <2>1, <1>t DEF GetKey, ActorTypeOK
    <3>3. key' = key \/ \E i \in 1..Len(lru) : key' = [key EXCEPT ![b] = lru[i]]
      BY <2>1 DEF GetKey, Hit, Matches
    <3>4. key' \in [Backends -> Entries \cup {None}]
      BY <3>3, <1>t, KeysAreEntries DEF ActorTypeOK
    <3> QED  BY <3>1, <3>2, <3>4, <1>t, <1>1, BackendFrame DEF ActorTypeOK
  <2>2. CASE CreateEntry(b)
    <3>1. RestOK
      BY <2>2, <1>t DEF CreateEntry, ActorTypeOK
    <3> QED  BY <3>1, <1>t, <1>1, BackendFrame DEF ActorTypeOK
  <2>3. CASE LinkEntry(b)
    <3>1. key' = key \/ \E i \in 1..Len(lru) : key' = [key EXCEPT ![b] = lru[i]]
      BY <2>3 DEF LinkEntry, Hit, Matches
    <3>2. key' \in [Backends -> Entries \cup {None}]
      BY <3>1, <1>t, KeysAreEntries DEF ActorTypeOK
    <3> QED  BY <2>3, <3>2, <1>t, <1>1, BackendFrame DEF ActorTypeOK, LinkEntry
  <2>4. CASE CountEntry(b)
    <3>1. RestOK
      BY <2>4, <1>t, <1>z DEF CountEntry, ActorTypeOK
    <3> QED  BY <3>1, <1>t, <1>1, BackendFrame DEF ActorTypeOK
  <2>5. CASE EndScan(b) \/ AbortScan(b)
    <3>1. key' = [key EXCEPT ![b] = None] /\ UNCHANGED <<reg, want, scans>>
      BY <2>5 DEF EndScan, AbortScan
    <3> QED  BY <3>1, <1>t, <1>1, BackendFrame DEF ActorTypeOK
  <2>6. CASE CreateEntryFails(b) \/ LoadChunk(b) \/ TakeChunk(b)
    <3>1. UNCHANGED <<reg, key, want, scans>>
      BY <2>6 DEF CreateEntryFails, LoadChunk, TakeChunk
    <3> QED  BY <3>1, <1>t, <1>1, BackendFrame DEF ActorTypeOK
  <2> QED  BY <2>1, <2>2, <2>3, <2>4, <2>5, <2>6, <1>1 DEF Backend
<1>2. ASSUME NEW t \in Threads, EventLoop(t) PROVE ActorTypeOK'
  BY <1>2, <1>t, LoopFrame DEF ActorTypeOK
<1>3. ASSUME NEW e \in Entries, Callback(e) PROVE ActorTypeOK'
  <2>1. reg' \in [Backends \cup Entries -> 0..(UsageWidth - 1)]
    <3>1. CASE BuildStatus(e)  BY <3>1, <1>t DEF BuildStatus, ActorTypeOK
    <3>2. CASE CountLog(e)  BY <3>2, <1>t, <1>z DEF CountLog, ActorTypeOK
    <3>3. CASE BuildLock(e) \/ Wake(e) \/ WakeEnd(e)
      BY <3>3, <1>t DEF BuildLock, Wake, WakeEnd, ActorTypeOK
    <3> QED  BY <3>1, <3>2, <3>3, <1>3 DEF Callback
  <2> QED  BY <2>1, <1>3, <1>t, CallbackFrame DEF ActorTypeOK
<1>4. ASSUME NEW m \in Messages, KernelDone(m) PROVE ActorTypeOK'
  BY <1>4, <1>t DEF KernelDone, ActorTypeOK
<1> QED  BY <1>1, <1>2, <1>3, <1>4 DEF Next

LEMMA MessageTypeNext == Inv /\ Next => MessageTypeOK'
<1> SUFFICES ASSUME Inv, Next PROVE MessageTypeOK'
  OBVIOUS
<1> USE DEF MessageTypeOK
<1>t. TypeOK /\ MessageTypeOK /\ \A e \in Entries : waitq[e] \subseteq Messages
  BY DEF Inv, TypeOK, EntryTypeOK
<1>1. ASSUME NEW b \in Backends, LoadChunk(b) PROVE MessageTypeOK'
  BY <1>1, <1>t, KeysAreEntries DEF LoadChunk
<1>2. ASSUME NEW b \in Backends, TakeChunk(b) PROVE MessageTypeOK'
  BY <1>2, <1>t DEF TakeChunk
<1>3. ASSUME NEW b \in Backends, EndScan(b) PROVE MessageTypeOK'
  BY <1>3, <1>t DEF EndScan
<1>4. ASSUME NEW b \in Backends, AbortScan(b) PROVE MessageTypeOK'
  BY <1>4, <1>t DEF AbortScan
<1>5. ASSUME NEW b \in Backends, GetKey(b) \/ CreateEntry(b) \/ CreateEntryFails(b)
                                 \/ CountEntry(b) \/ LinkEntry(b)
      PROVE MessageTypeOK'
  BY <1>5, <1>t DEF GetKey, CreateEntry, CreateEntryFails, CountEntry, LinkEntry
<1>6. ASSUME NEW t \in Threads, TakeMessage(t) PROVE MessageTypeOK'
  <2>1. Head(queue) \in Messages /\ Tail(queue) \in Seq(Messages)
    BY <1>6, <1>t DEF TakeMessage
  <2> QED  BY <2>1, <1>6, <1>t DEF TakeMessage
<1>7. ASSUME NEW t \in Threads, LookupNew(t) \/ LookupBuilding(t) PROVE MessageTypeOK'
  BY <1>7, <1>t DEF LookupNew, LookupBuilding
<1>8. ASSUME NEW t \in Threads, LookupReady(t) PROVE MessageTypeOK'
  BY <1>8, <1>t, KeysAreEntries DEF LookupReady, AtLookup
<1>9. ASSUME NEW t \in Threads, Answer(t) PROVE MessageTypeOK'
  BY <1>9, <1>t DEF Answer, Answered
<1>10. ASSUME NEW t \in Threads, Reclaim(t) \/ LookupNoProgram(t) \/ BuildReturns(t)
                                  \/ LookupBad(t)
       PROVE MessageTypeOK'
  BY <1>10, <1>t DEF Reclaim, ReleaseProgram, LookupNoProgram, BuildReturns, LookupBad
<1>11. ASSUME NEW e \in Entries, Wake(e) PROVE MessageTypeOK'
  BY <1>11, <1>t DEF Wake
<1>12. ASSUME NEW e \in Entries, BuildStatus(e) \/ CountLog(e) \/ BuildLock(e) \/ WakeEnd(e)
       PROVE MessageTypeOK'
  BY <1>12, <1>t DEF BuildStatus, CountLog, BuildLock, WakeEnd
<1>13. ASSUME NEW m \in Messages, KernelDone(m) PROVE MessageTypeOK'
  BY <1>13, <1>t DEF KernelDone, Answered
<1> HIDE DEF MessageTypeOK
<1> QED
  BY <1>1, <1>2, <1>3, <1>4, <1>5, <1>6, <1>7, <1>8, <1>9, <1>10, <1>11, <1>12, <1>13
  DEF Next, Backend, EventLoop, Callback

LEMMA TypeNext == Inv /\ Next => TypeOK'
<1> SUFFICES ASSUME Inv, Next PROVE TypeOK'
  OBVIOUS
<1>t. lru \in Seq(Entries) /\ usage \in 0..(UsageWidth - 1) /\ ActorTypeOK
  BY DEF Inv, TypeOK
<1>1. lru' \in Seq(Entries)
  <2>1. ASSUME NEW b \in Backends, Backend(b) PROVE lru' \in Seq(Entries)
    <3>1. \/ lru' = lru
          \/ \E i \in 1..Len(lru) : lru' = <<lru[i]>> \o Cut(lru, i)
          \/ \E e \in Entries : lru' = <<e>> \o lru
      <4>1. CASE GetKey(b)  BY <4>1 DEF GetKey, Hit, Matches
      <4>2. CASE LinkEntry(b)  BY <4>2, KeysAreEntries DEF LinkEntry, Hit, Matches
      <4>3. CASE ~GetKey(b) /\ ~LinkEntry(b)
        BY <4>3, <2>1 DEF Backend, CreateEntry, CreateEntryFails, CountEntry, LoadChunk,
           TakeChunk, EndScan, AbortScan
      <4> QED  BY <4>1, <4>2, <4>3
    <3> QED  BY <3>1, <1>t, FrontList, ConsList, ZenonT(60)
  <2>2. ASSUME NEW t \in Threads, EventLoop(t) PROVE lru' \in Seq(Entries)
    <3>1. lru' = lru \/ \E i \in 1..Len(lru) : lru' = Cut(lru, i)
      <4>1. CASE Reclaim(t)  BY <4>1 DEF Reclaim, ReleaseProgram, Victims
      <4>2. CASE ~Reclaim(t)
        BY <4>2, <2>2 DEF EventLoop, TakeMessage, LookupNew, LookupNoProgram, BuildReturns,
           LookupBuilding, LookupReady, LookupBad, Answer
      <4> QED  BY <4>1, <4>2
    <3> QED  BY <3>1, <1>t, CutList
  <2>3. ASSUME NEW e \in Entries, Callback(e) PROVE lru' \in Seq(Entries)
    BY <2>3, <1>t, CallbackFrame
  <2>4. ASSUME NEW m \in Messages, KernelDone(m) PROVE lru' \in Seq(Entries)
    BY <2>4, <1>t DEF KernelDone
  <2> QED  BY <2>1, <2>2, <2>3, <2>4 DEF Next
<1>2. usage' \in 0..(UsageWidth - 1)
  <2> USE DevProgAssumption
  <2>1. ASSUME NEW b \in Backends, CountEntry(b) PROVE usage' \in 0..(UsageWidth - 1)
    <3>1. reg[b] + AllocLen \in Int
      BY <1>t DEF ActorTypeOK, AllocLen
    <3> QED  BY <3>1, <2>1, SizeType DEF CountEntry
  <2>2. ASSUME NEW t \in Threads, Reclaim(t) PROVE usage' \in 0..(UsageWidth - 1)
    <3>1. \A e \in Entries : usage - ReclaimLen(e) \in Int
      BY <1>t DEF ReclaimLen
    <3>2. usage' = usage \/ \E e \in Entries : usage' = Size(usage - ReclaimLen(e))
      BY <2>2, KeysAreEntries DEF Reclaim, ReleaseProgram, Victims
    <3> QED  BY <3>1, <3>2, <1>t, SizeType
  <2>3. ASSUME NEW e \in Entries, CountLog(e) PROVE usage' \in 0..(UsageWidth - 1)
    <3>1. reg[e] + LogLen + 1 \in Int
      BY <1>t DEF ActorTypeOK
    <3> QED  BY <3>1, <2>3, SizeType DEF CountLog
  <2>4. ASSUME NEW b \in Backends, Backend(b), ~CountEntry(b) PROVE usage' = usage
    BY <2>4 DEF Backend, GetKey, CreateEntry, CreateEntryFails, LinkEntry, LoadChunk,
       TakeChunk, EndScan, AbortScan
  <2>5. ASSUME NEW t \in Threads, EventLoop(t), ~Reclaim(t) PROVE usage' = usage
    BY <2>5 DEF EventLoop, TakeMessage, LookupNew, LookupNoProgram, BuildReturns,
       LookupBuilding, LookupReady, LookupBad, Answer
  <2>6. ASSUME NEW e \in Entries, Callback(e), ~CountLog(e) PROVE usage' = usage
    BY <2>6 DEF Callback, BuildStatus, BuildLock, Wake, WakeEnd
  <2>7. ASSUME NEW m \in Messages, KernelDone(m) PROVE usage' = usage
    BY <2>7 DEF KernelDone
  <2> QED  BY <2>1, <2>2, <2>3, <2>4, <2>5, <2>6, <2>7, <1>t DEF Next
<1> QED  BY <1>1, <1>2, EntryTypeNext, ActorTypeNext, MessageTypeNext DEF TypeOK

(***************************************************************************)
(* The entries: who has their memory, and who holds a key.                 *)
(***************************************************************************)
\* What KeyRefs is for: an entry with a counter of zero has no holder, so
\* that the victim of pgstrom_reclaim_devprog is nobody's.
LEMMA VictimUnused ==
  ASSUME Inv, NEW e \in Entries, mem[e] # "free", refcnt[e] <= 0
  PROVE  Scans(e) = {} /\ Chunks(e) = {}
<1>1. IsFiniteSet(Scans(e)) /\ IsFiniteSet(Chunks(e))
  BY FS_Subset, DevProgAssumption DEF Scans, Chunks
<1>2. Cardinality(Scans(e)) \in Nat /\ Cardinality(Chunks(e)) \in Nat
  BY <1>1, FS_CardinalityType
<1>3. refcnt[e] = Cardinality(Scans(e)) + Cardinality(Chunks(e))
  BY DEF Inv, KeyRefs
<1>4. Cardinality(Scans(e)) = 0 /\ Cardinality(Chunks(e)) = 0
  BY <1>2, <1>3
<1> QED  BY <1>1, <1>4, FS_EmptySet

\* The memory of an entry changes hands in three places.
LEMMA MemSteps ==
  ASSUME Inv, Next
  PROVE  \/ UNCHANGED <<mem, program, source>>
         \/ \E b \in Backends : CreateEntry(b) \/ LinkEntry(b)
         \/ \E t \in Threads : Reclaim(t)
         \/ /\ UNCHANGED <<mem, source>>
            /\ \E e \in Entries : mem[e] = "linked" /\ program[e] # "bad"
                 /\ \E v \in {"prog", "bad"} : program' = [program EXCEPT ![e] = v]
<1>1. ASSUME NEW b \in Backends, Backend(b), ~CreateEntry(b), ~LinkEntry(b)
      PROVE UNCHANGED <<mem, program, source>>
  BY <1>1 DEF Backend, GetKey, CreateEntryFails, CountEntry, LoadChunk, TakeChunk,
     EndScan, AbortScan
<1>2. ASSUME NEW t \in Threads, EventLoop(t), ~Reclaim(t), ~LookupNew(t), ~LookupNoProgram(t)
      PROVE UNCHANGED <<mem, program, source>>
  BY <1>2 DEF EventLoop, TakeMessage, BuildReturns, LookupBuilding, LookupReady,
     LookupBad, Answer
<1>3. ASSUME NEW t \in Threads, LookupNew(t) \/ LookupNoProgram(t)
      PROVE /\ UNCHANGED <<mem, source>>
            /\ \E e \in Entries : mem[e] = "linked" /\ program[e] # "bad"
                 /\ \E v \in {"prog", "bad"} : program' = [program EXCEPT ![e] = v]
  <2>1. PICK e \in Entries : /\ AtLookup(t, e) /\ program[e] = "null"
                             /\ \E v \in {"prog", "bad"} : program' = [program EXCEPT ![e] = v]
                             /\ UNCHANGED <<mem, source>>
    BY <1>3 DEF LookupNew, LookupNoProgram
  <2>2. mem[e] = "linked"
    BY <2>1, KeysAreEntries, DevProgAssumption DEF AtLookup, Inv, ChunksInv
  <2> QED  BY <2>1, <2>2
<1>4. ASSUME NEW e \in Entries, Callback(e), ~WakeEnd(e)
      PROVE UNCHANGED <<mem, program, source>>
  BY <1>4 DEF Callback, BuildStatus, CountLog, BuildLock, Wake
<1>5. ASSUME NEW e \in Entries, WakeEnd(e)
      PROVE \/ UNCHANGED <<mem, program, source>>
            \/ /\ UNCHANGED <<mem, source>>
               /\ mem[e] = "linked" /\ program[e] # "bad"
               /\ program' = [program EXCEPT ![e] = "bad"]
  <2>1. job[e] # "none"
    BY <1>5 DEF WakeEnd
  <2>2. program[e] = "prog" /\ \E m \in Messages : mkey[m] = e
    BY <2>1 DEF Inv, BuildInv
  <2>3. mem[e] = "linked"
    BY <2>2, DevProgAssumption DEF Inv, ChunksInv
  <2> QED  BY <1>5, <2>2, <2>3 DEF WakeEnd
<1>6. ASSUME NEW m \in Messages, KernelDone(m) PROVE UNCHANGED <<mem, program, source>>
  BY <1>6 DEF KernelDone
<1> QED  BY <1>1, <1>2, <1>3, <1>4, <1>5, <1>6 DEF Next

\* The second trial hits, or links the entry of its backend.
LinkHits(b) ==
  \E i \in 1..Len(lru) :
    /\ lru[i] \in Entries /\ mem[lru[i]] = "linked"
    /\ lru' = <<lru[i]>> \o Cut(lru, i)
    /\ refcnt' = [refcnt EXCEPT ![lru[i]] = @ + 1]
    /\ key' = [key EXCEPT ![b] = lru[i]]
    /\ mem' = [mem EXCEPT ![key[b]] = "free"]

LinkAdds(b) ==
  /\ Matches(want[b]) = {}
  /\ mem' = [mem EXCEPT ![key[b]] = "linked"]
  /\ lru' = <<key[b]>> \o lru
  /\ UNCHANGED <<refcnt, key>>

LEMMA LinkCases ==
  ASSUME Inv, NEW b \in Backends, LinkEntry(b)
  PROVE  /\ UNCHANGED <<source, program, want, mkey, owner, job, clref, queue, waitq,
                        building, elock>>
         /\ pc[b] = "retry" /\ pc' = [pc EXCEPT ![b] = "held"] /\ key[b] \in Entries
         /\ mem[key[b]] = "private" /\ source[key[b]] = want[b]
         /\ LinkHits(b) \/ LinkAdds(b)
<1>1. pc[b] = "retry" /\ key[b] \in Entries
  BY KeysAreEntries DEF LinkEntry
<1>2. mem[key[b]] = "private" /\ source[key[b]] = want[b]
  BY <1>1 DEF Inv, KeysInv
<1>3. \A i \in 1..Len(lru) : lru[i] \in Entries /\ mem[lru[i]] = "linked"
  BY KeysAreEntries DEF Inv, ListInv
<1> QED  BY <1>1, <1>2, <1>3 DEF LinkEntry, Hit, Goto, Matches, LinkHits, LinkAdds

\* The victim of the reclaimer
LEMMA ReclaimCases ==
  ASSUME Inv, NEW t \in Threads, Reclaim(t)
  PROVE  /\ UNCHANGED <<source, refcnt, program, building, waitq, elock, job, key, want,
                        serving, queue, device, mkey, owner>>
         /\ pc[t] = "reclaim"
         /\ \E l \in {"lookup", "ub"} : pc' = [pc EXCEPT ![t] = l]
         /\ \/ UNCHANGED <<lru, mem, clref>>
            \/ \E i \in 1..Len(lru) :
                 /\ lru[i] \in Entries /\ mem[lru[i]] = "linked"
                 /\ Scans(lru[i]) = {} /\ Chunks(lru[i]) = {}
                 /\ lru' = Cut(lru, i)
                 /\ mem' = [mem EXCEPT ![lru[i]] = "reclaimed"]
                 /\ clref' = [clref EXCEPT ![lru[i]] =
                                IF program[lru[i]] = "prog" THEN @ - 1 ELSE @]
<1>1. \A i \in 1..Len(lru) : lru[i] \in Entries /\ mem[lru[i]] = "linked"
  BY KeysAreEntries DEF Inv, ListInv
<1>2. \A i \in Victims : Scans(lru[i]) = {} /\ Chunks(lru[i]) = {}
  BY <1>1, VictimUnused DEF Victims
<1>3. /\ \/ UNCHANGED <<lru, mem, clref>> /\ Goto(t, "lookup")
         \/ \E i \in Victims : /\ lru' = Cut(lru, i)
                                /\ mem' = [mem EXCEPT ![lru[i]] = "reclaimed"]
                                /\ ReleaseProgram(t, lru[i])
      /\ pc[t] = "reclaim"
      /\ UNCHANGED <<source, refcnt, program, building, waitq, elock, job, key, want,
                     serving, queue, device, mkey, owner>>
  BY DEF Reclaim
<1>4. clref \in [Entries -> Int]
  BY DEF Inv, TypeOK, EntryTypeOK
<1>5. ASSUME NEW e \in Entries, ReleaseProgram(t, e)
      PROVE  /\ Goto(t, "lookup") \/ Goto(t, "ub")
             /\ clref' = [clref EXCEPT ![e] = IF program[e] = "prog" THEN @ - 1 ELSE @]
  BY <1>4, <1>5 DEF ReleaseProgram
<1> QED  BY <1>1, <1>2, <1>3, <1>5 DEF Goto, Victims

LEMMA KeysNext == Inv /\ Next => KeysInv'
<1> SUFFICES ASSUME Inv, Next PROVE KeysInv'
  OBVIOUS
<1>k. KeysInv /\ TypeOK /\ ActorTypeOK /\ EntryTypeOK
  BY DEF Inv, TypeOK
<1>l. \A i \in 1..Len(lru) : lru[i] \in Entries /\ mem[lru[i]] = "linked"
  BY KeysAreEntries DEF Inv, ListInv
<1> USE DevProgAssumption
<1>1. ASSUME NEW b \in Backends, GetKey(b) PROVE KeysInv'
  <2>1. /\ UNCHANGED <<mem, source>>
        /\ \A c \in Backends \ {b} : want'[c] = want[c] /\ pc'[c] = pc[c] /\ key'[c] = key[c]
        /\ pc[b] = "idle"
    BY <1>1, <1>k DEF GetKey, Hit, Goto, ActorTypeOK
  <2>2. \/ pc'[b] = "alloc" /\ key'[b] = key[b]
        \/ pc'[b] = "held" /\ \E i \in 1..Len(lru) : key'[b] = lru[i]
    BY <1>1, <1>k DEF GetKey, Hit, Goto, Matches, ActorTypeOK
  <2> QED  BY <2>1, <2>2, <1>k, <1>l DEF KeysInv
<1>2. ASSUME NEW b \in Backends, CreateEntry(b) PROVE KeysInv'
  <2>1. PICK e \in Entries :
          /\ mem[e] = "free" /\ mem' = [mem EXCEPT ![e] = "private"]
          /\ source' = [source EXCEPT ![e] = want[b]]
          /\ key' = [key EXCEPT ![b] = e] /\ pc' = [pc EXCEPT ![b] = "count"] /\ want' = want
    BY <1>2 DEF CreateEntry, Goto
  <2>2. \A c \in Backends : key[c] # e
    BY <2>1, <1>k DEF KeysInv, ActorTypeOK, BackPC
  <2>3. mem'[e] = "private" /\ source'[e] = want'[b] /\ key'[b] = e /\ pc'[b] = "count"
    BY <2>1, <1>k DEF ActorTypeOK, EntryTypeOK
  <2>4. \A x \in Entries \ {e} : mem'[x] = mem[x] /\ source'[x] = source[x]
    BY <2>1, <1>k DEF EntryTypeOK
  <2>5. \A c \in Backends \ {b} : key'[c] = key[c] /\ pc'[c] = pc[c]
    BY <2>1, <1>k DEF ActorTypeOK
  <2>6. \A c \in Backends : key[c] \in Entries \cup {None}
    BY <1>k DEF ActorTypeOK
  <2> QED  BY <2>1, <2>2, <2>3, <2>4, <2>5, <2>6, <1>k DEF KeysInv
<1>3. ASSUME NEW b \in Backends, LinkEntry(b) PROVE KeysInv'
  <2>1. /\ pc[b] = "retry" /\ pc' = [pc EXCEPT ![b] = "held"] /\ UNCHANGED <<source, want>>
        /\ key[b] \in Entries
    BY <1>3, LinkCases
  <2>2. \A c \in Backends \ {b} : pc'[c] = pc[c] /\ key[c] # key[b]
    BY <2>1, <1>k DEF KeysInv, ActorTypeOK
  <2>3. pc'[b] = "held"
    BY <2>1, <1>k DEF ActorTypeOK
  <2>4. \A c \in Backends : key[c] \in Entries \cup {None}
    BY <1>k DEF ActorTypeOK
  <2>5. ASSUME NEW e \in Entries, mem[e] = "linked", e # key[b],
               key' = [key EXCEPT ![b] = e], mem' = [mem EXCEPT ![key[b]] = "free"]
        PROVE KeysInv'
    <3>1. key'[b] = e /\ mem'[e] = "linked"
      BY <2>5, <1>k DEF ActorTypeOK, EntryTypeOK
    <3>2. \A c \in Backends \ {b} : key'[c] = key[c]
      BY <2>5, <1>k DEF ActorTypeOK
    <3>3. \A x \in Entries \ {key[b]} : mem'[x] = mem[x]
      BY <2>5, <1>k DEF EntryTypeOK
    <3> QED  BY <2>1, <2>2, <2>3, <2>4, <2>5, <3>1, <3>2, <3>3, <1>k DEF KeysInv
  <2>6. ASSUME mem' = [mem EXCEPT ![key[b]] = "linked"], key' = key
        PROVE KeysInv'
    <3>1. mem'[key[b]] = "linked" /\ \A x \in Entries \ {key[b]} : mem'[x] = mem[x]
      BY <2>1, <2>6, <1>k DEF EntryTypeOK
    <3> QED  BY <2>1, <2>2, <2>3, <2>4, <2>6, <3>1, <1>k DEF KeysInv
  <2>7. mem[key[b]] = "private"
    BY <2>1, <1>k DEF KeysInv
  <2>8. CASE LinkHits(b)  BY <2>5, <2>7, <2>8 DEF LinkHits
  <2>9. CASE LinkAdds(b)  BY <2>6, <2>9 DEF LinkAdds
  <2> QED  BY <2>8, <2>9, <1>3, LinkCases
<1>4. ASSUME NEW b \in Backends, CreateEntryFails(b) \/ CountEntry(b) PROVE KeysInv'
  BY <1>4, <1>k DEF CreateEntryFails, CountEntry, Goto, KeysInv, ActorTypeOK
<1>5. ASSUME NEW b \in Backends, LoadChunk(b) \/ TakeChunk(b) PROVE KeysInv'
  BY <1>5, <1>k DEF LoadChunk, TakeChunk, KeysInv
<1>6. ASSUME NEW b \in Backends, EndScan(b) \/ AbortScan(b) PROVE KeysInv'
  <2>1. /\ key' = [key EXCEPT ![b] = None] /\ UNCHANGED <<mem, source, want>>
        /\ pc' = [pc EXCEPT ![b] = "idle"]
    BY <1>6 DEF EndScan, AbortScan, Goto
  <2> QED  BY <2>1, <1>k DEF KeysInv, ActorTypeOK
<1>7. ASSUME NEW t \in Threads, EventLoop(t) PROVE KeysInv'
  <2>1. \A b \in Backends : pc'[b] = pc[b] /\ key'[b] = key[b] /\ want'[b] = want[b]
    BY <1>7, <1>k, LoopFrame
  <2>2. source' = source
    BY <1>7, <1>k, LoopFrame
  <2>3. \A b \in Backends : key[b] # None => mem'[key[b]] = mem[key[b]]
    <3>1. CASE Reclaim(t)
      <4>1. ASSUME NEW e \in Entries, Scans(e) = {}, mem' = [mem EXCEPT ![e] = "reclaimed"]
            PROVE \A b \in Backends : key[b] # None => mem'[key[b]] = mem[key[b]]
        BY <4>1, <1>k DEF Scans, ActorTypeOK, EntryTypeOK
      <4> QED  BY <3>1, <4>1, ReclaimCases
    <3>2. CASE ~Reclaim(t)
      BY <3>2, <1>7 DEF EventLoop, TakeMessage, LookupNew, LookupNoProgram, BuildReturns,
         LookupBuilding, LookupReady, LookupBad, Answer
    <3> QED  BY <3>1, <3>2
  <2> QED  BY <2>1, <2>2, <2>3, <1>k DEF KeysInv
<1>8. ASSUME NEW e \in Entries, Callback(e) PROVE KeysInv'
  BY <1>8, <1>k, CallbackFrame DEF KeysInv
<1>9. ASSUME NEW m \in Messages, KernelDone(m) PROVE KeysInv'
  BY <1>9, <1>k DEF KernelDone, KeysInv
<1> QED  BY <1>1, <1>2, <1>3, <1>4, <1>5, <1>6, <1>7, <1>8, <1>9 DEF Next, Backend

LEMMA PrivateNext == Inv /\ Next => PrivateInv'
<1> SUFFICES ASSUME Inv, Next PROVE PrivateInv'
  OBVIOUS
<1>k. PrivateInv /\ EntryTypeOK
  BY DEF Inv, TypeOK
<1>1. ASSUME NEW b \in Backends, CreateEntry(b) PROVE PrivateInv'
  BY <1>1, <1>k DEF CreateEntry, PrivateInv, EntryTypeOK
<1>2. ASSUME NEW b \in Backends, LinkEntry(b) PROVE PrivateInv'
  <2>1. program' = program /\ \E v \in {"free", "linked"} : mem' = [mem EXCEPT ![key[b]] = v]
    BY <1>2, LinkCases DEF LinkHits, LinkAdds
  <2> QED  BY <2>1, <1>k DEF PrivateInv, EntryTypeOK
<1>3. ASSUME NEW t \in Threads, Reclaim(t) PROVE PrivateInv'
  BY <1>3, <1>k, ReclaimCases, ZenonT(60) DEF PrivateInv, EntryTypeOK
<1>4. CASE UNCHANGED <<mem, program, source>>
  BY <1>4, <1>k DEF PrivateInv
<1>5. ASSUME UNCHANGED mem, NEW e \in Entries, mem[e] = "linked",
             NEW v, program' = [program EXCEPT ![e] = v]
      PROVE PrivateInv'
  BY <1>5, <1>k DEF PrivateInv, EntryTypeOK
<1> QED  BY <1>1, <1>2, <1>3, <1>4, <1>5, MemSteps

\* The list of linked entries, after each of the steps that change it
LEMMA ListNext == Inv /\ Next => (ListInv /\ OneEntryPerSource)'
<1> SUFFICES ASSUME Inv, Next PROVE (ListInv /\ OneEntryPerSource)'
  OBVIOUS
<1> USE DEF ListInv, OneEntryPerSource
<1>k. /\ ListInv /\ OneEntryPerSource /\ EntryTypeOK /\ lru \in Seq(Entries)
      /\ \A i \in 1..Len(lru) : lru[i] \in Entries
  BY KeysAreEntries DEF Inv, TypeOK
<1>1. ASSUME NEW i \in 1..Len(lru), lru' = <<lru[i]>> \o Cut(lru, i), source' = source,
             \A j \in 1..Len(lru) : mem'[lru[j]] = "linked"
      PROVE (ListInv /\ OneEntryPerSource)'
  <2>1. /\ Len(lru') = Len(lru) /\ lru'[1] = lru[i]
        /\ \A j \in 2..Len(lru) : lru'[j] = IF j <= i THEN lru[j - 1] ELSE lru[j]
    <3> HIDE DEF ListInv, OneEntryPerSource
    <3> DEFINE s == <<lru[i]>> \o Cut(lru, i)
    <3>1. /\ Len(s) = Len(lru) /\ s[1] = lru[i]
          /\ \A j \in 2..Len(lru) : s[j] = IF j <= i THEN lru[j - 1] ELSE lru[j]
      BY <1>k, FrontList
    <3>2. lru' = s
      BY <1>1
    <3> HIDE DEF s
    <3> QED  BY <3>1, <3>2
  <2> DEFINE at(j) == IF j = 1 THEN i ELSE IF j <= i THEN j - 1 ELSE j
  <2>2. \A j \in 1..Len(lru) : at(j) \in 1..Len(lru) /\ lru'[j] = lru[at(j)]
    BY <2>1
  <2>3. \A j, l \in 1..Len(lru) : j # l => at(j) # at(l)
    OBVIOUS
  <2>4. ListInv'
    <3> HIDE DEF at
    <3> QED  BY <2>1, <2>2, <1>1, SMTT(30)
  <2>5. ASSUME NEW j \in 1..Len(lru), NEW l \in 1..Len(lru), j # l
        PROVE source'[lru'[j]] # source'[lru'[l]]
    <3>1. /\ at(j) \in 1..Len(lru) /\ at(l) \in 1..Len(lru) /\ at(j) # at(l)
          /\ lru'[j] = lru[at(j)] /\ lru'[l] = lru[at(l)]
      BY <2>2, <2>3, <2>5
    <3> HIDE DEF at
    <3> QED  BY <3>1, <1>1, <1>k
  <2> QED  BY <2>1, <2>4, <2>5
<1>2. ASSUME NEW i \in 1..Len(lru), lru' = Cut(lru, i), source' = source,
             mem' = [mem EXCEPT ![lru[i]] = "reclaimed"]
      PROVE (ListInv /\ OneEntryPerSource)'
  <2>1. /\ Len(lru') = Len(lru) - 1
        /\ \A j \in 1..(Len(lru) - 1) : lru'[j] = IF j < i THEN lru[j] ELSE lru[j + 1]
    BY <1>2, <1>k, CutList
  <2> DEFINE at(j) == IF j < i THEN j ELSE j + 1
  <2>2. \A j \in 1..Len(lru') : at(j) \in 1..Len(lru) /\ lru'[j] = lru[at(j)] /\ at(j) # i
    BY <2>1, <1>k
  <2>3. \A j, l \in 1..Len(lru') : j # l => at(j) # at(l)
    BY <2>1, <1>k
  <2>4. \A j \in 1..Len(lru) : j # i => mem'[lru[j]] = "linked"
    BY <1>2, <1>k DEF EntryTypeOK
  <2>5. ListInv'
    <3> HIDE DEF at
    <3> QED  BY <2>2, <2>4
  <2>6. ASSUME NEW j \in 1..Len(lru'), NEW l \in 1..Len(lru'), j # l
        PROVE source'[lru'[j]] # source'[lru'[l]]
    <3>1. /\ at(j) \in 1..Len(lru) /\ at(l) \in 1..Len(lru) /\ at(j) # at(l)
          /\ lru'[j] = lru[at(j)] /\ lru'[l] = lru[at(l)]
      BY <2>2, <2>3, <2>6
    <3> HIDE DEF at
    <3> QED  BY <3>1, <1>2, <1>k
  <2> QED  BY <2>5, <2>6
<1>3. ASSUME NEW b \in Backends, GetKey(b) PROVE (ListInv /\ OneEntryPerSource)'
  <2>1. /\ UNCHANGED <<mem, source>>
        /\ lru' = lru \/ \E i \in 1..Len(lru) : lru' = <<lru[i]>> \o Cut(lru, i)
    BY <1>3 DEF GetKey, Hit, Matches
  <2>2. \A j \in 1..Len(lru) : mem'[lru[j]] = "linked"
    BY <2>1, <1>k
  <2>3. CASE lru' = lru  BY <2>1, <2>3, <1>k
  <2> QED  BY <2>1, <2>2, <2>3, <1>1
<1>4. ASSUME NEW b \in Backends, CreateEntry(b) PROVE (ListInv /\ OneEntryPerSource)'
  <2>1. PICK e \in Entries : /\ mem[e] = "free" /\ mem' = [mem EXCEPT ![e] = "private"]
                             /\ source' = [source EXCEPT ![e] = want[b]] /\ lru' = lru
    BY <1>4 DEF CreateEntry
  <2>2. \A j \in 1..Len(lru) : mem'[lru[j]] = "linked" /\ source'[lru[j]] = source[lru[j]]
    BY <2>1, <1>k DEF EntryTypeOK
  <2> QED  BY <2>1, <2>2, <1>k
<1>5. ASSUME NEW b \in Backends, LinkEntry(b) PROVE (ListInv /\ OneEntryPerSource)'
  <2>1. key[b] \in Entries /\ mem[key[b]] = "private" /\ source' = source
        /\ source[key[b]] = want[b]
    BY <1>5, LinkCases
  <2>2. ASSUME NEW i \in 1..Len(lru), lru' = <<lru[i]>> \o Cut(lru, i),
               mem' = [mem EXCEPT ![key[b]] = "free"]
        PROVE (ListInv /\ OneEntryPerSource)'
    <3>1. \A j \in 1..Len(lru) : mem'[lru[j]] = "linked"
      BY <2>1, <2>2, <1>k DEF EntryTypeOK
    <3> QED  BY <2>1, <2>2, <3>1, <1>1
  <2>3. ASSUME Matches(want[b]) = {}, mem' = [mem EXCEPT ![key[b]] = "linked"],
               lru' = <<key[b]>> \o lru
        PROVE (ListInv /\ OneEntryPerSource)'
    <3>1. /\ Len(lru') = Len(lru) + 1 /\ lru'[1] = key[b]
          /\ \A j \in 2..(Len(lru) + 1) : lru'[j] = lru[j - 1]
      BY <2>1, <2>3, <1>k, ConsList
    <3>2. \A j \in 1..Len(lru) : mem'[lru[j]] = "linked" /\ source[lru[j]] # want[b]
      BY <2>1, <2>3, <1>k DEF EntryTypeOK, Matches
    <3>3. mem'[key[b]] = "linked"
      BY <2>1, <2>3, <1>k DEF EntryTypeOK
    <3>4. \A j \in 2..(Len(lru) + 1) : j - 1 \in 1..Len(lru)
      BY <1>k
    <3>5. ListInv'
      BY <3>1, <3>2, <3>3, <3>4, <1>k
    <3>6. ASSUME NEW i \in 1..Len(lru'), NEW j \in 1..Len(lru'), i < j
          PROVE source'[lru'[i]] # source'[lru'[j]]
      <4>1. j \in 2..(Len(lru) + 1)
        BY <3>1, <3>6, <1>k
      <4>2. CASE i = 1
        BY <4>1, <4>2, <3>1, <3>2, <3>4, <2>1
      <4>3. CASE i # 1
        <5>1. i \in 2..(Len(lru) + 1) /\ i - 1 # j - 1
          BY <4>3, <3>6, <3>1, <1>k
        <5> QED  BY <5>1, <4>1, <3>1, <3>4, <2>1, <1>k
      <4> QED  BY <4>2, <4>3
    <3>7. \A i, j \in 1..Len(lru') : i # j => i < j \/ j < i
      BY <3>1, <1>k
    <3> QED  BY <3>5, <3>6, <3>7
  <2>4. CASE LinkHits(b)  BY <2>2, <2>4 DEF LinkHits
  <2>5. CASE LinkAdds(b)  BY <2>3, <2>5 DEF LinkAdds
  <2> QED  BY <2>4, <2>5, <1>5, LinkCases
<1>6. ASSUME NEW t \in Threads, Reclaim(t) PROVE (ListInv /\ OneEntryPerSource)'
  <2>1. CASE UNCHANGED <<lru, mem, source>>  BY <2>1, <1>k
  <2> QED  BY <2>1, <1>2, <1>6, ReclaimCases
<1>7. ASSUME UNCHANGED <<mem, source>>, lru' = lru PROVE (ListInv /\ OneEntryPerSource)'
  BY <1>7, <1>k
<1>8. ASSUME NEW b \in Backends, Backend(b), ~GetKey(b), ~CreateEntry(b), ~LinkEntry(b)
      PROVE UNCHANGED <<mem, source>> /\ lru' = lru
  BY <1>8 DEF Backend, CreateEntryFails, CountEntry, LoadChunk, TakeChunk, EndScan, AbortScan
<1>9. ASSUME NEW t \in Threads, EventLoop(t), ~Reclaim(t)
      PROVE UNCHANGED <<mem, source>> /\ lru' = lru
  BY <1>9 DEF EventLoop, TakeMessage, LookupNew, LookupNoProgram, BuildReturns,
     LookupBuilding, LookupReady, LookupBad, Answer
<1>10. ASSUME NEW m \in Messages, KernelDone(m) PROVE UNCHANGED <<mem, source>> /\ lru' = lru
  BY <1>10 DEF KernelDone
<1> HIDE DEF ListInv, OneEntryPerSource
<1> QED  BY <1>3, <1>4, <1>5, <1>6, <1>7, <1>8, <1>9, <1>10, CallbackFrame DEF Next

(***************************************************************************)
(* The places of a message.                                                *)
(***************************************************************************)
\* pgstrom_enqueue_message puts a message at the end of the server queue,
LEMMA QueueAppend ==
  ASSUME queue \in Seq(Messages), NEW m \in Messages, queue' = Append(queue, m)
  PROVE  /\ \A x : Queued(x)' <=> Queued(x) \/ x = m
         /\ QueueOnce /\ ~Queued(m) => QueueOnce'
<1>1. /\ Len(queue') = Len(queue) + 1 /\ queue'[Len(queue) + 1] = m
      /\ \A i \in 1..Len(queue) : queue'[i] = queue[i]
  OBVIOUS
<1>2. 1..Len(queue') = 1..Len(queue) \cup {Len(queue) + 1}
  BY <1>1
<1>3. ASSUME NEW x PROVE Queued(x)' <=> Queued(x) \/ x = m
  BY <1>1, <1>2 DEF Queued
<1>4. QueueOnce /\ ~Queued(m) => QueueOnce'
  BY <1>1, <1>2 DEF QueueOnce, Queued
<1> QED  BY <1>3, <1>4

\* and an event loop takes the first one.
LEMMA QueueTail ==
  ASSUME queue \in Seq(Messages), queue # << >>, QueueOnce, queue' = Tail(queue)
  PROVE  /\ \A x : Queued(x)' <=> Queued(x) /\ x # Head(queue)
         /\ Queued(Head(queue)) /\ Head(queue) \in Messages
         /\ QueueOnce'
<1>1. /\ Len(queue) \in Nat \ {0} /\ Len(queue') = Len(queue) - 1
      /\ Head(queue) = queue[1] /\ queue[1] \in Messages
      /\ \A i \in 1..Len(queue') : queue'[i] = queue[i + 1]
  OBVIOUS
<1>2. Queued(Head(queue))
  BY <1>1 DEF Queued
<1>3. ASSUME NEW x PROVE Queued(x)' => Queued(x) /\ x # Head(queue)
  <2> SUFFICES ASSUME NEW i \in 1..Len(queue'), queue'[i] = x
               PROVE Queued(x) /\ x # Head(queue)
    BY DEF Queued
  <2>1. i + 1 \in 1..Len(queue) /\ i + 1 # 1
    BY <1>1
  <2> QED  BY <2>1, <1>1 DEF Queued, QueueOnce
<1>4. ASSUME NEW x, Queued(x), x # Head(queue) PROVE Queued(x)'
  <2> PICK i \in 1..Len(queue) : queue[i] = x
    BY <1>4 DEF Queued
  <2>1. i - 1 \in 1..Len(queue') /\ (i - 1) + 1 = i
    BY <1>1, <1>4
  <2>2. queue'[i - 1] = x
    BY <2>1, <1>1
  <2> QED  BY <2>1, <2>2 DEF Queued
<1>5. QueueOnce'
  <2> SUFFICES ASSUME NEW i \in 1..Len(queue'), NEW j \in 1..Len(queue'), i # j
               PROVE queue'[i] # queue'[j]
    BY DEF QueueOnce
  <2>1. i + 1 \in 1..Len(queue) /\ j + 1 \in 1..Len(queue) /\ i + 1 # j + 1
    BY <1>1
  <2> QED  BY <2>1, <1>1 DEF QueueOnce
<1> QED  BY <1>1, <1>2, <1>3, <1>4, <1>5

LEMMA ServerPlaces ==
  \A m : InServer(m) <=> \/ m \in device \/ Queued(m)
                         \/ \E t \in Threads : serving[t] = m
                         \/ \E e \in Entries : m \in waitq[e]
BY DEF InServer, Queued

\* How a step moves messages between the places of the server
MoveNone == UNCHANGED <<serving, queue, device>>
            /\ \A e \in Entries : waitq'[e] \subseteq waitq[e]
MoveNew(m) == /\ m \in Messages /\ ~InServer(m)
              /\ queue' = Append(queue, m) /\ UNCHANGED <<serving, device, waitq>>
MoveTake(t) == /\ serving[t] = None /\ queue # << >>
               /\ queue' = Tail(queue) /\ serving' = [serving EXCEPT ![t] = Head(queue)]
               /\ UNCHANGED <<device, waitq>>
MovePark(t, e) == /\ serving[t] \in Messages
                  /\ serving' = [serving EXCEPT ![t] = None]
                  /\ waitq' = [waitq EXCEPT ![e] = @ \cup {serving[t]}]
                  /\ UNCHANGED <<queue, device>>
MoveLaunch(t) == /\ serving[t] \in Messages
                 /\ serving' = [serving EXCEPT ![t] = None]
                 /\ device' = device \cup {serving[t]}
                 /\ UNCHANGED <<queue, waitq>>
MoveAnswer(t) == /\ serving' = [serving EXCEPT ![t] = None]
                 /\ UNCHANGED <<queue, device, waitq>>
MoveDone(m) == device' = device \ {m} /\ UNCHANGED <<serving, queue, waitq>>
MoveWake(e, m) == /\ m \in waitq[e] /\ waitq' = [waitq EXCEPT ![e] = @ \ {m}]
                  /\ queue' = Append(queue, m) /\ UNCHANGED <<serving, device>>

Moves ==
  \/ MoveNone \/ \E m \in Messages : MoveNew(m) \/ MoveDone(m)
  \/ \E t \in Threads : MoveTake(t) \/ MoveLaunch(t) \/ MoveAnswer(t)
  \/ \E e \in Entries : \/ \E t \in Threads : MovePark(t, e)
                        \/ \E m \in Messages : MoveWake(e, m)

\* Every step makes one of these moves.
LEMMA NextMoves == Inv /\ Next => Moves
<1> SUFFICES ASSUME Inv, Next PROVE Moves
  OBVIOUS
<1>t. EntryTypeOK
  BY DEF Inv, TypeOK
<1>l. \A t \in Threads : /\ pc[t] = "idle" => serving[t] = None
                         /\ pc[t] \in {"lookup", "answer"} => serving[t] \in Messages
  BY KeysAreEntries DEF Inv, LoopsInv
<1>1. ASSUME NEW b \in Backends, LoadChunk(b) PROVE Moves
  <2>1. PICK m \in Messages : mkey[m] = None /\ queue' = Append(queue, m)
                              /\ UNCHANGED <<serving, device, waitq>>
    BY <1>1 DEF LoadChunk
  <2>2. MoveNew(m)
    BY <2>1 DEF Inv, ChunksInv, MoveNew
  <2> QED  BY <2>2 DEF Moves
<1>2. ASSUME NEW b \in Backends, CreateEntry(b) PROVE Moves
  <2>1. MoveNone
    BY <1>2, <1>t DEF CreateEntry, MoveNone, EntryTypeOK
  <2> QED  BY <2>1 DEF Moves
<1>3. ASSUME NEW b \in Backends, Backend(b), ~LoadChunk(b), ~CreateEntry(b) PROVE Moves
  <2>1. MoveNone
    BY <1>3 DEF Backend, GetKey, CreateEntryFails, CountEntry, LinkEntry, TakeChunk,
       EndScan, AbortScan, MoveNone
  <2> QED  BY <2>1 DEF Moves
<1>4. ASSUME NEW t \in Threads, TakeMessage(t) PROVE Moves
  BY <1>4, <1>l DEF TakeMessage, MoveTake, Moves
<1>5. ASSUME NEW t \in Threads, LookupNew(t) \/ LookupBuilding(t) PROVE Moves
  <2>1. \E e \in Entries : MovePark(t, e)
    BY <1>5, <1>l DEF LookupNew, LookupBuilding, AtLookup, MovePark
  <2> QED  BY <2>1 DEF Moves
<1>6. ASSUME NEW t \in Threads, LookupReady(t) PROVE Moves
  <2>1. MoveLaunch(t)
    BY <1>6, <1>l DEF LookupReady, AtLookup, MoveLaunch
  <2> QED  BY <2>1 DEF Moves
<1>7. ASSUME NEW t \in Threads, Answer(t) PROVE Moves
  <2>1. MoveAnswer(t)
    BY <1>7 DEF Answer, MoveAnswer
  <2> QED  BY <2>1 DEF Moves
<1>8. ASSUME NEW t \in Threads, Reclaim(t) \/ LookupNoProgram(t) \/ BuildReturns(t)
                                \/ LookupBad(t)
      PROVE Moves
  <2>1. MoveNone
    BY <1>8 DEF Reclaim, ReleaseProgram, LookupNoProgram, BuildReturns, LookupBad, MoveNone
  <2> QED  BY <2>1 DEF Moves
<1>9. ASSUME NEW e \in Entries, Wake(e) PROVE Moves
  <2>1. \E m \in Messages : MoveWake(e, m)
    BY <1>9, <1>t DEF Wake, MoveWake, EntryTypeOK
  <2> QED  BY <2>1 DEF Moves
<1>10. ASSUME NEW e \in Entries, BuildStatus(e) \/ CountLog(e) \/ BuildLock(e) \/ WakeEnd(e)
       PROVE Moves
  <2>1. MoveNone
    BY <1>10 DEF BuildStatus, CountLog, BuildLock, WakeEnd, MoveNone
  <2> QED  BY <2>1 DEF Moves
<1>11. ASSUME NEW m \in Messages, KernelDone(m) PROVE Moves
  <2>1. MoveDone(m)
    BY <1>11 DEF KernelDone, MoveDone
  <2> QED  BY <2>1 DEF Moves
<1> QED
  BY <1>1, <1>2, <1>3, <1>4, <1>5, <1>6, <1>7, <1>8, <1>9, <1>10, <1>11
  DEF Next, EventLoop, Callback

\* A message that moves leaves its place.
LEMMA PlacesNext == Inv /\ Next => PlacesInv'
<1> SUFFICES ASSUME Inv, Next PROVE PlacesInv'
  OBVIOUS
<1>t. /\ queue \in Seq(Messages) /\ serving \in [Threads -> Messages \cup {None}]
      /\ waitq \in [Entries -> SUBSET Messages] /\ device \subseteq Messages
  BY DEF Inv, TypeOK, MessageTypeOK, EntryTypeOK
<1>p. PlacesInv /\ QueueOnce
  BY DEF Inv, PlacesInv
<1>n. None \notin Messages
  BY DevProgAssumption
<1>1. CASE MoveNone
  BY <1>1, <1>p DEF MoveNone, PlacesInv, Queued, QueueOnce
<1>2. ASSUME NEW m \in Messages, MoveNew(m) PROVE PlacesInv'
  <2>1. /\ \A x : Queued(x)' <=> Queued(x) \/ x = m
        /\ QueueOnce'
    BY <1>2, <1>t, <1>p, QueueAppend, ServerPlaces DEF MoveNew
  <2>2. /\ m \notin device /\ (\A t \in Threads : serving[t] # m)
        /\ \A e \in Entries : m \notin waitq[e]
    BY <1>2, ServerPlaces DEF MoveNew
  <2> HIDE DEF Queued
  <2> QED  BY <2>1, <2>2, <1>2, <1>p DEF MoveNew, PlacesInv
<1>3. ASSUME NEW m \in Messages, MoveDone(m) PROVE PlacesInv'
  BY <1>3, <1>p DEF MoveDone, PlacesInv, Queued, QueueOnce
<1>4. ASSUME NEW t \in Threads, MoveTake(t) PROVE PlacesInv'
  <2>1. /\ \A x : Queued(x)' <=> Queued(x) /\ x # Head(queue)
        /\ Queued(Head(queue)) /\ Head(queue) \in Messages /\ QueueOnce'
    BY <1>4, <1>t, <1>p, QueueTail DEF MoveTake
  <2>2. serving'[t] = Head(queue) /\ \A u \in Threads \ {t} : serving'[u] = serving[u]
    BY <1>4, <1>t DEF MoveTake
  <2>3. UNCHANGED <<device, waitq>>
    BY <1>4 DEF MoveTake
  <2> QED  BY <2>1, <2>2, <2>3, <1>p DEF PlacesInv
<1>5. ASSUME NEW t \in Threads, MoveLaunch(t) PROVE PlacesInv'
  <2>1. serving'[t] = None /\ \A u \in Threads \ {t} : serving'[u] = serving[u]
    BY <1>5, <1>t DEF MoveLaunch
  <2>2. device' = device \cup {serving[t]} /\ serving[t] \in Messages
        /\ UNCHANGED <<queue, waitq>>
    BY <1>5 DEF MoveLaunch
  <2>3. \A x : Queued(x)' <=> Queued(x)
    BY <2>2 DEF Queued
  <2>4. QueueOnce'
    BY <2>2, <1>p DEF QueueOnce
  <2> QED  BY <2>1, <2>2, <2>3, <2>4, <1>p, <1>n, <1>t DEF PlacesInv
<1>6. ASSUME NEW t \in Threads, MoveAnswer(t) PROVE PlacesInv'
  <2>1. serving'[t] = None /\ \A u \in Threads \ {t} : serving'[u] = serving[u]
    BY <1>6, <1>t DEF MoveAnswer
  <2>2. UNCHANGED <<queue, device, waitq>>
    BY <1>6 DEF MoveAnswer
  <2>3. \A x : Queued(x)' <=> Queued(x)
    BY <2>2 DEF Queued
  <2>4. QueueOnce'
    BY <2>2, <1>p DEF QueueOnce
  <2> QED  BY <2>1, <2>2, <2>3, <2>4, <1>p, <1>n, <1>t DEF PlacesInv
<1>7. ASSUME NEW t \in Threads, NEW e \in Entries, MovePark(t, e) PROVE PlacesInv'
  <2>1. serving'[t] = None /\ \A u \in Threads \ {t} : serving'[u] = serving[u]
    BY <1>7, <1>t DEF MovePark
  <2>2. UNCHANGED <<queue, device>> /\ serving[t] \in Messages
    BY <1>7 DEF MovePark
  <2>3. /\ waitq'[e] = waitq[e] \cup {serving[t]}
        /\ \A x \in Entries \ {e} : waitq'[x] = waitq[x]
    BY <1>7, <1>t DEF MovePark
  <2>4. \A x : Queued(x)' <=> Queued(x)
    BY <2>2 DEF Queued
  <2>5. QueueOnce'
    BY <2>2, <1>p DEF QueueOnce
  <2> QED  BY <2>1, <2>2, <2>3, <2>4, <2>5, <1>p, <1>n, <1>t DEF PlacesInv
<1>8. ASSUME NEW m \in Messages, NEW e \in Entries, MoveWake(e, m) PROVE PlacesInv'
  <2>1. m \notin device /\ ~Queued(m) /\ \A t \in Threads : serving[t] # m
    BY <1>8, <1>p, <1>n, <1>t DEF MoveWake, PlacesInv
  <2>2. \A x \in Entries \ {e} : m \notin waitq[x]
    BY <1>8 DEF MoveWake, Inv, BuildInv
  <2>3. (\A x : Queued(x)' <=> Queued(x) \/ x = m) /\ QueueOnce'
    BY <1>8, <2>1, <1>t, <1>p, QueueAppend DEF MoveWake
  <2>4. /\ waitq'[e] = waitq[e] \ {m}
        /\ \A x \in Entries \ {e} : waitq'[x] = waitq[x]
    BY <1>8, <1>t DEF MoveWake
  <2>5. UNCHANGED <<serving, device>>
    BY <1>8 DEF MoveWake
  <2> QED  BY <2>1, <2>2, <2>3, <2>4, <2>5, <1>p, <1>n, <1>t DEF PlacesInv
<1> QED  BY <1>1, <1>2, <1>3, <1>4, <1>5, <1>6, <1>7, <1>8, NextMoves DEF Moves

\* A thread and its message
LEMMA LoopsNext == Inv /\ Next => LoopsInv'
<1> SUFFICES ASSUME Inv, Next PROVE LoopsInv'
  OBVIOUS
<1>k. /\ LoopsInv /\ TypeOK /\ ActorTypeOK /\ MessageTypeOK /\ None \notin Messages
      /\ Backends \cap Threads = {}
  BY DevProgAssumption DEF Inv, TypeOK
<1>1. ASSUME NEW b \in Backends, Backend(b) PROVE LoopsInv'
  BY <1>1, <1>k, BackendFrame DEF LoopsInv
<1>2. ASSUME NEW t \in Threads, EventLoop(t) PROVE LoopsInv'
  <2>1. ASSUME NEW l, NEW x \in Messages \cup {None},
               pc' = [pc EXCEPT ![t] = l], serving' = [serving EXCEPT ![t] = x],
               x # None <=> l \in {"reclaim", "lookup", "answer", "ub"}
        PROVE LoopsInv'
    BY <2>1, <1>k DEF LoopsInv, ActorTypeOK, MessageTypeOK
  <2>2. CASE TakeMessage(t)
    <3>1. Head(queue) \in Messages
      BY <2>2, <1>k DEF TakeMessage, MessageTypeOK
    <3>2. \E l \in {"reclaim", "lookup"} : pc' = [pc EXCEPT ![t] = l]
      BY <2>2 DEF TakeMessage, Goto
    <3> QED  BY <2>1, <2>2, <3>1, <3>2, <1>k DEF TakeMessage
  <2>3. CASE LookupNew(t)  BY <2>1, <2>3 DEF LookupNew, Goto
  <2>4. CASE LookupBuilding(t) \/ LookupReady(t) \/ Answer(t)
    BY <2>1, <2>4 DEF LookupBuilding, LookupReady, Answer, Goto
  <2>5. CASE BuildReturns(t)
    BY <2>5, <1>k DEF BuildReturns, Goto, LoopsInv, ActorTypeOK
  <2>6. CASE Reclaim(t)
    BY <2>6, <1>k DEF Reclaim, ReleaseProgram, Goto, LoopsInv, ActorTypeOK
  <2>7. CASE LookupNoProgram(t) \/ LookupBad(t)
    BY <2>7, <1>k DEF LookupNoProgram, LookupBad, AtLookup, Goto, LoopsInv, ActorTypeOK
  <2> QED  BY <2>2, <2>3, <2>4, <2>5, <2>6, <2>7, <1>2 DEF EventLoop
<1>3. ASSUME NEW e \in Entries, Callback(e) PROVE LoopsInv'
  BY <1>3, <1>k, CallbackFrame DEF LoopsInv
<1>4. ASSUME NEW m \in Messages, KernelDone(m) PROVE LoopsInv'
  BY <1>4, <1>k DEF KernelDone, LoopsInv
<1> QED  BY <1>1, <1>2, <1>3, <1>4 DEF Next

\* An entry that somebody uses stays linked: only the reclaimer unlinks, and
\* only what nobody holds.
LEMMA LinkedStays ==
  ASSUME Inv, Next, NEW e \in Entries, mem[e] = "linked", Chunks(e) # {}
  PROVE  mem'[e] = "linked"
<1>k. EntryTypeOK
  BY DEF Inv, TypeOK
<1>1. ASSUME NEW b \in Backends, CreateEntry(b) PROVE mem'[e] = "linked"
  BY <1>1, <1>k DEF CreateEntry, EntryTypeOK
<1>2. ASSUME NEW b \in Backends, LinkEntry(b) PROVE mem'[e] = "linked"
  <2>1. mem[key[b]] = "private"
        /\ \E v \in {"free", "linked"} : mem' = [mem EXCEPT ![key[b]] = v]
    BY <1>2, LinkCases DEF LinkHits, LinkAdds
  <2> QED  BY <2>1, <1>k DEF EntryTypeOK
<1>3. ASSUME NEW t \in Threads, Reclaim(t) PROVE mem'[e] = "linked"
  <2>1. \/ mem' = mem
        \/ \E x \in Entries : Chunks(x) = {} /\ mem' = [mem EXCEPT ![x] = "reclaimed"]
    BY <1>3, ReclaimCases
  <2> QED  BY <2>1, <1>k DEF EntryTypeOK
<1> QED  BY <1>1, <1>2, <1>3, MemSteps

\* What a step does to the message m: it is given a key, put, or left with
\* the key it has.
LEMMA ChunkSteps ==
  ASSUME Inv, Next, NEW m \in Messages
  PROVE  \/ /\ mkey'[m] = mkey[m]
            /\ owner'[m] # None => owner[m] # None
            /\ InServer(m)' => InServer(m)
         \/ /\ mkey[m] = None /\ mkey'[m] \in Entries /\ mem[mkey'[m]] = "linked"
            /\ mem' = mem
         \/ mkey[m] # None /\ mkey'[m] = None /\ owner'[m] = None /\ ~InServer(m)'
<1> DEFINE Kept == /\ mkey'[m] = mkey[m]
                   /\ owner'[m] # None => owner[m] # None
                   /\ InServer(m)' => InServer(m)
           New == /\ mkey[m] = None /\ mkey'[m] \in Entries /\ mem[mkey'[m]] = "linked"
                  /\ mem' = mem
           Put == mkey[m] # None /\ mkey'[m] = None /\ owner'[m] = None /\ ~InServer(m)'
<1> SUFFICES Kept \/ New \/ Put
  OBVIOUS
<1>t. /\ TypeOK /\ MessageTypeOK /\ EntryTypeOK /\ QueueOnce /\ PlacesInv /\ ChunksInv
      /\ None \notin Messages /\ None \notin Entries
  BY DevProgAssumption DEF Inv, TypeOK, PlacesInv
<1> USE DEF MessageTypeOK
<1>s. /\ InServer(m) <=> \/ m \in device \/ Queued(m)
                         \/ \E t \in Threads : serving[t] = m
                         \/ \E e \in Entries : m \in waitq[e]
      /\ InServer(m)' <=> \/ m \in device' \/ Queued(m)'
                          \/ \E t \in Threads : serving'[t] = m
                          \/ \E e \in Entries : m \in waitq'[e]
  BY DEF InServer, Queued
<1>q. queue' = queue => (Queued(m)' <=> Queued(m))
  BY DEF Queued
<1>n. MoveNone => (InServer(m)' => InServer(m))
  BY <1>s, <1>q DEF MoveNone
<1>m. mkey[m] # None => mkey[m] \in Entries
  BY <1>t
<1>1. ASSUME NEW b \in Backends, LoadChunk(b) PROVE Kept \/ New \/ Put
  <2>1. PICK x \in Messages :
          /\ mkey[x] = None /\ mkey' = [mkey EXCEPT ![x] = key[b]]
          /\ owner' = [owner EXCEPT ![x] = b] /\ queue' = Append(queue, x)
          /\ pc[b] = "held" /\ UNCHANGED <<mem, serving, device, waitq>>
    BY <1>1 DEF LoadChunk
  <2>2. CASE x = m
    <3>1. key[b] \in Entries /\ mem[key[b]] = "linked"
      BY <2>1, KeysAreEntries DEF Inv, KeysInv
    <3> QED  BY <2>1, <2>2, <3>1, <1>t
  <2>3. CASE x # m
    <3>1. Queued(m)' <=> Queued(m)
      BY <2>1, <2>3, <1>t, QueueAppend
    <3> QED  BY <2>1, <2>3, <3>1, <1>s, <1>t
  <2> QED  BY <2>2, <2>3
<1>2. ASSUME NEW b \in Backends, TakeChunk(b) PROVE Kept \/ New \/ Put
  <2>1. PICK x \in Messages :
          /\ owner[x] = b /\ ~InServer(x) /\ mkey' = [mkey EXCEPT ![x] = None]
          /\ owner' = [owner EXCEPT ![x] = None]
    BY <1>2 DEF TakeChunk
  <2>2. MoveNone
    BY <1>2 DEF TakeChunk, MoveNone
  <2>3. mkey[x] # None
    BY <2>1, <1>t, DevProgAssumption DEF ChunksInv
  <2>4. InServer(m)' => InServer(m)
    BY <2>2, <1>n
  <2> QED  BY <2>1, <2>3, <2>4, <1>t
<1>3. ASSUME NEW b \in Backends, EndScan(b) PROVE Kept \/ New \/ Put
  <2>1. mkey' = mkey /\ owner' = [x \in Messages |-> IF owner[x] = b THEN "leaked" ELSE owner[x]]
        /\ MoveNone
    BY <1>3 DEF EndScan, MoveNone
  <2>2. owner'[m] # None => owner[m] # None
    BY <2>1, <1>t, DevProgAssumption
  <2> QED  BY <2>1, <2>2, <1>n
<1>4. ASSUME NEW b \in Backends, AbortScan(b) PROVE Kept \/ New \/ Put
  <2>1. /\ mkey' = [x \in Messages |-> IF owner[x] = b /\ ~InServer(x) THEN None ELSE mkey[x]]
        /\ owner' = [x \in Messages |-> IF owner[x] = b THEN None ELSE owner[x]]
        /\ MoveNone
    BY <1>4 DEF AbortScan, MoveNone
  <2>2. owner[m] = b => mkey[m] # None
    BY <1>t, DevProgAssumption DEF ChunksInv
  <2>3. InServer(m)' => InServer(m)
    BY <2>1, <1>n
  <2> QED  BY <2>1, <2>2, <2>3
<1>5. ASSUME NEW x \in Messages, InServer(x), ~InServer(x)', Answered(x), owner' = owner,
             InServer(m)' => InServer(m)
      PROVE Kept \/ New \/ Put
  <2>1. mkey[x] # None
    BY <1>5, <1>t DEF ChunksInv
  <2> QED  BY <2>1, <1>5, <1>t DEF Answered
<1>6. ASSUME NEW t \in Threads, Answer(t) PROVE Kept \/ New \/ Put
  <2>1. PICK x \in Messages :
          /\ x = serving[t] /\ Answered(x) /\ serving' = [serving EXCEPT ![t] = None]
          /\ UNCHANGED <<queue, device, waitq, owner>>
    BY <1>6, KeysAreEntries DEF Answer
  <2>2. /\ serving'[t] = None /\ \A u \in Threads \ {t} : serving'[u] = serving[u]
        /\ \A u \in Threads \ {t} : serving[u] # x
        /\ x \notin device /\ ~Queued(x)
        /\ \A e \in Entries : x \notin waitq[e]
    BY <2>1, <1>t DEF PlacesInv
  <2>3. InServer(x) /\ ~InServer(x)'
    BY <2>1, <2>2, <1>t DEF InServer, Queued
  <2>4. InServer(m)' => InServer(m)
    BY <2>1, <2>2, <1>s, <1>q, <1>t
  <2> QED  BY <2>1, <2>3, <2>4, <1>5
<1>7. ASSUME NEW x \in Messages, KernelDone(x) PROVE Kept \/ New \/ Put
  <2>1. /\ UNCHANGED <<queue, serving, waitq, owner>> /\ x \in device
        /\ Answered(x) /\ device' = device \ {x}
    BY <1>7 DEF KernelDone
  <2>2. /\ \A u \in Threads : serving[u] # x
        /\ ~Queued(x)
        /\ \A e \in Entries : x \notin waitq[e]
    BY <2>1, <1>t DEF PlacesInv
  <2>3. InServer(x) /\ ~InServer(x)'
    BY <2>1, <2>2, <1>t DEF InServer, Queued
  <2>4. InServer(m)' => InServer(m)
    BY <2>1, <2>2, <1>s, <1>q, <1>t
  <2> QED  BY <2>1, <2>3, <2>4, <1>5
<1>8. ASSUME UNCHANGED <<mkey, owner>>, InServer(m)' => InServer(m) PROVE Kept
  BY <1>8
<1>9. ASSUME NEW b \in Backends, Backend(b), ~LoadChunk(b), ~TakeChunk(b), ~EndScan(b),
             ~AbortScan(b)
      PROVE Kept
  <2>1. UNCHANGED <<mkey, owner>>
    BY <1>9 DEF Backend, GetKey, CreateEntry, CreateEntryFails, CountEntry, LinkEntry
  <2>2. MoveNone
    <3>1. CASE CreateEntry(b)  BY <3>1, <1>t DEF CreateEntry, MoveNone, EntryTypeOK
    <3>2. CASE ~CreateEntry(b)
      BY <3>2, <1>9 DEF Backend, GetKey, CreateEntryFails, CountEntry, LinkEntry, MoveNone
    <3> QED  BY <3>1, <3>2
  <2> QED  BY <2>1, <2>2, <1>8, <1>n
<1>10. ASSUME NEW t \in Threads, EventLoop(t), ~Answer(t) PROVE Kept
  <2>1. UNCHANGED <<mkey, owner>>
    BY <1>10 DEF EventLoop, TakeMessage, Reclaim, ReleaseProgram, LookupNew, LookupNoProgram, BuildReturns,
       LookupBuilding, LookupReady, LookupBad
  <2>2. InServer(m)' => InServer(m)
    <3>1. CASE TakeMessage(t)
      <4>1. queue # << >> /\ queue' = Tail(queue) /\ UNCHANGED <<device, waitq>>
            /\ serving' = [serving EXCEPT ![t] = Head(queue)]
        BY <3>1 DEF TakeMessage
      <4>2. Queued(Head(queue)) /\ (Queued(m)' => Queued(m))
        BY <4>1, <1>t, QueueTail
      <4>3. \A u \in Threads : serving'[u] = m => serving[u] = m \/ Head(queue) = m
        BY <4>1, <1>t
      <4> QED  BY <4>1, <4>2, <4>3, <1>s
    <3>2. CASE LookupNew(t) \/ LookupBuilding(t)
      <4>1. PICK e \in Entries :
              /\ waitq' = [waitq EXCEPT ![e] = @ \cup {serving[t]}]
              /\ serving' = [serving EXCEPT ![t] = None] /\ UNCHANGED <<queue, device>>
        BY <3>2 DEF LookupNew, LookupBuilding
      <4>2. \A u \in Threads : serving'[u] = m => serving[u] = m
        BY <4>1, <1>t
      <4>3. \A x \in Entries : m \in waitq'[x] => m \in waitq[x] \/ serving[t] = m
        BY <4>1, <1>t DEF EntryTypeOK
      <4> QED  BY <4>1, <4>2, <4>3, <1>s, <1>q
    <3>3. CASE LookupReady(t)
      <4>1. /\ device' = device \cup {serving[t]}
            /\ serving' = [serving EXCEPT ![t] = None] /\ UNCHANGED <<queue, waitq>>
        BY <3>3 DEF LookupReady
      <4>2. \A u \in Threads : serving'[u] = m => serving[u] = m
        BY <4>1, <1>t
      <4> QED  BY <4>1, <4>2, <1>s, <1>q
    <3>4. CASE Reclaim(t) \/ LookupNoProgram(t) \/ BuildReturns(t) \/ LookupBad(t)
      <4>1. MoveNone
        BY <3>4 DEF Reclaim, ReleaseProgram, LookupNoProgram, BuildReturns, LookupBad, MoveNone
      <4> QED  BY <4>1, <1>n
    <3> QED  BY <3>1, <3>2, <3>3, <3>4, <1>10 DEF EventLoop
  <2> QED  BY <2>1, <2>2, <1>8
<1>11. ASSUME NEW e \in Entries, Callback(e) PROVE Kept
  <2>1. CASE Wake(e)
    <3>1. PICK x \in waitq[e] : /\ waitq' = [waitq EXCEPT ![e] = @ \ {x}]
                                /\ queue' = Append(queue, x)
      BY <2>1 DEF Wake
    <3>2. x \in Messages
      BY <1>t DEF EntryTypeOK
    <3>3. Queued(m)' => Queued(m) \/ m = x
      BY <3>1, <3>2, <1>t, QueueAppend
    <3>4. \A y \in Entries : waitq'[y] \subseteq waitq[y]
      BY <3>1, <1>t DEF EntryTypeOK
    <3>5. UNCHANGED <<serving, device>>
      BY <2>1 DEF Wake
    <3>6. InServer(m)' => InServer(m)
      BY <3>1, <3>3, <3>4, <3>5, <1>s
    <3> QED  BY <3>6, <1>8, <1>11, CallbackFrame
  <2>2. CASE ~Wake(e)
    <3>1. MoveNone
      BY <2>2, <1>11 DEF Callback, BuildStatus, CountLog, BuildLock, WakeEnd, MoveNone
    <3> QED  BY <3>1, <1>n, <1>8, <1>11, CallbackFrame
  <2> QED  BY <2>1, <2>2
<1> HIDE DEF Kept, New, Put
<1> QED  BY <1>1, <1>2, <1>3, <1>4, <1>6, <1>7, <1>9, <1>10, <1>11 DEF Next

LEMMA ChunksNext == Inv /\ Next => ChunksInv'
<1> SUFFICES ASSUME Inv, Next, NEW m \in Messages
             PROVE  /\ mkey'[m] # None => mem'[mkey'[m]] = "linked"
                    /\ InServer(m)' \/ owner'[m] # None => mkey'[m] # None
  BY DEF ChunksInv
<1>1. /\ mkey[m] # None => mkey[m] \in Entries /\ mem[mkey[m]] = "linked"
      /\ InServer(m) \/ owner[m] # None => mkey[m] # None
  BY DEF Inv, TypeOK, MessageTypeOK, ChunksInv
<1>2. mkey[m] # None => mem'[mkey[m]] = "linked"
  <2> SUFFICES ASSUME mkey[m] # None PROVE mem'[mkey[m]] = "linked"
    OBVIOUS
  <2>1. Chunks(mkey[m]) # {}
    BY DEF Chunks
  <2> QED  BY <2>1, <1>1, LinkedStays
<1> QED  BY <1>1, <1>2, ChunkSteps, DevProgAssumption

(***************************************************************************)
(* Builds and kernels.                                                     *)
(***************************************************************************)
\* A message that stays with the server keeps its key.
LEMMA KeyFixed ==
  ASSUME Inv, Next, NEW m \in Messages, InServer(m), InServer(m)'
  PROVE  mkey'[m] = mkey[m] /\ mkey[m] \in Entries
<1>1. mkey[m] # None /\ mkey[m] \in Entries
  BY DEF Inv, ChunksInv, TypeOK, MessageTypeOK
<1> QED  BY <1>1, ChunkSteps

\* A message cannot pass clserv_lookup_device_program while the program it
\* needs is built: it is parked, or it waits for the lock of the entry.
LEMMA PendingStays ==
  ASSUME Inv, Next, NEW m \in Messages, Pending(m),
         mkey[m] \in Entries, job[mkey[m]] # "none"
  PROVE  Pending(m)' /\ mkey'[m] = mkey[m]
<1>t. /\ EntryTypeOK /\ MessageTypeOK /\ ActorTypeOK /\ QueueOnce
      /\ \A t \in Threads : serving[t] = m => pc[t] \in {"reclaim", "lookup", "answer", "ub"}
      /\ None \notin Messages
  BY DevProgAssumption DEF Inv, TypeOK, PlacesInv, LoopsInv
<1>b. program[mkey[m]] = "prog" /\ building[mkey[m]]
  BY DEF Inv, BuildInv
<1>q. queue' = queue => (Queued(m)' <=> Queued(m))
  BY DEF Queued
<1>1. Pending(m)'
  <2>1. CASE Queued(m)
    <3>1. CASE \E t \in Threads : TakeMessage(t)
      <4>1. PICK t \in Threads : TakeMessage(t)
        BY <3>1
      <4>2. /\ Queued(m)' <=> Queued(m) /\ m # Head(queue)
            /\ pc'[t] \in {"reclaim", "lookup"} /\ serving'[t] = Head(queue)
        <5>1. queue # << >> /\ queue' = Tail(queue)
          BY <4>1 DEF TakeMessage
        <5>2. pc'[t] \in {"reclaim", "lookup"} /\ serving'[t] = Head(queue)
          BY <4>1, <1>t DEF TakeMessage, Goto, ActorTypeOK, MessageTypeOK
        <5> QED  BY <5>1, <5>2, <1>t, QueueTail DEF MessageTypeOK
      <4> QED  BY <2>1, <4>2 DEF Pending
    <3>2. CASE ~\E t \in Threads : TakeMessage(t)
      <4>1. queue' = queue \/ \E x \in Messages : queue' = Append(queue, x)
        <5>1. ASSUME NEW b \in Backends, Backend(b)
              PROVE queue' = queue \/ \E x \in Messages : queue' = Append(queue, x)
          BY <5>1 DEF Backend, GetKey, CreateEntry, CreateEntryFails, CountEntry, LinkEntry,
             LoadChunk, TakeChunk, EndScan, AbortScan
        <5>2. ASSUME NEW t \in Threads, EventLoop(t) PROVE queue' = queue
          BY <5>2, <3>2 DEF EventLoop, Reclaim, ReleaseProgram, LookupNew, LookupNoProgram, BuildReturns,
             LookupBuilding, LookupReady, LookupBad, Answer
        <5>3. ASSUME NEW e \in Entries, Callback(e)
              PROVE queue' = queue \/ \E x \in Messages : queue' = Append(queue, x)
          BY <5>3, <1>t DEF Callback, BuildStatus, CountLog, BuildLock, Wake, WakeEnd,
             EntryTypeOK
        <5>4. ASSUME NEW x \in Messages, KernelDone(x) PROVE queue' = queue
          BY <5>4 DEF KernelDone
        <5> QED  BY <5>1, <5>2, <5>3, <5>4 DEF Next
      <4>2. Queued(m)'
        BY <4>1, <2>1, <1>t, <1>q, QueueAppend DEF MessageTypeOK
      <4> QED  BY <4>2 DEF Pending
    <3> QED  BY <3>1, <3>2
  <2>2. ASSUME NEW e \in Entries, m \in waitq[e] PROVE Pending(m)'
    <3>0. mem[e] = "linked" /\ mkey[m] = e
      BY <2>2, DevProgAssumption DEF Inv, BuildInv, ChunksInv
    <3>1. CASE m \in waitq'[e]  BY <3>1 DEF Pending
    <3>2. CASE m \notin waitq'[e]
      <4>1. \/ \E b \in Backends : CreateEntry(b)
            \/ \E x \in Entries : Wake(x)
        <5>1. ASSUME NEW b \in Backends, Backend(b), ~CreateEntry(b) PROVE waitq' = waitq
          BY <5>1 DEF Backend, GetKey, CreateEntryFails, CountEntry, LinkEntry, LoadChunk,
             TakeChunk, EndScan, AbortScan
        <5>2. ASSUME NEW t \in Threads, EventLoop(t) PROVE waitq[e] \subseteq waitq'[e]
          <6>1. CASE LookupNew(t)  BY <6>1, <1>t DEF LookupNew, EntryTypeOK
          <6>2. CASE LookupBuilding(t)  BY <6>2, <1>t DEF LookupBuilding, EntryTypeOK
          <6>3. CASE ~LookupNew(t) /\ ~LookupBuilding(t)
            BY <6>3, <5>2 DEF EventLoop, TakeMessage, Reclaim, ReleaseProgram, LookupNoProgram, BuildReturns,
               LookupReady, LookupBad, Answer
          <6> QED  BY <6>1, <6>2, <6>3
        <5>3. ASSUME NEW x \in Entries, Callback(x), ~Wake(x) PROVE waitq' = waitq
          BY <5>3 DEF Callback, BuildStatus, CountLog, BuildLock, WakeEnd
        <5>4. ASSUME NEW x \in Messages, KernelDone(x) PROVE waitq' = waitq
          BY <5>4 DEF KernelDone
        <5> QED  BY <5>1, <5>2, <5>3, <5>4, <2>2, <3>2 DEF Next
      <4>2. ASSUME NEW b \in Backends, CreateEntry(b) PROVE FALSE
        BY <4>2, <3>0, <3>2, <2>2, <1>t DEF CreateEntry, EntryTypeOK
      <4>3. ASSUME NEW x \in Entries, Wake(x) PROVE Pending(m)'
        <5>1. PICK y \in waitq[x] : waitq' = [waitq EXCEPT ![x] = @ \ {y}]
                                    /\ queue' = Append(queue, y)
          BY <4>3 DEF Wake
        <5>2. y = m
          BY <5>1, <2>2, <3>2, <1>t DEF EntryTypeOK
        <5>3. Queued(m)'
          BY <5>1, <5>2, <1>t, QueueAppend DEF MessageTypeOK
        <5> QED  BY <5>3 DEF Pending
      <4> QED  BY <4>1, <4>2, <4>3
    <3> QED  BY <3>1, <3>2
  <2>3. ASSUME NEW t \in Threads, serving[t] = m, pc[t] \in {"reclaim", "lookup", "ub"}
        PROVE Pending(m)'
    <3>1. CASE serving'[t] = serving[t] /\ pc'[t] = pc[t]
      BY <3>1, <2>3 DEF Pending
    <3>2. CASE EventLoop(t)
      <4>1. CASE Reclaim(t)
        <5>1. pc'[t] \in {"lookup", "ub"} /\ serving'[t] = serving[t]
          BY <4>1, <1>t DEF Reclaim, ReleaseProgram, Goto, ActorTypeOK
        <5> QED  BY <5>1, <2>3 DEF Pending
      <4>2. CASE LookupBuilding(t)
        <5>1. \E e \in Entries : m \in waitq'[e]
          BY <4>2, <2>3, <1>t DEF LookupBuilding, EntryTypeOK
        <5> QED  BY <5>1 DEF Pending
      <4>3. ~TakeMessage(t) /\ ~BuildReturns(t) /\ ~Answer(t)
        BY <2>3 DEF TakeMessage, BuildReturns, Answer
      <4>4. ~LookupNew(t) /\ ~LookupNoProgram(t) /\ ~LookupReady(t) /\ ~LookupBad(t)
        BY <2>3, <1>b DEF LookupNew, LookupNoProgram, LookupReady, LookupBad, AtLookup
      <4> QED  BY <3>2, <4>1, <4>2, <4>3, <4>4 DEF EventLoop
    <3>3. ASSUME NEW b \in Backends, Backend(b) PROVE serving'[t] = serving[t] /\ pc'[t] = pc[t]
      BY <3>3, BackendFrame DEF Inv
    <3>4. ASSUME NEW u \in Threads \ {t}, EventLoop(u)
          PROVE serving'[t] = serving[t] /\ pc'[t] = pc[t]
      <4>1. pc'[t] = pc[t]
        BY <3>4, LoopFrame DEF Inv
      <4>2. serving' = serving \/ \E v : serving' = [serving EXCEPT ![u] = v]
        <5>1. CASE TakeMessage(u)  BY <5>1 DEF TakeMessage
        <5>2. CASE LookupNew(u)  BY <5>2 DEF LookupNew
        <5>3. CASE LookupBuilding(u)  BY <5>3 DEF LookupBuilding
        <5>4. CASE LookupReady(u)  BY <5>4 DEF LookupReady
        <5>5. CASE Answer(u)  BY <5>5 DEF Answer
        <5>6. CASE Reclaim(u) \/ LookupNoProgram(u) \/ BuildReturns(u) \/ LookupBad(u)
          BY <5>6 DEF Reclaim, ReleaseProgram, LookupNoProgram, BuildReturns, LookupBad
        <5> QED  BY <5>1, <5>2, <5>3, <5>4, <5>5, <5>6, <3>4 DEF EventLoop
      <4>3. serving'[t] = serving[t]
        BY <4>2, <1>t DEF MessageTypeOK
      <4> QED  BY <4>1, <4>3
    <3>5. ASSUME NEW e \in Entries, Callback(e) PROVE serving'[t] = serving[t] /\ pc'[t] = pc[t]
      BY <3>5, CallbackFrame
    <3>6. ASSUME NEW x \in Messages, KernelDone(x) PROVE serving'[t] = serving[t] /\ pc'[t] = pc[t]
      BY <3>6 DEF KernelDone
    <3> QED  BY <3>1, <3>2, <3>3, <3>4, <3>5, <3>6 DEF Next
  <2> QED  BY <2>1, <2>2, <2>3 DEF Pending
<1>2. InServer(m)
  BY ServerPlaces DEF Pending
<1>3. InServer(m)'
  BY <1>1 DEF Pending, InServer, Queued
<1> QED  BY <1>1, <1>2, <1>3, KeyFixed

\* The flags of a build, the job of the driver and the program agree.
BuildFlags(e) ==
  /\ elock[e] <=> job[e] \in {"wake", "wakebad"}
  /\ building[e] <=> job[e] # "none"
  /\ job[e] # "none" => program[e] = "prog"

LEMMA BuildFlagsNext ==
  ASSUME Inv, Next, NEW e \in Entries
  PROVE  BuildFlags(e)'
<1>t. EntryTypeOK /\ BuildFlags(e)
  BY DEF Inv, TypeOK, BuildInv, BuildFlags
<1>f. mem[e] = "free" => job[e] = "none"
  BY DevProgAssumption DEF Inv, BuildInv, ChunksInv
<1>0. CASE UNCHANGED <<elock, building, job, program>>
  BY <1>0, <1>t DEF BuildFlags
<1>1. ASSUME NEW b \in Backends, CreateEntry(b) PROVE BuildFlags(e)'
  <2>1. PICK x \in Entries :
          /\ mem[x] = "free" /\ program' = [program EXCEPT ![x] = "null"]
          /\ building' = [building EXCEPT ![x] = FALSE]
          /\ elock' = [elock EXCEPT ![x] = FALSE] /\ job' = job
    BY <1>1 DEF CreateEntry
  <2> QED  BY <2>1, <1>t, <1>f DEF BuildFlags, EntryTypeOK
<1>2. ASSUME NEW b \in Backends, Backend(b), ~CreateEntry(b)
      PROVE UNCHANGED <<elock, building, job, program>>
  BY <1>2 DEF Backend, GetKey, CreateEntryFails, CountEntry, LinkEntry, LoadChunk,
     TakeChunk, EndScan, AbortScan
<1>3. ASSUME NEW t \in Threads, LookupNew(t) PROVE BuildFlags(e)'
  <2>1. PICK x \in Entries :
          /\ program[x] = "null" /\ program' = [program EXCEPT ![x] = "prog"]
          /\ building' = [building EXCEPT ![x] = TRUE]
          /\ job' = [job EXCEPT ![x] = "compile"] /\ elock' = elock
    BY <1>3 DEF LookupNew
  <2>2. CASE x = e
    <3>1. ~elock[e]
      BY <2>1, <2>2, <1>t DEF BuildFlags
    <3> QED  BY <2>1, <2>2, <3>1, <1>t DEF BuildFlags, EntryTypeOK
  <2>3. CASE x # e
    BY <2>1, <2>3, <1>t DEF BuildFlags, EntryTypeOK
  <2> QED  BY <2>2, <2>3
<1>4. ASSUME NEW t \in Threads, LookupNoProgram(t) PROVE BuildFlags(e)'
  <2>1. PICK x \in Entries :
          /\ program[x] = "null" /\ program' = [program EXCEPT ![x] = "bad"]
          /\ UNCHANGED <<elock, building, job>>
    BY <1>4 DEF LookupNoProgram
  <2> QED  BY <2>1, <1>t DEF BuildFlags, EntryTypeOK
<1>5. ASSUME NEW t \in Threads, EventLoop(t), ~LookupNew(t), ~LookupNoProgram(t)
      PROVE UNCHANGED <<elock, building, job, program>>
  BY <1>5 DEF EventLoop, TakeMessage, Reclaim, ReleaseProgram, BuildReturns, LookupBuilding, LookupReady,
     LookupBad, Answer
<1>6. ASSUME NEW x \in Entries, BuildStatus(x) \/ CountLog(x) PROVE BuildFlags(e)'
  <2>1. /\ job[x] \in {"compile", "log"} /\ UNCHANGED <<elock, building, program>>
        /\ \E v \in {"success", "log", "error", "logged"} : job' = [job EXCEPT ![x] = v]
    BY <1>6 DEF BuildStatus, CountLog
  <2> QED  BY <2>1, <1>t DEF BuildFlags, EntryTypeOK
<1>7. ASSUME NEW x \in Entries, BuildLock(x) PROVE BuildFlags(e)'
  <2>1. /\ job[x] \in {"success", "logged", "error"} /\ UNCHANGED <<building, program>>
        /\ elock' = [elock EXCEPT ![x] = TRUE]
        /\ \E v \in {"wake", "wakebad"} : job' = [job EXCEPT ![x] = v]
    BY <1>7 DEF BuildLock
  <2> QED  BY <2>1, <1>t DEF BuildFlags, EntryTypeOK
<1>8. ASSUME NEW x \in Entries, WakeEnd(x) PROVE BuildFlags(e)'
  <2>1. /\ building' = [building EXCEPT ![x] = FALSE]
        /\ elock' = [elock EXCEPT ![x] = FALSE]
        /\ job' = [job EXCEPT ![x] = "none"]
        /\ program' = program \/ program' = [program EXCEPT ![x] = "bad"]
    BY <1>8 DEF WakeEnd
  <2> QED  BY <2>1, <1>t DEF BuildFlags, EntryTypeOK
<1>9. ASSUME NEW x \in Entries, Wake(x) PROVE UNCHANGED <<elock, building, job, program>>
  BY <1>9 DEF Wake
<1>10. ASSUME NEW m \in Messages, KernelDone(m) PROVE UNCHANGED <<elock, building, job, program>>
  BY <1>10 DEF KernelDone
<1> QED
  BY <1>0, <1>1, <1>2, <1>3, <1>4, <1>5, <1>6, <1>7, <1>8, <1>9, <1>10 DEF Next, Callback

\* A job begins in LookupNew only, and ends in WakeEnd only.
LEMMA JobSteps ==
  ASSUME Inv, Next, NEW e \in Entries
  PROVE  \/ job[e] # "none" <=> job'[e] # "none"
         \/ /\ job[e] = "none"
            /\ \E m \in Messages : m \in waitq'[e] /\ mkey[m] = e /\ mkey' = mkey
         \/ waitq'[e] = {} /\ job'[e] = "none"
<1>t. EntryTypeOK
  BY DEF Inv, TypeOK
<1>1. ASSUME NEW b \in Backends, Backend(b) PROVE job' = job
  BY <1>1, BackendFrame DEF Inv
<1>2. ASSUME NEW t \in Threads, EventLoop(t), ~LookupNew(t) PROVE job' = job
  BY <1>2 DEF EventLoop, TakeMessage, Reclaim, ReleaseProgram, LookupNoProgram, BuildReturns,
     LookupBuilding, LookupReady, LookupBad, Answer
<1>3. ASSUME NEW t \in Threads, LookupNew(t)
      PROVE \/ job[e] # "none" <=> job'[e] # "none"
            \/ /\ job[e] = "none"
               /\ \E m \in Messages : m \in waitq'[e] /\ mkey[m] = e /\ mkey' = mkey
  <2>1. PICK x \in Entries :
          /\ pc[t] = "lookup" /\ x = mkey[serving[t]] /\ program[x] = "null"
          /\ waitq' = [waitq EXCEPT ![x] = @ \cup {serving[t]}]
          /\ job' = [job EXCEPT ![x] = "compile"] /\ mkey' = mkey
    BY <1>3 DEF LookupNew, AtLookup
  <2>2. serving[t] \in Messages /\ serving[t] \in waitq'[x]
    BY <2>1, <1>t, KeysAreEntries DEF EntryTypeOK
  <2>3. job[x] = "none"
    BY <2>1 DEF Inv, BuildInv
  <2> QED  BY <2>1, <2>2, <2>3, <1>t DEF EntryTypeOK
<1>4. ASSUME NEW x \in Entries, Callback(x), ~WakeEnd(x)
      PROVE job[e] # "none" <=> job'[e] # "none"
  BY <1>4, <1>t DEF Callback, BuildStatus, CountLog, BuildLock, Wake, EntryTypeOK
<1>5. ASSUME NEW x \in Entries, WakeEnd(x)
      PROVE (job[e] # "none" <=> job'[e] # "none") \/ (waitq'[e] = {} /\ job'[e] = "none")
  BY <1>5, <1>t DEF WakeEnd, EntryTypeOK
<1>6. ASSUME NEW m \in Messages, KernelDone(m) PROVE job' = job
  BY <1>6 DEF KernelDone
<1> QED  BY <1>1, <1>2, <1>3, <1>4, <1>5, <1>6 DEF Next

\* A message that begins to wait waits for a build of its own program.
LEMMA WaitSteps ==
  ASSUME Inv, Next, NEW e \in Entries, NEW m, m \in waitq'[e], m \notin waitq[e]
  PROVE  m \in Messages /\ mkey[m] = e /\ mkey' = mkey /\ job'[e] # "none"
<1>t. EntryTypeOK
  BY DEF Inv, TypeOK
<1>1. ASSUME NEW b \in Backends, Backend(b) PROVE waitq'[e] \subseteq waitq[e]
  <2>1. CASE CreateEntry(b)  BY <2>1, <1>t DEF CreateEntry, EntryTypeOK
  <2>2. CASE ~CreateEntry(b)
    BY <2>2, <1>1 DEF Backend, GetKey, CreateEntryFails, CountEntry, LinkEntry, LoadChunk,
       TakeChunk, EndScan, AbortScan
  <2> QED  BY <2>1, <2>2
<1>2. ASSUME NEW t \in Threads, LookupNew(t) \/ LookupBuilding(t)
      PROVE m \in Messages /\ mkey[m] = e /\ mkey' = mkey /\ job'[e] # "none"
  <2>1. PICK x \in Entries :
          /\ pc[t] = "lookup" /\ x = mkey[serving[t]] /\ mkey' = mkey
          /\ waitq' = [waitq EXCEPT ![x] = @ \cup {serving[t]}]
          /\ job' = [job EXCEPT ![x] = "compile"] \/ (building[x] /\ job' = job)
    BY <1>2 DEF LookupNew, LookupBuilding, AtLookup
  <2>2. x = e /\ m = serving[t]
    BY <2>1, <1>t DEF EntryTypeOK
  <2>3. building[x] => job[x] # "none"
    BY DEF Inv, BuildInv
  <2> QED  BY <2>1, <2>2, <2>3, <1>t, KeysAreEntries DEF EntryTypeOK
<1>3. ASSUME NEW t \in Threads, EventLoop(t), ~LookupNew(t), ~LookupBuilding(t)
      PROVE waitq' = waitq
  BY <1>3 DEF EventLoop, TakeMessage, Reclaim, ReleaseProgram, LookupNoProgram, BuildReturns, LookupReady,
     LookupBad, Answer
<1>4. ASSUME NEW x \in Entries, Callback(x) PROVE waitq'[e] \subseteq waitq[e]
  BY <1>4, <1>t, ZenonT(60)
     DEF Callback, BuildStatus, CountLog, BuildLock, Wake, WakeEnd, EntryTypeOK
<1>5. ASSUME NEW x \in Messages, KernelDone(x) PROVE waitq' = waitq
  BY <1>5 DEF KernelDone
<1> QED  BY <1>1, <1>2, <1>3, <1>4, <1>5 DEF Next

LEMMA BuildNext == Inv /\ Next => BuildInv'
<1> SUFFICES ASSUME Inv, Next, NEW e \in Entries
             PROVE  /\ BuildFlags(e)'
                    /\ job'[e] # "none" => \E m \in Messages : mkey'[m] = e /\ Pending(m)'
                    /\ \A m \in waitq'[e] : mkey'[m] = e /\ job'[e] # "none"
  BY DEF BuildInv, BuildFlags
<1>b. /\ job[e] # "none" => \E m \in Messages : mkey[m] = e /\ Pending(m)
      /\ \A m \in waitq[e] : mkey[m] = e /\ job[e] # "none" /\ m \in Messages
  BY DEF Inv, BuildInv, TypeOK, EntryTypeOK
<1>1. BuildFlags(e)'
  BY BuildFlagsNext
<1>2. ASSUME job'[e] # "none" PROVE \E m \in Messages : mkey'[m] = e /\ Pending(m)'
  <2>1. CASE job[e] # "none"
    BY <2>1, <1>b, PendingStays
  <2>2. ASSUME NEW m \in Messages, m \in waitq'[e], mkey[m] = e, mkey' = mkey
        PROVE mkey'[m] = e /\ Pending(m)'
    BY <2>2 DEF Pending
  <2>3. CASE job[e] = "none"
    BY <2>2, <2>3, <1>2, JobSteps
  <2> QED  BY <2>1, <2>3
<1>3. ASSUME NEW m \in waitq'[e] PROVE mkey'[m] = e /\ job'[e] # "none"
  <2>1. CASE m \notin waitq[e]
    BY <2>1, WaitSteps
  <2>2. CASE m \in waitq[e]
    <3>1. Pending(m)
      BY <2>2 DEF Pending
    <3>2. mkey'[m] = e
      BY <3>1, <2>2, <1>b, PendingStays
    <3>3. job'[e] # "none"
      BY <2>2, <1>3, <1>b, JobSteps
    <3> QED  BY <3>2, <3>3
  <2> QED  BY <2>1, <2>2
<1> QED  BY <1>1, <1>2, <1>3

\* The program of a kernel that runs is not touched.
LEMMA DeviceNext == Inv /\ Next => DeviceInv'
<1> SUFFICES ASSUME Inv, Next, NEW m \in device'
             PROVE  program'[mkey'[m]] = "prog" /\ ~building'[mkey'[m]]
  BY DEF DeviceInv
<1>t. EntryTypeOK /\ MessageTypeOK /\ device \subseteq Messages
  BY DEF Inv, TypeOK, MessageTypeOK
<1>1. CASE m \in device
  <2>0. m \in Messages /\ InServer(m) /\ InServer(m)'
    BY <1>1, <1>t DEF InServer
  <2>1. PICK e \in Entries : mkey[m] = e /\ mkey'[m] = e
    BY <2>0, KeyFixed
  <2>2. program[e] = "prog" /\ ~building[e] /\ mem[e] = "linked"
    BY <1>1, <1>t, <2>0, <2>1, DevProgAssumption DEF Inv, DeviceInv, ChunksInv
  <2>3. job[e] = "none"
    BY <2>2 DEF Inv, BuildInv
  <2>4. program'[e] = "prog" /\ ~building'[e]
    <3>1. ASSUME NEW b \in Backends, Backend(b) PROVE program'[e] = "prog" /\ ~building'[e]
      <4>1. CASE CreateEntry(b)  BY <4>1, <2>2, <1>t DEF CreateEntry, EntryTypeOK
      <4>2. CASE ~CreateEntry(b)
        BY <4>2, <3>1, <2>2 DEF Backend, GetKey, CreateEntryFails, CountEntry, LinkEntry,
           LoadChunk, TakeChunk, EndScan, AbortScan
      <4> QED  BY <4>1, <4>2
    <3>2. ASSUME NEW t \in Threads, EventLoop(t) PROVE program'[e] = "prog" /\ ~building'[e]
      <4>1. CASE LookupNew(t)  BY <4>1, <2>2, <1>t DEF LookupNew, EntryTypeOK
      <4>2. CASE LookupNoProgram(t)  BY <4>2, <2>2, <1>t DEF LookupNoProgram, EntryTypeOK
      <4>3. CASE ~LookupNew(t) /\ ~LookupNoProgram(t)
        BY <4>3, <3>2, <2>2 DEF EventLoop, TakeMessage, Reclaim, ReleaseProgram, BuildReturns,
           LookupBuilding, LookupReady, LookupBad, Answer
      <4> QED  BY <4>1, <4>2, <4>3
    <3>3. ASSUME NEW x \in Entries, Callback(x) PROVE program'[e] = "prog" /\ ~building'[e]
      <4>1. CASE WakeEnd(x)
        <5>1. x # e
          BY <4>1, <2>3 DEF WakeEnd
        <5> QED  BY <4>1, <5>1, <2>2, <1>t DEF WakeEnd, EntryTypeOK
      <4>2. CASE ~WakeEnd(x)
        BY <4>2, <3>3, <2>2 DEF Callback, BuildStatus, CountLog, BuildLock, Wake
      <4> QED  BY <4>1, <4>2
    <3>4. ASSUME NEW x \in Messages, KernelDone(x) PROVE program'[e] = "prog" /\ ~building'[e]
      BY <3>4, <2>2 DEF KernelDone
    <3> QED  BY <3>1, <3>2, <3>3, <3>4 DEF Next
  <2> QED  BY <2>1, <2>4
<1>2. CASE m \notin device
  <2>1. ASSUME NEW t \in Threads, LookupReady(t)
        PROVE program'[mkey'[m]] = "prog" /\ ~building'[mkey'[m]]
    BY <2>1, <1>2 DEF LookupReady, AtLookup
  <2>2. ASSUME NEW b \in Backends, Backend(b) PROVE device' = device
    BY <2>2, BackendFrame DEF Inv
  <2>3. ASSUME NEW t \in Threads, EventLoop(t), ~LookupReady(t) PROVE device' = device
    BY <2>3 DEF EventLoop, TakeMessage, Reclaim, ReleaseProgram, LookupNew, LookupNoProgram, BuildReturns,
       LookupBuilding, LookupBad, Answer
  <2>4. ASSUME NEW x \in Messages, KernelDone(x) PROVE device' \subseteq device
    BY <2>4 DEF KernelDone
  <2> QED  BY <2>1, <2>2, <2>3, <2>4, <1>2, CallbackFrame DEF Next
<1> QED  BY <1>1, <1>2

(***************************************************************************)
(* The counters.                                                           *)
(***************************************************************************)
Was(x, e) == IF x = e THEN 1 ELSE 0

\* A backend takes a key, puts it or changes it for another.
LEMMA ScansRecount ==
  ASSUME Inv, NEW b \in Backends, NEW v, key' = [key EXCEPT ![b] = v], NEW e \in Entries
  PROVE  /\ Cardinality(Scans(e)) \in Nat
         /\ Cardinality(Scans(e)') = Cardinality(Scans(e)) - Was(key[b], e) + Was(v, e)
<1>1. \A c \in Backends \ {b} : key'[c] = key[c]
  BY DEF Inv, TypeOK, ActorTypeOK
<1>2. key'[b] = v
  BY DEF Inv, TypeOK, ActorTypeOK
<1>3. IsFiniteSet(Scans(e))
  BY FS_Subset, DevProgAssumption DEF Scans
<1>4. Scans(e)' \ {b} = Scans(e) \ {b}
  BY <1>1 DEF Scans
<1>5. /\ Cardinality(Scans(e)) \in Nat
      /\ Cardinality(Scans(e)') = Cardinality(Scans(e)) - (IF b \in Scans(e) THEN 1 ELSE 0)
                                + (IF b \in Scans(e)' THEN 1 ELSE 0)
  BY <1>3, <1>4, Recount
<1>6. (b \in Scans(e) <=> key[b] = e) /\ (b \in Scans(e)' <=> v = e)
  BY <1>2 DEF Scans
<1> QED  BY <1>5, <1>6 DEF Was

\* A message is given a key, or put.
LEMMA ChunksRecount ==
  ASSUME Inv, NEW m \in Messages, NEW v, mkey' = [mkey EXCEPT ![m] = v], NEW e \in Entries
  PROVE  /\ Cardinality(Chunks(e)) \in Nat
         /\ Cardinality(Chunks(e)') = Cardinality(Chunks(e)) - Was(mkey[m], e) + Was(v, e)
<1>1. \A c \in Messages \ {m} : mkey'[c] = mkey[c]
  BY DEF Inv, TypeOK, MessageTypeOK
<1>2. mkey'[m] = v
  BY DEF Inv, TypeOK, MessageTypeOK
<1>3. IsFiniteSet(Chunks(e))
  BY FS_Subset, DevProgAssumption DEF Chunks
<1>4. Chunks(e)' \ {m} = Chunks(e) \ {m}
  BY <1>1 DEF Chunks
<1>5. /\ Cardinality(Chunks(e)) \in Nat
      /\ Cardinality(Chunks(e)') = Cardinality(Chunks(e)) - (IF m \in Chunks(e) THEN 1 ELSE 0)
                                + (IF m \in Chunks(e)' THEN 1 ELSE 0)
  BY <1>3, <1>4, Recount
<1>6. (m \in Chunks(e) <=> mkey[m] = e) /\ (m \in Chunks(e)' <=> v = e)
  BY <1>2 DEF Chunks
<1> QED  BY <1>5, <1>6 DEF Was

LEMMA HoldersFinite ==
  ASSUME NEW e \in Entries
  PROVE  Cardinality(Scans(e)) \in Nat /\ Cardinality(Chunks(e)) \in Nat
<1>1. IsFiniteSet(Scans(e)) /\ IsFiniteSet(Chunks(e))
  BY FS_Subset, DevProgAssumption DEF Scans, Chunks
<1> QED  BY <1>1, FS_CardinalityType

Counted(e) == mem[e] # "free" => refcnt[e] = Cardinality(Scans(e)) + Cardinality(Chunks(e))

LEMMA KeyRefsNext == Inv /\ Next => KeyRefs'
<1> SUFFICES ASSUME Inv, Next, NEW e \in Entries PROVE Counted(e)'
  BY DEF KeyRefs, Counted
<1>t. /\ EntryTypeOK /\ MessageTypeOK /\ ActorTypeOK /\ Counted(e)
      /\ None \notin Entries /\ refcnt[e] \in Int
  BY DevProgAssumption DEF Inv, TypeOK, EntryTypeOK, KeyRefs, Counted
<1>n. Cardinality(Scans(e)) \in Nat /\ Cardinality(Chunks(e)) \in Nat
  BY HoldersFinite
<1>s. key' = key => Scans(e)' = Scans(e)
  BY DEF Scans
<1>c. mkey' = mkey => Chunks(e)' = Chunks(e)
  BY DEF Chunks
<1>0. ASSUME UNCHANGED <<refcnt, key, mkey>>, mem'[e] # "free" => mem[e] # "free"
      PROVE Counted(e)'
  BY <1>0, <1>s, <1>c, <1>t DEF Counted, Was
<1>1. ASSUME NEW b \in Backends, NEW x \in Entries, refcnt' = [refcnt EXCEPT ![x] = @ + 1],
             key' = [key EXCEPT ![b] = x], mkey' = mkey,
             key[b] = e => mem'[e] = "free", mem'[e] # "free" => mem[e] # "free"
      PROVE Counted(e)'
  <2>1. Cardinality(Scans(e)') = Cardinality(Scans(e)) - Was(key[b], e) + Was(x, e)
    BY <1>1, ScansRecount
  <2>2. refcnt'[e] = refcnt[e] + Was(x, e)
    BY <1>1, <1>t DEF EntryTypeOK, Was
  <2> QED  BY <2>1, <2>2, <1>1, <1>c, <1>n, <1>t DEF Counted, Was
<1>2. ASSUME NEW b \in Backends, GetKey(b) PROVE Counted(e)'
  <2>1. UNCHANGED <<mem, mkey>> /\ pc[b] = "idle"
    BY <1>2 DEF GetKey
  <2>2. key[b] = None
    BY <2>1 DEF Inv, KeysInv
  <2>3. \/ UNCHANGED <<refcnt, key>>
        \/ \E x \in Entries : refcnt' = [refcnt EXCEPT ![x] = @ + 1]
                              /\ key' = [key EXCEPT ![b] = x]
    BY <1>2, KeysAreEntries DEF GetKey, Hit, Matches
  <2> QED  BY <2>1, <2>2, <2>3, <1>0, <1>1, <1>t
<1>3. ASSUME NEW b \in Backends, CreateEntry(b) PROVE Counted(e)'
  <2>1. PICK x \in Entries :
          /\ mem[x] = "free" /\ mem' = [mem EXCEPT ![x] = "private"]
          /\ refcnt' = [refcnt EXCEPT ![x] = 1]
          /\ key' = [key EXCEPT ![b] = x] /\ mkey' = mkey /\ pc[b] = "alloc"
    BY <1>3 DEF CreateEntry
  <2>2. key[b] = None
    BY <2>1 DEF Inv, KeysInv
  <2>3. Cardinality(Scans(e)') = Cardinality(Scans(e)) + Was(x, e)
    <3>1. Cardinality(Scans(e)') = Cardinality(Scans(e)) - Was(key[b], e) + Was(x, e)
      BY <2>1, ScansRecount
    <3> QED  BY <3>1, <2>2, <1>n, <1>t DEF Was
  <2>4. Scans(x) = {} /\ Chunks(x) = {}
    BY <2>1, <1>t DEF Inv, KeysInv, ChunksInv, Scans, Chunks, ActorTypeOK, BackPC
  <2>5. Cardinality({}) = 0
    BY FS_EmptySet
  <2>6. CASE x = e
    <3>1. Cardinality(Scans(e)') = 1 /\ Cardinality(Chunks(e)') = 0
      BY <2>1, <2>3, <2>4, <2>5, <2>6, <1>c DEF Was
    <3>2. refcnt'[e] = 1
      BY <2>1, <2>6, <1>t DEF EntryTypeOK
    <3> QED  BY <3>1, <3>2 DEF Counted
  <2>7. CASE x # e
    BY <2>1, <2>3, <2>7, <1>c, <1>n, <1>t DEF Counted, EntryTypeOK, Was
  <2> QED  BY <2>6, <2>7
<1>4. ASSUME NEW b \in Backends, LinkEntry(b) PROVE Counted(e)'
  <2>1. key[b] \in Entries /\ mem[key[b]] = "private" /\ mkey' = mkey
    BY <1>4, LinkCases
  <2>2. CASE LinkHits(b)
    <3>1. PICK x \in Entries : /\ refcnt' = [refcnt EXCEPT ![x] = @ + 1]
                               /\ key' = [key EXCEPT ![b] = x]
                               /\ mem' = [mem EXCEPT ![key[b]] = "free"]
      BY <2>2 DEF LinkHits
    <3>2. /\ key[b] = e => mem'[e] = "free"
          /\ mem'[e] # "free" => mem[e] # "free"
      BY <3>1, <1>t DEF EntryTypeOK
    <3> QED  BY <2>1, <3>1, <3>2, <1>1
  <2>3. CASE LinkAdds(b)
    <3>1. UNCHANGED <<refcnt, key>> /\ mem' = [mem EXCEPT ![key[b]] = "linked"]
      BY <2>3 DEF LinkAdds
    <3>2. mem'[e] # "free" => mem[e] # "free"
      BY <2>1, <3>1, <1>t DEF EntryTypeOK
    <3> QED  BY <2>1, <3>1, <3>2, <1>0
  <2> QED  BY <2>2, <2>3, <1>4, LinkCases
<1>5. ASSUME NEW b \in Backends, LoadChunk(b) PROVE Counted(e)'
  <2>1. PICK m \in Messages : /\ mkey[m] = None /\ mkey' = [mkey EXCEPT ![m] = key[b]]
                              /\ refcnt' = [refcnt EXCEPT ![key[b]] = @ + 1]
                              /\ UNCHANGED <<mem, key>> /\ pc[b] = "held"
    BY <1>5 DEF LoadChunk
  <2>2. key[b] \in Entries
    BY <2>1, KeysAreEntries
  <2>3. Cardinality(Chunks(e)') = Cardinality(Chunks(e)) + Was(key[b], e)
    <3>1. Cardinality(Chunks(e)') = Cardinality(Chunks(e)) - Was(mkey[m], e) + Was(key[b], e)
      BY <2>1, ChunksRecount
    <3> QED  BY <3>1, <2>1, <1>n, <1>t DEF Was
  <2>4. refcnt'[e] = refcnt[e] + Was(key[b], e)
    BY <2>1, <2>2, <1>t DEF EntryTypeOK, Was
  <2> QED  BY <2>1, <2>3, <2>4, <1>s, <1>n, <1>t DEF Counted, Was
<1>6. ASSUME NEW m \in Messages, mkey[m] # None, PutKeys(One(mkey[m])),
             mkey' = [mkey EXCEPT ![m] = None], UNCHANGED <<mem, key>>
      PROVE Counted(e)'
  <2>1. Cardinality(Chunks(e)') = Cardinality(Chunks(e)) - Was(mkey[m], e)
    <3>1. Cardinality(Chunks(e)') = Cardinality(Chunks(e)) - Was(mkey[m], e) + Was(None, e)
      BY <1>6, ChunksRecount
    <3> QED  BY <3>1, <1>n, <1>t DEF Was
  <2>2. refcnt'[e] = refcnt[e] - Was(mkey[m], e)
    BY <1>6, <1>t DEF PutKeys, One, Was
  <2> QED  BY <2>1, <2>2, <1>6, <1>s, <1>n, <1>t DEF Counted, Was
<1>7. ASSUME NEW b \in Backends, TakeChunk(b) PROVE Counted(e)'
  <2>1. PICK m \in Messages : /\ owner[m] = b /\ PutKeys(One(mkey[m]))
                              /\ mkey' = [mkey EXCEPT ![m] = None]
                              /\ UNCHANGED <<mem, key>>
    BY <1>7 DEF TakeChunk
  <2>2. mkey[m] # None
    BY <2>1, DevProgAssumption DEF Inv, ChunksInv
  <2> QED  BY <2>1, <2>2, <1>6
<1>8. ASSUME NEW b \in Backends, EndScan(b) PROVE Counted(e)'
  <2>1. /\ PutKeys(One(key[b])) /\ key' = [key EXCEPT ![b] = None]
        /\ UNCHANGED <<mem, mkey>>
    BY <1>8 DEF EndScan
  <2>2. Cardinality(Scans(e)') = Cardinality(Scans(e)) - Was(key[b], e)
    <3>1. Cardinality(Scans(e)') = Cardinality(Scans(e)) - Was(key[b], e) + Was(None, e)
      BY <2>1, ScansRecount
    <3> QED  BY <3>1, <1>n, <1>t DEF Was
  <2>3. refcnt'[e] = refcnt[e] - Was(key[b], e)
    BY <2>1, <1>t DEF PutKeys, One, Was
  <2> QED  BY <2>1, <2>2, <2>3, <1>c, <1>n, <1>t DEF Counted, Was
<1>9. ASSUME NEW b \in Backends, AbortScan(b) PROVE Counted(e)'
  <2> DEFINE gone == {m \in {m \in Messages : owner[m] = b} : ~InServer(m)}
             lost == {m \in gone : mkey[m] = e}
  <2>1. /\ refcnt' = [x \in Entries |-> refcnt[x] - [y \in Entries |-> One(key[b])[y]
                                         + Cardinality({m \in gone : mkey[m] = y})][x]]
        /\ mkey' = [m \in Messages |-> IF m \in gone THEN None ELSE mkey[m]]
        /\ key' = [key EXCEPT ![b] = None] /\ mem' = mem
    BY <1>9 DEF AbortScan, PutKeys
  <2>2. refcnt'[e] = refcnt[e] - (Was(key[b], e) + Cardinality(lost))
    BY <2>1 DEF One, Was
  <2>3. Cardinality(Scans(e)') = Cardinality(Scans(e)) - Was(key[b], e)
    <3>1. Cardinality(Scans(e)') = Cardinality(Scans(e)) - Was(key[b], e) + Was(None, e)
      BY <2>1, ScansRecount
    <3> QED  BY <3>1, <1>n, <1>t DEF Was
  <2>4. Chunks(e)' = Chunks(e) \ lost /\ Chunks(e) \cap lost = lost
    BY <2>1, <1>t DEF Chunks
  <2>5. IsFiniteSet(Chunks(e)) /\ IsFiniteSet(lost)
    BY FS_Subset, DevProgAssumption DEF Chunks
  <2>6. Cardinality(Chunks(e) \ lost) = Cardinality(Chunks(e)) - Cardinality(Chunks(e) \cap lost)
    BY <2>5, FS_Difference
  <2>7. Cardinality(lost) \in Nat
    BY <2>5, FS_CardinalityType
  <2> HIDE DEF lost, gone
  <2>8. Cardinality(Chunks(e)') = Cardinality(Chunks(e)) - Cardinality(lost)
    BY <2>4, <2>6
  <2>9. Was(key[b], e) \in Int
    BY DEF Was
  <2> QED  BY <2>1, <2>2, <2>3, <2>7, <2>8, <2>9, <1>n, <1>t DEF Counted
<1>10. ASSUME NEW t \in Threads, Reclaim(t) PROVE Counted(e)'
  <2>1. /\ UNCHANGED <<refcnt, key, mkey>>
        /\ \/ mem' = mem
           \/ \E x \in Entries : mem[x] = "linked" /\ mem' = [mem EXCEPT ![x] = "reclaimed"]
    BY <1>10, ReclaimCases
  <2>2. mem'[e] # "free" => mem[e] # "free"
    BY <2>1, <1>t DEF EntryTypeOK
  <2> QED  BY <2>1, <2>2, <1>0
<1>11. ASSUME NEW m \in Messages, mkey[m] # None, Answered(m), UNCHANGED <<mem, key>>
       PROVE Counted(e)'
  BY <1>11, <1>6, <1>0 DEF Answered
<1>12. ASSUME NEW t \in Threads, Answer(t) PROVE Counted(e)'
  <2>1. serving[t] \in Messages /\ mkey[serving[t]] # None /\ Answered(serving[t])
        /\ UNCHANGED <<mem, key>>
    BY <1>12, <1>t, KeysAreEntries DEF Answer
  <2> QED  BY <2>1, <1>11
<1>13. ASSUME NEW m \in Messages, KernelDone(m) PROVE Counted(e)'
  <2>1. mkey[m] # None /\ Answered(m) /\ UNCHANGED <<mem, key>>
    BY <1>13, <1>t, KeysAreEntries DEF KernelDone
  <2> QED  BY <2>1, <1>11
<1>14. ASSUME NEW b \in Backends, CreateEntryFails(b) \/ CountEntry(b)
       PROVE UNCHANGED <<mem, refcnt, key, mkey>>
  BY <1>14 DEF CreateEntryFails, CountEntry
<1>15. ASSUME NEW t \in Threads, EventLoop(t), ~Reclaim(t), ~Answer(t)
       PROVE UNCHANGED <<mem, refcnt, key, mkey>>
  BY <1>15 DEF EventLoop, TakeMessage, LookupNew, LookupNoProgram, BuildReturns,
     LookupBuilding, LookupReady, LookupBad
<1>16. CASE UNCHANGED <<mem, refcnt, key, mkey>>
  BY <1>16, <1>0
<1> QED
  BY <1>2, <1>3, <1>4, <1>5, <1>7, <1>8, <1>9, <1>10, <1>12, <1>13, <1>14, <1>15, <1>16,
     CallbackFrame DEF Next, Backend

\* The kernels that run the program of e
Running(e) == {m \in device : mkey[m] = e}
OfEntry(e) == IF mem[e] = "linked" /\ program[e] = "prog" THEN 1 ELSE 0

\* Kernels begin in LookupReady and end in KernelDone; nothing else changes
\* who runs a program.
LEMMA RunningKept ==
  ASSUME Inv, Next, device' = device, NEW e \in Entries
  PROVE  Running(e)' = Running(e)
<1>1. ASSUME NEW m \in device PROVE mkey'[m] = mkey[m]
  <2>1. m \in Messages /\ InServer(m) /\ InServer(m)'
    BY DEF Inv, TypeOK, MessageTypeOK, InServer
  <2> QED  BY <2>1, KeyFixed
<1> QED  BY <1>1 DEF Running

LEMMA RunningFinite ==
  ASSUME Inv, NEW e \in Entries
  PROVE  IsFiniteSet(Running(e)) /\ Cardinality(Running(e)) \in Nat
<1>1. IsFiniteSet(Running(e))
  BY FS_Subset, DevProgAssumption DEF Running, Inv, TypeOK, MessageTypeOK
<1> QED  BY <1>1, FS_CardinalityType

LEMMA ProgramRefsNext == Inv /\ Next => ProgramRefs'
<1> DEFINE Exact(e) == clref[e] = OfEntry(e) + Cardinality(Running(e))
<1> SUFFICES ASSUME Inv, Next, NEW e \in Entries PROVE Exact(e)'
  BY DEF ProgramRefs, OfEntry, Running
<1>t. EntryTypeOK /\ MessageTypeOK /\ Exact(e) /\ clref[e] \in Int
  BY DEF Inv, TypeOK, EntryTypeOK, ProgramRefs, OfEntry, Running
<1>n. IsFiniteSet(Running(e)) /\ Cardinality(Running(e)) \in Nat
  BY RunningFinite
<1>p. mem[e] = "private" => program[e] = "null"
  BY DEF Inv, PrivateInv
<1>0. ASSUME device' = device, clref'[e] - clref[e] = OfEntry(e)' - OfEntry(e), clref'[e] \in Int
      PROVE Exact(e)'
  <2>1. Running(e)' = Running(e)
    BY <1>0, RunningKept
  <2>2. OfEntry(e) \in Int /\ OfEntry(e)' \in Int
    BY DEF OfEntry
  <2> QED  BY <1>0, <2>1, <2>2, <1>n, <1>t
<1> HIDE DEF Exact
<1>1. ASSUME device' = device, clref' = clref, OfEntry(e)' = OfEntry(e) PROVE Exact(e)'
  <2>1. OfEntry(e) \in Int
    BY DEF OfEntry
  <2> QED  BY <1>0, <1>1, <2>1, <1>t
<1>2. ASSUME NEW b \in Backends, Backend(b) PROVE Exact(e)'
  <2>0. UNCHANGED <<clref, device>>
    BY <1>2, BackendFrame DEF Inv
  <2>1. CASE CreateEntry(b)
    <3>1. PICK x \in Entries : mem[x] = "free" /\ mem' = [mem EXCEPT ![x] = "private"]
                               /\ program' = [program EXCEPT ![x] = "null"]
      BY <2>1 DEF CreateEntry
    <3>2. OfEntry(e)' = OfEntry(e)
      BY <3>1, <1>t DEF OfEntry, EntryTypeOK
    <3> QED  BY <2>0, <3>2, <1>1
  <2>2. CASE LinkEntry(b)
    <3>1. mem[key[b]] = "private" /\ program' = program
          /\ \E v \in {"free", "linked"} : mem' = [mem EXCEPT ![key[b]] = v]
      BY <2>2, LinkCases DEF LinkHits, LinkAdds
    <3>2. OfEntry(e)' = OfEntry(e)
      BY <3>1, <1>p, <1>t DEF OfEntry, EntryTypeOK
    <3> QED  BY <2>0, <3>2, <1>1
  <2>3. CASE ~CreateEntry(b) /\ ~LinkEntry(b)
    <3>1. UNCHANGED <<mem, program>>
      BY <2>3, <1>2 DEF Backend, GetKey, CreateEntryFails, CountEntry, LoadChunk, TakeChunk,
         EndScan, AbortScan
    <3> QED  BY <2>0, <3>1, <1>1 DEF OfEntry
  <2> QED  BY <2>1, <2>2, <2>3
<1>3. ASSUME NEW t \in Threads, Reclaim(t) PROVE Exact(e)'
  <2>0. device' = device /\ program' = program
    BY <1>3, ReclaimCases
  <2>1. CASE UNCHANGED <<mem, clref>>
    BY <2>0, <2>1, <1>1 DEF OfEntry
  <2>2. ASSUME NEW x \in Entries, mem[x] = "linked", mem' = [mem EXCEPT ![x] = "reclaimed"],
               clref' = [clref EXCEPT ![x] = IF program[x] = "prog" THEN @ - 1 ELSE @]
        PROVE Exact(e)'
    <3>1. CASE x = e
      BY <2>0, <2>2, <3>1, <1>0, <1>t DEF OfEntry, EntryTypeOK
    <3>2. CASE x # e
      BY <2>0, <2>2, <3>2, <1>0, <1>t DEF OfEntry, EntryTypeOK
    <3> QED  BY <3>1, <3>2
  <2> QED  BY <2>1, <2>2, <1>3, ReclaimCases
<1>4. ASSUME NEW t \in Threads, LookupNew(t) PROVE Exact(e)'
  <2>1. PICK x \in Entries :
          /\ pc[t] = "lookup" /\ x = mkey[serving[t]] /\ program[x] = "null"
          /\ program' = [program EXCEPT ![x] = "prog"]
          /\ clref' = [clref EXCEPT ![x] = 1] /\ UNCHANGED <<mem, device>>
    BY <1>4 DEF LookupNew, AtLookup
  <2>2. mem[x] = "linked"
    BY <2>1, KeysAreEntries, DevProgAssumption DEF Inv, ChunksInv
  <2>3. Running(x) = {}
    BY <2>1, <1>t DEF Running, Inv, DeviceInv
  <2>4. CASE x = e
    <3>0. Cardinality(Running(e)) = 0
      BY <2>3, <2>4, FS_EmptySet
    <3>1. clref[e] = 0
      BY <2>1, <2>4, <3>0, <1>t DEF Exact, OfEntry
    <3> QED  BY <2>1, <2>2, <2>4, <3>1, <1>0, <1>t DEF OfEntry, EntryTypeOK
  <2>5. CASE x # e
    BY <2>1, <2>5, <1>0, <1>t DEF OfEntry, EntryTypeOK
  <2> QED  BY <2>4, <2>5
<1>5. ASSUME NEW t \in Threads, LookupNoProgram(t) PROVE Exact(e)'
  <2>1. PICK x \in Entries : program[x] = "null" /\ program' = [program EXCEPT ![x] = "bad"]
                             /\ UNCHANGED <<mem, clref, device>>
    BY <1>5 DEF LookupNoProgram
  <2>2. OfEntry(e)' = OfEntry(e)
    BY <2>1, <1>t DEF OfEntry, EntryTypeOK
  <2> QED  BY <2>1, <2>2, <1>1
<1>6. ASSUME NEW t \in Threads, LookupReady(t) PROVE Exact(e)'
  <2>1. PICK x \in Entries :
          /\ pc[t] = "lookup" /\ x = mkey[serving[t]]
          /\ clref' = [clref EXCEPT ![x] = @ + 1] /\ device' = device \cup {serving[t]}
          /\ UNCHANGED <<mem, program, mkey>>
    BY <1>6 DEF LookupReady, AtLookup
  <2>2. serving[t] \in Messages /\ serving[t] \notin device
    BY <2>1, KeysAreEntries DEF Inv, PlacesInv
  <2>3. OfEntry(e)' = OfEntry(e) /\ OfEntry(e) \in Int
    BY <2>1 DEF OfEntry
  <2>4. CASE x = e
    <3>1. Running(e)' = Running(e) \cup {serving[t]} /\ serving[t] \notin Running(e)
      BY <2>1, <2>2, <2>4 DEF Running
    <3>2. Cardinality(Running(e)') = Cardinality(Running(e)) + 1
      BY <3>1, <1>n, FS_AddElement
    <3>3. clref'[e] = clref[e] + 1
      BY <2>1, <2>4, <1>t DEF EntryTypeOK
    <3> QED  BY <3>2, <3>3, <2>3, <1>n, <1>t DEF Exact
  <2>5. CASE x # e
    <3>1. Running(e)' = Running(e)
      BY <2>1, <2>2, <2>5 DEF Running
    <3>2. clref'[e] = clref[e]
      BY <2>1, <2>5, <1>t DEF EntryTypeOK
    <3> QED  BY <3>1, <3>2, <2>3, <1>t DEF Exact
  <2> QED  BY <2>4, <2>5
<1>7. ASSUME NEW t \in Threads, TakeMessage(t) \/ BuildReturns(t) \/ LookupBuilding(t)
                                \/ LookupBad(t) \/ Answer(t)
      PROVE Exact(e)'
  <2>1. UNCHANGED <<mem, program, clref, device>>
    BY <1>7 DEF TakeMessage, BuildReturns, LookupBuilding, LookupBad, Answer
  <2> QED  BY <2>1, <1>1 DEF OfEntry
<1>8. ASSUME NEW x \in Entries, WakeEnd(x) PROVE Exact(e)'
  <2>0. device' = device /\ mem' = mem /\ job[x] # "none"
    BY <1>8 DEF WakeEnd
  <2>1. program[x] = "prog" /\ mem[x] = "linked"
    BY <2>0, DevProgAssumption DEF Inv, BuildInv, ChunksInv
  <2>2. CASE UNCHANGED <<program, clref>>
    BY <2>0, <2>2, <1>1 DEF OfEntry
  <2>3. CASE program' = [program EXCEPT ![x] = "bad"] /\ clref' = [clref EXCEPT ![x] = @ - 1]
    <3>1. CASE x = e
      BY <2>0, <2>1, <2>3, <3>1, <1>0, <1>t DEF OfEntry, EntryTypeOK
    <3>2. CASE x # e
      BY <2>0, <2>1, <2>3, <3>2, <1>0, <1>t DEF OfEntry, EntryTypeOK
    <3> QED  BY <3>1, <3>2
  <2> QED  BY <2>2, <2>3, <1>8 DEF WakeEnd
<1>9. ASSUME NEW x \in Entries, Callback(x), ~WakeEnd(x) PROVE Exact(e)'
  <2>1. UNCHANGED <<mem, program, clref, device>>
    BY <1>9 DEF Callback, BuildStatus, CountLog, BuildLock, Wake
  <2> QED  BY <2>1, <1>1 DEF OfEntry
<1>10. ASSUME NEW m \in Messages, KernelDone(m) PROVE Exact(e)'
  <2>1. /\ m \in device /\ device' = device \ {m} /\ UNCHANGED <<mem, program>>
        /\ clref' = [clref EXCEPT ![mkey[m]] = @ - 1]
        /\ mkey' = mkey \/ mkey' = [mkey EXCEPT ![m] = None]
    BY <1>10 DEF KernelDone, Answered
  <2>2. mkey[m] \in Entries
    BY <2>1, KeysAreEntries
  <2>3. OfEntry(e)' = OfEntry(e) /\ OfEntry(e) \in Int
    BY <2>1 DEF OfEntry
  <2>4. Running(e)' = Running(e) \ {m}
    BY <2>1, <1>t DEF Running, MessageTypeOK
  <2>5. Cardinality(Running(e)') =
          IF m \in Running(e) THEN Cardinality(Running(e)) - 1 ELSE Cardinality(Running(e))
    BY <2>4, <1>n, FS_RemoveElement
  <2>6. clref'[e] = IF m \in Running(e) THEN clref[e] - 1 ELSE clref[e]
    BY <2>1, <2>2, <1>t DEF EntryTypeOK, Running
  <2> QED  BY <2>3, <2>5, <2>6, <1>n, <1>t DEF Exact
<1> QED
  BY <1>2, <1>3, <1>4, <1>5, <1>6, <1>7, <1>8, <1>9, <1>10 DEF Next, EventLoop, Callback

(***************************************************************************)
(* The theorems.                                                           *)
(***************************************************************************)
LEMMA InitInv == Init => Inv
<1> SUFFICES ASSUME Init PROVE Inv
  OBVIOUS
<1> USE DEF Init
<1>1. TypeOK
  <2>1. EntryTypeOK
    <3>1. building \in [Entries -> BOOLEAN] /\ errmsg \in [Entries -> BOOLEAN]
          /\ elock \in [Entries -> BOOLEAN]
      BY Zenon
    <3> QED  BY <3>1 DEF EntryTypeOK, Jobs
  <2>2. ActorTypeOK /\ MessageTypeOK
    BY DevProgAssumption DEF ActorTypeOK, MessageTypeOK, BackPC, LoopPC
  <2> QED  BY <2>1, <2>2, DevProgAssumption DEF TypeOK
<1>2. KeysInv /\ PrivateInv /\ ListInv /\ OneEntryPerSource /\ LoopsInv
  BY DEF KeysInv, PrivateInv, ListInv, OneEntryPerSource, LoopsInv
<1>3. ChunksInv
  BY DevProgAssumption DEF ChunksInv, InServer
<1>4. PlacesInv /\ DeviceInv
  BY DEF PlacesInv, DeviceInv, QueueOnce, Queued
<1>5. BuildInv
  BY DEF BuildInv
<1>6. KeyRefs
  BY DEF KeyRefs
<1>7. ProgramRefs
  <2>1. \A e \in Entries : {m \in device : mkey[m] = e} = {}
    OBVIOUS
  <2> QED  BY <2>1, FS_EmptySet DEF ProgramRefs
<1> QED  BY <1>1, <1>2, <1>3, <1>4, <1>5, <1>6, <1>7 DEF Inv

LEMMA Unmoved == Inv /\ UNCHANGED vars => Inv'
<1> SUFFICES ASSUME Inv, UNCHANGED vars PROVE Inv'
  OBVIOUS
<1> USE DEF vars, Inv
<1>1. TypeOK'
  BY DEF TypeOK, EntryTypeOK, ActorTypeOK, MessageTypeOK
<1>2. (KeysInv /\ PrivateInv /\ ListInv /\ OneEntryPerSource /\ LoopsInv)'
  BY DEF KeysInv, PrivateInv, ListInv, OneEntryPerSource, LoopsInv
<1>3. (ChunksInv /\ PlacesInv)'
  BY DEF ChunksInv, InServer, PlacesInv, QueueOnce, Queued
<1>4. (BuildInv /\ DeviceInv)'
  BY DEF BuildInv, Pending, Queued, DeviceInv
<1>5. (KeyRefs /\ ProgramRefs)'
  BY DEF KeyRefs, Scans, Chunks, ProgramRefs
<1> QED  BY <1>1, <1>2, <1>3, <1>4, <1>5

\* The inductive invariant holds in every reachable state.
LEMMA InvAlways == Spec => []Inv
<1>1. Inv /\ [Next]_vars => Inv'
  <2>1. Inv /\ Next => Inv'
    BY TypeNext, KeysNext, PrivateNext, ChunksNext, PlacesNext, LoopsNext, ListNext,
       BuildNext, DeviceNext, KeyRefsNext, ProgramRefsNext DEF Inv
  <2> QED  BY <2>1, Unmoved
<1> QED  BY <1>1, InitInv, PTL DEF Spec

\* Lists hold entries and messages, sizes stay unsigned, and every actor is
\* at a place of its own code.
THEOREM TypeCorrect == Spec => []TypeOK
BY InvAlways, PTL DEF Inv

\* refcnt counts the scans and the messages that hold a key, for any number
\* of backends, messages and entries and through every hit, lost race, abort
\* and late answer.
THEOREM KeysCounted == Spec => []KeyRefs
BY InvAlways, PTL DEF Inv

\* pgstrom_reclaim_devprog never takes an entry that a scan holds, that a
\* message needs or that the driver builds.
THEOREM NeverReclaimedInUse == Spec => []NeededKept
<1>1. Inv => NeededKept
  <2> SUFFICES ASSUME Inv, NEW e \in Entries, mem[e] # "linked"
               PROVE  /\ Chunks(e) = {} /\ job[e] = "none"
                      /\ \A b \in Scans(e) : pc[b] \in {"count", "retry"}
    BY DEF NeededKept
  <2>1. Chunks(e) = {}
    BY DevProgAssumption DEF Chunks, Inv, ChunksInv
  <2>2. job[e] = "none"
    BY <2>1 DEF Chunks, Inv, BuildInv
  <2>3. \A b \in Scans(e) : pc[b] \in {"count", "retry"}
    BY DevProgAssumption DEF Scans, Inv, KeysInv
  <2> QED  BY <2>1, <2>2, <2>3
<1> QED  BY <1>1, InvAlways, PTL

\* The second trial of pgstrom_get_devprog_key keeps the cache free of
\* duplicates.
THEOREM SourcesUnique == Spec => []OneEntryPerSource
BY InvAlways, PTL DEF Inv

\* A message is parked only on an entry whose build still has its callback
\* to come.
THEOREM WaitersNotLost == Spec => []WaitersWoken
<1>1. Inv => WaitersWoken
  BY DEF Inv, BuildInv, WaitersWoken
<1> QED  BY <1>1, InvAlways, PTL

\* The references of a cl_program are those of its entry and of the kernels
\* that run.
THEOREM ProgramsCounted == Spec => []ProgramRefs
BY InvAlways, PTL DEF Inv

=============================================================================
