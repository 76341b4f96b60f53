---------------------------- MODULE GpuScanRefs -----------------------------
(***************************************************************************)
(* The reference counters of GpuScan: who owns a message, who uses a       *)
(* queue, and where the chunks of a scan are; on top of them, that nobody  *)
(* uses a released message, and that rows are returned                     *)
(* only from chunks on which the kernel has run.  For any number of        *)
(* backends, server threads, queues and messages.                          *)
(***************************************************************************)
EXTENDS GpuScanProofs, FiniteSetTheorems

(***************************************************************************)
(* The inductive invariant.                                                *)
(***************************************************************************)
\* The counters are kept when the server is not stopped and clBuildProgram
\* does not fail before its callback: what each of them breaks is listed in
\* the README.
Undisturbed == Env \cap {"sigterm", "reject"} = {}

\* No message occurs twice in the list s.
Once(s) == \A i, j \in 1..Len(s) : s[i] = s[j] => i = j

\* The server is up and accepts messages.
UpInv ==
  /\ ~stopping /\ ~sclosed /\ lost = {} /\ prog # "rejected"
  /\ pc[Main] = "join" /\ \A t \in Threads : pc[t] # "exit"

\* The message in the hands of a thread of the server
ServePC == {"proc", "reply", "put", "ub"}
Hand(s) == IF pc[s] \in ServePC THEN {msg[s]} ELSE {}

\* The server has a message in one place only.
ServerOnce ==
  /\ Once(servq) /\ Once(waitq)
  /\ Range(servq) \cap Range(waitq) = {}
  /\ Range(servq) \cap device = {} /\ Range(waitq) \cap device = {}
  /\ \A s \in Servers : Hand(s) \cap (Range(servq) \cup Range(waitq) \cup device) = {}
  /\ \A r, s \in Servers : r # s => Hand(r) \cap Hand(s) = {}

\* So have the backends.
PutHand(b) == IF pc[b] \in {"put", "ub"} THEN {msg[b]} ELSE {}
Owns(b) == tracked[b] \cup orphans[b] \cup PutHand(b)
BackendOnce ==
  \A b \in Backends :
    /\ tracked[b] \cap orphans[b] = {}
    /\ PutHand(b) \cap (tracked[b] \cup orphans[b]) = {}
    /\ \A c \in Backends : b # c => Owns(b) \cap Owns(c) = {}

UsedLive == \A m \in Messages : ServerHas(m) \/ BackendHas(m) => live[m]
OwnInv == MessageRefs /\ ReleaseIsLast /\ UsedLive

\* The reference of a creator on its queue lasts until pgstrom_close_queue.
Owner(b) == qtracked[b] \/ pc[b] \in {"trackq", "closeq"}

\* b is between gpuscan_begin and the end or the failure of its scan.
Active(b) == \/ pc[b] = "trackq" \/ InScan(b)
             \/ InRelease(b) /\ ret[b] = "drain"

\* Where a backend may be, and where the routines of mqueue.c return to
LocalOK(b) ==
  /\ pc[b] \in {"closeq", "freeq"} => ret[b] \in {"commit", "abort"}
  /\ pc[b] = "put" => ret[b] = "abort"
  /\ InRelease(b) => ret[b] \in {"drain", "abort"}
  /\ qtracked[b] => pc[b] \notin {"idle", "trackq", "closeq", "freeq", "commit"}
  /\ Active(b) => Owner(b)

LocalInv == \A b \in Backends : LocalOK(b)

\* A queue is open while it has an owner, and has one owner.
OwnerInv ==
  \A b \in Backends :
    /\ Owner(b) => ~closed[que[b]]
    /\ que[b] \in Queues /\ ~closed[que[b]] =>
         \E c \in Backends : Owner(c) /\ que[c] = que[b]
    /\ \A c \in Backends : Owner(b) /\ Owner(c) /\ que[b] = que[c] => b = c

\* The actor a is about to link q to the free list.
Links(a, q) == \/ a \in Backends /\ pc[a] = "freeq" /\ que[a] = q
               \/ pc[a] = "linkq" /\ respq[msg[a]] = q

TransitInv ==
  \A q \in Queues, a \in Actors : Links(a, q) =>
    /\ qref[q] = 0 /\ q <= nalloc /\ q \notin Range(freelist)
    /\ \A c \in Actors : Links(c, q) => c = a

TableInv ==
  /\ \A i, j \in 1..Len(freelist) : freelist[i] = freelist[j] => i = j
  /\ \A q \in Range(freelist) : qref[q] = 0 /\ q <= nalloc
  /\ \A q \in Queues : q > nalloc => qref[q] = 0

\* A message of an open queue is held, if at all, by the scan that reads it.
HeldOpen ==
  \A b \in Backends : \A m \in Owns(b) :
    /\ m \in Messages /\ respq[m] \in Queues
    /\ \/ closed[respq[m]]
       \/ Owner(b) /\ respq[m] = que[b] /\ m \notin orphans[b]

QueueInv == QueueRefs /\ TransitInv /\ TableInv /\ HeldOpen

\* Where the chunks of a scan are.
ScanOK(b) ==
  LET answers == qhead[que[b]] IN
  /\ tracked[b] = InFlight(b) \cup AtHand(b)
  /\ InFlight(b) \cap AtHand(b) = {}
  /\ running[b] = Cardinality(InFlight(b))
  /\ \A m \in tracked[b] : respq[m] = que[b]
  /\ Once(ready[b]) /\ Once(answers)
  /\ Range(answers) \subseteq tracked[b]
  /\ \A m \in Range(answers) : ~ServerHas(m)
  /\ pc[b] # "ret" => cur[b] = NoMessage
  /\ cur[b] \notin Range(ready[b])
  /\ pc[b] = "send" => msg[b] \notin Range(ready[b])

IdleOK(b) == /\ tracked[b] = {} /\ ready[b] = << >>
             /\ cur[b] = NoMessage /\ running[b] = 0

\* The server puts a message without an answer only if its scan is over.
PutsClosed == \A s \in Servers : pc[s] = "put" => closed[respq[msg[s]]]

ScanInv == /\ \A b \in Backends : /\ Active(b) => ScanOK(b)
                                  /\ pc[b] = "idle" => IdleOK(b)
           /\ PutsClosed

RefInv ==
  /\ TypeInv /\ UpInv /\ ServerOnce /\ BackendOnce /\ OwnInv
  /\ LocalInv /\ OwnerInv /\ QueueInv /\ ScanInv

USE DEF tableVars, queueVars, servVars, msgVars, callVars, scanVars, trackVars,
        buildVars, clservVars, dataVars

(***************************************************************************)
(* Control: a step moves one actor.                                        *)
(***************************************************************************)
\* The actor a is now at l, with the message m and the return address r.
Moves(a, l, m, r) ==
  /\ pc'[a] = l /\ msg'[a] = m /\ ret'[a] = r
  /\ \A c \in Actors \ {a} : pc'[c] = pc[c] /\ msg'[c] = msg[c] /\ ret'[c] = ret[c]

\* The sets of actors
LEMMA ActorKinds ==
  /\ Backends \subseteq Actors /\ Servers \subseteq Actors
  /\ Threads \subseteq Servers /\ Drivers \subseteq Servers /\ Main \in Servers
  /\ \A b \in Backends : b \notin Servers
  /\ Main \notin Threads /\ Main \notin Drivers
BY ActorsAssumption DEF Actors, Servers

LEMMA GotoStep ==
  ASSUME TypeInv, NEW a \in Actors, NEW l, Goto(a, l), msg' = msg /\ ret' = ret
  PROVE  Moves(a, l, msg[a], ret[a])
BY DEF TypeInv, ControlInv, CallTypeOK, Goto, Moves

LEMMA CallStep ==
  ASSUME TypeInv, NEW a \in Actors, NEW l, NEW m, NEW r, Call(a, l, m, r)
  PROVE  Moves(a, l, m, r)
BY DEF TypeInv, ControlInv, CallTypeOK, Call, Moves

LEMMA ReturnStep ==
  ASSUME TypeInv, NEW a \in Actors, Return(a), msg' = msg /\ ret' = ret
  PROVE  Moves(a, ret[a], msg[a], ret[a]) /\ ret[a] \in ReturnPC
BY GotoStep DEF Return, TypeInv, ControlInv, CallTypeOK

(***************************************************************************)
(* Lists without repetition.                                               *)
(***************************************************************************)
LEMMA RangeOf ==
  ASSUME NEW S, NEW s \in Seq(S)
  PROVE  Range(s) = {s[i] : i \in 1..Len(s)} /\ Range(s) \subseteq S
BY DEF Range

LEMMA RangeTail ==
  ASSUME NEW S, NEW s \in Seq(S), s # << >>, Once(s)
  PROVE  /\ Range(Tail(s)) = Range(s) \ {Head(s)}
         /\ Head(s) \in Range(s) /\ Once(Tail(s)) /\ Tail(s) \in Seq(S)
<1>1. Len(s) \in Nat /\ Len(s) > 0 /\ Tail(s) \in Seq(S) /\ Len(Tail(s)) = Len(s) - 1
  OBVIOUS
<1>2. \A i \in 1..Len(Tail(s)) : Tail(s)[i] = s[i+1] /\ i+1 \in 1..Len(s)
  BY <1>1
<1>3. \A i \in 1..Len(s) : i # 1 => i-1 \in 1..Len(Tail(s)) /\ Tail(s)[i-1] = s[i]
  BY <1>1
<1>4. Head(s) = s[1] /\ 1 \in 1..Len(s)
  BY <1>1
<1>5. Once(Tail(s))
  BY <1>1, <1>2 DEF Once
<1>6. \A x : x \in Range(Tail(s)) <=> \E i \in 1..Len(Tail(s)) : x = Tail(s)[i]
  <2>1. ASSUME NEW t \in Seq(S) PROVE \A x : x \in Range(t) <=> \E i \in 1..Len(t) : x = t[i]
    BY RangeOf
  <2> QED  BY <1>1, <2>1
<1>7. \A x : x \in Range(s) <=> \E i \in 1..Len(s) : x = s[i]
  BY RangeOf
<1>8. ASSUME NEW x \in Range(Tail(s)) PROVE x \in Range(s) /\ x # Head(s)
  <2>1. PICK i \in 1..Len(Tail(s)) : x = Tail(s)[i]
    BY <1>6
  <2>2. x = s[i+1] /\ i+1 \in 1..Len(s) /\ i+1 # 1
    BY <1>2, <2>1
  <2> QED  BY <1>4, <1>7, <2>2 DEF Once
<1>9. ASSUME NEW x \in Range(s), x # Head(s) PROVE x \in Range(Tail(s))
  BY <1>3, <1>4, <1>6, <1>7, <1>9, ZenonT(60)
<1> QED  BY <1>1, <1>4, <1>5, <1>7, <1>8, <1>9

LEMMA RangeAppend ==
  ASSUME NEW S, NEW s \in Seq(S), NEW m \in S
  PROVE  /\ Range(Append(s, m)) = Range(s) \cup {m}
         /\ Once(s) /\ m \notin Range(s) => Once(Append(s, m))
<1>1. /\ Append(s, m) \in Seq(S) /\ Len(Append(s, m)) = Len(s) + 1
      /\ Append(s, m)[Len(s) + 1] = m
      /\ \A i \in 1..Len(s) : Append(s, m)[i] = s[i]
  OBVIOUS
<1>2. \A i : i \in 1..(Len(s) + 1) <=> i \in 1..Len(s) \/ i = Len(s) + 1
  OBVIOUS
<1>3. \A x : x \in Range(Append(s, m)) <=> \E i \in 1..(Len(s) + 1) : x = Append(s, m)[i]
  BY <1>1 DEF Range
<1>4. \A x : x \in Range(s) <=> \E i \in 1..Len(s) : x = s[i]
  BY RangeOf
<1>5. Range(Append(s, m)) = Range(s) \cup {m}
  BY <1>1, <1>2, <1>3, <1>4
<1>6. ASSUME Once(s), m \notin Range(s) PROVE Once(Append(s, m))
  BY <1>1, <1>2, <1>4, <1>6 DEF Once
<1> QED  BY <1>5, <1>6

LEMMA RangeCons ==
  ASSUME NEW S, NEW s \in Seq(S), NEW m \in S
  PROVE  /\ Range(<<m>> \o s) = Range(s) \cup {m}
         /\ Once(s) /\ m \notin Range(s) => Once(<<m>> \o s)
<1> DEFINE t == <<m>> \o s
<1>1. /\ t \in Seq(S) /\ Len(t) = Len(s) + 1 /\ t[1] = m
      /\ \A i \in 1..Len(s) : t[i+1] = s[i]
  OBVIOUS
<1> HIDE DEF t
<1>2. ASSUME NEW i \in 1..(Len(s) + 1), i # 1 PROVE i-1 \in 1..Len(s) /\ t[i] = s[i-1]
  <2>1. i-1 \in 1..Len(s) /\ (i-1)+1 = i
    BY <1>2
  <2> QED  BY <1>1, <2>1
<1>3. \A x : x \in Range(t) <=> \E i \in 1..(Len(s) + 1) : x = t[i]
  BY <1>1, RangeOf
<1>4. \A x : x \in Range(s) <=> \E i \in 1..Len(s) : x = s[i]
  BY RangeOf
<1>5. \A i \in 1..Len(s) : i+1 \in 1..(Len(s) + 1) /\ 1 \in 1..(Len(s) + 1)
  OBVIOUS
<1>6. 1 \in 1..(Len(s) + 1)
  OBVIOUS
<1>7. ASSUME NEW x PROVE x \in Range(t) <=> x \in Range(s) \cup {m}
  <2>1. x \in Range(t) => x \in Range(s) \cup {m}
    BY <1>1, <1>2, <1>3, <1>4
  <2>2. x = m => x \in Range(t)
    BY <1>1, <1>3, <1>6
  <2>3. x \in Range(s) => x \in Range(t)
    BY <1>1, <1>3, <1>4, <1>5
  <2> QED  BY <2>1, <2>2, <2>3
<1>8. ASSUME Once(s), m \notin Range(s) PROVE Once(t)
  BY <1>1, <1>2, <1>4, <1>8 DEF Once
<1> QED  BY <1>7, <1>8 DEF t

(***************************************************************************)
(* The places in which the server has a message.                           *)
(***************************************************************************)
LEMMA ServerPlaces ==
  \A m : ServerHas(m) <=> \/ m \in Range(servq) \cup Range(waitq) \cup device \cup lost
                          \/ \E s \in Servers : m \in Hand(s)
BY DEF ServerHas, Hand, ServePC

LEMMA HandStep ==
  ASSUME NEW a \in Actors, NEW l, NEW m, NEW r, Moves(a, l, m, r)
  PROVE  /\ Hand(a)' = IF l \in ServePC THEN {m} ELSE {}
         /\ \A s \in Actors \ {a} : Hand(s)' = Hand(s)
BY DEF Moves, Hand

\* A step that touches none of these places
LEMMA ServerKept ==
  ASSUME UNCHANGED <<servq, waitq, device, lost>>,
         \A s \in Servers : Hand(s)' = Hand(s)
  PROVE  /\ ServerOnce => ServerOnce'
         /\ \A m \in Messages : ServerHas(m)' = ServerHas(m)
<1>1. ServerOnce => ServerOnce'
  BY DEF ServerOnce, Once
<1>2. \A m \in Messages : ServerHas(m)' <=> ServerHas(m)
  <2>1. \A m \in Messages : ServerHas(m)' <=>
          \/ m \in Range(servq) \cup Range(waitq) \cup device \cup lost
          \/ \E s \in Servers : m \in Hand(s)'
    BY DEF ServerHas, Hand, ServePC
  <2> QED  BY <2>1, ServerPlaces
<1>3. \A m \in Messages : ServerHas(m) \in BOOLEAN /\ ServerHas(m)' \in BOOLEAN
  BY DEF ServerHas
<1> QED  BY <1>1, <1>2, <1>3

\* What the server keeps when it moves a message from one place to another.
ServerMoves == ServerOnce' /\ \A m \in Messages : ServerHas(m)' = ServerHas(m)

\* A thread takes a message from a list,
LEMMA ListToHand ==
  ASSUME TypeInv, ServerOnce, NEW s \in Servers, Hand(s) = {}, NEW m,
         Hand(s)' = {m}, \A c \in Servers \ {s} : Hand(c)' = Hand(c),
         \/ servq # << >> /\ m = Head(servq) /\ servq' = Tail(servq) /\ UNCHANGED <<waitq, device, lost>>
         \/ m \in device /\ device' = device \ {m} /\ UNCHANGED <<servq, waitq, lost>>
  PROVE  ServerMoves
<1>1. servq \in Seq(Messages)
  BY DEF TypeInv, DataInv, QueueTypeOK
<1>2. CASE servq # << >> /\ m = Head(servq) /\ servq' = Tail(servq) /\ UNCHANGED <<waitq, device, lost>>
  <2>1. Range(servq)' = Range(servq) \ {m} /\ m \in Range(servq) /\ Once(servq)'
    BY <1>1, <1>2, RangeTail DEF ServerOnce, Once
  <2>2. ServerOnce'
    BY <1>2, <2>1 DEF ServerOnce, Once
  <2>3. \A k \in Messages : ServerHas(k)' <=> ServerHas(k)
    BY <1>2, <2>1 DEF ServerHas, Hand, ServePC
  <2> QED  BY <2>2, <2>3 DEF ServerMoves, ServerHas
<1>3. CASE m \in device /\ device' = device \ {m} /\ UNCHANGED <<servq, waitq, lost>>
  <2>1. ServerOnce'
    BY <1>3 DEF ServerOnce, Once
  <2>2. \A k \in Messages : ServerHas(k)' <=> ServerHas(k)
    BY <1>3 DEF ServerHas, Hand, ServePC
  <2> QED  BY <2>1, <2>2 DEF ServerMoves, ServerHas
<1> QED  BY <1>2, <1>3

\* and puts it on another.
LEMMA HandToList ==
  ASSUME TypeInv, ServerOnce, NEW s \in Servers, NEW m \in Messages, Hand(s) = {m},
         Hand(s)' = {}, \A c \in Servers \ {s} : Hand(c)' = Hand(c),
         \/ waitq' = Append(waitq, m) /\ UNCHANGED <<servq, device, lost>>
         \/ device' = device \cup {m} /\ UNCHANGED <<servq, waitq, lost>>
  PROVE  ServerMoves
<1>1. waitq \in Seq(Messages) /\ m \notin Range(waitq)
  BY DEF TypeInv, DataInv, ClservTypeOK, ServerOnce
<1>2. CASE waitq' = Append(waitq, m) /\ UNCHANGED <<servq, device, lost>>
  <2>1. Range(waitq)' = Range(waitq) \cup {m} /\ Once(waitq)'
    BY <1>1, <1>2, RangeAppend DEF ServerOnce, Once
  <2>2. ServerOnce'
    BY <1>2, <2>1 DEF ServerOnce, Once
  <2>3. \A k \in Messages : ServerHas(k)' <=> ServerHas(k)
    BY <1>2, <2>1 DEF ServerHas, Hand, ServePC
  <2> QED  BY <2>2, <2>3 DEF ServerMoves, ServerHas
<1>3. CASE device' = device \cup {m} /\ UNCHANGED <<servq, waitq, lost>>
  <2>1. ServerOnce'
    BY <1>3 DEF ServerOnce, Once
  <2>2. \A k \in Messages : ServerHas(k)' <=> ServerHas(k)
    BY <1>3 DEF ServerHas, Hand, ServePC
  <2> QED  BY <2>1, <2>2 DEF ServerMoves, ServerHas
<1> QED  BY <1>2, <1>3

\* The build callback moves a message from waitq to the server queue.
LEMMA ListToList ==
  ASSUME TypeInv, ServerOnce, waitq # << >>, waitq' = Tail(waitq),
         servq' = Append(servq, Head(waitq)), UNCHANGED <<device, lost>>,
         \A s \in Servers : Hand(s)' = Hand(s)
  PROVE  ServerMoves
<1>1. waitq \in Seq(Messages) /\ servq \in Seq(Messages) /\ Head(waitq) \in Messages
  BY DEF TypeInv, DataInv, ClservTypeOK, QueueTypeOK
<1>2. Range(waitq)' = Range(waitq) \ {Head(waitq)} /\ Head(waitq) \in Range(waitq) /\ Once(waitq)'
  BY <1>1, RangeTail DEF ServerOnce, Once
<1>3. Range(servq)' = Range(servq) \cup {Head(waitq)} /\ Once(servq)'
  <2>1. Once(servq) /\ Head(waitq) \notin Range(servq)
    BY <1>2 DEF ServerOnce
  <2>2. /\ Range(Append(servq, Head(waitq))) = Range(servq) \cup {Head(waitq)}
        /\ Once(Append(servq, Head(waitq)))
    BY <2>1, <1>1, RangeAppend
  <2>3. Range(servq') = Range(servq) \cup {Head(waitq)} /\ Once(servq')
    BY <2>2
  <2> QED  BY <2>3 DEF Range, Once
<1>4. ServerOnce'
  BY <1>2, <1>3 DEF ServerOnce
<1>5. \A k \in Messages : ServerHas(k)' <=> ServerHas(k)
  BY <1>2, <1>3 DEF ServerHas, Hand, ServePC
<1> QED  BY <1>4, <1>5 DEF ServerMoves, ServerHas

(***************************************************************************)
(* Steps inside the server.                                                *)
(***************************************************************************)
\* One server thread moves; messages, queues and scans are left alone.
Inside(a) ==
  /\ UNCHANGED <<tableVars, queueVars, live, mref, respq, scanVars, trackVars>>
  /\ \A c \in Actors \ {a} : pc'[c] = pc[c] /\ msg'[c] = msg[c] /\ ret'[c] = ret[c]
  /\ ~InRelease(a) /\ ~InRelease(a)' /\ pc[a] # "freeq" /\ pc'[a] \notin {"freeq", "put", "ub"}

\* A thread that moves without a message in its hands, or with the same one
LEMMA HandsKept ==
  ASSUME ServerOnce, NEW a \in Servers, NEW l, Moves(a, l, msg[a], ret[a]),
         pc[a] \in ServePC <=> l \in ServePC, UNCHANGED <<servq, waitq, device, lost>>
  PROVE  ServerMoves
<1>1. a \in Actors
  BY ActorKinds
<1>2. \A s \in Servers : Hand(s)' = Hand(s)
  BY <1>1, HandStep, ActorKinds DEF Hand
<1> QED  BY <1>2, ServerKept DEF ServerMoves

\* The event loop, up to the processing of a message
LEMMA LoopInside ==
  ASSUME UpInv, TypeInv, ServerOnce, NEW t \in Threads,
         EnterWait(t) \/ ServerDequeue(t) \/ BuildAccepted(t)
  PROVE  UpInv' /\ ServerMoves /\ Inside(t)
<1>1. t \in Actors /\ t \in Servers /\ t # Main
  BY ActorKinds
<1>2. ASSUME NEW l \in {"deq", "loop"}, Moves(t, l, msg[t], ret[t]),
             pc[t] \in {"loop", "deq", "build"}, UNCHANGED dataVars
      PROVE  UpInv' /\ ServerMoves /\ Inside(t)
  <2>1. ServerMoves
    BY <1>1, <1>2, HandsKept DEF ServePC
  <2>2. Inside(t)
    BY <1>2 DEF Inside, Moves, InRelease
  <2>3. UpInv'
    BY <1>1, <1>2, ActorKinds DEF UpInv, Moves
  <2> QED  BY <2>1, <2>2, <2>3
<1>3. CASE EnterWait(t)
  <2>1. Moves(t, "deq", msg[t], ret[t])
    BY <1>1, <1>3, GotoStep DEF EnterWait, UpInv
  <2> QED  BY <1>2, <1>3, <2>1 DEF EnterWait
<1>4. CASE BuildAccepted(t)
  <2>1. Moves(t, "loop", msg[t], ret[t])
    BY <1>1, <1>4, GotoStep DEF BuildAccepted
  <2> QED  BY <1>2, <1>4, <2>1 DEF BuildAccepted
<1>5. CASE ServerDequeue(t) /\ servq = << >>
  <2>1. Moves(t, "loop", msg[t], ret[t])
    BY <1>1, <1>5, GotoStep DEF ServerDequeue
  <2> QED  BY <1>2, <1>5, <2>1 DEF ServerDequeue
<1>6. CASE ServerDequeue(t) /\ servq # << >>
  <2>1. Moves(t, "proc", Head(servq), "loop") /\ servq' = Tail(servq)
    BY <1>1, <1>6, CallStep DEF ServerDequeue
  <2>2. Hand(t) = {} /\ Hand(t)' = {Head(servq)} /\ \A c \in Servers \ {t} : Hand(c)' = Hand(c)
    BY <1>1, <1>6, <2>1, HandStep, ActorKinds DEF Hand, ServePC, ServerDequeue
  <2>3. ServerMoves
    BY <1>1, <1>6, <2>1, <2>2, ListToHand DEF ServerDequeue
  <2>4. Inside(t)
    BY <1>6, <2>1 DEF Inside, Moves, InRelease, ServerDequeue
  <2>5. UpInv'
    BY <1>1, <1>6, <2>1, ActorKinds DEF UpInv, Moves, ServerDequeue
  <2> QED  BY <2>3, <2>4, <2>5
<1> QED  BY <1>3, <1>4, <1>5, <1>6

\* clserv_process_gpuscan_row
LEMMA ProcessInside ==
  ASSUME UpInv, TypeInv, ServerOnce, NEW t \in Threads,
         \/ ProcessNew(t) \/ ProcessBuilding(t) \/ ProcessReady(t) \/ ProcessBad(t)
         \/ ProcessNoMemory(t)
  PROVE  UpInv' /\ ServerMoves /\ Inside(t)
<1>1. t \in Actors /\ t \in Servers /\ t # Main
  BY ActorKinds
<1>2. pc[t] = "proc" /\ UNCHANGED <<tableVars, queueVars, servVars, live, mref, respq,
                                    scanVars, trackVars, stopping, lost>>
      /\ prog' # "rejected"
  BY DEF ProcessNew, ProcessBuilding, ProcessReady, ProcessBad, ProcessNoMemory, UpInv
<1>3. msg[t] \in Messages /\ Hand(t) = {msg[t]}
  BY <1>1, <1>2 DEF TypeInv, ControlInv, HeldFilled, HoldPC, Filled, Hand, ServePC
<1>4. \/ Goto(t, "reply") /\ UNCHANGED <<msg, ret, waitq, device>>
      \/ /\ Goto(t, "build") \/ Goto(t, "loop")
         /\ UNCHANGED <<msg, ret>>
         /\ \/ waitq' = Append(waitq, msg[t]) /\ UNCHANGED device
            \/ device' = device \cup {msg[t]} /\ UNCHANGED waitq
  BY DEF ProcessNew, ProcessBuilding, ProcessReady, ProcessBad, ProcessNoMemory, Fail
<1>5. PICK l \in {"reply", "build", "loop"} :
        /\ Moves(t, l, msg[t], ret[t])
        /\ \/ l = "reply" /\ UNCHANGED <<waitq, device>>
           \/ /\ l # "reply"
              /\ \/ waitq' = Append(waitq, msg[t]) /\ UNCHANGED device
                 \/ device' = device \cup {msg[t]} /\ UNCHANGED waitq
  BY <1>1, <1>4, GotoStep
<1>6. ServerMoves
  <2>1. CASE l = "reply"
    BY <1>1, <1>2, <1>5, <2>1, HandsKept DEF ServePC
  <2>2. CASE l # "reply"
    <3>1. Hand(t)' = {} /\ \A c \in Servers \ {t} : Hand(c)' = Hand(c)
      BY <1>1, <1>5, <2>2, HandStep, ActorKinds DEF ServePC
    <3> QED  BY <1>1, <1>2, <1>3, <1>5, <2>2, <3>1, HandToList
  <2> QED  BY <2>1, <2>2
<1>7. Inside(t)
  BY <1>2, <1>5 DEF Inside, Moves, InRelease
<1>8. UpInv'
  BY <1>1, <1>2, <1>5, ActorKinds DEF UpInv, Moves
<1> QED  BY <1>6, <1>7, <1>8

\* Program builds and the callbacks of the driver
LEMMA CallbackInside ==
  ASSUME Undisturbed, UpInv, TypeInv, ServerOnce, NEW a \in Servers,
         \/ BuildRejected(a) \/ BuildDone(a) \/ KernelDone(a) \/ Requeue(a) \/ RequeueEnd(a)
  PROVE  UpInv' /\ ServerMoves /\ Inside(a)
<1>1. a \in Actors
  BY ActorKinds
<1>2. ~BuildRejected(a)
  BY DEF BuildRejected, Undisturbed
<1>3. a # Main
  BY DEF BuildDone, KernelDone, Requeue, RequeueEnd, BuildRejected, UpInv
<1>4. CASE BuildDone(a) \/ RequeueEnd(a)
  <2>1. PICK l \in {"flush", "idle"} : Moves(a, l, msg[a], ret[a])
    BY <1>1, <1>4, GotoStep DEF BuildDone, RequeueEnd, UpInv
  <2>2. /\ pc[a] \in {"idle", "flush"} /\ prog' # "rejected"
        /\ UNCHANGED <<tableVars, queueVars, servVars, live, mref, respq, scanVars, trackVars,
                       waitq, device, stopping, lost>>
    BY <1>4 DEF BuildDone, RequeueEnd
  <2>3. ServerMoves
    BY <2>1, <2>2, HandsKept DEF ServePC
  <2>4. Inside(a)
    BY <2>1, <2>2 DEF Inside, Moves, InRelease
  <2>5. UpInv'
    BY <1>3, <2>1, <2>2, ActorKinds DEF UpInv, Moves
  <2> QED  BY <2>3, <2>4, <2>5
<1>5. CASE KernelDone(a)
  <2>1. PICK m \in device : device' = device \ {m} /\ Call(a, "reply", m, "idle")
    BY <1>5 DEF KernelDone
  <2>2. Moves(a, "reply", m, "idle")
    BY <1>1, <2>1, CallStep
  <2>3. Hand(a) = {} /\ Hand(a)' = {m} /\ \A c \in Servers \ {a} : Hand(c)' = Hand(c)
    BY <1>1, <1>5, <2>2, HandStep, ActorKinds DEF Hand, ServePC, KernelDone
  <2>4. ServerMoves
    BY <1>5, <2>1, <2>3, ListToHand DEF KernelDone
  <2>5. Inside(a)
    BY <1>5, <2>2 DEF Inside, Moves, InRelease, KernelDone
  <2>6. UpInv'
    BY <1>3, <1>5, <2>2, ActorKinds DEF UpInv, Moves, KernelDone
  <2> QED  BY <2>4, <2>5, <2>6
<1>6. CASE Requeue(a)
  <2>1. /\ waitq # << >> /\ waitq' = Tail(waitq) /\ servq' = Append(servq, Head(waitq))
        /\ UNCHANGED <<callVars, tableVars, queueVars, sclosed, live, mref, respq, scanVars,
                       trackVars, prog, device, stopping, lost>>
    BY <1>6, ActorKinds DEF Requeue, Enqueue, UpInv
  <2>2. ServerMoves
    BY <2>1, ListToList DEF Hand
  <2>3. Inside(a)
    BY <1>6, <2>1 DEF Inside, InRelease, Requeue
  <2>4. UpInv'
    BY <2>1 DEF UpInv
  <2> QED  BY <2>2, <2>3, <2>4
<1> QED  BY <1>2, <1>4, <1>5, <1>6

\* The shutdown of the server does not begin.
LEMMA NoShutdown ==
  ASSUME Undisturbed, UpInv
  PROVE  ~Sigterm /\ ~MainStep
BY ActorsAssumption
DEF Undisturbed, UpInv, Sigterm, MainStep, CloseServerQueue, DrainServerQueue, ServerCall, Reply,
    PutMessage, PutQueue, PutQueueLink, FreeMessage

(***************************************************************************)
(* What a step may do to the owners of messages.                           *)
(***************************************************************************)
\* Nothing happens to the message k,
Quiet(k) ==
  /\ live'[k] = live[k] /\ mref'[k] = mref[k]
  /\ ServerHas(k)' <=> ServerHas(k)
  /\ BackendHas(k)' <=> BackendHas(k)

\* the actor c goes on with its call of cb_release, if any,
KeepsRelease(c) ==
  /\ InRelease(c)' <=> InRelease(c)
  /\ InRelease(c) => msg'[c] = msg[c]

\* and neither happens but to the message m and the actor a.
OwnFrame(a, m) ==
  /\ \A k \in Messages \ {m} : Quiet(k)
  /\ \A c \in Actors \ {a} : KeepsRelease(c)
  /\ InRelease(a) => msg[a] = m
  /\ InRelease(a)' => msg'[a] = m

SameOwners == /\ \A k \in Messages : Quiet(k)
              /\ \A c \in Actors : KeepsRelease(c)

\* The backend a loads m,
Creates(a, m) ==
  /\ OwnFrame(a, m) /\ ~InRelease(a) /\ ~InRelease(a)'
  /\ ~live[m] /\ live'[m] /\ mref'[m] = 1
  /\ BackendHas(m)' /\ ~ServerHas(m)'

\* sends it to the server;
Submits(a, m) ==
  /\ OwnFrame(a, m) /\ ~InRelease(a) /\ ~InRelease(a)'
  /\ live'[m] = live[m] /\ mref'[m] = mref[m] + 1
  /\ BackendHas(m) /\ BackendHas(m)' /\ ~ServerHas(m) /\ ServerHas(m)'

\* a, which acts for the backend or for the server, drops m;
Drops(a, m) ==
  /\ OwnFrame(a, m) /\ ~InRelease(a) /\ live'[m] = live[m]
  /\ \/ /\ ServerHas(m) /\ ~ServerHas(m)'
        /\ BackendHas(m)' <=> BackendHas(m)
     \/ /\ BackendHas(m) /\ ~BackendHas(m)'
        /\ ServerHas(m)' <=> ServerHas(m)
  /\ \/ mref[m] = 1 /\ InRelease(a)'
     \/ mref[m] # 1 /\ ~InRelease(a)' /\ mref'[m] = mref[m] - 1

\* cb_release frees its memory.
Frees(a, m) ==
  /\ OwnFrame(a, m) /\ InRelease(a) /\ ~InRelease(a)'
  /\ ~live'[m]
  /\ ServerHas(m)' <=> ServerHas(m)
  /\ BackendHas(m)' <=> BackendHas(m)

OwnStep == \/ SameOwners
           \/ \E a \in Actors, m \in Messages :
                Creates(a, m) \/ Submits(a, m) \/ Drops(a, m) \/ Frees(a, m)

LEMMA OwnKept == ASSUME OwnInv, SameOwners PROVE OwnInv'
<1> USE DEF SameOwners, Quiet, KeepsRelease
<1>1. \A k \in Messages : Releasing(k)' <=> Releasing(k)
  BY DEF Releasing
<1>2. MessageRefs'
  BY <1>1 DEF OwnInv, MessageRefs, B2N
<1>3. ReleaseIsLast'
  BY <1>1 DEF OwnInv, ReleaseIsLast
<1>4. UsedLive'
  BY DEF OwnInv, UsedLive
<1> QED  BY <1>2, <1>3, <1>4 DEF OwnInv

\* cb_release of the other messages
LEMMA OthersReleasing ==
  ASSUME NEW a \in Actors, NEW m \in Messages, OwnFrame(a, m)
  PROVE  /\ \A k \in Messages \ {m} : Releasing(k)' <=> Releasing(k)
         /\ InRelease(a)' => Releasing(m)'
         /\ ~InRelease(a) /\ ~InRelease(a)' => (Releasing(m)' <=> Releasing(m))
         /\ Releasing(m)' => Releasing(m) \/ InRelease(a)'
BY DEF OwnFrame, KeepsRelease, Releasing

LEMMA OwnStepInv ==
  ASSUME OwnInv, mref \in [Messages -> Int], NEW a \in Actors, NEW m \in Messages,
         Creates(a, m) \/ Submits(a, m) \/ Drops(a, m) \/ Frees(a, m)
  PROVE  OwnInv'
<1>1. OwnFrame(a, m)
  BY DEF Creates, Submits, Drops, Frees
<1>2. \A k \in Messages \ {m} : Quiet(k) /\ (Releasing(k)' <=> Releasing(k))
  BY <1>1, OthersReleasing DEF OwnFrame
<1>3. \A k \in Messages \ {m} : live'[k] /\ ~Releasing(k)' =>
        mref'[k] = B2N(ServerHas(k)') + B2N(BackendHas(k)')
  BY <1>2 DEF OwnInv, MessageRefs, Quiet, B2N
<1>4. \A k \in Messages \ {m} : ServerHas(k)' \/ BackendHas(k)' => live'[k]
  BY <1>2 DEF OwnInv, UsedLive, Quiet
<1>5. \A k \in Messages \ {m} :
        /\ Releasing(k)' => live'[k] /\ ~ServerHas(k)' /\ ~BackendHas(k)'
        /\ \A a1, a2 \in Actors :
             InRelease(a1)' /\ InRelease(a2)' /\ msg'[a1] = k /\ msg'[a2] = k => a1 = a2
  BY <1>1, <1>2 DEF OwnInv, ReleaseIsLast, Quiet, OwnFrame, KeepsRelease
<1>6. SUFFICES
        /\ live'[m] /\ ~Releasing(m)' => mref'[m] = B2N(ServerHas(m)') + B2N(BackendHas(m)')
        /\ ServerHas(m)' \/ BackendHas(m)' => live'[m]
        /\ Releasing(m)' => live'[m] /\ ~ServerHas(m)' /\ ~BackendHas(m)'
        /\ \A a1, a2 \in Actors :
             InRelease(a1)' /\ InRelease(a2)' /\ msg'[a1] = m /\ msg'[a2] = m => a1 = a2
  <2>1. MessageRefs'
    BY <1>3, <1>6 DEF MessageRefs
  <2>2. ReleaseIsLast'
    BY <1>5, <1>6 DEF ReleaseIsLast
  <2>3. UsedLive'
    BY <1>4, <1>6 DEF UsedLive
  <2> QED  BY <2>1, <2>2, <2>3 DEF OwnInv
<1>7. /\ live[m] /\ ~Releasing(m) => mref[m] = B2N(ServerHas(m)) + B2N(BackendHas(m))
      /\ ServerHas(m) \/ BackendHas(m) => live[m]
      /\ Releasing(m) => live[m] /\ ~ServerHas(m) /\ ~BackendHas(m)
      /\ \A a1, a2 \in Actors :
           InRelease(a1) /\ InRelease(a2) /\ msg[a1] = m /\ msg[a2] = m => a1 = a2
  BY DEF OwnInv, MessageRefs, UsedLive, ReleaseIsLast
<1>8. \A a1 \in Actors : InRelease(a1) /\ msg[a1] = m => Releasing(m)
  BY DEF Releasing
<1>9. \A c \in Actors \ {a} : InRelease(c)' /\ msg'[c] = m <=> InRelease(c) /\ msg[c] = m
  BY <1>1 DEF OwnFrame, KeepsRelease
<1>10. CASE Creates(a, m)
  <2>1. ~Releasing(m)' /\ ~Releasing(m)
    BY <1>1, <1>7, <1>10, OthersReleasing DEF Creates
  <2> QED  BY <1>7, <1>8, <1>9, <1>10, <2>1 DEF Creates, B2N
<1>11. CASE Submits(a, m)
  <2>1. ~Releasing(m)' /\ ~Releasing(m)
    BY <1>1, <1>7, <1>11, OthersReleasing DEF Submits
  <2> QED  BY <1>7, <1>8, <1>9, <1>11, <2>1 DEF Submits, B2N
<1>12. CASE Drops(a, m)
  <2>1. ~Releasing(m) /\ live[m]
    BY <1>7, <1>12 DEF Drops
  <2>2. mref[m] = 1 => ~ServerHas(m)' /\ ~BackendHas(m)'
    BY <1>7, <1>12, <2>1 DEF Drops, B2N
  <2>3. mref[m] # 1 => ServerHas(m)' \/ BackendHas(m)'
    BY <1>7, <1>12, <2>1 DEF Drops, B2N
  <2>4. CASE mref[m] = 1
    <3>1. InRelease(a)' /\ live'[m] = live[m]
      BY <1>12, <2>4 DEF Drops
    <3>2. Releasing(m)'
      BY <1>1, <3>1, OthersReleasing
    <3>3. \A c \in Actors : InRelease(c)' /\ msg'[c] = m => c = a
      BY <1>8, <1>9, <2>1
    <3> QED  BY <2>1, <2>2, <2>4, <3>1, <3>2, <3>3
  <2>5. CASE mref[m] # 1
    <3>1. ~Releasing(m)'
      BY <1>1, <1>12, <2>1, <2>5, OthersReleasing DEF Drops
    <3> QED  BY <1>7, <1>8, <1>9, <1>12, <2>1, <2>5, <3>1 DEF Drops, B2N
  <2> QED  BY <2>4, <2>5
<1>13. CASE Frees(a, m)
  <2>1. Releasing(m) /\ msg[a] = m
    BY <1>1, <1>13 DEF Frees, OwnFrame, Releasing
  <2>2. \A c \in Actors : ~(InRelease(c)' /\ msg'[c] = m)
    BY <1>7, <1>9, <1>13, <2>1 DEF Frees
  <2>3. ~Releasing(m)'
    BY <2>2 DEF Releasing
  <2> QED  BY <1>7, <1>13, <2>1, <2>2, <2>3 DEF Frees
<1> QED  BY <1>10, <1>11, <1>12, <1>13

(***************************************************************************)
(* The owners of messages, step by step: the server.                       *)
(***************************************************************************)
LEMMA BackendPlaces == \A m : BackendHas(m) <=> \E b \in Backends : m \in Owns(b)
BY DEF BackendHas, Owns, PutHand

\* A step that leaves what the backends hold alone
LEMMA BackendsKept ==
  ASSUME UNCHANGED <<tracked, orphans>>, \A b \in Backends : PutHand(b)' = PutHand(b)
  PROVE  /\ BackendOnce => BackendOnce'
         /\ \A m \in Messages : BackendHas(m)' <=> BackendHas(m)
<1>1. \A b \in Backends : Owns(b)' = Owns(b)
  BY DEF Owns
<1>2. BackendOnce => BackendOnce'
  BY <1>1 DEF BackendOnce
<1>3. \A m \in Messages : BackendHas(m)' <=> \E b \in Backends : m \in Owns(b)'
  BY DEF BackendHas, Owns, PutHand
<1> QED  BY <1>1, <1>2, <1>3, BackendPlaces

LEMMA PutHandStep ==
  ASSUME NEW a \in Actors, NEW l, NEW m, NEW r, Moves(a, l, m, r)
  PROVE  /\ PutHand(a)' = IF l \in {"put", "ub"} THEN {m} ELSE {}
         /\ \A s \in Actors \ {a} : PutHand(s)' = PutHand(s)
BY DEF Moves, PutHand

LEMMA InsideOwn ==
  ASSUME BackendOnce, NEW a \in Servers, ServerMoves, Inside(a)
  PROVE  BackendOnce' /\ SameOwners
<1>1. a \notin Backends /\ Backends \subseteq Actors
  BY ActorKinds
<1>2. \A b \in Backends : PutHand(b)' = PutHand(b)
  BY <1>1 DEF Inside, PutHand
<1>3. BackendOnce' /\ \A k \in Messages : BackendHas(k)' <=> BackendHas(k)
  BY <1>2, BackendsKept DEF Inside
<1>4. \A c \in Actors : KeepsRelease(c)
  BY DEF Inside, KeepsRelease, InRelease
<1>5. \A k \in Messages : Quiet(k)
  BY <1>3 DEF Quiet, Inside, ServerMoves
<1> QED  BY <1>3, <1>4, <1>5 DEF SameOwners

\* The server drops the message a thread has in its hands.
LEMMA HandDropped ==
  ASSUME ServerOnce, lost = {}, NEW s \in Servers, NEW m \in Messages, Hand(s) = {m},
         Hand(s)' = {}, \A c \in Servers \ {s} : Hand(c)' = Hand(c),
         UNCHANGED <<servq, waitq, device, lost>>
  PROVE  /\ ServerOnce' /\ ServerHas(m) /\ ~ServerHas(m)'
         /\ \A k \in Messages \ {m} : ServerHas(k)' <=> ServerHas(k)
<1>1. ServerOnce'
  BY DEF ServerOnce, Once
<1>2. \A k \in Messages : ServerHas(k)' <=>
        \/ k \in Range(servq) \cup Range(waitq) \cup device \cup lost
        \/ \E c \in Servers : k \in Hand(c)'
  BY DEF ServerHas, Hand, ServePC
<1>3. \A k \in Messages \ {m} : ServerHas(k)' <=> ServerHas(k)
  BY <1>2, ServerPlaces
<1>4. ServerHas(m)
  BY ServerPlaces
<1>5. ~ServerHas(m)'
  BY <1>2 DEF ServerOnce
<1> QED  BY <1>1, <1>3, <1>4, <1>5

\* A server thread in pgstrom_reply_message or pgstrom_put_message
LEMMA ServerPutOwn ==
  ASSUME TypeInv, lost = {}, ServerOnce, BackendOnce, OwnInv, NEW a \in Servers,
         Reply(a) \/ PutMessage(a), UNCHANGED <<scanVars, trackVars, clservVars>>
  PROVE  ServerOnce' /\ BackendOnce' /\ OwnStep
<1> DEFINE m == msg[a]
<1>1. a \in Actors /\ a \notin Backends /\ Backends \subseteq Actors
  BY ActorKinds
<1>2. pc[a] \in {"reply", "put"} /\ m \in Messages /\ Hand(a) = {m} /\ ~InRelease(a)
  BY <1>1 DEF Reply, PutMessage, TypeInv, ControlInv, HeldFilled, HoldPC, Filled, Hand, ServePC,
     InRelease
<1>3. ServerHas(m) /\ live[m] /\ ~Releasing(m)
  BY <1>2, ServerPlaces DEF OwnInv, UsedLive, ReleaseIsLast
<1>4. mref[m] = 1 + B2N(BackendHas(m)) /\ mref[m] \in {1, 2}
  BY <1>2, <1>3 DEF OwnInv, MessageRefs, B2N
<1>5. UNCHANGED <<servq, waitq, device, lost, tracked, orphans, msg, ret, live>>
  BY DEF Reply, PutMessage
<1>6. ASSUME NEW l, Moves(a, l, m, ret[a])
      PROVE  /\ BackendOnce' /\ \A k \in Messages : BackendHas(k)' <=> BackendHas(k)
             /\ \A c \in Actors \ {a} : KeepsRelease(c)
  <2>1. \A b \in Backends : PutHand(b)' = PutHand(b)
    BY <1>1, <1>6, PutHandStep
  <2>2. \A c \in Actors \ {a} : KeepsRelease(c)
    BY <1>6 DEF Moves, KeepsRelease, InRelease
  <2> QED  BY <1>5, <2>1, <2>2, BackendsKept
<1>7. ASSUME Goto(a, "ub") \/ Goto(a, "put"), UNCHANGED mref
      PROVE  ServerOnce' /\ BackendOnce' /\ OwnStep
  <2>1. PICK l \in {"ub", "put"} : Moves(a, l, m, ret[a])
    BY <1>1, <1>5, <1>7, GotoStep
  <2>2. ServerMoves
    BY <1>2, <1>5, <2>1, HandsKept DEF ServePC
  <2>3. SameOwners
    BY <1>2, <1>5, <1>6, <1>7, <2>1, <2>2
    DEF SameOwners, Quiet, ServerMoves, KeepsRelease, InRelease, Moves
  <2> QED  BY <1>6, <2>1, <2>2, <2>3 DEF ServerMoves, OwnStep
<1>8. ASSUME NEW l \in ReturnPC \cup {"putq"}, Moves(a, l, m, ret[a]),
             mref' = [mref EXCEPT ![m] = @ - 1], l = "putq" <=> mref[m] = 1
      PROVE  ServerOnce' /\ BackendOnce' /\ OwnStep
  <2>1. Hand(a)' = {} /\ \A c \in Servers \ {a} : Hand(c)' = Hand(c)
    BY <1>1, <1>8, HandStep, ActorKinds DEF ServePC, ReturnPC
  <2>2. /\ ServerOnce' /\ ServerHas(m) /\ ~ServerHas(m)'
        /\ \A k \in Messages \ {m} : ServerHas(k)' <=> ServerHas(k)
    BY <1>2, <1>5, <2>1, HandDropped
  <2>3. mref'[m] = mref[m] - 1 /\ \A k \in Messages \ {m} : mref'[k] = mref[k]
    BY <1>2, <1>8 DEF TypeInv, DataInv, MessageTypeOK
  <2>4. InRelease(a)' <=> mref[m] = 1
    BY <1>8 DEF Moves, InRelease, ReturnPC
  <2>5. OwnFrame(a, m)
    BY <1>2, <1>5, <1>6, <1>8, <2>2, <2>3 DEF OwnFrame, Quiet, Moves
  <2>6. Drops(a, m)
    BY <1>2, <1>5, <1>6, <1>8, <2>2, <2>3, <2>4, <2>5 DEF Drops
  <2> QED  BY <1>1, <1>2, <1>6, <1>8, <2>2, <2>6 DEF OwnStep
<1>9. \/ (Goto(a, "ub") \/ Goto(a, "put")) /\ UNCHANGED mref
      \/ Goto(a, "putq") /\ mref[m] = 1 /\ mref' = [mref EXCEPT ![m] = @ - 1]
      \/ Return(a) /\ mref[m] # 1 /\ mref' = [mref EXCEPT ![m] = @ - 1]
  BY <1>4 DEF Reply, PutMessage
<1>10. CASE Goto(a, "putq") /\ mref[m] = 1 /\ mref' = [mref EXCEPT ![m] = @ - 1]
  BY <1>1, <1>5, <1>8, <1>10, GotoStep
<1>11. CASE Return(a) /\ mref[m] # 1 /\ mref' = [mref EXCEPT ![m] = @ - 1]
  <2>1. Moves(a, ret[a], m, ret[a]) /\ ret[a] \in ReturnPC
    BY <1>1, <1>5, <1>11, ReturnStep
  <2> QED  BY <1>8, <1>11, <2>1 DEF ReturnPC
<1> QED  BY <1>7, <1>9, <1>10, <1>11

\* An actor in cb_release
LEMMA ReleaseOwn ==
  ASSUME TypeInv, ServerOnce, BackendOnce, NEW a \in Actors,
         PutQueue(a) \/ PutQueueLink(a) \/ FreeMessage(a),
         UNCHANGED <<scanVars, trackVars, clservVars>>
  PROVE  ServerOnce' /\ BackendOnce' /\ OwnStep
<1> DEFINE m == msg[a]
<1>1. m \in Messages /\ InRelease(a) /\ pc[a] \notin ServePC
  BY DEF PutQueue, PutQueueLink, FreeMessage, TypeInv, ControlInv, HeldFilled, HoldPC, Filled,
     ServePC, InRelease
<1>2. UNCHANGED <<servq, waitq, device, lost, tracked, orphans, msg, ret, mref>>
  BY DEF PutQueue, PutQueueLink, FreeMessage
<1>3. PICK l \in {"linkq", "freem"} \cup ReturnPC :
        /\ Moves(a, l, m, ret[a])
        /\ \/ l \in {"linkq", "freem"} /\ UNCHANGED live
           \/ l \in ReturnPC /\ live' = [live EXCEPT ![m] = FALSE]
  BY <1>2, GotoStep, ReturnStep DEF PutQueue, PutQueueLink, FreeMessage
<1>4. l \notin ServePC /\ l \notin {"put", "ub"}
  BY DEF ServePC, ReturnPC
<1>5. \A c \in Actors : Hand(c)' = Hand(c) /\ PutHand(c)' = PutHand(c)
  BY <1>1, <1>3, <1>4, HandStep, PutHandStep DEF Hand, PutHand, ServePC
<1>6. ServerOnce' /\ \A k \in Messages : ServerHas(k)' = ServerHas(k)
  BY <1>2, <1>5, ServerKept, ActorKinds
<1>7. BackendOnce' /\ \A k \in Messages : BackendHas(k)' <=> BackendHas(k)
  BY <1>2, <1>5, BackendsKept, ActorKinds
<1>8. \A c \in Actors \ {a} : KeepsRelease(c)
  BY <1>3 DEF Moves, KeepsRelease, InRelease
<1>9. CASE l \in {"linkq", "freem"} /\ UNCHANGED live
  <2>1. KeepsRelease(a)
    BY <1>1, <1>3, <1>9 DEF Moves, KeepsRelease, InRelease
  <2>2. SameOwners
    BY <1>2, <1>6, <1>7, <1>8, <1>9, <2>1 DEF SameOwners, Quiet
  <2> QED  BY <1>6, <1>7, <2>2 DEF OwnStep
<1>10. CASE l \in ReturnPC /\ live' = [live EXCEPT ![m] = FALSE]
  <2>1. ~live'[m] /\ \A k \in Messages \ {m} : live'[k] = live[k]
    BY <1>1, <1>10 DEF TypeInv, DataInv, MessageTypeOK
  <2>2. ~InRelease(a)'
    BY <1>3, <1>10 DEF Moves, InRelease, ReturnPC
  <2>3. OwnFrame(a, m)
    BY <1>2, <1>6, <1>7, <1>8, <2>1, <2>2 DEF OwnFrame, Quiet
  <2>4. Frees(a, m)
    BY <1>1, <1>2, <1>6, <1>7, <2>1, <2>2, <2>3 DEF Frees
  <2> QED  BY <1>1, <1>6, <1>7, <2>4 DEF OwnStep
<1> QED  BY <1>3, <1>9, <1>10

(***************************************************************************)
(* The owners of messages, step by step: the backends.                     *)
(***************************************************************************)
\* Only the actor a moves.
Sole(a) == \A c \in Actors \ {a} : pc'[c] = pc[c] /\ msg'[c] = msg[c] /\ ret'[c] = ret[c]

\* The places in which an actor owns or releases its message
OwningPC == {"put", "ub", "putq", "linkq", "freem"}

\* b moves, and no message gets or loses an owner.
Plain(b) ==
  /\ UNCHANGED <<servq, sclosed, waitq, device, stopping, prog, lost, tracked, orphans,
                 live, mref, respq>>
  /\ Sole(b) /\ pc[b] \notin OwningPC /\ pc'[b] \notin OwningPC

LEMMA SoleStep ==
  ASSUME TypeInv, NEW a \in Actors,
         \/ \E l : Goto(a, l) /\ UNCHANGED <<msg, ret>>
         \/ \E l, m, r : Call(a, l, m, r)
         \/ UNCHANGED callVars
  PROVE  Sole(a)
BY DEF TypeInv, ControlInv, CallTypeOK, Goto, Call, Sole

LEMMA PlainSteps ==
  ASSUME TypeInv, TypeInv', NEW b \in Backends,
         \/ Begin(b) \/ BeginFails(b) \/ TrackQueue(b) \/ TrackQueueFails(b)
         \/ Drain(b) \/ Try(b) \/ Wait(b) \/ Timeout(b) \/ LoadEnd(b) \/ LoadFails(b)
         \/ Pick(b) \/ Cancel(b) \/ End(b) \/ AbortQueue(b) \/ AbortEnd(b)
         \/ /\ CloseQueue(b, que[b]) \/ CloseFree(b, que[b])
            /\ UNCHANGED <<scanVars, trackVars, clservVars>>
  PROVE  Plain(b)
<1> USE DEF OwningPC
<1>1. b \in Actors /\ pc \in [Actors -> BackendPC \cup ServerPC \cup CallPC]
  BY ActorKinds DEF TypeInv, ControlInv, CallTypeOK
<1>2. CASE \/ Begin(b) \/ TrackQueue(b) \/ LoadEnd(b) \/ LoadFails(b) \/ Pick(b) \/ Cancel(b)
           \/ AbortEnd(b)
  <2>1. /\ pc[b] \notin OwningPC /\ \E l \in BackendPC : Goto(b, l)
        /\ UNCHANGED <<servq, sclosed, waitq, device, stopping, prog, lost, tracked, orphans,
                       live, mref, respq, msg, ret>>
    BY <1>2 DEF Begin, TrackQueue, LoadEnd, LoadFails, Pick, Cancel, AbortEnd, Forget, BackendPC
  <2>2. Sole(b)
    BY <1>1, <2>1, SoleStep
  <2> QED  BY <1>1, <2>1, <2>2 DEF Plain, Goto, BackendPC
<1>3. CASE TrackQueueFails(b) \/ End(b) \/ AbortQueue(b)
  <2>1. /\ pc[b] \notin OwningPC /\ \E r : Call(b, "closeq", msg[b], r)
        /\ UNCHANGED <<servq, sclosed, waitq, device, stopping, prog, lost, tracked, orphans,
                       live, mref, respq>>
    BY <1>3 DEF TrackQueueFails, End, AbortQueue, MayEnd
  <2>2. Sole(b)
    BY <1>1, <2>1, SoleStep
  <2> QED  BY <1>1, <2>1, <2>2 DEF Plain, Call
<1>4. CASE Drain(b) \/ Try(b) \/ Wait(b) \/ Timeout(b)
  <2>1. /\ pc[b] \in BackendPC /\ (UNCHANGED pc \/ \E l \in BackendPC : Goto(b, l))
        /\ UNCHANGED <<servq, sclosed, waitq, device, stopping, prog, lost, tracked, orphans,
                       live, mref, respq, msg, ret>>
    BY <1>4 DEF Drain, Try, Wait, Timeout, TakeAnswer, NoAnswer, BackendPC
  <2>2. Sole(b)
    BY <1>1, <2>1, SoleStep
  <2> QED  BY <1>1, <2>1, <2>2 DEF Plain, Goto, BackendPC
<1>5. CASE BeginFails(b)
  BY <1>1, <1>5, SoleStep DEF Plain, BeginFails
<1>6. CASE /\ CloseQueue(b, que[b]) \/ CloseFree(b, que[b])
           /\ UNCHANGED <<scanVars, trackVars, clservVars>>
  <2>1. /\ pc[b] \notin OwningPC /\ (Return(b) \/ Goto(b, "freeq"))
        /\ UNCHANGED <<servq, sclosed, waitq, device, stopping, prog, lost, tracked, orphans,
                       live, mref, respq, msg, ret>>
    BY <1>6 DEF CloseQueue, CloseFree
  <2>2. ret[b] \in ReturnPC
    BY <1>1 DEF TypeInv, ControlInv, CallTypeOK
  <2>3. Sole(b)
    BY <1>1, <2>1, SoleStep DEF Return
  <2> QED  BY <1>1, <2>1, <2>2, <2>3 DEF Plain, Return, Goto, ReturnPC
<1> QED  BY <1>2, <1>3, <1>4, <1>5, <1>6

\* The server is left alone by a step of a backend, but for what it is sent.
LEMMA ServerAside ==
  ASSUME NEW b \in Backends, Sole(b), UNCHANGED <<servq, waitq, device, lost>>
  PROVE  /\ ServerOnce => ServerOnce'
         /\ \A k \in Messages : ServerHas(k)' <=> ServerHas(k)
<1>1. \A s \in Servers : Hand(s)' = Hand(s)
  BY ActorKinds DEF Sole, Hand
<1> QED  BY <1>1, ServerKept

LEMMA UpAside ==
  ASSUME UpInv, NEW b \in Backends, Sole(b), UNCHANGED <<stopping, sclosed, lost, prog>>
  PROVE  UpInv'
BY ActorKinds DEF UpInv, Sole

LEMMA PlainOwn ==
  ASSUME UpInv, ServerOnce, BackendOnce, NEW b \in Backends, Plain(b)
  PROVE  UpInv' /\ ServerOnce' /\ BackendOnce' /\ SameOwners
<1>1. b \in Actors /\ Sole(b) /\ Backends \subseteq Actors
  BY ActorKinds DEF Plain
<1>2. \A c \in Backends : PutHand(c)' = PutHand(c)
  BY <1>1 DEF Plain, Sole, PutHand, OwningPC
<1>3. BackendOnce' /\ \A k \in Messages : BackendHas(k)' <=> BackendHas(k)
  BY <1>2, BackendsKept DEF Plain
<1>4. ServerOnce' /\ \A k \in Messages : ServerHas(k)' <=> ServerHas(k)
  BY <1>1, ServerAside DEF Plain
<1>5. \A c \in Actors : KeepsRelease(c)
  BY <1>1 DEF Plain, Sole, KeepsRelease, InRelease, OwningPC
<1>6. SameOwners
  BY <1>3, <1>4, <1>5 DEF SameOwners, Quiet, Plain
<1>7. UpInv'
  BY <1>1, UpAside DEF Plain
<1> QED  BY <1>3, <1>4, <1>6, <1>7

\* What b owns changes by the message m at most, which no other backend has.
LEMMA OneBackend ==
  ASSUME BackendOnce, NEW b \in Backends, NEW m,
         \A c \in Backends \ {b} : /\ tracked'[c] = tracked[c] /\ orphans'[c] = orphans[c]
                                   /\ PutHand(c)' = PutHand(c) /\ m \notin Owns(c),
         tracked'[b] \cap orphans'[b] = {},
         PutHand(b)' \cap (tracked'[b] \cup orphans'[b]) = {},
         Owns(b)' \ {m} = Owns(b) \ {m}
  PROVE  /\ BackendOnce'
         /\ \A k \in Messages \ {m} : BackendHas(k)' <=> BackendHas(k)
         /\ m \in Messages => (BackendHas(m)' <=> m \in Owns(b)')
<1>1. \A c \in Backends \ {b} : Owns(c)' = Owns(c)
  BY DEF Owns
<1>2. \A c \in Backends \ {b} : Owns(b)' \cap Owns(c)' = {}
  BY <1>1 DEF BackendOnce
<1>3. \A c, d \in Backends \ {b} : c # d => Owns(c)' \cap Owns(d)' = {}
  BY <1>1 DEF BackendOnce
<1>4. BackendOnce'
  BY <1>2, <1>3 DEF BackendOnce
<1>5. \A k : BackendHas(k)' <=> \E c \in Backends : k \in Owns(c)'
  BY DEF BackendHas, Owns, PutHand
<1>6. \A k \in Messages \ {m} : BackendHas(k)' <=> BackendHas(k)
  BY <1>1, <1>5, BackendPlaces
<1>7. BackendHas(m)' <=> m \in Owns(b)'
  BY <1>1, <1>5
<1> QED  BY <1>4, <1>6, <1>7

\* A backend puts a message of its transaction.
LEMMA BackendPutOwn ==
  ASSUME TypeInv, UpInv, ServerOnce, BackendOnce, OwnInv, NEW b \in Backends,
         PutMessage(b), UNCHANGED <<scanVars, trackVars, clservVars>>
  PROVE  UpInv' /\ ServerOnce' /\ BackendOnce' /\ OwnStep
<1> DEFINE m == msg[b]
<1>1. b \in Actors /\ Backends \subseteq Actors
  BY ActorKinds
<1>2. pc[b] = "put" /\ m \in Messages /\ PutHand(b) = {m} /\ ~InRelease(b)
  BY <1>1 DEF PutMessage, TypeInv, ControlInv, HeldFilled, HoldPC, Filled, PutHand, InRelease
<1>3. BackendHas(m) /\ live[m] /\ ~Releasing(m)
  BY <1>2, BackendPlaces DEF OwnInv, UsedLive, ReleaseIsLast, Owns
<1>4. mref[m] = 1 + B2N(ServerHas(m)) /\ mref[m] \in {1, 2}
  BY <1>2, <1>3 DEF OwnInv, MessageRefs, B2N
<1>5. /\ UNCHANGED <<servq, sclosed, waitq, device, lost, tracked, orphans, msg, ret, live,
                     stopping, prog>>
      /\ mref' = [mref EXCEPT ![m] = @ - 1]
      /\ IF mref[m] = 1 THEN Goto(b, "putq") ELSE Return(b)
  BY <1>3 DEF PutMessage
<1>6. PICK l \in ReturnPC \cup {"putq"} : Moves(b, l, m, ret[b]) /\ (l = "putq" <=> mref[m] = 1)
  BY <1>1, <1>5, GotoStep, ReturnStep DEF ReturnPC
<1>7. Sole(b)
  BY <1>6 DEF Moves, Sole
<1>8. PutHand(b)' = {} /\ \A c \in Backends \ {b} : PutHand(c)' = PutHand(c)
  BY <1>1, <1>6, PutHandStep DEF ReturnPC
<1>9. /\ BackendOnce' /\ ~BackendHas(m)'
      /\ \A k \in Messages \ {m} : BackendHas(k)' <=> BackendHas(k)
  <2>1. m \notin tracked[b] \cup orphans[b] /\ \A c \in Backends \ {b} : m \notin Owns(c)
    BY <1>2 DEF BackendOnce, Owns
  <2>2. Owns(b)' \ {m} = Owns(b) \ {m} /\ m \notin Owns(b)'
    BY <1>2, <1>5, <1>8, <2>1 DEF Owns
  <2>3. ASSUME NEW k, k = m PROVE BackendOnce' /\ ~BackendHas(k)'
          /\ \A j \in Messages \ {k} : BackendHas(j)' <=> BackendHas(j)
    BY <1>2, <1>5, <1>8, <2>1, <2>2, <2>3, OneBackend DEF BackendOnce
  <2> QED  BY <1>5, <2>3
<1>10. UpInv' /\ ServerOnce' /\ \A k \in Messages : ServerHas(k)' <=> ServerHas(k)
  BY <1>5, <1>7, UpAside, ServerAside
<1>11. mref'[m] = mref[m] - 1 /\ \A k \in Messages \ {m} : mref'[k] = mref[k]
  BY <1>2, <1>5 DEF TypeInv, DataInv, MessageTypeOK
<1>12. InRelease(b)' <=> mref[m] = 1
  BY <1>6 DEF Moves, InRelease, ReturnPC
<1>13. OwnFrame(b, m)
  BY <1>2, <1>5, <1>7, <1>9, <1>10, <1>11 DEF OwnFrame, Quiet, Sole, KeepsRelease, InRelease
<1>14. Drops(b, m)
  BY <1>2, <1>3, <1>5, <1>9, <1>10, <1>11, <1>12, <1>13 DEF Drops
<1> QED  BY <1>1, <1>2, <1>9, <1>10, <1>14 DEF OwnStep

\* The abort callback takes a message out of the tracker.
LEMMA AbortMessageOwn ==
  ASSUME TypeInv, UpInv, ServerOnce, BackendOnce, NEW b \in Backends, AbortMessage(b)
  PROVE  UpInv' /\ ServerOnce' /\ BackendOnce' /\ SameOwners
<1>1. b \in Actors /\ Backends \subseteq Actors
  BY ActorKinds
<1>2. PICK m \in tracked[b] : /\ tracked' = [tracked EXCEPT ![b] = @ \ {m}]
                              /\ Call(b, "put", m, "abort")
  BY DEF AbortMessage
<1>3. Moves(b, "put", m, "abort")
  BY <1>1, <1>2, CallStep
<1>4. m \in Messages /\ tracked'[b] = tracked[b] \ {m}
      /\ \A c \in Backends \ {b} : tracked'[c] = tracked[c]
  BY <1>2 DEF TypeInv, DataInv, TrackTypeOK
<1>5. PutHand(b)' = {m} /\ PutHand(b) = {} /\ \A c \in Backends \ {b} : PutHand(c)' = PutHand(c)
  BY <1>1, <1>3, PutHandStep DEF PutHand, AbortMessage
<1>6. UNCHANGED <<servq, sclosed, waitq, device, lost, orphans, live, mref, stopping, prog>>
  BY DEF AbortMessage
<1>7. Owns(b)' = Owns(b) /\ m \in Owns(b)
  BY <1>4, <1>5, <1>6 DEF Owns
<1>8. m \notin orphans[b] /\ \A c \in Backends \ {b} : m \notin Owns(c)
  BY <1>7 DEF BackendOnce
<1>9. /\ BackendOnce' /\ (BackendHas(m)' <=> m \in Owns(b)')
      /\ \A k \in Messages \ {m} : BackendHas(k)' <=> BackendHas(k)
  BY <1>4, <1>5, <1>6, <1>7, <1>8, OneBackend DEF BackendOnce
<1>10. BackendHas(m)
  BY <1>7, BackendPlaces
<1>11. Sole(b)
  BY <1>3 DEF Moves, Sole
<1>12. UpInv' /\ ServerOnce' /\ \A k \in Messages : ServerHas(k)' <=> ServerHas(k)
  BY <1>6, <1>11, UpAside, ServerAside
<1>13. \A c \in Actors : KeepsRelease(c)
  BY <1>3, <1>11 DEF KeepsRelease, InRelease, Sole, Moves, AbortMessage
<1>14. SameOwners
  BY <1>6, <1>7, <1>9, <1>10, <1>12, <1>13 DEF SameOwners, Quiet
<1> QED  BY <1>9, <1>12, <1>14

\* At commit the messages stay, tracked for a transaction that is over.
LEMMA CommitOwn ==
  ASSUME TypeInv, UpInv, ServerOnce, BackendOnce, NEW b \in Backends, Commit(b)
  PROVE  UpInv' /\ ServerOnce' /\ BackendOnce' /\ SameOwners
<1>1. b \in Actors /\ Backends \subseteq Actors
  BY ActorKinds
<1>2. Moves(b, "idle", msg[b], ret[b]) /\ pc[b] = "commit"
  BY <1>1, GotoStep DEF Commit, Forget
<1>3. /\ tracked'[b] = {} /\ orphans'[b] = orphans[b] \cup tracked[b]
      /\ \A c \in Backends \ {b} : tracked'[c] = tracked[c] /\ orphans'[c] = orphans[c]
  BY DEF Commit, TypeInv, DataInv, TrackTypeOK
<1>4. PutHand(b)' = {} /\ PutHand(b) = {} /\ \A c \in Backends \ {b} : PutHand(c)' = PutHand(c)
  BY <1>1, <1>2, PutHandStep DEF PutHand
<1>5. UNCHANGED <<servq, sclosed, waitq, device, lost, live, mref, stopping, prog>>
  BY DEF Commit, Forget
<1>6. Owns(b)' = Owns(b) /\ \A c \in Backends \ {b} : Owns(c)' = Owns(c)
  BY <1>3, <1>4 DEF Owns
<1>7. BackendOnce'
  BY <1>3, <1>4, <1>6 DEF BackendOnce
<1>8. \A k \in Messages : BackendHas(k)' <=> BackendHas(k)
  <2>1. \A k \in Messages : BackendHas(k)' <=> \E c \in Backends : k \in Owns(c)'
    BY DEF BackendHas, Owns, PutHand
  <2> QED  BY <1>6, <2>1, BackendPlaces
<1>9. Sole(b)
  BY <1>2 DEF Moves, Sole
<1>10. UpInv' /\ ServerOnce' /\ \A k \in Messages : ServerHas(k)' <=> ServerHas(k)
  BY <1>5, <1>9, UpAside, ServerAside
<1>11. \A c \in Actors : KeepsRelease(c)
  BY <1>2, <1>9 DEF KeepsRelease, InRelease, Sole, Moves
<1>12. SameOwners
  BY <1>5, <1>8, <1>10, <1>11 DEF SameOwners, Quiet
<1> QED  BY <1>7, <1>10, <1>12

\* The chunks at hand belong to the backend alone.
LEMMA AtHandOwned ==
  ASSUME TypeInv, BackendOnce, OwnInv, NEW b \in Backends, ScanOK(b), NEW m \in AtHand(b)
  PROVE  /\ m \in Messages /\ m \in tracked[b] /\ m \in Owns(b)
         /\ ~ServerHas(m) /\ BackendHas(m) /\ live[m] /\ ~Releasing(m) /\ mref[m] = 1
         /\ m \notin Range(qhead[que[b]])
<1>1. m \in tracked[b] /\ m \in Messages /\ m \in Owns(b)
  BY DEF ScanOK, TypeInv, DataInv, TrackTypeOK, Owns
<1>2. ~ServerHas(m) /\ m \notin Range(qhead[que[b]])
  BY <1>1 DEF ScanOK, InFlight
<1>3. BackendHas(m)
  BY <1>1, BackendPlaces
<1>4. live[m] /\ ~Releasing(m)
  BY <1>1, <1>3 DEF OwnInv, UsedLive, ReleaseIsLast
<1>5. mref[m] = 1
  BY <1>1, <1>2, <1>3, <1>4 DEF OwnInv, MessageRefs, B2N
<1> QED  BY <1>1, <1>2, <1>3, <1>4, <1>5

\* gpuscan_exec returns and releases the chunk it has finished.
LEMMA ExecOwn ==
  ASSUME TypeInv, UpInv, ServerOnce, BackendOnce, OwnInv, NEW b \in Backends, ScanOK(b), Exec(b)
  PROVE  UpInv' /\ ServerOnce' /\ BackendOnce' /\ OwnStep
<1>1. b \in Actors /\ Backends \subseteq Actors
  BY ActorKinds
<1>2. CASE cur[b] = NoMessage
  <2>1. Moves(b, "drain", msg[b], ret[b]) /\ pc[b] = "ret"
    BY <1>1, <1>2, GotoStep DEF Exec
  <2>2. Plain(b)
    BY <1>2, <2>1 DEF Exec, Plain, Sole, Moves, OwningPC
  <2> QED  BY <2>2, PlainOwn DEF OwnStep
<1>3. CASE cur[b] # NoMessage
  <2>1. PICK m : m = cur[b]
    OBVIOUS
  <2>2. m \in AtHand(b)
    BY <1>3, <2>1 DEF AtHand
  <2>3. /\ m \in Messages /\ m \in tracked[b] /\ m \in Owns(b)
        /\ ~ServerHas(m) /\ BackendHas(m) /\ live[m] /\ ~Releasing(m) /\ mref[m] = 1
    BY <2>2, AtHandOwned
  <2>4. Moves(b, "putq", m, "drain") /\ pc[b] = "ret"
    BY <1>1, <1>3, <2>1, CallStep DEF Exec
  <2>5. /\ tracked'[b] = tracked[b] \ {m} /\ \A c \in Backends \ {b} : tracked'[c] = tracked[c]
        /\ UNCHANGED <<servq, sclosed, waitq, device, lost, orphans, live, mref, stopping, prog>>
    BY <1>3, <2>1 DEF Exec, TypeInv, DataInv, TrackTypeOK
  <2>6. PutHand(b)' = {} /\ PutHand(b) = {} /\ \A c \in Backends \ {b} : PutHand(c)' = PutHand(c)
    BY <1>1, <2>4, PutHandStep DEF PutHand
  <2>7. m \notin orphans[b] /\ \A c \in Backends \ {b} : m \notin Owns(c)
    BY <2>3 DEF BackendOnce
  <2>8. Owns(b)' \ {m} = Owns(b) \ {m} /\ m \notin Owns(b)'
    BY <2>5, <2>6, <2>7 DEF Owns
  <2>9. /\ BackendOnce' /\ ~BackendHas(m)'
        /\ \A k \in Messages \ {m} : BackendHas(k)' <=> BackendHas(k)
    BY <2>3, <2>5, <2>6, <2>7, <2>8, OneBackend DEF BackendOnce
  <2>10. Sole(b)
    BY <2>4 DEF Moves, Sole
  <2>11. UpInv' /\ ServerOnce' /\ \A k \in Messages : ServerHas(k)' <=> ServerHas(k)
    BY <2>5, <2>10, UpAside, ServerAside
  <2>12. ~InRelease(b) /\ InRelease(b)' /\ msg'[b] = m /\ \A c \in Actors \ {b} : KeepsRelease(c)
    BY <2>4, <2>10 DEF KeepsRelease, InRelease, Sole, Moves
  <2>13. Drops(b, m)
    BY <2>3, <2>5, <2>9, <2>11, <2>12 DEF Drops, OwnFrame, Quiet
  <2> QED  BY <1>1, <2>3, <2>9, <2>11, <2>13 DEF OwnStep
<1> QED  BY <1>2, <1>3

\* What Load does when it fills in the message m
Fills(b, m) ==
  /\ pc[b] = "load" /\ ~live[m]
  /\ live' = [live EXCEPT ![m] = TRUE] /\ mref' = [mref EXCEPT ![m] = 1]
  /\ respq' = [respq EXCEPT ![m] = que[b]] /\ qref' = [qref EXCEPT ![que[b]] = @ + 1]
  /\ \/ tracked' = [tracked EXCEPT ![b] = @ \cup {m}] /\ Moves(b, "send", m, "abort")
     \/ UNCHANGED tracked /\ Moves(b, "put", m, "abort")
  /\ UNCHANGED <<tableVars, closed, qhead, servVars, que, cur, ready, running, qtracked, orphans,
                 buildVars, device, stopping, lost>>

LEMMA LoadFills ==
  ASSUME TypeInv, NEW b \in Backends, Load(b) PROVE \E m \in Messages : Fills(b, m)
<1>1. b \in Actors
  BY ActorKinds
<1>2. PICK m \in Messages :
        /\ ~live[m]
        /\ NewMessage(m, que[b])
        /\ ran' = [ran EXCEPT ![m] = FALSE]
        /\ \/ /\ tracked' = [tracked EXCEPT ![b] = @ \cup {m}]
              /\ Call(b, "send", m, "abort")
           \/ /\ Call(b, "put", m, "abort")
              /\ UNCHANGED tracked
  BY DEF Load
<1>3. \/ tracked' = [tracked EXCEPT ![b] = @ \cup {m}] /\ Moves(b, "send", m, "abort")
      \/ UNCHANGED tracked /\ Moves(b, "put", m, "abort")
  BY <1>1, <1>2, CallStep
<1> QED  BY <1>2, <1>3 DEF Fills, Load, NewMessage, GetQueue

LEMMA LoadOwn ==
  ASSUME TypeInv, UpInv, ServerOnce, BackendOnce, OwnInv, NEW b \in Backends,
         NEW m \in Messages, Fills(b, m)
  PROVE  UpInv' /\ ServerOnce' /\ BackendOnce' /\ Creates(b, m)
<1>1. b \in Actors /\ Backends \subseteq Actors
  BY ActorKinds
<1>2. ~ServerHas(m) /\ ~BackendHas(m)
  BY DEF Fills, OwnInv, UsedLive
<1>3. \A c \in Backends : m \notin Owns(c)
  BY <1>2, BackendPlaces
<1>4. Sole(b) /\ pc'[b] \in {"send", "put"} /\ msg'[b] = m
  BY DEF Fills, Moves, Sole
<1>5. /\ \A c \in Backends \ {b} : tracked'[c] = tracked[c]
      /\ UNCHANGED <<servq, sclosed, waitq, device, lost, orphans, stopping, prog>>
      /\ live'[m] /\ mref'[m] = 1 /\ ~live[m]
      /\ \A k \in Messages \ {m} : live'[k] = live[k] /\ mref'[k] = mref[k]
  BY DEF Fills, TypeInv, DataInv, TrackTypeOK, MessageTypeOK
<1>6. PutHand(b) = {} /\ \A c \in Backends \ {b} : PutHand(c)' = PutHand(c)
  BY <1>1, <1>4 DEF Fills, PutHand, Sole
<1>7. \/ tracked'[b] = tracked[b] \cup {m} /\ PutHand(b)' = {}
      \/ tracked'[b] = tracked[b] /\ PutHand(b)' = {m}
  BY <1>1, PutHandStep DEF Fills, TypeInv, DataInv, TrackTypeOK
<1>8. Owns(b)' = Owns(b) \cup {m}
  BY <1>5, <1>6, <1>7 DEF Owns
<1>9. /\ tracked'[b] \cap orphans'[b] = {}
      /\ PutHand(b)' \cap (tracked'[b] \cup orphans'[b]) = {}
  BY <1>3, <1>5, <1>7 DEF BackendOnce, Owns
<1>10. /\ BackendOnce' /\ BackendHas(m)'
       /\ \A k \in Messages \ {m} : BackendHas(k)' <=> BackendHas(k)
  BY <1>3, <1>5, <1>6, <1>8, <1>9, OneBackend
<1>11. UpInv' /\ ServerOnce' /\ \A k \in Messages : ServerHas(k)' <=> ServerHas(k)
  BY <1>4, <1>5, UpAside, ServerAside
<1>12. ~InRelease(b) /\ ~InRelease(b)' /\ \A c \in Actors \ {b} : KeepsRelease(c)
  BY <1>4 DEF Fills, KeepsRelease, InRelease, Sole
<1>13. Creates(b, m)
  BY <1>2, <1>5, <1>10, <1>11, <1>12 DEF Creates, OwnFrame, Quiet
<1> QED  BY <1>10, <1>11, <1>13

\* What Send does
Sends(b, m) ==
  /\ pc[b] = "send" /\ msg[b] = m /\ Moves(b, pc'[b], m, ret[b]) /\ pc'[b] \in {"try", "load"}
  /\ servq' = Append(servq, m) /\ mref' = [mref EXCEPT ![m] = @ + 1]
  /\ running' = [running EXCEPT ![b] = @ + 1]
  /\ UNCHANGED <<tableVars, queueVars, sclosed, live, respq, que, cur, ready, trackVars,
                 buildVars, device, stopping, lost>>

LEMMA SendSends ==
  ASSUME TypeInv, UpInv, NEW b \in Backends, Send(b) PROVE Sends(b, msg[b])
<1>1. b \in Actors
  BY ActorKinds
<1>2. PICK l \in {"try", "load"} : Goto(b, l) /\ UNCHANGED <<msg, ret>> /\ Enqueue(b, msg[b])
        /\ running' = [running EXCEPT ![b] = @ + 1]
  BY DEF Send, UpInv
<1>3. Moves(b, l, msg[b], ret[b])
  BY <1>1, <1>2, GotoStep
<1>4. pc'[b] = l
  BY <1>3 DEF Moves
<1> QED  BY <1>2, <1>3, <1>4 DEF Sends, Send, Enqueue

LEMMA SendOwn ==
  ASSUME TypeInv, UpInv, ServerOnce, BackendOnce, OwnInv, NEW b \in Backends, ScanOK(b),
         NEW m, Sends(b, m)
  PROVE  UpInv' /\ ServerOnce' /\ BackendOnce' /\ Submits(b, m) /\ m \in AtHand(b)
<1>1. b \in Actors /\ Backends \subseteq Actors
  BY ActorKinds
<1>2. m \in AtHand(b) /\ m \in Messages
  BY <1>1, MessagesAssumption
  DEF Sends, AtHand, TypeInv, ControlInv, HeldFilled, HoldPC, Filled
<1>3. ~ServerHas(m) /\ BackendHas(m)
  BY <1>2, AtHandOwned
<1>4. Sole(b) /\ pc'[b] \in {"try", "load"} /\ pc[b] = "send"
  BY DEF Sends, Moves, Sole
<1>5. \A s \in Servers : Hand(s)' = Hand(s)
  BY <1>4, ActorKinds DEF Sole, Hand
<1>6. Range(servq') = Range(servq) \cup {m} /\ Once(servq')
  <2>1. servq \in Seq(Messages) /\ m \notin Range(servq) /\ Once(servq)
    BY <1>3, ServerPlaces DEF TypeInv, DataInv, QueueTypeOK, ServerOnce
  <2> QED  BY <1>2, <2>1, RangeAppend DEF Sends
<1>7. ServerOnce'
  <2>1. /\ m \notin Range(waitq) /\ m \notin device /\ \A s \in Servers : m \notin Hand(s)
    BY <1>3, ServerPlaces
  <2>2. UNCHANGED <<waitq, device>>
    BY DEF Sends
  <2> QED  BY <1>5, <1>6, <2>1, <2>2 DEF ServerOnce, Once
<1>8. \A k \in Messages : ServerHas(k)' <=> ServerHas(k) \/ k = m
  <2>1. \A k \in Messages : ServerHas(k)' <=>
        \/ k \in Range(servq') \cup Range(waitq) \cup device \cup lost
        \/ \E c \in Servers : k \in Hand(c)'
    BY DEF ServerHas, Hand, ServePC, Sends
  <2> QED  BY <1>5, <1>6, <2>1, ServerPlaces
<1>9. \A c \in Backends : PutHand(c)' = PutHand(c)
  BY <1>1, <1>4 DEF Sole, PutHand
<1>10. BackendOnce' /\ \A k \in Messages : BackendHas(k)' <=> BackendHas(k)
  BY <1>9, BackendsKept DEF Sends
<1>11. UpInv'
  BY <1>4, UpAside DEF Sends
<1>12. mref'[m] = mref[m] + 1 /\ \A k \in Messages \ {m} : mref'[k] = mref[k]
  BY <1>2 DEF Sends, TypeInv, DataInv, MessageTypeOK
<1>13. ~InRelease(b) /\ ~InRelease(b)' /\ \A c \in Actors \ {b} : KeepsRelease(c)
  BY <1>4 DEF KeepsRelease, InRelease, Sole
<1>14. Submits(b, m)
  BY <1>2, <1>3, <1>8, <1>10, <1>12, <1>13 DEF Submits, OwnFrame, Quiet, Sends
<1> QED  BY <1>2, <1>7, <1>10, <1>11, <1>14

(***************************************************************************)
(* Where a backend goes.                                                   *)
(***************************************************************************)
ScanPC == {"ret", "drain", "load", "send", "try", "wait", "pick", "done"}

\* b goes from one of the places P to one of the places L.
Goes(b, P, L) == pc[b] \in P /\ pc'[b] \in L

BackendMove(b) ==
  \/ \* the place changes, the return address and the tracker do not
     /\ UNCHANGED qtracked /\ ret'[b] = ret[b]
     /\ \/ Goes(b, {"idle"}, {"idle", "trackq"})
        \/ Goes(b, ScanPC, ScanPC \cup {"abort"})
        \/ Goes(b, {"commit"}, {"idle"})
        \/ Goes(b, {"abort"}, {"idle"}) /\ ~qtracked[b]
        \/ Goes(b, {"closeq"}, {"freeq", ret[b]}) \/ Goes(b, {"freeq"}, {ret[b]})
        \/ Goes(b, {"put"}, {"putq", "ub", ret[b]})
        \/ Goes(b, {"putq"}, {"linkq", "freem"}) \/ Goes(b, {"linkq"}, {"freem"})
        \/ Goes(b, {"freem"}, {ret[b]})
  \/ \* a call
     /\ UNCHANGED qtracked
     /\ \/ ret'[b] = "abort" /\ Goes(b, {"trackq"}, {"closeq"})
        \/ ret'[b] = "abort" /\ Goes(b, {"load"}, {"send", "put"})
        \/ ret'[b] = "abort" /\ Goes(b, {"abort"}, {"put"})
        \/ ret'[b] = "drain" /\ Goes(b, {"ret"}, {"putq"})
  \/ \* the queue is tracked,
     /\ qtracked' = [qtracked EXCEPT ![b] = TRUE]
     /\ ret'[b] = ret[b] /\ Goes(b, {"trackq"}, {"ret"})
  \/ \* or closed
     /\ qtracked' = [qtracked EXCEPT ![b] = FALSE]
     /\ \/ ret'[b] = "commit" /\ Goes(b, {"ret", "done"}, {"closeq"})
        \/ ret'[b] = "abort" /\ Goes(b, {"abort"}, {"closeq"}) /\ qtracked[b]

LEMMA BackendMoves ==
  ASSUME TypeInv, UpInv, NEW b \in Backends, BackendStep(b) \/ BackendEvent(b)
  PROVE  Sole(b) /\ BackendMove(b)
<1>1. b \in Actors /\ pc \in [Actors -> BackendPC \cup ServerPC \cup CallPC]
      /\ ret \in [Actors -> ReturnPC]
  BY ActorKinds DEF TypeInv, ControlInv, CallTypeOK
<1> USE DEF Goes, ScanPC
<1>2. CASE Begin(b) \/ TrackQueue(b) \/ LoadEnd(b) \/ LoadFails(b) \/ Pick(b) \/ Cancel(b)
  <2>1. Sole(b)
    BY <1>1, <1>2, SoleStep DEF Begin, TrackQueue, LoadEnd, LoadFails, Pick, Cancel
  <2>2. BackendMove(b)
    BY <1>1, <1>2 DEF BackendMove, Begin, TrackQueue, LoadEnd, LoadFails, Pick, Cancel, Goto
  <2> QED  BY <2>1, <2>2
<1>3. CASE TrackQueueFails(b) \/ End(b) \/ AbortQueue(b) \/ AbortMessage(b)
  <2>1. Sole(b)
    BY <1>1, <1>3, SoleStep DEF TrackQueueFails, End, AbortQueue, AbortMessage
  <2>2. BackendMove(b)
    BY <1>1, <1>3 DEF BackendMove, TrackQueueFails, End, MayEnd, AbortQueue, AbortMessage, Call
  <2> QED  BY <2>1, <2>2
<1>4. CASE Drain(b) \/ Try(b) \/ Wait(b) \/ Timeout(b)
  <2>1. Sole(b)
    BY <1>1, <1>4, SoleStep DEF Drain, Try, Wait, Timeout, TakeAnswer, NoAnswer
  <2>2. BackendMove(b)
    BY <1>1, <1>4 DEF BackendMove, Drain, Try, Wait, Timeout, TakeAnswer, NoAnswer, Goto
  <2> QED  BY <2>1, <2>2
<1>5. CASE BeginFails(b)
  BY <1>1, <1>5, SoleStep DEF BeginFails, BackendMove
<1>6. CASE Commit(b) \/ AbortEnd(b)
  <2>1. Sole(b)
    BY <1>1, <1>6, SoleStep DEF Commit, AbortEnd, Forget
  <2>2. BackendMove(b)
    BY <1>1, <1>6 DEF BackendMove, Commit, AbortEnd, Forget, Goto
  <2> QED  BY <2>1, <2>2
<1>7. CASE Exec(b)
  <2>1. Sole(b)
    BY <1>1, <1>7, SoleStep DEF Exec
  <2>2. BackendMove(b)
    BY <1>1, <1>7 DEF BackendMove, Exec, Goto, Call
  <2> QED  BY <2>1, <2>2
<1>8. CASE Load(b)
  <2>1. PICK m \in Messages : Fills(b, m)
    BY <1>8, LoadFills
  <2> QED  BY <1>1, <2>1 DEF Fills, Moves, Sole, BackendMove
<1>9. CASE Send(b)
  BY <1>1, <1>9, SendSends DEF Sends, Moves, Sole, BackendMove
<1>10. CASE BackendCall(b)
  <2>1. Sole(b)
    BY <1>1, <1>10, SoleStep DEF BackendCall, CloseQueue, CloseFree, PutMessage, PutQueue,
       PutQueueLink, FreeMessage, Return
  <2>2. /\ UNCHANGED qtracked /\ ret'[b] = ret[b]
        /\ \/ Goes(b, {"closeq"}, {"freeq", ret[b]}) \/ Goes(b, {"freeq"}, {ret[b]})
           \/ Goes(b, {"put"}, {"putq", "ub", ret[b]})
           \/ Goes(b, {"putq"}, {"linkq", "freem"}) \/ Goes(b, {"linkq"}, {"freem"})
           \/ Goes(b, {"freem"}, {ret[b]})
    <3>1. CASE CloseQueue(b, que[b]) \/ CloseFree(b, que[b])
      BY <1>1, <1>10, <3>1 DEF BackendCall, CloseQueue, CloseFree, Return, Goto
    <3>2. CASE PutMessage(b) \/ PutQueue(b)
      BY <1>1, <1>10, <3>2 DEF BackendCall, PutMessage, PutQueue, Return, Goto
    <3>3. CASE PutQueueLink(b) \/ FreeMessage(b)
      BY <1>1, <1>10, <3>3 DEF BackendCall, PutQueueLink, FreeMessage, Return, Goto
    <3> QED  BY <1>10, <3>1, <3>2, <3>3 DEF BackendCall
  <2> QED  BY <2>1, <2>2 DEF BackendMove
<1> QED  BY <1>2, <1>3, <1>4, <1>5, <1>6, <1>7, <1>8, <1>9, <1>10 DEF BackendStep, BackendEvent

\* b owns its queue from gpuscan_begin to pgstrom_close_queue, and ends its
\* scan before it is idle again.
MoveFits(b) ==
  /\ LocalOK(b)'
  /\ pc[b] \notin {"idle", "closeq"} => (Owner(b)' <=> Owner(b))
  /\ pc[b] = "closeq" => Owner(b) /\ ~Owner(b)'
  /\ pc[b] = "idle" => ~Owner(b) /\ (Owner(b)' <=> pc'[b] = "trackq")
  /\ Active(b)' => Active(b) \/ (pc[b] = "idle" /\ pc'[b] = "trackq")
  /\ pc'[b] = "idle" => pc[b] \in {"idle", "commit", "abort"}

LEMMA MoveLocal ==
  ASSUME TypeInv, LocalInv, NEW b \in Backends, Sole(b), BackendMove(b)
  PROVE  /\ LocalInv' /\ MoveFits(b)
         /\ \A c \in Backends \ {b} : /\ Owner(c)' <=> Owner(c)
                                      /\ Active(c)' <=> Active(c)
<1>1. qtracked \in [Backends -> BOOLEAN] /\ Backends \subseteq Actors
  BY ActorKinds DEF TypeInv, DataInv, TrackTypeOK
<1>2. ASSUME NEW c \in Backends \ {b}
      PROVE  pc'[c] = pc[c] /\ ret'[c] = ret[c] /\ qtracked'[c] = qtracked[c]
  <2>1. pc'[c] = pc[c] /\ ret'[c] = ret[c]
    BY <1>1, <1>2 DEF Sole
  <2>2. qtracked'[c] = qtracked[c]
    BY <1>1, <1>2 DEF BackendMove
  <2> QED  BY <2>1, <2>2
<1>3. \A c \in Backends \ {b} : /\ Owner(c)' <=> Owner(c)
                                /\ Active(c)' <=> Active(c)
                                /\ LocalOK(c)'
  BY <1>2 DEF LocalInv, LocalOK, Owner, Active, InScan, InRelease
<1>4. LocalOK(b)
  BY DEF LocalInv
<1> USE DEF MoveFits, LocalOK, Owner, Active, InScan, InRelease, Goes, ScanPC
<1>5. MoveFits(b)
  <2>1. ASSUME qtracked'[b] = qtracked[b], ret'[b] = ret[b],
               \/ Goes(b, {"idle"}, {"idle", "trackq"})
               \/ Goes(b, ScanPC, ScanPC \cup {"abort"})
               \/ Goes(b, {"commit"}, {"idle"})
               \/ Goes(b, {"abort"}, {"idle"}) /\ ~qtracked[b]
        PROVE  MoveFits(b)
    BY <1>1, <1>4, <2>1
  <2>2. ASSUME qtracked'[b] = qtracked[b], ret'[b] = ret[b],
               \/ Goes(b, {"closeq"}, {"freeq", ret[b]}) \/ Goes(b, {"freeq"}, {ret[b]})
        PROVE  MoveFits(b)
    BY <1>1, <1>4, <2>2
  <2>3. ASSUME qtracked'[b] = qtracked[b], ret'[b] = ret[b],
               \/ Goes(b, {"put"}, {"putq", "ub", ret[b]})
               \/ Goes(b, {"putq"}, {"linkq", "freem"}) \/ Goes(b, {"linkq"}, {"freem"})
               \/ Goes(b, {"freem"}, {ret[b]})
        PROVE  MoveFits(b)
    BY <1>1, <1>4, <2>3
  <2>4. ASSUME qtracked'[b] = qtracked[b],
               \/ ret'[b] = "abort" /\ Goes(b, {"trackq"}, {"closeq"})
               \/ ret'[b] = "abort" /\ Goes(b, {"load"}, {"send", "put"})
               \/ ret'[b] = "abort" /\ Goes(b, {"abort"}, {"put"})
               \/ ret'[b] = "drain" /\ Goes(b, {"ret"}, {"putq"})
        PROVE  MoveFits(b)
    BY <1>1, <1>4, <2>4
  <2>5. ASSUME qtracked'[b], Goes(b, {"trackq"}, {"ret"})
        PROVE  MoveFits(b)
    BY <1>1, <1>4, <2>5
  <2>6. ASSUME ~qtracked'[b],
               \/ ret'[b] = "commit" /\ Goes(b, {"ret", "done"}, {"closeq"})
               \/ ret'[b] = "abort" /\ Goes(b, {"abort"}, {"closeq"}) /\ qtracked[b]
        PROVE  MoveFits(b)
    BY <1>1, <1>4, <2>6
  <2> QED  BY <1>1, <2>1, <2>2, <2>3, <2>4, <2>5, <2>6 DEF BackendMove
<1> QED  BY <1>3, <1>5 DEF LocalInv, MoveFits

(***************************************************************************)
(* The users of the queues.                                                *)
(***************************************************************************)
\* An owner has a queue.
LEMMA OwnerQueue ==
  ASSUME TypeInv, LocalInv, NEW b \in Backends, Owner(b)
  PROVE  que[b] \in Queues /\ pc[b] # "idle"
BY DEF TypeInv, ScanHasQueue, LocalInv, LocalOK, Owner

LEMMA OpenOwner ==
  ASSUME TypeInv, LocalInv, OwnerInv, NEW q \in Queues
  PROVE  IsOpen(q) <=> \E b \in Backends : Owner(b) /\ que[b] = q
BY OwnerQueue DEF IsOpen, OwnerInv

LEMMA OwnersKept ==
  ASSUME TypeInv, LocalInv, OwnerInv, UNCHANGED closed,
         \A c \in Backends : /\ Owner(c)' <=> Owner(c)
                             /\ Owner(c) => que'[c] = que[c]
                             /\ que'[c] \in {que[c], NoQueue}
  PROVE  OwnerInv' /\ \A q \in Queues : IsOpen(q)' <=> IsOpen(q)
<1>1. NoQueue \notin Queues
  BY DEF NoQueue, Queues
<1>2. OwnerInv'
  BY <1>1 DEF OwnerInv
<1>3. ASSUME NEW q \in Queues PROVE IsOpen(q)' <=> IsOpen(q)
  <2>1. IsOpen(q) <=> \E b \in Backends : Owner(b) /\ que[b] = q
    BY OpenOwner
  <2>2. IsOpen(q)' <=> \E b \in Backends : que'[b] = q /\ ~closed[q]
    BY DEF IsOpen
  <2>3. ASSUME IsOpen(q) PROVE IsOpen(q)'
    BY <2>1, <2>2, <2>3 DEF OwnerInv
  <2>4. ASSUME IsOpen(q)' PROVE IsOpen(q)
    BY <1>1, <2>2, <2>4 DEF IsOpen
  <2> QED  BY <2>3, <2>4
<1> QED  BY <1>2, <1>3

LEMMA ReferrersFinite ==
  ASSUME NEW q
  PROVE  IsFiniteSet(Referrers(q)) /\ Cardinality(Referrers(q)) \in Nat
         /\ (Cardinality(Referrers(q)) = 0 <=> Referrers(q) = {})
<1>1. Referrers(q) \subseteq Messages
  BY DEF Referrers
<1>2. IsFiniteSet(Referrers(q))
  BY <1>1, MessagesAssumption, FS_Subset
<1> QED  BY <1>2, FS_CardinalityType, FS_EmptySet

\* Nobody uses a queue with the counter zero.
LEMMA ZeroRefs ==
  ASSUME QueueRefs, NEW q \in Queues, qref[q] = 0
  PROVE  ~IsOpen(q) /\ Referrers(q) = {}
<1>1. 0 = B2N(IsOpen(q)) + Cardinality(Referrers(q)) /\ Cardinality(Referrers(q)) \in Nat
  BY ReferrersFinite DEF QueueRefs
<1>2. ~IsOpen(q) /\ Cardinality(Referrers(q)) = 0
  BY <1>1 DEF B2N
<1> QED  BY <1>2, ReferrersFinite

\* The places in which an actor has given up its reference on a queue
LatePC == {"freeq", "linkq", "freem"}

\* The actor a moves outside of them; counters and the free list stay.
Calm(a) ==
  /\ Sole(a) /\ pc[a] \notin LatePC /\ pc'[a] \notin LatePC
  /\ UNCHANGED <<live, respq, qref, closed, freelist, nalloc>>
  /\ \A c \in Backends \ {a} : que'[c] = que[c]

LEMMA CalmFrames ==
  ASSUME NEW a \in Actors, Calm(a)
  PROVE  /\ \A q \in Queues : Referrers(q)' = Referrers(q)
         /\ \A c \in Actors, q \in Queues : Links(c, q)' <=> Links(c, q)
<1>1. \A c \in Actors : /\ pc'[c] \in {"linkq", "freem"} <=> pc[c] \in {"linkq", "freem"}
                        /\ pc[c] \in {"linkq", "freem"} => msg'[c] = msg[c]
  BY DEF Calm, Sole, LatePC
<1>2. \A q \in Queues : Referrers(q)' = Referrers(q)
  BY <1>1 DEF Calm, Referrers
<1>3. ASSUME NEW c \in Actors, NEW q \in Queues PROVE Links(c, q)' <=> Links(c, q)
  <2>1. CASE c = a
    BY <2>1 DEF Calm, Links, LatePC
  <2>2. CASE c # a
    BY <2>2 DEF Calm, Sole, Links
  <2> QED  BY <2>1, <2>2
<1> QED  BY <1>2, <1>3

LEMMA QueuesKept ==
  ASSUME QueueRefs, TransitInv, TableInv, UNCHANGED <<qref, freelist, nalloc>>,
         \A q \in Queues : Referrers(q)' = Referrers(q) /\ (IsOpen(q)' <=> IsOpen(q)),
         \A c \in Actors, q \in Queues : Links(c, q)' <=> Links(c, q)
  PROVE  QueueRefs' /\ TransitInv' /\ TableInv'
<1>1. QueueRefs'
  BY DEF QueueRefs, B2N
<1>2. TransitInv'
  BY DEF TransitInv
<1>3. TableInv'
  BY DEF TableInv
<1> QED  BY <1>1, <1>2, <1>3

LEMMA HeldKept ==
  ASSUME HeldOpen, UNCHANGED <<respq, closed>>,
         \A c \in Backends : /\ Owns(c)' \subseteq Owns(c)
                             /\ Owner(c)' <=> Owner(c)
                             /\ Owner(c) => que'[c] = que[c]
                             /\ \A m \in orphans'[c] : m \in orphans[c] \/ ~Owner(c)
  PROVE  HeldOpen'
BY DEF HeldOpen

\* A step of the server that touches no queue
LEMMA CalmServer ==
  ASSUME TypeInv, LocalInv, OwnerInv, QueueInv, NEW a \in Servers, Calm(a),
         UNCHANGED <<que, qtracked, tracked, orphans>>
  PROVE  LocalInv' /\ OwnerInv' /\ QueueInv'
<1>1. a \in Actors /\ Backends \subseteq Actors /\ a \notin Backends
  BY ActorKinds
<1>2. \A b \in Backends : pc'[b] = pc[b] /\ msg'[b] = msg[b] /\ ret'[b] = ret[b]
  BY <1>1 DEF Calm, Sole
<1>3. \A b \in Backends : (Owner(b)' <=> Owner(b)) /\ LocalOK(b)' /\ Owns(b)' = Owns(b)
  BY <1>2 DEF Owner, LocalInv, LocalOK, Active, InScan, InRelease, Owns, PutHand
<1>4. OwnerInv' /\ \A q \in Queues : IsOpen(q)' <=> IsOpen(q)
  BY <1>3, OwnersKept DEF Calm
<1>5. QueueRefs' /\ TransitInv' /\ TableInv'
  BY <1>1, <1>4, CalmFrames, QueuesKept DEF QueueInv, Calm
<1>6. HeldOpen'
  BY <1>3, HeldKept DEF QueueInv, Calm
<1> QED  BY <1>3, <1>4, <1>5, <1>6 DEF LocalInv, QueueInv

\* A step of a backend that touches no queue
LEMMA CalmBackend ==
  ASSUME TypeInv, LocalInv, OwnerInv, QueueInv, NEW b \in Backends, Calm(b), BackendMove(b),
         pc[b] # "closeq", pc'[b] # "trackq",
         que'[b] = que[b] \/ (que'[b] = NoQueue /\ ~Owner(b)),
         \A c \in Backends \ {b} : tracked'[c] = tracked[c] /\ orphans'[c] = orphans[c],
         Owns(b)' \subseteq Owns(b),
         \A m \in orphans'[b] : m \in orphans[b] \/ ~Owner(b)
  PROVE  LocalInv' /\ OwnerInv' /\ QueueInv'
<1>1. b \in Actors /\ Backends \subseteq Actors
  BY ActorKinds
<1>2. LocalInv' /\ \A c \in Backends : Owner(c)' <=> Owner(c)
  BY MoveLocal DEF Calm, MoveFits
<1>3. \A c \in Backends \ {b} : Owns(c)' = Owns(c) /\ que'[c] = que[c]
  BY <1>1 DEF Calm, Sole, Owns, PutHand
<1>4. OwnerInv' /\ \A q \in Queues : IsOpen(q)' <=> IsOpen(q)
  BY <1>2, <1>3, OwnersKept DEF Calm
<1>5. QueueRefs' /\ TransitInv' /\ TableInv'
  BY <1>1, <1>4, CalmFrames, QueuesKept DEF QueueInv, Calm
<1>6. HeldOpen'
  BY <1>2, <1>3, HeldKept DEF QueueInv, Calm
<1> QED  BY <1>2, <1>4, <1>5, <1>6 DEF QueueInv

\* The steps of gpuscan.c and restrack.c that touch no queue
LEMMA BackendCalm ==
  ASSUME TypeInv, TypeInv', UpInv, LocalInv, OwnerInv, QueueInv, NEW b \in Backends,
         \/ BeginFails(b) \/ TrackQueue(b) \/ TrackQueueFails(b)
         \/ Drain(b) \/ Try(b) \/ Wait(b) \/ Timeout(b) \/ LoadEnd(b) \/ LoadFails(b)
         \/ Pick(b) \/ Cancel(b) \/ End(b) \/ AbortQueue(b) \/ AbortEnd(b)
  PROVE  LocalInv' /\ OwnerInv' /\ QueueInv'
<1>1. Plain(b)
  BY PlainSteps
<1>2. BackendMove(b)
  BY BackendMoves DEF BackendStep, BackendEvent
<1>3. Owns(b)' = Owns(b) /\ UNCHANGED <<tracked, orphans, live, respq>> /\ Sole(b)
  BY <1>1 DEF Plain, Owns, PutHand, OwningPC
<1>4. CASE AbortEnd(b)
  <2>1. /\ pc[b] = "abort" /\ ~qtracked[b] /\ pc'[b] = "idle" /\ que'[b] = NoQueue
        /\ UNCHANGED <<qref, closed, freelist, nalloc>>
        /\ \A c \in Backends \ {b} : que'[c] = que[c]
    BY <1>4, ActorKinds
    DEF AbortEnd, Forget, Goto, TypeInv, DataInv, ScanTypeOK, ControlInv, CallTypeOK
  <2>2. Calm(b) /\ ~Owner(b)
    BY <1>3, <2>1 DEF Calm, LatePC, Owner
  <2> QED  BY <1>2, <1>3, <2>1, <2>2, CalmBackend
<1>5. CASE ~AbortEnd(b)
  <2>1. /\ UNCHANGED <<qref, closed, freelist, nalloc, que>>
        /\ pc[b] \in BackendPC
    BY <1>5 DEF BeginFails, TrackQueue, TrackQueueFails, Drain, Try, Wait, Timeout, LoadEnd,
       LoadFails, Pick, Cancel, End, MayEnd, AbortQueue, TakeAnswer, NoAnswer, Dequeue, BackendPC
  <2>2. pc'[b] \in {"idle", "ret", "drain", "load", "wait", "pick", "done", "abort", "closeq"}
    BY <1>5, ActorKinds DEF BeginFails, TrackQueue, TrackQueueFails, Drain, Try, Wait, Timeout,
       LoadEnd, LoadFails, Pick, Cancel, End, AbortQueue, Goto, Call, TypeInv, ControlInv,
       CallTypeOK
  <2>3. Calm(b) /\ pc[b] # "closeq" /\ pc'[b] # "trackq"
    BY <1>3, <2>1, <2>2 DEF Calm, LatePC, BackendPC
  <2> QED  BY <1>2, <1>3, <2>1, <2>3, CalmBackend
<1> QED  BY <1>4, <1>5

\* Those that change what the backend owns
LEMMA OwningCalm ==
  ASSUME TypeInv, UpInv, LocalInv, OwnerInv, QueueInv, NEW b \in Backends,
         \/ Exec(b) \/ Send(b) \/ AbortMessage(b) \/ Commit(b)
         \/ PutMessage(b) /\ UNCHANGED <<scanVars, trackVars, clservVars>>
  PROVE  LocalInv' /\ OwnerInv' /\ QueueInv'
<1>1. b \in Actors
  BY ActorKinds
<1>2. Sole(b) /\ BackendMove(b)
  BY BackendMoves DEF BackendStep, BackendEvent, BackendCall
<1>3. UNCHANGED <<live, respq, qref, closed, freelist, nalloc>>
  BY DEF Exec, Send, Enqueue, AbortMessage, Commit, Forget, PutMessage
<1>4. CASE Commit(b)
  <2>1. /\ pc[b] = "commit" /\ pc'[b] = "idle" /\ que'[b] = NoQueue
        /\ \A c \in Backends \ {b} :
             que'[c] = que[c] /\ tracked'[c] = tracked[c] /\ orphans'[c] = orphans[c]
        /\ tracked'[b] = {} /\ orphans'[b] = orphans[b] \cup tracked[b]
    BY <1>1, <1>4
    DEF Commit, Forget, Goto, TypeInv, DataInv, ScanTypeOK, TrackTypeOK, ControlInv, CallTypeOK
  <2>2. Calm(b) /\ ~Owner(b)
    BY <1>2, <1>3, <2>1 DEF Calm, LatePC, Owner, LocalInv, LocalOK
  <2>3. Owns(b)' \subseteq Owns(b)
    BY <2>1 DEF Owns, PutHand
  <2> QED  BY <1>2, <2>1, <2>2, <2>3, CalmBackend
<1>5. CASE AbortMessage(b)
  <2>1. PICK m \in tracked[b] : /\ tracked' = [tracked EXCEPT ![b] = @ \ {m}]
                                /\ Call(b, "put", m, "abort")
    BY <1>5 DEF AbortMessage
  <2>2. /\ pc[b] = "abort" /\ pc'[b] = "put" /\ msg'[b] = m /\ UNCHANGED <<que, orphans>>
        /\ tracked'[b] = tracked[b] \ {m}
        /\ \A c \in Backends \ {b} : tracked'[c] = tracked[c]
    BY <1>1, <1>5, <2>1 DEF AbortMessage, Call, TypeInv, DataInv, TrackTypeOK, ControlInv, CallTypeOK
  <2>3. Calm(b) /\ Owns(b)' \subseteq Owns(b)
    BY <1>2, <1>3, <2>2 DEF Calm, LatePC, Owns, PutHand
  <2> QED  BY <1>2, <2>2, <2>3, CalmBackend
<1>6. CASE Exec(b)
  <2>1. /\ pc[b] = "ret" /\ pc'[b] \in {"drain", "putq"} /\ UNCHANGED <<que, orphans>>
        /\ tracked'[b] \subseteq tracked[b]
        /\ \A c \in Backends \ {b} : tracked'[c] = tracked[c]
    BY <1>1, <1>6 DEF Exec, Call, Goto, TypeInv, DataInv, TrackTypeOK, ControlInv, CallTypeOK
  <2>2. Calm(b) /\ Owns(b)' \subseteq Owns(b)
    BY <1>2, <1>3, <2>1 DEF Calm, LatePC, Owns, PutHand
  <2> QED  BY <1>2, <2>1, <2>2, CalmBackend
<1>7. CASE Send(b)
  <2>1. Sends(b, msg[b])
    BY <1>7, SendSends
  <2>2. Calm(b) /\ Owns(b)' \subseteq Owns(b)
    BY <1>2, <1>3, <2>1 DEF Sends, Calm, LatePC, Owns, PutHand
  <2> QED  BY <1>2, <2>1, <2>2, CalmBackend DEF Sends
<1>8. CASE PutMessage(b) /\ UNCHANGED <<scanVars, trackVars, clservVars>>
  <2>1. pc[b] = "put" /\ pc'[b] \in {"ub", "putq"} \cup ReturnPC /\ msg'[b] = msg[b]
    BY <1>1, <1>8 DEF PutMessage, Return, Goto, TypeInv, ControlInv, CallTypeOK
  <2>2. Calm(b) /\ Owns(b)' \subseteq Owns(b) /\ pc'[b] # "trackq"
    BY <1>2, <1>3, <1>8, <2>1 DEF Calm, LatePC, ReturnPC, Owns, PutHand
  <2> QED  BY <1>2, <1>8, <2>1, <2>2, CalmBackend
<1> QED  BY <1>4, <1>5, <1>6, <1>7, <1>8

\* Replies and puts of the server
LEMMA ServerPutCalm ==
  ASSUME TypeInv, LocalInv, OwnerInv, QueueInv, NEW a \in Servers, Reply(a) \/ PutMessage(a),
         UNCHANGED <<scanVars, trackVars, clservVars>>
  PROVE  LocalInv' /\ OwnerInv' /\ QueueInv'
<1>1. a \in Actors
  BY ActorKinds
<1>2. Sole(a) /\ UNCHANGED <<live, respq, qref, closed, freelist, nalloc>>
  BY <1>1, SoleStep DEF Reply, PutMessage, Return
<1>3. pc[a] \in {"put", "reply"} /\ pc'[a] \in {"ub", "put", "putq"} \cup ReturnPC
  BY <1>1 DEF Reply, PutMessage, Return, Goto, TypeInv, ControlInv, CallTypeOK
<1>4. Calm(a)
  BY <1>2, <1>3 DEF Calm, LatePC, ReturnPC
<1> QED  BY <1>4, CalmServer

\* and its other steps
LEMMA InsideCalm ==
  ASSUME TypeInv, LocalInv, OwnerInv, QueueInv, NEW a \in Servers, Inside(a)
  PROVE  LocalInv' /\ OwnerInv' /\ QueueInv'
<1>1. Calm(a)
  BY DEF Inside, Calm, Sole, LatePC, InRelease
<1> QED  BY <1>1, CalmServer DEF Inside

(***************************************************************************)
(* The steps that change the users of a queue.                             *)
(***************************************************************************)
\* Only the queue q gets or loses a user.
LEMMA OneQueue ==
  ASSUME QueueRefs, TransitInv, NEW q \in Queues, nalloc' >= nalloc, nalloc \in Int, nalloc' \in Int,
         \A p \in Queues \ {q} : /\ qref'[p] = qref[p] /\ Referrers(p)' = Referrers(p)
                                 /\ IsOpen(p)' <=> IsOpen(p)
                                 /\ p \in Range(freelist') => p \in Range(freelist) \/ p > nalloc
                                 /\ \A c \in Actors : Links(c, p)' <=> Links(c, p),
         qref'[q] = B2N(IsOpen(q)') + Cardinality(Referrers(q)'),
         \A c \in Actors : Links(c, q)' =>
           /\ qref'[q] = 0 /\ q <= nalloc' /\ q \notin Range(freelist')
           /\ \A d \in Actors : Links(d, q)' => d = c
  PROVE  QueueRefs' /\ TransitInv'
<1>1. QueueRefs'
  BY DEF QueueRefs, B2N
<1>2. ASSUME NEW p \in Queues, NEW c \in Actors, Links(c, p)'
      PROVE  /\ qref'[p] = 0 /\ p <= nalloc' /\ p \notin Range(freelist')
             /\ \A d \in Actors : Links(d, p)' => d = c
  <2>1. CASE p = q
    BY <1>2, <2>1
  <2>2. CASE p # q
    <3>1. Links(c, p) /\ p \in Int
      BY <1>2, <2>2 DEF Queues
    <3>2. qref[p] = 0 /\ p <= nalloc /\ p \notin Range(freelist)
          /\ \A d \in Actors : Links(d, p) => d = c
      BY <3>1 DEF TransitInv
    <3> QED  BY <2>2, <3>1, <3>2
  <2> QED  BY <2>1, <2>2
<1>3. TransitInv'
  BY <1>2 DEF TransitInv
<1> QED  BY <1>1, <1>3

\* A queue with a user is in no list and on the way to none.
LEMMA UsedQueue ==
  ASSUME TypeInv, TransitInv, TableInv, NEW q \in Queues, qref[q] # 0
  PROVE  q <= nalloc /\ q \notin Range(freelist) /\ \A c \in Actors : ~Links(c, q)
<1>1. q \in Int /\ nalloc \in Int
  BY DEF Queues, TypeInv, DataInv, TableTypeOK
<1> QED  BY <1>1 DEF TransitInv, TableInv

\* pgstrom_close_queue drops the reference of the creator.
LEMMA CloseQueueRefs ==
  ASSUME TypeInv, UpInv, LocalInv, OwnerInv, QueueInv, NEW b \in Backends,
         CloseQueue(b, que[b]), UNCHANGED <<scanVars, trackVars, clservVars>>
  PROVE  LocalInv' /\ OwnerInv' /\ QueueInv'
<1>1. b \in Actors /\ Backends \subseteq Actors
  BY ActorKinds
<1>2. Sole(b) /\ BackendMove(b)
  BY BackendMoves DEF BackendStep, BackendCall
<1>3. /\ LocalInv' /\ pc[b] = "closeq" /\ Owner(b) /\ ~Owner(b)'
      /\ \A c \in Backends \ {b} : Owner(c)' <=> Owner(c)
  BY <1>2, MoveLocal DEF CloseQueue, MoveFits
<1>4. PICK q \in Queues : q = que[b]
  BY <1>3, OwnerQueue
<1>5. /\ closed'[q] /\ qref'[q] = qref[q] - 1
      /\ \A p \in Queues \ {q} : closed'[p] = closed[p] /\ qref'[p] = qref[p]
      /\ UNCHANGED <<que, freelist, nalloc, live, respq, msg, tracked, orphans>>
      /\ qref[q] \in Int /\ nalloc \in Int
  <2>1. /\ closed' = [closed EXCEPT ![q] = TRUE] /\ qref' = [qref EXCEPT ![q] = @ - 1]
        /\ UNCHANGED <<que, freelist, nalloc, live, respq, msg, tracked, orphans>>
    BY <1>4 DEF CloseQueue
  <2>2. /\ closed \in [Queues -> BOOLEAN] /\ qref \in [Queues -> Int] /\ nalloc \in Int
    BY DEF TypeInv, DataInv, QueueTypeOK, TableTypeOK
  <2>3. closed'[q]
    BY <2>1, <2>2, Zenon
  <2> QED  BY <2>1, <2>2, <2>3
<1>6. pc'[b] \in {"freeq", "commit", "abort"} /\ (pc'[b] = "freeq" <=> qref[q] = 1)
  BY <1>1, <1>3, <1>4 DEF CloseQueue, Return, Goto, LocalInv, LocalOK, TypeInv, ControlInv, CallTypeOK
<1>7. IsOpen(q) /\ ~IsOpen(q)' /\ \A p \in Queues \ {q} : IsOpen(p)' <=> IsOpen(p)
  <2>1. IsOpen(q)
    BY <1>3, <1>4, OpenOwner
  <2> QED  BY <1>5, <2>1 DEF IsOpen
<1>8. qref[q] = 1 + Cardinality(Referrers(q)) /\ Cardinality(Referrers(q)) \in Nat
  BY <1>7, ReferrersFinite DEF QueueInv, QueueRefs, B2N
<1>9. \A p \in Queues : Referrers(p)' = Referrers(p)
  <2>1. \A c \in Actors : pc'[c] \in {"linkq", "freem"} <=> pc[c] \in {"linkq", "freem"}
    BY <1>2, <1>3, <1>6 DEF Sole
  <2> QED  BY <1>5, <2>1 DEF Referrers
<1>10. /\ \A c \in Actors, p \in Queues \ {q} : Links(c, p)' <=> Links(c, p)
       /\ \A c \in Actors \ {b} : Links(c, q)' <=> Links(c, q)
       /\ Links(b, q)' => qref[q] = 1
  BY <1>2, <1>3, <1>4, <1>5, <1>6 DEF Links, Sole
<1>11. q <= nalloc /\ q \notin Range(freelist) /\ \A c \in Actors : ~Links(c, q)
  BY <1>8, UsedQueue DEF QueueInv
<1>12. QueueRefs' /\ TransitInv'
  <2>1. qref'[q] = B2N(IsOpen(q)') + Cardinality(Referrers(q)')
    BY <1>5, <1>7, <1>8, <1>9 DEF B2N
  <2>2. \A c \in Actors : Links(c, q)' => c = b /\ qref'[q] = 0
    BY <1>5, <1>10, <1>11
  <2>3. nalloc' >= nalloc /\ nalloc' \in Int /\ freelist' = freelist
    BY <1>5
  <2> QED  BY <1>5, <1>7, <1>9, <1>10, <1>11, <2>1, <2>2, <2>3, OneQueue DEF QueueInv
<1>13. TableInv'
  <2>1. \A p \in Queues : qref'[p] = qref[p] \/ p = q
    BY <1>5
  <2>2. ~(q > nalloc)
    BY <1>5, <1>11 DEF Queues
  <2>3. \A p \in Range(freelist) : p \in Queues
    BY RangeOf DEF TypeInv, DataInv, TableTypeOK
  <2> QED  BY <1>5, <1>11, <2>1, <2>2, <2>3 DEF QueueInv, TableInv
<1>14. OwnerInv'
  <2>1. \A c \in Backends : Owner(c)' => c # b /\ Owner(c) /\ que[c] \in Queues \ {q}
    BY <1>3, <1>4, OwnerQueue DEF OwnerInv
  <2>2. \A c \in Backends : que[c] \in Queues /\ ~closed'[que[c]] =>
          \E d \in Backends : Owner(d)' /\ que[d] = que[c]
    BY <1>3, <1>4, <1>5 DEF OwnerInv
  <2> QED  BY <1>5, <2>1, <2>2 DEF OwnerInv
<1>15. HeldOpen'
  <2>1. \A c \in Backends : Owns(c)' = Owns(c)
    BY <1>1, <1>2, <1>3, <1>5, <1>6 DEF Owns, PutHand, Sole
  <2> QED  BY <1>3, <1>4, <1>5, <2>1 DEF QueueInv, HeldOpen
<1> QED  BY <1>3, <1>12, <1>13, <1>14, <1>15 DEF QueueInv

\* A step that changes neither owners nor what the backends hold
LEMMA HoldersKept ==
  ASSUME TypeInv, LocalInv, OwnerInv, HeldOpen, NEW a \in Actors, Sole(a),
         a \in Backends => BackendMove(a) /\ pc[a] \notin {"idle", "closeq"},
         pc[a] \notin {"put", "ub"}, pc'[a] \notin {"put", "ub"},
         UNCHANGED <<que, closed, qtracked, tracked, orphans, respq>>
  PROVE  /\ LocalInv' /\ OwnerInv' /\ HeldOpen'
         /\ \A q \in Queues : IsOpen(q)' <=> IsOpen(q)
<1>1. Backends \subseteq Actors
  BY ActorKinds
<1>2. LocalInv' /\ \A c \in Backends : Owner(c)' <=> Owner(c)
  <2>1. CASE a \in Backends
    BY <2>1, MoveLocal DEF MoveFits
  <2>2. CASE a \notin Backends
    <3>1. \A c \in Backends : pc'[c] = pc[c] /\ ret'[c] = ret[c]
      BY <1>1, <2>2 DEF Sole
    <3> QED  BY <3>1 DEF LocalInv, LocalOK, Owner, Active, InScan, InRelease
  <2> QED  BY <2>1, <2>2
<1>3. \A c \in Backends : Owns(c)' = Owns(c)
  BY <1>1 DEF Owns, PutHand, Sole
<1>4. OwnerInv' /\ \A q \in Queues : IsOpen(q)' <=> IsOpen(q)
  BY <1>2, OwnersKept
<1>5. HeldOpen'
  BY <1>2, <1>3, HeldKept
<1> QED  BY <1>2, <1>4, <1>5

\* The calls of cb_release leave owners and holders alone.
LEMMA ReleaseHolders ==
  ASSUME TypeInv, UpInv, LocalInv, OwnerInv, HeldOpen, NEW a \in Actors,
         PutQueue(a) \/ PutQueueLink(a) \/ FreeMessage(a),
         UNCHANGED <<scanVars, trackVars, clservVars>>
  PROVE  /\ LocalInv' /\ OwnerInv' /\ HeldOpen' /\ Sole(a)
         /\ \A q \in Queues : IsOpen(q)' <=> IsOpen(q)
<1>1. Sole(a) /\ UNCHANGED <<que, closed, qtracked, tracked, orphans, respq>>
  BY SoleStep DEF PutQueue, PutQueueLink, FreeMessage, Return
<1>2. pc[a] \in {"putq", "linkq", "freem"} /\ pc'[a] \in {"linkq", "freem"} \cup ReturnPC
  BY DEF PutQueue, PutQueueLink, FreeMessage, Return, Goto, TypeInv, ControlInv, CallTypeOK
<1>3. a \in Backends => BackendMove(a)
  BY BackendMoves DEF BackendStep, BackendCall
<1> QED  BY <1>1, <1>2, <1>3, HoldersKept DEF ReturnPC

\* pgstrom_put_queue
LEMMA PutQueueRefs ==
  ASSUME TypeInv, UpInv, OwnInv, LocalInv, OwnerInv, QueueInv, NEW a \in Actors,
         PutQueue(a), UNCHANGED <<scanVars, trackVars, clservVars>>
  PROVE  LocalInv' /\ OwnerInv' /\ QueueInv'
<1>1. /\ LocalInv' /\ OwnerInv' /\ HeldOpen' /\ Sole(a)
      /\ \A p \in Queues : IsOpen(p)' <=> IsOpen(p)
  BY ReleaseHolders DEF QueueInv
<1>2. pc[a] = "putq" /\ msg[a] \in Messages /\ respq[msg[a]] \in Queues
  BY DEF PutQueue, TypeInv, ControlInv, HeldFilled, HoldPC, Filled
<1>3. PICK m \in Messages, q \in Queues : m = msg[a] /\ q = respq[m]
  BY <1>2
<1>4. /\ qref'[q] = qref[q] - 1 /\ \A p \in Queues \ {q} : qref'[p] = qref[p]
      /\ UNCHANGED <<que, freelist, nalloc, live, respq, msg>>
      /\ qref[q] \in Int /\ nalloc \in Int
  BY <1>3 DEF PutQueue, TypeInv, DataInv, QueueTypeOK, TableTypeOK
<1>5. pc'[a] \in {"linkq", "freem"} /\ (pc'[a] = "linkq" => qref[q] = 1)
  BY <1>3 DEF PutQueue, Goto, TypeInv, ControlInv, CallTypeOK
<1>6. live[m] /\ \A c \in Actors : pc[c] \in {"linkq", "freem"} => msg[c] # m
  BY <1>2, <1>3 DEF OwnInv, ReleaseIsLast, Releasing, InRelease
<1>7. m \in Referrers(q) /\ Referrers(q)' = Referrers(q) \ {m}
      /\ \A p \in Queues \ {q} : Referrers(p)' = Referrers(p)
  <2>1. \A c \in Actors \ {a} : pc'[c] = pc[c]
    BY <1>1 DEF Sole
  <2>2. \A k \in Messages :
          (\E c \in Actors : pc'[c] \in {"linkq", "freem"} /\ msg[c] = k) <=>
          (k = m \/ \E c \in Actors : pc[c] \in {"linkq", "freem"} /\ msg[c] = k)
    BY <1>2, <1>3, <1>5, <2>1
  <2>3. \A k \in Messages, p \in Queues :
          k \in Referrers(p)' <=> k \in Referrers(p) /\ k # m
    BY <1>4, <2>2 DEF Referrers
  <2>4. m \in Referrers(q) /\ \A p \in Queues \ {q} : m \notin Referrers(p)
    BY <1>3, <1>6 DEF Referrers
  <2>5. \A p \in Queues : Referrers(p) \subseteq Messages /\ Referrers(p)' \subseteq Messages
    BY DEF Referrers
  <2> QED  BY <2>3, <2>4, <2>5
<1>8. /\ Cardinality(Referrers(q)') = Cardinality(Referrers(q)) - 1
      /\ Cardinality(Referrers(q)) \in Nat /\ Cardinality(Referrers(q)) # 0
  <2>1. IsFiniteSet(Referrers(q)) /\ Cardinality(Referrers(q)) \in Nat
        /\ (Cardinality(Referrers(q)) = 0 <=> Referrers(q) = {})
    BY ReferrersFinite
  <2>2. ASSUME NEW R, R = Referrers(q) PROVE Cardinality(R \ {m}) = Cardinality(R) - 1
    BY <1>7, <2>1, <2>2, FS_RemoveElement
  <2> QED  BY <1>7, <2>1, <2>2
<1>9. qref[q] = B2N(IsOpen(q)) + Cardinality(Referrers(q)) /\ qref[q] # 0
  BY <1>8 DEF QueueInv, QueueRefs, B2N
<1>10. q <= nalloc /\ q \notin Range(freelist) /\ \A c \in Actors : ~Links(c, q)
  BY <1>9, UsedQueue DEF QueueInv
<1>11. /\ \A c \in Actors, p \in Queues \ {q} : Links(c, p)' <=> Links(c, p)
       /\ \A c \in Actors \ {a} : Links(c, q)' <=> Links(c, q)
       /\ Links(a, q)' => qref[q] = 1
  BY <1>1, <1>2, <1>3, <1>4, <1>5 DEF Links, Sole
<1>12. QueueRefs' /\ TransitInv'
  <2>1. qref'[q] = B2N(IsOpen(q)') + Cardinality(Referrers(q)')
    BY <1>1, <1>4, <1>8, <1>9 DEF B2N
  <2>2. \A c \in Actors : Links(c, q)' => c = a /\ qref'[q] = 0
    BY <1>4, <1>10, <1>11
  <2>3. nalloc' >= nalloc /\ nalloc' \in Int /\ freelist' = freelist
    BY <1>4
  <2> QED  BY <1>1, <1>4, <1>7, <1>10, <1>11, <2>1, <2>2, <2>3, OneQueue DEF QueueInv
<1>13. TableInv'
  <2>1. \A p \in Queues : qref'[p] = qref[p] \/ p = q
    BY <1>4
  <2>2. ~(q > nalloc)
    BY <1>4, <1>10 DEF Queues
  <2>3. \A p \in Range(freelist) : p \in Queues
    BY RangeOf DEF TypeInv, DataInv, TableTypeOK
  <2> QED  BY <1>4, <1>10, <2>1, <2>2, <2>3 DEF QueueInv, TableInv
<1> QED  BY <1>1, <1>12, <1>13 DEF QueueInv

\* A queue that nobody uses any more is linked to the free list.
LEMMA LinkRefs ==
  ASSUME TypeInv, QueueInv, NEW a \in Actors, NEW q \in Queues, Links(a, q), ~Links(a, q)',
         freelist' = Append(freelist, q), UNCHANGED <<qref, nalloc>>,
         \A p \in Queues : Referrers(p)' = Referrers(p) /\ (IsOpen(p)' <=> IsOpen(p)),
         \A p \in Queues \ {q} : Links(a, p)' <=> Links(a, p),
         \A c \in Actors \ {a}, p \in Queues : Links(c, p)' <=> Links(c, p)
  PROVE  QueueRefs' /\ TransitInv' /\ TableInv'
<1>1. qref[q] = 0 /\ q <= nalloc /\ q \notin Range(freelist) /\ \A c \in Actors : ~Links(c, q)'
  BY DEF QueueInv, TransitInv
<1>2. Range(freelist') = Range(freelist) \cup {q} /\ Once(freelist')
  BY <1>1, RangeAppend DEF TypeInv, DataInv, TableTypeOK, QueueInv, TableInv, Once
<1>3. QueueRefs' /\ TransitInv'
  <2>1. nalloc' >= nalloc /\ nalloc \in Int /\ nalloc' \in Int
    BY DEF TypeInv, DataInv, TableTypeOK
  <2>2. qref'[q] = B2N(IsOpen(q)') + Cardinality(Referrers(q)')
    BY DEF QueueInv, QueueRefs, B2N
  <2> QED  BY <1>1, <1>2, <2>1, <2>2, OneQueue DEF QueueInv
<1>4. TableInv'
  BY <1>1, <1>2 DEF QueueInv, TableInv, Once
<1> QED  BY <1>3, <1>4

\* pgstrom_close_queue or cb_release of the last message links it,
LEMMA FreeQueueRefs ==
  ASSUME TypeInv, UpInv, LocalInv, OwnerInv, QueueInv, NEW a \in Actors,
         (a \in Backends /\ CloseFree(a, que[a])) \/ PutQueueLink(a),
         UNCHANGED <<scanVars, trackVars, clservVars>>
  PROVE  LocalInv' /\ OwnerInv' /\ QueueInv'
<1>1. PICK q : /\ q = IF pc[a] = "freeq" THEN que[a] ELSE respq[msg[a]]
               /\ freelist' = Append(freelist, q)
  BY DEF CloseFree, PutQueueLink
<1>2. Sole(a) /\ UNCHANGED <<que, closed, qtracked, tracked, orphans, respq, live, msg, qref, nalloc>>
  BY SoleStep DEF CloseFree, PutQueueLink, Return
<1>3. /\ pc[a] \in {"linkq", "freeq"} /\ (pc[a] = "linkq" <=> pc'[a] = "freem")
      /\ pc[a] = "freeq" => a \in Backends
      /\ pc'[a] \in {"freem"} \cup ReturnPC
  BY DEF CloseFree, PutQueueLink, Return, Goto, ReturnPC, TypeInv, ControlInv, CallTypeOK
<1>4. a \in Backends => BackendMove(a)
  BY BackendMoves DEF BackendStep, BackendCall
<1>5. /\ LocalInv' /\ OwnerInv' /\ HeldOpen'
      /\ \A p \in Queues : IsOpen(p)' <=> IsOpen(p)
  BY <1>2, <1>3, <1>4, HoldersKept DEF ReturnPC, QueueInv
<1>6. q \in Queues
  BY <1>1, <1>3 DEF TypeInv, ScanHasQueue, ControlInv, HeldFilled, HoldPC, Filled
<1>7. Links(a, q) /\ ~Links(a, q)'
  BY <1>1, <1>3 DEF Links, ReturnPC
<1>8. \A p \in Queues : Referrers(p)' = Referrers(p)
  <2>1. \A c \in Actors : pc'[c] \in {"linkq", "freem"} <=> pc[c] \in {"linkq", "freem"}
    BY <1>2, <1>3 DEF Sole, ReturnPC
  <2> QED  BY <1>2, <2>1 DEF Referrers
<1>9. /\ \A p \in Queues \ {q} : Links(a, p)' <=> Links(a, p)
      /\ \A c \in Actors \ {a}, p \in Queues : Links(c, p)' <=> Links(c, p)
  BY <1>1, <1>2, <1>3 DEF Links, Sole, ReturnPC
<1>10. QueueRefs' /\ TransitInv' /\ TableInv'
  BY <1>1, <1>2, <1>5, <1>6, <1>7, <1>8, <1>9, LinkRefs
<1> QED  BY <1>5, <1>10 DEF QueueInv

\* and the memory of the message is freed.
LEMMA FreeMessageRefs ==
  ASSUME TypeInv, UpInv, LocalInv, OwnerInv, QueueInv, NEW a \in Actors,
         FreeMessage(a), UNCHANGED <<scanVars, trackVars, clservVars>>
  PROVE  LocalInv' /\ OwnerInv' /\ QueueInv'
<1>1. /\ LocalInv' /\ OwnerInv' /\ HeldOpen' /\ Sole(a)
      /\ \A p \in Queues : IsOpen(p)' <=> IsOpen(p)
  BY ReleaseHolders DEF QueueInv
<1>2. pc[a] = "freem" /\ msg[a] \in Messages /\ pc'[a] \in ReturnPC
      /\ UNCHANGED <<que, respq, msg, qref, freelist, nalloc>>
  BY DEF FreeMessage, Return, Goto, TypeInv, ControlInv, CallTypeOK, HeldFilled, HoldPC, Filled
<1>3. ~live'[msg[a]] /\ \A k \in Messages \ {msg[a]} : live'[k] = live[k]
  BY <1>2 DEF FreeMessage, TypeInv, DataInv, MessageTypeOK
<1>4. \A k \in Messages \ {msg[a]} :
        (\E c \in Actors : pc'[c] \in {"linkq", "freem"} /\ msg[c] = k) <=>
        (\E c \in Actors : pc[c] \in {"linkq", "freem"} /\ msg[c] = k)
  BY <1>1, <1>2 DEF Sole, ReturnPC
<1>5. \A p \in Queues : Referrers(p)' = Referrers(p)
  <2>1. \A k \in Messages, p \in Queues : k \in Referrers(p)' <=> k \in Referrers(p)
    BY <1>2, <1>3, <1>4 DEF Referrers
  <2>2. \A p \in Queues : Referrers(p) \subseteq Messages /\ Referrers(p)' \subseteq Messages
    BY DEF Referrers
  <2> QED  BY <2>1, <2>2
<1>6. \A c \in Actors, q \in Queues : Links(c, q)' <=> Links(c, q)
  BY <1>1, <1>2 DEF Links, Sole, ReturnPC
<1>7. QueueRefs' /\ TransitInv' /\ TableInv'
  BY <1>1, <1>2, <1>5, <1>6, QueuesKept DEF QueueInv
<1> QED  BY <1>1, <1>7 DEF QueueInv

\* A new message takes a reference on the queue of its scan.
LEMMA LoadRefs ==
  ASSUME TypeInv, UpInv, OwnInv, LocalInv, OwnerInv, QueueInv, NEW b \in Backends, Load(b),
         NEW m \in Messages, Fills(b, m)
  PROVE  LocalInv' /\ OwnerInv' /\ QueueInv'
<1>1. b \in Actors /\ Backends \subseteq Actors
  BY ActorKinds
<1>2. Sole(b) /\ BackendMove(b)
  BY BackendMoves DEF BackendStep
<1>3. pc[b] = "load" /\ pc'[b] \in {"send", "put"} /\ msg'[b] = m
  BY DEF Fills, Moves
<1>4. LocalInv' /\ Owner(b) /\ \A c \in Backends : Owner(c)' <=> Owner(c)
  <2>1. Owner(b)
    BY <1>3 DEF LocalInv, LocalOK, Active, InScan
  <2> QED  BY <1>2, <1>3, <2>1, MoveLocal DEF MoveFits
<1>5. PICK q \in Queues : q = que[b]
  BY <1>4, OwnerQueue
<1>6. /\ qref'[q] = qref[q] + 1 /\ \A p \in Queues \ {q} : qref'[p] = qref[p]
      /\ respq'[m] = q /\ \A k \in Messages \ {m} : respq'[k] = respq[k]
      /\ UNCHANGED <<que, closed, freelist, nalloc, orphans>>
      /\ qref[q] \in Int /\ nalloc \in Int
  BY <1>5 DEF Fills, TypeInv, DataInv, QueueTypeOK, TableTypeOK, MessageTypeOK
<1>7. ~live[m] /\ live'[m] /\ \A k \in Messages \ {m} : live'[k] = live[k]
  BY DEF Fills, TypeInv, DataInv, MessageTypeOK
<1>8. \A c \in Actors : pc[c] \in {"linkq", "freem"} => msg[c] \in Messages \ {m}
  BY <1>7 DEF OwnInv, ReleaseIsLast, Releasing, InRelease, TypeInv, ControlInv, HeldFilled, HoldPC,
     Filled
<1>9. OwnerInv' /\ \A p \in Queues : IsOpen(p)' <=> IsOpen(p)
  BY <1>4, <1>6, OwnersKept
<1>10. \A c \in Actors : /\ pc'[c] \in {"linkq", "freem"} <=> pc[c] \in {"linkq", "freem"}
                         /\ pc'[c] \in {"linkq", "freem"} => msg'[c] = msg[c]
  BY <1>2, <1>3 DEF Sole
<1>11. m \notin Referrers(q) /\ Referrers(q)' = Referrers(q) \cup {m}
       /\ \A p \in Queues \ {q} : Referrers(p)' = Referrers(p)
  <2>1. \A k \in Messages :
          (\E c \in Actors : pc'[c] \in {"linkq", "freem"} /\ msg'[c] = k) <=>
          (\E c \in Actors : pc[c] \in {"linkq", "freem"} /\ msg[c] = k)
    BY <1>10
  <2>2. \A k \in Messages \ {m}, p \in Queues : k \in Referrers(p)' <=> k \in Referrers(p)
    BY <1>6, <1>7, <2>1 DEF Referrers
  <2>3. m \in Referrers(q)' /\ \A p \in Queues \ {q} : m \notin Referrers(p)'
    BY <1>6, <1>7, <1>8, <2>1 DEF Referrers
  <2>4. \A p \in Queues : m \notin Referrers(p)
    BY <1>7 DEF Referrers
  <2>5. \A p \in Queues : Referrers(p) \subseteq Messages /\ Referrers(p)' \subseteq Messages
    BY DEF Referrers
  <2>6. ASSUME NEW p \in Queues, p # q PROVE Referrers(p)' = Referrers(p)
    BY <2>2, <2>3, <2>4, <2>5, <2>6
  <2>7. Referrers(q)' = Referrers(q) \cup {m}
    BY <2>2, <2>3, <2>5
  <2> QED  BY <2>4, <2>6, <2>7
<1>12. Cardinality(Referrers(q)') = Cardinality(Referrers(q)) + 1
       /\ Cardinality(Referrers(q)) \in Nat
  <2>1. IsFiniteSet(Referrers(q)) /\ Cardinality(Referrers(q)) \in Nat
    BY ReferrersFinite
  <2>2. ASSUME NEW R, R = Referrers(q) PROVE Cardinality(R \cup {m}) = Cardinality(R) + 1
    BY <1>11, <2>1, <2>2, FS_AddElement
  <2> QED  BY <1>11, <2>1, <2>2
<1>13. qref[q] = 1 + Cardinality(Referrers(q))
  <2>1. IsOpen(q)
    BY <1>4, <1>5, OpenOwner
  <2> QED  BY <2>1 DEF QueueInv, QueueRefs, B2N
<1>14. q <= nalloc /\ q \notin Range(freelist) /\ \A c \in Actors : ~Links(c, q)
  BY <1>12, <1>13, UsedQueue DEF QueueInv
<1>15. \A c \in Actors, p \in Queues : Links(c, p)' <=> Links(c, p)
  <2>1. \A c \in Actors : pc[c] = "linkq" => respq'[msg[c]] = respq[msg[c]]
    BY <1>6, <1>8
  <2>2. \A c \in Actors : /\ pc'[c] = "linkq" <=> pc[c] = "linkq"
                          /\ pc'[c] = "freeq" <=> pc[c] = "freeq"
                          /\ pc[c] = "linkq" => msg'[c] = msg[c]
    BY <1>2, <1>3 DEF Sole
  <2> QED  BY <1>6, <2>1, <2>2 DEF Links
<1>16. QueueRefs' /\ TransitInv'
  <2>1. qref'[q] = B2N(IsOpen(q)') + Cardinality(Referrers(q)')
    <3>1. IsOpen(q)'
      BY <1>4, <1>5, <1>9, OpenOwner
    <3> QED  BY <1>6, <1>12, <1>13, <3>1 DEF B2N
  <2>2. nalloc' >= nalloc /\ nalloc' \in Int /\ freelist' = freelist
    BY <1>6
  <2> QED  BY <1>6, <1>9, <1>11, <1>14, <1>15, <2>1, <2>2, OneQueue DEF QueueInv
<1>17. TableInv'
  <2>1. \A p \in Queues : qref'[p] = qref[p] \/ p = q
    BY <1>6
  <2>2. ~(q > nalloc)
    BY <1>6, <1>14 DEF Queues
  <2>3. \A p \in Range(freelist) : p \in Queues
    BY RangeOf DEF TypeInv, DataInv, TableTypeOK
  <2> QED  BY <1>6, <1>14, <2>1, <2>2, <2>3 DEF QueueInv, TableInv
<1>18. HeldOpen'
  <2>1. \A c \in Backends : Owns(c)' \subseteq Owns(c) \cup (IF c = b THEN {m} ELSE {})
    BY <1>1, <1>2, <1>3 DEF Owns, PutHand, Sole, Fills, TypeInv, DataInv, TrackTypeOK
  <2>2. \A c \in Backends : m \notin Owns(c)
    BY <1>7, BackendPlaces DEF OwnInv, UsedLive
  <2>3. ASSUME NEW c \in Backends, NEW k \in Owns(c)'
        PROVE  /\ k \in Messages /\ respq'[k] \in Queues
               /\ \/ closed[respq'[k]]
                  \/ Owner(c)' /\ respq'[k] = que[c] /\ k \notin orphans[c]
    <3>1. CASE k = m
      <4>1. c = b
        BY <2>1, <2>2, <2>3, <3>1
      <4> QED  BY <1>4, <1>5, <1>6, <2>2, <3>1, <4>1 DEF Owns
    <3>2. CASE k # m
      <4>1. k \in Owns(c) /\ k \in Messages
        BY <2>1, <2>3, <3>2 DEF QueueInv, HeldOpen
      <4> QED  BY <1>4, <1>6, <3>2, <4>1 DEF QueueInv, HeldOpen
    <3> QED  BY <3>1, <3>2
  <2> QED  BY <1>6, <2>3 DEF HeldOpen
<1> QED  BY <1>4, <1>9, <1>16, <1>17, <1>18 DEF QueueInv

\* The list of which pgstrom_create_queue takes the head: queues nobody uses
LEMMA FreeList ==
  ASSUME TypeInv, QueueInv, freelist # << >> \/ BlockFits
  PROVE  /\ FreeQueues \in Seq(Queues) /\ FreeQueues # << >> /\ Once(FreeQueues)
         /\ \A q \in Range(FreeQueues) :
              /\ q \in Queues /\ qref[q] = 0
              /\ freelist = << >> => q > nalloc /\ q <= nalloc + BlockSize
              /\ freelist # << >> => q \in Range(freelist) /\ q <= nalloc
<1>1. freelist \in Seq(Queues) /\ nalloc \in 0..MaxQueues /\ BlockSize \in Nat \ {0} /\ MaxQueues \in Nat
  BY SizesAssumption DEF TypeInv, DataInv, TableTypeOK
<1>2. CASE freelist # << >>
  <2>1. FreeQueues = freelist
    BY <1>2 DEF FreeQueues
  <2>2. Range(freelist) \subseteq Queues
    BY <1>1, RangeOf
  <2> QED  BY <1>1, <1>2, <2>1, <2>2 DEF QueueInv, TableInv, Once
<1>3. CASE freelist = << >>
  <2>1. FreeQueues = NewBlock /\ nalloc + BlockSize <= MaxQueues
    BY <1>3 DEF FreeQueues, BlockFits
  <2>2. NewBlock \in [1..BlockSize -> Queues] /\ \A i \in 1..BlockSize : NewBlock[i] = nalloc + i
    BY <1>1, <2>1 DEF NewBlock, Queues
  <2>3. NewBlock \in Seq(Queues) /\ Len(NewBlock) = BlockSize
    BY <1>1, <2>2
  <2>4. NewBlock # << >> /\ Once(NewBlock)
    BY <1>1, <2>2, <2>3 DEF Once
  <2>5. ASSUME NEW q \in Range(NewBlock)
        PROVE  q \in Queues /\ q > nalloc /\ q <= nalloc + BlockSize
    <3>1. PICK i \in 1..BlockSize : q = NewBlock[i]
      BY <2>2, <2>5 DEF Range
    <3> QED  BY <1>1, <2>1, <2>2, <3>1 DEF Queues
  <2> QED  BY <1>3, <2>1, <2>3, <2>4, <2>5 DEF QueueInv, TableInv
<1> QED  BY <1>2, <1>3

\* pgstrom_create_queue gives the scan a queue that nobody knows.
LEMMA BeginRefs ==
  ASSUME TypeInv, TypeInv', UpInv, OwnInv, LocalInv, OwnerInv, QueueInv, NEW b \in Backends, Begin(b)
  PROVE  /\ LocalInv' /\ OwnerInv' /\ QueueInv'
         /\ \E q \in Queues : /\ que'[b] = q /\ qhead'[q] = << >> /\ ~IsOpen(q) /\ Referrers(q) = {}
                            /\ \A p \in Queues \ {q} : closed'[p] = closed[p] /\ qhead'[p] = qhead[p]
<1>1. b \in Actors /\ Backends \subseteq Actors
  BY ActorKinds
<1>2. PICK q \in Queues : CreateQueue(q) /\ que' = [que EXCEPT ![b] = q]
  BY DEF Begin
<1>3. Sole(b) /\ BackendMove(b) /\ pc[b] = "idle" /\ pc'[b] = "trackq"
  BY <1>1, BackendMoves DEF BackendEvent, Begin, Goto, TypeInv, ControlInv, CallTypeOK
<1>4. /\ LocalInv' /\ ~Owner(b) /\ Owner(b)'
      /\ \A c \in Backends \ {b} : Owner(c)' <=> Owner(c)
  BY <1>3, MoveLocal DEF MoveFits
<1>5. /\ qref'[q] = 1
      /\ \A p \in Queues \ {q} :
           qref'[p] = qref[p] /\ closed'[p] = closed[p] /\ qhead'[p] = qhead[p]
      /\ qhead'[q] = << >> /\ que'[b] = q /\ \A c \in Backends \ {b} : que'[c] = que[c]
      /\ UNCHANGED <<live, respq, msg, tracked, orphans>>
  <2>1. /\ qref \in [Queues -> Int] /\ closed \in [Queues -> BOOLEAN]
        /\ qhead \in [Queues -> Seq(Messages)] /\ que \in [Backends -> Queues \cup {NoQueue}]
    BY DEF TypeInv, DataInv, QueueTypeOK, ScanTypeOK
  <2>2. /\ qref' = [qref EXCEPT ![q] = 1] /\ closed' = [closed EXCEPT ![q] = FALSE]
        /\ qhead' = [qhead EXCEPT ![q] = << >>]
        /\ UNCHANGED <<live, respq, msg, tracked, orphans>>
    BY <1>2 DEF CreateQueue, Begin
  <2> QED  BY <1>2, <2>1, <2>2
<1>6. ~closed'[q]
  <2>1. closed' = [closed EXCEPT ![q] = FALSE] /\ closed \in [Queues -> BOOLEAN]
    BY <1>2 DEF CreateQueue, TypeInv, DataInv, QueueTypeOK
  <2> QED  BY <2>1, Zenon
<1>7. /\ FreeQueues \in Seq(Queues) /\ FreeQueues # << >> /\ Once(FreeQueues)
      /\ \A p \in Range(FreeQueues) :
              /\ p \in Queues /\ qref[p] = 0
              /\ freelist = << >> => p > nalloc /\ p <= nalloc + BlockSize
              /\ freelist # << >> => p \in Range(freelist) /\ p <= nalloc
  BY <1>2, FreeList DEF CreateQueue
<1>8. /\ q = Head(FreeQueues) /\ freelist' = Tail(FreeQueues)
      /\ nalloc' = IF freelist = << >> THEN nalloc + BlockSize ELSE nalloc
      /\ nalloc \in Nat /\ nalloc' \in Nat /\ BlockSize \in Nat
  BY <1>2, SizesAssumption DEF CreateQueue, TypeInv, DataInv, TableTypeOK
<1>9. q \in Range(FreeQueues) /\ Range(freelist') = Range(FreeQueues) \ {q} /\ Once(freelist')
  BY <1>7, <1>8, RangeTail
<1>10. qref[q] = 0 /\ q <= nalloc' /\ q \notin Range(freelist') /\ (q \in Range(freelist) \/ q > nalloc)
  BY <1>7, <1>8, <1>9
<1>11. ~IsOpen(q) /\ Referrers(q) = {} /\ \A c \in Actors : ~Links(c, q)
  <2>1. \A c \in Actors : ~Links(c, q)
    BY <1>8, <1>10 DEF QueueInv, TransitInv, Queues
  <2> QED  BY <1>10, <2>1, ZeroRefs DEF QueueInv
<1>12. \A c \in Backends : Owner(c) => c # b /\ que[c] \in Queues \ {q}
  BY <1>4, <1>11, OwnerQueue, OpenOwner
<1>13. IsOpen(q)' /\ \A p \in Queues \ {q} : IsOpen(p)' <=> IsOpen(p)
  <2>1. IsOpen(q)'
    BY <1>5, <1>6 DEF IsOpen
  <2>2. ASSUME NEW p \in Queues \ {q} PROVE IsOpen(p)' <=> IsOpen(p)
    <3>1. IsOpen(p) <=> \E c \in Backends : Owner(c) /\ que[c] = p
      BY OpenOwner
    <3>2. IsOpen(p) => ~closed[p]
      BY DEF IsOpen
    <3>3. IsOpen(p)' <=> \E c \in Backends \ {b} : que[c] = p /\ ~closed[p]
      BY <1>5 DEF IsOpen
    <3>4. IsOpen(p)' => IsOpen(p)
      BY <3>3 DEF IsOpen
    <3> QED  BY <1>12, <3>1, <3>2, <3>3, <3>4
  <2> QED  BY <2>1, <2>2
<1>14. /\ \A p \in Queues : Referrers(p)' = Referrers(p)
       /\ \A c \in Actors, p \in Queues : Links(c, p)' <=> Links(c, p)
  <2>1. \A c \in Actors : /\ pc'[c] = "linkq" <=> pc[c] = "linkq"
                          /\ pc'[c] = "freem" <=> pc[c] = "freem"
                          /\ pc'[c] = "freeq" <=> pc[c] = "freeq"
                          /\ c # b => pc'[c] = pc[c]
    BY <1>3 DEF Sole
  <2>2. \A p \in Queues : Referrers(p)' = Referrers(p)
    BY <1>5, <2>1 DEF Referrers
  <2>3. \A c \in Actors, p \in Queues : Links(c, p)' <=> Links(c, p)
    BY <1>3, <1>5, <2>1 DEF Links
  <2> QED  BY <2>2, <2>3
<1>15. QueueRefs' /\ TransitInv'
  <2>1. qref'[q] = B2N(IsOpen(q)') + Cardinality(Referrers(q)')
    <3>1. Cardinality(Referrers(q)') = 0
      BY <1>11, <1>14, FS_EmptySet
    <3> QED  BY <1>5, <1>13, <3>1 DEF B2N
  <2>2. nalloc' >= nalloc /\ nalloc' \in Int /\ nalloc \in Int
    BY <1>8
  <2>3. \A p \in Queues : p \in Range(freelist') => p \in Range(freelist) \/ p > nalloc
    BY <1>7, <1>9
  <2> QED  BY <1>5, <1>11, <1>13, <1>14, <2>1, <2>2, <2>3, OneQueue DEF QueueInv
<1>16. TableInv'
  <2>1. \A p \in Range(freelist') : qref'[p] = 0 /\ p <= nalloc'
    BY <1>5, <1>7, <1>8, <1>9
  <2>2. \A p \in Queues : p > nalloc' => qref'[p] = 0
    <3>1. \A p \in Queues : p \in Int
      BY DEF Queues
    <3>2. \A p \in Queues : p > nalloc' => p > nalloc /\ p # q
      BY <1>8, <1>10, <3>1
    <3> QED  BY <1>5, <3>2 DEF QueueInv, TableInv
  <2> QED  BY <1>9, <2>1, <2>2 DEF TableInv, Once
<1>17. OwnerInv'
  <2>1. \A c \in Backends : Owner(c)' => ~closed'[que'[c]]
    BY <1>4, <1>5, <1>6, <1>12 DEF OwnerInv
  <2>2. ASSUME NEW c \in Backends, que'[c] \in Queues, ~closed'[que'[c]]
        PROVE  \E d \in Backends : Owner(d)' /\ que'[d] = que'[c]
    <3>1. CASE que'[c] = q
      BY <1>4, <1>5, <3>1
    <3>2. CASE que'[c] # q
      BY <1>4, <1>5, <1>12, <2>2, <3>2 DEF OwnerInv
    <3> QED  BY <3>1, <3>2
  <2>3. \A c, d \in Backends : Owner(c)' /\ Owner(d)' /\ que'[c] = que'[d] => c = d
    BY <1>4, <1>5, <1>12 DEF OwnerInv
  <2> QED  BY <2>1, <2>2, <2>3 DEF OwnerInv
<1>18. HeldOpen'
  <2>1. \A c \in Backends : Owns(c)' = Owns(c)
    BY <1>1, <1>3, <1>5 DEF Owns, PutHand, Sole
  <2>2. ASSUME NEW c \in Backends, NEW m \in Owns(c)
        PROVE  /\ m \in Messages /\ respq[m] \in Queues \ {q}
               /\ closed[respq[m]] \/ (Owner(c) /\ respq[m] = que[c] /\ m \notin orphans[c])
    <3>1. /\ m \in Messages /\ respq[m] \in Queues
          /\ closed[respq[m]] \/ (Owner(c) /\ respq[m] = que[c] /\ m \notin orphans[c])
      BY <2>2 DEF QueueInv, HeldOpen
    <3>2. live[m] /\ ~Releasing(m)
      BY <2>2, <3>1, BackendPlaces DEF OwnInv, UsedLive, ReleaseIsLast
    <3>3. m \in Referrers(respq[m])
      BY <3>1, <3>2 DEF Referrers, Releasing, InRelease
    <3> QED  BY <1>11, <3>1, <3>3
  <2> QED  BY <1>4, <1>5, <2>1, <2>2 DEF HeldOpen
<1> QED  BY <1>4, <1>5, <1>11, <1>15, <1>16, <1>17, <1>18 DEF QueueInv

(***************************************************************************)
(* The chunks of a scan: frames.                                           *)
(***************************************************************************)
\* A step after which the chunks of b are where they were
LEMMA ScanFrame ==
  ASSUME NEW b \in Backends, ScanOK(b), que'[b] = que[b], qhead'[que[b]] = qhead[que[b]],
         tracked'[b] = tracked[b], ready'[b] = ready[b], cur'[b] = cur[b], running'[b] = running[b],
         \A m \in tracked[b] : (ServerHas(m)' <=> ServerHas(m)) /\ respq'[m] = respq[m],
         pc[b] = "send" <=> pc'[b] = "send", pc[b] = "send" => msg'[b] = msg[b],
         pc'[b] # "ret" => cur[b] = NoMessage
  PROVE  ScanOK(b)'
<1>1. InFlight(b)' = InFlight(b)
  BY DEF InFlight
<1>2. AtHand(b)' = AtHand(b)
  BY DEF AtHand
<1>3. ScanOK(b)' <=>
        /\ tracked[b] = InFlight(b) \cup AtHand(b)
        /\ InFlight(b) \cap AtHand(b) = {}
        /\ running[b] = Cardinality(InFlight(b))
        /\ \A m \in tracked[b] : respq'[m] = que[b]
        /\ Once(ready[b]) /\ Once(qhead[que[b]])
        /\ Range(qhead[que[b]]) \subseteq tracked[b]
        /\ \A m \in Range(qhead[que[b]]) : ~ServerHas(m)'
        /\ pc'[b] # "ret" => cur[b] = NoMessage
        /\ cur[b] \notin Range(ready[b])
        /\ pc'[b] = "send" => msg'[b] \notin Range(ready[b])
  BY <1>1, <1>2 DEF ScanOK, Once
<1>4. \A m \in Range(qhead[que[b]]) : m \in tracked[b] /\ ~ServerHas(m)
  BY DEF ScanOK
<1> QED  BY <1>3, <1>4 DEF ScanOK

\* The step of a leaves the scans of the other backends alone.
Aside(a) ==
  \A c \in Backends \ {a} :
    /\ que'[c] = que[c] /\ tracked'[c] = tracked[c] /\ ready'[c] = ready[c]
    /\ cur'[c] = cur[c] /\ running'[c] = running[c]
    /\ Active(c) => /\ qhead'[que[c]] = qhead[que[c]]
                    /\ \A m \in tracked[c] : (ServerHas(m)' <=> ServerHas(m)) /\ respq'[m] = respq[m]

\* What the scan of b must satisfy after a step
ScanFits(b) == /\ Active(b)' => ScanOK(b)'
               /\ pc'[b] = "idle" => IdleOK(b)'

LEMMA AsideScans ==
  ASSUME ScanInv, NEW a \in Actors, Sole(a), Aside(a)
  PROVE  \A c \in Backends \ {a} : ScanFits(c)
<1> SUFFICES ASSUME NEW c \in Backends \ {a} PROVE ScanFits(c)
  OBVIOUS
<1>1. pc'[c] = pc[c] /\ msg'[c] = msg[c] /\ ret'[c] = ret[c]
  BY ActorKinds DEF Sole
<1>2. Active(c)' <=> Active(c)
  BY <1>1 DEF Active, InScan, InRelease
<1>3. Active(c) => ScanOK(c)'
  <2> SUFFICES ASSUME Active(c) PROVE ScanOK(c)'
    OBVIOUS
  <2>1. ScanOK(c) /\ (pc'[c] # "ret" => cur[c] = NoMessage)
    BY <1>1 DEF ScanInv, ScanOK
  <2> QED  BY <1>1, <2>1, ScanFrame DEF Aside
<1>4. pc'[c] = "idle" => IdleOK(c)'
  BY <1>1 DEF ScanInv, IdleOK, Aside
<1> QED  BY <1>2, <1>3, <1>4 DEF ScanFits

\* What a step of b does to the other scans
LEMMA BackendsAside ==
  ASSUME TypeInv, UpInv, NEW b \in Backends, BackendStep(b) \/ BackendEvent(b), NEW c \in Backends, c # b
  PROVE  /\ que'[c] = que[c] /\ tracked'[c] = tracked[c] /\ ready'[c] = ready[c]
         /\ cur'[c] = cur[c] /\ running'[c] = running[c]
<1>1. /\ que \in [Backends -> Queues \cup {NoQueue}]
      /\ cur \in [Backends -> Messages \cup {NoMessage}]
      /\ ready \in [Backends -> Seq(Messages)]
      /\ running \in [Backends -> Int]
      /\ tracked \in [Backends -> SUBSET Messages]
  BY DEF TypeInv, DataInv, ScanTypeOK, TrackTypeOK
<1>2. CASE \/ Begin(b) \/ BeginFails(b) \/ TrackQueue(b) \/ TrackQueueFails(b) \/ Timeout(b)
           \/ LoadEnd(b) \/ LoadFails(b) \/ Cancel(b) \/ End(b) \/ AbortQueue(b) \/ BackendCall(b)
  BY <1>1, <1>2 DEF Begin, BeginFails, TrackQueue, TrackQueueFails, Timeout, NoAnswer, LoadEnd,
     LoadFails, Cancel, End, AbortQueue, BackendCall
<1>3. CASE Drain(b) \/ Try(b) \/ Wait(b)
  <2>1. \/ UNCHANGED <<que, tracked, ready, cur, running>>
        \/ /\ UNCHANGED <<que, tracked, cur>>
           /\ running' = [running EXCEPT ![b] = @ - 1]
           /\ ready' = [ready EXCEPT ![b] = <<Head(qhead[que[b]])>> \o @]
    BY <1>3 DEF Drain, Try, Wait, TakeAnswer, NoAnswer
  <2> QED  BY <1>1, <2>1
<1>4. CASE Pick(b)
  BY <1>1, <1>4 DEF Pick
<1>5. CASE Commit(b) \/ AbortEnd(b)
  BY <1>1, <1>5 DEF Commit, AbortEnd, Forget
<1>6. CASE Exec(b) \/ AbortMessage(b)
  BY <1>1, <1>6 DEF Exec, AbortMessage
<1>7. CASE Load(b)
  BY <1>1, <1>7 DEF Load
<1>8. CASE Send(b)
  BY <1>1, <1>8 DEF Send
<1> QED  BY <1>2, <1>3, <1>4, <1>5, <1>6, <1>7, <1>8 DEF BackendStep, BackendEvent

\* The steps of b that leave the server, the answers and the messages alone
LEMMA QuietAside ==
  ASSUME TypeInv, UpInv, NEW b \in Backends, BackendStep(b) \/ BackendEvent(b),
         UNCHANGED <<servq, waitq, device, lost, respq>>,
         \A c \in Backends \ {b} : Active(c) => qhead'[que[c]] = qhead[que[c]]
  PROVE  Aside(b) /\ \A k \in Messages : ServerHas(k)' <=> ServerHas(k)
<1>1. \A k \in Messages : ServerHas(k)' <=> ServerHas(k)
  BY BackendMoves, ServerAside
<1>2. \A c \in Backends : tracked[c] \subseteq Messages
  BY DEF TypeInv, DataInv, TrackTypeOK
<1> QED  BY <1>1, <1>2, BackendsAside DEF Aside

\* The server's puts concern closed queues.
LEMMA PutsKept ==
  ASSUME TypeInv, PutsClosed, NEW b \in Backends, Sole(b), UNCHANGED respq,
         \A q \in Queues : closed[q] => closed'[q]
  PROVE  PutsClosed'
<1>1. \A s \in Servers : pc'[s] = pc[s] /\ msg'[s] = msg[s] /\ s \in Actors
  BY ActorKinds DEF Sole
<1>2. \A s \in Servers : pc[s] = "put" => respq[msg[s]] \in Queues
  BY <1>1 DEF TypeInv, ControlInv, HeldFilled, HoldPC, Filled
<1> QED  BY <1>1, <1>2 DEF PutsClosed

LEMMA ScansFit ==
  ASSUME ScanInv, NEW a \in Actors, Sole(a), Aside(a), a \in Backends => ScanFits(a), PutsClosed'
  PROVE  ScanInv'
<1>1. \A c \in Backends : ScanFits(c)
  BY AsideScans
<1> QED  BY <1>1 DEF ScanInv, ScanFits

(***************************************************************************)
(* The chunks of a scan, step by step: the backend.                        *)
(***************************************************************************)
LEMMA InFlightFinite ==
  ASSUME TypeInv, NEW b \in Backends
  PROVE  /\ InFlight(b) \subseteq Messages /\ IsFiniteSet(InFlight(b))
         /\ Cardinality(InFlight(b)) \in Nat /\ Range(ready[b]) \subseteq Messages
<1>1. InFlight(b) \subseteq Messages
  BY DEF InFlight, TypeInv, DataInv, TrackTypeOK
<1>2. IsFiniteSet(InFlight(b))
  BY <1>1, MessagesAssumption, FS_Subset
<1>3. Range(ready[b]) \subseteq Messages
  BY RangeOf DEF TypeInv, DataInv, ScanTypeOK
<1> QED  BY <1>1, <1>2, <1>3, FS_CardinalityType

\* The scan of b is over, or goes on with its chunks where they were.
LEMMA IdleScan ==
  ASSUME TypeInv, UpInv, LocalInv, ScanInv, NEW b \in Backends, BackendStep(b) \/ BackendEvent(b),
         pc[b] # "idle", pc'[b] # "idle",
         Active(b)' => /\ UNCHANGED <<que, tracked, ready, cur, running, respq>>
                       /\ qhead'[que[b]] = qhead[que[b]]
                       /\ \A m \in Messages : ServerHas(m)' <=> ServerHas(m)
                       /\ pc[b] # "send" /\ pc'[b] # "send"
                       /\ pc'[b] # "ret" => cur[b] = NoMessage
  PROVE  ScanFits(b)
<1>1. Active(b)' => Active(b)
  BY BackendMoves, MoveLocal DEF MoveFits
<1>2. tracked[b] \subseteq Messages
  BY DEF TypeInv, DataInv, TrackTypeOK
<1>3. Active(b)' => ScanOK(b)'
  <2> SUFFICES ASSUME Active(b)' PROVE ScanOK(b)'
    OBVIOUS
  <2>1. ScanOK(b)
    BY <1>1 DEF ScanInv
  <2> QED  BY <1>2, <2>1, ScanFrame
<1> QED  BY <1>3 DEF ScanFits

\* An answer becomes a chunk that is ready.
LEMMA TakeAnswerScan ==
  ASSUME TypeInv, NEW b \in Backends, Active(b), ScanOK(b), que[b] \in Queues, TakeAnswer(b),
         pc[b] \notin {"ret", "send"}, pc'[b] \notin {"ret", "send"},
         \A k \in Messages : ServerHas(k)' <=> ServerHas(k)
  PROVE  ScanOK(b)'
<1> DEFINE q == que[b]
           m == Head(qhead[q])
<1>1. /\ qhead[q] \in Seq(Messages) /\ qhead[q] # << >> /\ ready[b] \in Seq(Messages)
      /\ tracked[b] \subseteq Messages /\ Once(qhead[q]) /\ Once(ready[b]) /\ cur[b] = NoMessage
      /\ m \in Messages /\ running[b] \in Int
  BY DEF TakeAnswer, Dequeue, TypeInv, DataInv, QueueTypeOK, ScanTypeOK, TrackTypeOK, ScanOK
<1>2. /\ qhead'[q] = Tail(qhead[q]) /\ ready'[b] = <<m>> \o ready[b] /\ running'[b] = running[b] - 1
      /\ UNCHANGED <<que, cur, tracked, respq>>
  BY DEF TakeAnswer, Dequeue, TypeInv, DataInv, QueueTypeOK, ScanTypeOK
<1>3. /\ Range(qhead'[q]) = Range(qhead[q]) \ {m} /\ m \in Range(qhead[q]) /\ Once(qhead'[q])
  BY <1>1, <1>2, RangeTail
<1>4. m \in tracked[b] /\ ~ServerHas(m) /\ m \in InFlight(b) /\ m # NoMessage
  BY <1>1, <1>3, MessagesAssumption DEF ScanOK, InFlight
<1>5. AtHand(b) = Range(ready[b]) /\ m \notin Range(ready[b])
  <2>1. Range(ready[b]) \subseteq Messages
    BY InFlightFinite
  <2>2. AtHand(b) = Range(ready[b])
    BY <1>1, <2>1, MessagesAssumption DEF AtHand
  <2> QED  BY <1>4, <2>2 DEF ScanOK
<1>6. Range(ready'[b]) = Range(ready[b]) \cup {m} /\ Once(ready'[b])
  BY <1>1, <1>2, <1>5, RangeCons
<1>7. AtHand(b)' = Range(ready[b]) \cup {m}
  <2>1. Range(ready[b]) \subseteq Messages
    BY InFlightFinite
  <2> QED  BY <1>1, <1>2, <1>4, <1>6, <2>1, MessagesAssumption DEF AtHand
<1>8. InFlight(b)' = InFlight(b) \ {m}
  <2>1. InFlight(b)' = {k \in tracked[b] : ServerHas(k)' \/ k \in Range(qhead'[q])}
    BY <1>2 DEF InFlight
  <2>2. \A k \in tracked[b] : k \in InFlight(b)' <=> k \in InFlight(b) /\ k # m
    BY <1>1, <1>3, <1>4, <2>1 DEF InFlight
  <2>3. InFlight(b) \subseteq tracked[b] /\ InFlight(b)' \subseteq tracked[b]
    BY <2>1 DEF InFlight
  <2> QED  BY <2>2, <2>3
<1>9. Cardinality(InFlight(b)') = Cardinality(InFlight(b)) - 1
  <2>1. IsFiniteSet(InFlight(b))
    BY InFlightFinite
  <2>2. ASSUME NEW R, R = InFlight(b), NEW x \in R PROVE Cardinality(R \ {x}) = Cardinality(R) - 1
    BY <2>1, <2>2, FS_RemoveElement
  <2> QED  BY <1>4, <1>8, <2>2
<1>10. cur[b] \notin Range(ready[b]) \cup {m}
  BY <1>1, <1>4 DEF ScanOK
<1> HIDE DEF m, q
<1>11. /\ tracked'[b] = InFlight(b)' \cup AtHand(b)' /\ InFlight(b)' \cap AtHand(b)' = {}
       /\ running'[b] = Cardinality(InFlight(b)')
  BY <1>2, <1>4, <1>5, <1>7, <1>8, <1>9 DEF ScanOK
<1>12. /\ Range(qhead'[q]) \subseteq tracked'[b] /\ \A k \in Range(qhead'[q]) : ~ServerHas(k)'
  BY <1>1, <1>2, <1>3 DEF ScanOK, q
<1> QED  BY <1>1, <1>2, <1>3, <1>6, <1>10, <1>11, <1>12 DEF ScanOK, q, Once

\* The head of the ready chunks becomes the current one.
LEMMA PickScan ==
  ASSUME TypeInv, NEW b \in Backends, ScanOK(b), Pick(b), pc'[b] = "ret",
         \A k \in Messages : ServerHas(k)' <=> ServerHas(k)
  PROVE  ScanOK(b)'
<1> DEFINE m == Head(ready[b])
<1>1. /\ pc[b] = "pick" /\ ready[b] \in Seq(Messages) /\ ready[b] # << >> /\ Once(ready[b])
      /\ cur[b] = NoMessage /\ tracked[b] \subseteq Messages /\ m \in Messages
  BY DEF Pick, TypeInv, ScanHasQueue, DataInv, ScanTypeOK, TrackTypeOK, ScanOK
<1>2. /\ ready'[b] = Tail(ready[b]) /\ cur'[b] = m
      /\ UNCHANGED <<que, qhead, tracked, running, respq>>
  BY ActorKinds DEF Pick, Goto, TypeInv, DataInv, ScanTypeOK, ControlInv, CallTypeOK
<1>3. /\ Range(ready'[b]) = Range(ready[b]) \ {m} /\ m \in Range(ready[b]) /\ Once(ready'[b])
  BY <1>1, <1>2, RangeTail
<1>4. AtHand(b)' = AtHand(b)
  BY <1>1, <1>2, <1>3 DEF AtHand
<1>5. InFlight(b)' = InFlight(b)
  BY <1>1, <1>2 DEF InFlight
<1>6. Range(qhead[que[b]]) \subseteq tracked[b] /\ \A k \in Range(qhead[que[b]]) : ~ServerHas(k)'
  BY <1>1 DEF ScanOK
<1> HIDE DEF m
<1> QED  BY <1>1, <1>2, <1>3, <1>4, <1>5, <1>6 DEF ScanOK, Once

\* The current chunk is released.
LEMMA ExecScan ==
  ASSUME TypeInv, BackendOnce, OwnInv, NEW b \in Backends, ScanOK(b), Exec(b), cur[b] # NoMessage,
         \A k \in Messages : ServerHas(k)' <=> ServerHas(k)
  PROVE  ScanOK(b)'
<1>1. PICK m : m = cur[b]
  OBVIOUS
<1>2. m \in AtHand(b)
  BY <1>1 DEF AtHand
<1>3. m \in tracked[b] /\ m \notin Range(qhead[que[b]]) /\ ~ServerHas(m)
  BY <1>2, AtHandOwned
<1>4. /\ pc[b] = "ret" /\ pc'[b] = "putq" /\ tracked'[b] = tracked[b] \ {m} /\ cur'[b] = NoMessage
      /\ UNCHANGED <<que, qhead, ready, running, respq>> /\ tracked[b] \subseteq Messages
  BY <1>1, ActorKinds
  DEF Exec, Call, TypeInv, DataInv, ScanTypeOK, TrackTypeOK, ControlInv, CallTypeOK
<1>5. InFlight(b)' = InFlight(b)
  BY <1>3, <1>4 DEF InFlight
<1>6. AtHand(b)' = AtHand(b) \ {m} /\ NoMessage \notin Range(ready[b])
  <2>1. Range(ready[b]) \subseteq Messages /\ m \notin Range(ready[b])
    BY <1>1, InFlightFinite DEF ScanOK
  <2> QED  BY <1>1, <1>4, <2>1, MessagesAssumption DEF AtHand
<1>7. Range(qhead[que[b]]) \subseteq tracked'[b] /\ \A k \in Range(qhead[que[b]]) : ~ServerHas(k)'
  BY <1>3, <1>4 DEF ScanOK
<1>8. m \notin InFlight(b)
  BY <1>2 DEF ScanOK
<1>9. \A k \in tracked'[b] : respq[k] = que[b]
  BY <1>4 DEF ScanOK
<1> QED  BY <1>4, <1>5, <1>6, <1>7, <1>8, <1>9 DEF ScanOK, Once

\* A new chunk is about to be sent.
LEMMA LoadScan ==
  ASSUME TypeInv, OwnInv, NEW b \in Backends, ScanOK(b), NEW m \in Messages, Fills(b, m),
         pc'[b] = "send", \A k \in Messages : ServerHas(k)' <=> ServerHas(k)
  PROVE  ScanOK(b)'
<1>1. pc[b] = "load" /\ msg'[b] = m /\ UNCHANGED <<que, qhead, ready, running, cur>> /\ ~live[m]
  BY DEF Fills, Moves
<1>2. tracked'[b] = tracked[b] \cup {m} /\ tracked[b] \subseteq Messages
  BY DEF Fills, Moves, TypeInv, DataInv, TrackTypeOK
<1>3. respq'[m] = que[b] /\ \A k \in Messages \ {m} : respq'[k] = respq[k]
  BY DEF Fills, TypeInv, DataInv, MessageTypeOK
<1>4. ~ServerHas(m) /\ m \notin tracked[b]
  BY <1>1, BackendPlaces DEF OwnInv, UsedLive, Owns
<1>5. m \notin Range(qhead[que[b]]) /\ cur[b] = NoMessage
  BY <1>1, <1>4 DEF ScanOK
<1>6. InFlight(b)' = InFlight(b)
  BY <1>1, <1>2, <1>4, <1>5 DEF InFlight
<1>7. Range(ready[b]) \subseteq Messages
  BY InFlightFinite
<1>8. AtHand(b) = Range(ready[b]) /\ AtHand(b)' = AtHand(b) \cup {m}
  BY <1>1, <1>5, <1>7, MessagesAssumption DEF AtHand
<1>9. m \notin Range(ready[b]) /\ m \notin InFlight(b)
  BY <1>4, <1>8 DEF ScanOK, InFlight
<1>10. Range(qhead[que[b]]) \subseteq tracked[b] /\ \A k \in Range(qhead[que[b]]) : ~ServerHas(k)'
  BY <1>2 DEF ScanOK
<1>11. \A k \in tracked'[b] : respq'[k] = que[b]
  BY <1>2, <1>3 DEF ScanOK
<1> QED  BY <1>1, <1>2, <1>5, <1>6, <1>8, <1>9, <1>10, <1>11 DEF ScanOK, Once

\* It is sent.
LEMMA SendScan ==
  ASSUME TypeInv, BackendOnce, OwnInv, NEW b \in Backends, ScanOK(b), NEW m \in AtHand(b), Sends(b, m),
         \A k \in Messages : ServerHas(k)' <=> ServerHas(k) \/ k = m
  PROVE  ScanOK(b)'
<1>1. /\ pc[b] = "send" /\ msg[b] = m /\ pc'[b] \notin {"send", "ret"} /\ cur[b] = NoMessage
      /\ UNCHANGED <<que, qhead, ready, cur, tracked, respq>> /\ tracked[b] \subseteq Messages
  BY DEF Sends, ScanOK, TypeInv, DataInv, TrackTypeOK
<1>2. running'[b] = running[b] + 1
  BY DEF Sends, TypeInv, DataInv, ScanTypeOK
<1>3. m \in tracked[b] /\ m \in Messages /\ ~ServerHas(m) /\ m \notin Range(qhead[que[b]])
  BY AtHandOwned
<1>4. m \notin Range(ready[b]) /\ Range(ready[b]) \subseteq Messages
  BY <1>1, InFlightFinite DEF ScanOK
<1>5. AtHand(b) = Range(ready[b]) \cup {m} /\ AtHand(b)' = Range(ready[b])
  BY <1>1, <1>3, <1>4, MessagesAssumption DEF AtHand
<1>6. InFlight(b)' = InFlight(b) \cup {m} /\ m \notin InFlight(b)
  <2>1. \A k \in tracked[b] : ServerHas(k)' <=> ServerHas(k) \/ k = m
    BY <1>1
  <2>2. InFlight(b)' = {k \in tracked[b] : ServerHas(k)' \/ k \in Range(qhead[que[b]])}
    BY <1>1 DEF InFlight
  <2>3. \A k : k \in InFlight(b)' <=> k \in InFlight(b) \/ k = m
    BY <1>3, <2>1, <2>2 DEF InFlight
  <2> QED  BY <1>3, <2>3 DEF InFlight
<1>7. Cardinality(InFlight(b)') = Cardinality(InFlight(b)) + 1
  <2>1. IsFiniteSet(InFlight(b))
    BY InFlightFinite
  <2>2. ASSUME NEW R, R = InFlight(b), NEW x, x \notin R PROVE Cardinality(R \cup {x}) = Cardinality(R) + 1
    BY <2>1, <2>2, FS_AddElement
  <2> QED  BY <1>6, <2>2
<1>8. Range(qhead[que[b]]) \subseteq tracked[b] /\ \A k \in Range(qhead[que[b]]) : ~ServerHas(k)'
  BY <1>1, <1>3 DEF ScanOK
<1> QED  BY <1>1, <1>2, <1>4, <1>5, <1>6, <1>7, <1>8 DEF ScanOK, Once

\* A scan begins without chunks.
LEMMA BeginScan ==
  ASSUME NEW b \in Backends, IdleOK(b)', qhead'[que'[b]] = << >>, pc'[b] = "trackq"
  PROVE  ScanOK(b)'
<1>1. Range(<< >>) = {}
  BY DEF Range
<1>2. InFlight(b)' = {}
  BY <1>1 DEF InFlight, IdleOK
<1>3. AtHand(b)' = {}
  BY <1>1 DEF AtHand, IdleOK
<1>4. Cardinality(InFlight(b)') = 0
  BY <1>2, FS_EmptySet
<1> QED  BY <1>1, <1>2, <1>3, <1>4 DEF ScanOK, IdleOK, Once

\* The steps of a backend that neither fill in nor send a message
LEMMA QuietData ==
  ASSUME TypeInv, NEW b \in Backends,
         \/ Begin(b) \/ BeginFails(b) \/ TrackQueue(b) \/ TrackQueueFails(b) \/ Timeout(b)
         \/ Drain(b) \/ Try(b) \/ Wait(b) \/ LoadEnd(b) \/ LoadFails(b) \/ Pick(b) \/ Cancel(b)
         \/ End(b) \/ AbortQueue(b) \/ AbortMessage(b) \/ AbortEnd(b) \/ Commit(b) \/ Exec(b)
         \/ BackendCall(b)
  PROVE  UNCHANGED <<servq, waitq, device, lost, respq>>
BY DEF Begin, BeginFails, TrackQueue, TrackQueueFails, Timeout, NoAnswer, Drain, Try, Wait,
   TakeAnswer, LoadEnd, LoadFails, Pick, Cancel, End, AbortQueue, AbortMessage, AbortEnd, Commit,
   Forget, Exec, BackendCall, CloseQueue, CloseFree, PutMessage, PutQueue, PutQueueLink, FreeMessage

LEMMA QuietQueues ==
  ASSUME TypeInv, NEW b \in Backends,
         \/ BeginFails(b) \/ TrackQueue(b) \/ TrackQueueFails(b) \/ Timeout(b)
         \/ LoadEnd(b) \/ LoadFails(b) \/ Pick(b) \/ Cancel(b)
         \/ End(b) \/ AbortQueue(b) \/ AbortMessage(b) \/ AbortEnd(b) \/ Commit(b) \/ Exec(b)
         \/ BackendCall(b)
  PROVE  UNCHANGED qhead /\ \A q \in Queues : closed[q] => closed'[q]
<1>1. CASE ~BackendCall(b)
  BY <1>1 DEF BeginFails, TrackQueue, TrackQueueFails, Timeout, NoAnswer,
     LoadEnd, LoadFails, Pick, Cancel, End, AbortQueue, AbortMessage, AbortEnd, Commit,
     Forget, Exec
<1>2. CASE BackendCall(b)
  <2>1. UNCHANGED qhead /\ (UNCHANGED closed \/ closed' = [closed EXCEPT ![que[b]] = TRUE])
    BY <1>2 DEF BackendCall, CloseQueue, CloseFree, PutMessage, PutQueue, PutQueueLink, FreeMessage
  <2>2. closed \in [Queues -> BOOLEAN]
    BY DEF TypeInv, DataInv, QueueTypeOK
  <2>3. CASE closed' = [closed EXCEPT ![que[b]] = TRUE]
    BY <2>1, <2>2, <2>3
  <2> QED  BY <2>1, <2>3
<1> QED  BY <1>1, <1>2

\* Steps of b that leave the chunks of its scan where they are, or end it
LEMMA QuietFits ==
  ASSUME TypeInv, UpInv, LocalInv, ScanInv, NEW b \in Backends,
         \/ TrackQueue(b) \/ TrackQueueFails(b) \/ Timeout(b) \/ LoadEnd(b) \/ LoadFails(b)
         \/ Cancel(b) \/ End(b) \/ AbortQueue(b) \/ AbortMessage(b) \/ BackendCall(b)
         \/ (Pick(b) /\ pc'[b] = "abort") \/ (Exec(b) /\ cur[b] = NoMessage),
         \A m \in Messages : ServerHas(m)' <=> ServerHas(m)
  PROVE  ScanFits(b)
<1>1. b \in Actors /\ pc \in [Actors -> BackendPC \cup ServerPC \cup CallPC]
  BY ActorKinds DEF TypeInv, ControlInv, CallTypeOK
<1>2. BackendStep(b) \/ BackendEvent(b)
  BY DEF BackendStep, BackendEvent
<1>3. UNCHANGED <<respq, qhead>>
  BY QuietData, QuietQueues
<1>4. /\ pc[b] # "ret" => (Active(b) => cur[b] = NoMessage)
      /\ Active(b)' => Active(b) \/ pc[b] = "idle"
      /\ pc'[b] = "idle" => pc[b] \in {"idle", "commit", "abort"}
  BY <1>2, BackendMoves, MoveLocal DEF ScanInv, ScanOK, MoveFits
<1>5. CASE TrackQueueFails(b) \/ Timeout(b) \/ LoadFails(b) \/ Cancel(b) \/ End(b) \/ AbortQueue(b)
           \/ AbortMessage(b) \/ (Pick(b) /\ pc'[b] = "abort")
  <2>1. pc[b] # "idle" /\ pc'[b] \in {"closeq", "abort", "put"}
    BY <1>1, <1>5 DEF TrackQueueFails, Timeout, LoadFails, Cancel, End, MayEnd, AbortQueue, AbortMessage,
       Pick, Goto, Call
  <2>2. ~Active(b)'
    BY <2>1 DEF Active, InScan, InRelease
  <2> QED  BY <2>1, <2>2 DEF ScanFits
<1>6. CASE BackendCall(b)
  <2>1. /\ pc[b] \in CallPC /\ UNCHANGED <<que, tracked, ready, cur, running>>
        /\ pc'[b] \in {"freeq", "putq", "linkq", "freem", "ub", ret[b]}
    BY <1>1, <1>6 DEF BackendCall, CloseQueue, CloseFree, PutMessage, PutQueue, PutQueueLink,
       FreeMessage, Return, Goto, CallPC
  <2>2. ret[b] \in ReturnPC
    BY <1>1 DEF TypeInv, ControlInv, CallTypeOK
  <2>3. pc[b] \notin {"idle", "send", "ret"} /\ pc'[b] \notin {"send", "idle"}
    BY <1>4, <2>1, <2>2 DEF CallPC, ReturnPC
  <2> QED  BY <1>2, <1>3, <1>4, <2>1, <2>3, IdleScan
<1>7. CASE TrackQueue(b) \/ LoadEnd(b) \/ (Exec(b) /\ cur[b] = NoMessage)
  <2>1. /\ pc[b] \in {"trackq", "load", "ret"} /\ pc'[b] \in {"ret", "pick", "done", "wait", "drain"}
        /\ UNCHANGED <<que, tracked, ready, cur, running>>
        /\ pc[b] = "ret" => cur[b] = NoMessage
    BY <1>1, <1>7 DEF TrackQueue, LoadEnd, Exec, Goto
  <2> QED  BY <1>2, <1>3, <1>4, <2>1, IdleScan
<1> QED  BY <1>5, <1>6, <1>7

\* The backend polls or waits for an answer.
LEMMA AnswerFits ==
  ASSUME TypeInv, UpInv, LocalInv, ScanInv, OwnerInv, NEW b \in Backends, Drain(b) \/ Try(b) \/ Wait(b)
  PROVE  ScanInv'
<1>1. b \in Actors /\ pc \in [Actors -> BackendPC \cup ServerPC \cup CallPC]
  BY ActorKinds DEF TypeInv, ControlInv, CallTypeOK
<1>2. BackendStep(b) /\ UNCHANGED <<servq, waitq, device, lost, respq, closed>>
  BY QuietData DEF BackendStep, Drain, Try, Wait, TakeAnswer, NoAnswer, Dequeue
<1>3. /\ pc[b] \in {"drain", "try", "wait"} /\ pc'[b] \in {"drain", "load", "pick"}
      /\ \/ TakeAnswer(b)
         \/ NoAnswer(b)
  BY <1>1 DEF Drain, Try, Wait, TakeAnswer, NoAnswer, Goto
<1>4. Active(b) /\ Owner(b) /\ ScanOK(b) /\ que[b] \in Queues /\ cur[b] = NoMessage
  BY <1>3, OwnerQueue DEF Active, InScan, LocalInv, LocalOK, ScanInv, ScanOK
<1>5. \A c \in Backends \ {b} : Active(c) => qhead'[que[c]] = qhead[que[c]]
  <2>1. \A q \in Queues \ {que[b]} : qhead'[q] = qhead[q]
    BY <1>3 DEF TakeAnswer, NoAnswer, Dequeue, TypeInv, DataInv, QueueTypeOK
  <2>2. \A c \in Backends \ {b} : Active(c) => que[c] \in Queues \ {que[b]}
    BY <1>4, OwnerQueue DEF LocalInv, LocalOK, OwnerInv
  <2> QED  BY <2>1, <2>2
<1>6. Aside(b) /\ \A k \in Messages : ServerHas(k)' <=> ServerHas(k)
  BY <1>2, <1>5, QuietAside
<1>7. Sole(b)
  BY <1>2, BackendMoves
<1>8. ScanOK(b)'
  <2>1. CASE TakeAnswer(b)
    BY <1>3, <1>4, <1>6, <2>1, TakeAnswerScan
  <2>2. CASE NoAnswer(b)
    <3>1. UNCHANGED <<que, qhead, tracked, ready, cur, running, respq>> /\ tracked[b] \subseteq Messages
      BY <2>2 DEF NoAnswer, TypeInv, DataInv, TrackTypeOK
    <3> QED  BY <1>3, <1>4, <1>6, <3>1, ScanFrame
  <2> QED  BY <1>3, <2>1, <2>2
<1>9. ScanFits(b)
  BY <1>3, <1>8 DEF ScanFits
<1>10. PutsClosed'
  BY <1>2, <1>7, PutsKept DEF ScanInv
<1> QED  BY <1>1, <1>6, <1>7, <1>9, <1>10, ScansFit

\* The steps of a backend that touch no queue
LEMMA QuietScan ==
  ASSUME TypeInv, UpInv, BackendOnce, OwnInv, LocalInv, ScanInv, NEW b \in Backends,
         \/ BeginFails(b) \/ TrackQueue(b) \/ TrackQueueFails(b) \/ Timeout(b)
         \/ LoadEnd(b) \/ LoadFails(b) \/ Pick(b) \/ Cancel(b)
         \/ End(b) \/ AbortQueue(b) \/ AbortMessage(b) \/ AbortEnd(b) \/ Commit(b) \/ Exec(b)
         \/ BackendCall(b)
  PROVE  ScanInv'
<1>1. b \in Actors /\ pc \in [Actors -> BackendPC \cup ServerPC \cup CallPC]
  BY ActorKinds DEF TypeInv, ControlInv, CallTypeOK
<1>2. BackendStep(b) \/ BackendEvent(b)
  BY DEF BackendStep, BackendEvent
<1>3. UNCHANGED <<servq, waitq, device, lost, respq, qhead>> /\ \A q \in Queues : closed[q] => closed'[q]
  BY QuietData, QuietQueues
<1>4. Aside(b) /\ \A k \in Messages : ServerHas(k)' <=> ServerHas(k)
  BY <1>2, <1>3, QuietAside
<1>5. Sole(b)
  BY <1>2, BackendMoves
<1>6. PutsClosed'
  BY <1>3, <1>5, PutsKept DEF ScanInv
<1>7. ScanFits(b)
  <2>1. CASE BeginFails(b)
    <3>1. pc'[b] = "idle" /\ pc[b] = "idle" /\ UNCHANGED <<tracked, ready, cur, running>>
      BY <2>1 DEF BeginFails
    <3> QED  BY <3>1 DEF ScanFits, ScanInv, IdleOK, Active, InScan, InRelease
  <2>2. CASE Commit(b) \/ AbortEnd(b)
    <3>1. pc'[b] = "idle" /\ tracked'[b] = {} /\ ready'[b] = << >> /\ cur'[b] = NoMessage
          /\ running'[b] = 0
      BY <1>1, <2>2 DEF Commit, AbortEnd, Forget, Goto, TypeInv, DataInv, TrackTypeOK, ScanTypeOK
    <3> QED  BY <3>1 DEF ScanFits, IdleOK, Active, InScan, InRelease
  <2>3. CASE Pick(b)
    <3>1. pc[b] = "pick" /\ pc'[b] \in {"abort", "ret"}
      BY <1>1, <2>3 DEF Pick, Goto
    <3>2. CASE pc'[b] = "ret"
      <4>1. ScanOK(b)
        BY <3>1 DEF ScanInv, Active, InScan
      <4> QED  BY <1>4, <2>3, <3>2, <4>1, PickScan DEF ScanFits
    <3> QED  BY <1>4, <2>3, <3>1, <3>2, QuietFits
  <2>4. CASE Exec(b) /\ cur[b] # NoMessage
    <3>1. ScanOK(b) /\ pc'[b] = "putq"
      BY <1>1, <2>4 DEF ScanInv, Active, InScan, Exec, Call
    <3> QED  BY <1>4, <2>4, <3>1, ExecScan DEF ScanFits
  <2> QED  BY <1>4, <2>1, <2>2, <2>3, <2>4, QuietFits
<1> QED  BY <1>1, <1>4, <1>5, <1>6, <1>7, ScansFit

\* pgstrom_create_queue does not disturb the scans that run.
LEMMA BeginScans ==
  ASSUME TypeInv, TypeInv', UpInv, OwnInv, LocalInv, OwnerInv, QueueInv, ScanInv, NEW b \in Backends,
         Begin(b)
  PROVE  ScanInv'
<1>1. b \in Actors /\ (BackendStep(b) \/ BackendEvent(b))
  BY ActorKinds DEF BackendEvent
<1>2. PICK q \in Queues : /\ que'[b] = q /\ qhead'[q] = << >> /\ ~IsOpen(q) /\ Referrers(q) = {}
                          /\ \A p \in Queues \ {q} : closed'[p] = closed[p] /\ qhead'[p] = qhead[p]
  BY BeginRefs
<1>3. UNCHANGED <<servq, waitq, device, lost, respq, tracked, ready, cur, running>> /\ Sole(b)
      /\ pc[b] = "idle" /\ pc'[b] = "trackq"
  BY <1>1, BackendMoves, ActorKinds DEF Begin, Goto, TypeInv, ControlInv, CallTypeOK, BackendEvent
<1>4. \A c \in Backends \ {b} : Active(c) => qhead'[que[c]] = qhead[que[c]]
  <2>1. \A c \in Backends : Active(c) => que[c] \in Queues \ {q}
    BY <1>2, OwnerQueue, OpenOwner DEF LocalInv, LocalOK
  <2> QED  BY <1>2, <2>1
<1>5. Aside(b)
  BY <1>1, <1>3, <1>4, QuietAside
<1>6. IdleOK(b)'
  BY <1>3 DEF ScanInv, IdleOK
<1>7. ScanFits(b)
  BY <1>2, <1>3, <1>6, BeginScan DEF ScanFits
<1>8. PutsClosed'
  <2> SUFFICES ASSUME NEW s \in Servers, pc'[s] = "put" PROVE closed'[respq'[msg'[s]]]
    BY DEF PutsClosed
  <2>1. s \in Actors /\ pc[s] = "put" /\ msg'[s] = msg[s]
    BY <1>3, ActorKinds DEF Sole
  <2>2. msg[s] \in Messages /\ respq[msg[s]] \in Queues /\ closed[respq[msg[s]]]
    BY <2>1 DEF ScanInv, PutsClosed, TypeInv, ControlInv, HeldFilled, HoldPC, Filled
  <2>3. PICK m \in Messages : m = msg[s]
    BY <2>2
  <2>4. ServerHas(m)
    BY <2>1, <2>3 DEF ServerHas
  <2>5. live[m] /\ ~Releasing(m)
    BY <2>4 DEF OwnInv, UsedLive, ReleaseIsLast
  <2>6. m \in Referrers(respq[m])
    BY <2>5 DEF Referrers, Releasing, InRelease
  <2> QED  BY <1>2, <1>3, <2>1, <2>2, <2>3, <2>6
<1> QED  BY <1>1, <1>3, <1>5, <1>7, <1>8, ScansFit

\* A new message disturbs no other scan,
LEMMA LoadScans ==
  ASSUME TypeInv, UpInv, ServerOnce, BackendOnce, OwnInv, LocalInv, ScanInv, NEW b \in Backends, Load(b)
  PROVE  ScanInv'
<1>1. b \in Actors /\ BackendStep(b)
  BY ActorKinds DEF BackendStep
<1>2. PICK m \in Messages : Fills(b, m)
  BY LoadFills
<1>3. Sole(b) /\ UNCHANGED <<servq, waitq, device, lost, qhead, closed>>
  BY <1>1, <1>2, BackendMoves DEF Fills
<1>4. \A k \in Messages : ServerHas(k)' <=> ServerHas(k)
  BY <1>3, ServerAside
<1>5. ~live[m] /\ \A k \in Messages \ {m} : respq'[k] = respq[k]
  BY <1>2 DEF Fills, TypeInv, DataInv, MessageTypeOK
<1>6. ~ServerHas(m) /\ \A c \in Backends : m \notin Owns(c)
  BY <1>5, BackendPlaces DEF OwnInv, UsedLive
<1>7. \A c \in Backends : tracked[c] \subseteq Messages \ {m}
  BY <1>6 DEF Owns, TypeInv, DataInv, TrackTypeOK
<1>8. Aside(b)
  BY <1>1, <1>3, <1>4, <1>5, <1>7, BackendsAside DEF Aside
<1>9. pc[b] = "load" /\ pc'[b] \in {"send", "put"}
  BY <1>2 DEF Fills, Moves
<1>10. ScanFits(b)
  <2>1. CASE pc'[b] = "send"
    <3>1. ScanOK(b)
      BY <1>9 DEF ScanInv, Active, InScan
    <3> QED  BY <1>2, <1>4, <2>1, <3>1, LoadScan DEF ScanFits
  <2>2. CASE pc'[b] = "put"
    BY <2>2 DEF ScanFits, Active, InScan, InRelease
  <2> QED  BY <1>9, <2>1, <2>2
<1>11. PutsClosed'
  <2> SUFFICES ASSUME NEW s \in Servers, pc'[s] = "put" PROVE closed'[respq'[msg'[s]]]
    BY DEF PutsClosed
  <2>1. s \in Actors /\ pc[s] = "put" /\ msg'[s] = msg[s]
    BY <1>3, ActorKinds DEF Sole
  <2>2. msg[s] \in Messages /\ closed[respq[msg[s]]]
    BY <2>1 DEF ScanInv, PutsClosed, TypeInv, ControlInv, HeldFilled, HoldPC, Filled
  <2>3. msg[s] # m
    BY <1>6, <2>1 DEF ServerHas
  <2> QED  BY <1>3, <1>5, <2>1, <2>2, <2>3
<1> QED  BY <1>1, <1>3, <1>8, <1>10, <1>11, ScansFit

\* nor does its way to the server.
LEMMA SendScans ==
  ASSUME TypeInv, UpInv, ServerOnce, BackendOnce, OwnInv, LocalInv, ScanInv, NEW b \in Backends, Send(b)
  PROVE  ScanInv'
<1>1. b \in Actors /\ BackendStep(b)
  BY ActorKinds DEF BackendStep
<1>2. PICK m : m = msg[b] /\ Sends(b, m)
  BY SendSends
<1>3. Sole(b) /\ UNCHANGED <<qhead, respq, closed>> /\ pc[b] = "send" /\ pc'[b] \in {"try", "load"}
  BY <1>1, <1>2, BackendMoves DEF Sends
<1>4. ScanOK(b)
  BY <1>3 DEF ScanInv, Active, InScan
<1>5. Submits(b, m) /\ m \in AtHand(b)
  BY <1>2, <1>4, SendOwn
<1>6. m \in tracked[b] /\ m \in Messages
  BY <1>4, <1>5, AtHandOwned
<1>7. \A k \in Messages : ServerHas(k)' <=> ServerHas(k) \/ k = m
  BY <1>5 DEF Submits, OwnFrame, Quiet
<1>8. \A c \in Backends \ {b} : tracked[c] \subseteq Messages \ {m}
  BY <1>6 DEF BackendOnce, Owns, TypeInv, DataInv, TrackTypeOK
<1>9. Aside(b)
  BY <1>1, <1>3, <1>7, <1>8, BackendsAside DEF Aside
<1>10. ScanFits(b)
  BY <1>2, <1>3, <1>4, <1>5, <1>7, SendScan DEF ScanFits
<1>11. PutsClosed'
  BY <1>3, PutsKept DEF ScanInv
<1> QED  BY <1>1, <1>3, <1>9, <1>10, <1>11, ScansFit

(***************************************************************************)
(* The chunks of a scan, step by step: the server.                         *)
(***************************************************************************)
\* Steps that neither answer nor put a message
LEMMA ServerQuietScans ==
  ASSUME TypeInv, ScanInv, NEW a \in Actors, a \notin Backends, Sole(a),
         UNCHANGED <<que, tracked, ready, cur, running, qhead, respq, closed>>,
         \A k \in Messages : ServerHas(k)' <=> ServerHas(k),
         pc'[a] = "put" => closed[respq[msg'[a]]]
  PROVE  ScanInv'
<1>1. \A c \in Backends : tracked[c] \subseteq Messages
  BY DEF TypeInv, DataInv, TrackTypeOK
<1>2. Aside(a)
  BY <1>1 DEF Aside
<1>3. PutsClosed'
  BY ActorKinds DEF ScanInv, PutsClosed, Sole
<1> QED  BY <1>2, <1>3, ScansFit

LEMMA InsideScans ==
  ASSUME TypeInv, ScanInv, NEW a \in Servers, ServerMoves, Inside(a)
  PROVE  ScanInv'
<1>1. a \in Actors /\ a \notin Backends
  BY ActorKinds
<1>2. Sole(a)
  BY DEF Inside, Sole
<1> QED  BY <1>1, <1>2, ServerQuietScans DEF Inside, ServerMoves

LEMMA ReleaseScans ==
  ASSUME TypeInv, ScanInv, NEW a \in Servers, PutQueue(a) \/ PutQueueLink(a) \/ FreeMessage(a),
         UNCHANGED <<scanVars, trackVars, clservVars>>
  PROVE  ScanInv'
<1>1. a \in Actors /\ a \notin Backends
  BY ActorKinds
<1>2. Sole(a) /\ UNCHANGED <<que, tracked, ready, cur, running, qhead, respq, closed, servq, waitq,
                             device, lost>>
  BY <1>1, SoleStep DEF PutQueue, PutQueueLink, FreeMessage, Return
<1>3. pc[a] \notin ServePC /\ pc'[a] \in {"linkq", "freem"} \cup ReturnPC
  BY <1>1 DEF ServePC, PutQueue, PutQueueLink, FreeMessage, Return, Goto, TypeInv, ControlInv, CallTypeOK
<1>4. \A s \in Servers : Hand(s)' = Hand(s)
  BY <1>2, <1>3, ActorKinds DEF Sole, Hand, ServePC, ReturnPC
<1>5. \A k \in Messages : ServerHas(k)' <=> ServerHas(k)
  BY <1>2, <1>4, ServerKept
<1> QED  BY <1>1, <1>2, <1>3, <1>5, ServerQuietScans DEF ReturnPC

\* A server thread drops or keeps the message in its hands.
LEMMA HandStays ==
  ASSUME TypeInv, UpInv, ServerOnce, NEW a \in Servers, NEW m \in Messages, Hand(a) = {m},
         NEW l, Moves(a, l, m, ret[a]), UNCHANGED <<servq, waitq, device, lost>>
  PROVE  /\ \A k \in Messages \ {m} : ServerHas(k)' <=> ServerHas(k)
         /\ ServerHas(m) /\ (ServerHas(m)' <=> l \in ServePC)
<1>1. a \in Actors /\ \A c \in Servers \ {a} : Hand(c)' = Hand(c)
  BY HandStep, ActorKinds
<1>2. CASE l \in ServePC
  <2>1. \A s \in Servers : Hand(s)' = Hand(s)
    BY <1>1, <1>2, HandStep
  <2>2. \A k \in Messages : ServerHas(k)' = ServerHas(k)
    BY <2>1, ServerKept
  <2>3. ServerHas(m)
    BY ServerPlaces
  <2> QED  BY <1>2, <2>2, <2>3
<1>3. CASE l \notin ServePC
  <2>1. Hand(a)' = {}
    BY <1>1, <1>3, HandStep
  <2> QED  BY <1>1, <1>3, <2>1, HandDropped DEF UpInv
<1> QED  BY <1>2, <1>3

\* The scan that will read the answer m
LEMMA AnswerOwner ==
  ASSUME LocalInv, OwnerInv, QueueInv, ScanInv, NEW m \in Messages, BackendHas(m), ~closed[respq[m]],
         NEW b \in Backends, Active(b)
  PROVE  m \in tracked[b] <=> respq[m] = que[b]
<1>1. PICK c \in Backends : m \in Owns(c)
  BY BackendPlaces
<1>2. Owner(c) /\ respq[m] = que[c] /\ m \notin orphans[c]
  BY <1>1 DEF QueueInv, HeldOpen
<1>3. Owner(b) /\ (que[b] = que[c] => b = c)
  BY <1>2 DEF LocalInv, LocalOK, OwnerInv
<1>4. PutHand(b) = {}
  BY DEF PutHand, Active, InScan, InRelease
<1>5. m \in tracked[b] => respq[m] = que[b]
  BY DEF ScanInv, ScanOK
<1> QED  BY <1>1, <1>2, <1>3, <1>4, <1>5 DEF Owns

\* Its list of answers grows.
LEMMA ReplyScan ==
  ASSUME TypeInv, NEW b \in Backends, ScanOK(b), que[b] \in Queues, NEW m \in tracked[b], ServerHas(m),
         qhead'[que[b]] = Append(qhead[que[b]], m), ~ServerHas(m)',
         UNCHANGED <<que, tracked, ready, cur, running, respq>>,
         pc'[b] = pc[b], msg'[b] = msg[b],
         \A k \in Messages \ {m} : ServerHas(k)' <=> ServerHas(k)
  PROVE  ScanOK(b)'
<1>1. /\ qhead[que[b]] \in Seq(Messages) /\ tracked[b] \subseteq Messages /\ m \in Messages
      /\ m \notin Range(qhead[que[b]])
  BY DEF TypeInv, DataInv, QueueTypeOK, TrackTypeOK, ScanOK
<1>2. Range(qhead'[que[b]]) = Range(qhead[que[b]]) \cup {m} /\ Once(qhead'[que[b]])
  BY <1>1, RangeAppend DEF ScanOK
<1>3. AtHand(b)' = AtHand(b)
  BY DEF AtHand
<1>4. InFlight(b)' = InFlight(b)
  <2>1. InFlight(b)' = {k \in tracked[b] : ServerHas(k)' \/ k \in Range(qhead'[que[b]])}
    BY DEF InFlight
  <2>2. \A k \in tracked[b] : k \in InFlight(b)' <=> k \in InFlight(b)
    BY <1>1, <1>2, <2>1 DEF InFlight
  <2>3. InFlight(b) \subseteq tracked[b] /\ InFlight(b)' \subseteq tracked[b]
    BY <2>1 DEF InFlight
  <2> QED  BY <2>2, <2>3
<1>5. /\ Range(qhead'[que[b]]) \subseteq tracked[b] /\ \A k \in Range(qhead'[que[b]]) : ~ServerHas(k)'
  BY <1>1, <1>2 DEF ScanOK
<1> QED  BY <1>2, <1>3, <1>4, <1>5 DEF ScanOK, Once

\* pgstrom_reply_message and pgstrom_put_message of the server
LEMMA ServerPutScans ==
  ASSUME TypeInv, UpInv, ServerOnce, OwnInv, LocalInv, OwnerInv, QueueInv, ScanInv, NEW a \in Servers,
         Reply(a) \/ PutMessage(a), UNCHANGED <<scanVars, trackVars, clservVars>>
  PROVE  ScanInv'
<1>1. a \in Actors /\ a \notin Backends /\ Backends \subseteq Actors
  BY ActorKinds
<1>2. PICK m \in Messages, q \in Queues : m = msg[a] /\ q = respq[m]
  BY <1>1 DEF Reply, PutMessage, TypeInv, ControlInv, HeldFilled, HoldPC, Filled
<1>3. pc[a] \in {"reply", "put"} /\ Hand(a) = {m}
  BY <1>2 DEF Reply, PutMessage, Hand, ServePC
<1>4. ServerHas(m) /\ live[m] /\ ~Releasing(m)
  BY <1>3, ServerPlaces DEF OwnInv, UsedLive, ReleaseIsLast
<1>5. mref[m] = 1 + B2N(BackendHas(m))
  BY <1>4 DEF OwnInv, MessageRefs, B2N
<1>6. Sole(a) /\ UNCHANGED <<servq, waitq, device, lost, que, tracked, ready, cur, running, msg, ret,
                             closed, respq>>
  BY <1>1, SoleStep DEF Reply, PutMessage, Return
<1>7. PICK l \in {"ub", "put", "putq"} \cup ReturnPC : Moves(a, l, m, ret[a])
  <2>1. \E l \in {"ub", "put", "putq"} \cup ReturnPC : Goto(a, l)
    BY <1>1 DEF Reply, PutMessage, Return, TypeInv, ControlInv, CallTypeOK
  <2> QED  BY <1>1, <1>2, <1>6, <2>1, GotoStep
<1>8. pc'[a] = l
  BY <1>7 DEF Moves
<1>9. /\ \A k \in Messages \ {m} : ServerHas(k)' <=> ServerHas(k)
      /\ ServerHas(m) /\ (ServerHas(m)' <=> l \in ServePC)
  BY <1>3, <1>6, <1>7, HandStays
<1>10. l = "put" => closed[q]
  BY <1>2, <1>4, <1>8, <1>1
  DEF Reply, PutMessage, Goto, Return, ReturnPC, TypeInv, ControlInv, CallTypeOK
<1>11. PutsClosed'
  BY <1>1, <1>2, <1>6, <1>8, <1>10, ActorKinds DEF ScanInv, PutsClosed, Sole
<1>12. CASE UNCHANGED qhead
  <2>1. l \in ServePC \/ closed[q] \/ ~BackendHas(m)
    <3>1. CASE pc[a] = "put"
      BY <1>2, <3>1 DEF ScanInv, PutsClosed
    <3>2. CASE pc[a] = "reply"
      <4>1. qhead \in [Queues -> Seq(Messages)]
        BY DEF TypeInv, DataInv, QueueTypeOK
      <4>2. Len(Append(qhead[q], m)) # Len(qhead[q])
        BY <4>1
      <4>3. qhead' # [qhead EXCEPT ![q] = Append(@, m)]
        BY <1>12, <4>1, <4>2
      <4>4. Goto(a, "ub") \/ Goto(a, "put") \/ mref[m] <= 1
        BY <1>2, <3>2, <4>3 DEF Reply, PutMessage
      <4>5. pc'[a] \in {"ub", "put"} \/ mref[m] <= 1
        BY <1>1, <4>4 DEF Goto, TypeInv, ControlInv, CallTypeOK
      <4> QED  BY <1>5, <1>8, <4>5 DEF B2N, ServePC
    <3> QED  BY <1>3, <3>1, <3>2
  <2>2. ASSUME NEW c \in Backends, Active(c), NEW k \in tracked[c] PROVE ServerHas(k)' <=> ServerHas(k)
    <3>1. k \in Messages /\ BackendHas(k)
      BY <2>2 DEF TypeInv, DataInv, TrackTypeOK, BackendHas
    <3>2. respq[k] = que[c] /\ ~closed[que[c]]
      BY <2>2 DEF ScanInv, ScanOK, LocalInv, LocalOK, OwnerInv
    <3> QED  BY <1>2, <1>9, <2>1, <3>1, <3>2
  <2>3. Aside(a)
    BY <1>6, <1>12, <2>2 DEF Aside
  <2> QED  BY <1>1, <1>6, <1>11, <2>3, ScansFit
<1>13. CASE qhead' # qhead
  <2>1. /\ ~closed[q] /\ mref[m] > 1 /\ qhead' = [qhead EXCEPT ![q] = Append(@, m)] /\ Return(a)
    BY <1>2, <1>13 DEF Reply, PutMessage
  <2>2. BackendHas(m) /\ l \notin ServePC
    BY <1>1, <1>5, <1>8, <2>1 DEF B2N, Return, Goto, ServePC, ReturnPC, TypeInv, ControlInv, CallTypeOK
  <2>3. qhead'[q] = Append(qhead[q], m) /\ \A p \in Queues \ {q} : qhead'[p] = qhead[p]
    BY <2>1 DEF TypeInv, DataInv, QueueTypeOK
  <2>4. ASSUME NEW c \in Backends PROVE ScanFits(c)
    <3>1. pc'[c] = pc[c] /\ msg'[c] = msg[c] /\ ret'[c] = ret[c]
      BY <1>1, <1>6 DEF Sole
    <3>2. (Active(c)' <=> Active(c)) /\ (pc'[c] = "idle" => IdleOK(c)')
      BY <1>6, <3>1 DEF Active, InScan, InRelease, ScanInv, IdleOK
    <3>3. ASSUME Active(c) PROVE ScanOK(c)'
      <4>1. ScanOK(c) /\ que[c] \in Queues /\ tracked[c] \subseteq Messages
        BY <3>3, OwnerQueue DEF ScanInv, LocalInv, LocalOK, TypeInv, DataInv, TrackTypeOK
      <4>2. m \in tracked[c] <=> que[c] = q
        BY <1>2, <2>1, <2>2, <3>3, AnswerOwner
      <4>3. CASE que[c] = q
        BY <1>6, <1>9, <2>2, <2>3, <3>1, <4>1, <4>2, <4>3, ReplyScan
      <4>4. CASE que[c] # q
        <5>1. qhead'[que[c]] = qhead[que[c]]
          BY <2>3, <4>1, <4>4
        <5>2. \A k \in tracked[c] : (ServerHas(k)' <=> ServerHas(k)) /\ respq'[k] = respq[k]
          BY <1>6, <1>9, <4>1, <4>2, <4>4
        <5>3. pc'[c] # "ret" => cur[c] = NoMessage
          BY <3>1, <4>1 DEF ScanOK
        <5> QED  BY <1>6, <3>1, <4>1, <5>1, <5>2, <5>3, ScanFrame
      <4> QED  BY <4>3, <4>4
    <3> QED  BY <3>2, <3>3 DEF ScanFits
  <2> QED  BY <1>11, <2>4 DEF ScanInv, ScanFits
<1> QED  BY <1>12, <1>13

(***************************************************************************)
(* The invariant holds.                                                    *)
(***************************************************************************)
LEMMA OwnStepKeeps == ASSUME TypeInv, OwnInv, OwnStep PROVE OwnInv'
BY OwnKept, OwnStepInv DEF OwnStep, TypeInv, DataInv, MessageTypeOK

\* A routine of mqueue.c does not stop the server.
LEMMA CallUp ==
  ASSUME TypeInv, UpInv, NEW a \in Actors,
         Reply(a) \/ PutMessage(a) \/ PutQueue(a) \/ PutQueueLink(a) \/ FreeMessage(a),
         UNCHANGED <<scanVars, trackVars, clservVars>>
  PROVE  UpInv'
<1>1. a # Main /\ Sole(a) /\ UNCHANGED <<stopping, sclosed, lost, prog>>
  BY SoleStep DEF UpInv, Reply, PutMessage, PutQueue, PutQueueLink, FreeMessage, Return
<1>2. pc'[a] # "exit"
  BY DEF Reply, PutMessage, PutQueue, PutQueueLink, FreeMessage, Return, Goto, TypeInv, ControlInv,
     CallTypeOK, ReturnPC
<1> QED  BY <1>1, <1>2, ActorKinds DEF UpInv, Sole

\* What a step of the specification keeps, and what it does to the messages
RefStep ==
  /\ UpInv' /\ ServerOnce' /\ BackendOnce' /\ OwnStep
  /\ LocalInv' /\ OwnerInv' /\ QueueInv' /\ ScanInv'

LEMMA BackendCallRef ==
  ASSUME RefInv, TypeInv', NEW b \in Backends, BackendCall(b)
  PROVE  RefStep
<1> USE DEF RefInv
<1>1. b \in Actors /\ UNCHANGED <<scanVars, trackVars, clservVars>>
  BY ActorKinds DEF BackendCall
<1>2. ScanInv'
  BY QuietScan
<1>3. CASE CloseQueue(b, que[b]) \/ CloseFree(b, que[b])
  <2>1. UpInv' /\ ServerOnce' /\ BackendOnce' /\ SameOwners
    BY <1>1, <1>3, PlainSteps, PlainOwn
  <2>2. LocalInv' /\ OwnerInv' /\ QueueInv'
    BY <1>1, <1>3, CloseQueueRefs, FreeQueueRefs
  <2> QED  BY <1>2, <2>1, <2>2 DEF RefStep, OwnStep
<1>4. CASE PutMessage(b)
  BY <1>1, <1>2, <1>4, BackendPutOwn, OwningCalm DEF RefStep
<1>5. CASE PutQueue(b) \/ PutQueueLink(b) \/ FreeMessage(b)
  <2>1. UpInv' /\ ServerOnce' /\ BackendOnce' /\ OwnStep
    BY <1>1, <1>5, CallUp, ReleaseOwn
  <2>2. LocalInv' /\ OwnerInv' /\ QueueInv'
    BY <1>1, <1>5, PutQueueRefs, FreeQueueRefs, FreeMessageRefs
  <2> QED  BY <1>2, <2>1, <2>2 DEF RefStep
<1> QED  BY <1>3, <1>4, <1>5 DEF BackendCall

LEMMA BackendRef ==
  ASSUME RefInv, TypeInv', NEW b \in Backends, BackendStep(b) \/ BackendEvent(b)
  PROVE  RefStep
<1> USE DEF RefInv
<1>1. CASE \/ BeginFails(b) \/ TrackQueue(b) \/ TrackQueueFails(b)
           \/ Drain(b) \/ Try(b) \/ Wait(b) \/ Timeout(b) \/ LoadEnd(b) \/ LoadFails(b)
           \/ Pick(b) \/ Cancel(b) \/ End(b) \/ AbortQueue(b) \/ AbortEnd(b)
  <2>1. UpInv' /\ ServerOnce' /\ BackendOnce' /\ SameOwners
    BY <1>1, PlainSteps, PlainOwn
  <2>2. LocalInv' /\ OwnerInv' /\ QueueInv'
    BY <1>1, BackendCalm
  <2>3. ScanInv'
    BY <1>1, QuietScan, AnswerFits
  <2> QED  BY <2>1, <2>2, <2>3 DEF RefStep, OwnStep
<1>2. CASE Begin(b)
  <2>1. UpInv' /\ ServerOnce' /\ BackendOnce' /\ SameOwners
    BY <1>2, PlainSteps, PlainOwn
  <2> QED  BY <1>2, <2>1, BeginRefs, BeginScans DEF RefStep, OwnStep
<1>3. CASE Load(b)
  <2>1. PICK m \in Messages : Fills(b, m)
    BY <1>3, LoadFills
  <2>2. UpInv' /\ ServerOnce' /\ BackendOnce' /\ Creates(b, m)
    BY <2>1, LoadOwn
  <2> QED  BY <1>3, <2>1, <2>2, ActorKinds, LoadRefs, LoadScans DEF RefStep, OwnStep
<1>4. CASE Send(b)
  <2>1. ScanOK(b)
    BY <1>4 DEF ScanInv, Active, InScan, Send
  <2>2. Sends(b, msg[b])
    BY <1>4, SendSends
  <2>3. PICK m : m = msg[b] /\ Sends(b, m)
    BY <2>2
  <2>4. UpInv' /\ ServerOnce' /\ BackendOnce' /\ Submits(b, m) /\ m \in AtHand(b)
    BY <2>1, <2>3, SendOwn
  <2>5. m \in Messages
    BY <2>1, <2>4, AtHandOwned
  <2> QED  BY <1>4, <2>4, <2>5, ActorKinds, OwningCalm, SendScans DEF RefStep, OwnStep
<1>5. CASE Exec(b)
  <2>1. ScanOK(b)
    BY <1>5 DEF ScanInv, Active, InScan, Exec
  <2> QED  BY <1>5, <2>1, ExecOwn, OwningCalm, QuietScan DEF RefStep
<1>6. CASE AbortMessage(b)
  BY <1>6, AbortMessageOwn, OwningCalm, QuietScan DEF RefStep, OwnStep
<1>7. CASE Commit(b)
  BY <1>7, CommitOwn, OwningCalm, QuietScan DEF RefStep, OwnStep
<1> QED  BY <1>1, <1>2, <1>3, <1>4, <1>5, <1>6, <1>7, BackendCallRef DEF BackendStep, BackendEvent

LEMMA ServerRef ==
  ASSUME Undisturbed, RefInv, TypeInv',
         (\E t \in Threads : ThreadStep(t)) \/ (\E d \in Drivers : DriverStep(d))
  PROVE  RefStep
<1> USE DEF RefInv
<1>1. ASSUME NEW a \in Servers, UpInv', ServerMoves, Inside(a) PROVE RefStep
  BY <1>1, InsideOwn, InsideCalm, InsideScans DEF RefStep, OwnStep, ServerMoves
<1>2. ASSUME NEW a \in Servers, ServerCall(a) PROVE RefStep
  <2>1. a \in Actors /\ UNCHANGED <<scanVars, trackVars, clservVars>>
    BY <1>2, ActorKinds DEF ServerCall
  <2>2. CASE Reply(a) \/ PutMessage(a)
    <3>1. UpInv'
      BY <2>1, <2>2, CallUp
    <3>2. ServerOnce' /\ BackendOnce' /\ OwnStep
      BY <2>1, <2>2, ServerPutOwn DEF UpInv
    <3> QED  BY <2>1, <2>2, <3>1, <3>2, ServerPutCalm, ServerPutScans DEF RefStep
  <2>3. CASE PutQueue(a) \/ PutQueueLink(a) \/ FreeMessage(a)
    <3>1. UpInv' /\ ServerOnce' /\ BackendOnce' /\ OwnStep
      BY <2>1, <2>3, CallUp, ReleaseOwn
    <3>2. LocalInv' /\ OwnerInv' /\ QueueInv'
      BY <2>1, <2>3, PutQueueRefs, FreeQueueRefs, FreeMessageRefs
    <3> QED  BY <2>1, <2>3, <3>1, <3>2, ReleaseScans DEF RefStep
  <2> QED  BY <1>2, <2>2, <2>3 DEF ServerCall
<1>3. ASSUME NEW t \in Threads, ThreadStep(t) PROVE RefStep
  <2>1. t \in Servers
    BY ActorKinds
  <2>2. CASE ServerCall(t)
    BY <1>2, <2>1, <2>2
  <2>3. CASE ~ServerCall(t)
    <3>1. UpInv' /\ ServerMoves /\ Inside(t)
      BY <1>3, <2>1, <2>3, LoopInside, ProcessInside, CallbackInside DEF ThreadStep
    <3> QED  BY <1>1, <2>1, <3>1
  <2> QED  BY <2>2, <2>3
<1>4. ASSUME NEW d \in Drivers, DriverStep(d) PROVE RefStep
  <2>1. d \in Servers
    BY ActorKinds
  <2>2. CASE ServerCall(d)
    BY <1>2, <2>1, <2>2
  <2>3. CASE ~ServerCall(d)
    <3>1. UpInv' /\ ServerMoves /\ Inside(d)
      BY <1>4, <2>1, <2>3, CallbackInside DEF DriverStep
    <3> QED  BY <1>1, <2>1, <3>1
  <2> QED  BY <2>2, <2>3
<1> QED  BY <1>3, <1>4

LEMMA NextRef ==
  ASSUME Undisturbed, RefInv, Next PROVE RefInv' /\ OwnStep
<1>1. TypeInv'
  BY NextTypeInv DEF RefInv
<1>2. RefStep
  <2>1. ~Sigterm /\ ~MainStep
    BY NoShutdown DEF RefInv
  <2>2. CASE \E b \in Backends : BackendStep(b) \/ BackendEvent(b)
    BY <1>1, <2>2, BackendRef
  <2> QED  BY <1>1, <2>1, <2>2, ServerRef DEF Next
<1>3. OwnInv'
  BY <1>2, OwnStepKeeps DEF RefInv, RefStep
<1> QED  BY <1>1, <1>2, <1>3 DEF RefInv, RefStep

LEMMA InitRefInv == Init => RefInv
<1> SUFFICES ASSUME Init PROVE RefInv
  OBVIOUS
<1>1. TypeInv
  BY InitTypeInv
<1>2. Range(<< >>) = {} /\ Len(<< >>) = 0
  BY DEF Range
<1>3. /\ \A a \in Actors : pc[a] \in {"loop", "join", "idle"} /\ msg[a] = NoMessage
      /\ \A t \in Threads : pc[t] = "loop"
      /\ pc[Main] = "join" /\ \A b \in Backends : pc[b] = "idle" /\ b \in Actors
  BY ActorsAssumption, ActorKinds DEF Init, Actors, Servers
<1>4. /\ \A b \in Backends : /\ que[b] = NoQueue /\ cur[b] = NoMessage /\ ready[b] = << >>
                             /\ running[b] = 0 /\ ~qtracked[b] /\ tracked[b] = {} /\ orphans[b] = {}
      /\ servq = << >> /\ waitq = << >> /\ device = {} /\ lost = {} /\ freelist = << >>
      /\ ~stopping /\ ~sclosed /\ prog = "none"
      /\ \A q \in Queues : qref[q] = 0
      /\ \A m \in Messages : ~live[m]
  BY DEF Init, MQueueInit
<1>5. \A m : ~ServerHas(m) /\ ~BackendHas(m) /\ ~Releasing(m)
  BY <1>2, <1>3, <1>4, ActorKinds DEF ServerHas, BackendHas, Releasing, InRelease
<1>6. UpInv
  BY <1>3, <1>4 DEF UpInv
<1>7. ServerOnce
  BY <1>2, <1>3, <1>4, ActorKinds DEF ServerOnce, Once, Hand, ServePC
<1>8. BackendOnce
  BY <1>3, <1>4 DEF BackendOnce, Owns, PutHand
<1>9. OwnInv
  BY <1>3, <1>4, <1>5 DEF OwnInv, MessageRefs, ReleaseIsLast, UsedLive, InRelease
<1>10. \A b \in Backends : ~Owner(b) /\ ~Active(b)
  BY <1>3, <1>4 DEF Owner, Active, InScan, InRelease
<1>11. LocalInv
  BY <1>3, <1>4, <1>10 DEF LocalInv, LocalOK, InRelease
<1>12. NoQueue \notin Queues
  BY DEF NoQueue, Queues
<1>13. OwnerInv
  BY <1>4, <1>10, <1>12 DEF OwnerInv
<1>14. QueueInv
  <2>1. ASSUME NEW q \in Queues PROVE ~IsOpen(q) /\ Referrers(q) = {}
    BY <1>4, <1>12 DEF IsOpen, Referrers
  <2>2. QueueRefs
    <3>1. ASSUME NEW q \in Queues
          PROVE  qref[q] = B2N(IsOpen(q)) + Cardinality(Referrers(q))
      <4>1. Cardinality(Referrers(q)) = 0
        BY <2>1, FS_EmptySet
      <4>2. B2N(IsOpen(q)) = 0
        BY <2>1 DEF B2N
      <4> QED  BY <1>4, <4>1, <4>2
    <3> QED  BY <3>1 DEF QueueRefs
  <2>3. TransitInv
    BY <1>3 DEF TransitInv, Links
  <2>4. TableInv
    BY <1>2, <1>4 DEF TableInv
  <2>5. HeldOpen
    BY <1>3, <1>4 DEF HeldOpen, Owns, PutHand
  <2> QED  BY <2>2, <2>3, <2>4, <2>5 DEF QueueInv
<1>15. ScanInv
  BY <1>3, <1>4, <1>10, ActorKinds DEF ScanInv, IdleOK, PutsClosed
<1> QED  BY <1>1, <1>6, <1>7, <1>8, <1>9, <1>11, <1>13, <1>14, <1>15 DEF RefInv

LEMMA StutterRefInv == ASSUME RefInv, UNCHANGED vars PROVE RefInv'
<1> USE DEF vars
<1>1. TypeInv' /\ UpInv'
  BY NextTypeInv DEF RefInv, UpInv
<1>2. \A m : (ServerHas(m)' <=> ServerHas(m)) /\ (BackendHas(m)' <=> BackendHas(m))
  BY DEF ServerHas, BackendHas
<1>3. \A a \in Actors : InRelease(a)' <=> InRelease(a)
  BY DEF InRelease
<1>4. SameOwners
  BY <1>2, <1>3 DEF SameOwners, Quiet, KeepsRelease
<1>5. OwnInv'
  BY <1>4, OwnKept DEF RefInv
<1>6. ServerOnce' /\ BackendOnce'
  BY DEF RefInv, ServerOnce, Once, Hand, BackendOnce, Owns, PutHand
<1>7. LocalInv' /\ OwnerInv'
  BY DEF RefInv, LocalInv, LocalOK, OwnerInv, Owner, Active, InScan, InRelease
<1>8. QueueRefs' /\ HeldOpen'
  <2>1. \A q \in Queues : (IsOpen(q)' <=> IsOpen(q)) /\ Referrers(q)' = Referrers(q)
    BY DEF IsOpen, Referrers
  <2>2. QueueRefs'
    BY <2>1 DEF RefInv, QueueInv, QueueRefs, B2N
  <2> QED  BY <2>2 DEF RefInv, QueueInv, HeldOpen, Owns, PutHand, Owner
<1>9. TransitInv' /\ TableInv'
  BY DEF RefInv, QueueInv, TransitInv, Links, TableInv
<1>10. ScanInv'
  <2>1. \A b \in Backends : (Active(b)' <=> Active(b)) /\ (IdleOK(b)' <=> IdleOK(b))
    BY DEF Active, InScan, InRelease, IdleOK
  <2>2. ASSUME NEW b \in Backends, ScanOK(b) PROVE ScanOK(b)'
    BY <1>2, <2>2, ScanFrame DEF ScanOK
  <2>3. PutsClosed'
    BY DEF RefInv, ScanInv, PutsClosed
  <2> QED  BY <2>1, <2>2, <2>3 DEF RefInv, ScanInv
<1> QED  BY <1>1, <1>5, <1>6, <1>7, <1>8, <1>9, <1>10 DEF RefInv, QueueInv

LEMMA RefInvHolds == ASSUME Undisturbed PROVE Spec => []RefInv
<1>1. Init => RefInv
  BY InitRefInv
<1>2. RefInv /\ [Next]_vars => RefInv'
  BY NextRef, StutterRefInv
<1> QED  BY <1>1, <1>2, PTL DEF Spec

(***************************************************************************)
(* Theorems.  They assume that the server is not told to stop and that     *)
(* clBuildProgram does not fail before its callback (Undisturbed), and     *)
(* hold for every other behaviour of the environment: scans that end       *)
(* early, aborts that visit the tracked messages in any order, malloc      *)
(* failures, timeouts, cancellations and failing trackers.                 *)
(***************************************************************************)
\* The counter of a message is the number of its users: pgstrom_enqueue_message,
\* pgstrom_reply_message and pgstrom_put_message count right, whoever is first.
THEOREM MessagesCounted == ASSUME Undisturbed PROVE Spec => []MessageRefs
<1>1. RefInv => MessageRefs
  BY DEF RefInv, OwnInv
<1> QED  BY <1>1, RefInvHolds, PTL

\* cb_release runs once for a message, after its last user has dropped it.
THEOREM ReleasedLast == ASSUME Undisturbed PROVE Spec => []ReleaseIsLast
<1>1. RefInv => ReleaseIsLast
  BY DEF RefInv, OwnInv
<1> QED  BY <1>1, RefInvHolds, PTL

\* The counter of a queue counts its creator until pgstrom_close_queue, and
\* the messages that will be returned to it until pgstrom_put_queue.
THEOREM QueuesCounted == ASSUME Undisturbed PROVE Spec => []QueueRefs
<1>1. RefInv => QueueRefs
  BY DEF RefInv, QueueInv
<1> QED  BY <1>1, RefInvHolds, PTL

\* A queue of the free list is there once and unused: pgstrom_create_queue
\* never hands out a queue that a scan or a message still knows.
THEOREM FreeListUnused == ASSUME Undisturbed PROVE Spec => []FreeQueuesUnused
<1>1. ASSUME RefInv PROVE FreeQueuesUnused
  <2>1. \A q \in Range(freelist) : q \in Queues /\ qref[q] = 0
    BY <1>1, RangeOf DEF RefInv, TypeInv, DataInv, TableTypeOK, QueueInv, TableInv
  <2>2. \A q \in Range(freelist) : ~IsOpen(q)
    BY <1>1, <2>1, ZeroRefs DEF RefInv, QueueInv
  <2>3. \A q \in Range(freelist), a \in Actors : ~Links(a, q)
    BY <1>1, <2>1 DEF RefInv, QueueInv, TransitInv
  <2>4. \A q \in Range(freelist) : ~InTransit(q)
    BY <2>3, ActorKinds DEF InTransit, Links
  <2> QED  BY <1>1, <2>1, <2>2, <2>4 DEF FreeQueuesUnused, RefInv, QueueInv, TableInv
<1> QED  BY <1>1, RefInvHolds, PTL

\* num_running is the number of chunks with the server or among the answers,
\* and gpuscan_exec knows where each of its chunks is.
THEOREM ChunksAccounted == ASSUME Undisturbed PROVE Spec => []AnswersAccounted
<1>1. RefInv => AnswersAccounted
  BY DEF RefInv, ScanInv, ScanOK, Active, AnswersAccounted
<1> QED  BY <1>1, RefInvHolds, PTL

(***************************************************************************)
(* Shared ownership: the steps of OwnStep are steps of SharedMessage.      *)
(***************************************************************************)
\* A message that a step leaves alone has the same owners.
LEMMA OwnedKept ==
  ASSUME NEW k \in Messages, Quiet(k), Releasing(k)' <=> Releasing(k)
  PROVE  MemoryOf(k)' = MemoryOf(k) /\ UsersOf(k)' = UsersOf(k)
<1>1. /\ live'[k] <=> live[k]
      /\ ServerHas(k)' <=> ServerHas(k)
      /\ BackendHas(k)' <=> BackendHas(k)
  BY DEF Quiet
<1>2. MemoryOf(k)' = MemoryOf(k)
  BY <1>1 DEF MemoryOf
<1>3. UsersOf(k)' = UsersOf(k)
  BY <1>1 DEF UsersOf
<1> QED  BY <1>2, <1>3

\* A step changes the mapped variables at one message at most.
LEMMA OwnersAt ==
  ASSUME NEW m \in Messages,
         \A k \in Messages \ {m} : MemoryOf(k)' = MemoryOf(k) /\ UsersOf(k)' = UsersOf(k)
  PROVE  /\ [k \in Messages |-> MemoryOf(k)]' =
              [[k \in Messages |-> MemoryOf(k)] EXCEPT ![m] = MemoryOf(m)']
         /\ [k \in Messages |-> UsersOf(k)]' =
              [[k \in Messages |-> UsersOf(k)] EXCEPT ![m] = UsersOf(m)']
OBVIOUS

\* Its owners before and after each kind of step
LEMMA OwnersMoved ==
  ASSUME TypeInv, OwnInv, NEW a \in Actors, NEW m \in Messages
  PROVE  /\ Creates(a, m) => /\ MemoryOf(m) = "free" /\ MemoryOf(m)' = "used"
                             /\ UsersOf(m)' = {"backend"}
         /\ Submits(a, m) => /\ MemoryOf(m) = "used" /\ MemoryOf(m)' = "used"
                             /\ UsersOf(m) = {"backend"} /\ UsersOf(m)' = {"backend", "server"}
         /\ Drops(a, m) =>
              \E u \in {"backend", "server"} :
                 /\ MemoryOf(m) = "used" /\ u \in UsersOf(m) /\ UsersOf(m)' = UsersOf(m) \ {u}
                 /\ MemoryOf(m)' = IF UsersOf(m) = {u} THEN "released" ELSE "used"
         /\ Frees(a, m) => /\ MemoryOf(m) = "released" /\ MemoryOf(m)' = "free"
                           /\ UsersOf(m) = {} /\ UsersOf(m)' = {}
<1>1. /\ live[m] /\ ~Releasing(m) => mref[m] = B2N(ServerHas(m)) + B2N(BackendHas(m))
      /\ ServerHas(m) \/ BackendHas(m) => live[m]
      /\ Releasing(m) => live[m] /\ ~ServerHas(m) /\ ~BackendHas(m)
      /\ \A a1, a2 \in Actors :
           InRelease(a1) /\ InRelease(a2) /\ msg[a1] = m /\ msg[a2] = m => a1 = a2
  BY DEF OwnInv, MessageRefs, UsedLive, ReleaseIsLast
<1>2. CASE Creates(a, m)
  <2>1. ~Releasing(m)'
    BY <1>1, <1>2, OthersReleasing DEF Creates
  <2> QED  BY <1>2, <2>1 DEF Creates, Submits, Drops, Frees, MemoryOf, UsersOf
<1>3. CASE Submits(a, m)
  <2>1. ~Releasing(m)' /\ ~Releasing(m)
    BY <1>1, <1>3, OthersReleasing DEF Submits
  <2> QED  BY <1>1, <1>3, <2>1 DEF Creates, Submits, Drops, Frees, MemoryOf, UsersOf
<1>4. CASE Drops(a, m)
  <2>1. ~Releasing(m) /\ live[m] /\ live'[m]
    BY <1>1, <1>4 DEF Drops
  <2>2. Releasing(m)' <=> InRelease(a)'
    BY <1>4, <2>1, OthersReleasing DEF Drops
  <2>3. InRelease(a)' <=> mref[m] = 1
    BY <1>4 DEF Drops
  <2>4. mref[m] = 1 <=> ~(ServerHas(m) /\ BackendHas(m))
    BY <1>1, <1>4, <2>1 DEF Drops, B2N
  <2>5. CASE ServerHas(m) /\ ~ServerHas(m)' /\ (BackendHas(m)' <=> BackendHas(m))
    <3>1. "server" \in UsersOf(m) /\ UsersOf(m)' = UsersOf(m) \ {"server"}
      BY <2>1, <2>5 DEF UsersOf
    <3>2. UsersOf(m) = {"server"} <=> ~BackendHas(m)
      BY <2>1, <2>5 DEF UsersOf
    <3>3. MemoryOf(m) = "used" /\ MemoryOf(m)' = IF ~BackendHas(m) THEN "released" ELSE "used"
      BY <2>1, <2>2, <2>3, <2>4, <2>5 DEF MemoryOf
    <3> QED  BY <2>1, <2>5, <3>1, <3>2, <3>3, <1>4 DEF Creates, Submits, Frees, Drops
  <2>6. CASE BackendHas(m) /\ ~BackendHas(m)' /\ (ServerHas(m)' <=> ServerHas(m))
    <3>1. "backend" \in UsersOf(m) /\ UsersOf(m)' = UsersOf(m) \ {"backend"}
      BY <2>1, <2>6 DEF UsersOf
    <3>2. UsersOf(m) = {"backend"} <=> ~ServerHas(m)
      BY <2>1, <2>6 DEF UsersOf
    <3>3. MemoryOf(m) = "used" /\ MemoryOf(m)' = IF ~ServerHas(m) THEN "released" ELSE "used"
      BY <2>1, <2>2, <2>3, <2>4, <2>6 DEF MemoryOf
    <3> QED  BY <2>1, <2>6, <3>1, <3>2, <3>3, <1>4 DEF Creates, Submits, Frees, Drops
  <2> QED  BY <1>4, <2>5, <2>6 DEF Drops
<1>5. CASE Frees(a, m)
  <2>1. Releasing(m) /\ live[m]
    BY <1>1, <1>5 DEF Frees, OwnFrame, Releasing
  <2> QED  BY <1>1, <1>5, <2>1 DEF Creates, Submits, Drops, Frees, MemoryOf, UsersOf
<1> QED  BY <1>2, <1>3, <1>4, <1>5

LEMMA OwnStepRefines ==
  ASSUME TypeInv, OwnInv, OwnStep
  PROVE  [Owned!Next]_<<[m \in Messages |-> MemoryOf(m)], [m \in Messages |-> UsersOf(m)]>>
<1>1. CASE SameOwners
  <2>1. \A k \in Messages : Quiet(k) /\ (Releasing(k)' <=> Releasing(k))
    BY <1>1 DEF SameOwners, KeepsRelease, Releasing
  <2>2. \A k \in Messages : MemoryOf(k)' = MemoryOf(k) /\ UsersOf(k)' = UsersOf(k)
    BY <2>1, OwnedKept
  <2> QED  BY <2>2
<1>2. ASSUME NEW a \in Actors, NEW m \in Messages,
             Creates(a, m) \/ Submits(a, m) \/ Drops(a, m) \/ Frees(a, m)
      PROVE  Owned!Next
  <2>1. OwnFrame(a, m)
    BY <1>2 DEF Creates, Submits, Drops, Frees
  <2>2. \A k \in Messages \ {m} : MemoryOf(k)' = MemoryOf(k) /\ UsersOf(k)' = UsersOf(k)
    <3>1. \A k \in Messages \ {m} : Quiet(k) /\ (Releasing(k)' <=> Releasing(k))
      BY <2>1, OthersReleasing DEF OwnFrame
    <3> QED  BY <3>1, OwnedKept
  <2> DEFINE M == [k \in Messages |-> MemoryOf(k)]
             U == [k \in Messages |-> UsersOf(k)]
  <2>3. M' = [M EXCEPT ![m] = MemoryOf(m)'] /\ U' = [U EXCEPT ![m] = UsersOf(m)']
    BY <2>2, OwnersAt
  <2>4. M[m] = MemoryOf(m) /\ U[m] = UsersOf(m)
    OBVIOUS
  <2>5. CASE Creates(a, m)
    <3>1. Owned!Create(m)
      BY <2>3, <2>4, <2>5, OwnersMoved DEF Owned!Create
    <3> QED  BY <3>1 DEF Owned!Next
  <2>6. CASE Submits(a, m)
    <3>1. M' = M
      BY <2>2, <2>6, OwnersMoved
    <3>2. Owned!Submit(m)
      BY <2>3, <2>4, <2>6, <3>1, OwnersMoved DEF Owned!Submit, Owned!Users
    <3> QED  BY <3>2 DEF Owned!Next
  <2>7. CASE Drops(a, m)
    <3>1. PICK u \in {"backend", "server"} :
             /\ MemoryOf(m) = "used" /\ u \in UsersOf(m) /\ UsersOf(m)' = UsersOf(m) \ {u}
             /\ MemoryOf(m)' = IF UsersOf(m) = {u} THEN "released" ELSE "used"
      BY <2>7, OwnersMoved
    <3>2. UsersOf(m) # {u} => M' = M
      BY <2>2, <3>1
    <3>3. Owned!Drop(m, u)
      BY <2>3, <2>4, <3>1, <3>2 DEF Owned!Drop
    <3> QED  BY <3>3 DEF Owned!Next, Owned!Users
  <2>8. CASE Frees(a, m)
    <3>1. U' = U
      BY <2>2, <2>8, OwnersMoved
    <3>2. Owned!Release(m)
      BY <2>3, <2>4, <2>8, <3>1, OwnersMoved DEF Owned!Release
    <3> QED  BY <3>2 DEF Owned!Next
  <2> QED  BY <1>2, <2>5, <2>6, <2>7, <2>8
<1> QED  BY <1>1, <1>2 DEF OwnStep

\* Nobody has a message before the first scan.
LEMMA InitOwned == Init => Owned!Init
<1> SUFFICES ASSUME Init PROVE Owned!Init
  OBVIOUS
<1>1. \A m \in Messages : ~live[m]
  BY DEF Init, MQueueInit
<1>2. \A m \in Messages : MemoryOf(m) = "free" /\ UsersOf(m) = {}
  BY <1>1 DEF MemoryOf, UsersOf
<1> QED  BY <1>2 DEF Owned!Init

\* The messages implement shared ownership (SharedMessage): each of the two
\* users of a message drops it once, in any order, and the one that drops it
\* last releases it; its slot is used again only after cb_release has freed it.
THEOREM SharedOwnership == ASSUME Undisturbed PROVE Spec => OwnershipRefined
<1>1. Init => Owned!Init
  BY InitOwned
<1>2. RefInv /\ [Next]_vars =>
        [Owned!Next]_<<[m \in Messages |-> MemoryOf(m)], [m \in Messages |-> UsersOf(m)]>>
  <2> SUFFICES ASSUME RefInv, [Next]_vars
               PROVE  [Owned!Next]_<<[m \in Messages |-> MemoryOf(m)],
                                     [m \in Messages |-> UsersOf(m)]>>
    OBVIOUS
  <2>1. CASE Next
    <3>1. OwnStep
      BY <2>1, NextRef
    <3> QED  BY <3>1, OwnStepRefines DEF RefInv
  <2>2. CASE UNCHANGED vars
    <3>1. \A m : ServerHas(m)' <=> ServerHas(m)
      BY <2>2 DEF ServerHas, vars
    <3>2. \A m : BackendHas(m)' <=> BackendHas(m)
      BY <2>2 DEF BackendHas, vars
    <3>3. SameOwners
      BY <2>2, <3>1, <3>2 DEF SameOwners, Quiet, KeepsRelease, InRelease, vars
    <3> QED  BY <3>3, OwnStepRefines DEF RefInv, OwnStep
  <2> QED  BY <2>1, <2>2
<1>3. Spec => []RefInv
  BY RefInvHolds
<1>4. Spec => [][Owned!Next]_<<[m \in Messages |-> MemoryOf(m)], [m \in Messages |-> UsersOf(m)]>>
  BY <1>2, <1>3, PTL DEF Spec
<1>5. Spec => Owned!Init
  BY <1>1, PTL DEF Spec
<1> QED  BY <1>4, <1>5, PTL DEF OwnershipRefined, Owned!Spec

(***************************************************************************)
(* Closed queues.                                                          *)
(***************************************************************************)
\* What a step does to the list of the server queue once it is closed, in
\* every environment
ServerShut == sclosed => sclosed' /\ Len(servq') <= Len(servq)

LEMMA ShutKept == ASSUME UNCHANGED <<servq, sclosed>>, TypeInv PROVE ServerShut
BY DEF ServerShut, TypeInv, DataInv, QueueTypeOK

LEMMA ShutStep == ASSUME TypeInv, Next PROVE ServerShut
<1>1. Len(servq) \in Nat /\ (servq # << >> => Len(Tail(servq)) <= Len(servq))
  BY DEF TypeInv, DataInv, QueueTypeOK
<1>2. ASSUME NEW a \in Actors, NEW m, Enqueue(a, m) PROVE ServerShut
  BY <1>2 DEF Enqueue, ServerShut
<1>3. ASSUME NEW b \in Backends, BackendStep(b) \/ BackendEvent(b) PROVE ServerShut
  <2>1. CASE Send(b)
    BY <1>2, <2>1, ShutKept, ActorKinds DEF Send
  <2>2. CASE BackendStep(b) /\ ~Send(b)
    <3>1. UNCHANGED <<servq, sclosed>>
      BY <2>2 DEF BackendStep, TrackQueue, Drain, TakeAnswer, NoAnswer, Load, Try, LoadEnd, Wait,
         Pick, Commit, AbortQueue, AbortMessage, AbortEnd, Forget, BackendCall, CloseQueue,
         CloseFree, PutMessage, PutQueue, PutQueueLink, FreeMessage
    <3> QED  BY <3>1, ShutKept
  <2>3. CASE BackendEvent(b)
    <3>1. UNCHANGED <<servq, sclosed>>
      BY <2>3 DEF BackendEvent, Begin, BeginFails, Exec, End, TrackQueueFails, LoadFails, Timeout,
         NoAnswer, Cancel
    <3> QED  BY <3>1, ShutKept
  <2> QED  BY <1>3, <2>1, <2>2, <2>3
<1>4. ASSUME NEW s \in Servers, ServerCall(s) PROVE ServerShut
  <2>1. UNCHANGED <<servq, sclosed>>
    BY <1>4 DEF ServerCall, Reply, PutMessage, PutQueue, PutQueueLink, FreeMessage
  <2> QED  BY <2>1, ShutKept
<1>5. ASSUME NEW s \in Servers, Requeue(s) \/ RequeueEnd(s) PROVE ServerShut
  <2>1. CASE Requeue(s)
    BY <1>2, <2>1, ShutKept, ActorKinds DEF Requeue
  <2>2. CASE RequeueEnd(s)
    BY <2>2, ShutKept DEF RequeueEnd
  <2> QED  BY <1>5, <2>1, <2>2
<1>6. ASSUME NEW t \in Threads, ThreadStep(t) PROVE ServerShut
  <2>1. CASE ServerDequeue(t)
    BY <1>1, <2>1 DEF ServerDequeue, ServerShut
  <2>2. CASE Requeue(t) \/ RequeueEnd(t) \/ ServerCall(t)
    BY <1>4, <1>5, <2>2, ActorKinds
  <2>3. CASE \/ EnterWait(t) \/ ProcessNew(t) \/ ProcessBuilding(t) \/ ProcessReady(t)
             \/ ProcessBad(t) \/ ProcessNoMemory(t) \/ BuildAccepted(t) \/ BuildRejected(t)
    <3>1. UNCHANGED <<servq, sclosed>>
      BY <2>3 DEF EnterWait, ProcessNew, ProcessBuilding, ProcessReady, ProcessBad,
         ProcessNoMemory, BuildAccepted, BuildRejected
    <3> QED  BY <3>1, ShutKept
  <2> QED  BY <1>6, <2>1, <2>2, <2>3 DEF ThreadStep
<1>7. ASSUME NEW d \in Drivers, DriverStep(d) PROVE ServerShut
  <2>1. CASE Requeue(d) \/ RequeueEnd(d) \/ ServerCall(d)
    BY <1>4, <1>5, <2>1, ActorKinds
  <2>2. CASE BuildDone(d) \/ KernelDone(d)
    <3>1. UNCHANGED <<servq, sclosed>>
      BY <2>2 DEF BuildDone, KernelDone
    <3> QED  BY <3>1, ShutKept
  <2> QED  BY <1>7, <2>1, <2>2 DEF DriverStep
<1>8. ASSUME MainStep PROVE ServerShut
  <2>1. CASE CloseServerQueue
    BY <1>1, <2>1 DEF CloseServerQueue, ServerShut
  <2>2. CASE DrainServerQueue
    BY <1>1, <2>2 DEF DrainServerQueue, ServerShut
  <2>3. CASE ServerCall(Main)
    BY <1>4, <2>3, ActorKinds
  <2> QED  BY <1>8, <2>1, <2>2, <2>3 DEF MainStep
<1>9. ASSUME Sigterm PROVE ServerShut
  BY <1>9, ShutKept DEF Sigterm
<1> QED  BY <1>3, <1>6, <1>7, <1>8, <1>9 DEF Next

\* What a step may not do to the list of a closed response queue
HeadsKept == \A q \in Queues : closed[q] /\ closed'[q] => qhead'[q] = qhead[q]

LEMMA HeadsStep == ASSUME Undisturbed, RefInv, Next PROVE HeadsKept
<1>1. qhead \in [Queues -> Seq(Messages)] /\ closed \in [Queues -> BOOLEAN]
  BY DEF RefInv, TypeInv, DataInv, QueueTypeOK
<1>2. UNCHANGED qhead => HeadsKept
  BY DEF HeadsKept
<1>3. ASSUME NEW b \in Backends, BackendStep(b) \/ BackendEvent(b) PROVE HeadsKept
  <2>1. ASSUME Begin(b) PROVE HeadsKept
    <3>1. PICK q \in Queues : CreateQueue(q)
      BY <2>1 DEF Begin
    <3>2. /\ \A k \in Queues \ {q} : qhead'[k] = qhead[k]
          /\ ~closed'[q]
      BY <1>1, <3>1 DEF CreateQueue
    <3> QED  BY <3>2 DEF HeadsKept
  <2>2. ASSUME TakeAnswer(b), pc[b] \in {"drain", "try", "wait"} PROVE HeadsKept
    <3>1. ~closed[que[b]]
      BY <2>2 DEF RefInv, LocalInv, LocalOK, OwnerInv, Active, InScan
    <3>2. \A k \in Queues \ {que[b]} : qhead'[k] = qhead[k]
      BY <1>1, <2>2 DEF TakeAnswer, Dequeue
    <3> QED  BY <3>1, <3>2 DEF HeadsKept
  <2>3. CASE Drain(b) \/ Try(b) \/ Wait(b)
    BY <1>2, <2>2, <2>3 DEF Drain, Try, Wait, NoAnswer
  <2>4. CASE BackendEvent(b) /\ ~Begin(b)
    <3>1. UNCHANGED qhead
      BY <2>4 DEF BackendEvent, BeginFails, Exec, End, TrackQueueFails, LoadFails, Timeout,
         NoAnswer, Cancel
    <3> QED  BY <1>2, <3>1
  <2>5. CASE /\ \/ TrackQueue(b) \/ Load(b) \/ Send(b) \/ LoadEnd(b) \/ Pick(b) \/ Commit(b)
                \/ AbortQueue(b) \/ AbortMessage(b) \/ AbortEnd(b) \/ BackendCall(b)
    <3>1. UNCHANGED qhead
      BY <2>5 DEF TrackQueue, Load, NewMessage, GetQueue, Send, LoadEnd, Pick, Commit, AbortQueue,
         AbortMessage, AbortEnd, Forget, BackendCall, CloseQueue, CloseFree, PutMessage, PutQueue,
         PutQueueLink, FreeMessage
    <3> QED  BY <1>2, <3>1
  <2> QED  BY <1>3, <2>1, <2>3, <2>4, <2>5 DEF BackendStep
<1>4. ASSUME NEW s \in Servers, ServerCall(s) PROVE HeadsKept
  <2>1. CASE UNCHANGED qhead
    BY <1>2, <2>1
  <2>2. CASE qhead' # qhead
    <3>1. ~closed[respq[msg[s]]] /\ \A k \in Queues \ {respq[msg[s]]} : qhead'[k] = qhead[k]
      BY <1>1, <1>4, <2>2 DEF ServerCall, Reply, PutMessage, PutQueue, PutQueueLink, FreeMessage
    <3> QED  BY <3>1 DEF HeadsKept
  <2> QED  BY <2>1, <2>2
<1>5. ASSUME NEW s \in Servers, Requeue(s) \/ RequeueEnd(s) PROVE HeadsKept
  BY <1>2, <1>5 DEF Requeue, RequeueEnd
<1>6. ASSUME NEW t \in Threads, ThreadStep(t) PROVE HeadsKept
  <2>1. CASE Requeue(t) \/ RequeueEnd(t) \/ ServerCall(t)
    BY <1>4, <1>5, <2>1, ActorKinds
  <2>2. CASE \/ EnterWait(t) \/ ServerDequeue(t) \/ ProcessNew(t) \/ ProcessBuilding(t)
             \/ ProcessReady(t) \/ ProcessBad(t) \/ ProcessNoMemory(t) \/ BuildAccepted(t)
             \/ BuildRejected(t)
    <3>1. UNCHANGED qhead
      BY <2>2 DEF EnterWait, ServerDequeue, ProcessNew, ProcessBuilding, ProcessReady, ProcessBad,
         ProcessNoMemory, BuildAccepted, BuildRejected
    <3> QED  BY <1>2, <3>1
  <2> QED  BY <1>6, <2>1, <2>2 DEF ThreadStep
<1>7. ASSUME NEW d \in Drivers, DriverStep(d) PROVE HeadsKept
  <2>1. CASE Requeue(d) \/ RequeueEnd(d) \/ ServerCall(d)
    BY <1>4, <1>5, <2>1, ActorKinds
  <2>2. CASE BuildDone(d) \/ KernelDone(d)
    BY <1>2, <2>2 DEF BuildDone, KernelDone
  <2> QED  BY <1>7, <2>1, <2>2 DEF DriverStep
<1>8. ~Sigterm /\ ~MainStep
  BY NoShutdown DEF RefInv
<1> QED  BY <1>3, <1>6, <1>7, <1>8 DEF Next

\* Whatever the environment does, the server queue is not opened again and
\* gets no message after pgstrom_close_server_queue.
THEOREM ServerClosedForever == Spec => [][sclosed => sclosed' /\ Len(servq') <= Len(servq)]_vars
<1>1. TypeInv /\ [Next]_vars => [sclosed => sclosed' /\ Len(servq') <= Len(servq)]_vars
  BY ShutStep DEF ServerShut
<1> QED  BY <1>1, TypeInvHolds, PTL DEF Spec

\* A closed response queue changes only when pgstrom_create_queue opens it
\* again: pgstrom_reply_message never links a message to it, and no scan
\* takes one from it.
THEOREM ClosedForever == ASSUME Undisturbed PROVE Spec => ClosedIsFinal
<1>1. RefInv /\ [Next]_vars =>
        [/\ \A q \in Queues : closed[q] /\ closed'[q] => qhead'[q] = qhead[q]
         /\ sclosed => sclosed' /\ Len(servq') <= Len(servq)]_vars
  BY ShutStep, HeadsStep DEF ServerShut, HeadsKept, RefInv
<1> QED  BY <1>1, RefInvHolds, PTL DEF Spec, ClosedIsFinal

(***************************************************************************)
(* Accesses: the inductive invariants, on top of RefInv.                   *)
(***************************************************************************)
\* malloc does not fail in clserv_process_gpuscan_row.
Decided == Undisturbed /\ "oom" \notin Env

\* An answer is an error or comes from the kernel.
Done(m) == err[m] \/ ran[m]

ReplyDone == \A s \in Servers : pc[s] = "reply" => Done(msg[s])
ScanDone(b) ==
  /\ \A m \in Range(qhead[que[b]]) \cup Range(ready[b]) : Done(m)
  /\ cur[b] # NoMessage => ran[cur[b]]
RanInv == ReplyDone /\ \A b \in Backends : Active(b) => ScanDone(b)

USE DEF tableVars, queueVars, servVars, msgVars, callVars, scanVars, trackVars,
        buildVars, clservVars, dataVars

(***************************************************************************)
(* Responses leave their queue from the head.                              *)
(***************************************************************************)
LEMMA RangeHead ==
  ASSUME NEW S, NEW s \in Seq(S), s # << >>
  PROVE  Head(s) \in S /\ Head(s) \in Range(s)
<1>1. Head(s) = s[1] /\ 1 \in 1..Len(s)
  OBVIOUS
<1> QED  BY <1>1, RangeOf

LEMMA RangeShrinks ==
  ASSUME NEW S, NEW s \in Seq(S), s # << >>
  PROVE  Range(Tail(s)) \subseteq Range(s)
<1>1. Len(s) \in Nat /\ Tail(s) \in Seq(S) /\ Len(Tail(s)) = Len(s) - 1
  OBVIOUS
<1>2. \A i \in 1..Len(Tail(s)) : Tail(s)[i] = s[i+1] /\ i+1 \in 1..Len(s)
  BY <1>1
<1>3. ASSUME NEW t \in Seq(S) PROVE \A x : x \in Range(t) <=> \E i \in 1..Len(t) : x = t[i]
  BY RangeOf
<1>4. ASSUME NEW x \in Range(Tail(s)) PROVE x \in Range(s)
  <2>1. PICK i \in 1..Len(Tail(s)) : x = Tail(s)[i]
    BY <1>1, <1>3
  <2>2. x = s[i+1] /\ i+1 \in 1..Len(s)
    BY <1>2, <2>1
  <2> QED  BY <1>3, <2>2
<1> QED  BY <1>4

\* No step of a backend adds an answer to a response queue.
LEMMA HeadsShrink ==
  ASSUME TypeInv, NEW b \in Backends, BackendStep(b) \/ BackendEvent(b)
  PROVE  \A q \in Queues : Range(qhead'[q]) \subseteq Range(qhead[q])
<1>1. qhead \in [Queues -> Seq(Messages)]
  BY DEF TypeInv, DataInv, QueueTypeOK
<1>2. CASE Begin(b)
  <2>1. PICK p \in Queues : CreateQueue(p)
    BY <1>2 DEF Begin
  <2>2. qhead'[p] = << >> /\ \A q \in Queues \ {p} : qhead'[q] = qhead[q]
    BY <1>1, <2>1 DEF CreateQueue
  <2>3. Range(<< >>) = {}
    BY DEF Range
  <2> QED  BY <2>2, <2>3
<1>3. ASSUME TakeAnswer(b) PROVE \A q \in Queues : Range(qhead'[q]) \subseteq Range(qhead[q])
  <2>1. ASSUME NEW s \in Seq(Messages), s # << >> PROVE Range(Tail(s)) \subseteq Range(s)
    BY <2>1, RangeShrinks
  <2>2. ASSUME NEW q \in Queues PROVE Range(qhead'[q]) \subseteq Range(qhead[q])
    <3>1. \/ qhead'[q] = qhead[q]
          \/ qhead[q] # << >> /\ qhead'[q] = Tail(qhead[q])
      BY <1>1, <1>3 DEF TakeAnswer, Dequeue
    <3> QED  BY <1>1, <2>1, <3>1
  <2> QED  BY <2>2
<1>4. CASE UNCHANGED qhead
  BY <1>4
<1>5. CASE Drain(b) \/ Try(b) \/ Wait(b)
  <2>1. TakeAnswer(b) \/ UNCHANGED qhead
    BY <1>5 DEF Drain, Try, Wait, NoAnswer
  <2> QED  BY <1>3, <1>4, <2>1
<1>6. CASE BackendEvent(b) /\ ~Begin(b)
  <2>1. UNCHANGED qhead
    BY <1>6 DEF BackendEvent, BeginFails, Exec, End, TrackQueueFails, LoadFails, Timeout,
       NoAnswer, Cancel
  <2> QED  BY <1>4, <2>1
<1>7. CASE \/ TrackQueue(b) \/ Load(b) \/ Send(b) \/ LoadEnd(b) \/ Pick(b) \/ Commit(b)
           \/ AbortQueue(b) \/ AbortMessage(b) \/ AbortEnd(b) \/ BackendCall(b)
  <2>1. UNCHANGED qhead
    BY <1>7 DEF TrackQueue, Load, NewMessage, GetQueue, Send, LoadEnd, Pick, Commit, AbortQueue,
       AbortMessage, AbortEnd, Forget, BackendCall, CloseQueue, CloseFree, PutMessage, PutQueue,
       PutQueueLink, FreeMessage
  <2> QED  BY <1>4, <2>1
<1> QED  BY <1>2, <1>5, <1>6, <1>7 DEF BackendStep

(***************************************************************************)
(* Nobody uses a released message.                                         *)
(***************************************************************************)
\* No backend has followed a pointer to a released message.
Defined == \A b \in Backends : pc[b] # "ub"

\* pgstrom_put_message finds the message of a backend allocated.
LEMMA PutDefined ==
  ASSUME RefInv, NEW b \in Backends,
         \/ PutMessage(b) \/ PutQueue(b) \/ PutQueueLink(b) \/ FreeMessage(b)
  PROVE  pc'[b] # "ub"
<1>1. b \in Actors /\ pc[b] \in {"put", "putq", "linkq", "freem"} /\ msg[b] \in Messages
  BY ActorKinds DEF PutMessage, PutQueue, PutQueueLink, FreeMessage, RefInv, TypeInv,
     ControlInv, HeldFilled, HoldPC, Filled
<1>2. pc[b] = "put" => live[msg[b]]
  BY <1>1 DEF BackendHas, RefInv, OwnInv, UsedLive
<1>3. /\ Goto(b, "putq") \/ Goto(b, "linkq") \/ Goto(b, "freem") \/ Return(b)
      /\ UNCHANGED <<msg, ret>>
  BY <1>2 DEF PutMessage, PutQueue, PutQueueLink, FreeMessage
<1>4. PICK l \in {"putq", "linkq", "freem"} \cup ReturnPC : Moves(b, l, msg[b], ret[b])
  BY <1>1, <1>3, GotoStep, ReturnStep DEF RefInv
<1> QED  BY <1>4 DEF Moves, ReturnPC

\* No step of a backend ends outside the defined behaviour.
LEMMA BackendDefined ==
  ASSUME RefInv, TypeInv', NEW b \in Backends, BackendStep(b) \/ BackendEvent(b)
  PROVE  pc'[b] # "ub"
<1>1. b \in Actors /\ TypeInv
  BY ActorKinds DEF RefInv
<1>2. CASE \/ PutMessage(b) \/ PutQueue(b) \/ PutQueueLink(b) \/ FreeMessage(b)
  BY <1>2, PutDefined
<1>3. CASE Exec(b) \/ Load(b) \/ Send(b) \/ Commit(b) \/ AbortMessage(b)
  <2>1. \/ \E l \in {"drain", "try", "load", "idle"} : Goto(b, l) /\ UNCHANGED <<msg, ret>>
        \/ \E l \in {"putq", "put", "send"} : \E m, r : Call(b, l, m, r)
    BY <1>3 DEF Exec, Load, Send, Commit, Forget, AbortMessage
  <2> QED  BY <1>1, <2>1, GotoStep, CallStep DEF Moves
<1>4. CASE Plain(b)
  BY <1>4 DEF Plain, OwningPC
<1> QED  BY <1>1, <1>2, <1>3, <1>4, PlainSteps DEF BackendStep, BackendEvent, BackendCall

LEMMA NextDefined ==
  ASSUME Undisturbed, RefInv, Defined, Next PROVE Defined'
<1>1. TypeInv' /\ TypeOK
  BY NextRef, TypeInvImpliesTypeOK DEF RefInv
<1>2. ASSUME NEW b \in Backends, BackendStep(b) \/ BackendEvent(b) PROVE Defined'
  BY <1>1, <1>2, BackendDefined, BackendAlone, ActorKinds DEF Alone, Defined
<1>3. ASSUME NEW t \in Threads, ThreadStep(t) PROVE Defined'
  BY <1>1, <1>3, ThreadAlone, ActorKinds DEF Alone, Defined
<1>4. ASSUME NEW d \in Drivers, DriverStep(d) PROVE Defined'
  BY <1>1, <1>4, DriverAlone, ActorKinds DEF Alone, Defined
<1>5. ~Sigterm /\ ~MainStep
  BY NoShutdown DEF RefInv
<1> QED  BY <1>2, <1>3, <1>4, <1>5 DEF Next

\* What a scan has at hand or among its answers is tracked, hence in use.
LEMMA ScanAlive ==
  ASSUME RefInv, NEW b \in Backends, InScan(b),
         NEW m \in AtHand(b) \cup Range(qhead[que[b]])
  PROVE  live[m]
<1>1. ScanOK(b)
  BY DEF RefInv, ScanInv, Active
<1>2. m \in tracked[b]
  BY <1>1 DEF ScanOK
<1>3. m \in Messages /\ BackendHas(m)
  BY <1>2 DEF BackendHas, RefInv, TypeInv, DataInv, TrackTypeOK
<1> QED  BY <1>3 DEF RefInv, OwnInv, UsedLive

\* The memory of a message is allocated as long as the server, a transaction
\* or a running scan uses it, and no backend ever follows a pointer to a
\* released one, in whatever order an abort visits the tracker.  (The server
\* may, through the list of an open queue: NoStaleAccess.)
THEOREM UsedAlive == ASSUME Undisturbed PROVE Spec => []HeldAlive
<1>1. Init => RefInv /\ Defined
  BY InitRefInv, ActorKinds DEF Init, Defined
<1>2. RefInv /\ Defined /\ [Next]_vars => (RefInv /\ Defined)'
  BY NextRef, StutterRefInv, NextDefined DEF Defined, vars
<1>3. RefInv /\ Defined => HeldAlive
  BY ScanAlive DEF HeldAlive, Defined, RefInv, OwnInv, UsedLive
<1> QED  BY <1>1, <1>2, <1>3, PTL DEF Spec

(***************************************************************************)
(* Rows come from chunks on which the kernel has run: the server.          *)
(***************************************************************************)
\* The result of k is not forgotten.
KeepsDone(k) == (Done(k) => Done(k)') /\ (ran[k] => ran'[k])

\* A step of the server answers only what is done.
ServerDone(a) ==
  /\ Sole(a) /\ UNCHANGED <<que, cur, ready, qtracked>>
  /\ \A k \in Messages : KeepsDone(k)
  /\ pc'[a] = "reply" => \E k \in Messages : msg'[a] = k /\ Done(k)'
  /\ \/ UNCHANGED qhead
     \/ /\ pc[a] = "reply"
        /\ qhead' = [qhead EXCEPT ![respq[msg[a]]] = Append(@, msg[a])]

\* err and ran are left alone.
LEMMA DoneKept == ASSUME UNCHANGED <<err, ran>> PROVE \A k \in Messages : KeepsDone(k)
BY DEF KeepsDone, Done

LEMMA CallDone ==
  ASSUME RefInv, NEW a \in Servers, ServerCall(a)
  PROVE  ServerDone(a)
<1>1. a \in Actors /\ UNCHANGED <<que, cur, ready, qtracked, msg, ret, err, ran>>
  BY ActorKinds DEF ServerCall, Reply, PutMessage, PutQueue, PutQueueLink, FreeMessage
<1>2. /\ \/ Goto(a, "ub") \/ Goto(a, "put") \/ Goto(a, "putq") \/ Goto(a, "linkq")
         \/ Goto(a, "freem") \/ Return(a)
      /\ \/ UNCHANGED qhead
         \/ /\ pc[a] = "reply"
            /\ qhead' = [qhead EXCEPT ![respq[msg[a]]] = Append(@, msg[a])]
  BY DEF ServerCall, Reply, PutMessage, PutQueue, PutQueueLink, FreeMessage
<1>3. PICK l \in {"ub", "put", "putq", "linkq", "freem"} \cup ReturnPC :
        Moves(a, l, msg[a], ret[a])
  BY <1>1, <1>2, GotoStep, ReturnStep DEF RefInv
<1>4. Sole(a) /\ pc'[a] # "reply"
  BY <1>3 DEF Moves, Sole, ReturnPC
<1> QED  BY <1>1, <1>2, <1>4, DoneKept DEF ServerDone

\* The event loop, and clserv_process_gpuscan_row
LEMMA ThreadDone ==
  ASSUME Decided, RefInv, NEW t \in Threads, ThreadStep(t), ~ServerCall(t)
  PROVE  ServerDone(t)
<1>1. t \in Actors /\ t \in Servers /\ TypeInv /\ UpInv
  BY ActorKinds DEF RefInv
<1>2. ~ProcessNoMemory(t) /\ ~BuildRejected(t)
  BY DEF Decided, Undisturbed, ProcessNoMemory, BuildRejected
<1>3. CASE ServerDequeue(t)
  <2>1. UNCHANGED <<que, cur, ready, qtracked, err, ran, qhead>>
    BY <1>3 DEF ServerDequeue
  <2>2. Sole(t) /\ pc'[t] \in {"proc", "loop"}
    BY <1>1, <1>3, GotoStep, CallStep DEF ServerDequeue, Moves, Sole
  <2> QED  BY <2>1, <2>2, DoneKept DEF ServerDone
<1>4. CASE EnterWait(t) \/ ProcessBuilding(t) \/ BuildAccepted(t)
  <2>1. UNCHANGED <<que, cur, ready, qtracked, err, ran, qhead, msg, ret>>
        /\ (Goto(t, "exit") \/ Goto(t, "deq") \/ Goto(t, "loop"))
    BY <1>4 DEF EnterWait, ProcessBuilding, BuildAccepted
  <2>2. Sole(t) /\ pc'[t] \in {"exit", "deq", "loop"}
    BY <1>1, <2>1, GotoStep DEF Moves, Sole
  <2> QED  BY <2>1, <2>2, DoneKept DEF ServerDone
<1>5. CASE ProcessNew(t) \/ ProcessReady(t) \/ ProcessBad(t)
  <2>1. /\ UNCHANGED <<que, cur, ready, qtracked, ran, qhead, msg, ret>> /\ pc[t] = "proc"
        /\ \/ UNCHANGED err /\ (Goto(t, "build") \/ Goto(t, "loop"))
           \/ err' = [err EXCEPT ![msg[t]] = TRUE] /\ Goto(t, "reply")
    BY <1>5 DEF ProcessNew, ProcessReady, ProcessBad, Fail
  <2>2. msg[t] \in Messages /\ err \in [Messages -> BOOLEAN]
    BY <1>1, <2>1 DEF TypeInv, ControlInv, HeldFilled, HoldPC, Filled, DataInv, MessageTypeOK
  <2>3. CASE UNCHANGED err /\ (Goto(t, "build") \/ Goto(t, "loop"))
    <3>1. Sole(t) /\ pc'[t] \in {"build", "loop"}
      BY <1>1, <2>1, <2>3, GotoStep DEF Moves, Sole
    <3> QED  BY <2>1, <2>3, <3>1, DoneKept DEF ServerDone
  <2>4. CASE err' = [err EXCEPT ![msg[t]] = TRUE] /\ Goto(t, "reply")
    <3>1. Sole(t) /\ msg'[t] = msg[t]
      BY <1>1, <2>1, <2>4, GotoStep DEF Moves, Sole
    <3>2. err'[msg[t]] /\ \A k \in Messages : err[k] => err'[k]
      BY <2>2, <2>4
    <3>3. \A k \in Messages : KeepsDone(k)
      BY <2>1, <3>2 DEF KeepsDone, Done
    <3>4. \E k \in Messages : msg'[t] = k /\ Done(k)'
      BY <2>2, <3>1, <3>2 DEF Done
    <3> QED  BY <2>1, <3>1, <3>3, <3>4 DEF ServerDone
  <2> QED  BY <2>1, <2>3, <2>4
<1>6. CASE Requeue(t) \/ RequeueEnd(t)
  BY <1>1, <1>6, ActorsAssumption DEF Requeue, RequeueEnd, TypeInv, ControlInv, OneFlush, UpInv
<1> QED  BY <1>2, <1>3, <1>4, <1>5, <1>6 DEF ThreadStep

\* The callbacks of the driver
LEMMA DriverDone ==
  ASSUME RefInv, NEW d \in Drivers, DriverStep(d), ~ServerCall(d)
  PROVE  ServerDone(d)
<1>1. d \in Actors /\ d \in Servers /\ d \notin Backends /\ TypeInv /\ UpInv
  BY ActorKinds DEF RefInv
<1>2. CASE BuildDone(d) \/ RequeueEnd(d)
  <2>1. UNCHANGED <<que, cur, ready, qtracked, err, ran, qhead, msg, ret>>
        /\ (Goto(d, "flush") \/ Goto(d, "idle"))
    BY <1>1, <1>2 DEF BuildDone, RequeueEnd, UpInv
  <2>2. Sole(d) /\ pc'[d] \in {"flush", "idle"}
    BY <1>1, <2>1, GotoStep DEF Moves, Sole
  <2> QED  BY <2>1, <2>2, DoneKept DEF ServerDone
<1>3. CASE Requeue(d)
  <2>1. UNCHANGED <<que, cur, ready, qtracked, err, ran, qhead, callVars>> /\ pc[d] = "flush"
    BY <1>1, <1>3 DEF Requeue, Enqueue
  <2>2. Sole(d) /\ pc'[d] = "flush"
    BY <2>1 DEF Sole
  <2> QED  BY <2>1, <2>2, DoneKept DEF ServerDone
<1>4. CASE KernelDone(d)
  <2>1. PICK m \in device, e \in BOOLEAN :
          /\ err' = [err EXCEPT ![m] = e]
          /\ ran' = [ran EXCEPT ![m] = TRUE]
          /\ Call(d, "reply", m, "idle")
    BY <1>4 DEF KernelDone
  <2>2. UNCHANGED <<que, cur, ready, qtracked, qhead>>
    BY <1>4 DEF KernelDone
  <2>3. m \in Messages /\ err \in [Messages -> BOOLEAN] /\ ran \in [Messages -> BOOLEAN]
    BY <1>1 DEF TypeInv, DataInv, ClservTypeOK, MessageTypeOK
  <2>4. ran'[m] /\ \A k \in Messages \ {m} : err'[k] = err[k] /\ ran'[k] = ran[k]
    BY <2>1, <2>3
  <2>5. \A k \in Messages : KeepsDone(k)
    BY <2>3, <2>4 DEF KeepsDone, Done
  <2>6. Sole(d) /\ msg'[d] = m
    BY <1>1, <2>1, CallStep DEF Moves, Sole
  <2>7. \E k \in Messages : msg'[d] = k /\ Done(k)'
    BY <2>3, <2>4, <2>6 DEF Done
  <2> QED  BY <2>2, <2>5, <2>6, <2>7 DEF ServerDone
<1> QED  BY <1>2, <1>3, <1>4 DEF DriverStep

LEMMA ServerRan ==
  ASSUME RefInv, RanInv, NEW a \in Servers, ServerDone(a)
  PROVE  RanInv'
<1>1. a \in Actors /\ a \notin Backends /\ Backends \subseteq Actors /\ Servers \subseteq Actors
  BY ActorKinds
<1>2. \A s \in Servers : pc[s] = "reply" => msg[s] \in Messages
  BY <1>1 DEF RefInv, TypeInv, ControlInv, HeldFilled, HoldPC, Filled
<1>3. ReplyDone'
  <2>1. SUFFICES ASSUME NEW s \in Servers, pc'[s] = "reply"
                 PROVE  \E k \in Messages : msg'[s] = k /\ Done(k)'
    BY DEF ReplyDone, Done
  <2>2. CASE s = a
    BY <2>1, <2>2 DEF ServerDone
  <2>3. CASE s # a
    <3>1. pc[s] = "reply" /\ msg'[s] = msg[s] /\ msg[s] \in Messages
      BY <1>1, <1>2, <2>1, <2>3 DEF ServerDone, Sole
    <3>2. PICK k \in Messages : k = msg[s]
      BY <3>1
    <3>3. Done(k)
      BY <3>1, <3>2 DEF RanInv, ReplyDone
    <3> QED  BY <3>1, <3>2, <3>3 DEF ServerDone, KeepsDone
  <2> QED  BY <2>2, <2>3
<1>4. ASSUME NEW b \in Backends, Active(b)' PROVE ScanDone(b)'
  <2>1. Active(b) /\ que'[b] = que[b] /\ cur'[b] = cur[b] /\ ready'[b] = ready[b]
    BY <1>1, <1>4 DEF ServerDone, Sole, Active, InScan, InRelease
  <2>2. ScanDone(b) /\ que[b] \in Queues
    BY <2>1, OwnerQueue DEF RanInv, RefInv, LocalInv, LocalOK
  <2>3. /\ ready[b] \in Seq(Messages) /\ qhead \in [Queues -> Seq(Messages)]
        /\ cur[b] \in Messages \cup {NoMessage}
    BY DEF RefInv, TypeInv, DataInv, ScanTypeOK, QueueTypeOK
  <2>4. \A m \in Range(qhead'[que[b]]) : m \in Messages /\ Done(m)
    <3>1. \A m \in Range(qhead[que[b]]) : m \in Messages /\ Done(m)
      BY <2>2, <2>3, RangeOf DEF ScanDone
    <3>2. CASE qhead'[que[b]] = qhead[que[b]]
      BY <3>1, <3>2
    <3>3. CASE pc[a] = "reply" /\ qhead'[que[b]] = Append(qhead[que[b]], msg[a])
      <4>1. msg[a] \in Messages /\ Done(msg[a])
        BY <1>2, <3>3 DEF RanInv, ReplyDone
      <4>2. Range(qhead'[que[b]]) = Range(qhead[que[b]]) \cup {msg[a]}
        BY <2>2, <2>3, <3>3, <4>1, RangeAppend
      <4> QED  BY <3>1, <4>1, <4>2
    <3>4. \/ qhead'[que[b]] = qhead[que[b]]
          \/ pc[a] = "reply" /\ qhead'[que[b]] = Append(qhead[que[b]], msg[a])
      BY <2>2, <2>3 DEF ServerDone
    <3> QED  BY <3>2, <3>3, <3>4
  <2>5. \A m \in Range(ready[b]) : m \in Messages /\ Done(m)
    BY <2>2, <2>3, RangeOf DEF ScanDone
  <2>6. \A m \in Range(qhead'[que'[b]]) \cup Range(ready'[b]) : Done(m)'
    BY <2>1, <2>4, <2>5 DEF ServerDone, KeepsDone
  <2>7. cur'[b] # NoMessage => ran'[cur'[b]]
    BY <2>1, <2>2, <2>3 DEF ServerDone, KeepsDone, ScanDone
  <2> QED  BY <2>6, <2>7 DEF ScanDone
<1> QED  BY <1>3, <1>4 DEF RanInv

(***************************************************************************)
(* Rows come from chunks on which the kernel has run: the backends.        *)
(***************************************************************************)
\* A step of a backend in its scan moves answers to ready_chunks, and from
\* there the ones without an error to the current chunk.
ScanMoves(b) ==
  /\ Active(b) /\ que'[b] = que[b]
  /\ Range(ready'[b]) \subseteq Range(ready[b]) \cup Range(qhead[que[b]])
  /\ \/ cur'[b] \in {NoMessage, cur[b]}
     \/ cur'[b] \in Range(ready[b]) /\ ~err[cur'[b]]

\* gpuscan_begin
ScanBegins(b) ==
  /\ qhead'[que'[b]] = << >> /\ ready'[b] = << >> /\ cur'[b] = NoMessage

BackendDone(b) ==
  /\ Sole(b)
  /\ \A c \in Backends \ {b} : /\ que'[c] = que[c] /\ cur'[c] = cur[c]
                               /\ ready'[c] = ready[c]
  /\ \A q \in Queues : Range(qhead'[q]) \subseteq Range(qhead[q])
  /\ \A k \in Messages : live[k] => KeepsDone(k)
  /\ Active(b)' => ScanMoves(b) \/ ScanBegins(b)

\* The messages a scan knows are allocated.
LEMMA KnownLive ==
  ASSUME RefInv, NEW b \in Backends, Active(b)
  PROVE  /\ que[b] \in Queues
         /\ \A m \in Range(qhead[que[b]]) \cup Range(ready[b]) : m \in Messages /\ live[m]
         /\ cur[b] # NoMessage => cur[b] \in Messages /\ live[cur[b]]
<1>1. ScanOK(b) /\ que[b] \in Queues
  BY OwnerQueue DEF RefInv, ScanInv, LocalInv, LocalOK
<1>2. \A m \in tracked[b] : m \in Messages /\ live[m]
  <2>1. \A m \in tracked[b] : m \in Messages /\ BackendHas(m)
    BY BackendPlaces DEF Owns, RefInv, TypeInv, DataInv, TrackTypeOK
  <2> QED  BY <2>1 DEF RefInv, OwnInv, UsedLive
<1>3. AtHand(b) \subseteq tracked[b] /\ Range(qhead[que[b]]) \subseteq tracked[b]
  BY <1>1 DEF ScanOK
<1>4. Range(ready[b]) \subseteq Messages
  BY RangeOf DEF RefInv, TypeInv, DataInv, ScanTypeOK
<1>5. Range(ready[b]) \subseteq AtHand(b) /\ (cur[b] # NoMessage => cur[b] \in AtHand(b))
  BY <1>4, MessagesAssumption DEF AtHand
<1> QED  BY <1>1, <1>2, <1>3, <1>5

LEMMA BackendRan ==
  ASSUME RefInv, RanInv, NEW b \in Backends, BackendDone(b)
  PROVE  RanInv'
<1>1. b \in Actors /\ b \notin Servers /\ Backends \subseteq Actors /\ Servers \subseteq Actors
  BY ActorKinds
<1>2. ReplyDone'
  <2>1. SUFFICES ASSUME NEW s \in Servers, pc'[s] = "reply"
                 PROVE  \E k \in Messages : msg'[s] = k /\ Done(k)'
    BY DEF ReplyDone, Done
  <2>2. pc[s] = "reply" /\ msg'[s] = msg[s]
    BY <1>1, <2>1 DEF BackendDone, Sole
  <2>3. PICK k \in Messages : k = msg[s]
    BY <1>1, <2>2 DEF RefInv, TypeInv, ControlInv, HeldFilled, HoldPC, Filled
  <2>4. live[k]
    BY <2>2, <2>3 DEF RefInv, OwnInv, UsedLive, ServerHas
  <2>5. Done(k)
    BY <2>2, <2>3 DEF RanInv, ReplyDone
  <2> QED  BY <2>2, <2>3, <2>4, <2>5 DEF BackendDone, KeepsDone
<1>3. ASSUME NEW c \in Backends, ScanMoves(c) PROVE ScanDone(c)'
  <2>1. /\ que[c] \in Queues
        /\ \A m \in Range(qhead[que[c]]) \cup Range(ready[c]) : m \in Messages /\ live[m]
        /\ cur[c] # NoMessage => cur[c] \in Messages /\ live[cur[c]]
    BY <1>3, KnownLive DEF ScanMoves
  <2>2. ScanDone(c)
    BY <1>3 DEF ScanMoves, RanInv
  <2>3. \A m \in Range(qhead[que[c]]) \cup Range(ready[c]) : Done(m)'
    BY <2>1, <2>2 DEF ScanDone, BackendDone, KeepsDone
  <2>4. Range(qhead'[que'[c]]) \cup Range(ready'[c]) \subseteq Range(qhead[que[c]]) \cup Range(ready[c])
    BY <1>3, <2>1 DEF ScanMoves, BackendDone
  <2>5. \A m \in Range(qhead'[que'[c]]) \cup Range(ready'[c]) : Done(m)'
    BY <2>3, <2>4
  <2>6. cur'[c] # NoMessage => ran'[cur'[c]]
    <3>1. CASE cur'[c] = cur[c] /\ cur[c] # NoMessage
      BY <2>1, <2>2, <3>1 DEF ScanDone, BackendDone, KeepsDone
    <3>2. CASE cur'[c] \in Range(ready[c]) /\ ~err[cur'[c]]
      <4>1. cur'[c] \in Messages /\ live[cur'[c]] /\ ran[cur'[c]]
        BY <2>1, <2>2, <3>2 DEF ScanDone, Done
      <4> QED  BY <4>1 DEF BackendDone, KeepsDone
    <3> QED  BY <1>3, <3>1, <3>2 DEF ScanMoves
  <2> QED  BY <2>5, <2>6 DEF ScanDone
<1>4. ASSUME NEW c \in Backends, Active(c)' PROVE ScanDone(c)'
  <2>1. CASE c # b
    <3>1. Active(c)
      BY <1>1, <1>4, <2>1 DEF BackendDone, Sole, Active, InScan, InRelease
    <3>2. ScanMoves(c)
      BY <2>1, <3>1 DEF BackendDone, ScanMoves
    <3> QED  BY <1>3, <3>2
  <2>2. CASE ScanMoves(c)
    BY <1>3, <2>2
  <2>3. CASE ScanBegins(c)
    <3>1. Range(<< >>) = {}
      BY DEF Range
    <3> QED  BY <2>3, <3>1 DEF ScanBegins, ScanDone
  <2> QED  BY <1>4, <2>1, <2>2, <2>3 DEF BackendDone
<1> QED  BY <1>2, <1>4 DEF RanInv

\* Steps that leave the scan and the results alone
LEMMA QuietDone ==
  ASSUME RefInv, NEW b \in Backends, BackendStep(b) \/ BackendEvent(b), Sole(b),
         UNCHANGED <<que, cur, ready, err, ran>>, Active(b)' => Active(b)
  PROVE  BackendDone(b)
<1>1. \A q \in Queues : Range(qhead'[q]) \subseteq Range(qhead[q])
  BY HeadsShrink DEF RefInv
<1>2. \A k \in Messages : KeepsDone(k)
  BY DoneKept
<1> QED  BY <1>1, <1>2 DEF BackendDone, ScanMoves

LEMMA BeginDone ==
  ASSUME RefInv, NEW b \in Backends, Begin(b) PROVE BackendDone(b)
<1>1. b \in Actors /\ pc[b] = "idle" /\ UNCHANGED <<cur, ready, err, ran, msg, ret>>
  BY ActorKinds DEF Begin
<1>2. PICK q \in Queues : CreateQueue(q) /\ que' = [que EXCEPT ![b] = q]
  BY DEF Begin
<1>3. que'[b] = q /\ qhead'[q] = << >> /\ \A c \in Backends \ {b} : que'[c] = que[c]
  BY <1>2 DEF CreateQueue, RefInv, TypeInv, DataInv, ScanTypeOK, QueueTypeOK
<1>4. ready[b] = << >> /\ cur[b] = NoMessage
  BY <1>1 DEF RefInv, ScanInv, IdleOK
<1>5. Sole(b)
  BY <1>1, GotoStep DEF Begin, Moves, Sole, RefInv
<1>6. \A p \in Queues : Range(qhead'[p]) \subseteq Range(qhead[p])
  BY HeadsShrink DEF RefInv, BackendEvent
<1> QED  BY <1>1, <1>3, <1>4, <1>5, <1>6, DoneKept DEF BackendDone, ScanBegins

\* TakeAnswer and Pick
LEMMA TakeDone ==
  ASSUME RefInv, NEW b \in Backends, Drain(b) \/ Try(b) \/ Wait(b) \/ Pick(b)
  PROVE  BackendDone(b)
<1>1. b \in Actors /\ Active(b) /\ UNCHANGED <<que, err, ran, msg, ret>>
  BY ActorKinds
  DEF Drain, Try, Wait, Pick, TakeAnswer, NoAnswer, Active, InScan
<1>2. Sole(b)
  <2>1. UNCHANGED pc \/ \E l : Goto(b, l)
    BY DEF Drain, Try, Wait, Pick
  <2> QED  BY <1>1, <2>1, SoleStep DEF RefInv
<1>3. \A q \in Queues : Range(qhead'[q]) \subseteq Range(qhead[q])
  BY HeadsShrink DEF RefInv, BackendStep
<1>4. /\ ready \in [Backends -> Seq(Messages)] /\ cur \in [Backends -> Messages \cup {NoMessage}]
      /\ que[b] \in Queues /\ qhead[que[b]] \in Seq(Messages)
  BY <1>1, KnownLive DEF RefInv, TypeInv, DataInv, ScanTypeOK, QueueTypeOK
<1>5. ASSUME TakeAnswer(b)
      PROVE  /\ UNCHANGED cur /\ \A c \in Backends \ {b} : ready'[c] = ready[c]
             /\ Range(ready'[b]) \subseteq Range(ready[b]) \cup Range(qhead[que[b]])
  <2>1. /\ qhead[que[b]] # << >> /\ UNCHANGED cur
        /\ ready' = [ready EXCEPT ![b] = <<Head(qhead[que[b]])>> \o @]
    BY <1>5 DEF TakeAnswer, Dequeue
  <2>2. Head(qhead[que[b]]) \in Messages /\ Head(qhead[que[b]]) \in Range(qhead[que[b]])
    BY <1>4, <2>1, RangeHead
  <2>3. Range(<<Head(qhead[que[b]])>> \o ready[b]) = Range(ready[b]) \cup {Head(qhead[que[b]])}
    BY <1>4, <2>2, RangeCons
  <2> QED  BY <1>4, <2>1, <2>2, <2>3
<1>6. ASSUME Pick(b)
      PROVE  /\ \A c \in Backends \ {b} : ready'[c] = ready[c] /\ cur'[c] = cur[c]
             /\ Range(ready'[b]) \subseteq Range(ready[b])
             /\ cur'[b] = cur[b] \/ (cur'[b] \in Range(ready[b]) /\ ~err[cur'[b]])
  <2>1. ready[b] # << >>
    BY <1>6 DEF Pick, RefInv, TypeInv, ScanHasQueue
  <2>2. Head(ready[b]) \in Range(ready[b]) /\ Range(Tail(ready[b])) \subseteq Range(ready[b])
    BY <1>4, <2>1, RangeHead, RangeShrinks
  <2> QED  BY <1>4, <1>6, <2>2 DEF Pick
<1>7. CASE Drain(b) \/ Try(b) \/ Wait(b)
  <2>1. TakeAnswer(b) \/ UNCHANGED <<cur, ready>>
    BY <1>7 DEF Drain, Try, Wait, NoAnswer
  <2>2. /\ UNCHANGED cur /\ \A c \in Backends \ {b} : ready'[c] = ready[c]
        /\ Range(ready'[b]) \subseteq Range(ready[b]) \cup Range(qhead[que[b]])
    BY <1>5, <2>1
  <2> QED  BY <1>1, <1>2, <1>3, <2>2, DoneKept DEF BackendDone, ScanMoves
<1>8. CASE Pick(b)
  BY <1>1, <1>2, <1>3, <1>6, <1>8, DoneKept DEF BackendDone, ScanMoves
<1> QED  BY <1>7, <1>8

LEMMA ExecDone ==
  ASSUME RefInv, NEW b \in Backends, Exec(b) PROVE BackendDone(b)
<1>1. b \in Actors /\ Active(b) /\ UNCHANGED <<que, ready, err, ran>>
  BY ActorKinds DEF Exec, Active, InScan
<1>2. Sole(b)
  BY <1>1, SoleStep DEF Exec, RefInv
<1>3. \A q \in Queues : Range(qhead'[q]) \subseteq Range(qhead[q])
  BY HeadsShrink DEF RefInv, BackendEvent
<1>4. cur'[b] \in {NoMessage, cur[b]} /\ \A c \in Backends \ {b} : cur'[c] = cur[c]
  BY DEF Exec, RefInv, TypeInv, DataInv, ScanTypeOK
<1> QED  BY <1>1, <1>2, <1>3, <1>4, DoneKept DEF BackendDone, ScanMoves

\* pgstrom_load_gpuscan_row resets the result of a message that is not in use.
LEMMA LoadDone ==
  ASSUME RefInv, NEW b \in Backends, Load(b) PROVE BackendDone(b)
<1>1. b \in Actors /\ Active(b) /\ UNCHANGED <<que, ready, cur>>
  BY ActorKinds DEF Load, Active, InScan
<1>2. Sole(b)
  BY <1>1, SoleStep DEF Load, RefInv
<1>3. \A q \in Queues : Range(qhead'[q]) \subseteq Range(qhead[q])
  BY HeadsShrink DEF RefInv, BackendStep
<1>4. PICK m \in Messages : ~live[m] /\ err' = [err EXCEPT ![m] = FALSE]
                            /\ ran' = [ran EXCEPT ![m] = FALSE]
  BY DEF Load, NewMessage
<1>5. \A k \in Messages \ {m} : err'[k] = err[k] /\ ran'[k] = ran[k]
  BY <1>4 DEF RefInv, TypeInv, DataInv, MessageTypeOK, ClservTypeOK
<1>6. \A k \in Messages : live[k] => KeepsDone(k)
  BY <1>4, <1>5 DEF KeepsDone, Done
<1> QED  BY <1>1, <1>2, <1>3, <1>6 DEF BackendDone, ScanMoves

\* The end of a scan, and the routines of mqueue.c
LEMMA OverDone ==
  ASSUME RefInv, NEW b \in Backends, Commit(b) \/ AbortEnd(b) PROVE BackendDone(b)
<1>1. b \in Actors /\ UNCHANGED <<err, ran, msg, ret>> /\ Goto(b, "idle")
  BY ActorKinds DEF Commit, AbortEnd, Forget
<1>2. Sole(b) /\ ~Active(b)'
  BY <1>1, GotoStep DEF Moves, Sole, Active, InScan, InRelease, RefInv
<1>3. \A q \in Queues : Range(qhead'[q]) \subseteq Range(qhead[q])
  BY HeadsShrink DEF RefInv, BackendStep
<1>4. \A c \in Backends \ {b} : que'[c] = que[c] /\ cur'[c] = cur[c] /\ ready'[c] = ready[c]
  BY DEF Commit, AbortEnd, Forget, RefInv, TypeInv, DataInv, ScanTypeOK
<1> QED  BY <1>1, <1>2, <1>3, <1>4, DoneKept DEF BackendDone

LEMMA BackendCallDone ==
  ASSUME RefInv, NEW b \in Backends, BackendCall(b) PROVE BackendDone(b)
<1>1. /\ b \in Actors /\ UNCHANGED <<que, cur, ready, err, ran, msg, ret>> /\ LocalOK(b)
      /\ BackendStep(b)
  BY ActorKinds DEF BackendCall, CloseQueue, CloseFree, PutMessage, PutQueue, PutQueueLink,
     FreeMessage, RefInv, LocalInv, BackendStep
<1>2. \/ pc[b] \in {"closeq", "freeq"} /\ (Return(b) \/ Goto(b, "freeq"))
      \/ pc[b] = "put" /\ (Return(b) \/ Goto(b, "ub") \/ Goto(b, "putq"))
      \/ InRelease(b) /\ (Return(b) \/ Goto(b, "linkq") \/ Goto(b, "freem"))
  BY DEF BackendCall, CloseQueue, CloseFree, PutMessage, PutQueue, PutQueueLink, FreeMessage,
     InRelease
<1>3. PICK l \in {ret[b], "freeq", "ub", "putq", "linkq", "freem"} :
        /\ Moves(b, l, msg[b], ret[b])
        /\ pc[b] \in {"closeq", "freeq", "put"} \/ InRelease(b)
  BY <1>1, <1>2, GotoStep, ReturnStep DEF RefInv
<1>4. Sole(b)
  BY <1>3 DEF Moves, Sole
<1>5. Active(b)' => ret[b] = "drain" /\ InRelease(b)
  BY <1>1, <1>2, <1>3 DEF Moves, Active, InScan, InRelease, LocalOK
<1>6. Active(b)' => Active(b)
  BY <1>5 DEF Active
<1> QED  BY <1>1, <1>4, <1>6, QuietDone

LEMMA NextRan ==
  ASSUME Decided, RefInv, RanInv, Next PROVE RanInv'
<1>1. Undisturbed
  BY DEF Decided
<1>2. ASSUME NEW b \in Backends, BackendStep(b) \/ BackendEvent(b) PROVE BackendDone(b)
  <2>1. CASE \/ Begin(b) \/ Drain(b) \/ Try(b) \/ Wait(b) \/ Pick(b) \/ Exec(b) \/ Load(b)
             \/ Commit(b) \/ AbortEnd(b) \/ BackendCall(b)
    BY <2>1, BeginDone, TakeDone, ExecDone, LoadDone, OverDone, BackendCallDone
  <2>2. b \in Actors /\ TypeInv
    BY ActorKinds DEF RefInv
  <2>3. CASE Send(b)
    <3>1. /\ pc[b] = "send" /\ UNCHANGED <<que, cur, ready, err, ran>>
          /\ \/ \E l : Goto(b, l) /\ UNCHANGED <<msg, ret>>
             \/ \E l, m, r : Call(b, l, m, r)
      BY <2>3 DEF Send, Enqueue
    <3>2. Sole(b) /\ Active(b)
      BY <2>2, <3>1, SoleStep DEF Active, InScan
    <3> QED  BY <1>2, <3>1, <3>2, QuietDone
  <2>4. CASE TrackQueue(b) \/ LoadEnd(b)
    <3>1. /\ pc[b] \in {"trackq", "load"} /\ UNCHANGED <<que, cur, ready, err, ran, msg, ret>>
          /\ \E l : Goto(b, l)
      BY <2>4 DEF TrackQueue, LoadEnd
    <3>2. Sole(b) /\ Active(b)
      BY <2>2, <3>1, SoleStep DEF Active, InScan
    <3> QED  BY <1>2, <3>1, <3>2, QuietDone
  <2>5. CASE \/ TrackQueueFails(b) \/ LoadFails(b) \/ Timeout(b) \/ Cancel(b) \/ End(b)
             \/ AbortQueue(b) \/ AbortMessage(b)
    <3>1. /\ UNCHANGED <<que, cur, ready, err, ran>>
          /\ \E l \in {"abort", "closeq", "put"} :
               \/ Goto(b, l) /\ UNCHANGED <<msg, ret>>
               \/ \E m, r : Call(b, l, m, r)
      BY <2>5 DEF TrackQueueFails, LoadFails, Timeout, NoAnswer, Cancel, End, AbortQueue, AbortMessage
    <3>2. Sole(b) /\ pc'[b] \in {"abort", "closeq", "put"}
      BY <2>2, <3>1, GotoStep, CallStep DEF Moves, Sole
    <3>3. ~Active(b)'
      BY <3>2 DEF Active, InScan, InRelease
    <3> QED  BY <1>2, <3>1, <3>2, <3>3, QuietDone
  <2>6. CASE BeginFails(b)
    <3>1. UNCHANGED <<que, cur, ready, err, ran, callVars>>
      BY <2>6 DEF BeginFails
    <3>2. Sole(b) /\ (Active(b)' <=> Active(b))
      BY <3>1 DEF Sole, Active, InScan, InRelease
    <3> QED  BY <1>2, <3>1, <3>2, QuietDone
  <2> QED  BY <1>2, <2>1, <2>3, <2>4, <2>5, <2>6 DEF BackendStep, BackendEvent
<1>3. ~Sigterm /\ ~MainStep
  BY <1>1, NoShutdown DEF RefInv
<1>4. ASSUME NEW t \in Threads, ThreadStep(t) PROVE RanInv'
  BY <1>4, CallDone, ThreadDone, ServerRan, ActorKinds
<1>5. ASSUME NEW d \in Drivers, DriverStep(d) PROVE RanInv'
  BY <1>5, CallDone, DriverDone, ServerRan, ActorKinds
<1> QED  BY <1>2, <1>3, <1>4, <1>5, BackendRan DEF Next

LEMMA InitRan == Init => RanInv
<1> SUFFICES ASSUME Init PROVE RanInv
  OBVIOUS
<1>1. \A a \in Actors : pc[a] \in {"loop", "join", "idle"}
  BY DEF Init
<1>2. \A b \in Backends : ~Active(b)
  BY <1>1, ActorKinds DEF Active, InScan, InRelease
<1> QED  BY <1>1, <1>2, ActorKinds DEF RanInv, ReplyDone

LEMMA StutterRan == ASSUME RanInv, UNCHANGED vars PROVE RanInv'
BY DEF RanInv, ReplyDone, Done, ScanDone, Active, InScan, InRelease, vars

\* gpuscan_exec returns rows only from a chunk on which the kernel has run:
\* an answer without an error comes from clserv_respond_gpuscan_row.  The
\* error code that clserv_process_gpuscan_row never sets when malloc fails
\* (excluded by Decided) breaks this.
THEOREM OnlyExecuted == ASSUME Decided PROVE Spec => []OnlyExecutedChunks
<1>1. Init => RefInv /\ RanInv
  BY InitRefInv, InitRan
<1>2. RefInv /\ RanInv /\ [Next]_vars => (RefInv /\ RanInv)'
  BY NextRef, StutterRefInv, NextRan, StutterRan DEF Decided
<1>3. RanInv => OnlyExecutedChunks
  BY DEF RanInv, ScanDone, Active, InScan, OnlyExecutedChunks
<1> QED  BY <1>1, <1>2, <1>3, PTL DEF Spec

=============================================================================
