--------------------------- MODULE GpuScanProofs ----------------------------
(***************************************************************************)
(* Theorems about GpuScan, for any number of backends, server threads,     *)
(* messages and queues and for every behaviour of the environment.         *)
(***************************************************************************)
EXTENDS GpuScan, TLAPS

(***************************************************************************)
(* The type invariant is not inductive: what a queue or a backend hands to *)
(* an actor must be a message with a response queue, and a backend inside  *)
(* a scan must have a queue.                                               *)
(***************************************************************************)
\* m was filled in by pgstrom_load_gpuscan_row; r gives the response queues.
Filled(r, m) == m \in Messages /\ r[m] \in Queues

FilledSeq(r, s) == s \in Seq(Messages) /\ \A i \in 1..Len(s) : Filled(r, s[i])

\* Places in which an actor works on its message
HoldPC == {"send", "proc", "build", "reply", "put", "putq", "linkq", "freem"}

HeldFilled ==
  /\ \A a \in Actors : pc[a] \in HoldPC => Filled(respq, msg[a])
  /\ \A t \in Threads : pc[t] = "flush" => Filled(respq, msg[t])

QueuesFilled ==
  /\ FilledSeq(respq, servq)
  /\ \A q \in Queues : FilledSeq(respq, qhead[q])

ScansFilled ==
  \A b \in Backends :
    /\ FilledSeq(respq, ready[b])
    /\ cur[b] # NoMessage => Filled(respq, cur[b])
    /\ \A m \in tracked[b] : Filled(respq, m)

ClservFilled ==
  /\ FilledSeq(respq, waitq)
  /\ \A m \in device : Filled(respq, m)

\* A backend that is not idle has a queue, and picks only what is ready.
ScanHasQueue ==
  \A b \in Backends :
    /\ pc[b] # "idle" => que[b] \in Queues
    /\ pc[b] = "pick" => ready[b] # << >>

\* Only one actor enqueues the messages that waited for the build.
OneFlush ==
  \A a \in Actors : pc[a] = "flush" =>
    /\ \/ a \in Threads /\ prog = "rejected"
       \/ a \in Drivers /\ prog \in {"built", "failed"}
    /\ \A c \in Actors : pc[c] = "flush" => c = a

\* What concerns the control of the actors, and what concerns the data
ControlInv == CallTypeOK /\ HeldFilled /\ OneFlush

DataInv ==
  /\ TableTypeOK /\ QueueTypeOK /\ MessageTypeOK
  /\ ScanTypeOK /\ TrackTypeOK /\ ClservTypeOK
  /\ QueuesFilled /\ ScansFilled /\ ClservFilled

TypeInv == DataInv /\ ControlInv /\ ScanHasQueue

dataVars == <<tableVars, queueVars, servVars, msgVars, scanVars, trackVars, clservVars>>

USE DEF tableVars, queueVars, servVars, msgVars, callVars, scanVars, trackVars,
        buildVars, clservVars, dataVars

\* The strengthening implies the type invariant.
LEMMA TypeInvImpliesTypeOK == TypeInv => TypeOK
BY DEF TypeInv, DataInv, ControlInv, TypeOK

\* It holds when the server has started.
LEMMA InitTypeInv == Init => TypeInv
<1> SUFFICES ASSUME Init PROVE TypeInv
  OBVIOUS
<1> USE DEF Init, MQueueInit, Actors, Servers
<1>1. sclosed \in BOOLEAN /\ stopping \in BOOLEAN
  BY Zenon
<1>2. TableTypeOK /\ QueueTypeOK /\ MessageTypeOK
  BY <1>1, SizesAssumption DEF TableTypeOK, QueueTypeOK, MessageTypeOK, NoQueue
<1>3. CallTypeOK
  BY ActorsAssumption DEF CallTypeOK, BackendPC, ServerPC, CallPC, ReturnPC
<1>4. ScanTypeOK /\ TrackTypeOK /\ ClservTypeOK
  BY <1>1 DEF ScanTypeOK, TrackTypeOK, ClservTypeOK
<1>5. HeldFilled /\ ScanHasQueue /\ OneFlush
  BY ActorsAssumption DEF HeldFilled, HoldPC, ScanHasQueue, OneFlush
<1>6. QueuesFilled /\ ScansFilled /\ ClservFilled
  BY DEF QueuesFilled, ScansFilled, ClservFilled, FilledSeq
<1> QED  BY <1>2, <1>3, <1>4, <1>5, <1>6 DEF TypeInv, ControlInv, DataInv

(***************************************************************************)
(* Lists of messages.                                                      *)
(***************************************************************************)
LEMMA FilledEmpty == \A r : FilledSeq(r, << >>)
BY DEF FilledSeq

\* The head and the rest of a list of filled messages are filled.
LEMMA FilledHead ==
  ASSUME NEW r, NEW s, FilledSeq(r, s), s # << >>
  PROVE  Filled(r, Head(s)) /\ FilledSeq(r, Tail(s))
BY DEF FilledSeq, Filled

\* A list stays filled when a filled message is put at its end,
LEMMA FilledAppend ==
  ASSUME NEW r, NEW s, FilledSeq(r, s), NEW m, Filled(r, m)
  PROVE  FilledSeq(r, Append(s, m))
BY DEF FilledSeq, Filled

\* or at its head.
LEMMA FilledCons ==
  ASSUME NEW r, NEW s, FilledSeq(r, s), NEW m, Filled(r, m)
  PROVE  FilledSeq(r, <<m>> \o s) /\ <<m>> \o s # << >>
BY DEF FilledSeq, Filled

(***************************************************************************)
(* Steps that only move control.                                           *)
(***************************************************************************)
LEMMA DataUnchanged == ASSUME DataInv, UNCHANGED dataVars PROVE DataInv'
<1>1. (TableTypeOK /\ QueueTypeOK /\ MessageTypeOK)'
  BY DEF DataInv, TableTypeOK, QueueTypeOK, MessageTypeOK
<1>2. (ScanTypeOK /\ TrackTypeOK /\ ClservTypeOK)'
  BY DEF DataInv, ScanTypeOK, TrackTypeOK, ClservTypeOK
<1>3. (QueuesFilled /\ ScansFilled /\ ClservFilled)'
  BY DEF DataInv, QueuesFilled, ScansFilled, ClservFilled
<1> QED  BY <1>1, <1>2, <1>3 DEF DataInv

\* The actor a goes to l, with a message where l needs one.
Moved(a, l) ==
  /\ pc' = [pc EXCEPT ![a] = l]
  /\ msg' \in [Actors -> Messages \cup {NoMessage}]
  /\ ret' \in [Actors -> ReturnPC]
  /\ \A c \in Actors \ {a} : msg'[c] = msg[c]
  /\ l \in HoldPC => Filled(respq', msg'[a])

\* A step that only moves one actor preserves the invariant.
LEMMA ControlMoved ==
  ASSUME ControlInv, NEW a \in Actors,
         NEW l \in (BackendPC \cup ServerPC \cup CallPC) \ {"flush"}, Moved(a, l),
         respq' = respq, prog' = prog \/ pc[a] = "flush" \/ prog = "none"
  PROVE  ControlInv'
<1> USE DEF ControlInv, Moved
<1>1. CallTypeOK'
  BY DEF CallTypeOK
<1>2. ASSUME NEW c \in Actors, c # a PROVE pc'[c] = pc[c] /\ msg'[c] = msg[c]
  BY <1>2 DEF CallTypeOK
<1>3. pc'[a] = l
  BY DEF CallTypeOK
<1>4. HeldFilled'
  BY <1>2, <1>3 DEF HeldFilled, Actors, Servers
<1>5. OneFlush'
  BY <1>2, <1>3 DEF OneFlush
<1> QED  BY <1>1, <1>4, <1>5

\* A jump of an actor is such a step,
LEMMA GotoMoves ==
  ASSUME ControlInv, NEW a \in Actors, NEW l, Goto(a, l),
         msg' = msg /\ ret' = ret,
         l \in HoldPC => Filled(respq', msg[a])
  PROVE  Moved(a, l)
BY DEF ControlInv, CallTypeOK, Goto, Moved

\* and so is the call of a routine with a filled message.
LEMMA CallMoves ==
  ASSUME ControlInv, NEW a \in Actors, NEW l, NEW m, NEW r \in ReturnPC, Call(a, l, m, r),
         m \in Messages \cup {NoMessage}, l \in HoldPC => Filled(respq', m)
  PROVE  Moved(a, l)
BY DEF ControlInv, CallTypeOK, Call, Moved

\* A step that leaves the scans alone but for control
LEMMA ScanMoved ==
  ASSUME ScanHasQueue, ControlInv, NEW a \in Actors, NEW l, Moved(a, l),
         que' = que /\ ready' = ready,
         a \in Backends => pc[a] # "idle" /\ (l = "pick" => ready[a] # << >>)
  PROVE  ScanHasQueue'
BY DEF ScanHasQueue, ControlInv, CallTypeOK, Moved, Actors

(***************************************************************************)
(* Backend.                                                                *)
(***************************************************************************)
LEMMA BeginType == ASSUME TypeInv, NEW b \in Backends, Begin(b) PROVE TypeInv'
<1> USE DEF Begin, CreateQueue
<1>1. PICK q \in Queues : CreateQueue(q) /\ que' = [que EXCEPT ![b] = q]
  OBVIOUS
<1>2. FreeQueues \in Seq(Queues) /\ FreeQueues # << >>
  <2>1. CASE freelist = << >>
    <3>1. FreeQueues = NewBlock /\ nalloc + BlockSize <= MaxQueues /\ nalloc \in Nat
      BY <1>1, <2>1 DEF TypeInv, DataInv, TableTypeOK, FreeQueues, BlockFits
    <3>2. NewBlock \in [1..BlockSize -> Queues]
      BY <3>1, SizesAssumption, SMTT(30) DEF NewBlock, Queues
    <3>3. NewBlock \in Seq(Queues) /\ Len(NewBlock) = BlockSize
      BY <3>2, SizesAssumption, SMTT(30)
    <3> QED  BY <3>1, <3>3, SizesAssumption
  <2>2. CASE freelist # << >>
    BY <2>2 DEF TypeInv, DataInv, TableTypeOK, FreeQueues
  <2> QED  BY <2>1, <2>2
<1>3. num_free' \in 0..CounterRange-1 /\ num_active' \in 0..CounterRange-1
  BY <1>1, SizesAssumption DEF TypeInv, DataInv, TableTypeOK, Inc32, Dec32
<1>4. nalloc' \in 0..MaxQueues
  BY <1>1, SizesAssumption DEF TypeInv, DataInv, TableTypeOK, BlockFits
<1>5. (TableTypeOK /\ QueueTypeOK /\ MessageTypeOK)'
  <2>1. TableTypeOK'
    BY <1>1, <1>2, <1>3, <1>4 DEF TableTypeOK
  <2>2. (QueueTypeOK /\ MessageTypeOK)'
    BY <1>1 DEF TypeInv, DataInv, QueueTypeOK, MessageTypeOK
  <2> QED  BY <2>1, <2>2
<1>6. (ScanTypeOK /\ TrackTypeOK /\ ClservTypeOK)'
  BY <1>1 DEF TypeInv, DataInv, ScanTypeOK, TrackTypeOK, ClservTypeOK
<1>7. (QueuesFilled /\ ScansFilled /\ ClservFilled)'
  BY <1>1, FilledEmpty DEF TypeInv, DataInv, QueuesFilled, ScansFilled, ClservFilled, QueueTypeOK
<1>8. ControlInv'
  BY GotoMoves, ControlMoved DEF TypeInv, Actors, HoldPC, BackendPC
<1>9. ScanHasQueue'
  BY <1>1 DEF TypeInv, ScanHasQueue, ControlInv, CallTypeOK, DataInv, ScanTypeOK, Goto, Actors
<1> QED  BY <1>5, <1>6, <1>7, <1>8, <1>9 DEF TypeInv, DataInv

\* gpuscan_exec counts an answer and keeps the message.
LEMMA TakeAnswerType ==
  ASSUME TypeInv, NEW b \in Backends, pc[b] # "idle", TakeAnswer(b)
  PROVE  /\ DataInv'
         /\ ready'[b] # << >>
         /\ \A c \in Backends \ {b} : ready'[c] = ready[c]
<1> USE DEF TakeAnswer, Dequeue
<1> DEFINE q == que[b]
<1>1. q \in Queues
  BY DEF TypeInv, ScanHasQueue
<1>2. Filled(respq, Head(qhead[q])) /\ FilledSeq(respq, Tail(qhead[q]))
  BY <1>1, FilledHead DEF TypeInv, DataInv, QueuesFilled
<1>3. FilledSeq(respq, ready'[b]) /\ ready'[b] # << >>
  BY <1>2, FilledCons DEF TypeInv, DataInv, ScansFilled, ScanTypeOK
<1>4. (TableTypeOK /\ QueueTypeOK /\ MessageTypeOK)'
  BY <1>1, <1>2 DEF TypeInv, DataInv, TableTypeOK, QueueTypeOK, MessageTypeOK, FilledSeq
<1>5. (ScanTypeOK /\ TrackTypeOK /\ ClservTypeOK)'
  BY <1>3 DEF TypeInv, DataInv, ScanTypeOK, TrackTypeOK, ClservTypeOK, FilledSeq
<1>6. (QueuesFilled /\ ClservFilled)'
  BY <1>1, <1>2 DEF TypeInv, DataInv, QueuesFilled, ClservFilled, QueueTypeOK
<1>7. ScansFilled'
  BY <1>3 DEF TypeInv, DataInv, ScansFilled, ScanTypeOK
<1> QED  BY <1>3, <1>4, <1>5, <1>6, <1>7 DEF TypeInv, DataInv, ScanTypeOK

\* The steps of gpuscan_exec that take an answer, wait for one or give up.
LEMMA AnswerType ==
  ASSUME TypeInv, NEW b \in Backends, Drain(b) \/ Try(b) \/ Wait(b) \/ Timeout(b)
  PROVE  TypeInv'
<1>1. pc[b] # "idle" /\ b \in Actors
  BY DEF Drain, Try, Wait, Timeout, Actors
<1>2. CASE TakeAnswer(b) /\ UNCHANGED pc
  <2>1. DataInv' /\ \A c \in Backends \ {b} : ready'[c] = ready[c]
    BY <1>1, <1>2, TakeAnswerType
  <2>2. ControlInv'
    BY <1>2 DEF TypeInv, ControlInv, CallTypeOK, HeldFilled, OneFlush, TakeAnswer
  <2>3. ScanHasQueue'
    BY <1>1, <1>2, TakeAnswerType DEF TypeInv, ScanHasQueue, TakeAnswer
  <2> QED  BY <2>1, <2>2, <2>3 DEF TypeInv
<1>3. CASE TakeAnswer(b) /\ Goto(b, "pick")
  <2>1. DataInv' /\ ready'[b] # << >> /\ \A c \in Backends \ {b} : ready'[c] = ready[c]
    BY <1>1, <1>3, TakeAnswerType
  <2>2. Moved(b, "pick")
    BY <1>1, <1>3, GotoMoves DEF TypeInv, TakeAnswer, HoldPC
  <2>3. ControlInv'
    BY <1>1, <1>3, <2>2, ControlMoved DEF TypeInv, TakeAnswer, BackendPC
  <2>4. ScanHasQueue'
    BY <1>1, <1>3, <2>1, <2>2 DEF TypeInv, ScanHasQueue, ControlInv, CallTypeOK, Moved, TakeAnswer
  <2> QED  BY <2>1, <2>3, <2>4 DEF TypeInv
<1>4. ASSUME NEW l \in {"load", "abort"}, NoAnswer(b), Goto(b, l) PROVE TypeInv'
  <2>1. DataInv'
    BY <1>4, DataUnchanged DEF TypeInv, NoAnswer
  <2>2. Moved(b, l)
    BY <1>1, <1>4, GotoMoves DEF TypeInv, NoAnswer, HoldPC
  <2>3. ControlInv'
    BY <1>1, <1>4, <2>2, ControlMoved DEF TypeInv, NoAnswer, BackendPC
  <2>4. ScanHasQueue'
    BY <1>1, <1>4, <2>2, ScanMoved DEF TypeInv, NoAnswer
  <2> QED  BY <2>1, <2>3, <2>4 DEF TypeInv
<1> QED  BY <1>2, <1>3, <1>4 DEF Drain, Try, Wait, Timeout

\* Steps that move control and set a flag of the tracker or a counter
LEMMA BackendMoveType ==
  ASSUME TypeInv, NEW b \in Backends,
         \/ BeginFails(b) \/ TrackQueue(b) \/ TrackQueueFails(b) \/ LoadFails(b)
         \/ LoadEnd(b) \/ Cancel(b) \/ End(b) \/ AbortQueue(b)
  PROVE  TypeInv'
<1> USE DEF TypeInv
<1>1. b \in Actors /\ msg[b] \in Messages \cup {NoMessage}
  BY DEF Actors, ControlInv, CallTypeOK
<1>2. CASE BeginFails(b)
  <2>1. ControlInv' /\ ScanHasQueue'
    BY <1>2 DEF BeginFails, ControlInv, CallTypeOK, HeldFilled, OneFlush, ScanHasQueue
  <2>2. ScanTypeOK'
    BY <1>2 DEF BeginFails, DataInv, ScanTypeOK
  <2>3. DataInv'
    BY <1>2, <2>2 DEF BeginFails, DataInv, TableTypeOK, QueueTypeOK, MessageTypeOK,
       TrackTypeOK, ClservTypeOK, QueuesFilled, ScansFilled, ClservFilled
  <2> QED  BY <2>1, <2>3
<1>3. ASSUME TrackQueue(b) \/ End(b) \/ AbortQueue(b) PROVE DataInv'
  <2>1. TrackTypeOK'
    BY <1>3 DEF TrackQueue, End, AbortQueue, DataInv, TrackTypeOK
  <2>2. (TableTypeOK /\ QueueTypeOK /\ MessageTypeOK /\ ScanTypeOK)'
    BY <1>3 DEF TrackQueue, End, AbortQueue, DataInv, TableTypeOK, QueueTypeOK, MessageTypeOK,
       ScanTypeOK
  <2>3. (ClservTypeOK /\ QueuesFilled /\ ScansFilled /\ ClservFilled)'
    BY <1>3 DEF TrackQueue, End, AbortQueue, DataInv, ClservTypeOK, QueuesFilled, ScansFilled,
       ClservFilled
  <2> QED  BY <2>1, <2>2, <2>3 DEF DataInv
<1>4. ASSUME TrackQueueFails(b) \/ LoadFails(b) \/ LoadEnd(b) \/ Cancel(b) PROVE DataInv'
  BY <1>4, DataUnchanged DEF TrackQueueFails, LoadFails, LoadEnd, Cancel
<1>5. CASE TrackQueue(b) \/ LoadFails(b) \/ LoadEnd(b) \/ Cancel(b)
  <2>1. PICK l \in {"ret", "pick", "done", "wait", "abort"} :
          Goto(b, l) /\ (l = "pick" => ready[b] # << >>)
    BY <1>5 DEF TrackQueue, LoadFails, LoadEnd, Cancel
  <2>2. Moved(b, l)
    BY <1>1, <1>5, <2>1, GotoMoves DEF TrackQueue, LoadFails, LoadEnd, Cancel, HoldPC
  <2>3. ControlInv'
    BY <1>1, <1>5, <2>2, ControlMoved DEF TrackQueue, LoadFails, LoadEnd, Cancel, BackendPC
  <2>4. ScanHasQueue'
    BY <1>1, <1>5, <2>1, <2>2, ScanMoved DEF TrackQueue, LoadFails, LoadEnd, Cancel
  <2> QED  BY <1>3, <1>4, <1>5, <2>3, <2>4
<1>6. CASE TrackQueueFails(b) \/ End(b) \/ AbortQueue(b)
  <2>1. Moved(b, "closeq")
    BY <1>1, <1>6, CallMoves DEF TrackQueueFails, End, AbortQueue, HoldPC, ReturnPC
  <2>2. ControlInv'
    BY <1>1, <1>6, <2>1, ControlMoved DEF TrackQueueFails, End, AbortQueue, CallPC
  <2>3. ScanHasQueue'
    BY <1>1, <1>6, <2>1, ScanMoved DEF TrackQueueFails, End, AbortQueue, MayEnd
  <2> QED  BY <1>3, <1>4, <1>6, <2>2, <2>3
<1> QED  BY <1>2, <1>5, <1>6

\* gpuscan_exec is called, and drops the chunk it has finished.
LEMMA ExecType == ASSUME TypeInv, NEW b \in Backends, Exec(b) PROVE TypeInv'
<1> USE DEF TypeInv, Exec
<1>1. b \in Actors
  BY DEF Actors
<1>2. ScanTypeOK' /\ TrackTypeOK' /\ ScansFilled'
  <2>1. cur' \in [Backends -> Messages \cup {NoMessage}]
        /\ \A c \in Backends : cur'[c] \in {cur[c], NoMessage}
    BY DEF DataInv, ScanTypeOK, Call
  <2>2. tracked' \in [Backends -> SUBSET Messages]
        /\ \A c \in Backends : tracked'[c] \subseteq tracked[c]
    BY DEF DataInv, TrackTypeOK, Call
  <2>3. ScanTypeOK' /\ TrackTypeOK'
    BY <2>1, <2>2 DEF DataInv, ScanTypeOK, TrackTypeOK
  <2>4. ScansFilled'
    BY <2>1, <2>2 DEF DataInv, ScansFilled
  <2> QED  BY <2>3, <2>4
<1>3. DataInv'
  BY <1>2 DEF DataInv, TableTypeOK, QueueTypeOK, MessageTypeOK, ClservTypeOK, QueuesFilled, ClservFilled
<1>4. CASE cur[b] = NoMessage
  <2>1. Moved(b, "drain")
    BY <1>1, <1>4, GotoMoves DEF HoldPC
  <2> QED  BY <1>1, <1>3, <2>1, ControlMoved, ScanMoved DEF BackendPC
<1>5. CASE cur[b] # NoMessage
  <2>1. Filled(respq, cur[b])
    BY <1>5 DEF DataInv, ScansFilled
  <2>2. Moved(b, "putq")
    BY <1>1, <1>5, <2>1, CallMoves DEF Filled, ReturnPC
  <2> QED  BY <1>1, <1>3, <2>2, ControlMoved, ScanMoved DEF CallPC
<1> QED  BY <1>4, <1>5

\* pgstrom_load_gpuscan_row fills in a message.
LEMMA LoadType == ASSUME TypeInv, NEW b \in Backends, Load(b) PROVE TypeInv'
<1> USE DEF TypeInv, Load, NewMessage, GetQueue, MayLoad
<1>1. b \in Actors /\ que[b] \in Queues
  BY DEF Actors, ScanHasQueue
<1>2. PICK m \in Messages :
        /\ NewMessage(m, que[b])
        /\ ran' = [ran EXCEPT ![m] = FALSE]
        /\ \/ /\ tracked' = [tracked EXCEPT ![b] = @ \cup {m}]
              /\ Call(b, "send", m, "abort")
           \/ /\ Call(b, "put", m, "abort")
              /\ UNCHANGED tracked
  OBVIOUS
<1>3. \A k : Filled(respq, k) \/ k = m => Filled(respq', k)
  BY <1>1, <1>2 DEF Filled, DataInv, MessageTypeOK
<1>4. \A s : FilledSeq(respq, s) => FilledSeq(respq', s)
  BY <1>3 DEF FilledSeq
<1>5. (TableTypeOK /\ QueueTypeOK /\ MessageTypeOK)'
  BY <1>1, <1>2, SMTT(30) DEF DataInv, TableTypeOK, QueueTypeOK, MessageTypeOK
<1>6. ScanTypeOK' /\ ClservTypeOK'
  BY <1>2 DEF DataInv, ScanTypeOK, ClservTypeOK
<1>7. (QueuesFilled /\ ClservFilled)'
  BY <1>2, <1>3, <1>4 DEF DataInv, QueuesFilled, ClservFilled
<1>8. TrackTypeOK' /\ ScansFilled'
  <2>1. tracked' \in [Backends -> SUBSET Messages]
        /\ \A c \in Backends : tracked'[c] \subseteq tracked[c] \cup {m}
    BY <1>2 DEF DataInv, TrackTypeOK
  <2>2. TrackTypeOK'
    BY <2>1 DEF DataInv, TrackTypeOK
  <2>3. ScansFilled'
    BY <1>3, <1>4, <2>1, ZenonT(60) DEF DataInv, ScansFilled
  <2> QED  BY <2>2, <2>3
<1>9. PICK l \in {"send", "put"} : Call(b, l, m, "abort")
  BY <1>2
<1>10. ASSUME NEW c \in Actors, c # b PROVE pc'[c] = pc[c] /\ msg'[c] = msg[c]
  BY <1>9, <1>10 DEF Call, ControlInv, CallTypeOK
<1>11. pc'[b] = l /\ msg'[b] = m
  BY <1>1, <1>9 DEF Call, ControlInv, CallTypeOK
<1>12. CallTypeOK'
  BY <1>1, <1>9 DEF Call, ControlInv, CallTypeOK, BackendPC, CallPC, ReturnPC
<1>13. HeldFilled'
  BY <1>3, <1>10, <1>11 DEF ControlInv, HeldFilled, Actors, Servers
<1>14. OneFlush'
  BY <1>10, <1>11 DEF ControlInv, OneFlush
<1>15. ScanHasQueue'
  BY <1>1, <1>10, <1>11 DEF ScanHasQueue, Actors
<1> QED  BY <1>5, <1>6, <1>7, <1>8, <1>12, <1>13, <1>14, <1>15 DEF DataInv, ControlInv

\* A loaded message goes to the server.
LEMMA SendType == ASSUME TypeInv, NEW b \in Backends, Send(b) PROVE TypeInv'
<1> USE DEF TypeInv, Send
<1>1. b \in Actors /\ Filled(respq, msg[b])
  BY DEF Actors, ControlInv, HeldFilled, HoldPC
<1>2. CASE Enqueue(b, msg[b])
  <2> USE <1>2 DEF Enqueue
  <2>1. FilledSeq(respq, servq')
    BY <1>1, FilledAppend DEF DataInv, QueuesFilled
  <2>2. (TableTypeOK /\ QueueTypeOK /\ MessageTypeOK)'
    BY <1>1, <2>1 DEF DataInv, TableTypeOK, QueueTypeOK, MessageTypeOK, Filled, FilledSeq
  <2>3. (ScanTypeOK /\ TrackTypeOK /\ ClservTypeOK)'
    BY DEF DataInv, ScanTypeOK, TrackTypeOK, ClservTypeOK
  <2>4. (QueuesFilled /\ ScansFilled /\ ClservFilled)'
    BY <2>1 DEF DataInv, QueuesFilled, ScansFilled, ClservFilled
  <2>5. PICK l \in {"try", "load"} : Goto(b, l) /\ UNCHANGED <<msg, ret>>
    OBVIOUS
  <2>6. Moved(b, l)
    BY <1>1, <2>5, GotoMoves DEF HoldPC
  <2>7. ControlInv' /\ ScanHasQueue'
    BY <1>1, <2>6, ControlMoved, ScanMoved DEF BackendPC
  <2> QED  BY <2>2, <2>3, <2>4, <2>7 DEF DataInv
<1>3. CASE sclosed /\ Call(b, "putq", msg[b], "abort") /\ UNCHANGED <<servVars, msgVars, running>>
  <2>1. DataInv'
    BY <1>3, DataUnchanged
  <2>2. Moved(b, "putq")
    BY <1>1, <1>3, CallMoves DEF Filled, ReturnPC
  <2> QED  BY <1>1, <1>3, <2>1, <2>2, ControlMoved, ScanMoved DEF CallPC
<1> QED  BY <1>2, <1>3

\* The first of the ready chunks becomes the current one.
LEMMA PickType == ASSUME TypeInv, NEW b \in Backends, Pick(b) PROVE TypeInv'
<1> USE DEF TypeInv, Pick
<1> DEFINE m == Head(ready[b])
<1>1. b \in Actors /\ ready[b] # << >>
  BY DEF Actors, ScanHasQueue
<1>2. Filled(respq, m) /\ FilledSeq(respq, Tail(ready[b]))
  BY <1>1, FilledHead DEF DataInv, ScansFilled
<1>3. ScanTypeOK'
  BY <1>2 DEF DataInv, ScanTypeOK, Filled, FilledSeq
<1>4. ScansFilled'
  BY <1>2 DEF DataInv, ScansFilled, ScanTypeOK
<1>5. DataInv'
  BY <1>3, <1>4 DEF DataInv, TableTypeOK, QueueTypeOK, MessageTypeOK, TrackTypeOK, ClservTypeOK,
     QueuesFilled, ClservFilled
<1>6. PICK l \in {"abort", "ret"} : Goto(b, l)
  OBVIOUS
<1>7. Moved(b, l)
  BY <1>1, <1>6, GotoMoves DEF HoldPC
<1>8. ControlInv'
  BY <1>1, <1>7, ControlMoved DEF BackendPC
<1>9. ScanHasQueue'
  BY <1>1, <1>7 DEF ScanHasQueue, ControlInv, CallTypeOK, DataInv, ScanTypeOK, Moved, Actors
<1> QED  BY <1>5, <1>8, <1>9

\* The transaction commits, or its abort is done.
LEMMA TransactionEndType ==
  ASSUME TypeInv, NEW b \in Backends, Commit(b) \/ AbortEnd(b) PROVE TypeInv'
<1> USE DEF TypeInv
<1>1. b \in Actors /\ Forget(b)
  BY DEF Actors, Commit, AbortEnd
<1> USE DEF Forget
<1>2. TrackTypeOK' /\ \A c \in Backends : tracked'[c] \subseteq tracked[c]
  BY DEF Commit, AbortEnd, DataInv, TrackTypeOK
<1>3. ScanTypeOK'
  BY <1>1 DEF DataInv, ScanTypeOK
<1>4. ScansFilled'
  BY <1>1, <1>2, FilledEmpty DEF DataInv, ScansFilled, ScanTypeOK
<1>5. DataInv'
  BY <1>1, <1>2, <1>3, <1>4 DEF DataInv, TableTypeOK, QueueTypeOK, MessageTypeOK, ClservTypeOK,
     QueuesFilled, ClservFilled
<1>6. Moved(b, "idle")
  BY <1>1, GotoMoves DEF HoldPC
<1>7. ControlInv'
  BY <1>1, <1>6, ControlMoved DEF BackendPC
<1>8. ScanHasQueue'
  BY <1>1, <1>6 DEF ScanHasQueue, ControlInv, CallTypeOK, DataInv, ScanTypeOK, Moved, Actors
<1> QED  BY <1>5, <1>7, <1>8

\* The abort callback puts a tracked message.
LEMMA AbortMessageType ==
  ASSUME TypeInv, NEW b \in Backends, AbortMessage(b) PROVE TypeInv'
<1> USE DEF TypeInv, AbortMessage
<1>1. PICK m \in tracked[b] :
        /\ tracked' = [tracked EXCEPT ![b] = @ \ {m}]
        /\ Call(b, "put", m, "abort")
  OBVIOUS
<1>2. b \in Actors /\ Filled(respq, m)
  BY DEF Actors, DataInv, ScansFilled
<1>3. TrackTypeOK' /\ ScansFilled'
  BY <1>1 DEF DataInv, TrackTypeOK, ScansFilled
<1>4. DataInv'
  BY <1>3 DEF DataInv, TableTypeOK, QueueTypeOK, MessageTypeOK, ScanTypeOK, ClservTypeOK,
     QueuesFilled, ClservFilled
<1>5. Moved(b, "put")
  BY <1>1, <1>2, CallMoves DEF Filled, ReturnPC
<1> QED  BY <1>2, <1>4, <1>5, ControlMoved, ScanMoved DEF CallPC

(***************************************************************************)
(* The routines of mqueue.c, whoever calls them.                           *)
(***************************************************************************)
\* Return to the caller
LEMMA ReturnMoves ==
  ASSUME ControlInv, NEW a \in Actors, Return(a), msg' = msg /\ ret' = ret
  PROVE  Moved(a, ret[a]) /\ ret[a] \in (BackendPC \cup ServerPC) \ {"flush", "pick"}
BY DEF ControlInv, CallTypeOK, Return, Goto, Moved, ReturnPC, HoldPC, BackendPC, ServerPC

\* A step inside the routine: control, and the data other than the response
\* queues of the messages
LEMMA CallStepType ==
  ASSUME TypeInv, NEW a \in Actors, pc[a] \in CallPC,
         \/ Return(a)
         \/ \E l \in CallPC : Goto(a, l) /\ (l \in HoldPC => Filled(respq, msg[a])),
         UNCHANGED <<msg, ret, respq, prog, que, ready>>, DataInv'
  PROVE  TypeInv'
<1> USE DEF TypeInv
<1>1. PICK l \in (BackendPC \cup ServerPC \cup CallPC) \ {"flush", "pick"} : Moved(a, l)
  BY ReturnMoves, GotoMoves DEF CallPC
<1>2. ControlInv'
  BY <1>1, ControlMoved
<1>3. ScanHasQueue'
  BY <1>1, ScanMoved DEF CallPC
<1> QED  BY <1>2, <1>3

\* A backend closes its queue.
LEMMA QueueCallType ==
  ASSUME TypeInv, NEW b \in Backends, CloseQueue(b, que[b]) \/ CloseFree(b, que[b]),
         UNCHANGED <<scanVars, trackVars, clservVars>>
  PROVE  TypeInv'
<1> USE DEF TypeInv
<1>1. b \in Actors /\ que[b] \in Queues /\ pc[b] \in CallPC
  BY DEF Actors, ScanHasQueue, CloseQueue, CloseFree, CallPC
<1>2. (MessageTypeOK /\ ScanTypeOK /\ TrackTypeOK /\ ClservTypeOK)'
  BY DEF CloseQueue, CloseFree, DataInv, MessageTypeOK, ScanTypeOK, TrackTypeOK, ClservTypeOK
<1>3. (QueuesFilled /\ ScansFilled /\ ClservFilled)'
  BY DEF CloseQueue, CloseFree, DataInv, QueuesFilled, ScansFilled, ClservFilled
<1>4. CASE CloseQueue(b, que[b])
  <2>1. TableTypeOK' /\ QueueTypeOK'
    BY <1>1, <1>4 DEF CloseQueue, DataInv, TableTypeOK, QueueTypeOK
  <2> QED  BY <1>1, <1>2, <1>3, <1>4, <2>1, CallStepType DEF CloseQueue, DataInv, CallPC, HoldPC
<1>5. CASE CloseFree(b, que[b])
  <2>1. num_free' \in 0..CounterRange-1 /\ num_active' \in 0..CounterRange-1
    BY <1>5, SizesAssumption DEF CloseFree, DataInv, TableTypeOK, Inc32, Dec32
  <2>2. TableTypeOK' /\ QueueTypeOK'
    BY <1>1, <1>5, <2>1 DEF CloseFree, DataInv, TableTypeOK, QueueTypeOK
  <2> QED  BY <1>1, <1>2, <1>3, <1>5, <2>2, CallStepType DEF CloseFree, DataInv
<1> QED  BY <1>4, <1>5

\* The routines any actor may be in: put, free, reply.
LEMMA MessageCallType ==
  ASSUME TypeInv, NEW a \in Actors,
         \/ PutMessage(a) \/ PutQueue(a) \/ PutQueueLink(a) \/ FreeMessage(a) \/ Reply(a),
         UNCHANGED <<scanVars, trackVars, clservVars>>
  PROVE  TypeInv'
<1> USE DEF TypeInv
<1>1. pc[a] \in CallPC /\ Filled(respq, msg[a])
  BY DEF PutMessage, PutQueue, PutQueueLink, FreeMessage, Reply, CallPC, HoldPC, ControlInv, HeldFilled
<1>2. (ScanTypeOK /\ TrackTypeOK /\ ClservTypeOK)'
  BY DEF DataInv, ScanTypeOK, TrackTypeOK, ClservTypeOK
<1>3. respq' = respq => ScansFilled' /\ ClservFilled'
  BY DEF DataInv, ScansFilled, ClservFilled
<1>4. CASE PutMessage(a)
  <2>1. (TableTypeOK /\ QueueTypeOK /\ QueuesFilled)'
    BY <1>4 DEF PutMessage, DataInv, TableTypeOK, QueueTypeOK, QueuesFilled
  <2>2. MessageTypeOK'
    BY <1>1, <1>4 DEF PutMessage, DataInv, MessageTypeOK, Filled
  <2>3. DataInv'
    BY <1>2, <1>3, <1>4, <2>1, <2>2 DEF PutMessage, DataInv
  <2> QED  BY <1>1, <1>4, <2>3, CallStepType DEF PutMessage, CallPC
<1>5. CASE PutQueue(a)
  <2>1. (TableTypeOK /\ QueueTypeOK /\ MessageTypeOK /\ QueuesFilled)'
    BY <1>1, <1>5 DEF PutQueue, DataInv, TableTypeOK, QueueTypeOK, MessageTypeOK, QueuesFilled, Filled
  <2>2. DataInv'
    BY <1>2, <1>3, <1>5, <2>1 DEF PutQueue, DataInv
  <2> QED  BY <1>1, <1>5, <2>2, CallStepType DEF PutQueue, CallPC
<1>6. CASE PutQueueLink(a)
  <2>1. (TableTypeOK /\ QueueTypeOK /\ MessageTypeOK /\ QueuesFilled)'
    BY <1>1, <1>6 DEF PutQueueLink, DataInv, TableTypeOK, QueueTypeOK, MessageTypeOK, QueuesFilled, Filled
  <2>2. DataInv'
    BY <1>2, <1>3, <1>6, <2>1 DEF PutQueueLink, DataInv
  <2> QED  BY <1>1, <1>6, <2>2, CallStepType DEF PutQueueLink, CallPC
<1>7. CASE FreeMessage(a)
  <2>1. (TableTypeOK /\ QueueTypeOK /\ MessageTypeOK /\ QueuesFilled)'
    BY <1>1, <1>7 DEF FreeMessage, DataInv, TableTypeOK, QueueTypeOK, MessageTypeOK, QueuesFilled, Filled
  <2>2. DataInv'
    BY <1>2, <1>3, <1>7, <2>1 DEF FreeMessage, DataInv
  <2> QED  BY <1>1, <1>7, <2>2, CallStepType DEF FreeMessage
<1>8. CASE Reply(a)
  <2> DEFINE m == msg[a]  q == respq[m]
  <2>1. FilledSeq(respq, Append(qhead[q], m)) /\ m \in Messages /\ q \in Queues
    BY <1>1, FilledAppend DEF DataInv, QueuesFilled, Filled
  <2>2. mref' \in [Messages -> Int]
    BY <1>8, <2>1, SMTT(30) DEF Reply, DataInv, MessageTypeOK
  <2>3. /\ qhead' \in [Queues -> Seq(Messages)]
        /\ \A k \in Queues : qhead'[k] = qhead[k] \/ qhead'[k] = Append(qhead[q], m)
    BY <1>8, <2>1, ZenonT(60) DEF Reply, DataInv, QueueTypeOK, FilledSeq
  <2>4. (TableTypeOK /\ QueueTypeOK /\ MessageTypeOK)'
    BY <1>8, <2>2, <2>3 DEF Reply, DataInv, TableTypeOK, QueueTypeOK, MessageTypeOK
  <2>5. QueuesFilled'
    BY <1>8, <2>1, <2>3 DEF Reply, DataInv, QueuesFilled
  <2>6. DataInv'
    BY <1>2, <1>3, <1>8, <2>4, <2>5 DEF Reply, DataInv
  <2>7. \/ Return(a)
        \/ \E l \in CallPC : Goto(a, l) /\ (l \in HoldPC => Filled(respq, msg[a]))
    BY <1>1, <1>8 DEF Reply, CallPC
  <2> QED  BY <1>1, <1>8, <2>6, <2>7, CallStepType DEF Reply
<1> QED  BY <1>4, <1>5, <1>6, <1>7, <1>8

\* All steps of a backend.
LEMMA BackendType ==
  ASSUME TypeInv, NEW b \in Backends, BackendStep(b) \/ BackendEvent(b)
  PROVE  TypeInv'
BY BeginType, AnswerType, BackendMoveType, ExecType, LoadType, SendType, PickType,
   TransactionEndType, AbortMessageType, QueueCallType, MessageCallType
DEF BackendStep, BackendEvent, BackendCall, Actors

(***************************************************************************)
(* Server.                                                                 *)
(***************************************************************************)
\* Control of a server thread, with its message where it needs one
LEMMA ServerMoved ==
  ASSUME TypeInv, NEW a \in Servers,
         NEW l \in (BackendPC \cup ServerPC \cup CallPC) \ {"flush"}, Moved(a, l),
         prog' = prog \/ pc[a] = "flush" \/ prog = "none",
         UNCHANGED <<respq, que, ready>>
  PROVE  ControlInv' /\ ScanHasQueue'
BY ControlMoved, ScanMoved, ActorsAssumption DEF TypeInv, Actors

\* Moves of control with at most the error code of a message set
LEMMA ErrorType ==
  ASSUME DataInv,
         \E m \in Messages, e \in BOOLEAN : err' = [err EXCEPT ![m] = e],
         UNCHANGED <<tableVars, queueVars, servVars, live, mref, respq, scanVars, trackVars,
                     waitq, stopping, lost>>,
         prog' = prog \/ prog' = "bad", device' \subseteq device,
         ran' \in [Messages -> BOOLEAN]
  PROVE  DataInv'
<1>1. err' \in [Messages -> BOOLEAN]
  BY DEF DataInv, MessageTypeOK
<1>2. (TableTypeOK /\ QueueTypeOK /\ MessageTypeOK)'
  BY <1>1 DEF DataInv, TableTypeOK, QueueTypeOK, MessageTypeOK
<1>3. (ScanTypeOK /\ TrackTypeOK /\ ClservTypeOK)'
  BY DEF DataInv, ScanTypeOK, TrackTypeOK, ClservTypeOK
<1>4. (QueuesFilled /\ ScansFilled /\ ClservFilled)'
  BY DEF DataInv, QueuesFilled, ScansFilled, ClservFilled
<1> QED  BY <1>2, <1>3, <1>4 DEF DataInv

\* A thread that goes to reply an error
LEMMA FailType ==
  ASSUME TypeInv, NEW a \in Servers, Filled(respq, msg[a]), NEW e \in BOOLEAN, Fail(a, e),
         UNCHANGED <<tableVars, queueVars, servVars, live, mref, respq, msg, ret, scanVars,
                     trackVars, waitq, device, stopping, ran, lost>>,
         prog' = prog \/ (prog' = "bad" /\ (pc[a] = "flush" \/ prog = "none"))
  PROVE  TypeInv'
<1>1. DataInv'
  BY ErrorType DEF Fail, Filled, TypeInv, DataInv, ClservTypeOK
<1>2. Moved(a, "reply")
  BY GotoMoves DEF Fail, TypeInv, Actors
<1>3. ControlInv' /\ ScanHasQueue'
  BY <1>2, ServerMoved DEF CallPC
<1> QED  BY <1>1, <1>3 DEF TypeInv

\* An event loop goes back to waiting, or ends.
LEMMA LoopType ==
  ASSUME TypeInv, NEW t \in Threads, EnterWait(t) \/ BuildAccepted(t) PROVE TypeInv'
<1>1. PICK l \in {"exit", "deq", "loop"} : Goto(t, l)
  BY DEF EnterWait, BuildAccepted
<1>2. DataInv'
  BY DataUnchanged DEF EnterWait, BuildAccepted, TypeInv
<1>3. Moved(t, l)
  BY <1>1, GotoMoves DEF EnterWait, BuildAccepted, TypeInv, Actors, Servers, HoldPC
<1>4. ControlInv' /\ ScanHasQueue'
  BY <1>3, ServerMoved DEF EnterWait, BuildAccepted, Servers, ServerPC
<1> QED  BY <1>2, <1>4 DEF TypeInv

\* An event loop takes the head of the server queue.
LEMMA ServerDequeueType ==
  ASSUME TypeInv, NEW t \in Threads, ServerDequeue(t) PROVE TypeInv'
<1> USE DEF ServerDequeue
<1>1. CASE servq = << >>
  <2>1. Goto(t, "loop") /\ UNCHANGED <<msg, ret, servq>>
    BY <1>1
  <2>2. DataInv'
    BY <2>1, DataUnchanged DEF TypeInv
  <2>3. Moved(t, "loop")
    BY <2>1, GotoMoves DEF TypeInv, Actors, Servers, HoldPC
  <2> QED  BY <2>2, <2>3, ServerMoved DEF TypeInv, Servers, ServerPC
<1>2. CASE servq # << >>
  <2>1. Call(t, "proc", Head(servq), "loop") /\ servq' = Tail(servq)
    BY <1>2
  <2>2. Filled(respq, Head(servq)) /\ FilledSeq(respq, Tail(servq))
    BY <1>2, FilledHead DEF TypeInv, DataInv, QueuesFilled
  <2>3. QueueTypeOK' /\ QueuesFilled'
    BY <2>1, <2>2 DEF TypeInv, DataInv, QueueTypeOK, QueuesFilled, FilledSeq
  <2>4. DataInv'
    BY <2>3 DEF TypeInv, DataInv, TableTypeOK, MessageTypeOK, ScanTypeOK, TrackTypeOK,
       ClservTypeOK, ScansFilled, ClservFilled
  <2>5. Moved(t, "proc")
    BY <2>1, <2>2, CallMoves DEF TypeInv, Actors, Servers, Filled, ReturnPC
  <2> QED  BY <2>4, <2>5, ServerMoved DEF TypeInv, Servers, ServerPC
<1> QED  BY <1>1, <1>2

\* The messages of waitq and of the device, when one is added
LEMMA ClservAdds ==
  ASSUME DataInv, NEW m, Filled(respq, m),
         \/ waitq' = Append(waitq, m) /\ UNCHANGED device
         \/ device' = device \cup {m} /\ UNCHANGED waitq,
         prog' \in {prog, "building"},
         UNCHANGED <<tableVars, queueVars, servVars, msgVars, scanVars, trackVars,
                     stopping, ran, lost>>
  PROVE  DataInv'
<1>1. FilledSeq(respq, waitq')
  BY FilledAppend DEF DataInv, ClservFilled
<1>2. ClservTypeOK' /\ ClservFilled'
  BY <1>1 DEF DataInv, ClservTypeOK, ClservFilled, Filled, FilledSeq
<1>3. (TableTypeOK /\ QueueTypeOK /\ MessageTypeOK)'
  BY DEF DataInv, TableTypeOK, QueueTypeOK, MessageTypeOK
<1>4. (ScanTypeOK /\ TrackTypeOK /\ QueuesFilled /\ ScansFilled)'
  BY DEF DataInv, ScanTypeOK, TrackTypeOK, QueuesFilled, ScansFilled
<1> QED  BY <1>2, <1>3, <1>4 DEF DataInv

\* clserv_process_gpuscan_row, in each state of the program.
LEMMA ProcessType ==
  ASSUME TypeInv, NEW t \in Threads,
         \/ ProcessNew(t) \/ ProcessBuilding(t) \/ ProcessReady(t) \/ ProcessBad(t)
         \/ ProcessNoMemory(t)
  PROVE  TypeInv'
<1>1. t \in Servers /\ Filled(respq, msg[t])
  BY DEF ProcessNew, ProcessBuilding, ProcessReady, ProcessBad, ProcessNoMemory, TypeInv,
     ControlInv, HeldFilled, HoldPC, Actors, Servers
<1>2. ASSUME NEW e \in BOOLEAN, Fail(t, e), UNCHANGED <<waitq, device>>,
             prog' = prog \/ (prog' = "bad" /\ prog = "none")
      PROVE  TypeInv'
  BY <1>1, <1>2, FailType DEF ProcessNew, ProcessBuilding, ProcessReady, ProcessBad,
     ProcessNoMemory
<1>3. CASE ProcessBad(t) \/ ProcessNoMemory(t)
  BY <1>2, <1>3 DEF ProcessBad, ProcessNoMemory
<1>4. ASSUME NEW l \in {"build", "loop"}, Goto(t, l), UNCHANGED err,
             \/ waitq' = Append(waitq, msg[t]) /\ UNCHANGED device
             \/ device' = device \cup {msg[t]} /\ UNCHANGED waitq,
             prog' \in {prog, "building"}, prog' = prog \/ prog = "none",
             ProcessNew(t) \/ ProcessBuilding(t) \/ ProcessReady(t)
      PROVE  TypeInv'
  <2>1. UNCHANGED <<tableVars, queueVars, servVars, msgVars, msg, ret, scanVars, trackVars,
                    stopping, ran, lost>>
    BY <1>4 DEF ProcessNew, ProcessBuilding, ProcessReady
  <2>2. DataInv'
    BY <1>1, <1>4, <2>1, ClservAdds DEF TypeInv
  <2>3. Moved(t, l)
    BY <1>1, <1>4, <2>1, GotoMoves DEF TypeInv, Actors
  <2>4. ControlInv' /\ ScanHasQueue'
    BY <1>1, <1>4, <2>1, <2>3, ServerMoved DEF ServerPC
  <2> QED  BY <2>2, <2>4 DEF TypeInv
<1>5. CASE ProcessNew(t)
  BY <1>2, <1>4, <1>5 DEF ProcessNew
<1>6. CASE ProcessBuilding(t)
  BY <1>4, <1>6 DEF ProcessBuilding
<1>7. CASE ProcessReady(t)
  BY <1>2, <1>4, <1>7 DEF ProcessReady
<1> QED  BY <1>3, <1>5, <1>6, <1>7

\* The lock of the program passes to the one actor that flushes waitq.
LEMMA FlushStarts ==
  ASSUME TypeInv, NEW a \in Threads \cup Drivers,
         (a \in Threads /\ BuildRejected(a)) \/ (a \in Drivers /\ BuildDone(a))
  PROVE  TypeInv'
<1> USE DEF BuildRejected, BuildDone, Goto
<1>1. a \in Actors /\ a \notin Backends /\ prog = "building"
  BY ActorsAssumption DEF Actors, Servers
<1>2. DataInv'
  <2>1. (TableTypeOK /\ QueueTypeOK /\ MessageTypeOK /\ ClservTypeOK)'
    BY DEF TypeInv, DataInv, TableTypeOK, QueueTypeOK, MessageTypeOK, ClservTypeOK
  <2>2. (ScanTypeOK /\ TrackTypeOK /\ QueuesFilled /\ ScansFilled /\ ClservFilled)'
    BY DEF TypeInv, DataInv, ScanTypeOK, TrackTypeOK, QueuesFilled, ScansFilled, ClservFilled
  <2> QED  BY <2>1, <2>2 DEF DataInv
<1>3. ASSUME NEW c \in Actors PROVE pc[c] # "flush"
  BY <1>1 DEF TypeInv, ControlInv, OneFlush
<1>4. pc'[a] = "flush" /\ \A c \in Actors \ {a} : pc'[c] = pc[c]
  BY <1>1 DEF TypeInv, ControlInv, CallTypeOK
<1>5. CallTypeOK'
  BY <1>1 DEF TypeInv, ControlInv, CallTypeOK, ServerPC
<1>6. HeldFilled'
  BY <1>1, <1>4, ActorsAssumption DEF TypeInv, ControlInv, HeldFilled, HoldPC, Actors, Servers
<1>7. OneFlush'
  BY <1>3, <1>4 DEF OneFlush
<1>8. ScanHasQueue'
  BY <1>1, <1>4 DEF TypeInv, ScanHasQueue, Actors
<1> QED  BY <1>2, <1>5, <1>6, <1>7, <1>8 DEF TypeInv, ControlInv

\* The build callback enqueues the messages that wait,
LEMMA RequeueType ==
  ASSUME TypeInv, NEW a \in Threads \cup Drivers, Requeue(a) PROVE TypeInv'
<1> USE DEF Requeue
<1>1. Filled(respq, Head(waitq)) /\ FilledSeq(respq, Tail(waitq))
  BY FilledHead DEF TypeInv, DataInv, ClservFilled
<1>2. a \notin Backends
  BY ActorsAssumption DEF Servers
<1>3. servq' \in {servq, Append(servq, Head(waitq))} /\ UNCHANGED <<sclosed, msgVars>>
  BY <1>2 DEF Enqueue
<1>4. FilledSeq(respq, servq')
  BY <1>1, <1>3, FilledAppend DEF TypeInv, DataInv, QueuesFilled
<1>5. lost' \subseteq Messages
  BY <1>1 DEF TypeInv, DataInv, ClservTypeOK, Filled
<1>6. (TableTypeOK /\ QueueTypeOK /\ MessageTypeOK /\ ClservTypeOK)'
  BY <1>1, <1>3, <1>4, <1>5 DEF TypeInv, DataInv, TableTypeOK, QueueTypeOK, MessageTypeOK,
     ClservTypeOK, FilledSeq
<1>7. (ScanTypeOK /\ TrackTypeOK /\ QueuesFilled /\ ScansFilled /\ ClservFilled)'
  BY <1>1, <1>3, <1>4 DEF TypeInv, DataInv, ScanTypeOK, TrackTypeOK, QueuesFilled, ScansFilled,
     ClservFilled
<1>8. ControlInv' /\ ScanHasQueue'
  BY <1>3 DEF TypeInv, ControlInv, CallTypeOK, HeldFilled, OneFlush, ScanHasQueue
<1> QED  BY <1>6, <1>7, <1>8 DEF TypeInv, DataInv

\* and ends when there is none left.
LEMMA RequeueEndType ==
  ASSUME TypeInv, NEW a \in Threads \cup Drivers, RequeueEnd(a) PROVE TypeInv'
<1> USE DEF RequeueEnd
<1>1. a \in Servers /\ a \in Actors
  BY DEF Servers, Actors
<1>2. CASE prog = "rejected"
  <2>1. a \in Threads
    BY <1>1, <1>2 DEF TypeInv, ControlInv, OneFlush
  <2>2. Filled(respq, msg[a])
    BY <2>1 DEF TypeInv, ControlInv, HeldFilled
  <2>3. Fail(a, TRUE) /\ prog' = "bad"
    BY <1>2
  <2> QED  BY <1>1, <2>2, <2>3, FailType
<1>3. CASE prog \in {"built", "failed"}
  <2>1. Goto(a, "idle") /\ UNCHANGED err /\ prog' \in {"ready", "bad"}
    BY <1>3
  <2>2. Moved(a, "idle")
    BY <1>1, <2>1, GotoMoves DEF TypeInv, HoldPC
  <2>3. (TableTypeOK /\ QueueTypeOK /\ MessageTypeOK /\ ClservTypeOK)'
    BY <2>1 DEF TypeInv, DataInv, TableTypeOK, QueueTypeOK, MessageTypeOK, ClservTypeOK
  <2>4. (ScanTypeOK /\ TrackTypeOK /\ QueuesFilled /\ ScansFilled /\ ClservFilled)'
    BY <2>1 DEF TypeInv, DataInv, ScanTypeOK, TrackTypeOK, QueuesFilled, ScansFilled, ClservFilled
  <2> QED  BY <1>1, <2>2, <2>3, <2>4, ServerMoved DEF TypeInv, DataInv, ServerPC
<1> QED  BY <1>2, <1>3

\* The callback of a kernel answers its message.
LEMMA KernelDoneType ==
  ASSUME TypeInv, NEW d \in Drivers, KernelDone(d) PROVE TypeInv'
<1> USE DEF KernelDone
<1>1. PICK m \in device, e \in BOOLEAN :
        /\ device' = device \ {m}
        /\ err' = [err EXCEPT ![m] = e]
        /\ ran' = [ran EXCEPT ![m] = TRUE]
        /\ Call(d, "reply", m, "idle")
  OBVIOUS
<1>2. d \in Servers /\ Filled(respq, m) /\ m \in Messages
  BY DEF TypeInv, DataInv, ClservFilled, Filled, Servers
<1>3. ran' \in [Messages -> BOOLEAN]
  BY <1>1, <1>2 DEF TypeInv, DataInv, ClservTypeOK
<1>4. DataInv'
  BY <1>1, <1>2, <1>3, ErrorType DEF TypeInv
<1>5. Moved(d, "reply")
  BY <1>1, <1>2, CallMoves DEF TypeInv, Actors, ReturnPC
<1> QED  BY <1>2, <1>4, <1>5, ServerMoved DEF TypeInv, CallPC

\* The main thread of the server stops the loops and drains the queue.
LEMMA MainType ==
  ASSUME TypeInv, CloseServerQueue \/ DrainServerQueue \/ Sigterm PROVE TypeInv'
<1>1. Main \in Servers /\ Main \in Actors
  BY DEF Servers, Actors
<1>2. CASE CloseServerQueue
  <2> USE <1>2 DEF CloseServerQueue
  <2>1. sclosed' \in BOOLEAN
    BY Zenon
  <2>2. QueueTypeOK' /\ QueuesFilled'
    BY <2>1 DEF TypeInv, DataInv, QueueTypeOK, QueuesFilled
  <2>3. DataInv'
    BY <2>2 DEF TypeInv, DataInv, TableTypeOK, MessageTypeOK, ScanTypeOK, TrackTypeOK,
       ClservTypeOK, ScansFilled, ClservFilled
  <2>4. Moved(Main, "drainq")
    BY <1>1, GotoMoves DEF TypeInv, HoldPC
  <2> QED  BY <1>1, <2>3, <2>4, ServerMoved DEF TypeInv, ServerPC
<1>3. CASE DrainServerQueue /\ servq = << >>
  <2> USE <1>3 DEF DrainServerQueue
  <2>1. DataInv'
    BY DataUnchanged DEF TypeInv
  <2>2. Moved(Main, "exited")
    BY <1>1, GotoMoves DEF TypeInv, HoldPC
  <2> QED  BY <1>1, <2>1, <2>2, ServerMoved DEF TypeInv, ServerPC
<1>4. CASE DrainServerQueue /\ servq # << >>
  <2> USE <1>4 DEF DrainServerQueue
  <2>1. Filled(respq, Head(servq)) /\ FilledSeq(respq, Tail(servq))
    BY FilledHead DEF TypeInv, DataInv, QueuesFilled
  <2>2. QueueTypeOK' /\ MessageTypeOK' /\ QueuesFilled'
    BY <2>1 DEF TypeInv, DataInv, QueueTypeOK, MessageTypeOK, QueuesFilled, FilledSeq
  <2>3. DataInv'
    BY <2>2 DEF TypeInv, DataInv, TableTypeOK, ScanTypeOK, TrackTypeOK, ClservTypeOK,
       ScansFilled, ClservFilled
  <2>4. Moved(Main, "reply")
    BY <1>1, <2>1, CallMoves DEF TypeInv, Filled, ReturnPC
  <2> QED  BY <1>1, <2>3, <2>4, ServerMoved DEF TypeInv, CallPC
<1>5. CASE Sigterm
  <2> USE <1>5 DEF Sigterm
  <2>1. stopping' \in BOOLEAN
    BY Zenon
  <2>2. ClservTypeOK'
    BY <2>1 DEF TypeInv, DataInv, ClservTypeOK
  <2>3. DataInv'
    BY <2>2 DEF TypeInv, DataInv, TableTypeOK, QueueTypeOK, MessageTypeOK, ScanTypeOK,
       TrackTypeOK, QueuesFilled, ScansFilled, ClservFilled
  <2>4. ControlInv' /\ ScanHasQueue'
    BY DEF TypeInv, ControlInv, CallTypeOK, HeldFilled, OneFlush, ScanHasQueue
  <2> QED  BY <2>3, <2>4 DEF TypeInv
<1> QED  BY <1>2, <1>3, <1>4, <1>5

(***************************************************************************)
(* Type correctness.                                                       *)
(***************************************************************************)
LEMMA NextTypeInv == TypeInv /\ [Next]_vars => TypeInv'
<1> SUFFICES ASSUME TypeInv, [Next]_vars PROVE TypeInv'
  OBVIOUS
<1>1. CASE UNCHANGED vars
  BY <1>1, DataUnchanged
  DEF vars, TypeInv, ControlInv, CallTypeOK, HeldFilled, OneFlush, ScanHasQueue
<1>2. ASSUME NEW b \in Backends, BackendStep(b) \/ BackendEvent(b) PROVE TypeInv'
  BY <1>2, BackendType
<1>3. ASSUME NEW a \in Servers, ServerCall(a) PROVE TypeInv'
  BY <1>3, MessageCallType DEF ServerCall, Actors
<1>4. ASSUME NEW t \in Threads, ThreadStep(t) PROVE TypeInv'
  BY <1>3, <1>4, LoopType, ServerDequeueType, ProcessType, FlushStarts, RequeueType,
     RequeueEndType
  DEF ThreadStep, Servers
<1>5. ASSUME NEW d \in Drivers, DriverStep(d) PROVE TypeInv'
  BY <1>3, <1>5, FlushStarts, RequeueType, RequeueEndType, KernelDoneType
  DEF DriverStep, Servers
<1>6. CASE MainStep \/ Sigterm
  BY <1>3, <1>6, MainType DEF MainStep, Servers
<1> QED  BY <1>1, <1>2, <1>4, <1>5, <1>6 DEF Next

\* The strengthening is an invariant.
LEMMA TypeInvHolds == Spec => []TypeInv
BY InitTypeInv, NextTypeInv, PTL DEF Spec

\* Every variable has its C type in every reachable state, whatever the
\* numbers of backends, threads, queues and messages: in particular only
\* queues reach the free list of pgstrom_put_queue and pgstrom_close_queue,
\* and gpuscan_exec never picks from an empty ready_chunks.
THEOREM TypeCorrect == Spec => []TypeOK
BY TypeInvHolds, TypeInvImpliesTypeOK, PTL

(***************************************************************************)
(* Shutdown.                                                               *)
(***************************************************************************)
\* Once the main thread is past pthread_join, the server queue is closed and
\* the event loops are over; once the process is gone, the queue is empty.
StopInv ==
  /\ pc[Main] # "join" => sclosed /\ \A t \in Threads : pc[t] = "exit"
  /\ pc[Main] = "exited" => servq = << >>

\* A step moves the control of one actor.
Alone(a) == \A c \in Actors \ {a} : pc'[c] = pc[c]

\* A jump of one actor leaves the others where they are.
LEMMA GotoAlone ==
  ASSUME TypeOK, NEW a \in Actors, \E l : pc' = [pc EXCEPT ![a] = l] PROVE Alone(a)
BY DEF TypeOK, CallTypeOK, Alone

\* So does a step inside a routine.
LEMMA CallAlone ==
  ASSUME TypeOK, NEW a \in Actors,
         \/ PutMessage(a) \/ PutQueue(a) \/ PutQueueLink(a) \/ FreeMessage(a) \/ Reply(a)
         \/ \E q : CloseQueue(a, q) \/ CloseFree(a, q)
  PROVE  Alone(a) /\ pc[a] \in CallPC /\ UNCHANGED servVars
BY GotoAlone DEF PutMessage, PutQueue, PutQueueLink, FreeMessage, Reply, CloseQueue, CloseFree,
   Goto, Return, CallPC

\* No step of a backend moves a thread of the server,
LEMMA BackendAlone ==
  ASSUME TypeOK, NEW b \in Backends, BackendStep(b) \/ BackendEvent(b)
  PROVE  Alone(b) /\ sclosed' = sclosed /\ (sclosed => servq' = servq)
<1>1. b \in Actors
  BY DEF Actors
<1>2. CASE Send(b) \/ Exec(b) \/ Load(b)
  BY <1>1, <1>2, GotoAlone DEF Send, Exec, Load, Enqueue, Goto, Call
<1>3. CASE Drain(b) \/ Try(b) \/ Wait(b) \/ Timeout(b)
  BY <1>1, <1>3, GotoAlone DEF Drain, Try, Wait, Timeout, TakeAnswer, NoAnswer, Goto, Alone
<1>4. CASE \/ Begin(b) \/ TrackQueue(b) \/ TrackQueueFails(b) \/ LoadFails(b)
           \/ LoadEnd(b) \/ Pick(b) \/ Cancel(b) \/ End(b)
  BY <1>1, <1>4, GotoAlone DEF Begin, TrackQueue, TrackQueueFails, LoadFails, LoadEnd, Pick,
     Cancel, End, Goto, Call
<1>5. CASE Commit(b) \/ AbortQueue(b) \/ AbortMessage(b) \/ AbortEnd(b)
  BY <1>1, <1>5, GotoAlone DEF Commit, AbortQueue, AbortMessage, AbortEnd, Forget, Goto, Call
<1>6. CASE BeginFails(b)
  BY <1>6 DEF BeginFails, Alone
<1>7. CASE BackendCall(b)
  BY <1>1, <1>7, CallAlone DEF BackendCall
<1> QED  BY <1>2, <1>3, <1>4, <1>5, <1>6, <1>7 DEF BackendStep, BackendEvent

\* no step of an event loop moves another thread,
LEMMA ThreadAlone ==
  ASSUME TypeOK, NEW t \in Threads, ThreadStep(t) PROVE Alone(t) /\ pc[t] # "exit"
<1>1. t \in Actors
  BY DEF Actors, Servers
<1>2. CASE EnterWait(t) \/ ServerDequeue(t) \/ BuildAccepted(t) \/ BuildRejected(t)
  BY <1>1, <1>2, GotoAlone DEF EnterWait, ServerDequeue, BuildAccepted, BuildRejected, Goto, Call
<1>3. CASE \/ ProcessNew(t) \/ ProcessBuilding(t) \/ ProcessReady(t) \/ ProcessBad(t)
           \/ ProcessNoMemory(t) \/ RequeueEnd(t)
  BY <1>1, <1>3, GotoAlone DEF ProcessNew, ProcessBuilding, ProcessReady, ProcessBad,
     ProcessNoMemory, RequeueEnd, Fail, Goto
<1>4. CASE Requeue(t)
  BY <1>4 DEF Requeue, Alone
<1>5. CASE ServerCall(t)
  BY <1>1, <1>5, CallAlone DEF ServerCall, CallPC
<1> QED  BY <1>2, <1>3, <1>4, <1>5 DEF ThreadStep

\* and no step of a driver thread does.
LEMMA DriverAlone ==
  ASSUME TypeOK, NEW d \in Drivers, DriverStep(d)
  PROVE  Alone(d) /\ sclosed' = sclosed /\ (sclosed => servq' = servq)
<1>1. d \in Actors
  BY DEF Actors, Servers
<1>2. CASE BuildDone(d) \/ RequeueEnd(d) \/ KernelDone(d)
  BY <1>1, <1>2, GotoAlone DEF BuildDone, RequeueEnd, KernelDone, Fail, Goto, Call
<1>3. CASE Requeue(d)
  BY <1>3 DEF Requeue, Enqueue, Alone
<1>4. CASE ServerCall(d)
  BY <1>1, <1>4, CallAlone DEF ServerCall
<1> QED  BY <1>2, <1>3, <1>4 DEF DriverStep

\* Every step preserves the invariant of the shutdown.
LEMMA NextStopInv == TypeOK /\ StopInv /\ [Next]_vars => StopInv'
<1> SUFFICES ASSUME TypeOK, StopInv, [Next]_vars PROVE StopInv'
  OBVIOUS
<1>1. /\ Main \in Actors /\ Main \notin Backends /\ Main \notin Threads /\ Main \notin Drivers
      /\ \A t \in Threads : t \in Actors /\ t \notin Backends /\ t \notin Drivers
  BY ActorsAssumption DEF Actors, Servers
<1>2. CASE UNCHANGED vars
  BY <1>2 DEF vars, StopInv
<1>3. ASSUME NEW b \in Backends, BackendStep(b) \/ BackendEvent(b) PROVE StopInv'
  <2>1. pc'[Main] = pc[Main] /\ \A t \in Threads : pc'[t] = pc[t]
    BY <1>1, <1>3, BackendAlone DEF Alone
  <2> QED  BY <1>1, <1>3, <2>1, BackendAlone DEF StopInv
<1>4. ASSUME NEW t \in Threads, ThreadStep(t) PROVE StopInv'
  BY <1>1, <1>4, ThreadAlone DEF StopInv, Alone
<1>5. ASSUME NEW d \in Drivers, DriverStep(d) PROVE StopInv'
  <2>1. pc'[Main] = pc[Main] /\ \A t \in Threads : pc'[t] = pc[t]
    BY <1>1, <1>5, DriverAlone DEF Alone
  <2> QED  BY <1>1, <1>5, <2>1, DriverAlone DEF StopInv
<1>6. CASE CloseServerQueue
  <2>1. pc'[Main] = "drainq" /\ sclosed' /\ \A t \in Threads : pc'[t] = pc[t]
    BY <1>1, <1>6 DEF CloseServerQueue, Goto, TypeOK, CallTypeOK
  <2> QED  BY <1>6, <2>1 DEF CloseServerQueue, StopInv
<1>7. CASE DrainServerQueue
  <2>1. \A t \in Threads : pc'[t] = pc[t]
    BY <1>1, <1>7, GotoAlone DEF DrainServerQueue, Goto, Call, Alone
  <2>2. sclosed' = sclosed /\ (pc'[Main] = "exited" => servq' = << >>)
    BY <1>1, <1>7 DEF DrainServerQueue, Goto, Call, TypeOK, CallTypeOK
  <2> QED  BY <1>7, <2>1, <2>2 DEF DrainServerQueue, StopInv
<1>8. CASE ServerCall(Main)
  <2>1. pc[Main] \in CallPC /\ UNCHANGED servVars /\ \A t \in Threads : pc'[t] = pc[t]
    BY <1>1, <1>8, CallAlone DEF ServerCall, Alone
  <2>2. pc'[Main] \in ReturnPC \cup CallPC
    BY <1>1, <1>8 DEF ServerCall, PutMessage, PutQueue, PutQueueLink, FreeMessage, Reply, Goto,
       Return, TypeOK, CallTypeOK, CallPC
  <2> QED  BY <2>1, <2>2 DEF StopInv, CallPC, ReturnPC
<1>9. CASE Sigterm
  BY <1>9 DEF Sigterm, StopInv
<1> QED  BY <1>2, <1>3, <1>4, <1>5, <1>6, <1>7, <1>8, <1>9 DEF Next, MainStep

\* pgstrom_opencl_main leaves no message behind in its queue or with one of
\* its event loops, for any number of threads and clients and whatever the
\* environment does, allocation failures and rejected builds included.
THEOREM ShutdownCorrect == Spec => []ShutdownAnswers
<1>1. Init => StopInv
  BY ActorsAssumption DEF Init, MQueueInit, StopInv, Actors, Servers
<1>2. StopInv => ShutdownAnswers
  BY DEF StopInv, ShutdownAnswers
<1> QED  BY <1>1, <1>2, NextStopInv, TypeCorrect, PTL DEF Spec
=============================================================================
