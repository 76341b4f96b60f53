------------------------------- MODULE MQueue -------------------------------
(***************************************************************************)
(* The message queues of PG-Strom (mqueue.c): the shared table of response *)
(* queues with its free list, the reference counters of queues and of      *)
(* messages, and the queue of the OpenCL server.                           *)
(*                                                                         *)
(* A message has at most two owners, the backend that loaded it and the    *)
(* server; its counter says how many of them still use it, and the last    *)
(* one to drop it runs cb_release.  A response queue is referenced by its  *)
(* creator until it is closed, and by every message that names it.         *)
(*                                                                         *)
(* Every step below is one critical section of the C code: what happens    *)
(* between two acquisitions of a lock is one action, what happens under    *)
(* two different locks is two.  An actor is a backend process, a thread of *)
(* the server process, or one of the threads on which the OpenCL driver    *)
(* runs its callbacks.  pc[a] is where the actor a is, msg[a] the message  *)
(* argument of the call it is in and ret[a] where that call returns.       *)
(*                                                                         *)
(* An actor that follows a pointer into a released message stops at pc     *)
(* "ub": the C program has no defined behaviour from there on.             *)
(***************************************************************************)
EXTENDS Integers, Sequences, FiniteSets, Functions

CONSTANTS
  Backends,      \* backend processes
  Threads,       \* event loop threads of the server process
  Drivers,       \* threads of the OpenCL driver, which run callbacks
  Main,          \* the main thread of the server process
  Messages,      \* room for pgstrom_message objects in shared memory
  NoMessage,     \* the NULL message
  MaxQueues,     \* room for pgstrom_queue objects in shared memory
  BlockSize,     \* MQUEUES_PER_BLOCK
  CounterRange   \* 2^32, the range of the uint32 counters of the table

Servers == Threads \cup Drivers \cup {Main}
Actors  == Backends \cup Servers
Queues  == 1..MaxQueues
NoQueue == 0

ASSUME ActorsAssumption ==
  /\ Backends \cap Servers = {}
  /\ Threads \cap Drivers = {}
  /\ Main \notin Threads \cup Drivers
  /\ Threads # {}              \* Assert(opencl_num_threads > 0)
ASSUME MessagesAssumption == NoMessage \notin Messages /\ IsFiniteSet(Messages)
ASSUME SizesAssumption ==
  /\ MaxQueues \in Nat
  /\ BlockSize \in Nat \ {0}
  /\ CounterRange \in Nat \ {0}

VARIABLES
  freelist,    \* free_queue_list
  nalloc,      \* number of pgstrom_queue objects in the allocated blocks
  num_free,    \* counters kept beside the free list
  num_active,
  qref,        \* refcnt of each queue
  closed,      \* closed flag of each queue
  qhead,       \* messages linked on each queue
  servq,       \* messages linked on serv_mqueue
  sclosed,     \* closed flag of serv_mqueue
  live,        \* is the memory of the message allocated?
  mref,        \* refcnt of each message
  respq,       \* response queue of each message
  err,         \* errcode of each message, TRUE if not StromError_Success
  pc,
  msg,
  ret

tableVars == <<freelist, nalloc, num_free, num_active>>
queueVars == <<qref, closed, qhead>>
servVars  == <<servq, sclosed>>
msgVars   == <<live, mref, respq, err>>
callVars  == <<pc, msg, ret>>

(***************************************************************************)
(* Control.                                                                *)
(***************************************************************************)

\* The values pc takes inside the routines of this module.
CallPC == {"closeq", "freeq", "put", "putq", "linkq", "freem", "reply", "ub"}

Goto(a, l) == pc' = [pc EXCEPT ![a] = l]
Return(a)  == Goto(a, ret[a])

\* Call the routine that starts at l, with the message m, and return to r.
Call(a, l, m, r) ==
  /\ pc'  = [pc  EXCEPT ![a] = l]
  /\ msg' = [msg EXCEPT ![a] = m]
  /\ ret' = [ret EXCEPT ![a] = r]

\* Slip: the counter is signed.
Dec32Signed(n) == n - 1

\* uint32 arithmetic
Inc32(n) == (n + 1) % CounterRange
Dec32(n) == (n + CounterRange - 1) % CounterRange

(***************************************************************************)
(* pgstrom_create_queue: takes the head of the free list, after a new      *)
(* block of queues was put on it when it is empty.                         *)
(***************************************************************************)
\* A new block fits into the shared memory.
BlockFits == nalloc + BlockSize <= MaxQueues
NewBlock  == [i \in 1..BlockSize |-> nalloc + i]
FreeQueues == IF freelist = << >> THEN NewBlock ELSE freelist

CreateQueue(q) ==
  /\ freelist # << >> \/ BlockFits
  /\ q = Head(FreeQueues)
  /\ freelist' = Tail(FreeQueues)
  /\ nalloc' = IF freelist = << >> THEN nalloc + BlockSize ELSE nalloc
  /\ num_free' = IF freelist = << >>
                 THEN Dec32((num_free + BlockSize) % CounterRange)
                 ELSE Dec32(num_free)
  /\ num_active' = Inc32(num_active)
  /\ qref'   = [qref   EXCEPT ![q] = 1]
  /\ closed' = [closed EXCEPT ![q] = FALSE]
  /\ qhead'  = [qhead  EXCEPT ![q] = << >>]

\* A new block does not fit, or one of its locks cannot be initialized and
\* the block is given up: nothing has changed.
CreateQueueFails == freelist = << >>

\* pgstrom_get_queue
GetQueue(q) ==
  /\ qref' = [qref EXCEPT ![q] = @ + 1]
  /\ UNCHANGED <<closed, qhead>>

(***************************************************************************)
(* The fields of a new message m, which will be returned to the queue q.   *)
(***************************************************************************)
\* Slip: the message does not hold its response queue.
NewMessageNoQueueRef(m, q) ==
  /\ live'  = [live  EXCEPT ![m] = TRUE]
  /\ mref'  = [mref  EXCEPT ![m] = 1]
  /\ respq' = [respq EXCEPT ![m] = q]
  /\ err'   = [err   EXCEPT ![m] = FALSE]
  /\ UNCHANGED <<qref, closed, qhead>>

NewMessage(m, q) ==
  /\ live'  = [live  EXCEPT ![m] = TRUE]
  /\ mref'  = [mref  EXCEPT ![m] = 1]
  /\ respq' = [respq EXCEPT ![m] = q]
  /\ err'   = [err   EXCEPT ![m] = FALSE]
  /\ GetQueue(q)

(***************************************************************************)
(* pgstrom_enqueue_message to a server queue that is open.  A backend      *)
(* takes a reference on behalf of the server; the server, which enqueues   *)
(* a message again, already has it.                                        *)
(***************************************************************************)
\* Slip: the server works on the reference of the backend.
EnqueueNoRef(a, m) ==
  /\ ~sclosed
  /\ servq' = Append(servq, m)
  /\ UNCHANGED <<sclosed, msgVars>>

Enqueue(a, m) ==
  /\ ~sclosed
  /\ servq' = Append(servq, m)
  /\ mref'  = IF a \in Backends THEN [mref EXCEPT ![m] = @ + 1] ELSE mref
  /\ UNCHANGED <<sclosed, live, respq, err>>

\* Pop the head of the response queue q (try_dequeue, sync_dequeue).
Dequeue(q) ==
  /\ qhead[q] # << >>
  /\ qhead' = [qhead EXCEPT ![q] = Tail(@)]
  /\ UNCHANGED <<qref, closed>>

(***************************************************************************)
(* pgstrom_close_queue of the response queue q: drop the reference of the  *)
(* creator, then give the queue back under the lock of the table if that   *)
(* was the last one.                                                       *)
(***************************************************************************)
\* Slip: the queue is given back though messages will still return to it.
CloseQueueAtOnce(a, q) ==
  /\ pc[a] = "closeq"
  /\ closed' = [closed EXCEPT ![q] = TRUE]
  /\ qref' = [qref EXCEPT ![q] = @ - 1]
  /\ Goto(a, "freeq")
  /\ UNCHANGED <<qhead, tableVars, servVars, msgVars, msg, ret>>

CloseQueue(a, q) ==
  /\ pc[a] = "closeq"
  /\ closed' = [closed EXCEPT ![q] = TRUE]
  /\ qref' = [qref EXCEPT ![q] = @ - 1]
  /\ IF qref[q] = 1 THEN Goto(a, "freeq") ELSE Return(a)
  /\ UNCHANGED <<qhead, tableVars, servVars, msgVars, msg, ret>>

CloseFree(a, q) ==
  /\ pc[a] = "freeq"
  /\ num_active' = Dec32(num_active)
  /\ num_free' = Inc32(num_free)
  /\ freelist' = Append(freelist, q)
  /\ Return(a)
  /\ UNCHANGED <<nalloc, queueVars, servVars, msgVars, msg, ret>>

(***************************************************************************)
(* pgstrom_put_message, and cb_release (clserv_put_gpuscan_row): drop the  *)
(* message's reference on its response queue (pgstrom_put_queue), link the *)
(* queue to the free list if nobody uses it any more, free the memory.     *)
(***************************************************************************)
\* Slip: off by one in the test for the last reference.
PutMessageEarly(a) ==
  LET m == msg[a] IN
  /\ pc[a] = "put"
  /\ mref' = [mref EXCEPT ![m] = @ - 1]
  /\ IF mref[m] <= 2 THEN Goto(a, "putq") ELSE Return(a)
  /\ UNCHANGED <<tableVars, queueVars, servVars, live, respq, err, msg, ret>>

PutMessage(a) ==
  LET m == msg[a] IN
  /\ pc[a] = "put"
  /\ IF ~live[m]
     THEN Goto(a, "ub") /\ UNCHANGED mref
     ELSE /\ mref' = [mref EXCEPT ![m] = @ - 1]
          /\ IF mref[m] = 1 THEN Goto(a, "putq") ELSE Return(a)
  /\ UNCHANGED <<tableVars, queueVars, servVars, live, respq, err, msg, ret>>

\* Slip: only pgstrom_close_queue gives a queue back.
PutQueueNoLink(a) ==
  /\ pc[a] = "putq"
  /\ qref' = [qref EXCEPT ![respq[msg[a]]] = @ - 1]
  /\ Goto(a, "freem")
  /\ UNCHANGED <<closed, qhead, tableVars, servVars, msgVars, msg, ret>>

PutQueue(a) ==
  LET q == respq[msg[a]] IN
  /\ pc[a] = "putq"
  /\ qref' = [qref EXCEPT ![q] = @ - 1]
  /\ Goto(a, IF qref[q] = 1 THEN "linkq" ELSE "freem")
  /\ UNCHANGED <<closed, qhead, tableVars, servVars, msgVars, msg, ret>>

PutQueueLink(a) ==
  /\ pc[a] = "linkq"
  /\ freelist' = Append(freelist, respq[msg[a]])
  /\ Goto(a, "freem")
  /\ UNCHANGED <<nalloc, num_free, num_active, queueVars, servVars, msgVars,
                 msg, ret>>

FreeMessage(a) ==
  /\ pc[a] = "freem"
  /\ live' = [live EXCEPT ![msg[a]] = FALSE]
  /\ Return(a)
  /\ UNCHANGED <<tableVars, queueVars, servVars, mref, respq, err, msg, ret>>

(***************************************************************************)
(* pgstrom_reply_message: to a closed queue the message is only put; else  *)
(* the server's reference is dropped and the message pushed to the tail of *)
(* the queue, or released if the backend has dropped its reference.        *)
(***************************************************************************)
\* Linking behind a message whose memory was released.
StaleTail(q) == qhead[q] # << >> /\ ~live[qhead[q][Len(qhead[q])]]

\* Slip: the flag is not tested under the lock of the queue.
ReplyToClosed(a) ==
  LET m == msg[a]
      q == respq[m]
  IN
  /\ pc[a] = "reply"
  /\ mref'  = [mref  EXCEPT ![m] = @ - 1]
  /\ \/ /\ mref[m] > 1
        /\ qhead' = [qhead EXCEPT ![q] = Append(@, m)]
        /\ Return(a)
     \/ /\ mref[m] <= 1
        /\ Goto(a, "putq")
        /\ UNCHANGED qhead
  /\ UNCHANGED <<tableVars, qref, closed, servVars, live, respq, err, msg, ret>>

Reply(a) ==
  LET m == msg[a]
      q == respq[m]
  IN
  /\ pc[a] = "reply"
  /\ \/ /\ ~live[m] \/ (~closed[q] /\ mref[m] > 1 /\ StaleTail(q))
        /\ Goto(a, "ub")
        /\ UNCHANGED <<mref, qhead>>
     \/ /\ live[m] /\ closed[q]
        /\ Goto(a, "put")
        /\ UNCHANGED <<mref, qhead>>
     \/ /\ live[m] /\ ~closed[q] /\ mref[m] > 1 /\ ~StaleTail(q)
        /\ mref'  = [mref  EXCEPT ![m] = @ - 1]
        /\ qhead' = [qhead EXCEPT ![q] = Append(@, m)]
        /\ Return(a)
     \/ /\ live[m] /\ ~closed[q] /\ mref[m] <= 1
        /\ mref' = [mref EXCEPT ![m] = @ - 1]
        /\ Goto(a, "putq")
        /\ UNCHANGED qhead
  /\ UNCHANGED <<tableVars, qref, closed, servVars, live, respq, err, msg, ret>>

(***************************************************************************)
(* pgstrom_startup_mqueue: no block of queues yet, the server queue open.  *)
(***************************************************************************)
MQueueInit ==
  /\ freelist = << >> /\ nalloc = 0
  /\ num_free = 0 /\ num_active = 0
  /\ qref   = [q \in Queues |-> 0]
  /\ closed = [q \in Queues |-> FALSE]
  /\ qhead  = [q \in Queues |-> << >>]
  /\ servq = << >> /\ sclosed = FALSE
  /\ live  = [m \in Messages |-> FALSE]
  /\ mref  = [m \in Messages |-> 0]
  /\ respq = [m \in Messages |-> NoQueue]
  /\ err   = [m \in Messages |-> FALSE]

TableTypeOK ==
  /\ freelist \in Seq(Queues)
  /\ nalloc \in 0..MaxQueues
  /\ num_free \in 0..CounterRange-1
  /\ num_active \in 0..CounterRange-1

QueueTypeOK ==
  /\ qref   \in [Queues -> Int]
  /\ closed \in [Queues -> BOOLEAN]
  /\ qhead  \in [Queues -> Seq(Messages)]
  /\ servq \in Seq(Messages)
  /\ sclosed \in BOOLEAN

MessageTypeOK ==
  /\ live  \in [Messages -> BOOLEAN]
  /\ mref  \in [Messages -> Int]
  /\ respq \in [Messages -> Queues \cup {NoQueue}]
  /\ err   \in [Messages -> BOOLEAN]
=============================================================================
