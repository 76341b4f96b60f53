------------------------------- MODULE GpuScan ------------------------------
(***************************************************************************)
(* GpuScan over the message queues: backends that load chunks of rows,     *)
(* send them to the OpenCL server and consume the answers (gpuscan.c), the *)
(* resource tracker that cleans up when a transaction aborts (restrack.c), *)
(* and the server: its event loop threads, its shutdown (opencl_serv.c)    *)
(* and the callbacks of the OpenCL driver, which finish kernels and        *)
(* program builds (gpuscan.c, opencl_devprog.c).                           *)
(*                                                                         *)
(* All scans of the model have the same qualifiers, hence one entry of the *)
(* device program cache.  A chunk of rows is its message.                  *)
(***************************************************************************)
EXTENDS MQueue

CONSTANTS
  MinAsync,      \* pgstrom_min_async_chunks
  MaxAsync,      \* pgstrom_max_async_chunks
  MaxScans,      \* bound: scans a backend starts
  MaxChunks,     \* bound: chunks a relation fills
  Env            \* what the environment may do, a subset of EnvEvents

(***************************************************************************)
(*   sigterm   the server is told to stop                                  *)
(*   limit     the executor ends a scan before its last row                *)
(*   reject    clBuildProgram fails without having called the callback     *)
(*   oom       malloc of the server fails                                  *)
(***************************************************************************)
EnvEvents == {"sigterm", "limit", "reject", "oom"}

ASSUME ScanAssumption ==
  /\ MinAsync \in Nat /\ MaxAsync \in Nat
  /\ MaxScans \in Nat /\ MaxChunks \in Nat \ {0}
  /\ Env \subseteq EnvEvents

VARIABLES
  \* GpuScanState and tracker of each backend
  que,        \* mqueue
  cur,        \* curr_chunk
  ready,      \* ready_chunks
  running,    \* num_running
  left,       \* chunks not loaded yet; scan_desc = NULL when 0
  qtracked,   \* the queue is tracked
  tracked,    \* messages tracked for the current transaction
  orphans,    \* messages still tracked for transactions that are over
  scans,      \* number of scans started
  \* server
  prog,       \* the program of the devprog_entry, and its build
  waitq,      \* messages that wait for the build
  device,     \* messages whose kernel was launched
  stopping,   \* pgstrom_clserv_exit_pending
  \* history
  ran,        \* has the kernel run on the chunk?
  lost        \* messages dropped by a failed re-enqueue

scanVars  == <<que, cur, ready, running, left, scans>>
trackVars == <<qtracked, tracked, orphans>>
buildVars == <<prog, waitq>>
clservVars == <<buildVars, device, stopping, ran, lost>>
vars == <<tableVars, queueVars, servVars, msgVars, callVars,
          scanVars, trackVars, clservVars>>

(***************************************************************************)
(* Backend: gpuscan_begin.                                                 *)
(***************************************************************************)
Begin(b) ==
  /\ pc[b] = "idle" /\ scans[b] < MaxScans
  /\ \E q \in Queues : CreateQueue(q) /\ que' = [que EXCEPT ![b] = q]
  /\ \E n \in 1..MaxChunks : left' = [left EXCEPT ![b] = n]
  /\ scans' = [scans EXCEPT ![b] = @ + 1]
  /\ Goto(b, "trackq")
  /\ UNCHANGED <<servVars, msgVars, msg, ret, cur, ready, running, trackVars,
                 clservVars>>

\* The error leaves nothing behind: nothing is tracked yet.
BeginFails(b) ==
  /\ pc[b] = "idle" /\ scans[b] < MaxScans
  /\ CreateQueueFails
  /\ scans' = [scans EXCEPT ![b] = @ + 1]
  /\ UNCHANGED <<tableVars, queueVars, servVars, msgVars, callVars,
                 que, cur, ready, running, left, trackVars, clservVars>>

\* pgstrom_track_object(mqueue)
TrackQueue(b) ==
  /\ pc[b] = "trackq"
  /\ qtracked' = [qtracked EXCEPT ![b] = TRUE]
  /\ Goto(b, "ret")
  /\ UNCHANGED <<tableVars, queueVars, servVars, msgVars, msg, ret, scanVars,
                 tracked, orphans, clservVars>>

\* No memory for the tracker entry: the queue is closed before the error.
TrackQueueFails(b) ==
  /\ pc[b] = "trackq"
  /\ Call(b, "closeq", msg[b], "abort")
  /\ UNCHANGED <<tableVars, queueVars, servVars, msgVars, scanVars, trackVars,
                 clservVars>>

(***************************************************************************)
(* Backend: gpuscan_exec.  pc "ret" is between two calls, with cur the     *)
(* chunk whose rows are being returned.                                    *)
(***************************************************************************)
\* No more row in the current chunk: release it.
\* Slip: the released chunk stays in the tracker.
ExecTracked(b) ==
  /\ pc[b] = "ret"
  /\ \/ /\ cur[b] = NoMessage
        /\ Goto(b, "drain")
        /\ UNCHANGED <<msg, ret, cur>>
     \/ /\ cur[b] # NoMessage
        /\ Call(b, "putq", cur[b], "drain")
        /\ cur' = [cur EXCEPT ![b] = NoMessage]
  /\ UNCHANGED <<tableVars, queueVars, servVars, msgVars, que, ready, running,
                 left, scans, trackVars, clservVars>>

Exec(b) ==
  /\ pc[b] = "ret"
  /\ \/ /\ cur[b] = NoMessage
        /\ Goto(b, "drain")
        /\ UNCHANGED <<msg, ret, cur, tracked>>
     \/ /\ cur[b] # NoMessage
        /\ tracked' = [tracked EXCEPT ![b] = @ \ {cur[b]}]
        /\ Call(b, "putq", cur[b], "drain")
        /\ cur' = [cur EXCEPT ![b] = NoMessage]
  /\ UNCHANGED <<tableVars, queueVars, servVars, msgVars, que, ready, running,
                 left, scans, qtracked, orphans, clservVars>>

\* Move the head of the response queue to the head of ready_chunks.
\* Slip: num_running is not decremented.
TakeAnswerUncounted(b) ==
  /\ Dequeue(que[b])
  /\ ready' = [ready EXCEPT ![b] = <<Head(qhead[que[b]])>> \o @]
  /\ UNCHANGED <<tableVars, servVars, msgVars, msg, ret, que, cur, running, left,
                 scans, trackVars, clservVars>>

TakeAnswer(b) ==
  /\ Dequeue(que[b])
  /\ ready' = [ready EXCEPT ![b] = <<Head(qhead[que[b]])>> \o @]
  /\ running' = [running EXCEPT ![b] = @ - 1]
  /\ UNCHANGED <<tableVars, servVars, msgVars, msg, ret, que, cur, left, scans,
                 trackVars, clservVars>>

NoAnswer(b) ==
  /\ qhead[que[b]] = << >>
  /\ UNCHANGED <<tableVars, queueVars, servVars, msgVars, msg, ret, scanVars,
                 trackVars, clservVars>>

Drain(b) ==
  /\ pc[b] = "drain"
  /\ \/ TakeAnswer(b) /\ UNCHANGED pc
     \/ NoAnswer(b) /\ Goto(b, "load")

MayLoad(b) == left[b] > 0 /\ running[b] <= MaxAsync

\* pgstrom_load_gpuscan_row: a new message, tracked
Load(b) ==
  /\ pc[b] = "load" /\ MayLoad(b)
  /\ \E m \in Messages :
       /\ ~live[m]
       /\ NewMessage(m, que[b])
       /\ ran' = [ran EXCEPT ![m] = FALSE]
       /\ \/ /\ tracked' = [tracked EXCEPT ![b] = @ \cup {m}]
             /\ Call(b, "send", m, "abort")
          \/ \* no memory for the tracker entry
             /\ Call(b, "put", m, "abort")
             /\ UNCHANGED tracked
  /\ left' = [left EXCEPT ![b] = @ - 1]
  /\ UNCHANGED <<tableVars, servVars, que, cur, ready, running, scans,
                 qtracked, orphans, buildVars, device, stopping, lost>>

\* Shared memory exhausted, or any error while the heap is read.
LoadFails(b) ==
  /\ pc[b] = "load" /\ MayLoad(b)
  /\ Goto(b, "abort")
  /\ UNCHANGED <<tableVars, queueVars, servVars, msgVars, msg, ret, scanVars,
                 trackVars, clservVars>>

\* pgstrom_enqueue_message; when it fails the message is released at once.
Send(b) ==
  /\ pc[b] = "send"
  /\ \/ /\ Enqueue(b, msg[b])
        /\ running' = [running EXCEPT ![b] = @ + 1]
        /\ Goto(b, IF running[b] + 1 > MinAsync THEN "try" ELSE "load")
        /\ UNCHANGED <<msg, ret>>
     \/ /\ sclosed
        /\ Call(b, "putq", msg[b], "abort")
        /\ UNCHANGED <<servVars, msgVars, running>>
  /\ UNCHANGED <<tableVars, queueVars, que, cur, ready, left, scans, trackVars,
                 clservVars>>

\* An answer that arrived meanwhile ends the loading of more chunks.
Try(b) ==
  /\ pc[b] = "try"
  /\ \/ TakeAnswer(b) /\ Goto(b, "pick")
     \/ NoAnswer(b) /\ Goto(b, "load")

LoadEnd(b) ==
  /\ pc[b] = "load" /\ ~MayLoad(b)
  /\ Goto(b, IF ready[b] # << >> THEN "pick"
             ELSE IF running[b] = 0 THEN "done" ELSE "wait")
  /\ UNCHANGED <<tableVars, queueVars, servVars, msgVars, msg, ret, scanVars,
                 trackVars, clservVars>>

\* pgstrom_dequeue_message
Wait(b) == pc[b] = "wait" /\ TakeAnswer(b) /\ Goto(b, "pick")

Timeout(b) == pc[b] = "wait" /\ NoAnswer(b) /\ Goto(b, "abort")

Pick(b) ==
  LET m == Head(ready[b]) IN
  /\ pc[b] = "pick"
  /\ ready' = [ready EXCEPT ![b] = Tail(@)]
  /\ \/ err[m] /\ Goto(b, "abort") /\ UNCHANGED cur
     \/ ~err[m] /\ Goto(b, "ret") /\ cur' = [cur EXCEPT ![b] = m]
  /\ UNCHANGED <<tableVars, queueVars, servVars, msgVars, msg, ret, que,
                 running, left, scans, trackVars, clservVars>>

\* An error in another part of the query, or its cancellation.
Cancel(b) ==
  /\ pc[b] \in {"ret", "done"}
  /\ Goto(b, "abort")
  /\ UNCHANGED <<tableVars, queueVars, servVars, msgVars, msg, ret, scanVars,
                 trackVars, clservVars>>

(***************************************************************************)
(* Backend: gpuscan_end and the end of the transaction.                    *)
(***************************************************************************)
\* Before the first row (EXPLAIN), after the last one, or early.
MayEnd(b) ==
  \/ pc[b] = "done"
  \/ pc[b] = "ret" /\ (cur[b] = NoMessage \/ "limit" \in Env)

End(b) ==
  /\ MayEnd(b)
  /\ qtracked' = [qtracked EXCEPT ![b] = FALSE]
  /\ Call(b, "closeq", msg[b], "commit")
  /\ UNCHANGED <<tableVars, queueVars, servVars, msgVars, scanVars, tracked,
                 orphans, clservVars>>

\* What the executor state of the scan points to is forgotten.
Forget(b) ==
  /\ que'   = [que   EXCEPT ![b] = NoQueue]
  /\ cur'   = [cur   EXCEPT ![b] = NoMessage]
  /\ ready' = [ready EXCEPT ![b] = << >>]
  /\ running' = [running EXCEPT ![b] = 0]
  /\ left'  = [left  EXCEPT ![b] = 0]
  /\ Goto(b, "idle")
  /\ UNCHANGED <<tableVars, queueVars, servVars, msgVars, msg, ret, scans,
                 qtracked, clservVars>>

\* pgstrom_restrack_callback at commit releases nothing.
Commit(b) ==
  /\ pc[b] = "commit"
  /\ orphans' = [orphans EXCEPT ![b] = @ \cup tracked[b]]
  /\ tracked' = [tracked EXCEPT ![b] = {}]
  /\ Forget(b)

\* pgstrom_restrack_callback at abort, one entry of the hash table a step;
\* the hash of its address decides when an entry is visited.
AbortQueue(b) ==
  /\ pc[b] = "abort" /\ qtracked[b]
  /\ qtracked' = [qtracked EXCEPT ![b] = FALSE]
  /\ Call(b, "closeq", msg[b], "abort")
  /\ UNCHANGED <<tableVars, queueVars, servVars, msgVars, scanVars, tracked,
                 orphans, clservVars>>

AbortMessage(b) ==
  /\ pc[b] = "abort"
  /\ \E m \in tracked[b] :
       /\ tracked' = [tracked EXCEPT ![b] = @ \ {m}]
       /\ Call(b, "put", m, "abort")
  /\ UNCHANGED <<tableVars, queueVars, servVars, msgVars, scanVars, qtracked,
                 orphans, clservVars>>

AbortEnd(b) ==
  /\ pc[b] = "abort" /\ ~qtracked[b] /\ tracked[b] = {}
  /\ Forget(b)
  /\ UNCHANGED <<tracked, orphans>>

(***************************************************************************)
(* Server: the event loop (pgstrom_opencl_event_loop).                     *)
(***************************************************************************)
\* The test of the loop, before the thread waits for a message
EnterWait(t) ==
  /\ pc[t] = "loop"
  /\ Goto(t, IF stopping THEN "exit" ELSE "deq")
  /\ UNCHANGED <<tableVars, queueVars, servVars, msgVars, msg, ret, scanVars,
                 trackVars, clservVars>>

\* A message, or NULL after the timeout or the signal to stop
ServerDequeue(t) ==
  /\ pc[t] = "deq"
  /\ \/ /\ servq # << >>
        /\ Call(t, "proc", Head(servq), "loop")
        /\ servq' = Tail(servq)
     \/ /\ servq = << >>
        /\ Goto(t, "loop")
        /\ UNCHANGED <<msg, ret, servq>>
  /\ UNCHANGED <<tableVars, queueVars, sclosed, msgVars, scanVars, trackVars,
                 clservVars>>

\* Slip: the error code is not stored in the message.
FailSilently(t, e) ==
  /\ UNCHANGED err
  /\ Goto(t, "reply")

\* goto errorN of clserv_process_gpuscan_row with the error code e
Fail(t, e) ==
  /\ err' = [err EXCEPT ![msg[t]] = e]
  /\ Goto(t, "reply")

\* clserv_process_gpuscan_row and clserv_lookup_device_program
ProcessNew(t) ==        \* no program yet: its build is started
  /\ pc[t] = "proc" /\ prog = "none"
  /\ \/ /\ prog' = "building"
        /\ waitq' = Append(waitq, msg[t])
        /\ Goto(t, "build")
        /\ UNCHANGED err
     \/ /\ prog' = "bad"
        /\ Fail(t, TRUE)
        /\ UNCHANGED waitq
  /\ UNCHANGED <<tableVars, queueVars, servVars, live, mref, respq, msg, ret,
                 scanVars, trackVars, device, stopping, ran, lost>>

ProcessBuilding(t) ==   \* the message waits for the build
  /\ pc[t] = "proc" /\ prog = "building"
  /\ waitq' = Append(waitq, msg[t])
  /\ Goto(t, "loop")
  /\ UNCHANGED <<tableVars, queueVars, servVars, msgVars, msg, ret, scanVars,
                 trackVars, prog, device, stopping, ran, lost>>

ProcessReady(t) ==      \* the kernel is launched, or its launch fails
  /\ pc[t] = "proc" /\ prog = "ready"
  /\ \/ /\ device' = device \cup {msg[t]}
        /\ Goto(t, "loop")
        /\ UNCHANGED err
     \/ /\ Fail(t, TRUE)
        /\ UNCHANGED device
  /\ UNCHANGED <<tableVars, queueVars, servVars, live, mref, respq, msg, ret,
                 scanVars, trackVars, buildVars, stopping, ran, lost>>

ProcessBad(t) ==        \* CL_BUILD_PROGRAM_FAILURE
  /\ pc[t] = "proc" /\ prog = "bad"
  /\ Fail(t, TRUE)
  /\ UNCHANGED <<tableVars, queueVars, servVars, live, mref, respq, msg, ret,
                 scanVars, trackVars, clservVars>>

\* malloc fails: the error code is then read from a variable never set
ProcessNoMemory(t) ==
  /\ pc[t] = "proc" /\ "oom" \in Env
  /\ \E e \in BOOLEAN : Fail(t, e)
  /\ UNCHANGED <<tableVars, queueVars, servVars, live, mref, respq, msg, ret,
                 scanVars, trackVars, clservVars>>

\* clBuildProgram returns CL_SUCCESS, or fails after its callback has run
BuildAccepted(t) ==
  /\ pc[t] = "build"
  /\ Goto(t, "loop")
  /\ UNCHANGED <<tableVars, queueVars, servVars, msgVars, msg, ret, scanVars,
                 trackVars, clservVars>>

\* clBuildProgram fails before: the messages that wait are enqueued again,
\* the message of the caller with them, then the caller replies an error.
BuildRejected(t) ==
  /\ pc[t] = "build" /\ "reject" \in Env /\ prog = "building"
  /\ prog' = "rejected"
  /\ Goto(t, "flush")
  /\ UNCHANGED <<tableVars, queueVars, servVars, msgVars, msg, ret, scanVars,
                 trackVars, waitq, device, stopping, ran, lost>>

(***************************************************************************)
(* Server: callbacks of the OpenCL driver.                                 *)
(***************************************************************************)
\* Slip: the messages that wait are forgotten.
BuildDoneNoRequeue(d) ==
  /\ pc[d] = "idle" /\ prog = "building"
  /\ \E ok \in BOOLEAN : prog' = IF ok THEN "ready" ELSE "bad"
  /\ UNCHANGED <<tableVars, queueVars, servVars, msgVars, callVars, scanVars,
                 trackVars, waitq, device, stopping, ran, lost>>

\* clserv_devprog_build_callback; it holds the lock of the program until
\* the messages that wait are on the server queue again.
BuildDone(d) ==
  /\ pc[d] = "idle" /\ prog = "building"
  /\ \E ok \in BOOLEAN : prog' = IF ok THEN "built" ELSE "failed"
  /\ Goto(d, "flush")
  /\ UNCHANGED <<tableVars, queueVars, servVars, msgVars, msg, ret, scanVars,
                 trackVars, waitq, device, stopping, ran, lost>>

\* One message of waitq; its second pgstrom_enqueue_message may fail.
Requeue(a) ==
  /\ pc[a] = "flush" /\ waitq # << >>
  /\ waitq' = Tail(waitq)
  /\ \/ /\ Enqueue(a, Head(waitq))
        /\ UNCHANGED lost
     \/ /\ sclosed
        /\ lost' = lost \cup {Head(waitq)}
        /\ UNCHANGED <<servVars, msgVars>>
  /\ UNCHANGED <<tableVars, queueVars, callVars, scanVars, trackVars, prog,
                 device, stopping, ran>>

RequeueEnd(a) ==
  /\ pc[a] = "flush" /\ waitq = << >>
  /\ \/ /\ prog \in {"built", "failed"}
        /\ prog' = IF prog = "built" THEN "ready" ELSE "bad"
        /\ Goto(a, "idle")
        /\ UNCHANGED err
     \/ /\ prog = "rejected"
        /\ prog' = "bad"
        /\ Fail(a, TRUE)
  /\ UNCHANGED <<tableVars, queueVars, servVars, live, mref, respq, msg, ret,
                 scanVars, trackVars, waitq, device, stopping, ran, lost>>

\* clserv_respond_gpuscan_row, with or without an error of the kernel
KernelDone(d) ==
  /\ pc[d] = "idle"
  /\ \E m \in device, e \in BOOLEAN :
       /\ device' = device \ {m}
       /\ err' = [err EXCEPT ![m] = e]
       /\ ran' = [ran EXCEPT ![m] = TRUE]
       /\ Call(d, "reply", m, "idle")
  /\ UNCHANGED <<tableVars, queueVars, servVars, live, mref, respq, scanVars,
                 trackVars, buildVars, stopping, lost>>

(***************************************************************************)
(* Server: shutdown (pgstrom_opencl_main, pgstrom_close_server_queue).     *)
(***************************************************************************)
Sigterm ==
  /\ "sigterm" \in Env /\ ~stopping
  /\ stopping' = TRUE
  /\ UNCHANGED <<tableVars, queueVars, servVars, msgVars, callVars, scanVars,
                 trackVars, buildVars, device, ran, lost>>

\* Slip: the queue is drained but not closed.
CloseServerQueueNot ==
  /\ pc[Main] = "join" /\ \A t \in Threads : pc[t] = "exit"
  /\ Goto(Main, "drainq")
  /\ UNCHANGED <<tableVars, queueVars, servVars, msgVars, msg, ret, scanVars,
                 trackVars, clservVars>>

CloseServerQueue ==
  /\ pc[Main] = "join" /\ \A t \in Threads : pc[t] = "exit"
  /\ sclosed' = TRUE
  /\ Goto(Main, "drainq")
  /\ UNCHANGED <<tableVars, queueVars, servq, msgVars, msg, ret, scanVars,
                 trackVars, clservVars>>

\* The queued messages are answered StromError_ServerNotReady, then the
\* process exits.
DrainServerQueue ==
  /\ pc[Main] = "drainq"
  /\ \/ /\ servq # << >>
        /\ servq' = Tail(servq)
        /\ err' = [err EXCEPT ![Head(servq)] = TRUE]
        /\ Call(Main, "reply", Head(servq), "drainq")
     \/ /\ servq = << >>
        /\ Goto(Main, "exited")
        /\ UNCHANGED <<msg, ret, servq, err>>
  /\ UNCHANGED <<tableVars, queueVars, sclosed, live, mref, respq, scanVars,
                 trackVars, clservVars>>

(***************************************************************************)
(* The specification.                                                      *)
(***************************************************************************)
Init ==
  /\ MQueueInit
  /\ pc = [a \in Actors |-> IF a \in Threads THEN "loop"
                            ELSE IF a = Main THEN "join" ELSE "idle"]
  /\ msg = [a \in Actors |-> NoMessage]
  /\ ret = [a \in Actors |-> "idle"]
  /\ que = [b \in Backends |-> NoQueue]
  /\ cur = [b \in Backends |-> NoMessage]
  /\ ready = [b \in Backends |-> << >>]
  /\ running = [b \in Backends |-> 0]
  /\ left  = [b \in Backends |-> 0]
  /\ scans = [b \in Backends |-> 0]
  /\ qtracked = [b \in Backends |-> FALSE]
  /\ tracked = [b \in Backends |-> {}]
  /\ orphans = [b \in Backends |-> {}]
  /\ prog = "none" /\ waitq = << >> /\ device = {}
  /\ stopping = FALSE
  /\ ran = [m \in Messages |-> FALSE]
  /\ lost = {}

\* The routines of mqueue.c an actor may be in
BackendCall(b) ==
  /\ \/ CloseQueue(b, que[b]) \/ CloseFree(b, que[b])
     \/ PutMessage(b) \/ PutQueue(b) \/ PutQueueLink(b) \/ FreeMessage(b)
  /\ UNCHANGED <<scanVars, trackVars, clservVars>>

ServerCall(s) ==
  /\ \/ Reply(s)
     \/ PutMessage(s) \/ PutQueue(s) \/ PutQueueLink(s) \/ FreeMessage(s)
  /\ UNCHANGED <<scanVars, trackVars, clservVars>>

\* What a backend does by itself, once it is in a call of the executor
BackendStep(b) ==
  \/ TrackQueue(b) \/ Drain(b) \/ Load(b) \/ Send(b) \/ Try(b)
  \/ LoadEnd(b) \/ Wait(b) \/ Pick(b) \/ Commit(b)
  \/ AbortQueue(b) \/ AbortMessage(b) \/ AbortEnd(b) \/ BackendCall(b)

\* What its users, the executor, its memory and its clock do to it
BackendEvent(b) ==
  \/ Begin(b) \/ BeginFails(b) \/ Exec(b) \/ End(b) \/ TrackQueueFails(b) \/ LoadFails(b)
  \/ Timeout(b) \/ Cancel(b)

ThreadStep(t) ==
  \/ EnterWait(t) \/ ServerDequeue(t)
  \/ ProcessNew(t) \/ ProcessBuilding(t) \/ ProcessReady(t) \/ ProcessBad(t)
  \/ ProcessNoMemory(t) \/ BuildAccepted(t) \/ BuildRejected(t)
  \/ Requeue(t) \/ RequeueEnd(t) \/ ServerCall(t)

DriverStep(d) ==
  \/ BuildDone(d) \/ Requeue(d) \/ RequeueEnd(d) \/ KernelDone(d)
  \/ ServerCall(d)

MainStep == CloseServerQueue \/ DrainServerQueue \/ ServerCall(Main)

ServerUp == pc[Main] # "exited"

Next ==
  \/ \E b \in Backends : BackendStep(b) \/ BackendEvent(b)
  \/ /\ ServerUp
     /\ \/ \E t \in Threads : ThreadStep(t)
        \/ \E d \in Drivers : DriverStep(d)
        \/ MainStep
        \/ Sigterm

Spec == Init /\ [][Next]_vars

\* Threads of the server and of the driver run; a backend inside a call
\* runs.  Nothing obliges the executor to call, the user to begin or cancel
\* a query, memory to run out, or the timeout of a wait to expire.
Fairness ==
  /\ \A b \in Backends : WF_vars(BackendStep(b))
  /\ \A t \in Threads : WF_vars(ServerUp /\ ThreadStep(t))
  /\ \A d \in Drivers : WF_vars(ServerUp /\ DriverStep(d))
  /\ WF_vars(ServerUp /\ MainStep)

FairSpec == Spec /\ Fairness

(***************************************************************************)
(* Who uses what.                                                          *)
(***************************************************************************)
B2N(p) == IF p THEN 1 ELSE 0

\* The server is responsible for m: queued, waiting for a build, on the
\* device, in the hands of one of its threads, or forgotten by a requeue.
ServerHas(m) ==
  \/ m \in Range(servq) \cup Range(waitq) \cup device \cup lost
  \/ \E s \in Servers : pc[s] \in {"proc", "reply", "put", "ub"} /\ msg[s] = m

\* The transaction of some backend has not dropped m yet.
BackendHas(m) ==
  \E b \in Backends :
    \/ m \in tracked[b] \cup orphans[b]
    \/ pc[b] \in {"put", "ub"} /\ msg[b] = m

\* The actor a is in cb_release of its message.
InRelease(a) == pc[a] \in {"putq", "linkq", "freem"}
Releasing(m) == \E a \in Actors : InRelease(a) /\ msg[a] = m

\* The messages that hold a reference on the queue q
Referrers(q) ==
  {m \in Messages : /\ live[m] /\ respq[m] = q
                    /\ ~\E a \in Actors : pc[a] \in {"linkq", "freem"} /\ msg[a] = m}

\* Some backend has created q and not closed it yet.
IsOpen(q) == \E b \in Backends : que[b] = q /\ ~closed[q]

\* q is on its way to the free list.
InTransit(q) ==
  \/ \E b \in Backends : pc[b] = "freeq" /\ que[b] = q
  \/ \E a \in Actors : pc[a] = "linkq" /\ respq[msg[a]] = q

(***************************************************************************)
(* Type invariant.                                                         *)
(***************************************************************************)
BackendPC == {"idle", "trackq", "ret", "drain", "load", "send", "try", "wait",
              "pick", "done", "commit", "abort"}
ServerPC == {"loop", "deq", "proc", "build", "flush", "idle", "exit", "join",
             "drainq", "exited"}
\* Where the routines of mqueue.c return to
ReturnPC == {"idle", "drain", "commit", "abort", "loop", "drainq"}

CallTypeOK ==
  /\ pc  \in [Actors -> BackendPC \cup ServerPC \cup CallPC]
  /\ msg \in [Actors -> Messages \cup {NoMessage}]
  /\ ret \in [Actors -> ReturnPC]

ScanTypeOK ==
  /\ que \in [Backends -> Queues \cup {NoQueue}]
  /\ cur \in [Backends -> Messages \cup {NoMessage}]
  /\ ready \in [Backends -> Seq(Messages)]
  /\ running \in [Backends -> Int]
  /\ left  \in [Backends -> Nat]
  /\ scans \in [Backends -> Nat]

TrackTypeOK ==
  /\ qtracked \in [Backends -> BOOLEAN]
  /\ tracked \in [Backends -> SUBSET Messages]
  /\ orphans \in [Backends -> SUBSET Messages]

ClservTypeOK ==
  /\ prog \in {"none", "building", "built", "failed", "rejected", "ready", "bad"}
  /\ waitq \in Seq(Messages)
  /\ device \subseteq Messages
  /\ stopping \in BOOLEAN
  /\ ran \in [Messages -> BOOLEAN]
  /\ lost \subseteq Messages

\* Every variable has its C type: linked lists hold messages, counters of
\* uint32 stay in their range, control is in one of the modelled places.
TypeOK ==
  /\ TableTypeOK /\ QueueTypeOK /\ MessageTypeOK
  /\ CallTypeOK /\ ScanTypeOK /\ TrackTypeOK /\ ClservTypeOK

(***************************************************************************)
(* Safety.                                                                 *)
(***************************************************************************)
\* The reference counter of a message in use is the number of its users,
\* the transaction that loaded it and the server (pgstrom_enqueue_message
\* increments it, pgstrom_reply_message and pgstrom_put_message decrement it).
MessageRefs ==
  \A m \in Messages :
    live[m] /\ ~Releasing(m) => mref[m] = B2N(ServerHas(m)) + B2N(BackendHas(m))

\* cb_release runs for a message only once its last user is gone, in one
\* process at a time, whoever of backend and server drops it last.
ReleaseIsLast ==
  \A m \in Messages :
    /\ Releasing(m) => live[m] /\ ~ServerHas(m) /\ ~BackendHas(m)
    /\ \A a1, a2 \in Actors :
         InRelease(a1) /\ InRelease(a2) /\ msg[a1] = m /\ msg[a2] = m => a1 = a2

\* The reference counter of a queue counts its creator, until the queue is
\* closed, and the messages that will be returned to it.
QueueRefs ==
  \A q \in Queues : qref[q] = B2N(IsOpen(q)) + Cardinality(Referrers(q))

\* A queue on the free list is there once, and no open scan and no message
\* knows it: pgstrom_create_queue never hands out a queue in use.
FreeQueuesUnused ==
  /\ \A i, j \in 1..Len(freelist) : freelist[i] = freelist[j] => i = j
  /\ \A q \in Range(freelist) : qref[q] = 0 /\ ~IsOpen(q) /\ ~InTransit(q)

\* While a scan runs, its tracked messages are the current chunk, the chunks
\* that are ready, the one about to be sent, and the num_running ones that
\* are with the server or on the response queue: no answer is lost and none
\* is counted twice.
InScan(b) == pc[b] \in {"ret", "drain", "load", "send", "try", "wait", "pick", "done"}
InFlight(b) == {m \in tracked[b] : ServerHas(m) \/ m \in Range(qhead[que[b]])}
AtHand(b) == (Range(ready[b]) \cup {cur[b]}
              \cup (IF pc[b] = "send" THEN {msg[b]} ELSE {})) \ {NoMessage}
AnswersAccounted ==
  \A b \in Backends : InScan(b) =>
    /\ tracked[b] = InFlight(b) \cup AtHand(b)
    /\ InFlight(b) \cap AtHand(b) = {}
    /\ running[b] = Cardinality(InFlight(b))

\* Rows are returned only from a chunk on which the kernel has run.
OnlyExecutedChunks ==
  \A b \in Backends : pc[b] = "ret" /\ cur[b] # NoMessage => ran[cur[b]]

\* What a message is used for, its memory is allocated: the server never
\* works on a released message, a transaction never drops one, a scan has
\* none at hand or among its answers, and so no backend follows a pointer to
\* one (pgstrom_enqueue_message: "we ensure the messages shall not be
\* released during server jobs").
HeldAlive ==
  /\ \A m \in Messages : ServerHas(m) \/ BackendHas(m) => live[m]
  /\ \A b \in Backends :
       /\ InScan(b) => \A m \in AtHand(b) \cup Range(qhead[que[b]]) : live[m]
       /\ pc[b] # "ub"

\* No process follows a pointer to a message whose memory was released, not
\* even pgstrom_reply_message to the message before its own on the list.
NoStaleAccess == \A a \in Actors : pc[a] # "ub"

\* When the server process is gone, its queue is empty and none of its event
\* loop threads has kept a message: pgstrom_close_server_queue has answered
\* every message that was queued.
ShutdownAnswers ==
  pc[Main] = "exited" => servq = << >> /\ \A t \in Threads : pc[t] = "exit"

(***************************************************************************)
(* Action properties.                                                      *)
(***************************************************************************)
\* A closed queue accepts no message: pgstrom_reply_message and
\* pgstrom_enqueue_message test the flag under the lock that guards the list.
ClosedIsFinal ==
  [][/\ \A q \in Queues : closed[q] /\ closed'[q] => qhead'[q] = qhead[q]
     /\ sclosed => sclosed' /\ Len(servq') <= Len(servq)]_vars

(***************************************************************************)
(* Liveness.                                                               *)
(***************************************************************************)
\* A backend that waits for an answer gets one, without its timeout.
WaitEnds == \A b \in Backends : pc[b] = "wait" ~> pc[b] # "wait"

\* "the queue will be dropped when last message is dequeued or last expected
\* message is tried to enqueue" (pgstrom_close_queue), unless a scan that was
\* ended early has left a message of it behind, or the server runs into a
\* released message first
QueueDropped ==
  \A q \in Queues :
    closed[q] /\ qref[q] > 0 ~>
      \/ q \in Range(freelist)
      \/ \E b \in Backends : \E m \in orphans[b] : respq[m] = q
      \/ ~NoStaleAccess

(***************************************************************************)
(* The messages implement shared ownership.                                *)
(***************************************************************************)
MemoryOf(m) == IF ~live[m] THEN "free"
               ELSE IF Releasing(m) THEN "released" ELSE "used"
UsersOf(m) == IF ~live[m] THEN {}
              ELSE (IF BackendHas(m) THEN {"backend"} ELSE {})
                   \cup (IF ServerHas(m) THEN {"server"} ELSE {})

Owned == INSTANCE SharedMessage WITH
           mem <- [m \in Messages |-> MemoryOf(m)],
           users <- [m \in Messages |-> UsersOf(m)]

\* The reference counters implement shared ownership: a message is released
\* by the one of its two users that drops it last, once.
OwnershipRefined == Owned!Spec
=============================================================================
