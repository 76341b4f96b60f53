------------------------------ MODULE DevProg ------------------------------
(***************************************************************************)
(* The cache of device programs (opencl_devprog.c): backends look programs *)
(* up by their source and hold keys, the event loops of the server build   *)
(* them, park messages until a build ends, and reclaim programs that       *)
(* nobody holds once the cache has grown.                                  *)
(*                                                                         *)
(* A critical section under opencl_devprog_shm_values->lock is one step.   *)
(* The lock of an entry is a variable, since the callback of a build holds *)
(* it while it wakes the messages that wait.  `usage` is read and written  *)
(* without a lock in two places: there the read and the write are two      *)
(* steps.                                                                  *)
(*                                                                         *)
(* A message is here the key it holds and the places where it is; its      *)
(* counter and its queues are those of GpuScan.  clBuildProgram that fails *)
(* without calling its callback is a step of GpuScan (BuildRejected),      *)
(* which shows what it does to the message.                                *)
(***************************************************************************)
EXTENDS Integers, Sequences, FiniteSets

CONSTANTS
  Backends, Threads, Messages,
  Entries,          \* addresses the allocator has for entries
  Sources,          \* pairs of kernel source and extra_flags
  None,
  SourceLen,        \* strlen(source)
  HeaderLen,        \* offsetof(devprog_entry, source)
  LogLen,           \* strlen of a build log
  Threshold,        \* reclaim_threshold
  UsageWidth,       \* Size counts modulo this
  MaxScans          \* bound: scans a backend begins

ASSUME DevProgAssumption ==
  /\ None \notin Backends \cup Threads \cup Messages \cup Entries
  /\ Backends \cap Threads = {} /\ IsFiniteSet(Backends) /\ IsFiniteSet(Messages)
  /\ SourceLen \in Nat /\ HeaderLen \in Nat /\ LogLen \in Nat
  /\ Threshold \in Nat /\ UsageWidth \in Nat \ {0} /\ MaxScans \in Nat

VARIABLES
  mem,        \* entry -> who has its memory
  source,     \* entry -> source and extra_flags
  refcnt,     \* entry -> int
  program,    \* entry -> NULL, a cl_program or BAD_OPENCL_PROGRAM
  building,   \* entry -> build_running
  errmsg,     \* entry -> has a build log
  waitq,      \* entry -> messages that wait for its build
  elock,      \* entry -> its lock is held by the callback
  job,        \* entry -> what the driver does for it
  clref,      \* entry -> references of its cl_program
  lru,        \* lru_list, first the most recently used
  usage,
  pc,         \* actor -> where it is
  reg,        \* actor -> the value of usage it read
  key,        \* backend -> its devprog_entry
  want,       \* backend -> source it looks up
  scans,      \* backend -> scans begun
  serving,    \* thread -> its message
  queue,      \* the server queue
  device,     \* messages whose kernel runs
  mkey,       \* message -> gscan->dprog_key, None when it is not allocated
  owner       \* message -> backend that has its reference

entryVars == <<mem, source, refcnt, program, building, errmsg, waitq, elock,
               job, clref>>
cacheVars == <<lru, usage>>
backVars == <<key, want, scans>>
msgVars == <<serving, queue, device, mkey, owner>>
vars == <<entryVars, cacheVars, pc, reg, backVars, msgVars>>

Goto(a, l) == pc' = [pc EXCEPT ![a] = l]

\* Size is unsigned.
Size(x) == x % UsageWidth

AllocLen == HeaderLen + SourceLen + 1
\* usage -= length; strlen(errmsg) is one less than the buflen added
ReclaimLen(e) == HeaderLen + SourceLen + (IF errmsg[e] THEN LogLen ELSE 0)

\* Where a message is: with the server, until it is answered.
InServer(m) ==
  \/ m \in device \/ \E i \in 1..Len(queue) : queue[i] = m
  \/ \E t \in Threads : serving[t] = m
  \/ \E e \in Entries : m \in waitq[e]

(***************************************************************************)
(* Keys (pgstrom_get_devprog_key, _put_, _retain_).                        *)
(***************************************************************************)
\* dlist_delete of the i-th node
Cut(l, i) == [j \in 1..(Len(l) - 1) |-> IF j < i THEN l[j] ELSE l[j + 1]]

\* The search of slot[crc % DEVPROG_HASH_SIZE], over the linked entries.
Matches(s) == {i \in 1..Len(lru) : source[lru[i]] = s}

\* The entry that was found becomes the most recently used.
Hit(b, i) ==
  /\ lru' = <<lru[i]>> \o Cut(lru, i)
  /\ refcnt' = [refcnt EXCEPT ![lru[i]] = @ + 1]
  /\ key' = [key EXCEPT ![b] = lru[i]]
  /\ Goto(b, "held")

\* First trial.
GetKey(b) ==
  /\ pc[b] = "idle" /\ scans[b] < MaxScans
  /\ scans' = [scans EXCEPT ![b] = @ + 1]
  /\ \E s \in Sources :
       /\ want' = [want EXCEPT ![b] = s]
       /\ \/ \E i \in Matches(s) : Hit(b, i)
          \/ /\ Matches(s) = {}
             /\ Goto(b, "alloc")
             /\ UNCHANGED <<lru, refcnt, key>>
  /\ UNCHANGED <<mem, source, program, building, errmsg, waitq, elock, job,
                 clref, usage, reg, msgVars>>

\* Slip: the reference of the creator is not counted.
CreateEntryNoRef(b) ==
  /\ pc[b] = "alloc"
  /\ \E e \in Entries :
       /\ mem[e] = "free"
       /\ mem' = [mem EXCEPT ![e] = "private"]
       /\ source' = [source EXCEPT ![e] = want[b]]
       /\ refcnt' = [refcnt EXCEPT ![e] = 0]
       /\ program' = [program EXCEPT ![e] = "null"]
       /\ key' = [key EXCEPT ![b] = e]
  /\ reg' = [reg EXCEPT ![b] = usage]
  /\ Goto(b, "count")
  /\ UNCHANGED <<building, errmsg, waitq, elock, job, clref, cacheVars, want,
                 scans, msgVars>>

\* A new entry, and the read of `usage += alloc_len`.
CreateEntry(b) ==
  /\ pc[b] = "alloc"
  /\ \E e \in Entries :
       /\ mem[e] = "free"
       /\ mem' = [mem EXCEPT ![e] = "private"]
       /\ source' = [source EXCEPT ![e] = want[b]]
       /\ refcnt' = [refcnt EXCEPT ![e] = 1]
       /\ program' = [program EXCEPT ![e] = "null"]
       /\ building' = [building EXCEPT ![e] = FALSE]
       /\ errmsg' = [errmsg EXCEPT ![e] = FALSE]
       /\ waitq' = [waitq EXCEPT ![e] = {}]
       /\ elock' = [elock EXCEPT ![e] = FALSE]
       /\ key' = [key EXCEPT ![b] = e]
  /\ reg' = [reg EXCEPT ![b] = usage]
  /\ Goto(b, "count")
  /\ UNCHANGED <<job, clref, cacheVars, want, scans, msgVars>>

\* "out of shared memory": the scan fails before it holds a key.
CreateEntryFails(b) ==
  /\ pc[b] = "alloc"
  /\ Goto(b, "idle")
  /\ UNCHANGED <<entryVars, cacheVars, reg, backVars, msgVars>>

CountEntry(b) ==
  /\ pc[b] = "count"
  /\ usage' = Size(reg[b] + AllocLen)
  /\ reg' = [reg EXCEPT ![b] = 0]
  /\ Goto(b, "retry")
  /\ UNCHANGED <<entryVars, lru, backVars, msgVars>>

\* Slip: the second trial does not search again.
LinkEntryBlind(b) ==
  /\ pc[b] = "retry"
  /\ mem' = [mem EXCEPT ![key[b]] = "linked"]
  /\ lru' = <<key[b]>> \o lru
  /\ Goto(b, "held")
  /\ UNCHANGED <<source, refcnt, program, building, errmsg, waitq, elock, job,
                 clref, usage, reg, backVars, msgVars>>

\* Second trial: somebody else linked the source meanwhile, or the entry is
\* linked now.
LinkEntry(b) ==
  /\ pc[b] = "retry"
  /\ \/ \E i \in Matches(want[b]) :
          /\ Hit(b, i)
          /\ mem' = [mem EXCEPT ![key[b]] = "free"]
     \/ /\ Matches(want[b]) = {}
        /\ mem' = [mem EXCEPT ![key[b]] = "linked"]
        /\ lru' = <<key[b]>> \o lru
        /\ Goto(b, "held")
        /\ UNCHANGED <<refcnt, key>>
  /\ UNCHANGED <<source, program, building, errmsg, waitq, elock, job, clref,
                 usage, reg, want, scans, msgVars>>

\* pgstrom_put_devprog_key for each of a bag of keys, n[e] times e
PutKeys(n) == refcnt' = [e \in Entries |-> refcnt[e] - n[e]]
One(e) == [x \in Entries |-> IF x = e THEN 1 ELSE 0]

(***************************************************************************)
(* Scans: what a backend does with its key (gpuscan.c).                    *)
(***************************************************************************)
\* pgstrom_retain_devprog_key for a new chunk, which is then enqueued
LoadChunk(b) ==
  /\ pc[b] = "held"
  /\ \E m \in Messages :
       /\ mkey[m] = None
       /\ mkey' = [mkey EXCEPT ![m] = key[b]]
       /\ owner' = [owner EXCEPT ![m] = b]
       /\ queue' = Append(queue, m)
  /\ refcnt' = [refcnt EXCEPT ![key[b]] = @ + 1]
  /\ UNCHANGED <<mem, source, program, building, errmsg, waitq, elock, job,
                 clref, cacheVars, pc, reg, backVars, serving, device>>

\* An answered chunk is consumed and put.
TakeChunk(b) ==
  /\ pc[b] = "held"
  /\ \E m \in Messages :
       /\ owner[m] = b /\ ~InServer(m)
       /\ PutKeys(One(mkey[m]))
       /\ mkey' = [mkey EXCEPT ![m] = None]
       /\ owner' = [owner EXCEPT ![m] = None]
  /\ UNCHANGED <<mem, source, program, building, errmsg, waitq, elock, job,
                 clref, cacheVars, pc, reg, backVars, serving, queue, device>>

\* gpuscan_end puts the key of the scan; chunks it has not consumed stay
\* allocated, and hold their key, for good.
EndScan(b) ==
  /\ pc[b] = "held"
  /\ PutKeys(One(key[b]))
  /\ key' = [key EXCEPT ![b] = None]
  /\ owner' = [m \in Messages |-> IF owner[m] = b THEN "leaked" ELSE owner[m]]
  /\ Goto(b, "idle")
  /\ UNCHANGED <<mem, source, program, building, errmsg, waitq, elock, job,
                 clref, cacheVars, reg, want, scans, serving, queue, device,
                 mkey>>

\* The tracker puts the key and the chunks; those that are with the server
\* keep their key until they are answered.
AbortScan(b) ==
  /\ pc[b] = "held"
  /\ LET mine == {m \in Messages : owner[m] = b}
         gone == {m \in mine : ~InServer(m)}
     IN /\ PutKeys([e \in Entries |-> One(key[b])[e]
                      + Cardinality({m \in gone : mkey[m] = e})])
        /\ mkey' = [m \in Messages |-> IF m \in gone THEN None ELSE mkey[m]]
        /\ owner' = [m \in Messages |-> IF m \in mine THEN None ELSE owner[m]]
  /\ key' = [key EXCEPT ![b] = None]
  /\ Goto(b, "idle")
  /\ UNCHANGED <<mem, source, program, building, errmsg, waitq, elock, job,
                 clref, cacheVars, reg, want, scans, serving, queue, device>>

(***************************************************************************)
(* Server: clserv_lookup_device_program and pgstrom_reclaim_devprog.       *)
(***************************************************************************)
\* An event loop takes a message; usage is tested without the lock.
TakeMessage(t) ==
  /\ pc[t] = "idle" /\ queue # << >>
  /\ queue' = Tail(queue)
  /\ serving' = [serving EXCEPT ![t] = Head(queue)]
  /\ Goto(t, IF usage >= Threshold THEN "reclaim" ELSE "lookup")
  /\ UNCHANGED <<entryVars, cacheVars, reg, backVars, device, mkey, owner>>

\* The least recently used of the entries that nobody holds.
Victims == {i \in 1..Len(lru) : refcnt[lru[i]] <= 0}

\* Slip: the end of the list is taken whoever holds it.
ReclaimLast(t) ==
  /\ pc[t] = "reclaim"
  /\ \/ /\ usage >= Threshold /\ lru # << >>
        /\ LET e == lru[Len(lru)]
           IN /\ lru' = Cut(lru, Len(lru))
              /\ mem' = [mem EXCEPT ![e] = "reclaimed"]
              /\ usage' = Size(usage - ReclaimLen(e))
     \/ /\ usage < Threshold \/ lru = << >>
        /\ UNCHANGED <<lru, mem, usage>>
  /\ Goto(t, "lookup")
  /\ UNCHANGED <<source, refcnt, program, building, errmsg, waitq, elock, job,
                 clref, reg, backVars, msgVars>>

\* clReleaseProgram(dprog->program), whatever it is: one reference of a
\* program is dropped; for NULL the driver returns CL_INVALID_PROGRAM, which
\* is ignored; BAD_OPENCL_PROGRAM is no pointer at all, and a driver that
\* follows it ends the server.
ReleaseProgram(t, e) ==
  \/ /\ program[e] = "prog"
     /\ clref' = [clref EXCEPT ![e] = @ - 1]
     /\ Goto(t, "lookup")
  \/ /\ program[e] \in {"null", "bad"}
     /\ Goto(t, "lookup")
     /\ UNCHANGED clref
  \/ /\ program[e] = "bad"
     /\ Goto(t, "ub")
     /\ UNCHANGED clref

\* The victim is unlinked, its build log is freed and its program released;
\* its own memory is not freed.
Reclaim(t) ==
  /\ pc[t] = "reclaim"
  /\ \/ /\ usage >= Threshold /\ Victims # {}
        /\ \E i \in Victims :
             LET e == lru[i]
             IN /\ \A j \in Victims : j <= i
                /\ lru' = Cut(lru, i)
                /\ mem' = [mem EXCEPT ![e] = "reclaimed"]
                /\ usage' = Size(usage - ReclaimLen(e))
                /\ ReleaseProgram(t, e)
     \/ /\ usage < Threshold \/ Victims = {}
        /\ Goto(t, "lookup")
        /\ UNCHANGED <<lru, mem, usage, clref>>
  /\ UNCHANGED <<source, refcnt, program, building, errmsg, waitq, elock, job,
                 reg, backVars, msgVars>>

\* The program of the message that t serves; its lock is free.
AtLookup(t, e) ==
  /\ pc[t] = "lookup" /\ e = mkey[serving[t]] /\ ~elock[e]

\* No program yet: it is created, the message waits, the build starts.
LookupNew(t) ==
  \E e \in Entries :
    /\ AtLookup(t, e) /\ program[e] = "null"
    /\ program' = [program EXCEPT ![e] = "prog"]
    /\ clref' = [clref EXCEPT ![e] = 1]
    /\ building' = [building EXCEPT ![e] = TRUE]
    /\ waitq' = [waitq EXCEPT ![e] = @ \cup {serving[t]}]
    /\ serving' = [serving EXCEPT ![t] = None]
    /\ job' = [job EXCEPT ![e] = "compile"]
    /\ Goto(t, "build")
    /\ UNCHANGED <<mem, source, refcnt, errmsg, elock, cacheVars, reg,
                   backVars, queue, device, mkey, owner>>

\* clCreateProgramWithSource fails.
LookupNoProgram(t) ==
  \E e \in Entries :
    /\ AtLookup(t, e) /\ program[e] = "null"
    /\ program' = [program EXCEPT ![e] = "bad"]
    /\ Goto(t, "answer")
    /\ UNCHANGED <<mem, source, refcnt, building, errmsg, waitq, elock, job,
                   clref, cacheVars, reg, backVars, msgVars>>

\* clBuildProgram returns, before or after its callback; the message is no
\* longer with this thread.
BuildReturns(t) ==
  /\ pc[t] = "build"
  /\ Goto(t, "idle")
  /\ UNCHANGED <<entryVars, cacheVars, reg, backVars, msgVars>>

\* Slip: the message waits whether or not a build runs.
LookupBuildingAlways(t) ==
  \E e \in Entries :
    /\ AtLookup(t, e) /\ program[e] = "prog"
    /\ waitq' = [waitq EXCEPT ![e] = @ \cup {serving[t]}]
    /\ serving' = [serving EXCEPT ![t] = None]
    /\ Goto(t, "idle")
    /\ UNCHANGED <<mem, source, refcnt, program, building, errmsg, elock, job,
                   clref, cacheVars, reg, backVars, queue, device, mkey,
                   owner>>

\* The build runs: the message waits for its end.
LookupBuilding(t) ==
  \E e \in Entries :
    /\ AtLookup(t, e) /\ program[e] = "prog" /\ building[e]
    /\ waitq' = [waitq EXCEPT ![e] = @ \cup {serving[t]}]
    /\ serving' = [serving EXCEPT ![t] = None]
    /\ Goto(t, "idle")
    /\ UNCHANGED <<mem, source, refcnt, program, building, errmsg, elock, job,
                   clref, cacheVars, reg, backVars, queue, device, mkey,
                   owner>>

\* The program is ready: it is retained and the kernel launched.
LookupReady(t) ==
  \E e \in Entries :
    /\ AtLookup(t, e) /\ program[e] = "prog" /\ ~building[e]
    /\ clref' = [clref EXCEPT ![e] = @ + 1]
    /\ device' = device \cup {serving[t]}
    /\ serving' = [serving EXCEPT ![t] = None]
    /\ Goto(t, "idle")
    /\ UNCHANGED <<mem, source, refcnt, program, building, errmsg, waitq,
                   elock, job, cacheVars, reg, backVars, queue, mkey, owner>>

\* A bad program, or clRetainProgram or the launch fails.
LookupBad(t) ==
  \E e \in Entries :
    /\ AtLookup(t, e)
    /\ program[e] = "bad" \/ (program[e] = "prog" /\ ~building[e])
    /\ Goto(t, "answer")
    /\ UNCHANGED <<entryVars, cacheVars, reg, backVars, msgVars>>

\* The reply; a message that its backend has put is released with its key.
Answered(m) ==
  IF owner[m] = None
  THEN /\ PutKeys(One(mkey[m]))
       /\ mkey' = [mkey EXCEPT ![m] = None]
  ELSE UNCHANGED <<refcnt, mkey>>

Answer(t) ==
  /\ pc[t] = "answer"
  /\ Answered(serving[t])
  /\ serving' = [serving EXCEPT ![t] = None]
  /\ Goto(t, "idle")
  /\ UNCHANGED <<mem, source, program, building, errmsg, waitq, elock, job,
                 clref, cacheVars, reg, backVars, queue, device, owner>>

(***************************************************************************)
(* Driver: callbacks.                                                      *)
(***************************************************************************)
\* clserv_respond_gpuscan_row releases the program and replies.
KernelDone(m) ==
  /\ m \in device
  /\ device' = device \ {m}
  /\ clref' = [clref EXCEPT ![mkey[m]] = @ - 1]
  /\ Answered(m)
  /\ UNCHANGED <<mem, source, program, building, errmsg, waitq, elock, job,
                 cacheVars, pc, reg, backVars, serving, queue, owner>>

\* clserv_devprog_build_callback looks at the devices: they succeed, fail
\* with a build log (for which usage is read), or fail without one.
BuildStatus(e) ==
  /\ job[e] = "compile"
  /\ \/ /\ job' = [job EXCEPT ![e] = "success"]
        /\ UNCHANGED reg
     \/ /\ job' = [job EXCEPT ![e] = "log"]
        /\ reg' = [reg EXCEPT ![e] = usage]
     \/ /\ job' = [job EXCEPT ![e] = "error"]
        /\ UNCHANGED reg
  /\ UNCHANGED <<mem, source, refcnt, program, building, errmsg, waitq, elock,
                 clref, cacheVars, pc, backVars, msgVars>>

\* The write of `usage += buflen`; the log is published by the flush.
CountLog(e) ==
  /\ job[e] = "log"
  /\ usage' = Size(reg[e] + LogLen + 1)
  /\ reg' = [reg EXCEPT ![e] = 0]
  /\ job' = [job EXCEPT ![e] = "logged"]
  /\ UNCHANGED <<mem, source, refcnt, program, building, errmsg, waitq, elock,
                 clref, lru, pc, backVars, msgVars>>

\* The callback takes the lock of the entry and stores the log ...
BuildLock(e) ==
  /\ job[e] \in {"success", "logged", "error"}
  /\ elock' = [elock EXCEPT ![e] = TRUE]
  /\ errmsg' = [errmsg EXCEPT ![e] = (job[e] = "logged")]
  /\ job' = [job EXCEPT ![e] = IF @ = "success" THEN "wake" ELSE "wakebad"]
  /\ UNCHANGED <<mem, source, refcnt, program, building, waitq, clref,
                 cacheVars, pc, reg, backVars, msgVars>>

\* ... enqueues the messages again, one after the other ...
Wake(e) ==
  /\ job[e] \in {"wake", "wakebad"}
  /\ \E m \in waitq[e] :
       /\ waitq' = [waitq EXCEPT ![e] = @ \ {m}]
       /\ queue' = Append(queue, m)
  /\ UNCHANGED <<mem, source, refcnt, program, building, errmsg, elock, job,
                 clref, cacheVars, pc, reg, backVars, serving, device, mkey,
                 owner>>

\* Slip: the program of a failed build is not released.
WakeEndNoRelease(e) ==
  /\ job[e] \in {"wake", "wakebad"} /\ waitq[e] = {}
  /\ building' = [building EXCEPT ![e] = FALSE]
  /\ program' = [program EXCEPT ![e] = IF job[e] = "wake" THEN @ ELSE "bad"]
  /\ elock' = [elock EXCEPT ![e] = FALSE]
  /\ job' = [job EXCEPT ![e] = "none"]
  /\ UNCHANGED <<mem, source, refcnt, errmsg, waitq, clref, cacheVars, pc,
                 reg, backVars, msgVars>>

\* ... and ends the build; the program of a failed one is released.
WakeEnd(e) ==
  /\ job[e] \in {"wake", "wakebad"} /\ waitq[e] = {}
  /\ building' = [building EXCEPT ![e] = FALSE]
  /\ \/ /\ job[e] = "wake"
        /\ UNCHANGED <<program, clref>>
     \/ /\ job[e] = "wakebad"
        /\ program' = [program EXCEPT ![e] = "bad"]
        /\ clref' = [clref EXCEPT ![e] = @ - 1]
  /\ elock' = [elock EXCEPT ![e] = FALSE]
  /\ job' = [job EXCEPT ![e] = "none"]
  /\ UNCHANGED <<mem, source, refcnt, errmsg, waitq, cacheVars, pc, reg,
                 backVars, msgVars>>

(***************************************************************************)
(* Specification.                                                          *)
(***************************************************************************)
Init ==
  /\ mem = [e \in Entries |-> "free"]
  /\ source = [e \in Entries |-> None]
  /\ refcnt = [e \in Entries |-> 0]
  /\ program = [e \in Entries |-> "null"]
  /\ building = [e \in Entries |-> FALSE]
  /\ errmsg = [e \in Entries |-> FALSE]
  /\ waitq = [e \in Entries |-> {}]
  /\ elock = [e \in Entries |-> FALSE]
  /\ job = [e \in Entries |-> "none"]
  /\ clref = [e \in Entries |-> 0]
  /\ lru = << >> /\ usage = 0
  /\ pc = [a \in Backends \cup Threads |-> "idle"]
  /\ reg = [a \in Backends \cup Entries |-> 0]
  /\ key = [b \in Backends |-> None]
  /\ want = [b \in Backends |-> None]
  /\ scans = [b \in Backends |-> 0]
  /\ serving = [t \in Threads |-> None]
  /\ queue = << >> /\ device = {}
  /\ mkey = [m \in Messages |-> None]
  /\ owner = [m \in Messages |-> None]

Backend(b) ==
  \/ GetKey(b) \/ CreateEntry(b) \/ CreateEntryFails(b) \/ CountEntry(b)
  \/ LinkEntry(b) \/ LoadChunk(b) \/ TakeChunk(b) \/ EndScan(b)
  \/ AbortScan(b)

EventLoop(t) ==
  \/ TakeMessage(t) \/ Reclaim(t) \/ LookupNew(t) \/ LookupNoProgram(t)
  \/ BuildReturns(t) \/ LookupBuilding(t) \/ LookupReady(t) \/ LookupBad(t)
  \/ Answer(t)

Callback(e) ==
  BuildStatus(e) \/ CountLog(e) \/ BuildLock(e) \/ Wake(e) \/ WakeEnd(e)

Next ==
  \/ \E b \in Backends : Backend(b)
  \/ \E t \in Threads : EventLoop(t)
  \/ \E e \in Entries : Callback(e)
  \/ \E m \in Messages : KernelDone(m)

Spec == Init /\ [][Next]_vars

(***************************************************************************)
(* Properties.                                                             *)
(***************************************************************************)

\* Those who hold a key of e: scans (the creator included) and messages.
Scans(e) == {b \in Backends : key[b] = e}
Chunks(e) == {m \in Messages : mkey[m] = e}

\* refcnt counts the scans and the messages that hold a key of the entry,
\* through hits, lost races, aborts with chunks still on the server, and
\* answers that come after the abort.
KeyRefs ==
  \A e \in Entries :
    mem[e] # "free" => refcnt[e] = Cardinality(Scans(e)) + Cardinality(Chunks(e))

\* "Any programs being required to run are already refcnt > 0, so no need to
\* worry about unexpected destruction": a program that a scan holds, a
\* message needs or the driver builds is never reclaimed.
NeededKept ==
  \A e \in Entries :
    \/ mem[e] = "linked"
    \/ /\ Chunks(e) = {} /\ job[e] = "none"
       /\ \A b \in Scans(e) : pc[b] \in {"count", "retry"}

\* "we could ensure no identical kernel source was inserted concurrently":
\* a source has one entry of the cache, linked once.
OneEntryPerSource ==
  \A i, j \in 1..Len(lru) : i # j => source[lru[i]] # source[lru[j]]

\* A message waits only for a build whose callback is still to wake it.
WaitersWoken ==
  \A e \in Entries : waitq[e] # {} => building[e] /\ job[e] # "none"

\* The cl_program has one reference of the entry and one of each kernel that
\* runs: it is never destroyed under a kernel nor leaked by a failed build.
ProgramRefs ==
  \A e \in Entries :
    clref[e] = (IF mem[e] = "linked" /\ program[e] = "prog" THEN 1 ELSE 0)
             + Cardinality({m \in device : mkey[m] = e})

=============================================================================
