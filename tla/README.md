# A TLA+ verification project for PG-Strom

PG-Strom is a PostgreSQL extension that evaluates the qualifiers of sequential
scans on a GPU. Backends load rows into chunks in shared memory and send them
as messages to one OpenCL server process, which compiles a kernel for the
qualifiers, runs it on the chunk and returns the message with the verdict of
each row. The interesting part of the code is what these processes and threads
do to the objects they share: reference counters, queues, the cache of device
programs, the memory allocator. This directory models that part.

## 1. Inventory

| component | source | state | operations | what makes it correct |
|---|---|---|---|---|
| message queues | `mqueue.c` | table of response queues with its free list and counters, `refcnt`, `closed` and list of each queue, the server's queue | create, enqueue, reply, dequeue (wait, try), close, get, put, close of the server queue | each counter counts exactly the users; the last user releases, once; only unused queues are recycled; closed queues stay closed |
| gpuscan executor | `gpuscan.c` 590-960 | `GpuScanState`: queue, current chunk, ready chunks, `num_running`, position in the relation | begin, exec, end | no answer is lost or counted twice; rows come from executed chunks only; a waiting scan is answered |
| resource tracker | `restrack.c` | hash table (queue, messages, resource owner) of each backend | track, untrack, callback at commit and abort | after an abort nothing of the transaction is left; at commit nothing has to be released |
| OpenCL server | `opencl_serv.c` | threads, exit flag | event loop, SIGTERM, shutdown | no accepted message is left unanswered in the queue |
| server side of gpuscan | `gpuscan.c` 1191-1689 | kernel, buffers and events of a message | process, respond, release | each message is answered once, with the right error code |
| device program cache | `opencl_devprog.c` | hash slots, LRU list, usage, entries with `refcnt`, program, wait queue | get key, put, retain, lookup with asynchronous build, build callback, reclaim | an entry in use is not reclaimed; waiting messages are woken; usage is what is allocated |
| shared memory allocator | `shmem.c` | zones of blocks, free list of each size class, counters | setup, alloc, split, free with merge of buddies | areas handed out are disjoint; free blocks of a class are buddies at most for a moment; what is freed can be allocated again |
| row store | `datastore.c` | layout of tuples, columns and parameters of a chunk | load a chunk from a relation, layout of the column store, parameter buffer | every tuple is in one chunk; nothing overlaps; what a kernel reads is what the backend wrote |
| planner and code generator | `codegen.c`, `gpuscan.c` 80-590 | cache of device types and functions, lists of a walk, the plan | lookups, invalidation, check of an expression, walk, declarations, plan | what the check admits is translated; every clause is evaluated, on the device or on the host; everything used is declared; the cache leads to nothing freed |
| device code | `opencl_common.h`, `opencl_gpuscan.h` | local memory of work groups, result buffer | kernel of a scan, prefix sum, reduction of errors, row to column | each row is reported once whatever the order of the items; a statement fails if and only if a row does |
| start of the server, device information | `opencl_serv.c`, `opencl_devinfo.c` | platforms, context, queues, shared properties, threads | choice of the platform, publication, listing, round robin, stop | an index means one device everywhere; a listing is all or nothing; a failed start stops cleanly; every device gets work |
| OpenCL entry points, parameters | `opencl_entry.c`, `main.c` | | `dlsym` wrappers, parameters | - |
| columnar cache | `tcache.c` | T-tree of columns | compiled, but `_PG_init` never initialises it | section 7 |
| glue | `debug.c` | | SQL functions of debug builds that forward to the allocator | - |
| not built | `exec.c`, `opencl_gpusort.h`, `opencl_hashjoin.h` | | | - |

Interaction. Backends and the server meet only in shared memory. A backend
*creates* a response queue and *tracks* it, *loads* messages that name the queue,
and *enqueues* them to the server queue. An event loop thread *dequeues* a message
and looks the program up; the message is then launched, parked on the wait queue
of the program, or answered with an error. The driver calls back on threads of
its own when a build or a kernel is done: build callbacks enqueue the parked
messages again, kernel callbacks *reply* to the response queue. All objects live
in blocks of the shared memory allocator.

What is hard here: the two owners of a message drop it in any order, from
different processes; queues are closed while answers are on their way; abort can
strike in any state of a scan; locks are released around `clBuildProgram`; the
tracker visits its entries in the order of a hash table; the server may be told
to stop at any time; memory may run out between two steps; buddies at the end of a
zone and at the largest size class. Items of a
work group meet at barriers in any order; a plan is checked by one routine and
generated by another, over a cache that may be emptied in between; the server may
fail at every step of its start while backends already look. The list, with lines,
is `hazards` in `PROJECT.json`.

## 2. Modules

| module | models | composed of |
|---|---|---|
| `MQueue` | the queues and messages of `mqueue.c`: routines as actions of an actor | |
| `GpuScan` | backends, tracker, server threads, driver callbacks, shutdown | EXTENDS `MQueue` |
| `SharedMessage` | abstract: an object with two owners, released by the last one | refined by `GpuScan` |
| `GpuScanProofs` | types of `GpuScan`, shutdown of the server | EXTENDS `GpuScan` |
| `GpuScanRefs` | theorems: counters, queues and ownership of messages, users find messages allocated, rows of executed chunks only | EXTENDS `GpuScanProofs` |
| `MCGpuScan` | symmetry for TLC | EXTENDS `GpuScan` |
| `Shmem` | setup of the zones and the buddy allocator of `shmem.c` | |
| `SharedMemory` | abstract: areas that share no byte | refined by `Shmem` |
| `ShmemProofs` | theorems about `Shmem` | EXTENDS `Shmem` |
| `MCShmem` | maps clients to processes for TLC | EXTENDS `Shmem` |
| `DevProg` | the cache of device programs of `opencl_devprog.c`, with the keys that scans and messages hold | |
| `DevProgProofs` | theorems about `DevProg` | EXTENDS `DevProg` |
| `Kernel` | the kernel of a scan on its work groups, and the rows the backend reads back | |
| `KernelProofs` | theorems: the debug buffer, the result buffer, the rows returned | EXTENDS `Kernel` |
| `RowStore` | a chunk from the heap to the values a kernel sees, and the size of the launch | |
| `RowStoreProofs` | theorems: every tuple once, stores without overlap, size of the launch | EXTENDS `RowStore` |
| `CodeGen` | from the qualifiers of a query to the plan and its kernel | |
| `CodeGenProofs` | theorems: the cache of device functions, the walker never asserts, lists of a plan | EXTENDS `CodeGen` |
| `Startup` | start and stop of the OpenCL server, round robin, listing of the devices | |
| `StartupProofs` | theorems: one numbering of the devices, sound listings | EXTENDS `Startup` |
| `MCDevProg`, `MCKernel`, `MCRowStore`, `MCCodeGen`, `MCStartup` | instances for TLC | EXTENDS their module |

The modules meet where one is an assumption of another. In `GpuScan` memory is an
allocation that succeeds or fails, which is what `Shmem` promises its clients; there
is one program, whose lookup and build are those of `DevProg`; a chunk is an opaque
message, whose contents are `RowStore` on the way to the device and `Kernel` on the
way back; the kernel that `Kernel` runs is the one `CodeGen` generates, abstracted to
the error codes a row raises; its event loops are those that `Startup` creates and
joins.

A definition whose comment starts with "Slip" is a plausible mistake in the routine
that follows it. It is used by no specification; `mutants` in `PROJECT.json` names
it to show that a property would notice.

### `MQueue` and `GpuScan`

An *actor* is a backend, an event loop thread, the main thread of the server or a
thread of the OpenCL driver. `pc[a]` is its position, `msg[a]` the message argument
of the routine it is in and `ret[a]` where that routine returns. One action is one
critical section of the C code: `pgstrom_put_message` is `PutMessage` (under the
lock of the message), `PutQueue` (under that of the queue), `PutQueueLink` (under
that of the table) and `FreeMessage`, so every interleaving of two releases is
explored. Locks are therefore not variables. The lock of a device program, which
the build callback holds while it enqueues the waiting messages one by one, shows
as the states "built", "failed" and "rejected" of `prog`, in which no lookup is
enabled.

| variables | C |
|---|---|
| `freelist`, `nalloc`, `num_free`, `num_active` | `mqueue_shm_values`: free list, blocks, `uint32` counters (modulo `CounterRange`) |
| `qref`, `closed`, `qhead` | `pgstrom_queue` |
| `servq`, `sclosed` | `serv_mqueue` |
| `live`, `mref`, `respq`, `err` | `pgstrom_message`: allocated, `refcnt`, `respq`, `errcode` |
| `que`, `cur`, `ready`, `running`, `left` | `GpuScanState`: `mqueue`, `curr_chunk`, `ready_chunks`, `num_running`, rest of the relation |
| `qtracked`, `tracked`, `orphans` | tracker entries of the queue, of messages of the current transaction, of messages an earlier commit left behind |
| `prog`, `waitq` | `devprog_entry` of the one program all scans use |
| `device`, `stopping` | launched kernels, `pgstrom_clserv_exit_pending` |
| `scans`, `ran`, `lost` | bound and history: scans started, chunks a kernel has run on, messages a failed re-enqueue has dropped |

A C program that touches a released message has no defined behaviour; the actor
stops at `pc` "ub". That includes the reply of a message to a queue whose last
message was released: `dlist_push_tail` writes into it. A transaction runs one scan
at a time, and a scan is one transaction. At an abort the tracker visits its queue
and messages in any order (`AbortQueue`, `AbortMessage`), which is that of a hash
table. `Env` selects what the environment may do: `sigterm` (stop of the
server), `limit` (the executor ends a scan early), `reject` (`clBuildProgram` fails
without calling back), `oom` (`malloc` of the server fails). Each is the trigger of a
defect (section 4); runs without it show what holds otherwise.
Failures of shared memory (`BeginFails`, `TrackQueueFails`, `LoadFails`, the second
case of `Load`), cancellation, timeouts, failing builds, launches and kernels are
possible in every run.

### `Shmem`

A *client* is a thread that calls the allocator. The server sets the segment up
(`SetupChunk`, `SetupShift`, `SetupZone`, `SetupEnd`: the branches of the loop of
`pgstrom_setup_shmem`), then clients allocate and free. The routines hold the
spinlock of a zone, `lock[z]`, and take one step per iteration of their loops:

| actions | C |
|---|---|
| `Alloc`, `AllocAlap`, `LockZone`, `NextZone`, `TestZone` | `pgstrom_shmem_alloc`, `_alap`: entry, each pass of the loop, advance of `zone_index`, test of its end |
| `Split`, `Take`, `ZoneFull`, `OutOfRange` | `pgstrom_shmem_zone_block_alloc` and `_split`: one level of the recursion, success, no chunk, index out of range |
| `Free`, `Merge`, `MergeEnd` | `pgstrom_shmem_free`, `_zone_block_free`: entry up to the loop, a pass of it, its end |

| variables | C |
|---|---|
| `blocksz`, `free_list`, `num_free`, `num_active` | `shmem_block`, `shmem_zone`; a block is chained if it is on a list |
| `zone`, `shift`, `blkno` | local variables of the setup (`blkno` is kept for each zone) |
| `is_ready`, `num_zones` | `shmem_head` |
| `zone_index` | the static variable of `pgstrom_shmem_alloc`, one per process |
| `start`, `at`, `size`, `index`, `cls` | local variables of a call, reset when it returns |
| `held`, `tried` | history: areas in use (a caller frees only what it was given), zones a call has tried |

The advance of `zone_index` and the test that follows it are two steps, as threads
of one process share it (`ProcessOf`). The order of a free list is abstracted: any
member may be taken, so the checks cover every policy. Splits are taken in the order
in which the recursion of the code unwinds, from the smallest chunk that is large
enough down to the class that is needed. `find_least_pot` is the number of classes
that are too small, which is what its bit tricks compute. Sizes are bytes: a
block has `BlockLen` of them, and `MagicLen` are needed behind an area. Calls that
return `NULL` at once (not ready, 0 bytes, too large) are no step. An index out of
bounds stops the client at `pc` "ub" with the spinlock held.

### `DevProg`

Backends look a program up by its source (`GetKey` and `LinkEntry` are the two critical
sections of `pgstrom_get_devprog_key`, `CreateEntry` and `CountEntry` what happens between
them), hold its key for a scan, give a key to each chunk (`LoadChunk`, `TakeChunk`) and
put them back (`EndScan`, `AbortScan`); event loops reclaim (`Reclaim`), look the program
of a message up (`Lookup*`, one action per branch) and answer it; `BuildStatus`, `CountLog`,
`BuildLock`, `Wake` and `WakeEnd` are the callback of a build.

| variables | C |
|---|---|
| `mem`, `source`, `refcnt`, `program`, `building`, `errmsg`, `waitq` | `devprog_entry` |
| `elock` | its lock, as the callback holds it while it wakes messages one by one |
| `job`, `clref` | driver: state of the build, references of the `cl_program` |
| `lru`, `usage` | `opencl_devprog_shm_values`: LRU list (which orders the hash slots too), bytes |
| `key`, `want`, `scans`; `mkey`, `owner` | keys held by scans and messages |
| `serving`, `queue`, `device` | where a message is |
| `reg` | the value of `usage` read outside of the lock, before it is written |

Critical sections under the lock of the cache are one step. `usage` is updated
without the lock in two places: there reading and writing are two steps. Freed and
reclaimed entries differ: a reclaim does not free (section 4). `ReleaseProgram` is the call
of `clReleaseProgram` for a reclaimed entry, which the code makes whatever `program` is:
a program loses a reference, for `NULL` the driver returns an error that is ignored, and
for `BAD_OPENCL_PROGRAM` the driver either notices or follows it ("ub").

### `Kernel`

A work item takes one step between two barriers; `stage[x]` counts the barriers it has
passed, and `Arrived` says that its whole group is at the barrier. `Evaluate` is the
qualifier, `ReduceError` and `PrefixSum` are rounds of the two reductions over
`local_temp`, `WriteStatementError`, `AddOffset` and `WriteRow` write the result buffer
through atomics, `DebugReserve` and the write that follows it are two steps, as the
code uses two atomics. `PickChunk`, `NextTuple` and `EndOfChunk` are
`gpuscan_next_tuple_row` and its caller.

### `RowStore`

`LoadTuple`, `StoreFull` and `EndOfHeap` are the branches of the loop of
`pgstrom_load_row_store_heap`; `Layout` is that of the column store; `Launch` computes the
size of the work groups. Offsets are the byte offsets of the code, and what an address
holds is found by address (`Stored`, `Cells`), so that an error of a byte shows. Where
PostgreSQL has put an attribute (`AttrStart`, external) and where the device looks for it
(`WalkStart`, which tells a short varlena by the byte it finds, `VARATT_NOT_PAD_BYTE`) are
two definitions. A tuple has `natts` attributes, which may be fewer than the relation has
columns; `KernelNull` is what the device takes for NULL without asking for `t_natts`. The
device side (`Walk`, `Dest`, `NullWord`, `GetDatum`) and the parameter buffer (`PutParam`)
are operators, as they have no interleaving.

### `CodeGen`

`PlanQuery` and `CheckNode` are `gpuscan_add_scan_path` with the quick check of each
clause, node by node; `CreatePlan`, `WalkLeaf`, `WalkCall` and `WalkBuiltin` the generation;
`Declare` the declarations; `CopyPlan` and `BeginPlan` what the executor does with the
plan. `Invalidate` may strike between any two lookups, `InvalidateInCheck` and
`InvalidateInWalk` inside one, where the lookup goes on with the entry that was freed and
puts a function into the cleared cache (`Struck`). What it writes to and reads
from freed memory may go well or not ("ub"); `FollowFreed` is a later hit of such an
entry. A pointer into the cache carries the epoch of its memory and dangles when
the epoch is over. `Returned` are the rows that `gpuscan_exec` gives: those that the kernel
selects, as it evaluates neither the host clauses nor the projection. Expressions are preorder sequences, and the values of both sides,
SQL and kernel, are computed by one fold over them.

### `Startup`

`pc` is the main thread, from the loading of the library over platforms, devices,
queues, shared memory, publication and threads to the join. Every driver call may
fail at every place. `ScheduleLoad` and `ScheduleStore` are the two halves of the unlocked
`index++`. `report[b]` is the listing of a backend, which reads the published number of
devices once per row.

## 3. Runs

| run | constants | checks |
|---|---|---|
| `scan` | 1 backend, 2 scans over one queue, early end, fairness | `TypeOK`, `MessageRefs`, `QueueRefs` (counters are the number of users), `FreeQueuesUnused`, `AnswersAccounted` (`num_running` is the number of answers to come), `HeldAlive` (who holds a message finds it allocated), `ReleaseIsLast`, `OnlyExecutedChunks`, `OwnershipRefined`, `ClosedIsFinal`, `WaitEnds`, `QueueDropped` |
| `server_stop` | 2 event loops, SIGTERM, rejected builds, no memory | `ShutdownAnswers` |
| `shmem` | 2 processes, zones of 6 blocks and of one, 3 classes, requests of the smallest class, the largest and beyond | `TypeOK`, `ChunksDisjoint`, `WalkFindsHeads`, `CountersExact`, `MergedButLast`, `SearchComplete`, `MemoryRefined` |
| `devprog` | 2 backends, 2 event loops, 2 messages, 2 entries, 2 sources | `KeyRefs` (the counter of an entry is the number of keys), `NeededKept`, `OneEntryPerSource`, `WaitersWoken`, `ProgramRefs` |
| `kernel` | groups of 1, 2 and 4 items, every combination of 5 outcomes of a row | `KernelExact`, `DebugWalk`, `ReturnedExact` |
| `rowstore` | 66 relations of 1 to 85 tuples of 4 shapes, 4 columns, 3 lists of parameters, 4 devices | `LoadedOnce`, `StoresFit`, `SeenRight` (the kernel sees what the backend wrote, where the null map tells), `LaunchFits` |
| `codegen` | 2 queries of up to 2 clauses, 2 invalidations | `WalkSucceeds`, `RowsExact`, `ListsComplete`, `FreedAtMostOne` |
| `startup` | 9 machines, 2 server threads, 1 backend, fairness | `DevicesAgree`, `ReportSound`, `ServerStops`, `EveryDeviceUsed` |

The four runs that are expected to be violated (`scan_tail`, `rowstore_sees`, `codegen_rows`,
`codegen_builds`) are described in section 4.

The bounds and why they are enough. Two chunks in flight with a limit of one
(`MaxAsync` = 1, and the code admits one more) make a scan drain, load, try and wait
with answers outstanding; two scans of one backend over a table with room for one
queue force the queue of the first to be recycled while its messages may still be
with the server. One event loop and one driver thread already interleave with the backend
in every order; the run about shutdown has two loops, since it is about all of them ending. Runs of
`GpuScan` have one backend; what backends do to each other through the table of queues and the
server's queue is covered by the theorems of `GpuScanRefs`, which hold for any number.
`CounterRange` = 16 keeps the counters' wrap-around (0 - 1 = 15) without their size.
Messages are interchangeable, so `server_stop` uses symmetry (`scan` has liveness).
`CHECK_DEADLOCK FALSE` is said where the system may really stop: a server that is
gone, an actor at "ub", and a table of queues that stays empty after a leak.

A zone of 6 blocks is a chunk of four and one of two blocks: chunks of each class
exist, can be split twice and merged twice, and the last chunk ends where the zone
ends. The rest of the segment is a zone of one block, in which a search may begin or
end. With `BlockLen` = 4 and `MagicLen` = 1 a request of 3 fits one block; 15 is the
largest that fits the largest class and 16 is accepted by the code but fits none. Two
processes meet in each zone. `CHECK_DEADLOCK FALSE` in `shmem` is for clients at "ub".

In `devprog` two backends want the same program or two different ones, and both
entries fit only until the threshold makes a reclaim drop one; two event loops look
up while a build runs. Each backend begins one scan, which is enough for a lost race,
a reclaim of what another one has left, and answers after an abort. It may stop
when everybody is done or every address is taken, since reclaimed memory is not freed.

A group of 4 has a reduction of two rounds and a prefix sum of three; 2 groups of 2
and 3 of 1 meet at the atomics. The last group is full or not. Two debug messages fit the buffer and a third does not. Deadlock is
checked: no item waits at a barrier for one that has returned.

A row store of 1600 bytes holds 41 or 42 tuples, more than a word of the null map has bits.
Relations end before, at and behind the end of a chunk, and go up to three chunks; tuples of
every shape are the last of one. Columns that are and are not referenced, that are short,
long and of variable length, with and without NULLs follow each other, and one shape of
tuples has fewer attributes than the relation. Tuples are short for their store, as the
hypothesis of the theorem about `StoresFit` wants. `SeenRight` leaves out the cells whose bit of the
null map is lost, the missing attributes that no bitmap covers, and parameters with a value;
`rowstore_sees` has them. The work group size is compared with its definition for 12
numbers of threads around the multiples of 32.

The clauses of `codegen` are of every kind that the walker tells apart, on the device, on the
host and on neither, among them constants, parameters, columns in and out of order, a
library function, tests for NULL and of truth. `RowsExact` is evaluated in all rows of
three columns over NULL, 0 and 1, for plans whose kernel builds (`Builds`) and whose variables
come in the order of the columns, and is about the clauses of the device; clauses with `IS DISTINCT
FROM` are left out (section 4 for all of these). The first of two invalidations can leave a
freed entry and the second one must remove it.

The machines of `startup` have a strong CPU before three GPUs, two platforms of equal
score, no device, old drivers, and strings that are too long. The counter of the round
robin wraps at 8 instead of 2^32, which is no multiple of three devices either. The 55
rows that a listing shows of a device are two. Stores become visible in program order,
as on x86-64; the code has no barrier.

Fairness (`FairSpec`): weak fairness of each event loop and driver thread, of the
main thread, and of a backend inside a call of the executor: threads of an operating
system that are not blocked run. Nothing is assumed of users, of the executor
calling again, of memory, or of the timeout of a wait, so `WaitEnds` shows that a
waiting backend is answered without its timeout. `QueueDropped` holds unless a scan that
ended early has left a message of the queue behind, or the server has run into a released
message (`scan_tail`), where it may end: both are defects (section 4). In `Startup` the main thread and the
server threads run, and messages keep arriving, without which no device is given work;
nothing is assumed of the backends and of SIGTERM.

## 4. Findings

Four runs check what comments and assertions of the code say, and TLC finds a behaviour of
the code that contradicts them.

- `scan_tail`, `NoStaleAccess`: at `restrack.c:115` an abort releases an answered message that is still
  linked on the open response queue, as the tracker visits its entries in the order of
  their hashes. The next answer of the server is linked behind the released message. `HeldAlive`
  says what remains true in every order.
- `rowstore_sees`, `KernelSees`: in one chunk of nine rows three things are wrong. The null map is
  collected in an array of `cl_char` (`opencl_common.h:841`): the bits of rows beyond the eighth of 32
  are lost, and the eighth one spreads over them. A tuple with fewer attributes than the
  relation is read beyond its end (`opencl_common.h:743`). A parameter with a value is
  appended, but its offset is never set (`datastore.c:100`). Each alone violates the property.
- `codegen_rows`, `QueryRows`: `b < 1 AND a = 1 AND f(a)` is evaluated as `a < 1 AND b = 1`. `KVAR_i` is numbered by the
  order in which the walker met the columns and read as index of the column store
  (`codegen.c:1362`), which `gpuscan_begin` fills in the order of attribute numbers; and `gpuscan_exec`
  (`gpuscan.c:921`) returns every row that the kernel selects, so that the clauses left to the
  host are evaluated nowhere.
- `codegen_builds`, `KernelBuilds`: the function of an `IS NULL` is called and never declared
  (`codegen.c:1147`); the types of arguments and results of functions are declared only if a leaf
  has them (`codegen.c:988`); `bool`, which `opencl_common.h` declares, is declared again
  (`codegen.c:1308`). Each alone keeps the kernel from building, and the query fails. (Types of
  variable length are never declared, as the name of their macro is spelt in two ways:
  `codegen.c:1313`, `opencl_common.h:703`.) The properties about rows, `RowsExact` and `QueryRows`, are
  therefore about plans whose kernel builds.

Other places where the code goes wrong, met while modelling, have no run of their own. Where a
step of a model has the defect, the runs of section 3 show what holds without its trigger, or
the property states the exception.

Queues, scans and tracker:

- `mqueue.c:509`: a queue that comes back through `pgstrom_put_queue` is not counted in `num_free`,
  and the assertion of `pgstrom_create_queue` fails.
- `gpuscan.c:931`: a scan that ends early (`limit`) commits with messages nobody releases
  (`orphans`), against the assertion of `restrack.c:69`.
- `gpuscan.c:847` admits one chunk more than `pg_strom.max_async_chunks`, and `main.c:67` compares
  the two parameters only when the module is loaded.
- `gpuscan.c:853`: when the enqueue fails (the server has closed its queue), the message
  is released although the tracker still holds it, and the abort releases it again.
  `ReleaseIsLast` is therefore checked without `sigterm`; with it TLC violates it.
- `gpuscan.c:1655`: after a failed `malloc` the error code is overwritten with an
  uninitialised one. The model chooses the value, so `OnlyExecutedChunks` is checked
  without `oom`; with it TLC violates it.
- `restrack.c:153`: for a device program whose entry cannot be allocated the tracker calls
  `pgstrom_put_message` on an object that is no message.

Program cache:

- `opencl_devprog.c:430`: when `clBuildProgram` fails without calling back, the caller's
  message is both enqueued again and answered (`reject`).
- `opencl_devprog.c:105`: a reclaim gives whatever the entry has for its program to
  `clReleaseProgram`: `NULL` if it was never built, and `BAD_OPENCL_PROGRAM`, an invalid pointer, if
  its build failed. `ReleaseProgram` lets the driver notice the latter or follow it.
- `opencl_devprog.c:97`: a reclaim unlinks an entry and subtracts its size, but does not free
  it; and it subtracts one byte less than was added (line 99).
- `opencl_devprog.c:599`: a plan without device clauses has no key, and retaining it follows
  a null pointer.

Allocator:

- `shmem.c:260`: buddies at the end of a zone are never merged (`MergedButLast` is about all
  others).
- `shmem.c:305`: a thread's search ends early when another thread of its process moves
  `zone_index`; `SearchComplete` is checked for processes.
- `shmem.c:206`: a request of the largest class whose list is empty, or of 16 GB, which
  the magic number lifts beyond it, indexes the lists out of bounds (`OutOfRange`).
- `shmem.c:653`: blocks do not fill zones of certain lengths, 195 MB for one, and the
  assertion of line 655 fails. Zones of the model have an address for each block.
- `shmem.c:605` does not compare the number of zones with `shmem_maxzones`, and
  `shmem.c:629` declares a segment ready that has no zone if the device allocates eight
  times its size at once.

Row store and launch:

- `datastore.c:198`: `usage_tail - length` is unsigned and wraps around for a tuple that is longer
  than what is left below it; it is written in front of the store.
- `datastore.c:217` asserts that a chunk has rows, which fails for an empty relation.
- `datastore.c:102`: a parameter without a type does not advance the index.
- `gpuscan.c:1581` divides by a work group size of 0 when the kernel takes all local memory
  (`LaunchNoSize`).

Code generator:

- `codegen.c:1107`: `IS DISTINCT FROM` is generated as the equality operator it contains.
- `codegen.c:911` looks the types of arguments up with the wrong index and reads beyond the
  array (`Overread`); a function of the libraries of dates or texts can be missed.
- negative entries of the function cache and those of library functions are never hit
  again, and are added at each lookup.
- `codegen.c:938`: an invalidation inside the lookup of a function frees its entry, which is
  then linked into the cleared cache; the next lookup of the function follows it
  (`FollowFreed`). `FreedAtMostOne` says that there is never more than this one.
- an invalidation in the middle of a walk leaves its lists with freed entries, which the
  declarations follow (`Declare` goes to "ub").
- `pg_boolop_not` and the functions of the libraries are called but not declared; templates of two
  types have each other's name.
- `gpuscan.c:1115`: the copy of a plan has no kernel source; `gpuscan_textout` writes `scanrelid` under the name of `extra_flags`.

Start of the server:

- `opencl_serv.c:131` and `:150`: a platform or device that is "skipped" comes back as NULL,
  which is dereferenced; a platform without devices ends the server.
- `opencl_devinfo.c:189`: a string that fills the buffer gets its terminator behind it.
- `opencl_devinfo.c:774`: `memcpy` restores the private pointers of the platform's strings after
  they were shifted to the shared block; backends follow them. `ReportSound` is about
  the other rows.
- `opencl_serv.c:340` returns without closing the queue when `malloc` fails.

## 5. Theorems

`GpuScanProofs`, for all constants that satisfy the assumptions in `MQueue` and
`GpuScan` (the sets of actors are disjoint, `NoMessage` is no message, sizes are
natural numbers) and for every subset `Env` of the events:

- `TypeCorrect`: `Spec => []TypeOK`. `TypeOK` is not inductive: the head of a list
  becomes the argument of a routine that follows `respq` of it. The strengthening
  `TypeInv` adds that every message on a list, in a scan or in the hands of an actor has
  been filled in by a load (`QueuesFilled`, `ScansFilled`, `ClservFilled`, `HeldFilled`),
  that a backend inside a scan has a queue and picks only when a chunk is ready
  (`ScanHasQueue`), and that only one actor at a time flushes the wait queue of the
  program (`OneFlush`), without which the head could be taken from an empty list.
  The proof has a lemma for each action or family of actions; steps that only move
  control share the lemmas `ControlMoved` and `GotoMoves`.
- `ShutdownCorrect`: `Spec => []ShutdownAnswers`. The invariant `StopInv` says that
  the main thread is past "join" only when all event loops have ended, and past
  draining only when the queue is empty and closed, and that a closed server queue
  never grows.

`GpuScanRefs`, for the same constants, with at least one event loop (the
server always starts one) and finitely many messages. The hypothesis `Undisturbed` says
that `Env` has neither `sigterm` nor `reject`. It cannot be dropped: a send that meets a closed
server queue releases a message that is still tracked, and a rejected build both
enqueues and answers the caller's message (section 4), so that the counters are wrong
afterwards. Early ends, failing memory, aborts and every order of the tracker are covered.

- `MessagesCounted`, `ReleasedLast`, `QueuesCounted`, `FreeListUnused`, `ChunksAccounted`: the
  invariants `MessageRefs`, `ReleaseIsLast`, `QueueRefs`, `FreeQueuesUnused` and `AnswersAccounted`.
  They hold together or not at all, by one inductive invariant `RefInv`: `TypeInv`; the
  server's queue is open (`UpInv`); the server has a message at one place (`ServerOnce`) and
  so has the backend (`BackendOnce`); the counter of a message is the number of its users, used
  messages are allocated, a message about to be released has no user left (`OwnInv`); what
  each position of a backend says about its own message, queue and tracker entries
  (`LocalInv`); a queue has one owner, and a message held by a backend names the owner's
  queue while that is open (`OwnerInv`); the counter of a queue counts the owner and the
  messages that name it, released queues are in transit to the free list or on it, once
  (`QueueInv`); `num_running` counts the chunks with the server or on the queue (`ScanInv`).
  A counter is the cardinality of a set: an action adds or takes away one member, or
  leaves the set alone, and a lemma for each of the three says what becomes of the number.
- `SharedOwnership`: `Spec => OwnershipRefined`, the step simulation of `SharedMessage` under `RefInv`.
- `ClosedForever`: `Spec => ClosedIsFinal`, an action property: a closed response queue is not
  changed until a creation opens it again. `ServerClosedForever` is the same for the
  server's queue, without `Undisturbed`: it stays closed and does not grow.
- `UsedAlive`: `Spec => []HeldAlive`. What the server, a transaction or a running scan uses is counted,
  hence allocated (`OwnInv`); the answers of a scan are tracked (`ScanInv`); and no step of a backend
  follows a pointer to a released message (`Defined`), in whatever order the tracker releases. It
  is what remains of `NoStaleAccess`, which the server breaks through the list of an open
  queue (`scan_tail`).
- `OnlyExecuted`: `Spec => []OnlyExecutedChunks` without `oom`, whose defect overwrites the error
  code. `RanInv` follows an answer from the kernel through the reply, the queue and
  `ready_chunks` to the chunk that is scanned: at each place it has an error code or has run.

`DevProgProofs`, for all constants that satisfy `DevProgAssumption` (sets of actors that are
disjoint, finitely many backends and messages):

- `KeysCounted`, `NeverReclaimedInUse`, `SourcesUnique`, `WaitersNotLost`, `ProgramsCounted`: `KeyRefs`,
  `NeededKept`, `OneEntryPerSource`, `WaitersWoken` and `ProgramRefs`, with `TypeCorrect`. The inductive
  invariant says who may know an entry: until it is linked only its creator does
  (`KeysInv`), and it has no program (`PrivateInv`); a message in use has the key of a linked
  entry (`ChunksInv`) and is at one place of the server (`PlacesInv`, `LoopsInv`); the LRU list has
  linked entries only (`ListInv`). `BuildInv` ties the state of the driver to the entry. A
  build under way keeps a message that holds the key, which is why an entry without
  keys is not being built and may be reclaimed. `DeviceInv` says that a running kernel has
  a program whose build has ended well. `ProgramRefs` counts references of programs: a release of
  what is no program (section 4) changes none of them.

`ShmemProofs`, for all clients, processes, layouts and requests that satisfy the
assumptions of `Shmem` (lengths are positive, multiples of the block, the magic number
is shorter than a block; `PowersOfTwo` states the arithmetic of 2^n the provers do
not know, and TLC evaluates it):

- `ChunksApart`: `Spec => []ChunksDisjoint`. The inductive invariant `Inv` consists of
  `TypeOK`; `ControlInv` (a client works on a zone only with its lock); `MergerOK` (a chunk
  being freed is on no list and still a head); `ListInv` (free heads carry the size of
  their list, so the comparison of sizes in the merge identifies the list of the
  buddy); `ActiveInv` (the class of an area can be computed back from its size);
  `FitInv` (chunks end inside the part of the zone that is set up), and `HeldInv` (an area
  in use is an active head of its size). Chunks in the hands of a merging client count
  as chunks: without them a merge would not preserve disjointness. A take, a free and
  the end of a merge leave the set of chunks as it is (`SameChunks`); a split replaces one
  by its halves, a merge two buddies by their union (`BuddyNeighbour`, `MergeableFree`).
- `MemoryImplemented`: `Spec => MemoryRefined`, the step simulation of `SharedMemory`: an area
  ends in the chunk it was taken from (`LeastPotFits`), so disjoint chunks make
  disjoint areas.
- `TypeCorrect`: `Spec => []TypeOK`.
- `WalkComplete`: `Spec => []WalkFindsHeads`, a part of `Inv`. Together with `ChunksApart` it says
  that the chunks are a partition of the zone. It needs disjointness: a merge takes the
  head of the upper buddy away, and the only chunk that ends there is the lower one.
- `CountersKept`: `Spec => []CountersExact`. `CountInv` says the same in the middle of a routine,
  where the chunk that is being freed is still marked as in use and no longer counted.
- `BuddiesMerged`: `Spec => []MergedButLast`. `BuddyInv` admits one more pair of free buddies
  while the zone is locked: the halves of a split, which are alone on their list until one of them
  is split or taken (`Halved`). The setup never links two buddies below the largest class,
  as it makes at most one chunk of such a class (`RoomInv`).
- `SearchCovers`: `Spec => []SearchComplete` under `OwnIndex`, each client has a process of its own.
  The hypothesis cannot be dropped: threads of one process share `zone_index`, and one can
  move it while another searches (section 4). `SearchOK` says that a call has tried
  the zones from its start, round the segment, to the one it is at.

`RowStoreProofs`, for all columns, tuples, lengths and devices (alignments are positive, lengths
and limits are natural numbers):

- `EveryTupleOnce`: `Spec => []LoadedOnce`. `LoadInv` says that the tuples read so
  far are those of the completed chunks followed by those of the chunk in hand, and that a
  chunk that met the end of the heap is the last. It does not depend on how long tuples
  are, only on a tuple without room not being consumed.
- `NothingOverlaps`: `Spec => []StoresFit` under `TuplesShort`. The check for room subtracts unsigned
  numbers (`datastore.c:198`): a tuple longer than what is left makes it wrap around, and
  the tuple is copied over the offsets. `TuplesShort` says that the longest tuple cannot get there,
  since by the time so little is left the offsets have grown to more than a tuple; with the
  store of 8 MB that admits tuples of about 5.7 kB. Longer ones are a defect of the code
  (section 4) and not covered. `MCRowStore` assumes `TuplesShort` for its
  instance, so TLC evaluates it. For a bound `l` of the lengths, `FitInv(l)` says that the tuples
  lie one below the other behind the offsets and use at most `l` bytes each; `ColumnInv`
  that the columns begin where `LayoutEnd` has them, which grows by the space of each column.
  How a sum grows is an induction over its index.
- `LargestLaunch`: `Spec => []LaunchFits`. The size is rounded down to the unit after each limit;
  `RoundsDown` and `NextMultiple` say that this yields the largest multiple below all of
  them (`BestSize`), `Covers` that the global size is the next multiple above the rows.

`CodeGenProofs`, for all lists of clauses that satisfy `ClausesAssumption`: clauses are sequences of nodes
that are not empty, a test is Boolean and has an argument, and a call has the type its function
returns, which is a device type if the catalogs have the function (asserted at `codegen.c:905`).

- `OneFreedEntry`: `Spec => []FreedAtMostOne`. An entry that a lookup appends has
  types of the present epoch (`NewEntryLive`, `FuncInserted`), a lookup of a type leaves the
  functions alone, and an invalidation empties the slots, after which the lookup it struck may append the
  entry that was freed: it is the first one and of the epoch before, and the next invalidation
  removes it.
- `NeverAsserts`: `Spec => []WalkSucceeds`. The check and the generation look the same names up at
  different times, with other queries and invalidations in between. `CacheInv` says that
  every entry, also a negative one, says what the catalogs say (`EntrySound`), so that the answer
  of a lookup depends on the name alone. `SplitInv` says that the device clauses, and the nodes
  of the clause in hand up to the present one, are available; `ExprInv` that the
  expression made of them, in any order, can be translated from the present node on.
- `ListsKept`: `Spec => []ListsComplete`. `CtxInv` says that the context has what the nodes
  walked over need, with every number it gave out in the text, and that a plan's types are
  of the present epoch as long as the plan is looked at. It is about the lists that the walker
  keeps; what is on no list, the functions of tests for NULL and the types of calls, is the
  subject of `codegen_builds`.

`KernelProofs`, for all launches, codes and sizes of the debug buffer (`PowersOfTwo` says of each
launch that its loops over powers of two end, `EvaluationsAssumption` that a row raises one of the
codes that the code tells apart; TLC evaluates both):

- `DebugFound`: `Spec => []DebugWalk`. Groups reserve in one order
  and write in another, so that the buffer has holes while the kernel runs. `Inv` says that the rooms are
  distinct and are the first multiples of the length (`RoomInv`), that an item with room
  will report its error (`ReserveInv`: nobody overwrites `local_temp` of a group before all of it is
  past the report, by the barriers), and that the messages are those of the items past the report, if
  they fit (`WriteInv`). At the end that leaves the multiples that fit, which are the first ones.
- `ResultsExact`: `Spec => []KernelExact`. No item is more than one barrier ahead of another of its
  group (`BarrierInv`), so while an item reads its partner, the partner holds the
  value of this round or the next one, and the next one has not touched what is read.
  `ReduceInv` says of the reduction that after `k` rounds an item stands for the errors of
  the `2^k` items from it on; `SumInv` of the prefix sum that an item has counted
  the rows of its segment; `ReportInv` that the error of the chunk is that of a group that
  has reported; `PlaceInv` that the places handed out by the atomic addition are distinct and
  gapless; `StoreInv` that a row is written at its place, negated if it is to be checked again.
- `ReturnsExact`: `Spec => []ReturnedExact`. `HostInv` adds that the rows returned are the entries of the
  buffer from its start, all positive: a negative one trips the assertion of
  `gpuscan_next_tuple_row`.

`StartupProofs`, for all machines, thread and backend sets (`MachinesAssumption`,
`PlatformIndexesAssumption` and `HeadAssumption` state the types):

- `DevicesAgreed`: `Spec => []DevicesAgree`. `DeviceInv` says that the score of the platform in hand
  is that of the devices scored so far, that the platform kept is the first of the best before it
  (`BestBefore`), that queues are created in its order, and that a zone is no longer than the longest buffer of
  any of its devices.
- `ReportsSound`: `Spec => []ReportSound`. `InfoInv` says of the block for the properties that the records copied so
  far follow each other and end at the sum of their lengths, so they lie inside the
  block, whose length is the whole sum; `ListInv` that a listing has a row per call, no more than the
  published number of devices allows, and is done with no row or with all: the number is 0 or
  that of all devices, and stays. That the array is visible before the number is
  the order of the stores.

The library's induction theorems cannot be used, as they take an operator. Where a sum,
a count or a position is defined by a recursive function, the proofs use that a set of natural
numbers that is not empty has a least element, applied to the set of counterexamples.

Only model-checked: liveness (`WaitEnds`, `QueueDropped`, `ServerStops` and `EveryDeviceUsed`; out of the
prover's reach); `RowsExact` of `CodeGen`, which compares two folds over expressions that
evaluate them with stacks; and `SeenRight` of `RowStore`, which follows a value from the tuple
through two walks over all columns, each with its own rule of alignment. The properties of the four
runs of section 4 are false.

## 6. Plan

Modelled and checked, in the order in which they depend on each other: queues,
messages, scans, tracker and server (`GpuScan`), the allocator (`Shmem`), the program cache
(`DevProg`), device code (`Kernel`), chunks (`RowStore`), planner and code generator
(`CodeGen`), start and stop of the server (`Startup`). Every safety property that a run checks
has its theorem, except `RowsExact` and `SeenRight`. Left are a proof of `RowsExact`, by
an invariant on the stacks of both evaluations, and one of `SeenRight`, by induction over
the columns of a tuple.

## 7. Not modelled

- `tcache.c`, the columnar cache: `_PG_init` never initialises it, and no behaviour beyond
  its first insertion is defined. `tcache_alloc_tcnode` (line 678) clears the pointer to the
  node and the stack behind it instead of the node, and then follows it; insertion
  descends one level only, and the assertion of `do_insert_tuple` contradicts its callers.
- `exec.c` is not in the Makefile; `opencl_gpusort.h` and `opencl_hashjoin.h` are empty.
- The wrappers of `opencl_entry.c` forward their arguments, as do the functions of `debug.c`.
  Of the former, the loading of the library is modelled (`LoadEntry`).
- The OpenCL driver and PostgreSQL (heap, executor, catalogs) are external: the order in
  which they may call back, fail, or return tuples is modelled. The individual calls
  that set up a kernel are one launch that succeeds or fails.
- Costs and paths of the planner, the text of kernels, the arithmetic of
  device types, the time stamps of the performance monitor and the views (`*_info`, except
  that of the devices) change no state that others read.
