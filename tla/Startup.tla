------------------------------ MODULE Startup -------------------------------
(***************************************************************************)
(* The start of the OpenCL server (opencl_serv.c, opencl_devinfo.c): it    *)
(* scores the platforms, creates the context and one command queue per     *)
(* device, sets up the shared memory, publishes the properties of the      *)
(* devices to the backends, creates its threads, which share a round robin *)
(* over the devices, and stops.  Meanwhile backends may list the devices   *)
(* (pgstrom_opencl_device_info).                                           *)
(*                                                                         *)
(* A device is the pair of its platform and its place there.  Its          *)
(* properties are abstracted to what decides something: the requirements   *)
(* it lacks, its computing power, its longest buffer and the lengths of    *)
(* its strings.                                                            *)
(* Stores reach other processes in program order (x86-64).                 *)
(***************************************************************************)
EXTENDS Integers, Sequences, FiniteSetsExt

CONSTANTS
  Machines,         \* sequences of platforms with lacks, strings and devs
  PlatformIndexes,  \* values of pgstrom.opencl_platform, -1 for the best one
  Threads,          \* opencl_num_threads server threads
  Backends,         \* processes that list the devices
  IndexMod,         \* numbers of the round robin before it wraps, 2^32 in C
  PlatformHead, DeviceHead,     \* offsetof(..., buffer)
  BufLen,           \* room for the strings of a platform or device
  Align             \* MAXIMUM_ALIGNOF

\* What the driver reports: strings by their lengths, and devices
Strings == Seq(Nat)
Device == [lacks : SUBSET STRING, gpu : BOOLEAN, power : Nat, alloc : Nat, strings : Strings]

ASSUME MachinesAssumption ==
  Machines \subseteq Seq([lacks : SUBSET STRING, strings : Strings, devs : Seq(Device)])
ASSUME PlatformIndexesAssumption == PlatformIndexes \subseteq Int
ASSUME HeadAssumption ==
  PlatformHead \in Nat \ {0} /\ DeviceHead \in Nat \ {0} /\ Align \in Nat \ {0}

VARIABLES
  machine, platformIndex,       \* what the server finds
  pc,               \* where the main thread of the server is
  i, j,             \* its loops over platforms and devices
  score, scoreMax, temp,        \* of construct_opencl_device_info
  result,           \* devices of the platform selected so far
  openclDevices,    \* opencl_devices and opencl_num_devices
  cmdq,             \* opencl_cmdq: devices that have a command queue
  zoneLength, isReady,          \* shared memory
  blockLen, shmbase,            \* shared block for the properties
  copied,           \* what was copied there: records at, len, what
  devArray,         \* dev_array[]: addresses in the block
  devinfoArray,     \* devinfo_shm_values: the array is published,
  numDevices,       \* and so many devices
  exitPending, queueClosed,
  loop,             \* thread -> not created, in its loop, or between the
                    \* load and the store of the round robin
  loaded,           \* thread -> the value it has loaded
  used,             \* thread -> the device it was given last, or -1
  index,            \* static int index
  report            \* backend -> its listing: where, call_cntr, rows

scanVars == <<machine, platformIndex, i, j, score, scoreMax, temp, result>>
clVars == <<openclDevices, cmdq>>
memVars == <<zoneLength, isReady>>
infoVars == <<blockLen, shmbase, copied, devArray, devinfoArray, numDevices>>
stopVars == <<exitPending, queueClosed>>
threadVars == <<loop, loaded, used, index>>
vars == <<scanVars, pc, clVars, memVars, infoVars, stopVars, threadVars, report>>

Platform(k) == machine[k]
Dev(d) == machine[d[1]].devs[d[2]]

\* The sum of the first n values of f
Total(f, n) ==
  LET sum[k \in 0..n] == IF k = 0 THEN 0 ELSE sum[k - 1] + f[k] IN sum[n]

(***************************************************************************)
(* pgstrom_init_opencl_entry in the postmaster: the library cannot be      *)
(* opened or lacks a function, and PostgreSQL does not start.              *)
(***************************************************************************)
LoadEntry ==
  /\ pc = "load" /\ pc' \in {"platforms", "nostart"}
  /\ UNCHANGED <<scanVars, clVars, memVars, infoVars, stopVars, threadVars, report>>

(***************************************************************************)
(* collect_opencl_platform_info and collect_opencl_device_info.            *)
(***************************************************************************)
MaxAlign(n) == ((n + Align - 1) \div Align) * Align

\* offset in the buffer after so many strings
StringsEnd(strings, n) ==
  Total([k \in DOMAIN strings |-> MaxAlign(strings[k])], n)

\* The driver refuses a string that does not fit; one that just fits gets its
\* terminator behind the buffer.
Room(strings, n) == BufLen - StringsEnd(strings, n - 1)
Refused(x) == \E n \in DOMAIN x.strings : x.strings[n] > Room(x.strings, n)
Overrun(x) == \E n \in DOMAIN x.strings : x.strings[n] = Room(x.strings, n)
BufferUsed(x) == StringsEnd(x.strings, Len(x.strings))

CollectPlatform(k) ==
  CASE Overrun(Platform(k)) -> "ub"
    [] Refused(Platform(k)) -> "error"
    [] Platform(k).lacks \cap {"full profile", "OpenCL 1.1"} # {} -> "null"
    [] OTHER -> "info"

CollectDevice(d) ==
  CASE Overrun(Dev(d)) -> "ub"
    [] Refused(Dev(d)) -> "error"
    [] Dev(d).lacks \cap {"full profile", "type", "available", "compiler",
                          "little endian", "OpenCL C 1.1", "3 dimensions"} # {} -> "null"
    [] OTHER -> "info"

(***************************************************************************)
(* construct_opencl_device_info.  A call of the driver may fail, which     *)
(* raises ERROR: the process exits and is never restarted.                 *)
(***************************************************************************)
Error == pc' = "exit"

\* What lacks something yields NULL, which is used all the same.
ScanPlatform ==
  /\ pc = "platforms" /\ i <= Len(machine)
  /\ LET c == CollectPlatform(i)
     IN \/ c \in {"null", "ub"} /\ pc' = "ub" /\ UNCHANGED <<j, score, temp>>
        \/ c \in {"info", "error"} /\ Error /\ UNCHANGED <<j, score, temp>>
        \/ c = "info" /\ Platform(i).devs # <<>> /\ pc' = "devices"
           /\ j' = 1 /\ score' = 0 /\ temp' = <<>>
  /\ UNCHANGED <<machine, platformIndex, i, scoreMax, result, clVars, memVars,
                 infoVars, stopVars, threadVars, report>>

Power(d) == IF Dev(d).gpu THEN 32 * Dev(d).power ELSE Dev(d).power

ScanDevice ==
  /\ pc = "devices" /\ j <= Len(Platform(i).devs)
  /\ LET c == CollectDevice(<<i, j>>)
     IN \/ c \in {"null", "ub"} /\ pc' = "ub" /\ UNCHANGED <<j, score, temp>>
        \/ c \in {"info", "error"} /\ Error /\ UNCHANGED <<j, score, temp>>
        \/ c = "info" /\ pc' = pc /\ j' = j + 1
           /\ score' = score + Power(<<i, j>>)
           /\ temp' = Append(temp, <<i, j>>)
  /\ UNCHANGED <<machine, platformIndex, i, scoreMax, result, clVars, memVars,
                 infoVars, stopVars, threadVars, report>>

Selected ==
  \/ platformIndex = i - 1
  \/ platformIndex < 0 /\ score > scoreMax

\* Slip: the array of devices keeps the platform that was scored last.
SelectPlatformLate ==
  /\ pc = "devices" /\ j > Len(Platform(i).devs)
  /\ openclDevices' = temp
  /\ IF Selected
     THEN scoreMax' = score /\ result' = temp
     ELSE UNCHANGED <<scoreMax, result>>
  /\ i' = i + 1 /\ pc' = "platforms"
  /\ UNCHANGED <<machine, platformIndex, j, score, temp, cmdq, memVars,
                 infoVars, stopVars, threadVars, report>>

SelectPlatform ==
  /\ pc = "devices" /\ j > Len(Platform(i).devs)
  /\ IF Selected
     THEN openclDevices' = temp /\ scoreMax' = score /\ result' = temp
     ELSE UNCHANGED <<openclDevices, scoreMax, result>>
  /\ i' = i + 1 /\ pc' = "platforms"
  /\ UNCHANGED <<machine, platformIndex, j, score, temp, cmdq, memVars,
                 infoVars, stopVars, threadVars, report>>

\* clCreateContext, or no platform was selected
CreateContext ==
  /\ pc = "platforms" /\ i > Len(machine)
  /\ \/ result # <<>> /\ pc' = "queues"
     \/ Error
  /\ UNCHANGED <<scanVars, clVars, memVars, infoVars, stopVars, threadVars, report>>

CreateCommandQueue ==
  /\ pc = "queues" /\ Len(cmdq) < Len(openclDevices)
  /\ \/ pc' = pc /\ cmdq' = Append(cmdq, openclDevices[Len(cmdq) + 1])
     \/ Error /\ UNCHANGED cmdq
  /\ UNCHANGED <<scanVars, openclDevices, memVars, infoVars, stopVars, threadVars, report>>

(***************************************************************************)
(* init_opencl_devices_and_shmem and pgstrom_setup_opencl_devinfo.         *)
(***************************************************************************)
Lengths == {Dev(result[k]).alloc : k \in DOMAIN result}

\* Each zone becomes a buffer of the context; one that is refused ends the
\* process before the memory is ready.
SetupShmem ==
  /\ pc = "queues" /\ Len(cmdq) = Len(openclDevices)
  /\ \/ pc' = "info" /\ zoneLength' = Min(Lengths) /\ isReady' = TRUE
     \/ Error /\ UNCHANGED memVars
  /\ UNCHANGED <<scanVars, clVars, infoVars, stopVars, threadVars, report>>

PlatformLen == PlatformHead + BufferUsed(Platform(result[1][1]))
DeviceLen(d) == DeviceHead + BufferUsed(Dev(d))

InfoLength ==
  MaxAlign(PlatformLen) + MaxAlign(Len(result))
  + Total([k \in DOMAIN result |-> MaxAlign(DeviceLen(result[k]))], Len(result))

AllocInfo ==
  /\ pc = "info" /\ blockLen = 0
  /\ \/ blockLen' = InfoLength /\ UNCHANGED pc
     \/ Error /\ UNCHANGED blockLen
  /\ UNCHANGED <<scanVars, clVars, memVars, shmbase, copied, devArray,
                 devinfoArray, numDevices, stopVars, threadVars, report>>

\* The strings of the platform are shifted before memcpy restores their
\* private addresses.
CopyPlatform ==
  /\ pc = "info" /\ blockLen > 0 /\ copied = {}
  /\ copied' = {[at |-> 0, len |-> PlatformLen, what |-> "platform"],
                [at |-> MaxAlign(PlatformLen), len |-> Len(result), what |-> "array"]}
  /\ shmbase' = MaxAlign(PlatformLen) + MaxAlign(Len(result))
  /\ pc' = "copy"
  /\ UNCHANGED <<scanVars, clVars, memVars, blockLen, devArray, devinfoArray,
                 numDevices, stopVars, threadVars, report>>

CopyDevice ==
  /\ pc = "copy" /\ Len(devArray) < Len(result)
  /\ LET d == result[Len(devArray) + 1]
     IN /\ copied' = copied \cup
                       {[at |-> shmbase, len |-> DeviceLen(d), what |-> d]}
        /\ devArray' = Append(devArray, shmbase)
        /\ shmbase' = shmbase + MaxAlign(DeviceLen(d))
  /\ UNCHANGED <<scanVars, pc, clVars, memVars, blockLen, devinfoArray,
                 numDevices, stopVars, threadVars, report>>

\* Slip: devices are counted as they are copied.
PublishArrayEarly ==
  /\ pc = "copy" /\ devArray # <<>> /\ numDevices < Len(devArray)
  /\ devinfoArray' = TRUE
  /\ numDevices' = Len(devArray)
  /\ pc' = IF Len(devArray) = Len(result) THEN "publish" ELSE pc
  /\ UNCHANGED <<scanVars, clVars, memVars, blockLen, shmbase, copied, devArray,
                 stopVars, threadVars, report>>

PublishArray ==
  /\ pc = "copy" /\ Len(devArray) = Len(result)
  /\ devinfoArray' = TRUE
  /\ pc' = "publish"
  /\ UNCHANGED <<scanVars, clVars, memVars, blockLen, shmbase, copied, devArray,
                 numDevices, stopVars, threadVars, report>>

PublishNumber ==
  /\ pc = "publish"
  /\ numDevices' = Len(devArray)
  /\ pc' = "threads"
  /\ UNCHANGED <<scanVars, clVars, memVars, blockLen, shmbase, copied, devArray,
                 devinfoArray, stopVars, threadVars, report>>

(***************************************************************************)
(* pgstrom_opencl_main: the threads and the end.                           *)
(***************************************************************************)
\* malloc fails: the process returns and leaves the server queue open
ThreadsNoMemory ==
  /\ pc = "threads" /\ \A t \in Threads : loop[t] = "none"
  /\ pc' = "exit"
  /\ UNCHANGED <<scanVars, clVars, memVars, infoVars, stopVars, threadVars, report>>

CreateThread(t) ==
  /\ pc = "threads" /\ loop[t] = "none"
  /\ loop' = [loop EXCEPT ![t] = "loop"]
  /\ pc' = IF \A s \in Threads \ {t} : loop[s] # "none" THEN "join" ELSE pc
  /\ UNCHANGED <<scanVars, clVars, memVars, infoVars, stopVars, loaded, used, index, report>>

\* Slip: the threads that were created are not told to stop.
CreateThreadFailsSilently ==
  /\ pc = "threads" /\ pc' = "join"
  /\ UNCHANGED <<scanVars, clVars, memVars, infoVars, stopVars, threadVars, report>>

CreateThreadFails ==
  /\ pc = "threads" /\ pc' = "join"
  /\ exitPending' = TRUE
  /\ UNCHANGED <<scanVars, clVars, memVars, infoVars, queueClosed, threadVars, report>>

Sigterm ==
  /\ pc \notin {"load", "nostart", "exit", "ub", "stopped"} /\ ~exitPending
  /\ exitPending' = TRUE
  /\ UNCHANGED <<scanVars, pc, clVars, memVars, infoVars, queueClosed, threadVars, report>>

\* pthread_join of every thread that was created, and
\* pgstrom_close_server_queue
Join ==
  /\ pc = "join" /\ \A t \in Threads : loop[t] \in {"none", "done"}
  /\ queueClosed' = TRUE /\ pc' = "stopped"
  /\ UNCHANGED <<scanVars, clVars, memVars, infoVars, exitPending, threadVars, report>>

ThreadEnds(t) ==
  /\ loop[t] = "loop" /\ exitPending
  /\ loop' = [loop EXCEPT ![t] = "done"]
  /\ UNCHANGED <<scanVars, pc, clVars, memVars, infoVars, stopVars, loaded, used, index, report>>

\* pgstrom_opencl_device_schedule: index++ is a load
ScheduleLoad(t) ==
  /\ loop[t] = "loop" /\ ~exitPending
  /\ loaded' = [loaded EXCEPT ![t] = index]
  /\ loop' = [loop EXCEPT ![t] = "store"]
  /\ UNCHANGED <<scanVars, pc, clVars, memVars, infoVars, stopVars, used, index, report>>

\* Slip: the index is not static.
ScheduleStoreAutomatic(t) ==
  /\ loop[t] = "store"
  /\ used' = [used EXCEPT ![t] = loaded[t] % Len(openclDevices)]
  /\ loop' = [loop EXCEPT ![t] = "loop"]
  /\ UNCHANGED <<scanVars, pc, clVars, memVars, infoVars, stopVars, loaded, index, report>>

\* ... and a store, of threads that do not exclude each other.
ScheduleStore(t) ==
  /\ loop[t] = "store"
  /\ index' = (loaded[t] + 1) % IndexMod
  /\ used' = [used EXCEPT ![t] = loaded[t] % Len(openclDevices)]
  /\ loop' = [loop EXCEPT ![t] = "loop"]
  /\ UNCHANGED <<scanVars, pc, clVars, memVars, infoVars, stopVars, loaded, report>>

(***************************************************************************)
(* pgstrom_opencl_device_info in a backend.  Of the 55 rows per device one *)
(* stands for the strings of the platform, one for the other properties.   *)
(***************************************************************************)
DIndex(b) == report[b].cntr \div 2
PIndex(b) == report[b].cntr % 2

ReportCall(b) ==
  /\ report[b].at = "call" /\ pc \notin {"load", "nostart"}
  /\ report' = [report EXCEPT ![b].at =
                  IF DIndex(b) = numDevices THEN "done" ELSE "info"]
  /\ UNCHANGED <<scanVars, pc, clVars, memVars, infoVars, stopVars, threadVars>>

Row(b, what) ==
  report' = [report EXCEPT ![b].at = "call", ![b].cntr = @ + 1,
                           ![b].rows = Append(@, what)]

\* What lies at entry k of devinfo_array; an entry that is not written yet
\* reads as anything.
InfoAt(k) ==
  LET here == {c \in copied : k < Len(devArray) /\ c.at = devArray[k + 1]}
  IN IF here = {} THEN "undefined" ELSE (CHOOSE c \in here : TRUE).what

\* pgstrom_get_device_info, its assertion, and the row.  What a backend finds
\* at a private address of the server is undefined: some text, or a fault.
ReportRow(b) ==
  /\ report[b].at = "info"
  /\ IF ~(DIndex(b) < numDevices /\ devinfoArray)
     THEN report' = [report EXCEPT ![b].at = "assert"]
     ELSE IF PIndex(b) = 1 THEN Row(b, InfoAt(DIndex(b)))
     ELSE \/ Row(b, "undefined")
          \/ report' = [report EXCEPT ![b].at = "fault"]
  /\ UNCHANGED <<scanVars, pc, clVars, memVars, infoVars, stopVars, threadVars>>

(***************************************************************************)
(* Specification.                                                          *)
(***************************************************************************)
Init ==
  /\ machine \in Machines /\ platformIndex \in PlatformIndexes
  /\ pc = "load" /\ i = 1 /\ j = 1
  /\ score = 0 /\ scoreMax = -1 /\ temp = <<>> /\ result = <<>>
  /\ openclDevices = <<>> /\ cmdq = <<>>
  /\ zoneLength = 0 /\ isReady = FALSE
  /\ blockLen = 0 /\ shmbase = 0 /\ copied = {} /\ devArray = <<>>
  /\ devinfoArray = FALSE /\ numDevices = 0
  /\ exitPending = FALSE /\ queueClosed = FALSE
  /\ loop = [t \in Threads |-> "none"] /\ loaded = [t \in Threads |-> 0]
  /\ used = [t \in Threads |-> -1] /\ index = 0
  /\ report = [b \in Backends |-> [at |-> "call", cntr |-> 0, rows |-> <<>>]]

Main ==
  \/ LoadEntry \/ ScanPlatform \/ ScanDevice \/ SelectPlatform
  \/ CreateContext \/ CreateCommandQueue \/ SetupShmem
  \/ AllocInfo \/ CopyPlatform \/ CopyDevice \/ PublishArray \/ PublishNumber
  \/ ThreadsNoMemory \/ CreateThreadFails \/ Join
  \/ \E t \in Threads : CreateThread(t)

Thread(t) == ThreadEnds(t) \/ ScheduleLoad(t) \/ ScheduleStore(t)

Backend(b) == ReportCall(b) \/ ReportRow(b)

Next ==
  \/ Main \/ Sigterm
  \/ \E t \in Threads : Thread(t)
  \/ \E b \in Backends : Backend(b)

Spec == Init /\ [][Next]_vars

\* The main thread and the server threads keep running; messages keep
\* arriving.
FairSpec == Spec /\ WF_vars(Main) /\ \A t \in Threads : WF_vars(Thread(t))

(***************************************************************************)
(* Properties.                                                             *)
(***************************************************************************)

PlatformScore(k) ==
  Total([l \in DOMAIN Platform(k).devs |->
           Dev(<<k, l>>).power * (IF Dev(<<k, l>>).gpu THEN 32 ELSE 1)],
        Len(Platform(k).devs))
Wanted ==
  IF platformIndex >= 0 THEN platformIndex + 1
  ELSE CHOOSE k \in DOMAIN machine :
         /\ \A n \in DOMAIN machine : PlatformScore(n) <= PlatformScore(k)
         /\ \A n \in 1..(k - 1) : PlatformScore(n) < PlatformScore(k)

\* A zone of the shared memory can be a buffer of every device of the context
\* (init_opencl_devices_and_shmem, on_shmem_zone_callback).
ZoneMapped ==
  isReady => \A k \in DOMAIN openclDevices : zoneLength <= Dev(openclDevices[k]).alloc

\* What one index means: the device given to clBuildProgram, the one behind
\* the command queue and the one whose properties are published under that
\* index are the same, of the platform that pgstrom.opencl_platform names or
\* of the first one with the best score (opencl_serv.c, kernels are launched
\* on opencl_cmdq[i] with limits of devinfo_array[i]).  And the zones
\* of the shared memory fit every one of them.
DevicesAgree ==
  /\ ZoneMapped
  /\ pc \in {"info", "copy", "publish", "threads", "join", "stopped"} =>
      /\ cmdq = [l \in DOMAIN Platform(Wanted).devs |-> <<Wanted, l>>]
      /\ openclDevices = cmdq
      /\ \A n \in DOMAIN devArray :
           [at |-> devArray[n], len |-> DeviceLen(cmdq[n]), what |-> cmdq[n]] \in copied

\* What is copied stays within the shared block and does not overlap
\* (pgstrom_setup_opencl_devinfo computes the length once and advances shmbase
\* on its own).
InfoFits ==
  /\ \A c \in copied : c.at + c.len <= blockLen
  /\ \A c, d \in copied : c # d => c.at + c.len <= d.at \/ d.at + d.len <= c.at

\* A listing shows no device or all of them in their order, whenever it runs,
\* out of records that lie apart inside the shared block, and the assertion of
\* pgstrom_opencl_device_info holds.
ReportSound ==
  /\ InfoFits
  /\ \A b \in Backends :
       /\ report[b].at # "assert"
       /\ \A n \in DOMAIN report[b].rows :
            n % 2 = 0 => report[b].rows[n] = result[n \div 2]
       /\ report[b].at = "done" => Len(report[b].rows) \in {0, 2 * Len(result)}

\* A server that is told to stop, or cannot create a thread, stops: whatever
\* it was starting, its threads end and its queue is closed, unless it failed
\* before (pgstrom_opencl_main).
StopsWhenFailed ==
  (pc = "join" /\ \E t \in Threads : loop[t] = "none")
    ~> (pc = "stopped" /\ queueClosed)
StopEnds == exitPending ~> pc \in {"stopped", "exit", "ub"}
ServerStops == StopEnds /\ StopsWhenFailed

\* Increments of the round robin may be lost, yet no device is left out for
\* ever (pgstrom_opencl_device_schedule, called by all threads without a lock).
MaxDevices == Max({0} \cup UNION {{Len(m[k].devs) : k \in DOMAIN m} : m \in Machines})
EveryDeviceUsed ==
  \A d \in 0..(MaxDevices - 1) :
    []<>(pc = "join" /\ ~exitPending /\ d < Len(openclDevices)
           => \E t \in Threads : used[t] = d)
=============================================================================
