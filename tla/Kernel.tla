------------------------------- MODULE Kernel -------------------------------
(***************************************************************************)
(* The device side of a scan (opencl_gpuscan.h and the kernel that         *)
(* gpuscan_codegen_quals generates): the work items of a chunk evaluate    *)
(* one row each, agree within their work group on an error of the          *)
(* statement and on places in the result buffer, and groups share the      *)
(* buffer through atomics; then the backend reads the rows back            *)
(* (gpuscan_next_tuple_row).                                               *)
(*                                                                         *)
(* Items of a group meet at barriers: stage[x] counts the barriers item x  *)
(* has passed, and what it does between two barriers is one step (two when *)
(* it uses two atomics).  A row is abstracted to the error codes that its  *)
(* evaluation raises.                                                      *)
(***************************************************************************)
EXTENDS Integers, Sequences, FiniteSets

CONSTANTS
  Launches,     \* pairs of the number of work groups and their size
  Evaluations,  \* what a row may raise: sequences of error codes
  DebugLen,     \* length of a debug message
  DebugBuf      \* KERNEL_DEBUG_BUFSIZE

ASSUME LaunchesAssumption == Launches \subseteq (Nat \ {0}) \X (Nat \ {0})
ASSUME DebugAssumption == DebugLen \in Nat \ {0} /\ DebugBuf \in Nat \ {0}

VARIABLES
  ngroups, lsize,   \* the launch
  nrooms,           \* rows of the chunk
  debug,            \* compiled with PGSTROM_KERNEL_DEBUG
  raises,           \* row -> what its evaluation raises
  stage,            \* item -> barriers passed
  lerror,           \* local_error, by item
  ltemp,            \* local_temp, by item
  nitems, errcode, results,     \* kern_resultbuf
  debugNums, debugUsage,
  debugOfs,         \* item -> offset of the debug message it writes, or -1
  debugBuf,         \* offsets of the messages written
  host,             \* where the backend is
  returned          \* rows it has returned

launchVars == <<ngroups, lsize, nrooms, debug, raises>>
groupVars == <<stage, lerror, ltemp>>
debugVars == <<debugNums, debugUsage, debugOfs, debugBuf>>
resultVars == <<nitems, errcode, results>>
hostVars == <<host, returned>>
vars == <<launchVars, groupVars, debugVars, resultVars, hostVars>>

Items == 0..(ngroups * lsize - 1)
Rows == 0..(nrooms - 1)
LocalId(x) == x % lsize
Group(x) == {y \in Items : y \div lsize = x \div lsize}
First(x) == x - LocalId(x)
Item(x, lid) == First(x) + lid

(***************************************************************************)
(* Error codes.                                                            *)
(***************************************************************************)
Success == 0
RowFiltered == 1
RowReCheck == 2
Significant(c) == c >= 100 \/ c < 0

SetError(old, c) ==
  IF Significant(c)
  THEN IF Significant(old) THEN old ELSE c
  ELSE IF c > old THEN c ELSE old

\* What is left of the codes that an evaluation raises, one after the other
LeftError(codes) ==
  LET left[k \in 0..Len(codes)] ==
        IF k = 0 THEN Success ELSE SetError(left[k - 1], codes[k])
  IN left[Len(codes)]

\* Items beyond the rows of the chunk find rc.isnull.
EvalError(x) ==
  IF x < nrooms THEN LeftError(raises[x]) ELSE RowFiltered

\* The last code is what the qualifier yields; device functions raise errors
\* from 100 on, the negative ones are those of the OpenCL runtime.
ASSUME EvaluationsAssumption ==
  \A codes \in Evaluations :
    /\ codes \in Seq(Nat) /\ Len(codes) >= 1
    /\ \A k \in 1..Len(codes) :
         codes[k] \in {Success, RowFiltered, RowReCheck} \/ Significant(codes[k])

(***************************************************************************)
(* Stages of a work item, in the order of its barriers.                    *)
(***************************************************************************)
\* rounds of `for (i = 0, n = ...; n != 0; i++, n >>= 1)`
Rounds(n) == CHOOSE k \in 0..n : 2^k > n /\ \A j \in 0..(k - 1) : 2^j <= n

\* What 2^n is, for the loops of a launch.
ASSUME PowersOfTwo ==
  /\ 2^0 = 1
  /\ \A l \in Launches : \A k \in 0..l[2] : 2^k \in Nat /\ 2^(k + 1) = 2 * 2^k

Statement == Rounds(lsize - 1) + 1
AddTotal == Statement + Rounds(lsize) + 1
WriteBack == AddTotal + 1
Finished == WriteBack + 1

\* barrier(CLK_LOCAL_MEM_FENCE)
Arrived(x) == \A y \in Group(x) : stage[y] >= stage[x]
Pass(x) == stage' = [stage EXCEPT ![x] = @ + 1]

\* gpuscan_workmem_init, the qualifier, gpuscan_set_error, and the copy to
\* local_temp
Evaluate(x) ==
  /\ stage[x] = 0
  /\ lerror' = [lerror EXCEPT ![x] = EvalError(x)]
  /\ ltemp' = [ltemp EXCEPT ![x] = EvalError(x)]
  /\ Pass(x)
  /\ UNCHANGED <<launchVars, debugVars, resultVars, hostVars>>

\* Slip: the last item of the group is nobody's partner.
ReduceErrorShort(x) ==
  /\ stage[x] \in 1..(Statement - 1) /\ Arrived(x)
  /\ LET i == stage[x] - 1
         c == IF LocalId(x) + 2^i < lsize - 1 THEN ltemp[x + 2^i] ELSE Success
     IN ltemp' = IF /\ LocalId(x) % 2^(i + 1) = 0
                    /\ ~Significant(ltemp[x]) /\ Significant(c)
                 THEN [ltemp EXCEPT ![x] = c] ELSE ltemp
  /\ Pass(x)
  /\ UNCHANGED <<launchVars, lerror, debugVars, resultVars, hostVars>>

\* A round of the reduction: items whose low i + 1 bits are zero take over
\* the error of their partner.
ReduceError(x) ==
  /\ stage[x] \in 1..(Statement - 1) /\ Arrived(x)
  /\ LET i == stage[x] - 1
         c == IF LocalId(x) + 2^i < lsize THEN ltemp[x + 2^i] ELSE Success
     IN ltemp' = IF /\ LocalId(x) % 2^(i + 1) = 0
                    /\ ~Significant(ltemp[x]) /\ Significant(c)
                 THEN [ltemp EXCEPT ![x] = c] ELSE ltemp
  /\ Pass(x)
  /\ UNCHANGED <<launchVars, lerror, debugVars, resultVars, hostVars>>

\* KDEBUG_INT: room for the message is taken with atomic_add ...
DebugReserve(x) ==
  /\ debug /\ debugOfs[x] = -1
  /\ stage[x] = Statement /\ Arrived(x)
  /\ LocalId(x) = 0 /\ Significant(ltemp[x])
  /\ debugOfs' = [debugOfs EXCEPT ![x] = debugUsage]
  /\ debugUsage' = debugUsage + DebugLen
  /\ UNCHANGED <<launchVars, groupVars, debugNums, debugBuf, resultVars,
                 hostVars>>

\* Slip: messages that do not fit are counted all the same.
DebugWriteCounts(x) ==
  /\ debugNums' = debugNums + 1
  /\ debugBuf' = IF debugOfs[x] + DebugLen < DebugBuf
                 THEN debugBuf \cup {debugOfs[x]} ELSE debugBuf

\* ... and the message is written there and counted, if it fits.
DebugWrite(x) ==
  \/ /\ debugOfs[x] + DebugLen < DebugBuf
     /\ debugBuf' = debugBuf \cup {debugOfs[x]}
     /\ debugNums' = debugNums + 1
  \/ /\ debugOfs[x] + DebugLen >= DebugBuf
     /\ UNCHANGED <<debugBuf, debugNums>>

\* The first item of the group reports the error of the statement, unless
\* another group has; then everyone enters the count of rows.
Counts(x) ==
  IF x < nrooms /\ lerror[x] \in {Success, RowReCheck} THEN 1 ELSE 0

WriteStatementError(x) ==
  /\ stage[x] = Statement /\ Arrived(x)
  /\ \/ /\ LocalId(x) = 0 /\ Significant(ltemp[x])
        /\ errcode' = IF errcode = Success THEN ltemp[x] ELSE errcode
        /\ \/ debug /\ debugOfs[x] # -1 /\ DebugWrite(x)
           \/ ~debug /\ UNCHANGED <<debugBuf, debugNums>>
     \/ /\ ~(LocalId(x) = 0 /\ Significant(ltemp[x]))
        /\ UNCHANGED <<errcode, debugBuf, debugNums>>
  /\ ltemp' = [ltemp EXCEPT ![x] = Counts(x)]
  /\ Pass(x)
  /\ UNCHANGED <<launchVars, lerror, debugUsage, debugOfs, nitems, results,
                 hostVars>>

\* A round of the prefix sum: items with bit i add the sum that ends before
\* their block of 2^i items.
PrefixSum(x) ==
  /\ stage[x] \in (Statement + 1)..(AddTotal - 1) /\ Arrived(x)
  /\ LET i == stage[x] - Statement - 1
         src == Item(x, LocalId(x) - (LocalId(x) % 2^i) - 1)
     IN ltemp' = IF (LocalId(x) \div 2^i) % 2 # 0
                 THEN [ltemp EXCEPT ![x] = @ + ltemp[src]]
                 ELSE ltemp
  /\ Pass(x)
  /\ UNCHANGED <<launchVars, lerror, debugVars, resultVars, hostVars>>

\* The first item takes rooms for the whole group and moves its sums there.
AddOffset(x) ==
  /\ stage[x] = AddTotal /\ Arrived(x)
  /\ \/ /\ LocalId(x) = 0
        /\ nitems' = nitems + ltemp[Item(x, lsize - 1)]
        /\ ltemp' = [y \in Items |->
                       IF y \in Group(x) THEN ltemp[y] + nitems ELSE ltemp[y]]
     \/ /\ LocalId(x) # 0
        /\ UNCHANGED <<nitems, ltemp>>
  /\ Pass(x)
  /\ UNCHANGED <<launchVars, lerror, debugVars, errcode, results, hostVars>>

\* Rows that pass, or that the host must check again (negative), are stored.
WriteRow(x) ==
  /\ stage[x] = WriteBack /\ Arrived(x)
  /\ results' =
       CASE x < nrooms /\ lerror[x] = Success ->
              [results EXCEPT ![ltemp[x] - 1] = x + 1]
         [] x < nrooms /\ lerror[x] = RowReCheck ->
              [results EXCEPT ![ltemp[x] - 1] = -(x + 1)]
         [] OTHER -> results
  /\ Pass(x)
  /\ UNCHANGED <<launchVars, lerror, ltemp, debugVars, nitems, errcode,
                 hostVars>>

(***************************************************************************)
(* The backend, once the kernel has ended.                                 *)
(***************************************************************************)
KernelEnded == \A x \in Items : stage[x] = Finished

\* gpuscan_exec raises an error of the chunk, or starts to read its rows.
PickChunk ==
  /\ host = "wait" /\ KernelEnded
  /\ host' = IF errcode # Success THEN "error" ELSE "rows"
  /\ UNCHANGED <<launchVars, groupVars, debugVars, resultVars, returned>>

\* gpuscan_next_tuple_row; a row to be checked again trips its assertion.
NextTuple ==
  /\ host = "rows" /\ Len(returned) < nitems
  /\ LET rs_index == results[Len(returned)]
     IN \/ /\ rs_index > 0 /\ rs_index <= nrooms
           /\ returned' = Append(returned, rs_index - 1)
           /\ UNCHANGED host
        \/ /\ ~(rs_index > 0 /\ rs_index <= nrooms)
           /\ host' = "assert"
           /\ UNCHANGED returned
  /\ UNCHANGED <<launchVars, groupVars, debugVars, resultVars>>

\* Slip: the last item is taken for the end.
EndOfChunkEarly ==
  /\ host = "rows" /\ Len(returned) + 1 >= nitems
  /\ host' = "end"
  /\ UNCHANGED <<launchVars, groupVars, debugVars, resultVars, returned>>

EndOfChunk ==
  /\ host = "rows" /\ Len(returned) >= nitems
  /\ host' = "end"
  /\ UNCHANGED <<launchVars, groupVars, debugVars, resultVars, returned>>

\* The chunk is done; nothing more happens.
Done ==
  /\ host \in {"end", "error", "assert"}
  /\ UNCHANGED vars

(***************************************************************************)
(* Specification.                                                          *)
(***************************************************************************)
\* The launch covers the rows, its last group perhaps in part.
Init ==
  /\ \E l \in Launches :
       /\ ngroups = l[1] /\ lsize = l[2]
       /\ nrooms \in ((l[1] - 1) * l[2] + 1)..(l[1] * l[2])
  /\ debug \in BOOLEAN
  /\ raises \in [Rows -> Evaluations]
  /\ stage = [x \in Items |-> 0]
  /\ lerror = [x \in Items |-> Success]
  /\ ltemp = [x \in Items |-> 0]
  /\ nitems = 0 /\ errcode = Success
  /\ results = [i \in Rows |-> 0]
  /\ debugNums = 0 /\ debugUsage = 0
  /\ debugOfs = [x \in Items |-> -1]
  /\ debugBuf = {}
  /\ host = "wait" /\ returned = << >>

WorkItem(x) ==
  \/ Evaluate(x) \/ ReduceError(x) \/ DebugReserve(x)
  \/ WriteStatementError(x) \/ PrefixSum(x) \/ AddOffset(x) \/ WriteRow(x)

Next ==
  \/ \E x \in Items : WorkItem(x)
  \/ PickChunk \/ NextTuple \/ EndOfChunk \/ Done

Spec == Init /\ [][Next]_vars

(***************************************************************************)
(* Properties.                                                             *)
(***************************************************************************)

\* What the evaluation of a row means, by the codes it raises.
Raised(r) == {raises[r][k] : k \in 1..Len(raises[r])}
Errors == {c \in UNION {Raised(r) : r \in Rows} : Significant(c)}
Fails(r) == \E c \in Raised(r) : Significant(c)
Passes(r) == Raised(r) = {Success}
ReChecks(r) == ~Fails(r) /\ RowReCheck \in Raised(r)

\* When the kernel has ended the result buffer holds each row that passes
\* once, each row to be checked again once and negative, and nothing else,
\* whatever the size of the groups and the order of their items; and ("set an
\* error code, if it is still StromError_Success") the statement fails if and
\* only if a row does, with the error of such a row.
KernelExact ==
  KernelEnded =>
    LET kept == {r \in Rows : Passes(r) \/ ReChecks(r)}
    IN /\ nitems = Cardinality(kept)
       /\ {results[i] : i \in 0..(nitems - 1)} =
            {IF Passes(r) THEN r + 1 ELSE -(r + 1) : r \in kept}
       /\ IF Errors = {} THEN errcode = Success ELSE errcode \in Errors

\* pgstrom_dump_kernel_debug walks debugNums messages from offset 0 by their
\* lengths: it finds exactly those that were written, inside the buffer.
DebugWalk ==
  KernelEnded =>
    /\ debugBuf = {DebugLen * k : k \in 0..(debugNums - 1)}
    /\ \A o \in debugBuf : o + DebugLen <= DebugBuf

\* The backend returns the rows that pass, each once.
ReturnedExact ==
  host = "end" =>
    /\ Len(returned) = Cardinality({r \in Rows : Passes(r)})
    /\ {returned[i] : i \in 1..Len(returned)} = {r \in Rows : Passes(r)}
=============================================================================
