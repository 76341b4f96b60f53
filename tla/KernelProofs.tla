---------------------------- MODULE KernelProofs ----------------------------
(***************************************************************************)
(* Theorems about Kernel: the debug messages of all work groups, written   *)
(* without a lock, are found again by the walk of the backend; the result  *)
(* buffer holds exactly the rows that pass or must be checked again, and   *)
(* the error of a row, if one fails; the backend returns the rows that     *)
(* pass.                                                                   *)
(*                                                                         *)
(* What a loop over the bits of a local id computes is an invariant of its *)
(* rounds; what a sequence of codes leaves behind, and that the loops end, *)
(* is by induction, with the set of the numbers that satisfy it.           *)
(***************************************************************************)
EXTENDS Kernel, FiniteSetTheorems, WellFoundedInduction, TLAPS

\* The items that have room for a message
Reserved == {x \in Items : debugOfs[x] # -1}

\* The first n messages of the buffer
Messages(n) == {DebugLen * k : k \in 0..(n - 1)}

Fits(o) == o + DebugLen < DebugBuf

LaunchOK == \E l \in Launches : ngroups = l[1] /\ lsize = l[2]

ItemsOK ==
  /\ stage \in [Items -> Nat] /\ debugOfs \in [Items -> Int]
  /\ ltemp = [x \in Items |-> ltemp[x]]

\* An item has room from the report of the error on, and will report one.
ReserveInv ==
  \A x \in Reserved :
    /\ stage[x] >= Statement
    /\ stage[x] = Statement => debug /\ LocalId(x) = 0 /\ Significant(ltemp[x])

\* The rooms follow each other from the start of the buffer, and no two items
\* have the same.
RoomInv ==
  /\ \E n \in Nat : /\ debugUsage = DebugLen * n
                    /\ {debugOfs[x] : x \in Reserved} = Messages(n)
  /\ \A x, y \in Reserved : debugOfs[x] = debugOfs[y] => x = y

\* The items that have written
Wrote == {x \in Reserved : stage[x] > Statement /\ Fits(debugOfs[x])}

WriteInv ==
  /\ debugBuf = {debugOfs[x] : x \in Wrote}
  /\ IsFiniteSet(debugBuf) /\ debugNums = Cardinality(debugBuf)

Inv == LaunchOK /\ ItemsOK /\ ReserveInv /\ RoomInv /\ WriteInv

(***************************************************************************)
(* Arithmetic.                                                             *)
(***************************************************************************)
\* Induction over the naturals, for a set.
LEMMA SetInduction ==
  ASSUME NEW T \in SUBSET Nat, 0 \in T, \A n \in T : n + 1 \in T
  PROVE  T = Nat
<1> SUFFICES ASSUME T # Nat PROVE FALSE
  OBVIOUS
<1> DEFINE R == OpToRel(<, Nat)
<1>1. Nat \ T # {} /\ Nat \ T \subseteq Nat
  OBVIOUS
<1>2. IsWellFoundedOn(R, Nat)
  BY NatLessThanWellFounded, Zenon
<1>3. \A x, y \in Nat : x < y => <<x, y>> \in R
  BY DEF OpToRel
<1> HIDE DEF R
<1>4. PICK x \in Nat \ T : \A y \in Nat \ T : ~ (<<y, x>> \in R)
  BY <1>1, <1>2, WFMin
<1>5. x # 0 /\ x - 1 \in Nat /\ x - 1 < x
  OBVIOUS
<1>6. x - 1 \in T
  BY <1>3, <1>4, <1>5
<1> QED  BY <1>5, <1>6

LEMMA LaunchSize ==
  ASSUME LaunchOK
  PROVE  /\ ngroups \in Nat \ {0} /\ lsize \in Nat \ {0}
         /\ \A k \in 0..lsize : 2^k \in Nat /\ 2^(k + 1) = 2 * 2^k
<1>1. PICK l \in Launches : ngroups = l[1] /\ lsize = l[2]
  BY DEF LaunchOK
<1> QED  BY <1>1, LaunchesAssumption, PowersOfTwo

LEMMA Powers ==
  ASSUME LaunchOK, NEW k \in 0..lsize
  PROVE  2^k \in Nat \ {0} /\ 2^k > k /\ 2^(k + 1) = 2 * 2^k
<1> DEFINE T == {n \in Nat : n <= lsize => 2^n > n}
<1>1. lsize \in Nat \ {0} /\ \A n \in 0..lsize : 2^n \in Nat /\ 2^(n + 1) = 2 * 2^n
  BY LaunchSize
<1>2. 0 \in T
  BY PowersOfTwo
<1>3. ASSUME NEW n \in T PROVE n + 1 \in T
  <2> SUFFICES ASSUME n + 1 <= lsize PROVE 2^(n + 1) > n + 1
    OBVIOUS
  <2>1. n \in 0..lsize /\ 2^n > n
    BY <1>1
  <2>2. 2^n \in Nat /\ 2^(n + 1) = 2 * 2^n
    BY <2>1, <1>1
  <2> QED  BY <2>1, <2>2
<1>4. T = Nat
  <2>1. T \in SUBSET Nat
    OBVIOUS
  <2> HIDE DEF T
  <2> QED  BY <2>1, <1>2, <1>3, SetInduction
<1>5. k \in Nat /\ k <= lsize
  BY <1>1
<1>6. k \in T
  <2> HIDE DEF T
  <2> QED  BY <1>4, <1>5
<1> QED  BY <1>1, <1>5, <1>6

\* The loops over the bits of n end, when 2^k is beyond n.
LEMMA RoundsEnd ==
  ASSUME LaunchOK, NEW n \in {lsize - 1, lsize}
  PROVE  Rounds(n) \in 0..n /\ 2^Rounds(n) > n
<1> DEFINE Least(k) == 2^k > n /\ \A j \in 0..(k - 1) : 2^j <= n
           T == {m \in Nat : m <= n => \/ \E k \in 0..m : Least(k)
                                       \/ \A j \in 0..m : 2^j <= n}
<1>1. n \in Nat /\ n <= lsize /\ lsize \in Nat
  BY LaunchSize
<1>2. \A k \in 0..n : 2^k \in Nat
  BY <1>1, Powers
<1>3. 0 \in T
  <2>1. Least(0) \/ 2^0 <= n
    BY <1>1, PowersOfTwo
  <2> QED  BY <2>1
<1>4. ASSUME NEW m \in T PROVE m + 1 \in T
  <2> SUFFICES ASSUME m + 1 <= n
               PROVE  \/ \E k \in 0..(m + 1) : Least(k)
                      \/ \A j \in 0..(m + 1) : 2^j <= n
    OBVIOUS
  <2>1. \/ \E k \in 0..m : Least(k)
        \/ \A j \in 0..m : 2^j <= n
    BY <1>1
  <2>2. 0..((m + 1) - 1) = 0..m /\ 0..(m + 1) = 0..m \cup {m + 1} /\ m + 1 \in 0..n
    BY <1>1
  <2>3. Least(m + 1) <=> 2^(m + 1) > n /\ \A j \in 0..m : 2^j <= n
    BY <2>2
  <2>4. 2^(m + 1) > n \/ 2^(m + 1) <= n
    BY <2>2, <1>1, <1>2
  <2> HIDE DEF Least
  <2> QED  BY <2>1, <2>2, <2>3, <2>4
<1>5. n \in T
  <2>1. T \in SUBSET Nat
    OBVIOUS
  <2> HIDE DEF T
  <2> QED  BY <2>1, <1>1, <1>3, <1>4, SetInduction
<1>6. 2^n > n /\ n \in 0..n
  BY <1>1, Powers
<1>7. \E k \in 0..n : Least(k)
  <2>1. ~(2^n <= n)
    BY <1>1, <1>2, <1>6
  <2> HIDE DEF Least
  <2> QED  BY <2>1, <1>1, <1>5, <1>6
<1> QED  BY <1>7 DEF Rounds

LEMMA DivMod ==
  ASSUME NEW n \in Nat, NEW u \in Nat \ {0}
  PROVE  /\ n = u * (n \div u) + (n % u) /\ n % u \in 0..(u - 1) /\ n \div u \in Nat
OBVIOUS

LEMMA DivModUnique ==
  ASSUME NEW u \in Nat \ {0}, NEW q \in Nat, NEW r \in 0..(u - 1)
  PROVE  (u * q + r) \div u = q /\ (u * q + r) % u = r
OBVIOUS

(***************************************************************************)
(* Stages and multiples.                                                   *)
(***************************************************************************)
LEMMA Stages ==
  ASSUME LaunchOK
  PROVE  /\ Statement \in Nat /\ Statement >= 1
         /\ AddTotal \in Nat /\ AddTotal > Statement
         /\ WriteBack = AddTotal + 1 /\ Finished = AddTotal + 2
<1>1. lsize \in Nat \ {0}
  BY LaunchSize
<1>2. Rounds(lsize - 1) \in 0..(lsize - 1) /\ Rounds(lsize) \in 0..lsize
  BY RoundsEnd
<1> QED  BY <1>1, <1>2 DEF Statement, AddTotal, WriteBack, Finished

\* Multiplication by u > 0 keeps the order.
LEMMA Order ==
  ASSUME NEW u \in Nat \ {0}, NEW p \in Int, NEW q \in Int
  PROVE  /\ u * p \in Int
         /\ u * p = u * q => p = q
         /\ u * p <= u * q <=> p <= q
         /\ u * (p + 1) = u * p + u
<1>1. p <= q => u * p <= u * q
  OBVIOUS
<1>2. p > q => u * p > u * q
  OBVIOUS
<1>3. u * p \in Int /\ u * q \in Int /\ u * (p + 1) = u * p + u
  OBVIOUS
<1>4. p < q => u * p < u * q
  OBVIOUS
<1> QED  BY <1>1, <1>2, <1>3, <1>4

\* (k + 1) * u < b if and only if k is below the quotient of b - 1.
LEMMA Quotient ==
  ASSUME NEW u \in Nat \ {0}, NEW b \in Nat \ {0}, NEW k \in Nat
  PROVE  u * k + u < b <=> k < (b - 1) \div u
<1> DEFINE q == (b - 1) \div u
           r == (b - 1) % u
<1>1. b - 1 \in Nat
  OBVIOUS
<1>2. b - 1 = u * q + r /\ r \in 0..(u - 1) /\ q \in Nat
  BY <1>1, DivMod
<1> HIDE DEF q, r
<1>3. u * (k + 1) = u * k + u /\ u * k \in Int /\ u * q \in Int
  BY <1>2, Order
<1>4. CASE k < q
  <2>1. u * (k + 1) <= u * q
    <3>1. k + 1 \in Int /\ q \in Int /\ k + 1 <= q
      BY <1>4, <1>2
    <3> QED  BY <3>1, Order
  <2> QED  BY <2>1, <1>2, <1>3, <1>4 DEF q
<1>5. CASE ~(k < q)
  <2>1. u * q <= u * k
    BY <1>5, <1>2, Order
  <2> QED  BY <2>1, <1>2, <1>3, <1>5 DEF q
<1> QED  BY <1>4, <1>5

LEMMA MessageCount ==
  ASSUME NEW n \in Nat
  PROVE  Cardinality(Messages(n)) = n
<1> DEFINE f == [k \in 0..(n - 1) |-> DebugLen * k]
<1>1. ASSUME NEW j \in 0..(n - 1), NEW k \in 0..(n - 1), f[j] = f[k] PROVE j = k
  BY <1>1, Order, DebugAssumption
<1>2. f \in Bijection(0..(n - 1), Messages(n))
  <2>1. f \in [0..(n - 1) -> Messages(n)]
    BY DEF Messages
  <2>2. \A m \in Messages(n) : \E k \in 0..(n - 1) : f[k] = m
    BY DEF Messages
  <2> HIDE DEF f
  <2> QED  BY <2>1, <2>2, <1>1 DEF Bijection, Injection, Surjection, IsInjective
<1>3. IsFiniteSet(0..(n - 1)) /\ Cardinality(0..(n - 1)) = n
  <2>1. 0 \in Int /\ n - 1 \in Int
    OBVIOUS
  <2> QED  BY <2>1, FS_Interval
<1> QED  BY <1>2, <1>3, FS_Bijection DEF ExistsBijection

\* The next message is behind the others.
LEMMA NextMessage ==
  ASSUME NEW n \in Nat
  PROVE  /\ Messages(n + 1) = Messages(n) \cup {DebugLen * n}
         /\ DebugLen * n \notin Messages(n) /\ DebugLen * n \in Nat
         /\ DebugLen * (n + 1) = DebugLen * n + DebugLen
<1>1. 0..((n + 1) - 1) = 0..(n - 1) \cup {n}
  OBVIOUS
<1>2. \A k \in 0..(n - 1) : DebugLen * n # DebugLen * k
  <2> SUFFICES ASSUME NEW k \in 0..(n - 1) PROVE DebugLen * n # DebugLen * k
    OBVIOUS
  <2>1. k \in Int /\ n \in Int /\ n # k
    OBVIOUS
  <2> QED  BY <2>1, Order, DebugAssumption
<1>3. DebugLen * n \in Nat /\ DebugLen * (n + 1) = DebugLen * n + DebugLen
  BY DebugAssumption, Order
<1> QED  BY <1>1, <1>2, <1>3 DEF Messages

(***************************************************************************)
(* Steps.                                                                  *)
(***************************************************************************)
\* A launch does not change.
LEMMA SameLaunch ==
  ASSUME UNCHANGED launchVars
  PROVE  /\ Items' = Items /\ Statement' = Statement /\ debug' = debug
         /\ LaunchOK' = LaunchOK /\ \A x : LocalId(x)' = LocalId(x)
BY DEF launchVars, Items, Statement, Rounds, LaunchOK, LocalId

LEMMA SameRooms ==
  ASSUME RoomInv, Reserved' = Reserved, debugOfs' = debugOfs, debugUsage' = debugUsage
  PROVE  RoomInv'
<1>1. PICK n \in Nat : debugUsage = DebugLen * n /\ {debugOfs[x] : x \in Reserved} = Messages(n)
  BY DEF RoomInv
<1>2. Messages(n)' = Messages(n)
  BY DEF Messages
<1>3. \A x, y \in Reserved : debugOfs[x] = debugOfs[y] => x = y
  BY DEF RoomInv
<1>4. {debugOfs[x] : x \in Reserved}' = Messages(n)' /\ debugUsage' = DebugLen * n
  BY <1>1, <1>2
<1>5. \A x, y \in Reserved' : debugOfs'[x] = debugOfs'[y] => x = y
  BY <1>3
<1> QED  BY <1>4, <1>5 DEF RoomInv

\* An item passes a barrier that is not the one behind a message, and an error
\* that is going to be reported stays.
LEMMA Passed ==
  ASSUME Inv, UNCHANGED <<launchVars, debugVars>>, NEW x \in Items, Pass(x),
         x \notin Reserved \/ stage[x] # Statement,
         ltemp' = [y \in Items |-> ltemp'[y]],
         \A y \in Reserved : stage[y] = Statement => ltemp'[y] = ltemp[y]
  PROVE  Inv'
<1>1. /\ Items' = Items /\ Statement' = Statement /\ debug' = debug
      /\ LaunchOK' = LaunchOK /\ \A y : LocalId(y)' = LocalId(y)
  BY SameLaunch
<1>2. UNCHANGED <<debugNums, debugUsage, debugOfs, debugBuf>>
  BY DEF debugVars
<1>3. /\ Statement \in Nat /\ stage \in [Items -> Nat]
  BY Stages DEF Inv, ItemsOK
<1>4. /\ stage' \in [Items -> Nat]
      /\ \A y \in Items : stage'[y] = IF y = x THEN stage[x] + 1 ELSE stage[y]
  BY <1>3 DEF Pass
<1>5. Reserved' = Reserved /\ Reserved \subseteq Items
  BY <1>1, <1>2 DEF Reserved
<1>6. \A y \in Reserved : /\ stage'[y] >= Statement
                          /\ stage'[y] > Statement <=> stage[y] > Statement
                          /\ stage'[y] = Statement => stage[y] = Statement
  BY <1>3, <1>4, <1>5 DEF Inv, ReserveInv
<1>7. Wrote' = Wrote
  BY <1>1, <1>2, <1>5, <1>6 DEF Wrote, Fits
<1>8. ItemsOK'
  BY <1>1, <1>2, <1>4 DEF Inv, ItemsOK
<1>9. ReserveInv'
  BY <1>1, <1>5, <1>6 DEF Inv, ReserveInv
<1>10. RoomInv'
  BY <1>2, <1>5, SameRooms DEF Inv
<1>11. WriteInv'
  BY <1>2, <1>7 DEF Inv, WriteInv
<1> QED  BY <1>1, <1>8, <1>9, <1>10, <1>11 DEF Inv

\* KDEBUG_INT takes the room behind the last one.
LEMMA ReserveStep ==
  ASSUME Inv, NEW x \in Items, DebugReserve(x)
  PROVE  Inv'
<1>0. UNCHANGED launchVars
  BY DEF DebugReserve
<1>1. /\ Items' = Items /\ Statement' = Statement /\ debug' = debug
      /\ LaunchOK' = LaunchOK /\ \A y : LocalId(y)' = LocalId(y)
  BY <1>0, SameLaunch
<1>2. /\ UNCHANGED <<debugNums, debugBuf, stage, ltemp>>
      /\ debugOfs[x] = -1 /\ debug /\ stage[x] = Statement
      /\ LocalId(x) = 0 /\ Significant(ltemp[x])
      /\ debugOfs' = [debugOfs EXCEPT ![x] = debugUsage]
      /\ debugUsage' = debugUsage + DebugLen
  BY DEF DebugReserve, groupVars
<1>3. PICK n \in Nat : debugUsage = DebugLen * n /\ {debugOfs[y] : y \in Reserved} = Messages(n)
  BY DEF Inv, RoomInv
<1>4. /\ debugUsage \in Nat /\ debugUsage \notin Messages(n)
      /\ debugUsage' = DebugLen * (n + 1)
      /\ Messages(n + 1) = Messages(n) \cup {debugUsage}
  BY <1>2, <1>3, NextMessage
<1>5. /\ debugOfs' \in [Items -> Int]
      /\ \A y \in Items : debugOfs'[y] = IF y = x THEN debugUsage ELSE debugOfs[y]
  BY <1>2, <1>4 DEF Inv, ItemsOK
<1>6. /\ Reserved' = Reserved \cup {x} /\ x \notin Reserved /\ Reserved \subseteq Items
      /\ \A y \in Reserved : y # x /\ debugOfs'[y] = debugOfs[y]
      /\ debugOfs'[x] = debugUsage
  BY <1>1, <1>2, <1>4, <1>5 DEF Reserved
<1>7. Statement \in Nat /\ stage \in [Items -> Nat]
  BY Stages DEF Inv, ItemsOK
<1>8. ItemsOK'
  BY <1>1, <1>2, <1>5 DEF Inv, ItemsOK
<1>9. ReserveInv'
  <2> SUFFICES ASSUME NEW y \in Reserved \cup {x}
               PROVE  /\ stage[y] >= Statement
                      /\ stage[y] = Statement => debug /\ LocalId(y) = 0 /\ Significant(ltemp[y])
    BY <1>1, <1>2, <1>6 DEF ReserveInv
  <2> QED  BY <1>2, <1>7 DEF Inv, ReserveInv
<1>10. RoomInv'
  <2>1. {debugOfs'[y] : y \in Reserved \cup {x}} = Messages(n + 1)
    BY <1>3, <1>4, <1>6
  <2>2. \A y \in Reserved : debugOfs'[y] # debugUsage
    BY <1>3, <1>4, <1>6
  <2>3. \A y, z \in Reserved \cup {x} : debugOfs'[y] = debugOfs'[z] => y = z
    BY <2>2, <1>6 DEF Inv, RoomInv
  <2>4. n + 1 \in Nat /\ Messages(n + 1)' = Messages(n + 1)
    BY DEF Messages
  <2> QED  BY <2>1, <2>3, <2>4, <1>4, <1>6 DEF RoomInv, Messages
<1>11. WriteInv'
  <2>1. Wrote' = Wrote /\ \A y \in Wrote : debugOfs'[y] = debugOfs[y]
    BY <1>1, <1>2, <1>6, <1>7 DEF Wrote, Fits
  <2> QED  BY <2>1, <1>2 DEF Inv, WriteInv
<1> QED  BY <1>1, <1>8, <1>9, <1>10, <1>11 DEF Inv

\* ... and the message is written there, if it fits.
LEMMA WriteStep ==
  ASSUME Inv, NEW x \in Items, x \in Reserved, WriteStatementError(x)
  PROVE  Inv'
<1>0. UNCHANGED launchVars
  BY DEF WriteStatementError
<1>1. /\ Items' = Items /\ Statement' = Statement /\ debug' = debug
      /\ LaunchOK' = LaunchOK /\ \A y : LocalId(y)' = LocalId(y)
  BY <1>0, SameLaunch
<1>2. /\ stage[x] = Statement /\ Pass(x)
      /\ ltemp' = [ltemp EXCEPT ![x] = Counts(x)]
      /\ UNCHANGED <<debugUsage, debugOfs>>
  BY DEF WriteStatementError
<1>3. DebugWrite(x)
  BY <1>2 DEF WriteStatementError, Inv, ReserveInv
<1>4. Statement \in Nat /\ stage \in [Items -> Nat]
  BY Stages DEF Inv, ItemsOK
<1>5. /\ stage' \in [Items -> Nat]
      /\ \A y \in Items : stage'[y] = IF y = x THEN stage[x] + 1 ELSE stage[y]
  BY <1>2, <1>4 DEF Pass
<1>6. Reserved' = Reserved /\ Reserved \subseteq Items
  BY <1>1, <1>2 DEF Reserved
<1>7. ltemp' = [y \in Items |-> ltemp'[y]] /\ \A y \in Items : y # x => ltemp'[y] = ltemp[y]
  BY <1>2 DEF Inv, ItemsOK
<1>8. ItemsOK'
  BY <1>1, <1>2, <1>5, <1>7 DEF Inv, ItemsOK
<1>9. ReserveInv'
  <2> SUFFICES ASSUME NEW y \in Reserved
               PROVE  /\ stage'[y] >= Statement
                      /\ stage'[y] = Statement => debug /\ LocalId(y) = 0 /\ Significant(ltemp'[y])
    BY <1>1, <1>6 DEF ReserveInv, Significant
  <2>1. CASE y = x
    BY <2>1, <1>2, <1>4, <1>5
  <2>2. CASE y # x
    BY <2>2, <1>5, <1>6, <1>7 DEF Inv, ReserveInv
  <2> QED  BY <2>1, <2>2
<1>10. RoomInv'
  BY <1>2, <1>6, SameRooms DEF Inv
<1>11. x \notin Wrote /\ Wrote' = IF Fits(debugOfs[x]) THEN Wrote \cup {x} ELSE Wrote
  BY <1>1, <1>2, <1>4, <1>5, <1>6 DEF Wrote, Fits
<1>12. CASE Fits(debugOfs[x])
  <2>1. debugBuf' = debugBuf \cup {debugOfs[x]} /\ debugNums' = debugNums + 1
    <3>1. debugOfs[x] \in Int /\ ~(debugOfs[x] + DebugLen >= DebugBuf)
      BY <1>12, DebugAssumption DEF Fits, Inv, ItemsOK
    <3> QED  BY <3>1, <1>3 DEF DebugWrite
  <2>2. debugOfs[x] \notin debugBuf
    BY <1>11 DEF Inv, WriteInv, RoomInv, Wrote
  <2>3. IsFiniteSet(debugBuf') /\ Cardinality(debugBuf') = Cardinality(debugBuf) + 1
    BY <2>1, <2>2, FS_AddElement DEF Inv, WriteInv
  <2>4. debugBuf' = {debugOfs'[y] : y \in Wrote'}
    BY <2>1, <1>2, <1>11, <1>12 DEF Inv, WriteInv
  <2>5. WriteInv'
    BY <2>1, <2>3, <2>4 DEF Inv, WriteInv
  <2> QED  BY <2>5, <1>1, <1>8, <1>9, <1>10 DEF Inv
<1>13. CASE ~Fits(debugOfs[x])
  <2>1. UNCHANGED <<debugBuf, debugNums>>
    BY <1>13, <1>3 DEF DebugWrite, Fits
  <2>2. WriteInv'
    BY <2>1, <1>2, <1>11, <1>13 DEF Inv, WriteInv
  <2> QED  BY <2>2, <1>1, <1>8, <1>9, <1>10 DEF Inv
<1> QED  BY <1>12, <1>13

LEMMA ItemNext ==
  ASSUME Inv, NEW x \in Items, WorkItem(x)
  PROVE  Inv'
<1>0. /\ Statement \in Nat /\ Statement >= 1 /\ AddTotal \in Nat /\ AddTotal > Statement
      /\ WriteBack = AddTotal + 1 /\ Finished = AddTotal + 2
  BY Stages DEF Inv
<1>1. stage \in [Items -> Nat] /\ ltemp = [y \in Items |-> ltemp[y]] /\ Reserved \subseteq Items
  BY DEF Inv, ItemsOK, Reserved
<1>2. ASSUME NEW v, ltemp' = [ltemp EXCEPT ![x] = v] \/ ltemp' = ltemp,
             x \notin Reserved \/ stage[x] # Statement,
             Pass(x), UNCHANGED <<launchVars, debugVars>>
      PROVE  Inv'
  <2>1. ltemp' = [y \in Items |-> ltemp'[y]] /\ \A y \in Items : y # x => ltemp'[y] = ltemp[y]
    BY <1>1, <1>2
  <2>2. \A y \in Reserved : stage[y] = Statement => ltemp'[y] = ltemp[y]
    BY <2>1, <1>1, <1>2
  <2> QED  BY <2>1, <2>2, <1>2, Passed
<1>3. CASE Evaluate(x)
  <2>1. stage[x] # Statement
    BY <1>3, <1>0 DEF Evaluate
  <2> QED  BY <2>1, <1>2, <1>3 DEF Evaluate
<1>4. CASE ReduceError(x)
  <2>1. stage[x] # Statement
    BY <1>4, <1>0 DEF ReduceError
  <2>2. \E v : ltemp' = [ltemp EXCEPT ![x] = v] \/ ltemp' = ltemp
    BY <1>4 DEF ReduceError
  <2> QED  BY <2>1, <2>2, <1>2, <1>4 DEF ReduceError
<1>5. CASE DebugReserve(x)
  BY <1>5, ReserveStep
<1>6. CASE WriteStatementError(x)
  <2>1. CASE x \in Reserved
    BY <2>1, <1>6, WriteStep
  <2>2. CASE x \notin Reserved
    <3>1. debugOfs[x] = -1
      BY <2>2 DEF Reserved
    <3>2. UNCHANGED debugVars /\ UNCHANGED launchVars /\ Pass(x)
      BY <3>1, <1>6 DEF WriteStatementError, debugVars
    <3>3. ltemp' = [ltemp EXCEPT ![x] = Counts(x)]
      BY <1>6 DEF WriteStatementError
    <3> QED  BY <3>2, <3>3, <2>2, <1>2
  <2> QED  BY <2>1, <2>2
<1>7. CASE PrefixSum(x)
  <2>1. stage[x] # Statement
    BY <1>7, <1>0 DEF PrefixSum
  <2>2. \E v : ltemp' = [ltemp EXCEPT ![x] = v] \/ ltemp' = ltemp
    BY <1>7 DEF PrefixSum
  <2> QED  BY <2>1, <2>2, <1>2, <1>7 DEF PrefixSum
<1>8. CASE AddOffset(x)
  <2>1. stage[x] # Statement /\ Pass(x) /\ UNCHANGED <<launchVars, debugVars>>
    BY <1>8, <1>0 DEF AddOffset
  \* the items of the group are all behind the report
  <2>2. \A y \in Group(x) : stage[y] # Statement
    <3> SUFFICES ASSUME NEW y \in Group(x) PROVE stage[y] # Statement
      OBVIOUS
    <3>1. y \in Items /\ stage[y] >= stage[x] /\ stage[x] = AddTotal
      BY <1>8 DEF AddOffset, Arrived, Group
    <3> QED  BY <3>1, <1>0, <1>1
  <2>3. /\ ltemp' = [y \in Items |-> ltemp'[y]]
        /\ \A y \in Items : y \notin Group(x) => ltemp'[y] = ltemp[y]
    BY <1>8, <1>1 DEF AddOffset
  <2>4. \A y \in Reserved : stage[y] = Statement => ltemp'[y] = ltemp[y]
    BY <2>2, <2>3, <1>1
  <2> QED  BY <2>1, <2>3, <2>4, Passed
<1>9. CASE WriteRow(x)
  <2>1. stage[x] # Statement
    BY <1>9, <1>0 DEF WriteRow
  <2>2. ltemp' = ltemp /\ Pass(x) /\ UNCHANGED <<launchVars, debugVars>>
    BY <1>9 DEF WriteRow
  <2> QED  BY <2>1, <2>2, <1>2
<1> QED  BY <1>3, <1>4, <1>5, <1>6, <1>7, <1>8, <1>9 DEF WorkItem

LEMMA InvNext == Inv /\ [Next]_vars => Inv'
<1> SUFFICES ASSUME Inv, [Next]_vars PROVE Inv'
  OBVIOUS
<1>1. CASE \E x \in Items : WorkItem(x)
  BY <1>1, ItemNext
<1>2. CASE PickChunk \/ NextTuple \/ EndOfChunk \/ Done \/ UNCHANGED vars
  <2>1. UNCHANGED <<launchVars, groupVars, debugVars>>
    BY <1>2 DEF PickChunk, NextTuple, EndOfChunk, Done, vars
  <2>2. /\ Items' = Items /\ Statement' = Statement /\ debug' = debug
        /\ LaunchOK' = LaunchOK /\ \A y : LocalId(y)' = LocalId(y)
    BY <2>1, SameLaunch
  <2>3. UNCHANGED <<stage, ltemp, debugNums, debugUsage, debugOfs, debugBuf>>
    BY <2>1 DEF groupVars, debugVars
  <2>4. Reserved' = Reserved /\ Wrote' = Wrote
    BY <2>2, <2>3 DEF Reserved, Wrote, Fits
  <2>5. ItemsOK' /\ ReserveInv'
    BY <2>2, <2>3, <2>4 DEF Inv, ItemsOK, ReserveInv
  <2>6. RoomInv' /\ WriteInv'
    BY <2>3, <2>4, SameRooms DEF Inv, WriteInv
  <2> QED  BY <2>2, <2>5, <2>6 DEF Inv
<1> QED  BY <1>1, <1>2 DEF Next

LEMMA InvInit == Init => Inv
<1> SUFFICES ASSUME Init PROVE Inv
  OBVIOUS
<1>1. LaunchOK
  BY DEF Init, LaunchOK
<1>2. ItemsOK /\ Reserved = {}
  BY DEF Init, ItemsOK, Reserved
<1>3. RoomInv
  <2>1. Messages(0) = {} /\ DebugLen * 0 = 0
    BY DebugAssumption DEF Messages
  <2> QED  BY <2>1, <1>2 DEF Init, RoomInv
<1>4. ReserveInv
  BY <1>2 DEF ReserveInv
<1>5. WriteInv
  BY <1>2, FS_EmptySet DEF Init, WriteInv, Wrote
<1> QED  BY <1>1, <1>2, <1>3, <1>4, <1>5 DEF Inv

\* pgstrom_dump_kernel_debug finds the messages that the groups have written, and
\* no others, by the lengths of debugNums messages from the start of the buffer,
\* for any launch, any interleaving of the groups and any size of the buffer.
THEOREM DebugFound == Spec => []DebugWalk
<1>1. Inv => DebugWalk
  <2> SUFFICES ASSUME Inv, KernelEnded
               PROVE  /\ debugBuf = Messages(debugNums)
                      /\ \A o \in debugBuf : o + DebugLen <= DebugBuf
    BY DEF DebugWalk, Messages
  <2>1. \A x \in Items : stage[x] > Statement
    BY Stages DEF Inv, KernelEnded
  <2>2. PICK n \in Nat : {debugOfs[x] : x \in Reserved} = Messages(n)
    BY DEF Inv, RoomInv
  <2>3. debugBuf = {o \in Messages(n) : Fits(o)}
    BY <2>1, <2>2 DEF Inv, WriteInv, Wrote, Reserved
  <2> DEFINE c == (DebugBuf - 1) \div DebugLen
             m == IF n <= c THEN n ELSE c
  <2>4. c \in Nat
    <3>1. DebugBuf - 1 \in Nat
      BY DebugAssumption
    <3> QED  BY <3>1, DivMod, DebugAssumption
  <2>5. \A k \in Nat : Fits(DebugLen * k) <=> k < c
    BY Quotient, DebugAssumption DEF Fits
  <2> HIDE DEF c
  <2>6. m \in Nat /\ \A k \in Int : k \in 0..(m - 1) <=> k \in 0..(n - 1) /\ k < c
    BY <2>4
  <2>7. debugBuf = Messages(m)
    <3>1. \A k \in 0..(n - 1) : Fits(DebugLen * k) <=> k \in 0..(m - 1)
      BY <2>5, <2>6
    <3>2. 0..(m - 1) \subseteq 0..(n - 1)
      BY <2>6
    <3> HIDE DEF m
    <3> QED  BY <2>3, <3>1, <3>2 DEF Messages
  <2>8. debugNums = m
    BY <2>6, <2>7, MessageCount DEF Inv, WriteInv
  <2>9. ASSUME NEW o \in debugBuf PROVE o + DebugLen <= DebugBuf
    <3>1. PICK k \in 0..(n - 1) : o = DebugLen * k
      BY <2>3 DEF Messages
    <3>2. o \in Int /\ o + DebugLen < DebugBuf
      BY <3>1, <2>3, Order, DebugAssumption DEF Fits
    <3> QED  BY <3>2, DebugAssumption
  <2> QED  BY <2>7, <2>8, <2>9
<1> QED  BY <1>1, InvInit, InvNext, PTL DEF Spec

(***************************************************************************)
(* Bits of a local id, work groups.                                        *)
(***************************************************************************)
\* What bit i says of n, for p = 2^i.
LEMMA Bits ==
  ASSUME NEW p \in Nat \ {0}, NEW n \in Nat
  PROVE  /\ 2 * p \in Nat \ {0} /\ n % p \in 0..(p - 1) /\ n % p <= n
         /\ (n \div p) % 2 = 0 => n % (2 * p) = n % p
         /\ (n \div p) % 2 # 0 => n % (2 * p) = p + (n % p) /\ n >= p + (n % p)
<1> DEFINE q == n \div p
           r == n % p
           h == q \div 2
           b == q % 2
<1>1. n = p * q + r /\ r \in 0..(p - 1) /\ q \in Nat
  BY DivMod
<1> HIDE DEF q, r
<1>2. q = 2 * h + b /\ b \in {0, 1} /\ h \in Nat
  BY <1>1, DivMod
<1> HIDE DEF h, b
<1>3. p * q \in Nat /\ p * h \in Nat
  BY <1>1, <1>2
<1>4. p * q = (2 * p) * h + p * b
  BY <1>2
<1>5. n = (2 * p) * h + (p * b + r)
  BY <1>1, <1>2, <1>3, <1>4
<1>6. p * b + r \in 0..(2 * p - 1) /\ 2 * p \in Nat \ {0}
  <2>1. CASE b = 0
    BY <2>1, <1>1
  <2>2. CASE b = 1
    BY <2>2, <1>1
  <2> QED  BY <2>1, <2>2, <1>2
<1>7. n % (2 * p) = p * b + r
  BY <1>2, <1>5, <1>6, DivModUnique
<1>8. (2 * p) * h \in Nat
  BY <1>2, <1>6
<1>9. CASE b = 0
  BY <1>9, <1>1, <1>3, <1>6, <1>7 DEF b, q, r
<1>10. CASE b = 1
  <2>1. p * b = p
    BY <1>10
  <2> QED  BY <2>1, <1>10, <1>1, <1>5, <1>6, <1>7, <1>8 DEF b, q, r
<1> QED  BY <1>9, <1>10, <1>2

\* A multiple of 2 * p is one of p, and p further on is a multiple of p only.
LEMMA Multiple ==
  ASSUME NEW p \in Nat \ {0}, NEW n \in Nat, n % (2 * p) = 0
  PROVE  n % p = 0 /\ (n + p) % p = 0 /\ (n + p) % (2 * p) # 0
<1> DEFINE h == n \div (2 * p)
<1>1. 2 * p \in Nat \ {0}
  OBVIOUS
<1>2. n = (2 * p) * h + 0 /\ h \in Nat
  <2>1. n = (2 * p) * h + (n % (2 * p)) /\ h \in Nat
    BY <1>1, DivMod
  <2> QED  BY <2>1
<1> HIDE DEF h
<1>3. n = p * (2 * h) + 0 /\ 2 * h \in Nat
  BY <1>2
<1>4. n + p = p * (2 * h + 1) + 0 /\ 2 * h + 1 \in Nat
  <2>1. p * (2 * h + 1) = p * (2 * h) + p
    BY <1>3, Order
  <2>2. p * (2 * h) = n
    BY <1>3
  <2> DEFINE a == p * (2 * h)
             b == p * (2 * h + 1)
  <2>3. b = a + p /\ a = n
    BY <2>1, <2>2
  <2> HIDE DEF a, b
  <2>4. n + p = b + 0
    BY <2>3
  <2>5. 2 * h + 1 \in Nat
    BY <1>2
  <2> QED  BY <2>4, <2>5 DEF b
<1>5. n + p = (2 * p) * h + p /\ p \in 0..(2 * p - 1) /\ p # 0
  BY <1>2
<1>6. 0 \in 0..(p - 1)
  OBVIOUS
<1>7. n % p = 0
  <2>1. (p * (2 * h) + 0) % p = 0
    BY <1>3, <1>6, DivModUnique
  <2> QED  BY <2>1, <1>3
<1>8. (n + p) % p = 0
  <2>1. (p * (2 * h + 1) + 0) % p = 0
    BY <1>4, <1>6, DivModUnique
  <2> QED  BY <2>1, <1>4
<1>9. (n + p) % (2 * p) = p
  BY <1>1, <1>2, <1>5, DivModUnique
<1> QED  BY <1>5, <1>7, <1>8, <1>9

\* The item before the block of n: bit i is zero, the lower ones are one.
LEMMA BeforeBlock ==
  ASSUME NEW p \in Nat \ {0}, NEW n \in Nat, (n \div p) % 2 # 0, NEW m, m = n - (n % p) - 1
  PROVE  m \in Nat /\ m < n /\ m % p = p - 1 /\ m % (2 * p) = m % p
<1> DEFINE q == n \div p
           r == n % p
           h == q \div 2
<1>1. n = p * q + r /\ r \in 0..(p - 1) /\ q \in Nat
  BY DivMod
<1>2. q % 2 # 0 /\ m = n - r - 1
  OBVIOUS
<1> HIDE DEF q, r
<1>3. q = 2 * h + 1 /\ h \in Nat
  <2>1. q = 2 * h + (q % 2) /\ q % 2 \in 0..1 /\ h \in Nat
    BY <1>1, DivMod
  <2> QED  BY <2>1, <1>2
<1> HIDE DEF h
<1>4. m = p * q - 1 /\ p * q \in Nat
  BY <1>1, <1>2
<1>5. p * q = p * (2 * h) + p /\ p * q = (2 * p) * h + p /\ 2 * h \in Nat
  <2>1. p * (2 * h + 1) = p * (2 * h) + p /\ 2 * h \in Nat
    BY <1>3, Order
  <2>2. p * (2 * h) = (2 * p) * h
    BY <1>3
  <2> QED  BY <2>1, <2>2, <1>3
<1>6. p * (2 * h) \in Nat /\ (2 * p) * h \in Nat /\ 2 * p \in Nat \ {0}
  BY <1>3
<1>7. m = p * (2 * h) + (p - 1) /\ m = (2 * p) * h + (p - 1)
  <2> DEFINE a == p * (2 * h)
             b == (2 * p) * h
             c == p * q
  <2>1. c = a + p /\ c = b + p /\ m = c - 1 /\ a \in Nat /\ b \in Nat
    BY <1>4, <1>5, <1>6
  <2> HIDE DEF a, b, c
  <2>2. m = a + (p - 1) /\ m = b + (p - 1)
    BY <2>1
  <2> QED  BY <2>2 DEF a, b
<1>8. p - 1 \in 0..(p - 1) /\ p - 1 \in 0..(2 * p - 1)
  OBVIOUS
<1>9. m % p = p - 1
  <2>1. (p * (2 * h) + (p - 1)) % p = p - 1
    BY <1>5, <1>8, DivModUnique
  <2> QED  BY <2>1, <1>7
<1>10. m % (2 * p) = p - 1
  <2>1. ((2 * p) * h + (p - 1)) % (2 * p) = p - 1
    BY <1>3, <1>6, <1>8, DivModUnique
  <2> QED  BY <2>1, <1>7
<1> QED  BY <1>1, <1>4, <1>6, <1>7, <1>9, <1>10

LEMMA GroupShape ==
  ASSUME LaunchOK, NEW x \in Items
  PROVE  /\ x \in Nat /\ First(x) \in Nat /\ LocalId(x) \in 0..(lsize - 1)
         /\ x = First(x) + LocalId(x)
         /\ Group(x) = First(x)..(First(x) + lsize - 1) /\ Group(x) \subseteq Items
         /\ x \in Group(x) /\ First(x) \in Group(x)
         /\ First(x) = lsize * (x \div lsize)
<1> DEFINE q == x \div lsize
<1>1. /\ ngroups \in Nat \ {0} /\ lsize \in Nat \ {0} /\ x \in Nat
      /\ ngroups * lsize \in Nat /\ x < ngroups * lsize /\ ngroups * lsize = lsize * ngroups
  BY LaunchSize DEF Items
<1>2. x = lsize * q + LocalId(x) /\ LocalId(x) \in 0..(lsize - 1) /\ q \in Nat
  BY <1>1, DivMod DEF LocalId
<1> HIDE DEF q
<1>3. lsize * q \in Nat /\ First(x) = lsize * q
  BY <1>1, <1>2 DEF First
<1>4. lsize * q + lsize <= lsize * ngroups
  <2>1. lsize * q < lsize * ngroups
    BY <1>1, <1>2, <1>3
  <2>2. ~(ngroups <= q)
    <3>1. ngroups <= q => lsize * ngroups <= lsize * q
      BY <1>1, <1>2, Order
    <3> QED  BY <2>1, <3>1, <1>1, <1>3
  <2>3. q + 1 <= ngroups /\ q + 1 \in Int
    BY <2>2, <1>1, <1>2
  <2>4. lsize * (q + 1) <= lsize * ngroups
    BY <2>3, <1>1, Order
  <2>5. lsize * (q + 1) = lsize * q + lsize
    BY <1>1, <1>2, Order
  <2> QED  BY <2>4, <2>5
<1>5. First(x)..(First(x) + lsize - 1) \subseteq Items
  BY <1>1, <1>3, <1>4 DEF Items
<1>6. ASSUME NEW y \in Items
      PROVE  y \div lsize = q <=> y \in First(x)..(First(x) + lsize - 1)
  <2>1. y \in Nat
    BY DEF Items
  <2>2. y = lsize * (y \div lsize) + (y % lsize) /\ y % lsize \in 0..(lsize - 1)
    BY <2>1, <1>1, DivMod
  <2>3. ASSUME y \div lsize = q PROVE y \in First(x)..(First(x) + lsize - 1)
    BY <2>2, <2>3, <1>1, <1>3
  <2>4. ASSUME y \in First(x)..(First(x) + lsize - 1) PROVE y \div lsize = q
    <3>1. y - lsize * q \in 0..(lsize - 1) /\ y = lsize * q + (y - lsize * q)
      BY <2>1, <2>4, <1>1, <1>3
    <3> QED  BY <3>1, <1>1, <1>2, DivModUnique
  <2> QED  BY <2>3, <2>4
<1>7. Group(x) = First(x)..(First(x) + lsize - 1)
  BY <1>5, <1>6 DEF Group, q
<1> QED  BY <1>1, <1>2, <1>3, <1>5, <1>7 DEF q

LEMMA SameGroup ==
  ASSUME LaunchOK, NEW x \in Items, NEW y \in Group(x)
  PROVE  /\ y \in Items /\ Group(y) = Group(x) /\ First(y) = First(x)
         /\ y = First(x) + LocalId(y) /\ LocalId(y) \in 0..(lsize - 1)
         /\ x \in Group(y)
<1>1. y \in Items /\ y \div lsize = x \div lsize
  BY DEF Group
<1>2. Group(y) = Group(x)
  BY <1>1 DEF Group
<1>3. First(y) = lsize * (y \div lsize) /\ First(x) = lsize * (x \div lsize)
  BY <1>1, GroupShape
<1>4. x \in Group(x) /\ y = First(y) + LocalId(y) /\ LocalId(y) \in 0..(lsize - 1)
  BY <1>1, GroupShape
<1> QED  BY <1>1, <1>2, <1>3, <1>4

LEMMA GroupStart ==
  ASSUME LaunchOK, NEW x \in Items
  PROVE  LocalId(First(x)) = 0 /\ (LocalId(x) = 0 <=> x = First(x))
<1>1. First(x) \in Group(x) /\ x = First(x) + LocalId(x) /\ First(x) \in Nat
      /\ LocalId(x) \in Nat
  BY GroupShape
<1>2. First(x) = First(x) + LocalId(First(x)) /\ LocalId(First(x)) \in Nat
  BY <1>1, SameGroup
<1> QED  BY <1>1, <1>2

(***************************************************************************)
(* The error that an evaluation leaves.                                    *)
(***************************************************************************)
\* The recursion of LeftError.
LEMMA LeftUnfold ==
  ASSUME NEW codes \in Seq(Nat)
  PROVE  \E g \in [0..Len(codes) -> Nat] :
           /\ g[0] = Success /\ LeftError(codes) = g[Len(codes)]
           /\ \A k \in 1..Len(codes) : g[k] = SetError(g[k - 1], codes[k])
<1> DEFINE Left(n, g) == /\ g \in [0..n -> Nat] /\ g[0] = Success
                         /\ \A k \in 1..n : g[k] = SetError(g[k - 1], codes[k])
           T == {n \in Nat : n <= Len(codes) => \E g : Left(n, g)}
<1>1. Len(codes) \in Nat /\ \A k \in 1..Len(codes) : codes[k] \in Nat
  OBVIOUS
<1>2. \A a, b \in Nat : SetError(a, b) \in Nat
  BY DEF SetError
<1>3. 0 \in T
  <2>1. Left(0, [k \in 0..0 |-> Success])
    BY DEF Success
  <2> QED  BY <2>1
<1> HIDE DEF Left
<1>4. ASSUME NEW n \in T PROVE n + 1 \in T
  <2> SUFFICES ASSUME n + 1 <= Len(codes) PROVE \E g : Left(n + 1, g)
    OBVIOUS
  <2>1. n \in Nat /\ n + 1 \in 1..Len(codes) /\ n \in 0..n
    BY <1>1
  <2>2. PICK g : Left(n, g)
    BY <2>1, <1>1
  <2> DEFINE c == SetError(g[n], codes[n + 1])
             h == [k \in 0..(n + 1) |-> IF k = n + 1 THEN c ELSE g[k]]
  <2>3. c \in Nat
    BY <2>1, <2>2, <1>1, <1>2 DEF Left
  <2> HIDE DEF c
  <2>4. h \in [0..(n + 1) -> Nat] /\ h[0] = Success
    BY <2>1, <2>2, <2>3 DEF Left
  <2>5. ASSUME NEW k \in 1..(n + 1) PROVE h[k] = SetError(h[k - 1], codes[k])
    <3>1. CASE k = n + 1
      <4>1. h[k] = c /\ h[k - 1] = g[n]
        BY <3>1, <2>1
      <4> QED  BY <4>1, <3>1 DEF c
    <3>2. CASE k # n + 1
      <4>1. k \in 1..n /\ k - 1 # n + 1 /\ k - 1 \in 0..(n + 1) /\ k \in 0..(n + 1)
        BY <3>2, <2>1
      <4>2. h[k] = g[k] /\ h[k - 1] = g[k - 1]
        BY <4>1, <3>2
      <4> QED  BY <4>1, <4>2, <2>2 DEF Left
    <3> QED  BY <3>1, <3>2
  <2>6. Left(n + 1, h)
    BY <2>4, <2>5 DEF Left
  <2> QED  BY <2>6
<1>5. Len(codes) \in T
  <2>1. T \in SUBSET Nat
    OBVIOUS
  <2> HIDE DEF T
  <2> QED  BY <2>1, <1>1, <1>3, <1>4, SetInduction
<1>6. PICK g : Left(Len(codes), g)
  BY <1>1, <1>5
<1>7. g = [k \in 0..Len(codes) |->
             IF k = 0 THEN Success ELSE SetError(g[k - 1], codes[k])]
  <2>1. \A k \in 0..Len(codes) :
          g[k] = IF k = 0 THEN Success ELSE SetError(g[k - 1], codes[k])
    BY <1>1, <1>6 DEF Left
  <2> QED  BY <2>1, <1>6 DEF Left
<1>8. \E e : /\ e = [k \in 0..Len(codes) |->
                       IF k = 0 THEN Success ELSE SetError(e[k - 1], codes[k])]
             /\ LeftError(codes) = e[Len(codes)]
  BY <1>7, Zenon DEF LeftError
<1>9. PICK e : /\ e = [k \in 0..Len(codes) |->
                         IF k = 0 THEN Success ELSE SetError(e[k - 1], codes[k])]
               /\ LeftError(codes) = e[Len(codes)]
  BY <1>8
<1>10. \A k \in 0..Len(codes) :
         e[k] = IF k = 0 THEN Success ELSE SetError(e[k - 1], codes[k])
  BY <1>9
<1>11. e[0] = Success /\ \A k \in 1..Len(codes) : e[k] = SetError(e[k - 1], codes[k])
  BY <1>1, <1>10
<1> DEFINE S == {n \in Nat : n <= Len(codes) => e[n] \in Nat}
<1>12. 0 \in S
  BY <1>11 DEF Success
<1>13. ASSUME NEW n \in S PROVE n + 1 \in S
  <2> SUFFICES ASSUME n + 1 <= Len(codes) PROVE e[n + 1] \in Nat
    OBVIOUS
  <2>1. n + 1 \in 1..Len(codes) /\ (n + 1) - 1 = n /\ e[n] \in Nat
    BY <1>1
  <2>2. e[n + 1] = SetError(e[n], codes[n + 1])
    BY <2>1, <1>11
  <2> QED  BY <2>1, <2>2, <1>1, <1>2
<1>14. \A n \in 0..Len(codes) : e[n] \in Nat
  <2>1. S \in SUBSET Nat
    OBVIOUS
  <2>2. S = Nat
    <3> HIDE DEF S
    <3> QED  BY <2>1, <1>12, <1>13, SetInduction
  <2> QED  BY <2>2, <1>1
<1>15. e \in [0..Len(codes) -> Nat]
  BY <1>9, <1>14
<1> QED  BY <1>9, <1>11, <1>15

\* An error of the statement stays, the first one; otherwise the largest code.
LEMMA LeftIs ==
  ASSUME NEW codes \in Evaluations, NEW c, c = LeftError(codes)
  PROVE  /\ c \in Nat
         /\ IF \E j \in 1..Len(codes) : Significant(codes[j])
            THEN Significant(c) /\ \E j \in 1..Len(codes) : codes[j] = c
            ELSE /\ c \in 0..2 /\ \A j \in 1..Len(codes) : codes[j] <= c
                 /\ \E j \in 1..Len(codes) : codes[j] = c
<1> DEFINE L == Len(codes)
<1>1. codes \in Seq(Nat) /\ L \in Nat /\ L >= 1 /\ \A j \in 1..L : codes[j] \in Nat
  BY EvaluationsAssumption
<1>2. \A j \in 1..L : codes[j] \in 0..2 \/ Significant(codes[j])
  BY EvaluationsAssumption DEF Success, RowFiltered, RowReCheck
<1>3. PICK g \in [0..L -> Nat] :
        /\ g[0] = Success /\ c = g[L]
        /\ \A k \in 1..L : g[k] = SetError(g[k - 1], codes[k])
  BY <1>1, LeftUnfold
<1> DEFINE Sig(n) == \E j \in 1..n : Significant(codes[j])
           Some(n) == \E j \in 1..n : codes[j] = g[n]
           Max2(n) == g[n] \in 0..2 /\ \A j \in 1..n : codes[j] <= g[n]
           OK(n) == IF Sig(n) THEN Significant(g[n]) /\ Some(n)
                    ELSE Max2(n) /\ ((n = 0 /\ g[n] = 0) \/ Some(n))
           T == {n \in Nat : n <= L => OK(n)}
<1>4. 0 \in T
  BY <1>3 DEF Success
<1>5. ASSUME NEW n \in T PROVE n + 1 \in T
  <2> SUFFICES ASSUME n + 1 <= L PROVE OK(n + 1)
    OBVIOUS
  <2>1. /\ n \in Nat /\ n + 1 \in 1..L /\ (n + 1) - 1 = n /\ n + 1 \in 0..L /\ n \in 0..L
        /\ 1..(n + 1) = 1..n \cup {n + 1} /\ n + 1 # 0
    BY <1>1
  <2>2. OK(n) /\ \A j \in 1..n : codes[j] \in Nat
    BY <1>1, <2>1
  <2>3. g[n + 1] = SetError(g[n], codes[n + 1]) /\ g[n] \in Nat /\ codes[n + 1] \in Nat
    BY <2>1, <1>1, <1>3
  <2>4. codes[n + 1] \in 0..2 \/ Significant(codes[n + 1])
    BY <2>1, <1>2
  <2>5. CASE Sig(n)
    <3>1. g[n + 1] = g[n]
      BY <2>2, <2>3, <2>4, <2>5 DEF SetError, Significant
    <3>2. Sig(n + 1) /\ Significant(g[n + 1]) /\ Some(n + 1)
      BY <3>1, <2>1, <2>2, <2>5
    <3> QED  BY <3>2
  <2>6. CASE ~Sig(n) /\ Significant(codes[n + 1])
    <3>1. g[n] \in 0..2 /\ ~Significant(g[n])
      BY <2>2, <2>6 DEF Significant
    <3>2. g[n + 1] = codes[n + 1]
      BY <3>1, <2>3, <2>6 DEF SetError
    <3>3. Sig(n + 1) /\ Significant(g[n + 1]) /\ Some(n + 1)
      BY <3>2, <2>1, <2>6
    <3> QED  BY <3>3
  <2>7. CASE ~Sig(n) /\ ~Significant(codes[n + 1])
    <3>1. ~Sig(n + 1)
      BY <2>1, <2>7
    <3>2. Max2(n) /\ ((n = 0 /\ g[n] = 0) \/ Some(n))
      BY <2>2, <2>7
    <3>3. g[n + 1] = IF codes[n + 1] > g[n] THEN codes[n + 1] ELSE g[n]
      BY <2>3, <2>7 DEF SetError
    <3>4. Max2(n + 1)
      BY <3>2, <3>3, <2>1, <2>2, <2>3, <2>4, <2>7
    <3>5. Some(n + 1)
      <4>1. CASE codes[n + 1] > g[n]
        BY <4>1, <3>3, <2>1
      <4>2. CASE ~(codes[n + 1] > g[n]) /\ n = 0
        BY <4>2, <3>2, <3>3, <2>1, <2>3
      <4>3. CASE ~(codes[n + 1] > g[n]) /\ n # 0
        BY <4>3, <3>2, <3>3, <2>1
      <4> QED  BY <4>1, <4>2, <4>3
    <3> QED  BY <3>1, <3>4, <3>5
  <2> QED  BY <2>5, <2>6, <2>7
<1>6. L \in T
  <2>1. T \in SUBSET Nat
    OBVIOUS
  <2> HIDE DEF T
  <2> QED  BY <2>1, <1>1, <1>4, <1>5, SetInduction
<1>7. OK(L) /\ L # 0 /\ g[L] \in Nat
  BY <1>1, <1>6
<1> QED  BY <1>3, <1>7

(***************************************************************************)
(* The invariant of the results.                                           *)
(***************************************************************************)
ChunkOK ==
  /\ nrooms \in Nat /\ nrooms <= ngroups * lsize
  /\ raises \in [Rows -> Evaluations]

ValuesOK ==
  /\ lerror \in [Items -> Int] /\ ltemp \in [Items -> Int]
  /\ errcode \in Int /\ nitems \in Nat /\ results \in [Rows -> Int]

\* Nobody is more than one barrier ahead of another item of the group.
BarrierInv ==
  \A x \in Items : /\ stage[x] <= Finished
                   /\ \A y \in Group(x) : stage[x] <= stage[y] + 1

EvaluatedInv == \A x \in Items : stage[x] >= 1 => lerror[x] = EvalError(x)

\* The items whose errors are at x after k rounds of the reduction
Span(x, k) == {y \in Group(x) : x <= y /\ y < x + 2^k}
ErrorsOf(S) == {c \in {EvalError(y) : y \in S} : Significant(c)}
Stands(c, errors) == IF errors = {} THEN ~Significant(c) ELSE c \in errors

\* An item holds an error of the last round that it took part in, as long as its
\* partner may read it.
ReduceInv ==
  \A x \in Items : stage[x] \in 1..Statement =>
    \A k \in (stage[x] - 2)..(stage[x] - 1) :
      k >= 0 /\ LocalId(x) % 2^k = 0 /\ (k = stage[x] - 1 \/ LocalId(x) % 2^(k + 1) # 0)
        => Stands(ltemp[x], ErrorsOf(Span(x, k)))

ReportInv ==
  /\ errcode = Success \/ errcode \in ErrorsOf(Items)
  /\ \A x \in Items : LocalId(x) = 0 /\ stage[x] > Statement /\ ErrorsOf(Group(x)) # {}
                        => errcode # Success

Counted == {x \in Items : x < nrooms /\ EvalError(x) \in {Success, RowReCheck}}

\* The rows that x has summed up after k rounds of the prefix sum
Segment(x, k) ==
  {y \in Counted : y \in Group(x) /\ x - (LocalId(x) % 2^k) <= y /\ y <= x}
SumRounds(s) == (IF s <= AddTotal THEN s ELSE AddTotal) - Statement - 1

SumInv ==
  \A x \in Items : stage[x] > Statement /\ stage[First(x)] <= AddTotal
    => ltemp[x] = Cardinality(Segment(x, SumRounds(stage[x])))

\* The rows that have a place in the result buffer: all places are taken, by
\* one row each.
Placed == {y \in Counted : stage[First(y)] > AddTotal}

PlaceInv ==
  /\ nitems = Cardinality(Placed)
  /\ \A y \in Placed : ltemp[y] \in 1..nitems
  /\ \A y, z \in Placed : ltemp[y] = ltemp[z] => y = z

Mark(y) == IF EvalError(y) = Success THEN y + 1 ELSE -(y + 1)

StoreInv ==
  \A y \in Counted : stage[y] > WriteBack => results[ltemp[y] - 1] = Mark(y)

HostInv ==
  /\ IF host = "wait" THEN returned = << >> ELSE KernelEnded
  /\ returned \in Seq(Int) /\ Len(returned) <= nitems
  /\ \A k \in 1..Len(returned) : results[k - 1] > 0 /\ returned[k] = results[k - 1] - 1
  /\ host = "end" => Len(returned) = nitems

ResultInv ==
  /\ LaunchOK /\ stage \in [Items -> Nat] /\ ChunkOK /\ ValuesOK
  /\ BarrierInv /\ EvaluatedInv /\ ReduceInv /\ ReportInv
  /\ SumInv /\ PlaceInv /\ StoreInv /\ HostInv

(***************************************************************************)
(* Rounds of the reduction and of the prefix sum.                          *)
(***************************************************************************)
LEMMA LastRounds ==
  ASSUME LaunchOK
  PROVE  /\ lsize \in Nat \ {0}
         /\ Statement - 1 \in 0..(lsize - 1) /\ 2^(Statement - 1) > lsize - 1
         /\ AddTotal - Statement - 1 \in 0..lsize /\ 2^(AddTotal - Statement - 1) > lsize
         /\ Statement \in Nat /\ AddTotal \in Nat
<1>1. lsize \in Nat \ {0}
  BY LaunchSize
<1> DEFINE m == Rounds(lsize - 1)
           n == Rounds(lsize)
<1>2. m \in 0..(lsize - 1) /\ 2^m > lsize - 1 /\ n \in 0..lsize /\ 2^n > lsize
  BY RoundsEnd
<1>3. Statement = m + 1 /\ AddTotal = Statement + n + 1
  BY DEF Statement, AddTotal
<1> HIDE DEF m, n
<1>4. Statement - 1 = m /\ AddTotal - Statement - 1 = n /\ Statement \in Nat /\ AddTotal \in Nat
  BY <1>1, <1>2, <1>3
<1> QED  BY <1>1, <1>2, <1>4

LEMMA EvalType ==
  ASSUME LaunchOK, ChunkOK, NEW x \in Items
  PROVE  EvalError(x) \in Nat
<1>1. CASE x < nrooms
  <2>1. x \in Rows
    BY <1>1 DEF Items, Rows, ChunkOK
  <2>2. raises[x] \in Evaluations
    BY <2>1 DEF ChunkOK
  <2>3. LeftError(raises[x]) \in Nat
    BY <2>2, LeftIs
  <2> QED  BY <2>3, <1>1 DEF EvalError
<1>2. CASE ~(x < nrooms)
  BY <1>2 DEF EvalError, RowFiltered
<1> QED  BY <1>1, <1>2

LEMMA SpanFirst ==
  ASSUME LaunchOK, NEW x \in Items
  PROVE  Span(x, 0) = {x}
<1>1. x \in Group(x) /\ x \in Nat /\ \A y \in Group(x) : y \in Nat
  <2>1. x \in Group(x) /\ x \in Nat /\ Group(x) \subseteq Items
    BY GroupShape
  <2> QED  BY <2>1 DEF Items
<1> QED  BY <1>1, PowersOfTwo DEF Span

LEMMA SpanWhole ==
  ASSUME LaunchOK, NEW x \in Items, LocalId(x) = 0
  PROVE  Span(x, Statement - 1) = Group(x)
<1>1. /\ Statement - 1 \in 0..(lsize - 1) /\ 2^(Statement - 1) > lsize - 1 /\ lsize \in Nat \ {0}
  BY LastRounds
<1>2. 2^(Statement - 1) \in Nat
  <2>1. Statement - 1 \in 0..lsize
    BY <1>1
  <2> QED  BY <2>1, Powers
<1>3. x = First(x) /\ First(x) \in Nat /\ Group(x) = First(x)..(First(x) + lsize - 1)
  BY GroupShape, GroupStart
<1> DEFINE p == 2^(Statement - 1)
<1>4. p \in Nat /\ p > lsize - 1
  BY <1>1, <1>2
<1> HIDE DEF p
<1>5. \A y \in Group(x) : x <= y /\ y < x + p
  BY <1>1, <1>3, <1>4
<1> QED  BY <1>5 DEF Span, p

\* The partner in a round adds the items behind the ones x has.
LEMMA SpanStep ==
  ASSUME LaunchOK, NEW x \in Items, NEW k \in 0..(lsize - 1), LocalId(x) % 2^(k + 1) = 0
  PROVE  /\ LocalId(x) % 2^k = 0
         /\ LocalId(x) + 2^k < lsize =>
              /\ x + 2^k \in Group(x) /\ x + 2^k # x
              /\ LocalId(x + 2^k) % 2^k = 0 /\ LocalId(x + 2^k) % 2^(k + 1) # 0
              /\ Span(x, k + 1) = Span(x, k) \cup Span(x + 2^k, k)
         /\ ~(LocalId(x) + 2^k < lsize) => Span(x, k + 1) = Span(x, k)
<1> DEFINE p == 2^k
           z == x + p
           n == LocalId(x)
<1>1. p \in Nat \ {0} /\ 2^(k + 1) = 2 * p /\ lsize \in Nat \ {0}
  <2>1. lsize \in Nat \ {0} /\ k \in 0..lsize
    BY LaunchSize
  <2> QED  BY <2>1, Powers
<1> HIDE DEF p
<1>2. /\ n \in Nat /\ n \in 0..(lsize - 1) /\ x = First(x) + n /\ First(x) \in Nat /\ x \in Nat
      /\ Group(x) = First(x)..(First(x) + lsize - 1)
  BY GroupShape, LaunchSize
<1>3. n % (2 * p) = 0
  BY <1>1
<1> HIDE DEF n
<1>4. n % p = 0 /\ (n + p) % p = 0 /\ (n + p) % (2 * p) # 0
  BY <1>1, <1>2, <1>3, Multiple
<1>5. ASSUME n + p < lsize
      PROVE  /\ z \in Group(x) /\ z # x
             /\ LocalId(z) % p = 0 /\ LocalId(z) % (2 * p) # 0
             /\ Span(x, k + 1) = Span(x, k) \cup Span(z, k)
  <2>1. z \in Group(x) /\ z # x /\ z \in Nat
    BY <1>1, <1>2, <1>5
  <2>2. LocalId(z) = n + p
    <3>1. z = First(x) + LocalId(z) /\ LocalId(z) \in 0..(lsize - 1)
      BY <2>1, SameGroup
    <3> QED  BY <3>1, <1>1, <1>2
  <2>3. Group(z) = Group(x)
    BY <2>1, SameGroup
  <2>4. \A y \in Group(x) : y \in Nat
    BY <1>1, <1>2
  <2>5. Span(x, k + 1) = {y \in Group(x) : x <= y /\ y < x + 2 * p}
    BY <1>1 DEF Span
  <2>6. Span(x, k) = {y \in Group(x) : x <= y /\ y < x + p}
    BY DEF Span, p
  <2>7. Span(z, k) = {y \in Group(x) : z <= y /\ y < z + p}
    BY <2>3 DEF Span, p
  <2>8. \A y \in Nat : x <= y /\ y < x + 2 * p <=> (x <= y /\ y < x + p) \/ (z <= y /\ y < z + p)
    BY <1>1, <1>2
  <2> HIDE DEF z
  <2> QED  BY <2>1, <2>2, <2>4, <2>5, <2>6, <2>7, <2>8, <1>4
<1>6. ASSUME ~(n + p < lsize)
      PROVE  Span(x, k + 1) = Span(x, k)
  <2>1. \A y \in Group(x) : y < x + p /\ y < x + 2 * p
    BY <1>1, <1>2, <1>6
  <2>2. Span(x, k + 1) = {y \in Group(x) : x <= y /\ y < x + 2 * p}
    BY <1>1 DEF Span
  <2>3. Span(x, k) = {y \in Group(x) : x <= y /\ y < x + p}
    BY DEF Span, p
  <2> QED  BY <2>1, <2>2, <2>3
<1> QED  BY <1>1, <1>4, <1>5, <1>6 DEF n, p

\* Whose error is taken over
LEMMA StandsBoth ==
  ASSUME NEW A, NEW B, NEW a, NEW b, \A c \in A \cup B : Significant(c), Stands(a, A), Stands(b, B)
  PROVE  Stands(IF ~Significant(a) /\ Significant(b) THEN b ELSE a, A \cup B)
<1>1. CASE ~Significant(a)
  <2>1. A = {}
    BY <1>1 DEF Stands
  <2> QED  BY <2>1, <1>1 DEF Stands
<1>2. CASE Significant(a)
  <2>1. a \in A
    BY <1>2 DEF Stands
  <2> QED  BY <2>1, <1>2 DEF Stands
<1> QED  BY <1>1, <1>2

LEMMA ErrorsUnion ==
  ASSUME NEW S, NEW T
  PROVE  /\ ErrorsOf(S \cup T) = ErrorsOf(S) \cup ErrorsOf(T)
         /\ \A c \in ErrorsOf(S) : Significant(c)
         /\ S \subseteq T => ErrorsOf(S) \subseteq ErrorsOf(T)
BY DEF ErrorsOf

LEMMA SegmentFirst ==
  ASSUME LaunchOK, NEW x \in Items
  PROVE  Segment(x, 0) = Counted \cap {x}
<1>1. x \in Group(x) /\ x \in Nat /\ LocalId(x) \in Nat
  BY GroupShape
<1>2. LocalId(x) % 2^0 = 0
  BY <1>1, PowersOfTwo
<1>3. \A y \in Counted : y \in Nat
  BY DEF Counted, Items
<1> QED  BY <1>1, <1>2, <1>3 DEF Segment

\* The last round has everything up to x.
LEMMA SegmentWhole ==
  ASSUME LaunchOK, NEW x \in Items
  PROVE  Segment(x, AddTotal - Statement - 1) = {y \in Counted : y \in Group(x) /\ y <= x}
<1> DEFINE k == AddTotal - Statement - 1
           p == 2^k
           n == LocalId(x)
<1>1. k \in 0..lsize /\ p > lsize /\ lsize \in Nat \ {0}
  BY LastRounds
<1> HIDE DEF k
<1>2. p \in Nat \ {0}
  BY <1>1, Powers
<1> HIDE DEF p
<1>3. /\ n \in 0..(lsize - 1) /\ x = First(x) + n /\ First(x) \in Nat /\ x \in Nat
      /\ Group(x) = First(x)..(First(x) + lsize - 1)
  BY GroupShape
<1> HIDE DEF n
<1>4. n % p = n
  <2>1. n \in 0..(p - 1) /\ p * 0 + n = n
    BY <1>1, <1>2, <1>3
  <2>2. (p * 0 + n) % p = n
    BY <2>1, <1>2, DivModUnique
  <2> QED  BY <2>1, <2>2
<1>5. \A y \in Group(x) : x - n <= y
  BY <1>1, <1>3
<1>6. Segment(x, k) = {y \in Counted : y \in Group(x) /\ x - n <= y /\ y <= x}
  BY <1>4 DEF Segment, n, p
<1> QED  BY <1>5, <1>6 DEF k

\* A round adds the segment that ends before the block of x, if bit k is set.
LEMMA SegmentStep ==
  ASSUME LaunchOK, NEW x \in Items, NEW k \in 0..lsize,
         NEW src, src = Item(x, LocalId(x) - (LocalId(x) % 2^k) - 1)
  PROVE  IF (LocalId(x) \div 2^k) % 2 # 0
         THEN /\ src \in Group(x) /\ src # x
              /\ Segment(x, k + 1) = Segment(x, k) \cup Segment(src, k)
              /\ Segment(x, k) \cap Segment(src, k) = {}
              /\ Segment(src, k + 1) = Segment(src, k)
         ELSE Segment(x, k + 1) = Segment(x, k)
<1> DEFINE p == 2^k
           n == LocalId(x)
           m == n - (n % p) - 1
<1>1. p \in Nat \ {0} /\ 2^(k + 1) = 2 * p /\ lsize \in Nat \ {0}
  BY Powers, LaunchSize
<1> HIDE DEF p
<1>2. /\ n \in Nat /\ n \in 0..(lsize - 1) /\ x = First(x) + n /\ First(x) \in Nat /\ x \in Nat
      /\ Group(x) = First(x)..(First(x) + lsize - 1)
  BY GroupShape, LaunchSize
<1>3. src = First(x) + m
  BY DEF Item, p
<1> HIDE DEF n
<1>4. /\ n % p \in 0..(p - 1) /\ n % p <= n
      /\ (n \div p) % 2 = 0 => n % (2 * p) = n % p
      /\ (n \div p) % 2 # 0 => n % (2 * p) = p + (n % p) /\ n >= p + (n % p)
  BY <1>1, <1>2, Bits
<1>5. Segment(x, k) = {y \in Counted : y \in Group(x) /\ x - (n % p) <= y /\ y <= x}
  BY DEF Segment, n, p
<1>6. Segment(x, k + 1) = {y \in Counted : y \in Group(x) /\ x - (n % (2 * p)) <= y /\ y <= x}
  BY <1>1 DEF Segment, n
<1>7. CASE (n \div p) % 2 # 0
  <2>1. m \in Nat /\ m < n /\ m % p = p - 1 /\ m % (2 * p) = m % p
    BY <1>1, <1>2, <1>7, BeforeBlock
  <2>2. src \in Group(x) /\ src # x /\ src \in Nat
    <3> HIDE DEF m
    <3> QED  BY <2>1, <1>1, <1>2, <1>3
  <2>3. LocalId(src) = m /\ Group(src) = Group(x)
    <3>1. src = First(x) + LocalId(src) /\ LocalId(src) \in 0..(lsize - 1) /\ Group(src) = Group(x)
      BY <2>2, SameGroup
    <3> HIDE DEF m
    <3> QED  BY <3>1, <2>1, <1>1, <1>2, <1>3
  <2> DEFINE r == n % p
  <2>4. r \in Nat /\ src = x - r - 1
    <3>1. r \in Nat
      BY <1>1, <1>4
    <3>2. src = First(x) + (n - r - 1)
      BY <1>3
    <3> HIDE DEF r, m
    <3> QED  BY <3>1, <3>2, <1>2
  <2>5. Segment(src, k) = {y \in Counted : y \in Group(x) /\ src - (p - 1) <= y /\ y <= src}
    BY <2>1, <2>3 DEF Segment, p
  <2>6. Segment(src, k + 1) = {y \in Counted : y \in Group(x) /\ src - (p - 1) <= y /\ y <= src}
    BY <2>1, <2>3, <1>1 DEF Segment
  <2>7. Segment(x, k + 1) = {y \in Counted : y \in Group(x) /\ x - (p + r) <= y /\ y <= x}
    BY <1>4, <1>6, <1>7
  <2>8. Segment(x, k) = {y \in Counted : y \in Group(x) /\ x - r <= y /\ y <= x}
    BY <1>5
  <2> HIDE DEF r, m
  <2>9. ASSUME NEW y \in Nat
        PROVE  /\ (x - (p + r) <= y /\ y <= x)
                    <=> (x - r <= y /\ y <= x) \/ (src - (p - 1) <= y /\ y <= src)
               /\ ~(x - r <= y /\ y <= src)
    <3>0. x \in Nat
      BY <1>2
    <3>1. x \in Nat /\ p \in Nat /\ p >= 1 /\ r \in Nat /\ src = x - r - 1
      BY <3>0, <2>4, <1>1
    <3>2. src - (p - 1) = x - (p + r) /\ (y <= src <=> y < x - r)
      BY <3>1
    <3>3. y <= src => y <= x
      BY <3>1
    <3>4. y <= x /\ x - (p + r) <= y => x - r <= y \/ y < x - r
      BY <3>1
    <3>5. x - r <= y => x - (p + r) <= y
      BY <3>1
    <3>6. ~(x - r <= y /\ y < x - r)
      BY <3>1
    <3> QED  BY <3>2, <3>3, <3>4, <3>5, <3>6
  <2>10. \A y \in Counted : y \in Nat
    BY DEF Counted, Items
  <2>11. Segment(x, k + 1) = Segment(x, k) \cup Segment(src, k)
    BY <2>5, <2>7, <2>8, <2>9, <2>10
  <2>12. Segment(x, k) \cap Segment(src, k) = {}
    BY <2>5, <2>8, <2>9, <2>10
  <2>13. Segment(src, k + 1) = Segment(src, k)
    BY <2>5, <2>6
  <2> QED  BY <2>2, <2>11, <2>12, <2>13, <1>7 DEF n, p
<1>8. CASE (n \div p) % 2 = 0
  <2>1. Segment(x, k + 1) = Segment(x, k)
    BY <1>4, <1>5, <1>6, <1>8
  <2> QED  BY <2>1, <1>8 DEF n, p
<1> QED  BY <1>7, <1>8

LEMMA CountedFinite ==
  ASSUME LaunchOK, NEW S \in SUBSET Items
  PROVE  IsFiniteSet(S) /\ Cardinality(S) \in Nat
<1>1. IsFiniteSet(Items)
  <2>1. ngroups * lsize - 1 \in Int /\ 0 \in Int
    BY LaunchSize
  <2> QED  BY <2>1, FS_Interval DEF Items
<1>2. IsFiniteSet(S)
  BY <1>1, FS_Subset
<1> QED  BY <1>2, FS_CardinalityType

(***************************************************************************)
(* Steps that concern the results.                                         *)
(***************************************************************************)
LEMMA SameChunk ==
  ASSUME UNCHANGED launchVars
  PROVE  /\ Items' = Items /\ Rows' = Rows /\ LaunchOK' = LaunchOK /\ ChunkOK' = ChunkOK
         /\ Statement' = Statement /\ AddTotal' = AddTotal
         /\ WriteBack' = WriteBack /\ Finished' = Finished
         /\ \A x : LocalId(x)' = LocalId(x) /\ Group(x)' = Group(x) /\ First(x)' = First(x)
         /\ \A s : SumRounds(s)' = SumRounds(s)
<1>1. UNCHANGED <<ngroups, lsize, nrooms, raises>>
  BY DEF launchVars
<1>2. Items' = Items /\ Rows' = Rows /\ LaunchOK' = LaunchOK
  BY <1>1 DEF Items, Rows, LaunchOK
<1>3. ChunkOK' = ChunkOK
  BY <1>1, <1>2 DEF ChunkOK
<1>4. Statement' = Statement /\ AddTotal' = AddTotal
  BY <1>1 DEF Statement, AddTotal, Rounds
<1>5. WriteBack' = WriteBack /\ Finished' = Finished
  BY <1>4 DEF WriteBack, Finished
<1>6. \A x : LocalId(x)' = LocalId(x) /\ Group(x)' = Group(x) /\ First(x)' = First(x)
  BY <1>1, <1>2 DEF LocalId, Group, First
<1>7. \A s : SumRounds(s)' = SumRounds(s)
  BY <1>4 DEF SumRounds
<1> QED  BY <1>2, <1>3, <1>4, <1>5, <1>6, <1>7

LEMMA SameRows ==
  ASSUME UNCHANGED launchVars
  PROVE  /\ Counted' = Counted /\ ErrorsOf(Items)' = ErrorsOf(Items)
         /\ \A x : EvalError(x)' = EvalError(x) /\ Mark(x)' = Mark(x)
         /\ \A x : ErrorsOf(Group(x))' = ErrorsOf(Group(x))
         /\ \A x, k : /\ ErrorsOf(Span(x, k))' = ErrorsOf(Span(x, k))
                      /\ Segment(x, k)' = Segment(x, k)
<1>1. nrooms' = nrooms /\ raises' = raises
  BY DEF launchVars
<1>2. Items' = Items /\ \A x : LocalId(x)' = LocalId(x) /\ Group(x)' = Group(x)
  BY SameChunk
<1>3. \A x : EvalError(x)' = EvalError(x)
  BY <1>1 DEF EvalError, LeftError, SetError, Significant
<1>4. Counted' = Counted /\ \A x : Mark(x)' = Mark(x)
  BY <1>1, <1>2, <1>3 DEF Counted, Mark, Success, RowReCheck
<1>5. \A x, k : Span(x, k)' = Span(x, k) /\ Segment(x, k)' = Segment(x, k)
  BY <1>2, <1>4 DEF Span, Segment
<1>6. ErrorsOf(Items)' = ErrorsOf(Items)
  BY <1>2, <1>3 DEF ErrorsOf, Significant
<1>7. \A x : ErrorsOf(Group(x))' = ErrorsOf(Group(x))
  BY <1>2, <1>3 DEF ErrorsOf, Significant
<1>8. \A x, k : ErrorsOf(Span(x, k))' = ErrorsOf(Span(x, k))
  BY <1>5, <1>3 DEF ErrorsOf, Significant
<1> QED  BY <1>3, <1>4, <1>5, <1>6, <1>7, <1>8

LEMMA Passing ==
  ASSUME ResultInv, NEW x \in Items, Pass(x), UNCHANGED launchVars
  PROVE  /\ stage' \in [Items -> Nat] /\ stage \in [Items -> Nat]
         /\ \A y \in Items : stage'[y] = IF y = x THEN stage[x] + 1 ELSE stage[y]
BY DEF ResultInv, Pass

LEMMA BarrierStep ==
  ASSUME ResultInv, NEW x \in Items, Pass(x), UNCHANGED launchVars,
         stage[x] < Finished, stage[x] = 0 \/ Arrived(x)
  PROVE  BarrierInv'
<1>1. /\ stage' \in [Items -> Nat] /\ stage \in [Items -> Nat]
      /\ \A y \in Items : stage'[y] = IF y = x THEN stage[x] + 1 ELSE stage[y]
  BY Passing
<1>2. /\ Items' = Items /\ Finished' = Finished /\ \A y : Group(y)' = Group(y)
  BY SameChunk
<1>3. Finished \in Nat /\ LaunchOK
  BY Stages DEF ResultInv
<1> SUFFICES ASSUME NEW y \in Items, NEW z \in Group(y)
             PROVE  stage'[y] <= Finished /\ stage'[y] <= stage'[z] + 1
  <2>1. \A y \in Items : y \in Group(y)
    BY <1>3, GroupShape
  <2> QED  BY <2>1, <1>2 DEF BarrierInv
<1>4. z \in Items
  BY DEF Group
<1>5. stage[y] <= Finished /\ stage[y] <= stage[z] + 1
  BY DEF ResultInv, BarrierInv
<1>6. y = x => stage[x] <= stage[z]
  <2>1. Arrived(x) => \A u \in Group(x) : stage[u] >= stage[x]
    BY DEF Arrived
  <2> QED  BY <2>1, <1>1, <1>4
<1> QED  BY <1>1, <1>3, <1>4, <1>5, <1>6

\* The first item of the group and the others are at most one barrier apart.
LEMMA FirstNear ==
  ASSUME ResultInv, NEW x \in Items
  PROVE  /\ First(x) \in Items /\ stage[x] \in Nat /\ stage[First(x)] \in Nat
         /\ stage[First(x)] <= stage[x] + 1 /\ stage[x] <= stage[First(x)] + 1
<1>1. First(x) \in Group(x) /\ First(x) \in Items /\ LaunchOK
  BY GroupShape DEF ResultInv
<1>2. x \in Group(First(x))
  BY <1>1, SameGroup
<1> QED  BY <1>1, <1>2 DEF ResultInv, BarrierInv

LEMMA KeepHost ==
  ASSUME ResultInv, NEW x \in Items, stage[x] < Finished, UNCHANGED hostVars, nitems' \in Nat
  PROVE  HostInv'
<1>1. ~KernelEnded
  <2>1. stage[x] \in Nat /\ Finished \in Nat
    BY Stages DEF ResultInv
  <2> QED  BY <2>1 DEF KernelEnded
<1>2. host' = "wait" /\ returned' = << >>
  BY <1>1 DEF ResultInv, HostInv, hostVars
<1> QED  BY <1>2 DEF HostInv

\* The offset of a group is added by its first item only.
LEMMA KeepPlaces ==
  ASSUME ResultInv, NEW x \in Items, Pass(x), UNCHANGED launchVars,
         stage[x] < AddTotal \/ (stage[x] = AddTotal /\ LocalId(x) # 0),
         UNCHANGED <<nitems, results>>,
         \A y \in Items : (y # x \/ stage[x] = AddTotal) => ltemp'[y] = ltemp[y]
  PROVE  PlaceInv' /\ StoreInv'
<1>1. /\ stage' \in [Items -> Nat] /\ stage \in [Items -> Nat]
      /\ \A y \in Items : stage'[y] = IF y = x THEN stage[x] + 1 ELSE stage[y]
  BY Passing
<1>2. /\ Items' = Items /\ AddTotal' = AddTotal /\ WriteBack' = WriteBack
      /\ \A y : First(y)' = First(y)
  BY SameChunk
<1>3. Counted' = Counted /\ \A y : Mark(y)' = Mark(y)
  BY SameRows
<1>4. AddTotal \in Nat /\ WriteBack = AddTotal + 1 /\ LaunchOK
  BY Stages DEF ResultInv
<1>5. \A y \in Items : First(y) \in Items
  BY FirstNear
<1>6. \A y \in Items : stage'[First(y)] > AddTotal <=> stage[First(y)] > AddTotal
  <2> SUFFICES ASSUME NEW y \in Items
               PROVE  stage'[First(y)] > AddTotal <=> stage[First(y)] > AddTotal
    OBVIOUS
  <2>1. First(y) = x => LocalId(x) = 0
    BY <1>4, GroupStart
  <2>2. First(y) \in Items
    BY <1>5
  <2> QED  BY <2>1, <2>2, <1>1, <1>4
<1>7. Placed' = Placed /\ Placed \subseteq Items
  BY <1>2, <1>3, <1>6 DEF Placed, Counted
<1>8. stage[x] < AddTotal => x \notin Placed
  <2>1. stage[First(x)] <= stage[x] + 1 /\ stage[x] \in Nat /\ stage[First(x)] \in Nat
    BY FirstNear
  <2> QED  BY <2>1, <1>4 DEF Placed
<1>9. \A y \in Placed : ltemp'[y] = ltemp[y]
  BY <1>1, <1>4, <1>7, <1>8
<1>10. PlaceInv'
  <2>1. /\ nitems = Cardinality(Placed) /\ \A y \in Placed : ltemp[y] \in 1..nitems
        /\ \A y, z \in Placed : ltemp[y] = ltemp[z] => y = z
    BY DEF ResultInv, PlaceInv
  <2> QED  BY <2>1, <1>7, <1>9 DEF PlaceInv
<1>11. StoreInv'
  <2> SUFFICES ASSUME NEW y \in Counted, stage'[y] > WriteBack
               PROVE  results[ltemp'[y] - 1] = Mark(y)
    BY <1>2, <1>3 DEF StoreInv
  <2>1. y \in Items
    BY DEF Counted
  <2>2. y # x /\ stage[y] > WriteBack
    BY <2>1, <1>1, <1>4
  <2> QED  BY <2>1, <2>2 DEF ResultInv, StoreInv
<1> QED  BY <1>10, <1>11

LEMMA KeepReduce ==
  ASSUME ResultInv, NEW x \in Items, Pass(x), UNCHANGED launchVars, stage[x] >= Statement,
         \A y \in Items : y # x /\ stage[y] <= Statement => ltemp'[y] = ltemp[y]
  PROVE  ReduceInv'
<1>1. /\ stage' \in [Items -> Nat] /\ stage \in [Items -> Nat]
      /\ \A y \in Items : stage'[y] = IF y = x THEN stage[x] + 1 ELSE stage[y]
  BY Passing
<1>2. Items' = Items /\ Statement' = Statement /\ \A y : LocalId(y)' = LocalId(y)
  BY SameChunk
<1>3. \A y, k : ErrorsOf(Span(y, k))' = ErrorsOf(Span(y, k))
  BY SameRows
<1>4. Statement \in Nat
  BY Stages DEF ResultInv
<1>5. \A y \in Items : stage'[y] \in 1..Statement => y # x /\ stage'[y] = stage[y]
  BY <1>1, <1>4
<1> SUFFICES ASSUME NEW y \in Items, stage'[y] \in 1..Statement, NEW k \in (stage'[y] - 2)..(stage'[y] - 1), k >= 0,
                    LocalId(y) % 2^k = 0, k = stage'[y] - 1 \/ LocalId(y) % 2^(k + 1) # 0
             PROVE  Stands(ltemp'[y], ErrorsOf(Span(y, k)))
  BY <1>2, <1>3 DEF ReduceInv, Stands, Significant
<1>6. stage[y] \in 1..Statement /\ stage'[y] = stage[y] /\ ltemp'[y] = ltemp[y]
  BY <1>1, <1>4, <1>5
<1>7. Stands(ltemp[y], ErrorsOf(Span(y, k)))
  BY <1>6 DEF ResultInv, ReduceInv
<1> QED  BY <1>6, <1>7

LEMMA KeepReport ==
  ASSUME ResultInv, NEW x \in Items, Pass(x), UNCHANGED launchVars, stage[x] # Statement,
         errcode' = errcode
  PROVE  ReportInv'
<1>1. /\ stage' \in [Items -> Nat] /\ stage \in [Items -> Nat]
      /\ \A y \in Items : stage'[y] = IF y = x THEN stage[x] + 1 ELSE stage[y]
  BY Passing
<1>2. Items' = Items /\ Statement' = Statement /\ \A y : LocalId(y)' = LocalId(y)
  BY SameChunk
<1>3. ErrorsOf(Items)' = ErrorsOf(Items) /\ \A y : ErrorsOf(Group(y))' = ErrorsOf(Group(y))
  BY SameRows
<1>4. Statement \in Nat
  BY Stages DEF ResultInv
<1>5. \A y \in Items : stage'[y] > Statement <=> stage[y] > Statement
  BY <1>1, <1>4
<1> QED  BY <1>2, <1>3, <1>5 DEF ResultInv, ReportInv, Success

LEMMA KeepEvaluated ==
  ASSUME ResultInv, NEW x \in Items, Pass(x), UNCHANGED launchVars, stage[x] >= 1,
         lerror' = lerror
  PROVE  EvaluatedInv'
<1>1. /\ stage' \in [Items -> Nat] /\ stage \in [Items -> Nat]
      /\ \A y \in Items : stage'[y] = IF y = x THEN stage[x] + 1 ELSE stage[y]
  BY Passing
<1>2. Items' = Items /\ \A y : EvalError(y)' = EvalError(y)
  BY SameChunk, SameRows
<1>3. \A y \in Items : stage'[y] >= 1 => stage[y] >= 1
  BY <1>1
<1> QED  BY <1>2, <1>3 DEF ResultInv, EvaluatedInv

\* The counts of the other items are not touched.
LEMMA KeepSums ==
  ASSUME ResultInv, NEW x \in Items, Pass(x), UNCHANGED launchVars,
         NEW y \in Items, y # x, ltemp'[y] = ltemp[y], stage'[y] > Statement,
         stage'[First(y)] <= AddTotal
  PROVE  ltemp'[y] = Cardinality(Segment(y, SumRounds(stage'[y])))
<1>1. /\ stage' \in [Items -> Nat] /\ stage \in [Items -> Nat]
      /\ \A z \in Items : stage'[z] = IF z = x THEN stage[x] + 1 ELSE stage[z]
  BY Passing
<1>2. First(y) \in Items /\ AddTotal \in Nat
  BY FirstNear, Stages DEF ResultInv
<1>3. stage'[y] = stage[y] /\ stage[First(y)] <= AddTotal
  BY <1>1, <1>2
<1> QED  BY <1>3 DEF ResultInv, SumInv

LEMMA SumNext ==
  ASSUME UNCHANGED launchVars,
         \A y \in Items : stage'[y] > Statement /\ stage'[First(y)] <= AddTotal
           => ltemp'[y] = Cardinality(Segment(y, SumRounds(stage'[y])))
  PROVE  SumInv'
<1>1. /\ Items' = Items /\ Statement' = Statement /\ AddTotal' = AddTotal
      /\ \A y : First(y)' = First(y) /\ LocalId(y)' = LocalId(y) /\ Group(y)' = Group(y)
  BY SameChunk
<1>2. Counted' = Counted
  BY SameRows
<1> QED  BY <1>1, <1>2 DEF SumInv, SumRounds, Segment

LEMMA EvaluateResult ==
  ASSUME ResultInv, NEW x \in Items, Evaluate(x)
  PROVE  ResultInv'
<1>1. /\ UNCHANGED launchVars /\ Pass(x) /\ stage[x] = 0
      /\ UNCHANGED <<nitems, errcode, results>> /\ UNCHANGED hostVars
      /\ lerror' = [lerror EXCEPT ![x] = EvalError(x)]
      /\ ltemp' = [ltemp EXCEPT ![x] = EvalError(x)]
  BY DEF Evaluate, resultVars
<1>2. /\ Statement \in Nat /\ Statement >= 1 /\ AddTotal \in Nat /\ AddTotal > Statement
      /\ WriteBack = AddTotal + 1 /\ Finished = AddTotal + 2
  BY Stages DEF ResultInv
<1>3. /\ stage' \in [Items -> Nat] /\ stage \in [Items -> Nat]
      /\ \A y \in Items : stage'[y] = IF y = x THEN stage[x] + 1 ELSE stage[y]
  BY <1>1, Passing
<1>4. /\ Items' = Items /\ Statement' = Statement /\ LaunchOK' /\ ChunkOK' /\ Rows' = Rows
      /\ \A y : LocalId(y)' = LocalId(y)
  BY <1>1, SameChunk DEF ResultInv
<1>5. EvalError(x) \in Nat /\ LaunchOK
  BY EvalType DEF ResultInv
<1>6. /\ lerror \in [Items -> Int] /\ ltemp \in [Items -> Int]
      /\ lerror' \in [Items -> Int] /\ ltemp' \in [Items -> Int]
      /\ lerror'[x] = EvalError(x) /\ ltemp'[x] = EvalError(x)
      /\ \A y \in Items : y # x => lerror'[y] = lerror[y] /\ ltemp'[y] = ltemp[y]
  BY <1>1, <1>5 DEF ResultInv, ValuesOK
<1>7. ValuesOK'
  BY <1>1, <1>4, <1>6 DEF ResultInv, ValuesOK
<1>8. BarrierInv'
  BY <1>1, <1>2, BarrierStep
<1>9. EvaluatedInv'
  <2>1. \A y : EvalError(y)' = EvalError(y)
    BY <1>1, SameRows
  <2> QED  BY <2>1, <1>3, <1>4, <1>6 DEF ResultInv, EvaluatedInv
<1>10. ReduceInv'
  <2>1. \A y, k : ErrorsOf(Span(y, k))' = ErrorsOf(Span(y, k))
    BY <1>1, SameRows
  <2> SUFFICES ASSUME NEW y \in Items, stage'[y] \in 1..Statement, NEW k \in (stage'[y] - 2)..(stage'[y] - 1), k >= 0,
                      LocalId(y) % 2^k = 0, k = stage'[y] - 1 \/ LocalId(y) % 2^(k + 1) # 0
               PROVE  Stands(ltemp'[y], ErrorsOf(Span(y, k)))
    BY <2>1, <1>4 DEF ReduceInv, Stands, Significant
  <2>2. CASE y = x
    <3>1. k = 0
      BY <2>2, <1>1, <1>3
    <3>2. Span(x, 0) = {x}
      BY <1>5, SpanFirst
    <3>3. Stands(EvalError(x), ErrorsOf({x}))
      BY DEF Stands, ErrorsOf
    <3> QED  BY <3>1, <3>2, <3>3, <2>2, <1>6
  <2>3. CASE y # x
    BY <2>3, <1>3, <1>6 DEF ResultInv, ReduceInv
  <2> QED  BY <2>2, <2>3
<1>11. ReportInv'
  <2>1. stage[x] # Statement
    BY <1>1, <1>2
  <2> QED  BY <2>1, <1>1, KeepReport
<1>12. SumInv'
  <2> SUFFICES ASSUME NEW y \in Items, stage'[y] > Statement, stage'[First(y)] <= AddTotal
               PROVE  ltemp'[y] = Cardinality(Segment(y, SumRounds(stage'[y])))
    BY <1>1, SumNext
  <2>1. y # x
    BY <1>1, <1>2, <1>3
  <2> QED  BY <2>1, <1>1, <1>6, KeepSums
<1>13. PlaceInv' /\ StoreInv'
  BY <1>1, <1>2, <1>6, KeepPlaces
<1>14. HostInv'
  BY <1>1, <1>2, KeepHost DEF ResultInv, ValuesOK
<1> QED  BY <1>3, <1>4, <1>7, <1>8, <1>9, <1>10, <1>11, <1>12, <1>13, <1>14 DEF ResultInv

LEMMA ReduceResult ==
  ASSUME ResultInv, NEW x \in Items, ReduceError(x)
  PROVE  ResultInv'
<1> DEFINE i == stage[x] - 1
           p == 2^i
           c == IF LocalId(x) + p < lsize THEN ltemp[x + p] ELSE Success
<1>1. /\ UNCHANGED launchVars /\ Pass(x) /\ stage[x] \in 1..(Statement - 1) /\ Arrived(x)
      /\ UNCHANGED <<nitems, errcode, results, lerror>> /\ UNCHANGED hostVars
      /\ ltemp' = IF /\ LocalId(x) % 2^(i + 1) = 0 /\ ~Significant(ltemp[x]) /\ Significant(c)
                  THEN [ltemp EXCEPT ![x] = c] ELSE ltemp
  BY DEF ReduceError, resultVars
<1>2. /\ Statement \in Nat /\ Statement >= 1 /\ AddTotal \in Nat /\ AddTotal > Statement
      /\ WriteBack = AddTotal + 1 /\ Finished = AddTotal + 2
  BY Stages DEF ResultInv
<1>3. /\ stage' \in [Items -> Nat] /\ stage \in [Items -> Nat]
      /\ \A y \in Items : stage'[y] = IF y = x THEN stage[x] + 1 ELSE stage[y]
  BY <1>1, Passing
<1>4. /\ Items' = Items /\ Statement' = Statement /\ LaunchOK' /\ ChunkOK' /\ Rows' = Rows
      /\ \A y : LocalId(y)' = LocalId(y)
  BY <1>1, SameChunk DEF ResultInv
<1>5. /\ i \in 0..(lsize - 1) /\ i \in Nat /\ i + 1 = stage[x] /\ i <= Statement - 2
      /\ lsize \in Nat \ {0} /\ LaunchOK
  <2>1. Statement - 1 \in 0..(lsize - 1) /\ lsize \in Nat \ {0} /\ LaunchOK
    BY LastRounds DEF ResultInv
  <2> QED  BY <2>1, <1>1, <1>2
<1>6. \A y \in Items : y # x => ltemp'[y] = ltemp[y]
  BY <1>1 DEF ResultInv, ValuesOK
<1>7. ltemp \in [Items -> Int]
  BY DEF ResultInv, ValuesOK

\* what the item holds before the round, and its partner
<1>8. LocalId(x) % 2^i = 0 => Stands(ltemp[x], ErrorsOf(Span(x, i)))
  <2>1. /\ stage[x] \in 1..Statement /\ i >= 0 /\ i = stage[x] - 1
        /\ i \in (stage[x] - 2)..(stage[x] - 1)
    BY <1>1, <1>2, <1>5
  <2> HIDE DEF i
  <2> QED  BY <2>1 DEF ResultInv, ReduceInv
<1>9. ASSUME LocalId(x) % 2^(i + 1) = 0, LocalId(x) + p < lsize
      PROVE  x + p \in Items /\ Stands(ltemp[x + p], ErrorsOf(Span(x + p, i)))
  <2> DEFINE z == x + p
  <2>1. z \in Group(x) /\ LocalId(z) % 2^i = 0 /\ LocalId(z) % 2^(i + 1) # 0
    BY <1>5, <1>9, SpanStep
  <2> HIDE DEF z
  <2>2. z \in Items /\ x \in Group(z)
    BY <2>1, <1>5, SameGroup
  <2>3. stage[z] >= stage[x] /\ stage[z] <= stage[x] + 1 /\ stage[z] \in Nat /\ stage[x] \in Nat
    BY <2>1, <2>2, <1>1, <1>3 DEF Arrived, ResultInv, BarrierInv
  <2>4. stage[z] \in 1..Statement /\ i >= 0 /\ i \in (stage[z] - 2)..(stage[z] - 1)
    BY <2>3, <1>1, <1>2, <1>5
  <2>5. Stands(ltemp[z], ErrorsOf(Span(z, i)))
    BY <2>1, <2>2, <2>4 DEF ResultInv, ReduceInv
  <2> QED  BY <2>2, <2>5 DEF z
<1>10. LocalId(x) % 2^(i + 1) = 0 => /\ Stands(ltemp'[x], ErrorsOf(Span(x, i + 1)))
                                     /\ c \in Int
  <2> SUFFICES ASSUME LocalId(x) % 2^(i + 1) = 0
               PROVE  Stands(ltemp'[x], ErrorsOf(Span(x, i + 1))) /\ c \in Int
    OBVIOUS
  <2>1. LocalId(x) % 2^i = 0
    BY <1>5, SpanStep
  <2>2. Stands(ltemp[x], ErrorsOf(Span(x, i)))
    BY <2>1, <1>5, <1>8
  <2>3. ltemp'[x] = IF ~Significant(ltemp[x]) /\ Significant(c) THEN c ELSE ltemp[x]
    <3> HIDE DEF c, i
    <3> QED  BY <1>1, <1>7
  <2>4. CASE LocalId(x) + p < lsize
    <3>1. c = ltemp[x + p] /\ x + p \in Items
      BY <2>4, <1>9
    <3>2. Stands(c, ErrorsOf(Span(x + p, i)))
      BY <3>1, <2>4, <1>9
    <3>3. Span(x, i + 1) = Span(x, i) \cup Span(x + p, i)
      BY <2>4, <1>5, SpanStep
    <3> DEFINE A == ErrorsOf(Span(x, i))
               B == ErrorsOf(Span(x + p, i))
    <3>4. ErrorsOf(Span(x, i + 1)) = A \cup B /\ \A e \in A \cup B : Significant(e)
      BY <3>3, ErrorsUnion
    <3>5. Stands(ltemp[x], A) /\ Stands(c, B)
      BY <3>2, <2>2
    <3> HIDE DEF A, B, c
    <3>6. Stands(IF ~Significant(ltemp[x]) /\ Significant(c) THEN c ELSE ltemp[x], A \cup B)
      BY <3>4, <3>5, StandsBoth
    <3> QED  BY <3>1, <3>4, <3>6, <2>3, <1>7
  <2>5. CASE ~(LocalId(x) + p < lsize)
    <3>1. c = Success /\ ~Significant(c)
      BY <2>5 DEF Success, Significant
    <3>2. Span(x, i + 1) = Span(x, i)
      BY <2>5, <1>5, SpanStep
    <3>3. ltemp'[x] = ltemp[x]
      BY <3>1, <2>3
    <3> QED  BY <3>1, <3>2, <3>3, <2>2 DEF Success
  <2> QED  BY <2>4, <2>5
<1>11. ltemp' \in [Items -> Int] /\ (LocalId(x) % 2^(i + 1) # 0 => ltemp'[x] = ltemp[x])
  <2> HIDE DEF c, i
  <2> QED  BY <1>1, <1>7, <1>10
<1> HIDE DEF c, p
<1>12. ValuesOK'
  BY <1>1, <1>4, <1>11 DEF ResultInv, ValuesOK
<1>13. BarrierInv'
  BY <1>1, <1>2, BarrierStep
<1>14. EvaluatedInv'
  BY <1>1, <1>2, KeepEvaluated
<1>15. ReduceInv'
  <2>1. \A y, k : ErrorsOf(Span(y, k))' = ErrorsOf(Span(y, k))
    BY <1>1, SameRows
  <2> SUFFICES ASSUME NEW y \in Items, stage'[y] \in 1..Statement, NEW k \in (stage'[y] - 2)..(stage'[y] - 1), k >= 0,
                      LocalId(y) % 2^k = 0, k = stage'[y] - 1 \/ LocalId(y) % 2^(k + 1) # 0
               PROVE  Stands(ltemp'[y], ErrorsOf(Span(y, k)))
    BY <2>1, <1>4 DEF ReduceInv, Stands, Significant
  <2>2. CASE y = x /\ k = i + 1
    BY <2>2, <1>10
  <2>3. CASE y = x /\ k # i + 1
    <3>1. k = i /\ LocalId(x) % 2^(i + 1) # 0
      BY <2>3, <1>3, <1>5
    <3> QED  BY <3>1, <2>3, <1>8, <1>11
  <2>4. CASE y # x
    BY <2>4, <1>3, <1>6 DEF ResultInv, ReduceInv
  <2> QED  BY <2>2, <2>3, <2>4
<1>16. ReportInv'
  <2>1. stage[x] # Statement
    BY <1>1, <1>2
  <2> QED  BY <2>1, <1>1, KeepReport
<1>17. SumInv'
  <2> SUFFICES ASSUME NEW y \in Items, stage'[y] > Statement, stage'[First(y)] <= AddTotal
               PROVE  ltemp'[y] = Cardinality(Segment(y, SumRounds(stage'[y])))
    BY <1>1, SumNext
  <2>1. y # x
    BY <1>1, <1>2, <1>3
  <2> QED  BY <2>1, <1>1, <1>6, KeepSums
<1>18. PlaceInv' /\ StoreInv'
  BY <1>1, <1>2, <1>6, KeepPlaces
<1>19. HostInv'
  BY <1>1, <1>2, KeepHost DEF ResultInv, ValuesOK
<1> QED  BY <1>3, <1>4, <1>12, <1>13, <1>14, <1>15, <1>16, <1>17, <1>18, <1>19 DEF ResultInv

LEMMA ReportResult ==
  ASSUME ResultInv, NEW x \in Items, WriteStatementError(x)
  PROVE  ResultInv'
<1> DEFINE reports == LocalId(x) = 0 /\ Significant(ltemp[x])
<1>1. /\ UNCHANGED launchVars /\ Pass(x) /\ stage[x] = Statement /\ Arrived(x)
      /\ UNCHANGED <<nitems, results, lerror>> /\ UNCHANGED hostVars
      /\ ltemp' = [ltemp EXCEPT ![x] = Counts(x)]
      /\ errcode' = IF reports /\ errcode = Success THEN ltemp[x] ELSE errcode
  BY DEF WriteStatementError
<1>2. /\ Statement \in Nat /\ Statement >= 1 /\ AddTotal \in Nat /\ AddTotal > Statement
      /\ WriteBack = AddTotal + 1 /\ Finished = AddTotal + 2 /\ LaunchOK
  BY Stages DEF ResultInv
<1>3. /\ stage' \in [Items -> Nat] /\ stage \in [Items -> Nat]
      /\ \A y \in Items : stage'[y] = IF y = x THEN stage[x] + 1 ELSE stage[y]
  BY <1>1, Passing
<1>4. /\ Items' = Items /\ Statement' = Statement /\ LaunchOK' /\ ChunkOK' /\ Rows' = Rows
      /\ \A y : LocalId(y)' = LocalId(y)
  BY <1>1, SameChunk DEF ResultInv
<1>5. Counts(x) \in {0, 1} /\ ltemp \in [Items -> Int]
  BY DEF Counts, ResultInv, ValuesOK
<1>6. /\ ltemp' \in [Items -> Int] /\ ltemp'[x] = Counts(x)
      /\ \A y \in Items : y # x => ltemp'[y] = ltemp[y]
  BY <1>1, <1>5
<1>7. ValuesOK'
  BY <1>1, <1>4, <1>5, <1>6 DEF ResultInv, ValuesOK
<1>8. BarrierInv'
  BY <1>1, <1>2, BarrierStep
<1>9. EvaluatedInv'
  BY <1>1, <1>2, KeepEvaluated
<1>10. ReduceInv'
  BY <1>1, <1>2, <1>6, KeepReduce
\* the first item holds an error of the group, if there is one
<1>11. LocalId(x) = 0 => Stands(ltemp[x], ErrorsOf(Group(x)))
  <2> SUFFICES ASSUME LocalId(x) = 0 PROVE Stands(ltemp[x], ErrorsOf(Group(x)))
    OBVIOUS
  <2> DEFINE k == Statement - 1
  <2>1. k \in Nat /\ k >= 0 /\ stage[x] \in 1..Statement /\ k = stage[x] - 1
        /\ k \in (stage[x] - 2)..(stage[x] - 1)
    BY <1>1, <1>2
  <2>2. LocalId(x) % 2^k = 0
    <3>1. k \in 0..lsize
      BY <1>2, LastRounds
    <3> HIDE DEF k
    <3>2. 2^k \in Nat \ {0}
      BY <3>1, <1>2, Powers
    <3> QED  BY <3>2
  <2>3. Stands(ltemp[x], ErrorsOf(Span(x, k)))
    <3> HIDE DEF k
    <3> QED  BY <2>1, <2>2 DEF ResultInv, ReduceInv
  <2>4. Span(x, k) = Group(x)
    BY <1>2, SpanWhole
  <2> QED  BY <2>3, <2>4
<1>12. ErrorsOf(Group(x)) \subseteq ErrorsOf(Items)
  BY ErrorsUnion DEF Group
<1>13. ReportInv'
  <2>1. ErrorsOf(Items)' = ErrorsOf(Items) /\ \A y : ErrorsOf(Group(y))' = ErrorsOf(Group(y))
    BY <1>1, SameRows
  <2>2. reports => ltemp[x] \in ErrorsOf(Items) /\ ltemp[x] # Success
    BY <1>11, <1>12 DEF Stands, Significant, Success
  <2>3. errcode = Success \/ errcode \in ErrorsOf(Items)
    BY DEF ResultInv, ReportInv
  <2>4. errcode' = Success \/ errcode' \in ErrorsOf(Items)
    BY <2>2, <2>3, <1>1
  <2>5. ASSUME NEW y \in Items, LocalId(y) = 0, stage'[y] > Statement, ErrorsOf(Group(y)) # {}
        PROVE  errcode' # Success
    <3>1. CASE y = x
      <4>1. ltemp[x] \in ErrorsOf(Group(x))
        BY <3>1, <2>5, <1>11 DEF Stands
      <4>2. reports
        BY <4>1, <3>1, <2>5, ErrorsUnion
      <4> QED  BY <4>2, <2>2, <1>1
    <3>2. CASE y # x
      <4>1. stage[y] > Statement
        BY <3>2, <2>5, <1>3
      <4>2. errcode # Success
        BY <4>1, <2>5 DEF ResultInv, ReportInv
      <4> QED  BY <4>2, <1>1
    <3> QED  BY <3>1, <3>2
  <2> QED  BY <2>1, <2>4, <2>5, <1>4 DEF ReportInv, Success
<1>14. SumInv'
  <2> SUFFICES ASSUME NEW y \in Items, stage'[y] > Statement, stage'[First(y)] <= AddTotal
               PROVE  ltemp'[y] = Cardinality(Segment(y, SumRounds(stage'[y])))
    BY <1>1, SumNext
  <2>1. CASE y = x
    <3>1. SumRounds(stage'[x]) = 0
      BY <1>1, <1>2, <1>3 DEF SumRounds
    <3>2. Segment(x, 0) = Counted \cap {x}
      BY <1>2, SegmentFirst
    <3>3. lerror[x] = EvalError(x)
      BY <1>1, <1>2 DEF ResultInv, EvaluatedInv
    <3>4. Counts(x) = IF x \in Counted THEN 1 ELSE 0
      BY <3>3 DEF Counts, Counted
    <3>5. Cardinality({x}) = 1 /\ Cardinality({}) = 0
      BY FS_Singleton, FS_EmptySet
    <3>6. CASE x \in Counted
      <4>1. Segment(x, 0) = {x}
        BY <3>2, <3>6
      <4> QED  BY <4>1, <3>1, <3>4, <3>5, <3>6, <2>1, <1>6
    <3>7. CASE x \notin Counted
      <4>1. Segment(x, 0) = {}
        BY <3>2, <3>7
      <4> QED  BY <4>1, <3>1, <3>4, <3>5, <3>7, <2>1, <1>6
    <3> QED  BY <3>6, <3>7
  <2>2. CASE y # x
    BY <2>2, <1>1, <1>6, KeepSums
  <2> QED  BY <2>1, <2>2
<1>15. PlaceInv' /\ StoreInv'
  BY <1>1, <1>2, <1>6, KeepPlaces
<1>16. HostInv'
  BY <1>1, <1>2, KeepHost DEF ResultInv, ValuesOK
<1> QED  BY <1>3, <1>4, <1>7, <1>8, <1>9, <1>10, <1>13, <1>14, <1>15, <1>16 DEF ResultInv

LEMMA PrefixResult ==
  ASSUME ResultInv, NEW x \in Items, PrefixSum(x)
  PROVE  ResultInv'
<1> DEFINE i == stage[x] - Statement - 1
           src == Item(x, LocalId(x) - (LocalId(x) % 2^i) - 1)
           odd == (LocalId(x) \div 2^i) % 2 # 0
<1>1. /\ UNCHANGED launchVars /\ Pass(x) /\ Arrived(x)
      /\ stage[x] \in (Statement + 1)..(AddTotal - 1)
      /\ UNCHANGED <<nitems, results, errcode, lerror>> /\ UNCHANGED hostVars
      /\ ltemp' = IF odd THEN [ltemp EXCEPT ![x] = @ + ltemp[src]] ELSE ltemp
  BY DEF PrefixSum, resultVars
<1>2. /\ Statement \in Nat /\ Statement >= 1 /\ AddTotal \in Nat /\ AddTotal > Statement
      /\ WriteBack = AddTotal + 1 /\ Finished = AddTotal + 2 /\ LaunchOK
  BY Stages DEF ResultInv
<1>3. /\ stage' \in [Items -> Nat] /\ stage \in [Items -> Nat]
      /\ \A y \in Items : stage'[y] = IF y = x THEN stage[x] + 1 ELSE stage[y]
  BY <1>1, Passing
<1>4. /\ Items' = Items /\ LaunchOK' /\ ChunkOK' /\ Rows' = Rows
  BY <1>1, SameChunk DEF ResultInv
<1>5. i \in 0..lsize /\ i \in Nat /\ lsize \in Nat \ {0}
  <2>1. AddTotal - Statement - 1 \in 0..lsize /\ lsize \in Nat \ {0}
    BY <1>2, LastRounds
  <2> QED  BY <2>1, <1>1, <1>2
<1>6. IF odd
      THEN /\ src \in Group(x) /\ src # x
           /\ Segment(x, i + 1) = Segment(x, i) \cup Segment(src, i)
           /\ Segment(x, i) \cap Segment(src, i) = {}
           /\ Segment(src, i + 1) = Segment(src, i)
      ELSE Segment(x, i + 1) = Segment(x, i)
  BY <1>2, <1>5, SegmentStep
<1>7. ltemp \in [Items -> Int] /\ SumRounds(stage[x]) = i /\ SumRounds(stage'[x]) = i + 1
  <2>1. stage[x] <= AddTotal /\ stage'[x] = stage[x] + 1 /\ stage'[x] <= AddTotal
    BY <1>1, <1>2, <1>3
  <2> QED  BY <2>1, <1>2, <1>3 DEF SumRounds, ResultInv, ValuesOK
<1> HIDE DEF src, odd, i
\* nobody in the group has passed the last barrier of the sum
<1>8. stage[First(x)] <= AddTotal /\ ltemp[x] = Cardinality(Segment(x, i))
  <2>1. stage[First(x)] <= stage[x] + 1 /\ stage[First(x)] \in Nat
    BY FirstNear
  <2>2. stage[First(x)] <= AddTotal /\ stage[x] > Statement
    BY <2>1, <1>1, <1>2
  <2> QED  BY <2>2, <1>7 DEF ResultInv, SumInv
<1>9. odd => src \in Items /\ src # x /\ ltemp[src] = Cardinality(Segment(src, i))
  <2> SUFFICES ASSUME odd PROVE src \in Items /\ src # x /\ ltemp[src] = Cardinality(Segment(src, i))
    OBVIOUS
  <2>1. src \in Items /\ First(src) = First(x) /\ x \in Group(src) /\ src \in Group(x) /\ src # x
    BY <1>2, <1>6, SameGroup
  <2>2. stage[src] >= stage[x] /\ stage[src] <= stage[x] + 1 /\ stage[src] \in Nat
    BY <2>1, <1>1, <1>3 DEF Arrived, ResultInv, BarrierInv
  <2>3. stage[src] > Statement /\ stage[src] <= AddTotal
    BY <2>2, <1>1, <1>2
  <2>4. ltemp[src] = Cardinality(Segment(src, SumRounds(stage[src])))
    BY <2>1, <2>3, <1>8 DEF ResultInv, SumInv
  <2>5. SumRounds(stage[src]) = i \/ SumRounds(stage[src]) = i + 1
    BY <2>2, <2>3, <1>1, <1>2 DEF SumRounds, i
  <2> QED  BY <2>1, <2>4, <2>5, <1>6
<1>10. ltemp'[x] = Cardinality(Segment(x, i + 1)) /\ ltemp' \in [Items -> Int]
  <2>1. CASE odd
    <3>1. ltemp' = [ltemp EXCEPT ![x] = ltemp[x] + ltemp[src]]
      BY <2>1, <1>1
    <3> DEFINE A == Segment(x, i)
               B == Segment(src, i)
    <3>2. A \subseteq Items /\ B \subseteq Items
      BY DEF Segment, Counted
    <3>3. A \cap B = {} /\ Segment(x, i + 1) = A \cup B
      BY <2>1, <1>6
    <3> HIDE DEF A, B
    <3>4. IsFiniteSet(A) /\ IsFiniteSet(B) /\ Cardinality(A) \in Nat /\ Cardinality(B) \in Nat
      BY <3>2, <1>2, CountedFinite
    <3>5. Cardinality(A \cup B) = Cardinality(A) + Cardinality(B)
      <4>1. Cardinality(A \cup B) = Cardinality(A) + Cardinality(B) - Cardinality(A \cap B)
        BY <3>4, FS_Union
      <4>2. Cardinality(A \cap B) = 0
        BY <3>3, FS_EmptySet
      <4> QED  BY <4>1, <4>2, <3>4
    <3>6. ltemp[x] = Cardinality(A) /\ ltemp[src] = Cardinality(B)
      BY <2>1, <1>8, <1>9 DEF A, B
    <3>7. ltemp'[x] = ltemp[x] + ltemp[src] /\ ltemp' \in [Items -> Int]
      BY <3>1, <3>4, <3>6, <1>7
    <3> QED  BY <3>3, <3>5, <3>6, <3>7
  <2>2. CASE ~odd
    BY <2>2, <1>1, <1>6, <1>7, <1>8
  <2> QED  BY <2>1, <2>2
<1>11. \A y \in Items : y # x => ltemp'[y] = ltemp[y]
  BY <1>1, <1>7
<1>12. ValuesOK'
  BY <1>1, <1>4, <1>10 DEF ResultInv, ValuesOK
<1>13. BarrierInv'
  BY <1>1, <1>2, BarrierStep
<1>14. EvaluatedInv'
  BY <1>1, <1>2, KeepEvaluated
<1>15. ReduceInv'
  BY <1>1, <1>2, <1>11, KeepReduce
<1>16. ReportInv'
  <2>1. stage[x] # Statement
    BY <1>1, <1>2
  <2> QED  BY <2>1, <1>1, KeepReport
<1>17. SumInv'
  <2> SUFFICES ASSUME NEW y \in Items, stage'[y] > Statement, stage'[First(y)] <= AddTotal
               PROVE  ltemp'[y] = Cardinality(Segment(y, SumRounds(stage'[y])))
    BY <1>1, SumNext
  <2>1. CASE y = x
    BY <2>1, <1>7, <1>10
  <2>2. CASE y # x
    BY <2>2, <1>1, <1>11, KeepSums
  <2> QED  BY <2>1, <2>2
<1>18. PlaceInv' /\ StoreInv'
  BY <1>1, <1>2, <1>11, KeepPlaces
<1>19. HostInv'
  BY <1>1, <1>2, KeepHost DEF ResultInv, ValuesOK
<1> QED  BY <1>3, <1>4, <1>12, <1>13, <1>14, <1>15, <1>16, <1>17, <1>18, <1>19 DEF ResultInv

\* The sums of a group number its rows from 1.
LEMMA GroupRanks ==
  ASSUME LaunchOK, NEW x \in Items, NEW G, G = {y \in Counted : y \in Group(x)},
         NEW k, k = AddTotal - Statement - 1
  PROVE  /\ \A y \in G : Cardinality(Segment(y, k)) \in 1..Cardinality(G)
         /\ \A y, z \in G : Cardinality(Segment(y, k)) = Cardinality(Segment(z, k)) => y = z
         /\ First(x) + lsize - 1 \in Group(x) /\ Segment(First(x) + lsize - 1, k) = G
         /\ IsFiniteSet(G) /\ Cardinality(G) \in Nat
<1>1. \A y \in Group(x) : y \in Items /\ Group(y) = Group(x)
  BY SameGroup
<1>2. \A y \in Group(x) : Segment(y, k) = {z \in G : z <= y}
  BY <1>1, SegmentWhole
<1>3. IsFiniteSet(G) /\ Cardinality(G) \in Nat
  <2>1. G \in SUBSET Items
    BY DEF Counted
  <2> QED  BY <2>1, CountedFinite
<1>4. \A y \in G : y \in Group(x) /\ y \in Nat
  BY DEF Counted, Items
<1>5. ASSUME NEW y \in G PROVE Cardinality(Segment(y, k)) \in 1..Cardinality(G)
  <2> DEFINE S == Segment(y, k)
  <2>1. S \in SUBSET G /\ y \in S
    BY <1>2, <1>4
  <2> HIDE DEF S
  <2>2. IsFiniteSet(S) /\ Cardinality(S) <= Cardinality(G) /\ Cardinality(S) \in Nat
    BY <2>1, <1>3, FS_Subset, FS_CardinalityType
  <2>3. Cardinality(S) # 0
    BY <2>1, <2>2, FS_EmptySet
  <2> QED  BY <2>2, <2>3, <1>3 DEF S
<1>6. ASSUME NEW y \in G, NEW z \in G, y < z
      PROVE  Cardinality(Segment(y, k)) # Cardinality(Segment(z, k))
  <2> DEFINE S == Segment(y, k)
             T == Segment(z, k)
  <2>1. S \in SUBSET T /\ z \in T /\ z \notin S /\ T \in SUBSET G
    <3>1. S = {u \in G : u <= y} /\ T = {u \in G : u <= z}
      BY <1>2, <1>4
    <3>2. \A u \in G : u <= y => u <= z
      BY <1>4, <1>6
    <3>3. z <= z /\ ~(z <= y)
      BY <1>4, <1>6
    <3> QED  BY <3>1, <3>2, <3>3
  <2> HIDE DEF S, T
  <2>2. IsFiniteSet(T)
    BY <2>1, <1>3, FS_Subset
  <2>3. Cardinality(T) = Cardinality(S) => T = S
    BY <2>1, <2>2, FS_Subset
  <2> QED  BY <2>1, <2>3 DEF S, T
<1>7. ASSUME NEW y \in G, NEW z \in G, Cardinality(Segment(y, k)) = Cardinality(Segment(z, k))
      PROVE  y = z
  <2>1. ~(y < z) /\ ~(z < y)
    BY <1>6, <1>7
  <2> QED  BY <2>1, <1>4
<1>8. First(x) + lsize - 1 \in Group(x) /\ Segment(First(x) + lsize - 1, k) = G
  <2> DEFINE last == First(x) + lsize - 1
  <2>1. lsize \in Nat \ {0} /\ First(x) \in Nat /\ Group(x) = First(x)..last
    BY LaunchSize, GroupShape
  <2>2. last \in Group(x) /\ \A z \in Group(x) : z <= last
    BY <2>1
  <2> HIDE DEF last
  <2>3. Segment(last, k) = G
    BY <2>2, <1>2, <1>4
  <2> QED  BY <2>2, <2>3 DEF last
<1> QED  BY <1>3, <1>5, <1>7, <1>8

\* The first item of a group takes places behind those of the other groups.
LEMMA PlaceGroup ==
  ASSUME ResultInv, NEW x \in Items, AddOffset(x), LocalId(x) = 0
  PROVE  /\ ltemp' \in [Items -> Int] /\ nitems' \in Nat
         /\ \A y \in Items : y \notin Group(x) => ltemp'[y] = ltemp[y]
         /\ PlaceInv'
<1> DEFINE G == {y \in Counted : y \in Group(x)}
           k == AddTotal - Statement - 1
           last == First(x) + lsize - 1
           n == Cardinality(G)
<1>1. /\ UNCHANGED launchVars /\ Pass(x) /\ stage[x] = AddTotal /\ Arrived(x)
      /\ nitems' = nitems + ltemp[last]
      /\ ltemp' = [y \in Items |-> IF y \in Group(x) THEN ltemp[y] + nitems ELSE ltemp[y]]
  <2>1. Item(x, lsize - 1) = last
    <3>1. First(x) \in Nat /\ lsize \in Nat
      BY GroupShape, LaunchSize DEF ResultInv
    <3> QED  BY <3>1 DEF Item
  <2> HIDE DEF last
  <2> QED  BY <2>1 DEF AddOffset
<1>2. /\ Statement \in Nat /\ AddTotal \in Nat /\ AddTotal > Statement /\ LaunchOK
  BY Stages DEF ResultInv
<1>3. /\ stage' \in [Items -> Nat] /\ stage \in [Items -> Nat]
      /\ \A y \in Items : stage'[y] = IF y = x THEN stage[x] + 1 ELSE stage[y]
  BY <1>1, Passing
<1>4. /\ \A y \in G : Cardinality(Segment(y, k)) \in 1..n
      /\ \A y, z \in G : Cardinality(Segment(y, k)) = Cardinality(Segment(z, k)) => y = z
      /\ last \in Group(x) /\ Segment(last, k) = G /\ IsFiniteSet(G) /\ n \in Nat
  <2>1. G = {y \in Counted : y \in Group(x)} /\ k = AddTotal - Statement - 1
    OBVIOUS
  <2> HIDE DEF G, k
  <2> QED  BY <2>1, <1>2, GroupRanks
<1>5. x = First(x) /\ Group(x) \subseteq Items
  BY <1>2, GroupStart, GroupShape
<1> HIDE DEF last, n
<1>6. ASSUME NEW y \in Group(x)
      PROVE  ltemp[y] = Cardinality(Segment(y, k)) /\ First(y) = x
  <2>1. y \in Items /\ First(y) = x /\ x \in Group(y)
    BY <1>2, <1>5, SameGroup
  <2>2. stage[y] >= AddTotal /\ stage[y] \in Nat /\ stage[First(y)] <= AddTotal
    BY <2>1, <1>1, <1>2, <1>3 DEF Arrived
  <2>3. SumRounds(stage[y]) = k /\ stage[y] > Statement
    BY <2>2, <1>2 DEF SumRounds
  <2>4. ltemp[y] = Cardinality(Segment(y, SumRounds(stage[y])))
    BY <2>1, <2>2, <2>3 DEF ResultInv, SumInv
  <2> QED  BY <2>1, <2>3, <2>4
<1> HIDE DEF k
<1>7. nitems \in Nat /\ nitems' = nitems + n /\ nitems' \in Nat /\ ltemp \in [Items -> Int]
  <2>1. ltemp[last] = n
    BY <1>4, <1>6 DEF n
  <2>2. nitems \in Nat /\ ltemp \in [Items -> Int]
    BY DEF ResultInv, ValuesOK
  <2> QED  BY <2>1, <2>2, <1>1, <1>4
<1>8. /\ ltemp' \in [Items -> Int]
      /\ \A y \in Items : y \in Group(x) => ltemp'[y] = ltemp[y] + nitems
      /\ \A y \in Items : y \notin Group(x) => ltemp'[y] = ltemp[y]
  BY <1>1, <1>7
<1>9. \A y \in G : ltemp[y] \in 1..n /\ ltemp'[y] = ltemp[y] + nitems /\ y \in Items
  BY <1>4, <1>5, <1>6, <1>8
<1>10. \A y, z \in G : ltemp[y] = ltemp[z] => y = z
  BY <1>4, <1>6
<1>11. /\ Placed \cap G = {} /\ Placed' = Placed \cup G
       /\ Placed \subseteq Items /\ \A y \in Placed : y \notin Group(x)
  <2>1. Counted' = Counted /\ AddTotal' = AddTotal /\ \A y : First(y)' = First(y)
    BY <1>1, SameRows, SameChunk
  <2>2. \A y \in Items : First(y) = x => y \in Group(x)
    <3> SUFFICES ASSUME NEW y \in Items, First(y) = x PROVE y \in Group(x)
      OBVIOUS
    <3>1. First(y) \in Group(y)
      BY <1>2, GroupShape
    <3> QED  BY <3>1, <1>2, SameGroup
  <2>3. \A y \in Counted : y \in Items
    BY DEF Counted
  <2>4. Placed' = {y \in Counted : stage'[First(y)] > AddTotal}
    BY <2>1 DEF Placed
  <2>5. \A y \in Items : stage'[First(y)] > AddTotal <=> stage[First(y)] > AddTotal \/ y \in Group(x)
    <3> SUFFICES ASSUME NEW y \in Items
                 PROVE  stage'[First(y)] > AddTotal <=> stage[First(y)] > AddTotal \/ y \in Group(x)
      OBVIOUS
    <3>1. First(y) \in Items
      BY FirstNear
    <3> QED  BY <3>1, <2>2, <1>1, <1>2, <1>3, <1>6
  <2>6. \A y \in Group(x) : ~(stage[First(y)] > AddTotal)
    BY <1>1, <1>2, <1>3, <1>6
  <2> QED  BY <2>3, <2>4, <2>5, <2>6 DEF Placed
<1>12. nitems' = Cardinality(Placed')
  <2>1. IsFiniteSet(Placed)
    BY <1>2, <1>11, CountedFinite
  <2>2. nitems = Cardinality(Placed)
    BY DEF ResultInv, PlaceInv
  <2> HIDE DEF G
  <2>3. Cardinality(Placed \cup G) = Cardinality(Placed) + Cardinality(G) - Cardinality(Placed \cap G)
    BY <2>1, <1>4, FS_Union
  <2>4. Cardinality(Placed \cap G) = 0
    BY <1>11, FS_EmptySet
  <2> QED  BY <2>2, <2>3, <2>4, <1>4, <1>7, <1>11 DEF n
<1>13. \A y \in Placed : ltemp[y] \in 1..nitems /\ ltemp'[y] = ltemp[y]
  BY <1>8, <1>11 DEF ResultInv, PlaceInv
<1>14. \A y, z \in Placed : ltemp[y] = ltemp[z] => y = z
  BY DEF ResultInv, PlaceInv
<1> HIDE DEF G
<1>15. \A y \in Placed \cup G : ltemp'[y] \in 1..nitems'
  BY <1>4, <1>7, <1>9, <1>13
<1>16. ASSUME NEW y \in Placed \cup G, NEW z \in Placed \cup G, ltemp'[y] = ltemp'[z] PROVE y = z
  <2>1. CASE y \in Placed /\ z \in Placed
    BY <2>1, <1>13, <1>14, <1>16
  <2>2. CASE y \in G /\ z \in G
    <3>1. ltemp[y] \in Int /\ ltemp[z] \in Int /\ ltemp[y] + nitems = ltemp[z] + nitems
      BY <2>2, <1>9, <1>16
    <3> QED  BY <3>1, <2>2, <1>7, <1>10
  <2>3. CASE y \in Placed /\ z \in G
    BY <2>3, <1>7, <1>9, <1>13, <1>16
  <2>4. CASE y \in G /\ z \in Placed
    BY <2>4, <1>7, <1>9, <1>13, <1>16
  <2> QED  BY <2>1, <2>2, <2>3, <2>4
<1> QED  BY <1>7, <1>8, <1>11, <1>12, <1>15, <1>16 DEF PlaceInv

LEMMA OffsetResult ==
  ASSUME ResultInv, NEW x \in Items, AddOffset(x)
  PROVE  ResultInv'
<1>1. /\ UNCHANGED launchVars /\ Pass(x) /\ stage[x] = AddTotal /\ Arrived(x)
      /\ UNCHANGED <<lerror, errcode, results>> /\ UNCHANGED hostVars
      /\ LocalId(x) # 0 => nitems' = nitems /\ ltemp' = ltemp
  BY DEF AddOffset
<1>2. /\ Statement \in Nat /\ Statement >= 1 /\ AddTotal \in Nat /\ AddTotal > Statement
      /\ WriteBack = AddTotal + 1 /\ Finished = AddTotal + 2 /\ LaunchOK
  BY Stages DEF ResultInv
<1>3. /\ stage' \in [Items -> Nat] /\ stage \in [Items -> Nat]
      /\ \A y \in Items : stage'[y] = IF y = x THEN stage[x] + 1 ELSE stage[y]
  BY <1>1, Passing
<1>4. /\ Items' = Items /\ LaunchOK' /\ ChunkOK' /\ Rows' = Rows /\ WriteBack' = WriteBack
  BY <1>1, SameChunk DEF ResultInv
<1>5. /\ ltemp' \in [Items -> Int] /\ nitems' \in Nat
      /\ \A y \in Items : y \notin Group(x) \/ LocalId(x) # 0 => ltemp'[y] = ltemp[y]
  BY <1>1, PlaceGroup DEF ResultInv, ValuesOK
<1>6. \A y \in Group(x) : y \in Items /\ stage[y] >= AddTotal /\ stage[y] <= WriteBack
  <2> SUFFICES ASSUME NEW y \in Group(x)
               PROVE  y \in Items /\ stage[y] >= AddTotal /\ stage[y] <= WriteBack
    OBVIOUS
  <2>1. y \in Items /\ x \in Group(y)
    BY <1>2, SameGroup
  <2> QED  BY <2>1, <1>1, <1>2, <1>3 DEF Arrived, ResultInv, BarrierInv
<1>7. ValuesOK'
  BY <1>1, <1>4, <1>5 DEF ResultInv, ValuesOK
<1>8. BarrierInv'
  BY <1>1, <1>2, BarrierStep
<1>9. EvaluatedInv'
  BY <1>1, <1>2, KeepEvaluated
<1>10. ReduceInv'
  <2>1. \A y \in Items : y # x /\ stage[y] <= Statement => ltemp'[y] = ltemp[y]
    BY <1>2, <1>3, <1>5, <1>6
  <2> QED  BY <2>1, <1>1, <1>2, KeepReduce
<1>11. ReportInv'
  <2>1. stage[x] # Statement
    BY <1>1, <1>2
  <2> QED  BY <2>1, <1>1, KeepReport
<1>12. SumInv'
  <2> SUFFICES ASSUME NEW y \in Items, stage'[y] > Statement, stage'[First(y)] <= AddTotal
               PROVE  ltemp'[y] = Cardinality(Segment(y, SumRounds(stage'[y])))
    BY <1>1, SumNext
  <2>1. First(y) # x
    BY <1>1, <1>2, <1>3
  <2>2. LocalId(x) = 0 => y \notin Group(x)
    <3>1. y \in Group(x) => First(y) = First(x)
      BY <1>2, SameGroup
    <3>2. LocalId(x) = 0 => First(x) = x
      BY <1>2, GroupStart
    <3> QED  BY <3>1, <3>2, <2>1
  <2>3. ltemp'[y] = ltemp[y]
    BY <2>2, <1>5
  <2>4. CASE y = x
    <3>1. SumRounds(stage'[x]) = SumRounds(stage[x])
      BY <1>1, <1>2, <1>3 DEF SumRounds
    <3>2. First(x) \in Items
      BY FirstNear
    <3>3. stage[x] > Statement /\ stage[First(x)] <= AddTotal
      BY <3>2, <2>1, <2>4, <1>1, <1>2, <1>3
    <3> QED  BY <3>1, <3>3, <2>3, <2>4 DEF ResultInv, SumInv
  <2>5. CASE y # x
    BY <2>3, <2>5, <1>1, KeepSums
  <2> QED  BY <2>4, <2>5
<1>13. PlaceInv' /\ StoreInv'
  <2>1. CASE LocalId(x) # 0
    BY <2>1, <1>1, <1>2, <1>5, KeepPlaces
  <2>2. CASE LocalId(x) = 0
    <3>1. PlaceInv'
      BY <2>2, PlaceGroup
    <3>2. Counted' = Counted /\ \A y : Mark(y)' = Mark(y)
      BY <1>1, SameRows
    <3>3. StoreInv'
      <4> SUFFICES ASSUME NEW y \in Counted, stage'[y] > WriteBack
                   PROVE  results[ltemp'[y] - 1] = Mark(y)
        BY <3>2, <1>1, <1>4 DEF StoreInv
      <4>1. y \in Items
        BY DEF Counted
      <4>2. y # x /\ stage[y] > WriteBack
        BY <4>1, <1>1, <1>2, <1>3
      <4>3. y \notin Group(x)
        BY <4>2, <1>2, <1>3, <1>6
      <4> QED  BY <4>1, <4>2, <4>3, <1>5 DEF ResultInv, StoreInv
    <3> QED  BY <3>1, <3>3
  <2> QED  BY <2>1, <2>2
<1>14. HostInv'
  BY <1>1, <1>2, <1>5, KeepHost
<1> QED  BY <1>3, <1>4, <1>7, <1>8, <1>9, <1>10, <1>11, <1>12, <1>13, <1>14 DEF ResultInv

LEMMA RowsPlaced ==
  ASSUME ResultInv
  PROVE  /\ Counted \subseteq Rows /\ IsFiniteSet(Rows) /\ Cardinality(Rows) = nrooms
         /\ nitems <= nrooms /\ nitems \in Nat /\ nrooms \in Nat
         /\ \A y \in Placed : ltemp[y] - 1 \in Rows /\ ltemp[y] \in Int
<1>1. nrooms \in Nat /\ nitems \in Nat
  BY DEF ResultInv, ChunkOK, ValuesOK
<1>2. IsFiniteSet(Rows) /\ Cardinality(Rows) = nrooms
  <2>1. 0 \in Int /\ nrooms - 1 \in Int
    BY <1>1
  <2>2. IsFiniteSet(Rows) /\ Cardinality(Rows) = IF 0 > nrooms - 1 THEN 0 ELSE nrooms - 1 - 0 + 1
    BY <2>1, FS_Interval DEF Rows
  <2> QED  BY <2>2, <1>1
<1>3. Counted \subseteq Rows
  BY <1>1 DEF Counted, Items, Rows
<1>4. Placed \in SUBSET Rows
  BY <1>3 DEF Placed
<1>5. nitems <= nrooms
  BY <1>2, <1>4, FS_Subset DEF ResultInv, PlaceInv
<1>6. \A y \in Placed : ltemp[y] \in 1..nitems
  BY DEF ResultInv, PlaceInv
<1>7. \A y \in Placed : ltemp[y] - 1 \in Rows /\ ltemp[y] \in Int
  BY <1>1, <1>5, <1>6 DEF Rows
<1> QED  BY <1>1, <1>2, <1>3, <1>5, <1>7

LEMMA RowResult ==
  ASSUME ResultInv, NEW x \in Items, WriteRow(x)
  PROVE  ResultInv'
<1>1. /\ UNCHANGED launchVars /\ Pass(x) /\ stage[x] = WriteBack /\ Arrived(x)
      /\ UNCHANGED <<lerror, ltemp, errcode, nitems>> /\ UNCHANGED hostVars
  BY DEF WriteRow
<1>2. /\ Statement \in Nat /\ Statement >= 1 /\ AddTotal \in Nat /\ AddTotal > Statement
      /\ WriteBack = AddTotal + 1 /\ Finished = AddTotal + 2 /\ LaunchOK
  BY Stages DEF ResultInv
<1>3. /\ stage' \in [Items -> Nat] /\ stage \in [Items -> Nat]
      /\ \A y \in Items : stage'[y] = IF y = x THEN stage[x] + 1 ELSE stage[y]
  BY <1>1, Passing
<1>4. /\ Items' = Items /\ LaunchOK' /\ ChunkOK' /\ Rows' = Rows /\ WriteBack' = WriteBack
      /\ AddTotal' = AddTotal /\ \A y : First(y)' = First(y)
  BY <1>1, SameChunk DEF ResultInv
<1>5. Counted' = Counted /\ \A y : Mark(y)' = Mark(y)
  BY <1>1, SameRows
<1>6. lerror[x] = EvalError(x) /\ x \in Int /\ results \in [Rows -> Int]
  BY <1>1, <1>2 DEF ResultInv, EvaluatedInv, ValuesOK, Items
\* the row of the item has its place
<1>7. First(x) \in Items /\ stage[First(x)] > AddTotal
  <2>1. First(x) \in Group(x) /\ First(x) \in Items
    BY <1>2, GroupShape
  <2> QED  BY <2>1, <1>1, <1>2, <1>3 DEF Arrived
<1>8. x \in Counted => /\ x \in Placed /\ ltemp[x] - 1 \in Rows
                       /\ results' = [results EXCEPT ![ltemp[x] - 1] = Mark(x)]
  <2> SUFFICES ASSUME x \in Counted
               PROVE  /\ x \in Placed /\ ltemp[x] - 1 \in Rows
                      /\ results' = [results EXCEPT ![ltemp[x] - 1] = Mark(x)]
    OBVIOUS
  <2>1. x \in Placed
    BY <1>7 DEF Placed
  <2>2. x < nrooms /\ EvalError(x) \in {Success, RowReCheck} /\ Success # RowReCheck
    BY DEF Counted, Success, RowReCheck
  <2>3. results' = [results EXCEPT ![ltemp[x] - 1] = Mark(x)]
    <3>1. CASE EvalError(x) = Success
      <4>1. /\ x < nrooms /\ lerror[x] = Success /\ ~(x < nrooms /\ lerror[x] = RowReCheck)
            /\ Mark(x) = x + 1
        BY <3>1, <2>2, <1>6 DEF Mark
      <4> QED  BY <4>1 DEF WriteRow
    <3>2. CASE EvalError(x) = RowReCheck
      <4>1. /\ x < nrooms /\ lerror[x] = RowReCheck /\ ~(x < nrooms /\ lerror[x] = Success)
            /\ Mark(x) = -(x + 1)
        BY <3>2, <2>2, <1>6 DEF Mark
      <4> QED  BY <4>1 DEF WriteRow
    <3> QED  BY <3>1, <3>2, <2>2
  <2> QED  BY <2>1, <2>3, RowsPlaced
<1>9. x \notin Counted => results' = results
  <2>1. x \notin Counted => ~(x < nrooms /\ lerror[x] = Success) /\ ~(x < nrooms /\ lerror[x] = RowReCheck)
    BY <1>6 DEF Counted
  <2> QED  BY <2>1 DEF WriteRow
<1>10. Mark(x) \in Int
  BY <1>6 DEF Mark
<1>11. results' \in [Rows -> Int]
  <2>1. CASE x \in Counted
    BY <2>1, <1>6, <1>8, <1>10
  <2>2. CASE x \notin Counted
    BY <2>2, <1>6, <1>9
  <2> QED  BY <2>1, <2>2
<1>12. ValuesOK'
  BY <1>1, <1>4, <1>11 DEF ResultInv, ValuesOK
<1>13. BarrierInv'
  BY <1>1, <1>2, BarrierStep
<1>14. EvaluatedInv'
  BY <1>1, <1>2, KeepEvaluated
<1>15. ReduceInv'
  BY <1>1, <1>2, KeepReduce
<1>16. ReportInv'
  <2>1. stage[x] # Statement
    BY <1>1, <1>2
  <2> QED  BY <2>1, <1>1, KeepReport
<1>17. SumInv'
  <2> SUFFICES ASSUME NEW y \in Items, stage'[y] > Statement, stage'[First(y)] <= AddTotal
               PROVE  ltemp'[y] = Cardinality(Segment(y, SumRounds(stage'[y])))
    BY <1>1, SumNext
  <2>1. y # x
    BY <1>2, <1>3, <1>7
  <2> QED  BY <2>1, <1>1, KeepSums
<1>18. PlaceInv'
  <2>1. \A y \in Items : First(y) \in Items
    BY FirstNear
  <2>2. \A y \in Items : stage'[First(y)] > AddTotal <=> stage[First(y)] > AddTotal
    BY <2>1, <1>1, <1>2, <1>3
  <2>3. Placed' = Placed
    BY <2>2, <1>4, <1>5 DEF Placed, Counted
  <2> QED  BY <2>3, <1>1 DEF ResultInv, PlaceInv
<1>19. StoreInv'
  <2> SUFFICES ASSUME NEW y \in Counted, stage'[y] > WriteBack
               PROVE  results'[ltemp[y] - 1] = Mark(y)
    BY <1>1, <1>4, <1>5 DEF StoreInv
  <2>1. y \in Items
    BY DEF Counted
  <2>2. CASE y = x
    BY <2>2, <1>6, <1>8
  <2>3. CASE y # x
    <3>1. stage[y] > WriteBack
      BY <2>1, <2>3, <1>3
    <3>2. results[ltemp[y] - 1] = Mark(y)
      BY <3>1 DEF ResultInv, StoreInv
    <3>3. y \in Placed
      <4>1. stage[y] <= stage[First(y)] + 1 /\ stage[First(y)] \in Nat /\ stage[y] \in Nat
        BY <2>1, FirstNear
      <4> QED  BY <4>1, <3>1, <1>2 DEF Placed
    <3>4. CASE x \in Counted
      <4>1. ltemp[y] # ltemp[x]
        BY <3>3, <3>4, <2>3, <1>8 DEF ResultInv, PlaceInv
      <4>2. ltemp[y] - 1 # ltemp[x] - 1 /\ ltemp[y] - 1 \in Rows
        BY <4>1, <3>3, <3>4, <1>8, RowsPlaced
      <4> QED  BY <4>2, <3>2, <3>4, <1>6, <1>8
    <3>5. CASE x \notin Counted
      BY <3>2, <3>5, <1>9
    <3> QED  BY <3>4, <3>5
  <2> QED  BY <2>2, <2>3
<1>20. HostInv'
  BY <1>1, <1>2, KeepHost DEF ResultInv, ValuesOK
<1> QED  BY <1>3, <1>4, <1>12, <1>13, <1>14, <1>15, <1>16, <1>17, <1>18, <1>19, <1>20 DEF ResultInv

\* Steps that leave the work items alone
LEMMA KeepResult ==
  ASSUME ResultInv, UNCHANGED <<launchVars, groupVars, resultVars>>, HostInv'
  PROVE  ResultInv'
<1>1. UNCHANGED launchVars /\ UNCHANGED <<stage, lerror, ltemp, nitems, errcode, results>>
  BY DEF groupVars, resultVars
<1>2. /\ Items' = Items /\ Rows' = Rows /\ LaunchOK' = LaunchOK /\ ChunkOK' = ChunkOK
      /\ Statement' = Statement /\ AddTotal' = AddTotal
      /\ WriteBack' = WriteBack /\ Finished' = Finished
      /\ \A x : LocalId(x)' = LocalId(x) /\ Group(x)' = Group(x) /\ First(x)' = First(x)
  BY <1>1, SameChunk
<1>3. /\ Counted' = Counted /\ ErrorsOf(Items)' = ErrorsOf(Items)
      /\ \A x : EvalError(x)' = EvalError(x) /\ Mark(x)' = Mark(x)
      /\ \A x : ErrorsOf(Group(x))' = ErrorsOf(Group(x))
      /\ \A x, k : ErrorsOf(Span(x, k))' = ErrorsOf(Span(x, k))
  BY <1>1, SameRows
<1>4. ValuesOK' /\ BarrierInv' /\ EvaluatedInv'
  BY <1>1, <1>2, <1>3 DEF ResultInv, ValuesOK, BarrierInv, EvaluatedInv
<1>5. ReduceInv'
  BY <1>1, <1>2, <1>3 DEF ResultInv, ReduceInv, Stands, Significant
<1>6. ReportInv'
  BY <1>1, <1>2, <1>3 DEF ResultInv, ReportInv, Success
<1>7. SumInv'
  BY <1>1, SumNext DEF ResultInv, SumInv
<1>8. Placed' = Placed
  BY <1>1, <1>2, <1>3 DEF Placed
<1>9. PlaceInv' /\ StoreInv'
  BY <1>1, <1>2, <1>3, <1>8 DEF ResultInv, PlaceInv, StoreInv
<1> QED  BY <1>1, <1>2, <1>4, <1>5, <1>6, <1>7, <1>9 DEF ResultInv

LEMMA HostResult ==
  ASSUME ResultInv, PickChunk \/ NextTuple \/ EndOfChunk \/ Done \/ UNCHANGED vars
  PROVE  ResultInv'
<1>1. UNCHANGED <<launchVars, groupVars, resultVars>>
  BY DEF PickChunk, NextTuple, EndOfChunk, Done, vars
<1>2. KernelEnded' = KernelEnded /\ nitems' = nitems /\ results' = results /\ nitems \in Nat
  BY <1>1, SameChunk DEF KernelEnded, groupVars, resultVars, ResultInv, ValuesOK
<1>3. /\ IF host = "wait" THEN returned = << >> ELSE KernelEnded
      /\ returned \in Seq(Int) /\ Len(returned) <= nitems
      /\ \A k \in 1..Len(returned) : results[k - 1] > 0 /\ returned[k] = results[k - 1] - 1
      /\ host = "end" => Len(returned) = nitems
  BY DEF ResultInv, HostInv
<1>4. CASE PickChunk
  <2>1. host' \in {"error", "rows"} /\ returned' = returned /\ KernelEnded
    BY <1>4 DEF PickChunk
  <2>2. HostInv'
    BY <2>1, <1>2, <1>3 DEF HostInv
  <2> QED  BY <2>2, <1>1, KeepResult
<1>5. CASE NextTuple
  <2> DEFINE n == Len(returned)
             v == results[n]
  <2>1. KernelEnded /\ n < nitems /\ n \in Nat /\ host = "rows"
    BY <1>3, <1>5 DEF NextTuple
  <2>2. \/ v > 0 /\ returned' = Append(returned, v - 1) /\ host' = host
        \/ host' = "assert" /\ returned' = returned
    BY <1>5 DEF NextTuple
  <2>3. CASE v > 0 /\ returned' = Append(returned, v - 1) /\ host' = host
    <3>1. v \in Int
      <4>1. n \in Rows
        BY <2>1, <1>2, RowsPlaced DEF Rows
      <4> QED  BY <4>1 DEF ResultInv, ValuesOK
    <3> HIDE DEF v
    <3>2. /\ returned' \in Seq(Int) /\ Len(returned') = n + 1 /\ Len(returned') <= nitems
          /\ returned'[n + 1] = v - 1 /\ \A k \in 1..n : returned'[k] = returned[k]
      BY <3>1, <2>1, <2>3, <1>2, <1>3
    <3>3. ASSUME NEW k \in 1..(n + 1) PROVE results[k - 1] > 0 /\ returned'[k] = results[k - 1] - 1
      <4>1. CASE k = n + 1
        <5>1. k - 1 = n
          BY <4>1, <2>1
        <5> QED  BY <5>1, <4>1, <3>2, <2>3 DEF v
      <4>2. CASE k # n + 1
        <5>1. k \in 1..n
          BY <4>2, <2>1
        <5> QED  BY <5>1, <3>2, <1>3
      <4> QED  BY <4>1, <4>2
    <3>4. HostInv'
      BY <3>2, <3>3, <2>1, <2>3, <1>2 DEF HostInv
    <3> QED  BY <3>4, <1>1, KeepResult
  <2>4. CASE host' = "assert" /\ returned' = returned
    <3>1. HostInv'
      BY <2>1, <2>4, <1>2, <1>3 DEF HostInv
    <3> QED  BY <3>1, <1>1, KeepResult
  <2> QED  BY <2>2, <2>3, <2>4
<1>6. CASE EndOfChunk
  <2>1. /\ host' = "end" /\ host = "rows" /\ returned' = returned
        /\ KernelEnded /\ Len(returned) >= nitems
    BY <1>3, <1>6 DEF EndOfChunk
  <2>2. Len(returned) = nitems
    BY <2>1, <1>2, <1>3
  <2>3. HostInv'
    BY <2>1, <2>2, <1>2, <1>3 DEF HostInv
  <2> QED  BY <2>3, <1>1, KeepResult
<1>7. CASE Done \/ UNCHANGED vars
  <2>1. UNCHANGED <<host, returned>>
    BY <1>7 DEF Done, vars, hostVars
  <2>2. HostInv'
    BY <2>1, <1>2, <1>3 DEF HostInv
  <2> QED  BY <2>2, <1>1, KeepResult
<1> QED  BY <1>4, <1>5, <1>6, <1>7

LEMMA ResultNext == ResultInv /\ [Next]_vars => ResultInv'
<1> SUFFICES ASSUME ResultInv, [Next]_vars PROVE ResultInv'
  OBVIOUS
<1>1. ASSUME NEW x \in Items, WorkItem(x) PROVE ResultInv'
  <2>1. CASE DebugReserve(x)
    <3>1. UNCHANGED <<launchVars, groupVars, resultVars, hostVars>>
      BY <2>1 DEF DebugReserve
    <3>2. KernelEnded' = KernelEnded
      BY <3>1, SameChunk DEF KernelEnded, groupVars
    <3>3. HostInv'
      BY <3>1, <3>2 DEF ResultInv, HostInv, hostVars, resultVars
    <3> QED  BY <3>1, <3>3, KeepResult
  <2> QED  BY <2>1, <1>1, EvaluateResult, ReduceResult, ReportResult, PrefixResult,
              OffsetResult, RowResult DEF WorkItem
<1>2. CASE \E x \in Items : WorkItem(x)
  BY <1>1, <1>2
<1>3. CASE PickChunk \/ NextTuple \/ EndOfChunk \/ Done \/ UNCHANGED vars
  BY <1>3, HostResult
<1> QED  BY <1>2, <1>3 DEF Next

LEMMA ResultInit == Init => ResultInv
<1> SUFFICES ASSUME Init PROVE ResultInv
  OBVIOUS
<1>1. LaunchOK /\ ChunkOK
  <2>1. PICK l \in Launches :
          /\ ngroups = l[1] /\ lsize = l[2]
          /\ nrooms \in ((l[1] - 1) * l[2] + 1)..(l[1] * l[2])
    BY DEF Init
  <2>2. l[1] \in Nat \ {0} /\ l[2] \in Nat \ {0}
    BY LaunchesAssumption
  <2>3. (l[1] - 1) * l[2] \in Nat /\ l[1] * l[2] \in Nat
    BY <2>2
  <2>4. nrooms \in Nat /\ nrooms <= ngroups * lsize
    BY <2>1, <2>3
  <2> QED  BY <2>1, <2>4 DEF Init, LaunchOK, ChunkOK
<1>2. stage \in [Items -> Nat] /\ \A x \in Items : stage[x] = 0
  BY DEF Init
<1>3. /\ Statement \in Nat /\ Statement >= 1 /\ AddTotal \in Nat
      /\ WriteBack = AddTotal + 1 /\ Finished = AddTotal + 2
  BY <1>1, Stages
<1>4. \A x \in Items : First(x) \in Items /\ \A y \in Group(x) : y \in Items
  <2>1. \A x \in Items : First(x) \in Group(x)
    BY <1>1, GroupShape
  <2> QED  BY <2>1 DEF Group
<1>5. ValuesOK /\ BarrierInv /\ EvaluatedInv
  BY <1>2, <1>3, <1>4 DEF Init, ValuesOK, BarrierInv, EvaluatedInv, Success
<1>6. ReduceInv
  BY <1>2, <1>3 DEF ReduceInv
<1>7. ReportInv /\ SumInv
  BY <1>2, <1>3 DEF Init, ReportInv, SumInv
<1>8. Placed = {}
  BY <1>2, <1>3, <1>4 DEF Placed, Counted
<1>9. PlaceInv
  BY <1>8, FS_EmptySet DEF Init, PlaceInv
<1>10. StoreInv
  BY <1>2, <1>3 DEF StoreInv, Counted
<1>11. HostInv
  BY DEF Init, HostInv
<1> QED  BY <1>1, <1>2, <1>5, <1>6, <1>7, <1>9, <1>10, <1>11 DEF ResultInv

(***************************************************************************)
(* What the results mean.                                                  *)
(***************************************************************************)
LEMMA RowMeaning ==
  ASSUME LaunchOK, ChunkOK, NEW r \in Rows
  PROVE  /\ r \in Items
         /\ EvalError(r) = Success <=> Passes(r)
         /\ EvalError(r) = RowReCheck <=> ReChecks(r)
         /\ Significant(EvalError(r)) <=> Fails(r)
         /\ Fails(r) => EvalError(r) \in Raised(r)
<1> DEFINE codes == raises[r]
           L == Len(codes)
           c == EvalError(r)
<1>1. r \in Items /\ codes \in Evaluations /\ c = LeftError(codes)
  <2>1. r < nrooms /\ r \in Items
    BY LaunchSize DEF ChunkOK, Rows, Items
  <2> QED  BY <2>1 DEF ChunkOK, EvalError
<1>2. L \in Nat /\ L >= 1 /\ \A k \in 1..L : codes[k] \in Nat
  BY <1>1, EvaluationsAssumption
<1> HIDE DEF c
<1>3. /\ c \in Nat
      /\ IF \E j \in 1..L : Significant(codes[j])
         THEN Significant(c) /\ \E j \in 1..L : codes[j] = c
         ELSE c \in 0..2 /\ (\A j \in 1..L : codes[j] <= c) /\ \E j \in 1..L : codes[j] = c
  BY <1>1, LeftIs
<1>4. Raised(r) = {codes[k] : k \in 1..L}
  BY DEF Raised
<1> HIDE DEF codes, L
<1>5. CASE \E j \in 1..L : Significant(codes[j])
  <2>1. Fails(r) /\ Significant(c) /\ c \in Raised(r)
    BY <1>3, <1>4, <1>5 DEF Fails
  <2>2. c # Success /\ c # RowReCheck /\ ~Passes(r) /\ ~ReChecks(r)
    BY <2>1 DEF Significant, Success, RowReCheck, Passes, ReChecks, Fails
  <2> QED  BY <2>1, <2>2, <1>1 DEF c
<1>6. CASE ~\E j \in 1..L : Significant(codes[j])
  <2>1. /\ ~Fails(r) /\ c \in 0..2 /\ ~Significant(c) /\ (\A d \in Raised(r) : d <= c /\ d \in Nat)
        /\ c \in Raised(r)
    BY <1>2, <1>3, <1>4, <1>6 DEF Fails, Significant
  <2>2. c = Success <=> Passes(r)
    <3>1. ASSUME c = 0 PROVE Raised(r) = {0}
      <4>1. \A d \in Raised(r) : d = 0
        BY <3>1, <2>1
      <4> QED  BY <4>1, <3>1, <2>1
    <3>2. ASSUME Raised(r) = {0} PROVE c = 0
      BY <3>2, <2>1
    <3> QED  BY <3>1, <3>2 DEF Success, Passes
  <2>3. c = RowReCheck <=> ReChecks(r)
    BY <2>1 DEF RowReCheck, ReChecks
  <2> QED  BY <2>1, <2>2, <2>3, <1>1 DEF c
<1> QED  BY <1>5, <1>6

LEMMA KeptRows ==
  ASSUME LaunchOK, ChunkOK
  PROVE  /\ Counted = {r \in Rows : Passes(r) \/ ReChecks(r)}
         /\ \A r \in Counted : Mark(r) = IF Passes(r) THEN r + 1 ELSE -(r + 1)
         /\ ErrorsOf(Items) \subseteq Errors
         /\ Errors # {} => ErrorsOf(Items) # {}
<1>1. Rows \subseteq Items
  BY RowMeaning
<1>2. \A r \in Items : r < nrooms <=> r \in Rows
  BY DEF Items, Rows, ChunkOK
<1>3. Counted = {r \in Rows : Passes(r) \/ ReChecks(r)}
  BY <1>1, <1>2, RowMeaning DEF Counted
<1>4. \A r \in Counted : Mark(r) = IF Passes(r) THEN r + 1 ELSE -(r + 1)
  BY <1>3, RowMeaning DEF Mark
<1>5. ASSUME NEW c \in ErrorsOf(Items) PROVE c \in Errors
  <2>1. PICK r \in Items : c = EvalError(r) /\ Significant(c)
    BY <1>5 DEF ErrorsOf
  <2>2. r < nrooms
    BY <2>1 DEF EvalError, RowFiltered, Significant
  <2>3. r \in Rows /\ c \in Raised(r)
    BY <2>1, <2>2, <1>2, RowMeaning
  <2> QED  BY <2>1, <2>3 DEF Errors
<1>6. ASSUME NEW c \in Errors PROVE ErrorsOf(Items) # {}
  <2>1. PICK r \in Rows : c \in Raised(r) /\ Significant(c)
    BY <1>6 DEF Errors
  <2>2. Significant(EvalError(r)) /\ r \in Items
    BY <2>1, RowMeaning DEF Fails
  <2> QED  BY <2>2 DEF ErrorsOf
<1> QED  BY <1>3, <1>4, <1>5, <1>6

\* At the end every place holds the row that it was taken for.
LEMMA PlacesFilled ==
  ASSUME ResultInv, KernelEnded
  PROVE  /\ nitems = Cardinality(Counted) /\ nitems \in Nat
         /\ {results[n] : n \in 0..(nitems - 1)} = {Mark(y) : y \in Counted}
         /\ \A y \in Counted : \E n \in 0..(nitems - 1) : results[n] = Mark(y)
         /\ \A n \in 0..(nitems - 1) : \E y \in Counted : results[n] = Mark(y)
<1>1. /\ AddTotal \in Nat /\ WriteBack = AddTotal + 1 /\ Finished = AddTotal + 2 /\ LaunchOK
  BY Stages DEF ResultInv
<1>2. Placed = Counted
  <2>1. \A y \in Counted : y \in Items /\ First(y) \in Items
    BY FirstNear DEF Counted
  <2> QED  BY <2>1, <1>1 DEF Placed, KernelEnded
<1>3. /\ nitems = Cardinality(Counted) /\ nitems \in Nat
      /\ \A y \in Counted : ltemp[y] \in 1..nitems
      /\ \A y, z \in Counted : ltemp[y] = ltemp[z] => y = z
  BY <1>2 DEF ResultInv, PlaceInv, ValuesOK
<1>4. \A y \in Counted : results[ltemp[y] - 1] = Mark(y) /\ ltemp[y] - 1 \in 0..(nitems - 1)
  <2>1. \A y \in Counted : stage[y] > WriteBack
    BY <1>1 DEF KernelEnded, Counted
  <2>2. \A y \in Counted : results[ltemp[y] - 1] = Mark(y)
    BY <2>1 DEF ResultInv, StoreInv
  <2> QED  BY <2>2, <1>3
<1> DEFINE N == 0..(nitems - 1)
           f == [y \in Counted |-> ltemp[y] - 1]
<1>5. f \in Injection(Counted, N)
  <2>1. f \in [Counted -> N]
    BY <1>4
  <2>2. ASSUME NEW y \in Counted, NEW z \in Counted, f[y] = f[z] PROVE y = z
    <3>1. ltemp[y] \in Int /\ ltemp[z] \in Int /\ ltemp[y] - 1 = ltemp[z] - 1
      BY <2>2, <1>3
    <3> QED  BY <3>1, <1>3
  <2> HIDE DEF f, N
  <2> QED  BY <2>1, <2>2 DEF Injection, IsInjective
<1>6. IsFiniteSet(N) /\ Cardinality(N) = nitems
  <2>1. 0 \in Int /\ nitems - 1 \in Int
    BY <1>3
  <2>2. IsFiniteSet(N) /\ Cardinality(N) = IF 0 > nitems - 1 THEN 0 ELSE nitems - 1 - 0 + 1
    BY <2>1, FS_Interval
  <2> QED  BY <2>2, <1>3
<1>7. ASSUME NEW n \in N PROVE \E y \in Counted : ltemp[y] - 1 = n
  <2>1. f \in Surjection(Counted, N)
    <3> HIDE DEF f, N
    <3> QED  BY <1>3, <1>5, <1>6, FS_Injection
  <2>2. \E y \in Counted : f[y] = n
    <3> HIDE DEF f, N
    <3> QED  BY <2>1, <1>7 DEF Surjection
  <2> QED  BY <2>2
<1>8. \A n \in N : \E y \in Counted : results[n] = Mark(y)
  BY <1>4, <1>7
<1>9. \A y \in Counted : \E n \in N : results[n] = Mark(y)
  BY <1>4
<1> HIDE DEF f
<1>10. {results[n] : n \in N} = {Mark(y) : y \in Counted}
  BY <1>8, <1>9
<1> QED  BY <1>3, <1>8, <1>9, <1>10

LEMMA ExactEnd == ResultInv => KernelExact
<1> SUFFICES ASSUME ResultInv, KernelEnded PROVE KernelExact
  BY DEF KernelExact
<1> DEFINE kept == {r \in Rows : Passes(r) \/ ReChecks(r)}
<1>1. /\ Counted = kept /\ \A r \in kept : Mark(r) = IF Passes(r) THEN r + 1 ELSE -(r + 1)
      /\ ErrorsOf(Items) \subseteq Errors /\ (Errors # {} => ErrorsOf(Items) # {})
  BY KeptRows DEF ResultInv
<1> HIDE DEF kept
<1>2. nitems = Cardinality(kept)
  BY <1>1, PlacesFilled
<1>3. {results[i] : i \in 0..(nitems - 1)} = {IF Passes(r) THEN r + 1 ELSE -(r + 1) : r \in kept}
  <2>1. {results[i] : i \in 0..(nitems - 1)} = {Mark(r) : r \in kept}
    BY <1>1, PlacesFilled
  <2>2. {Mark(r) : r \in kept} = {IF Passes(r) THEN r + 1 ELSE -(r + 1) : r \in kept}
    BY <1>1
  <2> QED  BY <2>1, <2>2
<1>4. errcode = Success \/ errcode \in ErrorsOf(Items)
  BY DEF ResultInv, ReportInv
<1>5. ErrorsOf(Items) # {} => errcode # Success
  <2> SUFFICES ASSUME NEW c \in ErrorsOf(Items) PROVE errcode # Success
    OBVIOUS
  <2>1. PICK x \in Items : c = EvalError(x) /\ Significant(c)
    BY DEF ErrorsOf
  <2>2. First(x) \in Group(x) /\ x \in Group(x) /\ LocalId(First(x)) = 0 /\ LaunchOK
    BY GroupShape, GroupStart DEF ResultInv
  <2>3. First(x) \in Items /\ Group(First(x)) = Group(x)
    BY <2>2, SameGroup
  <2>4. c \in ErrorsOf(Group(First(x)))
    BY <2>1, <2>2, <2>3 DEF ErrorsOf
  <2>5. stage[First(x)] > Statement
    BY <2>3, Stages DEF ResultInv, KernelEnded
  <2> QED  BY <2>2, <2>3, <2>4, <2>5 DEF ResultInv, ReportInv
<1>6. IF Errors = {} THEN errcode = Success ELSE errcode \in Errors
  BY <1>1, <1>4, <1>5
<1> QED  BY <1>2, <1>3, <1>6 DEF KernelExact, kept

\* The result buffer holds the rows that pass and those to be checked again, each
\* once, and the error is one of the chunk, for any number and size of the work
\* groups, any codes of the rows and any interleaving.
THEOREM ResultsExact == Spec => []KernelExact
BY ExactEnd, ResultInit, ResultNext, PTL DEF Spec

\* gpuscan_next_tuple_row returns the rows that pass, each once.
THEOREM ReturnsExact == Spec => []ReturnedExact
<1>1. ResultInv => ReturnedExact
  <2> SUFFICES ASSUME ResultInv, host = "end" PROVE ReturnedExact
    BY DEF ReturnedExact
  <2> DEFINE pass == {r \in Rows : Passes(r)}
  <2>1. /\ KernelEnded /\ Len(returned) = nitems
        /\ \A k \in 1..nitems : results[k - 1] > 0 /\ returned[k] = results[k - 1] - 1
    BY DEF ResultInv, HostInv
  <2>2. /\ nitems = Cardinality(Counted) /\ nitems \in Nat
        /\ \A y \in Counted : \E n \in 0..(nitems - 1) : results[n] = Mark(y)
        /\ \A n \in 0..(nitems - 1) : \E y \in Counted : results[n] = Mark(y)
    BY <2>1, PlacesFilled
  <2>3. \A n \in 0..(nitems - 1) : results[n] > 0 /\ returned[n + 1] = results[n] - 1
    <3> SUFFICES ASSUME NEW n \in 0..(nitems - 1)
                 PROVE  results[n] > 0 /\ returned[n + 1] = results[n] - 1
      OBVIOUS
    <3>1. n + 1 \in 1..nitems /\ (n + 1) - 1 = n
      BY <2>2
    <3> QED  BY <3>1, <2>1
  \* a row to be checked again would have stopped the backend
  <2>4. /\ Counted = {r \in Rows : Passes(r) \/ ReChecks(r)} /\ Counted \subseteq Rows
        /\ \A r \in Counted : Mark(r) = IF Passes(r) THEN r + 1 ELSE -(r + 1)
    BY KeptRows DEF ResultInv
  <2>5. ASSUME NEW r \in Counted PROVE Passes(r) /\ Mark(r) = r + 1 /\ r \in Nat
    <3>1. Mark(r) > 0 /\ r \in Nat
      BY <2>2, <2>3, <2>4 DEF Rows
    <3> QED  BY <3>1, <2>4
  <2>6. Counted = pass
    BY <2>4, <2>5
  <2>7. ASSUME NEW k \in 1..nitems PROVE returned[k] \in Counted
    <3>1. k - 1 \in 0..(nitems - 1)
      BY <2>2
    <3>2. PICK y \in Counted : results[k - 1] = Mark(y)
      BY <3>1, <2>2
    <3>3. Mark(y) = y + 1 /\ y \in Nat
      BY <2>5
    <3>4. returned[k] = Mark(y) - 1
      BY <3>2, <2>1
    <3>5. returned[k] = y
      BY <3>3, <3>4
    <3> QED  BY <3>5
  <2>8. ASSUME NEW y \in Counted PROVE \E k \in 1..nitems : returned[k] = y
    <3>1. PICK n \in 0..(nitems - 1) : results[n] = Mark(y)
      BY <2>2
    <3>2. n + 1 \in 1..nitems /\ returned[n + 1] = y
      BY <3>1, <2>2, <2>3, <2>5
    <3> QED  BY <3>2
  <2>9. {returned[k] : k \in 1..nitems} = Counted
    BY <2>7, <2>8
  <2> QED  BY <2>1, <2>2, <2>6, <2>9 DEF ReturnedExact
<1> QED  BY <1>1, ResultInit, ResultNext, PTL DEF Spec
=============================================================================
