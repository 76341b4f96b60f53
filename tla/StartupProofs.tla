---------------------------- MODULE StartupProofs ---------------------------
(***************************************************************************)
(* Theorems about Startup: whatever platforms and devices the server       *)
(* finds, one index means the same device in its array of devices, in its  *)
(* command queues and in what it publishes, and a backend that lists the   *)
(* devices while the server starts sees none of them or all in order.      *)
(*                                                                         *)
(* The devices of the platform selected so far are those of the first one  *)
(* with the best score before platform i; the records in the shared block  *)
(* follow each other, so that shmbase is a sum over the devices copied,    *)
(* never beyond the one that pgstrom_setup_opencl_devinfo computed before. *)
(* What a sum is, is by induction with the set of the numbers for which it *)
(* is so.                                                                  *)
(***************************************************************************)
EXTENDS Startup, WellFoundedInduction, TLAPS

(***************************************************************************)
(* The inductive invariants.                                               *)
(***************************************************************************)
Scanning == {"load", "nostart", "platforms", "devices"}
Running == {"info", "copy", "publish", "threads", "join", "stopped"}

\* The devices of a platform, and what they add to its score
DevsOf(k) == [l \in 1..Len(machine[k].devs) |-> <<k, l>>]
Scores(k) == [l \in DOMAIN Platform(k).devs |->
                Dev(<<k, l>>).power * (IF Dev(<<k, l>>).gpu THEN 32 ELSE 1)]

MachineOK ==
  /\ machine \in Machines /\ platformIndex \in Int
  /\ i \in 1..(Len(machine) + 1) /\ j \in Nat \ {0}

\* The devices of platform i before j have been scored.
ScoreInv ==
  pc = "devices" =>
    /\ i <= Len(machine) /\ j <= Len(machine[i].devs) + 1
    /\ temp = [l \in 1..(j - 1) |-> <<i, l>>]
    /\ score = Total(Scores(i), j - 1)

\* b is the first one with the best score of the platforms before n.
BestBefore(b, n) ==
  /\ \A m \in 1..(n - 1) : PlatformScore(m) <= PlatformScore(b)
  /\ \A m \in 1..(b - 1) : PlatformScore(m) < PlatformScore(b)

ChosenInv ==
  IF platformIndex >= 0
  THEN result = IF platformIndex + 1 < i THEN DevsOf(platformIndex + 1) ELSE <<>>
  ELSE IF i = 1 THEN result = <<>> /\ scoreMax = -1
  ELSE \E b \in 1..(i - 1) : /\ BestBefore(b, i)
                             /\ result = DevsOf(b) /\ scoreMax = PlatformScore(b)

ChosenAll ==
  pc \in Running \cup {"queues"} => i = Len(machine) + 1 /\ result # <<>>

QueueInv ==
  /\ openclDevices = result
  /\ pc \in Scanning => cmdq = <<>>
  /\ cmdq \in Seq(Nat \X Nat) /\ Len(cmdq) <= Len(result)
  /\ \A k \in 1..Len(cmdq) : cmdq[k] = result[k]
  /\ pc \in Running => Len(cmdq) = Len(result)

ZoneInv ==
  /\ pc \in Scanning \cup {"queues"} => ~isReady
  /\ isReady => \A k \in 1..Len(result) : zoneLength <= Dev(result[k]).alloc

DeviceInv ==
  /\ MachineOK /\ ScoreInv /\ ChosenInv /\ ChosenAll /\ QueueInv /\ ZoneInv

\* Where the record of device n + 1 begins
Sizes == [k \in DOMAIN result |-> MaxAlign(DeviceLen(result[k]))]
Base(n) == MaxAlign(PlatformLen) + MaxAlign(Len(result)) + Total(Sizes, n)

Record(n) == [at |-> devArray[n], len |-> DeviceLen(result[n]), what |-> result[n]]

\* Nothing is copied yet,
Blank ==
  /\ pc \in Scanning \cup {"queues", "info", "exit", "ub"}
  /\ copied = {} /\ devArray = <<>> /\ ~devinfoArray /\ numDevices = 0
  /\ pc \in Scanning \cup {"queues"} => blockLen = 0
  /\ pc = "info" => blockLen \in {0, InfoLength}

\* or the records follow each other up to shmbase, and the devices are counted
\* when all of them are there.
Filled ==
  /\ pc \in (Running \ {"info"}) \cup {"exit"}
  /\ blockLen = InfoLength /\ shmbase = Base(Len(devArray))
  /\ devArray \in Seq(Nat) /\ Len(devArray) <= Len(result) /\ result # <<>>
  /\ \A c \in copied : c.at \in Nat /\ c.len \in Nat \ {0} /\ c.at + c.len <= shmbase
  /\ \A c, d \in copied : c # d => c.at + c.len <= d.at \/ d.at + d.len <= c.at
  /\ \A n \in 1..Len(devArray) : Record(n) \in copied
  /\ pc # "copy" => Len(devArray) = Len(result)
  /\ numDevices \in {0, Len(result)}
  /\ pc = "copy" => ~devinfoArray /\ numDevices = 0
  /\ pc # "copy" => devinfoArray
  /\ pc = "publish" => numDevices = 0

InfoInv == Blank \/ Filled

\* A listing has one row per call, as far as devices are published; when it is
\* done it has shown no device or all.
ListInv ==
  /\ report \in [Backends -> [at : {"call", "info", "done", "fault"}, cntr : Nat,
                              rows : Seq({"undefined"} \cup (Nat \X Nat))]]
  /\ \A b \in Backends :
       /\ Len(report[b].rows) = report[b].cntr /\ report[b].cntr <= 2 * numDevices
       /\ report[b].at = "info" => report[b].cntr < 2 * numDevices
       /\ report[b].at = "done" => report[b].cntr \in {0, 2 * Len(result)}
       /\ \A n \in 1..report[b].cntr : n % 2 = 0 => report[b].rows[n] = result[n \div 2]

StartInv == DeviceInv /\ InfoInv /\ ListInv


(***************************************************************************)
(* Arithmetic.                                                             *)
(***************************************************************************)
\* Induction over the naturals, for a set.
LEMMA SetInduction ==
  ASSUME NEW T \in SUBSET Nat, 0 \in T, \A n \in T : n + 1 \in T
  PROVE  T = Nat
<1> SUFFICES ASSUME T # Nat PROVE FALSE
  OBVIOUS
<1> DEFINE R == OpToRel(<, Nat)
<1>1. Nat \ T # {} /\ Nat \ T \subseteq Nat
  OBVIOUS
<1>2. IsWellFoundedOn(R, Nat)
  BY NatLessThanWellFounded, Zenon
<1>3. \A x, y \in Nat : x < y => <<x, y>> \in R
  BY DEF OpToRel
<1> HIDE DEF R
<1>4. PICK x \in Nat \ T : \A y \in Nat \ T : ~ (<<y, x>> \in R)
  BY <1>1, <1>2, WFMin
<1>5. x # 0 /\ x - 1 \in Nat /\ x - 1 < x
  OBVIOUS
<1>6. x - 1 \in T
  BY <1>3, <1>4, <1>5
<1> QED  BY <1>5, <1>6

\* A set of naturals has a least element (Min).
LEMMA LeastIs ==
  ASSUME NEW S \in SUBSET Nat, S # {}
  PROVE  Min(S) \in S /\ \A y \in S : Min(S) <= y
<1> DEFINE R == OpToRel(<, Nat)
<1>1. IsWellFoundedOn(R, Nat)
  BY NatLessThanWellFounded, Zenon
<1>2. \A x, y \in Nat : x < y => <<x, y>> \in R
  BY DEF OpToRel
<1> HIDE DEF R
<1>3. PICK x \in S : \A y \in S : ~ (<<y, x>> \in R)
  BY <1>1, WFMin
<1>4. \A y \in S : x <= y
  <2>1. \A y \in S : y \in Nat /\ x \in Nat /\ ~(y < x)
    BY <1>2, <1>3
  <2> QED  BY <2>1
<1> QED  BY <1>3, <1>4, Zenon DEF Min

\* The sums of the first values of f, up to n of them
Sums(g, f, n) ==
  /\ g \in [0..n -> Nat] /\ g[0] = 0
  /\ \A k \in 1..n : g[k] = g[k - 1] + f[k]

\* The function that Total sums with
LEMMA TotalUnfold ==
  ASSUME NEW n \in Nat, NEW f, \A k \in 1..n : f[k] \in Nat
  PROVE  \E g : Sums(g, f, n) /\ Total(f, n) = g[n]
<1> DEFINE Sum(m, g) == Sums(g, f, m)
           T == {m \in Nat : m <= n => \E g : Sum(m, g)}
<1>1. 0 \in T
  <2>1. Sum(0, [k \in 0..0 |-> 0])
    BY DEF Sums
  <2> QED  BY <2>1
<1>2. ASSUME NEW m \in T PROVE m + 1 \in T
  <2> SUFFICES ASSUME m + 1 <= n PROVE \E g : Sum(m + 1, g)
    OBVIOUS
  <2>1. m \in Nat /\ m + 1 \in 1..n /\ m \in 0..m
    OBVIOUS
  <2>2. PICK g : Sum(m, g)
    BY <2>1
  <2> DEFINE c == g[m] + f[m + 1]
             h == [k \in 0..(m + 1) |-> IF k = m + 1 THEN c ELSE g[k]]
  <2>3. c \in Nat
    BY <2>1, <2>2 DEF Sums
  <2> HIDE DEF c
  <2>4. h \in [0..(m + 1) -> Nat] /\ h[0] = 0
    BY <2>1, <2>2, <2>3 DEF Sums
  <2>5. ASSUME NEW k \in 1..(m + 1) PROVE h[k] = h[k - 1] + f[k]
    <3>1. CASE k = m + 1
      <4>1. h[k] = c /\ h[k - 1] = g[m]
        BY <3>1, <2>1
      <4> QED  BY <4>1, <3>1 DEF c
    <3>2. CASE k # m + 1
      <4>1. k \in 1..m /\ k - 1 # m + 1 /\ k - 1 \in 0..(m + 1) /\ k \in 0..(m + 1)
        BY <3>2, <2>1
      <4>2. h[k] = g[k] /\ h[k - 1] = g[k - 1]
        BY <4>1, <3>2
      <4> QED  BY <4>1, <4>2, <2>2 DEF Sums
    <3> QED  BY <3>1, <3>2
  <2>6. Sum(m + 1, h)
    BY <2>4, <2>5 DEF Sums
  <2> QED  BY <2>6
<1>3. n \in T
  <2>1. T \in SUBSET Nat
    OBVIOUS
  <2> HIDE DEF T
  <2> QED  BY <2>1, <1>1, <1>2, SetInduction
<1>4. PICK g : Sum(n, g)
  BY <1>3
<1>5. g = [k \in 0..n |-> IF k = 0 THEN 0 ELSE g[k - 1] + f[k]]
  <2>1. \A k \in 0..n : g[k] = IF k = 0 THEN 0 ELSE g[k - 1] + f[k]
    BY <1>4 DEF Sums
  <2> QED  BY <2>1, <1>4 DEF Sums
<1>6. \E e : /\ e = [k \in 0..n |-> IF k = 0 THEN 0 ELSE e[k - 1] + f[k]]
             /\ Total(f, n) = e[n]
  BY <1>5, Zenon DEF Total
<1>7. PICK e : /\ e = [k \in 0..n |-> IF k = 0 THEN 0 ELSE e[k - 1] + f[k]]
               /\ Total(f, n) = e[n]
  BY <1>6
<1>8. \A k \in 0..n : e[k] = IF k = 0 THEN 0 ELSE e[k - 1] + f[k]
  BY <1>7
<1>9. e[0] = 0 /\ \A k \in 1..n : e[k] = e[k - 1] + f[k]
  BY <1>8
<1> DEFINE S == {m \in Nat : m <= n => e[m] \in Nat}
<1>10. 0 \in S
  BY <1>9
<1>11. ASSUME NEW m \in S PROVE m + 1 \in S
  <2> SUFFICES ASSUME m + 1 <= n PROVE e[m + 1] \in Nat
    OBVIOUS
  <2>1. m + 1 \in 1..n /\ (m + 1) - 1 = m /\ e[m] \in Nat
    OBVIOUS
  <2>2. e[m + 1] = e[m] + f[m + 1]
    BY <2>1, <1>9
  <2> QED  BY <2>1, <2>2
<1>12. \A m \in 0..n : e[m] \in Nat
  <2>1. S \in SUBSET Nat
    OBVIOUS
  <2>2. S = Nat
    <3> HIDE DEF S
    <3> QED  BY <2>1, <1>10, <1>11, SetInduction
  <2> QED  BY <2>2
<1>13. e \in [0..n -> Nat]
  BY <1>7, <1>12
<1> QED  BY <1>7, <1>9, <1>13 DEF Sums

LEMMA TotalZero ==
  ASSUME NEW f
  PROVE  Total(f, 0) = 0
<1>1. 0 \in Nat /\ \A k \in 1..0 : f[k] \in Nat
  OBVIOUS
<1>2. PICK g : Sums(g, f, 0) /\ Total(f, 0) = g[0]
  BY <1>1, TotalUnfold
<1> QED  BY <1>2 DEF Sums

LEMMA TotalStep ==
  ASSUME NEW n \in Nat, NEW f, \A k \in 1..(n + 1) : f[k] \in Nat
  PROVE  /\ Total(f, n) \in Nat /\ Total(f, n + 1) \in Nat
         /\ Total(f, n + 1) = Total(f, n) + f[n + 1]
<1>1. n + 1 \in Nat /\ \A k \in 1..n : f[k] \in Nat
  OBVIOUS
<1>2. PICK g : Sums(g, f, n + 1) /\ Total(f, n + 1) = g[n + 1]
  BY <1>1, TotalUnfold
<1>3. PICK h : Sums(h, f, n) /\ Total(f, n) = h[n]
  BY <1>1, TotalUnfold
<1> DEFINE T == {k \in Nat : k <= n => g[k] = h[k]}
<1>4. 0 \in T
  BY <1>2, <1>3 DEF Sums
<1>5. ASSUME NEW k \in T PROVE k + 1 \in T
  <2> SUFFICES ASSUME k + 1 <= n PROVE g[k + 1] = h[k + 1]
    OBVIOUS
  <2>1. k + 1 \in 1..n /\ k + 1 \in 1..(n + 1) /\ (k + 1) - 1 = k /\ g[k] = h[k]
    OBVIOUS
  <2>2. g[k + 1] = g[k] + f[k + 1] /\ h[k + 1] = h[k] + f[k + 1]
    BY <2>1, <1>2, <1>3 DEF Sums
  <2> QED  BY <2>1, <2>2
<1>6. n \in T
  <2>1. T \in SUBSET Nat
    OBVIOUS
  <2> HIDE DEF T
  <2> QED  BY <2>1, <1>4, <1>5, SetInduction
<1>7. g[n] = h[n] /\ n + 1 \in 1..(n + 1) /\ (n + 1) - 1 = n
  BY <1>6
<1>8. g[n + 1] = g[n] + f[n + 1] /\ g[n + 1] \in Nat /\ h[n] \in Nat
  BY <1>2, <1>3, <1>7 DEF Sums
<1> QED  BY <1>2, <1>3, <1>7, <1>8

\* A sum grows with the number of values.
LEMMA TotalMono ==
  ASSUME NEW n \in Nat, NEW m \in 0..n, NEW f, \A k \in 1..n : f[k] \in Nat
  PROVE  Total(f, m) \in Nat /\ Total(f, n) \in Nat /\ Total(f, m) <= Total(f, n)
<1> DEFINE T == {k \in Nat : m + k <= n => /\ Total(f, m) \in Nat /\ Total(f, m + k) \in Nat
                                           /\ Total(f, m) <= Total(f, m + k)}
<1>1. 0 \in T
  <2>1. m \in Nat /\ m + 0 = m /\ \A k \in 1..m : k \in 1..n
    OBVIOUS
  <2>2. Total(f, m) \in Nat
    <3>1. PICK g : Sums(g, f, m) /\ Total(f, m) = g[m]
      BY <2>1, TotalUnfold
    <3> QED  BY <3>1, <2>1 DEF Sums
  <2> QED  BY <2>1, <2>2
<1>2. ASSUME NEW k \in T PROVE k + 1 \in T
  <2> SUFFICES ASSUME m + (k + 1) <= n
               PROVE  /\ Total(f, m) \in Nat /\ Total(f, m + (k + 1)) \in Nat
                      /\ Total(f, m) <= Total(f, m + (k + 1))
    OBVIOUS
  <2>1. m \in Nat /\ m + k \in Nat /\ m + (k + 1) = (m + k) + 1
    OBVIOUS
  <2>2. Total(f, m) \in Nat /\ Total(f, m + k) \in Nat /\ Total(f, m) <= Total(f, m + k)
    BY <2>1
  <2>3. \A l \in 1..((m + k) + 1) : f[l] \in Nat
    BY <2>1
  <2>4. Total(f, (m + k) + 1) = Total(f, m + k) + f[(m + k) + 1]
    BY <2>1, <2>3, TotalStep
  <2>5. f[(m + k) + 1] \in Nat
    BY <2>1, <2>3
  <2> QED  BY <2>1, <2>2, <2>4, <2>5
<1>3. n - m \in T
  <2>1. T \in SUBSET Nat /\ n - m \in Nat
    OBVIOUS
  <2> HIDE DEF T
  <2> QED  BY <2>1, <1>1, <1>2, SetInduction
<1>4. m + (n - m) = n
  OBVIOUS
<1> QED  BY <1>3, <1>4

LEMMA Aligned ==
  ASSUME NEW n \in Nat
  PROVE  MaxAlign(n) \in Nat /\ MaxAlign(n) >= n
<1> DEFINE q == (n + Align - 1) \div Align
<1>1. Align \in Nat \ {0}
  BY HeadAssumption
<1>2. q \in Nat /\ \E r \in 0..(Align - 1) : n + Align - 1 = Align * q + r
  <2>1. n + Align - 1 \in Nat
    BY <1>1
  <2> QED  BY <1>1, <2>1, Z3
<1>3. MaxAlign(n) = q * Align
  BY DEF MaxAlign
<1> HIDE DEF q
<1>4. q * Align \in Nat
  BY <1>1, <1>2
<1>5. PICK r \in 0..(Align - 1) : n + Align - 1 = q * Align + r
  BY <1>1, <1>2
<1> DEFINE p == q * Align
<1> HIDE DEF p
<1> QED  BY <1>1, <1>3, <1>4, <1>5 DEF p

(***************************************************************************)
(* What the driver reports, and the devices of the selected platform.      *)
(***************************************************************************)
LEMMA MachineShape ==
  ASSUME MachineOK
  PROVE  /\ Len(machine) \in Nat /\ DOMAIN machine = 1..Len(machine)
         /\ \A k \in 1..Len(machine) : /\ machine[k].strings \in Seq(Nat)
                                       /\ machine[k].devs \in Seq(Device)
<1> DEFINE P == [lacks : SUBSET STRING, strings : Strings, devs : Seq(Device)]
<1>1. machine \in Seq(P)
  BY MachinesAssumption DEF MachineOK
<1>2. \A p \in P : p.strings \in Strings /\ p.devs \in Seq(Device)
  OBVIOUS
<1> HIDE DEF P
<1>3. Len(machine) \in Nat /\ DOMAIN machine = 1..Len(machine)
  BY <1>1
<1>4. \A k \in 1..Len(machine) : machine[k] \in P
  BY <1>1
<1> QED  BY <1>2, <1>3, <1>4 DEF Strings

LEMMA ScoresShape ==
  ASSUME MachineOK, NEW k \in 1..Len(machine)
  PROVE  /\ Len(machine[k].devs) \in Nat
         /\ DOMAIN machine[k].devs = 1..Len(machine[k].devs)
         /\ \A l \in 1..Len(machine[k].devs) :
              Dev(<<k, l>>) \in Device /\ Scores(k)[l] \in Nat /\ Scores(k)[l] = Power(<<k, l>>)
         /\ PlatformScore(k) = Total(Scores(k), Len(machine[k].devs))
         /\ PlatformScore(k) \in Nat
<1> DEFINE n == Len(machine[k].devs)
<1>1. machine[k].devs \in Seq(Device)
  BY MachineShape
<1>2. n \in Nat /\ DOMAIN machine[k].devs = 1..n
  BY <1>1
<1>3. ASSUME NEW l \in 1..n
      PROVE  Dev(<<k, l>>) \in Device /\ Scores(k)[l] \in Nat /\ Scores(k)[l] = Power(<<k, l>>)
  <2>1. Dev(<<k, l>>) \in Device
    BY <1>1 DEF Dev
  <2>2. Dev(<<k, l>>).power \in Nat /\ Dev(<<k, l>>).gpu \in BOOLEAN
    BY <2>1 DEF Device
  <2>3. Scores(k)[l] = Dev(<<k, l>>).power * (IF Dev(<<k, l>>).gpu THEN 32 ELSE 1)
    BY <1>2 DEF Scores, Platform
  <2> HIDE DEF n
  <2>4. CASE Dev(<<k, l>>).gpu
    BY <2>1, <2>2, <2>3, <2>4 DEF Power
  <2>5. CASE ~Dev(<<k, l>>).gpu
    BY <2>1, <2>2, <2>3, <2>5 DEF Power
  <2> QED  BY <2>4, <2>5
<1>4. PlatformScore(k) = Total(Scores(k), n)
  BY DEF PlatformScore, Scores, Platform
<1> HIDE DEF n
<1>5. Total(Scores(k), n) \in Nat
  <2>1. n \in 0..n
    BY <1>2
  <2> QED  BY <2>1, <1>2, <1>3, TotalMono
<1> QED  BY <1>2, <1>3, <1>4, <1>5 DEF n

LEMMA DevsShape ==
  ASSUME MachineOK, NEW b \in 1..Len(machine)
  PROVE  /\ DevsOf(b) \in Seq(Nat \X Nat) /\ Len(DevsOf(b)) = Len(machine[b].devs)
         /\ \A k \in 1..Len(DevsOf(b)) : /\ DevsOf(b)[k] = <<b, k>>
                                         /\ Dev(DevsOf(b)[k]) \in Device
<1>1. Len(machine[b].devs) \in Nat
  BY ScoresShape
<1>2. DevsOf(b) \in [1..Len(machine[b].devs) -> Nat \X Nat]
  BY <1>1, MachineShape DEF DevsOf
<1>3. DevsOf(b) \in Seq(Nat \X Nat) /\ Len(DevsOf(b)) = Len(machine[b].devs)
  BY <1>1, <1>2
<1>4. ASSUME NEW k \in 1..Len(machine[b].devs)
      PROVE  DevsOf(b)[k] = <<b, k>> /\ Dev(DevsOf(b)[k]) \in Device
  BY ScoresShape DEF DevsOf
<1> QED  BY <1>3, <1>4

\* The selected devices are those of one platform.
LEMMA ResultFrom ==
  ASSUME MachineOK, ChosenInv, result # <<>>
  PROVE  \E b \in 1..Len(machine) : result = DevsOf(b)
<1>1. Len(machine) \in Nat /\ i \in 1..(Len(machine) + 1) /\ platformIndex \in Int
  BY MachineShape DEF MachineOK
<1>2. CASE platformIndex >= 0
  <2>1. platformIndex + 1 < i /\ result = DevsOf(platformIndex + 1)
    BY <1>2 DEF ChosenInv
  <2> QED  BY <2>1, <1>1, <1>2
<1>3. CASE ~(platformIndex >= 0)
  <2>1. PICK b \in 1..(i - 1) : result = DevsOf(b)
    BY <1>3 DEF ChosenInv
  <2> QED  BY <2>1, <1>1
<1> QED  BY <1>2, <1>3

LEMMA ResultShape ==
  ASSUME MachineOK, ChosenInv
  PROVE  /\ result \in Seq(Nat \X Nat) /\ Len(result) \in Nat
         /\ DOMAIN result = 1..Len(result)
         /\ \A k \in 1..Len(result) : Dev(result[k]) \in Device
         /\ result # <<>> => Len(result) > 0
<1>1. CASE result = <<>>
  BY <1>1
<1>2. CASE result # <<>>
  <2>1. PICK b \in 1..Len(machine) : result = DevsOf(b)
    BY <1>2, ResultFrom
  <2>2. result \in Seq(Nat \X Nat) /\ \A k \in 1..Len(result) : Dev(result[k]) \in Device
    BY <2>1, DevsShape
  <2> QED  BY <2>2
<1> QED  BY <1>1, <1>2

(***************************************************************************)
(* The selection of the platform, the command queues and the zones.        *)
(***************************************************************************)
LEMMA DeviceInit == Init => DeviceInv
<1> SUFFICES ASSUME Init PROVE DeviceInv
  OBVIOUS
<1>1. machine \in Machines /\ platformIndex \in Int
  BY PlatformIndexesAssumption DEF Init
<1>2. Len(machine) \in Nat
  BY <1>1, MachinesAssumption
<1>3. MachineOK
  BY <1>1, <1>2 DEF Init, MachineOK
<1>4. ScoreInv /\ ChosenAll
  BY DEF Init, ScoreInv, ChosenAll, Running
<1>5. ChosenInv
  BY <1>1 DEF Init, ChosenInv
<1>6. QueueInv /\ ZoneInv
  BY DEF Init, QueueInv, ZoneInv, Running
<1> QED  BY <1>3, <1>4, <1>5, <1>6 DEF DeviceInv

\* What is said of the machine stays with it.
LEMMA MachineFrame ==
  ASSUME UNCHANGED machine
  PROVE  /\ \A k : /\ DevsOf(k)' = DevsOf(k) /\ Scores(k)' = Scores(k)
                   /\ PlatformScore(k)' = PlatformScore(k)
         /\ \A d : Dev(d)' = Dev(d) /\ Power(d)' = Power(d)
<1>1. ASSUME NEW k PROVE PlatformScore(k)' = PlatformScore(k)
  BY DEF PlatformScore, Platform, Dev, Total
<1>2. ASSUME NEW k PROVE DevsOf(k)' = DevsOf(k) /\ Scores(k)' = Scores(k)
  BY DEF DevsOf, Scores, Platform, Dev
<1>3. ASSUME NEW d PROVE Dev(d)' = Dev(d) /\ Power(d)' = Power(d)
  BY DEF Dev, Power
<1> QED  BY <1>1, <1>2, <1>3

LEMMA ChosenFrame ==
  ASSUME ChosenInv, UNCHANGED <<machine, platformIndex, i, result, scoreMax>>
  PROVE  ChosenInv'
<1>1. \A k : DevsOf(k)' = DevsOf(k) /\ PlatformScore(k)' = PlatformScore(k)
  BY MachineFrame
<1>2. \A b : BestBefore(b, i)' <=> BestBefore(b, i)
  BY <1>1 DEF BestBefore
<1> HIDE DEF BestBefore
<1>3. CASE platformIndex >= 0
  BY <1>3, <1>1 DEF ChosenInv
<1>4. CASE ~(platformIndex >= 0) /\ i = 1
  BY <1>4 DEF ChosenInv
<1>5. CASE ~(platformIndex >= 0) /\ i # 1
  <2>1. PICK b \in 1..(i - 1) : /\ BestBefore(b, i) /\ result = DevsOf(b)
                                /\ scoreMax = PlatformScore(b)
    BY <1>5 DEF ChosenInv
  <2>2. b \in 1..(i' - 1) /\ BestBefore(b, i)' /\ result' = DevsOf(b)'
        /\ scoreMax' = PlatformScore(b)'
    BY <2>1, <1>1, <1>2
  <2> QED  BY <2>2, <1>5 DEF ChosenInv
<1> QED  BY <1>3, <1>4, <1>5

\* Steps that leave the platforms, the devices and the zones alone
Onward ==
  \/ pc' = pc
  \/ pc \in Running /\ pc' \in Running
  \/ pc' \in {"exit", "ub"}
  \/ pc = "load" /\ pc' \in {"platforms", "nostart"}

LEMMA DeviceFrame ==
  ASSUME DeviceInv, Onward, UNCHANGED <<scanVars, clVars, memVars>>
  PROVE  DeviceInv'
<1> USE DEF DeviceInv, scanVars, clVars, memVars, Onward
<1>1. MachineOK'
  BY DEF MachineOK
<1>2. ScoreInv'
  <2> SUFFICES ASSUME pc' = "devices" PROVE ScoreInv'
    BY DEF ScoreInv
  <2>1. pc = "devices"
    BY DEF Running
  <2>2. Scores(i)' = Scores(i) /\ Total(Scores(i), j - 1)' = Total(Scores(i), j - 1)
    BY DEF Scores, Platform, Dev, Total
  <2> QED  BY <2>1, <2>2 DEF ScoreInv
<1>3. ChosenInv'
  BY ChosenFrame
<1>4. ChosenAll'
  BY DEF ChosenAll, Running
<1>5. QueueInv'
  BY DEF QueueInv, Running, Scanning
<1>6. ZoneInv'
  BY MachineFrame DEF ZoneInv, Running, Scanning
<1> QED  BY <1>1, <1>2, <1>3, <1>4, <1>5, <1>6

LEMMA ScanPlatformStep ==
  ASSUME DeviceInv, ScanPlatform
  PROVE  DeviceInv'
<1>1. CASE pc' \in {"exit", "ub"} /\ UNCHANGED <<j, score, temp>>
  <2>1. Onward /\ UNCHANGED <<scanVars, clVars, memVars>>
    BY <1>1 DEF ScanPlatform, Onward, scanVars, clVars, memVars
  <2> QED  BY <2>1, DeviceFrame
<1>2. CASE pc' = "devices" /\ j' = 1 /\ score' = 0 /\ temp' = <<>>
  <2>1. /\ pc = "platforms" /\ i <= Len(machine)
        /\ UNCHANGED <<machine, platformIndex, i, scoreMax, result, clVars, memVars>>
    BY DEF ScanPlatform
  <2> USE DEF clVars, memVars
  <2>2. MachineOK'
    BY <2>1, <1>2 DEF DeviceInv, MachineOK
  <2>3. ScoreInv'
    <3>1. i \in 1..Len(machine) /\ Len(machine) \in Nat
      BY <2>1, MachineShape DEF DeviceInv, MachineOK
    <3>2. Len(machine[i].devs) \in Nat
      BY <3>1, ScoresShape DEF DeviceInv
    <3>3. temp' = [l \in 1..(j' - 1) |-> <<i', l>>]
      BY <1>2
    <3>4. Total(Scores(i), j - 1)' = Total(Scores(i), j' - 1)
      BY <2>1 DEF Total, Scores, Platform, Dev
    <3>5. Total(Scores(i), j' - 1) = 0
      BY <1>2, TotalZero
    <3> QED  BY <3>1, <3>2, <3>3, <3>4, <3>5, <2>1, <1>2 DEF ScoreInv
  <2>4. ChosenInv'
    BY <2>1, ChosenFrame DEF DeviceInv
  <2>5. ChosenAll'
    BY <1>2 DEF ChosenAll, Running
  <2>6. QueueInv'
    BY <2>1, <1>2 DEF DeviceInv, QueueInv, Running, Scanning
  <2>7. ZoneInv'
    BY <2>1, <1>2, MachineFrame DEF DeviceInv, ZoneInv, Scanning
  <2> QED  BY <2>2, <2>3, <2>4, <2>5, <2>6, <2>7 DEF DeviceInv
<1> QED  BY <1>1, <1>2 DEF ScanPlatform, Error

\* A device adds its power to the score of its platform.
LEMMA ScanDeviceStep ==
  ASSUME DeviceInv, ScanDevice
  PROVE  DeviceInv'
<1>1. CASE pc' \in {"exit", "ub"} /\ UNCHANGED <<j, score, temp>>
  <2>1. Onward /\ UNCHANGED <<scanVars, clVars, memVars>>
    BY <1>1 DEF ScanDevice, Onward, scanVars, clVars, memVars
  <2> QED  BY <2>1, DeviceFrame
<1>2. CASE /\ pc' = pc /\ j' = j + 1 /\ score' = score + Power(<<i, j>>)
           /\ temp' = Append(temp, <<i, j>>)
  <2>1. /\ pc = "devices" /\ j <= Len(machine[i].devs)
        /\ UNCHANGED <<machine, platformIndex, i, scoreMax, result, clVars, memVars>>
    BY DEF ScanDevice, Platform
  <2> USE DEF clVars, memVars
  <2>2. MachineOK'
    BY <2>1, <1>2 DEF DeviceInv, MachineOK
  <2>3. ScoreInv'
    <3>1. /\ i \in 1..Len(machine) /\ Len(machine) \in Nat /\ j \in Nat \ {0}
          /\ temp = [l \in 1..(j - 1) |-> <<i, l>>] /\ score = Total(Scores(i), j - 1)
      BY <2>1, MachineShape DEF DeviceInv, MachineOK, ScoreInv
    <3>2. /\ Len(machine[i].devs) \in Nat
          /\ \A l \in 1..Len(machine[i].devs) : Scores(i)[l] \in Nat /\ Scores(i)[l] = Power(<<i, l>>)
      BY <3>1, ScoresShape DEF DeviceInv
    <3>3. temp' = [l \in 1..j |-> <<i, l>>]
      <4>1. temp \in Seq({<<i, l>> : l \in 1..j}) /\ Len(temp) = j - 1
        BY <3>1
      <4>2. \A l \in 1..(j - 1) : temp[l] = <<i, l>>
        BY <3>1
      <4> QED  BY <4>1, <4>2, <3>1, <1>2
    <3>4. Total(Scores(i), j - 1)' = Total(Scores(i), j)
      <4>1. Total(Scores(i), j - 1)' = Total(Scores(i), j' - 1)
        BY <2>1 DEF Total, Scores, Platform, Dev
      <4>2. j' - 1 = j
        BY <1>2, <3>1
      <4> QED  BY <4>1, <4>2
    <3>5. Total(Scores(i), j) = Total(Scores(i), j - 1) + Power(<<i, j>>)
      <4> DEFINE n == Len(machine[i].devs)
      <4>0. j \in Nat \ {0} /\ n \in Nat /\ j <= n
        BY <3>1, <3>2, <2>1
      <4>1. j - 1 \in Nat /\ (j - 1) + 1 = j /\ j \in 1..Len(machine[i].devs)
        <5> HIDE DEF n
        <5>1. j - 1 \in Nat /\ (j - 1) + 1 = j /\ j \in 1..n
          BY <4>0
        <5> QED  BY <5>1 DEF n
      <4>2. \A k \in 1..((j - 1) + 1) : Scores(i)[k] \in Nat
        <5>1. \A k \in 1..((j - 1) + 1) : k \in 1..n
          <6> HIDE DEF n
          <6> QED  BY <4>0
        <5> QED  BY <5>1, <3>2
      <4>3. Total(Scores(i), (j - 1) + 1) = Total(Scores(i), j - 1) + Scores(i)[(j - 1) + 1]
        BY <4>1, <4>2, TotalStep
      <4> QED  BY <4>1, <4>3, <3>2
    <3>6. j' - 1 = j
      BY <1>2, <3>1
    <3> QED  BY <3>1, <3>2, <3>3, <3>4, <3>5, <3>6, <2>1, <1>2 DEF ScoreInv
  <2>4. ChosenInv'
    BY <2>1, ChosenFrame DEF DeviceInv
  <2>5. ChosenAll'
    BY <1>2, <2>1 DEF ChosenAll, Running
  <2>6. QueueInv'
    BY <2>1, <1>2 DEF DeviceInv, QueueInv, Running, Scanning
  <2>7. ZoneInv'
    BY <2>1, <1>2, MachineFrame DEF DeviceInv, ZoneInv, Scanning
  <2> QED  BY <2>2, <2>3, <2>4, <2>5, <2>6, <2>7 DEF DeviceInv
<1> QED  BY <1>1, <1>2 DEF ScanDevice, Error

\* A better score, or the platform that the configuration names, replaces what
\* was selected.
LEMMA SelectPlatformStep ==
  ASSUME DeviceInv, SelectPlatform
  PROVE  DeviceInv'
<1>1. /\ pc = "devices" /\ j > Len(machine[i].devs) /\ pc' = "platforms" /\ i' = i + 1
      /\ UNCHANGED <<machine, platformIndex, j, score, temp, cmdq, memVars>>
      /\ IF Selected THEN openclDevices' = temp /\ scoreMax' = score /\ result' = temp
                     ELSE UNCHANGED <<openclDevices, scoreMax, result>>
  BY DEF SelectPlatform, Platform
<1>2. /\ i \in 1..Len(machine) /\ Len(machine) \in Nat /\ j \in Nat \ {0}
      /\ platformIndex \in Int /\ j <= Len(machine[i].devs) + 1
      /\ temp = [l \in 1..(j - 1) |-> <<i, l>>] /\ score = Total(Scores(i), j - 1)
  BY <1>1, MachineShape DEF DeviceInv, MachineOK, ScoreInv
<1>3. temp = DevsOf(i) /\ score = PlatformScore(i)
  <2>1. Len(machine[i].devs) \in Nat /\ PlatformScore(i) = Total(Scores(i), Len(machine[i].devs))
    BY <1>2, ScoresShape DEF DeviceInv
  <2>2. j - 1 = Len(machine[i].devs)
    <3> DEFINE n == Len(machine[i].devs)
    <3>1. n \in Nat /\ j \in Nat \ {0} /\ j > n /\ j <= n + 1
      BY <2>1, <1>1, <1>2
    <3> HIDE DEF n
    <3>2. j - 1 = n
      BY <3>1
    <3> QED  BY <3>2 DEF n
  <2> QED  BY <2>1, <2>2, <1>2 DEF DevsOf
<1>4. \A k \in 1..Len(machine) : PlatformScore(k) \in Nat
  BY ScoresShape DEF DeviceInv
<1>5. \A k : DevsOf(k)' = DevsOf(k) /\ PlatformScore(k)' = PlatformScore(k)
  BY <1>1, MachineFrame
<1>6. MachineOK'
  BY <1>1, <1>2 DEF DeviceInv, MachineOK
<1>7. ChosenInv'
  <2>1. CASE platformIndex >= 0
    <3>1. result = IF platformIndex + 1 < i THEN DevsOf(platformIndex + 1) ELSE <<>>
      BY <2>1 DEF DeviceInv, ChosenInv
    <3>2. Selected <=> platformIndex + 1 = i
      BY <2>1, <1>2 DEF Selected
    <3>3. result' = IF platformIndex + 1 < i + 1 THEN DevsOf(platformIndex + 1) ELSE <<>>
      <4>1. CASE platformIndex + 1 = i
        <5>1. result' = DevsOf(platformIndex + 1)
          BY <4>1, <3>2, <1>1, <1>3
        <5>2. platformIndex + 1 < i + 1
          BY <4>1, <1>2
        <5> QED  BY <5>1, <5>2
      <4>2. CASE platformIndex + 1 # i
        BY <4>2, <3>1, <3>2, <1>1, <1>2
      <4> QED  BY <4>1, <4>2
    <3> QED  BY <3>3, <2>1, <1>1, <1>5 DEF ChosenInv
  <2>2. CASE ~(platformIndex >= 0)
    <3>1. Selected <=> score > scoreMax
      BY <2>2, <1>2 DEF Selected
    <3> SUFFICES \E b \in 1..i : /\ \A m \in 1..i : PlatformScore(m) <= PlatformScore(b)
                                 /\ \A m \in 1..(b - 1) : PlatformScore(m) < PlatformScore(b)
                                 /\ result' = DevsOf(b) /\ scoreMax' = PlatformScore(b)
      <4>1. i' # 1 /\ i' - 1 = i
        BY <1>1, <1>2
      <4>2. \A b : BestBefore(b, i)' <=>
                     /\ \A m \in 1..i : PlatformScore(m) <= PlatformScore(b)
                     /\ \A m \in 1..(b - 1) : PlatformScore(m) < PlatformScore(b)
        BY <4>1, <1>5 DEF BestBefore
      <4> QED  BY <4>1, <4>2, <2>2, <1>1, <1>5 DEF ChosenInv
    <3>2. CASE i = 1
      <4>1. score > scoreMax
        BY <3>2, <2>2, <1>3, <1>4, <1>2 DEF DeviceInv, ChosenInv
      <4>2. result' = DevsOf(1) /\ scoreMax' = PlatformScore(1)
        BY <4>1, <3>1, <3>2, <1>1, <1>3
      <4>3. PlatformScore(1) \in Nat
        BY <3>2, <1>4, <1>2
      <4> QED  BY <4>2, <4>3, <3>2
    <3>3. CASE i # 1
      <4>1. PICK b \in 1..(i - 1) : /\ BestBefore(b, i) /\ result = DevsOf(b)
                                    /\ scoreMax = PlatformScore(b)
        BY <3>3, <2>2 DEF DeviceInv, ChosenInv
      <4>2. /\ \A m \in 1..(i - 1) : PlatformScore(m) <= PlatformScore(b)
            /\ \A m \in 1..(b - 1) : PlatformScore(m) < PlatformScore(b)
        BY <4>1 DEF BestBefore
      <4>3. \A m \in 1..i : PlatformScore(m) \in Nat
        BY <1>4, <1>2
      <4>4. b \in 1..i /\ PlatformScore(b) \in Nat /\ PlatformScore(i) \in Nat
        BY <4>3, <1>2
      <4>5. CASE score > scoreMax
        <5>1. result' = DevsOf(i) /\ scoreMax' = PlatformScore(i)
          BY <4>5, <3>1, <1>1, <1>3
        <5>2. PlatformScore(i) > PlatformScore(b)
          BY <4>5, <4>1, <1>3
        <5>3. \A m \in 1..(i - 1) : PlatformScore(m) < PlatformScore(i)
          <6>1. \A m \in 1..(i - 1) : m \in 1..i
            BY <1>2
          <6> QED  BY <6>1, <5>2, <4>2, <4>3, <4>4
        <5>4. \A m \in 1..i : PlatformScore(m) <= PlatformScore(i)
          <6>1. \A m \in 1..i : m = i \/ m \in 1..(i - 1)
            BY <1>2
          <6> QED  BY <6>1, <5>3, <4>3, <4>4
        <5> QED  BY <5>1, <5>3, <5>4, <1>2
      <4>6. CASE ~(score > scoreMax)
        <5>1. result' = DevsOf(b) /\ scoreMax' = PlatformScore(b)
          BY <4>6, <4>1, <3>1, <1>1
        <5>2. PlatformScore(i) <= PlatformScore(b)
          BY <4>6, <4>1, <4>4, <1>3
        <5>3. \A m \in 1..i : m = i \/ m \in 1..(i - 1)
          BY <1>2
        <5> QED  BY <5>1, <5>2, <5>3, <4>2, <4>4
      <4> QED  BY <4>5, <4>6
    <3> QED  BY <3>2, <3>3
  <2> QED  BY <2>1, <2>2
<1>8. ScoreInv' /\ ChosenAll'
  BY <1>1 DEF ScoreInv, ChosenAll, Running
<1>9. QueueInv'
  <2>1. cmdq' = <<>> /\ openclDevices' = result'
    BY <1>1 DEF DeviceInv, QueueInv, Scanning
  <2>2. Len(result') \in Nat
    <3>1. Len(result) \in Nat
      BY ResultShape DEF DeviceInv
    <3>2. Len(DevsOf(i)) \in Nat
      BY <1>2, DevsShape DEF DeviceInv
    <3> QED  BY <3>1, <3>2, <1>1, <1>3
  <2> QED  BY <2>1, <2>2, <1>1 DEF QueueInv, Running
<1>10. ZoneInv'
  BY <1>1 DEF DeviceInv, ZoneInv, Scanning, memVars
<1> QED  BY <1>6, <1>7, <1>8, <1>9, <1>10 DEF DeviceInv

LEMMA CreateContextStep ==
  ASSUME DeviceInv, CreateContext
  PROVE  DeviceInv'
<1>1. CASE pc' = "exit"
  <2>1. Onward /\ UNCHANGED <<scanVars, clVars, memVars>>
    BY <1>1 DEF CreateContext, Onward
  <2> QED  BY <2>1, DeviceFrame
<1>2. CASE result # <<>> /\ pc' = "queues"
  <2>1. /\ pc = "platforms" /\ i > Len(machine)
        /\ UNCHANGED <<scanVars, clVars, memVars>>
    BY DEF CreateContext
  <2> USE DEF scanVars, clVars, memVars
  <2>2. MachineOK' /\ ScoreInv'
    BY <2>1, <1>2 DEF DeviceInv, MachineOK, ScoreInv
  <2>3. ChosenInv'
    BY <2>1, ChosenFrame DEF DeviceInv
  <2>4. ChosenAll'
    <3>1. i = Len(machine) + 1
      BY <2>1, MachineShape DEF DeviceInv, MachineOK
    <3> QED  BY <3>1, <2>1, <1>2 DEF ChosenAll
  <2>5. QueueInv'
    BY <2>1, <1>2 DEF DeviceInv, QueueInv, Running, Scanning
  <2>6. ZoneInv'
    BY <2>1, <1>2, MachineFrame DEF DeviceInv, ZoneInv, Scanning
  <2> QED  BY <2>2, <2>3, <2>4, <2>5, <2>6 DEF DeviceInv
<1> QED  BY <1>1, <1>2 DEF CreateContext, Error

LEMMA CreateCommandQueueStep ==
  ASSUME DeviceInv, CreateCommandQueue
  PROVE  DeviceInv'
<1>1. CASE pc' = "exit" /\ UNCHANGED cmdq
  <2>1. Onward /\ UNCHANGED <<scanVars, clVars, memVars>>
    BY <1>1 DEF CreateCommandQueue, Onward, clVars
  <2> QED  BY <2>1, DeviceFrame
<1>2. CASE pc' = pc /\ cmdq' = Append(cmdq, openclDevices[Len(cmdq) + 1])
  <2>1. /\ pc = "queues" /\ Len(cmdq) < Len(openclDevices)
        /\ UNCHANGED <<scanVars, openclDevices, memVars>>
    BY DEF CreateCommandQueue
  <2> USE DEF scanVars, memVars
  <2>2. MachineOK' /\ ScoreInv' /\ ChosenAll'
    BY <2>1, <1>2 DEF DeviceInv, MachineOK, ScoreInv, ChosenAll
  <2>3. ChosenInv'
    BY <2>1, ChosenFrame DEF DeviceInv
  <2>4. QueueInv'
    <3>1. /\ result \in Seq(Nat \X Nat) /\ Len(result) \in Nat
          /\ openclDevices = result /\ cmdq \in Seq(Nat \X Nat)
          /\ \A k \in 1..Len(cmdq) : cmdq[k] = result[k]
      BY ResultShape DEF DeviceInv, QueueInv
    <3>2. Len(cmdq) + 1 \in 1..Len(result) /\ result[Len(cmdq) + 1] \in Nat \X Nat
      BY <3>1, <2>1
    <3>3. cmdq' \in Seq(Nat \X Nat) /\ Len(cmdq') = Len(cmdq) + 1
      BY <3>1, <3>2, <1>2
    <3>4. ASSUME NEW k \in 1..Len(cmdq') PROVE cmdq'[k] = result[k]
      <4>1. CASE k = Len(cmdq) + 1
        BY <4>1, <3>1, <3>2, <1>2
      <4>2. CASE k # Len(cmdq) + 1
        <5>1. k \in 1..Len(cmdq)
          BY <4>2, <3>1, <3>3
        <5>2. cmdq'[k] = cmdq[k]
          BY <5>1, <3>1, <3>2, <1>2
        <5> QED  BY <5>1, <5>2, <3>1
      <4> QED  BY <4>1, <4>2
    <3>5. openclDevices' = result' /\ result' = result /\ pc' = "queues"
      BY <3>1, <2>1, <1>2
    <3>6. Len(cmdq') <= Len(result')
      BY <3>1, <3>2, <3>3, <3>5
    <3> QED  BY <3>3, <3>4, <3>5, <3>6 DEF QueueInv, Running, Scanning
  <2>5. ZoneInv'
    BY <2>1, <1>2, MachineFrame DEF DeviceInv, ZoneInv
  <2> QED  BY <2>2, <2>3, <2>4, <2>5 DEF DeviceInv
<1> QED  BY <1>1, <1>2 DEF CreateCommandQueue, Error

\* The zones are as long as the shortest of the longest buffers.
LEMMA SetupShmemStep ==
  ASSUME DeviceInv, SetupShmem
  PROVE  DeviceInv'
<1>1. CASE pc' = "exit" /\ UNCHANGED memVars
  <2>1. Onward /\ UNCHANGED <<scanVars, clVars, memVars>>
    BY <1>1 DEF SetupShmem, Onward
  <2> QED  BY <2>1, DeviceFrame
<1>2. CASE pc' = "info" /\ zoneLength' = Min(Lengths) /\ isReady' = TRUE
  <2>1. /\ pc = "queues" /\ Len(cmdq) = Len(openclDevices)
        /\ UNCHANGED <<scanVars, clVars>>
    BY DEF SetupShmem
  <2> USE DEF scanVars, clVars
  <2>2. MachineOK' /\ ScoreInv' /\ ChosenAll'
    BY <2>1, <1>2 DEF DeviceInv, MachineOK, ScoreInv, ChosenAll, Running
  <2>3. ChosenInv'
    BY <2>1, ChosenFrame DEF DeviceInv
  <2>4. QueueInv'
    BY <2>1, <1>2 DEF DeviceInv, QueueInv, Running, Scanning
  <2>5. ZoneInv'
    <3>1. /\ Len(result) \in Nat /\ DOMAIN result = 1..Len(result)
          /\ \A k \in 1..Len(result) : Dev(result[k]).alloc \in Nat
      BY ResultShape DEF DeviceInv, Device
    <3>2. Len(result) > 0
      BY <2>1, ResultShape DEF DeviceInv, ChosenAll
    <3>3. Lengths \in SUBSET Nat /\ \A k \in 1..Len(result) : Dev(result[k]).alloc \in Lengths
      BY <3>1 DEF Lengths
    <3>4. Lengths # {}
      BY <3>1, <3>2, <3>3
    <3>5. \A k \in 1..Len(result) : zoneLength' <= Dev(result[k]).alloc
      BY <3>3, <3>4, LeastIs, <1>2
    <3>6. \A k : Dev(result[k])' = Dev(result[k])
      BY <2>1 DEF Dev
    <3> QED  BY <3>5, <3>6, <2>1, <1>2 DEF ZoneInv, Scanning
  <2> QED  BY <2>2, <2>3, <2>4, <2>5 DEF DeviceInv
<1> QED  BY <1>1, <1>2 DEF SetupShmem, Error

LEMMA DeviceStep ==
  ASSUME DeviceInv, [Next]_vars
  PROVE  DeviceInv'
<1>1. CASE \/ ScanPlatform \/ ScanDevice \/ SelectPlatform
           \/ CreateContext \/ CreateCommandQueue \/ SetupShmem
  BY <1>1, ScanPlatformStep, ScanDeviceStep, SelectPlatformStep,
     CreateContextStep, CreateCommandQueueStep, SetupShmemStep
<1>2. CASE Onward /\ UNCHANGED <<scanVars, clVars, memVars>>
  BY <1>2, DeviceFrame
<1>3. CASE \/ LoadEntry \/ AllocInfo \/ CopyPlatform \/ CopyDevice
           \/ PublishArray \/ PublishNumber
  BY <1>2, <1>3 DEF Onward, Running, Error, LoadEntry, AllocInfo, CopyPlatform,
     CopyDevice, PublishArray, PublishNumber
<1>4. CASE ThreadsNoMemory \/ CreateThreadFails \/ Join \/ \E t \in Threads : CreateThread(t)
  BY <1>2, <1>4 DEF Onward, Running, ThreadsNoMemory, CreateThreadFails, Join, CreateThread
<1>5. CASE Sigterm \/ \E t \in Threads : Thread(t)
  BY <1>2, <1>5 DEF Onward, Sigterm, Thread, ThreadEnds, ScheduleLoad, ScheduleStore
<1>6. CASE \E b \in Backends : Backend(b)
  BY <1>2, <1>6 DEF Onward, Backend, ReportCall, ReportRow
<1>7. CASE UNCHANGED vars
  BY <1>2, <1>7 DEF vars, Onward
<1> QED  BY <1>1, <1>3, <1>4, <1>5, <1>6, <1>7 DEF Next, Main

\* The platform that is wanted is the one that was selected.
LEMMA WantedIs ==
  ASSUME DeviceInv, pc \in Running \cup {"queues"}
  PROVE  Wanted \in 1..Len(machine) /\ result = DevsOf(Wanted)
<1>1. /\ Len(machine) \in Nat /\ platformIndex \in Int /\ DOMAIN machine = 1..Len(machine)
      /\ i = Len(machine) + 1 /\ result # <<>>
  BY MachineShape DEF DeviceInv, MachineOK, ChosenAll
<1>2. CASE platformIndex >= 0
  <2>1. Wanted = platformIndex + 1
    BY <1>2 DEF Wanted
  <2>2. platformIndex + 1 < i /\ result = DevsOf(platformIndex + 1)
    BY <1>1, <1>2 DEF DeviceInv, ChosenInv
  <2> QED  BY <2>1, <2>2, <1>1, <1>2
<1>3. CASE ~(platformIndex >= 0)
  <2>1. i # 1
    BY <1>1, <1>3 DEF DeviceInv, ChosenInv
  <2>2. PICK b \in 1..(i - 1) : BestBefore(b, i) /\ result = DevsOf(b)
    BY <2>1, <1>3 DEF DeviceInv, ChosenInv
  <2> DEFINE First(k) == /\ \A n \in DOMAIN machine : PlatformScore(n) <= PlatformScore(k)
                         /\ \A n \in 1..(k - 1) : PlatformScore(n) < PlatformScore(k)
  <2>3. b \in DOMAIN machine /\ First(b)
    <3>1. (Len(machine) + 1) - 1 = Len(machine)
      BY <1>1
    <3> QED  BY <3>1, <2>2, <1>1 DEF BestBefore
  <2>4. ASSUME NEW k \in DOMAIN machine, First(k) PROVE k = b
    <3>1. k \in 1..Len(machine) /\ b \in 1..Len(machine)
      BY <2>3, <1>1
    <3>2. PlatformScore(k) \in Nat /\ PlatformScore(b) \in Nat
      BY <3>1, ScoresShape DEF DeviceInv
    <3>3. PlatformScore(k) <= PlatformScore(b) /\ PlatformScore(b) <= PlatformScore(k)
      BY <2>3, <2>4
    <3>4. CASE k < b
      <4>1. k \in 1..(b - 1)
        BY <3>1, <3>4, <1>1
      <4> QED  BY <4>1, <3>2, <3>3, <2>3
    <3>5. CASE b < k
      <4>1. b \in 1..(k - 1)
        BY <3>1, <3>5, <1>1
      <4> QED  BY <4>1, <3>2, <3>3, <2>4
    <3> QED  BY <3>1, <3>4, <3>5, <1>1
  <2>5. Wanted = CHOOSE k \in DOMAIN machine : First(k)
    BY <1>3 DEF Wanted
  <2> HIDE DEF First
  <2>6. Wanted = b
    BY <2>3, <2>4, <2>5, Zenon
  <2> QED  BY <2>2, <2>3, <2>6, <1>1
<1> QED  BY <1>2, <1>3

(***************************************************************************)
(* The shared block.                                                       *)
(***************************************************************************)
LEMMA UsedShape ==
  ASSUME NEW x, x.strings \in Seq(Nat)
  PROVE  BufferUsed(x) \in Nat
<1> DEFINE s == x.strings
           f == [k \in DOMAIN s |-> MaxAlign(s[k])]
<1>1. Len(s) \in Nat /\ DOMAIN s = 1..Len(s) /\ \A k \in 1..Len(s) : s[k] \in Nat
  OBVIOUS
<1>2. \A k \in 1..Len(s) : f[k] \in Nat
  BY <1>1, Aligned
<1>3. BufferUsed(x) = Total(f, Len(s))
  BY DEF BufferUsed, StringsEnd
<1> HIDE DEF f, s
<1>4. Len(s) \in 0..Len(s)
  BY <1>1
<1> QED  BY <1>1, <1>2, <1>3, <1>4, TotalMono

LEMMA SizesShape ==
  ASSUME DeviceInv, result # <<>>
  PROVE  /\ PlatformLen \in Nat \ {0}
         /\ \A k \in 1..Len(result) : /\ DeviceLen(result[k]) \in Nat \ {0}
                                      /\ Sizes[k] = MaxAlign(DeviceLen(result[k]))
                                      /\ Sizes[k] \in Nat /\ Sizes[k] >= DeviceLen(result[k])
<1>1. PlatformHead \in Nat \ {0} /\ DeviceHead \in Nat \ {0}
  BY HeadAssumption
<1>2. Len(result) \in Nat /\ DOMAIN result = 1..Len(result) /\ Len(result) > 0
  BY ResultShape DEF DeviceInv
<1>3. PlatformLen \in Nat \ {0}
  <2>1. PICK b \in 1..Len(machine) : result = DevsOf(b)
    BY ResultFrom DEF DeviceInv
  <2>2. result[1][1] = b
    <3>1. 1 \in 1..Len(DevsOf(b))
      BY <2>1, <1>2
    <3> QED  BY <3>1, <2>1, DevsShape DEF DeviceInv
  <2>3. BufferUsed(machine[b]) \in Nat
    BY MachineShape, UsedShape DEF DeviceInv
  <2> QED  BY <2>2, <2>3, <1>1 DEF PlatformLen, Platform
<1>4. ASSUME NEW k \in 1..Len(result)
      PROVE  /\ DeviceLen(result[k]) \in Nat \ {0}
             /\ Sizes[k] = MaxAlign(DeviceLen(result[k]))
             /\ Sizes[k] \in Nat /\ Sizes[k] >= DeviceLen(result[k])
  <2>1. Dev(result[k]).strings \in Seq(Nat)
    BY ResultShape DEF DeviceInv, Device, Strings
  <2>2. BufferUsed(Dev(result[k])) \in Nat
    BY <2>1, UsedShape
  <2>3. DeviceLen(result[k]) \in Nat \ {0}
    BY <2>2, <1>1 DEF DeviceLen
  <2>4. Sizes[k] = MaxAlign(DeviceLen(result[k]))
    BY <1>2 DEF Sizes
  <2> QED  BY <2>3, <2>4, Aligned
<1> QED  BY <1>3, <1>4

\* The records end within the length that was computed before.
LEMMA BaseShape ==
  ASSUME DeviceInv, result # <<>>
  PROVE  /\ MaxAlign(PlatformLen) \in Nat /\ MaxAlign(PlatformLen) >= PlatformLen
         /\ MaxAlign(Len(result)) \in Nat /\ MaxAlign(Len(result)) >= Len(result)
         /\ Base(0) = MaxAlign(PlatformLen) + MaxAlign(Len(result))
         /\ InfoLength = Base(Len(result))
         /\ \A n \in 0..Len(result) : Base(n) \in Nat /\ Base(n) <= InfoLength
         /\ \A n \in 0..(Len(result) - 1) :
              Base(n + 1) = Base(n) + MaxAlign(DeviceLen(result[n + 1]))
<1> DEFINE l == Len(result)
           a == MaxAlign(PlatformLen)
           c == MaxAlign(l)
<1>1. l \in Nat
  BY ResultShape DEF DeviceInv
<1>2. \A k \in 1..l : Sizes[k] = MaxAlign(DeviceLen(result[k])) /\ Sizes[k] \in Nat
  BY SizesShape
<1>3. a \in Nat /\ a >= PlatformLen /\ c \in Nat /\ c >= l
  <2>1. PlatformLen \in Nat
    BY SizesShape
  <2> QED  BY <2>1, <1>1, Aligned
<1>4. \A n : Base(n) = a + c + Total(Sizes, n)
  BY DEF Base
<1>5. InfoLength = Base(l)
  BY DEF InfoLength, Base, Sizes
<1> HIDE DEF l, a, c
<1>6. Base(0) = a + c
  BY <1>3, <1>4, TotalZero
<1>7. ASSUME NEW n \in 0..l PROVE Base(n) \in Nat /\ Base(n) <= InfoLength
  <2>1. Total(Sizes, n) \in Nat /\ Total(Sizes, l) \in Nat /\ Total(Sizes, n) <= Total(Sizes, l)
    BY <1>1, <1>2, TotalMono
  <2> QED  BY <2>1, <1>3, <1>4, <1>5
<1>8. ASSUME NEW n \in 0..(l - 1)
      PROVE  Base(n + 1) = Base(n) + MaxAlign(DeviceLen(result[n + 1]))
  <2>1. n \in Nat /\ n + 1 \in 1..l /\ \A k \in 1..(n + 1) : k \in 1..l
    BY <1>1
  <2>2. /\ Total(Sizes, n) \in Nat
        /\ Total(Sizes, n + 1) = Total(Sizes, n) + Sizes[n + 1]
    BY <2>1, <1>2, TotalStep
  <2>3. Sizes[n + 1] = MaxAlign(DeviceLen(result[n + 1])) /\ Sizes[n + 1] \in Nat
    BY <2>1, <1>2
  <2> QED  BY <2>2, <2>3, <1>3, <1>4
<1>9. /\ a = MaxAlign(PlatformLen) /\ c = MaxAlign(Len(result)) /\ l = Len(result)
  BY DEF a, c, l
<1> QED  BY <1>3, <1>5, <1>6, <1>7, <1>8, <1>9

LEMMA InfoInit == Init => InfoInv
BY DEF Init, InfoInv, Blank, Scanning

\* Lengths and addresses belong to the machine and the selected devices.
LEMMA SizesFrame ==
  ASSUME UNCHANGED <<machine, result>>
  PROVE  /\ InfoLength' = InfoLength /\ PlatformLen' = PlatformLen
         /\ \A n : Base(n)' = Base(n)
         /\ \A d : DeviceLen(d)' = DeviceLen(d)
         /\ Base(Len(devArray))' = Base(Len(devArray'))
         /\ \A n : Record(n)' = [at |-> devArray'[n], len |-> DeviceLen(result[n]), what |-> result[n]]
<1> USE DEF PlatformLen, DeviceLen, BufferUsed, StringsEnd, MaxAlign, Platform, Dev, Total
<1>1. InfoLength' = InfoLength
  BY DEF InfoLength
<1>2. PlatformLen' = PlatformLen
  OBVIOUS
<1>3. ASSUME NEW n PROVE Base(n)' = Base(n)
  BY DEF Base, Sizes
<1>4. ASSUME NEW d PROVE DeviceLen(d)' = DeviceLen(d)
  OBVIOUS
<1>5. Base(Len(devArray))' = Base(Len(devArray'))
  BY DEF Base, Sizes
<1>6. ASSUME NEW n
      PROVE  Record(n)' = [at |-> devArray'[n], len |-> DeviceLen(result[n]), what |-> result[n]]
  BY DEF Record
<1> QED  BY <1>1, <1>2, <1>3, <1>4, <1>5, <1>6

LEMMA BlankFrame ==
  ASSUME Blank, pc \in Scanning \cup {"queues"}, UNCHANGED infoVars,
         pc' \in Scanning \cup {"queues", "info", "exit", "ub"}
  PROVE  Blank'
BY DEF Blank, infoVars

\* Steps that copy nothing
Beyond ==
  \/ pc' = pc
  \/ pc \in {"threads", "join"} /\ pc' \in {"join", "stopped", "exit"}

LEMMA FilledFrame ==
  ASSUME Filled, Beyond, UNCHANGED <<machine, result, infoVars>>
  PROVE  Filled'
<1> USE DEF infoVars
<1>1. /\ InfoLength' = InfoLength /\ \A n : Base(n)' = Base(n)
      /\ \A d : DeviceLen(d)' = DeviceLen(d)
  BY SizesFrame
<1>2. Base(Len(devArray))' = Base(Len(devArray)) /\ \A n : Record(n)' = Record(n)
  <2>1. Base(Len(devArray))' = Base(Len(devArray))
    BY SizesFrame
  <2>2. ASSUME NEW n PROVE Record(n)' = Record(n)
    BY SizesFrame DEF Record
  <2> QED  BY <2>1, <2>2
<1>3. /\ pc' \in (Running \ {"info"}) \cup {"exit"}
      /\ pc' = "copy" => pc = "copy"
      /\ pc' # "copy" => pc # "copy"
      /\ pc' = "publish" => pc = "publish"
  BY DEF Filled, Beyond, Running
<1> QED  BY <1>1, <1>2, <1>3 DEF Filled

LEMMA InfoFrame ==
  ASSUME InfoInv, Beyond, UNCHANGED <<machine, result, infoVars>>
  PROVE  InfoInv'
<1>1. CASE Filled
  BY <1>1, FilledFrame DEF InfoInv
<1>2. CASE Blank
  <2>1. pc' = pc
    BY <1>2 DEF Blank, Beyond, Scanning
  <2>2. InfoLength' = InfoLength
    BY SizesFrame
  <2> QED  BY <2>1, <2>2, <1>2 DEF Blank, InfoInv, infoVars
<1> QED  BY <1>1, <1>2 DEF InfoInv

LEMMA AllocInfoStep ==
  ASSUME InfoInv, AllocInfo
  PROVE  InfoInv'
<1>1. Blank /\ pc = "info"
  BY DEF InfoInv, Filled, AllocInfo
<1>2. UNCHANGED <<machine, result>> /\ InfoLength' = InfoLength
  <2>1. UNCHANGED <<machine, result>>
    BY DEF AllocInfo, scanVars
  <2> QED  BY <2>1, SizesFrame
<1>3. \/ pc' = pc /\ blockLen' = InfoLength
      \/ pc' = "exit" /\ blockLen' = blockLen
  BY DEF AllocInfo, Error
<1>4. UNCHANGED <<copied, devArray, devinfoArray, numDevices>>
  BY DEF AllocInfo
<1> QED  BY <1>1, <1>2, <1>3, <1>4 DEF InfoInv, Blank, Scanning

LEMMA CopyPlatformStep ==
  ASSUME DeviceInv, InfoInv, CopyPlatform
  PROVE  InfoInv'
<1> DEFINE p == PlatformLen
           a == MaxAlign(PlatformLen)
           l == Len(result)
           P == [at |-> 0, len |-> p, what |-> "platform"]
           A == [at |-> a, len |-> l, what |-> "array"]
<1>1. /\ pc = "info" /\ blockLen > 0 /\ pc' = "copy" /\ copied' = {P, A}
      /\ shmbase' = a + MaxAlign(l)
      /\ UNCHANGED <<machine, result, blockLen, devArray, devinfoArray, numDevices>>
  BY DEF CopyPlatform, scanVars
<1>2. Blank /\ result # <<>>
  BY <1>1 DEF InfoInv, Filled, DeviceInv, ChosenAll, Running
<1>3. devArray = <<>> /\ ~devinfoArray /\ numDevices = 0 /\ blockLen = InfoLength
  BY <1>1, <1>2 DEF Blank
<1>4. /\ p \in Nat \ {0} /\ a \in Nat /\ a >= p /\ l \in Nat \ {0}
      /\ MaxAlign(l) \in Nat /\ MaxAlign(l) >= l /\ Base(0) = a + MaxAlign(l)
  BY <1>2, SizesShape, BaseShape, ResultShape DEF DeviceInv
<1>5. /\ InfoLength' = InfoLength /\ Base(Len(devArray))' = Base(0)
  <2>1. InfoLength' = InfoLength
    BY <1>1, SizesFrame
  <2>2. Len(devArray') = 0
    BY <1>1, <1>3
  <2>3. Base(Len(devArray))' = Base(Len(devArray'))
    BY <1>1, SizesFrame
  <2> QED  BY <2>1, <2>2, <2>3
<1> HIDE DEF p, a, l
<1>6. /\ \A c \in copied' : c.at \in Nat /\ c.len \in Nat \ {0} /\ c.at + c.len <= shmbase'
      /\ \A c, d \in copied' : c # d => c.at + c.len <= d.at \/ d.at + d.len <= c.at
  <2>1. P.at = 0 /\ P.len = p /\ A.at = a /\ A.len = l
    OBVIOUS
  <2> HIDE DEF P, A
  <2> QED  BY <2>1, <1>1, <1>4
<1>7. Filled'
  <2>1. pc' \in (Running \ {"info"}) \cup {"exit"}
    BY <1>1 DEF Running
  <2>2. devArray' \in Seq(Nat) /\ Len(devArray') = 0 /\ Len(devArray') <= Len(result')
    BY <1>1, <1>3, <1>4 DEF l
  <2>3. \A n \in 1..Len(devArray') : Record(n)' \in copied'
    BY <2>2
  <2> QED  BY <2>1, <2>2, <2>3, <1>1, <1>2, <1>3, <1>4, <1>5, <1>6 DEF Filled
<1> QED  BY <1>7 DEF InfoInv

LEMMA CopyDeviceStep ==
  ASSUME DeviceInv, InfoInv, CopyDevice
  PROVE  InfoInv'
<1> DEFINE n == Len(devArray)
           d == result[n + 1]
           R == [at |-> shmbase, len |-> DeviceLen(d), what |-> d]
<1>1. /\ pc = "copy" /\ n < Len(result) /\ pc' = pc
      /\ copied' = copied \cup {R} /\ devArray' = Append(devArray, shmbase)
      /\ shmbase' = shmbase + MaxAlign(DeviceLen(d))
      /\ UNCHANGED <<machine, result, blockLen, devinfoArray, numDevices>>
  BY DEF CopyDevice, scanVars
<1>2. Filled
  BY <1>1 DEF InfoInv, Blank, Scanning
<1>3. result # <<>> /\ devArray \in Seq(Nat) /\ n \in Nat /\ Len(result) \in Nat /\ shmbase = Base(n)
  <2>1. result # <<>> /\ devArray \in Seq(Nat) /\ shmbase = Base(Len(devArray))
    BY <1>2 DEF Filled
  <2>2. Len(result) \in Nat
    BY ResultShape DEF DeviceInv
  <2> QED  BY <2>1, <2>2
<1>4. n \in 0..(Len(result) - 1) /\ n \in 0..Len(result) /\ n + 1 \in 1..Len(result)
  BY <1>1, <1>3
<1>5. /\ shmbase \in Nat /\ DeviceLen(d) \in Nat \ {0}
      /\ MaxAlign(DeviceLen(d)) \in Nat /\ MaxAlign(DeviceLen(d)) >= DeviceLen(d)
      /\ Base(n + 1) = shmbase + MaxAlign(DeviceLen(d))
  <2>1. shmbase \in Nat
    BY <1>3, <1>4, BaseShape
  <2>2. DeviceLen(d) \in Nat \ {0}
    BY <1>3, <1>4, SizesShape
  <2>3. Base(n + 1) = shmbase + MaxAlign(DeviceLen(d))
    BY <1>3, <1>4, BaseShape
  <2> QED  BY <2>1, <2>2, <2>3, Aligned
<1>6. devArray' \in Seq(Nat) /\ Len(devArray') = n + 1
  BY <1>1, <1>3, <1>5
<1>7. InfoLength' = InfoLength /\ Base(Len(devArray))' = Base(n + 1)
  <2>1. InfoLength' = InfoLength
    BY <1>1, SizesFrame
  <2>2. Base(Len(devArray))' = Base(Len(devArray'))
    BY <1>1, SizesFrame
  <2> QED  BY <2>1, <2>2, <1>6
<1>8. R.at = shmbase /\ R.len = DeviceLen(d)
  OBVIOUS
<1>9. ASSUME NEW m \in 1..Len(devArray') PROVE Record(m)' \in copied'
  <2>1. Record(m)' = [at |-> devArray'[m], len |-> DeviceLen(result[m]), what |-> result[m]]
    BY <1>1, SizesFrame
  <2>2. CASE m = n + 1
    <3>1. devArray'[m] = shmbase
      BY <2>2, <1>1, <1>3, <1>5
    <3> QED  BY <3>1, <2>1, <2>2, <1>1
  <2>3. CASE m # n + 1
    <3>1. m \in 1..n
      BY <2>3, <1>3, <1>6
    <3>2. devArray'[m] = devArray[m]
      BY <3>1, <1>1, <1>3, <1>5
    <3>3. Record(m) \in copied
      BY <3>1, <1>2 DEF Filled
    <3> QED  BY <3>2, <3>3, <2>1, <1>1 DEF Record
  <2> QED  BY <2>2, <2>3
<1> HIDE DEF n, d, R
<1>10. \A c \in copied : c.at \in Nat /\ c.len \in Nat \ {0} /\ c.at + c.len <= shmbase
  BY <1>2 DEF Filled
<1> DEFINE s == DeviceLen(d)
           t == MaxAlign(DeviceLen(d))
<1>11. /\ shmbase \in Nat /\ s \in Nat \ {0} /\ t \in Nat /\ t >= s
       /\ shmbase' = shmbase + t /\ R.at = shmbase /\ R.len = s
  BY <1>1, <1>5, <1>8
<1> HIDE DEF s, t
<1>12. \A c \in copied' : c.at \in Nat /\ c.len \in Nat \ {0} /\ c.at + c.len <= shmbase'
  <2>1. R.at \in Nat /\ R.len \in Nat \ {0} /\ R.at + R.len <= shmbase'
    BY <1>11
  <2>2. ASSUME NEW c \in copied PROVE c.at + c.len <= shmbase'
    BY <1>10, <1>11
  <2> QED  BY <2>1, <2>2, <1>1, <1>10
<1>13. \A c, e \in copied' : c # e => c.at + c.len <= e.at \/ e.at + e.len <= c.at
  <2>1. \A c, e \in copied : c # e => c.at + c.len <= e.at \/ e.at + e.len <= c.at
    BY <1>2 DEF Filled
  <2> QED  BY <2>1, <1>1, <1>10, <1>11
<1>14. Filled'
  <2>1. pc' \in (Running \ {"info"}) \cup {"exit"} /\ pc' = "copy"
    BY <1>1 DEF Running
  <2>2. Len(devArray') <= Len(result') /\ result' # <<>>
    BY <1>1, <1>3, <1>4, <1>6
  <2>3. /\ blockLen' = InfoLength' /\ shmbase' = Base(Len(devArray))'
        /\ numDevices' = 0 /\ ~devinfoArray'
    BY <1>1, <1>2, <1>5, <1>7 DEF Filled
  <2> QED  BY <2>1, <2>2, <2>3, <1>6, <1>9, <1>12, <1>13 DEF Filled
<1> QED  BY <1>14 DEF InfoInv

LEMMA PublishStep ==
  ASSUME InfoInv, PublishArray \/ PublishNumber
  PROVE  InfoInv'
<1>1. /\ UNCHANGED <<machine, result, blockLen, shmbase, copied, devArray>>
      /\ \/ /\ pc = "copy" /\ pc' = "publish" /\ Len(devArray) = Len(result)
            /\ devinfoArray' = TRUE /\ numDevices' = numDevices
         \/ /\ pc = "publish" /\ pc' = "threads" /\ devinfoArray' = devinfoArray
            /\ numDevices' = Len(devArray)
  BY DEF PublishArray, PublishNumber, scanVars
<1>2. Filled
  BY <1>1 DEF InfoInv, Blank, Scanning
<1>3. /\ InfoLength' = InfoLength /\ Base(Len(devArray))' = Base(Len(devArray))
      /\ \A n : Record(n)' = Record(n)
  <2>1. InfoLength' = InfoLength
    BY <1>1, SizesFrame
  <2>2. Base(Len(devArray))' = Base(Len(devArray))
    BY <1>1, SizesFrame
  <2>3. ASSUME NEW n PROVE Record(n)' = Record(n)
    BY <1>1, SizesFrame DEF Record
  <2> QED  BY <2>1, <2>2, <2>3
<1>4. Filled'
  <2>1. pc' \in (Running \ {"info"}) \cup {"exit"} /\ pc' # "copy"
    BY <1>1 DEF Running
  <2>2. Len(devArray') = Len(result') /\ devinfoArray' /\ numDevices' \in {0, Len(result')}
        /\ (pc' = "publish" => numDevices' = 0)
    BY <1>1, <1>2 DEF Filled
  <2> QED  BY <2>1, <2>2, <1>1, <1>2, <1>3 DEF Filled
<1> QED  BY <1>4 DEF InfoInv

\* Until the block is filled, nothing is copied whatever the server does.
LEMMA ScanInfoStep ==
  ASSUME InfoInv, LoadEntry \/ ScanPlatform \/ ScanDevice \/ SelectPlatform
                  \/ CreateContext \/ CreateCommandQueue \/ SetupShmem
  PROVE  InfoInv'
<1>1. /\ pc \in Scanning \cup {"queues"} /\ UNCHANGED infoVars
      /\ pc' \in Scanning \cup {"queues", "info", "exit", "ub"}
  BY DEF LoadEntry, ScanPlatform, ScanDevice, SelectPlatform, CreateContext,
         CreateCommandQueue, SetupShmem, Error, Scanning
<1>2. Blank
  BY <1>1 DEF InfoInv, Filled, Running, Scanning
<1> QED  BY <1>1, <1>2, BlankFrame DEF InfoInv

LEMMA InfoStep ==
  ASSUME DeviceInv, InfoInv, [Next]_vars
  PROVE  InfoInv'
<1>1. CASE \/ LoadEntry \/ ScanPlatform \/ ScanDevice \/ SelectPlatform
           \/ CreateContext \/ CreateCommandQueue \/ SetupShmem
  BY <1>1, ScanInfoStep
<1>2. CASE AllocInfo \/ CopyPlatform \/ CopyDevice \/ PublishArray \/ PublishNumber
  BY <1>2, AllocInfoStep, CopyPlatformStep, CopyDeviceStep, PublishStep
<1>3. CASE Beyond /\ UNCHANGED <<machine, result, infoVars>>
  BY <1>3, InfoFrame
<1>4. CASE ThreadsNoMemory \/ CreateThreadFails \/ Join \/ \E t \in Threads : CreateThread(t)
  BY <1>3, <1>4 DEF Beyond, ThreadsNoMemory, CreateThreadFails, Join, CreateThread, scanVars
<1>5. CASE Sigterm \/ \E t \in Threads : Thread(t)
  BY <1>3, <1>5 DEF Beyond, Sigterm, Thread, ThreadEnds, ScheduleLoad, ScheduleStore, scanVars
<1>6. CASE \E b \in Backends : Backend(b)
  BY <1>3, <1>6 DEF Beyond, Backend, ReportCall, ReportRow, scanVars
<1>7. CASE UNCHANGED vars
  BY <1>3, <1>7 DEF vars, Beyond, scanVars
<1> QED  BY <1>1, <1>2, <1>4, <1>5, <1>6, <1>7 DEF Next, Main

(***************************************************************************)
(* The listings.                                                           *)
(***************************************************************************)
LEMMA ListInit == Init => ListInv
<1> SUFFICES ASSUME Init PROVE ListInv
  OBVIOUS
<1>1. /\ report = [b \in Backends |-> [at |-> "call", cntr |-> 0, rows |-> <<>>]]
      /\ numDevices = 0
  BY DEF Init
<1>2. report \in [Backends -> [at : {"call", "info", "done", "fault"}, cntr : Nat,
                               rows : Seq({"undefined"} \cup (Nat \X Nat))]]
  BY <1>1
<1>3. \A b \in Backends : report[b].at = "call" /\ report[b].cntr = 0 /\ report[b].rows = <<>>
  BY <1>1
<1> QED  BY <1>1, <1>2, <1>3 DEF ListInv

\* What b listed
ListOK(b) ==
  /\ report[b].at \in {"call", "info", "done", "fault"} /\ report[b].cntr \in Nat
  /\ report[b].rows \in Seq({"undefined"} \cup (Nat \X Nat))
  /\ Len(report[b].rows) = report[b].cntr /\ report[b].cntr <= 2 * numDevices
  /\ report[b].at = "info" => report[b].cntr < 2 * numDevices
  /\ report[b].at = "done" => report[b].cntr \in {0, 2 * Len(result)}
  /\ \A n \in 1..report[b].cntr : n % 2 = 0 => report[b].rows[n] = result[n \div 2]

LEMMA ListShape ==
  ASSUME ListInv, NEW b \in Backends
  PROVE  ListOK(b)
<1>1. report[b] \in [at : {"call", "info", "done", "fault"}, cntr : Nat,
                     rows : Seq({"undefined"} \cup (Nat \X Nat))]
  BY DEF ListInv
<1> QED  BY <1>1 DEF ListInv, ListOK

LEMMA ListFrame ==
  ASSUME ListInv, UNCHANGED <<report, result, numDevices>>
  PROVE  ListInv'
BY DEF ListInv

\* Before the devices are counted no listing has a row.
LEMMA ListCounts ==
  ASSUME ListInv, numDevices = 0, numDevices' \in Nat, UNCHANGED report
  PROVE  ListInv'
<1>1. \A b \in Backends : /\ report[b].cntr = 0 /\ report[b].at # "info"
                          /\ Len(report[b].rows) = 0
  <2> SUFFICES ASSUME NEW b \in Backends
               PROVE  report[b].cntr = 0 /\ report[b].at # "info" /\ Len(report[b].rows) = 0
    OBVIOUS
  <2>1. ListOK(b)
    BY ListShape
  <2>2. /\ report[b].cntr \in Nat /\ report[b].cntr <= 0 /\ Len(report[b].rows) = report[b].cntr
        /\ (report[b].at = "info" => report[b].cntr < 0)
    BY <2>1 DEF ListOK
  <2> QED  BY <2>2
<1> QED  BY <1>1 DEF ListInv

\* The devices that are counted are all there.
LEMMA Counted ==
  ASSUME DeviceInv, InfoInv
  PROVE  /\ numDevices \in Nat
         /\ numDevices # 0 => /\ Filled /\ devinfoArray
                              /\ numDevices = Len(result) /\ Len(devArray) = Len(result)
<1>1. Len(result) \in Nat
  BY ResultShape DEF DeviceInv
<1> QED  BY <1>1 DEF InfoInv, Blank, Filled

LEMMA InfoAtIs ==
  ASSUME DeviceInv, Filled, NEW k \in 0..(Len(devArray) - 1)
  PROVE  InfoAt(k) = result[k + 1]
<1> DEFINE here == {c \in copied : k < Len(devArray) /\ c.at = devArray[k + 1]}
           R == Record(k + 1)
<1>1. devArray \in Seq(Nat) /\ Len(devArray) \in Nat
  BY DEF Filled
<1>2. k + 1 \in 1..Len(devArray) /\ k < Len(devArray)
  BY <1>1
<1>3. R \in copied /\ R.at = devArray[k + 1] /\ R.what = result[k + 1]
  BY <1>2 DEF Filled, Record
<1>4. /\ \A c \in copied : c.at \in Nat /\ c.len \in Nat \ {0}
      /\ \A c, d \in copied : c # d => c.at + c.len <= d.at \/ d.at + d.len <= c.at
  BY DEF Filled
<1>5. InfoAt(k) = IF here = {} THEN "undefined" ELSE (CHOOSE c \in here : TRUE).what
  BY DEF InfoAt
<1> HIDE DEF R
<1>6. R \in here
  BY <1>2, <1>3
<1>7. ASSUME NEW c \in here PROVE c = R
  <2> SUFFICES ASSUME c # R PROVE FALSE
    OBVIOUS
  <2>1. c \in copied /\ c.at = R.at
    BY <1>3
  <2>2. c.at + c.len <= R.at \/ R.at + R.len <= c.at
    BY <2>1, <1>3, <1>4
  <2>3. c.at \in Nat /\ c.len \in Nat \ {0} /\ R.at \in Nat /\ R.len \in Nat \ {0}
    BY <2>1, <1>3, <1>4
  <2> QED  BY <2>1, <2>2, <2>3
<1> HIDE DEF here
<1>8. (CHOOSE c \in here : TRUE) = R
  BY <1>6, <1>7, Zenon
<1> QED  BY <1>3, <1>5, <1>6, <1>8

\* A call of one backend leaves the others alone.
LEMMA ListOne ==
  ASSUME ListInv, NEW b \in Backends, NEW r, report' = [report EXCEPT ![b] = r],
         UNCHANGED <<result, numDevices>>, ListOK(b)',
         r \in [at : {"call", "info", "done", "fault"}, cntr : Nat,
                rows : Seq({"undefined"} \cup (Nat \X Nat))]
  PROVE  ListInv'
<1> DEFINE L == [at : {"call", "info", "done", "fault"}, cntr : Nat,
                 rows : Seq({"undefined"} \cup (Nat \X Nat))]
<1>1. report \in [Backends -> L] /\ r \in L
  BY DEF ListInv
<1> HIDE DEF L
<1>2. report' \in [Backends -> L]
  BY <1>1
<1>3. ASSUME NEW c \in Backends PROVE ListOK(c)'
  <2>1. CASE c = b
    BY <2>1
  <2>2. CASE c # b
    <3>1. ListOK(c) /\ report'[c] = report[c]
      BY <2>2, <1>1, ListShape
    <3> QED  BY <3>1 DEF ListOK
  <2> QED  BY <2>1, <2>2
<1> QED  BY <1>2, <1>3 DEF ListInv, ListOK, L

LEMMA ReportCallStep ==
  ASSUME DeviceInv, InfoInv, ListInv, NEW b \in Backends, ReportCall(b)
  PROVE  ListInv'
<1> DEFINE L == [at : {"call", "info", "done", "fault"}, cntr : Nat,
                 rows : Seq({"undefined"} \cup (Nat \X Nat))]
           a == IF DIndex(b) = numDevices THEN "done" ELSE "info"
           r == [report[b] EXCEPT !.at = a]
<1>1. /\ report \in [Backends -> L] /\ report[b] \in L
      /\ report' = [report EXCEPT ![b].at = a] /\ UNCHANGED <<result, numDevices>>
  BY DEF ListInv, ReportCall, scanVars, infoVars
<1>2. report' = [report EXCEPT ![b] = r] /\ r \in L
  BY <1>1
<1>3. /\ r.at = a /\ r.cntr = report[b].cntr /\ r.rows = report[b].rows
      /\ report'[b] = r
  BY <1>1, <1>2
<1>4. ListOK(b)
  BY ListShape
<1> DEFINE c == report[b].cntr
<1>5. c \in Nat /\ c <= 2 * numDevices /\ numDevices \in Nat /\ Len(result) \in Nat
  BY <1>4, Counted, ResultShape DEF ListOK, DeviceInv
<1>6. DIndex(b) = c \div 2
  BY DEF DIndex
<1> HIDE DEF c
<1>7. a = "done" => c \in {0, 2 * Len(result)}
  <2> SUFFICES ASSUME c \div 2 = numDevices PROVE c \in {0, 2 * Len(result)}
    BY <1>6
  <2>1. c = 2 * numDevices
    BY <1>5
  <2>2. numDevices \in {0, Len(result)}
    BY Counted
  <2> QED  BY <2>1, <2>2, <1>5
<1>8. a = "info" => c < 2 * numDevices
  <2> SUFFICES ASSUME c \div 2 # numDevices PROVE c < 2 * numDevices
    BY <1>6
  <2> QED  BY <1>5
<1>9. ListOK(b)'
  <2>1. a \in {"done", "info"}
    OBVIOUS
  <2> HIDE DEF a, r
  <2> QED  BY <2>1, <1>1, <1>3, <1>4, <1>7, <1>8 DEF ListOK, c
<1> HIDE DEF a, r
<1> QED  BY <1>1, <1>2, <1>9, ListOne

LEMMA ReportRowStep ==
  ASSUME DeviceInv, InfoInv, ListInv, NEW b \in Backends, ReportRow(b)
  PROVE  ListInv'
<1> DEFINE W == {"undefined"} \cup (Nat \X Nat)
           L == [at : {"call", "info", "done", "fault"}, cntr : Nat, rows : Seq(W)]
           c == report[b].cntr
<1>1. /\ report \in [Backends -> L] /\ report[b] \in L
      /\ report[b].at = "info" /\ UNCHANGED <<result, numDevices>>
  BY DEF ListInv, ReportRow, scanVars, infoVars
<1>2. ListOK(b)
  BY ListShape
<1>3. c \in Nat /\ c < 2 * numDevices /\ report[b].rows \in Seq(W) /\ Len(report[b].rows) = c
  BY <1>1, <1>2 DEF ListOK
<1>4. numDevices \in Nat /\ DIndex(b) = c \div 2 /\ PIndex(b) = c % 2
  BY Counted DEF DIndex, PIndex
<1>5. numDevices # 0 /\ DIndex(b) < numDevices /\ DIndex(b) \in Nat
  <2> HIDE DEF c
  <2> QED  BY <1>3, <1>4
<1>6. /\ Filled /\ devinfoArray /\ numDevices = Len(result) /\ Len(devArray) = Len(result)
  BY <1>5, Counted
<1>7. CASE report' = [report EXCEPT ![b].at = "fault"]
  <2> DEFINE r == [report[b] EXCEPT !.at = "fault"]
  <2>1. report' = [report EXCEPT ![b] = r] /\ r \in L
    BY <1>1, <1>7
  <2>2. r.at = "fault" /\ r.cntr = c /\ r.rows = report[b].rows /\ report'[b] = r
    BY <1>1, <2>1
  <2> HIDE DEF r
  <2>3. ListOK(b)'
    BY <1>1, <1>2, <2>2 DEF ListOK
  <2> QED  BY <2>1, <2>3, <1>1, ListOne
<1>8. ASSUME NEW w \in W, Row(b, w), (c + 1) % 2 = 0 => w = result[(c + 1) \div 2]
      PROVE  ListInv'
  <2> DEFINE r == [at |-> "call", cntr |-> c + 1, rows |-> Append(report[b].rows, w)]
  <2>1. report' = [report EXCEPT ![b] = r]
    BY <1>1, <1>8 DEF Row
  <2>2. Append(report[b].rows, w) \in Seq(W) /\ Len(Append(report[b].rows, w)) = c + 1
    <3> HIDE DEF W, L
    <3> QED  BY <1>3
  <2>3. r \in L /\ report'[b] = r
    BY <1>1, <1>3, <2>1, <2>2
  <2>4. \A n \in 1..(c + 1) : n % 2 = 0 => Append(report[b].rows, w)[n] = result[n \div 2]
    <3> SUFFICES ASSUME NEW n \in 1..(c + 1), n % 2 = 0
                 PROVE  Append(report[b].rows, w)[n] = result[n \div 2]
      OBVIOUS
    <3> HIDE DEF W, L
    <3>1. CASE n = c + 1
      <4>1. Append(report[b].rows, w)[n] = w
        BY <3>1, <1>3
      <4> QED  BY <4>1, <3>1, <1>8
    <3>2. CASE n # c + 1
      <4>1. n \in 1..c
        BY <3>2, <1>3
      <4>2. Append(report[b].rows, w)[n] = report[b].rows[n]
        BY <4>1, <1>3
      <4> QED  BY <4>1, <4>2, <1>2 DEF ListOK
    <3> QED  BY <3>1, <3>2
  <2>5. /\ r.at = "call" /\ r.cntr = c + 1 /\ r.rows = Append(report[b].rows, w)
    OBVIOUS
  <2>6. c + 1 \in Nat /\ c + 1 <= 2 * numDevices
    <3> HIDE DEF c
    <3> QED  BY <1>3, <1>4
  <2> HIDE DEF r
  <2>7. ListOK(b)'
    BY <1>1, <2>2, <2>3, <2>4, <2>5, <2>6 DEF ListOK
  <2> QED  BY <2>1, <2>3, <2>7, <1>1, ListOne
<1>9. CASE PIndex(b) = 1 /\ Row(b, InfoAt(DIndex(b)))
  <2> DEFINE k == DIndex(b)
  <2>1. k \in 0..(Len(devArray) - 1)
    BY <1>4, <1>5, <1>6
  <2>2. InfoAt(k) = result[k + 1]
    BY <2>1, <1>6, InfoAtIs
  <2>3. result[k + 1] \in W
    <3>1. result \in Seq(Nat \X Nat) /\ k + 1 \in 1..Len(result)
      BY <2>1, <1>4, <1>6, ResultShape DEF DeviceInv
    <3> QED  BY <3>1
  <2>4. (c + 1) \div 2 = k + 1
    <3>1. c \in Nat /\ c % 2 = 1 /\ k = c \div 2
      BY <1>3, <1>4, <1>9
    <3> HIDE DEF c, k
    <3> QED  BY <3>1
  <2> QED  BY <2>2, <2>3, <2>4, <1>8, <1>9
<1>10. CASE PIndex(b) # 1 /\ Row(b, "undefined")
  <2>1. (c + 1) % 2 # 0
    <3>1. c \in Nat /\ c % 2 # 1
      BY <1>3, <1>4, <1>10
    <3> HIDE DEF c
    <3> QED  BY <3>1
  <2> QED  BY <2>1, <1>8, <1>10
<1>11. \/ report' = [report EXCEPT ![b].at = "fault"]
       \/ PIndex(b) = 1 /\ Row(b, InfoAt(DIndex(b)))
       \/ PIndex(b) # 1 /\ Row(b, "undefined")
  BY <1>5, <1>6 DEF ReportRow
<1> QED  BY <1>7, <1>9, <1>10, <1>11

LEMMA ListStep ==
  ASSUME DeviceInv, InfoInv, ListInv, [Next]_vars
  PROVE  ListInv'
<1>1. CASE UNCHANGED <<report, result, numDevices>>
  BY <1>1, ListFrame
<1>2. CASE SelectPlatform
  <2>1. numDevices = 0 /\ numDevices' = numDevices /\ UNCHANGED report
    BY <1>2 DEF SelectPlatform, infoVars, InfoInv, Blank, Filled, Running
  <2> QED  BY <2>1, ListCounts
<1>3. CASE PublishNumber
  <2>1. pc = "publish" /\ numDevices' = Len(devArray) /\ UNCHANGED report
    BY <1>3 DEF PublishNumber
  <2>2. Filled
    BY <2>1 DEF InfoInv, Blank, Scanning
  <2>3. numDevices = 0 /\ Len(devArray) \in Nat
    BY <2>1, <2>2 DEF Filled
  <2> QED  BY <2>1, <2>3, ListCounts
<1>4. CASE \E b \in Backends : Backend(b)
  BY <1>4, ReportCallStep, ReportRowStep DEF Backend
<1>5. CASE \/ LoadEntry \/ ScanPlatform \/ ScanDevice \/ CreateContext
           \/ CreateCommandQueue \/ SetupShmem
  BY <1>1, <1>5 DEF LoadEntry, ScanPlatform, ScanDevice, CreateContext,
     CreateCommandQueue, SetupShmem, scanVars, infoVars
<1>6. CASE AllocInfo \/ CopyPlatform \/ CopyDevice \/ PublishArray
  BY <1>1, <1>6 DEF AllocInfo, CopyPlatform, CopyDevice, PublishArray, scanVars
<1>7. CASE ThreadsNoMemory \/ CreateThreadFails \/ Join \/ \E t \in Threads : CreateThread(t)
  BY <1>1, <1>7 DEF ThreadsNoMemory, CreateThreadFails, Join, CreateThread, scanVars, infoVars
<1>8. CASE Sigterm \/ \E t \in Threads : Thread(t)
  BY <1>1, <1>8 DEF Sigterm, Thread, ThreadEnds, ScheduleLoad, ScheduleStore, scanVars, infoVars
<1>9. CASE UNCHANGED vars
  BY <1>1, <1>9 DEF vars, scanVars, infoVars
<1> QED  BY <1>2, <1>3, <1>4, <1>5, <1>6, <1>7, <1>8, <1>9 DEF Next, Main

(***************************************************************************)
(* Theorems.                                                               *)
(***************************************************************************)
LEMMA StartInduction == Spec => []StartInv
<1>1. Init => StartInv
  BY DeviceInit, InfoInit, ListInit DEF StartInv
<1>2. StartInv /\ [Next]_vars => StartInv'
  BY DeviceStep, InfoStep, ListStep DEF StartInv
<1> QED  BY <1>1, <1>2, PTL DEF Spec

LEMMA StartImpliesAgree == StartInv => DevicesAgree
<1> SUFFICES ASSUME StartInv PROVE DevicesAgree
  OBVIOUS
<1>1. DeviceInv /\ InfoInv
  BY DEF StartInv
<1>2. result \in Seq(Nat \X Nat) /\ Len(result) \in Nat /\ DOMAIN result = 1..Len(result)
  BY <1>1, ResultShape DEF DeviceInv
<1>3. ZoneMapped
  BY <1>1, <1>2 DEF DeviceInv, QueueInv, ZoneInv, ZoneMapped
<1>4. ASSUME pc \in Running
      PROVE  /\ cmdq = [l \in DOMAIN Platform(Wanted).devs |-> <<Wanted, l>>]
             /\ openclDevices = cmdq
             /\ \A n \in DOMAIN devArray :
                  [at |-> devArray[n], len |-> DeviceLen(cmdq[n]), what |-> cmdq[n]] \in copied
  <2>1. cmdq = result
    <3>1. /\ cmdq \in Seq(Nat \X Nat) /\ Len(cmdq) = Len(result)
          /\ \A k \in 1..Len(cmdq) : cmdq[k] = result[k]
      BY <1>1, <1>4 DEF DeviceInv, QueueInv
    <3>2. /\ cmdq = [k \in 1..Len(result) |-> cmdq[k]]
          /\ result = [k \in 1..Len(result) |-> result[k]]
      BY <3>1, <1>2
    <3>3. [k \in 1..Len(result) |-> cmdq[k]] = [k \in 1..Len(result) |-> result[k]]
      BY <3>1
    <3> QED  BY <3>2, <3>3
  <2>2. Wanted \in 1..Len(machine) /\ result = DevsOf(Wanted)
    BY <1>1, <1>4, WantedIs
  <2>3. DOMAIN machine[Wanted].devs = 1..Len(machine[Wanted].devs)
    BY <1>1, <2>2, ScoresShape DEF DeviceInv
  <2>4. cmdq = [l \in DOMAIN Platform(Wanted).devs |-> <<Wanted, l>>]
    BY <2>1, <2>2, <2>3 DEF DevsOf, Platform
  <2>5. openclDevices = cmdq
    BY <1>1, <2>1 DEF DeviceInv, QueueInv
  <2>6. ASSUME NEW n \in DOMAIN devArray PROVE Record(n) \in copied
    <3>1. devArray \in Seq(Nat) /\ n \in 1..Len(devArray)
      BY <1>1 DEF InfoInv, Blank, Filled
    <3>2. devArray # <<>>
      BY <3>1
    <3>3. Filled
      BY <3>2, <1>1 DEF InfoInv, Blank
    <3> QED  BY <3>1, <3>3 DEF Filled
  <2> QED  BY <2>1, <2>4, <2>5, <2>6 DEF Record
<1> QED  BY <1>3, <1>4 DEF DevicesAgree, Running

LEMMA StartImpliesSound == StartInv => ReportSound
<1> SUFFICES ASSUME StartInv PROVE ReportSound
  OBVIOUS
<1>1. DeviceInv /\ InfoInv /\ ListInv
  BY DEF StartInv
<1>2. InfoFits
  <2>1. CASE Blank
    BY <2>1 DEF Blank, InfoFits
  <2>2. CASE Filled
    <3>1. /\ Len(devArray) \in 0..Len(result) /\ result # <<>> /\ Len(result) \in Nat
          /\ shmbase = Base(Len(devArray)) /\ blockLen = InfoLength
      <4>1. Len(result) \in Nat
        BY <1>1, ResultShape DEF DeviceInv
      <4>2. /\ devArray \in Seq(Nat) /\ Len(devArray) <= Len(result) /\ result # <<>>
            /\ shmbase = Base(Len(devArray)) /\ blockLen = InfoLength
        BY <2>2 DEF Filled
      <4>3. Len(devArray) \in Nat
        BY <4>2
      <4> QED  BY <4>1, <4>2, <4>3
    <3>2. shmbase \in Nat /\ shmbase <= blockLen
      BY <3>1, <1>1, BaseShape
    <3>3. blockLen \in Nat
      <4>1. Len(result) \in 0..Len(result)
        BY <3>1
      <4> QED  BY <4>1, <3>1, <1>1, BaseShape
    <3>4. \A c \in copied : c.at \in Nat /\ c.len \in Nat /\ c.at + c.len <= shmbase
      BY <2>2 DEF Filled
    <3>5. \A c \in copied : c.at + c.len <= blockLen
      BY <3>2, <3>3, <3>4
    <3> QED  BY <3>5, <2>2 DEF Filled, InfoFits
  <2> QED  BY <2>1, <2>2, <1>1 DEF InfoInv
<1>3. ASSUME NEW b \in Backends
      PROVE  /\ report[b].at # "assert"
             /\ \A n \in DOMAIN report[b].rows :
                  n % 2 = 0 => report[b].rows[n] = result[n \div 2]
             /\ report[b].at = "done" => Len(report[b].rows) \in {0, 2 * Len(result)}
  <2>1. ListOK(b)
    BY <1>1, ListShape
  <2>2. DOMAIN report[b].rows = 1..report[b].cntr
    BY <2>1 DEF ListOK
  <2> QED  BY <2>1, <2>2 DEF ListOK
<1> QED  BY <1>2, <1>3 DEF ReportSound

\* Whatever platforms, devices and strings the driver reports, and whichever
\* platform is configured: an index means one device, of the wanted platform,
\* in the array of devices, the command queues and the published properties,
\* and every zone fits every device (construct_opencl_device_info,
\* init_opencl_devices_and_shmem, pgstrom_setup_opencl_devinfo).
THEOREM DevicesAgreed == Spec => []DevicesAgree
BY StartInduction, StartImpliesAgree, PTL

\* Any number of backends may list the devices at any point of the start: the
\* records lie apart inside the block, the assertion of
\* pgstrom_opencl_device_info holds, and a listing shows no device or all.
THEOREM ReportsSound == Spec => []ReportSound
BY StartInduction, StartImpliesSound, PTL
=============================================================================
