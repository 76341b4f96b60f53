---------------------------- MODULE SharedMemory ----------------------------
(***************************************************************************)
(* What the allocator promises its clients: an area of the size they asked *)
(* for, in one zone, that shares no byte with any other area in use, with  *)
(* room for the magic number behind it.                                    *)
(***************************************************************************)
EXTENDS Integers

CONSTANTS
  Lengths,     \* usable bytes of each zone
  BlockLen,    \* areas start at multiples of this
  MagicLen

VARIABLE areas   \* areas in use

FirstByte(a) == a.first * BlockLen
EndByte(a)   == FirstByte(a) + a.size + MagicLen

Overlap(a, b) ==
  /\ a.zone = b.zone
  /\ FirstByte(a) < EndByte(b) /\ FirstByte(b) < EndByte(a)

Init == areas = {}

\* The new area is the one that was not in use before.
Alloc ==
  \E a \in areas' \ areas :
    /\ areas' = areas \cup {a}
    /\ a.first >= 0 /\ a.size > 0 /\ EndByte(a) <= Lengths[a.zone]
    /\ \A b \in areas : ~Overlap(a, b)

Free == \E a \in areas : areas' = areas \ {a}

Next == Alloc \/ Free

Spec == Init /\ [][Next]_areas
=============================================================================
