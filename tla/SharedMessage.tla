---------------------------- MODULE SharedMessage ---------------------------
(***************************************************************************)
(* What the reference counter of a message promises: a message is shared   *)
(* by the backend that loads it and by the server, each of which drops it  *)
(* once, in any order; whoever drops it last releases it, and its memory   *)
(* is free for another message only after that.                            *)
(***************************************************************************)
CONSTANT Messages

VARIABLES
  mem,     \* "free", "used", or "released" while cb_release runs
  users    \* who still uses the message

Users == {"backend", "server"}

Init ==
  /\ mem   = [m \in Messages |-> "free"]
  /\ users = [m \in Messages |-> {}]

\* A backend loads a message,
Create(m) ==
  /\ mem[m] = "free"
  /\ mem'   = [mem   EXCEPT ![m] = "used"]
  /\ users' = [users EXCEPT ![m] = {"backend"}]

\* shares it with the server,
Submit(m) ==
  /\ mem[m] = "used" /\ users[m] = {"backend"}
  /\ users' = [users EXCEPT ![m] = Users]
  /\ UNCHANGED mem

\* and each of them drops it.
Drop(m, u) ==
  /\ mem[m] = "used" /\ u \in users[m]
  /\ users' = [users EXCEPT ![m] = @ \ {u}]
  /\ mem' = IF users[m] = {u} THEN [mem EXCEPT ![m] = "released"] ELSE mem

Release(m) ==
  /\ mem[m] = "released"
  /\ mem' = [mem EXCEPT ![m] = "free"]
  /\ UNCHANGED users

Next == \E m \in Messages :
          \/ Create(m) \/ Submit(m) \/ Release(m)
          \/ \E u \in Users : Drop(m, u)

Spec == Init /\ [][Next]_<<mem, users>>
=============================================================================
