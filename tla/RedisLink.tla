------------------------------ MODULE RedisLink ------------------------------
(***************************************************************************)
(* What a process may expect of its connection to Redis, whatever happens  *)
(* to the connections below: a command takes effect at most once, commands *)
(* in the order in which they are issued, and messages of the channel it   *)
(* listens to are handed over at most once and in the order in which they  *)
(* were published.  Any command and any message may be lost.               *)
(***************************************************************************)
EXTENDS Integers, Sequences

CONSTANT Messages  \* numbers of the messages published to the channel

VARIABLES
  issued,    \* commands issued so far, numbered 1, 2, ...
  log,       \* the commands that took effect
  returned   \* the messages handed over

vars == <<issued, log, returned>>

Init == issued = 0 /\ log = <<>> /\ returned = <<>>

Command ==
  /\ issued' = issued + 1
  /\ log' = log \/ log' = Append(log, issued')
  /\ UNCHANGED returned

HandOver(m) ==
  /\ \A i \in DOMAIN returned : returned[i] < m
  /\ returned' = Append(returned, m)
  /\ UNCHANGED <<issued, log>>

Next == Command \/ \E m \in Messages : HandOver(m)

Spec == Init /\ [][Next]_vars
=============================================================================
