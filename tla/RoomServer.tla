------------------------------ MODULE RoomServer ------------------------------
(***************************************************************************)
(* The life of one gf_server process as the worker and the session service *)
(* know it: what it goes through, and what it says about its room on the   *)
(* way.  It is what module GfWorker takes a server to be, and what module  *)
(* GameServer shows it to be.                                              *)
(***************************************************************************)
EXTENDS Sequences

VARIABLES
  state,  \* "none", "starting", "up", "thrown", "closing" or "exited"
  said    \* what has been published about the room, in order

Init == state \in {"none", "starting"} /\ said = <<>>

Moves(from, to) == state \in from /\ state' = to
Says(word) == said' \in {said, Append(said, word)}  \* a publish may be lost
Silent == said' = said

Start == Moves({"none"}, "starting") /\ Silent
Ready == Moves({"starting"}, "up") /\ Says("ready")
Throws == Moves({"up"}, "thrown") /\ Says("crashed")
Finishes == Moves({"up", "thrown"}, "closing") /\ Says("finished")
Exits == Moves({"closing"}, "exited") /\ Silent

(* Killed, or a fault: without a word.                                     *)
Dies == Moves({"starting", "up", "thrown", "closing"}, "exited") /\ Silent

(* All that a server says between two changes of its state: the set-up of  *)
(* the match before it is ready, reports of the match from then on.        *)
SetsUp == state = "starting" /\ state' = state /\ Says("setup")
Reports == state = "up" /\ state' = state /\ Says("report")

Next == Start \/ SetsUp \/ Ready \/ Reports \/ Throws \/ Finishes \/ Exits \/ Dies

(* The server among others that speak about its room: the worker also says *)
(* "ready", and the watchdog and clean-ups say "finished" and "crashed".   *)
Shared == Init /\ [][Next]_state

(* The server on its own: nothing but what it says itself.                 *)
Alone == Init /\ [][Next]_<<state, said>>
=============================================================================
