------------------------------ MODULE MatchFeed ------------------------------
(***************************************************************************)
(* What a room promises to whoever subscribes to its Redis channels,       *)
(* whichever messages are lost on the way: it opens, reports the match,    *)
(* perhaps fails, and closes.  Reports of one kind follow the match clock, *)
(* none is repeated, and nothing follows the closing.                      *)
(***************************************************************************)
EXTENDS Integers, Sequences

VARIABLES
  feed,   \* the messages Redis has accepted, in order
  stage   \* "opening", "live", "failed" or "closed"

Opening == {"gf.setup", "gf.ready"}
Reports == {"gf.gamestate", "gf.event", "gf.tactical"}
Stamp(m) == IF m.ch = "gf.event" THEN m.ev.tick ELSE m.tick

Init == feed = <<>> /\ stage = "opening"

Says(m) == feed' = Append(feed, m)
Latest == feed'[Len(feed')]
Accepts(kinds) == feed' # <<>> /\ Latest.ch \in kinds /\ Says(Latest)
Silent == feed' = feed

Open ==
  /\ stage = "opening" /\ stage' \in {"opening", "live"}
  /\ Silent \/ (Accepts(Opening) /\ \A i \in DOMAIN feed : feed[i].ch # Latest.ch)

(* A game state or tactical report is newer than any of its kind; an event *)
(* is not older than any event and is none of those already reported.      *)
Follows(m) ==
  \A i \in DOMAIN feed : feed[i].ch = m.ch =>
    /\ feed[i] # m
    /\ Stamp(feed[i]) <= Stamp(m)
    /\ m.ch # "gf.event" => Stamp(feed[i]) < Stamp(m)

Report ==
  /\ stage = "live" /\ stage' = "live"
  /\ Accepts(Reports) /\ Follows(Latest)

Fail ==
  /\ stage = "live" /\ stage' = "failed"
  /\ Silent \/ Accepts({"gf.crashed"})

Close ==
  /\ stage \in {"live", "failed"} /\ stage' = "closed"
  /\ Silent \/ Accepts({"gf.finished"})

Next == Open \/ Report \/ Fail \/ Close

Spec == Init /\ [][Next]_<<feed, stage>>
=============================================================================
