----------------------------- MODULE MCGfWorker -----------------------------
(* Small instances of GfWorker.                                            *)
EXTENDS GfWorker
CONSTANTS w1, w2, r1, r2
OneWorker == {w1}
TwoWorkers == {w1, w2}
OneRoom == {r1}
TwoRooms == {r1, r2}
=============================================================================
