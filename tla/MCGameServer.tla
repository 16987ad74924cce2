---------------------------- MODULE MCGameServer ----------------------------
(* Small instances of GameServer.                                          *)
EXTENDS GameServer

NoPlayers == {}
OnePlayer == {0}
BothTeams == {0, 11}
NoPackets == {}
Always == {TRUE}

Pkt(t, p, d, b) == [team |-> t, player |-> p, dir |-> d, press |-> b]
\* Against the AI: two left-team players, one of whom presses and releases,
\* and the packets that applyPendingInputs() refuses.
VsAIPackets == {Pkt(0, 9, "top", TRUE), Pkt(0, 9, "idle", FALSE), Pkt(0, 5, "left", FALSE),
                Pkt(1, 9, "top", TRUE), Pkt(0, 11, "top", FALSE), Pkt(0, 9, "nan", FALSE)}
=============================================================================
