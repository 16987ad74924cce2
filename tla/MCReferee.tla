------------------------------ MODULE MCReferee ------------------------------
(* Small instances of Referee.                                             *)
EXTENDS Referee

ThreePlayers == {0, 1, 11}
TwoPlayers == {0, 1}
LeftTeam == {p \in Players : p < 11}
=============================================================================
