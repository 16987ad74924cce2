---------------------------- MODULE MCMatchStats ----------------------------
(* Small instances of MatchStats.                                          *)
EXTENDS MatchStats

ShotsAndPasses == {"other", "shot", "save", "short_pass", "long_pass"}
Shots == {"other", "shot", "save"}
=============================================================================
