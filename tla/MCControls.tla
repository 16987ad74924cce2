----------------------------- MODULE MCControls -----------------------------
(* A small instance of Controls: a gamer who passes, shoots, cancels a     *)
(* shot with a pass, or tackles.                                           *)
EXTENDS Controls

PassShootTackle == {{}, {"short"}, {"shot"}, {"short", "shot"}, {"slide", "long"}}
=============================================================================
