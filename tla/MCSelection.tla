----------------------------- MODULE MCSelection -----------------------------
(* A small instance of Selection.                                          *)
EXTENDS Selection
=============================================================================
