-------------------------------- MODULE MCShell --------------------------------
(* An instance of Shell for TLC: a list of three rows or five games is read in pages of two,   *)
(* and the times of the controllers are a few frames.                                         *)
EXTENDS Shell
===============================================================================
