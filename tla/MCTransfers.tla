------------------------------ MODULE MCTransfers ------------------------------
(* An instance of Transfers for TLC: what may go wrong with an upload is what may be read       *)
(* beside it, too, and of three fetches the first is of a file of two blocks.                  *)
EXTENDS Transfers

ASSUME Assumptions == BoundsArePositive /\ Relay!BoundsArePositive /\ Narrow!BoundsArePositive
===============================================================================
