------------------------------- MODULE MCPlayer -------------------------------
(* An instance of Player for TLC: two effects and two presentation scopes, one fault; one      *)
(* command under way on a computer, a phone or a couch, and up to two clicks that wait behind  *)
(* the transition it belongs to.                                                              *)
EXTENDS Player

ASSUME Assumptions == PlayerConfigured

\* Other envelopes, and a screen that is full already, on a computer only.
Init ==
  /\ PlayerInit
  /\ playerPart = "launch" =>
       (phone => ~own) /\ (phone \/ own => offer = Launch!Good)

Spec == Init /\ [][PlayerNext]_playerVars /\ PlayerFairness
===============================================================================
