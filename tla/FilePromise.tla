----------------------------- MODULE FilePromise -----------------------------
(***************************************************************************)
(* What the managed store promises about each file it ever published,      *)
(* without saying how: no rows, no directories, no sweeps, no clocks.      *)
(*                                                                         *)
(*   unused    the key was never published                                 *)
(*   unclaimed published, but no committed row refers to it (yet)          *)
(*   live      a live game uses it                                         *)
(*   kept      retired, or its game deleted, less than the grace ago       *)
(*   expired   the grace is over                                           *)
(*   gone      given up, for ever                                          *)
(*                                                                         *)
(* Any number of files may move in one step (a content switch claims one   *)
(* and retires others; a deletion retires all files of a game; time        *)
(* expires several).                                                       *)
(***************************************************************************)
CONSTANT Files

VARIABLES
  phase,   \* the phase of each file
  whole    \* whether its bytes are completely on disk

promiseVars == <<phase, whole>>

Phases == {"unused", "unclaimed", "live", "kept", "expired", "gone"}

PromiseTypeOK == phase \in [Files -> Phases] /\ whole \in [Files -> BOOLEAN]

PromiseInit == phase = [f \in Files |-> "unused"] /\ whole = [f \in Files |-> FALSE]

Becomes(f, from, to) == phase[f] = from /\ phase'[f] = to

Published(f) == Becomes(f, "unused", "unclaimed") /\ whole'[f]
\* Only complete bytes are ever claimed, and what is claimed stays complete ...
Claimed(f) == Becomes(f, "unclaimed", "live") /\ whole[f] /\ whole'[f]
Retired(f) == Becomes(f, "live", "kept") /\ whole[f] /\ whole'[f]
Expired(f) == Becomes(f, "kept", "expired") /\ whole[f] /\ whole'[f]
\* ... until nothing is owed for it; then bytes disappear before the file does.
Damaged(f) == /\ phase[f] \in {"unclaimed", "expired"} /\ phase'[f] = phase[f]
              /\ ~whole'[f]
Released(f) == /\ phase[f] \in {"unclaimed", "expired"} /\ phase'[f] = "gone"
               /\ phase[f] = "expired" => ~whole[f]
               /\ ~whole'[f]
Unmoved(f) == phase'[f] = phase[f] /\ whole'[f] = whole[f]

PromiseNext == \A f \in Files :
  \/ Published(f) \/ Claimed(f) \/ Retired(f) \/ Expired(f)
  \/ Damaged(f) \/ Released(f) \/ Unmoved(f)

Promise == PromiseInit /\ [][PromiseNext]_promiseVars
=============================================================================
