------------------------------- MODULE MenuChord -------------------------------
(***************************************************************************)
(* The menu of an immersive player is opened with the controller that plays *)
(* the game (features/player/immersive-controls): Select and Start together *)
(* twice.  When it is closed the game goes on once the controller is        *)
(* neutral.  Time is counted in frames.                                     *)
(***************************************************************************)
EXTENDS Integers, FiniteSets

CONSTANTS
  ChordWindow,   \* the second button comes this soon (100 ms)
  ChordRelease,  \* both are released at least this long (60 ms)
  SecondChord,   \* the second chord starts this soon (650 ms)
  Neutral        \* frames without input before the game goes on (120 ms)

VARIABLES
  held,        \* what is pressed on the controller
  suppressed,  \* something else has the input: frames are not looked at
  dialog,      \* the menu: "closed", "open", "closing"
  calm,        \* ImmersiveNeutralGate: frames without input
  previous, downFor, candidate, chord, completed,  \* ImmersiveChordDetector
  output,      \* what the last frame gave
  since,       \* history: frames each button has been seen held, Up if it is not
  together,    \* history: both were seen pressed within the window
  rested       \* history: frames since each time they were both released after that
vars == <<held, suppressed, dialog, calm, previous, downFor, candidate, chord, completed, output,
          since, together, rested>>

Reserved == {"select", "start"}
Up == -1
Quiet == [menu |-> FALSE, single |-> {}]
NoCandidate == [first |-> "none", age |-> 0, second |-> FALSE]
Cap(n, most) == IF n < most THEN n ELSE most

Cleared ==
  /\ previous' = {} /\ downFor' = [k \in Reserved |-> Up] /\ candidate' = NoCandidate
  /\ chord' = "none" /\ completed' = Up /\ output' = Quiet
  /\ since' = [k \in Reserved |-> Up] /\ together' = FALSE /\ rested' = {}

Init ==
  /\ held = {} /\ suppressed = FALSE /\ dialog = "closed" /\ calm = Up
  /\ previous = {} /\ downFor = [k \in Reserved |-> Up] /\ candidate = NoCandidate
  /\ chord = "none" /\ completed = Up /\ output = Quiet
  /\ since = [k \in Reserved |-> Up] /\ together = FALSE /\ rested = {}
-------------------------------------------------------------------------------
Rising == held \ previous
Falling == previous \ held
Aged(n) == IF n = Up THEN Up ELSE n + 1

(* How long each button has been down, as far as no chord took it.           *)
Down == [k \in Reserved |->
  CASE k \in Rising -> 0 [] OTHER -> Cap(Aged(downFor[k]), ChordWindow)]
AfterFirst == IF Aged(completed) > SecondChord THEN Up ELSE Aged(completed)

(* The first button of a chord, this one or one that waits for the other.     *)
Candidate ==
  IF candidate # NoCandidate THEN [candidate EXCEPT !.age = @ + 1]
  ELSE IF Rising = {} THEN NoCandidate
  ELSE [first |-> IF "select" \in Rising THEN "select" ELSE "start", age |-> 0,
        second |-> AfterFirst # Up /\ AfterFirst >= ChordRelease]
Recognized ==
  /\ Candidate # NoCandidate
  /\ Candidate.first \in held /\ Reserved \ {Candidate.first} \subseteq Rising
  /\ Candidate.age <= ChordWindow

(* A button alone: while it is held beyond the window, or once when it was    *)
(* released before.                                                          *)
Single(k) ==
  IF k \in held /\ Down[k] # Up THEN Down[k] >= ChordWindow
  ELSE k \in Falling /\ Down[k] # Up /\ Down[k] < ChordWindow

\* Slip: a chord is over when one of its buttons is released.
SlipHeldChord ==
  /\ chord # "none"
  /\ output' = Quiet
  /\ IF held = Reserved THEN UNCHANGED <<chord, completed>>
     ELSE chord' = "none" /\ completed' = (IF chord = "first" THEN 0 ELSE completed)
  /\ UNCHANGED candidate
  /\ downFor' = [k \in Reserved |-> IF k \in Falling THEN Up ELSE Down[k]]

(* A chord lasts until both are released; nothing is said meanwhile.          *)
HeldChord ==
  /\ chord # "none"
  /\ output' = Quiet
  /\ IF held # {} THEN UNCHANGED <<chord, completed>>
     ELSE chord' = "none" /\ completed' = (IF chord = "first" THEN 0 ELSE completed)
  /\ UNCHANGED candidate
  /\ downFor' = [k \in Reserved |-> IF k \in Falling THEN Up ELSE Down[k]]

NewChord ==
  /\ chord = "none" /\ Recognized
  /\ chord' = (IF Candidate.second THEN "second" ELSE "first")
  /\ completed' = (IF Candidate.second THEN Up ELSE AfterFirst)
  /\ candidate' = NoCandidate /\ downFor' = [k \in Reserved |-> Up]
  /\ output' = [menu |-> Candidate.second, single |-> {}]

NoChord ==
  /\ chord = "none" /\ ~Recognized
  /\ completed' = AfterFirst
  /\ candidate' = (IF Candidate # NoCandidate /\ (Candidate.first \notin held \/ Candidate.age >= ChordWindow)
                   THEN NoCandidate ELSE Candidate)
  /\ output' = [menu |-> FALSE, single |-> IF candidate' # NoCandidate THEN {} ELSE {k \in Reserved : Single(k)}]
  /\ downFor' = [k \in Reserved |-> IF k \in Falling THEN Up ELSE Down[k]]
  /\ UNCHANGED chord

Seen ==
  /\ previous' = held
  /\ since' = [k \in Reserved |-> IF k \in held THEN Cap(since[k] + 1, ChordWindow + 1) ELSE Up]
  /\ together' = (IF held = {} THEN FALSE
                  ELSE together \/ (held = Reserved /\ \A k \in Reserved : since'[k] <= ChordWindow))
  /\ rested' = {n + 1 : n \in rested \ {SecondChord + ChordWindow}} \cup (IF held = {} /\ together THEN {0} ELSE {})

(* A frame of a running game.                                                *)
Frame ==
  /\ dialog = "closed" /\ ~suppressed
  /\ HeldChord \/ NewChord \/ NoChord
  /\ Seen
  /\ dialog' = (IF output'.menu THEN "open" ELSE "closed")
  /\ UNCHANGED <<held, suppressed, calm>>

(* A frame while the menu is open forgets what was held.                     *)
MenuFrame ==
  /\ dialog = "open" /\ Cleared
  /\ UNCHANGED <<held, suppressed, dialog, calm>>

(* The menu is cancelled: the game waits for a neutral controller.           *)
Closes ==
  /\ dialog = "open" /\ previous = {} /\ dialog' = "closing" /\ calm' = Up
  /\ UNCHANGED <<held, suppressed, previous, downFor, candidate, chord, completed, output, since,
                 together, rested>>

Waits ==
  /\ dialog = "closing"
  /\ calm' = (IF held # {} THEN Up ELSE Cap(calm + 1, Neutral))
  /\ dialog' = (IF calm' = Neutral THEN "closed" ELSE "closing")
  /\ UNCHANGED <<held, suppressed, previous, downFor, candidate, chord, completed, output, since,
                 together, rested>>

Press(k) ==
  /\ held' = IF k \in held THEN held \ {k} ELSE held \cup {k}
  /\ UNCHANGED <<suppressed, dialog, calm, previous, downFor, candidate, chord, completed, output,
                 since, together, rested>>

Suppress ==
  /\ suppressed' = ~suppressed
  /\ UNCHANGED <<held, dialog, calm, previous, downFor, candidate, chord, completed, output, since,
                 together, rested>>

Next == Frame \/ MenuFrame \/ Closes \/ Waits \/ (\E k \in Reserved : Press(k)) \/ Suppress
Spec == Init /\ [][Next]_vars
-------------------------------------------------------------------------------
(* The menu opens only on the second of two chords, each of both buttons      *)
(* within the window, with both released in between for long enough and not  *)
(* for too long; and it closes only on a neutral controller.                 *)
OpensOnTwoChords ==
  /\ output'.menu /\ ~output.menu =>
       /\ held = Reserved /\ \A k \in Reserved : since'[k] <= ChordWindow
       /\ \E n \in rested' : n >= ChordRelease
  /\ dialog = "closing" /\ dialog' = "closed" => held = {}
===============================================================================
