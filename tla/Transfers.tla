------------------------------- MODULE Transfers -------------------------------
(* How bytes go up and down between the web client and the server: the upload of games       *)
(* (UploadClient, which this module extends), and the relay of the content of a game          *)
(* (ContentRelay), once with slots enough that one request reads while another waits for its   *)
(* turn, and once with so few that others queue and are refused.  A behaviour is one of one    *)
(* of the three, chosen at the start.                                                         *)
EXTENDS UploadClient

CONSTANTS   \* those of the modules, where they are explained
  WideActive, NarrowActive, MaxQueued, Patience, Fetches, Large, MaxPorts, RelayFaults

VARIABLES
  transfersPart,  \* which of the modules this behaviour is one of
  connection, reconnecting, late, dead, ports, relayActive, waiting, fetch, quiet, relayFaults

relayVars == <<connection, reconnecting, late, dead, ports, relayActive, waiting, fetch, quiet,
                relayFaults>>
transfersVars == <<transfersPart, vars, relayVars>>

\* With the proofs of the relay, so that its lemmas are facts here.
Relay == INSTANCE ContentRelayProofs WITH
  MaxActive <- WideActive, MaxFaults <- RelayFaults, active <- relayActive, faults <- relayFaults
Narrow == INSTANCE ContentRelayProofs WITH
  MaxActive <- NarrowActive, MaxFaults <- RelayFaults, active <- relayActive,
  faults <- relayFaults

\* The variables of the modules that a behaviour is not one of stay at 0.
UploadOff ==
  /\ server = 0 /\ strays = 0 /\ sheet = 0 /\ transfer = 0 /\ worker = 0 /\ listed = 0
  /\ scan = 0 /\ reading = 0 /\ acts = 0
RelayOff ==
  /\ connection = 0 /\ reconnecting = 0 /\ late = 0 /\ dead = 0 /\ ports = 0 /\ relayActive = 0
  /\ waiting = 0 /\ fetch = 0 /\ quiet = 0 /\ relayFaults = 0

TransfersInit ==
  \/ /\ transfersPart = "upload" /\ Init
     /\ RelayOff
  \/ /\ transfersPart = "relay" /\ Relay!Init
     /\ UploadOff
  \/ /\ transfersPart = "narrow" /\ Narrow!Init
     /\ UploadOff

TransfersNext ==
  \/ /\ transfersPart = "upload" /\ Next
     /\ UNCHANGED <<transfersPart, relayVars>>
  \/ /\ transfersPart = "relay" /\ Relay!Next
     /\ UNCHANGED <<transfersPart, vars>>
  \/ /\ transfersPart = "narrow" /\ Narrow!Next
     /\ UNCHANGED <<transfersPart, vars>>

\* The fairness of each module (see there).
TransfersFairness ==
  /\ \A t \in Transfers : WF_vars(transfersPart = "upload" /\ Transfer(t))
  /\ \A t \in Transfers, w \in Workers : WF_vars(transfersPart = "upload" /\ Sends(t, w))
  /\ WF_relayVars(transfersPart = "relay" /\ Relay!Tick)
  /\ WF_relayVars(transfersPart = "relay" /\ Relay!Page)
  /\ \A f \in Fetches : WF_relayVars(transfersPart = "relay" /\ Relay!Worker(f))
  /\ \A f \in Fetches : WF_relayVars(transfersPart = "relay" /\ Relay!Asks(f))
  /\ WF_relayVars(transfersPart = "narrow" /\ Narrow!Tick)
  /\ WF_relayVars(transfersPart = "narrow" /\ Narrow!Page)
  /\ \A f \in Fetches : WF_relayVars(transfersPart = "narrow" /\ Narrow!Worker(f))
  /\ \A f \in Fetches : WF_relayVars(transfersPart = "narrow" /\ Narrow!Asks(f))

TransfersSpec == TransfersInit /\ [][TransfersNext]_transfersVars /\ TransfersFairness

\* Property: the server has the bytes of the files that were chosen, in their place, and an
\* upload that the client takes for uploaded is whole (upload-transfer.ts).
BytesArrive ==
  transfersPart = "upload" => TypeOK /\ RightBytes /\ UploadedIsWhole

\* Property: the collections that are mapped and the source that a scan names are of one upload
\* or both of a directory, and of one and the same directory unless the picker went on after
\* they were asked for (game-scan.tsx).
ScanIsOfOneSource == transfersPart = "upload" => ScanFitsReading

\* Property: an upload ends, with whatever is lost or refused (upload-transfer.ts).
UploadEnds == []<>(transfersPart = "upload" => UploadOver)

\* Property: a read that goes on is not given up before its time, and the counters agree with
\* the requests (service-worker.js of the runtime).
ReadsGoOn ==
  /\ transfersPart = "relay" => Relay!NoReadGivenUpEarly /\ Relay!SlotsAgree
  /\ transfersPart = "narrow" => Narrow!NoReadGivenUpEarly /\ Narrow!SlotsAgree

\* Property: every fetch of the game is answered (service-worker.js of the runtime).
EveryFetchEnds ==
  <>[](transfersPart \in {"relay", "narrow"} => \A f \in Fetches : Relay!Ended(f))
===============================================================================
