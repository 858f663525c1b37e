------------------------------ MODULE MCPairing ------------------------------
(* Instances small enough for TLC of Pairing and of what it takes for granted: *)
(* the handshake that opens its connections, and the transport that carries    *)
(* its messages and is re-keyed in band. The three share no state: part says    *)
(* which of them a behavior is of.                                             *)
EXTENDS Pairing

CONSTANTS FrameSize, MaxMessage, MsgLengths, MaxSends, MaxTalks, MaxRekeys,
          Records, Pairings, MaxChanges, MaxDials, MaxTimeouts

VARIABLES part                           \* "pairing", "wire" or "opening"
VARIABLES framing, down, up, host, peer  \* of Wire
VARIABLES setup, held, kept, inward, outward, opener, answerer, past  \* of Handshake

Transport == INSTANCE Wire
Opening == INSTANCE Handshake WITH toServer <- inward, toClient <- outward,
                                   srv <- opener, cli <- answerer

ASSUME TransportAssumption == Transport!WireAssumption
ASSUME OpeningAssumption == Opening!HandshakeAssumption

wireVars == <<framing, down, up, host, peer>>
openingVars == <<setup, held, kept, inward, outward, opener, answerer, past>>
allVars == <<part, vars, wireVars, openingVars>>

-----------------------------------------------------------------------------
NoWire == framing = "none" /\ down = <<>> /\ up = <<>> /\ host = <<>> /\ peer = <<>>

NoOpening ==
  /\ setup = <<>> /\ held = <<>> /\ kept = <<>> /\ inward = <<>> /\ outward = <<>>
  /\ opener = <<>> /\ answerer = <<>> /\ past = <<>>

PartsInit ==
  /\ Init
  /\ \/ part = "pairing" /\ NoWire /\ NoOpening
     \/ part = "wire" /\ Transport!Init /\ NoOpening
     \/ part = "opening" /\ NoWire /\ Opening!Init

StepOfPairing == part = "pairing" /\ Next /\ UNCHANGED <<part, wireVars, openingVars>>

StepOfWire == part = "wire" /\ Transport!Next /\ UNCHANGED <<part, vars, openingVars>>

StepOfOpening == part = "opening" /\ Opening!Next /\ UNCHANGED <<part, vars, wireVars>>

(* Only pairing has to go on. *)
OthersRest == part # "pairing" /\ UNCHANGED allVars

PartsNext == StepOfPairing \/ StepOfWire \/ StepOfOpening \/ OthersRest

PartsSpec == PartsInit /\ [][PartsNext]_allVars /\ Fairness

-----------------------------------------------------------------------------
(* The transport cuts messages into frames that fit, and the other side reads   *)
(* them whole and in order across a re-handshake; no frame fails to             *)
(* authenticate, nobody is flagged for what it could not know, and both ends    *)
(* settle on one session (noise/wire.py). A handshake gives both ends one       *)
(* session with whom they mean to reach, or neither; undisturbed it ends as     *)
(* both stores say (noise/driver.py).                                           *)
SessionsSound ==
  /\ part = "wire" =>
       /\ Transport!TypeOK /\ Transport!CutFits /\ Transport!ReadsInOrder
       /\ Transport!Readable /\ Transport!QuietKept /\ Transport!RekeySettles
  /\ part = "opening" =>
       /\ Opening!TypeOK /\ Opening!SameSession /\ Opening!RightParty
       /\ Opening!EndAlike /\ Opening!EndsRightly /\ Opening!RefusedUnseen
=============================================================================
