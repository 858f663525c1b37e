---------------------------- MODULE MCSmallParts ----------------------------
(* Parts that share no state, explored side by side in one run: part says    *)
(* which of them a behavior is of, and the variables of the others are idle. *)
EXTENDS Integers, Sequences, TLC

CONSTANTS MaxActivations, MaxRequests, MaxChanges, MaxStreams, MaxChunks, MaxDrops
CONSTANTS Servers, NoServer, Conns, Capacity, MaxKeys, MaxUnpairs, MaxCrashes
CONSTANTS CapacityBytes, MaxDuration, Recheck, ResetDelay, Sizes, Lengths, Delays,
          MaxClock, MaxQueued, MaxSent, MaxEvents
CONSTANTS Clients, Players, Controllers, GroupIds, Volumes, Full, MaxTurns
CONSTANTS Rates, None, Lead, MaxTime, MaxCalls
CONSTANTS TargetUs, MaxUs, GapUs, WatermarkUs, WindowUs, EpsilonUs, ConvergenceWindows,
          SkewShare, MaxHeld, Pieces, Pulls, LateBy, EarlyBy, MaxFeeds

VARIABLES part
VARIABLES link, toClient, toServer, srv, cli, handles, history  \* of SourceRole
VARIABLES store, file, saves, jobs, conns, records, past        \* of Credentials
VARIABLES clock, tracker, role, flight, device, events          \* of DeviceBuffer
VARIABLES clients, groups, turns                                \* of Groups
VARIABLES now, stream, group, shown, available, calls           \* of Visualizer
VARIABLES bridge, ended, feeds                                  \* of SourceBridge

Source == INSTANCE SourceRole
Stores == INSTANCE Credentials
Buffer == INSTANCE DeviceBuffer
Rooms  == INSTANCE Groups
Lights == INSTANCE Visualizer WITH role <- shown, turns <- calls, MaxTurns <- MaxCalls
Bridge == INSTANCE SourceBridge

ASSUME Source!SourceAssumption /\ Stores!CredentialsAssumption
ASSUME Buffer!BufferAssumption /\ Rooms!GroupsAssumption
ASSUME Lights!VisualizerAssumption /\ Bridge!BridgeAssumption

-----------------------------------------------------------------------------
Idle == "idle"

SourceIdle == /\ link = Idle /\ toClient = Idle /\ toServer = Idle /\ srv = Idle
              /\ cli = Idle /\ handles = Idle /\ history = Idle
StoresIdle == /\ store = Idle /\ file = Idle /\ saves = Idle /\ jobs = Idle
              /\ conns = Idle /\ records = Idle /\ past = Idle
BufferIdle == /\ clock = Idle /\ tracker = Idle /\ role = Idle /\ flight = Idle
              /\ device = Idle /\ events = Idle
GroupsIdle == clients = Idle /\ groups = Idle /\ turns = Idle
LightsIdle == /\ now = Idle /\ stream = Idle /\ group = Idle /\ shown = Idle
              /\ available = Idle /\ calls = Idle
BridgeIdle == bridge = Idle /\ ended = Idle /\ feeds = Idle

Init ==
  \/ /\ part = "source" /\ Source!Init
     /\ StoresIdle /\ BufferIdle /\ GroupsIdle /\ LightsIdle /\ BridgeIdle
  \/ /\ part = "stores" /\ Stores!Init
     /\ SourceIdle /\ BufferIdle /\ GroupsIdle /\ LightsIdle /\ BridgeIdle
  \/ /\ part = "buffer" /\ Buffer!Init
     /\ SourceIdle /\ StoresIdle /\ GroupsIdle /\ LightsIdle /\ BridgeIdle
  \/ /\ part = "groups" /\ Rooms!Init
     /\ SourceIdle /\ StoresIdle /\ BufferIdle /\ LightsIdle /\ BridgeIdle
  \/ /\ part = "lights" /\ Lights!Init
     /\ SourceIdle /\ StoresIdle /\ BufferIdle /\ GroupsIdle /\ BridgeIdle
  \/ /\ part = "bridge" /\ Bridge!Init
     /\ SourceIdle /\ StoresIdle /\ BufferIdle /\ GroupsIdle /\ LightsIdle

sourceVars == <<link, toClient, toServer, srv, cli, handles, history>>
storesVars == <<store, file, saves, jobs, conns, records, past>>
bufferVars == <<clock, tracker, role, flight, device, events>>
groupVars == <<clients, groups, turns>>
lightsVars == <<now, stream, group, shown, available, calls>>
bridgeVars == <<bridge, ended, feeds>>
vars == <<part, sourceVars, storesVars, bufferVars, groupVars, lightsVars, bridgeVars>>

StepOfSource ==
  /\ part = "source" /\ Source!Next
  /\ UNCHANGED <<part, storesVars, bufferVars, groupVars, lightsVars, bridgeVars>>

StepOfStores ==
  /\ part = "stores" /\ Stores!Next
  /\ UNCHANGED <<part, sourceVars, bufferVars, groupVars, lightsVars, bridgeVars>>

StepOfBuffer ==
  /\ part = "buffer" /\ Buffer!Next
  /\ UNCHANGED <<part, sourceVars, storesVars, groupVars, lightsVars, bridgeVars>>

StepOfGroups ==
  /\ part = "groups" /\ Rooms!Next
  /\ UNCHANGED <<part, sourceVars, storesVars, bufferVars, lightsVars, bridgeVars>>

StepOfLights ==
  /\ part = "lights" /\ Lights!Next
  /\ UNCHANGED <<part, sourceVars, storesVars, bufferVars, groupVars, bridgeVars>>

StepOfBridge ==
  /\ part = "bridge" /\ Bridge!Next
  /\ UNCHANGED <<part, sourceVars, storesVars, bufferVars, groupVars, lightsVars>>

Next ==
  \/ StepOfSource \/ StepOfStores \/ StepOfBuffer \/ StepOfGroups
  \/ StepOfLights \/ StepOfBridge

Spec == Init /\ [][Next]_vars

(* Connections to a client's stores differ in nothing but their names. *)
SameConns == Permutations(Conns)

(* Servers are told apart by the first of their keys. *)
Canonical ==
  part = "stores" => \A i \in DOMAIN past.minted :
    past.minted[i] = 1 \/ \E j \in 1 .. i - 1 : past.minted[j] = past.minted[i] - 1

-----------------------------------------------------------------------------
(* The types of the part. *)
TypeOK ==
  CASE part = "source" -> Source!TypeOK
    [] part = "stores" -> Stores!TypeOK
    [] part = "buffer" -> Buffer!TypeOK
    [] part = "groups" -> Rooms!TypeOK
    [] part = "lights" -> Lights!TypeOK
    [] part = "bridge" -> Bridge!TypeOK

(* At every moment: a conforming client of the source role is not flagged and  *)
(* no consumer waits at a stream that ended; a server finds the record it just *)
(* paired, and a record stays while a connection is open on it; the device     *)
(* buffer's account and the wait for room in it are exact; clients, controllers *)
(* and programs know the group and its volume, and a volume set is reached; a  *)
(* visualizer gets frames and beats in order, knows what its role would tell   *)
(* it, and waits for the beats of its group alone; the bridge of a source      *)
(* neither lags the source's clock nor buffers more than its limit.            *)
Sound ==
  CASE part = "source" -> Source!NeverFlagged /\ Source!ConsumersReleased
    [] part = "stores" -> Stores!RekeyResolves /\ Stores!OpenKept
    [] part = "buffer" -> Buffer!CountsExactly /\ Buffer!WaitsExactly
    [] part = "groups" -> /\ Rooms!ViewsCurrent /\ Rooms!UpdatesCurrent
                          /\ Rooms!EventsFollow /\ Rooms!VolumeReached
    [] part = "lights" -> /\ Lights!SentInOrder /\ Lights!CursorNearPlayhead
                          /\ Lights!ToldTheLatest /\ Lights!HoldsForBeats
                          /\ Lights!BeatsOfGroup
    [] part = "bridge" -> Bridge!LatencyBounded /\ Bridge!NoLag

(* When a part comes to rest: both sides of the source role agree on the       *)
(* stream; the file holds what the store holds, and no server has two records. *)
AgreeAtRest ==
  CASE part = "source" -> Source!AgreeAtRest
    [] part = "stores" -> Stores!DiskFollows /\ Stores!SupersededGone
    [] OTHER -> TRUE

(* What no step may do: drop a record the server relies on though there is     *)
(* room; send the device a chunk that does not fit in what it holds; stop the  *)
(* music of those who stay in a group though one of them can play; drop what   *)
(* the consumer of a source needs to go on, or start it off the target.        *)
StepsRight ==
  [][/\ part = "stores" => Stores!DropsRightly
     /\ part = "buffer" => Buffer!SendsWhatFits
     /\ part = "groups" => Rooms!PlaysOn
     /\ part = "bridge" => Bridge!DropsLeaveTarget /\ Bridge!StartsAtTarget]_vars
=============================================================================
