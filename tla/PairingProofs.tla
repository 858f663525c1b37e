---------------------------- MODULE PairingProofs ----------------------------
(***************************************************************************)
(* For any methods, limits and bounds: the types of the two ends, of what  *)
(* is between them and of what they store, and the bound on the codes      *)
(* shown to whoever tries to guess one; and that the two ends never        *)
(* misread each other, and together keep the promise of PairingAgreement.  *)
(***************************************************************************)
EXTENDS Pairing, FiniteSetTheorems, SequenceTheorems, TLAPS

-----------------------------------------------------------------------------
(* Types. *)

Attempt == 0 .. MaxAttempts
Reasons == LeftoverReasons \cup {"user_cancelled"}

ClientSays ==
  [type : {"handshake"}, psk : Psks] \cup [type : {"init", "pending"}, index : Nat]
    \cup [type : {"auth", "confirm", "retry"}] \cup [type : {"finalize"}, psk : Attempt]
    \cup [type : {"abort"}, reason : Reasons]

ServerSays ==
  [type : {"activate"}, method : Method \cup {"none"}, attempt : Attempt]
    \cup [type : {"handshake"}, psk : Psks] \cup [type : {"init", "confirm", "finalize"}]
    \cup [type : {"auth"}, code : {"right", "wrong"}, sid : Nat \X Nat]
    \cup [type : {"abort"}, reason : Reasons]

ServerPlaces ==
  {"idle", "init", "gesture", "code", "auth", "reply", "final", "rekey", "rerec",
   "return", "prep", "save", "acked"}

ClientPlaces ==
  {"none", "start", "gate", "sinit", "emit", "show", "auth", "confirm", "mint", "ack",
   "store"}

ServerEnd ==
  [pc : ServerPlaces, method : Method, attempt : Attempt, index : Nat, round : Nat,
   psk : Psks, moved : BOOLEAN, mismatch : BOOLEAN, cancel : BOOLEAN, free : BOOLEAN,
   inbox : Seq(ClientSays)]

ClientEnd ==
  [pc : ClientPlaces, method : Method, attempt : Attempt, index : Nat, round : Nat,
   agreed : BOOLEAN, psk : Psks, rekeyed : BOOLEAN, acked : BOOLEAN,
   cancellable : BOOLEAN, window : BOOLEAN, inbox : Seq(ServerSays)]

ServerRecord == [mem : Attempt, disk : Attempt, saving : BOOLEAN]
ClientRecord == [mem : Attempt, disk : Attempt, saving : BOOLEAN, rounds : Nat]

Past ==
  [confused : BOOLEAN, refused : BOOLEAN, late : BOOLEAN, drops : Nat, crashes : Nat,
   emitted : Nat, offered : SUBSET Attempt, accepted : SUBSET Attempt,
   stored : SUBSET Attempt]

Types ==
  /\ link \in {"up", "down"}
  /\ toClient \in Seq(ServerSays) /\ toServer \in Seq(ClientSays)
  /\ srv \in ServerEnd /\ cli \in ClientEnd
  /\ serverStore \in ServerRecord /\ clientStore \in ClientRecord
  /\ history \in Past

(* A code is shown only after its round was counted, and counted only below the *)
(* limit.                                                                       *)
Rounds ==
  /\ clientStore.rounds <= RoundLimit
  /\ cli.pc \in {"sinit", "emit"} => clientStore.rounds < RoundLimit
  /\ history.emitted + (IF cli.pc = "show" THEN 1 ELSE 0) <= clientStore.rounds

-----------------------------------------------------------------------------
(* Messages. *)

LEMMA Bounds ==
  /\ MaxAttempts \in Nat /\ RoundLimit \in Nat /\ RoundLimit >= 1 /\ Methods \subseteq Method
  /\ Attempt \subseteq Psks /\ Credentials \subseteq Attempt
  /\ Sentinel \in Psks /\ PairingPsk \in Psks /\ 0 \in Attempt
BY PairingAssumption DEF Psks, Credentials, Attempt, Sentinel, PairingPsk, Method

LEMMA ServerTalk ==
  /\ \A method \in Method \cup {"none"}, a \in Attempt : Activate(method, a) \in ServerSays
  /\ \A psk \in Psks : Handshake(psk) \in ServerSays
  /\ \A t \in {"init", "confirm", "finalize"} : Plain(t) \in ServerSays
  /\ \A code \in {"right", "wrong"}, i, r \in Nat : Auth(code, <<i, r>>) \in ServerSays
  /\ \A r \in Reasons : Abort(r) \in ServerSays
BY DEF ServerSays, Activate, Handshake, Plain, Auth, Abort

LEMMA ClientTalk ==
  /\ \A psk \in Psks : Handshake(psk) \in ClientSays
  /\ \A i \in Nat : PairInit(i) \in ClientSays /\ [type |-> "pending", index |-> i] \in ClientSays
  /\ \A t \in {"auth", "confirm", "retry"} : Plain(t) \in ClientSays
  /\ \A a \in Attempt : Finalize(a) \in ClientSays
  /\ \A r \in Reasons : Abort(r) \in ClientSays
BY DEF ClientSays, PairInit, Handshake, Plain, Finalize, Abort

LEMMA ServerKinds ==
  ASSUME NEW m \in ServerSays
  PROVE  /\ m.type \in {"activate", "handshake", "init", "confirm", "finalize", "auth", "abort"}
         /\ m.type = "activate" => m.method \in Method \cup {"none"} /\ m.attempt \in Attempt
         /\ m.type = "handshake" => m.psk \in Psks /\ m = Handshake(m.psk)
BY DEF ServerSays, Handshake

LEMMA ClientKinds ==
  ASSUME NEW m \in ClientSays
  PROVE  /\ m.type \in {"handshake", "init", "pending", "auth", "confirm", "retry",
                        "finalize", "abort"}
         /\ m.type \in {"init", "pending"} => m.index \in Nat
         /\ m.type = "handshake" => m.psk \in Psks /\ m = Handshake(m.psk)
         /\ m.type = "finalize" => m.psk \in Attempt
         /\ m.type = "abort" => m.reason \in Reasons
BY DEF ClientSays, Handshake

LEMMA HeadOf ==
  ASSUME NEW S, NEW q \in Seq(S), q # <<>>
  PROVE  Head(q) \in S /\ Tail(q) \in Seq(S)
OBVIOUS

-----------------------------------------------------------------------------
(* The ways a step changes one end. *)

LEMMA DroppedTypes ==
  ASSUME Types, Dropped
  PROVE  /\ link' \in {"up", "down"}
         /\ toClient' \in Seq(ServerSays) /\ toServer' \in Seq(ClientSays)
         /\ srv' \in ServerEnd /\ cli' \in ClientEnd
<1>1. srv' \in ServerEnd
  <2>1. <<>> \in Seq(ClientSays) /\ 1 \in Nat OBVIOUS
  <2>2. ServerAtRest \in ServerEnd
    BY <2>1, Bounds DEF ServerAtRest, ServerEnd, ServerPlaces, Method
  <2>3. srv.attempt \in Attempt BY DEF Types, ServerEnd
  <2> QED BY <2>2, <2>3 DEF Dropped, ServerEnd
<1>2. cli' \in ClientEnd
  <2>1. <<>> \in Seq(ServerSays) /\ 1 \in Nat OBVIOUS
  <2>2. ClientAtRest \in ClientEnd
    BY <2>1, Bounds DEF ClientAtRest, ClientEnd, ClientPlaces, Method
  <2>3. cli.window \in BOOLEAN BY DEF Types, ClientEnd
  <2> QED BY <2>2, <2>3 DEF Dropped, ClientEnd
<1> QED BY <1>1, <1>2 DEF Dropped

LEMMA LeaveTypes ==
  ASSUME Types, NEW s \in ServerEnd, NEW sends \in Seq(ServerSays), LeaveTo(s, sends)
  PROVE  srv' \in ServerEnd /\ toClient' \in Seq(ServerSays)
<1>1. Activate("none", 0) \in ServerSays BY ServerTalk, Bounds
<1>2. Handshake(serverStore.mem) \in ServerSays
  BY ServerTalk, Bounds DEF Types, ServerRecord
<1>3. /\ <<Activate("none", 0)>> \in Seq(ServerSays)
      /\ <<Activate("none", 0), Handshake(serverStore.mem)>> \in Seq(ServerSays)
  BY <1>1, <1>2
<1>4. toClient' \in Seq(ServerSays)
  <2>1. toClient \in Seq(ServerSays) BY DEF Types
  <2>2. toClient \o sends \in Seq(ServerSays) BY <2>1
  <2>3. \A q, r \in Seq(ServerSays) : q \o r \in Seq(ServerSays) OBVIOUS
  <2>4. /\ (toClient \o sends) \o <<Activate("none", 0)>> \in Seq(ServerSays)
        /\ (toClient \o sends) \o <<Activate("none", 0), Handshake(serverStore.mem)>>
             \in Seq(ServerSays)
    BY <1>3, <2>2, <2>3, Zenon
  <2> QED BY <2>4, Zenon DEF LeaveTo
<1>5. srv' \in ServerEnd
  <2>1. "return" \in ServerPlaces /\ "idle" \in ServerPlaces /\ <<>> \in Seq(ClientSays)
    BY DEF ServerPlaces
  <2> QED BY <2>1 DEF LeaveTo, ServerEnd
<1> QED BY <1>4, <1>5

LEMMA TakeTypes ==
  ASSUME NEW s \in ServerEnd, s.inbox # <<>>
  PROVE  /\ Take(s) \in ServerEnd /\ Head(s.inbox) \in ClientSays
         /\ \A pc \in ServerPlaces : [Take(s) EXCEPT !.pc = pc] \in ServerEnd
<1>1. s.inbox \in Seq(ClientSays) BY DEF ServerEnd
<1>2. Tail(s.inbox) \in Seq(ClientSays) /\ Head(s.inbox) \in ClientSays BY <1>1
<1>3. Take(s) \in ServerEnd BY <1>2 DEF Take, ServerEnd
<1> QED BY <1>2, <1>3 DEF ServerEnd

LEMMA EndedTypes ==
  ASSUME NEW c \in ClientEnd
  PROVE  /\ Ended(c) \in ClientEnd
         /\ \A w \in BOOLEAN : [Ended(c) EXCEPT !.window = w] \in ClientEnd
<1>1. "none" \in ClientPlaces /\ <<>> \in Seq(ServerSays) BY DEF ClientPlaces
<1>2. Ended(c) \in ClientEnd BY <1>1 DEF Ended, ClientEnd
<1> QED BY <1>2 DEF ClientEnd

LEMMA TakesTypes ==
  ASSUME NEW c \in ClientEnd, c.inbox # <<>>
  PROVE  /\ Takes(c) \in ClientEnd /\ Head(c.inbox) \in ServerSays
         /\ \A pc \in ClientPlaces : [Takes(c) EXCEPT !.pc = pc] \in ClientEnd
<1>1. c.inbox \in Seq(ServerSays) BY DEF ClientEnd
<1>2. Tail(c.inbox) \in Seq(ServerSays) /\ Head(c.inbox) \in ServerSays BY <1>1
<1>3. Takes(c) \in ClientEnd BY <1>2 DEF Takes, ClientEnd
<1> QED BY <1>2, <1>3 DEF ClientEnd

LEMMA ActivationTypes ==
  ASSUME Types, NEW s \in ServerEnd, SendActivation(s)
  PROVE  srv' \in ServerEnd /\ toClient' \in Seq(ServerSays)
<1>1. Activate(s.method, s.attempt) \in ServerSays BY ServerTalk DEF ServerEnd
<1>2. toClient' \in Seq(ServerSays) BY <1>1 DEF SendActivation, Types
<1>3. srv' \in ServerEnd
  <2>1. s.index + 1 \in Nat /\ "init" \in ServerPlaces BY DEF ServerEnd, ServerPlaces
  <2>2. srv' = [s EXCEPT !.pc = "init", !.index = s.index + 1]
    BY DEF SendActivation, ServerEnd
  <2> QED BY <2>1, <2>2 DEF ServerEnd
<1> QED BY <1>2, <1>3

LEMMA SendsTypes ==
  ASSUME Types, NEW c \in ClientEnd, NEW m \in ClientSays, Sends(c, m)
  PROVE  Types'
<1>1. toServer' \in Seq(ClientSays) BY DEF Types, Sends
<1> QED BY <1>1 DEF Types, Sends

-----------------------------------------------------------------------------
(* Every action keeps the types. *)

LEMMA EnvironmentTypes ==
  ASSUME Types, Reconnect \/ LinkDrops \/ ServerRestarts \/ ClientRestarts
  PROVE  Types'
<1>1. ASSUME Reconnect PROVE Types'
  <2>1. <<Activate("none", 0)>> \in Seq(ServerSays)
    <3>1. Activate("none", 0) \in ServerSays BY ServerTalk, Bounds
    <3> QED BY <3>1
  <2> DEFINE psk == IF serverStore.mem # NoRecord /\ serverStore.mem = clientStore.mem
                    THEN serverStore.mem ELSE Sentinel
  <2>2. psk \in Psks BY Bounds DEF Types, ServerRecord
  <2>3. /\ srv' = [srv EXCEPT !.psk = psk, !.mismatch = srv'.mismatch]
        /\ srv'.mismatch \in BOOLEAN
        /\ cli' = [cli EXCEPT !.psk = psk, !.rekeyed = TRUE]
    BY <1>1 DEF Reconnect, Types, ServerEnd, ClientEnd
  <2>4. srv' \in ServerEnd BY <2>2, <2>3 DEF Types, ServerEnd
  <2>5. cli' \in ClientEnd BY <2>2, <2>3 DEF Types, ClientEnd
  <2> QED BY <1>1, <2>1, <2>4, <2>5 DEF Reconnect, Types
<1>2. ASSUME LinkDrops PROVE Types'
  <2>1. history' \in Past BY <1>2 DEF LinkDrops, Types, Past
  <2> QED BY <1>2, <2>1, DroppedTypes DEF LinkDrops, Types
<1>3. ASSUME ServerRestarts PROVE Types'
  <2>1. history' \in Past
    <3>1. history.crashes + 1 \in Nat BY DEF Types, Past
    <3>2. history' = [history EXCEPT !.crashes = history.crashes + 1]
      BY <1>3 DEF ServerRestarts, Types, Past
    <3> QED BY <3>1, <3>2 DEF Types, Past
  <2>2. serverStore' \in ServerRecord BY <1>3 DEF ServerRestarts, Types, ServerRecord
  <2> QED BY <1>3, <2>1, <2>2, DroppedTypes DEF ServerRestarts, Types
<1>4. ASSUME ClientRestarts PROVE Types'
  <2>1. history' \in Past
    <3>1. history.crashes + 1 \in Nat BY DEF Types, Past
    <3>2. history' = [history EXCEPT !.crashes = history.crashes + 1]
      BY <1>4 DEF ClientRestarts, Types, Past
    <3> QED BY <3>1, <3>2 DEF Types, Past
  <2>2. clientStore' \in ClientRecord BY <1>4 DEF ClientRestarts, Types, ClientRecord
  <2> QED BY <1>4, <2>1, <2>2, DroppedTypes DEF ClientRestarts, Types
<1> QED BY <1>1, <1>2, <1>3, <1>4

LEMMA ConfusedTypes ==
  ASSUME Types, Confused
  PROVE  Types'
<1>1. history' \in Past BY DEF Confused, Types, Past
<1> QED BY <1>1, DroppedTypes DEF Confused, Types

LEMMA StartedTypes ==
  ASSUME Types, srv.inbox # <<>>, Started
  PROVE  srv' \in ServerEnd /\ toClient' \in Seq(ServerSays)
<1>1. srv' \in ServerEnd
  <2>1. (IF srv.method = "psk" THEN "final" ELSE "code") \in ServerPlaces BY DEF ServerPlaces
  <2> QED BY <2>1, TakeTypes DEF Started, Types
<1>2. Plain("init") \in ServerSays BY ServerTalk
<1> QED BY <1>1, <1>2 DEF Started, Types

(* The server's pairing task. *)
LEMMA ListensTypes ==
  ASSUME Types, ServerListens
  PROVE  Types'
<1> DEFINE m == Head(srv.inbox)
<1>0. srv.inbox # <<>> /\ srv \in ServerEnd BY DEF ServerListens, Types
<1>1. /\ m \in ClientSays /\ Take(srv) \in ServerEnd
      /\ \A pc \in ServerPlaces : [Take(srv) EXCEPT !.pc = pc] \in ServerEnd
  BY <1>0, TakeTypes
<1>2. <<>> \in Seq(ServerSays) OBVIOUS
<1>3. ASSUME ServerAborted(m) PROVE Types'
  <2>1. srv' \in ServerEnd /\ toClient' \in Seq(ServerSays)
    BY <1>0, <1>1, <1>2, <1>3, LeaveTypes DEF ServerAborted, Types
  <2> QED BY <1>3, <2>1 DEF ServerAborted, Types
<1>4. ASSUME FirstMessage(m) PROVE Types'
  <2>1. CASE Confused BY <2>1, ConfusedTypes
  <2>2. CASE ~Confused
    <3>1. "gesture" \in ServerPlaces BY DEF ServerPlaces
    <3>2. srv' \in ServerEnd /\ toClient' \in Seq(ServerSays)
      BY <1>0, <1>1, <1>4, <2>2, <3>1, StartedTypes DEF FirstMessage, Types
    <3> QED BY <1>4, <2>2, <3>2 DEF FirstMessage, Types
  <2> QED BY <2>1, <2>2
<1>5. ASSUME Finalized(m), m.type = "finalize" PROVE Types'
  <2>1. m.psk \in Attempt BY <1>1, <1>5, ClientKinds
  <2>2. serverStore' \in ServerRecord /\ history' \in Past
    BY <1>5, <2>1 DEF Finalized, Types, ServerRecord, Past
  <2>3. srv' \in ServerEnd BY <1>1, <1>5 DEF Finalized, ServerPlaces
  <2> QED BY <1>5, <2>2, <2>3 DEF Finalized, Types
<1>6. ASSUME Exchanged(m), m.type \in Awaited \ {"finalize"} PROVE Types'
  <2>1. m.type \in {"init", "auth", "confirm", "retry"} BY <1>1, <1>6, ClientKinds DEF Awaited
  <2>2. srv' \in ServerEnd /\ toClient' \in Seq(ServerSays)
    <3>1. CASE m.type = "init"
      <4>1. Started BY <1>6, <3>1 DEF Exchanged
      <4> QED BY <1>0, <4>1, StartedTypes
    <3>2. CASE m.type = "auth"
      <4>1. "reply" \in ServerPlaces /\ Plain("confirm") \in ServerSays
        BY ServerTalk DEF ServerPlaces
      <4>2. /\ srv' = [Take(srv) EXCEPT !.pc = "reply"]
            /\ toClient' = Append(toClient, Plain("confirm"))
        BY <1>6, <3>2 DEF Exchanged
      <4> QED BY <1>1, <4>1, <4>2 DEF Types
    <3>3. CASE m.type = "confirm"
      <4>1. srv' = [Take(srv) EXCEPT !.pc = "final"] /\ toClient' = toClient
        BY <1>6, <3>3 DEF Exchanged
      <4> QED BY <1>1, <4>1 DEF Types, ServerPlaces
    <3>4. CASE m.type = "retry"
      <4> DEFINE s == [Take(srv) EXCEPT !.pc = "code"]
      <4>1. s \in ServerEnd BY <1>1 DEF ServerPlaces
      <4>2. srv' = [s EXCEPT !.round = @ + 1] /\ toClient' = Append(toClient, Plain("init"))
        BY <1>6, <3>4 DEF Exchanged
      <4> HIDE DEF s
      <4>3. s.round + 1 \in Nat /\ srv' = [s EXCEPT !.round = s.round + 1]
        BY <4>1, <4>2 DEF ServerEnd
      <4>4. srv' \in ServerEnd BY <4>1, <4>3 DEF ServerEnd
      <4>5. Plain("init") \in ServerSays BY ServerTalk
      <4> QED BY <4>2, <4>4, <4>5 DEF Types
    <3> QED BY <2>1, <3>1, <3>2, <3>3, <3>4
  <2> QED BY <1>6, <2>2 DEF Exchanged, Types
<1> QED BY <1>3, <1>4, <1>5, <1>6, ConfusedTypes DEF ServerListens

(* The other steps of the server. *)
LEMMA ServerTypes ==
  ASSUME Types, StartAttempt \/ CodeEntered \/ CancelAttempt \/ ServerTimesOut \/ Prepared
                \/ ServerReads \/ ServerRekeyed \/ ServerSaved \/ Acknowledged
  PROVE  Types'
<1>0. srv \in ServerEnd /\ <<>> \in Seq(ServerSays) BY DEF Types
<1>1. ASSUME StartAttempt PROVE Types'
  <2>1. srv.attempt + 1 \in Attempt
    <3>1. srv.attempt \in Attempt /\ srv.attempt < MaxAttempts
      BY <1>0, <1>1 DEF StartAttempt, ServerEnd
    <3> QED BY <3>1, PairingAssumption DEF Attempt
  <2>2. PICK method \in Methods :
          LET wanted == IF method = "psk" THEN PairingPsk ELSE Sentinel
              started == [srv EXCEPT !.method = method, !.attempt = @ + 1,
                                     !.round = 1, !.free = FALSE, !.inbox = <<>>]
          IN IF srv.psk = wanted
             THEN srv' = [started EXCEPT !.pc = "prep"] /\ UNCHANGED toClient
             ELSE /\ srv' = [started EXCEPT !.pc = "rekey"]
                  /\ toClient' = Append(toClient, Handshake(wanted))
    BY <1>1 DEF StartAttempt
  <2> DEFINE a == srv.attempt + 1
             started == [srv EXCEPT !.method = method, !.attempt = a,
                                    !.round = 1, !.free = FALSE, !.inbox = <<>>]
             wanted == IF method = "psk" THEN PairingPsk ELSE Sentinel
  <2>3. started \in ServerEnd
    <3>1. method \in Method /\ 1 \in Nat /\ <<>> \in Seq(ClientSays) BY Bounds
    <3>2. a \in Attempt BY <2>1
    <3> HIDE DEF a
    <3> QED BY <1>0, <3>1, <3>2 DEF ServerEnd
  <2>4. Handshake(wanted) \in ServerSays BY ServerTalk, Bounds
  <2>5. \A pc \in ServerPlaces : [started EXCEPT !.pc = pc] \in ServerEnd
    BY <2>3 DEF ServerEnd
  <2>6. \/ srv' = [started EXCEPT !.pc = "prep"] /\ toClient' = toClient
        \/ srv' = [started EXCEPT !.pc = "rekey"] /\ toClient' = Append(toClient, Handshake(wanted))
    BY <2>2
  <2> HIDE DEF started, wanted
  <2>7. srv' \in ServerEnd BY <2>5, <2>6 DEF ServerPlaces
  <2>8. toClient' \in Seq(ServerSays) BY <2>4, <2>6 DEF Types
  <2> QED BY <1>1, <2>7, <2>8 DEF StartAttempt, Types
<1>2. ASSUME CodeEntered PROVE Types'
  <2>1. srv' \in ServerEnd /\ toClient' \in Seq(ServerSays)
    <3>1. CASE LeaveTo(srv, <<>>) BY <1>0, <3>1, LeaveTypes
    <3>2. CASE \E code \in {"right", "wrong"} :
                 /\ srv' = [srv EXCEPT !.pc = "auth"]
                 /\ toClient' = Append(toClient, Auth(code, <<srv.index, srv.round>>))
      <4>1. srv' \in ServerEnd BY <1>0, <3>2 DEF ServerEnd, ServerPlaces
      <4>2. \A code \in {"right", "wrong"} : Auth(code, <<srv.index, srv.round>>) \in ServerSays
        BY <1>0, ServerTalk DEF ServerEnd
      <4> QED BY <3>2, <4>1, <4>2 DEF Types
    <3> QED BY <1>2, <3>1, <3>2 DEF CodeEntered
  <2> QED BY <1>2, <2>1 DEF CodeEntered, Types
<1>3. ASSUME CancelAttempt PROVE Types'
  <2>1. <<Abort("user_cancelled")>> \in Seq(ServerSays)
    <3>1. Abort("user_cancelled") \in ServerSays BY ServerTalk DEF Reasons
    <3> QED BY <3>1
  <2>2. [srv EXCEPT !.free = TRUE] \in ServerEnd /\ [srv EXCEPT !.cancel = TRUE] \in ServerEnd
    BY <1>0 DEF ServerEnd
  <2>3. srv' \in ServerEnd /\ toClient' \in Seq(ServerSays)
    <3>1. CASE LeaveTo([srv EXCEPT !.free = TRUE], <<Abort("user_cancelled")>>)
      BY <2>1, <2>2, <3>1, LeaveTypes
    <3> QED BY <1>3, <2>2, <3>1 DEF CancelAttempt, Types
  <2> QED BY <1>3, <2>3 DEF CancelAttempt, Types
<1>4. ASSUME ServerTimesOut PROVE Types'
  <2>1. CASE Dropped
    <3>1. history' \in Past BY <1>4 DEF ServerTimesOut, Types, Past
    <3>2. serverStore' = serverStore /\ clientStore' = clientStore
      BY <1>4 DEF ServerTimesOut
    <3> QED BY <2>1, <3>1, <3>2, DroppedTypes DEF Types
  <2>2. CASE ~Dropped
    <3>1. LeaveTo(srv, <<>>) BY <1>4, <2>2 DEF ServerTimesOut
    <3>2. history' \in Past BY <1>4, <2>2 DEF ServerTimesOut, Types, Past
    <3> QED BY <1>0, <1>4, <2>2, <3>1, <3>2, LeaveTypes DEF ServerTimesOut, Types
  <2> QED BY <2>1, <2>2
<1>5. ASSUME Prepared PROVE Types'
  BY <1>0, <1>5, ActivationTypes DEF Prepared, Types
<1>6. ASSUME ServerReads PROVE Types'
  <2>1. Head(toServer) \in ClientSays /\ toServer' \in Seq(ClientSays)
    BY <1>6 DEF ServerReads, Types
  <2>2. srv.inbox \in Seq(ClientSays) BY <1>0 DEF ServerEnd
  <2>3. Append(srv.inbox, Head(toServer)) \in Seq(ClientSays) BY <2>1, <2>2
  <2>4. srv' \in ServerEnd BY <1>0, <1>6, <2>3 DEF ServerReads, ServerEnd
  <2> QED BY <1>6, <2>1, <2>4 DEF ServerReads, Types
<1>7. ASSUME ServerRekeyed PROVE Types'
  <2> DEFINE m == Head(srv.inbox)
             keyed == [Take(srv) EXCEPT !.psk = m.psk, !.index = 0]
             moved == [keyed EXCEPT !.moved = @ \/ srv.psk \in Credentials]
  <2>1. m \in ClientSays /\ Take(srv) \in ServerEnd
    BY <1>0, <1>7, TakeTypes DEF ServerRekeyed
  <2>2. srv' \in ServerEnd /\ toClient' \in Seq(ServerSays)
    <3>1. CASE m.type # "handshake"
      BY <1>7, <2>1, <3>1 DEF ServerRekeyed, Types
    <3>2. CASE m.type = "handshake"
      <4>1. m.psk \in Psks BY <2>1, <3>2, ClientKinds
      <4>2. keyed \in ServerEnd BY <2>1, <4>1 DEF ServerEnd
      <4>3. moved \in ServerEnd /\ [keyed EXCEPT !.moved = FALSE, !.free = FALSE] \in ServerEnd
        <5> HIDE DEF keyed
        <5> QED BY <4>2 DEF ServerEnd
      <4>4. \/ SendActivation(moved)
            \/ \E s \in {moved, keyed, [keyed EXCEPT !.moved = FALSE, !.free = FALSE]} :
                  LeaveTo(s, <<>>)
        BY <1>7, <3>2 DEF ServerRekeyed, Rekeying
      <4> HIDE DEF moved, keyed
      <4> QED BY <1>0, <4>2, <4>3, <4>4, LeaveTypes, ActivationTypes
    <3> QED BY <3>1, <3>2
  <2> QED BY <1>7, <2>2 DEF ServerRekeyed, Types
<1>8. ASSUME ServerSaved PROVE Types'
  <2>1. serverStore' \in ServerRecord /\ history' \in Past
    BY <1>8 DEF ServerSaved, Types, ServerRecord, Past
  <2>2. Plain("finalize") \in ServerSays BY ServerTalk
  <2>3. srv' \in ServerEnd
    <3>1. srv' = srv \/ srv' = [srv EXCEPT !.pc = "acked"] BY <1>8 DEF ServerSaved
    <3> QED BY <1>0, <3>1 DEF ServerEnd, ServerPlaces
  <2>4. toClient' \in Seq(ServerSays)
    <3>1. toClient' = toClient \/ toClient' = Append(toClient, Plain("finalize"))
      BY <1>8 DEF ServerSaved
    <3> QED BY <2>2, <3>1 DEF Types
  <2> QED BY <1>8, <2>1, <2>3, <2>4 DEF ServerSaved, Types
<1>9. ASSUME Acknowledged PROVE Types'
  <2>1. Handshake(serverStore.mem) \in ServerSays
    BY ServerTalk, Bounds DEF Types, ServerRecord
  <2>2. srv' \in ServerEnd BY <1>0, <1>9 DEF Acknowledged, ServerEnd, ServerPlaces
  <2> QED BY <1>9, <2>1, <2>2 DEF Acknowledged, Types
<1> QED BY <1>1, <1>2, <1>3, <1>4, <1>5, <1>6, <1>7, <1>8, <1>9

(* What a client reads from the connection. *)
LEMMA ClientReadsTypes ==
  ASSUME Types, ClientReads
  PROVE  Types'
<1> DEFINE m == Head(toClient)
<1>0. cli \in ClientEnd /\ Ended(cli) \in ClientEnd BY EndedTypes DEF Types
<1>1. m \in ServerSays /\ Tail(toClient) \in Seq(ServerSays) BY DEF ClientReads, Types
<1>2. ASSUME m.type = "activate", ReadActivate(m) PROVE Types'
  <2> DEFINE freed == [Ended(cli) EXCEPT !.rekeyed = FALSE]
  <2>1. freed \in ClientEnd BY <1>0 DEF ClientEnd
  <2>2. cli' \in ClientEnd
    <3>1. CASE m.method = "none" BY <1>2, <2>1, <3>1 DEF ReadActivate
    <3>2. CASE m.method # "none"
      <4>1. /\ m.method \in Method /\ m.attempt \in Attempt /\ freed.index + 1 \in Nat
            /\ 1 \in Nat /\ "start" \in ClientPlaces
        BY <1>1, <1>2, <2>1, <3>2, ServerKinds DEF ClientPlaces, ClientEnd
      <4>2. cli' = [freed EXCEPT !.pc = "start", !.method = m.method, !.attempt = m.attempt,
                                 !.index = @ + 1, !.round = 1, !.cancellable = TRUE]
        BY <1>2, <3>2 DEF ReadActivate
      <4> HIDE DEF freed, m
      <4>3. cli' = [freed EXCEPT !.pc = "start", !.method = m.method, !.attempt = m.attempt,
                                 !.index = freed.index + 1, !.round = 1, !.cancellable = TRUE]
        BY <2>1, <4>2 DEF ClientEnd
      <4> QED BY <2>1, <4>1, <4>3 DEF ClientEnd
    <3> QED BY <3>1, <3>2
  <2> QED BY <1>1, <1>2, <2>2 DEF ReadActivate, ClientReads, Types
<1>3. ASSUME m.type = "handshake", ReadHandshake(m) PROVE Types'
  <2>1. CASE Holds(m.psk)
    <3>1. m.psk \in Psks /\ m \in ClientSays BY <1>1, <1>3, ServerKinds, ClientTalk
    <3>2. cli' = [Ended(cli) EXCEPT !.psk = m.psk, !.index = 0, !.rekeyed = TRUE]
      BY <1>3, <2>1 DEF ReadHandshake
    <3>3. cli' \in ClientEnd BY <1>0, <3>1, <3>2 DEF ClientEnd
    <3>4. /\ toServer' = Append(toServer, m) /\ toClient' = Tail(toClient)
          /\ UNCHANGED <<link, srv, history>>
      BY <1>3, <2>1 DEF ReadHandshake
    <3>5. UNCHANGED <<serverStore, clientStore>> BY DEF ClientReads
    <3>6. toServer' \in Seq(ClientSays) BY <3>1, <3>4 DEF Types
    <3> QED BY <1>1, <3>3, <3>4, <3>5, <3>6 DEF Types
  <2>2. CASE ~Holds(m.psk)
    <3>1. history' \in Past /\ Dropped BY <1>3, <2>2 DEF ReadHandshake, Types, Past
    <3> QED BY <3>1, DroppedTypes DEF ClientReads, Types
  <2> QED BY <2>1, <2>2
<1>4. ASSUME cli' = IF cli.pc = "none" THEN cli
                    ELSE [cli EXCEPT !.inbox = Append(@, m), !.acked = m.type = "finalize"],
             toClient' = Tail(toClient), UNCHANGED <<link, toServer, srv, history>>
      PROVE  Types'
  <2>1. cli.inbox \in Seq(ServerSays) BY <1>0 DEF ClientEnd
  <2>2. Append(cli.inbox, m) \in Seq(ServerSays) /\ (m.type = "finalize") \in BOOLEAN
    BY <1>1, <2>1
  <2>3. \/ cli' = cli
        \/ cli' = [cli EXCEPT !.inbox = Append(cli.inbox, m), !.acked = (m.type = "finalize")]
    BY <1>4, <1>0 DEF ClientEnd
  <2> HIDE DEF m
  <2>4. cli' \in ClientEnd BY <1>0, <2>2, <2>3 DEF ClientEnd
  <2> QED BY <1>1, <1>4, <2>4 DEF ClientReads, Types
<1>5. ASSUME Dropped, history' = [history EXCEPT !.confused = TRUE] PROVE Types'
  BY <1>5, ConfusedTypes DEF Confused, ClientReads
<1> QED BY <1>2, <1>3, <1>4, <1>5 DEF ClientReads

(* Past the gate. *)
LEMMA AdmittedTypes ==
  ASSUME Types, Admitted
  PROVE  Types' /\ cli'.pc = FirstWait[cli.method]
<1>0. cli \in ClientEnd BY DEF Types
<1>1. FirstWait[cli.method] \in ClientPlaces /\ (cli.window /\ cli.method # "dynamic") \in BOOLEAN
  BY <1>0 DEF FirstWait, ClientPlaces, ClientEnd, Method
<1>2. cli' = [cli EXCEPT !.pc = FirstWait[cli.method],
                         !.window = (cli.window /\ cli.method # "dynamic")]
  BY <1>0 DEF Admitted, ClientEnd
<1>3. cli' \in ClientEnd /\ cli'.pc = FirstWait[cli.method] BY <1>0, <1>1, <1>2 DEF ClientEnd
<1>4. PairInit(cli.index) \in ClientSays BY <1>0, ClientTalk DEF ClientEnd
<1>5. clientStore' \in ClientRecord /\ history' \in Past
  BY DEF Admitted, RoundsReset, Types, ClientRecord, Past
<1> QED BY <1>3, <1>4, <1>5 DEF Admitted, Types

(* The branches of the client's pairing task. *)
LEMMA ClientListensTo ==
  ASSUME ClientListens, NEW m, m = Head(cli.inbox)
  PROVE  \/ /\ m.type = "abort" /\ cli' = Ended(cli)
            /\ UNCHANGED <<link, toClient, toServer, srv, serverStore, clientStore, history>>
         \/ m.type \notin {"abort", Expects[cli.pc]} /\ Confused
         \/ m.type = "init" /\ cli.pc = "sinit" /\ RoundBegins
         \/ m.type = "auth" /\ cli.pc = "auth" /\ AuthExchanged(m)
         \/ m.type = "confirm" /\ cli.pc = "confirm" /\ ConfirmChecked
         \/ m.type = "finalize" /\ cli.pc = "ack" /\ CredentialStored
<1>1. CASE m.type = "abort" BY <1>1 DEF ClientListens
<1>2. CASE m.type \notin {"abort", Expects[cli.pc]}
  <2>1. /\ m.type = "init" => cli.pc # "sinit"
        /\ m.type = "auth" => cli.pc # "auth"
        /\ m.type = "confirm" => cli.pc # "confirm"
        /\ m.type = "finalize" => cli.pc # "ack"
    BY <1>2 DEF Expects
  <2> QED BY <1>2, <2>1 DEF ClientListens
<1>3. CASE m.type # "abort" /\ m.type = Expects[cli.pc]
  <2>1. \/ m.type = "init" /\ cli.pc = "sinit"
        \/ m.type = "auth" /\ cli.pc = "auth"
        \/ m.type = "confirm" /\ cli.pc = "confirm"
        \/ m.type = "finalize" /\ cli.pc = "ack"
    BY <1>3 DEF ClientListens, Listening, Expects
  <2>2. m.type \in {"abort", Expects[cli.pc]} BY <1>3
  <2> QED BY <1>3, <2>1, <2>2 DEF ClientListens
<1> QED BY <1>1, <1>2, <1>3

(* The client's pairing task. *)
LEMMA ClientListensTypes ==
  ASSUME Types, ClientListens
  PROVE  Types'
<1> DEFINE m == Head(cli.inbox)
<1>0. cli.inbox # <<>> /\ cli \in ClientEnd BY DEF ClientListens, Types
<1>1. /\ m \in ServerSays /\ Takes(cli) \in ClientEnd /\ Ended(cli) \in ClientEnd
      /\ \A pc \in ClientPlaces : [Takes(cli) EXCEPT !.pc = pc] \in ClientEnd
  BY <1>0, TakesTypes, EndedTypes
<1>2. ASSUME cli' = Ended(cli),
             UNCHANGED <<link, toClient, toServer, srv, serverStore, clientStore, history>>
      PROVE  Types'
  BY <1>1, <1>2 DEF Types
<1>3. ASSUME RoundBegins PROVE Types'
  BY <1>1, <1>3 DEF RoundBegins, Types, ClientPlaces
<1>4. ASSUME AuthExchanged(m) PROVE Types'
  <2> DEFINE c == [Takes(cli) EXCEPT !.pc = "confirm",
                    !.agreed = m.code = "right" /\ m.sid = <<cli.index, cli.round>>]
  <2>1. c \in ClientEnd BY <1>1 DEF ClientEnd, ClientPlaces
  <2>2. Plain("auth") \in ClientSays BY ClientTalk
  <2>3. Sends(c, Plain("auth")) BY <1>4 DEF AuthExchanged
  <2> HIDE DEF c
  <2> QED BY <2>1, <2>2, <2>3, SendsTypes
<1>5. ASSUME ConfirmChecked PROVE Types'
  <2>1. ASSUME cli' = [Takes(cli) EXCEPT !.pc = "mint"],
               toServer' = Append(toServer, Plain("confirm")),
               RoundsReset(cli.method = "dynamic"),
               UNCHANGED <<link, toClient, srv, serverStore>>
        PROVE  Types'
    <3>1. cli' \in ClientEnd BY <1>1, <2>1 DEF ClientPlaces
    <3>2. clientStore' \in ClientRecord /\ history' \in Past
      BY <2>1 DEF RoundsReset, Types, ClientRecord, Past
    <3>3. Plain("confirm") \in ClientSays BY ClientTalk
    <3> QED BY <2>1, <3>1, <3>2, <3>3 DEF Types
  <2>2. ASSUME Sends([Takes(cli) EXCEPT !.pc = "sinit", !.round = @ + 1], Plain("retry"))
        PROVE  Types'
    <3> DEFINE c == [Takes(cli) EXCEPT !.pc = "sinit", !.round = @ + 1]
    <3>1. c = [Takes(cli) EXCEPT !.pc = "sinit", !.round = Takes(cli).round + 1]
      BY <1>1 DEF ClientEnd
    <3>2. Takes(cli).round + 1 \in Nat BY <1>1 DEF ClientEnd
    <3>3. c \in ClientEnd
      <4> DEFINE t == Takes(cli)
      <4>1. t \in ClientEnd /\ t.round + 1 \in Nat /\ "sinit" \in ClientPlaces
        BY <1>1, <3>2 DEF ClientPlaces
      <4>2. c = [t EXCEPT !.pc = "sinit", !.round = t.round + 1] BY <3>1
      <4> HIDE DEF t, c
      <4> QED BY <4>1, <4>2 DEF ClientEnd
    <3>4. Plain("retry") \in ClientSays BY ClientTalk
    <3> QED BY <2>2, <3>3, <3>4, SendsTypes
  <2>3. ASSUME NEW window \in BOOLEAN,
               Sends([Ended(cli) EXCEPT !.window = window], Abort("pairing_code_mismatch"))
        PROVE  Types'
    <3>1. [Ended(cli) EXCEPT !.window = window] \in ClientEnd BY <1>0, EndedTypes
    <3>2. Abort("pairing_code_mismatch") \in ClientSays
      BY ClientTalk DEF Reasons, LeftoverReasons
    <3> QED BY <2>3, <3>1, <3>2, SendsTypes
  <2>4. cli.window \in BOOLEAN BY <1>0 DEF ClientEnd
  <2> QED BY <1>5, <2>1, <2>2, <2>3, <2>4 DEF ConfirmChecked
<1>6. ASSUME CredentialStored PROVE Types'
  <2>1. clientStore' \in ClientRecord
    BY <1>0, <1>6 DEF CredentialStored, Types, ClientRecord, ClientEnd
  <2>2. cli' \in ClientEnd BY <1>1, <1>6 DEF CredentialStored, ClientPlaces
  <2> QED BY <1>6, <2>1, <2>2 DEF CredentialStored, Types
<1> QED BY <1>2, <1>3, <1>4, <1>5, <1>6, ConfusedTypes, ClientListensTo

(* The other steps of the client. *)
LEMMA ClientTypes ==
  ASSUME Types, ClientTimesOut \/ ClientCancels \/ WindowOpens \/ WindowCloses
                \/ AttemptBegins \/ WindowAdmits \/ RoundCounted \/ CodeEmitted
                \/ CredentialOffered \/ ClientSaved
  PROVE  Types'
<1>0. cli \in ClientEnd /\ Ended(cli) \in ClientEnd BY EndedTypes DEF Types
<1>1. ASSUME ClientTimesOut PROVE Types'
  <2>1. CASE Dropped
    <3>1. history' \in Past BY <1>1 DEF ClientTimesOut, Types, Past
    <3>2. serverStore' = serverStore /\ clientStore' = clientStore
      BY <1>1 DEF ClientTimesOut
    <3> QED BY <2>1, <3>1, <3>2, DroppedTypes DEF Types
  <2>2. CASE ~Dropped
    <3>1. Abort("attempt_timeout") \in ClientSays BY ClientTalk DEF Reasons, LeftoverReasons
    <3>2. history' \in Past BY <1>1, <2>2 DEF ClientTimesOut, Types, Past
    <3> QED BY <1>0, <1>1, <2>2, <3>1, <3>2 DEF ClientTimesOut, Types
  <2> QED BY <2>1, <2>2
<1>2. ASSUME ClientCancels PROVE Types'
  <2>1. [Ended(cli) EXCEPT !.window = FALSE] \in ClientEnd BY <1>0, EndedTypes
  <2>2. Abort("user_cancelled") \in ClientSays BY ClientTalk DEF Reasons
  <2> QED BY <1>2, <2>1, <2>2, SendsTypes DEF ClientCancels
<1>3. ASSUME WindowOpens \/ WindowCloses PROVE Types'
  <2>1. cli' \in ClientEnd BY <1>0, <1>3 DEF WindowOpens, WindowCloses, ClientEnd
  <2> QED BY <1>3, <2>1 DEF WindowOpens, WindowCloses, Types
<1>4. ASSUME AttemptBegins PROVE Types'
  <2>1. CASE Admitted BY <2>1, AdmittedTypes
  <2>2. CASE Sends([cli EXCEPT !.pc = "gate"], [type |-> "pending", index |-> cli.index])
    <3>1. [cli EXCEPT !.pc = "gate"] \in ClientEnd BY <1>0 DEF ClientEnd, ClientPlaces
    <3>2. [type |-> "pending", index |-> cli.index] \in ClientSays
      BY <1>0, ClientTalk DEF ClientEnd
    <3> QED BY <2>2, <3>1, <3>2, SendsTypes
  <2> QED BY <1>4, <2>1, <2>2 DEF AttemptBegins
<1>5. ASSUME WindowAdmits PROVE Types'
  BY <1>5, AdmittedTypes DEF WindowAdmits
<1>6. ASSUME RoundCounted PROVE Types'
  <2>1. clientStore.rounds + 1 \in Nat BY DEF Types, ClientRecord
  <2>2. clientStore' = [clientStore EXCEPT !.rounds = clientStore.rounds + 1]
    BY <1>6 DEF RoundCounted, Types, ClientRecord
  <2>3. clientStore' \in ClientRecord BY <2>1, <2>2 DEF Types, ClientRecord
  <2>4. cli' \in ClientEnd BY <1>0, <1>6 DEF RoundCounted, ClientEnd, ClientPlaces
  <2> QED BY <1>6, <2>3, <2>4 DEF RoundCounted, Types
<1>7. ASSUME CodeEmitted PROVE Types'
  <2>1. history.emitted + 1 \in Nat BY DEF Types, Past
  <2>2. history' = [history EXCEPT !.emitted = history.emitted + 1]
    BY <1>7 DEF CodeEmitted, Types, Past
  <2>3. history' \in Past BY <2>1, <2>2 DEF Types, Past
  <2>4. cli' \in ClientEnd BY <1>0, <1>7 DEF CodeEmitted, ClientEnd, ClientPlaces
  <2> QED BY <1>7, <2>3, <2>4 DEF CodeEmitted, Types
<1>8. ASSUME CredentialOffered PROVE Types'
  <2>1. cli.attempt \in Attempt /\ Finalize(cli.attempt) \in ClientSays
    BY <1>0, ClientTalk DEF ClientEnd
  <2>2. history' \in Past BY <1>8, <2>1 DEF CredentialOffered, Types, Past
  <2>3. cli' \in ClientEnd BY <1>0, <1>8 DEF CredentialOffered, ClientEnd, ClientPlaces
  <2> QED BY <1>8, <2>1, <2>2, <2>3 DEF CredentialOffered, Types
<1>9. ASSUME ClientSaved PROVE Types'
  <2>1. clientStore' \in ClientRecord BY <1>9 DEF ClientSaved, Types, ClientRecord
  <2>2. [Ended(cli) EXCEPT !.window = @ /\ cli.method # "static"] \in ClientEnd
    BY <1>0 DEF ClientEnd
  <2>3. cli' \in ClientEnd BY <1>0, <1>9, <2>2 DEF ClientSaved
  <2> QED BY <1>9, <2>1, <2>3 DEF ClientSaved, Types
<1> QED BY <1>1, <1>2, <1>3, <1>4, <1>5, <1>6, <1>7, <1>8, <1>9

LEMMA InitTypes == Init => Types
<1> SUFFICES ASSUME Init PROVE Types OBVIOUS
<1>1. /\ <<>> \in Seq(ServerSays) /\ <<>> \in Seq(ClientSays) /\ 0 \in Nat /\ 1 \in Nat
      /\ {} \in SUBSET Attempt
  OBVIOUS
<1>2. srv \in ServerEnd
  BY <1>1, Bounds DEF Init, ServerAtRest, ServerEnd, ServerPlaces, Method
<1>3. cli \in ClientEnd
  BY <1>1, Bounds DEF Init, ClientAtRest, ClientEnd, ClientPlaces, Method
<1>4. serverStore \in ServerRecord /\ clientStore \in ClientRecord
  BY <1>1, Bounds DEF Init, ServerRecord, ClientRecord, NoRecord
<1>5. history \in Past BY <1>1 DEF Init, Past
<1> QED BY <1>1, <1>2, <1>3, <1>4, <1>5 DEF Init, Types

LEMMA TypesKept ==
  ASSUME Types, [Next]_vars
  PROVE  Types'
<1>1. CASE UNCHANGED vars
  <2>1. /\ link' = link /\ toClient' = toClient /\ toServer' = toServer /\ srv' = srv
        /\ cli' = cli /\ serverStore' = serverStore /\ clientStore' = clientStore
        /\ history' = history
    BY <1>1 DEF vars
  <2> QED BY <2>1 DEF Types
<1>2. CASE Environment
  BY <1>2, EnvironmentTypes, ServerTypes, ClientTypes DEF Environment
<1>3. CASE ServerSteps BY <1>3, ServerTypes, ListensTypes DEF ServerSteps
<1>4. CASE ClientSteps
  BY <1>4, ClientReadsTypes, ClientListensTypes, ClientTypes DEF ClientSteps
<1> QED BY <1>1, <1>2, <1>3, <1>4 DEF Next

-----------------------------------------------------------------------------
(* Every action keeps the bound. *)

LEMMA QuietRounds ==
  ASSUME Types, Rounds, cli'.pc \notin {"sinit", "emit", "show"} \/ cli'.pc = cli.pc,
         clientStore'.rounds = clientStore.rounds, history'.emitted = history.emitted
  PROVE  Rounds'
BY DEF Types, Rounds, Past, ClientRecord

(* A connection that goes, and everything the server does. *)
LEMMA OtherRounds ==
  ASSUME Types, Rounds,
         Reconnect \/ LinkDrops \/ ServerRestarts \/ ClientRestarts \/ Confused
           \/ StartAttempt \/ CodeEntered \/ CancelAttempt \/ ServerTimesOut
           \/ Prepared \/ ServerReads \/ ServerRekeyed \/ ServerListens \/ ServerSaved
           \/ Acknowledged
  PROVE  Rounds'
<1>1. ASSUME Dropped PROVE cli'.pc = "none"
  BY <1>1 DEF Dropped, ClientAtRest
<1>2. CASE LinkDrops \/ ServerRestarts \/ ClientRestarts \/ Confused
  <2>1. clientStore'.rounds = clientStore.rounds /\ history'.emitted = history.emitted
    BY <1>2 DEF LinkDrops, ServerRestarts, ClientRestarts, Confused, Types, ClientRecord, Past
  <2> QED BY <1>1, <1>2, <2>1, QuietRounds DEF LinkDrops, ServerRestarts, ClientRestarts, Confused
<1>3. CASE Reconnect
  <2>1. cli'.pc = cli.pc BY <1>3 DEF Reconnect, Types, ClientEnd
  <2> QED BY <1>3, <2>1, QuietRounds DEF Reconnect
<1>4. CASE ServerTimesOut
  <2>1. clientStore' = clientStore /\ history'.emitted = history.emitted
    BY <1>4 DEF ServerTimesOut, Types, Past
  <2>2. Dropped \/ cli' = cli BY <1>4 DEF ServerTimesOut
  <2> QED BY <1>1, <2>1, <2>2, QuietRounds
<1>5. CASE ServerListens
  <2> DEFINE m == Head(srv.inbox)
  <2>1. CASE Confused BY <2>1, <1>1, QuietRounds DEF Confused, Types, Past
  <2>2. CASE ~Confused
    <3>1. ServerAborted(m) \/ FirstMessage(m) \/ Finalized(m) \/ Exchanged(m)
      BY <1>5, <2>2 DEF ServerListens
    <3>2. cli' = cli /\ clientStore' = clientStore /\ history'.emitted = history.emitted
      BY <2>2, <3>1 DEF ServerAborted, FirstMessage, Finalized, Exchanged, Types, Past
    <3> QED BY <3>2, QuietRounds
  <2> QED BY <2>1, <2>2
<1>6. CASE StartAttempt \/ CodeEntered \/ CancelAttempt \/ Prepared \/ ServerReads
             \/ ServerRekeyed \/ ServerSaved \/ Acknowledged
  <2>1. cli' = cli /\ clientStore' = clientStore
    BY <1>6 DEF StartAttempt, CodeEntered, CancelAttempt, Prepared, ServerReads, ServerRekeyed,
                ServerSaved, Acknowledged
  <2>2. history'.emitted = history.emitted
    BY <1>6 DEF StartAttempt, CodeEntered, CancelAttempt, Prepared, ServerReads, ServerRekeyed,
                ServerSaved, Acknowledged, Types, Past
  <2> QED BY <2>1, <2>2, QuietRounds
<1> QED BY <1>2, <1>3, <1>4, <1>5, <1>6

LEMMA AdmittedRounds ==
  ASSUME Types, Rounds, Admitted, cli.pc \in {"start", "gate"}
  PROVE  Rounds'
<1>1. cli'.pc = FirstWait[cli.method] BY AdmittedTypes
<1>2. cli.method \in Method BY DEF Types, ClientEnd
<1>3. CASE cli.method = "dynamic"
  <2>1. cli'.pc = "sinit" BY <1>1, <1>3 DEF FirstWait
  <2>2. CASE Gated
    <3>1. clientStore' = [clientStore EXCEPT !.rounds = 0] /\ history' = [history EXCEPT !.emitted = 0]
      BY <1>3, <2>2 DEF Admitted, RoundsReset
    <3>2. clientStore'.rounds = 0 /\ history'.emitted = 0
      BY <3>1 DEF Types, ClientRecord, Past
    <3> QED BY <2>1, <3>2, Bounds DEF Rounds
  <2>3. CASE ~Gated
    <3>1. clientStore' = clientStore /\ history' = history
      BY <2>3 DEF Admitted, RoundsReset
    <3>2. clientStore.rounds < RoundLimit
      BY <1>3, <2>3, Bounds DEF Gated, Types, ClientRecord
    <3> QED BY <2>1, <3>1, <3>2 DEF Rounds
  <2> QED BY <2>2, <2>3
<1>4. CASE cli.method # "dynamic"
  <2>1. cli'.pc \in {"mint", "auth"} BY <1>1, <1>2, <1>4 DEF FirstWait, Method
  <2>2. clientStore' = clientStore /\ history' = history
    BY <1>4 DEF Admitted, RoundsReset
  <2> QED BY <2>1, <2>2, QuietRounds
<1> QED BY <1>3, <1>4

(* What the client does. *)
LEMMA ClientRounds ==
  ASSUME Types, Rounds, Types',
         ClientSteps \/ ClientTimesOut \/ ClientCancels \/ WindowOpens \/ WindowCloses
  PROVE  Rounds'
<1>0. /\ cli \in ClientEnd /\ Ended(cli).pc = "none" /\ Takes(cli).pc = cli.pc
      /\ history \in Past /\ clientStore \in ClientRecord
  BY DEF Types, Ended, Takes, ClientEnd
<1>1. ASSUME Dropped PROVE cli'.pc = "none"
  BY <1>1 DEF Dropped, ClientAtRest
<1>2. CASE ClientReads
  <2> DEFINE m == Head(toClient)
  <2>1. cli'.pc \in {"none", "start"} \/ cli'.pc = cli.pc
    <3>1. CASE ReadActivate(m)
      BY <1>0, <3>1, EndedTypes DEF ReadActivate, ClientEnd
    <3>2. CASE ReadHandshake(m)
      BY <1>0, <1>1, <3>2, EndedTypes DEF ReadHandshake, ClientEnd
    <3>3. CASE Dropped BY <1>1, <3>3
    <3>4. CASE cli' = IF cli.pc = "none" THEN cli
                      ELSE [cli EXCEPT !.inbox = Append(@, m), !.acked = m.type = "finalize"]
      BY <1>0, <3>4 DEF ClientEnd
    <3> QED BY <1>2, <3>1, <3>2, <3>3, <3>4 DEF ClientReads
  <2>2. clientStore' = clientStore BY <1>2 DEF ClientReads
  <2>3. history'.emitted = history.emitted
    BY <1>0, <1>2 DEF ClientReads, ReadActivate, ReadHandshake, Past
  <2> QED BY <2>1, <2>2, <2>3, QuietRounds
<1>3. CASE AttemptBegins
  <2>1. CASE Admitted BY <1>3, <2>1, AdmittedRounds DEF AttemptBegins
  <2>2. CASE Sends([cli EXCEPT !.pc = "gate"], [type |-> "pending", index |-> cli.index])
    BY <1>0, <2>2, QuietRounds DEF Sends, ClientEnd
  <2> QED BY <1>3, <2>1, <2>2 DEF AttemptBegins
<1>4. CASE WindowAdmits BY <1>4, AdmittedRounds DEF WindowAdmits
<1>5. CASE ClientListens
  <2> DEFINE m == Head(cli.inbox)
  <2>1. CASE Confused BY <1>0, <1>1, <2>1, QuietRounds DEF Confused, Past
  <2>2. CASE cli' = Ended(cli) /\ clientStore' = clientStore /\ history' = history
    BY <1>0, <2>2, QuietRounds
  <2>3. CASE RoundBegins /\ cli.pc = "sinit"
    <3>1. cli'.pc = "emit" /\ clientStore' = clientStore /\ history' = history
      BY <1>0, <2>3 DEF RoundBegins, ClientEnd, Takes
    <3> QED BY <2>3, <3>1 DEF Rounds
  <2>4. CASE AuthExchanged(m)
    <3>1. cli'.pc = "confirm" /\ clientStore' = clientStore /\ history' = history
      BY <1>0, <2>4 DEF AuthExchanged, Sends, ClientEnd, Takes
    <3> QED BY <3>1, QuietRounds
  <2>5. CASE ConfirmChecked /\ cli.pc = "confirm"
    <3>1. CASE cli'.pc = "mint" /\ RoundsReset(cli.method = "dynamic")
      <4>1. \/ clientStore' = clientStore /\ history' = history
            \/ clientStore'.rounds = 0 /\ history'.emitted = 0
        BY <1>0, <3>1 DEF RoundsReset, ClientRecord, Past
      <4> QED BY <3>1, <4>1, QuietRounds, Bounds DEF Rounds
    <3>2. CASE cli'.pc = "sinit" /\ clientStore' = clientStore /\ history' = history
               /\ clientStore.rounds < RoundLimit
      BY <2>5, <3>2 DEF Rounds
    <3>3. CASE cli'.pc = "none" /\ clientStore' = clientStore /\ history' = history
      BY <3>3, QuietRounds
    <3>4. \A w \in BOOLEAN : [Ended(cli) EXCEPT !.window = w].pc = "none"
      BY <1>0, EndedTypes DEF ClientEnd
    <3>5. cli.window \in BOOLEAN BY <1>0 DEF ClientEnd
    <3>6. /\ [Takes(cli) EXCEPT !.pc = "mint"].pc = "mint"
          /\ [Takes(cli) EXCEPT !.pc = "sinit", !.round = @ + 1].pc = "sinit"
      BY <1>0 DEF ClientEnd, Takes
    <3> QED BY <2>5, <3>1, <3>2, <3>3, <3>4, <3>5, <3>6, ZenonT(30) DEF ConfirmChecked, Sends
  <2>6. CASE CredentialStored
    <3>1. cli'.pc = "store" /\ clientStore'.rounds = clientStore.rounds /\ history' = history
      BY <1>0, <2>6 DEF CredentialStored, ClientEnd, Takes, ClientRecord
    <3> QED BY <3>1, QuietRounds
  <2>7. \/ Confused
        \/ cli' = Ended(cli) /\ clientStore' = clientStore /\ history' = history
        \/ RoundBegins /\ cli.pc = "sinit"
        \/ AuthExchanged(m)
        \/ ConfirmChecked /\ cli.pc = "confirm"
        \/ CredentialStored
    BY <1>5, ClientListensTo
  <2> QED BY <2>1, <2>2, <2>3, <2>4, <2>5, <2>6, <2>7
<1>6. CASE RoundCounted
  <2>1. /\ cli.pc = "emit" /\ cli'.pc = "show" /\ history' = history
        /\ clientStore'.rounds = clientStore.rounds + 1
    BY <1>0, <1>6 DEF RoundCounted, ClientEnd, ClientRecord
  <2> QED BY <1>0, <2>1, Bounds DEF Rounds, ClientRecord, Past
<1>7. CASE CodeEmitted
  <2>1. /\ cli.pc = "show" /\ cli'.pc = "auth" /\ clientStore' = clientStore
        /\ history'.emitted = history.emitted + 1
    BY <1>0, <1>7 DEF CodeEmitted, ClientEnd, Past
  <2> QED BY <1>0, <2>1, Bounds DEF Rounds, ClientRecord, Past
<1>8. CASE CredentialOffered
  <2>1. cli'.pc = "ack" /\ clientStore' = clientStore /\ history'.emitted = history.emitted
    BY <1>0, <1>8 DEF CredentialOffered, ClientEnd, Past
  <2> QED BY <2>1, QuietRounds
<1>9. CASE ClientSaved
  <2>1. cli'.pc = "none" \/ cli' = cli
    BY <1>0, <1>9, EndedTypes DEF ClientSaved, ClientEnd
  <2>2. clientStore'.rounds = clientStore.rounds /\ history' = history
    BY <1>0, <1>9 DEF ClientSaved, ClientRecord
  <2> QED BY <2>1, <2>2, QuietRounds
<1>10. CASE ClientTimesOut
  <2>1. cli'.pc = "none" BY <1>0, <1>1, <1>10 DEF ClientTimesOut
  <2>2. clientStore' = clientStore /\ history'.emitted = history.emitted
    BY <1>0, <1>10 DEF ClientTimesOut, Past
  <2> QED BY <2>1, <2>2, QuietRounds
<1>11. CASE ClientCancels
  <2>1. cli'.pc = "none" /\ clientStore' = clientStore /\ history' = history
    BY <1>0, <1>11, EndedTypes DEF ClientCancels, Sends, ClientEnd
  <2> QED BY <2>1, QuietRounds
<1>12. CASE WindowOpens \/ WindowCloses
  <2>1. cli'.pc = cli.pc /\ clientStore' = clientStore /\ history' = history
    BY <1>0, <1>12 DEF WindowOpens, WindowCloses, ClientEnd
  <2> QED BY <2>1, QuietRounds
<1> QED BY <1>2, <1>3, <1>4, <1>5, <1>6, <1>7, <1>8, <1>9, <1>10, <1>11, <1>12 DEF ClientSteps

LEMMA RoundsKept ==
  ASSUME Types, Rounds, Types', [Next]_vars
  PROVE  Rounds'
<1>1. CASE UNCHANGED vars
  <2>1. cli' = cli /\ clientStore' = clientStore /\ history' = history BY <1>1 DEF vars
  <2>2. cli'.pc = cli.pc /\ clientStore'.rounds = clientStore.rounds
        /\ history'.emitted = history.emitted
    BY <2>1
  <2> QED BY <2>2, QuietRounds
<1>2. CASE Environment BY <1>2, OtherRounds, ClientRounds DEF Environment
<1>3. CASE ServerSteps BY <1>3, OtherRounds DEF ServerSteps
<1>4. CASE ClientSteps BY <1>4, ClientRounds
<1> QED BY <1>1, <1>2, <1>3, <1>4 DEF Next

-----------------------------------------------------------------------------
(* initiate_pairing, PairingSession and the records never hold anything of     *)
(* another kind, however attempts are cancelled, timed out or superseded.      *)
THEOREM PairingTyped == Spec => []Types
<1>1. Init => Types BY InitTypes
<1>2. Types /\ [Next]_vars => Types' BY TypesKept
<1> QED BY <1>1, <1>2, PTL DEF Spec

(* Between agreements and gestures a client shows no more codes than           *)
(* PAIRING_ROUND_LIMIT, whatever drops, restarts, cancels and timeouts happen. *)
THEOREM GuessesBoundedHolds == Spec => []GuessesBounded
<1>1. Init => Types /\ Rounds
  BY InitTypes, Bounds DEF Init, Rounds, ClientAtRest
<1>2. Types /\ Rounds /\ [Next]_vars => (Types /\ Rounds)'
  BY TypesKept, RoundsKept
<1>3. Types /\ Rounds => GuessesBounded
  BY Bounds DEF Types, Rounds, GuessesBounded, Past, ClientRecord
<1> QED BY <1>1, <1>2, <1>3, PTL DEF Spec

-----------------------------------------------------------------------------
(* What is on its way. *)

(* What the server, and what the client, has still to take from the other. *)
FromClient == srv.inbox \o toServer
FromServer == cli.inbox \o toClient

Script == {"init", "auth", "confirm", "finalize"}

NewAttempt(m) == m.type = "activate" /\ m.method # "none"
Admissions(q) == {i \in 1 .. Len(q) : NewAttempt(q[i])}
Numbered(m) == m.type \in {"init", "pending"}

NoHandshake(q, n) == \A i \in 1 .. n : q[i].type # "handshake"
Older(q, n, index) == \A i \in 1 .. n : Numbered(q[i]) => q[i].index < index

(* The messages of the exchange come first, j of them. *)
Scripts(q, j) ==
  /\ j \in 0 .. Len(q)
  /\ \A i \in 1 .. Len(q) : q[i].type \in Script <=> i <= j

-----------------------------------------------------------------------------
(* Sequences. *)

LEMMA JoinTypes ==
  ASSUME NEW S, NEW q \in Seq(S), NEW r \in Seq(S)
  PROVE  /\ q \o r \in Seq(S) /\ Len(q \o r) = Len(q) + Len(r)
         /\ Len(q) \in Nat /\ Len(r) \in Nat
         /\ \A i \in 1 .. Len(q) : (q \o r)[i] = q[i]
         /\ \A i \in 1 .. Len(r) : (q \o r)[Len(q) + i] = r[i]
BY ConcatProperties

LEMMA JoinAppend ==
  ASSUME NEW S, NEW q \in Seq(S), NEW r \in Seq(S), NEW m \in S
  PROVE  q \o Append(r, m) = Append(q \o r, m)
<1>1. Append(r, m) \in Seq(S) /\ q \o r \in Seq(S) OBVIOUS
<1>2. q \o Append(r, m) \in Seq(S) /\ Append(q \o r, m) \in Seq(S) BY <1>1
<1>3. Len(q \o Append(r, m)) = Len(Append(q \o r, m)) BY <1>1
<1>4. \A i \in 1 .. Len(q \o Append(r, m)) : (q \o Append(r, m))[i] = Append(q \o r, m)[i]
  BY <1>1
<1> QED BY <1>2, <1>3, <1>4, SeqEqual

LEMMA JoinAppends ==
  /\ \A q, r \in Seq(ClientSays), m \in ClientSays : q \o Append(r, m) = Append(q \o r, m)
  /\ \A q, r \in Seq(ServerSays), m \in ServerSays : q \o Append(r, m) = Append(q \o r, m)
<1>1. ASSUME NEW q \in Seq(ClientSays), NEW r \in Seq(ClientSays), NEW m \in ClientSays
      PROVE  q \o Append(r, m) = Append(q \o r, m)
  BY JoinAppend
<1>2. ASSUME NEW q \in Seq(ServerSays), NEW r \in Seq(ServerSays), NEW m \in ServerSays
      PROVE  q \o Append(r, m) = Append(q \o r, m)
  BY JoinAppend
<1> QED BY <1>1, <1>2

LEMMA JoinMove ==
  ASSUME NEW S, NEW q \in Seq(S), NEW r \in Seq(S), r # <<>>
  PROVE  Append(q, Head(r)) \o Tail(r) = q \o r
<1>1. Head(r) \in S /\ Tail(r) \in Seq(S) /\ Len(Tail(r)) = Len(r) - 1 /\ Len(r) >= 1
  OBVIOUS
<1>2. Append(q, Head(r)) \in Seq(S) /\ Len(Append(q, Head(r))) = Len(q) + 1 BY <1>1
<1>3. Append(q, Head(r)) \o Tail(r) \in Seq(S) /\ q \o r \in Seq(S) BY <1>1, <1>2
<1>4. Len(Append(q, Head(r)) \o Tail(r)) = Len(q \o r) BY <1>1, <1>2
<1>5. \A i \in 1 .. Len(q \o r) : (Append(q, Head(r)) \o Tail(r))[i] = (q \o r)[i]
  <2> SUFFICES ASSUME NEW i \in 1 .. Len(q) + Len(r)
               PROVE  (Append(q, Head(r)) \o Tail(r))[i] = (q \o r)[i]
    OBVIOUS
  <2>1. CASE i <= Len(q) BY <2>1, <1>1, <1>2
  <2>2. CASE i = Len(q) + 1 BY <2>2, <1>1, <1>2
  <2>3. CASE i > Len(q) + 1
    <3>1. (Append(q, Head(r)) \o Tail(r))[i] = Tail(r)[i - (Len(q) + 1)] BY <2>3, <1>1, <1>2
    <3>2. (q \o r)[i] = r[i - Len(q)] BY <2>3
    <3>3. Tail(r)[i - (Len(q) + 1)] = r[i - Len(q)] BY <2>3, <1>1
    <3> QED BY <3>1, <3>2, <3>3
  <2> QED BY <2>1, <2>2, <2>3
<1> QED BY <1>3, <1>4, <1>5, SeqEqual

LEMMA JoinTake ==
  ASSUME NEW S, NEW q \in Seq(S), NEW r \in Seq(S), q # <<>>
  PROVE  Tail(q) \o r = Tail(q \o r) /\ Head(q \o r) = Head(q) /\ q \o r # <<>>
<1>1. Len(q) >= 1 /\ Tail(q) \in Seq(S) /\ Len(Tail(q)) = Len(q) - 1 /\ q \o r \in Seq(S)
  OBVIOUS
<1>2. q \o r # <<>> /\ Head(q \o r) = Head(q) BY <1>1
<1>3. Tail(q \o r) \in Seq(S) /\ Tail(q) \o r \in Seq(S) BY <1>1, <1>2
<1>4. Len(Tail(q \o r)) = Len(Tail(q) \o r) BY <1>1, <1>2
<1>5. \A i \in 1 .. Len(Tail(q) \o r) : (Tail(q) \o r)[i] = Tail(q \o r)[i]
  <2> SUFFICES ASSUME NEW i \in 1 .. (Len(q) - 1) + Len(r)
               PROVE  (Tail(q) \o r)[i] = Tail(q \o r)[i]
    BY <1>1
  <2>1. Tail(q \o r)[i] = (q \o r)[i + 1] BY <1>1, <1>2
  <2>2. CASE i <= Len(q) - 1 BY <1>1, <2>1, <2>2
  <2>3. CASE i > Len(q) - 1
    <3>1. (Tail(q) \o r)[i] = r[i - (Len(q) - 1)] BY <1>1, <2>3
    <3>2. (q \o r)[i + 1] = r[(i + 1) - Len(q)] BY <1>1, <2>3
    <3> QED BY <2>1, <3>1, <3>2
  <2> QED BY <2>2, <2>3
<1> QED BY <1>2, <1>3, <1>4, <1>5, SeqEqual

(* Elements of what is left or added. *)
LEMMA TailElements ==
  ASSUME NEW S, NEW q \in Seq(S), q # <<>>
  PROVE  /\ Tail(q) \in Seq(S) /\ Len(q) \in Nat /\ Len(q) >= 1 /\ Len(Tail(q)) = Len(q) - 1
         /\ Head(q) = q[1] /\ q[1] \in S
         /\ \A i \in 1 .. Len(q) - 1 : Tail(q)[i] = q[i + 1]
OBVIOUS

LEMMA AppendElements ==
  ASSUME NEW S, NEW q \in Seq(S), NEW m \in S
  PROVE  /\ Append(q, m) \in Seq(S) /\ Len(q) \in Nat /\ Len(Append(q, m)) = Len(q) + 1
         /\ Append(q, m) # <<>>
         /\ \A i \in 1 .. Len(q) : Append(q, m)[i] = q[i]
         /\ Append(q, m)[Len(q) + 1] = m
BY AppendProperties

(* Admissions. *)
LEMMA AdmissionsFinite ==
  ASSUME NEW S, NEW q \in Seq(S)
  PROVE  IsFiniteSet(Admissions(q)) /\ Cardinality(Admissions(q)) \in Nat
<1>1. IsFiniteSet(1 .. Len(q)) BY FS_Interval
<1>2. IsFiniteSet(Admissions(q)) BY <1>1, FS_Subset DEF Admissions
<1> QED BY <1>2, FS_CardinalityType

LEMMA AdmissionsAppend ==
  ASSUME NEW S, NEW q \in Seq(S), NEW m \in S
  PROVE  Cardinality(Admissions(Append(q, m))) =
           Cardinality(Admissions(q)) + (IF NewAttempt(m) THEN 1 ELSE 0)
<1>1. IsFiniteSet(Admissions(q)) /\ Len(q) + 1 \notin Admissions(q)
      /\ Cardinality(Admissions(q)) \in Nat
  BY AdmissionsFinite DEF Admissions
<1>2. CASE NewAttempt(m)
  <2>1. Admissions(Append(q, m)) = Admissions(q) \cup {Len(q) + 1}
    BY <1>2, AppendElements DEF Admissions
  <2> QED BY <1>1, <1>2, <2>1, FS_AddElement
<1>3. CASE ~NewAttempt(m)
  <2>1. Admissions(Append(q, m)) = Admissions(q)
    BY <1>3, AppendElements DEF Admissions
  <2> QED BY <1>1, <1>3, <2>1
<1> QED BY <1>2, <1>3

LEMMA AdmissionsTail ==
  ASSUME NEW S, NEW q \in Seq(S), q # <<>>
  PROVE  Cardinality(Admissions(Tail(q))) =
           Cardinality(Admissions(q)) - (IF NewAttempt(Head(q)) THEN 1 ELSE 0)
<1> DEFINE T == Admissions(Tail(q))
           U == Admissions(q) \ {1}
           f == [i \in T |-> i + 1]
<1>0. /\ Tail(q) \in Seq(S) /\ Len(q) \in Nat /\ Len(q) >= 1 /\ Len(Tail(q)) = Len(q) - 1
      /\ Head(q) = q[1] /\ \A i \in 1 .. Len(q) - 1 : Tail(q)[i] = q[i + 1]
  BY TailElements
<1>1. IsFiniteSet(Admissions(q)) /\ IsFiniteSet(T) BY <1>0, AdmissionsFinite
<1>2. \A i \in T : i + 1 \in U BY <1>0 DEF Admissions
<1>3. \A k \in U : k - 1 \in T /\ (k - 1) + 1 = k BY <1>0 DEF Admissions
<1>4. T \subseteq Int BY DEF Admissions
<1> HIDE DEF T, U
<1>5. f \in Bijection(T, U)
  <2>1. f \in Injection(T, U)
    <3>1. f \in [T -> U] BY <1>2
    <3>2. \A a, b \in T : f[a] = f[b] => a = b BY <1>4
    <3> QED BY <3>1, <3>2 DEF Injection, IsInjective
  <2>2. \A k \in U : \E i \in T : f[i] = k
    <3> SUFFICES ASSUME NEW k \in U PROVE \E i \in T : f[i] = k OBVIOUS
    <3>1. k - 1 \in T /\ f[k - 1] = k BY <1>3
    <3> QED BY <3>1
  <2> QED BY <2>1, <2>2 DEF Bijection, Surjection, Injection
<1>6. Cardinality(U) = Cardinality(T)
  <2>1. ExistsBijection(T, U) BY <1>5 DEF ExistsBijection
  <2> QED BY <1>1, <2>1, FS_Bijection
<1>7. 1 \in Admissions(q) <=> NewAttempt(Head(q)) BY <1>0 DEF Admissions
<1>8. Cardinality(U) = IF 1 \in Admissions(q) THEN Cardinality(Admissions(q)) - 1
                                             ELSE Cardinality(Admissions(q))
  BY <1>1, FS_RemoveElement DEF U
<1>9. Cardinality(Admissions(q)) \in Nat BY AdmissionsFinite
<1> QED BY <1>6, <1>7, <1>8, <1>9 DEF T

LEMMA AdmissionsNone ==
  /\ Admissions(<<>>) = {} /\ Cardinality(Admissions(<<>>)) = 0
  /\ \A S : \A q \in Seq(S) : Cardinality(Admissions(q)) = 0 <=> Admissions(q) = {}
<1>1. Admissions(<<>>) = {} BY DEF Admissions
<1>2. Cardinality({}) = 0 BY FS_EmptySet
<1>3. ASSUME NEW S, NEW q \in Seq(S)
      PROVE  Cardinality(Admissions(q)) = 0 <=> Admissions(q) = {}
  BY AdmissionsFinite, FS_EmptySet
<1> QED BY <1>1, <1>2, <1>3

(* The messages of the exchange. *)
LEMMA ScriptsAppend ==
  ASSUME NEW S, NEW q \in Seq(S), NEW m \in S, NEW j, Scripts(q, j)
  PROVE  /\ m.type \notin Script => Scripts(Append(q, m), j)
         /\ m.type \in Script /\ j = Len(q) => Scripts(Append(q, m), j + 1)
BY AppendElements DEF Scripts

LEMMA ScriptsTail ==
  ASSUME NEW S, NEW q \in Seq(S), q # <<>>, NEW j, Scripts(q, j)
  PROVE  Scripts(Tail(q), IF j = 0 THEN 0 ELSE j - 1)
BY TailElements DEF Scripts

LEMMA ScriptsRest ==
  ASSUME NEW S, NEW q \in Seq(S), NEW r \in Seq(S), NEW j, Scripts(q \o r, j)
  PROVE  Scripts(r, IF j <= Len(q) THEN 0 ELSE j - Len(q))
<1> DEFINE k == IF j <= Len(q) THEN 0 ELSE j - Len(q)
<1>1. /\ Len(q \o r) = Len(q) + Len(r) /\ Len(q) \in Nat /\ Len(r) \in Nat
      /\ \A i \in 1 .. Len(r) : (q \o r)[Len(q) + i] = r[i]
  BY JoinTypes
<1>2. /\ j \in 0 .. Len(q) + Len(r)
      /\ \A i \in 1 .. Len(q) + Len(r) : (q \o r)[i].type \in Script <=> i <= j
  BY <1>1 DEF Scripts
<1>3. k \in 0 .. Len(r) BY <1>1, <1>2
<1>4. ASSUME NEW i \in 1 .. Len(r) PROVE r[i].type \in Script <=> i <= k
  <2>1. (q \o r)[Len(q) + i] = r[i] /\ Len(q) + i \in 1 .. Len(q) + Len(r) BY <1>1
  <2>2. r[i].type \in Script <=> Len(q) + i <= j BY <1>2, <2>1
  <2> QED BY <1>1, <1>2, <2>2
<1> QED BY <1>3, <1>4 DEF Scripts

-----------------------------------------------------------------------------
(* The inductive invariant. *)

(* Without a connection both sides are at rest. *)
Reset == link = "down" => /\ srv = [ServerAtRest EXCEPT !.attempt = srv.attempt]
                          /\ cli = [ClientAtRest EXCEPT !.window = cli.window]
                          /\ toClient = <<>> /\ toServer = <<>>

(* What a re-key that is under way may be onto. *)
Asked(psk) ==
   /\ srv.pc = "rekey" => psk \in {Sentinel, PairingPsk}
   /\ srv.pc \in {"rerec", "return"} => psk = serverStore.mem

(* A re-key under way: the client has not read server/handshake, or has answered  *)
(* it and nothing follows its answer. No other handshake is on its way.           *)
Unanswered ==
   /\ toClient # <<>> /\ toClient[Len(toClient)].type = "handshake"
   /\ NoHandshake(toClient, Len(toClient) - 1) /\ NoHandshake(FromClient, Len(FromClient))
   /\ Asked(toClient[Len(toClient)].psk)
Answered ==
   /\ srv.pc \in Rekeying
   /\ toClient = <<>> /\ cli.rekeyed /\ cli.pc = "none" /\ cli.index = 0
   /\ FromClient # <<>> /\ FromClient[Len(FromClient)] = Handshake(cli.psk)
   /\ NoHandshake(FromClient, Len(FromClient) - 1)
   /\ Asked(cli.psk) /\ Holds(cli.psk)
Rehandshake ==
  /\ srv.pc \in Rekeying => Unanswered \/ Answered
  /\ srv.pc \notin Rekeying =>
       NoHandshake(toClient, Len(toClient)) /\ NoHandshake(FromClient, Len(FromClient))
  /\ Older(FromClient, Len(FromClient), srv.index + 1)
  /\ cli.rekeyed => cli.pc = "none" /\ (Answered \/ (toClient # <<>> /\ Head(toClient).type = "activate"))

(* The two count attempts alike once what is on its way is read.                  *)
Counting ==
  ~Answered =>
    srv.index = cli.index + Cardinality(Admissions(toClient)) /\ srv.psk = cli.psk

(* The client has sent k messages of earlier attempts, j of this one, and, when   *)
(* it is gone (g), the abort that ends it.                                        *)
Said(k, g, j) ==
  /\ Len(FromClient) = k + j + (IF g THEN 1 ELSE 0)
  /\ Older(FromClient, k, srv.index)
  /\ g => FromClient[Len(FromClient)].type = "abort"

(* One of the messages of this attempt.                                           *)
Word(i, s) ==
  /\ FromClient[i].type = s
  /\ s \in {"init", "pending"} => FromClient[i].index = srv.index
  /\ s = "finalize" => FromClient[i].psk = srv.attempt

(* Where the client is and how much it has still to take, unless it is gone. It   *)
(* goes after client/pair-finalize only by a timeout.                             *)
Here(g, P, h) == IF g THEN cli.pc = "none" ELSE cli.pc \in P /\ Len(FromServer) = h
Acking(g, p, h) ==
  IF g THEN cli.pc = "none" /\ history.late ELSE cli.pc = p /\ Len(FromServer) = h
First == {FirstWait[srv.method]}
Coded == srv.method # "psk"

(* By the place of the server: what the client has said, where it is and what it   *)
(* has still to hear.                                                             *)
Opening(k, g) ==
  /\ srv.pc = "init"
  /\ \/ Said(k, g, 0) /\ Here(g, {"start"}, 0)
          /\ (g => FromClient[Len(FromClient)].reason = "user_cancelled")
     \/ Coded /\ Said(k, g, 1) /\ Word(k + 1, "pending") /\ Here(g, {"gate"}, 0)
     \/ Coded /\ Said(k, g, 2) /\ Word(k + 1, "pending") /\ Word(k + 2, "init") /\ Here(g, First, 0)
     \/ Said(k, g, 1) /\ Word(k + 1, "init") /\ Here(g, First, 0)
     \/ ~Coded /\ Said(k, g, 2) /\ Word(k + 1, "init") /\ Word(k + 2, "finalize") /\ Acking(g, "ack", 0)

Waiting(g) ==
  \/ srv.pc = "gesture" /\ Coded /\ Said(0, g, 0) /\ Here(g, {"gate"}, 0)
  \/ srv.pc = "gesture" /\ Coded /\ Said(0, g, 1) /\ Word(1, "init") /\ Here(g, First, 0)
  \/ srv.pc = "code" /\ Said(0, g, 0) /\ Here(g, {"sinit"}, 1)
  \/ srv.pc = "code" /\ Said(0, g, 0) /\ Here(g, {"emit", "show", "auth"}, 0)

Proving(g) ==
  \/ srv.pc = "auth" /\ Said(0, g, 0) /\ Here(g, {"sinit"}, 2)
  \/ srv.pc = "auth" /\ Said(0, g, 0) /\ Here(g, {"emit", "show", "auth"}, 1)
  \/ srv.pc = "auth" /\ Said(0, g, 1) /\ Word(1, "auth") /\ Here(g, {"confirm"}, 0)
  \/ srv.pc = "reply" /\ Said(0, g, 0) /\ Here(g, {"confirm"}, 1)
  \/ srv.pc = "reply" /\ Said(0, g, 1) /\ Word(1, "confirm") /\ Here(g, {"mint"}, 0)
  \/ srv.pc = "reply" /\ Said(0, g, 2) /\ Word(1, "confirm") /\ Word(2, "finalize") /\ Acking(g, "ack", 0)
  \/ srv.pc = "reply" /\ srv.method = "dynamic" /\ Said(0, g, 1) /\ Word(1, "retry") /\ Here(g, {"sinit"}, 0)

Concluding(g) ==
  \/ srv.pc = "final" /\ Said(0, g, 0) /\ Here(g, {"mint"}, 0)
  \/ srv.pc = "final" /\ Said(0, g, 1) /\ Word(1, "finalize") /\ Acking(g, "ack", 0)
  \/ srv.pc = "save" /\ Said(0, g, 0) /\ Acking(g, "ack", 0)
  \/ srv.pc = "acked" /\ Said(0, g, 0) /\ Acking(g, "ack", 1)
  \/ srv.pc = "acked" /\ Said(0, g, 0) /\ Acking(g, "store", 0)
  \/ srv.pc = "acked" /\ ~g /\ Said(0, g, 0) /\ cli.pc = "none"

Together(k, g) ==
  /\ cli.index = srv.index /\ cli.attempt = srv.attempt /\ cli.method = srv.method
  /\ ~cli.rekeyed /\ Scripts(FromServer, Len(FromServer))
  /\ Opening(k, g) \/ Waiting(g) \/ Proving(g) \/ Concluding(g)

(* Or the client has not read the activation yet.                                 *)
Unread ==
  /\ srv.pc = "init" /\ Older(FromClient, Len(FromClient), srv.index)
  /\ toClient # <<>> /\ toClient[Len(toClient)] = Activate(srv.method, srv.attempt)

Dialogue ==
  srv.pc \in Exchanging \cup {"save", "acked"} =>
    Unread \/ \E k \in 0 .. Len(FromClient), g \in BOOLEAN : Together(k, g)

(* What the client has still to take suits its place, whoever has moved on.       *)
Heard(j) ==
  \/ j = 0
  \/ cli.pc = "sinit" /\ j = 1 /\ FromServer[1].type = "init"
  \/ cli.pc = "sinit" /\ j = 2 /\ FromServer[1].type = "init" /\ FromServer[2].type = "auth"
  \/ cli.pc \in {"emit", "show", "auth"} /\ j = 1 /\ FromServer[1].type = "auth"
  \/ cli.pc = "confirm" /\ j = 1 /\ FromServer[1].type = "confirm"
  \/ cli.pc = "ack" /\ j = 1 /\ FromServer[1].type = "finalize"

Hearing ==
  /\ \E j \in 0 .. Len(FromServer) : Scripts(FromServer, j) /\ (cli.pc # "none" => Heard(j))
  /\ cli.pc = "none" => cli.inbox = <<>>
  /\ \A i \in 1 .. Len(cli.inbox) : cli.inbox[i].type \in PairingTypes
  /\ (cli.inbox # <<>> /\ cli.inbox[1].type = "finalize") \/ cli.pc = "store" => cli.acked
  /\ srv.pc = "idle" => srv.inbox = <<>>

(* What the client stores is older than any attempt that may still store one.     *)
Attempts ==
  /\ serverStore.mem <= srv.attempt /\ serverStore.disk <= srv.attempt
  /\ clientStore.mem <= srv.attempt
  /\ \A i \in Admissions(toClient) : clientStore.mem < toClient[i].attempt /\ toClient[i].attempt <= srv.attempt
  /\ cli.pc # "none" => cli.attempt \in 1 .. srv.attempt
  /\ cli.pc \notin {"none", "store"} => clientStore.mem < cli.attempt
  /\ srv.pc \in {"prep", "rekey"} => clientStore.mem < srv.attempt
  /\ srv.pc \notin {"idle", "return"} => srv.attempt >= 1
  /\ srv.index <= srv.attempt
  /\ srv.pc = "prep" => srv.index < srv.attempt

(* The client finishes an attempt only with a server that has stored it.          *)
Finishing == \/ cli.pc = "ack" /\ FromServer # <<>> /\ FromServer[1].type = "finalize"
             \/ cli.pc = "store"

Offers ==
  \A i \in 1 .. Len(FromClient) :
    FromClient[i].type = "finalize" => FromClient[i].psk \in history.offered

Kept ==
  /\ history.stored \subseteq history.accepted
  /\ serverStore.mem \in history.accepted \union {0}
  /\ serverStore.disk \in history.stored \union {0}
  /\ serverStore.saving => serverStore.mem # 0
  /\ clientStore.mem \in history.stored \union {0}
  /\ clientStore.disk \in history.stored \union {0} /\ clientStore.disk <= clientStore.mem

Settling ==
  /\ srv.pc = "save" => serverStore.saving /\ serverStore.mem = srv.attempt
  /\ srv.pc \in {"acked", "rerec"} =>
       serverStore.mem = srv.attempt /\ srv.attempt \in history.stored
  /\ Finishing =>
       /\ srv.pc \in {"acked", "rerec"} /\ cli.attempt = srv.attempt
       /\ Admissions(toClient) = {}
  /\ cli.pc = "store" => clientStore.mem = cli.attempt
  /\ cli.pc \in {"ack", "store"} => ~cli.cancellable

(* Which credential keys the session, unless a timeout cut a finalize short.      *)
Keys ==
  /\ srv.pc \in Exchanging \union {"prep", "save", "acked"} => srv.psk \notin Credentials
  /\ srv.pc = "return" => srv.moved
  /\ srv.pc = "rerec" => ~srv.moved
  /\ ~history.late =>
       /\ srv.psk \in Credentials => serverStore.mem = srv.psk /\ clientStore.mem = srv.psk
       /\ srv.moved /\ srv.pc \notin {"save", "acked"} => serverStore.mem = clientStore.mem
       /\ srv.pc \in {"save", "acked"} => cli.pc = "ack" \/ clientStore.mem = serverStore.mem
       /\ srv.pc = "rerec" => Finishing \/ clientStore.mem = serverStore.mem
       /\ ~history.refused

IInv ==
  /\ Types /\ ~Overlapping
  /\ Reset /\ Rehandshake /\ Counting /\ Dialogue /\ Hearing
  /\ Attempts /\ Offers /\ Kept /\ Settling /\ Keys
  /\ ~history.confused

-----------------------------------------------------------------------------
(* What a step does to what is on its way. *)

LEMMA Ways ==
  ASSUME Types
  PROVE  /\ srv.inbox \in Seq(ClientSays) /\ toServer \in Seq(ClientSays)
         /\ cli.inbox \in Seq(ServerSays) /\ toClient \in Seq(ServerSays)
         /\ FromClient \in Seq(ClientSays) /\ FromServer \in Seq(ServerSays)
         /\ Len(FromClient) \in Nat /\ Len(FromServer) \in Nat /\ Len(toClient) \in Nat
<1>1. srv.inbox \in Seq(ClientSays) /\ cli.inbox \in Seq(ServerSays)
  BY DEF Types, ServerEnd, ClientEnd
<1>2. toServer \in Seq(ClientSays) /\ toClient \in Seq(ServerSays) BY DEF Types
<1>3. FromClient \in Seq(ClientSays) /\ FromServer \in Seq(ServerSays)
  BY <1>1, <1>2, JoinTypes DEF FromClient, FromServer
<1> QED BY <1>1, <1>2, <1>3

LEMMA ClientSent ==
  ASSUME Types, NEW m \in ClientSays, toServer' = Append(toServer, m), srv'.inbox = srv.inbox
  PROVE  FromClient' = Append(FromClient, m)
<1>1. srv.inbox \in Seq(ClientSays) /\ toServer \in Seq(ClientSays) BY Ways
<1>2. srv.inbox \o Append(toServer, m) = Append(srv.inbox \o toServer, m)
  BY <1>1, JoinAppends, Zenon
<1> QED BY <1>2, Zenon DEF FromClient

LEMMA ServerSent ==
  ASSUME Types, NEW m \in ServerSays, toClient' = Append(toClient, m), cli'.inbox = cli.inbox
  PROVE  FromServer' = Append(FromServer, m)
<1>1. cli.inbox \in Seq(ServerSays) /\ toClient \in Seq(ServerSays) BY Ways
<1>2. cli.inbox \o Append(toClient, m) = Append(cli.inbox \o toClient, m)
  BY <1>1, JoinAppends, Zenon
<1> QED BY <1>2, Zenon DEF FromServer

LEMMA ServerMoved ==
  ASSUME Types, toServer # <<>>, toServer' = Tail(toServer),
         srv'.inbox = Append(srv.inbox, Head(toServer))
  PROVE  FromClient' = FromClient
BY Ways, JoinMove DEF FromClient

LEMMA ClientMoved ==
  ASSUME Types, toClient # <<>>, toClient' = Tail(toClient),
         cli'.inbox = Append(cli.inbox, Head(toClient))
  PROVE  FromServer' = FromServer
BY Ways, JoinMove DEF FromServer

LEMMA ServerTook ==
  ASSUME Types, srv.inbox # <<>>
  PROVE  /\ Head(FromClient) = Head(srv.inbox) /\ FromClient # <<>>
         /\ (srv'.inbox = Tail(srv.inbox) /\ toServer' = toServer)
              => FromClient' = Tail(FromClient)
<1>1. /\ Tail(srv.inbox) \o toServer = Tail(srv.inbox \o toServer)
      /\ Head(srv.inbox \o toServer) = Head(srv.inbox) /\ srv.inbox \o toServer # <<>>
  BY Ways, JoinTake
<1> QED BY <1>1, Zenon DEF FromClient

LEMMA ClientTook ==
  ASSUME Types, cli.inbox # <<>>
  PROVE  /\ Head(FromServer) = Head(cli.inbox) /\ FromServer # <<>>
         /\ (cli'.inbox = Tail(cli.inbox) /\ toClient' = toClient)
              => FromServer' = Tail(FromServer)
<1>1. /\ Tail(cli.inbox) \o toClient = Tail(cli.inbox \o toClient)
      /\ Head(cli.inbox \o toClient) = Head(cli.inbox) /\ cli.inbox \o toClient # <<>>
  BY Ways, JoinTake
<1> QED BY <1>1, Zenon DEF FromServer

LEMMA NothingBefore == \A S : \A q \in Seq(S) : <<>> \o q = q
OBVIOUS

(* With an empty queue only the connection counts. *)
LEMMA ServerEmpty ==
  ASSUME Types
  PROVE  /\ srv.inbox = <<>> => FromClient = toServer
         /\ srv'.inbox = <<>> /\ toServer' \in Seq(ClientSays) => FromClient' = toServer'
BY Ways, NothingBefore, Zenon DEF FromClient

LEMMA ClientEmpty ==
  ASSUME Types
  PROVE  /\ cli.inbox = <<>> => FromServer = toClient
         /\ cli'.inbox = <<>> /\ toClient' \in Seq(ServerSays) => FromServer' = toClient'
BY Ways, NothingBefore, Zenon DEF FromServer

(* What is in the connection is the end of what is on its way. *)
LEMMA ServerRest ==
  ASSUME Types
  PROVE  /\ Len(FromClient) = Len(srv.inbox) + Len(toServer) /\ Len(srv.inbox) \in Nat
         /\ Len(toServer) \in Nat
         /\ \A i \in 1 .. Len(toServer) : FromClient[Len(srv.inbox) + i] = toServer[i]
         /\ \A i \in 1 .. Len(srv.inbox) : FromClient[i] = srv.inbox[i]
BY Ways, JoinTypes DEF FromClient

LEMMA ClientRest ==
  ASSUME Types
  PROVE  /\ Len(FromServer) = Len(cli.inbox) + Len(toClient) /\ Len(cli.inbox) \in Nat
         /\ Len(toClient) \in Nat
         /\ \A i \in 1 .. Len(toClient) : FromServer[Len(cli.inbox) + i] = toClient[i]
         /\ \A i \in 1 .. Len(cli.inbox) : FromServer[i] = cli.inbox[i]
BY Ways, JoinTypes DEF FromServer

(* More than nothing said that is not of an exchange and admits no attempt. *)
Aside(r, q) ==
  /\ Len(q) <= Len(r)
  /\ \A i \in 1 .. Len(q) : r[i] = q[i]
  /\ \A i \in Len(q) + 1 .. Len(r) : r[i].type \notin Script /\ ~NewAttempt(r[i])
  /\ Cardinality(Admissions(r)) = Cardinality(Admissions(q))

LEMMA AsideOne ==
  ASSUME NEW q \in Seq(ServerSays), NEW r \in Seq(ServerSays), Aside(r, q),
         NEW m \in ServerSays, m.type \notin Script, ~NewAttempt(m)
  PROVE  Aside(Append(r, m), q)
<1>1. Cardinality(Admissions(Append(r, m))) = Cardinality(Admissions(r)) + 0
  BY AdmissionsAppend
<1>2. Cardinality(Admissions(r)) \in Nat BY AdmissionsFinite
<1>3. /\ Len(r) \in Nat /\ Len(Append(r, m)) = Len(r) + 1 /\ Len(q) \in Nat
      /\ \A i \in 1 .. Len(r) : Append(r, m)[i] = r[i]
      /\ Append(r, m)[Len(r) + 1] = m
  BY AppendElements
<1>4. \A i \in Len(q) + 1 .. Len(r) + 1 :
        Append(r, m)[i].type \notin Script /\ ~NewAttempt(Append(r, m)[i])
  <2> TAKE i \in Len(q) + 1 .. Len(r) + 1
  <2>1. CASE i = Len(r) + 1 BY <1>3, <2>1
  <2>2. CASE i # Len(r) + 1
    <3>1. i \in Len(q) + 1 .. Len(r) /\ i \in 1 .. Len(r) BY <1>3, <2>2
    <3> QED BY <1>3, <3>1 DEF Aside
  <2> QED BY <2>1, <2>2
<1> QED BY <1>1, <1>2, <1>3, <1>4 DEF Aside

LEMMA AsideNone ==
  ASSUME NEW q \in Seq(ServerSays)
  PROVE  Aside(q, q)
BY DEF Aside

(* It changes nothing of the exchange. *)
LEMMA AsideScripts ==
  ASSUME NEW p \in Seq(ServerSays), NEW q \in Seq(ServerSays), NEW r \in Seq(ServerSays),
         Aside(r, q), NEW j, Scripts(p \o q, j)
  PROVE  Scripts(p \o r, j) /\ \A i \in 1 .. Len(p \o q) : (p \o r)[i] = (p \o q)[i]
<1>1. /\ Len(p \o q) = Len(p) + Len(q) /\ Len(p \o r) = Len(p) + Len(r)
      /\ Len(p) \in Nat /\ Len(q) \in Nat /\ Len(r) \in Nat
      /\ \A i \in 1 .. Len(p) : (p \o q)[i] = p[i] /\ (p \o r)[i] = p[i]
      /\ \A i \in 1 .. Len(q) : (p \o q)[Len(p) + i] = q[i]
      /\ \A i \in 1 .. Len(r) : (p \o r)[Len(p) + i] = r[i]
  BY JoinTypes
<1>2. ASSUME NEW i \in 1 .. Len(p) + Len(q) PROVE (p \o r)[i] = (p \o q)[i]
  <2>1. CASE i <= Len(p) BY <1>1, <2>1
  <2>2. CASE i > Len(p)
    <3>1. PICK k \in 1 .. Len(q) : i = Len(p) + k
      <4>1. i - Len(p) \in 1 .. Len(q) /\ i = Len(p) + (i - Len(p)) BY <1>1, <2>2
      <4> QED BY <4>1
    <3>2. r[k] = q[k] /\ k \in 1 .. Len(r) BY <1>1 DEF Aside
    <3>3. (p \o q)[Len(p) + k] = q[k] /\ (p \o r)[Len(p) + k] = r[k] BY <1>1, <3>2
    <3>4. (p \o r)[Len(p) + k] = (p \o q)[Len(p) + k] BY <3>2, <3>3, Zenon
    <3> QED BY ONLY <3>1, <3>4
  <2>3. i <= Len(p) \/ i > Len(p) BY <1>1
  <2> QED BY ONLY <2>1, <2>2, <2>3
<1>3. ASSUME NEW i \in Len(p) + Len(q) + 1 .. Len(p) + Len(r) PROVE (p \o r)[i].type \notin Script
  <2>1. i - Len(p) \in Len(q) + 1 .. Len(r) /\ i - Len(p) \in 1 .. Len(r) BY <1>1
  <2>2. (p \o r)[Len(p) + (i - Len(p))] = r[i - Len(p)] /\ Len(p) + (i - Len(p)) = i
    BY <1>1, <2>1
  <2> QED BY <2>1, <2>2 DEF Aside
<1>4. j \in 0 .. Len(p) + Len(q)
      /\ \A i \in 1 .. Len(p) + Len(q) : (p \o q)[i].type \in Script <=> i <= j
  BY <1>1 DEF Scripts
<1>5. Len(q) <= Len(r) BY DEF Aside
<1>6. ASSUME NEW i \in 1 .. Len(p) + Len(r) PROVE (p \o r)[i].type \in Script <=> i <= j
  <2>1. CASE i <= Len(p) + Len(q)
    <3>1. i \in 1 .. Len(p) + Len(q) BY <1>1, <2>1
    <3> QED BY <1>2, <1>4, <3>1
  <2>2. CASE i > Len(p) + Len(q)
    <3>1. i \in Len(p) + Len(q) + 1 .. Len(p) + Len(r) /\ ~(i <= j) BY <1>1, <1>4, <2>2
    <3> QED BY <1>3, <3>1
  <2> QED BY <1>1, <2>1, <2>2
<1> QED BY <1>1, <1>2, <1>4, <1>5, <1>6 DEF Scripts

-----------------------------------------------------------------------------
(* Connections that come and go. *)

LEMMA Numbers ==
  ASSUME Types
  PROVE  /\ srv.attempt \in Nat /\ srv.index \in Nat /\ srv.round \in Nat /\ srv.psk \in Psks
         /\ cli.attempt \in Nat /\ cli.index \in Nat /\ cli.round \in Nat /\ cli.psk \in Psks
         /\ serverStore.mem \in Nat /\ serverStore.disk \in Nat
         /\ clientStore.mem \in Nat /\ clientStore.disk \in Nat /\ clientStore.rounds \in Nat
         /\ srv.attempt <= MaxAttempts /\ cli.attempt <= MaxAttempts
         /\ clientStore.mem <= MaxAttempts /\ serverStore.mem <= MaxAttempts
         /\ srv.method \in Method /\ cli.method \in Method
         /\ srv.pc \in ServerPlaces /\ cli.pc \in ClientPlaces
BY Bounds DEF Types, ServerEnd, ClientEnd, ServerRecord, ClientRecord, Attempt

LEMMA Places ==
  /\ Exchanging = {"init", "gesture", "code", "auth", "reply", "final"}
  /\ Rekeying = {"rekey", "rerec", "return"}
BY DEF Exchanging, Rekeying

(* Whatever a connection that goes away takes with it, what is stored agrees. *)
LEMMA DropsKeep ==
  ASSUME IInv, Types', Dropped,
         \/ serverStore' = serverStore
         \/ serverStore' = [serverStore EXCEPT !.mem = serverStore.disk, !.saving = FALSE],
         \/ clientStore' = clientStore
         \/ clientStore' = [clientStore EXCEPT !.mem = clientStore.disk, !.saving = FALSE],
         history'.late = history.late, history'.confused = history.confused,
         history'.offered = history.offered, history'.accepted = history.accepted,
         history'.stored = history.stored,
         history'.refused => history.refused \/ history.late
  PROVE  IInv'
<1>1. /\ link' = "down" /\ toClient' = <<>> /\ toServer' = <<>>
      /\ srv' = [ServerAtRest EXCEPT !.attempt = srv.attempt]
      /\ cli' = [ClientAtRest EXCEPT !.window = cli.window]
  BY DEF Dropped
<1>2. /\ srv'.pc = "idle" /\ srv'.attempt = srv.attempt /\ srv'.index = 0 /\ srv'.psk = 0
      /\ srv'.moved = FALSE /\ srv'.inbox = <<>>
  BY <1>1 DEF ServerAtRest, Sentinel
<1>3. /\ cli'.pc = "none" /\ cli'.index = 0 /\ cli'.psk = 0 /\ cli'.rekeyed = FALSE
      /\ cli'.inbox = <<>>
  BY <1>1 DEF ClientAtRest, Sentinel
<1>4. FromClient' = <<>> /\ FromServer' = <<>>
  BY <1>1, <1>2, <1>3, NothingBefore DEF FromClient, FromServer
<1>5. Len(<<>>) = 0 OBVIOUS
<1> HIDE DEF ServerAtRest, ClientAtRest
<1>6. Reset' BY <1>1, <1>2, <1>3 DEF Reset
<1>7. Rehandshake'
  BY <1>1, <1>2, <1>3, <1>4, <1>5, Places DEF Rehandshake, NoHandshake, Older
<1>8. Counting' BY <1>1, <1>2, <1>3, AdmissionsNone DEF Counting
<1>9. Dialogue' BY <1>2, Places DEF Dialogue
<1>10. Hearing'
  <2>1. Scripts(<<>>, 0) BY DEF Scripts
  <2>2. 0 \in 0 .. Len(<<>>) OBVIOUS
  <2> QED BY <1>2, <1>3, <1>4, <2>1, <2>2 DEF Hearing
<1>11. /\ serverStore'.mem \in {serverStore.mem, serverStore.disk}
       /\ serverStore'.disk = serverStore.disk
       /\ serverStore'.saving => serverStore'.mem = serverStore.mem /\ serverStore.saving
       /\ clientStore'.mem \in {clientStore.mem, clientStore.disk}
       /\ clientStore'.disk = clientStore.disk
  BY DEF IInv, Types, ServerRecord, ClientRecord
<1>12. /\ clientStore.disk <= clientStore.mem /\ clientStore.mem <= srv.attempt
       /\ serverStore.mem <= srv.attempt /\ serverStore.disk <= srv.attempt
       /\ srv.attempt \in Nat /\ clientStore.mem \in Nat /\ clientStore.disk \in Nat
  BY Numbers DEF IInv, Kept, Attempts
<1>13. Attempts'
  BY <1>1, <1>2, <1>3, <1>11, <1>12, AdmissionsNone DEF Attempts
<1>14. Offers' BY <1>4, <1>5 DEF Offers
<1>15. Kept' BY <1>11, <1>12 DEF IInv, Kept
<1>16. ~Finishing' BY <1>3 DEF Finishing
<1>17. Settling' BY <1>2, <1>3, <1>16 DEF Settling
<1>18. Keys'
  <2>1. 0 \notin Credentials BY DEF Credentials
  <2>2. ~history.late => ~history.refused BY DEF IInv, Keys
  <2> QED BY <1>2, <2>1, <2>2, Places DEF Keys
<1> QED BY <1>6, <1>7, <1>8, <1>9, <1>10, <1>13, <1>14, <1>15, <1>17, <1>18 DEF IInv

(* A new connection starts from what both sides have stored. *)
LEMMA ReconnectKeeps ==
  ASSUME IInv, Types', Reconnect
  PROVE  IInv'
<1> DEFINE wanted == serverStore.mem
           psk == IF wanted # NoRecord /\ wanted = clientStore.mem THEN wanted ELSE Sentinel
<1>0. srv \in ServerEnd /\ cli \in ClientEnd BY DEF IInv, Types
<1>1. /\ link = "down" /\ link' = "up" /\ toClient' = <<Activate("none", 0)>>
      /\ toServer' = toServer /\ serverStore' = serverStore /\ clientStore' = clientStore
      /\ history' = history
      /\ cli' = [cli EXCEPT !.psk = psk, !.rekeyed = TRUE]
      /\ srv' = [srv EXCEPT !.psk = psk,
                            !.mismatch = wanted # NoRecord
                                           /\ ~(wanted # NoRecord /\ wanted = clientStore.mem)]
  BY DEF Reconnect
<1>2. /\ srv = [ServerAtRest EXCEPT !.attempt = srv.attempt]
      /\ cli = [ClientAtRest EXCEPT !.window = cli.window]
      /\ toServer = <<>>
  BY <1>1 DEF IInv, Reset
<1>3. /\ srv'.pc = "idle" /\ srv'.attempt = srv.attempt /\ srv'.index = 0 /\ srv'.psk = psk
      /\ srv'.moved = FALSE /\ srv'.inbox = <<>>
  BY <1>0, <1>1, <1>2 DEF ServerAtRest, ServerEnd
<1>4. /\ cli'.pc = "none" /\ cli'.index = 0 /\ cli'.psk = psk /\ cli'.rekeyed = TRUE
      /\ cli'.inbox = <<>>
  BY <1>0, <1>1, <1>2 DEF ClientAtRest, ClientEnd
<1>5. Activate("none", 0) \in ServerSays /\ <<Activate("none", 0)>> \in Seq(ServerSays)
  <2>1. Activate("none", 0) \in ServerSays BY ServerTalk, Bounds
  <2> QED BY <2>1
<1>6. FromClient' = <<>> /\ FromServer' = <<Activate("none", 0)>>
  <2>1. toServer' = <<>> /\ toServer' \in Seq(ClientSays) /\ toClient' \in Seq(ServerSays)
    BY <1>1, <1>2, <1>5
  <2> QED BY <1>1, <1>3, <1>4, <2>1, ServerEmpty, ClientEmpty DEF IInv
<1>7. /\ Len(<<>>) = 0 /\ Len(<<Activate("none", 0)>>) = 1
      /\ <<Activate("none", 0)>>[1] = Activate("none", 0)
      /\ Head(<<Activate("none", 0)>>) = Activate("none", 0) /\ <<Activate("none", 0)>> # <<>>
      /\ Activate("none", 0).type = "activate" /\ ~NewAttempt(Activate("none", 0))
      /\ Activate("none", 0).type \notin Script
  BY DEF Activate, NewAttempt, Script
<1>8. Admissions(toClient') = {} BY <1>1, <1>7 DEF Admissions
<1>9. Reset' BY <1>1 DEF Reset
<1> HIDE DEF psk
<1>10. Rehandshake'
  BY <1>1, <1>3, <1>4, <1>6, <1>7, Places DEF Rehandshake, NoHandshake, Older
<1>11. Counting'
  <2>1. Cardinality(Admissions(toClient')) = 0 BY <1>8, AdmissionsNone
  <2> QED BY <1>3, <1>4, <2>1 DEF Counting
<1>12. Dialogue' BY <1>3, Places DEF Dialogue
<1>13. Hearing'
  <2>1. Scripts(<<Activate("none", 0)>>, 0) BY <1>7 DEF Scripts
  <2>2. 0 \in 0 .. Len(<<Activate("none", 0)>>) BY <1>7
  <2> QED BY <1>3, <1>4, <1>6, <2>1, <2>2 DEF Hearing
<1>14. Attempts' BY <1>1, <1>3, <1>4, <1>8, Numbers DEF IInv, Attempts
<1>15. Offers' BY <1>6, <1>7 DEF Offers
<1>16. Kept' BY <1>1 DEF IInv, Kept
<1>17. Settling' BY <1>3, <1>4 DEF Settling, Finishing
<1>18. Keys'
  <2>1. psk \in Credentials => serverStore.mem = psk /\ clientStore.mem = psk
    BY DEF psk, Credentials, Sentinel
  <2>2. ~history.late => ~history.refused BY DEF IInv, Keys
  <2> QED BY <1>1, <1>3, <1>4, <2>1, <2>2, Places DEF Keys
<1> QED BY <1>1, <1>9, <1>10, <1>11, <1>12, <1>13, <1>14, <1>15, <1>16, <1>17, <1>18 DEF IInv

(* Where a connection or one of its ends is lost, nothing else can go wrong. *)
LEMMA LossesKeep ==
  ASSUME IInv, Types', LinkDrops \/ ServerRestarts \/ ClientRestarts
  PROVE  IInv'
<1>0. history \in Past BY DEF IInv, Types
<1>1. CASE LinkDrops
  <2>1. /\ Dropped /\ serverStore' = serverStore /\ clientStore' = clientStore
        /\ history'.late = history.late /\ history'.confused = history.confused
        /\ history'.offered = history.offered /\ history'.accepted = history.accepted
        /\ history'.stored = history.stored /\ history'.refused = history.refused
    BY <1>0, <1>1 DEF LinkDrops, Past
  <2> QED BY <2>1, DropsKeep
<1>2. CASE ServerRestarts
  <2>1. /\ Dropped /\ clientStore' = clientStore
        /\ serverStore' = [serverStore EXCEPT !.mem = serverStore.disk, !.saving = FALSE]
        /\ history'.late = history.late /\ history'.confused = history.confused
        /\ history'.offered = history.offered /\ history'.accepted = history.accepted
        /\ history'.stored = history.stored /\ history'.refused = history.refused
    BY <1>0, <1>2 DEF ServerRestarts, Past
  <2> QED BY <2>1, DropsKeep
<1>3. CASE ClientRestarts
  <2>1. /\ Dropped /\ serverStore' = serverStore
        /\ clientStore' = [clientStore EXCEPT !.mem = clientStore.disk, !.saving = FALSE]
        /\ history'.late = history.late /\ history'.confused = history.confused
        /\ history'.offered = history.offered /\ history'.accepted = history.accepted
        /\ history'.stored = history.stored /\ history'.refused = history.refused
    BY <1>0, <1>3 DEF ClientRestarts, Past
  <2> QED BY <2>1, DropsKeep
<1> QED BY <1>1, <1>2, <1>3

-----------------------------------------------------------------------------
(* The server leaves an attempt. *)

LEMMA JoinLiterals ==
  ASSUME NEW q \in Seq(ServerSays), NEW a \in ServerSays, NEW b \in ServerSays
  PROVE  /\ q \o <<>> = q
         /\ q \o <<a>> = Append(q, a)
         /\ q \o <<a, b>> = Append(Append(q, a), b)
<1>1. q \o <<>> = q OBVIOUS
<1>2. q \o <<a>> = Append(q, a) OBVIOUS
<1>3. q \o <<a, b>> = Append(Append(q, a), b)
  <2>1. <<a, b>> = Append(<<a>>, b) /\ <<a>> \in Seq(ServerSays) OBVIOUS
  <2>2. q \o Append(<<a>>, b) = Append(q \o <<a>>, b) BY <2>1, JoinAppends, Zenon
  <2> QED BY <1>2, <2>1, <2>2, Zenon
<1> QED BY <1>1, <1>2, <1>3

(* It sends its activation, after an abort maybe, and a re-key onto its record when  *)
(* the session was moved off it.                                                     *)
LEMMA LeaveSends ==
  ASSUME Types, NEW s \in ServerEnd, NEW sends \in {<<>>, <<Abort("user_cancelled")>>},
         LeaveTo(s, sends)
  PROVE  \E q \in Seq(ServerSays) :
           /\ Aside(q, toClient) /\ q # <<>>
           /\ \A i \in Len(toClient) + 1 .. Len(q) : q[i].type # "handshake"
           /\ sends = <<>> => q[Len(toClient) + 1].type = "activate"
           /\ \/ /\ s.moved /\ serverStore.mem # NoRecord
                 /\ srv' = [s EXCEPT !.pc = "return", !.inbox = <<>>, !.cancel = FALSE]
                 /\ toClient' = Append(q, Handshake(serverStore.mem))
                 /\ Handshake(serverStore.mem) \in ServerSays
              \/ /\ ~(s.moved /\ serverStore.mem # NoRecord)
                 /\ srv' = [s EXCEPT !.pc = "idle", !.inbox = <<>>, !.cancel = FALSE,
                                     !.free = FALSE]
                 /\ toClient' = q
<1> DEFINE none == Activate("none", 0)
           back == Handshake(serverStore.mem)
           abort == Abort("user_cancelled")
           p == toClient \o sends
           q == Append(p, none)
<1>1. none \in ServerSays /\ back \in ServerSays /\ abort \in ServerSays
  BY ServerTalk, Bounds DEF Types, ServerRecord, Reasons
<1>2. toClient \in Seq(ServerSays) /\ Len(toClient) \in Nat BY Ways
<1>3. /\ none.type = "activate" /\ ~NewAttempt(none) /\ none.type \notin Script
      /\ abort.type = "abort" /\ ~NewAttempt(abort) /\ abort.type \notin Script
  BY DEF Activate, Abort, NewAttempt, Script
<1> HIDE DEF none, back, abort
<1>4. p = toClient \/ p = Append(toClient, abort) BY <1>1, <1>2, JoinLiterals DEF abort
<1>5. sends = <<>> => p = toClient BY <1>2
<1>6. /\ p \in Seq(ServerSays) /\ Aside(p, toClient)
      /\ \A i \in Len(toClient) + 1 .. Len(p) : p[i].type # "handshake"
  <2>1. CASE p = toClient BY <1>2, <2>1, AsideNone
  <2>2. CASE p = Append(toClient, abort)
    <3>1. Aside(p, toClient) BY <1>1, <1>2, <1>3, <2>2, AsideNone, AsideOne
    <3>2. p \in Seq(ServerSays) /\ Len(p) = Len(toClient) + 1 /\ p[Len(toClient) + 1] = abort
      BY <1>1, <1>2, <2>2, AppendElements
    <3> QED BY <1>2, <1>3, <3>1, <3>2
  <2> QED BY <1>4, <2>1, <2>2
<1> HIDE DEF p
<1>7. /\ q \in Seq(ServerSays) /\ q # <<>> /\ Aside(q, toClient)
      /\ Len(q) = Len(p) + 1 /\ Len(p) \in Nat /\ q[Len(p) + 1] = none
      /\ \A i \in 1 .. Len(p) : q[i] = p[i]
  <2>1. Aside(q, toClient) BY <1>1, <1>2, <1>3, <1>6, AsideOne
  <2> QED BY <1>1, <1>6, <2>1, AppendElements
<1>8. \A i \in Len(toClient) + 1 .. Len(q) : q[i].type # "handshake"
  <2> TAKE i \in Len(toClient) + 1 .. Len(q)
  <2>1. CASE i = Len(p) + 1 BY <1>3, <1>7, <2>1
  <2>2. CASE i # Len(p) + 1
    <3>1. i \in Len(toClient) + 1 .. Len(p) /\ i \in 1 .. Len(p) BY <1>2, <1>7, <2>2
    <3> QED BY <1>6, <1>7, <3>1
  <2> QED BY <2>1, <2>2
<1>9. sends = <<>> => q[Len(toClient) + 1].type = "activate" BY <1>3, <1>5, <1>7
<1>10. p \o <<none>> = q /\ p \o <<none, back>> = Append(q, back)
  BY <1>1, <1>6, JoinLiterals
<1>11. CASE s.moved /\ serverStore.mem # NoRecord
  <2>1. /\ srv' = [s EXCEPT !.pc = "return", !.inbox = <<>>, !.cancel = FALSE]
        /\ toClient' = p \o <<none, back>>
    BY <1>11 DEF LeaveTo, p, none, back
  <2>2. toClient' = Append(q, back) BY <1>10, <2>1, Zenon
  <2> HIDE DEF q
  <2> QED BY <1>1, <1>7, <1>8, <1>9, <1>11, <2>1, <2>2 DEF back
<1>12. CASE ~(s.moved /\ serverStore.mem # NoRecord)
  <2>1. /\ srv' = [s EXCEPT !.pc = "idle", !.inbox = <<>>, !.cancel = FALSE, !.free = FALSE]
        /\ toClient' = p \o <<none>>
    BY <1>12 DEF LeaveTo, p, none
  <2>2. toClient' = q BY <1>10, <2>1, Zenon
  <2> HIDE DEF q
  <2> QED BY <1>1, <1>7, <1>8, <1>9, <1>12, <2>1, <2>2
<1> QED BY <1>11, <1>12

(* Messages aside take nothing from what the client has to hear. *)
LEMMA AsideHears ==
  ASSUME IInv, Types', Aside(toClient', toClient), cli' = cli
  PROVE  /\ \E j \in 0 .. Len(FromServer') : Scripts(FromServer', j) /\ (cli'.pc # "none" => Heard(j)')
         /\ Finishing' => Finishing
         /\ \A i \in Admissions(toClient') : i \in Admissions(toClient) /\ toClient'[i] = toClient[i]
<1>1. /\ cli.inbox \in Seq(ServerSays) /\ toClient \in Seq(ServerSays)
      /\ FromServer = cli.inbox \o toClient /\ Len(FromServer) \in Nat
  BY Ways DEF IInv, FromServer
<1>2. /\ toClient' \in Seq(ServerSays) /\ FromServer' = cli.inbox \o toClient'
      /\ Len(FromServer') = Len(cli.inbox) + Len(toClient') /\ Len(FromServer') \in Nat
      /\ Len(FromServer) = Len(cli.inbox) + Len(toClient) /\ Len(cli.inbox) \in Nat
      /\ Len(toClient) \in Nat /\ Len(toClient') \in Nat
  <2>1. toClient' \in Seq(ServerSays) /\ FromServer' = cli.inbox \o toClient'
    BY DEF Types, FromServer
  <2> QED BY <1>1, <2>1, JoinTypes
<1>3. PICK j \in 0 .. Len(FromServer) : Scripts(FromServer, j) /\ (cli.pc # "none" => Heard(j))
  BY DEF IInv, Hearing
<1>4. Scripts(FromServer', j) /\ \A i \in 1 .. Len(FromServer) : FromServer'[i] = FromServer[i]
  BY <1>1, <1>2, <1>3, AsideScripts, Zenon
<1>5. Len(FromServer) <= Len(FromServer') BY <1>2 DEF Aside
<1>6. j \in 0 .. Len(FromServer') BY <1>2, <1>5
<1>7. cli'.pc # "none" => Heard(j)'
  <2>1. /\ j >= 1 => FromServer'[1] = FromServer[1]
        /\ j >= 2 => FromServer'[2] = FromServer[2]
    <3>1. /\ j >= 1 => 1 \in 1 .. Len(FromServer)
          /\ j >= 2 => 2 \in 1 .. Len(FromServer)
      BY <1>1
    <3> QED BY ONLY <1>4, <3>1
  <2>2. (cli.pc # "none" => Heard(j)) /\ j \in Nat /\ cli'.pc = cli.pc BY <1>1, <1>3
  <2> QED BY ONLY <2>1, <2>2 DEF Heard
<1>8. Finishing' => Finishing
  <2> SUFFICES ASSUME FromServer' # <<>>, FromServer'[1].type = "finalize", cli.pc = "ack"
               PROVE  FromServer # <<>> /\ FromServer[1].type = "finalize"
    BY DEF Finishing
  <2>1. FromServer' \in Seq(ServerSays) BY <1>1, <1>2, JoinTypes
  <2>2. 1 \in 1 .. Len(FromServer') /\ "finalize" \in Script BY <2>1 DEF Script
  <2>3. 1 <= j BY <1>4, <2>2 DEF Scripts
  <2>4. FromServer'[1] = FromServer[1] /\ Len(FromServer) # 0 BY <1>1, <1>4, <2>3
  <2> QED BY <2>4
<1>9. ASSUME NEW i \in Admissions(toClient')
      PROVE  i \in Admissions(toClient) /\ toClient'[i] = toClient[i]
  <2>1. i \in 1 .. Len(toClient') /\ NewAttempt(toClient'[i]) BY DEF Admissions
  <2>2. i \notin Len(toClient) + 1 .. Len(toClient') BY <2>1 DEF Aside
  <2>3. i \in 1 .. Len(toClient) BY <1>2, <2>1, <2>2
  <2> QED BY <2>1, <2>3 DEF Admissions, Aside
<1> QED BY <1>4, <1>6, <1>7, <1>8, <1>9

(* What is left of what the client sent. *)
LEMMA Suffix ==
  ASSUME Types
  PROVE  /\ \A n, x \in Nat : Older(FromClient, Len(FromClient), x) => Older(toServer, Len(toServer), x)
         /\ NoHandshake(FromClient, Len(FromClient)) => NoHandshake(toServer, Len(toServer))
         /\ \A i \in 1 .. Len(toServer) :
              \E k \in 1 .. Len(FromClient) : toServer[i] = FromClient[k]
<1>1. /\ Len(FromClient) = Len(srv.inbox) + Len(toServer) /\ Len(srv.inbox) \in Nat
      /\ Len(toServer) \in Nat
      /\ \A i \in 1 .. Len(toServer) : FromClient[Len(srv.inbox) + i] = toServer[i]
  BY ServerRest
<1>2. \A i \in 1 .. Len(toServer) : Len(srv.inbox) + i \in 1 .. Len(FromClient) BY <1>1
<1> QED BY <1>1, <1>2 DEF Older, NoHandshake

LEMMA LeaveKeeps ==
  ASSUME IInv, Types', NEW s \in ServerEnd, NEW sends \in {<<>>, <<Abort("user_cancelled")>>},
         LeaveTo(s, sends), link = "up", link' = link, toServer' = toServer, cli' = cli,
         serverStore' = serverStore, clientStore' = clientStore,
         history'.confused = history.confused, history'.offered = history.offered,
         history'.accepted = history.accepted, history'.stored = history.stored,
         s.attempt = srv.attempt, s.index <= srv.attempt,
         NoHandshake(toClient, Len(toClient)), NoHandshake(toServer, Len(toServer)),
         Older(toServer, Len(toServer), s.index + 1),
         s.index = cli.index + Cardinality(Admissions(toClient)), s.psk = cli.psk,
         cli.rekeyed => cli.pc = "none" /\ \/ toClient = <<>> /\ sends = <<>>
                                           \/ toClient # <<>> /\ Head(toClient).type = "activate",
         ~Finishing,
         ~history'.late =>
           /\ s.psk \in Credentials => serverStore.mem = s.psk /\ clientStore.mem = s.psk
           /\ s.moved => serverStore.mem = clientStore.mem
           /\ ~history'.refused
  PROVE  IInv'
<1>0. /\ toClient \in Seq(ServerSays) /\ Len(toClient) \in Nat /\ toServer \in Seq(ClientSays)
      /\ toClient' \in Seq(ServerSays)
  <2>1. toClient' \in Seq(ServerSays) BY DEF Types
  <2> QED BY <2>1, Ways DEF IInv
<1>1. PICK q \in Seq(ServerSays) :
           /\ Aside(q, toClient) /\ q # <<>>
           /\ \A i \in Len(toClient) + 1 .. Len(q) : q[i].type # "handshake"
           /\ sends = <<>> => q[Len(toClient) + 1].type = "activate"
           /\ \/ /\ s.moved /\ serverStore.mem # NoRecord
                 /\ srv' = [s EXCEPT !.pc = "return", !.inbox = <<>>, !.cancel = FALSE]
                 /\ toClient' = Append(q, Handshake(serverStore.mem))
                 /\ Handshake(serverStore.mem) \in ServerSays
              \/ /\ ~(s.moved /\ serverStore.mem # NoRecord)
                 /\ srv' = [s EXCEPT !.pc = "idle", !.inbox = <<>>, !.cancel = FALSE,
                                     !.free = FALSE]
                 /\ toClient' = q
  BY LeaveSends DEF IInv
<1> DEFINE back == Handshake(serverStore.mem)
<1>2. back.type = "handshake" /\ back.psk = serverStore.mem /\ ~NewAttempt(back)
      /\ back.type \notin Script
  BY DEF Handshake, NewAttempt, Script
<1> HIDE DEF back
<1>3. /\ srv'.attempt = srv.attempt /\ srv'.index = s.index /\ srv'.psk = s.psk
      /\ srv'.moved = s.moved /\ srv'.inbox = <<>>
      /\ \/ srv'.pc = "return" /\ s.moved /\ toClient' = Append(q, back) /\ back \in ServerSays
         \/ srv'.pc = "idle" /\ toClient' = q
  BY <1>1 DEF ServerEnd, back
<1>4. /\ Len(q) \in Nat /\ Len(toClient) <= Len(q) /\ q[1] = Head(q) /\ Len(q) >= 1
      /\ \A i \in 1 .. Len(toClient) : q[i] = toClient[i]
      /\ \A i \in 1 .. Len(q) : q[i].type # "handshake"
      /\ cli.rekeyed => q[1].type = "activate"
  <2>1. Len(q) \in Nat /\ Len(toClient) <= Len(q) /\ q[1] = Head(q) /\ Len(q) >= 1
        /\ \A i \in 1 .. Len(toClient) : q[i] = toClient[i]
    BY <1>1 DEF Aside
  <2>2. ASSUME NEW i \in 1 .. Len(q) PROVE q[i].type # "handshake"
    <3>1. CASE i \in 1 .. Len(toClient) BY <2>1, <3>1 DEF NoHandshake
    <3>2. CASE i \notin 1 .. Len(toClient)
      <4>1. i \in Len(toClient) + 1 .. Len(q) BY <1>0, <2>1, <3>2
      <4> QED BY <1>1, <4>1
    <3> QED BY <3>1, <3>2
  <2>3. ASSUME cli.rekeyed PROVE q[1].type = "activate"
    <3>1. CASE toClient = <<>>
      <4>1. Len(toClient) = 0 /\ sends = <<>> BY <2>3, <3>1
      <4> QED BY <1>1, <4>1
    <3>2. CASE toClient # <<>>
      <4>1. Head(toClient).type = "activate" /\ Head(toClient) = toClient[1]
            /\ 1 \in 1 .. Len(toClient)
        BY <1>0, <2>3, <3>2
      <4> QED BY <2>1, <4>1
    <3> QED BY <3>1, <3>2
  <2> QED BY <2>1, <2>2, <2>3
<1>5. Aside(toClient', toClient) /\ toClient' # <<>> /\ Head(toClient') = q[1]
  <2>1. CASE toClient' = q BY <1>1, <1>4, <2>1
  <2>2. CASE toClient' = Append(q, back) /\ back \in ServerSays
    <3>1. Aside(toClient', toClient) BY <1>0, <1>1, <1>2, <2>2, AsideOne
    <3>2. toClient' # <<>> /\ Head(toClient') = q[1] BY <1>1, <1>4, <2>2
    <3> QED BY <3>1, <3>2
  <2> QED BY <1>3, <2>1, <2>2
<1>6. FromClient' = toServer BY <1>0, <1>3, ServerEmpty DEF IInv
<1>7. Reset' BY DEF Reset
<1>8. ~Answered' /\ Rehandshake'
  <2>1. ~Answered' BY <1>5 DEF Answered
  <2>2. CASE srv'.pc = "return" /\ toClient' = Append(q, back) /\ back \in ServerSays
    <3>1. /\ Len(toClient') = Len(q) + 1 /\ toClient'[Len(q) + 1] = back
          /\ \A i \in 1 .. Len(q) : toClient'[i] = q[i]
      BY <1>1, <2>2, AppendElements
    <3>2. /\ toClient'[Len(toClient')] = back
          /\ \A i \in 1 .. Len(toClient') - 1 : toClient'[i].type # "handshake"
      BY <1>4, <3>1
    <3>3. Unanswered' BY <1>2, <1>5, <1>6, <2>2, <3>2 DEF Unanswered, NoHandshake, Asked
    <3> QED BY <1>3, <1>4, <1>5, <1>6, <2>1, <2>2, <3>3, Places DEF Rehandshake
  <2>3. CASE srv'.pc = "idle" /\ toClient' = q
    BY <1>3, <1>4, <1>5, <1>6, <2>1, <2>3, Places DEF Rehandshake, NoHandshake
  <2> QED BY <1>3, <2>1, <2>2, <2>3
<1>9. Counting' BY <1>3, <1>5 DEF Counting, Aside
<1>10. Dialogue' BY <1>3, Places DEF Dialogue
<1>11. /\ \E j \in 0 .. Len(FromServer') : Scripts(FromServer', j) /\ (cli'.pc # "none" => Heard(j)')
       /\ ~Finishing'
       /\ \A i \in Admissions(toClient') : i \in Admissions(toClient) /\ toClient'[i] = toClient[i]
  BY <1>5, AsideHears
<1>12. Hearing' BY <1>3, <1>11 DEF IInv, Hearing
<1>13. Attempts' BY <1>3, <1>11 DEF IInv, Attempts
<1>14. Offers'
  <2>1. \A i \in 1 .. Len(toServer) : \E k \in 1 .. Len(FromClient) : toServer[i] = FromClient[k]
    BY Suffix DEF IInv
  <2> QED BY <1>6, <2>1 DEF IInv, Offers
<1>15. Kept' BY DEF IInv, Kept
<1>16. Settling' BY <1>3, <1>11 DEF IInv, Settling
<1>17. Keys' BY <1>3, Places DEF Keys
<1> QED BY <1>7, <1>8, <1>9, <1>10, <1>12, <1>13, <1>14, <1>15, <1>16, <1>17 DEF IInv

(* Who is in an attempt is connected. *)
LEMMA Engaged ==
  ASSUME IInv, srv.pc # "idle" \/ cli.pc # "none" \/ toClient # <<>> \/ toServer # <<>>
  PROVE  link = "up"
<1>1. ASSUME link = "down" PROVE FALSE
  BY <1>1 DEF IInv, Reset, ServerAtRest, ClientAtRest, Types, ServerEnd, ClientEnd
<1> QED BY <1>1 DEF IInv, Types

(* While no re-key is under way, the two agree on what is counted. *)
LEMMA Steady ==
  ASSUME IInv, srv.pc \notin Rekeying
  PROVE  /\ NoHandshake(toClient, Len(toClient)) /\ NoHandshake(FromClient, Len(FromClient))
         /\ NoHandshake(toServer, Len(toServer))
         /\ Older(FromClient, Len(FromClient), srv.index + 1)
         /\ Older(toServer, Len(toServer), srv.index + 1)
         /\ ~Answered
         /\ srv.index = cli.index + Cardinality(Admissions(toClient)) /\ srv.psk = cli.psk
         /\ cli.rekeyed => cli.pc = "none" /\ toClient # <<>> /\ Head(toClient).type = "activate"
<1>1. ~Answered BY DEF Answered
<1>2. srv.index + 1 \in Nat BY Numbers DEF IInv
<1> QED BY <1>1, <1>2, Suffix DEF IInv, Rehandshake, Counting

LEMMA Abandons ==
  ASSUME IInv, Types', srv.pc \in Exchanging \cup {"prep", "save"},
         NEW s \in {srv, [srv EXCEPT !.free = TRUE]},
         NEW sends \in {<<>>, <<Abort("user_cancelled")>>},
         LeaveTo(s, sends), link' = link, toServer' = toServer, cli' = cli,
         serverStore' = serverStore, clientStore' = clientStore,
         history'.confused = history.confused, history'.offered = history.offered,
         history'.accepted = history.accepted, history'.stored = history.stored,
         history'.refused = history.refused,
         history'.late = (history.late \/ srv.pc = "save")
  PROVE  IInv'
<1>1. /\ s \in ServerEnd /\ s.attempt = srv.attempt /\ s.index = srv.index /\ s.psk = srv.psk
      /\ s.moved = srv.moved
  BY DEF IInv, Types, ServerEnd
<1>2. srv.pc \notin Rekeying /\ srv.pc # "idle" /\ srv.pc \notin {"acked", "rerec", "return"} BY Places
<1>3. link = "up" BY <1>2, Engaged
<1>4. ~Finishing BY <1>2 DEF IInv, Settling
<1>5. srv.index <= srv.attempt BY DEF IInv, Attempts
<1>6. ~history'.late =>
        /\ s.psk \in Credentials => serverStore.mem = s.psk /\ clientStore.mem = s.psk
        /\ s.moved => serverStore.mem = clientStore.mem
        /\ ~history'.refused
  BY <1>1, <1>2 DEF IInv, Keys
<1>7. /\ NoHandshake(toClient, Len(toClient)) /\ NoHandshake(toServer, Len(toServer))
      /\ Older(toServer, Len(toServer), srv.index + 1)
      /\ srv.index = cli.index + Cardinality(Admissions(toClient)) /\ srv.psk = cli.psk
      /\ cli.rekeyed => cli.pc = "none" /\ toClient # <<>> /\ Head(toClient).type = "activate"
  BY <1>2, Steady
<1>8. s.index <= srv.attempt /\ Older(toServer, Len(toServer), s.index + 1) BY <1>1, <1>5, <1>7
<1> QED BY <1>1, <1>3, <1>4, <1>6, <1>7, <1>8, LeaveKeeps

(* The operator or a timer gives the attempt up. *)
LEMMA GivesUp ==
  ASSUME IInv, Types',
         \/ CodeEntered /\ LeaveTo(srv, <<>>)
         \/ CancelAttempt /\ srv.pc # "rekey"
         \/ ServerTimesOut
         \/ srv.pc \in Exchanging /\ ServerAborted(Head(srv.inbox)) /\ LeaveTo(srv, <<>>)
  PROVE  IInv'
<1>0. history \in Past BY DEF IInv, Types
<1>1. CASE CodeEntered /\ LeaveTo(srv, <<>>)
  <2>1. /\ srv.pc \in Exchanging /\ srv.pc # "save" /\ link' = link /\ toServer' = toServer
        /\ cli' = cli /\ serverStore' = serverStore /\ clientStore' = clientStore
        /\ history' = history /\ LeaveTo(srv, <<>>)
    BY <1>1, Places DEF CodeEntered
  <2>2. history'.late = (history.late \/ srv.pc = "save") BY <1>0, <2>1 DEF Past
  <2> QED BY <2>1, <2>2, Abandons
<1>2. CASE CancelAttempt /\ srv.pc # "rekey"
  <2>1. /\ srv.pc \in Exchanging \cup {"prep"} /\ srv.pc # "save" /\ link' = link
        /\ toServer' = toServer /\ cli' = cli /\ serverStore' = serverStore
        /\ clientStore' = clientStore /\ history' = history
        /\ LeaveTo([srv EXCEPT !.free = TRUE], <<Abort("user_cancelled")>>)
    BY <1>2, Places DEF CancelAttempt
  <2>2. history'.late = (history.late \/ srv.pc = "save") BY <1>0, <2>1 DEF Past
  <2> QED BY <2>1, <2>2, Abandons
<1>3. CASE ServerTimesOut
  <2>1. CASE /\ srv.pc \in Exchanging \cup {"save"} /\ LeaveTo(srv, <<>>)
             /\ history' = [history EXCEPT !.late = @ \/ srv.pc = "save"]
             /\ UNCHANGED <<link, toServer, cli>>
    <3>1. /\ history'.late = (history.late \/ srv.pc = "save")
          /\ history'.confused = history.confused /\ history'.offered = history.offered
          /\ history'.accepted = history.accepted /\ history'.stored = history.stored
          /\ history'.refused = history.refused
      BY <1>0, <2>1 DEF Past
    <3>2. serverStore' = serverStore /\ clientStore' = clientStore BY <1>3 DEF ServerTimesOut
    <3> QED BY <2>1, <3>1, <3>2, Abandons
  <2>2. CASE Dropped /\ history' = history
    <3>1. serverStore' = serverStore /\ clientStore' = clientStore BY <1>3 DEF ServerTimesOut
    <3> QED BY <2>2, <3>1, DropsKeep
  <2> QED BY <1>3, <2>1, <2>2 DEF ServerTimesOut
<1>4. CASE srv.pc \in Exchanging /\ ServerAborted(Head(srv.inbox)) /\ LeaveTo(srv, <<>>)
  <2>1. /\ srv.pc # "save" /\ link' = link /\ toServer' = toServer
        /\ cli' = cli /\ serverStore' = serverStore /\ clientStore' = clientStore
        /\ history' = history
    BY <1>4, Places DEF ServerAborted
  <2>2. history'.late = (history.late \/ srv.pc = "save") BY <1>0, <2>1 DEF Past
  <2> QED BY <1>4, <2>1, <2>2, Abandons
<1> QED BY <1>1, <1>2, <1>3, <1>4

-----------------------------------------------------------------------------
(* One message more, one message less. *)

LEMMA TailTalk ==
  ASSUME NEW q \in Seq(ClientSays), q # <<>>
  PROVE  /\ Len(q) \in Nat /\ Len(q) >= 1 /\ Tail(q) \in Seq(ClientSays)
         /\ Len(Tail(q)) = Len(q) - 1 /\ Head(q) = q[1]
         /\ \A i \in 1 .. Len(q) - 1 : Tail(q)[i] = q[i + 1]
         /\ NoHandshake(q, Len(q)) => NoHandshake(Tail(q), Len(Tail(q)))
         /\ \A x \in Nat : Older(q, Len(q), x) => Older(Tail(q), Len(Tail(q)), x)
         /\ \A i \in 1 .. Len(Tail(q)) : \E k \in 1 .. Len(q) : Tail(q)[i] = q[k]
<1>1. /\ Len(q) \in Nat /\ Len(q) >= 1 /\ Tail(q) \in Seq(ClientSays)
      /\ Len(Tail(q)) = Len(q) - 1 /\ Head(q) = q[1]
      /\ \A i \in 1 .. Len(q) - 1 : Tail(q)[i] = q[i + 1]
  BY TailElements
<1>2. \A i \in 1 .. Len(q) - 1 : i + 1 \in 1 .. Len(q) BY <1>1
<1> QED BY <1>1, <1>2 DEF NoHandshake, Older

LEMMA AppendTalk ==
  ASSUME NEW q \in Seq(ClientSays), NEW m \in ClientSays
  PROVE  /\ Append(q, m) \in Seq(ClientSays) /\ Len(q) \in Nat /\ Len(Append(q, m)) = Len(q) + 1
         /\ \A i \in 1 .. Len(q) : Append(q, m)[i] = q[i]
         /\ Append(q, m)[Len(q) + 1] = m
         /\ Append(q, m) # <<>>
         /\ NoHandshake(q, Len(q)) /\ m.type # "handshake"
              => NoHandshake(Append(q, m), Len(Append(q, m)))
         /\ NoHandshake(q, Len(q)) => NoHandshake(Append(q, m), Len(Append(q, m)) - 1)
         /\ \A x \in Nat : Older(q, Len(q), x) /\ (Numbered(m) => m.index < x)
                             => Older(Append(q, m), Len(Append(q, m)), x)
<1>1. /\ Append(q, m) \in Seq(ClientSays) /\ Len(q) \in Nat /\ Len(Append(q, m)) = Len(q) + 1
      /\ \A i \in 1 .. Len(q) : Append(q, m)[i] = q[i]
      /\ Append(q, m)[Len(q) + 1] = m /\ Append(q, m) # <<>>
  BY AppendElements
<1>2. \A i \in 1 .. Len(q) + 1 : i \in 1 .. Len(q) \/ i = Len(q) + 1 BY <1>1
<1>3. (Len(q) + 1) - 1 = Len(q) BY <1>1
<1>4. NoHandshake(q, Len(q)) => NoHandshake(Append(q, m), Len(Append(q, m)) - 1)
  BY <1>1, <1>3 DEF NoHandshake
<1>5. NoHandshake(q, Len(q)) /\ m.type # "handshake"
        => NoHandshake(Append(q, m), Len(Append(q, m)))
  BY <1>1, <1>2 DEF NoHandshake
<1>6. \A x \in Nat : Older(q, Len(q), x) /\ (Numbered(m) => m.index < x)
                       => Older(Append(q, m), Len(Append(q, m)), x)
  BY <1>1, <1>2 DEF Older
<1> QED BY <1>1, <1>4, <1>5, <1>6

(* The same for what the server sends. *)
LEMMA AppendSays ==
  ASSUME NEW q \in Seq(ServerSays), NEW m \in ServerSays
  PROVE  /\ Append(q, m) \in Seq(ServerSays) /\ Len(q) \in Nat /\ Len(Append(q, m)) = Len(q) + 1
         /\ \A i \in 1 .. Len(q) : Append(q, m)[i] = q[i]
         /\ Append(q, m)[Len(q) + 1] = m
         /\ Append(q, m) # <<>>
         /\ Append(q, m)[Len(Append(q, m))] = m
         /\ q # <<>> => Head(Append(q, m)) = Head(q)
         /\ q = <<>> => Head(Append(q, m)) = m
         /\ NoHandshake(q, Len(q)) /\ m.type # "handshake"
              => NoHandshake(Append(q, m), Len(Append(q, m)))
         /\ NoHandshake(q, Len(q)) => NoHandshake(Append(q, m), Len(Append(q, m)) - 1)
         /\ ~NewAttempt(m) => /\ Admissions(Append(q, m)) = Admissions(q)
                              /\ \A i \in Admissions(q) : Append(q, m)[i] = q[i]
<1>1. /\ Append(q, m) \in Seq(ServerSays) /\ Len(q) \in Nat /\ Len(Append(q, m)) = Len(q) + 1
      /\ \A i \in 1 .. Len(q) : Append(q, m)[i] = q[i]
      /\ Append(q, m)[Len(q) + 1] = m /\ Append(q, m) # <<>>
  BY AppendElements
<1>2. \A i \in 1 .. Len(q) + 1 : i \in 1 .. Len(q) \/ i = Len(q) + 1 BY <1>1
<1>3. (Len(q) + 1) - 1 = Len(q) BY <1>1
<1>4. NoHandshake(q, Len(q)) => NoHandshake(Append(q, m), Len(Append(q, m)) - 1)
  BY <1>1, <1>3 DEF NoHandshake
<1>5. NoHandshake(q, Len(q)) /\ m.type # "handshake"
        => NoHandshake(Append(q, m), Len(Append(q, m)))
  BY <1>1, <1>2 DEF NoHandshake
<1>6. q # <<>> => Head(Append(q, m)) = Head(q) OBVIOUS
<1>7. q = <<>> => Head(Append(q, m)) = m OBVIOUS
<1>8. ~NewAttempt(m) => /\ Admissions(Append(q, m)) = Admissions(q)
                        /\ \A i \in Admissions(q) : Append(q, m)[i] = q[i]
  BY <1>1, <1>2 DEF Admissions
<1> QED BY <1>1, <1>4, <1>5, <1>6, <1>7, <1>8

LEMMA TailSays ==
  ASSUME NEW q \in Seq(ServerSays), q # <<>>
  PROVE  /\ Len(q) \in Nat /\ Len(q) >= 1 /\ Tail(q) \in Seq(ServerSays)
         /\ Len(Tail(q)) = Len(q) - 1 /\ Head(q) = q[1]
         /\ \A i \in 1 .. Len(q) - 1 : Tail(q)[i] = q[i + 1]
         /\ NoHandshake(q, Len(q)) => NoHandshake(Tail(q), Len(Tail(q)))
         /\ NoHandshake(q, Len(q) - 1) /\ Tail(q) # <<>>
              => NoHandshake(Tail(q), Len(Tail(q)) - 1)
         /\ Tail(q) # <<>> => Tail(q)[Len(Tail(q))] = q[Len(q)]
         /\ Tail(q) = <<>> => Len(q) = 1 /\ q[Len(q)] = Head(q)
         /\ \A i \in Admissions(Tail(q)) : i + 1 \in Admissions(q) /\ Tail(q)[i] = q[i + 1]
<1>1. /\ Len(q) \in Nat /\ Len(q) >= 1 /\ Tail(q) \in Seq(ServerSays)
      /\ Len(Tail(q)) = Len(q) - 1 /\ Head(q) = q[1]
      /\ \A i \in 1 .. Len(q) - 1 : Tail(q)[i] = q[i + 1]
  BY TailElements
<1>2. \A i \in 1 .. Len(q) - 1 : i + 1 \in 1 .. Len(q) BY <1>1
<1>3. NoHandshake(q, Len(q)) => NoHandshake(Tail(q), Len(Tail(q)))
  BY <1>1, <1>2 DEF NoHandshake
<1>4. Tail(q) = <<>> <=> Len(q) = 1 BY <1>1
<1>5. NoHandshake(q, Len(q) - 1) /\ Tail(q) # <<>> => NoHandshake(Tail(q), Len(Tail(q)) - 1)
  <2>1. \A i \in 1 .. Len(Tail(q)) - 1 : i + 1 \in 1 .. Len(q) - 1 /\ i \in 1 .. Len(q) - 1 BY <1>1
  <2> QED BY <1>1, <2>1 DEF NoHandshake
<1>6. Tail(q) # <<>> => Tail(q)[Len(Tail(q))] = q[Len(q)]
  <2>1. Tail(q) # <<>> => Len(q) - 1 \in 1 .. Len(q) - 1 /\ (Len(q) - 1) + 1 = Len(q)
    BY <1>1, <1>4
  <2> QED BY <1>1, <2>1
<1>7. Tail(q) = <<>> => Len(q) = 1 /\ q[Len(q)] = Head(q) BY <1>1, <1>4
<1>8. \A i \in Admissions(Tail(q)) : i + 1 \in Admissions(q) /\ Tail(q)[i] = q[i + 1]
  BY <1>1, <1>2 DEF Admissions
<1> QED BY <1>1, <1>3, <1>5, <1>6, <1>7, <1>8

-----------------------------------------------------------------------------
(* What the server does within an attempt leaves the count, the keys and the records  *)
(* alone.                                                                             *)

(* It adds nothing, or one message of the exchange, to what it has sent. *)
Adds == \/ toClient' = toClient
        \/ \E m \in ServerSays : m.type \in Script /\ toClient' = Append(toClient, m)

LEMMA AddsKept ==
  ASSUME IInv, Adds
  PROVE  /\ NoHandshake(toClient, Len(toClient)) => NoHandshake(toClient', Len(toClient'))
         /\ toClient # <<>> => toClient' # <<>> /\ Head(toClient') = Head(toClient)
         /\ Admissions(toClient') = Admissions(toClient)
         /\ \A i \in Admissions(toClient) : toClient'[i] = toClient[i]
<1>1. toClient \in Seq(ServerSays) BY Ways DEF IInv
<1>2. CASE toClient' = toClient BY <1>2
<1>3. ASSUME NEW m \in ServerSays, m.type \in Script, toClient' = Append(toClient, m)
      PROVE  /\ NoHandshake(toClient, Len(toClient)) => NoHandshake(toClient', Len(toClient'))
             /\ toClient # <<>> => toClient' # <<>> /\ Head(toClient') = Head(toClient)
             /\ Admissions(toClient') = Admissions(toClient)
             /\ \A i \in Admissions(toClient) : toClient'[i] = toClient[i]
  <2>1. m.type # "handshake" /\ ~NewAttempt(m) BY <1>3 DEF Script, NewAttempt
  <2> QED BY <1>1, <1>3, <2>1, AppendSays
<1> QED BY <1>2, <1>3 DEF Adds

(* It takes nothing, or the first message, from what the client has sent. *)
Takings == \/ FromClient' = FromClient
           \/ FromClient # <<>> /\ FromClient' = Tail(FromClient)

LEMMA TakingsKept ==
  ASSUME IInv, Takings
  PROVE  /\ NoHandshake(FromClient, Len(FromClient)) => NoHandshake(FromClient', Len(FromClient'))
         /\ \A x \in Nat : Older(FromClient, Len(FromClient), x)
                             => Older(FromClient', Len(FromClient'), x)
         /\ \A i \in 1 .. Len(FromClient') :
              \E k \in 1 .. Len(FromClient) : FromClient'[i] = FromClient[k]
<1>1. FromClient \in Seq(ClientSays) BY Ways DEF IInv
<1>2. CASE FromClient' = FromClient BY <1>2
<1>3. CASE FromClient # <<>> /\ FromClient' = Tail(FromClient) BY <1>1, <1>3, TailTalk
<1> QED BY <1>2, <1>3 DEF Takings

LEMMA ServerFrame ==
  ASSUME IInv, Types', link' = link, cli' = cli, srv.pc # "idle",
         srv.pc \notin Rekeying, srv'.pc \notin Rekeying,
         srv'.index = srv.index, srv'.psk = srv.psk, Adds, Takings
  PROVE  Reset' /\ Rehandshake' /\ Counting'
<1>1. link' = "up" BY Engaged
<1>2. Reset' BY <1>1 DEF Reset
<1>3. /\ NoHandshake(toClient, Len(toClient)) /\ NoHandshake(FromClient, Len(FromClient))
      /\ Older(FromClient, Len(FromClient), srv.index + 1)
      /\ srv.index = cli.index + Cardinality(Admissions(toClient)) /\ srv.psk = cli.psk
      /\ cli.rekeyed => cli.pc = "none" /\ toClient # <<>> /\ Head(toClient).type = "activate"
  BY Steady
<1>4. srv.index + 1 \in Nat BY Numbers DEF IInv
<1>5. /\ NoHandshake(toClient', Len(toClient')) /\ NoHandshake(FromClient', Len(FromClient'))
      /\ Older(FromClient', Len(FromClient'), srv'.index + 1)
  BY <1>3, <1>4, AddsKept, TakingsKept
<1>6. cli'.rekeyed => cli'.pc = "none" /\ toClient' # <<>> /\ Head(toClient').type = "activate"
  BY <1>3, AddsKept
<1>7. Rehandshake' BY <1>5, <1>6 DEF Rehandshake
<1>8. Counting' BY <1>3, AddsKept DEF Counting
<1> QED BY <1>2, <1>7, <1>8

LEMMA ServerRecords ==
  ASSUME IInv, Types', cli' = cli, serverStore' = serverStore, clientStore' = clientStore,
         history' = history, Adds, Takings,
         srv'.attempt = srv.attempt, srv'.index = srv.index, srv'.psk = srv.psk,
         srv'.moved = srv.moved, srv.pc \in Exchanging, srv'.pc \in Exchanging,
         Finishing' => Finishing
  PROVE  Attempts' /\ Offers' /\ Kept' /\ Settling' /\ Keys'
<1>1. /\ Admissions(toClient') = Admissions(toClient)
      /\ \A i \in Admissions(toClient) : toClient'[i] = toClient[i]
  BY AddsKept
<1>2. /\ srv.pc \notin {"prep", "rekey", "idle", "return", "save", "acked", "rerec"}
      /\ srv'.pc \notin {"prep", "rekey", "idle", "return", "save", "acked", "rerec"}
  BY Places
<1>3. Attempts' BY <1>1, <1>2 DEF IInv, Attempts
<1>4. Offers'
  <2>1. \A i \in 1 .. Len(FromClient') :
          \E k \in 1 .. Len(FromClient) : FromClient'[i] = FromClient[k]
    BY TakingsKept
  <2> QED BY <2>1 DEF IInv, Offers
<1>5. Kept' BY DEF IInv, Kept
<1>6. Settling' BY <1>2 DEF IInv, Settling
<1>7. Keys' BY <1>2 DEF IInv, Keys
<1> QED BY <1>3, <1>4, <1>5, <1>6, <1>7

(* What the client has said, once the first message is taken. *)
LEMMA SaidTaken ==
  ASSUME Types, FromClient # <<>>, FromClient' = Tail(FromClient),
         srv'.index = srv.index, srv'.attempt = srv.attempt,
         NEW k \in Nat, NEW g \in BOOLEAN, NEW j \in Nat, Said(k, g, j)
  PROVE  /\ k > 0 => Said(k - 1, g, j)'
         /\ k = 0 /\ j > 0 => Said(0, g, j - 1)'
         /\ k = 0 /\ j = 0 => g /\ Head(FromClient).type = "abort"
         /\ g /\ k + j > 0 => FromClient'[Len(FromClient')] = FromClient[Len(FromClient)]
<1>1. /\ FromClient \in Seq(ClientSays) BY Ways
<1>2. /\ Len(FromClient) \in Nat /\ Len(FromClient) >= 1 /\ Len(FromClient') = Len(FromClient) - 1
      /\ Head(FromClient) = FromClient[1]
      /\ \A i \in 1 .. Len(FromClient) - 1 : FromClient'[i] = FromClient[i + 1]
  BY <1>1, TailTalk
<1>3. Len(FromClient) = k + j + (IF g THEN 1 ELSE 0) /\ Older(FromClient, k, srv.index)
      /\ (g => FromClient[Len(FromClient)].type = "abort")
  BY DEF Said
<1>4. g /\ k + j > 0 => FromClient'[Len(FromClient')] = FromClient[Len(FromClient)]
  <2>1. g /\ k + j > 0 => Len(FromClient') \in 1 .. Len(FromClient) - 1
                            /\ Len(FromClient') + 1 = Len(FromClient)
    BY <1>2, <1>3
  <2> QED BY <1>2, <2>1
<1>5. ASSUME k > 0 PROVE Older(FromClient', k - 1, srv'.index)
  <2>1. \A i \in 1 .. k - 1 : i + 1 \in 1 .. k /\ i \in 1 .. Len(FromClient) - 1
    BY <1>2, <1>3
  <2> QED BY <1>2, <1>3, <2>1 DEF Older
<1>6. Older(FromClient', 0, srv'.index) BY DEF Older
<1>7. k > 0 => Said(k - 1, g, j)' BY <1>2, <1>3, <1>4, <1>5 DEF Said
<1>8. k = 0 /\ j > 0 => Said(0, g, j - 1)' BY <1>2, <1>3, <1>4, <1>6 DEF Said
<1>9. k = 0 /\ j = 0 => g /\ Head(FromClient).type = "abort" BY <1>2, <1>3
<1> QED BY <1>4, <1>7, <1>8, <1>9

Words == {"pending", "init", "auth", "confirm", "retry", "finalize"}

LEMMA WordsTaken ==
  ASSUME Types, FromClient # <<>>, FromClient' = Tail(FromClient),
         srv'.index = srv.index, srv'.attempt = srv.attempt,
         NEW i \in Nat, i >= 1, i + 1 <= Len(FromClient)
  PROVE  \A s \in Words : Word(i + 1, s) => Word(i, s)'
<1>1. FromClient \in Seq(ClientSays) BY Ways
<1>2. i \in 1 .. Len(FromClient) - 1 BY <1>1
<1>3. FromClient'[i] = FromClient[i + 1] BY <1>1, <1>2, TailTalk
<1> QED BY <1>3 DEF Word

LEMMA SaidLess ==
  ASSUME Types, FromClient # <<>>, FromClient' = Tail(FromClient),
         srv'.index = srv.index, srv'.attempt = srv.attempt, NEW g \in BOOLEAN
  PROVE  /\ Said(0, g, 1) => Said(0, g, 0)'
         /\ Said(0, g, 2) => Said(0, g, 1)'
         /\ \A s \in Words : Said(0, g, 2) /\ Word(2, s) => Word(1, s)'
<1>0. 1 - 1 = 0 /\ 2 - 1 = 1 /\ 1 + 1 = 2 /\ 0 \in Nat /\ 1 \in Nat /\ 2 \in Nat /\ 1 > 0 /\ 2 > 0
  OBVIOUS
<1>1. ASSUME Said(0, g, 1) PROVE Said(0, g, 1 - 1)' BY <1>0, <1>1, SaidTaken
<1>2. ASSUME Said(0, g, 2) PROVE Said(0, g, 2 - 1)' BY <1>0, <1>2, SaidTaken
<1>3. ASSUME Said(0, g, 2), NEW s \in Words, Word(1 + 1, s) PROVE Word(1, s)'
  <2>1. Len(FromClient) = 2 + (IF g THEN 1 ELSE 0) BY <1>3 DEF Said
  <2>2. 1 >= 1 /\ 1 + 1 <= Len(FromClient) BY <2>1
  <2> QED BY <1>3, <2>2, WordsTaken
<1> QED BY <1>0, <1>1, <1>2, <1>3

(* A message of an earlier attempt is dropped. *)
LEMMA OpeningShifts ==
  ASSUME IInv, srv.pc = "init", srv' = Take(srv), srv.inbox # <<>>,
         toClient' = toClient, toServer' = toServer, cli' = cli, history' = history,
         NEW k \in Nat, k > 0, NEW g \in BOOLEAN, Together(k, g)
  PROVE  Together(k - 1, g)' /\ k - 1 \in 0 .. Len(FromClient')
<1>0. srv \in ServerEnd BY DEF IInv, Types
<1>1. /\ srv'.pc = srv.pc /\ srv'.index = srv.index /\ srv'.attempt = srv.attempt
      /\ srv'.method = srv.method /\ srv'.inbox = Tail(srv.inbox)
  BY <1>0 DEF Take, ServerEnd
<1>2. /\ FromClient # <<>> /\ FromClient' = Tail(FromClient) /\ FromServer' = FromServer
      /\ FromClient \in Seq(ClientSays) /\ Len(FromClient) \in Nat
  BY <1>1, ServerTook, Ways DEF IInv, FromServer
<1>3. /\ Len(FromClient) \in Nat /\ Len(FromClient') = Len(FromClient) - 1 BY <1>2, TailTalk
<1>4. (k - 1) + 1 = k /\ (k - 1) + 2 = k + 1 /\ k - 1 \in Nat OBVIOUS
<1>5. ASSUME NEW j \in Nat, Said(k, g, j)
      PROVE  /\ Said(k - 1, g, j)' /\ k <= Len(FromClient)
             /\ g => FromClient'[Len(FromClient')] = FromClient[Len(FromClient)]
             /\ j >= 1 => \A s \in Words : Word(k + 1, s) => Word(k, s)'
             /\ j >= 2 => \A s \in Words : Word(k + 2, s) => Word(k + 1, s)'
  <2>1. Len(FromClient) = k + j + (IF g THEN 1 ELSE 0) BY <1>5 DEF Said
  <2>2. /\ Said(k - 1, g, j)'
        /\ g => FromClient'[Len(FromClient')] = FromClient[Len(FromClient)]
    <3>1. Types /\ k + j > 0 BY DEF IInv
    <3> QED BY <1>1, <1>2, <1>5, <3>1, SaidTaken
  <2>3. j >= 1 => \A s \in Words : Word(k + 1, s) => Word(k, s)'
    <3>1. ASSUME j >= 1 PROVE k >= 1 /\ k + 1 <= Len(FromClient) BY <1>3, <2>1, <3>1
    <3> QED BY <1>1, <1>2, <3>1, WordsTaken DEF IInv
  <2>4. j >= 2 => \A s \in Words : Word(k + 2, s) => Word(k + 1, s)'
    <3>1. ASSUME j >= 2 PROVE k + 1 >= 1 /\ (k + 1) + 1 <= Len(FromClient) /\ k + 1 \in Nat
      BY <1>3, <2>1, <3>1
    <3>2. (k + 1) + 1 = k + 2 OBVIOUS
    <3> QED BY <1>1, <1>2, <3>1, <3>2, WordsTaken DEF IInv
  <2> QED BY <1>3, <2>1, <2>2, <2>3, <2>4
<1>6. Opening(k, g) BY Places DEF Together, Waiting, Proving, Concluding
<1>7. \A s \in {"pending", "init", "finalize"} : s \in Words BY DEF Words
<1>8. /\ \A P, h : Here(g, P, h) <=> Here(g, P, h)'
      /\ \A p, h : Acking(g, p, h) <=> Acking(g, p, h)'
      /\ First' = First /\ Coded' = Coded
  BY <1>1, <1>2 DEF Here, Acking, First, Coded
<1>9. Opening(k - 1, g)'
  <2>1. CASE Said(k, g, 0) /\ Here(g, {"start"}, 0)
          /\ (g => FromClient[Len(FromClient)].reason = "user_cancelled")
    <3>1. Said(k - 1, g, 0)' /\ (g => FromClient'[Len(FromClient')].reason = "user_cancelled")
      BY <1>5, <2>1
    <3> QED BY <1>1, <1>6, <1>8, <2>1, <3>1 DEF Opening
  <2>2. CASE Coded /\ Said(k, g, 1) /\ Word(k + 1, "pending") /\ Here(g, {"gate"}, 0)
    <3>1. Said(k - 1, g, 1)' /\ Word(k, "pending")' BY <1>5, <1>7, <2>2
    <3> QED BY <1>1, <1>4, <1>6, <1>8, <2>2, <3>1 DEF Opening
  <2>3. CASE Coded /\ Said(k, g, 2) /\ Word(k + 1, "pending") /\ Word(k + 2, "init") /\ Here(g, First, 0)
    <3>1. Said(k - 1, g, 2)' /\ Word(k, "pending")' /\ Word(k + 1, "init")'
      BY <1>5, <1>7, <2>3
    <3> QED BY <1>1, <1>4, <1>6, <1>8, <2>3, <3>1 DEF Opening
  <2>4. CASE Said(k, g, 1) /\ Word(k + 1, "init") /\ Here(g, First, 0)
    <3>1. Said(k - 1, g, 1)' /\ Word(k, "init")' BY <1>5, <1>7, <2>4
    <3> QED BY <1>1, <1>4, <1>6, <1>8, <2>4, <3>1 DEF Opening
  <2>5. CASE ~Coded /\ Said(k, g, 2) /\ Word(k + 1, "init") /\ Word(k + 2, "finalize") /\ Acking(g, "ack", 0)
    <3>1. Said(k - 1, g, 2)' /\ Word(k, "init")' /\ Word(k + 1, "finalize")'
      BY <1>5, <1>7, <2>5
    <3> QED BY <1>1, <1>4, <1>6, <1>8, <2>5, <3>1 DEF Opening
  <2> QED BY <1>6, <2>1, <2>2, <2>3, <2>4, <2>5 DEF Opening
<1>10. Together(k - 1, g)' BY <1>1, <1>2, <1>9 DEF Together
<1>11. k - 1 \in 0 .. Len(FromClient')
  <2>1. k <= Len(FromClient) BY <1>3, <1>6 DEF Opening, Said
  <2> QED BY <1>3, <1>4, <2>1
<1> QED BY <1>10, <1>11

LEMMA UnreadShifts ==
  ASSUME IInv, srv.pc = "init", srv' = Take(srv), srv.inbox # <<>>,
         toClient' = toClient, toServer' = toServer, Unread
  PROVE  Unread'
<1>0. srv \in ServerEnd BY DEF IInv, Types
<1>1. /\ srv'.pc = srv.pc /\ srv'.index = srv.index /\ srv'.attempt = srv.attempt
      /\ srv'.method = srv.method /\ srv'.inbox = Tail(srv.inbox)
  BY <1>0 DEF Take, ServerEnd
<1>2. /\ FromClient # <<>> /\ FromClient' = Tail(FromClient) /\ FromClient \in Seq(ClientSays)
  BY <1>1, ServerTook, Ways DEF IInv
<1>3. srv.index \in Nat BY Numbers DEF IInv
<1>4. Older(FromClient', Len(FromClient'), srv.index) BY <1>2, <1>3, TailTalk DEF Unread
<1> QED BY <1>1, <1>4 DEF Unread

(* A step of the server within an attempt: what is left to show is the dialogue. *)
LEMMA WithinKeeps ==
  ASSUME IInv, Types', link' = link, cli' = cli, serverStore' = serverStore,
         clientStore' = clientStore, history' = history,
         srv.pc \in Exchanging, srv'.pc \in Exchanging, srv'.attempt = srv.attempt,
         srv'.index = srv.index, srv'.psk = srv.psk, srv'.moved = srv.moved,
         Adds, Takings, Finishing' => Finishing, Dialogue', Hearing'
  PROVE  IInv'
<1>1. srv.pc # "idle" /\ srv.pc \notin Rekeying /\ srv'.pc \notin Rekeying BY Places
<1>2. Reset' /\ Rehandshake' /\ Counting' BY <1>1, ServerFrame
<1>3. Attempts' /\ Offers' /\ Kept' /\ Settling' /\ Keys' BY ServerRecords
<1> QED BY <1>2, <1>3 DEF IInv

LEMMA HearingSame ==
  ASSUME IInv, cli' = cli, toClient' = toClient, srv'.pc # "idle"
  PROVE  FromServer' = FromServer /\ Hearing' /\ (Finishing' => Finishing)
<1>1. FromServer' = FromServer BY DEF FromServer
<1> QED BY <1>1 DEF IInv, Hearing, Heard, Finishing

LEMMA Adding ==
  ASSUME IInv, cli' = cli, NEW m \in ServerSays, m.type \in Script,
         toClient' = Append(toClient, m), Scripts(FromServer, Len(FromServer))
  PROVE  /\ Len(FromServer) \in Nat /\ Len(FromServer') = Len(FromServer) + 1
         /\ FromServer'[Len(FromServer) + 1] = m
         /\ \A i \in 1 .. Len(FromServer) : FromServer'[i] = FromServer[i]
         /\ Scripts(FromServer', Len(FromServer'))
         /\ m.type # "finalize" => (Finishing' => Finishing)
<1>1. FromServer \in Seq(ServerSays) BY Ways DEF IInv
<1>2. FromServer' = Append(FromServer, m) BY ServerSent DEF IInv
<1>3. /\ Len(FromServer) \in Nat /\ Len(FromServer') = Len(FromServer) + 1
      /\ FromServer'[Len(FromServer) + 1] = m
      /\ \A i \in 1 .. Len(FromServer) : FromServer'[i] = FromServer[i]
  BY <1>1, <1>2, AppendSays
<1>4. Scripts(FromServer', Len(FromServer')) BY <1>1, <1>2, <1>3, ScriptsAppend
<1>5. ASSUME m.type # "finalize", Finishing' PROVE Finishing
  <2>1. CASE cli.pc = "store" BY <2>1 DEF Finishing
  <2>2. CASE cli.pc # "store"
    <3>1. cli.pc = "ack" /\ FromServer'[1].type = "finalize" BY <1>5, <2>2 DEF Finishing
    <3>2. CASE FromServer = <<>>
      <4>1. Len(FromServer) = 0 BY <3>2
      <4> QED BY <1>3, <1>5, <3>1, <4>1
    <3>3. CASE FromServer # <<>>
      <4>1. 1 \in 1 .. Len(FromServer) BY <1>1, <3>3
      <4> QED BY <1>3, <3>1, <3>3, <4>1 DEF Finishing
    <3> QED BY <3>2, <3>3
  <2> QED BY <2>1, <2>2
<1> QED BY <1>3, <1>4, <1>5

(* The server takes the first message of its queue. *)
LEMMA Took ==
  ASSUME IInv, srv.inbox # <<>>, toServer' = toServer, NEW pc,
         \/ srv' = Take(srv) /\ pc = srv.pc
         \/ srv' = [Take(srv) EXCEPT !.pc = pc]
         \/ srv' = [[Take(srv) EXCEPT !.pc = pc] EXCEPT !.round = @ + 1]
  PROVE  /\ srv'.pc = pc /\ srv'.attempt = srv.attempt /\ srv'.index = srv.index
         /\ srv'.method = srv.method /\ srv'.psk = srv.psk /\ srv'.moved = srv.moved
         /\ srv'.inbox = Tail(srv.inbox)
         /\ FromClient # <<>> /\ FromClient' = Tail(FromClient) /\ Takings
         /\ FromClient[1] = Head(srv.inbox) /\ Head(FromClient) = Head(srv.inbox)
         /\ Head(srv.inbox) \in ClientSays
         /\ Len(FromClient) \in Nat /\ Len(FromClient) >= 1
         /\ Len(FromClient') = Len(FromClient) - 1
<1>0. srv \in ServerEnd BY DEF IInv, Types
<1>1. /\ srv'.pc = pc /\ srv'.attempt = srv.attempt /\ srv'.index = srv.index
      /\ srv'.method = srv.method /\ srv'.psk = srv.psk /\ srv'.moved = srv.moved
      /\ srv'.inbox = Tail(srv.inbox)
  BY <1>0 DEF Take, ServerEnd
<1>2. /\ FromClient # <<>> /\ FromClient' = Tail(FromClient)
      /\ Head(FromClient) = Head(srv.inbox) /\ FromClient \in Seq(ClientSays)
  BY <1>1, ServerTook, Ways DEF IInv
<1>3. /\ Len(FromClient) \in Nat /\ Len(FromClient) >= 1
      /\ Len(FromClient') = Len(FromClient) - 1 /\ Head(FromClient) = FromClient[1]
  BY <1>2, TailTalk
<1>4. Head(srv.inbox) \in ClientSays BY <1>0, TakeTypes
<1>5. Takings BY <1>2 DEF Takings
<1> QED BY <1>1, <1>2, <1>3, <1>4, <1>5

(* The first message in the dialogue: one of an earlier attempt, or a word of this. *)
LEMMA FirstWord ==
  ASSUME IInv, srv.pc = "init", srv.inbox # <<>>, NEW m, m = Head(srv.inbox)
  PROVE  /\ m.type # "handshake"
         /\ \/ /\ Numbered(m) => m.index < srv.index
               /\ Unread \/ \E k \in 0 .. Len(FromClient), g \in BOOLEAN : k > 0 /\ Together(k, g)
            \/ /\ \E g \in BOOLEAN : Together(0, g)
               /\ Numbered(m) => m.index = srv.index
<1>0. srv \in ServerEnd /\ srv.index \in Nat BY Numbers DEF IInv, Types
<1>1. /\ FromClient # <<>> /\ Head(FromClient) = m /\ FromClient \in Seq(ClientSays)
  BY ServerTook, Ways DEF IInv
<1>2. Len(FromClient) \in Nat /\ 1 \in 1 .. Len(FromClient) /\ FromClient[1] = m BY <1>1
<1>3. srv.pc \notin Rekeying BY Places
<1>4. m.type # "handshake" BY <1>2, <1>3, Steady DEF NoHandshake
<1>5. CASE Unread
  <2>1. Numbered(m) => m.index < srv.index BY <1>2, <1>5 DEF Unread, Older
  <2> QED BY <1>4, <1>5, <2>1
<1>6. ASSUME NEW k \in 0 .. Len(FromClient), NEW g \in BOOLEAN, Together(k, g), k > 0
      PROVE  Numbered(m) => m.index < srv.index
  <2>1. Opening(k, g) BY <1>6, Places DEF Together, Waiting, Proving, Concluding
  <2>2. Older(FromClient, k, srv.index) /\ 1 \in 1 .. k
    BY <1>2, <1>6, <2>1 DEF Opening, Said
  <2> QED BY <1>2, <2>2 DEF Older
<1>7. ASSUME NEW g \in BOOLEAN, Together(0, g) PROVE Numbered(m) => m.index = srv.index
  <2>1. Opening(0, g) BY <1>7, Places DEF Together, Waiting, Proving, Concluding
  <2>2. Said(0, g, 0) => ~Numbered(m)
    <3>1. ASSUME Said(0, g, 0) PROVE m.type = "abort"
      <4>1. g /\ Len(FromClient) = 1 BY <1>2, <3>1 DEF Said
      <4> QED BY <1>2, <3>1, <4>1 DEF Said
    <3> QED BY <3>1 DEF Numbered
  <2>3. Word(1, "pending") \/ Word(1, "init") => Numbered(m) /\ m.index = srv.index
    BY <1>2 DEF Word, Numbered
  <2>4. 0 + 1 = 1 OBVIOUS
  <2> QED BY <2>1, <2>2, <2>3, <2>4 DEF Opening
<1>8. Unread \/ \E k \in 0 .. Len(FromClient), g \in BOOLEAN : Together(k, g)
  BY Places DEF IInv, Dialogue
<1> QED BY <1>2, <1>4, <1>5, <1>6, <1>7, <1>8

(* What is dropped leaves the dialogue where it is. *)
LEMMA Discards ==
  ASSUME IInv, Types', srv.pc = "init", srv.inbox # <<>>, srv' = Take(srv),
         UNCHANGED <<link, toClient, toServer, cli, serverStore, clientStore, history>>,
         Unread \/ \E k \in 0 .. Len(FromClient), g \in BOOLEAN : k > 0 /\ Together(k, g)
  PROVE  IInv'
<1>1. /\ srv'.pc = "init" /\ srv'.attempt = srv.attempt /\ srv'.index = srv.index
      /\ srv'.psk = srv.psk /\ srv'.moved = srv.moved /\ Takings
  BY Took
<1>2. Unread' \/ \E k \in 0 .. Len(FromClient'), g \in BOOLEAN : Together(k, g)'
  <2>1. CASE Unread BY <2>1, UnreadShifts
  <2>2. ASSUME NEW k \in 0 .. Len(FromClient), NEW g \in BOOLEAN, k > 0, Together(k, g)
        PROVE  \E i \in 0 .. Len(FromClient'), f \in BOOLEAN : Together(i, f)'
    <3>1. Together(k - 1, g)' /\ k - 1 \in 0 .. Len(FromClient') BY <2>2, OpeningShifts
    <3> QED BY <3>1
  <2> QED BY <2>1, <2>2
<1>3. Dialogue' BY <1>2 DEF Dialogue
<1>4. Hearing' /\ (Finishing' => Finishing) BY <1>1, HearingSame
<1>5. Adds BY DEF Adds
<1>6. srv.pc \in Exchanging /\ srv'.pc \in Exchanging BY <1>1, Places
<1> QED BY <1>1, <1>3, <1>4, <1>5, <1>6, WithinKeeps

(* An abort ends the attempt unless it is left over from the one before. *)
LEMMA AbortedKeeps ==
  ASSUME IInv, Types', srv.pc \in Exchanging, srv.inbox # <<>>,
         NEW m, m = Head(srv.inbox), m.type = "abort", ServerAborted(m)
  PROVE  IInv'
<1>1. CASE srv.pc = "init" /\ srv.index > 1 /\ m.reason \in LeftoverReasons
  <2>1. /\ srv' = Take(srv)
        /\ UNCHANGED <<link, toClient, toServer, cli, serverStore, clientStore, history>>
    BY <1>1 DEF ServerAborted
  <2>2. /\ FromClient # <<>> /\ FromClient[1] = m /\ Len(FromClient) \in Nat
        /\ Len(FromClient) >= 1
    BY <2>1, Took
  <2>3. ASSUME NEW g \in BOOLEAN, Together(0, g) PROVE FALSE
    <3>1. Opening(0, g) BY <1>1, <2>3, Places DEF Together, Waiting, Proving, Concluding
    <3>2. 0 + 1 = 1 OBVIOUS
    <3>3. ~Word(1, "pending") /\ ~Word(1, "init") BY <2>2 DEF Word
    <3>4. Said(0, g, 0) /\ (g => FromClient[Len(FromClient)].reason = "user_cancelled")
      BY <3>1, <3>2, <3>3 DEF Opening
    <3>5. g /\ Len(FromClient) = 1 BY <2>2, <3>4 DEF Said
    <3> QED BY <1>1, <2>2, <3>4, <3>5 DEF LeftoverReasons
  <2>4. Unread \/ \E k \in 0 .. Len(FromClient), g \in BOOLEAN : k > 0 /\ Together(k, g)
    BY <1>1, <2>3, FirstWord
  <2> QED BY <1>1, <2>1, <2>4, Discards
<1>2. CASE ~(srv.pc = "init" /\ srv.index > 1 /\ m.reason \in LeftoverReasons)
  <2>1. LeaveTo(srv, <<>>) BY <1>2 DEF ServerAborted
  <2> QED BY <2>1, GivesUp
<1> QED BY <1>1, <1>2

LEMMA HearingAdds ==
  ASSUME IInv, cli' = cli, srv'.pc # "idle", Len(FromServer') \in Nat,
         Scripts(FromServer', Len(FromServer')),
         cli.pc # "none" => Heard(Len(FromServer))'
  PROVE  Hearing'
<1>1. Len(FromServer') \in 0 .. Len(FromServer') OBVIOUS
<1> QED BY <1>1 DEF IInv, Hearing

LEMMA PlainTypes ==
  \A t \in {"init", "confirm", "finalize", "auth", "retry"} : Plain(t).type = t
BY DEF Plain

(* The exchange starts: the server goes where the method takes it. *)
LEMMA StartedKeeps ==
  ASSUME IInv, Types', srv.pc \in {"init", "gesture"}, srv.inbox # <<>>, Started,
         UNCHANGED <<link, toServer, cli, serverStore, clientStore, history>>,
         NEW g \in BOOLEAN, Together(0, g),
         \/ Said(0, g, 1) /\ Here(g, First, 0)
         \/ ~Coded /\ Said(0, g, 2) /\ Word(2, "finalize") /\ Acking(g, "ack", 0)
  PROVE  IInv'
<1> DEFINE pc == IF srv.method = "psk" THEN "final" ELSE "code"
<1>1. srv' = [Take(srv) EXCEPT !.pc = pc] BY DEF Started
<1>2. /\ srv'.pc = pc /\ srv'.attempt = srv.attempt /\ srv'.index = srv.index
      /\ srv'.method = srv.method /\ srv'.psk = srv.psk /\ srv'.moved = srv.moved
      /\ FromClient # <<>> /\ FromClient' = Tail(FromClient) /\ Takings
      /\ Len(FromClient) \in Nat /\ Len(FromClient) >= 1 /\ Len(FromClient') = Len(FromClient) - 1
  BY <1>1, Took
<1>3. srv.pc \in Exchanging /\ srv'.pc \in Exchanging /\ srv'.pc # "idle" BY <1>2, Places
<1>4. srv.method \in Method BY Numbers DEF IInv
<1>5. /\ cli.index = srv.index /\ cli.attempt = srv.attempt /\ cli.method = srv.method
      /\ ~cli.rekeyed /\ Scripts(FromServer, Len(FromServer))
  BY DEF Together
<1>6. /\ Said(0, g, 1) => Said(0, g, 0)'
      /\ Said(0, g, 2) => Said(0, g, 1)'
      /\ Said(0, g, 2) /\ Word(2, "finalize") => Word(1, "finalize")'
  BY <1>2, SaidLess DEF IInv, Words
<1>7. First' = First /\ Coded' = Coded BY <1>2 DEF First, Coded
<1>8. 0 \in 0 .. Len(FromClient') BY <1>2
<1> HIDE DEF pc
<1>9. CASE srv.method = "dynamic"
  <2>1. Plain("init") \in ServerSays /\ Plain("init").type = "init"
        /\ Plain("init").type \in Script /\ Plain("init").type # "finalize"
    BY ServerTalk, PlainTypes DEF Script
  <2>2. toClient' = Append(toClient, Plain("init")) BY <1>9 DEF Started
  <2>3. /\ Len(FromServer) \in Nat /\ Len(FromServer') = Len(FromServer) + 1
        /\ FromServer'[Len(FromServer) + 1] = Plain("init")
        /\ Scripts(FromServer', Len(FromServer')) /\ (Finishing' => Finishing)
    BY <1>5, <2>1, <2>2, Adding
  <2>4. srv'.pc = "code" /\ Coded /\ First = {"sinit"}
    BY <1>2, <1>9 DEF pc, Coded, First, FirstWait
  <2>5. Said(0, g, 0)' /\ Here(g, {"sinit"}, 0) BY <1>6, <2>4
  <2>6. Here(g, {"sinit"}, 1)' BY <2>3, <2>5 DEF Here
  <2>7. Together(0, g)' BY <1>2, <1>5, <2>3, <2>4, <2>5, <2>6 DEF Together, Waiting
  <2>8. Dialogue' BY <1>8, <2>7 DEF Dialogue
  <2>9. cli.pc # "none" => Heard(Len(FromServer))'
    <3>1. cli.pc # "none" => cli.pc = "sinit" /\ Len(FromServer) = 0 BY <2>5 DEF Here
    <3> QED BY <2>1, <2>3, <3>1 DEF Heard
  <2>10. Hearing' BY <1>3, <2>3, <2>9, HearingAdds
  <2>11. Adds BY <2>1, <2>2 DEF Adds
  <2> QED BY <1>2, <1>3, <2>3, <2>8, <2>10, <2>11, WithinKeeps
<1>10. CASE srv.method # "dynamic"
  <2>1. toClient' = toClient BY <1>10 DEF Started
  <2>2. FromServer' = FromServer /\ Hearing' /\ (Finishing' => Finishing)
    BY <1>3, <2>1, HearingSame
  <2>3. Adds BY <2>1 DEF Adds
  <2>4. /\ \A P, h : Here(g, P, h) => Here(g, P, h)'
        /\ \A p, h : Acking(g, p, h) => Acking(g, p, h)'
    BY <2>2 DEF Here, Acking
  <2>5. Together(0, g)'
    <3>1. CASE srv.method = "static"
      <4>1. srv'.pc = "code" /\ Coded /\ First = {"auth"}
        BY <1>2, <3>1 DEF pc, Coded, First, FirstWait
      <4>2. Said(0, g, 0)' /\ Here(g, {"auth"}, 0) BY <1>6, <4>1
      <4>3. Here(g, {"emit", "show", "auth"}, 0)' BY <2>2, <4>2 DEF Here
      <4> QED BY <1>2, <1>5, <2>2, <4>1, <4>2, <4>3 DEF Together, Waiting
    <3>2. CASE srv.method = "psk"
      <4>1. srv'.pc = "final" /\ ~Coded /\ First = {"mint"}
        BY <1>2, <3>2 DEF pc, Coded, First, FirstWait
      <4>2. \/ Said(0, g, 0)' /\ Here(g, {"mint"}, 0)'
            \/ Said(0, g, 1)' /\ Word(1, "finalize")' /\ Acking(g, "ack", 0)'
        BY <1>6, <2>4, <4>1
      <4> QED BY <1>2, <1>5, <2>2, <4>1, <4>2 DEF Together, Concluding
    <3> QED BY <1>4, <1>10, <3>1, <3>2 DEF Method
  <2>6. Dialogue' BY <1>8, <2>5 DEF Dialogue
  <2> QED BY <1>2, <1>3, <2>2, <2>3, <2>6, WithinKeeps
<1> QED BY <1>9, <1>10

(* The first message of an attempt. *)
LEMMA FirstKeeps ==
  ASSUME IInv, Types', srv.pc = "init", srv.inbox # <<>>, NEW m, m = Head(srv.inbox),
         m.type # "abort", FirstMessage(m)
  PROVE  IInv'
<1>0. /\ m \in ClientSays /\ srv.index \in Nat
  <2>1. srv \in ServerEnd /\ srv.index \in Nat BY Numbers DEF IInv, Types
  <2> QED BY <2>1, TakeTypes
<1>1. m.type # "handshake" /\ (Numbered(m) => m.index \in Nat)
  BY <1>0, FirstWord, ClientKinds DEF Numbered
<1>2. CASE /\ Numbered(m) => m.index < srv.index
           /\ Unread \/ \E k \in 0 .. Len(FromClient), g \in BOOLEAN : k > 0 /\ Together(k, g)
  <2>1. ~(Numbered(m) /\ m.index = srv.index) /\ ~(Numbered(m) /\ m.index > srv.index)
    BY <1>0, <1>1, <1>2
  <2>2. /\ srv' = Take(srv)
        /\ UNCHANGED <<link, toClient, toServer, cli, serverStore, clientStore, history>>
    BY <1>1, <2>1 DEF FirstMessage, Numbered
  <2> QED BY <1>2, <2>2, Discards
<1>3. ASSUME NEW g \in BOOLEAN, Together(0, g), Numbered(m) => m.index = srv.index
      PROVE  IInv'
  <2>1. Opening(0, g) BY <1>3, Places DEF Together, Waiting, Proving, Concluding
  <2>2. 0 + 1 = 1 /\ 0 + 2 = 2 OBVIOUS
  <2>3. /\ FromClient # <<>> /\ Head(FromClient) = m /\ FromClient \in Seq(ClientSays)
    BY ServerTook, Ways DEF IInv
  <2>4. FromClient[1] = m /\ Len(FromClient) \in Nat /\ Len(FromClient) >= 1 BY <2>3
  <2>5. ~Said(0, g, 0)
    <3>1. ASSUME Said(0, g, 0) PROVE m.type = "abort"
      <4>1. g /\ Len(FromClient) = 1 BY <2>4, <3>1 DEF Said
      <4> QED BY <2>4, <3>1, <4>1 DEF Said
    <3> QED BY <3>1
  <2>6. CASE /\ Coded /\ Word(1, "pending")
             /\ \/ Said(0, g, 1) /\ Here(g, {"gate"}, 0)
                \/ Said(0, g, 2) /\ Word(2, "init") /\ Here(g, First, 0)
    <3>1. m.type = "pending" /\ Numbered(m) BY <2>4, <2>6 DEF Word, Numbered
    <3>2. srv.method # "psk" BY <2>6 DEF Coded
    <3>3. /\ srv' = [Take(srv) EXCEPT !.pc = "gesture"]
          /\ UNCHANGED <<link, toClient, toServer, cli, serverStore, clientStore, history>>
      BY <1>0, <1>1, <1>3, <3>1, <3>2 DEF FirstMessage
    <3>4. /\ srv'.pc = "gesture" /\ srv'.attempt = srv.attempt /\ srv'.index = srv.index
          /\ srv'.method = srv.method /\ srv'.psk = srv.psk /\ srv'.moved = srv.moved
          /\ FromClient' = Tail(FromClient) /\ Takings /\ Len(FromClient') = Len(FromClient) - 1
      BY <3>3, Took
    <3>5. srv.pc \in Exchanging /\ srv'.pc \in Exchanging /\ srv'.pc # "idle" BY <3>4, Places
    <3>6. FromServer' = FromServer /\ Hearing' /\ (Finishing' => Finishing)
      BY <3>3, <3>5, HearingSame
    <3>7. /\ Said(0, g, 1) => Said(0, g, 0)'
          /\ Said(0, g, 2) => Said(0, g, 1)'
          /\ Said(0, g, 2) /\ Word(2, "init") => Word(1, "init")'
      BY <2>3, <3>4, SaidLess DEF IInv, Words
    <3>8. /\ \A P, h : Here(g, P, h) => Here(g, P, h)'
          /\ First' = First /\ Coded' = Coded
      BY <3>3, <3>4, <3>6 DEF Here, First, Coded
    <3>9. Waiting(g)' BY <2>6, <3>4, <3>7, <3>8 DEF Waiting
    <3>10. Together(0, g)' BY <1>3, <3>3, <3>4, <3>6, <3>9 DEF Together
    <3>11. 0 \in 0 .. Len(FromClient') BY <2>4, <3>4
    <3>12. Dialogue' BY <3>10, <3>11 DEF Dialogue
    <3>13. Adds BY <3>3 DEF Adds
    <3> QED BY <3>3, <3>4, <3>5, <3>6, <3>12, <3>13, WithinKeeps
  <2>7. CASE /\ Word(1, "init")
             /\ \/ Said(0, g, 1) /\ Here(g, First, 0)
                \/ ~Coded /\ Said(0, g, 2) /\ Word(2, "finalize") /\ Acking(g, "ack", 0)
    <3>1. m.type = "init" /\ Numbered(m) BY <2>4, <2>7 DEF Word, Numbered
    <3>2. /\ Started
          /\ UNCHANGED <<link, toServer, cli, serverStore, clientStore, history>>
      BY <1>0, <1>1, <1>3, <3>1 DEF FirstMessage
    <3> QED BY <1>3, <2>7, <3>2, StartedKeeps
  <2> QED BY <2>1, <2>2, <2>5, <2>6, <2>7 DEF Opening
<1> QED BY <1>2, <1>3, FirstWord

(* Past the first message, both ends are in the attempt. *)
LEMMA Later ==
  ASSUME IInv, srv.pc \in {"gesture", "code", "auth", "reply", "final", "save", "acked"}
  PROVE  \E g \in BOOLEAN : Together(0, g) /\ (Waiting(g) \/ Proving(g) \/ Concluding(g))
<1>1. PICK k \in 0 .. Len(FromClient), g \in BOOLEAN : Together(k, g)
  BY Places DEF IInv, Dialogue, Unread
<1>2. ~Opening(k, g) BY DEF Opening
<1> QED BY <1>1, <1>2 DEF Together

(* Its task reads its queue. *)
LEMMA ServerListensTo ==
  ASSUME ServerListens, NEW m, m = Head(srv.inbox)
  PROVE  /\ srv.pc \in Exchanging /\ srv.inbox # <<>>
         /\ m.type = "abort" => ServerAborted(m)
         /\ m.type # "abort" /\ srv.pc = "init" => FirstMessage(m)
         /\ m.type = "finalize" /\ srv.pc = "final" => Finalized(m)
         /\ m.type \in Awaited \ {"finalize"} /\ (srv.pc = "gesture" => m.index = srv.index)
              => Exchanged(m)
<1>1. m.type \in Awaited \ {"finalize"} => m.type # "abort" /\ srv.pc # "init"
  BY DEF Awaited
<1> QED BY <1>1 DEF ServerListens

(* The server answers, or goes on without a word. *)
LEMMA RepliesKeep ==
  ASSUME IInv, Types', srv.pc \in {"auth", "reply"}, srv.inbox # <<>>,
         UNCHANGED <<link, toServer, cli, serverStore, clientStore, history>>,
         NEW g \in BOOLEAN, Together(0, g),
         \/ /\ Said(0, g, 1) /\ Here(g, {"confirm"}, 0)
            /\ srv' = [Take(srv) EXCEPT !.pc = "reply"]
            /\ toClient' = Append(toClient, Plain("confirm"))
         \/ /\ Said(0, g, 1) /\ Here(g, {"sinit"}, 0)
            /\ srv' = [[Take(srv) EXCEPT !.pc = "code"] EXCEPT !.round = @ + 1]
            /\ toClient' = Append(toClient, Plain("init"))
         \/ /\ \/ Said(0, g, 1) /\ Here(g, {"mint"}, 0)
               \/ Said(0, g, 2) /\ Word(2, "finalize") /\ Acking(g, "ack", 0)
            /\ srv' = [Take(srv) EXCEPT !.pc = "final"]
            /\ toClient' = toClient
  PROVE  IInv'
<1>1. /\ srv'.pc \in {"reply", "code", "final"}
      /\ srv'.attempt = srv.attempt /\ srv'.index = srv.index
      /\ srv'.method = srv.method /\ srv'.psk = srv.psk /\ srv'.moved = srv.moved
      /\ FromClient # <<>> /\ FromClient' = Tail(FromClient) /\ Takings
      /\ Len(FromClient) \in Nat /\ Len(FromClient) >= 1 /\ Len(FromClient') = Len(FromClient) - 1
      /\ srv' = [Take(srv) EXCEPT !.pc = "reply"] => srv'.pc = "reply"
      /\ srv' = [[Take(srv) EXCEPT !.pc = "code"] EXCEPT !.round = @ + 1] => srv'.pc = "code"
      /\ srv' = [Take(srv) EXCEPT !.pc = "final"] => srv'.pc = "final"
  <2>1. CASE srv' = [Take(srv) EXCEPT !.pc = "reply"] BY <2>1, Took
  <2>2. CASE srv' = [[Take(srv) EXCEPT !.pc = "code"] EXCEPT !.round = @ + 1] BY <2>2, Took
  <2>3. CASE srv' = [Take(srv) EXCEPT !.pc = "final"] BY <2>3, Took
  <2> QED BY <2>1, <2>2, <2>3
<1>2. srv.pc \in Exchanging /\ srv'.pc \in Exchanging /\ srv'.pc # "idle" BY <1>1, Places
<1>3. /\ cli.index = srv.index /\ cli.attempt = srv.attempt /\ cli.method = srv.method
      /\ ~cli.rekeyed /\ Scripts(FromServer, Len(FromServer))
  BY DEF Together
<1>4. /\ Said(0, g, 1) => Said(0, g, 0)'
      /\ Said(0, g, 2) => Said(0, g, 1)'
      /\ Said(0, g, 2) /\ Word(2, "finalize") => Word(1, "finalize")'
  BY <1>1, SaidLess DEF IInv, Words
<1>5. 0 \in 0 .. Len(FromClient') BY <1>1
<1>6. ASSUME NEW m \in ServerSays, m.type \in Script, m.type # "finalize",
             toClient' = Append(toClient, m), Together(0, g)',
             cli.pc # "none" => /\ \/ cli.pc = "confirm" /\ m.type = "confirm"
                                   \/ cli.pc = "sinit" /\ m.type = "init"
                                /\ Len(FromServer) = 0
      PROVE  IInv'
  <2>1. /\ Len(FromServer) \in Nat /\ Len(FromServer') = Len(FromServer) + 1
        /\ FromServer'[Len(FromServer) + 1] = m
        /\ Scripts(FromServer', Len(FromServer')) /\ (Finishing' => Finishing)
    BY <1>3, <1>6, Adding
  <2>2. Dialogue' BY <1>5, <1>6 DEF Dialogue
  <2>3. cli.pc # "none" => Heard(Len(FromServer))' BY <1>6, <2>1 DEF Heard
  <2>4. Hearing' BY <1>2, <2>1, <2>3, HearingAdds
  <2>5. Adds BY <1>6 DEF Adds
  <2> QED BY <1>1, <1>2, <2>1, <2>2, <2>4, <2>5, WithinKeeps
<1>7. CASE /\ Said(0, g, 1) /\ Here(g, {"confirm"}, 0)
           /\ srv' = [Take(srv) EXCEPT !.pc = "reply"]
           /\ toClient' = Append(toClient, Plain("confirm"))
  <2> DEFINE m == Plain("confirm")
  <2>1. m \in ServerSays /\ m.type = "confirm" /\ m.type \in Script
    BY ServerTalk, PlainTypes DEF Script
  <2> HIDE DEF m
  <2>2. toClient' = Append(toClient, m) BY <1>7 DEF m
  <2>3. /\ Len(FromServer) \in Nat /\ Len(FromServer') = Len(FromServer) + 1
        /\ Scripts(FromServer', Len(FromServer'))
    BY <1>3, <2>1, <2>2, Adding
  <2>4. Here(g, {"confirm"}, 1)' BY <1>7, <2>3 DEF Here
  <2>5. Proving(g)' BY <1>1, <1>4, <1>7, <2>4 DEF Proving
  <2>6. Together(0, g)' BY <1>1, <1>3, <2>3, <2>5 DEF Together
  <2>7. cli.pc # "none" => cli.pc = "confirm" /\ Len(FromServer) = 0 BY <1>7 DEF Here
  <2> QED BY <1>6, <2>1, <2>2, <2>6, <2>7
<1>8. CASE /\ Said(0, g, 1) /\ Here(g, {"sinit"}, 0)
           /\ srv' = [[Take(srv) EXCEPT !.pc = "code"] EXCEPT !.round = @ + 1]
           /\ toClient' = Append(toClient, Plain("init"))
  <2> DEFINE m == Plain("init")
  <2>1. m \in ServerSays /\ m.type = "init" /\ m.type \in Script
    BY ServerTalk, PlainTypes DEF Script
  <2> HIDE DEF m
  <2>2. toClient' = Append(toClient, m) BY <1>8 DEF m
  <2>3. /\ Len(FromServer) \in Nat /\ Len(FromServer') = Len(FromServer) + 1
        /\ Scripts(FromServer', Len(FromServer'))
    BY <1>3, <2>1, <2>2, Adding
  <2>4. Here(g, {"sinit"}, 1)' BY <1>8, <2>3 DEF Here
  <2>5. Waiting(g)' BY <1>1, <1>4, <1>8, <2>4 DEF Waiting
  <2>6. Together(0, g)' BY <1>1, <1>3, <2>3, <2>5 DEF Together
  <2>7. cli.pc # "none" => cli.pc = "sinit" /\ Len(FromServer) = 0 BY <1>8 DEF Here
  <2> QED BY <1>6, <2>1, <2>2, <2>6, <2>7
<1>9. CASE /\ \/ Said(0, g, 1) /\ Here(g, {"mint"}, 0)
              \/ Said(0, g, 2) /\ Word(2, "finalize") /\ Acking(g, "ack", 0)
           /\ srv' = [Take(srv) EXCEPT !.pc = "final"]
           /\ toClient' = toClient
  <2>1. FromServer' = FromServer /\ Hearing' /\ (Finishing' => Finishing)
    BY <1>2, <1>9, HearingSame
  <2>2. Adds BY <1>9 DEF Adds
  <2>3. /\ Here(g, {"mint"}, 0) => Here(g, {"mint"}, 0)'
        /\ Acking(g, "ack", 0) => Acking(g, "ack", 0)'
    BY <2>1 DEF Here, Acking
  <2>4. Concluding(g)' BY <1>1, <1>4, <1>9, <2>3 DEF Concluding
  <2>5. Together(0, g)' BY <1>1, <1>3, <2>1, <2>4 DEF Together
  <2>6. Dialogue' BY <1>5, <2>5 DEF Dialogue
  <2> QED BY <1>1, <1>2, <2>1, <2>2, <2>6, WithinKeeps
<1> QED BY <1>7, <1>8, <1>9

(* The server accepts the credential of the attempt it runs. *)
LEMMA FinalizedKeeps ==
  ASSUME IInv, Types', srv.pc = "final", srv.inbox # <<>>, NEW m, m = Head(srv.inbox),
         Finalized(m), NEW g \in BOOLEAN, Together(0, g),
         Said(0, g, 1), Word(1, "finalize"), Acking(g, "ack", 0)
  PROVE  IInv'
<1>0. serverStore \in ServerRecord /\ history \in Past /\ srv.attempt \in Nat
  BY Numbers DEF IInv, Types
<1>1. /\ srv' = [Take(srv) EXCEPT !.pc = "save"]
      /\ serverStore' = [serverStore EXCEPT !.mem = m.psk, !.saving = TRUE]
      /\ history' = [history EXCEPT !.accepted = history.accepted \union {m.psk}]
      /\ link' = link /\ toClient' = toClient /\ toServer' = toServer /\ cli' = cli
      /\ clientStore' = clientStore
  BY <1>0 DEF Finalized, Past
<1>2. /\ srv'.pc = "save"
      /\ srv'.attempt = srv.attempt /\ srv'.index = srv.index
      /\ srv'.method = srv.method /\ srv'.psk = srv.psk /\ srv'.moved = srv.moved
      /\ FromClient # <<>> /\ FromClient' = Tail(FromClient) /\ Takings /\ FromClient[1] = m
      /\ Len(FromClient) \in Nat /\ Len(FromClient) >= 1 /\ Len(FromClient') = Len(FromClient) - 1
  BY <1>1, Took
<1>3. m.psk = srv.attempt BY <1>2 DEF Word
<1>4. /\ serverStore'.mem = srv.attempt /\ serverStore'.saving = TRUE
      /\ serverStore'.disk = serverStore.disk
      /\ history'.accepted = history.accepted \union {srv.attempt}
      /\ history'.stored = history.stored /\ history'.offered = history.offered
      /\ history'.late = history.late /\ history'.refused = history.refused
      /\ history'.confused = history.confused
  BY <1>0, <1>1, <1>3 DEF ServerRecord, Past
<1>5. srv.pc \notin Rekeying /\ srv'.pc \notin Rekeying /\ srv.pc # "idle" BY <1>2, Places
<1>6. Adds BY <1>1 DEF Adds
<1>7. Reset' /\ Rehandshake' /\ Counting' BY <1>1, <1>2, <1>5, <1>6, ServerFrame
<1>8. FromServer' = FromServer /\ Hearing' /\ (Finishing' => Finishing)
  BY <1>1, <1>2, HearingSame
<1>9. Dialogue'
  <2>1. Said(0, g, 0)' BY <1>2, SaidLess DEF IInv
  <2>2. Acking(g, "ack", 0)' BY <1>1, <1>4, <1>8 DEF Acking
  <2>3. Concluding(g)' BY <1>2, <2>1, <2>2 DEF Concluding
  <2>4. Together(0, g)' BY <1>1, <1>2, <1>8, <2>3 DEF Together
  <2>5. 0 \in 0 .. Len(FromClient') BY <1>2
  <2> QED BY <2>4, <2>5 DEF Dialogue
<1>10. ~Finishing' BY <1>8 DEF IInv, Settling
<1>11. Attempts' BY <1>0, <1>1, <1>2, <1>4 DEF IInv, Attempts
<1>12. Offers'
  <2>1. \A i \in 1 .. Len(FromClient') :
          \E k \in 1 .. Len(FromClient) : FromClient'[i] = FromClient[k]
    BY <1>2, TakingsKept
  <2> QED BY <1>4, <2>1 DEF IInv, Offers
<1>13. Kept'
  <2>1. srv.attempt >= 1 BY DEF IInv, Attempts
  <2> QED BY <1>0, <1>1, <1>4, <2>1 DEF IInv, Kept
<1>14. Settling' BY <1>1, <1>2, <1>4, <1>10 DEF IInv, Settling
<1>15. Keys'
  <2>1. ~history.late => cli.pc = "ack" BY DEF Acking
  <2>2. srv.psk \notin Credentials BY Places DEF IInv, Keys
  <2> QED BY <1>1, <1>2, <1>4, <2>1, <2>2, Places DEF IInv, Keys
<1> QED BY <1>4, <1>7, <1>8, <1>9, <1>11, <1>12, <1>13, <1>14, <1>15 DEF IInv

LEMMA ListensKeeps ==
  ASSUME IInv, Types', ServerListens
  PROVE  IInv'
<1> DEFINE m == Head(srv.inbox)
<1>1. /\ srv.pc \in Exchanging /\ srv.inbox # <<>>
      /\ m.type = "abort" => ServerAborted(m)
      /\ m.type # "abort" /\ srv.pc = "init" => FirstMessage(m)
      /\ m.type = "finalize" /\ srv.pc = "final" => Finalized(m)
      /\ m.type \in Awaited \ {"finalize"} /\ (srv.pc = "gesture" => m.index = srv.index)
           => Exchanged(m)
  BY ServerListensTo
<1>2. /\ FromClient # <<>> /\ FromClient[1] = m /\ Len(FromClient) \in Nat
      /\ Len(FromClient) >= 1
  <2>1. FromClient # <<>> /\ Head(FromClient) = m /\ FromClient \in Seq(ClientSays)
    BY <1>1, ServerTook, Ways DEF IInv
  <2> QED BY <2>1
<1> HIDE DEF m
<1>3. CASE m.type = "abort" BY <1>1, <1>3, AbortedKeeps DEF m
<1>4. CASE m.type # "abort" /\ srv.pc = "init" BY <1>1, <1>4, FirstKeeps DEF m
<1>5. CASE m.type # "abort" /\ srv.pc # "init"
  <2>1. srv.pc \in {"gesture", "code", "auth", "reply", "final"} BY <1>1, <1>5, Places
  <2>2. PICK g \in BOOLEAN : Together(0, g) /\ (Waiting(g) \/ Proving(g) \/ Concluding(g))
    BY <2>1, Later
  <2>3. ~Said(0, g, 0)
    <3>1. ASSUME Said(0, g, 0) PROVE m.type = "abort"
      <4>1. g /\ Len(FromClient) = 1 BY <1>2, <3>1 DEF Said
      <4> QED BY <1>2, <3>1, <4>1 DEF Said
    <3> QED BY <1>5, <3>1
  <2>4. \A s \in Words : Word(1, s) => m.type = s /\ (s = "init" => m.index = srv.index)
    BY <1>2 DEF Word
  <2>5. CASE srv.pc = "gesture"
    <3>1. Said(0, g, 1) /\ Word(1, "init") /\ Here(g, First, 0)
      BY <2>2, <2>3, <2>5 DEF Waiting, Proving, Concluding
    <3>2. m.type = "init" /\ m.index = srv.index BY <2>4, <3>1 DEF Words
    <3>3. Exchanged(m) BY <1>1, <2>5, <3>2 DEF Awaited
    <3>4. Started /\ UNCHANGED <<link, toServer, cli, serverStore, clientStore, history>>
      BY <3>2, <3>3 DEF Exchanged
    <3> QED BY <1>1, <2>2, <2>5, <3>1, <3>4, StartedKeeps
  <2>6. CASE srv.pc = "code"
    BY <2>2, <2>3, <2>6 DEF Waiting, Proving, Concluding
  <2>7. CASE srv.pc = "auth"
    <3>1. Said(0, g, 1) /\ Word(1, "auth") /\ Here(g, {"confirm"}, 0)
      BY <2>2, <2>3, <2>7 DEF Waiting, Proving, Concluding
    <3>2. m.type = "auth" BY <2>4, <3>1 DEF Words
    <3>3. Exchanged(m) BY <1>1, <2>7, <3>2 DEF Awaited
    <3>4. /\ srv' = [Take(srv) EXCEPT !.pc = "reply"]
          /\ toClient' = Append(toClient, Plain("confirm"))
          /\ UNCHANGED <<link, toServer, cli, serverStore, clientStore, history>>
      BY <3>2, <3>3 DEF Exchanged
    <3> QED BY <1>1, <2>2, <2>7, <3>1, <3>4, RepliesKeep
  <2>8. CASE srv.pc = "reply"
    <3>1. \/ Said(0, g, 1) /\ Word(1, "confirm") /\ Here(g, {"mint"}, 0)
          \/ /\ Said(0, g, 2) /\ Word(1, "confirm") /\ Word(2, "finalize")
             /\ Acking(g, "ack", 0)
          \/ srv.method = "dynamic" /\ Said(0, g, 1) /\ Word(1, "retry") /\ Here(g, {"sinit"}, 0)
      BY <2>2, <2>3, <2>8 DEF Waiting, Proving, Concluding
    <3>2. CASE Word(1, "confirm") /\ \/ Said(0, g, 1) /\ Here(g, {"mint"}, 0)
                                     \/ Said(0, g, 2) /\ Word(2, "finalize") /\ Acking(g, "ack", 0)
      <4>1. m.type = "confirm" BY <2>4, <3>2 DEF Words
      <4>2. Exchanged(m) BY <1>1, <2>8, <4>1 DEF Awaited
      <4>3. /\ srv' = [Take(srv) EXCEPT !.pc = "final"] /\ toClient' = toClient
            /\ UNCHANGED <<link, toServer, cli, serverStore, clientStore, history>>
        BY <4>1, <4>2 DEF Exchanged
      <4> QED BY <1>1, <2>2, <2>8, <3>2, <4>3, RepliesKeep
    <3>3. CASE srv.method = "dynamic" /\ Said(0, g, 1) /\ Word(1, "retry") /\ Here(g, {"sinit"}, 0)
      <4>1. m.type = "retry" BY <2>4, <3>3 DEF Words
      <4>2. Exchanged(m) BY <1>1, <2>8, <3>3, <4>1 DEF Awaited
      <4>3. /\ srv' = [[Take(srv) EXCEPT !.pc = "code"] EXCEPT !.round = @ + 1]
            /\ toClient' = Append(toClient, Plain("init"))
            /\ UNCHANGED <<link, toServer, cli, serverStore, clientStore, history>>
        BY <4>1, <4>2 DEF Exchanged
      <4> QED BY <1>1, <2>2, <2>8, <3>3, <4>3, RepliesKeep
    <3> QED BY <3>1, <3>2, <3>3
  <2>9. CASE srv.pc = "final"
    <3>1. Said(0, g, 1) /\ Word(1, "finalize") /\ Acking(g, "ack", 0)
      BY <2>2, <2>3, <2>9 DEF Waiting, Proving, Concluding
    <3>2. m.type = "finalize" BY <2>4, <3>1 DEF Words
    <3>3. Finalized(m) BY <1>1, <2>9, <3>2
    <3> QED BY <1>1, <2>2, <2>9, <3>1, <3>3, FinalizedKeeps DEF m
  <2> QED BY <2>1, <2>5, <2>6, <2>7, <2>8, <2>9
<1> QED BY <1>3, <1>4, <1>5

(* The operator enters a code. *)
LEMMA CodeKeeps ==
  ASSUME IInv, Types', CodeEntered
  PROVE  IInv'
<1>1. CASE LeaveTo(srv, <<>>) BY <1>1, GivesUp
<1>2. ASSUME NEW code \in {"right", "wrong"}, srv' = [srv EXCEPT !.pc = "auth"],
             toClient' = Append(toClient, Auth(code, <<srv.index, srv.round>>))
      PROVE  IInv'
  <2> DEFINE m == Auth(code, <<srv.index, srv.round>>)
  <2>1. m \in ServerSays /\ m.type = "auth" /\ m.type \in Script
    <3>1. m \in ServerSays BY ServerTalk, Numbers DEF IInv
    <3> QED BY <3>1 DEF Auth, Script
  <2> HIDE DEF m
  <2>2. toClient' = Append(toClient, m) BY <1>2 DEF m
  <2>3. /\ srv.pc = "code"
        /\ UNCHANGED <<link, toServer, cli, serverStore, clientStore, history>>
    BY DEF CodeEntered
  <2>4. /\ srv'.pc = "auth" /\ srv'.attempt = srv.attempt /\ srv'.index = srv.index
        /\ srv'.method = srv.method /\ srv'.psk = srv.psk /\ srv'.moved = srv.moved
        /\ srv'.inbox = srv.inbox
    BY <1>2 DEF IInv, Types, ServerEnd
  <2>5. FromClient' = FromClient /\ Takings BY <2>3, <2>4 DEF FromClient, Takings
  <2>6. PICK g \in BOOLEAN : Together(0, g) /\ (Waiting(g) \/ Proving(g) \/ Concluding(g))
    BY <2>3, Later
  <2>7. \/ Said(0, g, 0) /\ Here(g, {"sinit"}, 1)
        \/ Said(0, g, 0) /\ Here(g, {"emit", "show", "auth"}, 0)
    BY <2>3, <2>6 DEF Waiting, Proving, Concluding
  <2>8. /\ cli.index = srv.index /\ cli.attempt = srv.attempt /\ cli.method = srv.method
        /\ ~cli.rekeyed /\ Scripts(FromServer, Len(FromServer))
    BY <2>6 DEF Together
  <2>9. /\ Len(FromServer) \in Nat /\ Len(FromServer') = Len(FromServer) + 1
        /\ FromServer'[Len(FromServer) + 1] = m
        /\ \A i \in 1 .. Len(FromServer) : FromServer'[i] = FromServer[i]
        /\ Scripts(FromServer', Len(FromServer')) /\ (Finishing' => Finishing)
    BY <2>1, <2>2, <2>3, <2>8, Adding
  <2>10. Said(0, g, 0)' BY <2>4, <2>5, <2>7 DEF Said
  <2>11. \/ Here(g, {"sinit"}, 2)' \/ Here(g, {"emit", "show", "auth"}, 1)'
    <3>1. cli'.pc = cli.pc BY <2>3
    <3>2. CASE Here(g, {"sinit"}, 1)
      <4>0. ~g => Len(FromServer) = 1 BY <3>2 DEF Here
      <4>1. ~g => Len(FromServer') = 2
        <5>1. Len(FromServer') = Len(FromServer) + 1 BY <2>9
        <5>2. 1 + 1 = 2 OBVIOUS
        <5> QED BY <4>0, <5>1, <5>2, Zenon
      <4> QED BY <3>1, <3>2, <4>1 DEF Here
    <3>3. CASE Here(g, {"emit", "show", "auth"}, 0)
      <4>1. ~g => Len(FromServer') = 1 BY <2>9, <3>3 DEF Here
      <4> QED BY <3>1, <3>3, <4>1 DEF Here
    <3> QED BY <2>7, <3>2, <3>3
  <2>12. Together(0, g)' BY <2>3, <2>4, <2>8, <2>9, <2>10, <2>11 DEF Together, Proving
  <2>13. Dialogue'
    <3>1. 0 \in 0 .. Len(FromClient')
      <4>1. Len(FromClient) \in Nat BY Ways DEF IInv
      <4> QED BY <2>5, <4>1
    <3> QED BY <2>12, <3>1 DEF Dialogue
  <2>14. cli.pc # "none" => Heard(Len(FromServer))'
    <3>1. ASSUME cli.pc = "sinit", Len(FromServer) = 1 PROVE FromServer[1].type = "init"
      <4>1. PICK j \in 0 .. Len(FromServer) : Scripts(FromServer, j) /\ Heard(j)
        BY <3>1 DEF IInv, Hearing
      <4>2. j = 1
        <5>1. 1 \in 1 .. Len(FromServer) BY <3>1
        <5>2. 1 <= j BY <2>8, <4>1, <5>1 DEF Scripts
        <5> QED BY <3>1, <5>2
      <4> QED BY <3>1, <4>1, <4>2 DEF Heard
    <3>2. ASSUME cli.pc # "none"
          PROVE  \/ cli.pc = "sinit" /\ Len(FromServer) = 1
                 \/ cli.pc \in {"emit", "show", "auth"} /\ Len(FromServer) = 0
      BY <2>7, <3>2 DEF Here
    <3>3. CASE cli.pc = "sinit" /\ Len(FromServer) = 1
      <4>1. /\ cli'.pc = "sinit" /\ Len(FromServer') = 2 /\ FromServer'[1].type = "init"
            /\ FromServer'[2].type = "auth"
        BY <2>1, <2>3, <2>9, <3>1, <3>3
      <4> QED BY <4>1 DEF Heard
    <3>4. CASE cli.pc \in {"emit", "show", "auth"} /\ Len(FromServer) = 0
      <4>1. /\ cli'.pc \in {"emit", "show", "auth"} /\ Len(FromServer') = 1
            /\ FromServer'[1].type = "auth"
        BY <2>1, <2>3, <2>9, <3>4
      <4> QED BY <4>1 DEF Heard
    <3> QED BY <3>2, <3>3, <3>4
  <2>15. Hearing' BY <2>3, <2>4, <2>9, <2>14, HearingAdds
  <2>16. Adds BY <2>1, <2>2 DEF Adds
  <2>17. srv.pc \in Exchanging /\ srv'.pc \in Exchanging BY <2>3, <2>4, Places
  <2> QED BY <2>3, <2>4, <2>5, <2>9, <2>13, <2>15, <2>16, <2>17, WithinKeeps
<1> QED BY <1>1, <1>2 DEF CodeEntered

-----------------------------------------------------------------------------
(* The server's other steps. *)

(* Where the server has asked for a re-key, and its answer is at the head of its     *)
(* queue, nothing else is on its way.                                                *)
LEMMA KeyAnswered ==
  ASSUME IInv, srv.pc \in Rekeying, srv.inbox # <<>>, Head(srv.inbox).type = "handshake"
  PROVE  /\ Answered /\ Head(srv.inbox) = Handshake(cli.psk) /\ Head(srv.inbox).psk = cli.psk
         /\ toServer = <<>> /\ toClient = <<>> /\ cli.rekeyed /\ cli.pc = "none"
         /\ cli.index = 0 /\ Asked(cli.psk) /\ Holds(cli.psk)
<1>1. /\ FromClient # <<>> /\ Head(FromClient) = Head(srv.inbox) /\ FromClient \in Seq(ClientSays)
      /\ toServer \in Seq(ClientSays)
  BY ServerTook, Ways DEF IInv
<1>2. /\ Len(FromClient) \in Nat /\ 1 \in 1 .. Len(FromClient)
      /\ FromClient[1] = Head(srv.inbox)
  BY <1>1
<1>3. ~Unanswered BY <1>2 DEF Unanswered, NoHandshake
<1>4. Answered BY <1>3 DEF IInv, Rehandshake
<1>5. Len(FromClient) = 1
  <2>1. ASSUME Len(FromClient) # 1 PROVE FALSE
    <3>0. Len(FromClient) \in Nat /\ Len(FromClient) >= 1 BY <1>2
    <3>1. 1 \in 1 .. Len(FromClient) - 1
      <4>1. \A n \in Nat : n >= 1 /\ n # 1 => 1 \in 1 .. n - 1 OBVIOUS
      <4> QED BY <2>1, <3>0, <4>1, Zenon
    <3> QED BY <1>2, <1>4, <3>1 DEF Answered, NoHandshake
  <2> QED BY <2>1
<1>6. toServer = <<>>
  <2>1. Len(FromClient) = Len(srv.inbox) + Len(toServer) /\ Len(srv.inbox) \in Nat
        /\ Len(toServer) \in Nat
    BY ServerRest DEF IInv
  <2>2. Len(srv.inbox) >= 1
    <3>1. srv.inbox \in Seq(ClientSays) BY Ways DEF IInv
    <3> QED BY <3>1
  <2>3. Len(toServer) = 0 BY <1>5, <2>1, <2>2
  <2> QED BY <1>1, <2>3
<1>7. Head(srv.inbox) = Handshake(cli.psk) BY <1>2, <1>4, <1>5 DEF Answered
<1> QED BY <1>4, <1>6, <1>7 DEF Answered, Handshake

(* A step of the server that is not in an attempt and goes nowhere. *)
LEMMA StaysKeeps ==
  ASSUME IInv, Types', link' = link, toClient' = toClient, cli' = cli,
         serverStore' = serverStore, clientStore' = clientStore, history' = history,
         srv'.pc = srv.pc, srv'.attempt = srv.attempt, srv'.index = srv.index,
         srv'.method = srv.method, srv'.psk = srv.psk, srv'.moved = srv.moved,
         srv'.inbox = <<>> \/ srv.pc # "idle", srv.pc # "idle" \/ toServer # <<>>,
         \/ FromClient' = FromClient
         \/ /\ srv.pc \in Rekeying \cup {"idle", "prep"} /\ FromClient # <<>>
            /\ FromClient' = Tail(FromClient)
            /\ srv.pc \in Rekeying => Head(FromClient).type # "handshake"
  PROVE  IInv'
<1>1. link' = "up" BY Engaged
<1>2. Reset' BY <1>1 DEF Reset
<1>3. Takings BY DEF Takings
<1>4. FromClient \in Seq(ClientSays) /\ Len(FromClient) \in Nat BY Ways DEF IInv
<1>5. /\ NoHandshake(FromClient, Len(FromClient)) => NoHandshake(FromClient', Len(FromClient'))
      /\ \A x \in Nat : Older(FromClient, Len(FromClient), x)
                          => Older(FromClient', Len(FromClient'), x)
      /\ \A i \in 1 .. Len(FromClient') :
           \E k \in 1 .. Len(FromClient) : FromClient'[i] = FromClient[k]
  BY <1>3, TakingsKept
<1>6. Unanswered => Unanswered' BY <1>5 DEF Unanswered, Asked
<1>7. Answered <=> Answered'
  <2>1. CASE FromClient' = FromClient BY <2>1 DEF Answered, Asked, Holds
  <2>2. CASE /\ srv.pc \in Rekeying /\ FromClient # <<>>
             /\ FromClient' = Tail(FromClient) /\ Head(FromClient).type # "handshake"
    <3>1. /\ Len(FromClient) >= 1 /\ Len(FromClient') = Len(FromClient) - 1
          /\ FromClient[1].type # "handshake"
          /\ \A i \in 1 .. Len(FromClient) - 1 : FromClient'[i] = FromClient[i + 1]
          /\ FromClient' \in Seq(ClientSays)
      BY <1>4, <2>2, TailTalk
    <3>2. ASSUME FromClient[Len(FromClient)] = Handshake(cli.psk) \/ FromClient' # <<>>
          PROVE  /\ FromClient' # <<>> /\ Len(FromClient) >= 2
                 /\ FromClient'[Len(FromClient')] = FromClient[Len(FromClient)]
                 /\ NoHandshake(FromClient, Len(FromClient) - 1)
                      <=> NoHandshake(FromClient', Len(FromClient') - 1)
      <4>1. Len(FromClient) >= 2
        <5>1. CASE FromClient[Len(FromClient)] = Handshake(cli.psk)
          <6>1. Len(FromClient) # 1 BY <3>1, <5>1 DEF Handshake
          <6> QED BY <1>4, <3>1, <6>1
        <5>2. CASE FromClient' # <<>>
          <6>1. Len(FromClient') >= 1 BY <3>1, <5>2
          <6> QED BY <1>4, <3>1, <6>1
        <5> QED BY <3>2, <5>1, <5>2
      <4>2. /\ Len(FromClient') # 0 /\ Len(FromClient') \in 1 .. Len(FromClient) - 1
            /\ Len(FromClient') + 1 = Len(FromClient)
        BY <1>4, <3>1, <4>1
      <4>3. FromClient' # <<>> BY <4>2
      <4>4. FromClient'[Len(FromClient')] = FromClient[Len(FromClient)] BY <3>1, <4>2
      <4>5. ASSUME NoHandshake(FromClient, Len(FromClient) - 1)
            PROVE  NoHandshake(FromClient', Len(FromClient') - 1)
        <5>1. \A i \in 1 .. Len(FromClient') - 1 :
                i + 1 \in 1 .. Len(FromClient) - 1 /\ i \in 1 .. Len(FromClient) - 1
          BY <1>4, <3>1
        <5> QED BY <3>1, <4>5, <5>1 DEF NoHandshake
      <4>6. ASSUME NoHandshake(FromClient', Len(FromClient') - 1)
            PROVE  NoHandshake(FromClient, Len(FromClient) - 1)
        <5> SUFFICES ASSUME NEW i \in 1 .. Len(FromClient) - 1
                     PROVE  FromClient[i].type # "handshake"
          BY DEF NoHandshake
        <5>1. CASE i = 1 BY <3>1, <5>1
        <5>2. CASE i # 1
          <6>1. /\ i - 1 \in 1 .. Len(FromClient') - 1 /\ i - 1 \in 1 .. Len(FromClient) - 1
                /\ (i - 1) + 1 = i
            BY <1>4, <3>1, <5>2
          <6>2. FromClient'[i - 1] = FromClient[i] BY <3>1, <6>1
          <6> QED BY <4>6, <6>1, <6>2 DEF NoHandshake
        <5> QED BY <5>1, <5>2
      <4> QED BY <4>1, <4>3, <4>4, <4>5, <4>6
    <3> QED BY <2>2, <3>2 DEF Answered, Asked, Holds
  <2>3. CASE srv.pc \notin Rekeying BY <2>3 DEF Answered
  <2> QED BY <2>1, <2>2, <2>3
<1>8. Rehandshake'
  <2>1. srv.index + 1 \in Nat BY Numbers DEF IInv
  <2> QED BY <1>5, <1>6, <1>7, <2>1 DEF IInv, Rehandshake
<1>9. Counting' BY <1>7 DEF IInv, Counting
<1>10. FromServer' = FromServer BY DEF FromServer
<1>11. Dialogue'
  <2>1. CASE srv.pc \notin Exchanging \cup {"save", "acked"} BY <2>1 DEF Dialogue
  <2>2. CASE srv.pc \in Exchanging \cup {"save", "acked"}
    <3>1. FromClient' = FromClient BY <2>2, Places
    <3>2. Unread => Unread' BY <3>1 DEF Unread
    <3>3. ASSUME NEW k \in 0 .. Len(FromClient), NEW g \in BOOLEAN, Together(k, g)
          PROVE  Together(k, g)'
      <4>1. \A n, f, j : Said(n, f, j) => Said(n, f, j)' BY <3>1 DEF Said
      <4>2. \A i, s : Word(i, s) => Word(i, s)' BY <3>1 DEF Word
      <4>3. /\ \A f, P, h : Here(f, P, h) => Here(f, P, h)'
            /\ \A f, p, h : Acking(f, p, h) => Acking(f, p, h)'
            /\ First' = First /\ Coded' = Coded
        BY <1>10 DEF Here, Acking, First, Coded
      <4>4. Opening(k, g) => Opening(k, g)' BY <3>1, <4>1, <4>2, <4>3 DEF Opening
      <4>5. Waiting(g) => Waiting(g)' BY <4>1, <4>2, <4>3 DEF Waiting
      <4>6. Proving(g) => Proving(g)' BY <4>1, <4>2, <4>3 DEF Proving
      <4>7. Concluding(g) => Concluding(g)' BY <4>1, <4>2, <4>3 DEF Concluding
      <4> QED BY <1>10, <3>3, <4>4, <4>5, <4>6, <4>7 DEF Together
    <3> QED BY <2>2, <3>1, <3>2, <3>3 DEF IInv, Dialogue
  <2> QED BY <2>1, <2>2
<1>12. Hearing' BY <1>10 DEF IInv, Hearing, Heard
<1>13. Attempts' BY DEF IInv, Attempts
<1>14. Offers' BY <1>5 DEF IInv, Offers
<1>15. Kept' BY DEF IInv, Kept
<1>16. Settling' BY <1>10 DEF IInv, Settling, Finishing
<1>17. Keys' BY <1>10 DEF IInv, Keys, Finishing
<1> QED BY <1>2, <1>8, <1>9, <1>11, <1>12, <1>13, <1>14, <1>15, <1>16, <1>17 DEF IInv

(* The message loop hands a message to the task, or drops it. *)
LEMMA ReadsKeep ==
  ASSUME IInv, Types', ServerReads
  PROVE  IInv'
<1>0. srv \in ServerEnd /\ toServer \in Seq(ClientSays) BY DEF IInv, Types
<1>1. /\ toServer # <<>> /\ toServer' = Tail(toServer)
      /\ link' = link /\ toClient' = toClient /\ cli' = cli /\ serverStore' = serverStore
      /\ clientStore' = clientStore /\ history' = history
  BY DEF ServerReads
<1>2. CASE srv.pc \in Queued
  <2>1. srv' = [srv EXCEPT !.inbox = Append(srv.inbox, Head(toServer))]
    BY <1>0, <1>2 DEF ServerReads, ServerEnd
  <2>2. /\ srv'.pc = srv.pc /\ srv'.attempt = srv.attempt /\ srv'.index = srv.index
        /\ srv'.method = srv.method /\ srv'.psk = srv.psk /\ srv'.moved = srv.moved
        /\ srv'.inbox = Append(srv.inbox, Head(toServer))
    BY <1>0, <2>1 DEF ServerEnd
  <2>3. FromClient' = FromClient BY <1>1, <2>2, ServerMoved DEF IInv
  <2>4. srv.pc # "idle" BY <1>2 DEF Queued, Exchanging, Rekeying
  <2> QED BY <1>1, <2>2, <2>3, <2>4, StaysKeeps
<1>3. CASE srv.pc \notin Queued
  <2>1. srv' = srv BY <1>3 DEF ServerReads
  <2>2. srv.pc = "idle" BY <1>0, <1>3 DEF Queued, Exchanging, Rekeying, ServerEnd, ServerPlaces
  <2>3. srv.inbox = <<>> BY <2>2 DEF IInv, Hearing
  <2>4. toServer' \in Seq(ClientSays) BY <1>0, <1>1
  <2>5. FromClient = toServer /\ FromClient' = toServer' BY <2>1, <2>3, <2>4, ServerEmpty DEF IInv
  <2>6. srv.pc \notin Rekeying BY <2>2, Places
  <2> QED BY <1>1, <2>1, <2>2, <2>3, <2>5, <2>6, StaysKeeps
<1> QED BY <1>2, <1>3

(* A cancel during the re-key is noted. *)
LEMMA NotedKeeps ==
  ASSUME IInv, Types', CancelAttempt, srv.pc = "rekey"
  PROVE  IInv'
<1>0. srv \in ServerEnd BY DEF IInv, Types
<1>1. /\ srv' = [srv EXCEPT !.cancel = TRUE] /\ toClient' = toClient
      /\ link' = link /\ toServer' = toServer /\ cli' = cli /\ serverStore' = serverStore
      /\ clientStore' = clientStore /\ history' = history
  BY Places DEF CancelAttempt
<1>2. /\ srv'.pc = srv.pc /\ srv'.attempt = srv.attempt /\ srv'.index = srv.index
      /\ srv'.method = srv.method /\ srv'.psk = srv.psk /\ srv'.moved = srv.moved
      /\ srv'.inbox = srv.inbox
  BY <1>0, <1>1 DEF ServerEnd
<1>3. FromClient' = FromClient BY <1>1, <1>2 DEF FromClient
<1> QED BY <1>1, <1>2, <1>3, StaysKeeps

(* What is not of an exchange takes nothing from what the client has to hear. *)
LEMMA HearsOther ==
  ASSUME IInv, NEW m \in ServerSays, m.type \notin Script,
         toClient' = Append(toClient, m), cli' = cli
  PROVE  /\ \E j \in 0 .. Len(FromServer') : Scripts(FromServer', j) /\ (cli'.pc # "none" => Heard(j)')
         /\ Finishing <=> Finishing'
<1>1. FromServer \in Seq(ServerSays) BY Ways DEF IInv
<1>2. FromServer' = Append(FromServer, m) BY ServerSent DEF IInv
<1>3. /\ Len(FromServer) \in Nat /\ Len(FromServer') = Len(FromServer) + 1
      /\ FromServer'[Len(FromServer) + 1] = m
      /\ \A i \in 1 .. Len(FromServer) : FromServer'[i] = FromServer[i]
      /\ FromServer' # <<>>
  BY <1>1, <1>2, AppendSays
<1>4. PICK j \in 0 .. Len(FromServer) : Scripts(FromServer, j) /\ (cli.pc # "none" => Heard(j))
  BY DEF IInv, Hearing
<1>5. Scripts(FromServer', j) BY <1>1, <1>2, <1>4, ScriptsAppend
<1>6. Len(FromServer) >= 1 => FromServer'[1] = FromServer[1]
  <2>1. Len(FromServer) >= 1 => 1 \in 1 .. Len(FromServer) BY <1>3
  <2> QED BY <1>3, <2>1
<1>7. Len(FromServer) >= 2 => FromServer'[2] = FromServer[2]
  <2>1. Len(FromServer) >= 2 => 2 \in 1 .. Len(FromServer) BY <1>3
  <2> QED BY <1>3, <2>1
<1>8. cli'.pc # "none" => Heard(j)'
  <2>1. j >= 1 => FromServer'[1] = FromServer[1] BY <1>3, <1>6
  <2>2. j >= 2 => FromServer'[2] = FromServer[2] BY <1>3, <1>7
  <2>3. (cli.pc # "none" => Heard(j)) /\ j \in Nat /\ cli'.pc = cli.pc BY <1>3, <1>4
  <2> QED BY ONLY <2>1, <2>2, <2>3 DEF Heard
<1>9. j \in 0 .. Len(FromServer') BY <1>3
<1>10. Finishing <=> Finishing'
  <2>1. CASE FromServer = <<>>
    <3>1. Len(FromServer) = 0 BY <2>1
    <3>2. FromServer'[1] = m /\ m.type # "finalize" BY <1>3, <3>1 DEF Script
    <3> QED BY <2>1, <3>2 DEF Finishing
  <2>2. CASE FromServer # <<>>
    <3>1. Len(FromServer) >= 1 BY <1>1, <2>2
    <3> QED BY <1>3, <1>6, <2>2, <3>1 DEF Finishing
  <2> QED BY <2>1, <2>2
<1> QED BY <1>5, <1>8, <1>9, <1>10

(* server/activate is sent and counted. *)
LEMMA ActivatesKeep ==
  ASSUME IInv, Types', NEW s \in ServerEnd, SendActivation(s), srv.pc \in {"prep", "rekey"},
         link' = link, toServer' = toServer, cli' = cli, serverStore' = serverStore,
         clientStore' = clientStore, history' = history,
         s.attempt = srv.attempt, s.method = srv.method, s.index < srv.attempt,
         s.psk = cli.psk, s.psk \notin Credentials,
         s.index = cli.index + Cardinality(Admissions(toClient)),
         NoHandshake(toClient, Len(toClient)), NoHandshake(FromClient', Len(FromClient')),
         Older(FromClient', Len(FromClient'), s.index + 1),
         cli.rekeyed => cli.pc = "none" /\ (toClient = <<>> \/ Head(toClient).type = "activate"),
         \A i \in 1 .. Len(FromClient') : \E k \in 1 .. Len(FromClient) : FromClient'[i] = FromClient[k],
         ~history.late /\ s.moved => serverStore.mem = clientStore.mem
  PROVE  IInv'
<1> DEFINE m == Activate(s.method, s.attempt)
<1>0. /\ toClient \in Seq(ServerSays) /\ s.index \in Nat /\ srv.attempt \in Nat
      /\ cli.index \in Nat
  BY Ways, Numbers DEF IInv, ServerEnd
<1>1. /\ m \in ServerSays /\ m.type = "activate" /\ m.attempt = srv.attempt
      /\ m.type \notin Script /\ m.type # "handshake" /\ NewAttempt(m)
      /\ m = Activate(srv.method, srv.attempt)
  <2>1. m \in ServerSays BY ServerTalk DEF ServerEnd
  <2>2. s.method # "none" BY DEF ServerEnd, Method
  <2> QED BY <2>1, <2>2 DEF Activate, Script, NewAttempt
<1>2. /\ srv'.pc = "init" /\ srv'.index = s.index + 1 /\ srv'.attempt = srv.attempt
      /\ srv'.method = srv.method /\ srv'.psk = s.psk /\ srv'.moved = s.moved
  BY DEF SendActivation, ServerEnd
<1>3. toClient' = Append(toClient, m) BY DEF SendActivation
<1> HIDE DEF m
<1>4. /\ toClient' # <<>> /\ toClient'[Len(toClient')] = m
      /\ Len(toClient) \in Nat /\ Len(toClient') = Len(toClient) + 1
      /\ toClient'[Len(toClient) + 1] = m
      /\ \A i \in 1 .. Len(toClient) : toClient'[i] = toClient[i]
      /\ toClient # <<>> => Head(toClient') = Head(toClient)
      /\ toClient = <<>> => Head(toClient') = m
      /\ NoHandshake(toClient', Len(toClient'))
  BY <1>0, <1>1, <1>3, AppendSays
<1>5. link' = "up" BY Engaged
<1>6. Reset' BY <1>5 DEF Reset
<1>7. srv'.pc \notin Rekeying BY <1>2, Places
<1>8. Older(FromClient', Len(FromClient'), srv'.index + 1)
  <2>1. \A i \in 1 .. Len(FromClient') : Numbered(FromClient'[i]) => FromClient'[i].index \in Nat
    <3>1. FromClient' \in Seq(ClientSays)
      <4>1. srv'.inbox \in Seq(ClientSays) /\ toServer' \in Seq(ClientSays)
        BY DEF Types, ServerEnd
      <4> QED BY <4>1, JoinTypes DEF FromClient
    <3>2. \A i \in 1 .. Len(FromClient') : FromClient'[i] \in ClientSays BY <3>1
    <3> QED BY <3>2, ClientKinds DEF Numbered
  <2> QED BY <1>0, <1>2, <2>1 DEF Older
<1>9. cli'.rekeyed => cli'.pc = "none" /\ toClient' # <<>> /\ Head(toClient').type = "activate"
  BY <1>1, <1>4
<1>10. Rehandshake' BY <1>4, <1>7, <1>8, <1>9 DEF Rehandshake
<1>11. Counting'
  <2>1. Cardinality(Admissions(toClient')) = Cardinality(Admissions(toClient)) + 1
    BY <1>0, <1>1, <1>3, AdmissionsAppend
  <2>2. Cardinality(Admissions(toClient)) \in Nat BY <1>0, AdmissionsFinite
  <2>3. \A a, b, c \in Nat : a = b + c => a + 1 = b + (c + 1) OBVIOUS
  <2>4. s.index + 1 = cli.index + Cardinality(Admissions(toClient')) BY <1>0, <2>1, <2>2, <2>3, SMTT(30)
  <2>5. srv'.index = cli'.index + Cardinality(Admissions(toClient'))
    BY <1>2, <2>4
  <2>6. srv'.psk = cli'.psk BY <1>2
  <2> QED BY <2>5, <2>6 DEF Counting
<1>12. Unread' BY <1>1, <1>2, <1>4 DEF Unread
<1>13. Dialogue' BY <1>12 DEF Dialogue
<1>14. /\ \E j \in 0 .. Len(FromServer') : Scripts(FromServer', j) /\ (cli'.pc # "none" => Heard(j)')
       /\ Finishing <=> Finishing'
  BY <1>1, <1>3, HearsOther
<1>15. Hearing' BY <1>2, <1>14 DEF IInv, Hearing
<1>16. ~Finishing' BY <1>14 DEF IInv, Settling
<1>17. Attempts'
  <2>1. ASSUME NEW i \in Admissions(toClient')
        PROVE  clientStore.mem < toClient'[i].attempt /\ toClient'[i].attempt <= srv.attempt
    <3>1. i \in 1 .. Len(toClient) + 1 /\ NewAttempt(toClient'[i]) BY <1>4 DEF Admissions
    <3>2. CASE i = Len(toClient) + 1
      <4>1. toClient'[i].attempt = srv.attempt BY <1>1, <1>4, <3>2
      <4> QED BY <1>0, <4>1 DEF IInv, Attempts
    <3>3. CASE i # Len(toClient) + 1
      <4>1. i \in 1 .. Len(toClient) BY <1>4, <3>1, <3>3
      <4>2. i \in Admissions(toClient) /\ toClient'[i] = toClient[i]
        BY <1>4, <3>1, <4>1 DEF Admissions
      <4> QED BY <4>2 DEF IInv, Attempts
    <3> QED BY <3>2, <3>3
  <2>2. s.index + 1 <= srv.attempt /\ srv.attempt >= 1 BY <1>0
  <2> QED BY <1>2, <2>1, <2>2 DEF IInv, Attempts
<1>18. Offers' BY DEF IInv, Offers
<1>19. Kept' BY DEF IInv, Kept
<1>20. Settling' BY <1>2, <1>16 DEF IInv, Settling
<1>21. Keys' BY <1>2, Places DEF IInv, Keys
<1> QED BY <1>6, <1>10, <1>11, <1>13, <1>15, <1>17, <1>18, <1>19, <1>20, <1>21 DEF IInv

LEMMA PreparedKeeps ==
  ASSUME IInv, Types', Prepared
  PROVE  IInv'
<1>0. srv \in ServerEnd BY DEF IInv, Types
<1>1. /\ srv.pc = "prep" /\ SendActivation(srv) /\ link' = link /\ toServer' = toServer
      /\ cli' = cli /\ serverStore' = serverStore /\ clientStore' = clientStore
      /\ history' = history
  BY DEF Prepared
<1>2. FromClient' = FromClient BY <1>0, <1>1 DEF SendActivation, ServerEnd, FromClient
<1>3. srv.pc \notin Rekeying BY <1>1, Places
<1>4. /\ NoHandshake(toClient, Len(toClient)) /\ NoHandshake(FromClient, Len(FromClient))
      /\ Older(FromClient, Len(FromClient), srv.index + 1)
      /\ srv.index = cli.index + Cardinality(Admissions(toClient)) /\ srv.psk = cli.psk
      /\ cli.rekeyed => cli.pc = "none" /\ toClient # <<>> /\ Head(toClient).type = "activate"
  BY <1>3, Steady
<1>5. srv.index < srv.attempt BY <1>1 DEF IInv, Attempts
<1>6. srv.psk \notin Credentials BY <1>1 DEF IInv, Keys
<1>7. ~history.late /\ srv.moved => serverStore.mem = clientStore.mem
  BY <1>1 DEF IInv, Keys
<1> QED BY <1>0, <1>1, <1>2, <1>4, <1>5, <1>6, <1>7, ActivatesKeep

(* The answer to a re-key: the attempt goes on, or pairing is left. *)
LEMMA RekeyedKeeps ==
  ASSUME IInv, Types', ServerRekeyed
  PROVE  IInv'
<1> DEFINE m == Head(srv.inbox)
           keyed == [Take(srv) EXCEPT !.psk = m.psk, !.index = 0]
           moved == [keyed EXCEPT !.moved = srv.moved \/ srv.psk \in Credentials]
<1>0. srv \in ServerEnd /\ history \in Past BY DEF IInv, Types
<1>1. /\ srv.pc \in Rekeying /\ srv.inbox # <<>>
      /\ link' = link /\ toServer' = toServer /\ cli' = cli /\ serverStore' = serverStore
      /\ clientStore' = clientStore /\ history' = history
  BY DEF ServerRekeyed
<1>2. srv.pc # "idle" /\ srv.pc \in {"rekey", "rerec", "return"} BY <1>1, Places
<1>3. Take(srv) \in ServerEnd /\ m \in ClientSays BY <1>0, <1>1, TakeTypes
<1>4. CASE m.type # "handshake"
  <2>1. srv' = Take(srv) /\ toClient' = toClient BY <1>4 DEF ServerRekeyed
  <2>2. /\ srv'.pc = srv.pc /\ srv'.attempt = srv.attempt /\ srv'.index = srv.index
        /\ srv'.method = srv.method /\ srv'.psk = srv.psk /\ srv'.moved = srv.moved
        /\ FromClient # <<>> /\ FromClient' = Tail(FromClient) /\ Head(FromClient) = m
    BY <1>1, <2>1, Took
  <2> QED BY <1>1, <1>2, <1>4, <2>1, <2>2, StaysKeeps
<1>5. CASE m.type = "handshake"
  <2>1. /\ m.psk = cli.psk /\ toServer = <<>> /\ toClient = <<>> /\ cli.rekeyed
        /\ cli.pc = "none" /\ cli.index = 0 /\ Asked(cli.psk) /\ Holds(cli.psk)
    BY <1>1, <1>5, KeyAnswered
  <2>2. cli.psk \in Psks /\ srv.attempt \in Nat /\ (srv.attempt >= 1 \/ srv.pc = "return")
    BY <1>2, Numbers DEF IInv, Attempts
  <2>3. cli.psk \in Psks /\ srv.attempt \in Nat /\ 0 <= srv.attempt BY Numbers DEF IInv
  <2>4. /\ keyed = [Take(srv) EXCEPT !.psk = cli.psk, !.index = 0] /\ keyed \in ServerEnd
        /\ keyed.attempt = srv.attempt /\ keyed.index = 0 /\ keyed.psk = cli.psk
        /\ keyed.method = srv.method /\ keyed.moved = srv.moved /\ keyed.inbox = Tail(srv.inbox)
    <3>1. Take(srv) = [srv EXCEPT !.inbox = Tail(srv.inbox)] BY <1>0 DEF Take, ServerEnd
    <3> QED BY <1>0, <1>3, <2>1, <2>3, <3>1 DEF ServerEnd
  <2>5. /\ moved \in ServerEnd /\ moved = [keyed EXCEPT !.moved = srv.moved \/ srv.psk \in Credentials]
        /\ moved.attempt = srv.attempt /\ moved.index = 0 /\ moved.psk = cli.psk
        /\ moved.method = srv.method /\ moved.moved = (srv.moved \/ srv.psk \in Credentials)
        /\ moved.inbox = Tail(srv.inbox)
    BY <2>4 DEF ServerEnd
  <2>6. \/ srv.pc = "rekey" /\ srv.cancel /\ LeaveTo(moved, <<>>)
        \/ srv.pc = "rekey" /\ ~srv.cancel /\ SendActivation(moved)
        \/ srv.pc = "rerec" /\ LeaveTo(keyed, <<>>)
        \/ srv.pc = "return" /\ LeaveTo([keyed EXCEPT !.moved = FALSE, !.free = FALSE], <<>>)
    <3>1. [keyed EXCEPT !.moved = @ \/ srv.psk \in Credentials] = moved
      BY <2>4 DEF ServerEnd
    <3> QED BY <1>2, <1>5, <3>1 DEF ServerRekeyed
  <2> HIDE DEF m, keyed, moved
  <2>7. /\ NoHandshake(toClient, Len(toClient)) /\ NoHandshake(toServer, Len(toServer))
        /\ Older(toServer, Len(toServer), 0 + 1)
        /\ 0 = cli.index + Cardinality(Admissions(toClient)) /\ ~Finishing
    <3>1. Len(<<>>) = 0 OBVIOUS
    <3>2. ~Finishing BY <2>1 DEF Finishing
    <3> QED BY <2>1, <3>1, <3>2, AdmissionsNone DEF NoHandshake, Older
  <2>8. link = "up" BY <1>2, Engaged
  <2>9. \A a \in Psks : a \in {Sentinel, PairingPsk} => a \notin Credentials
    BY DEF Sentinel, PairingPsk, Credentials
  <2>10. ASSUME srv.pc = "rekey", ~history.late
         PROVE  /\ cli.psk \notin Credentials
                /\ srv.moved \/ srv.psk \in Credentials => serverStore.mem = clientStore.mem
                /\ ~history.refused
    BY <2>1, <2>3, <2>9, <2>10 DEF IInv, Keys, Asked
  <2>11. CASE srv.pc = "rekey" /\ srv.cancel /\ LeaveTo(moved, <<>>)
    BY <1>1, <2>1, <2>3, <2>5, <2>7, <2>8, <2>10, <2>11, LeaveKeeps DEF IInv
  <2>12. CASE srv.pc = "rekey" /\ ~srv.cancel /\ SendActivation(moved)
    <3>1. srv'.inbox = Tail(srv.inbox) BY <2>5, <2>12 DEF SendActivation, ServerEnd
    <3>2. FromClient # <<>> /\ FromClient' = Tail(FromClient)
      BY <1>1, <3>1, ServerTook DEF IInv
    <3>3. FromClient' = <<>>
      <4>1. Len(srv.inbox) = 1
        <5>1. srv.inbox \in Seq(ClientSays) /\ Len(FromClient) = Len(srv.inbox) + Len(toServer)
              /\ Len(toServer) = 0
          BY <2>1, Ways, ServerRest DEF IInv
        <5>2. FromClient \in Seq(ClientSays) BY Ways DEF IInv
        <5>3. Answered BY <1>1, <1>5, KeyAnswered DEF m
        <5>4. FromClient[1] = m
          BY <1>1, <3>2, <5>2, ServerTook DEF IInv, m
        <5>5. Len(FromClient) >= 1 BY <3>2, <5>2
        <5>6. ASSUME Len(FromClient) >= 2 PROVE FALSE
          <6>1. 1 \in 1 .. Len(FromClient) - 1 BY <5>2, <5>6
          <6> QED BY <1>5, <5>3, <5>4, <6>1 DEF Answered, NoHandshake
        <5> QED BY <5>1, <5>2, <5>5, <5>6, SMTT(30)
      <4>2. srv.inbox \in Seq(ClientSays) BY Ways DEF IInv
      <4>3. Tail(srv.inbox) = <<>>
        <5>1. srv.inbox # <<>> BY <4>1
        <5>2. Tail(srv.inbox) \in Seq(ClientSays) /\ Len(Tail(srv.inbox)) = 0
          BY <4>1, <4>2, <5>1, TailTalk
        <5>3. \A q \in Seq(ClientSays) : Len(q) = 0 => q = <<>> OBVIOUS
        <5> QED BY <5>2, <5>3, Zenon
      <4> QED BY <1>1, <2>1, <3>1, <4>3, NothingBefore DEF FromClient
    <3>4. /\ NoHandshake(FromClient', Len(FromClient')) /\ Older(FromClient', Len(FromClient'), 0 + 1)
          /\ \A i \in 1 .. Len(FromClient') : \E k \in 1 .. Len(FromClient) : FromClient'[i] = FromClient[k]
      <4>1. Len(<<>>) = 0 OBVIOUS
      <4> QED BY <3>3, <4>1 DEF NoHandshake, Older
    <3>5. cli.psk \notin Credentials BY <2>1, <2>3, <2>9, <2>12 DEF Asked
    <3>6. 0 < srv.attempt BY <2>2, <2>3, <2>12
    <3>7. ~history.late /\ moved.moved => serverStore.mem = clientStore.mem
      BY <2>5, <2>10, <2>12
    <3> QED BY <1>1, <2>1, <2>5, <2>7, <2>12, <3>4, <3>5, <3>6, <3>7, ActivatesKeep
  <2>13. ASSUME srv.pc \in {"rerec", "return"}, ~history.late
         PROVE  /\ cli.psk \in Credentials => serverStore.mem = cli.psk /\ clientStore.mem = cli.psk
                /\ ~history.refused
    <3>1. cli.psk = serverStore.mem BY <2>1, <2>13 DEF Asked
    <3>2. cli.psk \in Credentials => cli.psk = clientStore.mem
      BY <2>1, <2>3, <2>9 DEF Holds
    <3> QED BY <2>13, <3>1, <3>2 DEF IInv, Keys
  <2>14. CASE srv.pc = "rerec" /\ LeaveTo(keyed, <<>>)
    <3>1. ~keyed.moved BY <2>4, <2>14 DEF IInv, Keys
    <3> QED BY <1>1, <2>1, <2>3, <2>4, <2>7, <2>8, <2>13, <2>14, <3>1, LeaveKeeps DEF IInv
  <2>15. CASE srv.pc = "return" /\ LeaveTo([keyed EXCEPT !.moved = FALSE, !.free = FALSE], <<>>)
    <3> DEFINE s == [keyed EXCEPT !.moved = FALSE, !.free = FALSE]
    <3>1. /\ s \in ServerEnd /\ s.attempt = srv.attempt /\ s.index = 0 /\ s.psk = cli.psk
          /\ ~s.moved
      BY <2>4 DEF ServerEnd
    <3>2. LeaveTo(s, <<>>) BY <2>15
    <3> HIDE DEF s
    <3> QED BY <1>1, <2>1, <2>3, <2>7, <2>8, <2>13, <2>15, <3>1, <3>2, LeaveKeeps DEF IInv
  <2> QED BY <2>6, <2>11, <2>12, <2>14, <2>15
<1> QED BY <1>4, <1>5

(* A new attempt: at once, or once the session is keyed as its method wants it. *)
LEMMA StartKeeps ==
  ASSUME IInv, Types', StartAttempt
  PROVE  IInv'
<1>0. /\ srv \in ServerEnd /\ srv.attempt \in Nat /\ srv.index \in Nat
      /\ serverStore.mem \in Nat /\ serverStore.disk \in Nat /\ clientStore.mem \in Nat
      /\ cli.attempt \in Nat /\ toClient \in Seq(ServerSays)
      /\ srv.attempt + 1 \in Nat
  BY Numbers, Ways, SMTT(30) DEF IInv, Types
<1>1. /\ link' = link /\ toServer' = toServer /\ cli' = cli /\ serverStore' = serverStore
      /\ clientStore' = clientStore /\ history' = history /\ link = "up" /\ srv.pc = "idle"
  BY DEF StartAttempt, IInv
<1>2. PICK method \in Methods :
        LET wanted == IF method = "psk" THEN PairingPsk ELSE Sentinel
            started == [srv EXCEPT !.method = method, !.attempt = @ + 1,
                                   !.round = 1, !.free = FALSE, !.inbox = <<>>]
        IN IF srv.psk = wanted
           THEN /\ srv' = [started EXCEPT !.pc = "prep"]
                /\ toClient' = toClient
           ELSE /\ srv' = [started EXCEPT !.pc = "rekey"]
                /\ toClient' = Append(toClient, Handshake(wanted))
  BY DEF StartAttempt
<1> DEFINE wanted == IF method = "psk" THEN PairingPsk ELSE Sentinel
           started == [srv EXCEPT !.method = method, !.attempt = srv.attempt + 1,
                                  !.round = 1, !.free = FALSE, !.inbox = <<>>]
<1>3. /\ wanted \in {Sentinel, PairingPsk} /\ wanted \in Psks /\ wanted \notin Credentials
  BY Bounds DEF Sentinel, PairingPsk, Credentials
<1>5. [srv EXCEPT !.method = method, !.attempt = @ + 1,
                  !.round = 1, !.free = FALSE, !.inbox = <<>>] = started
  BY <1>0 DEF ServerEnd
<1>6. \/ /\ srv.psk = wanted /\ srv' = [started EXCEPT !.pc = "prep"] /\ toClient' = toClient
      \/ /\ srv' = [started EXCEPT !.pc = "rekey"]
         /\ toClient' = Append(toClient, Handshake(wanted))
  BY <1>2, <1>5
<1> HIDE DEF wanted, started
<1>7. /\ srv'.attempt = srv.attempt + 1 /\ srv'.index = srv.index /\ srv'.psk = srv.psk
      /\ srv'.moved = srv.moved /\ srv'.inbox = <<>>
      /\ \/ srv'.pc = "prep" /\ srv.psk = wanted /\ toClient' = toClient
         \/ srv'.pc = "rekey" /\ toClient' = Append(toClient, Handshake(wanted))
  <2>1. CASE srv' = [started EXCEPT !.pc = "prep"] BY <1>0, <1>6, <2>1 DEF started, ServerEnd
  <2>2. CASE srv' = [started EXCEPT !.pc = "rekey"] BY <1>0, <1>6, <2>2 DEF started, ServerEnd
  <2> QED BY <1>6, <2>1, <2>2
<1>8. srv.inbox = <<>> BY <1>1 DEF IInv, Hearing
<1>9. FromClient' = FromClient BY <1>1, <1>7, <1>8 DEF FromClient
<1>10. Reset' BY <1>1 DEF Reset
<1>11. srv.pc \notin Rekeying /\ ~Finishing BY <1>1, Places DEF IInv, Settling
<1>12. /\ NoHandshake(toClient, Len(toClient)) /\ NoHandshake(FromClient, Len(FromClient))
       /\ Older(FromClient, Len(FromClient), srv.index + 1)
       /\ srv.index = cli.index + Cardinality(Admissions(toClient)) /\ srv.psk = cli.psk
       /\ cli.rekeyed => cli.pc = "none" /\ toClient # <<>> /\ Head(toClient).type = "activate"
  BY <1>11, Steady
<1>13. /\ srv'.attempt >= 1 /\ srv.attempt <= srv'.attempt /\ srv'.attempt \in Nat
       /\ srv.index < srv'.attempt /\ clientStore.mem < srv'.attempt
       /\ srv'.index <= srv'.attempt /\ clientStore.mem <= srv'.attempt
       /\ srv'.index < srv'.attempt
       /\ serverStore.mem <= srv'.attempt /\ serverStore.disk <= srv'.attempt
       /\ cli.pc # "none" => cli.attempt \in 1 .. srv'.attempt
  <2>1. /\ srv.index <= srv.attempt /\ clientStore.mem <= srv.attempt
        /\ serverStore.mem <= srv.attempt /\ serverStore.disk <= srv.attempt
        /\ cli.pc # "none" => cli.attempt \in 1 .. srv.attempt
    BY DEF IInv, Attempts
  <2> QED BY <1>0, <1>7, <2>1
<1>14. /\ srv'.pc \in {"prep", "rekey"}
       /\ srv'.pc \notin Exchanging \cup {"save", "acked", "idle", "rerec", "return"}
  BY <1>7, Places
<1>15. Dialogue' BY <1>14 DEF Dialogue
<1>16. Offers' BY <1>1, <1>9 DEF IInv, Offers
<1>17. Kept' BY <1>1 DEF IInv, Kept
<1>18. CASE srv'.pc = "prep" /\ srv.psk = wanted /\ toClient' = toClient
  <2>1. Rehandshake' BY <1>1, <1>7, <1>9, <1>12, <1>18, Places DEF Rehandshake
  <2>2. Counting' BY <1>1, <1>7, <1>12, <1>18 DEF Counting
  <2>3. FromServer' = FromServer /\ Hearing' /\ (Finishing' => Finishing)
    BY <1>1, <1>14, <1>18, HearingSame
  <2>4. Attempts'
    <3>1. \A i \in Admissions(toClient') : /\ clientStore.mem < toClient'[i].attempt
                                           /\ toClient'[i].attempt <= srv'.attempt
      <4> SUFFICES ASSUME NEW i \in Admissions(toClient)
                   PROVE  clientStore.mem < toClient[i].attempt /\ toClient[i].attempt <= srv'.attempt
        BY <1>18
      <4>1. clientStore.mem < toClient[i].attempt /\ toClient[i].attempt <= srv.attempt
        BY DEF IInv, Attempts
      <4>2. toClient[i].attempt \in Nat
        <5>1. toClient[i] \in ServerSays /\ toClient[i].type = "activate"
          BY <1>0 DEF Admissions, NewAttempt
        <5> QED BY <5>1, Bounds, ServerKinds DEF Attempt
      <4> QED BY <1>0, <1>13, <4>1, <4>2
    <3>2. cli.pc \notin {"none", "store"} => clientStore.mem < cli.attempt
      BY DEF IInv, Attempts
    <3> QED BY <1>1, <1>13, <1>14, <3>1, <3>2 DEF Attempts
  <2>5. Settling' BY <1>1, <1>11, <1>14, <2>3 DEF IInv, Settling
  <2>6. Keys' BY <1>1, <1>3, <1>7, <1>14, <1>18 DEF IInv, Keys
  <2> QED BY <1>1, <1>10, <1>15, <1>16, <1>17, <2>1, <2>2, <2>3, <2>4, <2>5, <2>6 DEF IInv
<1>19. CASE srv'.pc = "rekey" /\ toClient' = Append(toClient, Handshake(wanted))
  <2> DEFINE m == Handshake(wanted)
  <2>1. /\ m \in ServerSays /\ m.type = "handshake" /\ m.psk = wanted /\ ~NewAttempt(m)
        /\ m.type \notin Script
    <3>1. m \in ServerSays BY <1>3, ServerTalk
    <3> QED BY <3>1 DEF Handshake, NewAttempt, Script
  <2>2. toClient' = Append(toClient, m) BY <1>19
  <2> HIDE DEF m
  <2>3. /\ toClient' # <<>> /\ toClient'[Len(toClient')] = m
        /\ toClient # <<>> => Head(toClient') = Head(toClient)
        /\ NoHandshake(toClient', Len(toClient') - 1)
        /\ Admissions(toClient') = Admissions(toClient)
        /\ \A i \in Admissions(toClient) : toClient'[i] = toClient[i]
    BY <1>0, <1>12, <2>1, <2>2, AppendSays
  <2>4. Unanswered' BY <1>3, <1>9, <1>12, <1>19, <2>1, <2>3 DEF Unanswered, Asked
  <2>5. ~Answered' BY <2>3 DEF Answered
  <2>6. Rehandshake' BY <1>1, <1>7, <1>9, <1>12, <1>19, <2>3, <2>4, Places DEF Rehandshake
  <2>7. Counting' BY <1>1, <1>7, <1>12, <2>3 DEF Counting
  <2>8. /\ \E j \in 0 .. Len(FromServer') : Scripts(FromServer', j) /\ (cli'.pc # "none" => Heard(j)')
        /\ Finishing <=> Finishing'
    BY <1>1, <2>1, <2>2, HearsOther
  <2>9. Hearing' BY <1>1, <1>14, <2>8 DEF IInv, Hearing
  <2>10. Attempts'
    <3>1. \A i \in Admissions(toClient') : /\ clientStore.mem < toClient'[i].attempt
                                           /\ toClient'[i].attempt <= srv'.attempt
      <4> SUFFICES ASSUME NEW i \in Admissions(toClient)
                   PROVE  clientStore.mem < toClient[i].attempt /\ toClient[i].attempt <= srv'.attempt
        BY <2>3
      <4>1. clientStore.mem < toClient[i].attempt /\ toClient[i].attempt <= srv.attempt
        BY DEF IInv, Attempts
      <4>2. toClient[i].attempt \in Nat
        <5>1. toClient[i] \in ServerSays /\ toClient[i].type = "activate"
          BY <1>0 DEF Admissions, NewAttempt
        <5> QED BY <5>1, Bounds, ServerKinds DEF Attempt
      <4> QED BY <1>0, <1>13, <4>1, <4>2
    <3>2. cli.pc \notin {"none", "store"} => clientStore.mem < cli.attempt
      BY DEF IInv, Attempts
    <3> QED BY <1>1, <1>13, <1>14, <3>1, <3>2 DEF Attempts
  <2>11. Settling' BY <1>1, <1>11, <1>14, <2>8 DEF IInv, Settling
  <2>12. Keys' BY <1>1, <1>3, <1>7, <1>14, <1>19, Places DEF IInv, Keys
  <2> QED BY <1>1, <1>10, <1>15, <1>16, <1>17, <2>6, <2>7, <2>9, <2>10, <2>11, <2>12 DEF IInv
<1> QED BY <1>7, <1>18, <1>19

(* The record is on its way to the disk, and there. *)
LEMMA SavedKeeps ==
  ASSUME IInv, Types', ServerSaved
  PROVE  IInv'
<1>0. /\ srv \in ServerEnd /\ history \in Past /\ serverStore \in ServerRecord
      /\ toClient \in Seq(ServerSays) /\ srv.attempt \in Nat
  BY Ways, Numbers DEF IInv, Types
<1>1. /\ serverStore.saving
      /\ serverStore' = [serverStore EXCEPT !.disk = serverStore.mem, !.saving = FALSE]
      /\ history' = [history EXCEPT !.stored = history.stored \union {serverStore.mem}]
      /\ link' = link /\ toServer' = toServer /\ cli' = cli /\ clientStore' = clientStore
      /\ srv.pc = "save" => /\ srv' = [srv EXCEPT !.pc = "acked"]
                            /\ toClient' = Append(toClient, Plain("finalize"))
      /\ srv.pc # "save" => srv' = srv /\ toClient' = toClient
  BY <1>0 DEF ServerSaved, Past, ServerRecord
<1>2. /\ serverStore'.mem = serverStore.mem /\ serverStore'.disk = serverStore.mem
      /\ serverStore'.saving = FALSE
      /\ history'.stored = history.stored \union {serverStore.mem}
      /\ history'.accepted = history.accepted /\ history'.offered = history.offered
      /\ history'.late = history.late /\ history'.refused = history.refused
      /\ history'.confused = history.confused
  BY <1>0, <1>1 DEF ServerRecord, Past
<1>3. Kept'
  <2>1. serverStore.mem \in history.accepted BY <1>1 DEF IInv, Kept
  <2> QED BY <1>1, <1>2, <2>1 DEF IInv, Kept
<1>4. CASE srv.pc # "save"
  <2>1. srv' = srv /\ toClient' = toClient BY <1>1, <1>4
  <2>2. FromClient' = FromClient /\ FromServer' = FromServer
    BY <1>1, <2>1 DEF FromClient, FromServer
  <2>3. Reset' BY <1>1, <2>1 DEF IInv, Reset
  <2>4. (Unanswered' <=> Unanswered) /\ (Answered' <=> Answered)
    BY <1>1, <1>2, <2>1, <2>2 DEF Unanswered, Answered, Asked, Holds
  <2>5. Rehandshake' BY <1>1, <2>1, <2>2, <2>4 DEF IInv, Rehandshake
  <2>6. Counting' BY <1>1, <2>1, <2>4 DEF IInv, Counting
  <2>7. Dialogue'
    <3>1. Unread' <=> Unread BY <2>1, <2>2 DEF Unread
    <3>2. ASSUME NEW k \in 0 .. Len(FromClient), NEW g \in BOOLEAN, Together(k, g)
          PROVE  Together(k, g)'
      <4>1. \A n, f, j : Said(n, f, j) => Said(n, f, j)' BY <2>1, <2>2 DEF Said
      <4>2. \A i, s : Word(i, s) => Word(i, s)' BY <2>1, <2>2 DEF Word
      <4>3. /\ \A f, P, h : Here(f, P, h) => Here(f, P, h)'
            /\ \A f, p, h : Acking(f, p, h) => Acking(f, p, h)'
            /\ First' = First /\ Coded' = Coded
        BY <1>1, <1>2, <2>1, <2>2 DEF Here, Acking, First, Coded
      <4>4. Opening(k, g) => Opening(k, g)' BY <2>1, <2>2, <4>1, <4>2, <4>3 DEF Opening
      <4>5. Waiting(g) => Waiting(g)' BY <2>1, <4>1, <4>2, <4>3 DEF Waiting
      <4>6. Proving(g) => Proving(g)' BY <2>1, <4>1, <4>2, <4>3 DEF Proving
      <4>7. Concluding(g) => Concluding(g)' BY <1>1, <2>1, <4>1, <4>2, <4>3 DEF Concluding
      <4> QED BY <1>1, <2>1, <2>2, <3>2, <4>4, <4>5, <4>6, <4>7 DEF Together
    <3> QED BY <2>1, <2>2, <3>1, <3>2 DEF IInv, Dialogue
  <2>8. Hearing' BY <1>1, <2>1, <2>2 DEF IInv, Hearing, Heard
  <2>9. Finishing' <=> Finishing BY <1>1, <2>2 DEF Finishing
  <2>10. Attempts' BY <1>1, <1>2, <2>1 DEF IInv, Attempts
  <2>11. Offers' BY <1>2, <2>2 DEF IInv, Offers
  <2>12. Settling' BY <1>1, <1>2, <1>4, <2>1, <2>9 DEF IInv, Settling
  <2>13. Keys' BY <1>1, <1>2, <2>1, <2>9 DEF IInv, Keys
  <2> QED BY <1>2, <1>3, <2>3, <2>5, <2>6, <2>7, <2>8, <2>10, <2>11, <2>12, <2>13 DEF IInv
<1>5. CASE srv.pc = "save"
  <2> DEFINE m == Plain("finalize")
  <2>1. m \in ServerSays /\ m.type = "finalize" /\ m.type \in Script
    BY ServerTalk, PlainTypes DEF Script
  <2> HIDE DEF m
  <2>2. toClient' = Append(toClient, m) BY <1>1, <1>5 DEF m
  <2>3. /\ srv'.pc = "acked" /\ srv'.attempt = srv.attempt /\ srv'.index = srv.index
        /\ srv'.method = srv.method /\ srv'.psk = srv.psk /\ srv'.moved = srv.moved
        /\ srv'.inbox = srv.inbox
    BY <1>0, <1>1, <1>5 DEF ServerEnd
  <2>4. PICK g \in BOOLEAN : Together(0, g) /\ (Waiting(g) \/ Proving(g) \/ Concluding(g))
    BY <1>5, Later
  <2>5. Said(0, g, 0) /\ Acking(g, "ack", 0)
    BY <1>5, <2>4 DEF Waiting, Proving, Concluding
  <2>6. /\ cli.index = srv.index /\ cli.attempt = srv.attempt /\ cli.method = srv.method
        /\ ~cli.rekeyed /\ Scripts(FromServer, Len(FromServer))
    BY <2>4 DEF Together
  <2>7. /\ Len(FromServer) \in Nat /\ Len(FromServer') = Len(FromServer) + 1
        /\ FromServer'[Len(FromServer) + 1] = m
        /\ Scripts(FromServer', Len(FromServer'))
    BY <1>1, <2>1, <2>2, <2>6, Adding
  <2>8. FromClient' = FromClient /\ Takings BY <1>1, <2>3 DEF FromClient, Takings
  <2>9. Adds BY <2>1, <2>2 DEF Adds
  <2>10. /\ srv.pc # "idle" /\ srv.pc \notin Rekeying /\ srv'.pc \notin Rekeying
         /\ srv'.pc # "idle" /\ srv.pc \notin {"prep", "rekey", "return"}
    BY <1>5, <2>3, Places
  <2>11. Reset' /\ Rehandshake' /\ Counting'
    BY <1>1, <2>3, <2>8, <2>9, <2>10, ServerFrame
  <2>12. cli.pc # "none" => cli.pc = "ack" /\ Len(FromServer) = 0 /\ ~g
    BY <2>5 DEF Acking
  <2>13. cli.pc # "none" => /\ Len(FromServer') = 1 /\ FromServer'[1].type = "finalize"
    BY <2>1, <2>7, <2>12
  <2>14. Acking(g, "ack", 1)' BY <1>1, <1>2, <2>5, <2>13 DEF Acking
  <2>15. Dialogue'
    <3>1. Said(0, g, 0)' BY <2>3, <2>5, <2>8 DEF Said
    <3>2. Concluding(g)' BY <2>3, <2>14, <3>1 DEF Concluding
    <3>3. Together(0, g)' BY <1>1, <2>3, <2>6, <2>7, <3>2 DEF Together
    <3>4. 0 \in 0 .. Len(FromClient')
      <4>1. Len(FromClient) \in Nat BY Ways DEF IInv
      <4> QED BY <2>8, <4>1
    <3> QED BY <3>3, <3>4 DEF Dialogue
  <2>16. Hearing'
    <3>1. cli.pc # "none" => Heard(Len(FromServer))'
      <4>1. cli'.pc = cli.pc BY <1>1
      <4> QED BY <2>12, <2>13, <4>1 DEF Heard
    <3>2. Len(FromServer') \in Nat BY <2>7
    <3> QED BY <1>1, <2>7, <2>10, <3>1, <3>2, HearingAdds
  <2>17. /\ Admissions(toClient') = Admissions(toClient)
         /\ \A i \in Admissions(toClient) : toClient'[i] = toClient[i]
    BY <2>9, AddsKept
  <2>18. Admissions(toClient) = {}
    <3>1. /\ Len(FromServer) = Len(cli.inbox) + Len(toClient) /\ Len(cli.inbox) \in Nat
          /\ Len(toClient) \in Nat
          /\ \A i \in 1 .. Len(toClient) : FromServer[Len(cli.inbox) + i] = toClient[i]
      BY ClientRest DEF IInv
    <3>2. \A i \in 1 .. Len(FromServer) : FromServer[i].type \in Script
      BY <2>6 DEF Scripts
    <3>3. ASSUME NEW i \in 1 .. Len(toClient) PROVE toClient[i].type # "activate"
      <4>1. Len(cli.inbox) + i \in 1 .. Len(FromServer) BY <3>1
      <4>2. FromServer[Len(cli.inbox) + i] = toClient[i] BY <3>1
      <4>3. toClient[i].type \in Script BY <3>2, <4>1, <4>2
      <4> QED BY <4>3 DEF Script
    <3> QED BY <3>3 DEF Admissions, NewAttempt
  <2>19. Attempts' BY <1>1, <1>2, <2>3, <2>10, <2>17 DEF IInv, Attempts
  <2>20. Offers' BY <1>2, <2>8 DEF IInv, Offers
  <2>21. Settling'
    <3>1. serverStore.mem = srv.attempt BY <1>5 DEF IInv, Settling
    <3>2. cli.pc # "store" BY <2>12
    <3> QED BY <1>1, <1>2, <2>3, <2>6, <2>17, <2>18, <3>1, <3>2 DEF IInv, Settling
  <2>22. Keys'
    <3>1. srv'.psk \notin Credentials BY <1>5, <2>3 DEF IInv, Keys
    <3>2. ~history.late => (cli.pc = "ack" \/ clientStore.mem = serverStore.mem) /\ ~history.refused
      BY <1>5 DEF IInv, Keys
    <3> QED BY <1>1, <1>2, <2>3, <3>1, <3>2 DEF Keys
  <2> QED BY <1>2, <1>3, <2>11, <2>15, <2>16, <2>19, <2>20, <2>21, <2>22 DEF IInv
<1> QED BY <1>4, <1>5

(* The record is acknowledged: the session is re-keyed onto it. *)
LEMMA AcknowledgedKeeps ==
  ASSUME IInv, Types', Acknowledged
  PROVE  IInv'
<1> DEFINE m == Handshake(serverStore.mem)
<1>0. /\ srv \in ServerEnd /\ toClient \in Seq(ServerSays)
  BY Ways DEF IInv, Types
<1>1. /\ srv.pc = "acked" /\ srv' = [srv EXCEPT !.pc = "rerec", !.moved = FALSE, !.mismatch = FALSE]
      /\ toClient' = Append(toClient, m)
      /\ link' = link /\ toServer' = toServer /\ cli' = cli /\ serverStore' = serverStore
      /\ clientStore' = clientStore /\ history' = history
  BY DEF Acknowledged
<1>2. /\ m \in ServerSays /\ m.type = "handshake" /\ m.psk = serverStore.mem /\ ~NewAttempt(m)
      /\ m.type \notin Script
  <2>1. m \in ServerSays BY ServerTalk, Bounds DEF IInv, Types, ServerRecord
  <2> QED BY <2>1 DEF Handshake, NewAttempt, Script
<1> HIDE DEF m
<1>3. /\ srv'.pc = "rerec" /\ srv'.attempt = srv.attempt /\ srv'.index = srv.index
      /\ srv'.method = srv.method /\ srv'.psk = srv.psk /\ srv'.moved = FALSE
      /\ srv'.inbox = srv.inbox
  BY <1>0, <1>1 DEF ServerEnd
<1>4. FromClient' = FromClient BY <1>1, <1>3 DEF FromClient
<1>5. /\ srv.pc # "idle" /\ srv.pc \notin Rekeying /\ srv'.pc \in Rekeying
      /\ srv'.pc \notin Exchanging \cup {"save", "acked", "idle", "rekey", "return", "prep"}
  BY <1>1, <1>3, Places
<1>6. link' = "up" BY <1>1, <1>5, Engaged
<1>7. Reset' BY <1>6 DEF Reset
<1>8. /\ NoHandshake(toClient, Len(toClient)) /\ NoHandshake(FromClient, Len(FromClient))
      /\ Older(FromClient, Len(FromClient), srv.index + 1)
      /\ srv.index = cli.index + Cardinality(Admissions(toClient)) /\ srv.psk = cli.psk
      /\ cli.rekeyed => cli.pc = "none" /\ toClient # <<>> /\ Head(toClient).type = "activate"
  BY <1>5, Steady
<1>9. /\ toClient' # <<>> /\ toClient'[Len(toClient')] = m
      /\ toClient # <<>> => Head(toClient') = Head(toClient)
      /\ NoHandshake(toClient', Len(toClient') - 1)
      /\ Admissions(toClient') = Admissions(toClient)
      /\ \A i \in Admissions(toClient) : toClient'[i] = toClient[i]
  BY <1>0, <1>1, <1>2, <1>8, AppendSays
<1>10. Unanswered' BY <1>1, <1>2, <1>3, <1>4, <1>8, <1>9 DEF Unanswered, Asked
<1>11. ~Answered' BY <1>9 DEF Answered
<1>12. Rehandshake' BY <1>1, <1>3, <1>4, <1>5, <1>8, <1>9, <1>10 DEF Rehandshake
<1>13. Counting' BY <1>1, <1>3, <1>8, <1>9 DEF Counting
<1>14. Dialogue' BY <1>5 DEF Dialogue
<1>15. /\ \E j \in 0 .. Len(FromServer') : Scripts(FromServer', j) /\ (cli'.pc # "none" => Heard(j)')
       /\ Finishing <=> Finishing'
  BY <1>1, <1>2, HearsOther
<1>16. Hearing' BY <1>1, <1>5, <1>15 DEF IInv, Hearing
<1>17. Attempts' BY <1>1, <1>3, <1>5, <1>9 DEF IInv, Attempts
<1>18. Offers' BY <1>1, <1>4 DEF IInv, Offers
<1>19. Kept' BY <1>1 DEF IInv, Kept
<1>20. Settling' BY <1>1, <1>3, <1>5, <1>9, <1>15 DEF IInv, Settling
<1>21. ASSUME ~history.late PROVE Finishing \/ clientStore.mem = serverStore.mem
  <2>1. cli.pc = "ack" \/ clientStore.mem = serverStore.mem BY <1>1, <1>21 DEF IInv, Keys
  <2>2. ASSUME cli.pc = "ack" PROVE Finishing
    <3>1. PICK g \in BOOLEAN : Together(0, g) /\ (Waiting(g) \/ Proving(g) \/ Concluding(g))
      BY <1>1, Later
    <3>2. Len(FromServer) = 1 /\ Scripts(FromServer, Len(FromServer))
      BY <1>1, <1>21, <2>2, <3>1 DEF Together, Waiting, Proving, Concluding, Acking
    <3>3. PICK j \in 0 .. Len(FromServer) : Scripts(FromServer, j) /\ Heard(j)
      BY <2>2 DEF IInv, Hearing
    <3>4. j = 1
      <4>1. 1 \in 1 .. Len(FromServer) BY <3>2
      <4>2. 1 <= j BY <3>2, <3>3, <4>1 DEF Scripts
      <4> QED BY <3>2, <3>3, <4>2
    <3>5. FromServer[1].type = "finalize" BY <2>2, <3>3, <3>4 DEF Heard
    <3>6. FromServer # <<>> BY <3>2
    <3> QED BY <2>2, <3>5, <3>6 DEF Finishing
  <2> QED BY <2>1, <2>2
<1>22. Keys'
  <2>1. /\ srv.psk \notin Credentials /\ (~history.late => ~history.refused)
    BY <1>1 DEF IInv, Keys
  <2> QED BY <1>1, <1>3, <1>5, <1>15, <1>21, <2>1 DEF Keys
<1> QED BY <1>1, <1>7, <1>12, <1>13, <1>14, <1>16, <1>17, <1>18, <1>19, <1>20, <1>22 DEF IInv

-----------------------------------------------------------------------------
(* The client. *)

(* Who is in an attempt is not waiting for an answer to a re-key. *)
LEMMA Attending ==
  ASSUME IInv, cli.pc # "none"
  PROVE  /\ ~cli.rekeyed /\ ~Answered /\ link = "up"
         /\ srv.index = cli.index + Cardinality(Admissions(toClient)) /\ srv.psk = cli.psk
         /\ cli.index \in Nat /\ srv.index \in Nat /\ cli.index <= srv.index
<1>1. ~cli.rekeyed BY DEF IInv, Rehandshake
<1>2. ~Answered BY <1>1 DEF Answered
<1>3. link = "up" BY Engaged
<1>4. toClient \in Seq(ServerSays) /\ cli.index \in Nat /\ srv.index \in Nat
  BY Ways, Numbers DEF IInv
<1>5. Cardinality(Admissions(toClient)) \in Nat BY <1>4, AdmissionsFinite
<1>6. srv.index = cli.index + Cardinality(Admissions(toClient)) /\ srv.psk = cli.psk
  BY <1>2 DEF IInv, Counting
<1>7. cli.index <= srv.index
  <2>1. \A a, b \in Nat : a <= a + b OBVIOUS
  <2> QED BY <1>4, <1>5, <1>6, <2>1
<1> QED BY <1>1, <1>2, <1>3, <1>4, <1>6, <1>7

(* Until the client reads an activation it counts one attempt less. *)
LEMMA Behind ==
  ASSUME IInv, cli.pc # "none", Unread
  PROVE  cli.index < srv.index
<1>1. toClient \in Seq(ServerSays) /\ Len(toClient) \in Nat BY Ways DEF IInv
<1>2. toClient[Len(toClient)] = Activate(srv.method, srv.attempt) /\ Len(toClient) \in 1 .. Len(toClient)
  <2>1. toClient # <<>> BY DEF Unread
  <2> QED BY <1>1, <2>1 DEF Unread
<1>3. NewAttempt(toClient[Len(toClient)])
  <2>1. srv.method # "none" BY Numbers DEF IInv, Method
  <2> QED BY <1>2, <2>1 DEF NewAttempt, Activate
<1>4. Admissions(toClient) # {} BY <1>2, <1>3 DEF Admissions
<1>5. Cardinality(Admissions(toClient)) \in Nat /\ Cardinality(Admissions(toClient)) # 0
  BY <1>1, <1>4, AdmissionsFinite, AdmissionsNone
<1>6. /\ srv.index = cli.index + Cardinality(Admissions(toClient))
      /\ cli.index \in Nat
  BY Attending
<1>7. \A a, b \in Nat : b # 0 => a < a + b OBVIOUS
<1> QED BY <1>5, <1>6, <1>7

(* The client says nothing, or one message more, that carries its own number. *)
Speaks == \/ toServer' = toServer
          \/ \E m \in ClientSays :
               /\ m.type # "handshake" /\ (Numbered(m) => m.index = cli.index)
               /\ m.type = "finalize" => m.psk \in history'.offered
               /\ toServer' = Append(toServer, m)

LEMMA SpeaksKeeps ==
  ASSUME IInv, cli.pc # "none", srv' = srv, toClient' = toClient, Speaks,
         history.offered \subseteq history'.offered
  PROVE  /\ NoHandshake(FromClient, Len(FromClient)) => NoHandshake(FromClient', Len(FromClient'))
         /\ Older(FromClient', Len(FromClient'), srv.index + 1)
         /\ Unread => Unread'
         /\ Offers'
         /\ \/ FromClient' = FromClient
            \/ \E m \in ClientSays : toServer' = Append(toServer, m) /\ FromClient' = Append(FromClient, m)
<1>1. /\ FromClient \in Seq(ClientSays) /\ Len(FromClient) \in Nat
      /\ Older(FromClient, Len(FromClient), srv.index + 1)
      /\ cli.index \in Nat /\ srv.index \in Nat /\ cli.index <= srv.index
      /\ srv.index + 1 \in Nat /\ cli.index < srv.index + 1
  <2>1. cli.index \in Nat /\ srv.index \in Nat /\ cli.index <= srv.index BY Attending
  <2>2. FromClient \in Seq(ClientSays) /\ Len(FromClient) \in Nat BY Ways DEF IInv
  <2>3. srv.index + 1 \in Nat /\ cli.index < srv.index + 1 BY <2>1
  <2> QED BY <2>1, <2>2, <2>3 DEF IInv, Rehandshake
<1>2. CASE toServer' = toServer
  <2>1. FromClient' = FromClient BY <1>2 DEF FromClient
  <2> QED BY <1>1, <2>1 DEF IInv, Offers, Unread
<1>3. ASSUME NEW m \in ClientSays, m.type # "handshake", Numbered(m) => m.index = cli.index,
             m.type = "finalize" => m.psk \in history'.offered, toServer' = Append(toServer, m)
      PROVE  /\ NoHandshake(FromClient, Len(FromClient)) => NoHandshake(FromClient', Len(FromClient'))
             /\ Older(FromClient', Len(FromClient'), srv.index + 1)
             /\ Unread => Unread'
             /\ Offers'
             /\ FromClient' = Append(FromClient, m)
  <2>1. FromClient' = Append(FromClient, m) BY <1>3, ClientSent DEF IInv
  <2>2. /\ NoHandshake(FromClient, Len(FromClient)) => NoHandshake(FromClient', Len(FromClient'))
        /\ \A x \in Nat : Older(FromClient, Len(FromClient), x) /\ (Numbered(m) => m.index < x)
                            => Older(FromClient', Len(FromClient'), x)
        /\ Len(FromClient') = Len(FromClient) + 1 /\ FromClient'[Len(FromClient) + 1] = m
        /\ \A i \in 1 .. Len(FromClient) : FromClient'[i] = FromClient[i]
    BY <1>1, <1>3, <2>1, AppendTalk
  <2>3. Numbered(m) => m.index < srv.index + 1 BY <1>1, <1>3
  <2>4. Older(FromClient', Len(FromClient'), srv.index + 1) BY <1>1, <2>2, <2>3
  <2>5. ASSUME Unread PROVE Unread'
    <3>1. Numbered(m) => m.index < srv.index BY <1>3, <2>5, Behind
    <3>2. Older(FromClient', Len(FromClient'), srv.index) BY <1>1, <2>2, <2>5, <3>1 DEF Unread
    <3> QED BY <2>5, <3>2 DEF Unread
  <2>6. Offers'
    <3> SUFFICES ASSUME NEW i \in 1 .. Len(FromClient) + 1, FromClient'[i].type = "finalize"
                 PROVE  FromClient'[i].psk \in history'.offered
      BY <2>2 DEF Offers
    <3>1. CASE i \in 1 .. Len(FromClient) BY <2>2, <3>1 DEF IInv, Offers
    <3>2. CASE i \notin 1 .. Len(FromClient)
      <4>1. i = Len(FromClient) + 1 BY <1>1, <3>2
      <4> QED BY <1>3, <2>2, <4>1
    <3> QED BY <3>1, <3>2
  <2> QED BY <2>1, <2>2, <2>4, <2>5, <2>6
<1> QED BY <1>2, <1>3 DEF Speaks

LEMMA ClientFrame ==
  ASSUME IInv, Types', cli.pc # "none", link' = link, srv' = srv, toClient' = toClient,
         serverStore' = serverStore, cli'.index = cli.index, cli'.psk = cli.psk,
         cli'.rekeyed = cli.rekeyed, Speaks, history.offered \subseteq history'.offered,
         \/ cli'.pc = "none" /\ cli.pc # "none"
         \/ cli'.pc # "none"
  PROVE  Reset' /\ Rehandshake' /\ Counting' /\ Offers'
<1>1. /\ ~cli.rekeyed /\ ~Answered /\ link = "up"
      /\ srv.index = cli.index + Cardinality(Admissions(toClient)) /\ srv.psk = cli.psk
  BY Attending
<1>2. /\ NoHandshake(FromClient, Len(FromClient)) => NoHandshake(FromClient', Len(FromClient'))
      /\ Older(FromClient', Len(FromClient'), srv.index + 1) /\ Offers'
  BY SpeaksKeeps
<1>3. Reset' BY <1>1 DEF Reset
<1>4. Unanswered => Unanswered' BY <1>2 DEF Unanswered, Asked
<1>5. Rehandshake' BY <1>1, <1>2, <1>4 DEF IInv, Rehandshake
<1>6. Counting' BY <1>1 DEF Counting
<1> QED BY <1>2, <1>3, <1>5, <1>6

(* What the client has said, with one message more. *)
LEMMA SaidMore ==
  ASSUME Types, NEW m \in ClientSays, FromClient' = Append(FromClient, m), srv' = srv,
         NEW k \in Nat, NEW j \in Nat, Said(k, FALSE, j)
  PROVE  /\ Said(k, FALSE, j + 1)'
         /\ m.type = "abort" => Said(k, TRUE, j)'
         /\ \A i \in 1 .. k + j : \A s : Word(i, s) => Word(i, s)'
         /\ \A s : /\ m.type = s
                   /\ s \in {"init", "pending"} => m.index = srv.index
                   /\ s = "finalize" => m.psk = srv.attempt
                   => Word(k + j + 1, s)'
         /\ FromClient'[Len(FromClient')] = m /\ Len(FromClient) = k + j
         /\ Len(FromClient') = k + j + 1
<1>1. FromClient \in Seq(ClientSays) BY Ways
<1>2. Len(FromClient) = k + j /\ Older(FromClient, k, srv.index) BY DEF Said
<1>3. /\ Len(FromClient') = Len(FromClient) + 1 /\ FromClient'[Len(FromClient) + 1] = m
      /\ \A i \in 1 .. Len(FromClient) : FromClient'[i] = FromClient[i]
  BY <1>1, AppendTalk
<1>4. /\ Len(FromClient') = k + j + 1 /\ FromClient'[k + j + 1] = m
      /\ \A i \in 1 .. k + j : FromClient'[i] = FromClient[i]
  BY <1>2, <1>3
<1>5. Older(FromClient', k, srv.index)
  <2>1. \A i \in 1 .. k : i \in 1 .. k + j OBVIOUS
  <2> QED BY <1>2, <1>4, <2>1 DEF Older
<1>6. k + j + 1 = k + (j + 1) + 0 /\ k + j + 1 = k + j + 1 OBVIOUS
<1>7. Said(k, FALSE, j + 1)' BY <1>4, <1>5, <1>6 DEF Said
<1>8. m.type = "abort" => Said(k, TRUE, j)' BY <1>4, <1>5 DEF Said
<1>9. \A i \in 1 .. k + j : \A s : Word(i, s) => Word(i, s)' BY <1>4 DEF Word
<1>10. \A s : /\ m.type = s
              /\ s \in {"init", "pending"} => m.index = srv.index
              /\ s = "finalize" => m.psk = srv.attempt
              => Word(k + j + 1, s)'
  BY <1>4 DEF Word
<1> QED BY <1>2, <1>4, <1>7, <1>8, <1>9, <1>10

(* By the place the client is at, how much of the exchange it has still to hear. *)
LEMMA Ear ==
  ASSUME IInv, cli.pc # "none"
  PROVE  \E j \in 0 .. Len(FromServer) :
           /\ Scripts(FromServer, j) /\ Heard(j) /\ j \in Nat
           /\ cli.pc \in {"start", "gate", "mint", "store"} => j = 0
           /\ cli.pc \in {"emit", "show", "auth", "confirm", "ack"} => j \in {0, 1}
<1>1. PICK j \in 0 .. Len(FromServer) : Scripts(FromServer, j) /\ Heard(j)
  BY DEF IInv, Hearing
<1>2. j \in Nat
  <2>1. Len(FromServer) \in Nat BY Ways DEF IInv
  <2> QED BY <2>1
<1>3. /\ cli.pc \in {"start", "gate", "mint", "store"} => j = 0
      /\ cli.pc \in {"emit", "show", "auth", "confirm", "ack"} => j \in {0, 1}
  BY <1>1 DEF Heard
<1> QED BY <1>1, <1>2, <1>3

(* An attempt that is in the dialogue has not been given up by its client. *)
LEMMA Present ==
  ASSUME NEW k, NEW g \in BOOLEAN, Together(k, g), cli.pc # "none"
  PROVE  ~g
<1> SUFFICES ASSUME g PROVE FALSE OBVIOUS
<1>1. \A P, h : ~Here(g, P, h) BY DEF Here
<1>2. \A p, h : ~Acking(g, p, h) BY DEF Acking
<1> QED BY <1>1, <1>2 DEF Together, Opening, Waiting, Proving, Concluding

LEMMA SaidGone ==
  ASSUME Types, NEW m \in ClientSays, m.type = "abort", FromClient' = Append(FromClient, m),
         srv' = srv, NEW n \in Nat
  PROVE  /\ Said(n, FALSE, 0) => Said(n, TRUE, 0)'
         /\ Said(n, FALSE, 1) => /\ Said(n, TRUE, 1)'
                                 /\ \A s : Word(n + 1, s) => Word(n + 1, s)'
         /\ Said(n, FALSE, 2) => /\ Said(n, TRUE, 2)'
                                 /\ \A s : Word(n + 1, s) => Word(n + 1, s)'
                                 /\ \A s : Word(n + 2, s) => Word(n + 2, s)'
<1>1. ASSUME NEW j \in {0, 1, 2}, Said(n, FALSE, j)
      PROVE  Said(n, TRUE, j)' /\ \A i \in 1 .. n + j : \A s : Word(i, s) => Word(i, s)'
  BY <1>1, SaidMore
<1>2. n + 1 \in 1 .. n + 1 /\ n + 1 \in 1 .. n + 2 /\ n + 2 \in 1 .. n + 2 OBVIOUS
<1>3. ASSUME Said(n, FALSE, 1) PROVE Said(n, TRUE, 1)' /\ \A s : Word(n + 1, s) => Word(n + 1, s)'
  BY <1>1, <1>2, <1>3
<1>4. ASSUME Said(n, FALSE, 2)
      PROVE  /\ Said(n, TRUE, 2)' /\ \A s : Word(n + 1, s) => Word(n + 1, s)'
             /\ \A s : Word(n + 2, s) => Word(n + 2, s)'
  BY <1>1, <1>2, <1>4
<1>5. Said(n, FALSE, 0) => Said(n, TRUE, 0)' BY <1>1
<1> QED BY <1>3, <1>4, <1>5

(* The client gives its attempt up, in band or because the server has. *)
LEMMA EndsKeep ==
  ASSUME IInv, Types', cli.pc # "none",
         link' = link, srv' = srv, toClient' = toClient, serverStore' = serverStore,
         clientStore' = clientStore,
         cli'.pc = "none", cli'.inbox = <<>>, cli'.index = cli.index, cli'.psk = cli.psk,
         cli'.rekeyed = cli.rekeyed, cli'.attempt = cli.attempt, cli'.method = cli.method,
         history'.confused = history.confused, history'.offered = history.offered,
         history'.accepted = history.accepted, history'.stored = history.stored,
         history'.refused = history.refused, history.late => history'.late,
         \/ /\ toServer' = toServer /\ FromServer # <<>> /\ FromServer[1].type = "abort"
            /\ cli.pc # "store"
         \/ /\ \E r \in Reasons : /\ toServer' = Append(toServer, Abort(r))
                                  /\ cli.pc = "start" => r = "user_cancelled"
            /\ cli.pc \in {"ack", "store"} => history'.late
  PROVE  IInv'
<1>0. /\ toClient \in Seq(ServerSays) /\ Len(toClient) \in Nat /\ cli.inbox \in Seq(ServerSays)
      /\ FromServer \in Seq(ServerSays) /\ Len(FromServer) \in Nat
      /\ FromServer = cli.inbox \o toClient
  BY Ways DEF IInv, FromServer
<1>1. \A r \in Reasons : Abort(r) \in ClientSays /\ Abort(r).type = "abort" /\ Abort(r).reason = r
  BY ClientTalk DEF Abort
<1>2. Speaks BY <1>1 DEF Speaks, Numbered
<1>3. history.offered \subseteq history'.offered OBVIOUS
<1>4. Reset' /\ Rehandshake' /\ Counting' /\ Offers' BY <1>2, <1>3, ClientFrame
<1>5. FromServer' = toClient BY <1>0, ClientEmpty DEF IInv
<1>6. \E j \in 0 .. Len(FromServer') : Scripts(FromServer', j)
  <2>1. PICK j \in 0 .. Len(FromServer) : Scripts(FromServer, j) BY DEF IInv, Hearing
  <2>2. Scripts(toClient, IF j <= Len(cli.inbox) THEN 0 ELSE j - Len(cli.inbox))
    BY <1>0, <2>1, ScriptsRest
  <2>3. (IF j <= Len(cli.inbox) THEN 0 ELSE j - Len(cli.inbox)) \in 0 .. Len(toClient)
    BY <2>2 DEF Scripts
  <2> QED BY <1>5, <2>2, <2>3
<1>7. Hearing' BY <1>6 DEF IInv, Hearing
<1>8. ~Finishing' BY DEF Finishing
<1>9. ASSUME NEW k \in 0 .. Len(FromClient), NEW g \in BOOLEAN, Together(k, g)
      PROVE  /\ ~g /\ Scripts(FromServer, Len(FromServer)) /\ k \in Nat
             /\ \E r \in Reasons : /\ toServer' = Append(toServer, Abort(r))
                                   /\ cli.pc = "start" => r = "user_cancelled"
             /\ cli.pc \in {"ack", "store"} => history'.late
  <2>1. ~g /\ Scripts(FromServer, Len(FromServer)) BY <1>9, Present DEF Together
  <2>2. FromServer # <<>> => FromServer[1].type \in Script
    <3>1. FromServer # <<>> => 1 \in 1 .. Len(FromServer) BY <1>0
    <3> QED BY <2>1, <3>1 DEF Scripts
  <2>3. Len(FromClient) \in Nat BY Ways DEF IInv
  <2> QED BY <2>1, <2>2, <2>3 DEF Script
<1>10. ASSUME NEW k \in 0 .. Len(FromClient), NEW g \in BOOLEAN, Together(k, g)
       PROVE  Together(k, TRUE)' /\ k \in 0 .. Len(FromClient')
  <2>1. PICK r \in Reasons : /\ toServer' = Append(toServer, Abort(r))
                             /\ cli.pc = "start" => r = "user_cancelled"
    BY <1>9, <1>10
  <2>2. /\ ~g /\ Scripts(FromServer, Len(FromServer)) /\ k \in Nat
        /\ cli.pc \in {"ack", "store"} => history'.late
    BY <1>9, <1>10
  <2> DEFINE m == Abort(r)
  <2>3. m \in ClientSays /\ m.type = "abort" /\ m.reason = r BY <1>1
  <2>4. toServer' = Append(toServer, m) BY <2>1
  <2> HIDE DEF m
  <2>5. FromClient' = Append(FromClient, m) BY <2>3, <2>4, ClientSent DEF IInv
  <2>6. /\ FromClient'[Len(FromClient')] = m /\ k \in 0 .. Len(FromClient')
    <3>1. FromClient \in Seq(ClientSays) BY Ways DEF IInv
    <3>2. /\ Len(FromClient) \in Nat /\ Len(FromClient') = Len(FromClient) + 1
          /\ FromClient'[Len(FromClient) + 1] = m
      BY <2>3, <2>5, <3>1, AppendTalk
    <3> QED BY <3>2
  <2>7. ASSUME NEW n \in Nat
        PROVE  /\ Said(n, FALSE, 0) => Said(n, TRUE, 0)'
               /\ Said(n, FALSE, 1) => /\ Said(n, TRUE, 1)'
                                       /\ \A s : Word(n + 1, s) => Word(n + 1, s)'
               /\ Said(n, FALSE, 2) => /\ Said(n, TRUE, 2)'
                                       /\ \A s : Word(n + 1, s) => Word(n + 1, s)'
                                       /\ \A s : Word(n + 2, s) => Word(n + 2, s)'
    BY <2>3, <2>5, SaidGone DEF IInv
  <2>8. /\ \A P, h : Here(TRUE, P, h)'
        /\ \A h : Acking(FALSE, "ack", h) => Acking(TRUE, "ack", h)'
        /\ \A h : Acking(FALSE, "store", h) => Acking(TRUE, "store", h)'
        /\ First' = First /\ Coded' = Coded
    BY <2>2 DEF Here, Acking, First, Coded
  <2>9. Scripts(FromServer', Len(FromServer'))
    <3>1. /\ Len(FromServer) = Len(cli.inbox) + Len(toClient) /\ Len(cli.inbox) \in Nat
      BY <1>0, JoinTypes
    <3>2. Scripts(toClient, IF Len(FromServer) <= Len(cli.inbox) THEN 0
                                                           ELSE Len(FromServer) - Len(cli.inbox))
      BY <1>0, <2>2, ScriptsRest
    <3>3. (IF Len(FromServer) <= Len(cli.inbox) THEN 0
                                           ELSE Len(FromServer) - Len(cli.inbox)) = Len(toClient)
      BY <1>0, <3>1
    <3> QED BY <1>5, <3>2, <3>3
  <2>10. 0 + 1 = 1 /\ 0 + 2 = 2 /\ 0 \in Nat OBVIOUS
  <2>11. ASSUME Opening(k, FALSE) PROVE Opening(k, TRUE)'
    <3>1. CASE Said(k, FALSE, 0) /\ Here(FALSE, {"start"}, 0)
      <4>1. cli.pc = "start" BY <3>1 DEF Here
      <4>2. FromClient'[Len(FromClient')].reason = "user_cancelled" BY <2>1, <2>3, <2>6, <4>1
      <4>3. Said(k, TRUE, 0)' BY <2>2, <2>7, <3>1
      <4> QED BY <2>8, <2>11, <4>2, <4>3 DEF Opening
    <3>2. CASE Coded /\ Said(k, FALSE, 1) /\ Word(k + 1, "pending")
      <4>1. Said(k, TRUE, 1)' /\ Word(k + 1, "pending")' BY <2>2, <2>7, <3>2
      <4> QED BY <2>8, <2>11, <3>2, <4>1 DEF Opening
    <3>3. CASE Coded /\ Said(k, FALSE, 2) /\ Word(k + 1, "pending") /\ Word(k + 2, "init")
      <4>1. Said(k, TRUE, 2)' /\ Word(k + 1, "pending")' /\ Word(k + 2, "init")'
        BY <2>2, <2>7, <3>3
      <4> QED BY <2>8, <2>11, <3>3, <4>1 DEF Opening
    <3>4. CASE Said(k, FALSE, 1) /\ Word(k + 1, "init")
      <4>1. Said(k, TRUE, 1)' /\ Word(k + 1, "init")' BY <2>2, <2>7, <3>4
      <4> QED BY <2>8, <2>11, <4>1 DEF Opening
    <3>5. CASE /\ ~Coded /\ Said(k, FALSE, 2) /\ Word(k + 1, "init") /\ Word(k + 2, "finalize")
               /\ Acking(FALSE, "ack", 0)
      <4>1. Said(k, TRUE, 2)' /\ Word(k + 1, "init")' /\ Word(k + 2, "finalize")'
        BY <2>2, <2>7, <3>5
      <4> QED BY <2>8, <2>11, <3>5, <4>1 DEF Opening
    <3> QED BY <2>11, <3>1, <3>2, <3>3, <3>4, <3>5 DEF Opening
  <2>12. /\ Said(0, FALSE, 0) => Said(0, TRUE, 0)'
         /\ Said(0, FALSE, 1) => /\ Said(0, TRUE, 1)'
                                 /\ \A s : Word(1, s) => Word(1, s)'
         /\ Said(0, FALSE, 2) => /\ Said(0, TRUE, 2)'
                                 /\ \A s : Word(1, s) => Word(1, s)'
                                 /\ \A s : Word(2, s) => Word(2, s)'
    BY <2>7, <2>10
  <2>13. Waiting(FALSE) => Waiting(TRUE)' BY <2>8, <2>12 DEF Waiting
  <2>14. Proving(FALSE) => Proving(TRUE)' BY <2>8, <2>12 DEF Proving
  <2>15. Concluding(FALSE) => Concluding(TRUE)' BY <2>8, <2>12 DEF Concluding
  <2>16. g = FALSE BY <2>2
  <2>17. Opening(k, FALSE) \/ Waiting(FALSE) \/ Proving(FALSE) \/ Concluding(FALSE)
    BY <1>10, <2>16 DEF Together
  <2>18. Opening(k, TRUE)' \/ Waiting(TRUE)' \/ Proving(TRUE)' \/ Concluding(TRUE)'
    BY <2>11, <2>13, <2>14, <2>15, <2>17
  <2> QED BY <1>10, <2>6, <2>9, <2>18 DEF Together
<1>11. Dialogue'
  <2>1. Unread => Unread' BY <1>2, <1>3, SpeaksKeeps
  <2> QED BY <1>10, <2>1 DEF IInv, Dialogue
<1>12. Attempts' BY DEF IInv, Attempts
<1>13. Kept' BY DEF IInv, Kept
<1>14. Settling' BY <1>8 DEF IInv, Settling
<1>15. Keys'
  <2>1. ASSUME ~history'.late, srv.pc \in {"save", "acked"} PROVE clientStore.mem = serverStore.mem
    <3>1. ~history.late BY <2>1
    <3>2. cli.pc = "ack" \/ clientStore.mem = serverStore.mem BY <2>1, <3>1 DEF IInv, Keys
    <3>3. cli.pc = "ack" => history'.late
      <4>1. PICK f \in BOOLEAN : Together(0, f) /\ (Waiting(f) \/ Proving(f) \/ Concluding(f))
        BY <2>1, Later
      <4>2. 0 \in 0 .. Len(FromClient)
        <5>1. Len(FromClient) \in Nat BY Ways DEF IInv
        <5> QED BY <5>1
      <4> QED BY <1>9, <4>1, <4>2
    <3> QED BY <2>1, <3>2, <3>3
  <2>2. ASSUME ~history'.late, srv.pc = "rerec" PROVE clientStore.mem = serverStore.mem
    <3>1. ~history.late BY <2>2
    <3>2. Finishing \/ clientStore.mem = serverStore.mem BY <2>2, <3>1 DEF IInv, Keys
    <3>3. ~Finishing
      <4>1. cli.pc = "store" => history'.late OBVIOUS
      <4>2. cli.pc = "ack" /\ FromServer[1].type = "finalize" => history'.late OBVIOUS
      <4> QED BY <2>2, <4>1, <4>2 DEF Finishing
    <3> QED BY <3>2, <3>3
  <2> QED BY <2>1, <2>2 DEF IInv, Keys
<1> QED BY <1>4, <1>7, <1>11, <1>12, <1>13, <1>14, <1>15 DEF IInv

(* A step within an attempt leaves the count, the keys and the records alone. *)
LEMMA GoesKeep ==
  ASSUME IInv, Types', cli.pc \notin {"none", "ack", "store"}, cli'.pc \notin {"none", "store"},
         link' = link, srv' = srv, toClient' = toClient, serverStore' = serverStore,
         clientStore'.mem = clientStore.mem, clientStore'.disk = clientStore.disk,
         cli'.index = cli.index, cli'.psk = cli.psk, cli'.rekeyed = cli.rekeyed,
         cli'.attempt = cli.attempt, cli'.pc = "ack" => ~cli'.cancellable,
         history'.confused = history.confused, history.offered \subseteq history'.offered,
         history'.accepted = history.accepted, history'.stored = history.stored,
         history'.refused = history.refused, history'.late = history.late,
         Speaks, ~Finishing', Hearing',
         \A k \in 0 .. Len(FromClient) : Together(k, FALSE) => Together(k, FALSE)'
  PROVE  IInv'
<1>1. Reset' /\ Rehandshake' /\ Counting' /\ Offers' BY ClientFrame
<1>2. Dialogue'
  <2>1. Unread => Unread' BY SpeaksKeeps
  <2>2. Len(FromClient) \in Nat /\ Len(FromClient') \in Nat /\ Len(FromClient) <= Len(FromClient')
    <3>1. FromClient \in Seq(ClientSays) BY Ways DEF IInv
    <3>2. \A m \in ClientSays : Len(Append(FromClient, m)) = Len(FromClient) + 1 /\ Len(FromClient) \in Nat
      BY <3>1, AppendTalk
    <3>3. Len(FromClient) \in Nat BY <3>1
    <3>5. ASSUME NEW m \in ClientSays, FromClient' = Append(FromClient, m)
          PROVE  Len(FromClient') = Len(FromClient) + 1
      BY <3>2, <3>5, Zenon
    <3>6. FromClient' = FromClient \/ Len(FromClient') = Len(FromClient) + 1
      BY <3>5, SpeaksKeeps
    <3>7. \A a \in Nat : \A b : b = a \/ b = a + 1 => b \in Nat /\ a <= b OBVIOUS
    <3>8. Len(FromClient') = Len(FromClient) \/ Len(FromClient') = Len(FromClient) + 1
      BY <3>6, Zenon
    <3> QED BY <3>3, <3>7, <3>8, Zenon
  <2>3. ASSUME NEW k \in 0 .. Len(FromClient), NEW g \in BOOLEAN, Together(k, g)
        PROVE  Together(k, FALSE)' /\ k \in 0 .. Len(FromClient')
    <3>1. g = FALSE BY <2>3, Present
    <3>2. \A a, b \in Nat : a <= b => \A n \in 0 .. a : n \in 0 .. b OBVIOUS
    <3>3. k \in 0 .. Len(FromClient') BY <2>2, <3>2, Zenon
    <3>4. Together(k, FALSE) BY <2>3, <3>1, Zenon
    <3> QED BY <3>3, <3>4, Zenon
  <2> QED BY <2>1, <2>3 DEF IInv, Dialogue
<1>3. Attempts' BY DEF IInv, Attempts
<1>4. Kept' BY DEF IInv, Kept
<1>5. ~Finishing
  <2>1. cli.pc # "ack" /\ cli.pc # "store" OBVIOUS
  <2> QED BY <2>1 DEF Finishing
<1>6. Settling' BY DEF IInv, Settling
<1>7. Keys' BY <1>5 DEF IInv, Keys
<1> QED BY <1>1, <1>2, <1>3, <1>4, <1>6, <1>7 DEF IInv

(* Nothing is said, or heard. *)
LEMMA Silent ==
  ASSUME srv' = srv, toServer' = toServer
  PROVE  /\ FromClient' = FromClient /\ First' = First /\ Coded' = Coded
         /\ \A n, f, j : Said(n, f, j) => Said(n, f, j)'
         /\ \A i, s : Word(i, s) => Word(i, s)'
<1>1. FromClient' = FromClient BY DEF FromClient
<1> QED BY <1>1 DEF Said, Word, First, Coded

LEMMA Deaf ==
  ASSUME cli'.inbox = cli.inbox, toClient' = toClient
  PROVE  FromServer' = FromServer
BY DEF FromServer

(* What the client hears next is what its place calls for. *)
LEMMA HeadHeard ==
  ASSUME IInv, cli.pc \in Listening, cli.inbox # <<>>, Head(cli.inbox).type # "abort"
  PROVE  /\ Head(cli.inbox).type = Expects[cli.pc] /\ cli.pc # "gate"
         /\ FromServer[1] = Head(cli.inbox) /\ Head(cli.inbox) \in ServerSays
         /\ \E j \in {1, 2} : /\ Scripts(FromServer, j)
                              /\ j = 2 => cli.pc = "sinit" /\ FromServer[2].type = "auth"
<1> DEFINE m == Head(cli.inbox)
<1>1. /\ FromServer # <<>> /\ FromServer[1] = m /\ FromServer \in Seq(ServerSays)
      /\ m \in ServerSays /\ cli.inbox[1] = m /\ 1 \in 1 .. Len(cli.inbox)
      /\ Len(FromServer) \in Nat /\ Len(FromServer) >= 1
  <2>1. cli.inbox \in Seq(ServerSays) /\ FromServer \in Seq(ServerSays) BY Ways DEF IInv
  <2>2. Head(FromServer) = m /\ FromServer # <<>> BY ClientTook DEF IInv
  <2>3. FromServer[1] = m /\ Len(FromServer) \in Nat /\ Len(FromServer) >= 1
    BY <2>1, <2>2, TailSays
  <2>4. m \in ServerSays /\ cli.inbox[1] = m /\ 1 \in 1 .. Len(cli.inbox) BY <2>1
  <2> QED BY <2>1, <2>2, <2>3, <2>4
<1> HIDE DEF m
<1>2. m.type \in Script
  <2>1. m.type \in PairingTypes BY <1>1 DEF IInv, Hearing
  <2> QED BY <1>1, <2>1, ServerKinds DEF PairingTypes, Script, m
<1>3. cli.pc # "none" BY DEF Listening
<1>4. PICK j \in 0 .. Len(FromServer) :
           /\ Scripts(FromServer, j) /\ Heard(j) /\ j \in Nat
           /\ cli.pc \in {"start", "gate", "mint", "store"} => j = 0
           /\ cli.pc \in {"emit", "show", "auth", "confirm", "ack"} => j \in {0, 1}
  BY <1>3, Ear
<1>5. j >= 1
  <2>1. 1 \in 1 .. Len(FromServer) BY <1>1
  <2>2. 1 <= j BY <1>1, <1>2, <1>4, <2>1 DEF Scripts
  <2> QED BY <1>4, <2>2
<1>6. j # 0 BY <1>5
<1>7. /\ m.type = Expects[cli.pc] /\ cli.pc # "gate" /\ j \in {1, 2}
      /\ j = 2 => cli.pc = "sinit" /\ FromServer[2].type = "auth"
  BY <1>1, <1>4, <1>6 DEF Heard, Expects, Listening
<1> QED BY <1>1, <1>4, <1>7 DEF m

(* The client takes the first message of its queue. *)
LEMMA Hears ==
  ASSUME IInv, cli.inbox # <<>>, cli'.inbox = Tail(cli.inbox), toClient' = toClient,
         NEW j \in {1, 2}, Scripts(FromServer, j)
  PROVE  /\ Len(FromServer) \in Nat /\ Len(FromServer) >= 1
         /\ Len(FromServer') \in Nat /\ Len(FromServer') = Len(FromServer) - 1
         /\ Scripts(FromServer', j - 1) /\ j - 1 \in 0 .. Len(FromServer')
         /\ Scripts(FromServer, Len(FromServer)) => Scripts(FromServer', Len(FromServer'))
         /\ Len(FromServer) = 2 => FromServer'[1] = FromServer[2]
         /\ j = 2 => FromServer'[1] = FromServer[2]
         /\ \A i \in 1 .. Len(cli'.inbox) : cli'.inbox[i].type \in PairingTypes
         /\ cli'.inbox # <<>> /\ cli'.inbox[1].type = "finalize"
              => j = 2 /\ FromServer[2].type = "finalize"
<1>1. FromServer \in Seq(ServerSays) /\ cli.inbox \in Seq(ServerSays) /\ toClient \in Seq(ServerSays)
  BY Ways DEF IInv
<1>2. FromServer' = Tail(FromServer) /\ FromServer # <<>> BY ClientTook DEF IInv
<1>3. /\ Len(FromServer) \in Nat /\ Len(FromServer) >= 1 /\ Len(FromServer') = Len(FromServer) - 1
      /\ \A i \in 1 .. Len(FromServer) - 1 : FromServer'[i] = FromServer[i + 1]
  BY <1>1, <1>2, TailSays
<1>4. \A n : Scripts(FromServer, n) => Scripts(FromServer', IF n = 0 THEN 0 ELSE n - 1)
  BY <1>1, <1>2, ScriptsTail
<1>5. Scripts(FromServer', j - 1) BY <1>4
<1>6. j - 1 \in 0 .. Len(FromServer') BY <1>5 DEF Scripts
<1>7. Scripts(FromServer, Len(FromServer)) => Scripts(FromServer', Len(FromServer'))
  <2>1. (IF Len(FromServer) = 0 THEN 0 ELSE Len(FromServer) - 1) = Len(FromServer') BY <1>3
  <2> QED BY <1>4, <2>1
<1>8. /\ Len(FromServer) = 2 => FromServer'[1] = FromServer[2]
      /\ j = 2 => FromServer'[1] = FromServer[2]
  <2>1. ASSUME Len(FromServer) >= 2 PROVE FromServer'[1] = FromServer[2]
    <3>1. 1 \in 1 .. Len(FromServer) - 1 /\ 1 + 1 = 2 BY <1>3, <2>1
    <3> QED BY <1>3, <3>1
  <2>2. j = 2 => Len(FromServer) >= 2 BY <1>3 DEF Scripts
  <2> QED BY <2>1, <2>2
<1>9. \A i \in 1 .. Len(cli'.inbox) : cli'.inbox[i].type \in PairingTypes
  <2>1. /\ Len(cli.inbox) \in Nat /\ Len(cli'.inbox) = Len(cli.inbox) - 1
        /\ \A i \in 1 .. Len(cli.inbox) - 1 : cli'.inbox[i] = cli.inbox[i + 1]
    BY <1>1, TailSays
  <2>2. \A i \in 1 .. Len(cli'.inbox) : i \in 1 .. Len(cli.inbox) - 1 /\ i + 1 \in 1 .. Len(cli.inbox)
    BY <2>1
  <2> QED BY <2>1, <2>2 DEF IInv, Hearing
<1>10. cli'.inbox # <<>> => FromServer'[1] = cli'.inbox[1] /\ FromServer' # <<>>
  <2>1. Tail(cli.inbox) \in Seq(ServerSays) BY <1>1
  <2>2. FromServer' = Tail(cli.inbox) \o toClient BY DEF FromServer
  <2> QED BY <1>1, <2>1, <2>2
<1>11. ASSUME cli'.inbox # <<>>, cli'.inbox[1].type = "finalize"
       PROVE  j = 2 /\ FromServer[2].type = "finalize"
  <2>1. FromServer'[1].type = "finalize" /\ FromServer' # <<>> BY <1>10, <1>11
  <2>2. 1 \in 1 .. Len(FromServer')
    <3>1. Tail(FromServer) \in Seq(ServerSays) BY <1>1, <1>2
    <3>2. FromServer' \in Seq(ServerSays) BY <1>2, <3>1, Zenon
    <3> QED BY <2>1, <3>2
  <2>3. 1 <= j - 1 BY <1>5, <2>1, <2>2 DEF Scripts, Script
  <2>4. j = 2 BY <2>3
  <2> QED BY <1>8, <2>1, <2>4
<1> QED BY <1>3, <1>5, <1>6, <1>7, <1>8, <1>9, <1>11

(* Where the client is not. *)
LEMMA Elsewhere ==
  ASSUME IInv
  PROVE  /\ \A P, h : cli.pc \notin P => ~Here(FALSE, P, h)
         /\ \A p, h : cli.pc # p => ~Acking(FALSE, p, h)
         /\ First \subseteq {"mint", "auth", "sinit"}
         /\ \A h : ~Coded => ~Here(FALSE, First \ {"mint"}, h)
<1>1. First \subseteq {"mint", "auth", "sinit"} /\ (~Coded => First = {"mint"})
  BY Numbers DEF IInv, First, FirstWait, Method, Coded
<1> QED BY <1>1 DEF Here, Acking

(* A round is counted and its code shown. *)
LEMMA ShowsKeep ==
  ASSUME IInv, Types', RoundCounted \/ CodeEmitted
  PROVE  IInv'
<1>0. cli \in ClientEnd /\ clientStore \in ClientRecord /\ history \in Past BY DEF IInv, Types
<1>1. /\ cli.pc \in {"emit", "show"} /\ cli'.pc \in {"show", "auth"}
      /\ cli'.index = cli.index /\ cli'.psk = cli.psk /\ cli'.rekeyed = cli.rekeyed
      /\ cli'.attempt = cli.attempt /\ cli'.method = cli.method /\ cli'.inbox = cli.inbox
      /\ cli'.acked = cli.acked
  BY <1>0 DEF RoundCounted, CodeEmitted, ClientEnd
<1>2. /\ link' = link /\ srv' = srv /\ toClient' = toClient /\ toServer' = toServer
      /\ serverStore' = serverStore
  BY DEF RoundCounted, CodeEmitted
<1>3. /\ clientStore'.mem = clientStore.mem /\ clientStore'.disk = clientStore.disk
  BY <1>0 DEF RoundCounted, CodeEmitted, ClientRecord
<1>4. /\ history'.confused = history.confused /\ history'.offered = history.offered
      /\ history'.accepted = history.accepted /\ history'.stored = history.stored
      /\ history'.refused = history.refused /\ history'.late = history.late
  BY <1>0 DEF RoundCounted, CodeEmitted, Past
<1>5. Speaks /\ history.offered \subseteq history'.offered BY <1>2, <1>4 DEF Speaks
<1>6. FromServer' = FromServer BY <1>1, <1>2, Deaf
<1>7. ~Finishing' BY <1>1 DEF Finishing
<1>8. Hearing'
  <2>1. \A j : Heard(j) => Heard(j)' BY <1>1, <1>6 DEF Heard
  <2> QED BY <1>1, <1>2, <1>6, <2>1 DEF IInv, Hearing
<1>9. ASSUME NEW k \in 0 .. Len(FromClient), Together(k, FALSE) PROVE Together(k, FALSE)'
  <2>1. /\ First' = First /\ Coded' = Coded
        /\ \A n, f, j : Said(n, f, j) => Said(n, f, j)'
        /\ \A i, s : Word(i, s) => Word(i, s)'
    BY <1>2, Silent
  <2>2. /\ \A P, h : cli.pc \notin P => ~Here(FALSE, P, h)
        /\ \A p, h : cli.pc # p => ~Acking(FALSE, p, h)
        /\ First \subseteq {"mint", "auth", "sinit"}
    BY Elsewhere
  <2>3. \A h : Here(FALSE, {"emit", "show", "auth"}, h) => Here(FALSE, {"emit", "show", "auth"}, h)'
    BY <1>1, <1>6 DEF Here
  <2>4. ~Opening(k, FALSE) BY <1>1, <2>2 DEF Opening
  <2>5. Waiting(FALSE) => Waiting(FALSE)' BY <1>1, <1>2, <2>1, <2>2, <2>3 DEF Waiting
  <2>6. Proving(FALSE) => Proving(FALSE)' BY <1>1, <1>2, <2>1, <2>2, <2>3 DEF Proving
  <2>7. ~Concluding(FALSE) BY <1>1, <2>2 DEF Concluding
  <2> QED BY <1>1, <1>2, <1>6, <1>9, <2>4, <2>5, <2>6, <2>7 DEF Together
<1>10. cli.pc \notin {"none", "ack", "store"} /\ cli'.pc \notin {"none", "store", "ack"} BY <1>1
<1> QED BY <1>1, <1>2, <1>3, <1>4, <1>5, <1>7, <1>8, <1>9, <1>10, GoesKeep

(* A round begins with server/pair-init. *)
LEMMA BeginsKeep ==
  ASSUME IInv, Types', cli.pc = "sinit", cli.inbox # <<>>, Head(cli.inbox).type # "abort",
         RoundBegins
  PROVE  IInv'
<1>0. cli \in ClientEnd BY DEF IInv, Types
<1>1. /\ cli'.pc = "emit" /\ cli'.inbox = Tail(cli.inbox)
      /\ cli'.index = cli.index /\ cli'.psk = cli.psk /\ cli'.rekeyed = cli.rekeyed
      /\ cli'.attempt = cli.attempt /\ cli'.method = cli.method
      /\ cli'.acked = cli.acked
  BY <1>0 DEF RoundBegins, Takes, ClientEnd
<1>2. /\ link' = link /\ srv' = srv /\ toClient' = toClient /\ toServer' = toServer
      /\ serverStore' = serverStore /\ clientStore' = clientStore /\ history' = history
  BY DEF RoundBegins
<1>3. cli.pc \in Listening BY DEF Listening
<1>4. PICK j \in {1, 2} : /\ Scripts(FromServer, j)
                          /\ j = 2 => FromServer[2].type = "auth"
  BY <1>3, HeadHeard
<1>5. /\ Len(FromServer) \in Nat /\ Len(FromServer) >= 1
      /\ Len(FromServer') \in Nat /\ Len(FromServer') = Len(FromServer) - 1
      /\ Scripts(FromServer', j - 1) /\ j - 1 \in 0 .. Len(FromServer')
      /\ Scripts(FromServer, Len(FromServer)) => Scripts(FromServer', Len(FromServer'))
      /\ j = 2 => FromServer'[1] = FromServer[2]
      /\ \A i \in 1 .. Len(cli'.inbox) : cli'.inbox[i].type \in PairingTypes
      /\ cli'.inbox # <<>> /\ cli'.inbox[1].type = "finalize"
           => j = 2 /\ FromServer[2].type = "finalize"
  BY <1>1, <1>2, <1>4, Hears
<1>6. Heard(j - 1)'
  <2>1. CASE j = 1 BY <2>1 DEF Heard
  <2>2. CASE j = 2
    <3>1. 2 - 1 = 1 OBVIOUS
    <3>2. Heard(1)' BY <1>1, <1>4, <1>5, <2>2 DEF Heard
    <3> QED BY <2>2, <3>1, <3>2
  <2> QED BY <1>4, <2>1, <2>2
<1>7. cli'.inbox # <<>> => cli'.inbox[1].type # "finalize" BY <1>4, <1>5
<1>8. Hearing' BY <1>1, <1>2, <1>5, <1>6, <1>7 DEF IInv, Hearing
<1>9. ASSUME NEW k \in 0 .. Len(FromClient), Together(k, FALSE) PROVE Together(k, FALSE)'
  <2>1. /\ First' = First /\ Coded' = Coded
        /\ \A n, f, i : Said(n, f, i) => Said(n, f, i)'
        /\ \A i, s : Word(i, s) => Word(i, s)'
    BY <1>2, Silent
  <2>2. /\ \A P, h : cli.pc \notin P => ~Here(FALSE, P, h)
        /\ \A p, h : cli.pc # p => ~Acking(FALSE, p, h)
    BY Elsewhere
  <2>3. \A P : ~Here(FALSE, P, 0) BY <1>5 DEF Here
  <2>4. /\ Here(FALSE, {"sinit"}, 1) => Here(FALSE, {"emit", "show", "auth"}, 0)'
        /\ Here(FALSE, {"sinit"}, 2) => Here(FALSE, {"emit", "show", "auth"}, 1)'
    BY <1>1, <1>5 DEF Here
  <2>5. ~Opening(k, FALSE) BY <2>2, <2>3 DEF Opening
  <2>6. Waiting(FALSE) => Waiting(FALSE)' BY <1>2, <2>1, <2>2, <2>3, <2>4 DEF Waiting
  <2>7. Proving(FALSE) => Proving(FALSE)' BY <1>2, <2>1, <2>2, <2>3, <2>4 DEF Proving
  <2>8. ~Concluding(FALSE) BY <2>2 DEF Concluding
  <2> QED BY <1>1, <1>2, <1>5, <1>9, <2>5, <2>6, <2>7, <2>8 DEF Together
<1>10. ~Finishing' BY <1>1 DEF Finishing
<1>11. Speaks BY <1>2 DEF Speaks
<1> QED BY <1>1, <1>2, <1>8, <1>9, <1>10, <1>11, GoesKeep

(* What the client says next. *)
Carries(m, s) ==
  /\ m.type = s
  /\ s \in {"init", "pending"} => m.index = srv.index
  /\ s = "finalize" => m.psk = srv.attempt

LEMMA SaidNext ==
  ASSUME Types, NEW m \in ClientSays, FromClient' = Append(FromClient, m), srv' = srv,
         NEW n \in Nat
  PROVE  /\ Said(n, FALSE, 0) => /\ Said(n, FALSE, 1)'
                                 /\ \A s : Carries(m, s) => Word(n + 1, s)'
         /\ Said(n, FALSE, 1) => /\ Said(n, FALSE, 2)'
                                 /\ \A s : Word(n + 1, s) => Word(n + 1, s)'
                                 /\ \A s : Carries(m, s) => Word(n + 2, s)'
<1>1. ASSUME NEW j \in {0, 1}, Said(n, FALSE, j)
      PROVE  /\ Said(n, FALSE, j + 1)'
             /\ \A i \in 1 .. n + j : \A s : Word(i, s) => Word(i, s)'
             /\ \A s : Carries(m, s) => Word(n + j + 1, s)'
  BY <1>1, SaidMore DEF Carries
<1>2. /\ 0 + 1 = 1 /\ 1 + 1 = 2 /\ n + 0 + 1 = n + 1 /\ n + 1 + 1 = n + 2
      /\ n + 1 \in 1 .. n + 1
  OBVIOUS
<1>3. ASSUME Said(n, FALSE, 0)
      PROVE  Said(n, FALSE, 0 + 1)' /\ \A s : Carries(m, s) => Word(n + 0 + 1, s)'
  BY <1>1, <1>3
<1>4. ASSUME Said(n, FALSE, 1)
      PROVE  /\ Said(n, FALSE, 1 + 1)' /\ \A s : Carries(m, s) => Word(n + 1 + 1, s)'
             /\ \A s : Word(n + 1, s) => Word(n + 1, s)'
  BY <1>1, <1>2, <1>4
<1> QED BY <1>2, <1>3, <1>4

LEMMA SaidFirst ==
  ASSUME Types, NEW m \in ClientSays, FromClient' = Append(FromClient, m), srv' = srv
  PROVE  /\ Said(0, FALSE, 0) => /\ Said(0, FALSE, 1)'
                                 /\ \A s : Carries(m, s) => Word(1, s)'
         /\ Said(0, FALSE, 1) => /\ Said(0, FALSE, 2)'
                                 /\ \A s : Word(1, s) => Word(1, s)'
                                 /\ \A s : Carries(m, s) => Word(2, s)'
<1>1. 0 + 1 = 1 /\ 0 + 2 = 2 /\ 0 \in Nat OBVIOUS
<1>2. /\ Said(0, FALSE, 0) => /\ Said(0, FALSE, 1)'
                              /\ \A s : Carries(m, s) => Word(0 + 1, s)'
      /\ Said(0, FALSE, 1) => /\ Said(0, FALSE, 2)'
                              /\ \A s : Word(0 + 1, s) => Word(0 + 1, s)'
                              /\ \A s : Carries(m, s) => Word(0 + 2, s)'
  BY <1>1, SaidNext
<1> QED BY <1>1, <1>2

(* Before it has heard anything of the exchange, its place does not matter. *)
LEMMA HearsNothing ==
  ASSUME IInv, cli.pc \in {"start", "gate", "mint"}, cli'.inbox = cli.inbox,
         cli'.acked = cli.acked, toClient' = toClient, srv' = srv, cli'.pc \notin {"none", "store"}
  PROVE  FromServer' = FromServer /\ Hearing' /\ ~Finishing'
<1>1. FromServer' = FromServer BY Deaf
<1>2. cli.pc # "none" OBVIOUS
<1>3. PICK j \in 0 .. Len(FromServer) :
        /\ Scripts(FromServer, j)
        /\ cli.pc \in {"start", "gate", "mint", "store"} => j = 0
  BY <1>2, Ear
<1>4. Scripts(FromServer, 0) /\ 0 \in 0 .. Len(FromServer) BY <1>3
<1>5. Heard(0)' BY DEF Heard
<1>6. Hearing' BY <1>1, <1>4, <1>5 DEF IInv, Hearing
<1>7. ~Finishing'
  <2>1. FromServer # <<>> => 1 \in 1 .. Len(FromServer)
    <3>1. FromServer \in Seq(ServerSays) BY Ways DEF IInv
    <3> QED BY <3>1
  <2>2. FromServer # <<>> => FromServer[1].type \notin Script BY <1>4, <2>1 DEF Scripts
  <2> QED BY <1>1, <2>2 DEF Finishing, Script
<1> QED BY <1>1, <1>6, <1>7

(* The attempt waits for its operator. *)
LEMMA GateKeeps ==
  ASSUME IInv, Types', cli.pc = "start", Gated, cli' = [cli EXCEPT !.pc = "gate"],
         toServer' = Append(toServer, [type |-> "pending", index |-> cli.index]),
         UNCHANGED <<link, toClient, srv, serverStore, clientStore, history>>
  PROVE  IInv'
<1> DEFINE m == [type |-> "pending", index |-> cli.index]
<1>0. cli \in ClientEnd /\ cli.index \in Nat BY Numbers DEF IInv, Types
<1>1. /\ cli'.pc = "gate" /\ cli'.inbox = cli.inbox /\ cli'.index = cli.index
      /\ cli'.psk = cli.psk /\ cli'.rekeyed = cli.rekeyed /\ cli'.attempt = cli.attempt
      /\ cli'.method = cli.method /\ cli'.acked = cli.acked
  BY <1>0 DEF ClientEnd
<1>2. m \in ClientSays /\ m.type = "pending" /\ m.index = cli.index BY <1>0, ClientTalk
<1>3. toServer' = Append(toServer, m) OBVIOUS
<1> HIDE DEF m
<1>4. FromClient' = Append(FromClient, m) BY <1>2, <1>3, ClientSent DEF IInv
<1>5. Speaks BY <1>2, <1>3 DEF Speaks
<1>6. FromServer' = FromServer /\ Hearing' /\ ~Finishing' BY <1>1, HearsNothing
<1>7. ASSUME NEW k \in 0 .. Len(FromClient), Together(k, FALSE) PROVE Together(k, FALSE)'
  <2>1. k \in Nat
    <3>1. Len(FromClient) \in Nat BY Ways DEF IInv
    <3> QED BY <3>1
  <2>2. /\ cli.index = srv.index /\ cli.attempt = srv.attempt /\ cli.method = srv.method
        /\ ~cli.rekeyed /\ Scripts(FromServer, Len(FromServer))
    BY <1>7 DEF Together
  <2>3. /\ \A P, h : cli.pc \notin P => ~Here(FALSE, P, h)
        /\ \A p, h : cli.pc # p => ~Acking(FALSE, p, h)
        /\ First \subseteq {"mint", "auth", "sinit"}
    BY Elsewhere
  <2>4. ~Waiting(FALSE) /\ ~Proving(FALSE) /\ ~Concluding(FALSE)
    BY <2>3 DEF Waiting, Proving, Concluding
  <2>5. srv.pc = "init" /\ Said(k, FALSE, 0) /\ Here(FALSE, {"start"}, 0)
    BY <1>7, <2>3, <2>4 DEF Together, Opening
  <2>6. Carries(m, "pending") BY <1>2, <2>2 DEF Carries
  <2>7. Said(k, FALSE, 1)' /\ Word(k + 1, "pending")'
    BY <1>2, <1>4, <2>1, <2>5, <2>6, SaidNext DEF IInv
  <2>8. Here(FALSE, {"gate"}, 0)' BY <1>1, <1>6, <2>5 DEF Here
  <2>9. Coded' BY <2>2 DEF Coded, Gated
  <2>10. Opening(k, FALSE)' BY <2>5, <2>7, <2>8, <2>9 DEF Opening
  <2> QED BY <1>1, <1>6, <2>2, <2>10 DEF Together
<1>8. cli.pc \notin {"none", "ack", "store"} /\ cli'.pc \notin {"none", "store", "ack"} BY <1>1
<1>9. history.offered \subseteq history'.offered OBVIOUS
<1> QED BY <1>1, <1>5, <1>6, <1>7, <1>8, <1>9, GoesKeep

(* The attempt begins, or its operator lets it. *)
LEMMA AdmittedKeeps ==
  ASSUME IInv, Types', cli.pc \in {"start", "gate"}, Admitted
  PROVE  IInv'
<1> DEFINE m == PairInit(cli.index)
<1>0. /\ cli \in ClientEnd /\ cli.index \in Nat /\ clientStore \in ClientRecord /\ history \in Past
      /\ cli.method \in Method
  BY Numbers DEF IInv, Types
<1>1. /\ cli'.pc = FirstWait[cli.method] /\ cli'.inbox = cli.inbox /\ cli'.index = cli.index
      /\ cli'.psk = cli.psk /\ cli'.rekeyed = cli.rekeyed /\ cli'.attempt = cli.attempt
      /\ cli'.method = cli.method /\ cli'.acked = cli.acked
  BY <1>0 DEF ClientEnd, Admitted
<1>2. m \in ClientSays /\ m.type = "init" /\ m.index = cli.index
  BY <1>0, ClientTalk DEF PairInit
<1>3. toServer' = Append(toServer, m) BY DEF Admitted
<1> HIDE DEF m
<1>4. /\ link' = link /\ toClient' = toClient /\ srv' = srv /\ serverStore' = serverStore
  BY DEF Admitted
<1>5. /\ clientStore'.mem = clientStore.mem /\ clientStore'.disk = clientStore.disk
      /\ history'.confused = history.confused /\ history'.offered = history.offered
      /\ history'.accepted = history.accepted /\ history'.stored = history.stored
      /\ history'.refused = history.refused /\ history'.late = history.late
  BY <1>0 DEF Admitted, RoundsReset, ClientRecord, Past
<1>6. FromClient' = Append(FromClient, m) BY <1>2, <1>3, <1>4, ClientSent DEF IInv
<1>7. Speaks /\ history.offered \subseteq history'.offered BY <1>2, <1>3, <1>5 DEF Speaks
<1>8. cli'.pc \in {"mint", "auth", "sinit"} BY <1>0, <1>1 DEF FirstWait, Method
<1>9. FromServer' = FromServer /\ Hearing' /\ ~Finishing' BY <1>1, <1>4, <1>8, HearsNothing
<1>10. ASSUME NEW k \in 0 .. Len(FromClient), Together(k, FALSE) PROVE Together(k, FALSE)'
  <2>1. k \in Nat
    <3>1. Len(FromClient) \in Nat BY Ways DEF IInv
    <3> QED BY <3>1
  <2>2. /\ cli.index = srv.index /\ cli.attempt = srv.attempt /\ cli.method = srv.method
        /\ ~cli.rekeyed /\ Scripts(FromServer, Len(FromServer))
    BY <1>10 DEF Together
  <2>3. /\ \A P, h : cli.pc \notin P => ~Here(FALSE, P, h)
        /\ \A p, h : cli.pc # p => ~Acking(FALSE, p, h)
        /\ First \subseteq {"mint", "auth", "sinit"}
    BY Elsewhere
  <2>4. Carries(m, "init") BY <1>2, <2>2 DEF Carries
  <2>5. /\ Said(k, FALSE, 0) => Said(k, FALSE, 1)' /\ Word(k + 1, "init")'
        /\ Said(k, FALSE, 1) => /\ Said(k, FALSE, 2)' /\ Word(k + 2, "init")'
                                /\ \A s : Word(k + 1, s) => Word(k + 1, s)'
        /\ Said(0, FALSE, 0) => Said(0, FALSE, 1)' /\ Word(1, "init")'
    BY <1>2, <1>4, <1>6, <2>1, <2>4, SaidNext, SaidFirst DEF IInv
  <2>6. /\ Here(FALSE, {"start"}, 0) => Here(FALSE, First, 0)'
        /\ Here(FALSE, {"gate"}, 0) => Here(FALSE, First, 0)'
        /\ First' = First /\ Coded' = Coded
    BY <1>1, <1>4, <1>9, <2>2 DEF Here, First, Coded
  <2>7. ~Proving(FALSE) /\ ~Concluding(FALSE) BY <2>3 DEF Proving, Concluding
  <2>8. Opening(k, FALSE) => Opening(k, FALSE)'
    <3>1. CASE Said(k, FALSE, 0) /\ Here(FALSE, {"start"}, 0) /\ srv.pc = "init"
      BY <1>4, <2>5, <2>6, <3>1 DEF Opening
    <3>2. CASE /\ Coded /\ Said(k, FALSE, 1) /\ Word(k + 1, "pending")
               /\ Here(FALSE, {"gate"}, 0) /\ srv.pc = "init"
      BY <1>4, <2>5, <2>6, <3>2 DEF Opening
    <3> QED BY <2>3, <3>1, <3>2 DEF Opening
  <2>9. Waiting(FALSE) => Waiting(FALSE)' BY <1>4, <2>3, <2>5, <2>6 DEF Waiting
  <2> QED BY <1>1, <1>4, <1>9, <1>10, <2>2, <2>7, <2>8, <2>9 DEF Together
<1>11. cli.pc \notin {"none", "ack", "store"} /\ cli'.pc \notin {"none", "store", "ack"} BY <1>8
<1> QED BY <1>1, <1>4, <1>5, <1>7, <1>9, <1>10, <1>11, GoesKeep

(* It answers what it heard. *)
LEMMA AnswersKeep ==
  ASSUME IInv, Types', cli.pc \in {"auth", "confirm"}, cli.inbox # <<>>,
         Head(cli.inbox).type # "abort", NEW t \in {"auth", "confirm", "retry"},
         toServer' = Append(toServer, Plain(t)),
         cli'.inbox = Tail(cli.inbox), cli'.index = cli.index, cli'.psk = cli.psk,
         cli'.rekeyed = cli.rekeyed, cli'.attempt = cli.attempt, cli'.method = cli.method,
         cli'.acked = cli.acked,
         \/ t = "auth" /\ cli.pc = "auth" /\ cli'.pc = "confirm"
         \/ t = "confirm" /\ cli.pc = "confirm" /\ cli'.pc = "mint"
         \/ t = "retry" /\ cli.pc = "confirm" /\ cli'.pc = "sinit" /\ cli.method = "dynamic",
         link' = link, srv' = srv, toClient' = toClient, serverStore' = serverStore,
         clientStore'.mem = clientStore.mem, clientStore'.disk = clientStore.disk,
         history'.confused = history.confused, history'.offered = history.offered,
         history'.accepted = history.accepted, history'.stored = history.stored,
         history'.refused = history.refused, history'.late = history.late
  PROVE  IInv'
<1> DEFINE m == Plain(t)
<1>1. m \in ClientSays /\ m.type = t BY ClientTalk, PlainTypes
<1>2. toServer' = Append(toServer, m) OBVIOUS
<1> HIDE DEF m
<1>3. FromClient' = Append(FromClient, m) BY <1>1, <1>2, ClientSent DEF IInv
<1>4. Speaks /\ history.offered \subseteq history'.offered BY <1>1, <1>2 DEF Speaks, Numbered
<1>5. cli.pc \in Listening BY DEF Listening
<1>6. Scripts(FromServer, 1) /\ 1 \in {1, 2} BY <1>5, HeadHeard
<1>7. /\ Len(FromServer) \in Nat /\ Len(FromServer) >= 1
      /\ Len(FromServer') \in Nat /\ Len(FromServer') = Len(FromServer) - 1
      /\ Scripts(FromServer', 1 - 1) /\ 1 - 1 \in 0 .. Len(FromServer')
      /\ Scripts(FromServer, Len(FromServer)) => Scripts(FromServer', Len(FromServer'))
      /\ \A i \in 1 .. Len(cli'.inbox) : cli'.inbox[i].type \in PairingTypes
      /\ cli'.inbox # <<>> => cli'.inbox[1].type # "finalize"
  BY <1>6, Hears
<1>8. Scripts(FromServer', 0) /\ 0 \in 0 .. Len(FromServer') BY <1>7
<1>9. Heard(0)' BY DEF Heard
<1>10. Hearing' BY <1>7, <1>8, <1>9 DEF IInv, Hearing
<1>11. ~Finishing' BY DEF Finishing
<1>12. ASSUME NEW k \in 0 .. Len(FromClient), Together(k, FALSE) PROVE Together(k, FALSE)'
  <2>1. /\ cli.index = srv.index /\ cli.attempt = srv.attempt /\ cli.method = srv.method
        /\ ~cli.rekeyed /\ Scripts(FromServer, Len(FromServer))
    BY <1>12 DEF Together
  <2>2. /\ \A P, h : cli.pc \notin P => ~Here(FALSE, P, h)
        /\ \A p, h : cli.pc # p => ~Acking(FALSE, p, h)
    BY Elsewhere
  <2>3. \A P : ~Here(FALSE, P, 0) BY <1>7 DEF Here
  <2>4. ~Opening(k, FALSE) /\ ~Waiting(FALSE) /\ ~Concluding(FALSE)
    BY <2>2, <2>3 DEF Opening, Waiting, Concluding
  <2>5. Carries(m, t) BY <1>1 DEF Carries
  <2>6. Said(0, FALSE, 0) => Said(0, FALSE, 1)' /\ Word(1, t)'
    BY <1>1, <1>3, <2>5, SaidFirst DEF IInv
  <2>7. \A P : Here(FALSE, P, 1) => Len(FromServer') = 0
    <3>1. Len(FromServer) = 1 => Len(FromServer') = 0 BY <1>7
    <3> QED BY <3>1 DEF Here
  <2>8. /\ Here(FALSE, {"emit", "show", "auth"}, 1) /\ t = "auth" => Here(FALSE, {"confirm"}, 0)'
        /\ Here(FALSE, {"confirm"}, 1) /\ t = "confirm" => Here(FALSE, {"mint"}, 0)'
        /\ Here(FALSE, {"confirm"}, 1) /\ t = "retry" => Here(FALSE, {"sinit"}, 0)'
    BY <2>7 DEF Here
  <2>9. Proving(FALSE) BY <1>12, <2>4 DEF Together
  <2>10. CASE t = "auth"
    <3>1. srv.pc = "auth" /\ Said(0, FALSE, 0) /\ Here(FALSE, {"emit", "show", "auth"}, 1)
      BY <2>2, <2>3, <2>9, <2>10 DEF Proving
    <3>2. Proving(FALSE)' BY <2>6, <2>8, <2>10, <3>1 DEF Proving
    <3> QED BY <1>7, <2>1, <3>2 DEF Together
  <2>11. CASE t # "auth"
    <3>1. srv.pc = "reply" /\ Said(0, FALSE, 0) /\ Here(FALSE, {"confirm"}, 1)
      BY <2>2, <2>3, <2>9, <2>11 DEF Proving
    <3>2. CASE t = "confirm"
      <4>1. Proving(FALSE)' BY <2>6, <2>8, <3>1, <3>2 DEF Proving
      <4> QED BY <1>7, <2>1, <4>1 DEF Together
    <3>3. CASE t = "retry"
      <4>1. srv.method = "dynamic" BY <2>1, <3>3
      <4>2. Proving(FALSE)' BY <2>6, <2>8, <3>1, <3>3, <4>1 DEF Proving
      <4> QED BY <1>7, <2>1, <4>2 DEF Together
    <3> QED BY <2>11, <3>2, <3>3
  <2> QED BY <2>10, <2>11
<1>13. cli.pc \notin {"none", "ack", "store"} /\ cli'.pc \notin {"none", "store", "ack"} OBVIOUS
<1> QED BY <1>4, <1>10, <1>11, <1>12, <1>13, GoesKeep

(* It offers the credential. *)
LEMMA OfferedKeeps ==
  ASSUME IInv, Types', CredentialOffered
  PROVE  IInv'
<1> DEFINE m == Finalize(cli.attempt)
<1>0. cli \in ClientEnd /\ cli.attempt \in Attempt /\ history \in Past
  BY DEF IInv, Types, ClientEnd
<1>1. /\ cli'.pc = "ack" /\ cli'.inbox = cli.inbox /\ cli'.index = cli.index
      /\ cli'.psk = cli.psk /\ cli'.rekeyed = cli.rekeyed /\ cli'.attempt = cli.attempt
      /\ cli'.method = cli.method /\ cli'.acked = cli.acked /\ ~cli'.cancellable
      /\ cli.pc = "mint"
  BY <1>0 DEF CredentialOffered, ClientEnd
<1>2. m \in ClientSays /\ m.type = "finalize" /\ m.psk = cli.attempt
  BY <1>0, ClientTalk DEF Finalize
<1>3. toServer' = Append(toServer, m) BY DEF CredentialOffered
<1> HIDE DEF m
<1>4. /\ link' = link /\ toClient' = toClient /\ srv' = srv /\ serverStore' = serverStore
      /\ clientStore' = clientStore
  BY DEF CredentialOffered
<1>5. /\ history'.confused = history.confused
      /\ history'.offered = history.offered \cup {cli.attempt}
      /\ history'.accepted = history.accepted /\ history'.stored = history.stored
      /\ history'.refused = history.refused /\ history'.late = history.late
  BY <1>0 DEF CredentialOffered, Past
<1>6. FromClient' = Append(FromClient, m) BY <1>2, <1>3, <1>4, ClientSent DEF IInv
<1>7. Speaks /\ history.offered \subseteq history'.offered
  BY <1>2, <1>3, <1>5 DEF Speaks, Numbered
<1>8. FromServer' = FromServer /\ Hearing' /\ ~Finishing' BY <1>1, <1>4, HearsNothing
<1>9. ASSUME NEW k \in 0 .. Len(FromClient), Together(k, FALSE) PROVE Together(k, FALSE)'
  <2>1. k \in Nat
    <3>1. Len(FromClient) \in Nat BY Ways DEF IInv
    <3> QED BY <3>1
  <2>2. /\ cli.index = srv.index /\ cli.attempt = srv.attempt /\ cli.method = srv.method
        /\ ~cli.rekeyed /\ Scripts(FromServer, Len(FromServer))
    BY <1>9 DEF Together
  <2>3. /\ \A P, h : cli.pc \notin P => ~Here(FALSE, P, h)
        /\ \A p, h : cli.pc # p => ~Acking(FALSE, p, h)
    BY Elsewhere
  <2>4. Coded => ~Here(FALSE, First, 0)
    <3>1. Coded => "mint" \notin First
      BY Numbers DEF IInv, First, FirstWait, Method, Coded
    <3> QED BY <1>1, <2>3, <3>1
  <2>5. Carries(m, "finalize") BY <1>2, <2>2 DEF Carries
  <2>6. /\ Said(k, FALSE, 1) => /\ Said(k, FALSE, 2)' /\ Word(k + 2, "finalize")'
                                /\ \A s : Word(k + 1, s) => Word(k + 1, s)'
        /\ Said(0, FALSE, 0) => Said(0, FALSE, 1)' /\ Word(1, "finalize")'
        /\ Said(0, FALSE, 1) => /\ Said(0, FALSE, 2)' /\ Word(2, "finalize")'
                                /\ \A s : Word(1, s) => Word(1, s)'
    BY <1>2, <1>4, <1>6, <2>1, <2>5, SaidNext, SaidFirst DEF IInv
  <2>7. /\ \A P : Here(FALSE, P, 0) => Acking(FALSE, "ack", 0)'
        /\ Coded' = Coded
    BY <1>1, <1>4, <1>8 DEF Here, Acking, Coded
  <2>8. Opening(k, FALSE) => Opening(k, FALSE)'
    <3>1. CASE /\ ~Coded /\ srv.pc = "init" /\ Said(k, FALSE, 1) /\ Word(k + 1, "init")
               /\ Here(FALSE, First, 0)
      BY <1>4, <2>6, <2>7, <3>1 DEF Opening
    <3> QED BY <1>1, <2>3, <2>4, <3>1 DEF Opening
  <2>9. ~Waiting(FALSE) BY <1>1, <2>3, <2>4 DEF Waiting
  <2>10. Proving(FALSE) => Proving(FALSE)' BY <1>1, <1>4, <2>3, <2>6, <2>7 DEF Proving
  <2>11. Concluding(FALSE) => Concluding(FALSE)' BY <1>1, <1>4, <2>3, <2>6, <2>7 DEF Concluding
  <2> QED BY <1>1, <1>4, <1>8, <1>9, <2>2, <2>8, <2>9, <2>10, <2>11 DEF Together
<1>10. cli.pc \notin {"none", "ack", "store"} /\ cli'.pc \notin {"none", "store"} BY <1>1
<1> QED BY <1>1, <1>4, <1>5, <1>7, <1>8, <1>9, <1>10, GoesKeep

(* The client takes the credential the server has stored. *)
LEMMA StoredKeeps ==
  ASSUME IInv, Types', cli.pc = "ack", cli.inbox # <<>>, Head(cli.inbox).type = "finalize",
         CredentialStored
  PROVE  IInv'
<1>0. /\ cli \in ClientEnd /\ clientStore \in ClientRecord /\ cli.attempt \in Nat /\ srv.attempt \in Nat
      /\ clientStore.mem \in Nat /\ clientStore.disk \in Nat
  BY Numbers DEF IInv, Types
<1>1. /\ cli'.pc = "store" /\ cli'.inbox = Tail(cli.inbox)
      /\ cli'.index = cli.index /\ cli'.psk = cli.psk /\ cli'.rekeyed = cli.rekeyed
      /\ cli'.attempt = cli.attempt /\ cli'.method = cli.method
      /\ cli'.acked = cli.acked /\ cli'.cancellable = cli.cancellable
  BY <1>0 DEF CredentialStored, Takes, ClientEnd
<1>2. /\ link' = link /\ srv' = srv /\ toClient' = toClient /\ toServer' = toServer
      /\ serverStore' = serverStore /\ history' = history
  BY DEF CredentialStored
<1>3. clientStore'.mem = cli.attempt /\ clientStore'.disk = clientStore.disk
  BY <1>0 DEF CredentialStored, ClientRecord
<1>4. cli.pc \in Listening /\ Head(cli.inbox).type # "abort" BY DEF Listening
<1>5. Scripts(FromServer, 1) /\ FromServer[1].type = "finalize"
  BY <1>4, HeadHeard
<1>6. /\ Len(FromServer) \in Nat /\ Len(FromServer) >= 1
      /\ Len(FromServer') \in Nat /\ Len(FromServer') = Len(FromServer) - 1
      /\ Scripts(FromServer', 1 - 1) /\ 1 - 1 \in 0 .. Len(FromServer')
      /\ Scripts(FromServer, Len(FromServer)) => Scripts(FromServer', Len(FromServer'))
      /\ \A i \in 1 .. Len(cli'.inbox) : cli'.inbox[i].type \in PairingTypes
  BY <1>1, <1>2, <1>5, Hears
<1>7. FromServer # <<>> BY ClientTook DEF IInv
<1>8. Finishing BY <1>5, <1>7 DEF Finishing
<1>9. /\ srv.pc \in {"acked", "rerec"} /\ cli.attempt = srv.attempt /\ Admissions(toClient) = {}
      /\ serverStore.mem = srv.attempt /\ srv.attempt \in history.stored /\ ~cli.cancellable
  BY <1>8 DEF IInv, Settling
<1>10. Speaks /\ history.offered \subseteq history'.offered BY <1>2 DEF Speaks
<1>11. Reset' /\ Rehandshake' /\ Counting' /\ Offers' BY <1>1, <1>2, <1>10, ClientFrame
<1>12. Hearing'
  <2>1. cli.inbox[1].type = "finalize"
    <3>1. cli.inbox \in Seq(ServerSays) BY Ways DEF IInv
    <3> QED BY <3>1
  <2>2. cli.acked BY <2>1 DEF IInv, Hearing
  <2>3. Scripts(FromServer', 0) /\ 0 \in 0 .. Len(FromServer') BY <1>6
  <2>4. Heard(0)' BY DEF Heard
  <2> QED BY <1>1, <1>2, <1>6, <2>2, <2>3, <2>4 DEF IInv, Hearing
<1>13. Dialogue'
  <2>1. CASE srv.pc = "rerec" BY <1>2, <2>1, Places DEF Dialogue
  <2>2. CASE srv.pc = "acked"
    <3>1. PICK g \in BOOLEAN : Together(0, g) /\ (Waiting(g) \/ Proving(g) \/ Concluding(g))
      BY <2>2, Later
    <3>2. g = FALSE BY <3>1, Present
    <3>3. Concluding(FALSE) BY <2>2, <3>1, <3>2 DEF Waiting, Proving
    <3>4. Said(0, FALSE, 0) /\ Acking(FALSE, "ack", 1) BY <2>2, <3>3 DEF Concluding, Acking
    <3>5. Len(FromServer) = 1 BY <3>4 DEF Acking
    <3>6. Len(FromServer') = 0 BY <1>6, <3>5
    <3>7. Said(0, FALSE, 0)' BY <1>2, <3>4, Silent
    <3>8. Acking(FALSE, "store", 0)' BY <1>1, <3>6 DEF Acking
    <3>9. Concluding(FALSE)' BY <1>2, <2>2, <3>7, <3>8 DEF Concluding
    <3>10. Together(0, FALSE)' BY <1>1, <1>2, <1>6, <3>1, <3>9 DEF Together
    <3>11. 0 \in 0 .. Len(FromClient')
      <4>1. FromClient' = FromClient /\ Len(FromClient) \in Nat BY <1>2, Silent, Ways DEF IInv
      <4> QED BY <4>1
    <3> QED BY <3>10, <3>11 DEF Dialogue
  <2> QED BY <1>9, <2>1, <2>2
<1>14. clientStore.mem < cli.attempt /\ cli.attempt \in 1 .. srv.attempt
  BY DEF IInv, Attempts
<1>15. Attempts' BY <1>0, <1>1, <1>2, <1>3, <1>9, <1>14 DEF IInv, Attempts
<1>16. Kept'
  <2>1. clientStore.disk <= clientStore.mem BY DEF IInv, Kept
  <2>2. clientStore.disk <= cli.attempt BY <1>0, <1>14, <2>1
  <2> QED BY <1>2, <1>3, <1>9, <2>2 DEF IInv, Kept
<1>17. Settling' BY <1>1, <1>2, <1>3, <1>9 DEF IInv, Settling
<1>18. Keys'
  <2>1. ASSUME ~history.late PROVE srv.psk \notin Credentials
    <3>1. srv.psk \in Credentials => serverStore.mem = clientStore.mem BY <2>1 DEF IInv, Keys
    <3>2. serverStore.mem # clientStore.mem BY <1>0, <1>9, <1>14
    <3> QED BY <3>1, <3>2
  <2>2. clientStore'.mem = serverStore'.mem BY <1>2, <1>3, <1>9
  <2> QED BY <1>1, <1>2, <1>3, <1>9, <2>1, <2>2 DEF IInv, Keys
<1> QED BY <1>2, <1>11, <1>12, <1>13, <1>15, <1>16, <1>17, <1>18 DEF IInv

(* A write completes that no attempt waits for. *)
LEMMA WrittenKeeps ==
  ASSUME IInv, Types', clientStore'.mem = clientStore.mem,
         clientStore'.disk \in {clientStore.disk, clientStore.mem},
         cli' = cli \/ \E w \in BOOLEAN : cli' = [cli EXCEPT !.window = w],
         link' = link, toClient' = toClient, toServer' = toServer, srv' = srv,
         serverStore' = serverStore, history' = history
  PROVE  IInv'
<1>0. cli \in ClientEnd /\ clientStore.mem \in Nat BY Numbers DEF IInv, Types
<1>1. /\ cli'.pc = cli.pc /\ cli'.inbox = cli.inbox /\ cli'.index = cli.index
      /\ cli'.psk = cli.psk /\ cli'.rekeyed = cli.rekeyed /\ cli'.attempt = cli.attempt
      /\ cli'.method = cli.method /\ cli'.acked = cli.acked
      /\ cli'.cancellable = cli.cancellable
  BY <1>0 DEF ClientEnd
<1>2. FromServer' = FromServer BY <1>1, Deaf
<1>3. /\ FromClient' = FromClient /\ First' = First /\ Coded' = Coded
      /\ \A n, f, j : Said(n, f, j) => Said(n, f, j)'
      /\ \A i, s : Word(i, s) => Word(i, s)'
  BY Silent
<1>4. Reset'
  <2>1. cli = [ClientAtRest EXCEPT !.window = cli.window]
          => cli' = [ClientAtRest EXCEPT !.window = cli'.window]
    BY <1>0 DEF ClientAtRest, ClientEnd
  <2> QED BY <2>1 DEF IInv, Reset
<1>5. (Unanswered' <=> Unanswered) /\ (Answered' <=> Answered)
  BY <1>1, <1>3 DEF Unanswered, Answered, Asked, Holds
<1>6. Rehandshake' BY <1>1, <1>3, <1>5 DEF IInv, Rehandshake
<1>7. Counting' BY <1>1, <1>5 DEF IInv, Counting
<1>8. Dialogue'
  <2>1. Unread' <=> Unread BY <1>3 DEF Unread
  <2>2. ASSUME NEW k \in 0 .. Len(FromClient), NEW g \in BOOLEAN, Together(k, g)
        PROVE  Together(k, g)'
    <3>1. /\ \A f, P, h : Here(f, P, h) => Here(f, P, h)'
          /\ \A f, p, h : Acking(f, p, h) => Acking(f, p, h)'
      BY <1>1, <1>2 DEF Here, Acking
    <3>2. Opening(k, g) => Opening(k, g)' BY <1>3, <3>1 DEF Opening
    <3>3. Waiting(g) => Waiting(g)' BY <1>3, <3>1 DEF Waiting
    <3>4. Proving(g) => Proving(g)' BY <1>3, <3>1 DEF Proving
    <3>5. Concluding(g) => Concluding(g)' BY <1>1, <1>3, <3>1 DEF Concluding
    <3> QED BY <1>1, <1>2, <2>2, <3>2, <3>3, <3>4, <3>5 DEF Together
  <2> QED BY <1>3, <2>1, <2>2 DEF IInv, Dialogue
<1>9. Hearing' BY <1>1, <1>2 DEF IInv, Hearing, Heard
<1>10. Finishing' <=> Finishing BY <1>1, <1>2 DEF Finishing
<1>11. Attempts' BY <1>1 DEF IInv, Attempts
<1>12. Offers' BY <1>3 DEF IInv, Offers
<1>13. Kept' BY <1>0 DEF IInv, Kept
<1>14. Settling' BY <1>1, <1>10 DEF IInv, Settling
<1>15. Keys' BY <1>1, <1>10 DEF IInv, Keys
<1> QED BY <1>4, <1>6, <1>7, <1>8, <1>9, <1>11, <1>12, <1>13, <1>14, <1>15 DEF IInv

(* The client's write completes and its attempt is over. *)
LEMMA FinishedKeeps ==
  ASSUME IInv, Types', ClientSaved
  PROVE  IInv'
<1>0. /\ cli \in ClientEnd /\ clientStore \in ClientRecord /\ toClient \in Seq(ServerSays)
      /\ cli.inbox \in Seq(ServerSays)
  BY Ways DEF IInv, Types
<1>1. /\ link' = link /\ srv' = srv /\ toClient' = toClient /\ toServer' = toServer
      /\ serverStore' = serverStore /\ history' = history
      /\ clientStore'.mem = clientStore.mem /\ clientStore'.disk = clientStore.mem
  BY <1>0 DEF ClientSaved, ClientRecord
<1>2. CASE cli.pc # "store"
  <2>1. cli' = cli BY <1>2 DEF ClientSaved
  <2> QED BY <1>1, <2>1, WrittenKeeps
<1>3. CASE cli.pc = "store"
  <2>1. /\ cli'.pc = "none" /\ cli'.inbox = <<>>
        /\ cli'.index = cli.index /\ cli'.psk = cli.psk /\ cli'.rekeyed = cli.rekeyed
        /\ cli'.attempt = cli.attempt /\ cli'.method = cli.method
    BY <1>0, <1>3 DEF ClientSaved, Ended, ClientEnd
  <2>2. Finishing BY <1>3 DEF Finishing
  <2>3. /\ srv.pc \in {"acked", "rerec"} /\ cli.attempt = srv.attempt /\ Admissions(toClient) = {}
        /\ serverStore.mem = srv.attempt /\ srv.attempt \in history.stored
        /\ clientStore.mem = cli.attempt
    BY <1>3, <2>2 DEF IInv, Settling
  <2>4. Speaks /\ history.offered \subseteq history'.offered BY <1>1 DEF Speaks
  <2>5. Reset' /\ Rehandshake' /\ Counting' /\ Offers' BY <1>1, <1>3, <2>1, <2>4, ClientFrame
  <2>6. FromServer' = toClient BY <1>0, <1>1, <2>1, ClientEmpty DEF IInv
  <2>7. PICK j \in 0 .. Len(FromServer) :
          /\ Scripts(FromServer, j)
          /\ cli.pc \in {"start", "gate", "mint", "store"} => j = 0
    BY <1>3, Ear
  <2>8. Scripts(toClient, 0) /\ 0 \in 0 .. Len(toClient)
    <3>1. Scripts(cli.inbox \o toClient, 0) BY <1>3, <2>7 DEF FromServer
    <3>2. Scripts(toClient, IF 0 <= Len(cli.inbox) THEN 0 ELSE 0 - Len(cli.inbox))
      BY <1>0, <3>1, ScriptsRest
    <3>3. 0 <= Len(cli.inbox) /\ Len(toClient) \in Nat BY <1>0
    <3>4. (IF 0 <= Len(cli.inbox) THEN 0 ELSE 0 - Len(cli.inbox)) = 0 BY <3>3
    <3>5. 0 \in 0 .. Len(toClient) BY <3>3
    <3> QED BY <3>2, <3>4, <3>5, Zenon
  <2>9. Hearing' BY <1>1, <2>1, <2>6, <2>8 DEF IInv, Hearing
  <2>10. Dialogue'
    <3>1. CASE srv.pc = "rerec" BY <1>1, <3>1, Places DEF Dialogue
    <3>2. CASE srv.pc = "acked"
      <4>1. PICK g \in BOOLEAN : Together(0, g) /\ (Waiting(g) \/ Proving(g) \/ Concluding(g))
        BY <3>2, Later
      <4>2. g = FALSE BY <1>3, <4>1, Present
      <4>3. Concluding(FALSE) BY <3>2, <4>1, <4>2 DEF Waiting, Proving
      <4>4. Said(0, FALSE, 0) /\ Acking(FALSE, "store", 0)
        BY <1>3, <3>2, <4>3 DEF Concluding, Acking
      <4>5. Len(FromServer) = 0 BY <4>4 DEF Acking
      <4>6. Len(toClient) = 0
        <5>1. Len(FromServer) = Len(cli.inbox) + Len(toClient) /\ Len(cli.inbox) \in Nat
              /\ Len(toClient) \in Nat
          BY ClientRest DEF IInv
        <5>2. \A a, b \in Nat : a + b = 0 => b = 0 OBVIOUS
        <5> QED BY <4>5, <5>1, <5>2, Zenon
      <4>7. Scripts(FromServer', Len(FromServer')) BY <2>6, <2>8, <4>6
      <4>8. Said(0, FALSE, 0)' BY <1>1, <4>4, Silent
      <4>9. Concluding(FALSE)' BY <1>1, <2>1, <3>2, <4>8 DEF Concluding
      <4>10. Together(0, FALSE)' BY <1>1, <2>1, <4>1, <4>7, <4>9 DEF Together
      <4>11. 0 \in 0 .. Len(FromClient')
        <5>1. FromClient' = FromClient /\ Len(FromClient) \in Nat BY <1>1, Silent, Ways DEF IInv
        <5> QED BY <5>1
      <4> QED BY <4>10, <4>11 DEF Dialogue
    <3> QED BY <2>3, <3>1, <3>2
  <2>11. ~Finishing' BY <2>1 DEF Finishing
  <2>12. Attempts' BY <1>1, <2>1 DEF IInv, Attempts
  <2>13. Kept'
    <3>1. clientStore.mem \in Nat BY Numbers DEF IInv
    <3> QED BY <1>1, <3>1 DEF IInv, Kept
  <2>14. Settling' BY <1>1, <2>1, <2>11 DEF IInv, Settling
  <2>15. Keys' BY <1>1, <2>1, <2>3 DEF IInv, Keys
  <2> QED BY <1>1, <2>5, <2>9, <2>10, <2>12, <2>13, <2>14, <2>15 DEF IInv
<1> QED BY <1>2, <1>3

LEMMA EndedFields ==
  ASSUME Types, cli' = Ended(cli) \/ \E w \in BOOLEAN : cli' = [Ended(cli) EXCEPT !.window = w]
  PROVE  /\ cli'.pc = "none" /\ cli'.inbox = <<>> /\ cli'.index = cli.index
         /\ cli'.psk = cli.psk /\ cli'.rekeyed = cli.rekeyed /\ cli'.attempt = cli.attempt
         /\ cli'.method = cli.method
<1>1. cli \in ClientEnd BY DEF Types
<1> QED BY <1>1 DEF Ended, ClientEnd

(* Its task reads its queue. *)
LEMMA ClientListensKeeps ==
  ASSUME IInv, Types', ClientListens
  PROVE  IInv'
<1> DEFINE m == Head(cli.inbox)
<1>0. /\ cli.pc \in Listening /\ cli.inbox # <<>> /\ cli \in ClientEnd
      /\ clientStore \in ClientRecord /\ history \in Past
  BY DEF ClientListens, IInv, Types
<1>1. \/ /\ m.type = "abort" /\ cli' = Ended(cli)
         /\ UNCHANGED <<link, toClient, toServer, srv, serverStore, clientStore, history>>
      \/ m.type \notin {"abort", Expects[cli.pc]} /\ Confused
      \/ m.type = "init" /\ cli.pc = "sinit" /\ RoundBegins
      \/ m.type = "auth" /\ cli.pc = "auth" /\ AuthExchanged(m)
      \/ m.type = "confirm" /\ cli.pc = "confirm" /\ ConfirmChecked
      \/ m.type = "finalize" /\ cli.pc = "ack" /\ CredentialStored
  BY ClientListensTo
<1>2. cli.pc # "none" /\ cli.pc # "store" BY <1>0 DEF Listening
<1>3. ASSUME m.type = "abort", cli' = Ended(cli),
             UNCHANGED <<link, toClient, toServer, srv, serverStore, clientStore, history>>
      PROVE  IInv'
  <2>1. FromServer # <<>> /\ FromServer[1] = m
    <3>1. FromServer \in Seq(ServerSays) BY Ways DEF IInv
    <3>2. Head(FromServer) = m /\ FromServer # <<>> BY <1>0, ClientTook DEF IInv
    <3> QED BY <3>1, <3>2, TailSays
  <2>2. /\ cli'.pc = "none" /\ cli'.inbox = <<>> /\ cli'.index = cli.index
        /\ cli'.psk = cli.psk /\ cli'.rekeyed = cli.rekeyed /\ cli'.attempt = cli.attempt
        /\ cli'.method = cli.method
    BY <1>3, EndedFields DEF IInv
  <2> QED BY <1>2, <1>3, <2>1, <2>2, EndsKeep
<1>4. ASSUME m.type \notin {"abort", Expects[cli.pc]} PROVE FALSE
  BY <1>0, <1>4, HeadHeard
<1>5. ASSUME m.type = "init", cli.pc = "sinit", RoundBegins PROVE IInv'
  BY <1>0, <1>5, BeginsKeep
<1>6. ASSUME m.type = "auth", cli.pc = "auth", AuthExchanged(m) PROVE IInv'
  <2>1. /\ cli'.inbox = Tail(cli.inbox) /\ cli'.index = cli.index /\ cli'.psk = cli.psk
        /\ cli'.rekeyed = cli.rekeyed /\ cli'.attempt = cli.attempt
        /\ cli'.method = cli.method /\ cli'.acked = cli.acked /\ cli'.pc = "confirm"
    BY <1>0, <1>6 DEF AuthExchanged, Sends, Takes, ClientEnd
  <2>2. /\ toServer' = Append(toServer, Plain("auth")) /\ link' = link /\ srv' = srv
        /\ toClient' = toClient /\ serverStore' = serverStore /\ clientStore' = clientStore
        /\ history' = history
    BY <1>6 DEF AuthExchanged, Sends
  <2> QED BY <1>0, <1>6, <2>1, <2>2, AnswersKeep
<1>7. ASSUME m.type = "confirm", cli.pc = "confirm", ConfirmChecked PROVE IInv'
  <2>1. CASE /\ cli' = [Takes(cli) EXCEPT !.pc = "mint"]
             /\ toServer' = Append(toServer, Plain("confirm"))
             /\ RoundsReset(cli.method = "dynamic")
             /\ UNCHANGED <<link, toClient, srv, serverStore>>
    <3>1. /\ cli'.inbox = Tail(cli.inbox) /\ cli'.index = cli.index /\ cli'.psk = cli.psk
          /\ cli'.rekeyed = cli.rekeyed /\ cli'.attempt = cli.attempt
          /\ cli'.method = cli.method /\ cli'.acked = cli.acked /\ cli'.pc = "mint"
      BY <1>0, <2>1 DEF Takes, ClientEnd
    <3>2. /\ clientStore'.mem = clientStore.mem /\ clientStore'.disk = clientStore.disk
          /\ history'.confused = history.confused /\ history'.offered = history.offered
          /\ history'.accepted = history.accepted /\ history'.stored = history.stored
          /\ history'.refused = history.refused /\ history'.late = history.late
      BY <1>0, <2>1 DEF RoundsReset, ClientRecord, Past
    <3> QED BY <1>0, <1>7, <2>1, <3>1, <3>2, AnswersKeep
  <2>2. CASE /\ cli.method = "dynamic"
             /\ Sends([Takes(cli) EXCEPT !.pc = "sinit", !.round = @ + 1], Plain("retry"))
    <3> DEFINE t == Takes(cli)
    <3>1. t = [cli EXCEPT !.inbox = Tail(cli.inbox)] BY <1>0 DEF Takes, ClientEnd
    <3>2. /\ t.inbox = Tail(cli.inbox) /\ t.index = cli.index /\ t.psk = cli.psk
          /\ t.rekeyed = cli.rekeyed /\ t.attempt = cli.attempt
          /\ t.method = cli.method /\ t.acked = cli.acked /\ t \in ClientEnd
      BY <1>0, <3>1, TakesTypes DEF ClientEnd
    <3>3. cli' = [t EXCEPT !.pc = "sinit", !.round = @ + 1] BY <2>2 DEF Sends
    <3> HIDE DEF t
    <3>4. cli' = [t EXCEPT !.pc = "sinit", !.round = t.round + 1] BY <3>2, <3>3 DEF ClientEnd
    <3>5. /\ cli'.inbox = Tail(cli.inbox) /\ cli'.index = cli.index /\ cli'.psk = cli.psk
          /\ cli'.rekeyed = cli.rekeyed /\ cli'.attempt = cli.attempt
          /\ cli'.method = cli.method /\ cli'.acked = cli.acked /\ cli'.pc = "sinit"
      BY <3>2, <3>4 DEF ClientEnd
    <3>6. /\ toServer' = Append(toServer, Plain("retry")) /\ link' = link /\ srv' = srv
          /\ toClient' = toClient /\ serverStore' = serverStore /\ clientStore' = clientStore
          /\ history' = history
      BY <2>2 DEF Sends
    <3> QED BY <1>0, <1>7, <2>2, <3>5, <3>6, AnswersKeep
  <2>3. ASSUME NEW w \in BOOLEAN,
               Sends([Ended(cli) EXCEPT !.window = w], Abort("pairing_code_mismatch"))
        PROVE  IInv'
    <3>1. cli' = [Ended(cli) EXCEPT !.window = w] BY <2>3 DEF Sends
    <3>2. /\ cli'.pc = "none" /\ cli'.inbox = <<>> /\ cli'.index = cli.index
          /\ cli'.psk = cli.psk /\ cli'.rekeyed = cli.rekeyed /\ cli'.attempt = cli.attempt
          /\ cli'.method = cli.method
      BY <3>1, EndedFields DEF IInv
    <3>3. /\ toServer' = Append(toServer, Abort("pairing_code_mismatch")) /\ link' = link
          /\ srv' = srv /\ toClient' = toClient /\ serverStore' = serverStore
          /\ clientStore' = clientStore /\ history' = history
      BY <2>3 DEF Sends
    <3>4. "pairing_code_mismatch" \in Reasons BY DEF Reasons, LeftoverReasons
    <3>5. cli.pc # "start" /\ cli.pc \notin {"ack", "store"} BY <1>7
    <3> QED BY <1>2, <3>2, <3>3, <3>4, <3>5, EndsKeep
  <2>4. cli.window \in BOOLEAN /\ (cli.window /\ cli.method # "static") \in BOOLEAN
    BY <1>0 DEF ClientEnd
  <2> QED BY <1>7, <2>1, <2>2, <2>3, <2>4 DEF ConfirmChecked
<1>8. ASSUME m.type = "finalize", cli.pc = "ack", CredentialStored PROVE IInv'
  BY <1>0, <1>8, StoredKeeps
<1> QED BY <1>1, <1>3, <1>4, <1>5, <1>6, <1>7, <1>8

(* A timer, the operator or a write ends or changes what the client does. *)
LEMMA StopsKeep ==
  ASSUME IInv, Types', ClientTimesOut \/ ClientCancels
  PROVE  IInv'
<1>0. cli \in ClientEnd /\ history \in Past BY DEF IInv, Types
<1>1. ASSUME cli.pc \in Timed, cli' = Ended(cli),
             toServer' = Append(toServer, Abort("attempt_timeout")),
             history' = [history EXCEPT !.late = @ \/ cli.pc \in {"ack", "store"}],
             UNCHANGED <<link, toClient, srv, serverStore, clientStore>>
      PROVE  IInv'
  <2>1. /\ cli'.pc = "none" /\ cli'.inbox = <<>> /\ cli'.index = cli.index
        /\ cli'.psk = cli.psk /\ cli'.rekeyed = cli.rekeyed /\ cli'.attempt = cli.attempt
        /\ cli'.method = cli.method
    BY <1>1, EndedFields DEF IInv
  <2>2. /\ history'.confused = history.confused /\ history'.offered = history.offered
        /\ history'.accepted = history.accepted /\ history'.stored = history.stored
        /\ history'.refused = history.refused
        /\ history'.late = (history.late \/ cli.pc \in {"ack", "store"})
    BY <1>0, <1>1 DEF Past
  <2>3. "attempt_timeout" \in Reasons BY DEF Reasons, LeftoverReasons
  <2>4. cli.pc # "none" /\ cli.pc # "start" BY <1>1 DEF Timed
  <2> QED BY <1>1, <2>1, <2>2, <2>3, <2>4, EndsKeep
<1>2. ASSUME Dropped, UNCHANGED <<serverStore, clientStore, history>> PROVE IInv'
  BY <1>2, DropsKeep
<1>3. ASSUME ClientCancels PROVE IInv'
  <2>1. cli' = [Ended(cli) EXCEPT !.window = FALSE] BY <1>3 DEF ClientCancels, Sends
  <2>2. /\ cli'.pc = "none" /\ cli'.inbox = <<>> /\ cli'.index = cli.index
        /\ cli'.psk = cli.psk /\ cli'.rekeyed = cli.rekeyed /\ cli'.attempt = cli.attempt
        /\ cli'.method = cli.method
    BY <2>1, EndedFields DEF IInv
  <2>3. /\ toServer' = Append(toServer, Abort("user_cancelled")) /\ link' = link
        /\ srv' = srv /\ toClient' = toClient /\ serverStore' = serverStore
        /\ clientStore' = clientStore /\ history' = history /\ cli.pc # "none"
    BY <1>3 DEF ClientCancels, Sends
  <2>4. cli.pc \notin {"ack", "store"} BY <1>3 DEF ClientCancels, IInv, Settling
  <2>5. "user_cancelled" \in Reasons BY DEF Reasons
  <2> QED BY <2>2, <2>3, <2>4, <2>5, EndsKeep
<1> QED BY <1>1, <1>2, <1>3 DEF ClientTimesOut

LEMMA WindowsKeep ==
  ASSUME IInv, Types', WindowOpens \/ WindowCloses
  PROVE  IInv'
BY WrittenKeeps DEF WindowOpens, WindowCloses

LEMMA BeginsOrWaits ==
  ASSUME IInv, Types', AttemptBegins \/ WindowAdmits
  PROVE  IInv'
<1>1. CASE /\ cli.pc = "start" /\ Gated
           /\ Sends([cli EXCEPT !.pc = "gate"], [type |-> "pending", index |-> cli.index])
  BY <1>1, GateKeeps DEF Sends
<1>2. CASE cli.pc \in {"start", "gate"} /\ Admitted BY <1>2, AdmittedKeeps
<1> QED BY <1>1, <1>2 DEF AttemptBegins, WindowAdmits

(* The client's reader takes a message that is not a handshake. *)
LEMMA ReadsTail ==
  ASSUME IInv, toClient # <<>>, Head(toClient).type # "handshake", toClient' = Tail(toClient),
         srv' = srv, toServer' = toServer, serverStore' = serverStore, link' = link,
         ~cli'.rekeyed
  PROVE  /\ Reset' /\ Rehandshake' /\ FromClient' = FromClient
         /\ srv.index = cli.index + (Cardinality(Admissions(toClient'))
                                       + (IF NewAttempt(Head(toClient)) THEN 1 ELSE 0))
         /\ Cardinality(Admissions(toClient')) \in Nat /\ srv.psk = cli.psk
         /\ \A i \in Admissions(toClient') :
              \E k \in Admissions(toClient) : toClient'[i] = toClient[k]
         /\ Admissions(toClient) = {} => Admissions(toClient') = {}
         /\ Unread /\ toClient' # <<>> => Unread'
         /\ Unread /\ toClient' = <<>> => Head(toClient) = Activate(srv.method, srv.attempt)
         /\ Head(toClient) \in ServerSays /\ toClient' \in Seq(ServerSays)
<1>0. toClient \in Seq(ServerSays) /\ cli.index \in Nat /\ srv.index \in Nat
  BY Ways, Numbers DEF IInv
<1>1. /\ toClient' \in Seq(ServerSays) /\ Head(toClient) = toClient[1]
      /\ Head(toClient) \in ServerSays
      /\ NoHandshake(toClient, Len(toClient)) => NoHandshake(toClient', Len(toClient'))
      /\ NoHandshake(toClient, Len(toClient) - 1) /\ toClient' # <<>>
           => NoHandshake(toClient', Len(toClient') - 1)
      /\ toClient' # <<>> => toClient'[Len(toClient')] = toClient[Len(toClient)]
      /\ toClient' = <<>> => Len(toClient) = 1 /\ toClient[Len(toClient)] = Head(toClient)
      /\ \A i \in Admissions(toClient') : i + 1 \in Admissions(toClient) /\ toClient'[i] = toClient[i + 1]
  <2>1. Head(toClient) \in ServerSays BY <1>0
  <2> QED BY <1>0, <2>1, TailSays
<1>2. FromClient' = FromClient BY DEF FromClient
<1>3. ~Answered BY DEF Answered
<1>4. srv.index = cli.index + Cardinality(Admissions(toClient)) /\ srv.psk = cli.psk
  BY <1>3 DEF IInv, Counting
<1>5. Reset' BY Engaged DEF Reset
<1>6. Unanswered => Unanswered'
  <2>1. ASSUME Unanswered PROVE toClient' # <<>> BY <1>1, <2>1 DEF Unanswered
  <2> QED BY <1>1, <1>2, <2>1 DEF Unanswered, Asked
<1>7. Rehandshake' BY <1>1, <1>2, <1>3, <1>6 DEF IInv, Rehandshake
<1>8. /\ Cardinality(Admissions(Tail(toClient))) =
           Cardinality(Admissions(toClient)) - (IF NewAttempt(Head(toClient)) THEN 1 ELSE 0)
      /\ Cardinality(Admissions(toClient)) \in Nat
      /\ Cardinality(Admissions(Tail(toClient))) \in Nat
  <2>1. Tail(toClient) \in Seq(ServerSays) BY <1>0
  <2> QED BY <1>0, <2>1, AdmissionsTail, AdmissionsFinite
<1>9. /\ srv.index = cli.index + (Cardinality(Admissions(toClient'))
                                    + (IF NewAttempt(Head(toClient)) THEN 1 ELSE 0))
      /\ Cardinality(Admissions(toClient')) \in Nat
  <2> DEFINE a == Cardinality(Admissions(toClient))
             b == Cardinality(Admissions(Tail(toClient)))
             d == IF NewAttempt(Head(toClient)) THEN 1 ELSE 0
  <2>1. a \in Nat /\ b \in Nat /\ d \in {0, 1} /\ b = a - d BY <1>8
  <2> HIDE DEF a, b, d
  <2>2. a = b + d BY <2>1
  <2>3. Cardinality(Admissions(toClient')) = b BY DEF b
  <2> QED BY <1>4, <2>1, <2>2, <2>3 DEF a, d
<1>10. \A i \in Admissions(toClient') :
         \E k \in Admissions(toClient) : toClient'[i] = toClient[k]
  BY <1>1
<1>11. Admissions(toClient) = {} => Admissions(toClient') = {} BY <1>10
<1>12. Unread /\ toClient' # <<>> => Unread' BY <1>1, <1>2 DEF Unread
<1>13. Unread /\ toClient' = <<>> => Head(toClient) = Activate(srv.method, srv.attempt)
  BY <1>1 DEF Unread
<1> QED BY <1>1, <1>2, <1>4, <1>5, <1>7, <1>9, <1>10, <1>11, <1>12, <1>13

(* Once it has handed over server/pair-finalize the reader waits. *)
LEMMA NotFinishing ==
  ASSUME IInv, toClient # <<>>, ~(cli.acked /\ cli.pc # "none"),
         Head(toClient).type # "finalize"
  PROVE  ~Finishing
<1> SUFFICES ASSUME Finishing PROVE FALSE OBVIOUS
<1>1. cli.pc # "none" BY DEF Finishing
<1>2. cli.pc # "store" BY <1>1 DEF IInv, Hearing
<1>3. FromServer[1].type = "finalize" BY <1>2 DEF Finishing
<1>4. cli.inbox \in Seq(ServerSays) /\ toClient \in Seq(ServerSays) BY Ways DEF IInv
<1>5. CASE cli.inbox = <<>>
  <2>1. FromServer = toClient BY <1>5, ClientEmpty DEF IInv
  <2> QED BY <1>3, <1>4, <2>1
<1>6. CASE cli.inbox # <<>>
  <2>1. FromServer[1] = cli.inbox[1] BY <1>4, <1>6 DEF FromServer
  <2> QED BY <1>1, <1>3, <1>6, <2>1 DEF IInv, Hearing
<1> QED BY <1>5, <1>6

(* What is in the connection is not part of an exchange the client is yet to enter. *)
LEMMA NotTogether ==
  ASSUME IInv, toClient # <<>>, Head(toClient).type \notin Script
  PROVE  /\ \A k, g : ~Together(k, g)
         /\ Scripts(toClient, 0)
<1>0. cli.inbox \in Seq(ServerSays) /\ toClient \in Seq(ServerSays) BY Ways DEF IInv
<1>1. /\ Len(FromServer) = Len(cli.inbox) + Len(toClient) /\ Len(cli.inbox) \in Nat
      /\ Len(toClient) \in Nat
      /\ \A i \in 1 .. Len(toClient) : FromServer[Len(cli.inbox) + i] = toClient[i]
  BY ClientRest DEF IInv
<1>2. 1 \in 1 .. Len(toClient) /\ toClient[1].type \notin Script BY <1>0
<1>3. /\ Len(cli.inbox) + 1 \in 1 .. Len(FromServer)
      /\ FromServer[Len(cli.inbox) + 1].type \notin Script
  BY <1>1, <1>2
<1>4. ASSUME NEW j, Scripts(FromServer, j) PROVE j <= Len(cli.inbox) /\ j \in Nat
  <2>1. j \in Nat BY <1>1, <1>4 DEF Scripts
  <2>2. ~(Len(cli.inbox) + 1 <= j) BY <1>3, <1>4 DEF Scripts
  <2> QED BY <1>1, <2>1, <2>2
<1>5. ~Scripts(FromServer, Len(FromServer))
  <2>1. ~(Len(FromServer) <= Len(cli.inbox)) BY <1>1, <1>2
  <2> QED BY <1>4, <2>1
<1>6. PICK j : Scripts(FromServer, j) BY DEF IInv, Hearing
<1>7. Scripts(toClient, IF j <= Len(cli.inbox) THEN 0 ELSE j - Len(cli.inbox))
  BY <1>0, <1>6, ScriptsRest DEF FromServer
<1>8. Scripts(toClient, 0) BY <1>4, <1>6, <1>7
<1> QED BY <1>5, <1>8 DEF Together

LEMMA ActivateFields ==
  ASSUME Types, NEW m \in ServerSays, m.type = "activate", ReadActivate(m)
  PROVE  /\ ~cli'.rekeyed /\ cli'.inbox = <<>> /\ cli'.psk = cli.psk
         /\ m.method = "none" => cli'.pc = "none" /\ cli'.index = cli.index
         /\ m.method # "none" =>
              /\ cli'.pc = "start" /\ cli'.index = cli.index + 1
              /\ cli'.method = m.method /\ cli'.attempt = m.attempt
<1> DEFINE freed == [Ended(cli) EXCEPT !.rekeyed = FALSE]
<1>0. cli \in ClientEnd /\ Ended(cli) \in ClientEnd BY EndedTypes DEF Types
<1>1. freed \in ClientEnd BY <1>0 DEF ClientEnd
<1>2. /\ ~freed.rekeyed /\ freed.inbox = <<>> /\ freed.psk = cli.psk /\ freed.pc = "none"
      /\ freed.index = cli.index
  BY <1>0 DEF Ended, ClientEnd
<1>3. /\ m.method = "none" => cli' = freed
      /\ m.method # "none" =>
           cli' = [freed EXCEPT !.pc = "start", !.method = m.method, !.attempt = m.attempt,
                                !.index = @ + 1, !.round = 1, !.cancellable = TRUE]
  BY DEF ReadActivate
<1> HIDE DEF freed
<1>4. m.method # "none" =>
        cli' = [freed EXCEPT !.pc = "start", !.method = m.method, !.attempt = m.attempt,
                             !.index = cli.index + 1, !.round = 1, !.cancellable = TRUE]
  BY <1>1, <1>2, <1>3 DEF ClientEnd
<1> QED BY <1>1, <1>2, <1>3, <1>4 DEF ClientEnd

(* server/activate: the client gives up what it was at and counts the attempt. *)
LEMMA ActivateReadKeeps ==
  ASSUME IInv, Types', toClient # <<>>, ~(cli.acked /\ cli.pc # "none"),
         Head(toClient).type = "activate", ReadActivate(Head(toClient)),
         serverStore' = serverStore, clientStore' = clientStore
  PROVE  IInv'
<1> DEFINE m == Head(toClient)
<1>1. /\ toClient' = Tail(toClient) /\ link' = link /\ toServer' = toServer /\ srv' = srv
      /\ history' = history
  BY DEF ReadActivate
<1>2. toClient \in Seq(ServerSays) /\ m \in ServerSays BY Ways DEF IInv
<1>3. /\ ~cli'.rekeyed /\ cli'.inbox = <<>> /\ cli'.psk = cli.psk
      /\ m.method = "none" => cli'.pc = "none" /\ cli'.index = cli.index
      /\ m.method # "none" =>
           /\ cli'.pc = "start" /\ cli'.index = cli.index + 1
           /\ cli'.method = m.method /\ cli'.attempt = m.attempt
  BY <1>2, ActivateFields DEF IInv
<1>4. NewAttempt(m) <=> m.method # "none" BY DEF NewAttempt
<1>5. /\ Reset' /\ Rehandshake' /\ FromClient' = FromClient
      /\ srv.index = cli.index + (Cardinality(Admissions(toClient'))
                                    + (IF NewAttempt(m) THEN 1 ELSE 0))
      /\ Cardinality(Admissions(toClient')) \in Nat /\ srv.psk = cli.psk
      /\ \A i \in Admissions(toClient') :
           \E k \in Admissions(toClient) : toClient'[i] = toClient[k]
      /\ Unread /\ toClient' # <<>> => Unread'
      /\ Unread /\ toClient' = <<>> => m = Activate(srv.method, srv.attempt)
      /\ toClient' \in Seq(ServerSays)
  <2>1. m.type # "handshake" OBVIOUS
  <2> QED BY <1>1, <1>3, <2>1, ReadsTail
<1>6. ~Finishing
  <2>1. m.type # "finalize" OBVIOUS
  <2> QED BY <2>1, NotFinishing
<1>7. (\A k, g : ~Together(k, g)) /\ Scripts(toClient, 0)
  <2>1. m.type \notin Script BY DEF Script
  <2> QED BY <2>1, NotTogether
<1>8. cli.index \in Nat /\ srv.index \in Nat /\ srv.attempt \in Nat /\ clientStore.mem \in Nat
  BY Numbers DEF IInv
<1> HIDE DEF m
<1>9. srv.index = cli'.index + Cardinality(Admissions(toClient'))
  <2>1. CASE NewAttempt(m)
    <3>1. srv.index = cli.index + (Cardinality(Admissions(toClient')) + 1) BY <1>5, <2>1
    <3>2. cli'.index = cli.index + 1 BY <1>3, <1>4, <2>1
    <3>3. \A a, b \in Nat : a + (b + 1) = (a + 1) + b OBVIOUS
    <3>4. cli.index + (Cardinality(Admissions(toClient')) + 1)
            = (cli.index + 1) + Cardinality(Admissions(toClient'))
      BY <1>5, <1>8, <3>3
    <3> QED BY <3>1, <3>2, <3>4
  <2>2. CASE ~NewAttempt(m)
    <3>1. srv.index = cli.index + (Cardinality(Admissions(toClient')) + 0) BY <1>5, <2>2
    <3>2. cli'.index = cli.index BY <1>3, <1>4, <2>2
    <3>3. \A b \in Nat : b + 0 = b OBVIOUS
    <3> QED BY <1>5, <3>1, <3>2, <3>3
  <2> QED BY <2>1, <2>2
<1>10. Counting' BY <1>1, <1>3, <1>5, <1>9 DEF Counting
<1>11. FromServer' = toClient' BY <1>3, <1>5, ClientEmpty DEF IInv
<1>12. Dialogue'
  <2>1. SUFFICES ASSUME srv.pc \in Exchanging \cup {"save", "acked"}
                 PROVE  Unread' \/ \E k \in 0 .. Len(FromClient') : Together(k, FALSE)'
    BY <1>1 DEF Dialogue
  <2>2. Unread BY <1>7, <2>1 DEF IInv, Dialogue
  <2>3. CASE toClient' # <<>> BY <1>5, <2>2, <2>3
  <2>4. CASE toClient' = <<>>
    <3>1. m = Activate(srv.method, srv.attempt) BY <1>5, <2>2, <2>4
    <3>2. m.method = srv.method /\ m.attempt = srv.attempt /\ m.method # "none"
      BY <3>1, Numbers DEF Activate, IInv, Method
    <3>3. /\ cli'.pc = "start" /\ cli'.method = srv.method /\ cli'.attempt = srv.attempt
      BY <1>3, <3>2
    <3>4. cli'.index = srv.index
      <4>1. Cardinality(Admissions(toClient')) = 0 BY <2>4, AdmissionsNone
      <4>2. cli'.index \in Nat BY Numbers DEF IInv, Types, ClientEnd
      <4>3. \A a \in Nat : a + 0 = a OBVIOUS
      <4> QED BY <1>9, <4>1, <4>2, <4>3
    <3>5. /\ Len(FromServer') = 0 /\ Scripts(FromServer', Len(FromServer'))
      BY <1>11, <2>4 DEF Scripts
    <3>6. Here(FALSE, {"start"}, 0)' BY <3>3, <3>5 DEF Here
    <3>7. PICK n \in Nat : n = Len(FromClient)
      <4>1. Len(FromClient) \in Nat BY Ways DEF IInv
      <4> QED BY <4>1
    <3>8. n = n + 0 + 0 BY <3>7
    <3>9. Said(n, FALSE, 0)' BY <1>1, <1>5, <2>2, <3>7, <3>8 DEF Said, Unread
    <3>10. Opening(n, FALSE)' BY <1>1, <2>2, <3>6, <3>9 DEF Opening, Unread
    <3>11. Together(n, FALSE)' BY <1>1, <1>3, <3>3, <3>4, <3>5, <3>10 DEF Together
    <3>12. n \in 0 .. Len(FromClient') BY <1>5, <3>7
    <3> QED BY <3>11, <3>12
  <2> QED BY <2>3, <2>4
<1>13. cli'.pc \in {"none", "start"} BY <1>3
<1>14. Hearing'
  <2>1. Scripts(Tail(toClient), IF 0 = 0 THEN 0 ELSE 0 - 1) BY <1>2, <1>7, ScriptsTail
  <2>2. Scripts(FromServer', 0) BY <1>1, <1>11, <2>1
  <2>3. 0 \in 0 .. Len(FromServer') BY <2>2 DEF Scripts
  <2>4. Heard(0)' BY DEF Heard
  <2>5. \A i \in 1 .. Len(cli'.inbox) : cli'.inbox[i].type \in PairingTypes BY <1>3
  <2> QED BY <1>1, <1>3, <1>13, <2>2, <2>3, <2>4, <2>5 DEF IInv, Hearing
<1>15. Attempts'
  <2>1. cli'.pc # "none" => clientStore.mem < cli'.attempt /\ cli'.attempt \in 1 .. srv.attempt
    <3> SUFFICES ASSUME cli'.pc # "none"
                 PROVE  clientStore.mem < cli'.attempt /\ cli'.attempt \in 1 .. srv.attempt
      OBVIOUS
    <3>1. NewAttempt(m) /\ cli'.attempt = m.attempt BY <1>3, <1>4
    <3>2. toClient[1] = m /\ 1 \in 1 .. Len(toClient) BY <1>2 DEF m
    <3>3. 1 \in Admissions(toClient) BY <3>1, <3>2 DEF Admissions
    <3>4. clientStore.mem < m.attempt /\ m.attempt <= srv.attempt
      BY <3>2, <3>3 DEF IInv, Attempts
    <3>5. m.attempt \in Nat BY <1>2, <3>1, ServerKinds, Bounds DEF NewAttempt, Attempt
    <3> QED BY <1>8, <3>1, <3>4, <3>5
  <2>2. \A i \in Admissions(toClient') :
          clientStore.mem < toClient'[i].attempt /\ toClient'[i].attempt <= srv.attempt
    BY <1>5 DEF IInv, Attempts
  <2> QED BY <1>1, <2>1, <2>2 DEF IInv, Attempts
<1>16. Offers' BY <1>1, <1>5 DEF IInv, Offers
<1>17. Kept' BY <1>1 DEF IInv, Kept
<1>18. ~Finishing' BY <1>13 DEF Finishing
<1>19. Settling' BY <1>1, <1>13, <1>18 DEF IInv, Settling
<1>20. Keys'
  <2>1. srv.pc \notin {"save", "acked"}
    BY <1>7, Places DEF IInv, Dialogue, Unread
  <2> QED BY <1>1, <1>6, <2>1 DEF IInv, Keys
<1> QED BY <1>1, <1>5, <1>10, <1>12, <1>14, <1>15, <1>16, <1>17, <1>19, <1>20 DEF IInv

(* server/handshake: the client answers it, or refuses a credential it does not hold. *)
LEMMA HandshakeReadKeeps ==
  ASSUME IInv, Types', toClient # <<>>, ~(cli.acked /\ cli.pc # "none"),
         Head(toClient).type = "handshake", ReadHandshake(Head(toClient)),
         serverStore' = serverStore, clientStore' = clientStore
  PROVE  IInv'
<1> DEFINE m == Head(toClient)
<1>1. /\ toClient \in Seq(ServerSays) /\ m \in ServerSays /\ m = toClient[1]
      /\ 1 \in 1 .. Len(toClient) /\ Len(toClient) \in Nat
      /\ FromClient \in Seq(ClientSays) /\ cli \in ClientEnd /\ history \in Past
      /\ srv.index + 1 \in Nat
  <2>1. /\ toClient \in Seq(ServerSays) /\ FromClient \in Seq(ClientSays) /\ srv.index \in Nat
        /\ cli \in ClientEnd /\ history \in Past
    BY Ways, Numbers DEF IInv, Types
  <2>2. /\ m \in ServerSays /\ m = toClient[1] /\ 1 \in 1 .. Len(toClient)
        /\ Len(toClient) \in Nat
    BY <2>1
  <2>3. \A n \in Nat : n + 1 \in Nat OBVIOUS
  <2> QED BY <2>1, <2>2, <2>3
<1>2. ~Finishing
  <2>1. m.type # "finalize" OBVIOUS
  <2> QED BY <2>1, NotFinishing
<1>3. srv.pc \in Rekeying
  <2>1. ~NoHandshake(toClient, Len(toClient)) BY <1>1 DEF NoHandshake
  <2> QED BY <2>1 DEF IInv, Rehandshake
<1>4. Unanswered BY <1>3 DEF IInv, Rehandshake, Answered
<1>5. Len(toClient) = 1
  <2>1. NoHandshake(toClient, Len(toClient) - 1) BY <1>4 DEF Unanswered
  <2>2. 1 \notin 1 .. Len(toClient) - 1 BY <1>1, <2>1 DEF NoHandshake
  <2>3. \A n \in Nat : 1 \in 1 .. n /\ 1 \notin 1 .. n - 1 => n = 1 OBVIOUS
  <2> QED BY <1>1, <2>2, <2>3, Zenon
<1>6. Asked(m.psk) /\ NoHandshake(FromClient, Len(FromClient))
  BY <1>1, <1>4, <1>5 DEF Unanswered
<1>7. m.psk \in Psks /\ m = Handshake(m.psk) /\ m \in ClientSays
  <2>1. m.psk \in Psks /\ m = Handshake(m.psk) BY <1>1, ServerKinds
  <2> QED BY <2>1, ClientTalk
<1>8. m.type = "handshake" OBVIOUS
<1>9. CASE Holds(m.psk)
  <2>1. /\ cli' = [Ended(cli) EXCEPT !.psk = m.psk, !.index = 0, !.rekeyed = TRUE]
        /\ toServer' = Append(toServer, m) /\ toClient' = Tail(toClient)
        /\ link' = link /\ srv' = srv /\ history' = history
    BY <1>9 DEF ReadHandshake
  <2>2. /\ cli'.psk = m.psk /\ cli'.index = 0 /\ cli'.rekeyed /\ cli'.pc = "none"
        /\ cli'.inbox = <<>>
    BY <1>1, <2>1 DEF Ended, ClientEnd
  <2>3. toClient' = <<>> BY <1>1, <1>5, <2>1
  <2> HIDE DEF m
  <2>4. FromClient' = Append(FromClient, m) BY <1>7, <2>1, ClientSent DEF IInv
  <2>5. /\ Len(FromClient) \in Nat /\ Len(FromClient') = Len(FromClient) + 1
        /\ \A i \in 1 .. Len(FromClient) : FromClient'[i] = FromClient[i]
        /\ FromClient'[Len(FromClient) + 1] = m /\ FromClient' # <<>>
        /\ NoHandshake(FromClient', Len(FromClient') - 1)
        /\ Older(FromClient', Len(FromClient'), srv.index + 1)
    <3>1. ~Numbered(m) BY <1>8 DEF Numbered
    <3>2. Older(FromClient, Len(FromClient), srv.index + 1) BY DEF IInv, Rehandshake
    <3> QED BY <1>1, <1>6, <1>7, <2>4, <3>1, <3>2, AppendTalk
  <2>6. Answered'
    <3>1. FromClient'[Len(FromClient')] = Handshake(cli'.psk) BY <1>7, <2>2, <2>5
    <3> QED BY <1>3, <1>6, <1>9, <2>1, <2>2, <2>3, <2>5, <3>1 DEF Answered, Asked, Holds
  <2>7. Reset' BY <2>1, Engaged DEF Reset
  <2>8. Rehandshake' BY <1>3, <2>1, <2>2, <2>5, <2>6 DEF Rehandshake
  <2>9. Counting' BY <2>6 DEF Counting
  <2>10. Dialogue' BY <1>3, <2>1, Places DEF Dialogue
  <2>11. Hearing'
    <3>1. FromServer' = <<>> BY <2>2, <2>3, ClientEmpty DEF IInv
    <3>2. Scripts(FromServer', 0) /\ 0 \in 0 .. Len(FromServer') BY <3>1 DEF Scripts
    <3> QED BY <2>1, <2>2, <3>2 DEF IInv, Hearing
  <2>12. Attempts'
    <3>1. Admissions(toClient') = {} BY <2>3, AdmissionsNone
    <3> QED BY <2>1, <2>2, <3>1 DEF IInv, Attempts
  <2>13. Offers'
    <3> SUFFICES ASSUME NEW i \in 1 .. Len(FromClient) + 1, FromClient'[i].type = "finalize"
                 PROVE  FromClient'[i].psk \in history'.offered
      BY <2>5 DEF Offers
    <3>1. i \in 1 .. Len(FromClient) BY <1>8, <2>5
    <3> QED BY <2>1, <2>5, <3>1 DEF IInv, Offers
  <2>14. Kept' BY <2>1 DEF IInv, Kept
  <2>15. ~Finishing' BY <2>2 DEF Finishing
  <2>16. Settling' BY <2>1, <2>2, <2>15 DEF IInv, Settling
  <2>17. Keys'
    <3>1. srv.pc \notin {"save", "acked"} BY <1>3, Places
    <3> QED BY <1>2, <2>1, <3>1 DEF IInv, Keys
  <2> QED BY <2>1, <2>7, <2>8, <2>9, <2>10, <2>11, <2>12, <2>13, <2>14, <2>16, <2>17 DEF IInv
<1>10. CASE ~Holds(m.psk)
  <2>1. Dropped /\ history' = [history EXCEPT !.refused = TRUE] BY <1>10 DEF ReadHandshake
  <2>2. history.late
    <3>1. m.psk \notin {Sentinel, PairingPsk} /\ m.psk # clientStore.mem BY <1>10 DEF Holds
    <3>2. srv.pc \in {"rerec", "return"} /\ m.psk = serverStore.mem
      BY <1>3, <1>6, <3>1, Places DEF Asked
    <3>3. serverStore.mem # clientStore.mem BY <3>1, <3>2
    <3> QED BY <1>2, <3>2, <3>3 DEF IInv, Keys
  <2>3. /\ history'.late = history.late /\ history'.confused = history.confused
        /\ history'.offered = history.offered /\ history'.accepted = history.accepted
        /\ history'.stored = history.stored
    BY <1>1, <2>1 DEF Past
  <2> QED BY <2>1, <2>2, <2>3, DropsKeep
<1> QED BY <1>9, <1>10

(* A pairing message: it is handed to the attempt, or dropped without one. *)
LEMMA MessageReadKeeps ==
  ASSUME IInv, Types', toClient # <<>>, ~(cli.acked /\ cli.pc # "none"), ~cli.rekeyed,
         NEW m, m = Head(toClient), m.type \in PairingTypes,
         cli' = IF cli.pc = "none" THEN cli
                ELSE [cli EXCEPT !.inbox = Append(@, m), !.acked = m.type = "finalize"],
         toClient' = Tail(toClient),
         UNCHANGED <<link, toServer, srv, serverStore, clientStore, history>>
  PROVE  IInv'
<1>0. cli \in ClientEnd /\ toClient \in Seq(ServerSays) /\ cli.inbox \in Seq(ServerSays)
  BY Ways DEF IInv, Types
<1>1. /\ cli'.pc = cli.pc /\ cli'.index = cli.index /\ cli'.psk = cli.psk
      /\ cli'.rekeyed = cli.rekeyed /\ cli'.attempt = cli.attempt /\ cli'.method = cli.method
      /\ cli'.cancellable = cli.cancellable
  BY <1>0 DEF ClientEnd
<1>2. m.type \notin {"activate", "handshake"} /\ ~NewAttempt(m)
  BY DEF PairingTypes, NewAttempt
<1>3. /\ Reset' /\ Rehandshake' /\ FromClient' = FromClient
      /\ srv.index = cli.index + (Cardinality(Admissions(toClient')) + 0)
      /\ Cardinality(Admissions(toClient')) \in Nat /\ srv.psk = cli.psk
      /\ \A i \in Admissions(toClient') :
           \E k \in Admissions(toClient) : toClient'[i] = toClient[k]
      /\ Admissions(toClient) = {} => Admissions(toClient') = {}
      /\ Unread /\ toClient' # <<>> => Unread'
      /\ Unread /\ toClient' = <<>> => m = Activate(srv.method, srv.attempt)
      /\ m \in ServerSays /\ toClient' \in Seq(ServerSays)
  <2>1. ~cli'.rekeyed BY <1>1
  <2> QED BY <1>2, <2>1, ReadsTail
<1>4. Counting'
  <2>1. \A b \in Nat : b + 0 = b OBVIOUS
  <2> QED BY <1>1, <1>3, <2>1 DEF Counting
<1>5. Unread => Unread'
  <2>1. m # Activate(srv.method, srv.attempt) BY <1>2 DEF Activate
  <2> QED BY <1>3, <2>1
<1>6. /\ FromClient' = FromClient /\ First' = First /\ Coded' = Coded
      /\ \A n, f, j : Said(n, f, j) => Said(n, f, j)'
      /\ \A i, s : Word(i, s) => Word(i, s)'
  BY Silent
<1>7. CASE cli.pc = "none"
  <2>1. cli' = cli BY <1>7
  <2>2. cli.inbox = <<>> BY <1>7 DEF IInv, Hearing
  <2>3. FromServer = toClient /\ FromServer' = toClient'
    BY <1>3, <2>1, <2>2, ClientEmpty DEF IInv
  <2>4. \A j : Scripts(FromServer, j) => Scripts(FromServer', IF j = 0 THEN 0 ELSE j - 1)
    BY <1>0, <2>3, ScriptsTail
  <2>5. /\ Len(FromServer) \in Nat /\ Len(FromServer) >= 1
        /\ Len(FromServer') = Len(FromServer) - 1
    BY <1>0, <2>3, TailSays
  <2>6. Hearing'
    <3>1. PICK j \in 0 .. Len(FromServer) : Scripts(FromServer, j) BY DEF IInv, Hearing
    <3>2. \E i : Scripts(FromServer', i) BY <2>4, <3>1
    <3>3. \A i : Scripts(FromServer', i) => i \in 0 .. Len(FromServer') BY DEF Scripts
    <3> QED BY <1>7, <2>1, <2>2, <3>2, <3>3 DEF IInv, Hearing
  <2>7. ASSUME NEW k \in 0 .. Len(FromClient), NEW g \in BOOLEAN, Together(k, g)
        PROVE  Together(k, g)'
    <3>1. /\ First \subseteq {"mint", "auth", "sinit"}
          /\ \A P, h : "none" \notin P => (Here(g, P, h) => Here(g, P, h)')
          /\ \A p, h : p # "none" => (Acking(g, p, h) => Acking(g, p, h)')
      BY <1>7, <2>1, Elsewhere DEF Here, Acking
    <3>2. Scripts(FromServer', Len(FromServer'))
      <4>1. Scripts(FromServer, Len(FromServer)) BY <2>7 DEF Together
      <4>2. (IF Len(FromServer) = 0 THEN 0 ELSE Len(FromServer) - 1) = Len(FromServer')
        BY <2>5
      <4> QED BY <2>4, <4>1, <4>2
    <3>3. Opening(k, g) => Opening(k, g)' BY <1>6, <3>1 DEF Opening
    <3>4. Waiting(g) => Waiting(g)' BY <1>6, <3>1 DEF Waiting
    <3>5. Proving(g) => Proving(g)' BY <1>6, <3>1 DEF Proving
    <3>6. Concluding(g) => Concluding(g)' BY <1>6, <2>1, <3>1 DEF Concluding
    <3> QED BY <2>1, <2>7, <3>2, <3>3, <3>4, <3>5, <3>6 DEF Together
  <2>8. Dialogue' BY <1>3, <1>5, <2>7 DEF IInv, Dialogue
  <2>9. Attempts' BY <1>1, <1>3 DEF IInv, Attempts
  <2>10. Offers' BY <1>3 DEF IInv, Offers
  <2>11. Kept' BY DEF IInv, Kept
  <2>12. ~Finishing /\ ~Finishing' BY <1>1, <1>7 DEF Finishing
  <2>13. Settling' BY <1>1, <2>12 DEF IInv, Settling
  <2>14. Keys' BY <1>1, <2>12 DEF IInv, Keys
  <2> QED BY <1>3, <1>4, <2>6, <2>8, <2>9, <2>10, <2>11, <2>13, <2>14 DEF IInv
<1>8. CASE cli.pc # "none"
  <2>1. /\ cli'.inbox = Append(cli.inbox, m) /\ cli'.acked = (m.type = "finalize")
    BY <1>0, <1>8 DEF ClientEnd
  <2>2. FromServer' = FromServer BY <2>1, ClientMoved DEF IInv
  <2>3. ~cli.acked /\ cli.pc # "store" BY <1>8 DEF IInv, Hearing
  <2>4. Hearing'
    <3>1. \A j : Heard(j) => Heard(j)' BY <1>1, <2>2 DEF Heard
    <3>2. /\ Len(cli.inbox) \in Nat /\ Len(cli'.inbox) = Len(cli.inbox) + 1
          /\ \A i \in 1 .. Len(cli.inbox) : cli'.inbox[i] = cli.inbox[i]
          /\ cli'.inbox[Len(cli.inbox) + 1] = m
      BY <1>0, <1>3, <2>1, AppendSays
    <3>3. \A i \in 1 .. Len(cli'.inbox) : cli'.inbox[i].type \in PairingTypes
      <4>1. \A i \in 1 .. Len(cli.inbox) + 1 : i \in 1 .. Len(cli.inbox) \/ i = Len(cli.inbox) + 1
        BY <3>2
      <4> QED BY <3>2, <4>1 DEF IInv, Hearing
    <3>4. cli'.inbox[1].type = "finalize" => cli'.acked
      <4>1. CASE cli.inbox = <<>>
        <5>1. Len(cli.inbox) = 0 BY <4>1
        <5>2. cli'.inbox[1] = m BY <3>2, <5>1
        <5> QED BY <2>1, <5>2
      <4>2. CASE cli.inbox # <<>>
        <5>1. 1 \in 1 .. Len(cli.inbox) BY <1>0, <4>2
        <5>2. cli'.inbox[1] = cli.inbox[1] BY <3>2, <5>1
        <5> QED BY <2>3, <4>2, <5>2 DEF IInv, Hearing
      <4> QED BY <4>1, <4>2
    <3> QED BY <1>1, <1>8, <2>2, <2>3, <3>1, <3>3, <3>4 DEF IInv, Hearing
  <2>5. ASSUME NEW k \in 0 .. Len(FromClient), NEW g \in BOOLEAN, Together(k, g)
        PROVE  Together(k, g)'
    <3>1. /\ \A f, P, h : Here(f, P, h) => Here(f, P, h)'
          /\ \A f, p, h : Acking(f, p, h) => Acking(f, p, h)'
      BY <1>1, <2>2 DEF Here, Acking
    <3>2. Opening(k, g) => Opening(k, g)' BY <1>6, <3>1 DEF Opening
    <3>3. Waiting(g) => Waiting(g)' BY <1>6, <3>1 DEF Waiting
    <3>4. Proving(g) => Proving(g)' BY <1>6, <3>1 DEF Proving
    <3>5. Concluding(g) => Concluding(g)' BY <1>1, <1>6, <3>1 DEF Concluding
    <3> QED BY <1>1, <2>2, <2>5, <3>2, <3>3, <3>4, <3>5 DEF Together
  <2>6. Dialogue' BY <1>3, <1>5, <2>5 DEF IInv, Dialogue
  <2>7. Attempts' BY <1>1, <1>3 DEF IInv, Attempts
  <2>8. Offers' BY <1>3 DEF IInv, Offers
  <2>9. Kept' BY DEF IInv, Kept
  <2>10. Finishing' <=> Finishing BY <1>1, <2>2 DEF Finishing
  <2>11. Settling' BY <1>1, <1>3, <2>10 DEF IInv, Settling
  <2>12. Keys' BY <1>1, <2>10 DEF IInv, Keys
  <2> QED BY <1>3, <1>4, <2>4, <2>6, <2>7, <2>8, <2>9, <2>11, <2>12 DEF IInv
<1> QED BY <1>7, <1>8

(* The client's reader. *)
LEMMA ClientReadsKeeps ==
  ASSUME IInv, Types', ClientReads
  PROVE  IInv'
<1> DEFINE m == Head(toClient)
<1>1. /\ toClient # <<>> /\ ~(cli.acked /\ cli.pc # "none")
      /\ serverStore' = serverStore /\ clientStore' = clientStore
  BY DEF ClientReads
<1>2. ASSUME m.type = "activate", ReadActivate(m) PROVE IInv'
  BY <1>1, <1>2, ActivateReadKeeps
<1>3. ASSUME m.type = "handshake", ReadHandshake(m) PROVE IInv'
  BY <1>1, <1>3, HandshakeReadKeeps
<1>4. ASSUME m.type \in PairingTypes, ~cli.rekeyed,
             cli' = IF cli.pc = "none" THEN cli
                    ELSE [cli EXCEPT !.inbox = Append(@, m), !.acked = m.type = "finalize"],
             toClient' = Tail(toClient), UNCHANGED <<link, toServer, srv, history>>
      PROVE  IInv'
  BY <1>1, <1>4, MessageReadKeeps
<1>5. ASSUME m.type # "activate", cli.rekeyed PROVE FALSE
  BY <1>1, <1>5 DEF IInv, Rehandshake, Answered
<1> QED BY <1>2, <1>3, <1>4, <1>5 DEF ClientReads

-----------------------------------------------------------------------------
(* Every step keeps the invariant. *)

LEMMA Start ==
  ASSUME Init, ~Overlapping
  PROVE  IInv
<1>1. Types BY InitTypes
<1>2. /\ link = "down" /\ toClient = <<>> /\ toServer = <<>>
      /\ srv = ServerAtRest /\ cli = ClientAtRest
      /\ serverStore = [mem |-> 0, disk |-> 0, saving |-> FALSE]
      /\ clientStore = [mem |-> 0, disk |-> 0, saving |-> FALSE, rounds |-> 0]
      /\ history = [confused |-> FALSE, refused |-> FALSE, late |-> FALSE,
                    drops |-> 0, crashes |-> 0, emitted |-> 0,
                    offered |-> {}, accepted |-> {}, stored |-> {}]
  BY DEF Init, NoRecord
<1>3. /\ srv.pc = "idle" /\ srv.attempt = 0 /\ srv.index = 0 /\ srv.psk = 0 /\ ~srv.moved
      /\ srv.inbox = <<>> /\ cli.pc = "none" /\ cli.index = 0 /\ cli.psk = 0 /\ ~cli.rekeyed
      /\ cli.inbox = <<>>
  BY <1>2 DEF ServerAtRest, ClientAtRest, Sentinel
<1>4. FromClient = <<>> /\ FromServer = <<>>
  BY <1>1, <1>2, <1>3, ServerEmpty, ClientEmpty
<1>5. srv.pc \notin Rekeying /\ srv.pc \notin Exchanging /\ srv.psk \notin Credentials
  BY <1>3, Places DEF Credentials
<1>6. Reset BY <1>2 DEF Reset, ServerAtRest, ClientAtRest
<1>7. Rehandshake BY <1>2, <1>3, <1>4, <1>5 DEF Rehandshake, NoHandshake, Older
<1>8. Counting BY <1>2, <1>3, AdmissionsNone DEF Counting
<1>9. Dialogue BY <1>3, <1>5 DEF Dialogue
<1>10. Hearing
  <2>1. 0 \in 0 .. Len(FromServer) /\ Scripts(FromServer, 0) BY <1>4 DEF Scripts
  <2> QED BY <1>3, <2>1 DEF Hearing
<1>11. Admissions(toClient) = {} BY <1>2, AdmissionsNone
<1>12. Attempts BY <1>2, <1>3, <1>11 DEF Attempts
<1>13. Offers BY <1>4 DEF Offers
<1>14. Kept BY <1>2 DEF Kept
<1>15. Settling BY <1>3 DEF Settling, Finishing
<1>16. Keys BY <1>2, <1>3, <1>5 DEF Keys
<1> QED BY <1>1, <1>2, <1>6, <1>7, <1>8, <1>9, <1>10, <1>12, <1>13, <1>14, <1>15, <1>16
    DEF IInv

LEMMA StutterKeeps ==
  ASSUME IInv, Types', UNCHANGED vars
  PROVE  IInv'
BY WrittenKeeps DEF vars

LEMMA IInvKept ==
  ASSUME IInv, [Next]_vars
  PROVE  IInv'
<1>1. Types' BY TypesKept DEF IInv
<1>2. CASE UNCHANGED vars BY <1>1, <1>2, StutterKeeps
<1>3. CASE Environment
  <2>1. CASE Reconnect BY <1>1, <2>1, ReconnectKeeps
  <2>2. CASE LinkDrops \/ ServerRestarts \/ ClientRestarts BY <1>1, <2>2, LossesKeep
  <2>3. CASE StartAttempt BY <1>1, <2>3, StartKeeps
  <2>4. CASE CodeEntered BY <1>1, <2>4, CodeKeeps
  <2>5. CASE CancelAttempt BY <1>1, <2>5, GivesUp, NotedKeeps
  <2>6. CASE ServerTimesOut BY <1>1, <2>6, GivesUp
  <2>7. CASE ClientTimesOut \/ ClientCancels BY <1>1, <2>7, StopsKeep
  <2>8. CASE WindowOpens \/ WindowCloses BY <1>1, <2>8, WindowsKeep
  <2> QED BY <1>3, <2>1, <2>2, <2>3, <2>4, <2>5, <2>6, <2>7, <2>8 DEF Environment
<1>4. CASE ServerSteps
  BY <1>1, <1>4, PreparedKeeps, ReadsKeep, RekeyedKeeps, ListensKeeps, SavedKeeps,
     AcknowledgedKeeps
  DEF ServerSteps
<1>5. CASE ClientSteps
  BY <1>1, <1>5, ClientReadsKeeps, BeginsOrWaits, ClientListensKeeps, ShowsKeep, OfferedKeeps,
     FinishedKeeps
  DEF ClientSteps
<1> QED BY <1>2, <1>3, <1>4, <1>5 DEF Next

LEMMA Invariant == ~Overlapping => (Spec => []IInv)
<1> SUFFICES ASSUME ~Overlapping PROVE Spec => []IInv OBVIOUS
<1>1. Init => IInv BY Start
<1>2. IInv /\ [Next]_vars => IInv' BY IInvKept
<1> QED BY <1>1, <1>2, PTL DEF Spec

-----------------------------------------------------------------------------
(* What follows from it. *)

LEMMA NothingPending ==
  ASSUME IInv
  PROVE  NeverAtOdds
<1>1. NeverConfused BY DEF IInv, NeverConfused
<1>2. CountersAgree
  <2> SUFFICES ASSUME toClient = <<>>, srv.pc \notin Rekeying
               PROVE  srv.index = cli.index /\ srv.psk = cli.psk
    BY DEF CountersAgree
  <2>1. srv.index = cli.index + Cardinality(Admissions(toClient)) /\ srv.psk = cli.psk
    BY Steady
  <2>2. Cardinality(Admissions(toClient)) = 0 BY AdmissionsNone
  <2>3. cli.index \in Nat BY Numbers DEF IInv
  <2>4. \A a \in Nat : a + 0 = a OBVIOUS
  <2> QED BY <2>1, <2>2, <2>3, <2>4
<1>3. RefusesOnlyLate BY DEF IInv, Keys, RefusesOnlyLate
<1> QED BY <1>1, <1>2, <1>3 DEF NeverAtOdds

LEMMA Bounded ==
  ASSUME IInv, Rounds
  PROVE  TypeOK
<1>0. Types BY DEF IInv
<1>1. /\ srv.attempt \in Nat /\ srv.index \in Nat /\ cli.index \in Nat /\ srv.psk \in Psks
      /\ cli.psk \in Psks /\ serverStore.mem \in Nat /\ clientStore.mem \in Nat
      /\ clientStore.rounds \in Nat /\ srv.method \in Method /\ cli.method \in Method
      /\ srv.attempt <= MaxAttempts /\ clientStore.mem <= MaxAttempts
      /\ serverStore.mem <= MaxAttempts
      /\ srv.pc \in ServerPlaces /\ cli.pc \in ClientPlaces
  BY <1>0, Numbers
<1>2. MaxAttempts \in Nat /\ RoundLimit \in Nat BY Bounds
<1>3. srv.index <= srv.attempt BY DEF IInv, Attempts
<1>4. cli.index <= MaxAttempts
  <2>1. CASE Answered BY <1>2, <2>1 DEF Answered
  <2>2. CASE ~Answered
    <3>1. srv.index = cli.index + Cardinality(Admissions(toClient))
      BY <2>2 DEF IInv, Counting
    <3>2. Cardinality(Admissions(toClient)) \in Nat
      BY <1>0, Ways, AdmissionsFinite
    <3>3. \A a, b \in Nat : a <= a + b OBVIOUS
    <3>4. cli.index <= srv.index BY <1>1, <3>1, <3>2, <3>3
    <3> QED BY <1>1, <1>2, <1>3, <3>4
  <2> QED BY <2>1, <2>2
<1>5. srv.index \in Indices /\ cli.index \in Indices
  BY <1>1, <1>2, <1>3, <1>4 DEF Indices
<1>6. serverStore.mem \in Credentials \union {NoRecord} /\ clientStore.mem \in Credentials \union {NoRecord}
  BY <1>1, <1>2 DEF Credentials, NoRecord
<1>7. clientStore.rounds \in 0 .. RoundLimit BY <1>1, <1>2 DEF Rounds
<1>8. srv.pc \in Queued \union {"idle"} BY <1>1, Places DEF ServerPlaces, Queued
<1>9. cli.pc \in Listening \union Timed \union {"none", "start"}
  BY <1>1 DEF ClientPlaces, Listening, Timed
<1>10. link \in {"up", "down"} BY <1>0 DEF Types
<1> QED BY <1>1, <1>2, <1>5, <1>6, <1>7, <1>8, <1>9, <1>10 DEF TypeOK

-----------------------------------------------------------------------------
(* What the two have agreed on, step by step. *)

Allowed == [Agreement!Next]_(Agreement!vars)

LEMMA SamePact ==
  ASSUME srv'.attempt = srv.attempt, history'.offered = history.offered,
         history'.accepted = history.accepted, history'.stored = history.stored,
         clientStore'.mem = clientStore.mem
  PROVE  Allowed
BY DEF Allowed, Agreement!vars

LEMMA DroppedPact ==
  ASSUME Types, Dropped, clientStore'.mem = clientStore.mem,
         history'.offered = history.offered, history'.accepted = history.accepted,
         history'.stored = history.stored
  PROVE  Allowed
<1>1. srv'.attempt = srv.attempt BY DEF Dropped, ServerAtRest
<1> QED BY <1>1, SamePact

LEMMA LeavePact ==
  ASSUME Types, NEW s \in ServerEnd, NEW sends, LeaveTo(s, sends), s.attempt = srv.attempt,
         clientStore' = clientStore,
         history'.offered = history.offered, history'.accepted = history.accepted,
         history'.stored = history.stored
  PROVE  Allowed
<1>1. srv'.attempt = srv.attempt BY DEF LeaveTo, ServerEnd
<1> QED BY <1>1, SamePact

LEMMA ActivationPact ==
  ASSUME Types, NEW s \in ServerEnd, SendActivation(s), s.attempt = srv.attempt,
         clientStore' = clientStore, history' = history
  PROVE  Allowed
<1>1. srv'.attempt = srv.attempt BY DEF SendActivation, ServerEnd
<1> QED BY <1>1, SamePact

LEMMA ConfusedPact ==
  ASSUME Types, Confused
  PROVE  Allowed
<1>1. /\ clientStore' = clientStore /\ Dropped
      /\ history'.offered = history.offered /\ history'.accepted = history.accepted
      /\ history'.stored = history.stored
  BY DEF Confused, Types, Past
<1> QED BY <1>1, DroppedPact

(* A connection, a loss or a restart: at most an earlier credential comes back. *)
LEMMA LossesPact ==
  ASSUME IInv, Reconnect \/ LinkDrops \/ ServerRestarts \/ ClientRestarts
  PROVE  Allowed
<1>0. /\ Types /\ history \in Past /\ srv \in ServerEnd /\ clientStore \in ClientRecord
  BY DEF IInv, Types
<1>1. CASE Reconnect
  <2>1. history' = history /\ clientStore' = clientStore BY <1>1 DEF Reconnect
  <2>2. srv'.attempt = srv.attempt BY <1>0, <1>1 DEF Reconnect, ServerEnd
  <2> QED BY <2>1, <2>2, SamePact
<1>2. CASE LinkDrops \/ ServerRestarts
  <2>1. /\ Dropped /\ clientStore' = clientStore
        /\ history'.offered = history.offered /\ history'.accepted = history.accepted
        /\ history'.stored = history.stored
    BY <1>0, <1>2 DEF LinkDrops, ServerRestarts, Past
  <2> QED BY <1>0, <2>1, DroppedPact
<1>3. CASE ClientRestarts
  <2>1. /\ Dropped /\ clientStore'.mem = clientStore.disk
        /\ history'.offered = history.offered /\ history'.accepted = history.accepted
        /\ history'.stored = history.stored
    BY <1>0, <1>3 DEF ClientRestarts, Past, ClientRecord
  <2>2. srv'.attempt = srv.attempt BY <2>1 DEF Dropped, ServerAtRest
  <2>3. CASE clientStore.disk = clientStore.mem BY <1>0, <2>1, <2>3, DroppedPact
  <2>4. CASE clientStore.disk # clientStore.mem
    <3>1. /\ clientStore.disk \in history.stored \union {0}
          /\ clientStore.disk <= clientStore.mem /\ clientStore.mem <= srv.attempt
      BY DEF IInv, Kept, Attempts
    <3>2. clientStore.disk \in Nat /\ clientStore.mem \in Nat /\ srv.attempt \in Nat
      BY <1>0, Numbers
    <3>3. clientStore.disk < clientStore.mem /\ clientStore.disk \in 0 .. srv.attempt
      BY <2>4, <3>1, <3>2
    <3>4. Agreement!Forget(clientStore.disk)
      BY <2>1, <2>2, <3>1, <3>3 DEF Agreement!Forget
    <3> QED BY <3>3, <3>4 DEF Allowed, Agreement!Next
  <2> QED BY <2>3, <2>4
<1> QED BY <1>1, <1>2, <1>3

(* initiate_pairing begins an attempt. *)
LEMMA StartPact ==
  ASSUME IInv, StartAttempt
  PROVE  Allowed
<1>0. srv \in ServerEnd /\ srv.attempt \in Nat BY Numbers DEF IInv, Types
<1>1. history' = history /\ clientStore' = clientStore BY DEF StartAttempt
<1>2. srv'.attempt = srv.attempt + 1 BY <1>0 DEF StartAttempt, ServerEnd
<1>3. Agreement!Begin BY <1>1, <1>2 DEF Agreement!Begin
<1> QED BY <1>3 DEF Allowed, Agreement!Next

(* An operator's entry or cancel, and a bound that expires, agree on nothing. *)
LEMMA GivesUpPact ==
  ASSUME IInv, CodeEntered \/ CancelAttempt \/ ServerTimesOut
  PROVE  Allowed
<1>0. Types /\ srv \in ServerEnd /\ history \in Past BY DEF IInv, Types
<1>1. CASE CodeEntered
  <2>1. history' = history /\ clientStore' = clientStore BY <1>1 DEF CodeEntered
  <2>2. CASE LeaveTo(srv, <<>>) BY <1>0, <2>1, <2>2, LeavePact
  <2>3. CASE srv' = [srv EXCEPT !.pc = "auth"]
    <3>1. srv'.attempt = srv.attempt BY <1>0, <2>3 DEF ServerEnd
    <3> QED BY <2>1, <3>1, SamePact
  <2> QED BY <1>1, <2>2, <2>3 DEF CodeEntered
<1>2. CASE CancelAttempt
  <2>1. history' = history /\ clientStore' = clientStore BY <1>2 DEF CancelAttempt
  <2> DEFINE freed == [srv EXCEPT !.free = TRUE]
  <2>2. CASE LeaveTo(freed, <<Abort("user_cancelled")>>)
    <3>1. freed \in ServerEnd /\ freed.attempt = srv.attempt BY <1>0 DEF ServerEnd
    <3> HIDE DEF freed
    <3> QED BY <1>0, <2>1, <2>2, <3>1, LeavePact
  <2>3. CASE srv' = [srv EXCEPT !.cancel = TRUE]
    <3>1. srv'.attempt = srv.attempt BY <1>0, <2>3 DEF ServerEnd
    <3> QED BY <2>1, <3>1, SamePact
  <2> QED BY <1>2, <2>2, <2>3 DEF CancelAttempt
<1>3. CASE ServerTimesOut
  <2>1. /\ clientStore' = clientStore /\ history'.offered = history.offered
        /\ history'.accepted = history.accepted /\ history'.stored = history.stored
    BY <1>0, <1>3 DEF ServerTimesOut, Past
  <2>2. LeaveTo(srv, <<>>) \/ Dropped BY <1>3 DEF ServerTimesOut
  <2> QED BY <1>0, <2>1, <2>2, LeavePact, DroppedPact
<1> QED BY <1>1, <1>2, <1>3

(* The server accepts the credential of the attempt it runs, if any. *)
LEMMA ListensPact ==
  ASSUME IInv, ServerListens
  PROVE  Allowed
<1> DEFINE m == Head(srv.inbox)
<1>0. Types /\ srv \in ServerEnd /\ history \in Past /\ srv.inbox # <<>>
  BY DEF IInv, Types, ServerListens
<1>1. /\ Take(srv) \in ServerEnd /\ Take(srv).attempt = srv.attempt
      /\ \A pc \in ServerPlaces : [Take(srv) EXCEPT !.pc = pc].attempt = srv.attempt
      /\ \A pc \in ServerPlaces :
            [[Take(srv) EXCEPT !.pc = pc] EXCEPT !.round = @ + 1].attempt = srv.attempt
  <2>1. Take(srv) \in ServerEnd BY <1>0, TakeTypes
  <2>2. Take(srv).attempt = srv.attempt BY <1>0 DEF Take, ServerEnd
  <2> QED BY <2>1, <2>2 DEF ServerEnd
<1>2. Confused => Allowed BY <1>0, ConfusedPact
<1>3. ASSUME Started, clientStore' = clientStore, history' = history PROVE Allowed
  <2>1. srv'.attempt = srv.attempt BY <1>1, <1>3 DEF Started, ServerPlaces
  <2> QED BY <1>3, <2>1, SamePact
<1>4. CASE m.type = "abort"
  <2>1. ServerAborted(m) BY <1>4, ServerListensTo
  <2>2. clientStore' = clientStore /\ history' = history BY <2>1 DEF ServerAborted
  <2>3. LeaveTo(srv, <<>>) \/ srv' = Take(srv) BY <2>1 DEF ServerAborted
  <2>4. srv' = Take(srv) => srv'.attempt = srv.attempt BY <1>1
  <2> QED BY <1>0, <2>2, <2>3, <2>4, LeavePact, SamePact
<1>5. CASE m.type # "abort" /\ srv.pc = "init"
  <2>1. FirstMessage(m) BY <1>5, ServerListensTo
  <2>2. \/ Confused
        \/ /\ clientStore' = clientStore /\ history' = history
           /\ Started \/ srv' = Take(srv) \/ srv' = [Take(srv) EXCEPT !.pc = "gesture"]
    BY <2>1 DEF FirstMessage
  <2>3. ASSUME clientStore' = clientStore, history' = history,
               srv' = Take(srv) \/ srv' = [Take(srv) EXCEPT !.pc = "gesture"]
        PROVE  Allowed
    <3>1. srv'.attempt = srv.attempt BY <1>1, <2>3 DEF ServerPlaces
    <3> QED BY <2>3, <3>1, SamePact
  <2> QED BY <1>2, <1>3, <2>2, <2>3
<1>6. CASE m.type = "finalize" /\ srv.pc = "final"
  <2>1. Finalized(m) BY <1>6, ServerListensTo
  <2>2. /\ FromClient # <<>> /\ FromClient[1] = m /\ Len(FromClient) \in Nat
        /\ Len(FromClient) >= 1
    <3>1. FromClient # <<>> /\ Head(FromClient) = m /\ FromClient \in Seq(ClientSays)
      BY <1>0, ServerTook, Ways
    <3> QED BY <3>1
  <2>3. PICK g \in BOOLEAN : Together(0, g) /\ (Waiting(g) \/ Proving(g) \/ Concluding(g))
    BY <1>6, Later
  <2>4. ~Said(0, g, 0)
    <3>1. ASSUME Said(0, g, 0) PROVE m.type = "abort"
      <4>1. g /\ Len(FromClient) = 1 BY <2>2, <3>1 DEF Said
      <4> QED BY <2>2, <3>1, <4>1 DEF Said
    <3> QED BY <1>6, <3>1
  <2>5. Word(1, "finalize") BY <1>6, <2>3, <2>4 DEF Waiting, Proving, Concluding
  <2>6. m.psk = srv.attempt BY <2>2, <2>5 DEF Word
  <2>7. m.psk \in history.offered BY <1>6, <2>2 DEF IInv, Offers
  <2>8. srv.attempt \in 1 .. srv.attempt
    <3>1. srv.attempt >= 1 BY <1>6 DEF IInv, Attempts
    <3>2. srv.attempt \in Nat BY <1>0, Numbers
    <3> QED BY <3>1, <3>2
  <2>9. /\ srv' = [Take(srv) EXCEPT !.pc = "save"] /\ clientStore' = clientStore
        /\ history'.accepted = history.accepted \union {m.psk}
        /\ history'.offered = history.offered /\ history'.stored = history.stored
    BY <1>0, <2>1 DEF Finalized, Past
  <2>10. srv'.attempt = srv.attempt BY <1>1, <2>9 DEF ServerPlaces
  <2>11. Agreement!Accept(srv.attempt)
    BY <2>6, <2>7, <2>9, <2>10 DEF Agreement!Accept
  <2> QED BY <2>8, <2>11 DEF Allowed, Agreement!Next
<1>7. CASE m.type \in Awaited \ {"finalize"} /\ (srv.pc = "gesture" => m.index = srv.index)
  <2>1. Exchanged(m) BY <1>7, ServerListensTo
  <2>2. clientStore' = clientStore /\ history' = history BY <2>1 DEF Exchanged
  <2>3. m.type \in {"init", "auth", "confirm", "retry"} BY <1>7 DEF Awaited
  <2>4. \/ Started
        \/ srv' = [Take(srv) EXCEPT !.pc = "reply"]
        \/ srv' = [Take(srv) EXCEPT !.pc = "final"]
        \/ srv' = [[Take(srv) EXCEPT !.pc = "code"] EXCEPT !.round = @ + 1]
    BY <2>1, <2>3 DEF Exchanged
  <2>5. Started \/ srv'.attempt = srv.attempt BY <1>1, <2>4 DEF ServerPlaces
  <2> QED BY <1>3, <2>2, <2>5, SamePact
<1> HIDE DEF m
<1>8. \/ m.type = "abort"
      \/ m.type # "abort" /\ srv.pc = "init"
      \/ m.type = "finalize" /\ srv.pc = "final"
      \/ m.type \in Awaited \ {"finalize"} /\ (srv.pc = "gesture" => m.index = srv.index)
      \/ Confused
  BY DEF ServerListens, m
<1> QED BY <1>2, <1>4, <1>5, <1>6, <1>7, <1>8

(* The other steps of the server: a record reaches its disk, or nothing. *)
LEMMA ServerPact ==
  ASSUME IInv, ServerSteps
  PROVE  Allowed
<1>0. /\ Types /\ srv \in ServerEnd /\ history \in Past /\ serverStore \in ServerRecord
  BY DEF IInv, Types
<1>1. CASE Prepared BY <1>0, <1>1, ActivationPact DEF Prepared
<1>2. CASE ServerReads
  <2>1. srv'.attempt = srv.attempt BY <1>0, <1>2 DEF ServerReads, ServerEnd
  <2>2. history' = history /\ clientStore' = clientStore BY <1>2 DEF ServerReads
  <2> QED BY <2>1, <2>2, SamePact
<1>3. CASE ServerRekeyed
  <2> DEFINE m == Head(srv.inbox)
             keyed == [Take(srv) EXCEPT !.psk = m.psk, !.index = 0]
             moved == [keyed EXCEPT !.moved = @ \/ srv.psk \in Credentials]
             back == [keyed EXCEPT !.moved = FALSE, !.free = FALSE]
  <2>1. m \in ClientSays /\ Take(srv) \in ServerEnd BY <1>0, <1>3, TakeTypes DEF ServerRekeyed
  <2>2. Take(srv).attempt = srv.attempt BY <1>0 DEF Take, ServerEnd
  <2>3. history' = history /\ clientStore' = clientStore BY <1>3 DEF ServerRekeyed
  <2>4. CASE m.type # "handshake"
    <3>1. srv' = Take(srv) BY <1>3, <2>4 DEF ServerRekeyed
    <3>2. srv'.attempt = srv.attempt BY <2>2, <3>1
    <3> QED BY <2>3, <3>2, SamePact
  <2>5. CASE m.type = "handshake"
    <3>1. m.psk \in Psks BY <2>1, <2>5, ClientKinds
    <3>2. keyed \in ServerEnd /\ keyed.attempt = srv.attempt
      BY <2>1, <2>2, <3>1 DEF ServerEnd
    <3>3. /\ moved \in ServerEnd /\ back \in ServerEnd
          /\ moved.attempt = srv.attempt /\ back.attempt = srv.attempt
      <4> HIDE DEF keyed
      <4> QED BY <3>2 DEF ServerEnd
    <3>4. SendActivation(moved) \/ LeaveTo(moved, <<>>) \/ LeaveTo(keyed, <<>>) \/ LeaveTo(back, <<>>)
      BY <1>3, <2>5 DEF ServerRekeyed, Rekeying
    <3> HIDE DEF moved, keyed, back
    <3> QED BY <1>0, <2>3, <3>2, <3>3, <3>4, LeavePact, ActivationPact
  <2> QED BY <2>4, <2>5
<1>4. CASE ServerListens BY <1>4, ListensPact
<1>5. CASE ServerSaved
  <2>1. serverStore.saving /\ clientStore' = clientStore
        /\ history'.stored = history.stored \union {serverStore.mem}
        /\ history'.offered = history.offered /\ history'.accepted = history.accepted
    BY <1>0, <1>5 DEF ServerSaved, Past
  <2>2. srv'.attempt = srv.attempt BY <1>0, <1>5 DEF ServerSaved, ServerEnd
  <2>3. serverStore.mem \in history.accepted /\ serverStore.mem # 0
    BY <2>1 DEF IInv, Kept
  <2>4. serverStore.mem \in 1 .. srv.attempt
    <3>1. serverStore.mem <= srv.attempt BY DEF IInv, Attempts
    <3>2. serverStore.mem \in Nat /\ srv.attempt \in Nat BY <1>0, Numbers
    <3> QED BY <2>3, <3>1, <3>2
  <2>5. Agreement!Store(serverStore.mem) BY <2>1, <2>2, <2>3 DEF Agreement!Store
  <2> QED BY <2>4, <2>5 DEF Allowed, Agreement!Next
<1>6. CASE Acknowledged
  <2>1. srv'.attempt = srv.attempt BY <1>0, <1>6 DEF Acknowledged, ServerEnd
  <2>2. history' = history /\ clientStore' = clientStore BY <1>6 DEF Acknowledged
  <2> QED BY <2>1, <2>2, SamePact
<1> QED BY <1>1, <1>2, <1>3, <1>4, <1>5, <1>6 DEF ServerSteps

(* The client takes the credential the server has stored. *)
LEMMA StoredPact ==
  ASSUME IInv, cli.pc = "ack", cli.inbox # <<>>, Head(cli.inbox).type = "finalize",
         CredentialStored
  PROVE  Allowed
<1>0. /\ Types /\ clientStore \in ClientRecord /\ cli.attempt \in Nat /\ clientStore.mem \in Nat
  BY Numbers DEF IInv, Types
<1>1. srv' = srv /\ history' = history /\ clientStore'.mem = cli.attempt
  BY <1>0 DEF CredentialStored, ClientRecord
<1>2. cli.pc \in Listening /\ Head(cli.inbox).type # "abort" BY DEF Listening
<1>3. FromServer[1].type = "finalize" BY <1>2, HeadHeard
<1>4. FromServer # <<>> BY ClientTook DEF IInv
<1>5. Finishing BY <1>3, <1>4 DEF Finishing
<1>6. cli.attempt = srv.attempt /\ srv.attempt \in history.stored
  BY <1>5 DEF IInv, Settling
<1>7. clientStore.mem < cli.attempt /\ cli.attempt \in 1 .. srv.attempt
  BY DEF IInv, Attempts
<1>8. cli.attempt > clientStore.mem BY <1>0, <1>7
<1>9. Agreement!Adopt(cli.attempt) BY <1>1, <1>6, <1>8 DEF Agreement!Adopt
<1> QED BY <1>7, <1>9 DEF Allowed, Agreement!Next

(* Its attempt reads its queue: otherwise it agrees on nothing yet. *)
LEMMA ClientListensPact ==
  ASSUME IInv, ClientListens
  PROVE  Allowed
<1> DEFINE m == Head(cli.inbox)
<1>0. Types /\ clientStore \in ClientRecord /\ history \in Past BY DEF IInv, Types
<1>1. /\ cli.inbox # <<>>
      /\ \/ UNCHANGED <<link, toClient, toServer, srv, serverStore, clientStore, history>>
         \/ Confused
         \/ RoundBegins \/ AuthExchanged(m) \/ ConfirmChecked
         \/ m.type = "finalize" /\ cli.pc = "ack" /\ CredentialStored
  BY ClientListensTo DEF ClientListens
<1>2. CASE m.type = "finalize" /\ cli.pc = "ack" /\ CredentialStored
  BY <1>1, <1>2, StoredPact
<1>3. CASE ~(m.type = "finalize" /\ cli.pc = "ack" /\ CredentialStored)
  <2>1. \/ Confused
        \/ RoundBegins \/ AuthExchanged(m) \/ ConfirmChecked
        \/ UNCHANGED <<link, toClient, toServer, srv, serverStore, clientStore, history>>
    BY <1>1, <1>3
  <2>2. \A c, w : Sends(c, w) => srv' = srv /\ clientStore' = clientStore /\ history' = history
    BY DEF Sends
  <2>3. \A due \in BOOLEAN : RoundsReset(due) =>
          /\ clientStore'.mem = clientStore.mem /\ history'.offered = history.offered
          /\ history'.accepted = history.accepted /\ history'.stored = history.stored
    BY <1>0 DEF RoundsReset, ClientRecord, Past
  <2>4. ASSUME RoundBegins \/ AuthExchanged(m) \/ ConfirmChecked
        PROVE  /\ srv' = srv /\ clientStore'.mem = clientStore.mem
               /\ history'.offered = history.offered
               /\ history'.accepted = history.accepted /\ history'.stored = history.stored
    <3>1. CASE RoundBegins BY <3>1 DEF RoundBegins
    <3>2. CASE AuthExchanged(m) BY <2>2, <3>2 DEF AuthExchanged
    <3>3. CASE ConfirmChecked BY <2>2, <2>3, <3>3 DEF ConfirmChecked
    <3> QED BY <2>4, <3>1, <3>2, <3>3
  <2>5. ASSUME srv' = srv, clientStore' = clientStore, history' = history PROVE Allowed
    BY <2>5, SamePact
  <2>6. CASE RoundBegins \/ AuthExchanged(m) \/ ConfirmChecked BY <2>4, <2>6, SamePact
  <2> HIDE DEF m
  <2> QED BY <1>0, <2>1, <2>5, <2>6, ConfusedPact
<1> QED BY <1>2, <1>3

(* The other steps of the client: it offers a credential, or nothing. *)
LEMMA ClientPact ==
  ASSUME IInv, ClientSteps \/ ClientTimesOut \/ ClientCancels \/ WindowOpens \/ WindowCloses
  PROVE  Allowed
<1>0. /\ Types /\ cli \in ClientEnd /\ history \in Past /\ clientStore \in ClientRecord
  BY DEF IInv, Types
<1> DEFINE Quiet == /\ srv' = srv /\ clientStore'.mem = clientStore.mem
                    /\ history'.offered = history.offered
                    /\ history'.accepted = history.accepted /\ history'.stored = history.stored
<1>1. Quiet => Allowed BY SamePact
<1>2. \A c, w : Sends(c, w) => srv' = srv /\ clientStore' = clientStore /\ history' = history
  BY DEF Sends
<1>3. Admitted => Quiet
  <2>1. \A due : RoundsReset(due) =>
          /\ clientStore'.mem = clientStore.mem /\ history'.offered = history.offered
          /\ history'.accepted = history.accepted /\ history'.stored = history.stored
    BY <1>0 DEF RoundsReset, ClientRecord, Past
  <2> QED BY <2>1 DEF Admitted
<1>4. CASE ClientReads
  <2> DEFINE m == Head(toClient)
  <2>1. clientStore' = clientStore BY <1>4 DEF ClientReads
  <2>2. ASSUME Dropped, history' = [history EXCEPT !.refused = TRUE]
                        \/ history' = [history EXCEPT !.confused = TRUE]
        PROVE  Allowed
    <3>1. /\ history'.offered = history.offered
          /\ history'.accepted = history.accepted /\ history'.stored = history.stored
      BY <1>0, <2>2 DEF Past
    <3> QED BY <1>0, <2>1, <2>2, <3>1, DroppedPact
  <2>3. CASE ReadActivate(m) BY <2>1, <2>3, <1>1 DEF ReadActivate
  <2>4. CASE ReadHandshake(m) BY <2>1, <2>2, <2>4, <1>1 DEF ReadHandshake
  <2>5. CASE srv' = srv /\ history' = history BY <2>1, <2>5, <1>1
  <2> QED BY <1>4, <2>2, <2>3, <2>4, <2>5 DEF ClientReads
<1>5. CASE AttemptBegins BY <1>1, <1>2, <1>3, <1>5 DEF AttemptBegins
<1>6. CASE WindowAdmits BY <1>1, <1>3, <1>6 DEF WindowAdmits
<1>7. CASE ClientListens BY <1>7, ClientListensPact
<1>8. CASE RoundCounted
  <2>1. clientStore'.mem = clientStore.mem BY <1>0, <1>8 DEF RoundCounted, ClientRecord
  <2> QED BY <1>1, <1>8, <2>1 DEF RoundCounted
<1>9. CASE CodeEmitted
  <2>1. Quiet BY <1>0, <1>9 DEF CodeEmitted, Past
  <2> QED BY <1>1, <2>1
<1>10. CASE CredentialOffered
  <2>1. /\ srv' = srv /\ clientStore' = clientStore
        /\ history'.offered = history.offered \union {cli.attempt}
        /\ history'.accepted = history.accepted /\ history'.stored = history.stored
    BY <1>0, <1>10 DEF CredentialOffered, Past
  <2>2. cli.attempt \in 1 .. srv.attempt BY <1>10 DEF CredentialOffered, IInv, Attempts
  <2>3. Agreement!Offer(cli.attempt) BY <2>1 DEF Agreement!Offer
  <2> QED BY <2>2, <2>3 DEF Allowed, Agreement!Next
<1>11. CASE ClientSaved
  <2>1. clientStore'.mem = clientStore.mem BY <1>0, <1>11 DEF ClientSaved, ClientRecord
  <2> QED BY <1>1, <1>11, <2>1 DEF ClientSaved
<1>12. CASE ClientTimesOut
  <2>1. clientStore' = clientStore /\ history'.offered = history.offered
        /\ history'.accepted = history.accepted /\ history'.stored = history.stored
    BY <1>0, <1>12 DEF ClientTimesOut, Past
  <2>2. srv' = srv \/ Dropped BY <1>12 DEF ClientTimesOut
  <2> QED BY <1>0, <1>1, <2>1, <2>2, DroppedPact
<1>13. CASE ClientCancels BY <1>1, <1>2, <1>13 DEF ClientCancels
<1>14. CASE WindowOpens \/ WindowCloses BY <1>1, <1>14 DEF WindowOpens, WindowCloses
<1> HIDE DEF Quiet
<1> QED BY <1>4, <1>5, <1>6, <1>7, <1>8, <1>9, <1>10, <1>11, <1>12, <1>13, <1>14
    DEF ClientSteps

LEMMA StepsAgree ==
  ASSUME IInv, [Next]_vars
  PROVE  Allowed
<1>1. CASE UNCHANGED vars BY <1>1, SamePact DEF vars
<1>2. CASE Environment
  BY <1>2, LossesPact, StartPact, GivesUpPact, ClientPact DEF Environment
<1>3. CASE ServerSteps BY <1>3, ServerPact
<1>4. CASE ClientSteps BY <1>4, ClientPact
<1> QED BY <1>1, <1>2, <1>3, <1>4 DEF Next

-----------------------------------------------------------------------------
(* While one server and one client pair, cancel, time out, drop and restart in *)
(* any order, initiate_pairing keeps to the attempts and indices the operator  *)
(* asked for, and neither side stores or keys a session with anything else. It *)
(* is stated of operators that start an attempt once the one before is over.   *)
THEOREM PairingInBounds == ~Overlapping => (Spec => []TypeOK)
<1> SUFFICES ASSUME ~Overlapping PROVE Spec => []TypeOK OBVIOUS
<1>1. Init => IInv /\ Rounds
  <2>1. Init => Types /\ Rounds BY InitTypes, Bounds DEF Init, Rounds, ClientAtRest
  <2> QED BY <2>1, Start
<1>2. IInv /\ Rounds /\ [Next]_vars => (IInv /\ Rounds)'
  <2>1. IInv => Types BY DEF IInv
  <2> QED BY <2>1, IInvKept, TypesKept, RoundsKept
<1>3. IInv /\ Rounds => TypeOK BY Bounded
<1> QED BY <1>1, <1>2, <1>3, PTL DEF Spec

(* The pairing tasks of PairingSession never misread each other: no leftover    *)
(* message of a cancelled, timed out or superseded attempt passes for one of    *)
(* the attempt that runs, the two count attempts and key the session alike, and *)
(* only a finalize that a timeout cut short leaves records that disagree.       *)
THEOREM NeverAtOddsHolds == ~Overlapping => (Spec => []NeverAtOdds)
<1> SUFFICES ASSUME ~Overlapping PROVE Spec => []NeverAtOdds OBVIOUS
<1>1. Spec => []IInv BY Invariant
<1>2. IInv => NeverAtOdds BY NothingPending
<1> QED BY <1>1, <1>2, PTL

(* Pairing implements PairingAgreement: the server accepts only the credential  *)
(* of the attempt it runs, and the client adopts only one that it has stored.   *)
THEOREM PairingAgrees == ~Overlapping => (Spec => Agrees)
<1> SUFFICES ASSUME ~Overlapping PROVE Spec => Agrees OBVIOUS
<1>1. Init => Agreement!Init
  BY DEF Init, Agreement!Init, ServerAtRest, NoRecord
<1>2. IInv /\ [Next]_vars => [Agreement!Next]_(Agreement!vars)
  BY StepsAgree DEF Allowed
<1>3. Spec => []IInv BY Invariant
<1> QED BY <1>1, <1>2, <1>3, PTL DEF Spec, Agrees, Agreement!Spec
=============================================================================
