------------------------------ MODULE SourceRole ------------------------------
(***************************************************************************)
(* Captured audio from a client to the server: the source role of one      *)
(* device on the server (server/roles/source/v1.py with the parts of       *)
(* server/connection.py and server/client.py that call it) and the capture *)
(* on the client (client/source.py, client/connection.py).                 *)
(*                                                                         *)
(* The server asks for a stream with a source start command, which it      *)
(* queues until the client's state allows it; each start authorizes the    *)
(* client to open one stream. Meanwhile the client becomes unavailable and *)
(* available, the role is removed and added again by activations, with and *)
(* without a re-handshake, and the connection is lost. Messages arrive in  *)
(* order; whatever one side decides crosses what the other has sent.       *)
(*                                                                         *)
(* The device has no other role. An activation goes on the wire at once    *)
(* (the writer sends it before role messages). A client-stream/start may   *)
(* be under way for long (the connection's send buffer is full) and then   *)
(* holds the client's send lock; other sends complete at once. Chunks are  *)
(* named by the stream they were captured for. Signals, the pace of the    *)
(* capture and malformed audio are left out.                               *)
(***************************************************************************)
EXTENDS Integers, Sequences, SequencesExt

CONSTANTS
  MaxActivations,  \* bound: activations after a connection's first
  MaxRequests,     \* bound: requests to start or stop
  MaxChanges,      \* bound: changes of the client's availability
  MaxStreams,      \* bound: streams the client opens
  MaxChunks,       \* bound: chunks the client sends
  MaxDrops         \* bound: connections lost

SourceAssumption ==
  /\ {MaxActivations, MaxRequests, MaxChanges, MaxStreams, MaxChunks, MaxDrops} \subseteq Nat

VARIABLES
  link,       \* "up" or "down"
  toClient,   \* sent by the server's writer, not read by the client
  toServer,   \* sent by the client, not read by the server
  srv,        \* the server's connection, device record and role
  cli,        \* the client's connection and capture
  handles,    \* the SourceStream of each client stream: none, open, ended
  history     \* counts for the bounds, and what the properties tell apart

vars == <<link, toClient, toServer, srv, cli, handles, history>>

Streams == 1 .. MaxStreams
NoStream == 0

-------------------------------------------------------------------------------
(* Messages. *)

Activate(active) == [type |-> "activate", active |-> active]
Plain(type) == [type |-> type]
State(available, source) ==
  [type |-> "state", available |-> available, source |-> source]
Audio(type, s) == [type |-> type, stream |-> s]

-------------------------------------------------------------------------------
(* The server. Each operator maps what the synchronous code between two awaits *)
(* works on, S = [srv, handles], to what it leaves.                            *)

Server == [srv |-> srv, handles |-> handles]

\* A role instance as on_connect leaves a new one. hold: the device record
\* awaits the role's client/state; got: _source_state_received; queued and
\* wanted: _start_queued and _stream_wanted; handle: _stream.
NewRole(s, hold) ==
  [s EXCEPT !.role = TRUE, !.hold = hold, !.got = FALSE, !.queued = FALSE,
            !.wanted = FALSE, !.handle = NoStream]

CanStart(s) == s.got /\ s.available /\ ~s.hold

EndStream(S) ==
  IF S.srv.handle = NoStream THEN S
  ELSE [S EXCEPT !.handles[S.srv.handle] = "ended", !.srv.handle = NoStream]

SendStartAgain(S) ==
  IF S.srv.role /\ S.srv.queued /\ CanStart(S.srv)
  THEN [S EXCEPT !.srv.wanted = TRUE, !.srv.out = Append(@, Plain("start"))]
  ELSE S

SendQueuedStart(S) ==
  IF S.srv.role /\ S.srv.queued /\ CanStart(S.srv)
  THEN [S EXCEPT !.srv.queued = FALSE, !.srv.wanted = TRUE,
                 !.srv.out = Append(@, Plain("start"))]
  ELSE S

\* _release_roles for the role, and the timeout of its state.
HoldReleasedSilently(S) == [S EXCEPT !.srv.hold = FALSE]
HoldReleased(S) == SendQueuedStart([S EXCEPT !.srv.hold = FALSE])

UnpluggedInUse(S) ==
  [S EXCEPT !.srv.got = FALSE, !.srv.queued = FALSE, !.srv.wanted = FALSE]

\* on_disconnect, and on_deactivate before the base class drops the instance.
Unplugged(S) ==
  LET E == EndStream(S)
  IN [E EXCEPT !.srv.got = FALSE, !.srv.queued = FALSE, !.srv.wanted = FALSE]

AvailabilityChanged(S, available) ==
  IF available THEN SendQueuedStart(S)
  ELSE EndStream([S EXCEPT !.srv.wanted = FALSE])

SetAvailability(S, available) ==
  LET C == [S EXCEPT !.srv.available = available]
  IN IF S.srv.role THEN AvailabilityChanged(C, available) ELSE C

\* set_active_roles behind _send_activation, which discards the queue of a role
\* it removes.
SetRole(S, active) ==
  IF active = S.srv.role THEN S
  ELSE IF active THEN [S EXCEPT !.srv = NewRole(@, TRUE)]
  ELSE LET U == Unplugged([S EXCEPT !.srv.out = <<>>])
       IN [U EXCEPT !.srv.role = FALSE, !.srv.hold = FALSE]

Becomes(S) == srv' = S.srv /\ handles' = S.handles

Flag(what) == history' = [history EXCEPT !.flagged = @ \union what]

\* SourceV1Role.request_start and request_stop, also of a role that is
\* disconnected: send_message drops what it is given then.
RequestStart ==
  /\ srv.role
  /\ history.requests < MaxRequests
  /\ Becomes(SendQueuedStart([Server EXCEPT !.srv.queued = TRUE]))
  /\ history' = [history EXCEPT !.requests = @ + 1]
  /\ UNCHANGED <<link, toClient, toServer, cli>>

RequestStop ==
  /\ srv.role
  /\ history.requests < MaxRequests
  /\ srv' = [srv EXCEPT !.queued = FALSE, !.wanted = FALSE,
                        !.out = IF link = "up" THEN Append(@, Plain("stop")) ELSE @]
  /\ history' = [history EXCEPT !.requests = @ + 1]
  /\ UNCHANGED <<link, toClient, toServer, cli, handles>>

\* The writer, which is stopped during a re-handshake. A start it sends may be
\* answered from then on.
WriterSends ==
  /\ link = "up"
  /\ srv.phase = "served"
  /\ srv.out # <<>>
  /\ toClient' = Append(toClient, Head(srv.out))
  /\ srv' = [srv EXCEPT !.out = Tail(@),
                        !.starts = @ + IF Head(srv.out).type = "start" THEN 1 ELSE 0]
  /\ UNCHANGED <<link, toServer, cli, handles, history>>

Activates(active) ==
  /\ Becomes(SetRole([Server EXCEPT !.srv.phase = "served"], active))
  /\ toClient' = Append(toClient, Activate(active))
  /\ UNCHANGED <<link, toServer, cli>>

\* refresh_trusted_unpaired and the activations around a pairing.
Reactivates(active) ==
  /\ link = "up"
  /\ srv.phase = "served"
  /\ history.activations < MaxActivations
  /\ Activates(active)
  /\ history' = [history EXCEPT !.activations = @ + 1]

\* _rehandshake_to with the writer stopped; the activation follows the reply.
StartsRehandshake ==
  /\ link = "up"
  /\ srv.phase = "served"
  /\ history.activations < MaxActivations
  /\ srv' = [srv EXCEPT !.phase = "shaking"]
  /\ toClient' = Append(toClient, Plain("handshake"))
  /\ history' = [history EXCEPT !.activations = @ + 1]
  /\ UNCHANGED <<link, toServer, cli, handles>>

EndsRehandshake(active) ==
  /\ link = "up"
  /\ srv.phase = "swapped"
  /\ Activates(active)
  /\ UNCHANGED history

\* _apply_activation_state: the state a role activated later was held for.
Released(S, m) == S.srv.initial /\ S.srv.hold /\ m.source

\* _handle_client_state: what the state says of the availability is applied
\* before the dispatch to the role unless it makes a known client available;
\* the hold is released after it.
Applied(S, m) ==
  LET initial == ~S.srv.initial
      changed == m.available # S.srv.available
      early == changed /\ (initial \/ ~S.srv.seen \/ ~m.available)
      A == IF early THEN SetAvailability(S, m.available) ELSE S
      I == [A EXCEPT !.srv.initial = TRUE, !.srv.seen = TRUE,
                     !.srv.hold = @ /\ ~initial,
                     !.srv.got = @ \/ (A.srv.role /\ (initial \/ m.source))]
      D == SendQueuedStart(I)
      B == IF changed /\ ~early THEN SetAvailability(D, TRUE) ELSE D
  IN IF Released(S, m) THEN HoldReleased(B) ELSE B

StateFlags(m) ==
  (IF ~m.available /\ srv.open THEN {"unavailable before end"} ELSE {})
  \union (IF ~srv.initial /\ srv.role /\ ~m.source THEN {"no source object"} ELSE {})

ReadsState(m) ==
  /\ Becomes(Applied(Server, m))
  /\ Flag(StateFlags(m))

\* _accept_source_stream_start and on_client_stream_start. A start opens one
\* stream; replacing an open one needs none. The decoder may not
\* be available. A stream that answers a start from before the latest stop,
\* unavailability or removal is discarded too, and stays unheard even if it is
\* asked for again: the client ignores a start while it streams.
Authorized == srv.open \/ srv.starts > 0

ReadsOpen(m) ==
  LET S == [Server EXCEPT !.srv.open = TRUE, !.srv.starts = @ - IF srv.open THEN 0 ELSE 1]
      E == EndStream(S)
  IN IF ~Authorized
     THEN Flag({"start without a command"}) /\ UNCHANGED <<srv, handles>>
     ELSE \/ /\ srv.role /\ srv.wanted
             /\ Becomes([E EXCEPT !.handles[m.stream] = "open", !.srv.handle = m.stream])
             /\ UNCHANGED history
          \/ /\ Becomes(IF srv.role THEN E ELSE S)
             /\ history' = [history EXCEPT !.declined = @ \union {m.stream}]

\* _route_inbound_binary.
ChunkFlags ==
  IF ~srv.open THEN {"audio without a stream"}
  ELSE IF ~srv.available THEN {"audio while unavailable"}
  ELSE {}

\* on_binary_chunk: the decoded audio goes to the stream the role feeds, if any.
ReadsChunk(m) ==
  /\ UNCHANGED <<srv, handles>>
  /\ IF ChunkFlags # {} THEN Flag(ChunkFlags)
     ELSE IF srv.role /\ srv.got /\ srv.handle \notin {NoStream, m.stream}
     THEN history' = [history EXCEPT !.mixed = TRUE]
     ELSE UNCHANGED history

ReadsEnd ==
  /\ Becomes(LET S == [Server EXCEPT !.srv.open = FALSE]
             IN IF srv.role THEN EndStream(S) ELSE S)
  /\ UNCHANGED history

ServerReads ==
  /\ link = "up"
  /\ toServer # <<>>
  /\ toServer' = Tail(toServer)
  /\ LET m == Head(toServer)
     IN \/ m.type = "state" /\ ReadsState(m)
        \/ m.type = "open" /\ ReadsOpen(m)
        \/ m.type = "chunk" /\ ReadsChunk(m)
        \/ m.type = "end" /\ ReadsEnd
        \/ /\ m.type = "reply"
           /\ srv' = [srv EXCEPT !.phase = "swapped"]
           /\ UNCHANGED <<handles, history>>
  /\ UNCHANGED <<link, toClient, cli>>

\* Lenient servers start roles whose state does not come in time: the initial
\* one, or that of a role activated later.
StateTimesOut ==
  /\ link = "up"
  /\ ~srv.initial \/ srv.hold
  /\ Becomes(IF srv.initial THEN HoldReleased(Server)
             ELSE [Server EXCEPT !.srv.initial = TRUE, !.srv.hold = FALSE])
  /\ UNCHANGED <<link, toClient, toServer, cli, history>>

-------------------------------------------------------------------------------
(* The client. *)

\* sending: a client-stream/start is on the wire and its call has not returned;
\* owed: what waits for the send lock it holds, and waits whether the reader
\* does. quiet: from Noise message 1 to
\* the next activation. overlap: the role was removed or the client became
\* unavailable while sending (see EndsWithRole). gaveUp: it ended or dropped the
\* stream it was asked for, or became unavailable while its state was withheld,
\* which the server never hears of.
NewClient ==
  [role |-> FALSE, authorized |-> FALSE, active |-> FALSE, stream |-> NoStream,
   available |-> TRUE, synced |-> FALSE, quiet |-> FALSE, begun |-> FALSE,
   sending |-> FALSE, owed |-> <<>>, waits |-> FALSE, gaveUp |-> FALSE, overlap |-> FALSE]

\* C = [cli, sent]: what a stretch of the client leaves and puts on the wire.
Client == [cli |-> cli, sent |-> <<>>]

\* _send_message: dropped in the quiet period, behind a send in flight.
Send(C, m) ==
  IF C.cli.quiet THEN C
  ELSE IF C.cli.sending THEN [C EXCEPT !.cli.owed = Append(@, m)]
  ELSE [C EXCEPT !.sent = Append(@, m)]

\* send_client_stream_end, which looks again once it has the lock.
EndInput(C) ==
  IF C.cli.sending THEN [C EXCEPT !.cli.owed = Append(@, Plain("end"))]
  ELSE IF ~C.cli.active THEN [C EXCEPT !.cli.authorized = FALSE]
  ELSE [C EXCEPT !.cli.authorized = FALSE, !.cli.active = FALSE,
                 !.sent = Append(@, Plain("end"))]

\* A stream that is known to be open.
EndActive(C) == IF C.cli.active THEN EndInput(C) ELSE C

\* An active source withholds client/state until its clock is synchronized.
Mute(c) == c.quiet \/ (c.role /\ ~c.synced)

SendFullState(C) ==
  IF Mute(C.cli) THEN C
  ELSE Send(C, State(C.cli.available, C.cli.role))

SendAvailableFirst(C, available) ==
  LET U == SendFullState([C EXCEPT !.cli.available = available])
  IN IF available THEN U ELSE EndActive([U EXCEPT !.cli.authorized = FALSE])

\* _update_reported_available ends the stream before the state is sent.
SendAvailable(C, available) ==
  LET U == IF available THEN C
           ELSE EndActive([C EXCEPT !.cli.authorized = FALSE,
                                    !.cli.gaveUp = @ \/ Mute(C.cli),
                                    !.cli.overlap = @ \/ C.cli.sending])
  IN SendFullState([U EXCEPT !.cli.available = available])

\* _apply_activation: the quiet period ends before what it sends.
RolesApplied(C, active) ==
  LET A == [C EXCEPT !.cli.role = active, !.cli.quiet = FALSE, !.cli.begun = TRUE]
  IN IF C.cli.role /\ ~active
     THEN EndActive([A EXCEPT !.cli.authorized = FALSE,
                              !.cli.overlap = @ \/ C.cli.sending])
     ELSE A

\* _handle_server_activate; a connection's first one is followed by its start().
ReadsActivate(C, m) ==
  LET due == C.cli.quiet \/ ~C.cli.begun \/ (m.active /\ ~C.cli.role)
      A == RolesApplied(C, m.active)
  IN IF due THEN SendFullState(A) ELSE A

\* _handle_handshake and _exchange.
ReadsHandshake(C) == [C EXCEPT !.cli.quiet = TRUE, !.sent = <<Plain("reply")>>]

\* _apply_source_command.
ReadsStart(C) ==
  IF C.cli.authorized \/ C.cli.active \/ ~C.cli.available \/ ~C.cli.role THEN C
  ELSE [C EXCEPT !.cli.authorized = TRUE, !.cli.gaveUp = FALSE]

ReadsStop(C) ==
  IF C.cli.authorized \/ C.cli.active
  THEN EndInput([C EXCEPT !.cli.authorized = FALSE, !.cli.gaveUp = TRUE])
  ELSE C

Steps(C) ==
  /\ cli' = C.cli
  /\ toServer' = toServer \o C.sent

\* The reader waits for the lock when it owes a message.
ReaderSteps(C) ==
  Steps([C EXCEPT !.cli.waits = Len(C.cli.owed) > Len(cli.owed)])

\* Message 1 of a re-handshake waits for the send in flight.
ClientReads ==
  /\ link = "up"
  /\ toClient # <<>>
  /\ ~cli.waits
  /\ LET m == Head(toClient)
     IN \/ m.type = "activate" /\ ReaderSteps(ReadsActivate(Client, m))
        \/ m.type = "start" /\ ReaderSteps(ReadsStart(Client))
        \/ m.type = "stop" /\ ReaderSteps(ReadsStop(Client))
        \/ /\ m.type = "handshake"
           /\ ~cli.sending
           /\ Steps(ReadsHandshake(Client))
  /\ toClient' = Tail(toClient)
  /\ UNCHANGED <<link, srv, handles, history>>

\* _handle_server_time, when the filter converges.
Synchronizes ==
  /\ link = "up"
  /\ cli.begun
  /\ ~cli.synced
  /\ ~cli.waits
  /\ ~cli.quiet
  /\ ReaderSteps(LET C == [Client EXCEPT !.cli.synced = TRUE]
                 IN IF cli.role THEN SendFullState(C) ELSE C)
  /\ UNCHANGED <<link, toClient, srv, handles, history>>

\* SendspinConnection.send_available. In the quiet period the end of the stream
\* is refused, and the change with it.
ChangesAvailability ==
  /\ link = "up"
  /\ cli.begun
  /\ history.changes < MaxChanges
  /\ ~(cli.quiet /\ cli.active)
  /\ Steps(SendAvailable(Client, ~cli.available))
  /\ history' = [history EXCEPT !.changes = @ + 1]
  /\ UNCHANGED <<link, toClient, srv, handles>>

\* SourceCapture.start, to the send and from its return. The flags are set only
\* then; whoever waited for the lock goes on.
StartsCapture ==
  /\ link = "up"
  /\ cli.role /\ cli.authorized /\ cli.synced
  /\ ~cli.quiet /\ ~cli.sending
  /\ cli.stream < MaxStreams
  /\ cli' = [cli EXCEPT !.sending = TRUE, !.stream = @ + 1]
  /\ toServer' = Append(toServer, Audio("open", cli.stream + 1))
  /\ UNCHANGED <<link, toClient, srv, handles, history>>

CaptureStarted ==
  /\ cli.sending
  /\ LET C == [Client EXCEPT !.cli.sending = FALSE, !.cli.owed = <<>>, !.cli.waits = FALSE,
                             !.cli.authorized = FALSE, !.cli.active = TRUE]
     IN Steps(FoldLeft(LAMBDA D, m : IF m.type = "end" THEN EndInput(D) ELSE Send(D, m),
                       C, cli.owed))
  /\ UNCHANGED <<link, toClient, srv, handles, history>>

\* SourceCapture.feed; in the quiet period the chunk is dropped.
Feeds ==
  /\ link = "up"
  /\ cli.active /\ cli.role
  /\ history.chunks < MaxChunks
  /\ Steps(Send(Client, Audio("chunk", cli.stream)))
  /\ history' = [history EXCEPT !.chunks = @ + 1]
  /\ UNCHANGED <<link, toClient, srv, handles>>

\* SourceCapture.stop, refused in the quiet period.
StopsCapture ==
  /\ link = "up"
  /\ cli.active
  /\ ~cli.quiet
  /\ Steps(EndInput([Client EXCEPT !.cli.gaveUp = TRUE]))
  /\ UNCHANGED <<link, toClient, srv, handles, history>>

-------------------------------------------------------------------------------
(* The connection. *)

\* Both sides see it gone. The server's role is kept for the reconnect.
Loses ==
  /\ link = "up"
  /\ history.drops < MaxDrops
  /\ link' = "down"
  /\ toClient' = <<>>
  /\ toServer' = <<>>
  /\ cli' = [NewClient EXCEPT !.stream = cli.stream, !.overlap = cli.overlap]
  /\ Becomes(LET U == IF srv.role THEN Unplugged(Server) ELSE Server
             IN [U EXCEPT !.srv.out = <<>>])
  /\ history' = [history EXCEPT !.drops = @ + 1]

\* Hellos, the attach with the roles the server activates, its activation, and
\* whether it then waits for an initial client/state.
Connects(active) ==
  /\ link = "down"
  /\ link' = "up"
  /\ toClient' = <<Activate(active)>>
  /\ LET kept == IF srv.role = active THEN srv
                 ELSE IF active THEN NewRole(srv, FALSE)
                 ELSE Unplugged(Server).srv
     IN srv' = [kept EXCEPT !.role = active, !.hold = FALSE, !.phase = "served",
                            !.starts = 0, !.open = FALSE, !.seen = FALSE,
                            !.initial = ~active]
  /\ UNCHANGED <<toServer, cli, handles, history>>

-------------------------------------------------------------------------------
(* The system. *)

NewServer ==
  [role |-> FALSE, hold |-> FALSE, got |-> FALSE, queued |-> FALSE,
   wanted |-> FALSE, handle |-> NoStream, available |-> TRUE, initial |-> TRUE,
   seen |-> FALSE, starts |-> 0, open |-> FALSE, out |-> <<>>, phase |-> "served"]

Init ==
  /\ link = "down"
  /\ toClient = <<>>
  /\ toServer = <<>>
  /\ srv = NewServer
  /\ cli = NewClient
  /\ handles = [s \in Streams |-> "none"]
  /\ history = [activations |-> 0, requests |-> 0, changes |-> 0, chunks |-> 0,
                drops |-> 0, flagged |-> {}, declined |-> {}, mixed |-> FALSE]

Next ==
  \/ RequestStart \/ RequestStop \/ WriterSends \/ ServerReads \/ StateTimesOut
  \/ StartsRehandshake
  \/ \E active \in BOOLEAN : Reactivates(active) \/ EndsRehandshake(active)
  \/ ClientReads \/ Synchronizes \/ ChangesAvailability
  \/ StartsCapture \/ CaptureStarted \/ Feeds \/ StopsCapture
  \/ Loses
  \/ \E active \in BOOLEAN : Connects(active)

Spec == Init /\ [][Next]_vars

-------------------------------------------------------------------------------
(* Properties. *)

TypeOK ==
  /\ link \in {"up", "down"}
  /\ srv \in [role : BOOLEAN, hold : BOOLEAN, got : BOOLEAN, queued : BOOLEAN,
              wanted : BOOLEAN, handle : Streams \union {NoStream},
              available : BOOLEAN, initial : BOOLEAN, seen : BOOLEAN,
              starts : 0 .. MaxRequests, open : BOOLEAN,
              out : Seq([type : {"start", "stop"}]),
              phase : {"served", "shaking", "swapped"}]
  /\ cli.stream \in Streams \union {NoStream}
  /\ handles \in [Streams -> {"none", "open", "ended"}]

\* A client that keeps to its library is never flagged for what it does with its
\* streams, whatever its messages cross, and no audio of one stream is taken for
\* another's. (It is flagged when its first client/state, sent while the role was
\* removed, arrives once the role is back: no source object.)
NeverFlagged ==
  ~cli.overlap => history.flagged \subseteq {"no source object"} /\ ~history.mixed

\* A consumer waits only at the stream the role feeds: whichever way a stream
\* ends, its handle is ended.
ConsumersReleased == \A s \in Streams : handles[s] = "open" => srv.handle = s

\* Nobody is on the way and nothing is in transit.
AtRest ==
  /\ link = "up"
  /\ toClient = <<>> /\ toServer = <<>> /\ srv.out = <<>>
  /\ srv.phase = "served"
  /\ ~cli.sending

\* Then both sides agree on the role, the availability and the stream; a request
\* does not stay queued for a client that is able, a start that was sent is not
\* lost, and a stream that was taken is heard as long as it is wanted.
AgreeAtRest ==
  AtRest /\ ~cli.overlap =>
    /\ srv.role = cli.role
    /\ srv.open = cli.active
    /\ cli.role /\ cli.synced => srv.available = cli.available
    /\ srv.role /\ cli.synced /\ cli.available =>
         /\ ~srv.queued
         /\ srv.wanted => cli.authorized \/ cli.active \/ cli.gaveUp
    /\ srv.handle # NoStream => cli.active /\ srv.handle = cli.stream
    /\ cli.active /\ srv.wanted /\ cli.stream \notin history.declined =>
         srv.handle = cli.stream

\* Known to fail: a stream whose client-stream/start is under way when its role
\* is removed or the client becomes unavailable ends with them.
EndsWithRole == AtRest /\ cli.active => cli.role /\ cli.available
===============================================================================
