---------------------------- MODULE ClientLifecycle ----------------------------
(***************************************************************************)
(* One device as the server sees it: its connections, which may overlap    *)
(* when the device reconnects, its entry in the registry, the timers that  *)
(* remove the entry, and the dial task of its URL (server/server.py,       *)
(* server/client.py, server/connection.py).                                *)
(*                                                                         *)
(* An action is what a task does between two awaits.  The group operations *)
(* an action awaits do not give up the event loop and are left out.        *)
(***************************************************************************)
EXTENDS ClientRecord, Naturals

CONSTANTS Dialed,       \* the connections the server's dial task opens
          Lenient,      \* allow_noncompliant_clients
          MaxRequests,  \* bound: dial requests, reclaims and stops of the dial
          MaxExternal   \* bound: external registrations

ASSUME LifecycleAssumption == Dialed \subseteq Conns /\ Lenient \in BOOLEAN

VARIABLES
  k,             \* the device's SendspinClient
  conn,          \* the device's connections
  srv,           \* what the server records of the device
  dial,          \* the dial task of the device's URL
  requests,      \* dial requests, reclaims and stops so far (bounded)
  registrations  \* external registrations so far (bounded)

boundVars == <<requests, registrations>>
vars == <<k, conn, srv, dial, boundVars>>

(* A connection: where its handle_client, its reader and its disconnect are, *)
(* which client it acts on (by generation), what it knows of that client's   *)
(* initial state, and its two state timeouts.                                *)
Places == {"off", "hello", "pairing", "activating", "live", "closing", "detaching", "ended"}

ConnType ==
  [place: Places, reader: {"none", "running", "leaving", "ended"},
   disc: {"no", "tasks", "socket", "done", "abandoned"},
   hasClient: BOOLEAN, owner: Nat, closing: BOOLEAN, goodbye: Reasons,
   initial: BOOLEAN, awaited: BOOLEAN, stateSeen: BOOLEAN,
   timer: BOOLEAN, actTimer: BOOLEAN]

NewConn ==
  [place |-> "off", reader |-> "none", disc |-> "no", hasClient |-> FALSE, owner |-> 0,
   closing |-> FALSE, goodbye |-> "NONE", initial |-> FALSE, awaited |-> FALSE,
   stateSeen |-> FALSE, timer |-> FALSE, actTimer |-> FALSE]

(* registered: in _clients; gen: clients removed so far; external: "yes", or  *)
(* "dropped" when unregistered while disconnected; the two deadlines; url: in *)
(* _client_urls; deferred: in _deferred_unregister.                           *)
ServerType ==
  [registered: BOOLEAN, gen: Nat, external: {"no", "yes", "dropped"},
   extTimer: BOOLEAN, reclaim: BOOLEAN, url: BOOLEAN, deferred: BOOLEAN]

NewServer ==
  [registered |-> FALSE, gen |-> 0, external |-> "no", extTimer |-> FALSE, reclaim |-> FALSE,
   url |-> FALSE, deferred |-> FALSE]

(* The dial task: ok is first_connection_succeeded, on its current connection. *)
DialType == [running: BOOLEAN, ok: BOOLEAN, redial: BOOLEAN, on: Conns \cup {NoConn}]
Idle     == [running |-> FALSE, ok |-> FALSE, redial |-> FALSE, on |-> NoConn]
Dialing  == [Idle EXCEPT !.running = TRUE]

TypeOK ==
  /\ k \in ClientType
  /\ conn \in [Conns -> ConnType]
  /\ srv \in ServerType
  /\ dial \in DialType
  /\ requests \in Nat
  /\ registrations \in Nat

Init ==
  /\ k = EmptyClient
  /\ conn = [c \in Conns |-> NewConn]
  /\ srv = NewServer
  /\ dial \in {Idle, Dialing}   \* connect_to_client may have been called before
  /\ requests = 0
  /\ registrations = 0

(* Whether c still acts on the client in the registry. *)
Owns(c) == conn[c].hasClient /\ conn[c].owner = srv.gen

(* Whether the reader of c may still take a message off the socket: until it *)
(* is cancelled, also when the connection has been replaced.                 *)
Reads(c) == conn[c].reader = "running" /\ conn[c].disc \in {"no", "tasks"}

Registry == <<srv, dial, boundVars>>

-----------------------------------------------------------------------------
(* Ending a connection. *)

(* The first part of disconnect: timers are cancelled; a running writer is *)
(* cancelled and awaited before the reader is.                             *)
BeginDisconnect(s, retry) ==
  LET shut   == [s EXCEPT !.closing = @ \/ ~retry]
      writer == s.place \in {"live", "closing"} /\ s.reader = "running"
  IN  IF s.disc # "no" THEN shut
      ELSE [shut EXCEPT !.timer = FALSE, !.actTimer = FALSE,
                        !.disc = IF writer THEN "tasks" ELSE "socket",
                        !.reader = IF ~writer /\ @ = "running" THEN "ended" ELSE @]

TasksEnd(c) ==
  /\ conn[c].disc = "tasks"
  /\ conn' = [conn EXCEPT ![c].disc = "socket",
                          ![c].reader = IF @ = "running" THEN "ended" ELSE @]
  /\ UNCHANGED <<k, Registry>>

Closed(s) == [s EXCEPT !.disc = "done", !.hasClient = FALSE,
                       !.reader = IF @ = "leaving" THEN "ended" ELSE @]

(* Mutant: any connection that closes detaches the client. *)
SocketClosedDetaches(c) ==
  /\ conn[c].disc = "socket"
  /\ conn' = [conn EXCEPT ![c] = Closed(@)]
  /\ k' = IF Owns(c) THEN DetachConnection(k, conn[c].goodbye, srv.external = "yes") ELSE k
  /\ UNCHANGED Registry

(* The socket is closed: detach the client, if this connection is still its own. *)
SocketClosed(c) ==
  /\ conn[c].disc = "socket"
  /\ conn' = [conn EXCEPT ![c] = Closed(@)]
  /\ k' = IF conn[c].hasClient /\ k.connection = c
          THEN DetachConnection(k, conn[c].goodbye, srv.external = "yes") ELSE k
  /\ UNCHANGED Registry

(* The queues overflow: the connection ends as if it had been lost. *)
Overflows(c) ==
  /\ conn[c].place = "live" /\ conn[c].disc = "no"
  /\ conn' = [conn EXCEPT ![c] = BeginDisconnect(@, TRUE)]
  /\ UNCHANGED <<k, Registry>>

(* The reader ends: the socket was lost, or a strict server rejects a message. *)
ReaderEnds(c) ==
  /\ conn[c].reader = "running"
  /\ \E rejected \in {FALSE, ~Lenient} :
       conn' = [conn EXCEPT ![c].reader = "ended", ![c].closing = @ \/ rejected]
  /\ UNCHANGED <<k, Registry>>

Goodbye(c, reason) ==
  /\ Reads(c) /\ reason # "NONE"
  /\ LET s == BeginDisconnect([conn[c] EXCEPT !.goodbye = reason], reason = "RESTART")
     IN  conn' = [conn EXCEPT ![c] =
                    IF conn[c].disc = "no" THEN [s EXCEPT !.reader = "leaving"] ELSE s]
  /\ UNCHANGED <<k, Registry>>

(* handle_client gives up and closes the socket: the hello or the pairing    *)
(* failed, a send failed, its client was taken away, or its reader ended.    *)
HandlerFails(c) ==
  /\ \/ conn[c].place \in {"hello", "pairing", "activating"}
     \/ conn[c].place = "live" /\ conn[c].reader = "ended"
  /\ \E rejected \in {FALSE, conn[c].place # "live"} :
       conn' = [conn EXCEPT ![c].place = "closing", ![c].closing = @ \/ rejected]
  /\ UNCHANGED <<k, Registry>>

(* It then disconnects, unless another task already does. *)
HandlerDisconnects(c) ==
  /\ conn[c].place = "closing"
  /\ conn' = [conn EXCEPT ![c] =
       IF @.disc = "no" THEN [BeginDisconnect(@, ~@.closing) EXCEPT !.place = "detaching"]
       ELSE [@ EXCEPT !.place = "ended"]]
  /\ UNCHANGED <<k, Registry>>

HandlerEnds(c) ==
  /\ conn[c].place = "detaching" /\ conn[c].disc = "done"
  /\ conn' = [conn EXCEPT ![c].place = "ended"]
  /\ UNCHANGED <<k, Registry>>

(* The task of handle_client is cancelled: it closes the connection, except  *)
(* that a socket close it was already waiting for is abandoned.              *)
Cancelled(s) ==
  CASE s.place \in {"hello", "pairing", "activating", "live"} ->
         [s EXCEPT !.place = "closing"]
    [] s.place = "closing" -> [s EXCEPT !.place = "ended"]
    [] s.place = "detaching" /\ s.disc = "socket" ->
         [s EXCEPT !.place = "ended", !.disc = "abandoned"]
    [] OTHER -> s

-----------------------------------------------------------------------------
(* A connection opens and takes the client. *)

Accept(c) ==
  /\ conn[c].place = "off" /\ c \notin Dialed
  /\ conn' = [conn EXCEPT ![c].place = "hello"]
  /\ UNCHANGED <<k, Registry>>

(* The client/hello is accepted: take the client from the connection it may  *)
(* still have.  A connection admitted for pairing starts without roles, any  *)
(* other one queues its server/activate with the same roles.                 *)
Attach(c) ==
  /\ conn[c].place = "hello" /\ conn[c].disc = "no"
  /\ \E S \in SUBSET RoleIds, pairing \in BOOLEAN :
       /\ pairing => S = {}
       /\ k' = AttachConnection(k, c, S)
       /\ conn' = [x \in Conns |->
            IF x = c THEN [conn[c] EXCEPT !.place = IF pairing THEN "pairing" ELSE "activating",
                                          !.reader = IF pairing THEN "running" ELSE "none",
                                          !.hasClient = TRUE, !.owner = srv.gen]
            ELSE IF x = k.connection THEN BeginDisconnect(conn[x], FALSE)
            ELSE conn[x]]
  /\ srv' = [srv EXCEPT !.registered = TRUE, !.external = IF @ = "yes" THEN "yes" ELSE "no",
                        !.extTimer = FALSE, !.reclaim = FALSE, !.url = @ \/ c \in Dialed]
  /\ UNCHANGED <<dial, boundVars>>

(* Mutant: the activation leaves the roles it holds without a timeout. *)
ActivateRolesUntimed(c, S, place) ==
  /\ k' = SetActiveRoles(k, S)
  /\ conn' = [conn EXCEPT ![c].place = place]

(* _send_activation: reconcile the client's roles and time the new holds. *)
ActivateRoles(c, S, place) ==
  LET held == SetActiveRoles(k, S).awaiting
  IN  /\ k' = SetActiveRoles(k, S)
      /\ conn' = [conn EXCEPT ![c].place = place,
            ![c].actTimer = IF conn[c].initial /\ held # {} THEN Lenient ELSE @]

(* Connect-time pairing ended, or left the connection open: activate roles. *)
PairingEnds(c) ==
  /\ conn[c].place = "pairing" /\ conn[c].disc = "no" /\ Owns(c)
  /\ conn[c].reader = "running"
  /\ \E S \in SUBSET RoleIds : ActivateRoles(c, S, "activating")
  /\ UNCHANGED Registry

(* refresh_trusted_unpaired activates another set of roles. *)
RefreshTrusted(c) ==
  /\ conn[c].place \in {"activating", "live"} /\ conn[c].disc = "no"
  /\ k.connection = c
  /\ \E S \in SUBSET RoleIds : ActivateRoles(c, S, conn[c].place)
  /\ UNCHANGED Registry

(* The server/activate is out: connect the client, or wait for its state. *)
ExchangeDone(c) ==
  /\ conn[c].place = "activating" /\ Owns(c)
  /\ LET s        == conn[c]
         roles    == ActiveRoles(k)
         unstated == roles # {} /\ ~s.stateSeen
         waits    == roles \cap NeedsState # {} \/ (unstated /\ ~Lenient)
         ready    == ~s.initial /\ ~waits
     IN  /\ conn' = [conn EXCEPT ![c] =
              [s EXCEPT !.place = "live",
                        !.reader = IF s.reader = "none" THEN "running" ELSE s.reader,
                        !.initial = s.initial \/ ready,
                        !.awaited = ~s.initial /\ waits,
                        !.timer = ~s.initial /\ Lenient /\ (waits \/ unstated)]]
         /\ k' = IF ready THEN MarkConnected(k) ELSE k
  /\ UNCHANGED Registry

-----------------------------------------------------------------------------
(* The initial client/state, and the states of roles activated later. *)

(* _handle_client_state, with the objects of the roles objs. *)
ClientState(c, objs) ==
  /\ Reads(c) /\ Owns(c)
  /\ LET s        == conn[c]
         initial  == ~s.initial /\ (s.awaited \/ ActiveRoles(k) \cap NeedsState # {})
         left     == k.awaiting \ objs
     IN  /\ conn' = [conn EXCEPT ![c] =
              [s EXCEPT !.timer = FALSE, !.stateSeen = TRUE, !.initial = s.initial \/ initial,
                        !.actTimer = IF initial THEN FALSE
                                     ELSE IF left = k.awaiting THEN s.actTimer
                                     ELSE Lenient /\ left # {}]]
         /\ k' = IF initial THEN MarkConnected([k EXCEPT !.awaiting = {}])
                 ELSE [k EXCEPT !.awaiting = left]
  /\ UNCHANGED Registry

(* Lenient: the client is connected without its initial client/state. *)
InitialStateTimeout(c) ==
  /\ conn[c].timer
  /\ IF Owns(c) /\ ~conn[c].initial
     THEN /\ k' = MarkConnected([k EXCEPT !.awaiting = {}])
          /\ conn' = [conn EXCEPT ![c] = [@ EXCEPT !.timer = FALSE, !.initial = TRUE,
                                                   !.actTimer = FALSE]]
     ELSE k' = k /\ conn' = [conn EXCEPT ![c].timer = FALSE]
  /\ UNCHANGED Registry

(* Lenient: the held roles start without their state. *)
ActivationStateTimeout(c) ==
  /\ conn[c].actTimer
  /\ conn' = [conn EXCEPT ![c].actTimer = FALSE]
  /\ k' = IF Owns(c) THEN [k EXCEPT !.awaiting = {}] ELSE k
  /\ UNCHANGED Registry

-----------------------------------------------------------------------------
(* The registry and its deadlines. *)

(* remove_client, from the client j and the records s its caller leaves. *)
RemoveClient(j, s) ==
  /\ k' = [EmptyClient EXCEPT
             !.faults = Fault(j, "leaked", LiveRoles(j) # {} /\ ~j.cold).faults]
  /\ srv' = [NewServer EXCEPT !.gen = s.gen + (IF s.registered THEN 1 ELSE 0),
                              !.deferred = s.deferred]

(* _do_cleanup, when the cleanup timer fires. *)
CleanupFires ==
  /\ k.cleanup # "none"
  /\ IF k.connected THEN k' = [k EXCEPT !.cleanup = "none"] /\ srv' = srv
     ELSE RemoveClient(HardDetachRoles(k, TRUE), srv)
  /\ UNCHANGED <<conn, dial, boundVars>>

(* Mutant: a connected client is unregistered as well. *)
FullUnregisterAnyway(s, running) ==
  IF s.url /\ running
  THEN k' = k /\ srv' = [s EXCEPT !.deferred = TRUE]
  ELSE RemoveClient(k, [s EXCEPT !.deferred = FALSE])

(* _full_unregister_disconnected_client: put off while the dial task runs. *)
FullUnregister(s, running) ==
  IF k.connection # NoConn THEN k' = k /\ srv' = s
  ELSE IF s.url /\ running
  THEN k' = k /\ srv' = [s EXCEPT !.deferred = TRUE]
  ELSE RemoveClient(k, [s EXCEPT !.deferred = FALSE])

(* register_external_player, with a deadline or without one. *)
RegisterExternal(timed) ==
  /\ k.connection = NoConn /\ registrations < MaxExternal
  /\ \E S \in SUBSET RoleIds : k' = Preinitialize(k, S)
  /\ srv' = [srv EXCEPT !.registered = TRUE, !.external = "yes", !.reclaim = FALSE,
                        !.extTimer = timed]
  /\ registrations' = registrations + 1
  /\ UNCHANGED <<conn, dial, requests>>

UnregisterExternal ==
  /\ srv.external = "yes"
  /\ srv' = [srv EXCEPT !.external = IF k.connection = NoConn THEN "dropped" ELSE "no",
                        !.extTimer = FALSE]
  /\ UNCHANGED <<k, conn, dial, boundVars>>

ConnectColdRoles ==
  /\ k.cold /\ ~k.attached
  /\ k' = AttachPreinitialized(k)
  /\ UNCHANGED <<conn, Registry>>

ExternalDeadline ==
  /\ srv.extTimer
  /\ FullUnregister([srv EXCEPT !.extTimer = FALSE], dial.running)
  /\ UNCHANGED <<conn, dial, boundVars>>

ReclaimDeadline ==
  /\ srv.reclaim
  /\ FullUnregister([srv EXCEPT !.reclaim = FALSE], dial.running)
  /\ UNCHANGED <<conn, dial, boundVars>>

-----------------------------------------------------------------------------
(* The dial task of the URL. *)

(* should_retry_server_initiated_connection; with no goodbye it depends on  *)
(* the activities of the session, which are left open.                      *)
Retries(s) ==
  IF s.closing THEN {FALSE}
  ELSE IF s.goodbye = "NONE" THEN BOOLEAN ELSE {s.goodbye = "RESTART"}

(* connect_to_client: a running dial task is told to dial again only when its *)
(* connection is closing for good.                                            *)
Redialed ==
  IF ~dial.running THEN {Dialing}
  ELSE {[dial EXCEPT !.redial = @ \/ again] : again \in
          IF dial.on # NoConn /\ conn[dial.on].disc # "no"
          THEN {~retry : retry \in Retries(conn[dial.on])} ELSE {FALSE}}

DialRequest ==
  /\ requests < MaxRequests
  /\ dial' \in Redialed
  /\ requests' = requests + 1
  /\ UNCHANGED <<k, conn, srv, registrations>>

(* A group starts playback: dial a disconnected client back, in time. *)
Reclaim ==
  /\ requests < MaxRequests
  /\ srv.registered /\ srv.url /\ srv.external # "yes" /\ ~k.connected
  /\ dial' \in Redialed
  /\ srv' = [srv EXCEPT !.reclaim = TRUE]
  /\ requests' = requests + 1
  /\ UNCHANGED <<k, conn, registrations>>

DialOpens(c) ==
  /\ dial.running /\ dial.on = NoConn
  /\ conn[c].place = "off" /\ c \in Dialed
  /\ dial' = [dial EXCEPT !.ok = TRUE, !.on = c]
  /\ conn' = [conn EXCEPT ![c].place = "hello"]
  /\ UNCHANGED <<k, srv, boundVars>>

(* The dial task ends, and completes an unregister it had put off. *)
DialEnds ==
  /\ dial' = Idle
  /\ IF srv.url /\ srv.deferred /\ ~dial.ok
     THEN FullUnregister([srv EXCEPT !.deferred = FALSE], FALSE)
     ELSE k' = k /\ srv' = [srv EXCEPT !.deferred = @ /\ ~srv.url]

(* The first attempt fails; a later one is repeated. *)
DialFails ==
  /\ dial.running /\ dial.on = NoConn /\ ~dial.ok
  /\ DialEnds
  /\ UNCHANGED <<conn, boundVars>>

(* The connection has ended: dial again, on request as for the first time. *)
DialResumes(c) ==
  /\ dial.running /\ dial.on = c /\ conn[c].place = "ended"
  /\ dial.redial \/ TRUE \in Retries(conn[c])
  /\ dial' = [dial EXCEPT !.on = NoConn, !.redial = FALSE, !.ok = @ /\ ~dial.redial]
  /\ UNCHANGED <<k, conn, srv, boundVars>>

DialGivesUp(c) ==
  /\ dial.running /\ dial.on = c /\ conn[c].place = "ended"
  /\ ~dial.redial /\ FALSE \in Retries(conn[c])
  /\ DialEnds
  /\ UNCHANGED <<conn, boundVars>>

(* The task of the dial is dropped and cancelled, with its connection's. *)
StopTask ==
  /\ dial' = Idle
  /\ conn' = [c \in Conns |-> IF c = dial.on THEN Cancelled(conn[c]) ELSE conn[c]]

(* disconnect_from_client.  The cancelled task still forgets a deferred      *)
(* unregister, unless a new dial task has taken the URL by then.             *)
StopDial ==
  /\ dial.running /\ requests < MaxRequests
  /\ StopTask
  /\ \E forgets \in BOOLEAN :
       srv' = [srv EXCEPT !.deferred = @ /\ ~(srv.url /\ forgets)]
  /\ requests' = requests + 1
  /\ UNCHANGED <<k, registrations>>

(* The device's mDNS record disappears: stop dialing a URL no client wants,  *)
(* and forget the client its goodbye had retained.                           *)
MdnsRemoved ==
  LET forgotten == srv.url /\ srv.registered /\ k.retained
      kept      == srv.url /\ srv.registered /\ ~k.retained
  IN  /\ dial.running \/ srv.url
      /\ IF kept THEN UNCHANGED <<dial, conn>> ELSE StopTask
      /\ IF forgotten THEN RemoveClient(k, srv) ELSE k' = k /\ srv' = srv
      /\ UNCHANGED boundVars

-----------------------------------------------------------------------------
ConnStep(c) ==
  \/ TasksEnd(c) \/ SocketClosed(c) \/ Overflows(c) \/ ReaderEnds(c)
  \/ \E reason \in Reasons : Goodbye(c, reason)
  \/ HandlerFails(c) \/ HandlerDisconnects(c) \/ HandlerEnds(c)
  \/ Accept(c) \/ Attach(c) \/ PairingEnds(c) \/ RefreshTrusted(c) \/ ExchangeDone(c)
  \/ \E objs \in SUBSET NeedsState : ClientState(c, objs)
  \/ InitialStateTimeout(c) \/ ActivationStateTimeout(c)

RegistryStep ==
  \/ CleanupFires \/ UnregisterExternal \/ ConnectColdRoles
  \/ \E timed \in BOOLEAN : RegisterExternal(timed)
  \/ ExternalDeadline \/ ReclaimDeadline

DialStep ==
  \/ DialRequest \/ Reclaim \/ DialFails \/ StopDial \/ MdnsRemoved
  \/ \E c \in Conns : DialOpens(c) \/ DialResumes(c) \/ DialGivesUp(c)

Next == RegistryStep \/ DialStep \/ \E c \in Conns : ConnStep(c)

Spec == Init /\ [][Next]_vars

(* A connection that lost its reader is wound up by its handler, a closing  *)
(* socket is cut after a timeout, and an armed cleanup timer fires.         *)
Fairness ==
  /\ \A c \in Conns :
       /\ WF_vars(TasksEnd(c))
       /\ WF_vars(SocketClosed(c))
       /\ WF_vars(conn[c].reader = "ended" /\ HandlerFails(c))
       /\ WF_vars(HandlerDisconnects(c))
  /\ WF_vars(CleanupFires)

FairSpec == Spec /\ Fairness

-----------------------------------------------------------------------------
(* No role instance is left running without its on_disconnect, and none is  *)
(* connected twice, whatever the order of attaches, replacements, detaches, *)
(* registrations and cleanups.                                              *)
RolesPaired == k.faults = {}

(* While a connection is attached its roles run; without one, none does,    *)
(* except roles connected without a transport.                              *)
RolesFollowAttachment ==
  IF k.connection # NoConn THEN \A r \in RoleIds : k.roles[r] \in {"live", "absent"}
  ELSE LiveRoles(k) = {} \/ k.cold

(* Roles follow their client through connections, with their hooks in pairs. *)
RolesSettled == RolesPaired /\ RolesFollowAttachment

(* The client in the registry is the one its connection is attached to: no  *)
(* cleanup, deadline or mDNS removal takes away a client that came back.    *)
AttachedIsRegistered ==
  k.connection # NoConn =>
    srv.registered /\ Owns(k.connection) /\ k.cleanup = "none" /\ ~k.retained

(* A registered client without a connection will be removed, or somebody    *)
(* still wants it: a timer, an external player, a retained goodbye.         *)
NoForgottenClient ==
  srv.registered /\ k.connection = NoConn =>
    k.cleanup # "none" \/ k.retained \/ srv.external # "no"

(* No cleanup timer is left to remove an external player.                   *)
ExternalOutlivesCleanup == srv.external = "yes" => k.cleanup = "none"

(* The registry follows the device: it keeps one that came back, and only    *)
(* keeps one that left while somebody wants it.                              *)
RegistryFollows == AttachedIsRegistered /\ NoForgottenClient /\ ExternalOutlivesCleanup

(* A lenient server waits for no client/state without a timeout: neither to *)
(* connect the client nor to start a role it holds.                         *)
NoEndlessWait ==
  \A c \in Conns :
    Lenient /\ k.connection = c /\ conn[c].place = "live" /\ conn[c].disc = "no" =>
      (k.connected \/ conn[c].timer) /\ (k.awaiting = {} \/ conn[c].timer \/ conn[c].actTimer)

(* Only the client's own connection detaches it, and only as it closes.     *)
DetachedByItsOwn ==
  [][k.connection # NoConn /\ k'.connection = NoConn =>
       conn[k.connection].disc = "socket" /\ conn'[k.connection].disc = "done"]_vars

(* attach_connection: "_connected = False  # set True once initial state is *)
(* received (spec)".                                                        *)
ConnectedMeansInitialState ==
  k.connected /\ k.connection # NoConn /\ ActiveRoles(k) \cap NeedsState # {} =>
    conn[k.connection].initial

(* disconnect: "Disconnect this connection and detach from its persistent   *)
(* client" - a connection that lost its reader does not keep the client.     *)
LostIsDetached ==
  \A c \in Conns :
    (k.connection = c /\ conn[c].reader = "ended") ~> (k.connection # c)

=============================================================================
