------------------------------- MODULE Pairing -------------------------------
(***************************************************************************)
(* One server and one client agreeing on a long-term credential over one   *)
(* encrypted connection (noise/pairing.py), with the code on both sides    *)
(* that starts, cancels and ends an attempt and re-keys the session around *)
(* it (server/connection.py, client/connection.py, noise/driver.py), and   *)
(* the record each side persists (noise/trust_store.py).                   *)
(*                                                                         *)
(* The connection delivers in order in both directions and may drop at any *)
(* point with everything in flight. A side that runs an attempt reads      *)
(* pairing messages from a queue of its own, fed by its message loop.      *)
(* Timers may expire whenever they are armed. A credential is named after  *)
(* the attempt that minted it; Sentinel and PairingPsk are the two others  *)
(* a session can be keyed with. Clients predating a protocol change are    *)
(* left out, and so is a server admitted by a staged Pairing PSK.          *)
(***************************************************************************)
EXTENDS Integers, Sequences

CONSTANTS
  Methods,       \* the methods the operator may pick: psk, static, dynamic
  RoundLimit,    \* PAIRING_ROUND_LIMIT
  MaxAttempts,   \* bound: attempts the server starts
  Overlapping,   \* may an operator start an attempt while end_pairing still
                 \* returns the session to its record?
  MaxDrops,      \* bound: connections lost, restarts included
  MaxCrashes     \* bound: restarts of either side

ASSUME PairingAssumption ==
  /\ Methods \subseteq {"psk", "static", "dynamic"}
  /\ RoundLimit \in Nat \ {0}
  /\ MaxAttempts \in Nat
  /\ Overlapping \in BOOLEAN
  /\ MaxDrops \in Nat
  /\ MaxCrashes \in Nat

Sentinel == 0
PairingPsk == -1
NoRecord == 0
Credentials == 1 .. MaxAttempts
Psks == Credentials \union {Sentinel, PairingPsk}

VARIABLES
  link,         \* "up" or "down"
  toClient,     \* what the server sent and the client's reader has not read
  toServer,     \* what the client sent and the server's reader has not read
  srv,          \* the server's connection and its pairing task
  cli,          \* the client's connection and its pairing task
  serverStore,  \* the server's record of the client: in memory and on disk
  clientStore,  \* the client's record of the server, and its round count
  history       \* what happened, for the properties: no action reads it

vars == <<link, toClient, toServer, srv, cli, serverStore, clientStore, history>>

-------------------------------------------------------------------------------
(* Messages. *)

Activate(method, a) == [type |-> "activate", method |-> method, attempt |-> a]
Handshake(psk) == [type |-> "handshake", psk |-> psk]
PairInit(index) == [type |-> "init", index |-> index]
Auth(code, sid) == [type |-> "auth", code |-> code, sid |-> sid]
Finalize(psk) == [type |-> "finalize", psk |-> psk]
Abort(reason) == [type |-> "abort", reason |-> reason]
Plain(type) == [type |-> type]

PairingTypes ==
  {"init", "pending", "auth", "confirm", "retry", "finalize", "abort"}

\* Reasons a client only gives after its attempt's first message.
LeftoverReasons == {"attempt_timeout", "pairing_code_mismatch"}

-------------------------------------------------------------------------------
(* The ends of attempts and of the connection. *)

\* Where a server waits with its pairing queue installed.
Exchanging == {"init", "gesture", "code", "auth", "reply", "final"}
Rekeying == {"rekey", "rerec", "return"}
Queued == Exchanging \union Rekeying \union {"prep", "save", "acked"}

ServerAtRest ==
  [pc |-> "idle", method |-> "psk", attempt |-> 0, index |-> 0, round |-> 1,
   psk |-> Sentinel, moved |-> FALSE, mismatch |-> FALSE, cancel |-> FALSE,
   free |-> FALSE, inbox |-> <<>>]

ClientAtRest ==
  [pc |-> "none", method |-> "psk", attempt |-> 0, index |-> 0, round |-> 1,
   agreed |-> FALSE, psk |-> Sentinel, rekeyed |-> FALSE, acked |-> FALSE,
   cancellable |-> FALSE, window |-> FALSE, inbox |-> <<>>]

\* Both sides see the connection gone: their tasks are cancelled, what was in
\* flight is lost, and only the stores keep anything.
Dropped ==
  /\ link' = "down"
  /\ toClient' = <<>>
  /\ toServer' = <<>>
  /\ srv' = [ServerAtRest EXCEPT !.attempt = srv.attempt]
  /\ cli' = [ClientAtRest EXCEPT !.window = cli.window]

\* _leave_pairing: resume service with a server/activate, then return a
\* session that was moved off its record back onto it.
LeaveTo(s, sends) ==
  IF s.moved /\ serverStore.mem # NoRecord
  THEN /\ srv' = [s EXCEPT !.pc = "return", !.inbox = <<>>, !.cancel = FALSE]
       /\ toClient' = toClient \o sends
                        \o <<Activate("none", 0), Handshake(serverStore.mem)>>
  ELSE /\ srv' = [s EXCEPT !.pc = "idle", !.inbox = <<>>, !.cancel = FALSE,
                          !.free = FALSE]
       /\ toClient' = toClient \o sends \o <<Activate("none", 0)>>

\* A client's attempt is over and its queue gone.
Ended(c) ==
  [c EXCEPT !.pc = "none", !.inbox = <<>>, !.acked = FALSE,
            !.cancellable = FALSE, !.agreed = FALSE]

\* A pairing message nobody should have sent: PairingError, and the side that
\* reads it disconnects.
Confused ==
  /\ Dropped
  /\ history' = [history EXCEPT !.confused = TRUE]
  /\ UNCHANGED <<serverStore, clientStore>>

-------------------------------------------------------------------------------
(* Connections. *)

\* A fresh handshake: the server references its record, and the client answers
\* under the Sentinel when it cannot resolve it.
Reconnect ==
  /\ link = "down"
  /\ link' = "up"
  /\ LET wanted == serverStore.mem
         agreed == wanted # NoRecord /\ wanted = clientStore.mem
         psk == IF agreed THEN wanted ELSE Sentinel
     IN /\ srv' = [srv EXCEPT !.psk = psk,
                              !.mismatch = wanted # NoRecord /\ ~agreed]
        /\ cli' = [cli EXCEPT !.psk = psk, !.rekeyed = TRUE]
  /\ toClient' = <<Activate("none", 0)>>
  /\ UNCHANGED <<toServer, serverStore, clientStore, history>>

LinkDrops ==
  /\ link = "up"
  /\ history.drops < MaxDrops
  /\ Dropped
  /\ history' = [history EXCEPT !.drops = @ + 1]
  /\ UNCHANGED <<serverStore, clientStore>>

\* A restart keeps what the last completed write left on the disk.
ServerRestarts ==
  /\ history.crashes < MaxCrashes
  /\ Dropped
  /\ serverStore' = [serverStore EXCEPT !.mem = serverStore.disk, !.saving = FALSE]
  /\ history' = [history EXCEPT !.crashes = @ + 1]
  /\ UNCHANGED clientStore

ClientRestarts ==
  /\ history.crashes < MaxCrashes
  /\ Dropped
  /\ clientStore' = [clientStore EXCEPT !.mem = clientStore.disk, !.saving = FALSE]
  /\ history' = [history EXCEPT !.crashes = @ + 1]
  /\ UNCHANGED serverStore

-------------------------------------------------------------------------------
(* The server. *)

\* initiate_pairing: re-key first when the method wants another PSK. Nothing
\* but an attempt still running refuses it, and end_pairing has ended its own
\* before it returns the session to the record.
StartAttempt ==
  /\ link = "up"
  /\ srv.pc = "idle" \/ (Overlapping /\ srv.pc = "return" /\ srv.free)
  /\ srv.attempt < MaxAttempts
  /\ \E method \in Methods :
       LET wanted == IF method = "psk" THEN PairingPsk ELSE Sentinel
           started == [srv EXCEPT !.method = method, !.attempt = @ + 1,
                                  !.round = 1, !.free = FALSE, !.inbox = <<>>]
       IN IF srv.psk = wanted
          THEN /\ srv' = [started EXCEPT !.pc = "prep"]
               /\ UNCHANGED toClient
          ELSE /\ srv' = [started EXCEPT !.pc = "rekey"]
               /\ toClient' = Append(toClient, Handshake(wanted))
  /\ UNCHANGED <<link, toServer, cli, serverStore, clientStore, history>>

\* The activation that admits the attempt, counted before it is sent.
SendActivation(s) ==
  /\ srv' = [s EXCEPT !.pc = "init", !.index = @ + 1]
  /\ toClient' = Append(toClient, Activate(s.method, s.attempt))

Prepared ==
  /\ srv.pc = "prep"
  /\ SendActivation(srv)
  /\ UNCHANGED <<link, toServer, cli, serverStore, clientStore, history>>

\* The message loop hands pairing and handshake messages to the task that owns
\* the queue; outside an attempt they are dropped.
ServerReads ==
  /\ toServer # <<>>
  /\ toServer' = Tail(toServer)
  /\ srv' = IF srv.pc \in Queued
            THEN [srv EXCEPT !.inbox = Append(@, Head(toServer))] ELSE srv
  /\ UNCHANGED <<link, toClient, cli, serverStore, clientStore, history>>

Take(s) == [s EXCEPT !.inbox = Tail(@)]

\* Re-keying discards whatever the client sent under the old keys. A cancel
\* that arrived meanwhile leaves pairing before the client saw an attempt.
ServerRekeyed ==
  /\ srv.pc \in Rekeying
  /\ srv.inbox # <<>>
  /\ LET m == Head(srv.inbox)
         keyed == [Take(srv) EXCEPT !.psk = m.psk, !.index = 0]
         moved == [keyed EXCEPT !.moved = @ \/ srv.psk \in Credentials]
     IN CASE m.type # "handshake" ->
               srv' = Take(srv) /\ UNCHANGED toClient
          [] m.type = "handshake" /\ srv.pc = "rekey" ->
               IF srv.cancel THEN LeaveTo(moved, <<>>) ELSE SendActivation(moved)
          [] m.type = "handshake" /\ srv.pc = "rerec" ->
               LeaveTo(keyed, <<>>)
          [] m.type = "handshake" /\ srv.pc = "return" ->
               LeaveTo([keyed EXCEPT !.moved = FALSE, !.free = FALSE], <<>>)
  /\ UNCHANGED <<link, toServer, cli, serverStore, clientStore, history>>

\* A pair/abort ends the attempt, unless it can only be a leftover of the
\* attempt before this one.
ServerAborted(m) ==
  /\ IF srv.pc = "init" /\ srv.index > 1 /\ m.reason \in LeftoverReasons
     THEN srv' = Take(srv) /\ UNCHANGED toClient
     ELSE LeaveTo(srv, <<>>)
  /\ UNCHANGED <<link, toServer, cli, serverStore, clientStore, history>>

\* A client that starts the exchange: the code methods await the operator, and
\* the dynamic one sends server/pair-init for the client to derive its code.
Started ==
  /\ srv' = [Take(srv) EXCEPT !.pc = IF srv.method = "psk" THEN "final" ELSE "code"]
  /\ toClient' = IF srv.method = "dynamic"
                 THEN Append(toClient, Plain("init")) ELSE toClient

\* Mutant: a number from an attempt that was superseded is an error as well.
FirstMessageStrict(m) ==
  IF m.type \in {"init", "pending"} /\ m.index # srv.index THEN Confused
  ELSE /\ IF m.type = "init" THEN Started
          ELSE srv' = Take(srv) /\ UNCHANGED toClient
       /\ UNCHANGED <<link, toServer, cli, serverStore, clientStore, history>>

\* The first message of this attempt: older indices and the unnumbered
\* messages of a superseded attempt are discarded, a newer index is an error.
FirstMessage(m) ==
  LET numbered == m.type \in {"init", "pending"}
      current == numbered /\ m.index = srv.index
      wrong == IF numbered
               THEN \/ m.index > srv.index
                    \/ current /\ m.type = "pending" /\ srv.method = "psk"
               ELSE m.type = "handshake"
  IN IF wrong THEN Confused
     ELSE /\ IF current
             THEN IF m.type = "init" THEN Started
                  ELSE srv' = [Take(srv) EXCEPT !.pc = "gesture"] /\ UNCHANGED toClient
             ELSE srv' = Take(srv) /\ UNCHANGED toClient
          /\ UNCHANGED <<link, toServer, cli, serverStore, clientStore, history>>

\* What the server waits for in each later phase, and where it goes then.
Awaited ==
  CASE srv.pc = "gesture" -> {"init"}
    [] srv.pc = "auth" -> {"auth"}
    [] srv.pc = "reply" -> IF srv.method = "dynamic" THEN {"confirm", "retry"}
                                                     ELSE {"confirm"}
    [] srv.pc = "final" -> {"finalize"}
    [] OTHER -> {}

Exchanged(m) ==
  LET to(pc) == [Take(srv) EXCEPT !.pc = pc]
  IN /\ CASE m.type = "init" -> Started
          [] m.type = "auth" ->
               srv' = to("reply") /\ toClient' = Append(toClient, Plain("confirm"))
          [] m.type = "confirm" ->
               srv' = to("final") /\ UNCHANGED toClient
          [] m.type = "retry" ->
               /\ srv' = [to("code") EXCEPT !.round = @ + 1]
               /\ toClient' = Append(toClient, Plain("init"))
     /\ UNCHANGED <<link, toServer, cli, serverStore, clientStore, history>>

\* Mutant: the record is acknowledged before it is written.
FinalizedEarly(m) ==
  /\ ~serverStore.saving
  /\ srv' = [Take(srv) EXCEPT !.pc = "acked"]
  /\ toClient' = Append(toClient, Plain("finalize"))
  /\ serverStore' = [serverStore EXCEPT !.mem = m.psk, !.saving = TRUE]
  /\ history' = [history EXCEPT !.accepted = @ \union {m.psk}]
  /\ UNCHANGED <<link, toServer, cli, clientStore>>

\* _commit_finalize: the record replaces the one in memory and is being saved.
Finalized(m) ==
  /\ ~serverStore.saving
  /\ srv' = [Take(srv) EXCEPT !.pc = "save"]
  /\ serverStore' = [serverStore EXCEPT !.mem = m.psk, !.saving = TRUE]
  /\ history' = [history EXCEPT !.accepted = @ \union {m.psk}]
  /\ UNCHANGED <<link, toClient, toServer, cli, clientStore>>

\* The pairing task reads its queue.
ServerListens ==
  /\ srv.pc \in Exchanging
  /\ srv.inbox # <<>>
  /\ LET m == Head(srv.inbox) IN
       CASE m.type = "abort" -> ServerAborted(m)
         [] m.type # "abort" /\ srv.pc = "init" -> FirstMessage(m)
         [] m.type = "finalize" /\ srv.pc = "final" -> Finalized(m)
         [] m.type \in Awaited \ {"finalize"} /\ (srv.pc = "gesture" => m.index = srv.index)
              -> Exchanged(m)
         [] OTHER -> Confused

\* The operator's entry: the right code, a wrong one, or none that can be used.
CodeEntered ==
  /\ srv.pc = "code"
  /\ \/ \E code \in {"right", "wrong"} :
          /\ srv' = [srv EXCEPT !.pc = "auth"]
          /\ toClient' = Append(toClient, Auth(code, <<srv.index, srv.round>>))
     \/ LeaveTo(srv, <<>>)
  /\ UNCHANGED <<link, toServer, cli, serverStore, clientStore, history>>

\* The write completes, in its thread, whether or not its task still waits;
\* a task that does acknowledges the record.
ServerSaved ==
  /\ serverStore.saving
  /\ serverStore' = [serverStore EXCEPT !.disk = serverStore.mem, !.saving = FALSE]
  /\ history' = [history EXCEPT !.stored = @ \union {serverStore.mem}]
  /\ IF srv.pc = "save"
     THEN /\ srv' = [srv EXCEPT !.pc = "acked"]
          /\ toClient' = Append(toClient, Plain("finalize"))
     ELSE UNCHANGED <<srv, toClient>>
  /\ UNCHANGED <<link, toServer, cli, clientStore>>

\* The lesser grants are dropped, the mismatch forgotten, and the session
\* re-keyed onto the record.
Acknowledged ==
  /\ srv.pc = "acked"
  /\ srv' = [srv EXCEPT !.pc = "rerec", !.moved = FALSE, !.mismatch = FALSE]
  /\ toClient' = Append(toClient, Handshake(serverStore.mem))
  /\ UNCHANGED <<link, toServer, cli, serverStore, clientStore, history>>

\* end_pairing: a cancel during a re-key is noted, one after the client has
\* finalized is absorbed, any other aborts the attempt in band.
CancelAttempt ==
  /\ \/ /\ srv.pc = "rekey" /\ ~srv.cancel
        /\ srv' = [srv EXCEPT !.cancel = TRUE]
        /\ UNCHANGED toClient
     \/ /\ srv.pc \in Exchanging \union {"prep"}
        /\ LeaveTo([srv EXCEPT !.free = TRUE], <<Abort("user_cancelled")>>)
  /\ UNCHANGED <<link, toServer, cli, serverStore, clientStore, history>>

\* Mutant: the wait for the operator's gesture has no bound.
ServerTimesOutSoon ==
  /\ \/ /\ srv.pc \in (Exchanging \ {"gesture"}) \union {"save"}
        /\ LeaveTo(srv, <<>>)
        /\ history' = [history EXCEPT !.late = @ \/ srv.pc = "save"]
        /\ UNCHANGED <<link, toServer, cli>>
     \/ /\ srv.pc \in Rekeying \union {"acked"}
        /\ Dropped
        /\ UNCHANGED history
  /\ UNCHANGED <<serverStore, clientStore>>

\* A bound on a wait expires. Before the record is saved the attempt is left;
\* a re-key or an acknowledgement that hangs ends the connection.
ServerTimesOut ==
  /\ \/ /\ srv.pc \in Exchanging \union {"save"}
        /\ LeaveTo(srv, <<>>)
        /\ history' = [history EXCEPT !.late = @ \/ srv.pc = "save"]
        /\ UNCHANGED <<link, toServer, cli>>
     \/ /\ srv.pc \in Rekeying \union {"acked"}
        /\ Dropped
        /\ UNCHANGED history
  /\ UNCHANGED <<serverStore, clientStore>>

-------------------------------------------------------------------------------
(* The client. *)

\* Where an attempt waits for a message of its own queue.
Listening == {"gate", "sinit", "auth", "confirm", "ack"}

\* Where an attempt stops by its own timeout.
Timed == {"sinit", "emit", "show", "auth", "confirm", "mint", "ack", "store"}

Holds(psk) == psk \in {Sentinel, PairingPsk} \/ psk = clientStore.mem

\* A server/activate ends the attempt in progress and may admit another.
ReadActivate(m) ==
  LET freed == [Ended(cli) EXCEPT !.rekeyed = FALSE]
  IN /\ cli' = IF m.method = "none" THEN freed
               ELSE [freed EXCEPT !.pc = "start", !.method = m.method,
                                  !.attempt = m.attempt, !.index = @ + 1,
                                  !.round = 1, !.cancellable = TRUE]
     /\ toClient' = Tail(toClient)
     /\ UNCHANGED <<link, toServer, srv, history>>

\* A handshake ends it too and re-keys, on a credential the client holds.
ReadHandshake(m) ==
  IF Holds(m.psk)
  THEN /\ cli' = [Ended(cli) EXCEPT !.psk = m.psk, !.index = 0, !.rekeyed = TRUE]
       /\ toServer' = Append(toServer, m)
       /\ toClient' = Tail(toClient)
       /\ UNCHANGED <<link, srv, history>>
  ELSE /\ Dropped
       /\ history' = [history EXCEPT !.refused = TRUE]

\* The reader waits for the attempt once it has handed it server/pair-finalize.
ClientReads ==
  /\ toClient # <<>>
  /\ ~(cli.acked /\ cli.pc # "none")
  /\ LET m == Head(toClient) IN
       \/ m.type = "activate" /\ ReadActivate(m)
       \/ m.type = "handshake" /\ ~cli.rekeyed /\ ReadHandshake(m)
       \/ /\ m.type \in PairingTypes /\ ~cli.rekeyed
          /\ cli' = IF cli.pc = "none" THEN cli
                    ELSE [cli EXCEPT !.inbox = Append(@, m),
                                     !.acked = m.type = "finalize"]
          /\ toClient' = Tail(toClient)
          /\ UNCHANGED <<link, toServer, srv, history>>
       \/ /\ m.type # "activate" /\ cli.rekeyed
          /\ Dropped
          /\ history' = [history EXCEPT !.confused = TRUE]
  /\ UNCHANGED <<serverStore, clientStore>>

Sends(c, m) ==
  /\ cli' = c
  /\ toServer' = Append(toServer, m)
  /\ UNCHANGED <<link, toClient, srv, serverStore, clientStore, history>>

\* Mutant: the limit is reached one round late.
GatedLate ==
  cli.method = "static" \/ (cli.method = "dynamic" /\ clientStore.rounds > RoundLimit)

\* A dynamic attempt at the round limit, and every static one, needs a window.
Gated ==
  cli.method = "static" \/ (cli.method = "dynamic" /\ clientStore.rounds >= RoundLimit)

FirstWait == [psk |-> "mint", static |-> "auth", dynamic |-> "sinit"]

\* reset_pairing_rounds, on an agreement or an operator's gesture.
RoundsReset(due) ==
  /\ clientStore' = IF due THEN [clientStore EXCEPT !.rounds = 0] ELSE clientStore
  /\ history' = IF due THEN [history EXCEPT !.emitted = 0] ELSE history

\* Past the gate a held-back dynamic attempt has spent the window on the limit.
Admitted ==
  /\ cli' = [cli EXCEPT !.pc = FirstWait[cli.method],
                        !.window = @ /\ cli.method # "dynamic"]
  /\ toServer' = Append(toServer, PairInit(cli.index))
  /\ RoundsReset(Gated /\ cli.method = "dynamic")
  /\ UNCHANGED <<link, toClient, srv, serverStore>>

AttemptBegins ==
  /\ cli.pc = "start"
  /\ IF Gated /\ ~cli.window
     THEN Sends([cli EXCEPT !.pc = "gate"], [type |-> "pending", index |-> cli.index])
     ELSE Admitted

WindowAdmits ==
  /\ cli.pc = "gate"
  /\ cli.window
  /\ Admitted

\* The message the attempt waits for in each phase.
Takes(c) == [c EXCEPT !.inbox = Tail(@)]
Expects == [gate |-> "abort", sinit |-> "init", auth |-> "auth",
            confirm |-> "confirm", ack |-> "finalize"]

\* server/pair-init: the round is counted durably before its code is emitted.
RoundBegins ==
  /\ cli' = [Takes(cli) EXCEPT !.pc = "emit"]
  /\ UNCHANGED <<link, toClient, toServer, srv, serverStore, clientStore, history>>

\* Mutant: only the first round of an attempt is counted.
RoundCountedOnce ==
  /\ cli.pc = "emit"
  /\ clientStore' = [clientStore EXCEPT !.rounds = IF cli.round = 1 THEN @ + 1 ELSE @]
  /\ cli' = [cli EXCEPT !.pc = "show"]
  /\ UNCHANGED <<link, toClient, toServer, srv, serverStore, history>>

RoundCounted ==
  /\ cli.pc = "emit"
  /\ clientStore' = [clientStore EXCEPT !.rounds = @ + 1]
  /\ cli' = [cli EXCEPT !.pc = "show"]
  /\ UNCHANGED <<link, toClient, toServer, srv, serverStore, history>>

CodeEmitted ==
  /\ cli.pc = "show"
  /\ history' = [history EXCEPT !.emitted = @ + 1]
  /\ cli' = [cli EXCEPT !.pc = "auth"]
  /\ UNCHANGED <<link, toClient, toServer, srv, serverStore, clientStore>>

\* The two sides agree when the code is right and both derived the same sid.
AuthExchanged(m) ==
  Sends([Takes(cli) EXCEPT !.pc = "confirm",
           !.agreed = m.code = "right" /\ m.sid = <<cli.index, cli.round>>],
        Plain("auth"))

\* server/pair-confirm: agreement, another round, or the end of the attempt.
\* A static failure may be the fifth, which closes the window.
ConfirmChecked ==
  \/ /\ cli.agreed
     /\ cli' = [Takes(cli) EXCEPT !.pc = "mint"]
     /\ toServer' = Append(toServer, Plain("confirm"))
     /\ RoundsReset(cli.method = "dynamic")
     /\ UNCHANGED <<link, toClient, srv, serverStore>>
  \/ /\ ~cli.agreed /\ cli.method = "dynamic" /\ clientStore.rounds < RoundLimit
     /\ Sends([Takes(cli) EXCEPT !.pc = "sinit", !.round = @ + 1], Plain("retry"))
  \/ /\ ~cli.agreed
     /\ cli.method = "static" \/ clientStore.rounds >= RoundLimit
     /\ \E window \in {cli.window, cli.window /\ cli.method # "static"} :
          Sends([Ended(cli) EXCEPT !.window = window], Abort("pairing_code_mismatch"))

\* From client/pair-finalize on, the attempt can no longer be cancelled.
CredentialOffered ==
  /\ cli.pc = "mint"
  /\ cli' = [cli EXCEPT !.pc = "ack", !.cancellable = FALSE]
  /\ toServer' = Append(toServer, Finalize(cli.attempt))
  /\ history' = [history EXCEPT !.offered = @ \union {cli.attempt}]
  /\ UNCHANGED <<link, toClient, srv, serverStore, clientStore>>

\* server/pair-finalize: the record is taken and is being saved.
CredentialStored ==
  /\ ~clientStore.saving
  /\ cli' = [Takes(cli) EXCEPT !.pc = "store"]
  /\ clientStore' = [clientStore EXCEPT !.mem = cli.attempt, !.saving = TRUE]
  /\ UNCHANGED <<link, toClient, toServer, srv, serverStore, history>>

\* The attempt reads its queue: the message its phase expects, a pair/abort
\* that ends it, or one that nobody should have sent.
ClientListens ==
  /\ cli.pc \in Listening
  /\ cli.inbox # <<>>
  /\ LET m == Head(cli.inbox) IN
       CASE m.type = "abort" ->
              /\ cli' = Ended(cli)
              /\ UNCHANGED <<link, toClient, toServer, srv, serverStore, clientStore, history>>
         [] m.type \notin {"abort", Expects[cli.pc]} -> Confused
         [] m.type = "init" /\ cli.pc = "sinit" -> RoundBegins
         [] m.type = "auth" /\ cli.pc = "auth" -> AuthExchanged(m)
         [] m.type = "confirm" /\ cli.pc = "confirm" -> ConfirmChecked
         [] m.type = "finalize" /\ cli.pc = "ack" -> CredentialStored

\* The write completes; a static pairing closes the window it ran under.
ClientSaved ==
  /\ clientStore.saving
  /\ clientStore' = [clientStore EXCEPT !.disk = clientStore.mem, !.saving = FALSE]
  /\ cli' = IF cli.pc = "store"
            THEN [Ended(cli) EXCEPT !.window = @ /\ cli.method # "static"] ELSE cli
  /\ UNCHANGED <<link, toClient, toServer, srv, serverStore, history>>

\* The 120 s of an attempt, or the wait for server/activate after a handshake.
ClientTimesOut ==
  \/ /\ cli.pc \in Timed
     /\ cli' = Ended(cli)
     /\ toServer' = Append(toServer, Abort("attempt_timeout"))
     /\ history' = [history EXCEPT !.late = @ \/ cli.pc \in {"ack", "store"}]
     /\ UNCHANGED <<link, toClient, srv, serverStore, clientStore>>
  \/ /\ cli.rekeyed
     /\ Dropped
     /\ UNCHANGED <<serverStore, clientStore, history>>

\* cancel_pairing closes the window and aborts in band.
ClientCancels ==
  /\ cli.pc # "none"
  /\ cli.cancellable
  /\ Sends([Ended(cli) EXCEPT !.window = FALSE], Abort("user_cancelled"))

WindowOpens ==
  /\ ~cli.window
  /\ cli' = [cli EXCEPT !.window = TRUE]
  /\ UNCHANGED <<link, toClient, toServer, srv, serverStore, clientStore, history>>

WindowCloses ==
  /\ cli.window
  /\ cli' = [cli EXCEPT !.window = FALSE]
  /\ UNCHANGED <<link, toClient, toServer, srv, serverStore, clientStore, history>>

-------------------------------------------------------------------------------
(* The system. *)

Init ==
  /\ link = "down"
  /\ toClient = <<>>
  /\ toServer = <<>>
  /\ srv = ServerAtRest
  /\ cli = ClientAtRest
  /\ serverStore = [mem |-> NoRecord, disk |-> NoRecord, saving |-> FALSE]
  /\ clientStore = [mem |-> NoRecord, disk |-> NoRecord, saving |-> FALSE, rounds |-> 0]
  /\ history = [confused |-> FALSE, refused |-> FALSE, late |-> FALSE,
                drops |-> 0, crashes |-> 0, emitted |-> 0,
                offered |-> {}, accepted |-> {}, stored |-> {}]

Environment ==
  \/ Reconnect \/ LinkDrops \/ ServerRestarts \/ ClientRestarts
  \/ StartAttempt \/ CodeEntered \/ CancelAttempt \/ ServerTimesOut
  \/ ClientTimesOut \/ ClientCancels \/ WindowOpens \/ WindowCloses

ServerSteps ==
  \/ Prepared \/ ServerReads \/ ServerRekeyed \/ ServerListens
  \/ ServerSaved \/ Acknowledged

ClientSteps ==
  \/ ClientReads \/ AttemptBegins \/ WindowAdmits \/ ClientListens
  \/ RoundCounted \/ CodeEmitted \/ CredentialOffered \/ ClientSaved

Next == Environment \/ ServerSteps \/ ClientSteps

Spec == Init /\ [][Next]_vars

\* The event loops run their tasks, and an armed timer expires in the end.
Fairness ==
  /\ WF_vars(ServerSteps)
  /\ WF_vars(ClientSteps)
  /\ WF_vars(ServerTimesOut)
  /\ WF_vars(ClientTimesOut)

FairSpec == Spec /\ Fairness

-------------------------------------------------------------------------------
(* Properties. *)

Method == {"psk", "static", "dynamic"}
Indices == 0 .. MaxAttempts

TypeOK ==
  /\ link \in {"up", "down"}
  /\ srv.pc \in Queued \union {"idle"}
  /\ srv.method \in Method
  /\ srv.attempt \in 0 .. MaxAttempts
  /\ srv.index \in Indices
  /\ srv.psk \in Psks
  /\ cli.pc \in Listening \union Timed \union {"none", "start"}
  /\ cli.method \in Method
  /\ cli.index \in Indices
  /\ cli.psk \in Psks
  /\ clientStore.rounds \in 0 .. RoundLimit
  /\ serverStore.mem \in Credentials \union {NoRecord}
  /\ clientStore.mem \in Credentials \union {NoRecord}

\* However attempts are cancelled, timed out, retried or superseded on either
\* side, neither ever reads a pairing message it must take for a violation:
\* leftovers are recognised as such and never end a connection.
NeverConfused == ~history.confused

\* The two sides count attempts alike and key the session alike, so their
\* CPace session ids agree: whenever nothing is in flight and no re-key runs.
CountersAgree ==
  /\ link = "up" /\ toClient = <<>> /\ toServer = <<>>
  /\ srv.pc \notin Rekeying /\ ~cli.rekeyed
  => srv.index = cli.index /\ srv.psk = cli.psk

\* A session returns to the record the server holds: the client refuses it only
\* when a timeout cut a finalize short.
RefusesOnlyLate == history.refused => history.late

\* The two sides never misread each other: neither a leftover message nor a
\* count, a key or a record out of step makes one fail the other.
NeverAtOdds == NeverConfused /\ CountersAgree /\ RefusesOnlyLate

\* Between agreements and gestures no more codes are shown than the limit
\* allows, whatever drops, restarts and cancels happen in between.
GuessesBounded == history.emitted <= RoundLimit

\* Neither side stays in an attempt: some message or timer always ends it. A
\* client may wait for its operator's gesture as long as its server waits.
AttemptsEnd ==
  /\ []<>(srv.pc = "idle")
  /\ []<>(cli.pc \in {"none", "gate"})

\* Pairing keeps the promise of its abstract specification.
Agreement == INSTANCE PairingAgreement WITH
  attempt <- srv.attempt,
  offered <- history.offered,
  accepted <- history.accepted,
  stored <- history.stored,
  held <- clientStore.mem

Agrees == Agreement!Spec
===============================================================================
