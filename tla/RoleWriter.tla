------------------------------ MODULE RoleWriter ------------------------------
(***************************************************************************)
(* One encrypted server-side connection: the roles that produce messages,  *)
(* the writer task that sends them, and the activations that add and       *)
(* remove roles, pausing the writer or not (server/connection.py,          *)
(* server/client.py, server/roles).                                        *)
(*                                                                         *)
(* Everything runs on one event loop: a task keeps the loop until it       *)
(* awaits.  An action is what a task does between two awaits; the writer   *)
(* searches its ready heap (writer = "peek") without giving up the loop.   *)
(***************************************************************************)
EXTENDS OutboundQueues

CONSTANTS MaxTime,         \* the clock stops there
          Rooms,           \* when the device may have space for a chunk
          MaxSeq,          \* bound: messages queued to roles or with priority
          MaxEpoch,        \* bound: times a role's queued binary is invalidated
          MaxControls,     \* bound: control messages and commands
          MaxActivations,  \* bound: server/activate messages with a role list
          MayMoveOffRecord \* whether pairing may leave the session off its record

Never == MaxTime + 1       \* the chunk is larger than the device's buffer

ASSUME WriterAssumption == /\ MaxTime \in Nat
                           /\ Rooms \subseteq 0 .. Never
                           /\ MayMoveOffRecord \in BOOLEAN

VARIABLES
  clock,        \* server clock
  q,            \* the connection's queues, see OutboundQueues
  sending,      \* the message handed to the transport and not yet sent
  sendingRole,  \* _sending_role: the role whose queue it came from
  writer,       \* where the writer task is
  pause,        \* where the task that stops the writer for an activation is
  mode,         \* "fresh" before the first server/activate, then "normal" or "pairing"
  active,       \* role families the server considers active
  started,      \* roles whose _stream_started is set
  transfer,     \* artwork roles with a transfer announced and not yet sent in full
  announced,    \* history: active_roles of the last server/activate sent
  overtaken,    \* history: roles added again behind an unsent end of their last stream
  controls,     \* control messages sent so far (bounded)
  activations   \* activations so far (bounded)

roleVars  == <<active, started, transfer>>
history   == <<announced, overtaken>>
boundVars == <<controls, activations>>
vars == <<clock, q, sending, sendingRole, writer, pause, mode, roleVars, history, boundVars>>

Streamed == Timed \cup Untimed

WriterPlaces == {"off", "top", "peek", "sending", "waiting", "done", "closed"}
PausePlaces  == {"no", "stopping", "flushing", "quiet", "activating"}

TypeOK ==
  /\ clock \in 0 .. MaxTime
  /\ q \in QueuesType
  /\ sending \in Msg
  /\ sendingRole \in Roles \cup {NoRole}
  /\ writer \in WriterPlaces
  /\ pause \in PausePlaces
  /\ mode \in {"fresh", "normal", "pairing"}
  /\ active \in SUBSET Roles
  /\ started \in SUBSET Streamed
  /\ transfer \in SUBSET Untimed
  /\ announced \in SUBSET Roles
  /\ overtaken \in SUBSET Roles
  /\ controls \in Nat
  /\ activations \in Nat

Init ==
  /\ clock = 0
  /\ q = EmptyQueues
  /\ sending = Nothing
  /\ sendingRole = NoRole
  /\ writer = "off"
  /\ pause = "quiet"
  /\ mode = "fresh"
  /\ active \in SUBSET Roles
  /\ started = {}
  /\ transfer = {}
  /\ announced = {}
  /\ overtaken = {}
  /\ controls = 0
  /\ activations = 0

-----------------------------------------------------------------------------
(* The roles. *)

LoopFree == writer # "peek"
MayQueue == LoopFree /\ q.seq < MaxSeq /\ \A r \in Roles : q.epoch[r] < MaxEpoch

Unsent == UNCHANGED <<clock, sending, sendingRole, writer, pause, mode, history>>

(* A player, visualizer or artwork role announces its stream, or announces  *)
(* it again with another format.                                            *)
SendStreamStart(r) ==
  /\ MayQueue /\ mode # "fresh"
  /\ r \in active \cap Streamed
  /\ q' = SendJson(q, r, "start", clock, {})
  /\ started' = started \cup {r}
  /\ Unsent /\ UNCHANGED <<active, transfer, boundVars>>

SendChunk(r) ==
  /\ MayQueue
  /\ r \in active \cap started \cap Timed
  /\ \E due \in 1 .. MaxTime, room \in Rooms : q' = SendBinary(q, r, "chunk", due, room)
  /\ Unsent /\ UNCHANGED <<roleVars, boundVars>>

SendStreamClear(r) ==
  /\ MayQueue
  /\ r \in active \cap started \cap Timed
  /\ q' = SendJson(q, r, "clear", clock, {})
  /\ Unsent /\ UNCHANGED <<roleVars, boundVars>>

SendState(r) ==
  /\ MayQueue
  /\ r \in active \cap Stateful
  /\ q' = SendJson(q, r, "state", clock, {})
  /\ Unsent /\ UNCHANGED <<roleVars, boundVars>>

(* Drop the artwork binary queued and cancel the transfer in flight; the    *)
(* cancel is exempt from the invalidation a stream/end makes next.          *)
CancelInFlight(p, r, retiring) ==
  LET dropped == DropPending(p, r)
  IN  IF r \notin transfer THEN dropped
      ELSE IF r \in retiring THEN SendPriority(dropped, Message("exempt", r))
      ELSE SendBinary(dropped, r, "exempt", 0, 0)

EndStream(p, r, retiring) ==
  IF r \notin started THEN p
  ELSE LET cancelled == IF r \in Untimed THEN CancelInFlight(p, r, retiring) ELSE p
       IN  SendJson(cancelled, r, "end", clock, retiring)

SendStreamEnd(r) ==
  /\ MayQueue
  /\ r \in active \cap started
  /\ q' = EndStream(q, r, {})
  /\ started' = started \ {r}
  /\ transfer' = transfer \ {r}
  /\ Unsent /\ UNCHANGED <<active, boundVars>>

(* _run_transfers: announce an image, then send each part once the role's   *)
(* queue has drained.                                                       *)
BeginTransfer(r) ==
  /\ MayQueue
  /\ r \in (active \cap started \cap Untimed) \ transfer
  /\ q' = AwaitDrained(SendBinary(q, r, "chunk", 0, 0), r, sendingRole)
  /\ transfer' = transfer \cup {r}
  /\ Unsent /\ UNCHANGED <<active, started, boundVars>>

TransferWakes(r) ==
  /\ LoopFree
  /\ r \in transfer \ q.roleDrained
  /\ \/ /\ q.entries[r] # {} \/ sendingRole = r
        /\ q' = AwaitDrained(q, r, sendingRole)
        /\ UNCHANGED transfer
     \/ /\ q.entries[r] = {} /\ sendingRole # r
        /\ \/ /\ q.seq < MaxSeq
              /\ q' = AwaitDrained(SendBinary(q, r, "chunk", 0, 0), r, sendingRole)
              /\ UNCHANGED transfer
           \/ /\ transfer' = transfer \ {r}
              /\ UNCHANGED q
  /\ Unsent /\ UNCHANGED <<active, started, boundVars>>

(* A new image replaces the one in flight. *)
CancelTransfer(r) ==
  /\ MayQueue
  /\ r \in active \cap transfer
  /\ q' = CancelInFlight(q, r, {})
  /\ transfer' = transfer \ {r}
  /\ Unsent /\ UNCHANGED <<active, started, boundVars>>

(* server/time and other priority messages; server/command and group/update. *)
SendControl ==
  /\ LoopFree /\ controls < MaxControls /\ writer # "closed" /\ mode # "fresh"
  /\ \/ q' = SendPriority(q, Control)
     \/ q' = SendNormal(q, Control)
     \/ \E r \in active \cap Timed : q' = SendNormal(q, Message("command", r))
  /\ controls' = controls + 1
  /\ Unsent /\ UNCHANGED <<roleVars, activations>>

-----------------------------------------------------------------------------
(* The writer task. *)

(* Hand m, already removed from its queue, to the transport. *)
Transmit(p, m, r) ==
  /\ q' = OnWire(p, m)
  /\ sending' = m
  /\ sendingRole' = r
  /\ announced' = IF m.kind = "activate" THEN m.roles ELSE announced
  /\ overtaken' = IF m.kind = "start" THEN overtaken \ {m.role} ELSE overtaken

(* The head of the deque of control messages. *)
FirstNormal(c) == c \in q.normal /\ \A d \in q.normal : c.at <= d.at

SendFirstPriority ==
  /\ q.priority # <<>>
  /\ Transmit([q EXCEPT !.priority = Tail(@), !.size = Minus(@, 1)], Head(q.priority), NoRole)

WriterStops ==
  /\ writer = "top" /\ pause = "stopping"
  /\ writer' = "done"
  /\ q' = [q EXCEPT !.idle = TRUE]
  /\ UNCHANGED <<clock, sending, sendingRole, pause, mode, roleVars, history, boundVars>>

WriterSendsControl ==
  /\ writer = "top" /\ pause # "stopping"
  /\ \/ SendFirstPriority
     \/ /\ q.priority = <<>>
        /\ \E c \in q.normal :
             /\ FirstNormal(c)
             /\ Transmit([q EXCEPT !.normal = @ \ {c}, !.size = Minus(@, 1)], c.msg, NoRole)
  /\ writer' = "sending"
  /\ UNCHANGED <<clock, pause, mode, roleVars, boundVars>>

WriterPromotes ==
  /\ writer = "top" /\ pause # "stopping"
  /\ q.priority = <<>> /\ q.normal = {}
  /\ q' = Promote(q, clock)
  /\ writer' = "peek"
  /\ UNCHANGED <<clock, sending, sendingRole, pause, mode, roleVars, history, boundVars>>

FirstReady(k) == k \in q.ready /\ \A j \in q.ready : j = k \/ Before(k, j)

(* _peek_ready_entry pops a key that no longer stands for its role's head. *)
WriterSkips ==
  /\ writer = "peek"
  /\ \E k \in q.ready :
       LET r == k.role IN
       /\ FirstReady(k)
       /\ \/ q.blocked[r] # NoTime
          \/ k \notin HeadKeys(q.entries[r], r)
       /\ q' = IF q.blocked[r] # NoTime THEN [q EXCEPT !.ready = @ \ {k}]
               ELSE Schedule([q EXCEPT !.ready = @ \ {k}], r)
  /\ UNCHANGED <<clock, sending, sendingRole, writer, pause, mode, roleVars, history, boundVars>>

WriterWaits ==
  /\ writer = "peek" /\ q.ready = {}
  /\ q' = [q EXCEPT !.wake = FALSE, !.idle = IF q.delayed = {} THEN TRUE ELSE @]
  /\ writer' = "waiting"
  /\ UNCHANGED <<clock, sending, sendingRole, pause, mode, roleVars, history, boundVars>>

(* Mutant: no timeout for the delayed roles. *)
WriterWakesOnWork ==
  /\ writer = "waiting" /\ q.wake
  /\ writer' = "top"
  /\ UNCHANGED <<clock, q, sending, sendingRole, pause, mode, roleVars, history, boundVars>>

WriterWakes ==
  /\ writer = "waiting"
  /\ q.wake \/ \E d \in q.delayed : d.at <= clock
  /\ writer' = "top"
  /\ UNCHANGED <<clock, q, sending, sendingRole, pause, mode, roleVars, history, boundVars>>

(* The ready role r and its head e, with their key off the ready heap. *)
Peeked(r, e) ==
  /\ writer = "peek"
  /\ q.blocked[r] = NoTime
  /\ e \in Heads(q.entries[r])
  /\ FirstReady(Key(e, r))

Popped(r, e) == [q EXCEPT !.ready = @ \ {Key(e, r)}]

(* A head that must not be sent: invalidated, past its time outside the     *)
(* grace period (left open), or larger than the device's buffer.            *)
WriterDrops ==
  /\ \E r \in Roles : \E e \in q.entries[r] :
       /\ Peeked(r, e)
       /\ \/ Stale(q, r, e)
          \/ e.kind = "chunk" /\ e.due # 0 /\ clock > e.due
          \/ e.kind = "chunk" /\ e.room = Never
       /\ q' = RoleDone(Schedule(Take(Popped(r, e), r, {e}), r), r)
  /\ writer' = "top"
  /\ UNCHANGED <<clock, sending, sendingRole, pause, mode, roleVars, history, boundVars>>

(* The device has no space for the head: hold the role until it has. *)
WriterBlocks ==
  /\ \E r \in Roles : \E e \in q.entries[r] :
       /\ Peeked(r, e)
       /\ ~Stale(q, r, e)
       /\ e.room \in clock + 1 .. MaxTime
       /\ q' = Block(Popped(r, e), r, e.room)
  /\ writer' = "top"
  /\ UNCHANGED <<clock, sending, sendingRole, pause, mode, roleVars, history, boundVars>>

(* server/state messages queued right behind the head may be merged into it. *)
Mergeable(S, e) ==
  {M \in SUBSET (S \ {e}) :
     /\ e.kind = "state" \/ M = {}
     /\ \A m \in M : m.kind = "state" /\ \A f \in S \ {e} : Before(f, m) => f \in M}

WriterSendsRole ==
  /\ \E r \in Roles : \E e \in q.entries[r] :
       /\ Peeked(r, e)
       /\ ~Stale(q, r, e)
       /\ e.room <= clock
       /\ \E M \in Mergeable(q.entries[r], e) :
            Transmit(Take(Popped(r, e), r, {e} \cup M), Message(e.kind, r), r)
  /\ writer' = "sending"
  /\ UNCHANGED <<clock, pause, mode, roleVars, boundVars>>

(* The transport has taken the message: the role's next entry competes again. *)
WriterSent ==
  /\ writer = "sending"
  /\ q' = IF sendingRole = NoRole THEN q
          ELSE RoleDone(Schedule(q, sendingRole), sendingRole)
  /\ sending' = Nothing
  /\ sendingRole' = NoRole
  /\ writer' = "top"
  /\ UNCHANGED <<clock, pause, mode, roleVars, history, boundVars>>

(* The writer task ends for good: its send raised, or disconnect cancels it. *)
WriterEnds ==
  /\ writer \in {"top", "sending", "waiting"}
  /\ writer = "sending" \/ q.disconnecting
  /\ q' = [(IF sendingRole = NoRole THEN q ELSE RoleDone(q, sendingRole))
             EXCEPT !.disconnecting = TRUE, !.idle = TRUE]
  /\ sending' = Nothing
  /\ sendingRole' = NoRole
  /\ writer' = "done"
  /\ UNCHANGED <<clock, pause, mode, roleVars, history, boundVars>>

-----------------------------------------------------------------------------
(* Activations. *)

(* Stop the writer for a pairing attempt, or to take the session back to    *)
(* the pairing record it left.                                              *)
PauseWriter ==
  /\ LoopFree /\ pause = "no" /\ mode = "normal" /\ activations < MaxActivations
  /\ writer \in {"top", "sending", "waiting"}
  /\ pause' = "stopping"
  /\ q' = [q EXCEPT !.wake = TRUE]
  /\ \/ mode' = "pairing"
     \/ MayMoveOffRecord /\ mode' = "normal"
  /\ UNCHANGED <<clock, sending, sendingRole, writer, roleVars, history, boundVars>>

WriterPaused ==
  /\ pause = "stopping" /\ writer = "done"
  /\ pause' = "flushing"
  /\ UNCHANGED <<clock, q, sending, sendingRole, writer, mode, roleVars, history, boundVars>>

FlushPriority ==
  /\ pause \in {"flushing", "activating"} /\ writer \in {"off", "done"} /\ sending = Nothing
  /\ SendFirstPriority
  /\ UNCHANGED <<clock, writer, pause, mode, roleVars, boundVars>>

FlushSent ==
  /\ pause \in {"flushing", "activating"} /\ sending # Nothing
  /\ sending' = Nothing
  /\ UNCHANGED <<clock, q, sendingRole, writer, pause, mode, roleVars, history, boundVars>>

FlushFails ==
  /\ pause \in {"flushing", "activating"} /\ sending # Nothing
  /\ sending' = Nothing
  /\ q' = Overflow(q)
  /\ UNCHANGED <<clock, sendingRole, writer, pause, mode, roleVars, history, boundVars>>

(* The priority queue is empty: the re-handshake or the pairing begins. *)
FlushDone ==
  /\ pause = "flushing" /\ q.priority = <<>> /\ sending = Nothing
  /\ pause' = "quiet"
  /\ UNCHANGED <<clock, q, sending, sendingRole, writer, mode, roleVars, history, boundVars>>

(* Mutants: the teardown follows the server/activate; an activation that    *)
(* removes nothing is not sent.                                             *)
SendActivationFirst(p, new) ==
  LET gone == active \ new
      told == SendPriority(p, Activation(new))
      r    == CHOOSE x \in gone : TRUE
  IN  IF gone = {} THEN told ELSE EndStream(DiscardRoleQueue(told, r), r, {r})
SendActivationIfRemoved(p, new) ==
  LET gone == active \ new
      r    == CHOOSE x \in gone : TRUE
  IN  IF gone = {} THEN p
      ELSE SendPriority(EndStream(DiscardRoleQueue(p, r), r, {r}), Activation(new))

(* Queue server/activate behind the teardown of the role it removes, then   *)
(* add roles.  Bound: an activation removes at most one role.               *)
SendActivation(p, new) ==
  LET gone == active \ new
      r    == CHOOSE x \in gone : TRUE
      torn == IF gone = {} THEN p ELSE EndStream(DiscardRoleQueue(p, r), r, {r})
  IN  SendPriority(torn, Activation(new))

(* Roles whose end of stream waits among the priority messages. *)
EndAhead == {r \in Roles : \E i \in 1 .. Len(q.priority) : q.priority[i] = Message("end", r)}

Reconcile(new) ==
  /\ Cardinality(active \ new) <= 1
  /\ activations < MaxActivations
  /\ active' = new
  /\ started' = started \cap new
  /\ transfer' = transfer \cap new
  /\ overtaken' = overtaken \cup (EndAhead \cap (new \ active))
  /\ activations' = activations + 1

(* _activate with the writer stopped: what was queued meanwhile follows. *)
Activate ==
  /\ LoopFree /\ pause = "quiet"
  /\ \E new \in SUBSET Roles :
       /\ Reconcile(new)
       /\ LET p == SendActivation([q EXCEPT !.priority = <<>>], new)
          IN  q' = [p EXCEPT !.priority = @ \o q.priority]
  /\ pause' = "activating"
  /\ mode' = "normal"
  /\ UNCHANGED <<clock, sending, sendingRole, writer, announced, controls>>

(* refresh_trusted_unpaired: an activation that does not stop the writer. *)
RefreshTrusted ==
  /\ LoopFree /\ mode = "normal" /\ writer # "closed"
  /\ \E new \in SUBSET Roles : Reconcile(new) /\ q' = SendActivation(q, new)
  /\ UNCHANGED <<clock, sending, sendingRole, writer, pause, mode, announced, controls>>

(* _resume_writer, or the first start of the message loops. *)
ResumeWriter ==
  /\ pause = "activating" /\ q.priority = <<>> /\ sending = Nothing
  /\ ~q.disconnecting /\ writer \in {"off", "done"}
  /\ pause' = "no"
  /\ writer' = "top"
  /\ UNCHANGED <<clock, q, sending, sendingRole, mode, roleVars, history, boundVars>>

-----------------------------------------------------------------------------
(* The end of the connection. *)

Disconnect ==
  /\ LoopFree /\ ~q.disconnecting
  /\ q' = Overflow(q)
  /\ UNCHANGED <<clock, sending, sendingRole, writer, pause, mode, roleVars, history, boundVars>>

(* The writer task is gone and the socket closed: the client is detached,   *)
(* and its roles stop their streams and transfers.                          *)
Detach ==
  /\ q.disconnecting /\ writer \in {"off", "done"}
  /\ writer' = "closed"
  /\ active' = {} /\ started' = {} /\ transfer' = {}
  /\ sending' = Nothing /\ pause' = "no"
  /\ UNCHANGED <<clock, q, sendingRole, mode, history, boundVars>>

Tick ==
  /\ LoopFree /\ clock < MaxTime
  /\ clock' = clock + 1
  /\ UNCHANGED <<q, sending, sendingRole, writer, pause, mode, roleVars, history, boundVars>>

-----------------------------------------------------------------------------
RoleStep ==
  \/ SendControl
  \/ \E r \in Roles : \/ SendStreamStart(r) \/ SendChunk(r) \/ SendStreamClear(r)
                      \/ SendStreamEnd(r) \/ SendState(r)
                      \/ BeginTransfer(r) \/ TransferWakes(r) \/ CancelTransfer(r)

WriterStep ==
  \/ WriterStops \/ WriterSendsControl \/ WriterPromotes \/ WriterSkips \/ WriterWaits
  \/ WriterWakes \/ WriterDrops \/ WriterBlocks \/ WriterSendsRole \/ WriterSent \/ WriterEnds

ActivationStep ==
  \/ PauseWriter \/ WriterPaused \/ FlushPriority \/ FlushSent \/ FlushFails \/ FlushDone
  \/ Activate \/ RefreshTrusted \/ ResumeWriter

Next == RoleStep \/ WriterStep \/ ActivationStep \/ Disconnect \/ Detach \/ Tick

Spec == Init /\ [][Next]_vars

(* What the writer must eventually do: its own steps, the flush of a paused *)
(* writer and the clock.  A send that never ends is cut by the transport's  *)
(* heartbeat, so the steps that follow an await are fair.                   *)
Fairness ==
  /\ WF_vars(WriterStep)
  /\ WF_vars(WriterPaused \/ FlushPriority \/ FlushSent \/ FlushDone)
  /\ WF_vars(Activate)
  /\ WF_vars(ResumeWriter)
  /\ WF_vars(Tick)

FairSpec == Spec /\ Fairness

-----------------------------------------------------------------------------
(* Every method keeps _queue_size equal to what the three kinds of queue    *)
(* hold: the cap on control messages and queue_status depend on it.         *)
QueueSizeExact ==
  q.size = Len(q.priority) + Cardinality(q.normal)
           + Cardinality(UNION {{<<r, e>> : e \in q.entries[r]} : r \in Roles})

(* The lazy heaps lose no role: a role with messages that is neither blocked *)
(* nor being sent has a key on the ready heap, no later than its head, and   *)
(* a blocked role has the entry on the delayed heap that will release it.    *)
RolesScheduled ==
  \A r \in Roles :
    /\ q.blocked[r] # NoTime =>
         [at |-> q.blocked[r], gen |-> q.gen[r], role |-> r] \in q.delayed
    /\ q.entries[r] # {} /\ q.blocked[r] = NoTime /\ sendingRole # r /\ ~q.disconnecting =>
         \E k \in q.ready :
            k.role = r /\ \A e \in q.entries[r] : k = Key(e, r) \/ Before(k, e)

(* _writer_idle, which pairing waits for, is only seen by a waiting writer  *)
(* once everything queued has been sent.                                    *)
IdleMeansFlushed ==
  writer = "waiting" /\ q.idle =>
    q.priority = <<>> /\ q.normal = {} /\ \A r \in Roles : q.entries[r] = {}

(* The two counts other code relies on are right: the cap on the queues, and *)
(* the flush a pairing waits for before it takes over the transport.         *)
QueuesAccounted == QueueSizeExact /\ IdleMeansFlushed

(* Binary that a stream boundary invalidates reaches the wire only inside a  *)
(* stream the client has been told of and not told to end, unless an         *)
(* overflow dropped a message and the connection is about to end.            *)
ChunksInsideStream ==
  ~q.disconnecting /\ sending.kind = "chunk" => sending.role \in q.streaming

(* The client is told of a stream's end only if it has been told of its      *)
(* start: the teardown of a role finds an end the role queued, and an end    *)
(* finds one already queued.  It does not look among the priority messages,  *)
(* so a role added again behind its own teardown ends its last stream twice. *)
EndsAnOpenStream ==
  [][sending' # sending /\ sending'.kind = "end" /\ ~q.disconnecting =>
       sending'.role \in q.streaming \cup overtaken]_vars

(* Once nothing is queued or being sent, client and role agree on whether   *)
(* the role's stream is open: no start or end was lost in a queue.          *)
StreamsAgreeAtRest ==
  \A r \in Streamed :
    ~q.disconnecting /\ q.entries[r] = {} /\ sending = Nothing /\ q.priority = <<>> =>
      (r \in started <=> r \in q.streaming)

(* The messages of a role that will be sent leave in the order they were    *)
(* queued, although a stream/end sorts at the current time and the binary   *)
(* before it at its playback time.                                          *)
LiveInOrder ==
  \A r \in Roles : \A e, f \in q.entries[r] :
    ~Stale(q, r, e) /\ ~Stale(q, r, f) /\ e.seq < f.seq => Before(e, f)

(* A stream's binary stays between its start and its end, in the queue and on *)
(* the wire.                                                                  *)
StreamFramed == ChunksInsideStream /\ LiveInOrder

(* A role's messages reach the client only between the server/activate that *)
(* adds the role and the one that removes it, as long as no overflow has    *)
(* dropped a server/activate.                                               *)
OnlyActivatedRoles == q.disconnecting \/ sending.role \in announced \cup {NoRole}

(* When no server/activate is on its way, the roles the client was told are *)
(* active are the roles the server runs.                                    *)
ActivationsAgree ==
  mode # "fresh" /\ ~q.disconnecting /\ sending.kind # "activate"
    /\ (\A i \in 1 .. Len(q.priority) : q.priority[i].kind # "activate") =>
      announced = active

(* A transfer waiting for its role to drain has something to wait for.      *)
NoStrandedTransfer ==
  \A r \in transfer \cap q.roleDrained :
    q.entries[r] # {} \/ sendingRole = r \/ q.disconnecting

(* Everything queued for a role is eventually sent or discarded, unless the *)
(* connection ends.                                                         *)
QueuesDrain ==
  \A r \in Roles : q.entries[r] # {} ~> (q.entries[r] = {} \/ q.disconnecting)

=============================================================================
