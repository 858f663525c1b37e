--------------------------- MODULE OutboundQueues ---------------------------
(***************************************************************************)
(* The outbound queues of one server-side connection, as pure operators:   *)
(* every method of SendspinConnection that touches a queue, the ready and  *)
(* delayed heaps, an epoch or the drained events is a function from the    *)
(* queues q to the queues it leaves behind (server/connection.py).         *)
(*                                                                         *)
(* A heap is the set of its elements: the code reads only its least one.   *)
(* A duplicate in the ready heap carries no information (the copy popped   *)
(* second is stale and is replaced by the role's head), so a set loses     *)
(* nothing.                                                                *)
(***************************************************************************)
EXTENDS Integers, FiniteSets, Sequences

CONSTANTS Timed,      \* role families that send timestamped, buffer-tracked binary
          Untimed,    \* role families whose binary carries timestamp 0 (artwork)
          Stateful,   \* role families that queue server/state only
          MaxQueue    \* MAX_PENDING_MSG: the cap of each queue

Roles == Timed \cup Untimed \cup Stateful

NoTime == -1          \* the role has no entry in _blocked_until_us
NoRole == "none"

ASSUME QueuesAssumption == /\ IsFiniteSet(Roles)
                           /\ NoRole \notin Roles
                           /\ Timed \cap Untimed = {}
                           /\ Stateful \cap (Timed \cup Untimed) = {}
                           /\ MaxQueue \in Nat \ {0}

JsonKinds   == {"start", "clear", "end", "state"}
BinaryKinds == {"chunk", "exempt"}

(* A queued role message: ts and seq order the heap, due is the timestamp of *)
(* its binary header, room the time from which the device has space for it.  *)
Entry == [kind: JsonKinds \cup BinaryKinds, epoch: Nat, ts: Nat, seq: Nat,
          due: Nat, room: Nat]

(* A control message, or any message being sent: role is the family it       *)
(* belongs to, roles the active_roles a server/activate declares.            *)
RoleKinds == JsonKinds \cup BinaryKinds \cup {"command"}
Msg == [kind: RoleKinds, role: Roles, roles: {{}}]
         \cup [kind: {"control", "activate", "none"}, role: {NoRole}, roles: SUBSET Roles]

(* A queued control message, with the number that keeps the deque's order.   *)
NormalEntry == [at: Nat, msg: Msg]

ReadyKey   == [ts: Nat, seq: Nat, role: Roles]
DelayedKey == [at: Nat, gen: Nat, role: Roles]

Finite(T) == {S \in SUBSET T : IsFiniteSet(S)}

QueuesType ==
  [entries: [Roles -> Finite(Entry)], lastTs: [Roles -> Nat], seq: Nat, size: Nat,
   epoch: [Roles -> Nat], ready: SUBSET ReadyKey, delayed: SUBSET DelayedKey,
   blocked: [Roles -> Nat \cup {NoTime}], gen: [Roles -> Nat],
   priority: Seq(Msg), normal: Finite(NormalEntry), streaming: SUBSET Roles,
   roleDrained: SUBSET Roles, wake: BOOLEAN, idle: BOOLEAN, disconnecting: BOOLEAN]

EmptyQueues ==
  [entries |-> [r \in Roles |-> {}], lastTs |-> [r \in Roles |-> 0], seq |-> 0, size |-> 0,
   epoch |-> [r \in Roles |-> 0], ready |-> {}, delayed |-> {},
   blocked |-> [r \in Roles |-> NoTime], gen |-> [r \in Roles |-> 0],
   priority |-> <<>>, normal |-> {}, streaming |-> {},
   roleDrained |-> {}, wake |-> FALSE, idle |-> FALSE, disconnecting |-> FALSE]

Message(kind, r) == [kind |-> kind, role |-> r, roles |-> {}]
Control          == Message("control", NoRole)
Nothing          == Message("none", NoRole)
Activation(S)    == [kind |-> "activate", role |-> NoRole, roles |-> S]

Larger(a, b)  == IF a < b THEN b ELSE a
Minus(n, k)   == IF n < k THEN 0 ELSE n - k
Before(a, b)  == a.ts < b.ts \/ (a.ts = b.ts /\ a.seq < b.seq)
Heads(S)      == {e \in S : \A f \in S : f = e \/ Before(e, f)}
Key(e, r)     == [ts |-> e.ts, seq |-> e.seq, role |-> r]
HeadKeys(S, r) == {Key(e, r) : e \in Heads(S)}
Woken(q)      == [q EXCEPT !.wake = TRUE, !.idle = FALSE]
Overflow(q)   == [q EXCEPT !.disconnecting = TRUE]
RoleFull(q, r) == Cardinality(q.entries[r]) >= MaxQueue

Stale(q, r, e) == e.kind = "chunk" /\ e.epoch # q.epoch[r]

(* Put the head of a role that is not blocked on the ready heap. *)
Schedule(q, r) ==
  IF q.blocked[r] # NoTime THEN q
  ELSE [q EXCEPT !.ready = @ \cup HeadKeys(q.entries[r], r)]

(* Mutants: the epoch is not bumped; an unblocked role is not scheduled. *)
DropPendingKeepsEpoch(q, r) ==
  Woken(IF q.blocked[r] = NoTime THEN q
        ELSE Schedule([q EXCEPT !.blocked[r] = NoTime, !.gen[r] = @ + 1], r))
DropPendingUnscheduled(q, r) ==
  LET bumped == [q EXCEPT !.epoch[r] = @ + 1]
  IN  Woken(IF q.blocked[r] = NoTime THEN bumped
            ELSE [bumped EXCEPT !.blocked[r] = NoTime, !.gen[r] = @ + 1])

(* Invalidate the role's queued binary: what is queued keeps its old epoch,  *)
(* and a wait for buffer space computed for it no longer holds the role.     *)
DropPending(q, r) ==
  LET bumped  == [q EXCEPT !.epoch[r] = @ + 1]
      unblock == [bumped EXCEPT !.blocked[r] = NoTime, !.gen[r] = @ + 1]
  IN  Woken(IF q.blocked[r] = NoTime THEN bumped ELSE Schedule(unblock, r))

(* Push an entry, and its key on the ready heap when it becomes the head. *)
Enqueue(q, r, kind, ts, due, room) ==
  LET e == [kind |-> kind, epoch |-> q.epoch[r], ts |-> ts, seq |-> q.seq,
            due |-> due, room |-> room]
      S == q.entries[r] \cup {e}
      new == IF q.blocked[r] = NoTime /\ e \in Heads(S) THEN {Key(e, r)} ELSE {}
  IN  Woken([q EXCEPT !.entries[r] = S, !.seq = @ + 1, !.size = @ + 1,
                      !.ready = @ \cup new])

SendPriority(q, m) ==
  IF Len(q.priority) >= MaxQueue THEN Overflow(q)
  ELSE Woken([q EXCEPT !.priority = Append(@, m), !.seq = @ + 1, !.size = @ + 1])

SendNormal(q, m) ==
  IF q.size >= MaxQueue THEN Overflow(q)
  ELSE Woken([q EXCEPT !.normal = @ \cup {[at |-> q.seq, msg |-> m]},
                       !.seq = @ + 1, !.size = @ + 1])

(* Queue a binary message behind everything the role queued before it. *)
SendBinary(q, r, kind, due, room) ==
  LET ts == Larger(due, q.lastTs[r])
  IN  IF RoleFull(q, r) THEN Overflow(q)
      ELSE Enqueue([q EXCEPT !.lastTs[r] = ts], r, kind, ts, due, room)

(* Mutants: the dropped messages stay counted; nothing is dropped. *)
SupersedeUncounted(q, r) ==
  [q EXCEPT !.entries[r] = {e \in @ : e.kind \notin {"start", "clear"}}]
SupersedeNothing(q, r) == q

(* A stream/end drops the stream/start and stream/clear still queued. *)
Supersede(q, r) ==
  LET S    == q.entries[r]
      kept == {e \in S : e.kind \notin {"start", "clear"}}
      cut  == [q EXCEPT !.entries[r] = kept,
                        !.size = Minus(@, Cardinality(S) - Cardinality(kept))]
  IN  IF S # {} /\ kept = {} THEN [cut EXCEPT !.roleDrained = @ \ {r}] ELSE cut

(* Mutant: an end already queued is not looked for. *)
EndOwedAgain(q, r) == r \in q.streaming

EndOwed(q, r) == r \in q.streaming /\ \A e \in q.entries[r] : e.kind # "end"

(* Mutant: a stream/end sorts just before the current time. *)
JsonTsEarly(q, r, kind, now) ==
  CASE kind = "end"   -> now - 1
    [] kind = "start" -> Larger(now, q.lastTs[r])
    [] OTHER          -> q.lastTs[r]

(* A server/state keeps its place behind the last entry; a stream boundary   *)
(* sorts at the current time.                                                *)
JsonTs(q, r, kind, now) ==
  CASE kind = "end"   -> now
    [] kind = "start" -> Larger(now, q.lastTs[r])
    [] OTHER          -> q.lastTs[r]

SendJson(q, r, kind, now, retiring) ==
  LET dropped == IF kind \in {"clear", "end"} THEN DropPending(q, r) ELSE q
      ready   == IF kind = "end" THEN Supersede(dropped, r) ELSE dropped
      ts      == JsonTs(ready, r, kind, now)
  IN  IF kind = "end" /\ ~EndOwed(ready, r) THEN ready
      ELSE IF r \in retiring THEN SendPriority(ready, Message(kind, r))
      ELSE IF RoleFull(ready, r) THEN Overflow(ready)
      ELSE Enqueue([ready EXCEPT !.lastTs[r] = ts], r, kind, ts, 0, 0)

(* The last stream/start or stream/end queued for the role is an end. *)
EndQueuedLast(q, r) ==
  \E e \in q.entries[r] :
     /\ e.kind = "end"
     /\ \A f \in q.entries[r] : f.kind \in {"start", "end"} => f = e \/ Before(f, e)

(* Forget everything queued for a role that is being removed, except the     *)
(* stream/end it still owes, which moves ahead of the server/activate.       *)
DiscardRoleQueue(q, r) ==
  LET emptied == [q EXCEPT !.entries[r] = {}, !.size = Minus(@, Cardinality(q.entries[r]))]
      owing   == IF EndQueuedLast(q, r) THEN SendPriority(emptied, Message("end", r))
                 ELSE emptied
      orders  == {c \in owing.normal : c.msg.kind = "command" /\ c.msg.role = r}
  IN  DropPending([owing EXCEPT !.normal = @ \ orders, !.size = Minus(@, Cardinality(orders)),
                                !.lastTs[r] = 0], r)

(* Remove entries the writer took; the role keeps its other entries. *)
Take(q, r, taken) ==
  [q EXCEPT !.entries[r] = @ \ taken, !.size = Minus(@, Cardinality(taken))]

Block(q, r, at) ==
  [q EXCEPT !.blocked[r] = at, !.gen[r] = @ + 1,
            !.delayed = @ \cup {[at |-> at, gen |-> q.gen[r] + 1, role |-> r]}]

(* Unblock the roles whose wait is over, ignoring superseded waits. *)
Promote(q, now) ==
  LET over  == {d \in q.delayed : d.at <= now}
      freed == {r \in Roles : \E d \in over : /\ d.role = r
                                              /\ d.gen = q.gen[r]
                                              /\ d.at = q.blocked[r]}
  IN  [q EXCEPT !.delayed = @ \ over,
                !.blocked = [r \in Roles |-> IF r \in freed THEN NoTime ELSE q.blocked[r]],
                !.ready   = @ \cup UNION {HeadKeys(q.entries[r], r) : r \in freed}]

(* A message leaving: the families whose stream the client has been told of. *)
OnWire(q, m) ==
  [q EXCEPT !.streaming = CASE m.kind = "start" -> @ \cup {m.role}
                            [] m.kind = "end"   -> @ \ {m.role}
                            [] OTHER            -> @]

(* Mutant: the drained event is never set. *)
RoleDoneSilently(q, r) == q

(* The role is done with: wake its wait_role_drained once nothing is queued. *)
RoleDone(q, r) ==
  IF q.entries[r] = {} THEN [q EXCEPT !.roleDrained = @ \ {r}] ELSE q

(* wait_role_drained returns at once, or leaves an unset event behind. *)
AwaitDrained(q, r, sendingRole) ==
  IF q.entries[r] = {} /\ sendingRole # r THEN q
  ELSE [q EXCEPT !.roleDrained = @ \cup {r}]

=============================================================================
