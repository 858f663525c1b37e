-------------------------- MODULE RoleWriterProofs --------------------------
(***************************************************************************)
(* For every set of roles, every cap and every bound: the writer's state is *)
(* well typed, its lazy heaps lose no role, its queues are counted, a       *)
(* transfer that waits has something to wait for, the client is told of a   *)
(* role before it gets the messages of it, and a stream's messages reach it *)
(* in order, inside the stream, whose end is told once.                     *)
(***************************************************************************)
EXTENDS RoleWriter, OutboundQueuesProofs

(* Only the writer's own send holds a role back from the ready heap. *)
SendingHoldsRole == sendingRole # NoRole => writer = "sending"

(* Everything but the queues is well typed. *)
RestTypeOK ==
  /\ clock \in 0 .. MaxTime
  /\ sending \in Msg
  /\ sendingRole \in Roles \cup {NoRole}
  /\ writer \in WriterPlaces
  /\ pause \in PausePlaces
  /\ mode \in {"fresh", "normal", "pairing"}
  /\ active \in SUBSET Roles
  /\ started \in SUBSET Streamed
  /\ transfer \in SUBSET Untimed
  /\ announced \in SUBSET Roles
  /\ overtaken \in SUBSET Roles
  /\ controls \in Nat
  /\ activations \in Nat

(* The roles that need no key on the ready heap: the one whose message is    *)
(* being sent and, once the writer task has ended with the connection, all.  *)
Exempt == {sendingRole} \cup
            (IF q.disconnecting /\ writer \in {"off", "done", "closed"} THEN Roles ELSE {})

IInv == RestTypeOK /\ SendingHoldsRole /\ QueueInv(q, Exempt)

(* The exempt roles stay exempt in a step that leaves the writer where it is. *)
LEMMA ExemptKept ==
  ASSUME QueueInv(q', Exempt), sendingRole' = sendingRole, writer' = writer,
         q.disconnecting => q'.disconnecting
  PROVE  QueueInv(q', Exempt')
<1>1. Exempt \subseteq Exempt'
  BY DEF Exempt
<1> QED BY <1>1, QueueInvWider

(* While the writer runs only the role being sent is exempt. *)
Narrow == RestTypeOK /\ SendingHoldsRole /\ QueueInv(q, {sendingRole})

(* That is more than the invariant asks for. *)
LEMMA NarrowSuffices == Narrow => IInv
<1> SUFFICES ASSUME Narrow PROVE IInv
  OBVIOUS
<1>1. {sendingRole} \subseteq Exempt
  BY DEF Exempt
<1>2. QueueInv(q, Exempt)
  BY <1>1, QueueInvWider DEF Narrow
<1> QED BY <1>2 DEF Narrow, IInv

(* The inductive invariant contains both properties. *)
LEMMA IInvImplies == IInv => TypeOK /\ RolesScheduled
<1> SUFFICES ASSUME IInv PROVE TypeOK /\ RolesScheduled
  OBVIOUS
<1>1. TypeOK
  BY DEF IInv, RestTypeOK, history, TypeOK, QueueInv
<1>2. ASSUME NEW r \in Roles, sendingRole # r, ~q.disconnecting
      PROVE  Competing(q, r)
  BY <1>2 DEF IInv, QueueInv, Exempt
<1>3. RolesScheduled
  BY <1>2 DEF IInv, QueueInv, Held, Competing, RolesScheduled
<1> QED BY <1>1, <1>3

(* A new connection owes nothing. *)
LEMMA EmptyInv == QueueInv(EmptyQueues, {NoRole})
<1>1. {} \in Finite(Entry) /\ {} \in Finite(NormalEntry) /\ <<>> \in Seq(Msg)
  BY FS_EmptySet DEF Finite
<1>2. EmptyQueues \in QueuesType
  BY <1>1 DEF EmptyQueues, QueuesType, NoTime
<1>3. \A r \in Roles : EmptyQueues.entries[r] = {} /\ EmptyQueues.blocked[r] = NoTime
  BY DEF EmptyQueues
<1> QED BY <1>2, <1>3 DEF QueueInv, Numbered, Held, Competing

(* The invariant holds initially. *)
LEMMA InitIInv == Init => IInv
<1> SUFFICES ASSUME Init PROVE IInv
  OBVIOUS
<1>1. RestTypeOK
  BY OtherMessageType, WriterAssumption
  DEF Init, RestTypeOK, WriterPlaces, PausePlaces
<1>2. Narrow
  BY <1>1, EmptyInv DEF Init, Narrow, SendingHoldsRole
<1> QED BY <1>2, NarrowSuffices

-----------------------------------------------------------------------------
(* The roles. *)

(* Cancelling an artwork transfer keeps the heaps right. *)
LEMMA CancelInFlightInv ==
  ASSUME NEW p, NEW X, NEW r \in Roles, QueueInv(p, X), NEW retiring
  PROVE  QueueInv(CancelInFlight(p, r, retiring), X)
<1>1. QueueInv(DropPending(p, r), X)
  BY DropPendingInv
<1>2. Message("exempt", r) \in Msg
  BY MessageType DEF RoleKinds, BinaryKinds
<1>3. "exempt" \in BinaryKinds /\ 0 \in Nat
  BY DEF BinaryKinds
<1>4. QueueInv(SendPriority(DropPending(p, r), Message("exempt", r)), X)
  BY <1>1, <1>2, SendPriorityInv
<1>5. QueueInv(SendBinary(DropPending(p, r), r, "exempt", 0, 0), X)
  BY <1>1, <1>3, SendBinaryInv
<1> QED BY <1>1, <1>4, <1>5 DEF CancelInFlight

(* Ending a stream keeps the heaps right. *)
LEMMA EndStreamInv ==
  ASSUME NEW p, NEW X, NEW r \in Roles, QueueInv(p, X), NEW retiring, clock \in Nat
  PROVE  QueueInv(EndStream(p, r, retiring), X)
<1> DEFINE c == IF r \in Untimed THEN CancelInFlight(p, r, retiring) ELSE p
<1>1. QueueInv(c, X)
  BY CancelInFlightInv
<1> HIDE DEF c
<1>2. QueueInv(SendJson(c, r, "end", clock, retiring), X)
  BY <1>1, SendJsonInv DEF JsonKinds
<1> QED BY <1>2 DEF EndStream, c

(* Cancelling an artwork transfer keeps the count. *)
LEMMA CancelInFlightCounts ==
  ASSUME NEW p, NEW X, NEW r \in Roles, QueueInv(p, X), NEW retiring
  PROVE  Counts(p, CancelInFlight(p, r, retiring))
<1> DEFINE c == DropPending(p, r)
<1>1. QueueInv(c, X) /\ Counts(p, c)
  BY DropPendingInv, DropPendingCounts
<1>2. Message("exempt", r) \in Msg /\ "exempt" \in BinaryKinds /\ 0 \in Nat
  BY MessageType DEF RoleKinds, BinaryKinds
<1>3. CancelInFlight(p, r, retiring) \in
        {c, SendPriority(c, Message("exempt", r)), SendBinary(c, r, "exempt", 0, 0)}
  BY DEF CancelInFlight
<1> HIDE DEF c
<1>4. Counts(p, SendPriority(c, Message("exempt", r)))
  BY <1>1, <1>2, SendPriorityCounts, CountsTransitive
<1>5. Counts(p, SendBinary(c, r, "exempt", 0, 0))
  BY <1>1, <1>2, SendBinaryCounts, CountsTransitive
<1> QED BY <1>1, <1>3, <1>4, <1>5

(* Ending a stream keeps the count. *)
LEMMA EndStreamCounts ==
  ASSUME NEW p, NEW X, NEW r \in Roles, QueueInv(p, X), NEW retiring, clock \in Nat
  PROVE  Counts(p, EndStream(p, r, retiring))
<1> DEFINE c == IF r \in Untimed THEN CancelInFlight(p, r, retiring) ELSE p
<1>1. QueueInv(c, X) /\ Counts(p, c)
  BY CancelInFlightInv, CancelInFlightCounts, CountsSelf
<1>2. EndStream(p, r, retiring) \in {p, SendJson(c, r, "end", clock, retiring)}
  BY DEF EndStream
<1> HIDE DEF c
<1>3. Counts(p, SendJson(c, r, "end", clock, retiring))
  <2>1. "end" \in JsonKinds
    BY DEF JsonKinds
  <2> QED BY <1>1, <2>1, SendJsonCounts, CountsTransitive
<1> QED BY <1>2, <1>3, CountsSelf

(* A step of a role keeps the heaps right and the count of the queues. *)
LEMMA RoleStepQueues ==
  ASSUME IInv, RoleStep
  PROVE  QueueInv(q', Exempt) /\ Counts(q, q')
<1> DEFINE X == Exempt
<1>0. /\ QueueInv(q, X) /\ clock \in Nat
      /\ \A k \in {"start", "clear", "end", "state"} : k \in JsonKinds
      /\ "chunk" \in BinaryKinds /\ 0 \in Nat
  BY DEF IInv, RestTypeOK, JsonKinds, BinaryKinds
<1> HIDE DEF X
<1>1. ASSUME NEW r \in Roles, NEW kind \in JsonKinds, q' = SendJson(q, r, kind, clock, {})
      PROVE  QueueInv(q', X) /\ Counts(q, q')
  BY <1>0, <1>1, SendJsonInv, SendJsonCounts
<1>2. CASE SendControl
  <2>1. Control \in Msg /\ \A r \in Roles : Message("command", r) \in Msg
    BY OtherMessageType, MessageType DEF RoleKinds
  <2>2. \E m \in Msg : q' = SendPriority(q, m) \/ q' = SendNormal(q, m)
    BY <1>2, <2>1 DEF SendControl, Roles
  <2> QED BY <1>0, <2>2, SendPriorityInv, SendNormalInv, SendPriorityCounts, SendNormalCounts DEF X
<1>3. ASSUME NEW r \in Roles, SendStreamStart(r) \/ SendStreamClear(r) \/ SendState(r)
      PROVE  QueueInv(q', X) /\ Counts(q, q')
  BY <1>0, <1>1, <1>3 DEF SendStreamStart, SendStreamClear, SendState
<1>4. ASSUME NEW r \in Roles, SendChunk(r) PROVE QueueInv(q', X) /\ Counts(q, q')
  <2>1. PICK due \in 1 .. MaxTime, room \in Rooms : q' = SendBinary(q, r, "chunk", due, room)
    BY <1>4 DEF SendChunk
  <2>2. due \in Nat /\ room \in Nat
    BY WriterAssumption DEF Never
  <2> QED BY <1>0, <2>1, <2>2, SendBinaryInv, SendBinaryCounts
<1>5. ASSUME NEW r \in Roles, SendStreamEnd(r) PROVE QueueInv(q', X) /\ Counts(q, q')
  BY <1>0, <1>5, EndStreamInv, EndStreamCounts DEF SendStreamEnd
<1>6. ASSUME NEW r \in Roles, q' = AwaitDrained(SendBinary(q, r, "chunk", 0, 0), r, sendingRole)
      PROVE  QueueInv(q', X) /\ Counts(q, q')
  <2> DEFINE b == SendBinary(q, r, "chunk", 0, 0)
  <2>1. QueueInv(b, X) /\ Counts(q, b)
    BY <1>0, SendBinaryInv, SendBinaryCounts
  <2>2. q' = AwaitDrained(b, r, sendingRole)
    BY <1>6
  <2> HIDE DEF b
  <2>3. QueueInv(q', X) /\ Counts(b, q')
    BY <2>1, <2>2, AwaitDrainedInv, AwaitDrainedCounts
  <2> QED BY <2>1, <2>3, CountsTransitive
<1>7. ASSUME NEW r \in Roles, BeginTransfer(r) PROVE QueueInv(q', X) /\ Counts(q, q')
  BY <1>6, <1>7 DEF BeginTransfer
<1>8. ASSUME NEW r \in Roles, TransferWakes(r) PROVE QueueInv(q', X) /\ Counts(q, q')
  <2>1. CASE q' = AwaitDrained(q, r, sendingRole)
    BY <1>0, <2>1, AwaitDrainedInv, AwaitDrainedCounts
  <2>2. CASE q' = q
    BY <1>0, <2>2, CountsSelf
  <2> QED BY <1>6, <1>8, <2>1, <2>2 DEF TransferWakes
<1>9. ASSUME NEW r \in Roles, CancelTransfer(r) PROVE QueueInv(q', X) /\ Counts(q, q')
  BY <1>0, <1>9, CancelInFlightInv, CancelInFlightCounts DEF CancelTransfer
<1> QED BY <1>2, <1>3, <1>4, <1>5, <1>7, <1>8, <1>9 DEF RoleStep, X

(* No role breaks the invariant. *)
LEMMA RoleStepInv == IInv /\ RoleStep => IInv'
<1> SUFFICES ASSUME IInv, RoleStep PROVE IInv'
  OBVIOUS
<1>1. Unsent
  BY DEF RoleStep, SendControl, SendStreamStart, SendChunk, SendStreamClear, SendStreamEnd,
         SendState, BeginTransfer, TransferWakes, CancelTransfer
<1>2. sendingRole' = sendingRole /\ writer' = writer
  BY <1>1 DEF Unsent
<1>3. q.disconnecting => q'.disconnecting
  BY RoleStepQueues DEF Counts, Calls
<1>4. QueueInv(q', Exempt')
  BY <1>2, <1>3, RoleStepQueues, ExemptKept
<1>5. active' = active /\ started' \in SUBSET Streamed /\ transfer' \in SUBSET Untimed
  BY DEF IInv, RestTypeOK, RoleStep, SendControl, SendStreamStart, SendChunk, SendStreamClear,
         SendStreamEnd, SendState, BeginTransfer, TransferWakes, CancelTransfer, roleVars, Roles,
         Streamed
<1>6. controls' \in Nat /\ activations' \in Nat
  BY DEF IInv, RestTypeOK, RoleStep, SendControl, SendStreamStart, SendChunk, SendStreamClear,
         SendStreamEnd, SendState, BeginTransfer, TransferWakes, CancelTransfer, boundVars
<1> QED BY <1>1, <1>4, <1>5, <1>6 DEF IInv, RestTypeOK, SendingHoldsRole, Unsent, history

-----------------------------------------------------------------------------
(* The writer. *)

(* Handing a message to the transport keeps the heaps right. *)
LEMMA TransmitInv ==
  ASSUME IInv, NEW p, NEW X, QueueInv(p, X), NEW m \in Msg, NEW r, Transmit(p, m, r)
  PROVE  QueueInv(q', X) /\ sending' \in Msg /\ sendingRole' = r /\ announced' \in SUBSET Roles /\ overtaken' \in SUBSET Roles
<1>1. m.roles \in SUBSET Roles
  BY DEF Msg
<1> QED BY <1>1, OnWireInv DEF Transmit, IInv, RestTypeOK, history

(* So does sending the first priority message. *)
LEMMA SendFirstPriorityInv ==
  ASSUME IInv, SendFirstPriority, NEW X, QueueInv(q, X)
  PROVE  /\ QueueInv(q', X) /\ sending' \in Msg /\ sendingRole' = NoRole
         /\ announced' \in SUBSET Roles /\ overtaken' \in SUBSET Roles
         /\ q'.disconnecting = q.disconnecting /\ q'.idle = q.idle
<1> DEFINE s == Tail(q.priority)
           n == Minus(q.size, 1)
           p == [q EXCEPT !.priority = s, !.size = n]
<1>1. q.priority \in Seq(Msg) /\ q.priority # <<>> /\ q.size \in Nat /\ q \in QueuesType
  BY DEF QueueInv, QueuesType, SendFirstPriority
<1>2. s \in Seq(Msg) /\ n \in Nat /\ Head(q.priority) \in Msg
  BY <1>1 DEF Minus
<1>3. Transmit(p, Head(q.priority), NoRole)
  BY DEF SendFirstPriority
<1> HIDE DEF s, n
<1>4. QueueInv(p, X) /\ p.disconnecting = q.disconnecting /\ p.idle = q.idle
  BY <1>1, <1>2, PriorityInv DEF QueuesType
<1> HIDE DEF p
<1>5. q'.disconnecting = p.disconnecting /\ q'.idle = p.idle
  BY <1>3, <1>4, OnWireFields DEF Transmit, QueueInv
<1> QED BY <1>2, <1>3, <1>4, <1>5, TransmitInv

(* A message leaves outside the role's queues: the role sending, if any,    *)
(* cannot be one that competes.                                             *)
LEMMA NobodySending ==
  ASSUME IInv, writer # "sending"
  PROVE  sendingRole = NoRole
BY DEF IInv, SendingHoldsRole

(* Exempting no role exempts nothing. *)
LEMMA NoRoleExempt ==
  ASSUME NEW p, NEW X, QueueInv(p, X \cup {NoRole})
  PROVE  QueueInv(p, X)
BY QueuesAssumption DEF QueueInv

(* Every step of the writer but its last keeps the heaps right. *)
LEMMA WriterRuns ==
  ASSUME IInv, WriterStep, ~WriterEnds
  PROVE  Narrow'
<1> Narrow
  <2>1. writer \in {"top", "peek", "sending", "waiting"}
    BY DEF WriterStep, WriterStops, WriterSendsControl, WriterPromotes, WriterSkips, WriterWaits,
           WriterWakes, WriterDrops, WriterBlocks, WriterSendsRole, WriterSent, WriterEnds, Peeked
  <2>2. Exempt = {sendingRole}
    BY <2>1 DEF Exempt
  <2> QED BY <2>2 DEF IInv, Narrow
<1>0. /\ QueueInv(q, {sendingRole}) /\ q \in QueuesType /\ clock \in Nat
      /\ q.wake \in BOOLEAN /\ q.idle \in BOOLEAN
  BY DEF Narrow, RestTypeOK, QueueInv, QueuesType
<1>1. CASE WriterStops
  <2>1. q' = [q EXCEPT !.wake = q.wake, !.idle = TRUE]
    BY <1>0, <1>1 DEF WriterStops, QueuesType
  <2>2. QueueInv(q', {sendingRole})
    BY <1>0, <2>1, FlagsInv
  <2>3. sendingRole = NoRole
    BY <1>1, NobodySending DEF WriterStops
  <2> QED BY <1>1, <2>2, <2>3
      DEF WriterStops, roleVars, boundVars, Narrow, RestTypeOK, history, SendingHoldsRole, WriterPlaces
<1>2. CASE WriterSendsControl
  <2>1. sendingRole = NoRole
    BY <1>2, NobodySending DEF WriterSendsControl
  <2>2. /\ QueueInv(q', {sendingRole}) /\ sending' \in Msg /\ sendingRole' = NoRole
        /\ announced' \in SUBSET Roles /\ overtaken' \in SUBSET Roles
    <3>1. CASE SendFirstPriority
      BY <1>0, <3>1, SendFirstPriorityInv
    <3>2. ASSUME NEW c \in q.normal,
                 Transmit([q EXCEPT !.normal = @ \ {c}, !.size = Minus(@, 1)], c.msg, NoRole)
          PROVE  /\ QueueInv(q', {sendingRole}) /\ sending' \in Msg /\ sendingRole' = NoRole
                 /\ announced' \in SUBSET Roles /\ overtaken' \in SUBSET Roles
      <4> DEFINE S == q.normal \ {c}
                 n == Minus(q.size, 1)
                 p == [q EXCEPT !.normal = S, !.size = n]
      <4>1. c.msg \in Msg
        BY <1>0 DEF QueuesType, Finite, NormalEntry
      <4>2. S \in SUBSET q.normal /\ n \in Nat
        BY <1>0 DEF QueuesType, Minus
      <4>3. Transmit(p, c.msg, NoRole)
        BY <3>2
      <4> HIDE DEF S, n
      <4>4. QueueInv(p, {sendingRole})
        BY <1>0, <4>2, NormalInv
      <4> HIDE DEF p
      <4> QED BY <4>1, <4>3, <4>4, TransmitInv
    <3> QED BY <1>2, <3>1, <3>2 DEF WriterSendsControl
  <2> QED BY <1>2, <2>1, <2>2
      DEF WriterSendsControl, roleVars, boundVars, Narrow, RestTypeOK, history, SendingHoldsRole, WriterPlaces
<1>3. CASE WriterPromotes
  <2>1. QueueInv(q', {sendingRole})
    BY <1>0, <1>3, PromoteInv DEF WriterPromotes
  <2>2. sendingRole = NoRole
    BY <1>3, NobodySending DEF WriterPromotes
  <2> QED BY <1>3, <2>1, <2>2
      DEF WriterPromotes, roleVars, boundVars, Narrow, RestTypeOK, history, SendingHoldsRole, WriterPlaces
<1>4. CASE WriterSkips
  <2>1. PICK k \in q.ready :
          /\ q.blocked[k.role] # NoTime \/ k \notin HeadKeys(q.entries[k.role], k.role)
          /\ q' = IF q.blocked[k.role] # NoTime THEN [q EXCEPT !.ready = @ \ {k}]
                  ELSE Schedule([q EXCEPT !.ready = @ \ {k}], k.role)
    BY <1>4 DEF WriterSkips
  <2> DEFINE r == k.role
             p == [q EXCEPT !.ready = @ \ {k}]
  <2>2. r \in Roles
    BY <1>0 DEF QueuesType, ReadyKey
  <2>3. QueueInv(p, {sendingRole} \cup {r})
    BY <1>0, <2>2, PopInv
  <2>4. QueueInv(q', {sendingRole})
    <3>1. CASE q.blocked[r] # NoTime
      <4>1. Competing(p, r)
        BY <1>0, <3>1 DEF QueuesType, Competing
      <4> HIDE DEF p, r
      <4>2. QueueInv(p, {sendingRole})
        BY <2>3, <4>1 DEF QueueInv
      <4> QED BY <2>1, <3>1, <4>2 DEF p, r
    <3>2. CASE q.blocked[r] = NoTime
      <4> HIDE DEF p, r
      <4>1. QueueInv(Schedule(p, r), ({sendingRole} \cup {r}) \ {r})
        BY <2>2, <2>3, ScheduleInv
      <4>2. QueueInv(Schedule(p, r), {sendingRole})
        BY <4>1, QueueInvWider
      <4> QED BY <2>1, <3>2, <4>2 DEF p, r
    <3> QED BY <3>1, <3>2
  <2>5. sendingRole = NoRole
    BY <1>4, NobodySending DEF WriterSkips
  <2> QED BY <1>4, <2>4, <2>5
      DEF WriterSkips, roleVars, boundVars, Narrow, RestTypeOK, history, SendingHoldsRole, WriterPlaces
<1>5. CASE WriterWaits
  <2>1. q' = [q EXCEPT !.wake = FALSE, !.idle = IF q.delayed = {} THEN TRUE ELSE q.idle]
    BY <1>5 DEF WriterWaits
  <2>2. QueueInv(q', {sendingRole})
    BY <1>0, <2>1, FlagsInv
  <2>3. sendingRole = NoRole
    BY <1>5, NobodySending DEF WriterWaits
  <2> QED BY <1>5, <2>2, <2>3
      DEF WriterWaits, roleVars, boundVars, Narrow, RestTypeOK, history, SendingHoldsRole, WriterPlaces
<1>6. CASE WriterWakes
  BY <1>6, NobodySending
  DEF WriterWakes, roleVars, boundVars, Narrow, RestTypeOK, history, SendingHoldsRole, WriterPlaces
<1>7. CASE WriterDrops
  <2>r. PICK r \in Roles : \E e \in q.entries[r] :
          /\ Peeked(r, e)
          /\ q' = RoleDone(Schedule(Take(Popped(r, e), r, {e}), r), r)
    BY <1>7 DEF WriterDrops
  <2>1. PICK e \in q.entries[r] :
          /\ Peeked(r, e)
          /\ q' = RoleDone(Schedule(Take(Popped(r, e), r, {e}), r), r)
    BY <2>r
  <2> DEFINE p == Popped(r, e)
             t == Take(p, r, {e})
  <2>2. QueueInv(p, {sendingRole} \cup {r}) /\ p.entries = q.entries
    BY <1>0, PopInv DEF Popped, Key, QueuesType
  <2> HIDE DEF p
  <2>3. QueueInv(t, {sendingRole} \cup {r})
    BY <2>2, TakeInv
  <2> HIDE DEF t
  <2>4. QueueInv(Schedule(t, r), ({sendingRole} \cup {r}) \ {r})
    BY <2>3, ScheduleInv
  <2>5. QueueInv(Schedule(t, r), {sendingRole})
    BY <2>4, QueueInvWider
  <2>6. QueueInv(q', {sendingRole})
    BY <2>1, <2>5, RoleDoneInv DEF t, p
  <2>7. sendingRole = NoRole
    BY <2>1, NobodySending DEF Peeked
  <2> QED BY <1>7, <2>6, <2>7
      DEF WriterDrops, roleVars, boundVars, Narrow, RestTypeOK, history, SendingHoldsRole, WriterPlaces
<1>8. CASE WriterBlocks
  <2>r. PICK r \in Roles : \E e \in q.entries[r] :
          Peeked(r, e) /\ q' = Block(Popped(r, e), r, e.room)
    BY <1>8 DEF WriterBlocks
  <2>1. PICK e \in q.entries[r] : Peeked(r, e) /\ q' = Block(Popped(r, e), r, e.room)
    BY <2>r
  <2>2. e.room \in Nat
    BY <1>0 DEF QueuesType, Finite, Entry
  <2> DEFINE p == Popped(r, e)
  <2>3. QueueInv(p, {sendingRole} \cup {r})
    BY <1>0, PopInv DEF Popped, Key
  <2> HIDE DEF p
  <2>4. QueueInv(Block(p, r, e.room), ({sendingRole} \cup {r}) \ {r})
    BY <2>2, <2>3, BlockInv
  <2>5. QueueInv(q', {sendingRole})
    BY <2>1, <2>4, QueueInvWider DEF p
  <2>6. sendingRole = NoRole
    BY <2>1, NobodySending DEF Peeked
  <2> QED BY <1>8, <2>5, <2>6
      DEF WriterBlocks, roleVars, boundVars, Narrow, RestTypeOK, history, SendingHoldsRole, WriterPlaces
<1>9. CASE WriterSendsRole
  <2>r. PICK r \in Roles : \E e \in q.entries[r] :
          /\ Peeked(r, e)
          /\ \E M \in Mergeable(q.entries[r], e) :
               Transmit(Take(Popped(r, e), r, {e} \cup M), Message(e.kind, r), r)
    BY <1>9 DEF WriterSendsRole
  <2>e. PICK e \in q.entries[r] :
          /\ Peeked(r, e)
          /\ \E M \in Mergeable(q.entries[r], e) :
               Transmit(Take(Popped(r, e), r, {e} \cup M), Message(e.kind, r), r)
    BY <2>r
  <2>1. PICK M \in Mergeable(q.entries[r], e) :
          /\ Peeked(r, e)
          /\ Transmit(Take(Popped(r, e), r, {e} \cup M), Message(e.kind, r), r)
    BY <2>e
  <2> DEFINE p == Popped(r, e)
             t == Take(p, r, {e} \cup M)
  <2>2. QueueInv(p, {sendingRole} \cup {r}) /\ p.entries = q.entries
    BY <1>0, PopInv DEF Popped, Key, QueuesType
  <2>3. {e} \cup M \in SUBSET q.entries[r]
    BY DEF Mergeable
  <2> HIDE DEF p
  <2>4. QueueInv(t, {sendingRole} \cup {r})
    BY <2>2, <2>3, TakeInv
  <2>5. Message(e.kind, r) \in Msg
    <3>1. e.kind \in RoleKinds
      BY <1>0 DEF QueuesType, Finite, Entry, RoleKinds
    <3> QED BY <3>1, MessageType
  <2>6. Transmit(t, Message(e.kind, r), r)
    BY <2>1 DEF p
  <2> HIDE DEF t
  <2>7. /\ QueueInv(q', {sendingRole} \cup {r}) /\ sending' \in Msg /\ sendingRole' = r
        /\ announced' \in SUBSET Roles /\ overtaken' \in SUBSET Roles
    BY <2>4, <2>5, <2>6, TransmitInv
  <2>8. sendingRole = NoRole
    BY <2>1, NobodySending DEF Peeked
  <2>9. QueueInv(q', {sendingRole'})
    BY <2>7, <2>8, NoRoleExempt
  <2> QED BY <1>9, <2>7, <2>9
      DEF WriterSendsRole, roleVars, boundVars, Narrow, RestTypeOK, history, SendingHoldsRole, WriterPlaces
<1>10. CASE WriterSent
  <2>1. QueueInv(q', {NoRole})
    <3>1. CASE sendingRole = NoRole
      BY <1>0, <1>10, <3>1 DEF WriterSent
    <3>2. CASE sendingRole # NoRole
      <4>1. sendingRole \in Roles
        BY <3>2 DEF Narrow, RestTypeOK, history
      <4>2. QueueInv(Schedule(q, sendingRole), {sendingRole} \ {sendingRole})
        BY <1>0, <4>1, ScheduleInv
      <4>3. QueueInv(Schedule(q, sendingRole), {NoRole})
        BY <4>2, QueueInvWider
      <4> QED BY <1>10, <3>2, <4>3, RoleDoneInv DEF WriterSent
    <3> QED BY <3>1, <3>2
  <2> QED BY <1>10, <2>1, OtherMessageType
      DEF WriterSent, roleVars, boundVars, Narrow, RestTypeOK, history, SendingHoldsRole, WriterPlaces
<1> QED BY <1>1, <1>2, <1>3, <1>4, <1>5, <1>6, <1>7, <1>8, <1>9, <1>10 DEF WriterStep

(* No step of the writer breaks the invariant. *)
LEMMA WriterStepInv == IInv /\ WriterStep => IInv'
<1> SUFFICES ASSUME IInv, WriterStep PROVE IInv'
  OBVIOUS
<1>1. CASE WriterEnds
  <2> DEFINE X == Exempt
             d == IF sendingRole = NoRole THEN q ELSE RoleDone(q, sendingRole)
  <2>1. QueueInv(d, X)
    BY RoleDoneInv DEF IInv
  <2>2. q' = [d EXCEPT !.disconnecting = TRUE, !.idle = TRUE] /\ writer' = "done"
    BY <1>1 DEF WriterEnds
  <2>3. d \in QueuesType
    BY <2>1 DEF QueueInv
  <2> HIDE DEF d, X
  <2>4. QueueInv(q', X) /\ q'.disconnecting
    BY <2>1, <2>2, <2>3, DisconnectedInv DEF QueuesType
  <2>5. X \subseteq Roles \cup {NoRole}
    BY DEF X, Exempt, IInv, RestTypeOK
  <2>6. QueueInv(q', Exempt' \cup {NoRole})
    <3>1. X \subseteq Exempt' \cup {NoRole}
      BY <2>2, <2>4, <2>5 DEF Exempt
    <3> QED BY <2>4, <3>1, QueueInvWider
  <2>7. QueueInv(q', Exempt')
    BY <2>6, NoRoleExempt
  <2> QED BY <1>1, <2>7, OtherMessageType
      DEF WriterEnds, roleVars, boundVars, IInv, RestTypeOK, history, SendingHoldsRole, WriterPlaces
<1>2. CASE ~WriterEnds
  <2>1. Narrow'
    BY <1>2, WriterRuns
  <2>2. {sendingRole'} \subseteq Exempt'
    BY DEF Exempt
  <2>3. QueueInv(q', {sendingRole'}) /\ RestTypeOK' /\ SendingHoldsRole'
    BY <2>1 DEF Narrow
  <2>4. QueueInv(q', Exempt')
    BY <2>2, <2>3, QueueInvWider
  <2> QED BY <2>3, <2>4 DEF IInv
<1> QED BY <1>1, <1>2

-----------------------------------------------------------------------------
(* Activations, and the end of the connection. *)

(* _send_activation keeps the heaps right and the count of the queues. *)
LEMMA SendActivationInv ==
  ASSUME IInv, NEW p, NEW X, QueueInv(p, X), NEW new \in SUBSET Roles
  PROVE  QueueInv(SendActivation(p, new), X) /\ Counts(p, SendActivation(p, new))
<1> DEFINE gone == active \ new
           r    == CHOOSE x \in gone : TRUE
           torn == IF gone = {} THEN p ELSE EndStream(DiscardRoleQueue(p, r), r, {r})
<1>1. QueueInv(torn, X) /\ Counts(p, torn)
  <2>1. CASE gone = {}
    BY <2>1, CountsSelf
  <2>2. CASE gone # {}
    <3>1. r \in Roles
      BY <2>2 DEF IInv, RestTypeOK
    <3> HIDE DEF r
    <3> DEFINE a == DiscardRoleQueue(p, r)
    <3>2. QueueInv(a, X) /\ Counts(p, a)
      BY <3>1, DiscardRoleQueueInv, DiscardCounts
    <3>3. clock \in Nat
      BY DEF IInv, RestTypeOK
    <3>4. torn = EndStream(a, r, {r})
      BY <2>2 DEF r
    <3> HIDE DEF a, torn
    <3>5. QueueInv(torn, X) /\ Counts(a, torn)
      BY <3>1, <3>2, <3>3, <3>4, EndStreamInv, EndStreamCounts
    <3> QED BY <3>2, <3>5, CountsTransitive
  <2> QED BY <2>1, <2>2
<1>2. SendActivation(p, new) = SendPriority(torn, Activation(new))
  BY DEF SendActivation
<1> HIDE DEF torn
<1>3. /\ QueueInv(SendPriority(torn, Activation(new)), X)
      /\ Counts(torn, SendPriority(torn, Activation(new)))
  BY <1>1, OtherMessageType, SendPriorityInv, SendPriorityCounts
<1> QED BY <1>1, <1>2, <1>3, CountsTransitive

(* Control messages may be put aside, or put behind others. *)
LEMMA PriorityAlone ==
  ASSUME NEW p, NEW X, QueueInv(p, X), NEW s \in Seq(Msg)
  PROVE  LET d == [p EXCEPT !.priority = s]
         IN  /\ QueueInv(d, X) /\ d.priority = s
             /\ d.entries = p.entries /\ d.normal = p.normal /\ d.disconnecting = p.disconnecting
             /\ d.size = p.size /\ d.seq = p.seq /\ d.idle = p.idle
<1> DEFINE u == [p EXCEPT !.priority = s, !.size = p.size]
<1>1. p \in QueuesType /\ p.size \in Nat
  BY DEF QueueInv, QueuesType
<1>2. QueueInv(u, X)
  BY <1>1, PriorityInv
<1>3. [p EXCEPT !.priority = s] = u
  BY <1>1 DEF QueuesType
<1>4. /\ u.priority = s /\ u.entries = p.entries /\ u.normal = p.normal
      /\ u.disconnecting = p.disconnecting /\ u.size = p.size /\ u.seq = p.seq
      /\ u.idle = p.idle
  BY <1>1 DEF QueuesType
<1> HIDE DEF u
<1> QED BY <1>2, <1>3, <1>4

(* The count with and without the control messages s put aside. *)
LEMMA AsideSized ==
  ASSUME NEW p \in QueuesType, NEW d \in QueuesType, NEW s \in Seq(Msg), NEW k \in Nat,
         d.entries = p.entries, d.normal = p.normal, d.size = p.size, d.seq = p.seq
  PROVE  /\ p.priority = s /\ d.priority = <<>> /\ Sized(p, k) => Sized(d, k + Len(s))
         /\ d.priority = p.priority \o s /\ Sized(p, k + Len(s)) => Sized(d, k)
<1> DEFINE n == Cardinality(p.normal)
           c == Cardinality(Pairs(p.entries))
           l == Len(p.priority)
           m == Len(s)
<1>1. n \in Nat /\ c \in Nat /\ l \in Nat /\ m \in Nat
  BY TotalType
<1>2. Total(p) = l + n + c /\ Total(d) = Len(d.priority) + n + c
  BY DEF Total
<1>3. d.priority = p.priority \o s => Len(d.priority) = l + m
  BY DEF QueuesType
<1>4. d.priority = <<>> => Len(d.priority) = 0
  OBVIOUS
<1>5. p.priority = s => l = m
  OBVIOUS
<1> HIDE DEF n, c, l, m
<1>6. ASSUME p.priority = s, d.priority = <<>>, Sized(p, k) PROVE Sized(d, k + m)
  <2>1. p.size = k + (m + n + c) /\ Total(d) = 0 + n + c
    BY <1>2, <1>4, <1>5, <1>6 DEF Sized
  <2>2. d.size = (k + m) + Total(d)
    BY <1>1, <2>1
  <2> QED BY <1>6, <2>2 DEF Sized
<1>7. ASSUME d.priority = p.priority \o s, Sized(p, k + m) PROVE Sized(d, k)
  <2>1. p.size = (k + m) + (l + n + c) /\ Total(d) = (l + m) + n + c
    BY <1>2, <1>3, <1>7 DEF Sized
  <2>2. d.size = k + Total(d)
    BY <1>1, <2>1
  <2> QED BY <1>7, <2>2 DEF Sized
<1> QED BY <1>6, <1>7 DEF m

(* A step of an activation keeps the heaps right; all but the flush, which   *)
(* sends, keep what is queued counted.                                       *)
LEMMA ActivationStepQueues ==
  ASSUME IInv, ActivationStep
  PROVE  /\ QueueInv(q', Exempt) /\ (q.disconnecting => q'.disconnecting)
         /\ FlushPriority \/ Counts(q, q')
<1> DEFINE X == Exempt
<1>0. /\ QueueInv(q, X) /\ q \in QueuesType /\ q.wake \in BOOLEAN /\ q.idle \in BOOLEAN
  BY DEF IInv, QueueInv, QueuesType
<1> HIDE DEF X
<1>c. Counts(q, q') => (q.disconnecting => q'.disconnecting)
  BY DEF Counts, Calls
<1>1. CASE PauseWriter
  <2>1. q' = [q EXCEPT !.wake = TRUE, !.idle = q.idle]
    BY <1>0, <1>1 DEF PauseWriter, QueuesType
  <2>2. QueueInv(q', X)
    BY <1>0, <2>1, FlagsInv
  <2>3. /\ q'.entries = q.entries /\ q'.priority = q.priority /\ q'.normal = q.normal
        /\ q'.size = q.size /\ q'.seq = q.seq /\ q'.idle = q.idle
        /\ q'.disconnecting = q.disconnecting
    BY <1>0, <2>1 DEF QueuesType
  <2>4. q' \in QueuesType /\ q.seq <= q'.seq
    BY <1>0, <2>2, <2>3, TotalType DEF QueueInv
  <2>5. \A k \in Nat : Sized(q, k) => Sized(q', k)
    BY <1>0, <2>3, <2>4, CountSame
  <2>6. Counts(q, q')
    BY <2>3, <2>5 DEF Counts, Calls
  <2> QED BY <1>c, <2>2, <2>6 DEF X
<1>2. CASE q' = q
  BY <1>0, <1>2, CountsSelf DEF X
<1>3. CASE FlushPriority
  BY <1>0, <1>3, SendFirstPriorityInv DEF FlushPriority, X
<1>4. CASE FlushFails
  <2>1. QueueInv(q', X) /\ q' = Overflow(q)
    BY <1>0, <1>4, OverflowInv DEF FlushFails
  <2>2. Counts(q, q')
    BY <1>0, <2>1, OverflowCounts
  <2> QED BY <1>c, <2>1, <2>2 DEF X
<1>5. CASE Activate
  <2> DEFINE s == q.priority
             e == [q EXCEPT !.priority = <<>>]
  <2>1. PICK new \in SUBSET Roles :
          q' = [SendActivation(e, new) EXCEPT !.priority = @ \o s]
    BY <1>5 DEF Activate
  <2>2. s \in Seq(Msg) /\ <<>> \in Seq(Msg)
    BY <1>0 DEF QueuesType
  <2>3. /\ QueueInv(e, X) /\ e.priority = <<>>
        /\ e.entries = q.entries /\ e.normal = q.normal /\ e.disconnecting = q.disconnecting
        /\ e.size = q.size /\ e.seq = q.seq /\ e.idle = q.idle
    BY <1>0, <2>2, PriorityAlone
  <2> HIDE DEF e
  <2> DEFINE a == SendActivation(e, new)
             t == a.priority \o s
  <2>4. QueueInv(a, X) /\ Counts(e, a)
    BY <2>3, SendActivationInv
  <2>5. q' = [a EXCEPT !.priority = t]
    BY <2>1
  <2> HIDE DEF a
  <2>6. a \in QueuesType /\ e \in QueuesType /\ t \in Seq(Msg)
    BY <2>2, <2>3, <2>4 DEF QueueInv, QueuesType
  <2> HIDE DEF t
  <2>7. /\ QueueInv(q', X) /\ q'.priority = t
        /\ q'.entries = a.entries /\ q'.normal = a.normal
        /\ q'.disconnecting = a.disconnecting
        /\ q'.size = a.size /\ q'.seq = a.seq /\ q'.idle = a.idle
    BY <2>4, <2>5, <2>6, PriorityAlone
  <2>8. q' \in QueuesType /\ q'.priority = a.priority \o s
    BY <2>7 DEF QueueInv, t
  <2>9. ASSUME NEW k \in Nat, Sized(q, k) PROVE Sized(q', k)
    <3>1. Sized(e, k + Len(s))
      BY <1>0, <2>2, <2>3, <2>6, <2>9, AsideSized DEF s
    <3>2. k + Len(s) \in Nat
      BY <2>2
    <3>3. Sized(a, k + Len(s))
      BY <2>4, <3>1, <3>2 DEF Counts
    <3> QED BY <2>2, <2>6, <2>7, <2>8, <3>3, AsideSized
  <2>10. Calls(q, q')
    <3>1. Calls(e, a)
      BY <2>4 DEF Counts
    <3>2. a.priority = <<>> => q'.priority = q.priority
      BY <2>2, <2>8 DEF s
    <3> QED BY <2>3, <2>7, <3>1, <3>2 DEF Calls
  <2>11. Counts(q, q')
    BY <2>9, <2>10 DEF Counts
  <2> QED BY <1>c, <2>7, <2>11 DEF X
<1>6. CASE RefreshTrusted
  <2>1. PICK new \in SUBSET Roles : q' = SendActivation(q, new)
    BY <1>6 DEF RefreshTrusted
  <2>2. QueueInv(q', X) /\ Counts(q, q')
    BY <1>0, <2>1, SendActivationInv
  <2> QED BY <1>c, <2>2 DEF X
<1>7. ActivationStep => \/ PauseWriter \/ FlushPriority \/ FlushFails \/ Activate
                        \/ RefreshTrusted \/ q' = q
  BY DEF ActivationStep, WriterPaused, FlushSent, FlushDone, ResumeWriter
<1> QED BY <1>1, <1>2, <1>3, <1>4, <1>5, <1>6, <1>7

(* No step of an activation breaks the invariant. *)
LEMMA ActivationStepInv == IInv /\ ActivationStep => IInv'
<1> SUFFICES ASSUME IInv, ActivationStep PROVE IInv'
  OBVIOUS
<1>1. CASE ResumeWriter
  <2>1. sendingRole = NoRole /\ Exempt = {sendingRole}
    BY <1>1, NobodySending DEF ResumeWriter, Exempt
  <2>2. q' = q /\ {sendingRole} \subseteq Exempt' /\ QueueInv(q, {sendingRole})
    BY <1>1, <2>1 DEF ResumeWriter, Exempt, IInv
  <2>3. QueueInv(q', Exempt')
    BY <2>2, QueueInvWider
  <2> QED BY <1>1, <2>1, <2>3
      DEF ResumeWriter, roleVars, boundVars, IInv, RestTypeOK, history, SendingHoldsRole,
          PausePlaces, WriterPlaces
<1>2. CASE ~ResumeWriter
  <2>1. sendingRole' = sendingRole /\ writer' = writer
    <3>1. CASE FlushPriority
      <4>1. sendingRole = NoRole
        BY <3>1, NobodySending DEF FlushPriority
      <4> QED BY <3>1, <4>1 DEF FlushPriority, SendFirstPriority, Transmit
    <3>2. CASE ~FlushPriority
      BY <1>2, <3>2 DEF ActivationStep, PauseWriter, WriterPaused, FlushSent, FlushFails,
                        FlushDone, Activate, RefreshTrusted
    <3> QED BY <3>1, <3>2
  <2>2. QueueInv(q', Exempt')
    BY <2>1, ActivationStepQueues, ExemptKept
  <2>3. /\ sending' \in Msg /\ announced' \in SUBSET Roles /\ overtaken' \in SUBSET Roles
        /\ active' \in SUBSET Roles /\ started' \in SUBSET Streamed /\ transfer' \in SUBSET Untimed
    <3>1. CASE FlushPriority
      <4>1. sending' \in Msg /\ announced' \in SUBSET Roles /\ overtaken' \in SUBSET Roles
        BY <3>1, SendFirstPriorityInv DEF FlushPriority, IInv
      <4> QED BY <3>1, <4>1 DEF FlushPriority, IInv, RestTypeOK, roleVars
    <3>2. CASE Activate \/ RefreshTrusted
      BY <3>2 DEF Activate, RefreshTrusted, Reconcile, EndAhead, IInv, RestTypeOK
    <3>3. CASE ~(FlushPriority \/ Activate \/ RefreshTrusted)
      BY <1>2, <3>3, OtherMessageType
      DEF ActivationStep, PauseWriter, WriterPaused, FlushSent, FlushFails, FlushDone,
          IInv, RestTypeOK, roleVars, history
    <3> QED BY <3>1, <3>2, <3>3
  <2>4. /\ clock' = clock /\ pause' \in PausePlaces /\ mode' \in {"fresh", "normal", "pairing"}
        /\ controls' \in Nat /\ activations' \in Nat
    <3>1. CASE Activate \/ RefreshTrusted
      <4>1. activations' = activations + 1 /\ controls' = controls
        BY <3>1 DEF Activate, RefreshTrusted, Reconcile
      <4>2. /\ clock' = clock /\ pause' \in {pause, "activating"} /\ mode' \in {mode, "normal"}
        BY <3>1 DEF Activate, RefreshTrusted
      <4> QED BY <4>1, <4>2 DEF IInv, RestTypeOK, PausePlaces
    <3>2. CASE ~(Activate \/ RefreshTrusted)
      BY <1>2, <3>2
      DEF ActivationStep, PauseWriter, WriterPaused, FlushPriority, FlushSent, FlushFails,
          FlushDone, IInv, RestTypeOK, PausePlaces, boundVars
    <3> QED BY <3>1, <3>2
  <2> QED BY <2>1, <2>2, <2>3, <2>4 DEF IInv, RestTypeOK, SendingHoldsRole
<1> QED BY <1>1, <1>2

(* The invariant is inductive. *)
LEMMA NextIInv == IInv /\ [Next]_vars => IInv'
<1> SUFFICES ASSUME IInv, [Next]_vars PROVE IInv'
  OBVIOUS
<1>1. CASE RoleStep
  BY <1>1, RoleStepInv
<1>2. CASE WriterStep
  BY <1>2, WriterStepInv
<1>3. CASE ActivationStep
  BY <1>3, ActivationStepInv
<1>4. CASE Disconnect
  <2>1. QueueInv(q', Exempt) /\ sendingRole' = sendingRole /\ writer' = writer
    BY <1>4, OverflowInv DEF Disconnect, IInv
  <2>2. q \in QueuesType
    BY DEF IInv, QueueInv
  <2>3. q'.disconnecting
    BY <1>4, <2>2, OverflowFields DEF Disconnect
  <2>4. QueueInv(q', Exempt')
    BY <2>1, <2>3, ExemptKept
  <2> QED BY <1>4, <2>4
      DEF Disconnect, roleVars, boundVars, IInv, RestTypeOK, history, SendingHoldsRole
<1>5. CASE Detach
  <2>1. sendingRole = NoRole
    BY <1>5, NobodySending DEF Detach
  <2>2. Exempt' = Exempt /\ q' = q
    BY <1>5 DEF Detach, Exempt
  <2> QED BY <1>5, <2>1, <2>2, OtherMessageType
      DEF Detach, boundVars, IInv, RestTypeOK, history, SendingHoldsRole, WriterPlaces, PausePlaces
<1>6. CASE Tick
  <2>1. Exempt' = Exempt
    BY <1>6 DEF Tick, Exempt
  <2> QED BY <1>6, <2>1, WriterAssumption
      DEF Tick, roleVars, boundVars, IInv, RestTypeOK, history, SendingHoldsRole
<1>7. CASE UNCHANGED vars
  <2>1. Exempt' = Exempt
    BY <1>7 DEF vars, Exempt
  <2> QED BY <1>7, <2>1
      DEF vars, roleVars, boundVars, IInv, RestTypeOK, history, SendingHoldsRole
<1> QED BY <1>1, <1>2, <1>3, <1>4, <1>5, <1>6, <1>7 DEF Next

(* The writer's state keeps its type in every reachable state. *)
THEOREM TypeCorrect == Spec => []TypeOK
<1>1. Init => IInv BY InitIInv
<1>2. IInv /\ [Next]_vars => IInv' BY NextIInv
<1>3. IInv => TypeOK BY IInvImplies
<1> QED BY <1>1, <1>2, <1>3, PTL DEF Spec

(* No interleaving of roles, writer and activations strands a role's queue: *)
(* what _peek_ready_entry pops as stale is always replaced, and every wait  *)
(* for buffer space has the entry of the delayed heap that ends it.         *)
THEOREM RolesScheduledHolds == Spec => []RolesScheduled
<1>1. Init => IInv BY InitIInv
<1>2. IInv /\ [Next]_vars => IInv' BY NextIInv
<1>3. IInv => RolesScheduled BY IInvImplies
<1> QED BY <1>1, <1>2, <1>3, PTL DEF Spec


-----------------------------------------------------------------------------
(* Role r is active for the client, which was last told the roles a, once   *)
(* the first i of the priority messages s are sent.                         *)
Known(s, a, i, r) ==
  \/ \E j \in 1 .. i : /\ s[j].kind = "activate" /\ r \in s[j].roles
                       /\ \A k \in j + 1 .. i : s[k].kind # "activate"
  \/ r \in a /\ \A k \in 1 .. i : s[k].kind # "activate"

(* Every role message among s finds its role known, and the roles S are the *)
(* ones known at the end.                                                   *)
Foretold(s, a, S) ==
  /\ \A i \in 1 .. Len(s) : \/ s[i].role = NoRole
                            \/ s[i].kind # "activate" /\ Known(s, a, i - 1, s[i].role)
  /\ \A r \in Roles : r \in S <=> Known(s, a, Len(s), r)

(* Whether a role is known depends on the messages before it only. *)
LEMMA KnownPrefix ==
  ASSUME NEW s, NEW t, NEW a, NEW i \in Nat, NEW r, \A j \in 1 .. i : s[j] = t[j]
  PROVE  Known(s, a, i, r) <=> Known(t, a, i, r)
<1>1. \A j \in 1 .. i : \A k \in j + 1 .. i : k \in 1 .. i
  OBVIOUS
<1> QED BY <1>1 DEF Known

(* A message that is no server/activate leaves the roles known alone. *)
LEMMA KnownStep ==
  ASSUME NEW s, NEW a, NEW i \in Nat, NEW r
  PROVE  Known(s, a, i + 1, r) <=>
           IF s[i + 1].kind = "activate" THEN r \in s[i + 1].roles ELSE Known(s, a, i, r)
<1>1. CASE s[i + 1].kind = "activate"
  <2>1. i + 1 \in 1 .. i + 1 /\ \A k \in (i + 1) + 1 .. i + 1 : FALSE
    OBVIOUS
  <2>2. ASSUME NEW j \in 1 .. i + 1, j # i + 1 PROVE i + 1 \in j + 1 .. i + 1
    BY <2>2
  <2> QED BY <1>1, <2>1, <2>2 DEF Known
<1>2. CASE s[i + 1].kind # "activate"
  <2>1. \A j \in 1 .. i : \A k \in j + 1 .. i + 1 : k \in j + 1 .. i \/ k = i + 1
    OBVIOUS
  <2>2. \A j \in 1 .. i : \A k \in j + 1 .. i : k \in j + 1 .. i + 1
    OBVIOUS
  <2>3. \A k \in 1 .. i + 1 : k \in 1 .. i \/ k = i + 1
    OBVIOUS
  <2>4. \A k \in 1 .. i : k \in 1 .. i + 1
    OBVIOUS
  <2> QED BY <1>2, <2>1, <2>2, <2>3, <2>4 DEF Known
<1> QED BY <1>1, <1>2

(* With nothing queued the client knows what it was told last. *)
LEMMA ForetoldNothing ==
  ASSUME NEW a
  PROVE  Foretold(<<>>, a, a)
BY DEF Foretold, Known

(* A message of a role that is known by then, or of no role, joins the queue. *)
LEMMA ForetoldAppend ==
  ASSUME NEW s \in Seq(Msg), NEW a, NEW S, Foretold(s, a, S), NEW m \in Msg,
         m.role = NoRole \/ (m.kind # "activate" /\ m.role \in S /\ m.role \in Roles)
  PROVE  Foretold(Append(s, m), a, IF m.kind = "activate" THEN m.roles ELSE S)
<1> DEFINE t == Append(s, m)
           n == Len(s)
<1>1. t \in Seq(Msg) /\ Len(t) = n + 1 /\ n \in Nat /\ t[n + 1] = m /\ \A i \in 1 .. n : t[i] = s[i]
  BY AppendElements
<1> HIDE DEF t, n
<1>2. \A r : Known(t, a, n, r) <=> Known(s, a, n, r)
  BY <1>1, KnownPrefix
<1>3. ASSUME NEW i \in 1 .. n + 1
      PROVE  \/ t[i].role = NoRole
             \/ t[i].kind # "activate" /\ Known(t, a, i - 1, t[i].role)
  <2>1. CASE i = n + 1
    <3>1. i - 1 = n /\ t[i] = m
      BY <2>1, <1>1
    <3>2. m.role \in Roles /\ m.role \in S => Known(s, a, n, m.role)
      BY DEF Foretold, n
    <3> QED BY <3>1, <3>2, <1>2
  <2>2. CASE i # n + 1
    <3>1. i \in 1 .. n /\ i - 1 \in Nat /\ \A j \in 1 .. i - 1 : j \in 1 .. n
      BY <2>2, <1>1
    <3>2. t[i] = s[i] /\ \A j \in 1 .. i - 1 : t[j] = s[j]
      BY <3>1, <1>1
    <3>3. Known(t, a, i - 1, t[i].role) <=> Known(s, a, i - 1, t[i].role)
      BY <3>1, <3>2, KnownPrefix
    <3> QED BY <3>1, <3>2, <3>3 DEF Foretold, n
  <2> QED BY <2>1, <2>2
<1>4. ASSUME NEW r \in Roles
      PROVE  r \in (IF m.kind = "activate" THEN m.roles ELSE S) <=> Known(t, a, n + 1, r)
  <2>1. r \in S <=> Known(s, a, n, r)
    BY DEF Foretold, n
  <2>2. Known(t, a, n + 1, r) <=> IF m.kind = "activate" THEN r \in m.roles ELSE Known(t, a, n, r)
    BY <1>1, KnownStep
  <2> QED BY <2>1, <2>2, <1>2
<1> QED BY <1>1, <1>3, <1>4 DEF Foretold, t

(* The first message leaves. *)
LEMMA ForetoldTail ==
  ASSUME NEW s \in Seq(Msg), s # <<>>, NEW a, NEW S, Foretold(s, a, S)
  PROVE  /\ Head(s).role \in a \cup {NoRole}
         /\ Foretold(Tail(s), IF Head(s).kind = "activate" THEN Head(s).roles ELSE a, S)
<1> DEFINE t == Tail(s)
           n == Len(s)
           b == IF Head(s).kind = "activate" THEN Head(s).roles ELSE a
<1>1. /\ t \in Seq(Msg) /\ n \in Nat \ {0} /\ Len(t) = n - 1 /\ Head(s) = s[1]
      /\ \A i \in 1 .. n - 1 : t[i] = s[i + 1]
  OBVIOUS
<1>2. s[1].role = NoRole \/ s[1].role \in a
  <2>1. 1 \in 1 .. n /\ 1 - 1 = 0
    BY <1>1
  <2>2. Known(s, a, 0, s[1].role) => s[1].role \in a
    BY DEF Known
  <2> QED BY <2>1, <2>2 DEF Foretold
<1> HIDE DEF t, n
<1>3. ASSUME NEW i \in 0 .. n - 1, NEW r
      PROVE  Known(t, b, i, r) <=> Known(s, a, i + 1, r)
  <2>1. ASSUME Known(t, b, i, r) PROVE Known(s, a, i + 1, r)
    <3>1. CASE \E j \in 1 .. i : /\ t[j].kind = "activate" /\ r \in t[j].roles
                                 /\ \A k \in j + 1 .. i : t[k].kind # "activate"
      <4>1. PICK j \in 1 .. i : /\ t[j].kind = "activate" /\ r \in t[j].roles
                                /\ \A k \in j + 1 .. i : t[k].kind # "activate"
        BY <3>1
      <4>2. j + 1 \in 1 .. i + 1 /\ t[j] = s[j + 1]
        BY <1>1
      <4>3. ASSUME NEW k \in (j + 1) + 1 .. i + 1 PROVE s[k].kind # "activate"
        <5>1. k - 1 \in j + 1 .. i /\ k - 1 \in 1 .. n - 1 /\ (k - 1) + 1 = k
          BY <1>1
        <5>2. t[k - 1] = s[k]
          BY <5>1, <1>1
        <5> QED BY <4>1, <5>1, <5>2
      <4> QED BY <4>1, <4>2, <4>3 DEF Known
    <3>2. CASE r \in b /\ \A k \in 1 .. i : t[k].kind # "activate"
      <4>1. ASSUME NEW k \in 2 .. i + 1 PROVE s[k].kind # "activate"
        <5>1. k - 1 \in 1 .. i /\ k - 1 \in 1 .. n - 1 /\ (k - 1) + 1 = k
          BY <1>1
        <5>2. t[k - 1] = s[k]
          BY <5>1, <1>1
        <5> QED BY <3>2, <5>1, <5>2
      <4>2. CASE s[1].kind = "activate"
        <5>1. r \in s[1].roles /\ 1 \in 1 .. i + 1 /\ 1 + 1 = 2
          BY <3>2, <4>2, <1>1
        <5> QED BY <4>1, <4>2, <5>1 DEF Known
      <4>3. CASE s[1].kind # "activate"
        <5>1. r \in a
          BY <3>2, <4>3, <1>1
        <5>2. \A k \in 1 .. i + 1 : k = 1 \/ k \in 2 .. i + 1
          OBVIOUS
        <5> QED BY <4>1, <4>3, <5>1, <5>2 DEF Known
      <4> QED BY <4>2, <4>3
    <3> QED BY <2>1, <3>1, <3>2 DEF Known
  <2>2. ASSUME Known(s, a, i + 1, r) PROVE Known(t, b, i, r)
    <3>0. \A k \in 1 .. i : k + 1 \in 1 .. i + 1 /\ t[k] = s[k + 1]
      BY <1>1
    <3>1. CASE \E j \in 1 .. i + 1 : /\ s[j].kind = "activate" /\ r \in s[j].roles
                                     /\ \A k \in j + 1 .. i + 1 : s[k].kind # "activate"
      <4>1. PICK j \in 1 .. i + 1 : /\ s[j].kind = "activate" /\ r \in s[j].roles
                                    /\ \A k \in j + 1 .. i + 1 : s[k].kind # "activate"
        BY <3>1
      <4>2. CASE j = 1
        <5>1. \A k \in 1 .. i : k + 1 \in j + 1 .. i + 1
          BY <4>2
        <5>2. \A k \in 1 .. i : t[k].kind # "activate"
          BY <3>0, <4>1, <5>1
        <5>3. r \in b
          BY <4>1, <4>2, <1>1
        <5> QED BY <5>2, <5>3 DEF Known
      <4>3. CASE j # 1
        <5>1. j - 1 \in 1 .. i /\ (j - 1) + 1 = j
          BY <4>3
        <5>2. t[j - 1] = s[j]
          BY <3>0, <5>1
        <5>3. ASSUME NEW k \in (j - 1) + 1 .. i PROVE t[k].kind # "activate"
          <6>1. k \in 1 .. i /\ k + 1 \in j + 1 .. i + 1
            OBVIOUS
          <6> QED BY <3>0, <4>1, <6>1
        <5> QED BY <4>1, <5>1, <5>2, <5>3 DEF Known
      <4> QED BY <4>2, <4>3
    <3>2. CASE r \in a /\ \A k \in 1 .. i + 1 : s[k].kind # "activate"
      <4>1. \A k \in 1 .. i : t[k].kind # "activate"
        BY <3>0, <3>2
      <4>2. 1 \in 1 .. i + 1
        OBVIOUS
      <4>3. r \in b
        BY <3>2, <4>2, <1>1
      <4> QED BY <4>1, <4>3 DEF Known
    <3> QED BY <2>2, <3>1, <3>2 DEF Known
  <2> QED BY <2>1, <2>2
<1> HIDE DEF b
<1>4. ASSUME NEW i \in 1 .. n - 1
      PROVE  \/ t[i].role = NoRole
             \/ t[i].kind # "activate" /\ Known(t, b, i - 1, t[i].role)
  <2>1. i + 1 \in 1 .. n /\ i - 1 \in 0 .. n - 1 /\ (i - 1) + 1 = i /\ (i + 1) - 1 = i /\ t[i] = s[i + 1]
    BY <1>1
  <2>2. Known(t, b, i - 1, t[i].role) <=> Known(s, a, i, t[i].role)
    BY <2>1, <1>3
  <2>3. s[i + 1].role = NoRole \/ (s[i + 1].kind # "activate" /\ Known(s, a, (i + 1) - 1, s[i + 1].role))
    BY <2>1 DEF Foretold, n
  <2> QED BY <2>1, <2>2, <2>3
<1>5. ASSUME NEW r \in Roles PROVE r \in S <=> Known(t, b, n - 1, r)
  <2>1. n - 1 \in 0 .. n - 1 /\ (n - 1) + 1 = n
    BY <1>1
  <2>2. r \in S <=> Known(s, a, n, r)
    BY DEF Foretold, n
  <2> QED BY <2>1, <2>2, <1>3
<1>6. Foretold(t, b, S)
  BY <1>1, <1>4, <1>5 DEF Foretold
<1> QED BY <1>1, <1>2, <1>6 DEF t, b

-----------------------------------------------------------------------------
(* Only control messages are queued. *)
AllControl(s) == \A i \in 1 .. Len(s) : s[i].kind = "control"

(* The elements of two sequences, one behind the other. *)
LEMMA ConcatElements ==
  ASSUME NEW T, NEW s \in Seq(T), NEW h \in Seq(T)
  PROVE  /\ s \o h \in Seq(T) /\ Len(s) \in Nat /\ Len(h) \in Nat
         /\ Len(s \o h) = Len(s) + Len(h)
         /\ \A i \in 1 .. Len(s) : (s \o h)[i] = s[i]
         /\ \A i \in 1 .. Len(h) : (s \o h)[Len(s) + i] = h[i]
OBVIOUS

(* What was queued while the writer was stopped follows the activation. *)
LEMMA ForetoldConcat ==
  ASSUME NEW s \in Seq(Msg), NEW h \in Seq(Msg), AllControl(h), NEW a, NEW S, Foretold(s, a, S)
  PROVE  Foretold(s \o h, a, S)
<1> DEFINE t == s \o h
           n == Len(s)
           l == Len(h)
<1>1. /\ n \in Nat /\ l \in Nat /\ Len(t) = n + l
      /\ \A i \in 1 .. n : t[i] = s[i]
      /\ \A i \in 1 .. l : t[n + i] = h[i]
  BY ConcatElements
<1>2. \A i \in 1 .. l : h[i].kind = "control" /\ h[i].role = NoRole
  BY DEF AllControl, Msg, RoleKinds, JsonKinds, BinaryKinds
<1> HIDE DEF t, n, l
<1>3. ASSUME NEW i \in n + 1 .. n + l PROVE t[i].kind = "control" /\ t[i].role = NoRole
  <2>1. i - n \in 1 .. l /\ n + (i - n) = i
    BY <1>1
  <2> QED BY <2>1, <1>1, <1>2
<1>4. ASSUME NEW i \in 0 .. n, NEW r PROVE Known(t, a, i, r) <=> Known(s, a, i, r)
  <2>1. i \in Nat /\ \A j \in 1 .. i : j \in 1 .. n
    BY <1>1
  <2> QED BY <2>1, <1>1, KnownPrefix
<1>5. ASSUME NEW i \in 1 .. n + l
      PROVE  \/ t[i].role = NoRole
             \/ t[i].kind # "activate" /\ Known(t, a, i - 1, t[i].role)
  <2>1. CASE i <= n
    <3>1. i \in 1 .. n /\ i - 1 \in 0 .. n /\ t[i] = s[i]
      BY <2>1, <1>1
    <3>2. Known(t, a, i - 1, t[i].role) <=> Known(s, a, i - 1, t[i].role)
      BY <3>1, <1>4
    <3> QED BY <3>1, <3>2 DEF Foretold, n
  <2>2. CASE ~(i <= n)
    BY <2>2, <1>1, <1>3
  <2> QED BY <2>1, <2>2
<1>6. ASSUME NEW r \in Roles PROVE r \in S <=> Known(t, a, n + l, r)
  <2>1. r \in S <=> Known(s, a, n, r)
    BY DEF Foretold, n
  <2>2. Known(t, a, n, r) <=> Known(s, a, n, r)
    BY <1>1, <1>4
  <2>3. Known(t, a, n, r) <=> Known(t, a, n + l, r)
    <3>1. ASSUME Known(t, a, n, r) PROVE Known(t, a, n + l, r)
      <4>1. \A j \in 1 .. n : j \in 1 .. n + l /\ \A k \in j + 1 .. n + l : k \in j + 1 .. n \/ k \in n + 1 .. n + l
        BY <1>1
      <4>2. \A k \in 1 .. n + l : k \in 1 .. n \/ k \in n + 1 .. n + l
        BY <1>1
      <4> QED BY <3>1, <4>1, <4>2, <1>3 DEF Known
    <3>2. ASSUME Known(t, a, n + l, r) PROVE Known(t, a, n, r)
      <4>1. \A j \in 1 .. n + l : j \in 1 .. n \/ j \in n + 1 .. n + l
        BY <1>1
      <4>2. \A j \in 1 .. n : j \in 1 .. n + l /\ \A k \in j + 1 .. n : k \in j + 1 .. n + l
        BY <1>1
      <4> QED BY <3>2, <4>1, <4>2, <1>3 DEF Known
    <3> QED BY <3>1, <3>2
  <2> QED BY <2>1, <2>2, <2>3
<1> QED BY <1>1, <1>5, <1>6 DEF Foretold, t

(* With no server/activate among them, nothing changes. *)
LEMMA ForetoldControl ==
  ASSUME NEW s \in Seq(Msg), AllControl(s), NEW a \in SUBSET Roles, NEW S \in SUBSET Roles,
         Foretold(s, a, S)
  PROVE  a = S
<1>1. Len(s) \in Nat
  OBVIOUS
<1>2. ASSUME NEW r \in Roles PROVE r \in S <=> r \in a
  BY <1>1 DEF Foretold, Known, AllControl
<1> QED BY <1>2

(* With no server/activate queued, the client knows the roles already. *)
LEMMA ForetoldNoActivate ==
  ASSUME NEW s \in Seq(Msg), \A i \in 1 .. Len(s) : s[i].kind # "activate",
         NEW a \in SUBSET Roles, NEW S \in SUBSET Roles, Foretold(s, a, S)
  PROVE  a = S
<1>1. Len(s) \in Nat
  OBVIOUS
<1>2. ASSUME NEW r \in Roles PROVE r \in S <=> r \in a
  BY <1>1 DEF Foretold, Known
<1> QED BY <1>2

(* What the writer says of roles: the client is told of every role before   *)
(* its messages, and is told in the end what the server runs.               *)
RolesTold ==
  /\ Foretold(q.priority, announced, IF mode = "fresh" THEN announced ELSE active)
  /\ sending.role \in announced \cup {NoRole}
  /\ started \subseteq active /\ transfer \subseteq active
  /\ \A r \in Roles : q.entries[r] # {} => r \in active
  /\ \A c \in q.normal : c.msg.kind \in {"control", "command"} /\ c.msg.role \in active \cup {NoRole}

(* The stages of an activation that stops the writer. *)
Stages ==
  /\ mode = "fresh" =>
       /\ pause = "quiet" /\ writer = "off" /\ q.priority = <<>> /\ q.normal = {}
       /\ started = {} /\ transfer = {} /\ sending = Nothing /\ q.streaming = {}
       /\ \A r \in Roles : \A e \in q.entries[r] : e.kind = "state"
  /\ pause \in {"stopping", "flushing", "quiet"} => mode \in {"pairing", "fresh"}
  /\ pause \in {"flushing", "quiet", "activating"} => writer \in {"off", "done"}
  /\ pause = "quiet" => AllControl(q.priority)
  /\ writer = "peek" => q.priority = <<>>

(* The inductive invariant of what the client is told. *)
ToldInv == q.disconnecting \/ (RolesTold /\ Stages)

(* A new connection has told nothing and queued nothing. *)
LEMMA ToldInit == Init => ToldInv
<1> SUFFICES ASSUME Init PROVE RolesTold /\ Stages
  BY DEF ToldInv
<1>1. /\ q.priority = <<>> /\ q.normal = {} /\ q.streaming = {} /\ \A r \in Roles : q.entries[r] = {}
  BY DEF Init, EmptyQueues
<1>2. Nothing.role = NoRole
  BY DEF Nothing, Message
<1>3. AllControl(<<>>)
  BY DEF AllControl
<1> QED BY <1>1, <1>2, <1>3, ForetoldNothing DEF Init, RolesTold, Stages

(* The invariant contains both properties of what the client is told. *)
LEMMA ToldHolds ==
  ASSUME IInv, ToldInv, ~q.disconnecting
  PROVE  OnlyActivatedRoles /\ ActivationsAgree
<1>1. /\ q.priority \in Seq(Msg) /\ announced \in SUBSET Roles /\ active \in SUBSET Roles
  BY DEF IInv, RestTypeOK, QueueInv, QueuesType
<1>2. ActivationsAgree
  BY <1>1, ForetoldNoActivate DEF ActivationsAgree, ToldInv, RolesTold
<1> QED BY <1>2 DEF OnlyActivatedRoles, ToldInv, RolesTold

-----------------------------------------------------------------------------
(* From p to d only the queue of role r changes. *)
OnlyRole(p, d, r) ==
  /\ d.priority = p.priority /\ d.normal = p.normal /\ d.streaming = p.streaming
  /\ p.disconnecting => d.disconnecting
  /\ d.roleDrained \ {r} = p.roleDrained \ {r}
  /\ \A x \in Roles \ {r} : /\ d.entries[x] = p.entries[x]
                            /\ d.lastTs[x] = p.lastTs[x] /\ d.epoch[x] = p.epoch[x]

(* Two changes of the same role are one. *)
LEMMA OnlyRoleTransitive ==
  ASSUME NEW p, NEW d, NEW f, NEW r, OnlyRole(p, d, r), OnlyRole(d, f, r)
  PROVE  OnlyRole(p, f, r)
BY DEF OnlyRole

(* Invalidating the binary of a role changes that role only. *)
LEMMA DropPendingOnly ==
  ASSUME NEW p \in QueuesType, NEW r \in Roles
  PROVE  OnlyRole(p, DropPending(p, r), r)
<1> DEFINE d == DropPending(p, r)
<1>1. /\ d.entries = p.entries /\ d.lastTs = p.lastTs
      /\ d.epoch = [p.epoch EXCEPT ![r] = @ + 1]
      /\ d.priority = p.priority /\ d.normal = p.normal /\ d.streaming = p.streaming
      /\ d.disconnecting = p.disconnecting /\ d.roleDrained = p.roleDrained
  BY DropPendingFields
<1> HIDE DEF d
<1>2. \A x \in Roles \ {r} : d.epoch[x] = p.epoch[x]
  BY <1>1 DEF QueuesType
<1> QED BY <1>1, <1>2 DEF OnlyRole, d

(* Superseding the stream of a role changes that role only. *)
LEMMA SupersededOnly ==
  ASSUME NEW p \in QueuesType, NEW r \in Roles
  PROVE  OnlyRole(p, Superseded(p, r), r)
<1> DEFINE d == Superseded(p, r)
<1>1. /\ d.entries = [p.entries EXCEPT ![r] = KeptByEnd(p, r)]
      /\ d.lastTs = p.lastTs /\ d.epoch = [p.epoch EXCEPT ![r] = @ + 1]
      /\ d.priority = p.priority /\ d.normal = p.normal /\ d.streaming = p.streaming
      /\ d.disconnecting = p.disconnecting /\ d.roleDrained \in {p.roleDrained, p.roleDrained \ {r}}
  BY SupersededFields
<1> HIDE DEF d
<1>2. \A x \in Roles \ {r} : d.epoch[x] = p.epoch[x] /\ d.entries[x] = p.entries[x]
  BY <1>1 DEF QueuesType
<1> QED BY <1>1, <1>2 DEF OnlyRole, d

(* A message queued to a role changes that role only. *)
LEMMA QueuedOnly ==
  ASSUME NEW p \in QueuesType, NEW r \in Roles, NEW kind, NEW ts \in Nat
  PROVE  OnlyRole(p, Queued(p, r, kind, ts), r)
<1> DEFINE d == Queued(p, r, kind, ts)
           e == NewEntry(p, r, kind, ts, 0, 0)
<1>1. /\ d.epoch = p.epoch /\ d.priority = p.priority /\ d.normal = p.normal
      /\ d.streaming = p.streaming /\ d.roleDrained = p.roleDrained
      /\ \/ /\ d.disconnecting /\ d.entries = p.entries /\ d.lastTs = p.lastTs
         \/ /\ d.disconnecting = p.disconnecting
            /\ d.entries = WithEntry(p, r, e)
            /\ d.lastTs = [p.lastTs EXCEPT ![r] = ts]
  BY QueuedFields
<1>2. \A x \in Roles \ {r} : WithEntry(p, r, e)[x] = p.entries[x]
  BY DEF WithEntry, QueuesType
<1> HIDE DEF d, e
<1>3. \A x \in Roles \ {r} : d.lastTs[x] = p.lastTs[x] /\ d.entries[x] = p.entries[x]
  BY <1>1, <1>2 DEF QueuesType
<1> QED BY <1>1, <1>3 DEF OnlyRole, d

(* A chunk changes its role only. *)
LEMMA SendBinaryOnly ==
  ASSUME NEW p \in QueuesType, NEW r \in Roles, NEW kind, NEW due \in Nat, NEW room
  PROVE  OnlyRole(p, SendBinary(p, r, kind, due, room), r)
<1> DEFINE d == SendBinary(p, r, kind, due, room)
           e == NewEntry(p, r, kind, Larger(due, p.lastTs[r]), due, room)
<1>1. /\ d.epoch = p.epoch /\ d.priority = p.priority /\ d.normal = p.normal
      /\ d.streaming = p.streaming /\ d.roleDrained = p.roleDrained
      /\ \/ /\ d.disconnecting /\ d.entries = p.entries /\ d.lastTs = p.lastTs
         \/ /\ d.disconnecting = p.disconnecting
            /\ d.entries = WithEntry(p, r, e)
            /\ d.lastTs = [p.lastTs EXCEPT ![r] = Larger(due, @)]
  BY SendBinaryFields
<1>2. \A x \in Roles \ {r} : WithEntry(p, r, e)[x] = p.entries[x]
  BY DEF WithEntry, QueuesType
<1> HIDE DEF d, e
<1>3. \A x \in Roles \ {r} : d.lastTs[x] = p.lastTs[x] /\ d.entries[x] = p.entries[x]
  BY <1>1, <1>2 DEF QueuesType
<1> QED BY <1>1, <1>3 DEF OnlyRole, d

(* Waiting for a role to drain changes that role only. *)
LEMMA AwaitDrainedOnly ==
  ASSUME NEW p \in QueuesType, NEW r \in Roles, NEW s
  PROVE  OnlyRole(p, AwaitDrained(p, r, s), r)
<1> DEFINE d == AwaitDrained(p, r, s)
<1>1. /\ d.entries = p.entries /\ d.lastTs = p.lastTs /\ d.epoch = p.epoch
      /\ d.priority = p.priority /\ d.normal = p.normal /\ d.streaming = p.streaming
      /\ d.disconnecting = p.disconnecting /\ d.roleDrained \in {p.roleDrained, p.roleDrained \cup {r}}
  BY DEF AwaitDrained, QueuesType
<1> HIDE DEF d
<1>2. OnlyRole(p, d, r)
  BY <1>1 DEF OnlyRole
<1> QED BY <1>2 DEF d

(* Cancelling a transfer of a role that stays, and ending its stream. *)
LEMMA CancelInFlightOnly ==
  ASSUME NEW p, NEW X, NEW r \in Roles, QueueInv(p, X)
  PROVE  OnlyRole(p, CancelInFlight(p, r, {}), r)
<1> DEFINE c == DropPending(p, r)
<1>1. p \in QueuesType /\ c \in QueuesType
  BY DropPendingInv DEF QueueInv
<1>2. OnlyRole(p, c, r)
  BY <1>1, DropPendingOnly
<1> HIDE DEF c
<1>3. OnlyRole(p, SendBinary(c, r, "exempt", 0, 0), r)
  BY <1>1, <1>2, SendBinaryOnly, OnlyRoleTransitive
<1> QED BY <1>2, <1>3 DEF CancelInFlight, c

(* The stream/end of a role that stays changes that role only. *)
LEMMA EndOnly ==
  ASSUME NEW p, NEW X, NEW r \in Roles, QueueInv(p, X), NEW now \in Nat
  PROVE  OnlyRole(p, SendJson(p, r, "end", now, {}), r)
<1> DEFINE d == Superseded(p, r)
<1>1. p \in QueuesType /\ d \in QueuesType
  BY DropPendingInv, SupersedeInv DEF QueueInv, Superseded
<1>2. OnlyRole(p, d, r)
  BY <1>1, SupersededOnly
<1>3. SendJson(p, r, "end", now, {}) = IF ~EndOwed(d, r) THEN d ELSE Queued(d, r, "end", now)
  BY EndIsQueued DEF Superseded
<1> HIDE DEF d
<1>4. OnlyRole(p, Queued(d, r, "end", now), r)
  BY <1>1, <1>2, QueuedOnly, OnlyRoleTransitive
<1> QED BY <1>2, <1>3, <1>4

(* Ending the stream of a role that stays changes that role only. *)
LEMMA EndStreamOnly ==
  ASSUME NEW p, NEW X, NEW r \in Roles, QueueInv(p, X), clock \in Nat
  PROVE  OnlyRole(p, EndStream(p, r, {}), r)
<1> DEFINE c == IF r \in Untimed THEN CancelInFlight(p, r, {}) ELSE p
<1>1. QueueInv(c, X)
  BY CancelInFlightInv
<1>2. OnlyRole(p, p, r)
  BY DEF OnlyRole
<1>3. OnlyRole(p, c, r)
  BY <1>2, CancelInFlightOnly
<1> HIDE DEF c
<1>4. OnlyRole(p, SendJson(c, r, "end", clock, {}), r)
  BY <1>1, <1>3, EndOnly, OnlyRoleTransitive
<1> QED BY <1>2, <1>4 DEF EndStream, c

-----------------------------------------------------------------------------
(* The messages a role queues for itself change only its own queue. *)
LEMMA RoleStepOnly ==
  ASSUME IInv, NEW r \in Roles,
         \/ SendStreamStart(r) \/ SendChunk(r) \/ SendStreamClear(r) \/ SendStreamEnd(r)
         \/ SendState(r) \/ BeginTransfer(r) \/ TransferWakes(r) \/ CancelTransfer(r)
  PROVE  OnlyRole(q, q', r)
<1>0. /\ QueueInv(q, Exempt) /\ q \in QueuesType /\ clock \in Nat
  BY DEF IInv, RestTypeOK, QueueInv
<1>1. CASE SendStreamStart(r)
  BY <1>0, <1>1, StartIsQueued, QueuedOnly DEF SendStreamStart
<1>2. CASE SendChunk(r)
  <2>1. PICK due \in 1 .. MaxTime, room \in Rooms : q' = SendBinary(q, r, "chunk", due, room)
    BY <1>2 DEF SendChunk
  <2>2. due \in Nat
    OBVIOUS
  <2> QED BY <1>0, <2>1, <2>2, SendBinaryOnly
<1>3. CASE SendStreamClear(r)
  <2> DEFINE c == DropPending(q, r)
  <2>1. c \in QueuesType /\ OnlyRole(q, c, r)
    BY <1>0, DropPendingType, DropPendingOnly
  <2>2. q' = Queued(c, r, "clear", q.lastTs[r]) /\ q.lastTs[r] \in Nat
    BY <1>0, <1>3, ClearIsQueued DEF SendStreamClear
  <2> HIDE DEF c
  <2> QED BY <2>1, <2>2, QueuedOnly, OnlyRoleTransitive
<1>4. CASE SendStreamEnd(r)
  BY <1>0, <1>4, EndStreamOnly DEF SendStreamEnd
<1>5. CASE SendState(r)
  BY <1>0, <1>5, StateIsQueued, QueuedOnly DEF SendState
<1> DEFINE b == SendBinary(q, r, "chunk", 0, 0)
<1>6. b \in QueuesType /\ OnlyRole(q, b, r)
  <2>1. "chunk" \in BinaryKinds
    BY DEF BinaryKinds
  <2>2. QueueInv(b, Exempt)
    BY <1>0, <2>1, SendBinaryInv
  <2> QED BY <1>0, <2>2, SendBinaryOnly DEF QueueInv
<1>7. OnlyRole(q, AwaitDrained(b, r, sendingRole), r)
  <2> HIDE DEF b
  <2> QED BY <1>6, AwaitDrainedOnly, OnlyRoleTransitive
<1>8. OnlyRole(q, AwaitDrained(q, r, sendingRole), r)
  BY <1>0, AwaitDrainedOnly
<1>9. OnlyRole(q, q, r)
  BY DEF OnlyRole
<1>10. CASE BeginTransfer(r)
  BY <1>7, <1>10 DEF BeginTransfer
<1>11. CASE TransferWakes(r)
  BY <1>7, <1>8, <1>9, <1>11 DEF TransferWakes
<1>12. CASE CancelTransfer(r)
  BY <1>0, <1>12, CancelInFlightOnly DEF CancelTransfer
<1> QED BY <1>1, <1>2, <1>3, <1>4, <1>5, <1>10, <1>11, <1>12

-----------------------------------------------------------------------------
(* A queue that overflows, or a connection that ends, stays that way. *)
LEMMA ToldRoleStep ==
  ASSUME IInv, ToldInv, NEW r \in Roles,
         \/ SendStreamStart(r) \/ SendChunk(r) \/ SendStreamClear(r) \/ SendStreamEnd(r)
         \/ SendState(r) \/ BeginTransfer(r) \/ TransferWakes(r) \/ CancelTransfer(r)
  PROVE  ToldInv'
<1>1. OnlyRole(q, q', r)
  BY RoleStepOnly
<1>2. /\ clock' = clock /\ sending' = sending /\ writer' = writer /\ pause' = pause
      /\ mode' = mode /\ announced' = announced
  BY DEF SendStreamStart, SendChunk, SendStreamClear, SendStreamEnd, SendState, BeginTransfer,
         TransferWakes, CancelTransfer, Unsent, history
<1>3. CASE q.disconnecting
  BY <1>1, <1>3 DEF OnlyRole, ToldInv
<1>4. CASE ~q.disconnecting
  <2>0. RolesTold /\ Stages
    BY <1>4 DEF ToldInv
  <2>1. /\ active' = active /\ r \in active
        /\ started' \subseteq active /\ transfer' \subseteq active
    BY <2>0 DEF SendStreamStart, SendChunk, SendStreamClear, SendStreamEnd, SendState,
         BeginTransfer, TransferWakes, CancelTransfer, roleVars, RolesTold
  <2>2. ASSUME mode = "fresh" PROVE SendState(r)
    BY <2>0, <2>2 DEF SendStreamStart, SendChunk, SendStreamClear, SendStreamEnd,
         BeginTransfer, TransferWakes, CancelTransfer, Stages
  <2>3. ASSUME mode = "fresh"
        PROVE  started' = {} /\ transfer' = {} /\ \A e \in q'.entries[r] : e.kind = "state"
    <3>1. SendState(r)
      BY <2>2, <2>3
    <3>2. started' = {} /\ transfer' = {}
      BY <2>0, <2>3, <3>1 DEF SendState, roleVars, Stages
    <3>3. q \in QueuesType /\ clock \in Nat
      BY DEF IInv, QueueInv, RestTypeOK
    <3>4. q' = Queued(q, r, "state", q.lastTs[r]) /\ q.lastTs[r] \in Nat
      BY <3>1, <3>3, StateIsQueued DEF SendState
    <3> DEFINE e == NewEntry(q, r, "state", q.lastTs[r], 0, 0)
               d == Queued(q, r, "state", q.lastTs[r])
    <3>d. \/ /\ d.disconnecting /\ d.entries = q.entries /\ d.lastTs = q.lastTs
          \/ /\ d.disconnecting = q.disconnecting /\ d.entries = WithEntry(q, r, e)
             /\ d.lastTs = [q.lastTs EXCEPT ![r] = q.lastTs[r]]
      BY <3>3, <3>4, QueuedFields
    <3>5. q'.entries = q.entries \/ q'.entries = WithEntry(q, r, e)
      BY <3>d, <3>4
    <3> HIDE DEF d
    <3>6. WithEntry(q, r, e)[r] = q.entries[r] \cup {e}
      BY <3>3 DEF WithEntry, QueuesType
    <3>7. e.kind = "state"
      BY DEF NewEntry
    <3> HIDE DEF e
    <3>8. \A f \in q.entries[r] : f.kind = "state"
      BY <2>0, <2>3 DEF Stages
    <3>9. \A f \in q'.entries[r] : f.kind = "state"
      BY <3>5, <3>6, <3>7, <3>8
    <3> QED BY <3>2, <3>9
  <2>4. RolesTold'
    <3>1. /\ q'.priority = q.priority /\ q'.normal = q.normal
          /\ \A x \in Roles \ {r} : q'.entries[x] = q.entries[x]
      BY <1>1 DEF OnlyRole
    <3>2. Foretold(q'.priority, announced', IF mode' = "fresh" THEN announced' ELSE active')
      BY <1>2, <2>0, <2>1, <3>1 DEF RolesTold
    <3>3. \A x \in Roles : q'.entries[x] # {} => x \in active'
      BY <2>0, <2>1, <3>1 DEF RolesTold
    <3> QED BY <1>2, <2>0, <2>1, <3>1, <3>2, <3>3 DEF RolesTold
  <2>5. Stages'
    <3>1. /\ q'.priority = q.priority /\ q'.normal = q.normal /\ q'.streaming = q.streaming
          /\ \A x \in Roles \ {r} : q'.entries[x] = q.entries[x]
      BY <1>1 DEF OnlyRole
    <3> QED BY <1>2, <2>0, <2>3, <3>1 DEF Stages
  <2> QED BY <2>4, <2>5 DEF ToldInv
<1> QED BY <1>3, <1>4

(* Control messages are queued only once the connection is activated. *)
LEMMA ToldControl ==
  ASSUME IInv, ToldInv, SendControl
  PROVE  ToldInv'
<1>0. q \in QueuesType /\ q.priority \in Seq(Msg) /\ Control \in Msg
  BY OtherMessageType DEF IInv, QueueInv, QueuesType
<1>1. /\ sending' = sending /\ writer' = writer /\ pause' = pause /\ mode' = mode
      /\ announced' = announced /\ active' = active /\ started' = started /\ transfer' = transfer
      /\ mode # "fresh" /\ writer # "peek"
  BY DEF SendControl, Unsent, history, roleVars, LoopFree
<1>2. Control.role = NoRole /\ Control.kind = "control"
  BY DEF Control, Message
<1>3. \/ q' = SendPriority(q, Control)
      \/ q' = SendNormal(q, Control)
      \/ \E r \in active \cap Timed : q' = SendNormal(q, Message("command", r))
  BY DEF SendControl
<1>4. CASE q' = SendPriority(q, Control)
  <2>1. /\ q'.entries = q.entries /\ q'.normal = q.normal /\ q'.streaming = q.streaming
        /\ \/ q'.disconnecting /\ q'.priority = q.priority
           \/ /\ q'.disconnecting = q.disconnecting
              /\ q'.priority = Append(q.priority, Control)
    BY <1>0, <1>4, SendPriorityFields
  <2>2. CASE q.disconnecting
    BY <2>1, <2>2 DEF ToldInv
  <2>3. CASE ~q.disconnecting /\ q'.priority = Append(q.priority, Control)
    <3>0. RolesTold /\ Stages
      BY <2>3 DEF ToldInv
    <3> DEFINE s == Append(q.priority, Control)
    <3>1. Foretold(q.priority, announced, active)
      BY <1>1, <3>0 DEF RolesTold
    <3>2. Foretold(s, announced, active)
      BY <1>0, <1>2, <3>1, ForetoldAppend
    <3>3. AllControl(q.priority) => AllControl(s)
      <4>1. /\ Len(s) = Len(q.priority) + 1 /\ Len(q.priority) \in Nat
            /\ \A i \in 1 .. Len(q.priority) : s[i] = q.priority[i]
            /\ s[Len(q.priority) + 1] = Control
        BY <1>0, AppendElements
      <4> HIDE DEF s
      <4>2. \A i \in 1 .. Len(s) : i \in 1 .. Len(q.priority) \/ i = Len(q.priority) + 1
        BY <4>1
      <4> QED BY <1>2, <4>1, <4>2 DEF AllControl
    <3> HIDE DEF s
    <3>4. q'.priority = s
      BY <2>3 DEF s
    <3>5. RolesTold'
      BY <1>1, <2>1, <3>0, <3>2, <3>4 DEF RolesTold
    <3>6. Stages'
      BY <1>1, <2>1, <3>0, <3>3, <3>4 DEF Stages
    <3> QED BY <3>5, <3>6 DEF ToldInv
  <2>4. CASE q'.disconnecting
    BY <2>4 DEF ToldInv
  <2> QED BY <2>1, <2>2, <2>3, <2>4
<1>5. ASSUME NEW m, q' = SendNormal(q, m), m.kind \in {"control", "command"},
             m.role \in active \cup {NoRole}
      PROVE  ToldInv'
  <2> DEFINE N == q.normal \cup {[at |-> q.seq, msg |-> m]}
  <2>1. /\ q'.entries = q.entries /\ q'.priority = q.priority /\ q'.streaming = q.streaming
        /\ \/ q'.disconnecting
           \/ q'.disconnecting = q.disconnecting /\ q'.normal = N
    BY <1>0, <1>5, SendNormalFields
  <2>2. \A c \in N : c \in q.normal \/ c.msg = m
    OBVIOUS
  <2> HIDE DEF N
  <2>3. CASE q'.disconnecting
    BY <2>3 DEF ToldInv
  <2>4. CASE ~q'.disconnecting
    <3>0. /\ ~q.disconnecting /\ q'.normal = N
      BY <2>1, <2>4
    <3>1. RolesTold /\ Stages
      BY <3>0 DEF ToldInv
    <3>2. RolesTold'
      BY <1>1, <1>5, <2>1, <2>2, <3>0, <3>1 DEF RolesTold
    <3>3. Stages'
      BY <1>1, <2>1, <3>1 DEF Stages
    <3> QED BY <3>2, <3>3 DEF ToldInv
  <2> QED BY <2>3, <2>4
<1>6. ASSUME NEW r \in active \cap Timed, q' = SendNormal(q, Message("command", r))
      PROVE  ToldInv'
  <2>1. Message("command", r).role = r /\ Message("command", r).kind = "command"
    BY DEF Message
  <2> QED BY <1>5, <1>6, <2>1
<1> QED BY <1>2, <1>3, <1>4, <1>5, <1>6

-----------------------------------------------------------------------------
(* A step of the writer that sends nothing. *)
LEMMA ToldKept ==
  ASSUME ToldInv, q.disconnecting => q'.disconnecting,
         q'.priority = q.priority, q'.normal = q.normal, q'.streaming = q.streaming,
         \A r \in Roles : q'.entries[r] \subseteq q.entries[r],
         sending' \in {sending, Nothing}, writer \notin {"off"},
         writer \in {"done"} => writer' \in {"done"},
         writer' = "peek" => q.priority = <<>>,
         pause' = pause, mode' = mode, announced' = announced,
         active' = active, started' = started, transfer' = transfer
  PROVE  ToldInv'
<1>1. CASE q.disconnecting
  BY <1>1 DEF ToldInv
<1>2. CASE ~q.disconnecting
  <2>1. RolesTold /\ Stages
    BY <1>2 DEF ToldInv
  <2>2. Nothing.role = NoRole
    BY DEF Nothing, Message
  <2>3. RolesTold'
    BY <2>1, <2>2 DEF RolesTold
  <2>4. mode # "fresh"
    BY <2>1 DEF Stages
  <2>5. Stages'
    BY <2>1, <2>4 DEF Stages
  <2> QED BY <2>3, <2>5 DEF ToldInv
<1> QED BY <1>1, <1>2

-----------------------------------------------------------------------------
(* With nothing on its way the client knows the roles. *)
LEMMA ForetoldEnd ==
  ASSUME NEW a \in SUBSET Roles, NEW S \in SUBSET Roles, Foretold(<<>>, a, S)
  PROVE  a = S
<1>1. \A r \in Roles : r \in S <=> Known(<<>>, a, 0, r)
  BY DEF Foretold
<1>2. \A r \in Roles : Known(<<>>, a, 0, r) <=> r \in a
  BY DEF Known
<1> QED BY <1>1, <1>2

(* A message handed to the transport: its role has been announced. *)
LEMMA ToldTransmit ==
  ASSUME IInv, RolesTold, Stages, mode # "fresh",
         NEW p \in QueuesType, NEW m \in Msg, NEW r, Transmit(p, m, r),
         m.role \in announced \cup {NoRole},
         Foretold(p.priority, IF m.kind = "activate" THEN m.roles ELSE announced, active),
         pause = "quiet" => AllControl(p.priority), p.normal \subseteq q.normal,
         \A x \in Roles : p.entries[x] \subseteq q.entries[x],
         writer' # "peek", writer' = writer \/ writer \notin {"off", "done"},
         pause' = pause, mode' = mode,
         active' = active, started' = started, transfer' = transfer
  PROVE  ToldInv'
<1>1. /\ q'.entries = p.entries /\ q'.priority = p.priority /\ q'.normal = p.normal
  <2> DEFINE w == OnWire(p, m)
  <2>1. w.entries = p.entries /\ w.priority = p.priority /\ w.normal = p.normal
    BY OnWireFields
  <2> HIDE DEF w
  <2>2. q' = w
    BY DEF Transmit, w
  <2> QED BY <2>1, <2>2
<1>2. /\ sending' = m
      /\ announced' = IF m.kind = "activate" THEN m.roles ELSE announced
  BY DEF Transmit
<1>3. m.kind = "activate" => m.role = NoRole
  BY DEF Msg, RoleKinds, JsonKinds, BinaryKinds
<1>4. Foretold(q'.priority, announced', active')
  BY <1>1, <1>2
<1>5. RolesTold'
  BY <1>1, <1>2, <1>3, <1>4 DEF RolesTold
<1>6. Stages'
  BY <1>1 DEF Stages
<1> QED BY <1>5, <1>6 DEF ToldInv

(* What is sent first of the priority messages has been announced. *)
LEMMA ToldFirstPriority ==
  ASSUME IInv, ToldInv, SendFirstPriority, pause # "quiet",
         writer' # "peek", writer' = writer \/ writer \notin {"off", "done"},
         pause' = pause, mode' = mode,
         active' = active, started' = started, transfer' = transfer
  PROVE  ToldInv'
<1> DEFINE s == Tail(q.priority)
           m == Head(q.priority)
           n == Minus(q.size, 1)
           p == [q EXCEPT !.priority = s, !.size = n]
<1>1. q.priority \in Seq(Msg) /\ q.priority # <<>> /\ q.size \in Nat /\ q \in QueuesType
  BY DEF IInv, QueueInv, QueuesType, SendFirstPriority
<1>2. s \in Seq(Msg) /\ n \in Nat /\ m \in Msg
  BY <1>1 DEF Minus
<1>3. Transmit(p, m, NoRole)
  BY DEF SendFirstPriority
<1> HIDE DEF n
<1>4. p \in QueuesType /\ p.priority = s /\ p.normal = q.normal /\ p.entries = q.entries
      /\ p.disconnecting = q.disconnecting
  <2> HIDE DEF s
  <2> QED BY <1>1, <1>2 DEF QueuesType
<1> HIDE DEF p
<1>5. CASE q.disconnecting
  <2> DEFINE w == OnWire(p, m)
  <2>1. w.disconnecting = p.disconnecting
    BY <1>4, OnWireFields
  <2> HIDE DEF w
  <2>2. q' = w
    BY <1>3 DEF Transmit, w
  <2> QED BY <1>4, <1>5, <2>1, <2>2 DEF ToldInv
<1>6. CASE ~q.disconnecting
  <2>0. RolesTold /\ Stages
    BY <1>6 DEF ToldInv
  <2>1. mode # "fresh"
    BY <2>0 DEF Stages
  <2>2. Foretold(q.priority, announced, active)
    BY <2>0, <2>1 DEF RolesTold
  <2>3. /\ m.role \in announced \cup {NoRole}
        /\ Foretold(s, IF m.kind = "activate" THEN m.roles ELSE announced, active)
    BY <1>1, <2>2, ForetoldTail
  <2> HIDE DEF s, m
  <2> QED BY <1>2, <1>3, <1>4, <2>0, <2>1, <2>3, ToldTransmit
<1> QED BY <1>5, <1>6

(* No step of the writer breaks what the client is told. *)
LEMMA ToldWriterStep ==
  ASSUME IInv, ToldInv, WriterStep
  PROVE  ToldInv'
<1>0. /\ QueueInv(q, Exempt) /\ q \in QueuesType /\ clock \in Nat
  BY DEF IInv, RestTypeOK, QueueInv
<1>a. /\ pause' = pause /\ mode' = mode /\ active' = active
      /\ started' = started /\ transfer' = transfer
  BY DEF WriterStep, WriterStops, WriterSendsControl, WriterPromotes, WriterSkips, WriterWaits,
         WriterWakes, WriterDrops, WriterBlocks, WriterSendsRole, WriterSent, WriterEnds, roleVars
<1>1. CASE WriterStops
  <2>1. q' = [q EXCEPT !.idle = TRUE]
    BY <1>1 DEF WriterStops
  <2>2. /\ q'.priority = q.priority /\ q'.normal = q.normal /\ q'.streaming = q.streaming
        /\ q'.entries = q.entries /\ q'.disconnecting = q.disconnecting
    BY <1>0, <2>1 DEF QueuesType
  <2> QED BY <1>a, <1>1, <2>2, ToldKept DEF WriterStops, history
<1>2. CASE WriterSendsControl
  <2>0. writer' = "sending" /\ writer = "top"
    BY <1>2 DEF WriterSendsControl
  <2>1. q.disconnecting \/ pause # "quiet"
    BY <2>0 DEF ToldInv, Stages
  <2>2. CASE q.disconnecting
    <3>1. SUFFICES q'.disconnecting
      BY DEF ToldInv
    <3>2. PICK p, m, r : /\ Transmit(p, m, r) /\ p \in QueuesType
                         /\ p.disconnecting = q.disconnecting
      <4>1. CASE SendFirstPriority
        <5> DEFINE p == [q EXCEPT !.priority = Tail(@), !.size = Minus(@, 1)]
        <5>1. p \in QueuesType /\ p.disconnecting = q.disconnecting
          <6> DEFINE s == Tail(q.priority)
                     n == Minus(q.size, 1)
          <6>1. s \in Seq(Msg) /\ n \in Nat
            BY <1>0, <4>1 DEF QueuesType, SendFirstPriority, Minus
          <6>2. p = [q EXCEPT !.priority = s, !.size = n]
            OBVIOUS
          <6> HIDE DEF s, n, p
          <6> QED BY <1>0, <6>1, <6>2 DEF QueuesType
        <5> QED BY <4>1, <5>1 DEF SendFirstPriority
      <4>2. ASSUME NEW c \in q.normal,
                   Transmit([q EXCEPT !.normal = @ \ {c}, !.size = Minus(@, 1)], c.msg, NoRole)
            PROVE  \E p, m, r : /\ Transmit(p, m, r) /\ p \in QueuesType
                                /\ p.disconnecting = q.disconnecting
        <5> DEFINE S == q.normal \ {c}
                   n == Minus(q.size, 1)
                   p == [q EXCEPT !.normal = S, !.size = n]
        <5>1. S \in Finite(NormalEntry) /\ n \in Nat
          BY <1>0, FS_Subset DEF QueuesType, Minus, Finite
        <5>2. Transmit(p, c.msg, NoRole)
          BY <4>2
        <5> HIDE DEF S, n
        <5>3. p \in QueuesType /\ p.disconnecting = q.disconnecting
          BY <1>0, <5>1 DEF QueuesType
        <5> QED BY <5>2, <5>3
      <4> QED BY <1>2, <4>1, <4>2 DEF WriterSendsControl
    <3>3. q' = OnWire(p, m)
      BY <3>2 DEF Transmit
    <3> DEFINE w == OnWire(p, m)
    <3>4. w.disconnecting = p.disconnecting
      BY <3>2, OnWireFields
    <3> HIDE DEF w
    <3> QED BY <2>2, <3>2, <3>3, <3>4 DEF w
  <2>3. CASE ~q.disconnecting
    <3>0. RolesTold /\ Stages /\ pause # "quiet"
      BY <2>1, <2>3 DEF ToldInv
    <3>f. mode # "fresh"
      BY <2>0, <3>0 DEF Stages
    <3>1. CASE SendFirstPriority
      BY <1>a, <2>0, <3>0, <3>1, ToldFirstPriority
    <3>2. ASSUME NEW c \in q.normal, q.priority = <<>>,
                 Transmit([q EXCEPT !.normal = @ \ {c}, !.size = Minus(@, 1)], c.msg, NoRole)
          PROVE  ToldInv'
      <4> DEFINE S == q.normal \ {c}
                 n == Minus(q.size, 1)
                 p == [q EXCEPT !.normal = S, !.size = n]
                 m == c.msg
      <4>1. S \in Finite(NormalEntry) /\ n \in Nat /\ m \in Msg
        BY <1>0, FS_Subset DEF QueuesType, Minus, Finite, NormalEntry
      <4>2. Transmit(p, m, NoRole)
        BY <3>2
      <4>3. S \subseteq q.normal
        OBVIOUS
      <4> HIDE DEF S, n
      <4>4. p \in QueuesType /\ p.normal = S /\ p.priority = q.priority /\ p.entries = q.entries
        BY <1>0, <4>1 DEF QueuesType
      <4>5. Foretold(<<>>, announced, active)
        BY <3>0, <3>2, <3>f DEF RolesTold
      <4>6. announced \in SUBSET Roles /\ active \in SUBSET Roles
        BY DEF IInv, RestTypeOK
      <4>7. announced = active
        BY <4>5, <4>6, ForetoldEnd
      <4>8. m.role \in announced \cup {NoRole} /\ m.kind # "activate"
        BY <3>0, <4>7 DEF RolesTold
      <4> HIDE DEF p, m
      <4> QED BY <1>a, <2>0, <3>0, <3>2, <3>f, <4>1, <4>2, <4>3, <4>4, <4>5, <4>8, ToldTransmit
    <3> QED BY <1>2, <3>1, <3>2 DEF WriterSendsControl
  <2> QED BY <2>2, <2>3
<1>3. CASE WriterPromotes
  <2> DEFINE d == Promote(q, clock)
  <2>1. /\ d.priority = q.priority /\ d.normal = q.normal /\ d.streaming = q.streaming
        /\ d.entries = q.entries /\ d.disconnecting = q.disconnecting
    BY <1>0, PromoteFields
  <2> HIDE DEF d
  <2>2. q' = d
    BY <1>3 DEF WriterPromotes, d
  <2> QED BY <1>a, <1>3, <2>1, <2>2, ToldKept DEF WriterPromotes, history
<1>4. CASE WriterSkips
  <2>1. PICK k \in q.ready :
          q' = IF q.blocked[k.role] # NoTime THEN [q EXCEPT !.ready = @ \ {k}]
               ELSE Schedule([q EXCEPT !.ready = @ \ {k}], k.role)
    BY <1>4 DEF WriterSkips
  <2> DEFINE p == [q EXCEPT !.ready = @ \ {k}]
             d == Schedule(p, k.role)
  <2>2. k.role \in Roles
    BY <1>0 DEF QueuesType, ReadyKey
  <2>3. p \in QueuesType /\ Contents(p) = Contents(q)
    BY <1>0 DEF QueuesType, Contents
  <2> HIDE DEF p
  <2>4. Contents(d) = Contents(p)
    BY <2>2, <2>3, ScheduleFields
  <2> HIDE DEF d
  <2>5. Contents(q') = Contents(q)
    BY <2>1, <2>3, <2>4 DEF d, p
  <2>6. /\ q'.priority = q.priority /\ q'.normal = q.normal /\ q'.streaming = q.streaming
        /\ q'.entries = q.entries /\ q'.disconnecting = q.disconnecting
    BY <2>5 DEF Contents
  <2>7. q.disconnecting \/ q.priority = <<>>
    BY <1>4 DEF WriterSkips, ToldInv, Stages
  <2>8. writer = "peek" /\ writer' = writer /\ sending' = sending /\ announced' = announced
    BY <1>4 DEF WriterSkips, history
  <2>9. CASE q.disconnecting
    BY <2>6, <2>9 DEF ToldInv
  <2>10. CASE ~q.disconnecting
    BY <1>a, <2>6, <2>7, <2>8, <2>10, ToldKept
  <2> QED BY <2>9, <2>10
<1>5. CASE WriterWaits
  <2>1. q' = [q EXCEPT !.wake = FALSE, !.idle = IF q.delayed = {} THEN TRUE ELSE q.idle]
    BY <1>5 DEF WriterWaits
  <2>2. /\ q'.priority = q.priority /\ q'.normal = q.normal /\ q'.streaming = q.streaming
        /\ q'.entries = q.entries /\ q'.disconnecting = q.disconnecting
    BY <1>0, <2>1 DEF QueuesType
  <2> QED BY <1>a, <1>5, <2>2, ToldKept DEF WriterWaits, history
<1>6. CASE WriterWakes
  BY <1>a, <1>6, ToldKept DEF WriterWakes, history
<1>7. CASE WriterDrops
  <2>r. PICK r \in Roles : \E e \in q.entries[r] :
          /\ Peeked(r, e)
          /\ q' = RoleDone(Schedule(Take(Popped(r, e), r, {e}), r), r)
    BY <1>7 DEF WriterDrops
  <2>1. PICK e \in q.entries[r] :
          /\ Peeked(r, e)
          /\ q' = RoleDone(Schedule(Take(Popped(r, e), r, {e}), r), r)
    BY <2>r
  <2> DEFINE p == Popped(r, e)
             t == Take(p, r, {e})
             s == Schedule(t, r)
             d == RoleDone(s, r)
  <2>2. QueueInv(p, Exempt \cup {r}) /\ Contents(p) = Contents(q)
    BY <1>0, PopInv DEF Popped, Key, QueuesType, Contents
  <2>3. p \in QueuesType /\ e \in p.entries[r]
    BY <2>2 DEF QueueInv, Contents
  <2> HIDE DEF p
  <2>4. QueueInv(t, Exempt \cup {r})
    BY <2>2, <2>3, TakeInv
  <2>5. /\ t.entries = [p.entries EXCEPT ![r] = @ \ {e}] /\ t.priority = p.priority
        /\ t.normal = p.normal /\ t.streaming = p.streaming
        /\ t.disconnecting = p.disconnecting
    BY <2>3, TakeFields
  <2>6. t \in QueuesType
    BY <2>4 DEF QueueInv
  <2> HIDE DEF t
  <2>7. Contents(s) = Contents(t)
    BY <2>6, ScheduleFields
  <2>8. s \in QueuesType
    BY <2>4, ScheduleInv DEF QueueInv
  <2> HIDE DEF s
  <2>9. /\ d.entries = s.entries /\ d.priority = s.priority /\ d.normal = s.normal
        /\ d.streaming = s.streaming /\ d.disconnecting = s.disconnecting
    BY <2>8, RoleDoneFields
  <2> HIDE DEF d
  <2>10. q' = d
    BY <2>1 DEF d, s, t, p
  <2>11. /\ q'.priority = q.priority /\ q'.normal = q.normal /\ q'.streaming = q.streaming
         /\ q'.entries = [q.entries EXCEPT ![r] = @ \ {e}]
         /\ q'.disconnecting = q.disconnecting
    BY <2>2, <2>5, <2>7, <2>9, <2>10 DEF Contents
  <2>12. \A x \in Roles : q'.entries[x] \subseteq q.entries[x]
    BY <1>0, <2>11 DEF QueuesType
  <2>13. writer = "peek" /\ writer' = "top" /\ sending' = sending /\ announced' = announced
    BY <1>7, <2>1 DEF WriterDrops, history, Peeked
  <2> QED BY <1>a, <2>11, <2>12, <2>13, ToldKept
<1>8. CASE WriterBlocks
  <2>r. PICK r \in Roles : \E e \in q.entries[r] :
          Peeked(r, e) /\ q' = Block(Popped(r, e), r, e.room)
    BY <1>8 DEF WriterBlocks
  <2>1. PICK e \in q.entries[r] : Peeked(r, e) /\ q' = Block(Popped(r, e), r, e.room)
    BY <2>r
  <2> DEFINE p == Popped(r, e)
             d == Block(p, r, e.room)
  <2>2. p \in QueuesType /\ Contents(p) = Contents(q)
    BY <1>0 DEF Popped, QueuesType, Contents
  <2> HIDE DEF p
  <2>3. /\ d.entries = p.entries /\ d.priority = p.priority /\ d.normal = p.normal
        /\ d.streaming = p.streaming /\ d.disconnecting = p.disconnecting
    BY <2>2, BlockFields
  <2> HIDE DEF d
  <2>4. /\ q'.priority = q.priority /\ q'.normal = q.normal /\ q'.streaming = q.streaming
        /\ q'.entries = q.entries /\ q'.disconnecting = q.disconnecting
    BY <2>1, <2>2, <2>3 DEF Contents, d, p
  <2>5. writer = "peek" /\ writer' = "top" /\ sending' = sending /\ announced' = announced
    BY <1>8, <2>1 DEF WriterBlocks, history, Peeked
  <2> QED BY <1>a, <2>4, <2>5, ToldKept
<1>9. CASE WriterSendsRole
  <2>r. PICK r \in Roles : \E e \in q.entries[r] :
          /\ Peeked(r, e)
          /\ \E M \in Mergeable(q.entries[r], e) :
               Transmit(Take(Popped(r, e), r, {e} \cup M), Message(e.kind, r), r)
    BY <1>9 DEF WriterSendsRole
  <2>e. PICK e \in q.entries[r] :
          /\ Peeked(r, e)
          /\ \E M \in Mergeable(q.entries[r], e) :
               Transmit(Take(Popped(r, e), r, {e} \cup M), Message(e.kind, r), r)
    BY <2>r
  <2>1. PICK M \in Mergeable(q.entries[r], e) :
          /\ Peeked(r, e)
          /\ Transmit(Take(Popped(r, e), r, {e} \cup M), Message(e.kind, r), r)
    BY <2>e
  <2> DEFINE p == Popped(r, e)
             T == {e} \cup M
             t == Take(p, r, T)
             m == Message(e.kind, r)
             w == OnWire(t, m)
  <2>2. QueueInv(p, Exempt \cup {r}) /\ Contents(p) = Contents(q)
    BY <1>0, PopInv DEF Popped, Key, QueuesType, Contents
  <2>3. p \in QueuesType /\ T \in SUBSET p.entries[r]
    BY <2>2 DEF QueueInv, Contents, Mergeable
  <2> HIDE DEF p, T
  <2>4. QueueInv(t, Exempt \cup {r})
    BY <2>2, <2>3, TakeInv
  <2>5. /\ t.entries = [p.entries EXCEPT ![r] = @ \ T] /\ t.priority = p.priority
        /\ t.normal = p.normal /\ t.disconnecting = p.disconnecting
    BY <2>3, TakeFields
  <2>6. t \in QueuesType
    BY <2>4 DEF QueueInv
  <2>7. Transmit(t, m, r)
    BY <2>1 DEF p, T
  <2> HIDE DEF t
  <2>8. \A x \in Roles : t.entries[x] \subseteq q.entries[x]
    <3>1. t.entries = [q.entries EXCEPT ![r] = @ \ T]
      BY <2>2, <2>5 DEF Contents
    <3> QED BY <1>0, <3>1 DEF QueuesType
  <2>9. m \in Msg /\ m.role = r /\ m.kind # "activate"
    <3>1. e.kind \in JsonKinds \cup BinaryKinds
      BY <1>0 DEF QueuesType, Finite, Entry
    <3>2. m \in Msg
      BY <3>1, MessageType DEF RoleKinds
    <3> QED BY <3>1, <3>2 DEF Message, JsonKinds, BinaryKinds
  <2> HIDE DEF m
  <2>10. CASE q.disconnecting
    <3>1. w.disconnecting = t.disconnecting
      BY <2>6, OnWireFields
    <3> HIDE DEF w
    <3>2. q' = w
      BY <2>7 DEF Transmit, w
    <3> QED BY <2>2, <2>5, <2>10, <3>1, <3>2 DEF ToldInv, Contents
  <2>11. CASE ~q.disconnecting
    <3>0. RolesTold /\ Stages
      BY <2>11 DEF ToldInv
    <3>1. writer = "peek" /\ writer' = "sending"
      BY <1>9, <2>1 DEF Peeked, WriterSendsRole
    <3>2. q.priority = <<>> /\ mode # "fresh" /\ pause # "quiet"
      BY <3>0, <3>1 DEF Stages
    <3>3. Foretold(<<>>, announced, active)
      BY <3>0, <3>2 DEF RolesTold
    <3>4. announced \in SUBSET Roles /\ active \in SUBSET Roles
      BY DEF IInv, RestTypeOK
    <3>5. announced = active
      BY <3>3, <3>4, ForetoldEnd
    <3>6. r \in announced
      BY <2>1, <3>0, <3>5 DEF RolesTold
    <3>7. t.priority = <<>> /\ t.normal \subseteq q.normal
      BY <2>2, <2>5, <3>2 DEF Contents
    <3> HIDE DEF w
    <3> QED BY <1>a, <2>6, <2>7, <2>8, <2>9, <3>0, <3>1, <3>2, <3>3, <3>6, <3>7, ToldTransmit
  <2> QED BY <2>10, <2>11
<1>10. CASE WriterSent
  <2>1. Contents(q') = Contents(q)
    <3>1. CASE sendingRole = NoRole
      BY <1>10, <3>1 DEF WriterSent
    <3>2. CASE sendingRole # NoRole
      <4> DEFINE s == Schedule(q, sendingRole)
                 d == RoleDone(s, sendingRole)
      <4>1. sendingRole \in Roles
        BY <3>2 DEF IInv, RestTypeOK
      <4>2. Contents(s) = Contents(q)
        BY <1>0, <4>1, ScheduleFields
      <4>3. s \in QueuesType
        BY <1>0, <4>1, ScheduleInv DEF QueueInv
      <4> HIDE DEF s
      <4>4. /\ d.entries = s.entries /\ d.priority = s.priority /\ d.normal = s.normal
            /\ d.streaming = s.streaming /\ d.disconnecting = s.disconnecting
            /\ d.lastTs = s.lastTs /\ d.epoch = s.epoch
        BY <4>1, <4>3, RoleDoneFields
      <4> HIDE DEF d
      <4>5. q' = d
        BY <1>10, <3>2 DEF WriterSent, d, s
      <4> QED BY <4>2, <4>4, <4>5 DEF Contents
    <3> QED BY <3>1, <3>2
  <2>2. /\ q'.priority = q.priority /\ q'.normal = q.normal /\ q'.streaming = q.streaming
        /\ q'.entries = q.entries /\ q'.disconnecting = q.disconnecting
    BY <2>1 DEF Contents
  <2> QED BY <1>a, <1>10, <2>2, ToldKept DEF WriterSent, history
<1>11. CASE WriterEnds
  <2> DEFINE d == IF sendingRole = NoRole THEN q ELSE RoleDone(q, sendingRole)
  <2>1. d \in QueuesType
    BY <1>0, RoleDoneInv DEF QueueInv
  <2>2. q' = [d EXCEPT !.disconnecting = TRUE, !.idle = TRUE]
    BY <1>11 DEF WriterEnds
  <2> HIDE DEF d
  <2>3. q'.disconnecting
    BY <2>1, <2>2 DEF QueuesType
  <2> QED BY <2>3 DEF ToldInv
<1> QED BY <1>1, <1>2, <1>3, <1>4, <1>5, <1>6, <1>7, <1>8, <1>9, <1>10, <1>11 DEF WriterStep

-----------------------------------------------------------------------------
(* From p to d the role r is emptied, and nothing but priority messages is queued. *)
Emptied(p, d, r) ==
  /\ d.entries = [p.entries EXCEPT ![r] = {}]
  /\ d.streaming = p.streaming /\ d.roleDrained = p.roleDrained
  /\ p.disconnecting => d.disconnecting
  /\ d.lastTs[r] = 0
  /\ \A x \in Roles \ {r} : d.lastTs[x] = p.lastTs[x] /\ d.epoch[x] = p.epoch[x]
  /\ d.normal = {c \in p.normal : ~(c.msg.kind = "command" /\ c.msg.role = r)}

(* The priority messages s, and m behind them when b. *)
And(s, b, m) == IF b THEN Append(s, m) ELSE s

(* Discarding the queue of a removed role empties it. *)
LEMMA DiscardEmpties ==
  ASSUME NEW p \in QueuesType, NEW r \in Roles
  PROVE  /\ Emptied(p, DiscardRoleQueue(p, r), r)
         /\ ~DiscardRoleQueue(p, r).disconnecting =>
              DiscardRoleQueue(p, r).priority =
                And(p.priority, EndQueuedLast(p, r), Message("end", r))
<1> DEFINE d == DiscardRoleQueue(p, r)
           orders == {c \in p.normal : c.msg.kind = "command" /\ c.msg.role = r}
           m == Message("end", r)
<1>1. /\ d.entries = [p.entries EXCEPT ![r] = {}]
      /\ d.lastTs = [p.lastTs EXCEPT ![r] = 0]
      /\ d.epoch = [p.epoch EXCEPT ![r] = @ + 1]
      /\ d.normal = p.normal \ orders /\ d.streaming = p.streaming
      /\ d.roleDrained = p.roleDrained
      /\ \/ d.disconnecting
         \/ /\ d.disconnecting = p.disconnecting /\ EndQueuedLast(p, r)
            /\ d.priority = Append(p.priority, m)
         \/ /\ d.disconnecting = p.disconnecting /\ ~EndQueuedLast(p, r)
            /\ d.priority = p.priority
  BY DiscardFields
<1>2. p.normal \ orders = {c \in p.normal : ~(c.msg.kind = "command" /\ c.msg.role = r)}
  OBVIOUS
<1> HIDE DEF d, m, orders
<1>3. /\ \A x \in Roles \ {r} : d.lastTs[x] = p.lastTs[x] /\ d.epoch[x] = p.epoch[x]
      /\ d.lastTs[r] = 0
  BY <1>1 DEF QueuesType
<1>4. p.disconnecting => d.disconnecting
  BY <1>1
<1>5. ~d.disconnecting => d.priority = And(p.priority, EndQueuedLast(p, r), m)
  BY <1>1 DEF And
<1>6. Emptied(p, d, r)
  BY <1>1, <1>2, <1>3, <1>4 DEF Emptied
<1> QED BY <1>5, <1>6 DEF d, m

(* An emptied role stays so when a priority message is queued, *)
LEMMA SendPriorityKeeps ==
  ASSUME NEW p \in QueuesType, NEW d \in QueuesType, NEW r \in Roles, Emptied(p, d, r), NEW m
  PROVE  /\ Emptied(p, SendPriority(d, m), r)
         /\ ~SendPriority(d, m).disconnecting =>
              SendPriority(d, m).priority = Append(d.priority, m) /\ ~d.disconnecting
<1> DEFINE f == SendPriority(d, m)
<1>1. /\ f.entries = d.entries /\ f.lastTs = d.lastTs /\ f.epoch = d.epoch
      /\ f.normal = d.normal /\ f.streaming = d.streaming
      /\ f.roleDrained = d.roleDrained
      /\ \/ f.disconnecting
         \/ f.disconnecting = d.disconnecting /\ f.priority = Append(d.priority, m)
  BY SendPriorityFields
<1> HIDE DEF f
<1>2. Emptied(p, f, r)
  BY <1>1 DEF Emptied
<1>3. ~f.disconnecting => f.priority = Append(d.priority, m) /\ ~d.disconnecting
  BY <1>1
<1> QED BY <1>2, <1>3 DEF f

(* when its binary is invalidated, *)
LEMMA DropPendingKeeps ==
  ASSUME NEW p \in QueuesType, NEW d \in QueuesType, NEW r \in Roles, Emptied(p, d, r)
  PROVE  /\ Emptied(p, DropPending(d, r), r)
         /\ DropPending(d, r).priority = d.priority
         /\ d.disconnecting => DropPending(d, r).disconnecting
<1> DEFINE f == DropPending(d, r)
<1>1. /\ f.entries = d.entries /\ f.lastTs = d.lastTs
      /\ f.epoch = [d.epoch EXCEPT ![r] = @ + 1]
      /\ f.normal = d.normal /\ f.streaming = d.streaming /\ f.priority = d.priority
      /\ f.roleDrained = d.roleDrained
      /\ f.disconnecting = d.disconnecting
  BY DropPendingFields
<1> HIDE DEF f
<1>2. \A x \in Roles \ {r} : f.epoch[x] = d.epoch[x]
  BY <1>1 DEF QueuesType
<1>3. Emptied(p, f, r)
  BY <1>1, <1>2 DEF Emptied
<1>4. d.disconnecting => f.disconnecting
  BY <1>1
<1> QED BY <1>1, <1>3, <1>4 DEF f

(* and when its stream is superseded: the stream/end is then owed exactly *)
(* when the client has been told of the stream.                           *)
LEMMA SupersededKeeps ==
  ASSUME NEW p \in QueuesType, NEW d \in QueuesType, NEW r \in Roles, Emptied(p, d, r)
  PROVE  /\ Emptied(p, Superseded(d, r), r)
         /\ Superseded(d, r).priority = d.priority
         /\ d.disconnecting => Superseded(d, r).disconnecting
         /\ EndOwed(Superseded(d, r), r) <=> r \in p.streaming
<1> DEFINE f == Superseded(d, r)
<1>1. /\ f.entries = [d.entries EXCEPT ![r] = KeptByEnd(d, r)]
      /\ f.lastTs = d.lastTs /\ f.epoch = [d.epoch EXCEPT ![r] = @ + 1]
      /\ f.priority = d.priority /\ f.normal = d.normal /\ f.streaming = d.streaming
      /\ f.disconnecting = d.disconnecting
      /\ f.roleDrained = IF d.entries[r] # {} /\ KeptByEnd(d, r) = {}
                         THEN d.roleDrained \ {r} ELSE d.roleDrained
  BY SupersededFields
<1> HIDE DEF f
<1>2. d.entries = [p.entries EXCEPT ![r] = {}] /\ d.entries[r] = {}
  BY DEF Emptied, QueuesType
<1>3. KeptByEnd(d, r) = {}
  BY <1>2 DEF KeptByEnd
<1>4. f.entries = [p.entries EXCEPT ![r] = {}] /\ f.entries[r] = {}
  <2>1. f.entries = [d.entries EXCEPT ![r] = {}]
    BY <1>1, <1>3
  <2>2. f.entries = d.entries
    BY <1>2, <2>1 DEF QueuesType
  <2> QED BY <1>2, <2>2
<1>5. \A x \in Roles \ {r} : f.epoch[x] = d.epoch[x]
  BY <1>1 DEF QueuesType
<1>6. f.roleDrained = d.roleDrained
  BY <1>1, <1>2
<1>7. Emptied(p, f, r)
  BY <1>1, <1>4, <1>5, <1>6 DEF Emptied
<1>8. EndOwed(f, r) <=> r \in p.streaming
  BY <1>4, <1>7 DEF EndOwed, Emptied
<1>9. d.disconnecting => f.disconnecting
  BY <1>1
<1> QED BY <1>1, <1>7, <1>8, <1>9 DEF f

(* The teardown of a removed role. *)
Torn(p, r) == EndStream(DiscardRoleQueue(p, r), r, {r})

(* The teardown leaves an emptied role, and at most three priority messages    *)
(* of it: the end it had queued, the end of a transfer, the end of its stream. *)
LEMMA TornEmpties ==
  ASSUME NEW p, NEW X, QueueInv(p, X), NEW r \in Roles, clock \in Nat
  PROVE  /\ QueueInv(Torn(p, r), X)
         /\ Emptied(p, Torn(p, r), r)
         /\ ~Torn(p, r).disconnecting =>
              Torn(p, r).priority =
                And(And(And(p.priority, EndQueuedLast(p, r), Message("end", r)),
                        r \in started \cap Untimed \cap transfer, Message("exempt", r)),
                    r \in started /\ r \in p.streaming, Message("end", r))
<1> DEFINE a == DiscardRoleQueue(p, r)
           n == DropPending(a, r)
           x == SendPriority(n, Message("exempt", r))
           c == IF r \in Untimed THEN CancelInFlight(a, r, {r}) ELSE a
           s == Superseded(c, r)
           f == SendPriority(s, Message("end", r))
           d == Torn(p, r)
           pa == And(p.priority, EndQueuedLast(p, r), Message("end", r))
           pb == And(pa, r \in started \cap Untimed \cap transfer, Message("exempt", r))
           pc == And(pb, r \in started /\ r \in p.streaming, Message("end", r))
<1>0. p \in QueuesType
  BY DEF QueueInv
<1>1. QueueInv(a, X) /\ QueueInv(n, X)
  BY DiscardRoleQueueInv, DropPendingInv
<1>2. QueueInv(c, X)
  <2> HIDE DEF a
  <2> QED BY <1>1, CancelInFlightInv
<1>3. QueueInv(s, X)
  <2> HIDE DEF c
  <2> QED BY <1>2, DropPendingInv, SupersedeInv DEF Superseded
<1>4. QueueInv(d, X)
  <2> HIDE DEF a
  <2> QED BY <1>1, EndStreamInv DEF Torn, a
<1>5. a \in QueuesType /\ n \in QueuesType /\ c \in QueuesType /\ s \in QueuesType
  BY <1>1, <1>2, <1>3 DEF QueueInv
<1>6. Emptied(p, a, r) /\ (~a.disconnecting => a.priority = pa)
  BY <1>0, DiscardEmpties
<1>7. d = IF r \notin started THEN a ELSE IF ~EndOwed(s, r) THEN s ELSE f
  <2>1. SendJson(c, r, "end", clock, {r}) = IF ~EndOwed(s, r) THEN s ELSE f
    BY EndIsQueued DEF Superseded
  <2> QED BY <2>1 DEF EndStream, Torn
<1>8. c = IF r \in Untimed THEN IF r \in transfer THEN x ELSE n ELSE a
  BY DEF CancelInFlight
<1> HIDE DEF a, n, x, c, s, f, d, pa, pb, pc
<1>9. /\ Emptied(p, n, r) /\ n.priority = a.priority /\ (a.disconnecting => n.disconnecting)
  BY <1>0, <1>5, <1>6, DropPendingKeeps DEF n
<1>10. /\ Emptied(p, x, r)
       /\ ~x.disconnecting => x.priority = Append(n.priority, Message("exempt", r)) /\ ~n.disconnecting
  BY <1>0, <1>5, <1>9, SendPriorityKeeps DEF x
<1>11. ASSUME r \in started
       PROVE  Emptied(p, c, r) /\ (~c.disconnecting => c.priority = pb)
  <2>1. CASE r \in Untimed /\ r \in transfer
    BY <1>6, <1>8, <1>9, <1>10, <1>11, <2>1 DEF pb, And
  <2>2. CASE r \in Untimed /\ r \notin transfer
    BY <1>6, <1>8, <1>9, <1>11, <2>2 DEF pb, And
  <2>3. CASE r \notin Untimed
    BY <1>6, <1>8, <1>11, <2>3 DEF pb, And
  <2> QED BY <2>1, <2>2, <2>3
<1>12. ASSUME r \in started
       PROVE  Emptied(p, d, r) /\ (~d.disconnecting => d.priority = pc)
  <2>1. /\ Emptied(p, s, r) /\ s.priority = c.priority /\ (c.disconnecting => s.disconnecting)
        /\ EndOwed(s, r) <=> r \in p.streaming
    BY <1>0, <1>5, <1>11, <1>12, SupersededKeeps DEF s
  <2>2. /\ Emptied(p, f, r)
        /\ ~f.disconnecting => f.priority = Append(s.priority, Message("end", r)) /\ ~s.disconnecting
    BY <1>0, <1>5, <2>1, SendPriorityKeeps DEF f
  <2>3. CASE EndOwed(s, r)
    BY <1>7, <1>11, <1>12, <2>1, <2>2, <2>3 DEF pc, And
  <2>4. CASE ~EndOwed(s, r)
    BY <1>7, <1>11, <1>12, <2>1, <2>4 DEF pc, And
  <2> QED BY <2>3, <2>4
<1>13. ASSUME r \notin started
       PROVE  Emptied(p, d, r) /\ (~d.disconnecting => d.priority = pc)
  BY <1>6, <1>7, <1>13 DEF pc, pb, And
<1> QED BY <1>4, <1>12, <1>13 DEF d, pc, pb, pa

-----------------------------------------------------------------------------
(* A message of a role that is known may follow. *)
LEMMA ForetoldAnd ==
  ASSUME NEW s \in Seq(Msg), NEW a, NEW S, Foretold(s, a, S), NEW r \in Roles, r \in S,
         NEW kind \in {"end", "exempt"}, NEW b
  PROVE  /\ And(s, b, Message(kind, r)) \in Seq(Msg)
         /\ Foretold(And(s, b, Message(kind, r)), a, S)
<1>1. Message(kind, r) \in Msg /\ Message(kind, r).role = r /\ Message(kind, r).kind # "activate"
  BY MessageType DEF Message, RoleKinds, JsonKinds, BinaryKinds
<1>2. Append(s, Message(kind, r)) \in Seq(Msg)
  BY <1>1, AppendElements
<1>3. Foretold(Append(s, Message(kind, r)), a, S)
  BY <1>1, ForetoldAppend
<1> QED BY <1>2, <1>3 DEF And

(* The role removed by an activation, if any. *)
LEMMA OneGone ==
  ASSUME NEW S \in SUBSET Roles, Cardinality(S) <= 1
  PROVE  S = {} \/ \E r \in Roles : S = {r}
<1>1. IsFiniteSet(S)
  BY QueuesAssumption, FS_Subset
<1>2. Cardinality(S) \in Nat
  BY <1>1, FS_CardinalityType
<1>3. CASE Cardinality(S) = 0
  BY <1>1, <1>3, FS_EmptySet
<1>4. CASE Cardinality(S) = 1
  <2>1. PICK x : S = {x}
    BY <1>1, <1>4, FS_Singleton
  <2> QED BY <2>1
<1> QED BY <1>2, <1>3, <1>4

(* The queues t have seen the teardown of the role removed, if any. *)
TornFor(p, new, t) ==
  \/ t = p /\ active \ new = {}
  \/ \E r \in Roles : t = Torn(p, r) /\ active \ new = {r}

(* The teardown of the role removed, and the server/activate behind it. *)
LEMMA SendActivationSteps ==
  ASSUME NEW p, NEW X, QueueInv(p, X), clock \in Nat,
         active \in SUBSET Roles, NEW new \in SUBSET Roles, Cardinality(active \ new) <= 1
  PROVE  \E t \in QueuesType :
           /\ QueueInv(t, X)
           /\ SendActivation(p, new) = SendPriority(t, Activation(new))
           /\ TornFor(p, new, t)
<1>1. CASE active \ new = {}
  BY <1>1 DEF SendActivation, QueueInv, TornFor
<1>2. ASSUME NEW r \in Roles, active \ new = {r}
      PROVE  \E t \in QueuesType :
           /\ QueueInv(t, X)
           /\ SendActivation(p, new) = SendPriority(t, Activation(new))
           /\ TornFor(p, new, t)
  <2>1. (CHOOSE x \in active \ new : TRUE) = r
    BY <1>2
  <2>2. SendActivation(p, new) = SendPriority(Torn(p, r), Activation(new))
    BY <1>2, <2>1 DEF SendActivation, Torn
  <2>3. QueueInv(Torn(p, r), X)
    BY TornEmpties
  <2>4. Torn(p, r) \in QueuesType
    BY <2>3 DEF QueueInv
  <2> QED BY <1>2, <2>2, <2>3, <2>4 DEF TornFor
<1>3. active \ new \in SUBSET Roles
  OBVIOUS
<1> QED BY <1>1, <1>2, <1>3, OneGone

(* What an activation leaves for the client to be told. *)
LEMMA SendActivationTold ==
  ASSUME NEW p, NEW X, QueueInv(p, X), clock \in Nat, announced \in SUBSET Roles,
         active \in SUBSET Roles, NEW new \in SUBSET Roles, Cardinality(active \ new) <= 1,
         \/ Foretold(p.priority, announced, active)
         \/ /\ p.priority = <<>> /\ started = {}
            /\ \A r \in Roles : \A e \in p.entries[r] : e.kind = "state",
         \A c \in p.normal : c.msg.kind \in {"control", "command"}
                             /\ c.msg.role \in active \cup {NoRole},
         \A r \in Roles : p.entries[r] # {} => r \in active
  PROVE  /\ p.disconnecting => SendActivation(p, new).disconnecting
         /\ ~SendActivation(p, new).disconnecting =>
              /\ SendActivation(p, new).priority \in Seq(Msg)
              /\ Foretold(SendActivation(p, new).priority, announced, new)
         /\ \A r \in Roles : SendActivation(p, new).entries[r] # {} => r \in new
         /\ \A c \in SendActivation(p, new).normal :
              /\ c.msg.kind \in {"control", "command"}
              /\ c.msg.role \in new \cup {NoRole}
<1> DEFINE m == Activation(new)
           d == SendActivation(p, new)
<1>m. m.kind = "activate" /\ m.roles = new /\ m.role = NoRole /\ m \in Msg
  BY OtherMessageType DEF Activation
<1>1. PICK t \in QueuesType :
           /\ QueueInv(t, X)
           /\ d = SendPriority(t, m)
           /\ TornFor(p, new, t)
  BY SendActivationSteps
<1>p. p \in QueuesType /\ p.priority \in Seq(Msg) /\ p.normal \subseteq NormalEntry
  BY DEF QueueInv, QueuesType, Finite
<1> HIDE DEF m, d
<1>2. /\ p.disconnecting => t.disconnecting
      /\ ~t.disconnecting => \E S : Foretold(t.priority, announced, S) /\ t.priority \in Seq(Msg)
      /\ \A r \in Roles : t.entries[r] # {} => r \in new
      /\ \A c \in t.normal : /\ c.msg.kind \in {"control", "command"}
                             /\ c.msg.role \in new \cup {NoRole}
  <2>1. CASE t = p /\ active \ new = {}
    <3>1. \E S : Foretold(p.priority, announced, S)
      BY ForetoldNothing
    <3>2. active \subseteq new
      BY <2>1
    <3> QED BY <2>1, <3>1, <3>2, <1>p
  <2>2. ASSUME NEW r \in Roles, t = Torn(p, r), active \ new = {r}
        PROVE <1>2!:
    <3> DEFINE sa == And(p.priority, EndQueuedLast(p, r), Message("end", r))
               sb == And(sa, r \in started \cap Untimed \cap transfer, Message("exempt", r))
               sc == And(sb, r \in started /\ r \in p.streaming, Message("end", r))
    <3>1. Emptied(p, t, r) /\ (~t.disconnecting => t.priority = sc)
      BY <2>2, TornEmpties
    <3>2. r \in active /\ active \ {r} \subseteq new
      BY <2>2
    <3>3. p.disconnecting => t.disconnecting
      BY <3>1 DEF Emptied
    <3>4. \E S : Foretold(sc, announced, S) /\ sc \in Seq(Msg)
      <4>1. CASE Foretold(p.priority, announced, active)
        <5>1. sa \in Seq(Msg) /\ Foretold(sa, announced, active)
          BY <1>p, <3>2, <4>1, ForetoldAnd
        <5> HIDE DEF sa
        <5>2. sb \in Seq(Msg) /\ Foretold(sb, announced, active)
          BY <3>2, <5>1, ForetoldAnd
        <5> HIDE DEF sb
        <5>3. sc \in Seq(Msg) /\ Foretold(sc, announced, active)
          BY <3>2, <5>2, ForetoldAnd
        <5> QED BY <5>3
      <4>2. CASE /\ p.priority = <<>> /\ started = {}
                 /\ \A x \in Roles : \A e \in p.entries[x] : e.kind = "state"
        <5>1. ~EndQueuedLast(p, r)
          <6>1. \A e \in p.entries[r] : e.kind # "end"
            BY <4>2
          <6> QED BY <6>1 DEF EndQueuedLast
        <5>2. sc = <<>>
          BY <4>2, <5>1 DEF And
        <5>3. <<>> \in Seq(Msg)
          OBVIOUS
        <5> HIDE DEF sc
        <5> QED BY <5>2, <5>3, ForetoldNothing
      <4> QED BY <4>1, <4>2
    <3> HIDE DEF sc
    <3>5. \A x \in Roles : t.entries[x] # {} => x \in new
      <4>1. t.entries = [p.entries EXCEPT ![r] = {}]
        BY <3>1 DEF Emptied
      <4>2. \A x \in Roles : t.entries[x] # {} => x # r /\ p.entries[x] # {}
        BY <1>p, <4>1 DEF QueuesType
      <4> QED BY <3>2, <4>2
    <3>6. \A c \in t.normal : /\ c.msg.kind \in {"control", "command"}
                              /\ c.msg.role \in new \cup {NoRole}
      <4>1. t.normal = {c \in p.normal : ~(c.msg.kind = "command" /\ c.msg.role = r)}
        BY <3>1 DEF Emptied
      <4>2. \A c \in p.normal : c.msg.kind = "control" => c.msg.role = NoRole
        BY <1>p DEF NormalEntry, Msg, RoleKinds, JsonKinds, BinaryKinds
      <4> QED BY <3>2, <4>1, <4>2
    <3> QED BY <3>1, <3>3, <3>4, <3>5, <3>6
  <2> QED BY <1>1, <2>1, <2>2 DEF TornFor
<1>3. /\ d.entries = t.entries /\ d.normal = t.normal
      /\ \/ d.disconnecting
         \/ d.disconnecting = t.disconnecting /\ d.priority = Append(t.priority, m)
  <2> DEFINE f == SendPriority(t, m)
  <2>1. /\ f.entries = t.entries /\ f.normal = t.normal
        /\ \/ f.disconnecting
           \/ f.disconnecting = t.disconnecting /\ f.priority = Append(t.priority, m)
    BY SendPriorityFields
  <2> HIDE DEF f
  <2>2. d = f
    BY <1>1 DEF f
  <2> QED BY <2>1, <2>2
<1>4. ASSUME ~d.disconnecting
      PROVE  d.priority \in Seq(Msg) /\ Foretold(d.priority, announced, new)
  <2>1. ~t.disconnecting /\ d.priority = Append(t.priority, m)
    BY <1>3, <1>4
  <2>2. PICK S : Foretold(t.priority, announced, S) /\ t.priority \in Seq(Msg)
    BY <1>2, <2>1
  <2>3. Append(t.priority, m) \in Seq(Msg)
    BY <1>m, <2>2, AppendElements
  <2>4. Foretold(Append(t.priority, m), announced, new)
    BY <1>m, <2>2, ForetoldAppend
  <2> QED BY <2>1, <2>3, <2>4
<1>5. p.disconnecting => d.disconnecting
  BY <1>2, <1>3
<1> QED BY <1>2, <1>3, <1>4, <1>5 DEF d

-----------------------------------------------------------------------------
(* No step of an activation breaks what the client is told. *)
LEMMA ToldActivationStep ==
  ASSUME IInv, ToldInv, ActivationStep, ~MayMoveOffRecord
  PROVE  ToldInv'
<1>0. /\ QueueInv(q, Exempt) /\ q \in QueuesType /\ clock \in Nat
      /\ active \in SUBSET Roles /\ announced \in SUBSET Roles
      /\ q.priority \in Seq(Msg) /\ q.size \in Nat
  BY DEF IInv, RestTypeOK, QueueInv, QueuesType
<1>n. Nothing.role = NoRole
  BY DEF Nothing, Message
<1>1. CASE PauseWriter
  <2>1. q' = [q EXCEPT !.wake = TRUE]
    BY <1>1 DEF PauseWriter
  <2>2. /\ q'.priority = q.priority /\ q'.normal = q.normal /\ q'.streaming = q.streaming
        /\ q'.entries = q.entries /\ q'.disconnecting = q.disconnecting
    BY <1>0, <2>1 DEF QueuesType
  <2>3. /\ mode = "normal" /\ mode' = "pairing" /\ pause' = "stopping" /\ writer' = writer
        /\ sending' = sending /\ announced' = announced /\ active' = active
        /\ started' = started /\ transfer' = transfer
    BY <1>1 DEF PauseWriter, roleVars, history
  <2>4. CASE ~q.disconnecting
    <3>0. RolesTold /\ Stages
      BY <2>4 DEF ToldInv
    <3>1. RolesTold'
      BY <2>2, <2>3, <3>0 DEF RolesTold
    <3>2. Stages'
      BY <2>2, <2>3, <3>0 DEF Stages
    <3> QED BY <3>1, <3>2 DEF ToldInv
  <2> QED BY <2>2, <2>4 DEF ToldInv
<1>2. CASE WriterPaused
  <2>1. /\ q' = q /\ mode' = mode /\ pause = "stopping" /\ pause' = "flushing" /\ writer' = writer
        /\ writer = "done"
        /\ sending' = sending /\ announced' = announced /\ active' = active
        /\ started' = started /\ transfer' = transfer
    BY <1>2 DEF WriterPaused, roleVars, history
  <2>2. CASE ~q.disconnecting
    <3>0. RolesTold /\ Stages
      BY <2>2 DEF ToldInv
    <3>1. RolesTold'
      BY <2>1, <3>0 DEF RolesTold
    <3>2. Stages'
      BY <2>1, <3>0 DEF Stages
    <3> QED BY <3>1, <3>2 DEF ToldInv
  <2> QED BY <2>1, <2>2 DEF ToldInv
<1>3. CASE FlushPriority
  <2>1. /\ SendFirstPriority /\ pause # "quiet" /\ writer' # "peek" /\ writer' = writer
        /\ pause' = pause /\ mode' = mode /\ active' = active /\ started' = started
        /\ transfer' = transfer
    BY <1>3 DEF FlushPriority, roleVars
  <2> QED BY <2>1, ToldFirstPriority
<1>4. CASE FlushSent
  <2>1. /\ q' = q /\ mode' = mode /\ pause' = pause /\ writer' = writer
        /\ sending' = Nothing /\ announced' = announced /\ active' = active
        /\ started' = started /\ transfer' = transfer
    BY <1>4 DEF FlushSent, roleVars, history
  <2>2. CASE ~q.disconnecting
    <3>0. RolesTold /\ Stages
      BY <2>2 DEF ToldInv
    <3>1. RolesTold'
      BY <1>n, <2>1, <3>0 DEF RolesTold
    <3>2. Stages'
      BY <2>1, <3>0 DEF Stages
    <3> QED BY <3>1, <3>2 DEF ToldInv
  <2> QED BY <2>1, <2>2 DEF ToldInv
<1>5. CASE FlushFails
  <2>1. q'.disconnecting
    <3>1. Overflow(q).disconnecting
      BY <1>0, OverflowFields
    <3> QED BY <1>5, <3>1 DEF FlushFails
  <2> QED BY <2>1 DEF ToldInv
<1>6. CASE FlushDone
  <2>1. /\ q' = q /\ mode' = mode /\ pause = "flushing" /\ pause' = "quiet" /\ writer' = writer
        /\ sending' = sending /\ announced' = announced /\ active' = active
        /\ started' = started /\ transfer' = transfer /\ q.priority = <<>>
    BY <1>6 DEF FlushDone, roleVars, history
  <2>2. CASE ~q.disconnecting
    <3>0. RolesTold /\ Stages
      BY <2>2 DEF ToldInv
    <3>1. RolesTold'
      BY <2>1, <3>0 DEF RolesTold
    <3>2. AllControl(<<>>)
      BY DEF AllControl
    <3>3. Stages'
      BY <2>1, <3>0, <3>2 DEF Stages
    <3> QED BY <3>1, <3>3 DEF ToldInv
  <2> QED BY <2>1, <2>2 DEF ToldInv
<1>7. CASE Activate
  <2>1. PICK new \in SUBSET Roles :
          /\ Reconcile(new)
          /\ q' = [SendActivation([q EXCEPT !.priority = <<>>], new) EXCEPT !.priority = @ \o q.priority]
    BY <1>7 DEF Activate
  <2> DEFINE e == [q EXCEPT !.priority = <<>>]
             a == SendActivation(e, new)
  <2>2. QueueInv(e, Exempt)
    <3> DEFINE u == [q EXCEPT !.priority = <<>>, !.size = q.size]
    <3>1. <<>> \in Seq(Msg) OBVIOUS
    <3>2. QueueInv(u, Exempt)
      BY <1>0, <3>1, PriorityInv
    <3>3. e = u
      BY <1>0 DEF QueuesType
    <3> HIDE DEF e, u
    <3> QED BY <3>2, <3>3
  <2>3. /\ e.priority = <<>> /\ e.normal = q.normal /\ e.entries = q.entries
        /\ e.streaming = q.streaming /\ e.disconnecting = q.disconnecting
    BY <1>0 DEF QueuesType
  <2> HIDE DEF e
  <2>4. QueueInv(a, Exempt)
    BY <2>2, SendActivationInv
  <2>5. a \in QueuesType
    BY <2>4 DEF QueueInv
  <2>6. q' = [a EXCEPT !.priority = a.priority \o q.priority]
    BY <2>1 DEF e
  <2>7. /\ Cardinality(active \ new) <= 1 /\ active' = new
        /\ started' = started \cap new /\ transfer' = transfer \cap new
        /\ pause = "quiet" /\ pause' = "activating" /\ mode' = "normal" /\ writer # "peek"
        /\ sending' = sending /\ writer' = writer /\ announced' = announced
    BY <1>7, <2>1 DEF Activate, Reconcile, LoopFree
  <2>8. /\ e.disconnecting => a.disconnecting
        /\ ~q.disconnecting =>
             /\ ~a.disconnecting =>
                  a.priority \in Seq(Msg) /\ Foretold(a.priority, announced, new)
             /\ \A r \in Roles : a.entries[r] # {} => r \in new
             /\ \A c \in a.normal : /\ c.msg.kind \in {"control", "command"}
                                    /\ c.msg.role \in new \cup {NoRole}
    <3>0. CASE ~q.disconnecting
      <4>0. RolesTold /\ Stages
        BY <3>0 DEF ToldInv
      <4>1. AllControl(q.priority)
        BY <2>7, <4>0 DEF Stages
      <4>2. \/ Foretold(e.priority, announced, active)
            \/ /\ e.priority = <<>> /\ started = {}
               /\ \A r \in Roles : \A f \in e.entries[r] : f.kind = "state"
        <5>1. CASE mode = "fresh"
          BY <2>3, <4>0, <5>1 DEF Stages
        <5>2. CASE mode # "fresh"
          <6>1. Foretold(q.priority, announced, active)
            BY <4>0, <5>2 DEF RolesTold
          <6>2. announced = active
            BY <1>0, <4>1, <6>1, ForetoldControl
          <6> QED BY <2>3, <6>2, ForetoldNothing
        <5> QED BY <5>1, <5>2
      <4>3. /\ \A c \in e.normal : c.msg.kind \in {"control", "command"}
                                   /\ c.msg.role \in active \cup {NoRole}
            /\ \A r \in Roles : e.entries[r] # {} => r \in active
        BY <2>3, <4>0 DEF RolesTold
      <4> QED BY <1>0, <2>2, <2>7, <4>2, <4>3, SendActivationTold
    <3>1. CASE q.disconnecting
      <4>1. PICK t \in QueuesType :
               /\ a = SendPriority(t, Activation(new))
               /\ TornFor(e, new, t)
        BY <1>0, <2>2, <2>7, SendActivationSteps
      <4>2. t.disconnecting
        <5>1. \A r \in Roles : Emptied(e, Torn(e, r), r)
          BY <1>0, <2>2, TornEmpties
        <5>2. \A r \in Roles : Torn(e, r).disconnecting
          BY <2>3, <3>1, <5>1 DEF Emptied
        <5> QED BY <2>3, <3>1, <4>1, <5>2 DEF TornFor
      <4> DEFINE f == SendPriority(t, Activation(new))
      <4>3. f.disconnecting \/ f.disconnecting = t.disconnecting
        BY SendPriorityFields
      <4> HIDE DEF f
      <4>4. a.disconnecting
        BY <4>1, <4>2, <4>3 DEF f
      <4> QED BY <3>1, <4>4
    <3> QED BY <3>0, <3>1
  <2> HIDE DEF a
  <2>9. /\ q'.disconnecting = a.disconnecting /\ q'.entries = a.entries /\ q'.normal = a.normal
        /\ q'.priority = a.priority \o q.priority
    BY <2>5, <2>6 DEF QueuesType
  <2>10. CASE a.disconnecting
    BY <2>9, <2>10 DEF ToldInv
  <2>11. CASE ~a.disconnecting
    <3>0. ~q.disconnecting
      BY <2>3, <2>8, <2>11
    <3>1. RolesTold /\ Stages
      BY <3>0 DEF ToldInv
    <3>2. /\ a.priority \in Seq(Msg) /\ Foretold(a.priority, announced, new)
          /\ \A r \in Roles : a.entries[r] # {} => r \in new
          /\ \A c \in a.normal : /\ c.msg.kind \in {"control", "command"}
                                 /\ c.msg.role \in new \cup {NoRole}
      BY <2>8, <2>11, <3>0
    <3>3. AllControl(q.priority)
      BY <2>7, <3>1 DEF Stages
    <3>4. Foretold(q'.priority, announced, new)
      BY <1>0, <2>9, <3>2, <3>3, ForetoldConcat
    <3>5. RolesTold'
      BY <2>7, <2>9, <3>1, <3>2, <3>4 DEF RolesTold
    <3>6. Stages'
      BY <2>7, <3>1 DEF Stages
    <3> QED BY <3>5, <3>6 DEF ToldInv
  <2> QED BY <2>10, <2>11
<1>8. CASE RefreshTrusted
  <2>1. PICK new \in SUBSET Roles : Reconcile(new) /\ q' = SendActivation(q, new)
    BY <1>8 DEF RefreshTrusted
  <2>2. /\ Cardinality(active \ new) <= 1 /\ active' = new
        /\ started' = started \cap new /\ transfer' = transfer \cap new
        /\ mode = "normal" /\ pause' = pause /\ mode' = mode /\ writer # "peek"
        /\ sending' = sending /\ writer' = writer /\ announced' = announced
    BY <1>8, <2>1 DEF RefreshTrusted, Reconcile, LoopFree
  <2> DEFINE a == SendActivation(q, new)
  <2>3. CASE ~q.disconnecting
    <3>0. RolesTold /\ Stages
      BY <2>3 DEF ToldInv
    <3>1. /\ Foretold(q.priority, announced, active)
          /\ \A c \in q.normal : c.msg.kind \in {"control", "command"}
                                 /\ c.msg.role \in active \cup {NoRole}
          /\ \A r \in Roles : q.entries[r] # {} => r \in active
      BY <2>2, <3>0 DEF RolesTold
    <3>2. /\ ~a.disconnecting =>
               a.priority \in Seq(Msg) /\ Foretold(a.priority, announced, new)
          /\ \A r \in Roles : a.entries[r] # {} => r \in new
          /\ \A c \in a.normal : /\ c.msg.kind \in {"control", "command"}
                                 /\ c.msg.role \in new \cup {NoRole}
      BY <1>0, <2>2, <3>1, SendActivationTold
    <3> HIDE DEF a
    <3>3. q' = a
      BY <2>1 DEF a
    <3>4. CASE ~a.disconnecting
      <4>1. RolesTold'
        BY <2>2, <3>0, <3>2, <3>3, <3>4 DEF RolesTold
      <4>2. Stages'
        BY <2>2, <3>0 DEF Stages
      <4> QED BY <4>1, <4>2 DEF ToldInv
    <3> QED BY <3>3, <3>4 DEF ToldInv
  <2>4. CASE q.disconnecting
    <3>1. PICK t \in QueuesType :
             /\ a = SendPriority(t, Activation(new))
             /\ TornFor(q, new, t)
      BY <1>0, <2>2, SendActivationSteps
    <3>2. t.disconnecting
      <4>1. \A r \in Roles : Emptied(q, Torn(q, r), r)
        BY <1>0, TornEmpties
      <4>2. \A r \in Roles : Torn(q, r).disconnecting
        BY <2>4, <4>1 DEF Emptied
      <4> QED BY <2>4, <3>1, <4>2 DEF TornFor
    <3> DEFINE f == SendPriority(t, Activation(new))
    <3>3. f.disconnecting \/ f.disconnecting = t.disconnecting
      BY SendPriorityFields
    <3> HIDE DEF f
    <3>4. a.disconnecting
      BY <3>1, <3>2, <3>3 DEF f
    <3> HIDE DEF a
    <3>5. q' = a
      BY <2>1 DEF a
    <3> QED BY <3>4, <3>5 DEF ToldInv
  <2> QED BY <2>3, <2>4
<1>9. CASE ResumeWriter
  <2>1. /\ q' = q /\ mode' = mode /\ pause = "activating" /\ pause' = "no" /\ writer' = "top"
        /\ sending' = sending /\ announced' = announced /\ active' = active
        /\ started' = started /\ transfer' = transfer
    BY <1>9 DEF ResumeWriter, roleVars, history
  <2>2. CASE ~q.disconnecting
    <3>0. RolesTold /\ Stages
      BY <2>2 DEF ToldInv
    <3>1. RolesTold'
      BY <2>1, <3>0 DEF RolesTold
    <3>2. Stages'
      BY <2>1, <3>0 DEF Stages
    <3> QED BY <3>1, <3>2 DEF ToldInv
  <2> QED BY <2>1, <2>2 DEF ToldInv
<1> QED BY <1>1, <1>2, <1>3, <1>4, <1>5, <1>6, <1>7, <1>8, <1>9 DEF ActivationStep

(* What the client is told holds after every step. *)
LEMMA ToldNext ==
  ASSUME IInv, ToldInv, [Next]_vars, ~MayMoveOffRecord
  PROVE  ToldInv'
<1>0. q \in QueuesType
  BY DEF IInv, QueueInv
<1>1. CASE RoleStep
  BY <1>1, ToldRoleStep, ToldControl DEF RoleStep
<1>2. CASE WriterStep
  BY <1>2, ToldWriterStep
<1>3. CASE ActivationStep
  BY <1>3, ToldActivationStep
<1>4. CASE Disconnect
  <2>1. Overflow(q).disconnecting
    BY <1>0, OverflowFields
  <2> QED BY <1>4, <2>1 DEF Disconnect, ToldInv
<1>5. CASE Detach
  BY <1>5 DEF Detach, ToldInv
<1>6. CASE Tick \/ UNCHANGED vars
  <2>1. /\ q' = q /\ mode' = mode /\ pause' = pause /\ writer' = writer
        /\ sending' = sending /\ announced' = announced /\ active' = active
        /\ started' = started /\ transfer' = transfer
    BY <1>6 DEF Tick, vars, roleVars, history
  <2>2. CASE ~q.disconnecting
    <3>0. RolesTold /\ Stages
      BY <2>2 DEF ToldInv
    <3>1. RolesTold'
      BY <2>1, <3>0 DEF RolesTold
    <3>2. Stages'
      BY <2>1, <3>0 DEF Stages
    <3> QED BY <3>1, <3>2 DEF ToldInv
  <2> QED BY <2>1, <2>2 DEF ToldInv
<1> QED BY <1>1, <1>2, <1>3, <1>4, <1>5, <1>6 DEF Next

(* What the client is told is inductive. *)
LEMMA ToldAlways == ~MayMoveOffRecord => (Spec => [](IInv /\ ToldInv))
<1> SUFFICES ASSUME ~MayMoveOffRecord PROVE Spec => [](IInv /\ ToldInv) OBVIOUS
<1>1. Init => IInv /\ ToldInv
  BY InitIInv, ToldInit
<1>2. (IInv /\ ToldInv) /\ [Next]_vars => (IInv /\ ToldInv)'
  BY NextIInv, ToldNext
<1> QED BY <1>1, <1>2, PTL DEF Spec

(* The client only gets messages of roles it has been told are active: the    *)
(* writer never overtakes the server/activate that announces a role           *)
(* (connection.py, _run_writer and send_message). Where a connection may move *)
(* off the pairing record without a stop of the writer, the model checker     *)
(* refutes it, so that deployment is excluded.                                *)
THEOREM OnlyActivatedRolesHolds == ~MayMoveOffRecord => (Spec => []OnlyActivatedRoles)
<1> SUFFICES ASSUME ~MayMoveOffRecord PROVE Spec => []OnlyActivatedRoles OBVIOUS
<1>1. Spec => [](IInv /\ ToldInv)
  BY ToldAlways
<1>2. IInv /\ ToldInv => OnlyActivatedRoles
  BY ToldHolds DEF OnlyActivatedRoles
<1> QED BY <1>1, <1>2, PTL

(* With no server/activate on its way, the client has been told exactly the *)
(* roles the server runs (connection.py, the activation handlers).          *)
THEOREM ActivationsAgreeHolds == ~MayMoveOffRecord => (Spec => []ActivationsAgree)
<1> SUFFICES ASSUME ~MayMoveOffRecord PROVE Spec => []ActivationsAgree OBVIOUS
<1>1. Spec => [](IInv /\ ToldInv)
  BY ToldAlways
<1>2. IInv /\ ToldInv => ActivationsAgree
  BY ToldHolds DEF ActivationsAgree
<1> QED BY <1>1, <1>2, PTL

-----------------------------------------------------------------------------
(* What the proofs ask of the queues but for the heaps and the events. *)
Holdings(p) == <<p.entries, p.lastTs, p.epoch, p.priority, p.normal, p.disconnecting, p.seq>>

(* What a step that changes nothing of the queues leaves of them. *)
LEMMA HoldingsOf ==
  ASSUME NEW p, NEW d, Holdings(d) = Holdings(p)
  PROVE  /\ d.entries = p.entries /\ d.lastTs = p.lastTs /\ d.epoch = p.epoch
         /\ d.priority = p.priority /\ d.normal = p.normal /\ d.disconnecting = p.disconnecting
         /\ d.seq = p.seq
BY DEF Holdings

(* The steps of the writer that take nothing off a queue. *)
LEMMA IdleStepEffect ==
  ASSUME IInv,
         \/ WriterStops \/ WriterPromotes \/ WriterSkips \/ WriterWaits \/ WriterWakes
         \/ WriterBlocks
  PROVE  /\ Holdings(q') = Holdings(q) /\ q'.streaming = q.streaming /\ q'.size = q.size
         /\ q'.roleDrained = q.roleDrained
         /\ sending' = sending /\ sendingRole' = sendingRole /\ writer # "sending"
<1>0. /\ q \in QueuesType /\ clock \in Nat
  BY DEF IInv, RestTypeOK, QueueInv
<1>1. CASE WriterStops
  <2>1. q' = [q EXCEPT !.idle = TRUE]
    BY <1>1 DEF WriterStops
  <2>2. /\ Holdings(q') = Holdings(q) /\ q'.streaming = q.streaming /\ q'.size = q.size
        /\ q'.roleDrained = q.roleDrained
    BY <1>0, <2>1 DEF QueuesType, Holdings
  <2> QED BY <1>1, <2>2 DEF WriterStops
<1>2. CASE WriterPromotes
  <2> DEFINE d == Promote(q, clock)
  <2>1. /\ d.priority = q.priority /\ d.normal = q.normal /\ d.streaming = q.streaming
        /\ d.entries = q.entries /\ d.disconnecting = q.disconnecting
        /\ d.lastTs = q.lastTs /\ d.epoch = q.epoch /\ d.seq = q.seq /\ d.size = q.size
        /\ d.roleDrained = q.roleDrained
    BY <1>0, PromoteFields
  <2> HIDE DEF d
  <2>2. q' = d
    BY <1>2 DEF WriterPromotes, d
  <2> QED BY <1>2, <2>1, <2>2 DEF WriterPromotes, Holdings
<1>3. CASE WriterSkips
  <2>1. PICK k \in q.ready :
          q' = IF q.blocked[k.role] # NoTime THEN [q EXCEPT !.ready = @ \ {k}]
               ELSE Schedule([q EXCEPT !.ready = @ \ {k}], k.role)
    BY <1>3 DEF WriterSkips
  <2> DEFINE p == [q EXCEPT !.ready = @ \ {k}]
             d == Schedule(p, k.role)
  <2>2. k.role \in Roles
    BY <1>0 DEF QueuesType, ReadyKey
  <2>3. /\ p \in QueuesType /\ Contents(p) = Contents(q)
        /\ p.seq = q.seq /\ p.size = q.size /\ p.roleDrained = q.roleDrained
    BY <1>0 DEF QueuesType, Contents
  <2> HIDE DEF p
  <2>4. /\ Contents(d) = Contents(p)
        /\ d.seq = p.seq /\ d.size = p.size /\ d.roleDrained = p.roleDrained
    BY <2>2, <2>3, ScheduleFields
  <2> HIDE DEF d
  <2>5. /\ Contents(q') = Contents(q)
        /\ q'.seq = q.seq /\ q'.size = q.size /\ q'.roleDrained = q.roleDrained
    BY <2>1, <2>3, <2>4 DEF d, p
  <2> QED BY <1>3, <2>5 DEF Contents, Holdings, WriterSkips
<1>4. CASE WriterWaits
  <2>1. q' = [q EXCEPT !.wake = FALSE, !.idle = IF q.delayed = {} THEN TRUE ELSE q.idle]
    BY <1>4 DEF WriterWaits
  <2>2. /\ Holdings(q') = Holdings(q) /\ q'.streaming = q.streaming /\ q'.size = q.size
        /\ q'.roleDrained = q.roleDrained
    BY <1>0, <2>1 DEF QueuesType, Holdings
  <2> QED BY <1>4, <2>2 DEF WriterWaits
<1>5. CASE WriterWakes
  BY <1>5 DEF WriterWakes, Holdings
<1>6. CASE WriterBlocks
  <2>r. PICK r \in Roles : \E e \in q.entries[r] :
          Peeked(r, e) /\ q' = Block(Popped(r, e), r, e.room)
    BY <1>6 DEF WriterBlocks
  <2>1. PICK e \in q.entries[r] : Peeked(r, e) /\ q' = Block(Popped(r, e), r, e.room)
    BY <2>r
  <2> DEFINE p == Popped(r, e)
             d == Block(p, r, e.room)
  <2>2. /\ p \in QueuesType /\ Contents(p) = Contents(q)
        /\ p.seq = q.seq /\ p.size = q.size /\ p.roleDrained = q.roleDrained
    BY <1>0 DEF Popped, QueuesType, Contents
  <2> HIDE DEF p
  <2>3. /\ d.entries = p.entries /\ d.priority = p.priority /\ d.normal = p.normal
        /\ d.streaming = p.streaming /\ d.disconnecting = p.disconnecting
        /\ d.lastTs = p.lastTs /\ d.epoch = p.epoch /\ d.seq = p.seq /\ d.size = p.size
        /\ d.roleDrained = p.roleDrained
    BY <2>2, BlockFields
  <2> HIDE DEF d
  <2>4. q' = d
    BY <2>1 DEF d, p
  <2>5. writer = "peek" /\ sending' = sending /\ sendingRole' = sendingRole
    BY <1>6, <2>1 DEF WriterBlocks, Peeked
  <2> QED BY <2>2, <2>3, <2>4, <2>5 DEF Contents, Holdings
<1> QED BY <1>1, <1>2, <1>3, <1>4, <1>5, <1>6

(* The writer drops the head e of role r. *)
Dropped(r, e) ==
  /\ e \in q.entries[r] /\ Peeked(r, e)
  /\ \/ Stale(q, r, e)
     \/ e.kind = "chunk" /\ e.due # 0 /\ clock > e.due
     \/ e.kind = "chunk" /\ e.room = Never
  /\ q'.entries = [q.entries EXCEPT ![r] = @ \ {e}]
  /\ q'.lastTs = q.lastTs /\ q'.epoch = q.epoch /\ q'.priority = q.priority
  /\ q'.normal = q.normal /\ q'.streaming = q.streaming
  /\ q'.disconnecting = q.disconnecting /\ q'.seq = q.seq
  /\ q'.size = Minus(q.size, 1)
  /\ q'.roleDrained = IF q'.entries[r] = {} THEN q.roleDrained \ {r} ELSE q.roleDrained

(* A message that is dropped leaves its queue; its role may be drained. *)
LEMMA WriterDropsEffect ==
  ASSUME IInv, WriterDrops
  PROVE  /\ \E r \in Roles : \E e \in q.entries[r] : Dropped(r, e)
         /\ sending' = sending /\ sendingRole' = sendingRole /\ writer = "peek"
<1>0. /\ QueueInv(q, Exempt) /\ q \in QueuesType
  BY DEF IInv, QueueInv
<1>r. PICK r \in Roles : \E e \in q.entries[r] :
        /\ Peeked(r, e)
        /\ \/ Stale(q, r, e)
           \/ e.kind = "chunk" /\ e.due # 0 /\ clock > e.due
           \/ e.kind = "chunk" /\ e.room = Never
        /\ q' = RoleDone(Schedule(Take(Popped(r, e), r, {e}), r), r)
  BY DEF WriterDrops
<1>1. PICK e \in q.entries[r] :
        /\ Peeked(r, e)
        /\ \/ Stale(q, r, e)
           \/ e.kind = "chunk" /\ e.due # 0 /\ clock > e.due
           \/ e.kind = "chunk" /\ e.room = Never
        /\ q' = RoleDone(Schedule(Take(Popped(r, e), r, {e}), r), r)
  BY <1>r
<1> DEFINE p == Popped(r, e)
           t == Take(p, r, {e})
           s == Schedule(t, r)
           d == RoleDone(s, r)
<1>2. /\ QueueInv(p, Exempt \cup {r}) /\ Contents(p) = Contents(q)
      /\ p.seq = q.seq /\ p.size = q.size /\ p.roleDrained = q.roleDrained
  BY <1>0, PopInv DEF Popped, Key, QueuesType, Contents
<1>3. p \in QueuesType /\ e \in p.entries[r]
  BY <1>2 DEF QueueInv, Contents
<1> HIDE DEF p
<1>4. QueueInv(t, Exempt \cup {r})
  BY <1>2, <1>3, TakeInv
<1>5. /\ t.entries = [p.entries EXCEPT ![r] = @ \ {e}]
      /\ t.lastTs = p.lastTs /\ t.epoch = p.epoch
      /\ t.priority = p.priority /\ t.normal = p.normal /\ t.streaming = p.streaming
      /\ t.disconnecting = p.disconnecting /\ t.seq = p.seq
      /\ t.size = Minus(p.size, Cardinality({e}))
      /\ t.roleDrained = p.roleDrained /\ t.idle = p.idle
  BY <1>3, TakeFields
<1>6. t \in QueuesType
  BY <1>4 DEF QueueInv
<1> HIDE DEF t
<1>7. /\ Contents(s) = Contents(t)
      /\ s.seq = t.seq /\ s.size = t.size /\ s.roleDrained = t.roleDrained
  BY <1>6, ScheduleFields
<1>8. s \in QueuesType
  BY <1>4, ScheduleInv DEF QueueInv
<1> HIDE DEF s
<1>9. /\ d.entries = s.entries /\ d.priority = s.priority /\ d.normal = s.normal
      /\ d.lastTs = s.lastTs /\ d.epoch = s.epoch
      /\ d.streaming = s.streaming /\ d.disconnecting = s.disconnecting
      /\ d.seq = s.seq /\ d.size = s.size
      /\ d.roleDrained = IF s.entries[r] = {} THEN s.roleDrained \ {r} ELSE s.roleDrained
  BY <1>8, RoleDoneFields
<1> HIDE DEF d
<1>10. q' = d
  BY <1>1 DEF d, s, t, p
<1>11. Cardinality({e}) = 1
  BY FS_Singleton
<1>12. /\ q'.priority = q.priority /\ q'.normal = q.normal /\ q'.streaming = q.streaming
       /\ q'.entries = [q.entries EXCEPT ![r] = @ \ {e}]
       /\ q'.lastTs = q.lastTs /\ q'.epoch = q.epoch
       /\ q'.disconnecting = q.disconnecting /\ q'.seq = q.seq
       /\ q'.size = Minus(q.size, 1)
       /\ q'.roleDrained = IF q'.entries[r] = {} THEN q.roleDrained \ {r} ELSE q.roleDrained
  <2>1. /\ p.entries = q.entries /\ p.lastTs = q.lastTs /\ p.epoch = q.epoch
        /\ p.priority = q.priority /\ p.normal = q.normal /\ p.streaming = q.streaming
        /\ p.disconnecting = q.disconnecting
    BY <1>2 DEF Contents
  <2>2. /\ s.entries = t.entries /\ s.lastTs = t.lastTs /\ s.epoch = t.epoch
        /\ s.priority = t.priority /\ s.normal = t.normal /\ s.streaming = t.streaming
        /\ s.disconnecting = t.disconnecting
    BY <1>7 DEF Contents
  <2> QED BY <1>2, <1>5, <1>7, <1>9, <1>10, <1>11, <2>1, <2>2
<1>13. Dropped(r, e)
  BY <1>1, <1>12 DEF Dropped
<1> QED BY <1>1, <1>13 DEF WriterDrops, Peeked

(* The client is told of a stream's start or end when it is sent. *)
Told(p, d, m) ==
  /\ m.kind = "start" => d.streaming = p.streaming \cup {m.role}
  /\ m.kind = "end" => d.streaming = p.streaming \ {m.role}
  /\ m.kind # "start" /\ m.kind # "end" => d.streaming = p.streaming

(* The writer sends the head e of role r, with the entries M merged into it. *)
Sent(r, e, M) ==
  /\ e \in q.entries[r] /\ M \in Mergeable(q.entries[r], e) /\ Peeked(r, e)
  /\ ~Stale(q, r, e)
  /\ q'.entries = [q.entries EXCEPT ![r] = @ \ ({e} \cup M)]
  /\ q'.lastTs = q.lastTs /\ q'.epoch = q.epoch /\ q'.priority = q.priority
  /\ q'.normal = q.normal /\ Told(q, q', Message(e.kind, r))
  /\ q'.disconnecting = q.disconnecting /\ q'.seq = q.seq
  /\ q'.size = Minus(q.size, Cardinality({e} \cup M))
  /\ q'.roleDrained = q.roleDrained
  /\ sending' = Message(e.kind, r) /\ sendingRole' = r
  /\ announced' = announced
  /\ overtaken' = IF e.kind = "start" THEN overtaken \ {r} ELSE overtaken

(* A role message that is sent leaves its queue before it is handed over. *)
LEMMA WriterSendsRoleEffect ==
  ASSUME IInv, WriterSendsRole
  PROVE  /\ \E r \in Roles : \E e \in q.entries[r] : \E M \in SUBSET q.entries[r] : Sent(r, e, M)
         /\ writer = "peek" /\ writer' = "sending"
<1>0. /\ QueueInv(q, Exempt) /\ q \in QueuesType
  BY DEF IInv, QueueInv
<1>r. PICK r \in Roles : \E e \in q.entries[r] :
        /\ Peeked(r, e) /\ ~Stale(q, r, e)
        /\ \E M \in Mergeable(q.entries[r], e) :
             Transmit(Take(Popped(r, e), r, {e} \cup M), Message(e.kind, r), r)
  BY DEF WriterSendsRole
<1>e. PICK e \in q.entries[r] :
        /\ Peeked(r, e) /\ ~Stale(q, r, e)
        /\ \E M \in Mergeable(q.entries[r], e) :
             Transmit(Take(Popped(r, e), r, {e} \cup M), Message(e.kind, r), r)
  BY <1>r
<1>1. PICK M \in Mergeable(q.entries[r], e) :
        Transmit(Take(Popped(r, e), r, {e} \cup M), Message(e.kind, r), r)
  BY <1>e
<1> DEFINE p == Popped(r, e)
           T == {e} \cup M
           t == Take(p, r, T)
           m == Message(e.kind, r)
           w == OnWire(t, m)
<1>2. /\ QueueInv(p, Exempt \cup {r}) /\ Contents(p) = Contents(q)
      /\ p.seq = q.seq /\ p.size = q.size /\ p.roleDrained = q.roleDrained
  BY <1>0, PopInv DEF Popped, Key, QueuesType, Contents
<1>3. p \in QueuesType /\ T \in SUBSET p.entries[r] /\ M \in SUBSET q.entries[r]
  BY <1>2 DEF QueueInv, Contents, Mergeable
<1> HIDE DEF p, T
<1>4. QueueInv(t, Exempt \cup {r})
  BY <1>2, <1>3, TakeInv
<1>5. /\ t.entries = [p.entries EXCEPT ![r] = @ \ T] /\ t.priority = p.priority
      /\ t.lastTs = p.lastTs /\ t.epoch = p.epoch
      /\ t.normal = p.normal /\ t.streaming = p.streaming
      /\ t.disconnecting = p.disconnecting /\ t.seq = p.seq
      /\ t.size = Minus(p.size, Cardinality(T)) /\ t.roleDrained = p.roleDrained
  BY <1>3, TakeFields
<1>6. t \in QueuesType
  BY <1>4 DEF QueueInv
<1>7. Transmit(t, m, r)
  BY <1>1 DEF p, T
<1>m. m.kind = e.kind /\ m.role = r /\ m.kind # "activate"
  <2>1. e.kind \in JsonKinds \cup BinaryKinds
    BY <1>0 DEF QueuesType, Finite, Entry
  <2> QED BY <2>1 DEF Message, JsonKinds, BinaryKinds
<1> HIDE DEF t, m
<1>8. /\ w.entries = t.entries /\ w.lastTs = t.lastTs /\ w.epoch = t.epoch
      /\ w.priority = t.priority /\ w.normal = t.normal
      /\ m.kind = "start" => w.streaming = t.streaming \cup {m.role}
      /\ m.kind = "end" => w.streaming = t.streaming \ {m.role}
      /\ m.kind # "start" /\ m.kind # "end" => w.streaming = t.streaming
      /\ w.disconnecting = t.disconnecting /\ w.seq = t.seq
      /\ w.size = t.size /\ w.roleDrained = t.roleDrained
  BY <1>6, OnWireFields
<1> HIDE DEF w
<1>9. q' = w
  BY <1>7 DEF Transmit, w
<1>10. /\ q'.entries = [q.entries EXCEPT ![r] = @ \ T]
       /\ q'.lastTs = q.lastTs /\ q'.epoch = q.epoch /\ q'.priority = q.priority
       /\ q'.normal = q.normal
       /\ q'.disconnecting = q.disconnecting /\ q'.seq = q.seq
       /\ q'.size = Minus(q.size, Cardinality(T))
       /\ q'.roleDrained = q.roleDrained
  BY <1>2, <1>5, <1>8, <1>9 DEF Contents
<1>11. Told(q, q', m)
  BY <1>2, <1>5, <1>8, <1>9 DEF Contents, Told
<1>12. /\ sending' = m /\ sendingRole' = r /\ announced' = announced
       /\ overtaken' = IF e.kind = "start" THEN overtaken \ {r} ELSE overtaken
  BY <1>7, <1>m DEF Transmit
<1>13. Sent(r, e, M)
  BY <1>e, <1>10, <1>11, <1>12 DEF Sent, T, m
<1> QED BY <1>3, <1>e, <1>13 DEF WriterSendsRole, Peeked

(* The transport has taken the message. *)
LEMMA WriterSentEffect ==
  ASSUME IInv, WriterSent
  PROVE  /\ Holdings(q') = Holdings(q) /\ q'.streaming = q.streaming /\ q'.size = q.size
         /\ q'.roleDrained =
              IF sendingRole \in Roles /\ q.entries[sendingRole] = {}
              THEN q.roleDrained \ {sendingRole} ELSE q.roleDrained
         /\ sending' = Nothing /\ sendingRole' = NoRole
<1>0. /\ QueueInv(q, Exempt) /\ q \in QueuesType
  BY DEF IInv, QueueInv
<1>1. CASE sendingRole = NoRole
  BY <1>1, QueuesAssumption DEF WriterSent, Holdings
<1>2. CASE sendingRole # NoRole
  <2> DEFINE s == Schedule(q, sendingRole)
             d == RoleDone(s, sendingRole)
  <2>1. sendingRole \in Roles
    BY <1>2 DEF IInv, RestTypeOK
  <2>2. /\ Contents(s) = Contents(q)
        /\ s.seq = q.seq /\ s.size = q.size /\ s.roleDrained = q.roleDrained
    BY <1>0, <2>1, ScheduleFields
  <2>3. s \in QueuesType
    BY <1>0, <2>1, ScheduleInv DEF QueueInv
  <2> HIDE DEF s
  <2>4. /\ d.entries = s.entries /\ d.priority = s.priority /\ d.normal = s.normal
        /\ d.streaming = s.streaming /\ d.disconnecting = s.disconnecting
        /\ d.lastTs = s.lastTs /\ d.epoch = s.epoch /\ d.seq = s.seq /\ d.size = s.size
        /\ d.roleDrained = IF s.entries[sendingRole] = {} THEN s.roleDrained \ {sendingRole}
                           ELSE s.roleDrained
    BY <2>1, <2>3, RoleDoneFields
  <2> HIDE DEF d
  <2>5. q' = d /\ sending' = Nothing /\ sendingRole' = NoRole
    BY <1>2 DEF WriterSent, d, s
  <2> QED BY <2>1, <2>2, <2>4, <2>5 DEF Contents, Holdings
<1> QED BY <1>1, <1>2

(* The first priority message leaves. *)
LEMMA FirstPriorityEffect ==
  ASSUME IInv, SendFirstPriority
  PROVE  /\ q.priority # <<>> /\ q'.priority = Tail(q.priority)
         /\ q'.entries = q.entries /\ q'.lastTs = q.lastTs /\ q'.epoch = q.epoch
         /\ q'.normal = q.normal /\ q'.disconnecting = q.disconnecting /\ q'.seq = q.seq
         /\ Told(q, q', Head(q.priority))
         /\ q'.size = Minus(q.size, 1) /\ q'.roleDrained = q.roleDrained
         /\ sending' = Head(q.priority) /\ sendingRole' = NoRole
         /\ overtaken' = IF Head(q.priority).kind = "start"
                         THEN overtaken \ {Head(q.priority).role} ELSE overtaken
<1> DEFINE s == Tail(q.priority)
           m == Head(q.priority)
           n == Minus(q.size, 1)
           p == [q EXCEPT !.priority = s, !.size = n]
           w == OnWire(p, m)
<1>1. q.priority \in Seq(Msg) /\ q.priority # <<>> /\ q.size \in Nat /\ q \in QueuesType
  BY DEF IInv, QueueInv, QueuesType, SendFirstPriority
<1>2. s \in Seq(Msg) /\ n \in Nat
  BY <1>1 DEF Minus
<1>3. Transmit(p, m, NoRole)
  BY DEF SendFirstPriority
<1> HIDE DEF s, n
<1>4. /\ p \in QueuesType /\ p.priority = s /\ p.normal = q.normal /\ p.entries = q.entries
      /\ p.lastTs = q.lastTs /\ p.epoch = q.epoch /\ p.streaming = q.streaming
      /\ p.disconnecting = q.disconnecting /\ p.seq = q.seq /\ p.size = n
      /\ p.roleDrained = q.roleDrained
  BY <1>1, <1>2 DEF QueuesType
<1> HIDE DEF p, m
<1>5. /\ w.entries = p.entries /\ w.lastTs = p.lastTs /\ w.epoch = p.epoch
      /\ w.priority = p.priority /\ w.normal = p.normal
      /\ m.kind = "start" => w.streaming = p.streaming \cup {m.role}
      /\ m.kind = "end" => w.streaming = p.streaming \ {m.role}
      /\ m.kind # "start" /\ m.kind # "end" => w.streaming = p.streaming
      /\ w.disconnecting = p.disconnecting /\ w.seq = p.seq
      /\ w.size = p.size /\ w.roleDrained = p.roleDrained
  BY <1>4, OnWireFields
<1> HIDE DEF w
<1>6. q' = w
  BY <1>3 DEF Transmit, w
<1>7. Told(q, q', m)
  BY <1>4, <1>5, <1>6 DEF Told
<1> QED BY <1>1, <1>3, <1>4, <1>5, <1>6, <1>7 DEF Transmit, s, m, n

(* The first control message leaves. *)
LEMMA NormalEffect ==
  ASSUME IInv, NEW c \in q.normal,
         Transmit([q EXCEPT !.normal = @ \ {c}, !.size = Minus(@, 1)], c.msg, NoRole)
  PROVE  /\ q'.normal = q.normal \ {c}
         /\ q'.entries = q.entries /\ q'.lastTs = q.lastTs /\ q'.epoch = q.epoch
         /\ q'.priority = q.priority /\ q'.disconnecting = q.disconnecting /\ q'.seq = q.seq
         /\ Told(q, q', c.msg)
         /\ q'.size = Minus(q.size, 1) /\ q'.roleDrained = q.roleDrained
         /\ sending' = c.msg /\ sendingRole' = NoRole
         /\ overtaken' = IF c.msg.kind = "start" THEN overtaken \ {c.msg.role} ELSE overtaken
<1> DEFINE S == q.normal \ {c}
           m == c.msg
           n == Minus(q.size, 1)
           p == [q EXCEPT !.normal = S, !.size = n]
           w == OnWire(p, m)
<1>1. q \in QueuesType /\ q.size \in Nat
  BY DEF IInv, QueueInv, QueuesType
<1>2. S \in Finite(NormalEntry) /\ n \in Nat
  BY <1>1, FS_Subset DEF QueuesType, Minus, Finite
<1>3. Transmit(p, m, NoRole)
  OBVIOUS
<1> HIDE DEF S, n
<1>4. /\ p \in QueuesType /\ p.priority = q.priority /\ p.normal = S /\ p.entries = q.entries
      /\ p.lastTs = q.lastTs /\ p.epoch = q.epoch /\ p.streaming = q.streaming
      /\ p.disconnecting = q.disconnecting /\ p.seq = q.seq /\ p.size = n
      /\ p.roleDrained = q.roleDrained
  BY <1>1, <1>2 DEF QueuesType
<1> HIDE DEF p, m
<1>5. /\ w.entries = p.entries /\ w.lastTs = p.lastTs /\ w.epoch = p.epoch
      /\ w.priority = p.priority /\ w.normal = p.normal
      /\ m.kind = "start" => w.streaming = p.streaming \cup {m.role}
      /\ m.kind = "end" => w.streaming = p.streaming \ {m.role}
      /\ m.kind # "start" /\ m.kind # "end" => w.streaming = p.streaming
      /\ w.disconnecting = p.disconnecting /\ w.seq = p.seq
      /\ w.size = p.size /\ w.roleDrained = p.roleDrained
  BY <1>4, OnWireFields
<1> HIDE DEF w
<1>6. q' = w
  BY <1>3 DEF Transmit, w
<1>7. Told(q, q', m)
  BY <1>4, <1>5, <1>6 DEF Told
<1> QED BY <1>3, <1>4, <1>5, <1>6, <1>7 DEF Transmit, S, m, n

-----------------------------------------------------------------------------
(* A role that is waited for has something to wait for. *)
Waits(p, r, s) == p.entries[r] # {} \/ s = r \/ p.disconnecting

(* A role that waits keeps waiting while its messages stay queued and no role *)
(* starts to wait.                                                            *)
LEMMA StrandKept ==
  ASSUME NoStrandedTransfer, q'.entries = q.entries, q'.roleDrained \subseteq q.roleDrained,
         q.disconnecting => q'.disconnecting, transfer' \subseteq transfer,
         sendingRole' = sendingRole \/ sendingRole = NoRole, q \in QueuesType
  PROVE  NoStrandedTransfer'
<1>1. \A r \in q.roleDrained : r # NoRole
  BY QueuesAssumption DEF QueuesType
<1> QED BY <1>1 DEF NoStrandedTransfer

(* What a role queues is there, or the connection ends. *)
LEMMA QueuedFills ==
  ASSUME NEW p \in QueuesType, NEW r \in Roles, NEW kind, NEW ts \in Nat
  PROVE  Queued(p, r, kind, ts).disconnecting \/ Queued(p, r, kind, ts).entries[r] # {}
<1> DEFINE d == Queued(p, r, kind, ts)
           e == NewEntry(p, r, kind, ts, 0, 0)
<1>1. \/ /\ d.disconnecting /\ d.entries = p.entries /\ d.lastTs = p.lastTs
      \/ /\ d.disconnecting = p.disconnecting
         /\ d.entries = WithEntry(p, r, e)
         /\ d.lastTs = [p.lastTs EXCEPT ![r] = ts]
  BY QueuedFields
<1>2. e \in WithEntry(p, r, e)[r]
  BY DEF WithEntry, QueuesType
<1> HIDE DEF d, e
<1>3. d.disconnecting \/ d.entries[r] # {}
  BY <1>1, <1>2
<1> QED BY <1>3 DEF d

(* After a chunk its role has something to send, or the connection ended. *)
LEMMA SendBinaryFills ==
  ASSUME NEW p \in QueuesType, NEW r \in Roles, NEW kind, NEW due \in Nat, NEW room
  PROVE  SendBinary(p, r, kind, due, room).disconnecting
         \/ SendBinary(p, r, kind, due, room).entries[r] # {}
<1> DEFINE d == SendBinary(p, r, kind, due, room)
           e == NewEntry(p, r, kind, Larger(due, p.lastTs[r]), due, room)
<1>1. \/ /\ d.disconnecting /\ d.entries = p.entries /\ d.lastTs = p.lastTs
      \/ /\ d.disconnecting = p.disconnecting
         /\ d.entries = WithEntry(p, r, e)
         /\ d.lastTs = [p.lastTs EXCEPT ![r] = Larger(due, @)]
  BY SendBinaryFields
<1>2. e \in WithEntry(p, r, e)[r]
  BY DEF WithEntry, QueuesType
<1> HIDE DEF d, e
<1>3. d.disconnecting \/ d.entries[r] # {}
  BY <1>1, <1>2
<1> QED BY <1>3 DEF d

(* No step of a role strands the transfer of one. *)
LEMMA StrandRoleStep ==
  ASSUME IInv, NoStrandedTransfer, NEW r \in Roles,
         \/ SendStreamStart(r) \/ SendChunk(r) \/ SendStreamClear(r) \/ SendStreamEnd(r)
         \/ SendState(r) \/ BeginTransfer(r) \/ TransferWakes(r) \/ CancelTransfer(r)
  PROVE  NoStrandedTransfer'
<1>0. q \in QueuesType /\ clock \in Nat /\ QueueInv(q, Exempt)
  BY DEF IInv, QueueInv, RestTypeOK
<1>1. OnlyRole(q, q', r)
  BY RoleStepOnly
<1>2. sendingRole' = sendingRole /\ transfer' \ {r} \subseteq transfer
  BY DEF SendStreamStart, SendChunk, SendStreamClear, SendStreamEnd, SendState, BeginTransfer,
         TransferWakes, CancelTransfer, Unsent, roleVars
<1>3. r \notin transfer' \/ q'.disconnecting \/ q'.entries[r] # {} \/ sendingRole = r
  <2>1. CASE SendStreamStart(r)
    BY <1>0, <2>1, StartIsQueued, QueuedFills DEF SendStreamStart
  <2>2. CASE SendChunk(r)
    <3>1. PICK due \in 1 .. MaxTime, room \in Rooms : q' = SendBinary(q, r, "chunk", due, room)
      BY <2>2 DEF SendChunk
    <3>2. due \in Nat
      OBVIOUS
    <3> QED BY <1>0, <3>1, <3>2, SendBinaryFills
  <2>3. CASE SendStreamClear(r)
    <3> DEFINE c == DropPending(q, r)
    <3>1. c \in QueuesType
      BY <1>0, DropPendingType
    <3>2. q' = Queued(c, r, "clear", q.lastTs[r]) /\ q.lastTs[r] \in Nat
      BY <1>0, <2>3, ClearIsQueued DEF SendStreamClear
    <3> HIDE DEF c
    <3> QED BY <3>1, <3>2, QueuedFills
  <2>4. CASE SendStreamEnd(r) \/ CancelTransfer(r)
    BY <2>4 DEF SendStreamEnd, CancelTransfer
  <2>5. CASE SendState(r)
    BY <1>0, <2>5, StateIsQueued, QueuedFills DEF SendState
  <2> DEFINE b == SendBinary(q, r, "chunk", 0, 0)
             a == AwaitDrained(b, r, sendingRole)
             c == AwaitDrained(q, r, sendingRole)
  <2>6. b \in QueuesType
    <3>1. "chunk" \in BinaryKinds
      BY DEF BinaryKinds
    <3>2. QueueInv(b, Exempt)
      BY <1>0, <3>1, SendBinaryInv
    <3> QED BY <3>2 DEF QueueInv
  <2>7. b.disconnecting \/ b.entries[r] # {}
    BY <1>0, SendBinaryFills
  <2> HIDE DEF b
  <2>8. a.entries = b.entries /\ a.disconnecting = b.disconnecting
    BY <2>6 DEF AwaitDrained, QueuesType
  <2>9. c.entries = q.entries
    BY <1>0 DEF AwaitDrained, QueuesType
  <2> HIDE DEF a, c
  <2>10. a.disconnecting \/ a.entries[r] # {}
    BY <2>7, <2>8
  <2>11. CASE BeginTransfer(r)
    <3>1. q' = a
      BY <2>11 DEF BeginTransfer, a, b
    <3> QED BY <2>10, <3>1
  <2>12. CASE TransferWakes(r)
    <3>1. \/ (q.entries[r] # {} \/ sendingRole = r) /\ q' = c
          \/ q' = a
          \/ r \notin transfer'
      BY <2>12 DEF TransferWakes, a, b, c
    <3> QED BY <2>9, <2>10, <3>1
  <2> QED BY <2>1, <2>2, <2>3, <2>4, <2>5, <2>11, <2>12
<1>4. ASSUME NEW x \in transfer' \cap q'.roleDrained, x # r
      PROVE  q'.entries[x] # {} \/ sendingRole = x \/ q'.disconnecting
  <2>1. x \in transfer \cap q.roleDrained
    BY <1>1, <1>2, <1>4 DEF OnlyRole
  <2>2. q'.entries[x] = q.entries[x] /\ (q.disconnecting => q'.disconnecting)
    BY <1>0, <1>1, <1>4, <2>1 DEF OnlyRole, QueuesType
  <2> QED BY <2>1, <2>2 DEF NoStrandedTransfer
<1> QED BY <1>2, <1>3, <1>4 DEF NoStrandedTransfer

(* No step of the writer strands a transfer. *)
LEMMA StrandWriterStep ==
  ASSUME IInv, NoStrandedTransfer, WriterStep
  PROVE  NoStrandedTransfer'
<1>0. q \in QueuesType
  BY DEF IInv, QueueInv
<1>a. transfer' = transfer
  BY DEF WriterStep, WriterStops, WriterSendsControl, WriterPromotes, WriterSkips, WriterWaits,
         WriterWakes, WriterDrops, WriterBlocks, WriterSendsRole, WriterSent, WriterEnds, roleVars
<1>1. CASE WriterStops \/ WriterPromotes \/ WriterSkips \/ WriterWaits \/ WriterWakes \/ WriterBlocks
  <2>1. /\ Holdings(q') = Holdings(q) /\ q'.roleDrained = q.roleDrained
        /\ sendingRole' = sendingRole
    BY <1>1, IdleStepEffect
  <2>2. q'.entries = q.entries /\ q'.disconnecting = q.disconnecting
    BY <2>1, HoldingsOf
  <2> QED BY <1>0, <1>a, <2>1, <2>2, StrandKept
<1>2. CASE WriterSendsControl
  <2>1. sendingRole = NoRole
    BY <1>2, NobodySending DEF WriterSendsControl
  <2>2. CASE SendFirstPriority
    <3>1. /\ q'.entries = q.entries /\ q'.disconnecting = q.disconnecting
          /\ q'.roleDrained = q.roleDrained
      BY <2>2, FirstPriorityEffect
    <3> QED BY <1>0, <1>a, <2>1, <3>1, StrandKept
  <2>3. ASSUME NEW c \in q.normal,
               Transmit([q EXCEPT !.normal = @ \ {c}, !.size = Minus(@, 1)], c.msg, NoRole)
        PROVE  NoStrandedTransfer'
    <3>1. /\ q'.entries = q.entries /\ q'.disconnecting = q.disconnecting
          /\ q'.roleDrained = q.roleDrained
      BY <2>3, NormalEffect
    <3> QED BY <1>0, <1>a, <2>1, <3>1, StrandKept
  <2> QED BY <1>2, <2>2, <2>3 DEF WriterSendsControl
<1>3. CASE WriterDrops
  <2>1. PICK r \in Roles : \E e \in q.entries[r] : Dropped(r, e)
    BY <1>3, WriterDropsEffect
  <2>2. PICK e \in q.entries[r] : Dropped(r, e)
    BY <2>1
  <2>3. sendingRole' = sendingRole
    BY <1>3, WriterDropsEffect
  <2>4. /\ q'.disconnecting = q.disconnecting
        /\ \A x \in Roles \ {r} : q'.entries[x] = q.entries[x]
        /\ q'.roleDrained = IF q'.entries[r] = {} THEN q.roleDrained \ {r} ELSE q.roleDrained
    BY <1>0, <2>2 DEF Dropped, QueuesType
  <2>5. transfer \subseteq Roles
    BY DEF IInv, RestTypeOK, Roles
  <2> QED BY <1>a, <2>3, <2>4, <2>5 DEF NoStrandedTransfer
<1>4. CASE WriterSendsRole
  <2>1. PICK r \in Roles : \E e \in q.entries[r] : \E M \in SUBSET q.entries[r] : Sent(r, e, M)
    BY <1>4, WriterSendsRoleEffect
  <2>e. PICK e \in q.entries[r] : \E M \in SUBSET q.entries[r] : Sent(r, e, M)
    BY <2>1
  <2>m. PICK M \in SUBSET q.entries[r] : Sent(r, e, M)
    BY <2>e
  <2>2. sendingRole = NoRole
    BY <1>4, WriterSendsRoleEffect, NobodySending
  <2>3. /\ q'.disconnecting = q.disconnecting /\ sendingRole' = r
        /\ \A x \in Roles \ {r} : q'.entries[x] = q.entries[x]
        /\ q'.roleDrained = q.roleDrained
    BY <1>0, <2>m DEF Sent, QueuesType
  <2>5. transfer \subseteq Roles
    BY DEF IInv, RestTypeOK, Roles
  <2> QED BY <1>a, <2>2, <2>3, <2>5, QueuesAssumption DEF NoStrandedTransfer
<1>5. CASE WriterSent
  <2>1. /\ Holdings(q') = Holdings(q)
        /\ q'.roleDrained =
              IF sendingRole \in Roles /\ q.entries[sendingRole] = {}
              THEN q.roleDrained \ {sendingRole} ELSE q.roleDrained
    BY <1>5, WriterSentEffect
  <2>2. q'.entries = q.entries /\ q'.disconnecting = q.disconnecting
    BY <2>1, HoldingsOf
  <2>5. transfer \subseteq Roles
    BY DEF IInv, RestTypeOK, Roles
  <2> QED BY <1>a, <2>1, <2>2, <2>5 DEF NoStrandedTransfer
<1>6. CASE WriterEnds
  <2> DEFINE d == IF sendingRole = NoRole THEN q ELSE RoleDone(q, sendingRole)
  <2>1. d \in QueuesType
    <3>1. QueueInv(q, Exempt)
      BY DEF IInv
    <3>2. QueueInv(d, Exempt)
      BY <3>1, RoleDoneInv
    <3> QED BY <3>2 DEF QueueInv
  <2>2. q' = [d EXCEPT !.disconnecting = TRUE, !.idle = TRUE]
    BY <1>6 DEF WriterEnds
  <2> HIDE DEF d
  <2>3. q'.disconnecting
    BY <2>1, <2>2 DEF QueuesType
  <2> QED BY <2>3 DEF NoStrandedTransfer
<1> QED BY <1>1, <1>2, <1>3, <1>4, <1>5, <1>6 DEF WriterStep

(* What an activation leaves in the queues, short of the priority messages. *)
LEMMA SendActivationLeaves ==
  ASSUME NEW p, NEW X, QueueInv(p, X), clock \in Nat,
         active \in SUBSET Roles, NEW new \in SUBSET Roles, Cardinality(active \ new) <= 1
  PROVE  /\ p.disconnecting => SendActivation(p, new).disconnecting
         /\ SendActivation(p, new).roleDrained = p.roleDrained
         /\ SendActivation(p, new).streaming = p.streaming
         /\ \A x \in Roles \ (active \ new) :
              /\ SendActivation(p, new).entries[x] = p.entries[x]
              /\ SendActivation(p, new).lastTs[x] = p.lastTs[x]
              /\ SendActivation(p, new).epoch[x] = p.epoch[x]
         /\ \A x \in active \ new :
              /\ SendActivation(p, new).entries[x] = {}
              /\ SendActivation(p, new).lastTs[x] = 0
<1> DEFINE m == Activation(new)
           d == SendActivation(p, new)
<1>1. PICK t \in QueuesType :
           /\ QueueInv(t, X)
           /\ d = SendPriority(t, m)
           /\ TornFor(p, new, t)
  BY SendActivationSteps
<1>p. p \in QueuesType
  BY DEF QueueInv
<1> HIDE DEF m, d
<1>2. /\ p.disconnecting => t.disconnecting
      /\ t.roleDrained = p.roleDrained /\ t.streaming = p.streaming
      /\ \A x \in Roles \ (active \ new) : /\ t.entries[x] = p.entries[x]
                                           /\ t.lastTs[x] = p.lastTs[x]
                                           /\ t.epoch[x] = p.epoch[x]
      /\ \A x \in active \ new : t.entries[x] = {} /\ t.lastTs[x] = 0
  <2>1. CASE t = p /\ active \ new = {}
    BY <2>1
  <2>2. ASSUME NEW r \in Roles, t = Torn(p, r), active \ new = {r}
        PROVE <1>2!:
    <3>1. Emptied(p, t, r)
      BY <2>2, TornEmpties
    <3>2. /\ t.entries = [p.entries EXCEPT ![r] = {}]
          /\ t.streaming = p.streaming /\ t.roleDrained = p.roleDrained
          /\ p.disconnecting => t.disconnecting
          /\ t.lastTs[r] = 0
          /\ \A x \in Roles \ {r} : t.lastTs[x] = p.lastTs[x] /\ t.epoch[x] = p.epoch[x]
      BY <3>1 DEF Emptied
    <3>3. t.entries[r] = {} /\ \A x \in Roles \ {r} : t.entries[x] = p.entries[x]
      BY <1>p, <3>2 DEF QueuesType
    <3> QED BY <2>2, <3>2, <3>3
  <2> QED BY <1>1, <2>1, <2>2 DEF TornFor
<1>3. /\ d.entries = t.entries /\ d.streaming = t.streaming /\ d.roleDrained = t.roleDrained
      /\ d.lastTs = t.lastTs /\ d.epoch = t.epoch
      /\ d.disconnecting \/ d.disconnecting = t.disconnecting
  <2> DEFINE f == SendPriority(t, m)
  <2>1. /\ f.entries = t.entries /\ f.streaming = t.streaming /\ f.roleDrained = t.roleDrained
        /\ f.lastTs = t.lastTs /\ f.epoch = t.epoch
        /\ f.disconnecting \/ f.disconnecting = t.disconnecting
    BY SendPriorityFields
  <2> HIDE DEF f
  <2>2. d = f
    BY <1>1 DEF f
  <2> QED BY <2>1, <2>2
<1>4. p.disconnecting => d.disconnecting
  BY <1>2, <1>3
<1> QED BY <1>2, <1>3, <1>4 DEF d

(* An activation, with or without stopping the writer, seen from the queues. *)
ActivatedQueues(new, d) ==
  /\ active' = new /\ started' = started \cap new /\ transfer' = transfer \cap new
  /\ Cardinality(active \ new) <= 1 /\ new \in SUBSET Roles
  /\ overtaken' = overtaken \cup (EndAhead \cap (new \ active))
  /\ q.disconnecting => q'.disconnecting
  /\ q'.roleDrained = q.roleDrained /\ q'.streaming = q.streaming
  /\ \A x \in Roles \ (active \ new) : /\ q'.entries[x] = q.entries[x]
                                       /\ q'.lastTs[x] = q.lastTs[x]
                                       /\ q'.epoch[x] = q.epoch[x]
  /\ \A x \in active \ new : q'.entries[x] = {} /\ q'.lastTs[x] = 0
  /\ sending' = sending /\ sendingRole' = sendingRole /\ clock' = clock /\ writer' = writer
  /\ q'.entries = d.entries /\ q'.normal = d.normal /\ q'.size = d.size
  /\ q'.disconnecting = d.disconnecting /\ q'.seq = d.seq /\ q'.idle = d.idle

(* The refreshed state joins the queues of the roles that stay. *)
LEMMA RefreshEffect ==
  ASSUME IInv, RefreshTrusted
  PROVE  \E new \in SUBSET Roles : /\ ActivatedQueues(new, SendActivation(q, new))
                                   /\ q' = SendActivation(q, new) /\ writer # "peek"
<1>0. /\ QueueInv(q, Exempt) /\ clock \in Nat /\ active \in SUBSET Roles
  BY DEF IInv, RestTypeOK
<1>1. PICK new \in SUBSET Roles : Reconcile(new) /\ q' = SendActivation(q, new)
  BY DEF RefreshTrusted
<1> DEFINE d == SendActivation(q, new)
<1>2. Cardinality(active \ new) <= 1
  BY <1>1 DEF Reconcile
<1>3. /\ q.disconnecting => d.disconnecting
      /\ d.roleDrained = q.roleDrained /\ d.streaming = q.streaming
      /\ \A x \in Roles \ (active \ new) : /\ d.entries[x] = q.entries[x]
                                           /\ d.lastTs[x] = q.lastTs[x]
                                           /\ d.epoch[x] = q.epoch[x]
      /\ \A x \in active \ new : d.entries[x] = {} /\ d.lastTs[x] = 0
  BY <1>0, <1>2, SendActivationLeaves
<1> HIDE DEF d
<1>4. q' = d
  BY <1>1 DEF d
<1>5. ActivatedQueues(new, d)
  BY <1>1, <1>2, <1>3, <1>4 DEF ActivatedQueues, Reconcile, RefreshTrusted
<1>6. writer # "peek"
  BY DEF RefreshTrusted, LoopFree
<1> QED BY <1>4, <1>5, <1>6 DEF d

(* Before the activation the priority messages are set aside. *)
Aside == [q EXCEPT !.priority = <<>>]

(* The control messages put aside are not part of any role. *)
LEMMA AsideFields ==
  ASSUME IInv
  PROVE  /\ QueueInv(Aside, Exempt) /\ Aside \in QueuesType
         /\ Aside.priority = <<>> /\ Aside.normal = q.normal /\ Aside.entries = q.entries
         /\ Aside.streaming = q.streaming /\ Aside.disconnecting = q.disconnecting
         /\ Aside.lastTs = q.lastTs /\ Aside.epoch = q.epoch /\ Aside.seq = q.seq
         /\ Aside.size = q.size /\ Aside.roleDrained = q.roleDrained /\ Aside.idle = q.idle
<1>0. QueueInv(q, Exempt) /\ q \in QueuesType
  BY DEF IInv, QueueInv
<1>1. QueueInv(Aside, Exempt)
  <2> DEFINE u == [q EXCEPT !.priority = <<>>, !.size = q.size]
  <2>1. <<>> \in Seq(Msg) /\ q.size \in Nat BY <1>0 DEF QueuesType
  <2>2. QueueInv(u, Exempt)
    BY <1>0, <2>1, PriorityInv
  <2>3. Aside = u
    BY <1>0 DEF QueuesType, Aside
  <2> HIDE DEF u
  <2> QED BY <2>2, <2>3
<1> QED BY <1>0, <1>1 DEF QueueInv, Aside, QueuesType

(* Activating roles drops the transfers of the roles it removes. *)
LEMMA ActivateEffect ==
  ASSUME IInv, Activate
  PROVE  \E new \in SUBSET Roles :
           /\ ActivatedQueues(new, SendActivation(Aside, new)) /\ writer # "peek" /\ pause = "quiet"
           /\ q'.priority = SendActivation(Aside, new).priority \o q.priority
<1>0. /\ QueueInv(Aside, Exempt) /\ clock \in Nat /\ active \in SUBSET Roles
  BY AsideFields DEF IInv, RestTypeOK
<1>1. PICK new \in SUBSET Roles :
        /\ Reconcile(new)
        /\ q' = [SendActivation(Aside, new) EXCEPT !.priority = @ \o q.priority]
  BY DEF Activate, Aside
<1> DEFINE d == SendActivation(Aside, new)
<1>2. Cardinality(active \ new) <= 1
  BY <1>1 DEF Reconcile
<1>3. /\ Aside.disconnecting => d.disconnecting
      /\ d.roleDrained = Aside.roleDrained /\ d.streaming = Aside.streaming
      /\ \A x \in Roles \ (active \ new) : /\ d.entries[x] = Aside.entries[x]
                                           /\ d.lastTs[x] = Aside.lastTs[x]
                                           /\ d.epoch[x] = Aside.epoch[x]
      /\ \A x \in active \ new : d.entries[x] = {} /\ d.lastTs[x] = 0
  BY <1>0, <1>2, SendActivationLeaves
<1>a. d \in QueuesType
  BY <1>0, SendActivationInv DEF QueueInv
<1> HIDE DEF d
<1>4. q' = [d EXCEPT !.priority = d.priority \o q.priority]
  BY <1>1 DEF d
<1>5. /\ q'.roleDrained = d.roleDrained /\ q'.streaming = d.streaming /\ q'.entries = d.entries
      /\ q'.lastTs = d.lastTs /\ q'.epoch = d.epoch /\ q'.disconnecting = d.disconnecting
      /\ q'.normal = d.normal /\ q'.size = d.size /\ q'.seq = d.seq /\ q'.idle = d.idle
      /\ q'.priority = d.priority \o q.priority
  BY <1>a, <1>4 DEF QueuesType
<1>6. /\ Aside.entries = q.entries /\ Aside.lastTs = q.lastTs /\ Aside.epoch = q.epoch
      /\ Aside.streaming = q.streaming /\ Aside.roleDrained = q.roleDrained
      /\ Aside.disconnecting = q.disconnecting
  BY AsideFields
<1>7. /\ q.disconnecting => q'.disconnecting
      /\ q'.roleDrained = q.roleDrained /\ q'.streaming = q.streaming
      /\ \A x \in Roles \ (active \ new) : /\ q'.entries[x] = q.entries[x]
                                           /\ q'.lastTs[x] = q.lastTs[x]
                                           /\ q'.epoch[x] = q.epoch[x]
      /\ \A x \in active \ new : q'.entries[x] = {} /\ q'.lastTs[x] = 0
  BY <1>3, <1>5, <1>6
<1>8. ActivatedQueues(new, d)
  BY <1>1, <1>2, <1>5, <1>7 DEF ActivatedQueues, Reconcile, Activate
<1>9. writer # "peek" /\ pause = "quiet"
  BY DEF Activate, LoopFree
<1> QED BY <1>5, <1>8, <1>9 DEF d

(* No activation strands the transfer of a role that stays. *)
LEMMA StrandActivation ==
  ASSUME IInv, NoStrandedTransfer, NEW new, NEW d, ActivatedQueues(new, d)
  PROVE  NoStrandedTransfer'
<1>1. transfer \subseteq Roles
  BY DEF IInv, RestTypeOK, Roles
<1>2. /\ transfer' = transfer \cap new /\ sendingRole' = sendingRole
      /\ q.disconnecting => q'.disconnecting
      /\ q'.roleDrained = q.roleDrained
      /\ \A x \in Roles \ (active \ new) : q'.entries[x] = q.entries[x]
  BY DEF ActivatedQueues
<1> QED BY <1>1, <1>2 DEF NoStrandedTransfer

(* No step strands a transfer. *)
LEMMA StrandNext ==
  ASSUME IInv, NoStrandedTransfer, [Next]_vars
  PROVE  NoStrandedTransfer'
<1>0. q \in QueuesType
  BY DEF IInv, QueueInv
<1>1. CASE RoleStep
  <2>1. CASE SendControl
    <3>1. /\ q'.entries = q.entries /\ q'.roleDrained = q.roleDrained
          /\ q'.disconnecting \/ q'.disconnecting = q.disconnecting
      <4> DEFINE f(m) == SendPriority(q, m)
                 g(m) == SendNormal(q, m)
      <4>1. \A m : /\ f(m).entries = q.entries /\ f(m).roleDrained = q.roleDrained
                   /\ f(m).disconnecting \/ f(m).disconnecting = q.disconnecting
        BY <1>0, SendPriorityFields
      <4>2. \A m : /\ g(m).entries = q.entries /\ g(m).roleDrained = q.roleDrained
                   /\ g(m).disconnecting \/ g(m).disconnecting = q.disconnecting
        BY <1>0, SendNormalFields
      <4>3. (\E m : q' = f(m)) \/ (\E m : q' = g(m))
        BY <2>1 DEF SendControl
      <4> HIDE DEF f, g
      <4> QED BY <4>1, <4>2, <4>3
    <3>2. sendingRole' = sendingRole /\ transfer' = transfer
      BY <2>1 DEF SendControl, Unsent, roleVars
    <3> QED BY <1>0, <3>1, <3>2, StrandKept
  <2> QED BY <1>1, <2>1, StrandRoleStep DEF RoleStep
<1>2. CASE WriterStep
  BY <1>2, StrandWriterStep
<1>3. CASE ActivationStep
  <2>1. CASE PauseWriter
    <3>1. q' = [q EXCEPT !.wake = TRUE] /\ transfer' = transfer /\ sendingRole' = sendingRole
      BY <2>1 DEF PauseWriter, roleVars
    <3>2. /\ q'.entries = q.entries /\ q'.disconnecting = q.disconnecting
          /\ q'.roleDrained = q.roleDrained
      BY <1>0, <3>1 DEF QueuesType
    <3> QED BY <1>0, <3>1, <3>2, StrandKept
  <2>2. CASE WriterPaused \/ FlushSent \/ FlushDone \/ ResumeWriter
    <3>1. q' = q /\ transfer' = transfer /\ sendingRole' = sendingRole
      BY <2>2 DEF WriterPaused, FlushSent, FlushDone, ResumeWriter, roleVars
    <3> QED BY <1>0, <3>1, StrandKept
  <2>3. CASE FlushPriority
    <3>1. SendFirstPriority /\ transfer' = transfer /\ sendingRole = NoRole
      BY <2>3, NobodySending DEF FlushPriority, roleVars
    <3>2. /\ q'.entries = q.entries /\ q'.disconnecting = q.disconnecting
          /\ q'.roleDrained = q.roleDrained
      BY <3>1, FirstPriorityEffect
    <3> QED BY <1>0, <3>1, <3>2, StrandKept
  <2>4. CASE FlushFails
    <3>1. Overflow(q).disconnecting
      BY <1>0, OverflowFields
    <3> QED BY <2>4, <3>1 DEF FlushFails, NoStrandedTransfer
  <2>5. CASE Activate
    BY <2>5, ActivateEffect, StrandActivation
  <2>6. CASE RefreshTrusted
    BY <2>6, RefreshEffect, StrandActivation
  <2> QED BY <1>3, <2>1, <2>2, <2>3, <2>4, <2>5, <2>6 DEF ActivationStep
<1>4. CASE Disconnect
  <2>1. Overflow(q).disconnecting
    BY <1>0, OverflowFields
  <2> QED BY <1>4, <2>1 DEF Disconnect, NoStrandedTransfer
<1>5. CASE Detach
  BY <1>5 DEF Detach, NoStrandedTransfer
<1>6. CASE Tick \/ UNCHANGED vars
  <2>1. q' = q /\ transfer' = transfer /\ sendingRole' = sendingRole
    BY <1>6 DEF Tick, vars, roleVars
  <2> QED BY <1>0, <2>1, StrandKept
<1> QED BY <1>1, <1>2, <1>3, <1>4, <1>5, <1>6 DEF Next

(* A transfer that waits for its role to drain waits for something: its role *)
(* has messages queued or one being sent, so the writer wakes it             *)
(* (connection.py, wait_role_drained and _mark_role_drained).                *)
THEOREM NoStrandedTransferHolds == Spec => []NoStrandedTransfer
<1>1. Init => IInv /\ NoStrandedTransfer
  BY InitIInv DEF Init, NoStrandedTransfer
<1>2. (IInv /\ NoStrandedTransfer) /\ [Next]_vars => (IInv /\ NoStrandedTransfer)'
  BY NextIInv, StrandNext
<1>3. IInv /\ NoStrandedTransfer => NoStrandedTransfer
  OBVIOUS
<1> QED BY <1>1, <1>2, <1>3, PTL DEF Spec
-----------------------------------------------------------------------------
(* The count of the queues, and the writer that is seen idle. *)

(* Nothing is queued. *)
Flushed(p) == p.priority = <<>> /\ p.normal = {} /\ \A r \in Roles : p.entries[r] = {}

Running == {"top", "peek", "sending", "waiting"}

(* The count is exact; the writer runs while no activation has stopped it,   *)
(* searches the heaps once the control messages are gone, and is idle only   *)
(* when nothing is queued: what is sent before it is resumed wakes it.       *)
CountInv ==
  /\ Sized(q, 0)
  /\ pause \in {"flushing", "quiet", "activating"} => writer \in {"off", "done"}
  /\ pause = "activating" => ~q.idle \/ q.disconnecting
  /\ writer = "peek" => q.priority = <<>> /\ q.normal = {}
  /\ q.idle /\ writer \in Running => Flushed(q)

(* The invariant contains the property. *)
LEMMA CountImplies == IInv /\ CountInv => QueuesAccounted
<1> SUFFICES ASSUME IInv, CountInv PROVE QueuesAccounted
  OBVIOUS
<1>1. IdleMeansFlushed
  BY DEF CountInv, Running, Flushed, IdleMeansFlushed
<1>2. Total(q) \in Nat /\ q.size = 0 + Total(q)
  BY TotalType DEF IInv, QueueInv, CountInv, Sized
<1>3. q.size = Total(q)
  BY <1>2
<1>4. QueueSizeExact
  BY <1>3 DEF Total, Pairs, Row, QueueSizeExact
<1> QED BY <1>1, <1>4 DEF QueuesAccounted

(* It holds of a new connection. *)
LEMMA CountInit == Init => CountInv
<1> SUFFICES ASSUME Init PROVE CountInv
  OBVIOUS
<1>1. /\ q.priority = <<>> /\ q.normal = {} /\ q.size = 0 /\ ~q.idle
      /\ \A r \in Roles : q.entries[r] = {}
  BY DEF Init, EmptyQueues
<1>2. Pairs(q.entries) = {}
  BY <1>1 DEF Pairs, Row
<1>3. Cardinality(q.normal) = 0 /\ Cardinality(Pairs(q.entries)) = 0
  BY <1>1, <1>2, FS_EmptySet, Zenon
<1>4. Len(q.priority) = 0
  BY <1>1
<1>5. Sized(q, 0)
  BY <1>1, <1>3, <1>4 DEF Sized, Total
<1> QED BY <1>1, <1>5 DEF Init, CountInv, Running

(* A step that counts what it does, away from the writer. *)
LEMMA CountKept ==
  ASSUME CountInv, Counts(q, q'), writer' = writer, writer # "peek",
         pause' \in {"flushing", "quiet", "activating"} => writer \in {"off", "done"},
         pause' = "activating" => pause = "activating" \/ ~q'.idle \/ q'.disconnecting
  PROVE  CountInv'
<1>1. Sized(q', 0)
  BY DEF CountInv, Counts
<1>2. /\ q.disconnecting => q'.disconnecting
      /\ q'.idle => q.idle /\ (Flushed(q) => Flushed(q'))
  BY DEF Counts, Calls, Flushed
<1> QED BY <1>1, <1>2 DEF CountInv

(* A step that leaves the queues and the writer alone. *)
LEMMA CountStutter ==
  ASSUME CountInv, q' = q, writer' = writer, pause' = pause
  PROVE  CountInv'
BY DEF CountInv

(* The first of the priority messages is no longer counted. *)
LEMMA HeadSized ==
  ASSUME NEW p \in QueuesType, NEW d \in QueuesType, NEW k \in Nat, Sized(p, k),
         p.priority # <<>>, d.priority = Tail(p.priority), d.entries = p.entries,
         d.normal = p.normal, d.seq = p.seq, d.size = Minus(p.size, 1)
  PROVE  Sized(d, k)
<1> DEFINE n == Cardinality(p.normal)
           c == Cardinality(Pairs(p.entries))
           l == Len(p.priority)
<1>1. p.priority \in Seq(Msg)
  BY DEF QueuesType
<1>2. l \in Nat /\ l > 0 /\ Len(d.priority) = l - 1
  BY <1>1
<1>3. n \in Nat /\ c \in Nat
  BY TotalType
<1>4. p.size = k + (l + n + c) /\ Total(d) = (l - 1) + n + c
  BY <1>2 DEF Sized, Total
<1> HIDE DEF n, c, l
<1>5. d.size = k + Total(d)
  BY <1>2, <1>3, <1>4 DEF Minus
<1> QED BY <1>5 DEF Sized

(* Nor is a control message that leaves. *)
LEMMA NormalSized ==
  ASSUME NEW p \in QueuesType, NEW d \in QueuesType, NEW k \in Nat, Sized(p, k), NEW m \in p.normal,
         d.normal = p.normal \ {m}, d.entries = p.entries, d.priority = p.priority,
         d.seq = p.seq, d.size = Minus(p.size, 1)
  PROVE  Sized(d, k)
<1> DEFINE n == Cardinality(p.normal)
           c == Cardinality(Pairs(p.entries))
           l == Len(p.priority)
<1>1. IsFiniteSet(p.normal)
  BY DEF QueuesType, Finite
<1>2. Cardinality(d.normal) = n - 1
  BY <1>1, FS_RemoveElement
<1>3. l \in Nat /\ n \in Nat /\ c \in Nat /\ Cardinality(d.normal) \in Nat
  BY TotalType
<1>4. p.size = k + (l + n + c) /\ Total(d) = l + (n - 1) + c
  BY <1>2 DEF Sized, Total
<1> HIDE DEF n, c, l
<1>5. d.size = k + Total(d)
  BY <1>2, <1>3, <1>4 DEF Minus
<1>6. \A x \in d.normal : x.at < d.seq
  BY DEF Sized
<1> QED BY <1>5, <1>6 DEF Sized

(* A step that takes nothing off a queue. *)
LEMMA HeldSized ==
  ASSUME q \in QueuesType, q' \in QueuesType, Sized(q, 0), Holdings(q') = Holdings(q),
         q'.size = q.size
  PROVE  Sized(q', 0) /\ (Flushed(q) => Flushed(q'))
         /\ q'.priority = q.priority /\ q'.normal = q.normal
<1>1. /\ q'.entries = q.entries /\ q'.priority = q.priority /\ q'.normal = q.normal
      /\ q'.seq = q.seq
  BY HoldingsOf
<1>2. q.seq <= q'.seq
  BY <1>1, TotalType
<1>3. Sized(q', 0)
  BY <1>1, <1>2, CountSame
<1> QED BY <1>1, <1>3 DEF Flushed

(* Of its own accord the writer becomes idle only when it waits or ends. *)
LEMMA WriterIdle ==
  ASSUME IInv, WriterStep, ~(WriterStops \/ WriterWaits \/ WriterEnds)
  PROVE  q'.idle = q.idle
<1>0. q \in QueuesType /\ clock \in Nat
  BY DEF IInv, QueueInv, RestTypeOK
<1>1. CASE WriterSendsControl
  <2>1. PICK p, m, r : p \in QueuesType /\ p.idle = q.idle /\ Transmit(p, m, r)
    <3>1. CASE SendFirstPriority
      <4> DEFINE p == [q EXCEPT !.priority = Tail(@), !.size = Minus(@, 1)]
      <4>1. q.priority \in Seq(Msg) /\ q.priority # <<>> /\ q.size \in Nat
        BY <1>0, <3>1 DEF QueuesType, SendFirstPriority
      <4>2. Tail(q.priority) \in Seq(Msg) /\ Minus(q.size, 1) \in Nat
        BY <4>1 DEF Minus
      <4>3. p \in QueuesType /\ p.idle = q.idle
        BY <1>0, <4>2 DEF QueuesType
      <4> QED BY <3>1, <4>3 DEF SendFirstPriority
    <3>2. ASSUME NEW c \in q.normal,
                 Transmit([q EXCEPT !.normal = @ \ {c}, !.size = Minus(@, 1)], c.msg, NoRole)
          PROVE  \E p, m, r : p \in QueuesType /\ p.idle = q.idle /\ Transmit(p, m, r)
      <4> DEFINE p == [q EXCEPT !.normal = @ \ {c}, !.size = Minus(@, 1)]
      <4>0. IsFiniteSet(q.normal) /\ q.normal \in SUBSET NormalEntry /\ q.size \in Nat
        BY <1>0 DEF QueuesType, Finite
      <4>1. q.normal \ {c} \in Finite(NormalEntry) /\ Minus(q.size, 1) \in Nat
        BY <4>0, FS_Subset DEF Minus, Finite
      <4>2. p \in QueuesType /\ p.idle = q.idle
        BY <1>0, <4>1 DEF QueuesType
      <4> QED BY <3>2, <4>2
    <3> QED BY <1>1, <3>1, <3>2 DEF WriterSendsControl
  <2>2. OnWire(p, m).idle = p.idle
    BY <2>1, OnWireFields
  <2> QED BY <2>1, <2>2 DEF Transmit
<1>2. CASE WriterPromotes
  BY <1>0, <1>2, PromoteFields DEF WriterPromotes
<1>3. CASE WriterSkips
  <2>1. PICK k \in q.ready :
          q' = IF q.blocked[k.role] # NoTime THEN [q EXCEPT !.ready = @ \ {k}]
               ELSE Schedule([q EXCEPT !.ready = @ \ {k}], k.role)
    BY <1>3 DEF WriterSkips
  <2> DEFINE p == [q EXCEPT !.ready = @ \ {k}]
  <2>2. k.role \in Roles /\ p \in QueuesType /\ p.idle = q.idle
    BY <1>0 DEF QueuesType, ReadyKey
  <2> HIDE DEF p
  <2>3. Schedule(p, k.role).idle = p.idle
    BY <2>2, ScheduleFields
  <2> QED BY <2>1, <2>2, <2>3 DEF p
<1>4. CASE WriterWakes
  BY <1>4 DEF WriterWakes
<1>5. CASE WriterDrops
  <2>1. PICK r \in Roles : \E e : q' = RoleDone(Schedule(Take(Popped(r, e), r, {e}), r), r)
                                  /\ e \in q.entries[r]
    BY <1>5 DEF WriterDrops
  <2>2. PICK e : q' = RoleDone(Schedule(Take(Popped(r, e), r, {e}), r), r) /\ e \in q.entries[r]
    BY <2>1
  <2> DEFINE p == Popped(r, e)
             t == Take(p, r, {e})
             s == Schedule(t, r)
  <2>3. QueueInv(p, Exempt \cup {r}) /\ p.idle = q.idle /\ p.entries = q.entries
    BY <1>0, PopInv DEF IInv, Popped, Key, QueuesType
  <2>4. p \in QueuesType /\ e \in p.entries[r]
    BY <2>2, <2>3 DEF QueueInv
  <2> HIDE DEF p
  <2>5. QueueInv(t, Exempt \cup {r}) /\ t.idle = p.idle
    <3>1. QueueInv(t, Exempt \cup {r})
      BY <2>3, <2>4, TakeInv
    <3>2. /\ t.entries = [p.entries EXCEPT ![r] = @ \ {e}]
          /\ t.lastTs = p.lastTs /\ t.epoch = p.epoch
          /\ t.priority = p.priority /\ t.normal = p.normal /\ t.streaming = p.streaming
          /\ t.disconnecting = p.disconnecting /\ t.seq = p.seq
          /\ t.size = Minus(p.size, Cardinality({e}))
          /\ t.roleDrained = p.roleDrained /\ t.idle = p.idle
      BY <2>4, TakeFields
    <3> QED BY <3>1, <3>2
  <2>6. t \in QueuesType
    BY <2>5 DEF QueueInv
  <2> HIDE DEF t
  <2>7. s.idle = t.idle /\ s \in QueuesType
    BY <2>5, <2>6, ScheduleFields, ScheduleInv DEF QueueInv
  <2> HIDE DEF s
  <2>8. RoleDone(s, r).idle = s.idle
    BY <2>7, RoleDoneFields
  <2> QED BY <2>2, <2>3, <2>5, <2>7, <2>8 DEF s, t, p
<1>6. CASE WriterBlocks
  <2>1. PICK r \in Roles : \E e : q' = Block(Popped(r, e), r, e.room)
    BY <1>6 DEF WriterBlocks
  <2>2. PICK e : q' = Block(Popped(r, e), r, e.room)
    BY <2>1
  <2> DEFINE p == Popped(r, e)
  <2>3. p \in QueuesType /\ p.idle = q.idle
    BY <1>0 DEF Popped, QueuesType
  <2> HIDE DEF p
  <2>4. Block(p, r, e.room).idle = p.idle
    BY <2>3, BlockFields
  <2> QED BY <2>2, <2>3, <2>4 DEF p
<1>7. CASE WriterSendsRole
  <2>1. PICK r \in Roles : \E e, M : /\ M \in SUBSET q.entries[r] /\ e \in q.entries[r]
                                     /\ Transmit(Take(Popped(r, e), r, {e} \cup M), Message(e.kind, r), r)
    BY <1>7 DEF WriterSendsRole, Mergeable
  <2>2. PICK e, M : /\ M \in SUBSET q.entries[r] /\ e \in q.entries[r]
                    /\ Transmit(Take(Popped(r, e), r, {e} \cup M), Message(e.kind, r), r)
    BY <2>1
  <2> DEFINE p == Popped(r, e)
             t == Take(p, r, {e} \cup M)
  <2>3. QueueInv(p, Exempt \cup {r}) /\ p.idle = q.idle /\ p.entries = q.entries
    BY <1>0, PopInv DEF IInv, Popped, Key, QueuesType
  <2>4. p \in QueuesType /\ {e} \cup M \in SUBSET p.entries[r]
    BY <2>2, <2>3 DEF QueueInv
  <2> HIDE DEF p
  <2>5. QueueInv(t, Exempt \cup {r}) /\ t.idle = p.idle
    <3>1. QueueInv(t, Exempt \cup {r})
      BY <2>3, <2>4, TakeInv
    <3>2. /\ t.entries = [p.entries EXCEPT ![r] = @ \ ({e} \cup M)]
          /\ t.lastTs = p.lastTs /\ t.epoch = p.epoch
          /\ t.priority = p.priority /\ t.normal = p.normal /\ t.streaming = p.streaming
          /\ t.disconnecting = p.disconnecting /\ t.seq = p.seq
          /\ t.size = Minus(p.size, Cardinality({e} \cup M))
          /\ t.roleDrained = p.roleDrained /\ t.idle = p.idle
      BY <2>4, TakeFields
    <3> QED BY <3>1, <3>2
  <2>6. t \in QueuesType
    BY <2>5 DEF QueueInv
  <2> HIDE DEF t
  <2>7. OnWire(t, Message(e.kind, r)).idle = t.idle
    BY <2>6, OnWireFields
  <2> QED BY <2>2, <2>3, <2>5, <2>7 DEF Transmit, t, p
<1>8. CASE WriterSent
  <2>1. CASE sendingRole = NoRole
    BY <1>8, <2>1 DEF WriterSent
  <2>2. CASE sendingRole # NoRole
    <3> DEFINE s == Schedule(q, sendingRole)
    <3>1. sendingRole \in Roles
      BY <2>2 DEF IInv, RestTypeOK
    <3>2. s.idle = q.idle /\ s \in QueuesType
      BY <1>0, <3>1, ScheduleFields, ScheduleInv DEF IInv, QueueInv
    <3> HIDE DEF s
    <3>3. RoleDone(s, sendingRole).idle = s.idle
      BY <3>1, <3>2, RoleDoneFields
    <3> QED BY <1>8, <2>2, <3>2, <3>3 DEF WriterSent, s
  <2> QED BY <2>1, <2>2
<1> QED BY <1>1, <1>2, <1>3, <1>4, <1>5, <1>6, <1>7, <1>8 DEF WriterStep

(* A message taken off the heaps is no longer counted. *)
LEMMA WriterSized ==
  ASSUME IInv, WriterStep, Sized(q, 0)
  PROVE  Sized(q', 0)
<1>0. q \in QueuesType /\ q' \in QueuesType
  BY WriterStepInv DEF IInv, QueueInv
<1>1. CASE \/ WriterStops \/ WriterPromotes \/ WriterSkips \/ WriterWaits \/ WriterWakes
           \/ WriterBlocks
  BY <1>0, <1>1, IdleStepEffect, HeldSized
<1>2. CASE WriterSendsControl
  <2>1. CASE SendFirstPriority
    BY <1>0, <2>1, FirstPriorityEffect, HeadSized
  <2>2. ASSUME NEW c \in q.normal,
               Transmit([q EXCEPT !.normal = @ \ {c}, !.size = Minus(@, 1)], c.msg, NoRole)
        PROVE  Sized(q', 0)
    BY <1>0, <2>2, NormalEffect, NormalSized
  <2> QED BY <1>2, <2>1, <2>2 DEF WriterSendsControl
<1>3. CASE WriterDrops
  <2>r. PICK r \in Roles : \E e \in q.entries[r] : Dropped(r, e)
    BY <1>3, WriterDropsEffect
  <2>1. PICK e \in q.entries[r] : Dropped(r, e)
    BY <2>r
  <2>2. /\ {e} \in SUBSET q.entries[r] /\ q'.entries = [q.entries EXCEPT ![r] = @ \ {e}]
        /\ q'.priority = q.priority /\ q'.normal = q.normal /\ q'.seq = q.seq
        /\ q'.size = Minus(q.size, Cardinality({e}))
    BY <2>1, FS_Singleton DEF Dropped
  <2> QED BY <1>0, <2>2, CountTaken
<1>4. CASE WriterSendsRole
  <2>r. PICK r \in Roles : \E e \in q.entries[r] : \E M \in SUBSET q.entries[r] : Sent(r, e, M)
    BY <1>4, WriterSendsRoleEffect
  <2>e. PICK e \in q.entries[r] : \E M \in SUBSET q.entries[r] : Sent(r, e, M)
    BY <2>r
  <2>1. PICK M \in SUBSET q.entries[r] : Sent(r, e, M)
    BY <2>e
  <2>2. /\ {e} \cup M \in SUBSET q.entries[r]
        /\ q'.entries = [q.entries EXCEPT ![r] = @ \ ({e} \cup M)]
        /\ q'.priority = q.priority /\ q'.normal = q.normal /\ q'.seq = q.seq
        /\ q'.size = Minus(q.size, Cardinality({e} \cup M))
    BY <2>1 DEF Sent
  <2> QED BY <1>0, <2>2, CountTaken
<1>5. CASE WriterSent
  BY <1>0, <1>5, WriterSentEffect, HeldSized
<1>6. CASE WriterEnds
  <2> DEFINE d == IF sendingRole = NoRole THEN q ELSE RoleDone(q, sendingRole)
  <2>1. QueueInv(d, Exempt)
    BY RoleDoneInv DEF IInv
  <2>2. d \in QueuesType
    BY <2>1 DEF QueueInv
  <2>3. /\ d.entries = q.entries /\ d.priority = q.priority /\ d.normal = q.normal
        /\ d.seq = q.seq /\ d.size = q.size
    <3>1. CASE sendingRole = NoRole
      BY <3>1
    <3>2. CASE sendingRole # NoRole
      BY <1>0, <3>2, RoleDoneFields DEF IInv, RestTypeOK
    <3> QED BY <3>1, <3>2
  <2>4. q' = [d EXCEPT !.disconnecting = TRUE, !.idle = TRUE]
    BY <1>6 DEF WriterEnds
  <2> HIDE DEF d
  <2>5. /\ q'.entries = q.entries /\ q'.priority = q.priority /\ q'.normal = q.normal
        /\ q'.seq = q.seq /\ q'.size = q.size
    BY <2>2, <2>3, <2>4 DEF QueuesType
  <2>6. q.seq <= q'.seq
    BY <1>0, <2>5, TotalType
  <2> QED BY <1>0, <2>5, <2>6, CountSame
<1> QED BY <1>1, <1>2, <1>3, <1>4, <1>5, <1>6 DEF WriterStep

(* When neither heap holds a key, no role has anything queued. *)
LEMMA HeapsEmpty ==
  ASSUME IInv, writer = "peek", q.ready = {}, q.delayed = {}
  PROVE  \A r \in Roles : q.entries[r] = {}
<1>1. Exempt = {NoRole}
  BY NobodySending DEF Exempt
<1>2. ASSUME NEW r \in Roles, q.entries[r] # {} PROVE FALSE
  <2>1. Held(q, r) /\ Competing(q, r)
    BY <1>1, QueuesAssumption DEF IInv, QueueInv
  <2> QED BY <1>2, <2>1 DEF Held, Competing
<1> QED BY <1>2

(* No step of the writer loses the count, or is taken for idle too early. *)
LEMMA CountWriterStep ==
  ASSUME IInv, CountInv, WriterStep
  PROVE  CountInv'
<1>1. Sized(q', 0)
  BY WriterSized DEF CountInv
<1>2. writer \in Running /\ pause' = pause
  BY DEF WriterStep, WriterStops, WriterSendsControl, WriterPromotes, WriterSkips, WriterWaits,
         WriterWakes, WriterDrops, WriterBlocks, WriterSendsRole, WriterSent, WriterEnds, Peeked,
         Running
<1>3. pause' \notin {"flushing", "quiet", "activating"}
  BY <1>2 DEF CountInv, Running
<1>4. q.idle => Flushed(q)
  BY <1>2 DEF CountInv
<1>0. q \in QueuesType /\ q' \in QueuesType
  BY WriterStepInv DEF IInv, QueueInv
<1> SUFFICES /\ writer' = "peek" => q'.priority = <<>> /\ q'.normal = {}
             /\ q'.idle /\ writer' \in Running => Flushed(q')
  BY <1>1, <1>3 DEF CountInv
<1>5. CASE WriterStops \/ WriterEnds
  BY <1>5 DEF WriterStops, WriterEnds, Running
<1>6. CASE WriterPromotes \/ WriterSkips \/ WriterWakes \/ WriterBlocks
  <2>1. /\ Flushed(q) => Flushed(q')
        /\ q'.priority = q.priority /\ q'.normal = q.normal
    BY <1>0, <1>6, IdleStepEffect, HeldSized DEF CountInv
  <2>2. writer' = "peek" => q.priority = <<>> /\ q.normal = {}
    BY <1>6 DEF WriterPromotes, WriterSkips, WriterWakes, WriterBlocks, CountInv
  <2>3. (~WriterStops /\ ~WriterWaits /\ ~WriterEnds) \/ q'.idle = q.idle
    BY <1>6 DEF WriterPromotes, WriterSkips, WriterWakes, WriterBlocks, WriterStops, WriterWaits, WriterEnds
  <2>4. q'.idle = q.idle
    BY <2>3, WriterIdle
  <2> QED BY <1>4, <2>1, <2>2, <2>4
<1>7. CASE WriterWaits
  <2>1. /\ Flushed(q) => Flushed(q')
        /\ q'.priority = q.priority /\ q'.normal = q.normal /\ Holdings(q') = Holdings(q)
    BY <1>0, <1>7, IdleStepEffect, HeldSized DEF CountInv
  <2>2. CASE q.delayed = {}
    <3>1. Flushed(q)
      BY <1>7, <2>2, HeapsEmpty DEF WriterWaits, CountInv, Flushed
    <3> QED BY <1>7, <2>1, <3>1 DEF WriterWaits
  <2>3. CASE q.delayed # {}
    <3>1. q'.idle = q.idle
      BY <1>0, <1>7, <2>3 DEF WriterWaits, QueuesType
    <3> QED BY <1>4, <1>7, <2>1, <3>1 DEF WriterWaits
  <2> QED BY <2>2, <2>3
<1>8. CASE WriterSendsControl \/ WriterDrops \/ WriterSendsRole
  <2>1. ~Flushed(q)
    <3>1. CASE WriterSendsControl
      BY <3>1 DEF WriterSendsControl, SendFirstPriority, Flushed
    <3>2. CASE WriterDrops \/ WriterSendsRole
      BY <3>2 DEF WriterDrops, WriterSendsRole, Flushed
    <3> QED BY <1>8, <3>1, <3>2
  <2>2. writer' \in {"sending", "top"}
    BY <1>8 DEF WriterSendsControl, WriterDrops, WriterSendsRole
  <2>3. q'.idle = q.idle
    <3>1. ~WriterStops
      BY <1>8 DEF WriterSendsControl, WriterDrops, WriterSendsRole, WriterStops, Peeked
    <3>2. ~WriterWaits
      BY <2>2 DEF WriterWaits
    <3>3. ~WriterEnds
      BY <2>2 DEF WriterEnds
    <3> QED BY <3>1, <3>2, <3>3, WriterIdle
  <2> QED BY <1>4, <2>1, <2>2, <2>3
<1>9. CASE WriterSent
  <2>1. Flushed(q) => Flushed(q')
    BY <1>0, <1>9, WriterSentEffect, HeldSized DEF CountInv
  <2>2. q'.idle = q.idle /\ writer' = "top"
    <3>1. ~WriterStops /\ ~WriterWaits /\ ~WriterEnds
      BY <1>9 DEF WriterSent, WriterStops, WriterWaits, WriterEnds
    <3> QED BY <1>9, <3>1, WriterIdle DEF WriterSent
  <2> QED BY <1>4, <2>1, <2>2
<1> QED BY <1>5, <1>6, <1>7, <1>8, <1>9 DEF WriterStep

(* An activation queues a message of its own, so the writer is not idle. *)
LEMMA ActivationWakes ==
  ASSUME NEW p, NEW X, QueueInv(p, X), NEW new \in SUBSET Roles, IInv
  PROVE  LET d == SendActivation(p, new) IN ~d.idle \/ d.disconnecting
<1> DEFINE gone == active \ new
           r    == CHOOSE x \in gone : TRUE
           torn == IF gone = {} THEN p ELSE EndStream(DiscardRoleQueue(p, r), r, {r})
<1>1. torn \in QueuesType
  <2>1. CASE gone = {}
    BY <2>1 DEF QueueInv
  <2>2. CASE gone # {}
    <3>1. r \in Roles /\ clock \in Nat
      BY <2>2 DEF IInv, RestTypeOK
    <3> HIDE DEF r
    <3> DEFINE a == DiscardRoleQueue(p, r)
    <3>2. QueueInv(a, X)
      BY <3>1, DiscardRoleQueueInv
    <3> HIDE DEF a
    <3>3. QueueInv(EndStream(a, r, {r}), X)
      BY <3>1, <3>2, EndStreamInv
    <3> QED BY <2>2, <3>3 DEF QueueInv, a
  <2> QED BY <2>1, <2>2
<1>2. SendActivation(p, new) = SendPriority(torn, Activation(new))
  BY DEF SendActivation
<1> HIDE DEF torn
<1> DEFINE d == SendPriority(torn, Activation(new))
<1>3. d.disconnecting \/ ~d.idle
  <2>1. \/ /\ d.disconnecting /\ d.priority = torn.priority
           /\ d.seq = torn.seq /\ d.size = torn.size /\ d.idle = torn.idle
        \/ /\ d.disconnecting = torn.disconnecting
           /\ d.priority = Append(torn.priority, Activation(new))
           /\ d.seq = torn.seq + 1 /\ d.size = torn.size + 1 /\ ~d.idle
    BY <1>1, SendPriorityFields
  <2> HIDE DEF d
  <2> QED BY <2>1
<1> HIDE DEF d
<1> QED BY <1>2, <1>3 DEF d

(* Nor does a step of an activation. *)
LEMMA CountActivationStep ==
  ASSUME IInv, CountInv, ActivationStep
  PROVE  CountInv'
<1>0. q \in QueuesType /\ q' \in QueuesType
  BY ActivationStepInv DEF IInv, QueueInv
<1>c. FlushPriority \/ Counts(q, q')
  BY ActivationStepQueues
<1>1. CASE PauseWriter
  <2>1. q' = [q EXCEPT !.wake = TRUE] /\ writer' = writer /\ pause' = "stopping" /\ writer # "peek"
    BY <1>1 DEF PauseWriter, LoopFree
  <2>2. ~FlushPriority
    BY <1>1 DEF PauseWriter, FlushPriority
  <2> QED BY <1>c, <2>1, <2>2, CountKept
<1>2. CASE FlushPriority
  <2>1. SendFirstPriority /\ writer' = writer /\ pause' = pause /\ writer \in {"off", "done"}
    BY <1>2 DEF FlushPriority
  <2>2. Sized(q', 0)
    BY <1>0, <2>1, FirstPriorityEffect, HeadSized DEF CountInv
  <2>3. q'.idle = q.idle /\ q'.disconnecting = q.disconnecting
    BY <2>1, SendFirstPriorityInv DEF IInv
  <2> QED BY <2>1, <2>2, <2>3 DEF CountInv, Running
<1>3. CASE WriterPaused \/ FlushSent \/ FlushDone
  <2>1. q' = q /\ writer' = writer
    BY <1>3 DEF WriterPaused, FlushSent, FlushDone
  <2>2. pause' = pause \/ (pause' \in {"flushing", "quiet"} /\ writer \in {"off", "done"})
    BY <1>3 DEF WriterPaused, FlushSent, FlushDone, CountInv
  <2> QED BY <2>1, <2>2 DEF CountInv
<1>4. CASE FlushFails
  <2>1. writer' = writer /\ pause' = pause /\ pause \in {"flushing", "activating"} /\ Counts(q, q')
    BY <1>0, <1>4, OverflowCounts DEF FlushFails
  <2>2. writer # "peek"
    BY <2>1 DEF CountInv
  <2> QED BY <2>1, <2>2, CountKept DEF CountInv
<1>5. CASE Activate
  <2>1. PICK new \in SUBSET Roles : ActivatedQueues(new, SendActivation(Aside, new))
    BY <1>5, ActivateEffect
  <2>2. writer # "peek" /\ pause = "quiet" /\ pause' = "activating" /\ writer' = writer
    BY <1>5 DEF Activate, LoopFree
  <2> DEFINE d == SendActivation(Aside, new)
  <2>3. ~d.idle \/ d.disconnecting
    BY AsideFields, ActivationWakes
  <2> HIDE DEF d
  <2>4. q'.idle = d.idle /\ q'.disconnecting = d.disconnecting
    BY <2>1 DEF ActivatedQueues, d
  <2>5. ~FlushPriority
    BY <2>2 DEF FlushPriority
  <2>6. writer \in {"off", "done"}
    BY <2>2 DEF CountInv
  <2> QED BY <1>c, <2>2, <2>3, <2>4, <2>5, <2>6, CountKept
<1>6. CASE RefreshTrusted
  <2>1. writer # "peek" /\ pause' = pause /\ writer' = writer
    BY <1>6 DEF RefreshTrusted, LoopFree
  <2>2. PICK new \in SUBSET Roles : q' = SendActivation(q, new)
    BY <1>6 DEF RefreshTrusted
  <2>3. Counts(q, q')
    BY <2>2, SendActivationInv DEF IInv
  <2> QED BY <2>1, <2>3, CountKept DEF CountInv
<1>7. CASE ResumeWriter
  <2>1. q' = q /\ pause' = "no" /\ writer' = "top" /\ ~q.idle
    BY <1>7 DEF ResumeWriter, CountInv
  <2> QED BY <2>1 DEF CountInv
<1> QED BY <1>1, <1>2, <1>3, <1>4, <1>5, <1>6, <1>7 DEF ActivationStep

(* No step loses the count. *)
LEMMA CountNext ==
  ASSUME IInv, CountInv, [Next]_vars
  PROVE  CountInv'
<1>0. q \in QueuesType
  BY DEF IInv, QueueInv
<1>1. CASE RoleStep
  <2>1. Unsent /\ writer # "peek"
    BY <1>1 DEF RoleStep, SendControl, SendStreamStart, SendChunk, SendStreamClear, SendStreamEnd,
           SendState, BeginTransfer, TransferWakes, CancelTransfer, MayQueue, LoopFree
  <2>2. Counts(q, q')
    BY <1>1, RoleStepQueues
  <2>3. writer' = writer /\ pause' = pause
    BY <2>1 DEF Unsent
  <2> QED BY <2>1, <2>2, <2>3, CountKept DEF CountInv
<1>2. CASE WriterStep
  BY <1>2, CountWriterStep
<1>3. CASE ActivationStep
  BY <1>3, CountActivationStep
<1>4. CASE Disconnect
  <2>1. Counts(q, q') /\ writer' = writer /\ pause' = pause /\ writer # "peek"
    BY <1>0, <1>4, OverflowCounts DEF Disconnect, LoopFree
  <2> QED BY <2>1, CountKept DEF CountInv
<1>5. CASE Detach
  BY <1>5 DEF Detach, CountInv, Running
<1>6. CASE Tick \/ UNCHANGED vars
  <2>1. q' = q /\ writer' = writer /\ pause' = pause
    BY <1>6 DEF Tick, vars
  <2> QED BY <2>1, CountStutter
<1> QED BY <1>1, <1>2, <1>3, <1>4, <1>5, <1>6 DEF Next

(* The count on which the queues' cap and queue_status rest is exact, and a  *)
(* writer that waits and is seen idle has nothing queued: the pairing that   *)
(* waits for it finds the transport flushed (connection.py, _queue_size and  *)
(* _writer_idle).                                                            *)
THEOREM QueuesAccountedHolds == Spec => []QueuesAccounted
<1>1. Init => IInv /\ CountInv
  BY InitIInv, CountInit
<1>2. (IInv /\ CountInv) /\ [Next]_vars => (IInv /\ CountInv)'
  BY NextIInv, CountNext
<1>3. IInv /\ CountInv => QueuesAccounted
  BY CountImplies
<1> QED BY <1>1, <1>2, <1>3, PTL DEF Spec

-----------------------------------------------------------------------------
(* The kinds of message a role queues. *)
KindsOf(r) ==
  IF r \in Stateful THEN {"state"}
  ELSE IF r \in Untimed THEN {"start", "end", "chunk", "exempt"}
  ELSE {"start", "clear", "end", "chunk"}

(* An entry that no invalidation has overtaken, in a role at epoch n. *)
Live(e, n) == e.kind = "chunk" => e.epoch = n

(* The messages S of role r, at epoch n, whose last timestamp is last: those *)
(* that will be sent sort as they were queued, none behind the last one, and *)
(* the one stream/end there may be precedes every start and live chunk.      *)
InOrder(S, n, last, r) ==
  /\ \A e \in S : e.kind \in KindsOf(r) /\ e.epoch <= n /\ (Live(e, n) => e.ts <= last)
  /\ \A e, f \in S : Live(e, n) /\ Live(f, n) /\ e.seq < f.seq => Before(e, f)
  /\ \A e, f \in S : e.kind = "end" /\ f.kind = "end" => e = f
  /\ \A e, f \in S : e.kind = "end" /\ f.kind \in {"start", "chunk"} /\ Live(f, n) => e.seq < f.seq

(* The same of the queue of role r; what carries no timestamp sorts before now. *)
OrderedAt(p, r, now) ==
  /\ r \in Untimed => p.lastTs[r] <= now
  /\ InOrder(p.entries[r], p.epoch[r], p.lastTs[r], r)

Ordered == \A r \in Roles : OrderedAt(q, r, clock)

(* Messages that leave disturb no order. *)
LEMMA InOrderFewer ==
  ASSUME NEW S, NEW n, NEW last, NEW r, InOrder(S, n, last, r), NEW T \in SUBSET S
  PROVE  InOrder(T, n, last, r)
BY DEF InOrder

(* At the next epoch every chunk queued is invalid. *)
LEMMA InOrderLater ==
  ASSUME NEW S \in SUBSET Entry, NEW n \in Nat, NEW last, NEW r, InOrder(S, n, last, r)
  PROVE  InOrder(S, n + 1, last, r) /\ \A e \in S : e.kind = "chunk" => ~Live(e, n + 1)
<1>1. \A e \in S : e.kind = "chunk" => ~Live(e, n + 1)
  BY DEF InOrder, Live, Entry
<1>2. \A e \in S : Live(e, n + 1) => Live(e, n)
  BY <1>1 DEF Live
<1>3. \A e \in S : e.epoch <= n + 1
  BY DEF InOrder, Entry
<1> QED BY <1>1, <1>2, <1>3 DEF InOrder

(* A message no earlier than the last one joins the end. *)
LEMMA InOrderMore ==
  ASSUME NEW S \in SUBSET Entry, NEW n \in Nat, NEW last \in Nat, NEW r, InOrder(S, n, last, r),
         NEW e \in Entry, e.kind \in KindsOf(r), e.kind # "end", e.epoch = n, last <= e.ts,
         \A f \in S : f.seq < e.seq
  PROVE  InOrder(S \cup {e}, n, e.ts, r)
<1> DEFINE T == S \cup {e}
<1>1. \A f \in S : Live(f, n) => f.ts <= e.ts
  BY DEF InOrder, Entry
<1>2. \A f \in T : f.kind \in KindsOf(r) /\ f.epoch <= n /\ (Live(f, n) => f.ts <= e.ts)
  BY <1>1 DEF InOrder, Entry
<1>3. ASSUME NEW f \in T, NEW g \in T, Live(f, n), Live(g, n), f.seq < g.seq
      PROVE  Before(f, g)
  <2>1. CASE f \in S /\ g \in S
    BY <1>3, <2>1 DEF InOrder
  <2>2. CASE f \in S /\ g = e
    BY <1>1, <1>3, <2>2 DEF Before, Entry
  <2>3. CASE f = e
    BY <1>3, <2>3 DEF Entry
  <2> QED BY <2>1, <2>2, <2>3
<1>4. \A f, g \in T : f.kind = "end" /\ g.kind = "end" => f = g
  BY DEF InOrder
<1>5. \A f, g \in T : f.kind = "end" /\ g.kind \in {"start", "chunk"} /\ Live(g, n) => f.seq < g.seq
  BY DEF InOrder
<1> QED BY <1>2, <1>3, <1>4, <1>5 DEF InOrder

(* A stream/end at the current time follows what it has not superseded. *)
LEMMA InOrderEnd ==
  ASSUME NEW S \in SUBSET Entry, NEW n \in Nat, NEW last \in Nat, NEW r, InOrder(S, n, last, r),
         NEW e \in Entry, e.kind = "end", "end" \in KindsOf(r), e.epoch = n,
         \A f \in S : f.kind \notin {"start", "clear", "end"} /\ (f.kind = "chunk" => ~Live(f, n)),
         r \in Untimed => last <= e.ts, \A f \in S : f.seq < e.seq
  PROVE  InOrder(S \cup {e}, n, e.ts, r)
<1> DEFINE T == S \cup {e}
<1>1. \A f \in S : Live(f, n) => f.kind = "exempt" /\ f.ts <= e.ts
  BY DEF InOrder, Entry, KindsOf
<1>2. \A f \in T : f.kind \in KindsOf(r) /\ f.epoch <= n /\ (Live(f, n) => f.ts <= e.ts)
  BY <1>1 DEF InOrder, Entry
<1>3. ASSUME NEW f \in T, NEW g \in T, Live(f, n), Live(g, n), f.seq < g.seq
      PROVE  Before(f, g)
  <2>1. CASE f \in S /\ g \in S
    BY <1>3, <2>1 DEF InOrder
  <2>2. CASE f \in S /\ g = e
    BY <1>1, <1>3, <2>2 DEF Before, Entry
  <2>3. CASE f = e
    BY <1>3, <2>3 DEF Entry
  <2> QED BY <2>1, <2>2, <2>3
<1>4. \A f, g \in T : f.kind = "end" /\ g.kind = "end" => f = g
  OBVIOUS
<1>5. \A f, g \in T : f.kind = "end" /\ g.kind \in {"start", "chunk"} /\ Live(g, n) => f.seq < g.seq
  OBVIOUS
<1> QED BY <1>2, <1>3, <1>4, <1>5 DEF InOrder

(* What the queue of one role is made of. *)
LEMMA RoleTypes ==
  ASSUME NEW p \in QueuesType, NEW r \in Roles
  PROVE  /\ p.entries[r] \in SUBSET Entry /\ p.epoch[r] \in Nat /\ p.lastTs[r] \in Nat
         /\ p.seq \in Nat
BY DEF QueuesType, Finite

(* Only the queue, the epoch and the last timestamp of the role matter. *)
LEMMA OrderedSame ==
  ASSUME NEW p, NEW d, NEW r, NEW now \in Nat, NEW later \in Nat, now <= later,
         p \in QueuesType, r \in Roles,
         OrderedAt(p, r, now),
         d.entries[r] = p.entries[r], d.lastTs[r] = p.lastTs[r], d.epoch[r] = p.epoch[r]
  PROVE  OrderedAt(d, r, later)
BY RoleTypes DEF OrderedAt

(* Every chunk of the role is invalid. *)
AllInvalid(p, r) == \A e \in p.entries[r] : e.kind = "chunk" => ~Live(e, p.epoch[r])

(* Invalidating the binary of a role. *)
LEMMA OrderedDrop ==
  ASSUME NEW p \in QueuesType, NEW r \in Roles, NEW now, OrderedAt(p, r, now)
  PROVE  OrderedAt(DropPending(p, r), r, now) /\ AllInvalid(DropPending(p, r), r)
<1> DEFINE d == DropPending(p, r)
<1>1. d.entries = p.entries /\ d.lastTs = p.lastTs /\ d.epoch = [p.epoch EXCEPT ![r] = @ + 1]
  BY DropPendingFields
<1> HIDE DEF d
<1>2. d.entries[r] = p.entries[r] /\ d.lastTs[r] = p.lastTs[r] /\ d.epoch[r] = p.epoch[r] + 1
  BY <1>1 DEF QueuesType
<1>3. OrderedAt(d, r, now) /\ AllInvalid(d, r)
  BY <1>2, RoleTypes, InOrderLater DEF OrderedAt, AllInvalid
<1> QED BY <1>3 DEF d

(* Numbers of what is queued are smaller than the next one. *)
LEMMA NumberedBelow ==
  ASSUME NEW p, NEW X, QueueInv(p, X), NEW r \in Roles
  PROVE  \A f \in p.entries[r] : f.seq < p.seq
BY DEF QueueInv, Numbered

(* A JSON message queued no earlier than the last one. *)
LEMMA OrderedQueued ==
  ASSUME NEW p, NEW X, QueueInv(p, X), NEW r \in Roles, NEW now \in Nat, OrderedAt(p, r, now),
         NEW kind \in JsonKinds, kind \in KindsOf(r), kind # "end",
         NEW ts \in Nat, p.lastTs[r] <= ts, r \in Untimed => ts <= now
  PROVE  OrderedAt(Queued(p, r, kind, ts), r, now)
<1>0. p \in QueuesType
  BY DEF QueueInv
<1> DEFINE d == Queued(p, r, kind, ts)
           e == NewEntry(p, r, kind, ts, 0, 0)
<1>1. /\ d.epoch = p.epoch
      /\ \/ d.entries = p.entries /\ d.lastTs = p.lastTs
         \/ d.entries = WithEntry(p, r, e) /\ d.lastTs = [p.lastTs EXCEPT ![r] = ts]
  BY <1>0, QueuedFields
<1>2. /\ e \in Entry /\ e.kind = kind /\ e.epoch = p.epoch[r] /\ e.ts = ts /\ e.seq = p.seq
  BY <1>0, RoleTypes DEF NewEntry, Entry
<1>3. WithEntry(p, r, e)[r] = p.entries[r] \cup {e} /\ [p.lastTs EXCEPT ![r] = ts][r] = ts
  BY <1>0 DEF WithEntry, QueuesType
<1> HIDE DEF d, e
<1>4. ASSUME d.entries = p.entries /\ d.lastTs = p.lastTs
      PROVE  OrderedAt(d, r, now)
  BY <1>0, <1>1, <1>4, OrderedSame
<1>5. ASSUME d.entries = WithEntry(p, r, e) /\ d.lastTs = [p.lastTs EXCEPT ![r] = ts]
      PROVE  OrderedAt(d, r, now)
  <2>1. InOrder(p.entries[r], p.epoch[r], p.lastTs[r], r)
    BY DEF OrderedAt
  <2>2. InOrder(p.entries[r] \cup {e}, p.epoch[r], e.ts, r)
    BY <1>0, <1>2, <2>1, RoleTypes, NumberedBelow, InOrderMore
  <2> QED BY <1>1, <1>2, <1>3, <1>5, <2>2 DEF OrderedAt
<1>6. OrderedAt(d, r, now)
  BY <1>1, <1>4, <1>5
<1> QED BY <1>6 DEF d

(* Binary queued behind everything the role queued before. *)
LEMMA OrderedBinary ==
  ASSUME NEW p, NEW X, QueueInv(p, X), NEW r \in Roles, NEW now \in Nat, OrderedAt(p, r, now),
         NEW kind \in BinaryKinds, kind \in KindsOf(r),
         NEW due \in Nat, NEW room \in Nat, r \in Untimed => due = 0
  PROVE  OrderedAt(SendBinary(p, r, kind, due, room), r, now)
<1>0. p \in QueuesType
  BY DEF QueueInv
<1> DEFINE ts == Larger(due, p.lastTs[r])
           d  == SendBinary(p, r, kind, due, room)
           e  == NewEntry(p, r, kind, Larger(due, p.lastTs[r]), due, room)
<1>1. /\ d.epoch = p.epoch
      /\ \/ d.entries = p.entries /\ d.lastTs = p.lastTs
         \/ d.entries = WithEntry(p, r, e) /\ d.lastTs = [p.lastTs EXCEPT ![r] = Larger(due, @)]
  BY <1>0, SendBinaryFields
<1>t. ts \in Nat /\ p.lastTs[r] <= ts /\ (r \in Untimed => ts = p.lastTs[r])
  BY <1>0, RoleTypes DEF Larger
<1>2. /\ e \in Entry /\ e.kind = kind /\ e.epoch = p.epoch[r] /\ e.ts = ts /\ e.seq = p.seq
  BY <1>0, <1>t, RoleTypes DEF NewEntry, Entry
<1>3. /\ WithEntry(p, r, e)[r] = p.entries[r] \cup {e}
      /\ [p.lastTs EXCEPT ![r] = Larger(due, @)][r] = ts
  BY <1>0 DEF WithEntry, QueuesType
<1>k. kind # "end"
  BY DEF BinaryKinds
<1> HIDE DEF d, e, ts
<1>4. ASSUME d.entries = p.entries /\ d.lastTs = p.lastTs
      PROVE  OrderedAt(d, r, now)
  BY <1>0, <1>1, <1>4, OrderedSame
<1>5. ASSUME d.entries = WithEntry(p, r, e) /\ d.lastTs = [p.lastTs EXCEPT ![r] = Larger(due, @)]
      PROVE  OrderedAt(d, r, now)
  <2>1. InOrder(p.entries[r], p.epoch[r], p.lastTs[r], r) /\ (r \in Untimed => p.lastTs[r] <= now)
    BY DEF OrderedAt
  <2>2. InOrder(p.entries[r] \cup {e}, p.epoch[r], e.ts, r)
    BY <1>0, <1>2, <1>t, <1>k, <2>1, RoleTypes, NumberedBelow, InOrderMore
  <2>3. d.entries[r] = p.entries[r] \cup {e} /\ d.lastTs[r] = e.ts /\ d.epoch[r] = p.epoch[r]
    BY <1>1, <1>2, <1>3, <1>5
  <2>4. r \in Untimed => e.ts <= now
    BY <1>2, <1>t, <2>1
  <2> QED BY <2>2, <2>3, <2>4 DEF OrderedAt
<1>6. OrderedAt(d, r, now)
  BY <1>1, <1>4, <1>5
<1> QED BY <1>6 DEF d

(* What a stream/end leaves of a role before its own entry: no start, clear  *)
(* or chunk that would be sent, and an end only if one was queued.           *)
LEMMA OrderedSuperseded ==
  ASSUME NEW p \in QueuesType, NEW r \in Roles, NEW now, OrderedAt(p, r, now)
  PROVE  LET d == Superseded(p, r)
         IN  /\ OrderedAt(d, r, now) /\ AllInvalid(d, r)
             /\ d.entries[r] = KeptByEnd(p, r)
<1> DEFINE d == Superseded(p, r)
<1>1. /\ d.entries = [p.entries EXCEPT ![r] = KeptByEnd(p, r)]
      /\ d.lastTs = p.lastTs /\ d.epoch = [p.epoch EXCEPT ![r] = @ + 1]
  BY SupersededFields
<1> HIDE DEF d
<1>2. d.entries[r] = KeptByEnd(p, r) /\ d.lastTs[r] = p.lastTs[r] /\ d.epoch[r] = p.epoch[r] + 1
  BY <1>1 DEF QueuesType
<1>3. /\ InOrder(p.entries[r], p.epoch[r] + 1, p.lastTs[r], r)
      /\ \A e \in p.entries[r] : e.kind = "chunk" => ~Live(e, p.epoch[r] + 1)
  BY RoleTypes, InOrderLater DEF OrderedAt
<1>4. KeptByEnd(p, r) \in SUBSET p.entries[r]
  BY DEF KeptByEnd
<1>5. InOrder(KeptByEnd(p, r), p.epoch[r] + 1, p.lastTs[r], r)
  BY <1>3, <1>4, InOrderFewer
<1>6. OrderedAt(d, r, now) /\ AllInvalid(d, r)
  BY <1>2, <1>3, <1>4, <1>5 DEF OrderedAt, AllInvalid
<1> QED BY <1>2, <1>6 DEF d

(* A stream/end, when it is owed, follows all that is left of its role. *)
LEMMA OrderedEnd ==
  ASSUME NEW p, NEW X, QueueInv(p, X), NEW r \in Roles, NEW now \in Nat, OrderedAt(p, r, now),
         r \in Streamed
  PROVE  OrderedAt(SendJson(p, r, "end", now, {}), r, now)
<1>0. p \in QueuesType
  BY DEF QueueInv
<1> DEFINE c == Superseded(p, r)
           d == Queued(c, r, "end", now)
           e == NewEntry(c, r, "end", now, 0, 0)
<1>1. QueueInv(c, X)
  BY DropPendingInv, SupersedeInv DEF Superseded
<1>2. OrderedAt(c, r, now) /\ AllInvalid(c, r) /\ c.entries[r] = KeptByEnd(p, r)
  BY <1>0, OrderedSuperseded
<1>3. SendJson(p, r, "end", now, {}) = IF ~EndOwed(c, r) THEN c ELSE d
  BY EndIsQueued DEF Superseded
<1> HIDE DEF c
<1>c. c \in QueuesType
  BY <1>1 DEF QueueInv
<1>4. /\ d.epoch = c.epoch
      /\ \/ d.entries = c.entries /\ d.lastTs = c.lastTs
         \/ d.entries = WithEntry(c, r, e) /\ d.lastTs = [c.lastTs EXCEPT ![r] = now]
  BY <1>c, QueuedFields
<1>5. /\ e \in Entry /\ e.kind = "end" /\ e.epoch = c.epoch[r] /\ e.ts = now /\ e.seq = c.seq
  BY <1>c, RoleTypes DEF NewEntry, Entry, JsonKinds
<1>6. WithEntry(c, r, e)[r] = c.entries[r] \cup {e} /\ [c.lastTs EXCEPT ![r] = now][r] = now
  BY <1>c DEF WithEntry, QueuesType
<1> HIDE DEF d, e
<1>7. ASSUME d.entries = c.entries /\ d.lastTs = c.lastTs
      PROVE  OrderedAt(d, r, now)
  BY <1>2, <1>c, <1>4, <1>7, OrderedSame
<1>8. ASSUME EndOwed(c, r), d.entries = WithEntry(c, r, e) /\ d.lastTs = [c.lastTs EXCEPT ![r] = now]
      PROVE  OrderedAt(d, r, now)
  <2>1. InOrder(c.entries[r], c.epoch[r], c.lastTs[r], r) /\ (r \in Untimed => c.lastTs[r] <= e.ts)
    BY <1>2, <1>5 DEF OrderedAt
  <2>2. \A f \in c.entries[r] : /\ f.kind \notin {"start", "clear", "end"}
                                /\ f.kind = "chunk" => ~Live(f, c.epoch[r])
    BY <1>2, <1>8 DEF EndOwed, KeptByEnd, AllInvalid
  <2>3. "end" \in KindsOf(r)
    BY QueuesAssumption DEF KindsOf, Streamed
  <2>4. InOrder(c.entries[r] \cup {e}, c.epoch[r], e.ts, r)
    <3>1. \A f \in c.entries[r] : f.seq < e.seq
      BY <1>1, <1>5, NumberedBelow
    <3> QED BY <1>c, <1>5, <2>1, <2>2, <2>3, <3>1, RoleTypes, InOrderEnd
  <2>5. d.entries[r] = c.entries[r] \cup {e} /\ d.lastTs[r] = e.ts /\ d.epoch[r] = c.epoch[r]
    BY <1>4, <1>5, <1>6, <1>8
  <2> QED BY <1>5, <2>4, <2>5 DEF OrderedAt
<1> QED BY <1>2, <1>3, <1>4, <1>7, <1>8

(* Cancelling a transfer: the cancel follows what the role queued before. *)
LEMMA OrderedCancel ==
  ASSUME NEW p, NEW X, QueueInv(p, X), NEW r \in Untimed, NEW now \in Nat, OrderedAt(p, r, now)
  PROVE  OrderedAt(CancelInFlight(p, r, {}), r, now)
<1> DEFINE c == DropPending(p, r)
<1>0. p \in QueuesType /\ r \in Roles
  BY DEF QueueInv, Roles
<1>1. QueueInv(c, X) /\ OrderedAt(c, r, now)
  BY <1>0, DropPendingInv, OrderedDrop
<1> HIDE DEF c
<1>2. OrderedAt(SendBinary(c, r, "exempt", 0, 0), r, now)
  <2>1. "exempt" \in BinaryKinds /\ "exempt" \in KindsOf(r)
    BY QueuesAssumption DEF BinaryKinds, KindsOf
  <2> QED BY <1>0, <1>1, <2>1, OrderedBinary
<1> QED BY <1>1, <1>2 DEF CancelInFlight, c

(* Ending the stream of a role that stays. *)
LEMMA OrderedEndStream ==
  ASSUME NEW p, NEW X, QueueInv(p, X), NEW r \in Streamed, clock \in Nat, OrderedAt(p, r, clock)
  PROVE  OrderedAt(EndStream(p, r, {}), r, clock)
<1> DEFINE c == IF r \in Untimed THEN CancelInFlight(p, r, {}) ELSE p
<1>0. r \in Roles
  BY DEF Roles, Streamed
<1>1. QueueInv(c, X)
  BY <1>0, CancelInFlightInv
<1>2. OrderedAt(c, r, clock)
  BY OrderedCancel
<1> HIDE DEF c
<1>3. OrderedAt(SendJson(c, r, "end", clock, {}), r, clock)
  BY <1>0, <1>1, <1>2, OrderedEnd
<1> QED BY <1>3 DEF EndStream, c

-----------------------------------------------------------------------------
(* Waiting for a role to drain disturbs no order. *)
LEMMA OrderedAwait ==
  ASSUME NEW p \in QueuesType, NEW r \in Roles, NEW now, OrderedAt(p, r, now), NEW s
  PROVE  OrderedAt(AwaitDrained(p, r, s), r, now)
<1> DEFINE d == AwaitDrained(p, r, s)
<1>1. d.entries = p.entries /\ d.lastTs = p.lastTs /\ d.epoch = p.epoch
  BY DEF AwaitDrained, QueuesType
<1> HIDE DEF d
<1>2. OrderedAt(d, r, now)
  BY <1>1 DEF OrderedAt
<1> QED BY <1>2 DEF d

(* What a role queues keeps the order of its messages. *)
LEMMA OrderedOwnStep ==
  ASSUME IInv, NEW r \in Roles, OrderedAt(q, r, clock),
         \/ SendStreamStart(r) \/ SendChunk(r) \/ SendStreamClear(r) \/ SendStreamEnd(r)
         \/ SendState(r) \/ BeginTransfer(r) \/ TransferWakes(r) \/ CancelTransfer(r)
  PROVE  OrderedAt(q', r, clock)
<1>0. /\ QueueInv(q, Exempt) /\ q \in QueuesType /\ clock \in Nat /\ MaxTime \in Nat
      /\ q.lastTs[r] \in Nat /\ (r \in Untimed => q.lastTs[r] <= clock)
  BY RoleTypes, WriterAssumption DEF IInv, RestTypeOK, QueueInv, OrderedAt
<1>1. CASE SendStreamStart(r)
  <2> DEFINE ts == Larger(clock, q.lastTs[r])
  <2>1. q' = Queued(q, r, "start", ts) /\ ts \in Nat
    BY <1>0, <1>1, StartIsQueued DEF SendStreamStart
  <2>2. q.lastTs[r] <= ts /\ (r \in Untimed => ts <= clock)
    BY <1>0 DEF Larger
  <2>3. "start" \in JsonKinds /\ "start" \in KindsOf(r)
    BY <1>1, QueuesAssumption DEF SendStreamStart, Streamed, JsonKinds, KindsOf
  <2> HIDE DEF ts
  <2> QED BY <1>0, <2>1, <2>2, <2>3, OrderedQueued
<1>2. CASE SendChunk(r)
  <2>1. PICK due \in 1 .. MaxTime, room \in Rooms : q' = SendBinary(q, r, "chunk", due, room)
    BY <1>2 DEF SendChunk
  <2>2. due \in Nat /\ room \in Nat
    BY <1>0, WriterAssumption DEF Never
  <2>3. "chunk" \in BinaryKinds /\ "chunk" \in KindsOf(r) /\ r \notin Untimed
    BY <1>2, QueuesAssumption DEF SendChunk, BinaryKinds, KindsOf
  <2> QED BY <1>0, <2>1, <2>2, <2>3, OrderedBinary
<1>3. CASE SendStreamClear(r)
  <2> DEFINE c == DropPending(q, r)
  <2>1. QueueInv(c, Exempt) /\ OrderedAt(c, r, clock) /\ c.lastTs = q.lastTs
    BY <1>0, DropPendingInv, DropPendingFields, OrderedDrop
  <2>2. q' = Queued(c, r, "clear", q.lastTs[r]) /\ q.lastTs[r] \in Nat
    BY <1>0, <1>3, ClearIsQueued DEF SendStreamClear
  <2>3. "clear" \in JsonKinds /\ "clear" \in KindsOf(r)
    BY <1>3, QueuesAssumption DEF SendStreamClear, JsonKinds, KindsOf
  <2> HIDE DEF c
  <2>4. c.lastTs[r] <= q.lastTs[r]
    BY <1>0, <2>1
  <2> QED BY <1>0, <2>1, <2>2, <2>3, <2>4, OrderedQueued
<1>4. CASE SendStreamEnd(r)
  <2>1. r \in Streamed
    BY <1>4 DEF SendStreamEnd, IInv, RestTypeOK
  <2> QED BY <1>0, <1>4, <2>1, OrderedEndStream DEF SendStreamEnd
<1>5. CASE SendState(r)
  <2>1. q' = Queued(q, r, "state", q.lastTs[r]) /\ q.lastTs[r] \in Nat
    BY <1>0, <1>5, StateIsQueued DEF SendState
  <2>2. "state" \in JsonKinds /\ "state" \in KindsOf(r)
    BY <1>5 DEF SendState, JsonKinds, KindsOf
  <2>3. q.lastTs[r] <= q.lastTs[r]
    BY <1>0
  <2> QED BY <1>0, <2>1, <2>2, <2>3, OrderedQueued
<1> DEFINE b == SendBinary(q, r, "chunk", 0, 0)
           a == AwaitDrained(b, r, sendingRole)
           c == AwaitDrained(q, r, sendingRole)
<1>6. ASSUME r \in Untimed
      PROVE  OrderedAt(a, r, clock) /\ OrderedAt(c, r, clock)
  <2>1. "chunk" \in BinaryKinds /\ "chunk" \in KindsOf(r)
    BY <1>6, QueuesAssumption DEF BinaryKinds, KindsOf
  <2>2. QueueInv(b, Exempt) /\ OrderedAt(b, r, clock)
    BY <1>0, <2>1, SendBinaryInv, OrderedBinary
  <2> HIDE DEF b
  <2>3. b \in QueuesType
    BY <2>2 DEF QueueInv
  <2>4. OrderedAt(a, r, clock)
    BY <2>2, <2>3, OrderedAwait
  <2>5. OrderedAt(c, r, clock)
    BY <1>0, OrderedAwait
  <2> QED BY <2>4, <2>5
<1>7. CASE BeginTransfer(r)
  BY <1>6, <1>7 DEF BeginTransfer
<1>8. CASE TransferWakes(r)
  <2>1. r \in Untimed
    BY <1>8 DEF TransferWakes, IInv, RestTypeOK
  <2>2. q' = a \/ q' = c \/ q' = q
    BY <1>8 DEF TransferWakes
  <2> QED BY <1>6, <2>1, <2>2
<1>9. CASE CancelTransfer(r)
  <2>1. r \in Untimed
    BY <1>9 DEF CancelTransfer, IInv, RestTypeOK
  <2> QED BY <1>0, <1>9, <2>1, OrderedCancel DEF CancelTransfer
<1> QED BY <1>1, <1>2, <1>3, <1>4, <1>5, <1>7, <1>8, <1>9

(* A step of one role keeps the order of every role's messages. *)
LEMMA OrderedRoleStep ==
  ASSUME IInv, Ordered, NEW r \in Roles,
         \/ SendStreamStart(r) \/ SendChunk(r) \/ SendStreamClear(r) \/ SendStreamEnd(r)
         \/ SendState(r) \/ BeginTransfer(r) \/ TransferWakes(r) \/ CancelTransfer(r)
  PROVE  Ordered'
<1>0. q \in QueuesType /\ clock \in Nat
  BY DEF IInv, RestTypeOK, QueueInv
<1>1. OnlyRole(q, q', r) /\ OrderedAt(q', r, clock)
  BY RoleStepOnly, OrderedOwnStep DEF Ordered
<1>2. clock' = clock
  BY DEF SendStreamStart, SendChunk, SendStreamClear, SendStreamEnd, SendState, BeginTransfer,
         TransferWakes, CancelTransfer, Unsent
<1>3. ASSUME NEW x \in Roles, x # r
      PROVE  OrderedAt(q', x, clock)
  <2>1. q'.entries[x] = q.entries[x] /\ q'.lastTs[x] = q.lastTs[x] /\ q'.epoch[x] = q.epoch[x]
    BY <1>1, <1>3 DEF OnlyRole
  <2> QED BY <1>0, <2>1, OrderedSame DEF Ordered
<1> QED BY <1>1, <1>2, <1>3 DEF Ordered

(* Messages leave, and the clock advances. *)
LEMMA OrderedKept ==
  ASSUME IInv, Ordered, clock' \in Nat, clock <= clock',
         q'.lastTs = q.lastTs, q'.epoch = q.epoch,
         \A r \in Roles : q'.entries[r] \subseteq q.entries[r]
  PROVE  Ordered'
<1>1. q \in QueuesType /\ clock \in Nat
  BY DEF IInv, RestTypeOK, QueueInv
<1>2. ASSUME NEW r \in Roles PROVE OrderedAt(q', r, clock')
  <2>1. /\ InOrder(q.entries[r], q.epoch[r], q.lastTs[r], r)
        /\ r \in Untimed => q.lastTs[r] <= clock
        /\ q.lastTs[r] \in Nat
    BY <1>1, RoleTypes DEF Ordered, OrderedAt
  <2>2. InOrder(q'.entries[r], q.epoch[r], q.lastTs[r], r)
    BY <2>1, InOrderFewer
  <2> QED BY <1>1, <2>1, <2>2 DEF OrderedAt
<1> QED BY <1>2 DEF Ordered

(* No step of the writer changes the order of what stays queued. *)
LEMMA OrderedWriterStep ==
  ASSUME IInv, Ordered, WriterStep
  PROVE  Ordered'
<1>0. q \in QueuesType /\ clock \in Nat
  BY DEF IInv, RestTypeOK, QueueInv
<1>a. clock' = clock
  BY DEF WriterStep, WriterStops, WriterSendsControl, WriterPromotes, WriterSkips, WriterWaits,
         WriterWakes, WriterDrops, WriterBlocks, WriterSendsRole, WriterSent, WriterEnds
<1>1. CASE WriterStops \/ WriterPromotes \/ WriterSkips \/ WriterWaits \/ WriterWakes
             \/ WriterBlocks \/ WriterSent
  <2>1. Holdings(q') = Holdings(q)
    BY <1>1, IdleStepEffect, WriterSentEffect
  <2>2. q'.entries = q.entries /\ q'.lastTs = q.lastTs /\ q'.epoch = q.epoch
    BY <2>1, HoldingsOf
  <2> QED BY <1>0, <1>a, <2>2, OrderedKept
<1>2. CASE WriterSendsControl
  <2>1. q'.entries = q.entries /\ q'.lastTs = q.lastTs /\ q'.epoch = q.epoch
    BY <1>2, FirstPriorityEffect, NormalEffect DEF WriterSendsControl
  <2> QED BY <1>0, <1>a, <2>1, OrderedKept
<1>3. CASE WriterDrops
  <2>1. PICK r \in Roles : \E e \in q.entries[r] : Dropped(r, e)
    BY <1>3, WriterDropsEffect
  <2>2. PICK e \in q.entries[r] : Dropped(r, e)
    BY <2>1
  <2>3. /\ q'.lastTs = q.lastTs /\ q'.epoch = q.epoch
        /\ \A x \in Roles : q'.entries[x] \subseteq q.entries[x]
    BY <1>0, <2>2 DEF Dropped, QueuesType
  <2> QED BY <1>0, <1>a, <2>3, OrderedKept
<1>4. CASE WriterSendsRole
  <2>1. PICK r \in Roles : \E e \in q.entries[r] : \E M \in SUBSET q.entries[r] : Sent(r, e, M)
    BY <1>4, WriterSendsRoleEffect
  <2>e. PICK e \in q.entries[r] : \E M \in SUBSET q.entries[r] : Sent(r, e, M)
    BY <2>1
  <2>m. PICK M \in SUBSET q.entries[r] : Sent(r, e, M)
    BY <2>e
  <2>3. /\ q'.lastTs = q.lastTs /\ q'.epoch = q.epoch
        /\ \A x \in Roles : q'.entries[x] \subseteq q.entries[x]
    BY <1>0, <2>m DEF Sent, QueuesType
  <2> QED BY <1>0, <1>a, <2>3, OrderedKept
<1>6. CASE WriterEnds
  <2> DEFINE d == IF sendingRole = NoRole THEN q ELSE RoleDone(q, sendingRole)
  <2>1. d \in QueuesType /\ d.entries = q.entries /\ d.lastTs = q.lastTs /\ d.epoch = q.epoch
    <3>1. CASE sendingRole = NoRole
      BY <1>0, <3>1
    <3>2. CASE sendingRole # NoRole
      <4>1. sendingRole \in Roles
        BY <3>2 DEF IInv, RestTypeOK
      <4>2. QueueInv(RoleDone(q, sendingRole), Exempt)
        BY RoleDoneInv DEF IInv
      <4> QED BY <1>0, <3>2, <4>1, <4>2, RoleDoneFields DEF QueueInv
    <3> QED BY <3>1, <3>2
  <2>2. q' = [d EXCEPT !.disconnecting = TRUE, !.idle = TRUE]
    BY <1>6 DEF WriterEnds
  <2> HIDE DEF d
  <2>3. q'.entries = q.entries /\ q'.lastTs = q.lastTs /\ q'.epoch = q.epoch
    BY <2>1, <2>2 DEF QueuesType
  <2> QED BY <1>0, <1>a, <2>3, OrderedKept
<1> QED BY <1>1, <1>2, <1>3, <1>4, <1>6 DEF WriterStep

(* A role that is removed leaves nothing to order. *)
LEMMA OrderedActivation ==
  ASSUME IInv, Ordered, NEW new, NEW d, ActivatedQueues(new, d)
  PROVE  Ordered'
<1>0. q \in QueuesType /\ clock \in Nat
  BY DEF IInv, RestTypeOK, QueueInv
<1>1. /\ clock' = clock
      /\ \A x \in Roles \ (active \ new) : /\ q'.entries[x] = q.entries[x]
                                           /\ q'.lastTs[x] = q.lastTs[x]
                                           /\ q'.epoch[x] = q.epoch[x]
      /\ \A x \in active \ new : q'.entries[x] = {} /\ q'.lastTs[x] = 0
  BY DEF ActivatedQueues
<1>2. ASSUME NEW x \in Roles PROVE OrderedAt(q', x, clock)
  <2>1. CASE x \in active \ new
    <3>1. q'.entries[x] = {} /\ q'.lastTs[x] = 0
      BY <1>1, <2>1
    <3> QED BY <1>0, <3>1 DEF OrderedAt, InOrder
  <2>2. CASE x \notin active \ new
    <3>1. /\ q'.entries[x] = q.entries[x] /\ q'.lastTs[x] = q.lastTs[x]
          /\ q'.epoch[x] = q.epoch[x]
      BY <1>1, <2>2
    <3> QED BY <1>0, <3>1, OrderedSame DEF Ordered
  <2> QED BY <2>1, <2>2
<1> QED BY <1>1, <1>2 DEF Ordered

(* Nothing is queued at first. *)
LEMMA OrderedInit == Init => Ordered
<1> SUFFICES ASSUME Init PROVE Ordered
  OBVIOUS
<1>1. \A r \in Roles : q.entries[r] = {} /\ q.lastTs[r] = 0 /\ clock = 0
  BY DEF Init, EmptyQueues
<1> QED BY <1>1 DEF Ordered, OrderedAt, InOrder

(* Every step keeps the order of the messages that will be sent. *)
LEMMA OrderedNext ==
  ASSUME IInv, Ordered, [Next]_vars
  PROVE  Ordered'
<1>0. q \in QueuesType /\ clock \in Nat
  BY DEF IInv, RestTypeOK, QueueInv
<1>a. ASSUME clock' = clock, q'.entries = q.entries, q'.lastTs = q.lastTs, q'.epoch = q.epoch
      PROVE  Ordered'
  BY <1>0, <1>a, OrderedKept
<1>1. CASE RoleStep
  <2>1. CASE SendControl
    <3>1. q'.entries = q.entries /\ q'.lastTs = q.lastTs /\ q'.epoch = q.epoch
      <4> DEFINE f(m) == SendPriority(q, m)
                 g(m) == SendNormal(q, m)
      <4>1. \A m : /\ f(m).entries = q.entries /\ f(m).lastTs = q.lastTs
                   /\ f(m).epoch = q.epoch
        BY <1>0, SendPriorityFields
      <4>2. \A m : /\ g(m).entries = q.entries /\ g(m).lastTs = q.lastTs
                   /\ g(m).epoch = q.epoch
        BY <1>0, SendNormalFields
      <4>3. (\E m : q' = f(m)) \/ (\E m : q' = g(m))
        BY <2>1 DEF SendControl
      <4> HIDE DEF f, g
      <4> QED BY <4>1, <4>2, <4>3
    <3>2. clock' = clock
      BY <2>1 DEF SendControl, Unsent
    <3> QED BY <1>a, <3>1, <3>2
  <2> QED BY <1>1, <2>1, OrderedRoleStep DEF RoleStep
<1>2. CASE WriterStep
  BY <1>2, OrderedWriterStep
<1>3. CASE ActivationStep
  <2>1. CASE PauseWriter
    <3>1. q' = [q EXCEPT !.wake = TRUE] /\ clock' = clock
      BY <2>1 DEF PauseWriter
    <3>2. q'.entries = q.entries /\ q'.lastTs = q.lastTs /\ q'.epoch = q.epoch
      BY <1>0, <3>1 DEF QueuesType
    <3> QED BY <1>a, <3>1, <3>2
  <2>2. CASE WriterPaused \/ FlushSent \/ FlushDone \/ ResumeWriter
    <3>1. q' = q /\ clock' = clock
      BY <2>2 DEF WriterPaused, FlushSent, FlushDone, ResumeWriter
    <3> QED BY <1>a, <3>1
  <2>3. CASE FlushPriority
    <3>1. SendFirstPriority /\ clock' = clock
      BY <2>3 DEF FlushPriority
    <3>2. q'.entries = q.entries /\ q'.lastTs = q.lastTs /\ q'.epoch = q.epoch
      BY <3>1, FirstPriorityEffect
    <3> QED BY <1>a, <3>1, <3>2
  <2>4. CASE FlushFails
    <3>1. q' = Overflow(q) /\ clock' = clock
      BY <2>4 DEF FlushFails
    <3>2. q'.entries = q.entries /\ q'.lastTs = q.lastTs /\ q'.epoch = q.epoch
      BY <1>0, <3>1, OverflowFields
    <3> QED BY <1>a, <3>1, <3>2
  <2>5. CASE Activate
    BY <2>5, ActivateEffect, OrderedActivation
  <2>6. CASE RefreshTrusted
    BY <2>6, RefreshEffect, OrderedActivation
  <2> QED BY <1>3, <2>1, <2>2, <2>3, <2>4, <2>5, <2>6 DEF ActivationStep
<1>4. CASE Disconnect
  <2>1. q' = Overflow(q) /\ clock' = clock
    BY <1>4 DEF Disconnect
  <2>2. q'.entries = q.entries /\ q'.lastTs = q.lastTs /\ q'.epoch = q.epoch
    BY <1>0, <2>1, OverflowFields
  <2> QED BY <1>a, <2>1, <2>2
<1>5. CASE Detach
  BY <1>a, <1>5 DEF Detach
<1>6. CASE Tick
  <2>1. q' = q /\ clock' \in Nat /\ clock <= clock'
    BY <1>0, <1>6 DEF Tick
  <2>2. \A r \in Roles : q'.entries[r] \subseteq q.entries[r]
    BY <2>1
  <2> QED BY <2>1, <2>2, OrderedKept
<1>7. CASE UNCHANGED vars
  <2>1. q' = q /\ clock' = clock
    BY <1>7 DEF vars
  <2> QED BY <1>a, <2>1
<1> QED BY <1>1, <1>2, <1>3, <1>4, <1>5, <1>6, <1>7 DEF Next

(* What will be sent leaves in the order it was queued. *)
LEMMA OrderedImplies == Ordered => LiveInOrder
BY DEF Ordered, OrderedAt, InOrder, LiveInOrder, Live, Stale

-----------------------------------------------------------------------------
(* The stream/end messages of role r among the priority messages s. *)
Ahead(s, r) == {i \in 1 .. Len(s) : s[i] = Message("end", r)}

AtMostOne(s, r) == \A i, j \in Ahead(s, r) : i = j

HasKind(p, r, kind) == \E e \in p.entries[r] : e.kind = kind

(* The client will still be in the role's stream when all that is queued has *)
(* been sent, unless a start is queued.                                      *)
Continues(p, r) == r \in p.streaming /\ ~HasKind(p, r, "end") /\ Ahead(p.priority, r) = {}

(* The role's stream as the client will see it, for a role in the sets st of *)
(* started roles, ov of overtaken roles and ac of active roles: the role has *)
(* started its stream exactly when a start is queued or the stream goes on;  *)
(* live binary is in that stream; and an end is queued once, in a stream the *)
(* client has been told of.                                                  *)
StreamAt(p, r, st, ov, ac) ==
  /\ r \in st <=> HasKind(p, r, "start") \/ Continues(p, r)
  /\ \A e \in p.entries[r] : e.kind = "chunk" /\ Live(e, p.epoch[r]) =>
       Continues(p, r) \/ \E f \in p.entries[r] : f.kind = "start" /\ f.seq < e.seq
  /\ r \notin ov =>
       /\ HasKind(p, r, "end") => r \in p.streaming /\ Ahead(p.priority, r) = {}
       /\ Ahead(p.priority, r) # {} => r \in p.streaming /\ r \notin ac
       /\ AtMostOne(p.priority, r)

(* Nothing of the role's stream changes. *)
LEMMA StreamSame ==
  ASSUME NEW p, NEW r, NEW st, NEW ov, NEW ac, StreamAt(p, r, st, ov, ac),
         NEW d, NEW st2, NEW ac2, r \in st2 <=> r \in st, r \in ac2 <=> r \in ac,
         d.entries[r] = p.entries[r], d.priority = p.priority,
         r \in d.streaming <=> r \in p.streaming,
         d.epoch[r] = p.epoch[r] \/ AllInvalid(d, r)
  PROVE  StreamAt(d, r, st2, ov, ac2)
BY DEF StreamAt, HasKind, Continues, AllInvalid

(* A message that is not a stream/end joins the queue of the role. *)
LEMMA StreamMore ==
  ASSUME NEW p, NEW r, NEW st, NEW ov, NEW ac, StreamAt(p, r, st, ov, ac),
         NEW d, NEW e, e.kind # "end",
         e.kind = "chunk" => r \in st /\ \A f \in p.entries[r] : f.seq < e.seq,
         d.entries[r] = p.entries[r] \cup {e}, d.priority = p.priority,
         d.streaming = p.streaming, d.epoch[r] = p.epoch[r],
         NEW st2, r \in st2 <=> r \in st \/ e.kind = "start"
  PROVE  StreamAt(d, r, st2, ov, ac)
<1>1. HasKind(d, r, "start") <=> HasKind(p, r, "start") \/ e.kind = "start"
  BY DEF HasKind
<1>2. Continues(d, r) <=> Continues(p, r)
  BY DEF HasKind, Continues
<1>3. HasKind(d, r, "end") <=> HasKind(p, r, "end")
  BY DEF HasKind
<1>4. ASSUME NEW g \in d.entries[r], g.kind = "chunk", Live(g, d.epoch[r])
      PROVE  Continues(d, r) \/ \E f \in d.entries[r] : f.kind = "start" /\ f.seq < g.seq
  <2>1. CASE g \in p.entries[r]
    BY <1>2, <1>4, <2>1 DEF StreamAt
  <2>2. CASE g = e
    <3>1. HasKind(p, r, "start") \/ Continues(p, r)
      BY <1>4, <2>2 DEF StreamAt
    <3> QED BY <1>2, <1>4, <2>2, <3>1 DEF HasKind
  <2> QED BY <2>1, <2>2
<1> QED BY <1>1, <1>2, <1>3, <1>4 DEF StreamAt

(* A JSON message but a stream/end is queued, unless the queue is full. *)
LEMMA StreamQueued ==
  ASSUME NEW p \in QueuesType, NEW r \in Roles, NEW st, NEW ov, NEW ac, StreamAt(p, r, st, ov, ac),
         NEW kind, kind \notin {"end", "chunk"}, NEW ts \in Nat,
         NEW st2, r \in st2 <=> r \in st \/ kind = "start",
         ~Queued(p, r, kind, ts).disconnecting
  PROVE  StreamAt(Queued(p, r, kind, ts), r, st2, ov, ac)
<1> DEFINE d == Queued(p, r, kind, ts)
           e == NewEntry(p, r, kind, ts, 0, 0)
<1>1. /\ d.epoch = p.epoch /\ d.priority = p.priority /\ d.normal = p.normal
      /\ d.streaming = p.streaming /\ d.roleDrained = p.roleDrained
      /\ \/ /\ d.disconnecting /\ d.entries = p.entries /\ d.lastTs = p.lastTs
         \/ /\ d.disconnecting = p.disconnecting
            /\ d.entries = WithEntry(p, r, e)
            /\ d.lastTs = [p.lastTs EXCEPT ![r] = ts]
  BY QueuedFields
<1>2. e.kind = kind
  BY DEF NewEntry
<1>3. WithEntry(p, r, e)[r] = p.entries[r] \cup {e}
  BY DEF WithEntry, QueuesType
<1>4. ~d.disconnecting
  OBVIOUS
<1> HIDE DEF d, e
<1>5. StreamAt(d, r, st2, ov, ac)
  BY <1>1, <1>2, <1>3, <1>4, StreamMore
<1> QED BY <1>5 DEF d

(* Binary is queued for a started role, or is exempt. *)
LEMMA StreamBinary ==
  ASSUME NEW p, NEW X, QueueInv(p, X), NEW r \in Roles, NEW st, NEW ov, NEW ac,
         StreamAt(p, r, st, ov, ac),
         NEW kind \in BinaryKinds, kind = "chunk" => r \in st, NEW due \in Nat, NEW room,
         ~SendBinary(p, r, kind, due, room).disconnecting
  PROVE  StreamAt(SendBinary(p, r, kind, due, room), r, st, ov, ac)
<1> DEFINE d == SendBinary(p, r, kind, due, room)
           e == NewEntry(p, r, kind, Larger(due, p.lastTs[r]), due, room)
<1>0. p \in QueuesType
  BY DEF QueueInv
<1>1. /\ d.epoch = p.epoch /\ d.priority = p.priority /\ d.normal = p.normal
      /\ d.streaming = p.streaming /\ d.roleDrained = p.roleDrained
      /\ \/ /\ d.disconnecting /\ d.entries = p.entries /\ d.lastTs = p.lastTs
         \/ /\ d.disconnecting = p.disconnecting
            /\ d.entries = WithEntry(p, r, e)
            /\ d.lastTs = [p.lastTs EXCEPT ![r] = Larger(due, @)]
  BY <1>0, SendBinaryFields
<1>2. e.kind = kind /\ e.seq = p.seq
  BY DEF NewEntry
<1>3. WithEntry(p, r, e)[r] = p.entries[r] \cup {e}
  BY <1>0 DEF WithEntry, QueuesType
<1>4. ~d.disconnecting
  OBVIOUS
<1>5. kind \notin {"start", "end"} /\ \A f \in p.entries[r] : f.seq < p.seq
  BY NumberedBelow DEF BinaryKinds
<1> HIDE DEF d, e
<1>6. d.entries[r] = p.entries[r] \cup {e} /\ d.epoch[r] = p.epoch[r]
  BY <1>1, <1>3, <1>4
<1>7. StreamAt(d, r, st, ov, ac)
  BY <1>1, <1>2, <1>5, <1>6, StreamMore
<1> QED BY <1>7 DEF d

(* Invalidating the binary of a role leaves its stream as it is. *)
LEMMA StreamDrop ==
  ASSUME NEW p \in QueuesType, NEW r \in Roles, NEW st, NEW ov, NEW ac,
         StreamAt(p, r, st, ov, ac), NEW now, OrderedAt(p, r, now)
  PROVE  StreamAt(DropPending(p, r), r, st, ov, ac)
<1> DEFINE d == DropPending(p, r)
<1>1. d.entries = p.entries /\ d.priority = p.priority /\ d.streaming = p.streaming
  BY DropPendingFields
<1>2. AllInvalid(d, r)
  BY OrderedDrop
<1> HIDE DEF d
<1>3. StreamAt(d, r, st, ov, ac)
  BY <1>1, <1>2, StreamSame
<1> QED BY <1>3 DEF d

(* A stream/end closes the stream of an active role. *)
LEMMA StreamEnd ==
  ASSUME NEW p, NEW X, QueueInv(p, X), NEW r \in Roles, NEW st, NEW ov, NEW ac, r \in ac,
         StreamAt(p, r, st, ov, ac), NEW now \in Nat, OrderedAt(p, r, now),
         ~SendJson(p, r, "end", now, {}).disconnecting, NEW st2, r \notin st2
  PROVE  StreamAt(SendJson(p, r, "end", now, {}), r, st2, ov, ac)
<1>0. p \in QueuesType
  BY DEF QueueInv
<1> DEFINE c == Superseded(p, r)
           d == Queued(c, r, "end", now)
           e == NewEntry(c, r, "end", now, 0, 0)
<1>1. QueueInv(c, X)
  BY DropPendingInv, SupersedeInv DEF Superseded
<1>2. AllInvalid(c, r) /\ c.entries[r] = KeptByEnd(p, r)
  BY <1>0, OrderedSuperseded
<1>3. c.priority = p.priority /\ c.streaming = p.streaming
  BY <1>0, SupersededFields
<1>4. SendJson(p, r, "end", now, {}) = IF ~EndOwed(c, r) THEN c ELSE d
  BY EndIsQueued DEF Superseded
<1> HIDE DEF c
<1>c. c \in QueuesType
  BY <1>1 DEF QueueInv
<1>5. /\ d.epoch = c.epoch /\ d.priority = c.priority /\ d.normal = c.normal
      /\ d.streaming = c.streaming /\ d.roleDrained = c.roleDrained
      /\ \/ /\ d.disconnecting /\ d.entries = c.entries /\ d.lastTs = c.lastTs
         \/ /\ d.disconnecting = c.disconnecting
            /\ d.entries = WithEntry(c, r, e)
            /\ d.lastTs = [c.lastTs EXCEPT ![r] = now]
  BY <1>c, QueuedFields
<1>6. WithEntry(c, r, e)[r] = c.entries[r] \cup {e} /\ e.kind = "end"
  BY <1>c DEF WithEntry, QueuesType, NewEntry
<1> HIDE DEF d, e
<1>7. ~HasKind(c, r, "start") /\ (HasKind(c, r, "end") => HasKind(p, r, "end"))
  BY <1>2 DEF HasKind, KeptByEnd
<1>8. ASSUME ~EndOwed(c, r)
      PROVE  StreamAt(c, r, st2, ov, ac)
  <2>1. ~Continues(c, r)
    BY <1>8 DEF EndOwed, Continues, HasKind
  <2> QED BY <1>2, <1>3, <1>7, <2>1 DEF StreamAt, AllInvalid
<1>9. ASSUME EndOwed(c, r), ~d.disconnecting
      PROVE  StreamAt(d, r, st2, ov, ac)
  <2>1. d.entries[r] = c.entries[r] \cup {e} /\ d.epoch[r] = c.epoch[r]
    BY <1>5, <1>6, <1>9
  <2>2. HasKind(d, r, "end") /\ ~HasKind(d, r, "start") /\ ~Continues(d, r)
    BY <1>6, <1>7, <2>1 DEF HasKind, Continues
  <2>3. AllInvalid(d, r)
    BY <1>2, <1>6, <2>1 DEF AllInvalid
  <2>4. r \in d.streaming /\ d.priority = p.priority
    BY <1>3, <1>5, <1>9 DEF EndOwed
  <2>5. d.streaming = p.streaming
    BY <1>3, <1>5
  <2> QED BY <2>2, <2>3, <2>4, <2>5 DEF StreamAt, AllInvalid
<1> QED BY <1>4, <1>8, <1>9

(* Cancelling a transfer leaves the stream as it is. *)
LEMMA StreamCancel ==
  ASSUME NEW p, NEW X, QueueInv(p, X), NEW r \in Roles, NEW st, NEW ov, NEW ac,
         StreamAt(p, r, st, ov, ac), NEW now, OrderedAt(p, r, now),
         ~CancelInFlight(p, r, {}).disconnecting
  PROVE  StreamAt(CancelInFlight(p, r, {}), r, st, ov, ac)
<1> DEFINE c == DropPending(p, r)
<1>1. QueueInv(c, X) /\ StreamAt(c, r, st, ov, ac)
  BY DropPendingInv, StreamDrop DEF QueueInv
<1>2. CancelInFlight(p, r, {}) = IF r \notin transfer THEN c ELSE SendBinary(c, r, "exempt", 0, 0)
  BY DEF CancelInFlight
<1> HIDE DEF c
<1>3. "exempt" \in BinaryKinds
  BY DEF BinaryKinds
<1> QED BY <1>1, <1>2, <1>3, StreamBinary

(* Ending the stream of an active role. *)
LEMMA StreamEndStream ==
  ASSUME NEW p, NEW X, QueueInv(p, X), NEW r \in Streamed, NEW ov, NEW ac, r \in ac, r \in started,
         StreamAt(p, r, started, ov, ac), clock \in Nat, OrderedAt(p, r, clock),
         ~EndStream(p, r, {}).disconnecting, NEW st2, r \notin st2
  PROVE  StreamAt(EndStream(p, r, {}), r, st2, ov, ac)
<1> DEFINE c == IF r \in Untimed THEN CancelInFlight(p, r, {}) ELSE p
<1>0. r \in Roles
  BY DEF Roles, Streamed
<1>1. QueueInv(c, X) /\ OrderedAt(c, r, clock)
  BY <1>0, CancelInFlightInv, OrderedCancel
<1>2. EndStream(p, r, {}) = SendJson(c, r, "end", clock, {})
  BY DEF EndStream
<1>3. c.disconnecting => SendJson(c, r, "end", clock, {}).disconnecting
  BY <1>0, <1>1, EndOnly DEF OnlyRole
<1>4. ~c.disconnecting
  BY <1>2, <1>3
<1>5. StreamAt(c, r, started, ov, ac)
  BY <1>0, <1>4, StreamCancel
<1> HIDE DEF c
<1> QED BY <1>0, <1>1, <1>2, <1>5, StreamEnd

-----------------------------------------------------------------------------
(* What a role queues for itself keeps its stream as the client sees it. *)
LEMMA StreamOwnStep ==
  ASSUME IInv, NEW r \in Roles, OrderedAt(q, r, clock), transfer \subseteq started,
         StreamAt(q, r, started, overtaken, active), ~q'.disconnecting,
         \/ SendStreamStart(r) \/ SendChunk(r) \/ SendStreamClear(r) \/ SendStreamEnd(r)
         \/ SendState(r) \/ BeginTransfer(r) \/ TransferWakes(r) \/ CancelTransfer(r)
  PROVE  StreamAt(q', r, started', overtaken, active)
<1>0. QueueInv(q, Exempt) /\ q \in QueuesType /\ clock \in Nat
  BY DEF IInv, RestTypeOK, QueueInv
<1>1. CASE SendStreamStart(r)
  <2> DEFINE ts == Larger(clock, q.lastTs[r])
  <2>1. q' = Queued(q, r, "start", ts) /\ ts \in Nat /\ started' = started \cup {r}
    BY <1>0, <1>1, StartIsQueued DEF SendStreamStart
  <2> HIDE DEF ts
  <2> QED BY <1>0, <2>1, StreamQueued
<1>2. CASE SendChunk(r)
  <2>1. PICK due \in 1 .. MaxTime, room \in Rooms : q' = SendBinary(q, r, "chunk", due, room)
    BY <1>2 DEF SendChunk
  <2>2. due \in Nat /\ "chunk" \in BinaryKinds
    BY DEF BinaryKinds
  <2>3. started' = started /\ r \in started
    BY <1>2 DEF SendChunk, roleVars
  <2> QED BY <1>0, <2>1, <2>2, <2>3, StreamBinary
<1>3. CASE SendStreamClear(r)
  <2> DEFINE c == DropPending(q, r)
  <2>1. c \in QueuesType /\ StreamAt(c, r, started, overtaken, active)
    BY <1>0, DropPendingType, StreamDrop
  <2>2. q' = Queued(c, r, "clear", q.lastTs[r]) /\ q.lastTs[r] \in Nat
    BY <1>0, <1>3, ClearIsQueued DEF SendStreamClear
  <2>3. started' = started
    BY <1>3 DEF SendStreamClear, roleVars
  <2> HIDE DEF c
  <2> QED BY <2>1, <2>2, <2>3, StreamQueued
<1>4. CASE SendStreamEnd(r)
  <2>1. /\ r \in Streamed /\ r \in active /\ r \in started
        /\ q' = EndStream(q, r, {}) /\ started' = started \ {r}
    BY <1>4 DEF SendStreamEnd, IInv, RestTypeOK
  <2>2. r \notin started'
    BY <2>1
  <2> QED BY <1>0, <2>1, <2>2, StreamEndStream
<1>5. CASE SendState(r)
  <2>1. q' = Queued(q, r, "state", q.lastTs[r]) /\ q.lastTs[r] \in Nat /\ started' = started
    BY <1>0, <1>5, StateIsQueued DEF SendState, roleVars
  <2> QED BY <1>0, <2>1, StreamQueued
<1> DEFINE b == SendBinary(q, r, "chunk", 0, 0)
           a == AwaitDrained(b, r, sendingRole)
           c == AwaitDrained(q, r, sendingRole)
<1>6. /\ c.entries = q.entries
      /\ c.lastTs = q.lastTs /\ c.epoch = q.epoch
      /\ c.priority = q.priority /\ c.normal = q.normal /\ c.streaming = q.streaming
      /\ c.disconnecting = q.disconnecting /\ c.seq = q.seq
      /\ c.size = q.size /\ c.idle = q.idle
      /\ c.roleDrained = IF q.entries[r] = {} /\ sendingRole # r THEN q.roleDrained
                         ELSE q.roleDrained \cup {r}
  BY <1>0, AwaitDrainedFields
<1>7. b \in QueuesType
  <2>1. QueueInv(b, Exempt)
    BY <1>0, SendBinaryInv DEF BinaryKinds
  <2> QED BY <2>1 DEF QueueInv
<1>8. ASSUME r \in started, ~b.disconnecting
      PROVE  StreamAt(b, r, started, overtaken, active)
  <2>1. "chunk" \in BinaryKinds
    BY DEF BinaryKinds
  <2> QED BY <1>0, <1>8, <2>1, StreamBinary
<1> HIDE DEF b
<1>9. /\ a.entries = b.entries
      /\ a.lastTs = b.lastTs /\ a.epoch = b.epoch
      /\ a.priority = b.priority /\ a.normal = b.normal /\ a.streaming = b.streaming
      /\ a.disconnecting = b.disconnecting /\ a.seq = b.seq
      /\ a.size = b.size /\ a.idle = b.idle
      /\ a.roleDrained = IF b.entries[r] = {} /\ sendingRole # r THEN b.roleDrained
                         ELSE b.roleDrained \cup {r}
  BY <1>7, AwaitDrainedFields
<1> HIDE DEF a, c
<1>10. ASSUME r \in started, ~a.disconnecting
       PROVE  StreamAt(a, r, started, overtaken, active)
  <2>1. ~b.disconnecting
    BY <1>9, <1>10
  <2>2. StreamAt(b, r, started, overtaken, active)
    BY <1>8, <1>10, <2>1
  <2> QED BY <1>9, <2>2, StreamSame
<1>11. StreamAt(c, r, started, overtaken, active)
  BY <1>6, StreamSame
<1>12. CASE BeginTransfer(r)
  <2>1. q' = a /\ r \in started /\ started' = started
    BY <1>12 DEF BeginTransfer, a, b
  <2> QED BY <1>10, <2>1
<1>13. CASE TransferWakes(r)
  <2>1. (q' = c \/ q' = a \/ q' = q) /\ r \in started /\ started' = started
    BY <1>13 DEF TransferWakes, a, b, c
  <2> QED BY <1>10, <1>11, <2>1
<1>14. CASE CancelTransfer(r)
  <2>1. q' = CancelInFlight(q, r, {}) /\ started' = started
    BY <1>14 DEF CancelTransfer
  <2> QED BY <1>0, <2>1, StreamCancel
<1> QED BY <1>1, <1>2, <1>3, <1>4, <1>5, <1>12, <1>13, <1>14

(* Priority messages: of the roles, only those of the teardown of one. *)
Teardown(s) == \A i \in 1 .. Len(s) : s[i].kind \in {"control", "activate", "end", "exempt"}

(* Streams and queues of a connection that no overflow has ended: a transfer *)
(* belongs to a started stream, and a stream to an active role; binary is    *)
(* sent inside a stream.                                                     *)
StreamsKept ==
  /\ Teardown(q.priority)
  /\ \A c \in q.normal : c.msg.kind \in {"control", "command"}
  /\ \A r \in Roles : StreamAt(q, r, started, overtaken, active)
  /\ transfer \subseteq started /\ started \subseteq active
  /\ sending.kind = "chunk" => sending.role \in q.streaming

StreamsInv == q.disconnecting \/ StreamsKept

(* Nothing is queued and no stream is open at first. *)
LEMMA StreamsInit == Init => StreamsInv
<1> SUFFICES ASSUME Init PROVE StreamsKept
  BY DEF StreamsInv
<1>1. /\ q.priority = <<>> /\ q.normal = {} /\ q.streaming = {} /\ started = {} /\ transfer = {}
      /\ sending.kind = "none" /\ \A r \in Roles : q.entries[r] = {}
  BY DEF Init, EmptyQueues, Nothing, Message
<1>2. Len(q.priority) = 0
  BY <1>1
<1>3. \A r \in Roles : Ahead(q.priority, r) = {}
  BY <1>2 DEF Ahead
<1> QED BY <1>1, <1>2, <1>3 DEF StreamsKept, Teardown, StreamAt, HasKind, Continues, AtMostOne

(* A step of one role keeps every stream. *)
LEMMA StreamsRoleStep ==
  ASSUME IInv, Ordered, StreamsInv, NEW r \in Roles,
         \/ SendStreamStart(r) \/ SendChunk(r) \/ SendStreamClear(r) \/ SendStreamEnd(r)
         \/ SendState(r) \/ BeginTransfer(r) \/ TransferWakes(r) \/ CancelTransfer(r)
  PROVE  StreamsInv'
<1> SUFFICES ASSUME ~q'.disconnecting PROVE StreamsKept'
  BY DEF StreamsInv
<1>1. OnlyRole(q, q', r)
  BY RoleStepOnly
<1>2. StreamsKept
  BY <1>1 DEF OnlyRole, StreamsInv
<1>3. StreamAt(q', r, started', overtaken, active)
  BY <1>2, StreamOwnStep DEF StreamsKept, Ordered
<1>4. /\ overtaken' = overtaken /\ active' = active /\ sending' = sending
      /\ transfer' \subseteq started' /\ started' \subseteq active'
      /\ started' \ {r} = started \ {r}
  BY <1>2 DEF SendStreamStart, SendChunk, SendStreamClear, SendStreamEnd, SendState, BeginTransfer,
         TransferWakes, CancelTransfer, Unsent, history, roleVars, StreamsKept
<1>5. q'.priority = q.priority /\ q'.normal = q.normal /\ q'.streaming = q.streaming
  BY <1>1 DEF OnlyRole
<1>6. ASSUME NEW x \in Roles, x # r
      PROVE  StreamAt(q', x, started', overtaken, active)
  <2>1. q'.entries[x] = q.entries[x] /\ q'.epoch[x] = q.epoch[x]
    BY <1>1, <1>6 DEF OnlyRole
  <2>2. x \in started' <=> x \in started
    BY <1>4, <1>6
  <2> QED BY <1>2, <1>5, <2>1, <2>2, StreamSame DEF StreamsKept
<1>7. \A x \in Roles : StreamAt(q', x, started', overtaken', active')
  BY <1>3, <1>4, <1>6
<1> QED BY <1>2, <1>4, <1>5, <1>7 DEF StreamsKept

-----------------------------------------------------------------------------
(* The priority messages t hold an end of role r when s do, and no more ends. *)
SameAhead(s, t, r) ==
  /\ Ahead(s, r) = {} <=> Ahead(t, r) = {}
  /\ AtMostOne(s, r) => AtMostOne(t, r)

(* Another message joins the priority messages. *)
LEMMA AheadOther ==
  ASSUME NEW s \in Seq(Msg), NEW m \in Msg, NEW r, m # Message("end", r)
  PROVE  Ahead(Append(s, m), r) = Ahead(s, r)
<1> DEFINE t == Append(s, m)
           x == Message("end", r)
<1>1. /\ Len(t) = Len(s) + 1 /\ Len(s) \in Nat /\ t[Len(s) + 1] = m
      /\ \A i \in 1 .. Len(s) : t[i] = s[i]
  BY AppendElements
<1>2. m # x
  OBVIOUS
<1> HIDE DEF t, x
<1>3. {i \in 1 .. Len(t) : t[i] = x} = {i \in 1 .. Len(s) : s[i] = x}
  BY <1>1, <1>2
<1> QED BY <1>3 DEF Ahead, t, x

(* An end joins the priority messages. *)
LEMMA AheadEnd ==
  ASSUME NEW s \in Seq(Msg), NEW r, Message("end", r) \in Msg
  PROVE  /\ Ahead(Append(s, Message("end", r)), r) # {}
         /\ Ahead(s, r) = {} => AtMostOne(Append(s, Message("end", r)), r)
<1> DEFINE x == Message("end", r)
           t == Append(s, x)
<1>0. x \in Msg
  OBVIOUS
<1> HIDE DEF x
<1>1. /\ Len(t) = Len(s) + 1 /\ Len(s) \in Nat /\ t[Len(s) + 1] = x
      /\ \A i \in 1 .. Len(s) : t[i] = s[i]
  BY <1>0, AppendElements
<1> HIDE DEF t
<1>2. Len(s) + 1 \in {i \in 1 .. Len(t) : t[i] = x}
  BY <1>1
<1>3. ASSUME {i \in 1 .. Len(s) : s[i] = x} = {}
      PROVE  \A i, j \in {k \in 1 .. Len(t) : t[k] = x} : i = j
  <2>1. \A i \in 1 .. Len(s) : t[i] # x
    BY <1>1, <1>3
  <2>2. \A i \in 1 .. Len(t) : i \in 1 .. Len(s) \/ i = Len(s) + 1
    BY <1>1
  <2> QED BY <2>1, <2>2
<1> QED BY <1>2, <1>3 DEF Ahead, AtMostOne, t, x

(* The first priority message leaves. *)
LEMMA AheadTail ==
  ASSUME NEW s \in Seq(Msg), s # <<>>, NEW r
  PROVE  /\ Head(s) # Message("end", r) => SameAhead(s, Tail(s), r)
         /\ Head(s) = Message("end", r) =>
              /\ Ahead(s, r) # {}
              /\ AtMostOne(s, r) => Ahead(Tail(s), r) = {}
<1> DEFINE x == Message("end", r)
           t == Tail(s)
           n == Len(s)
           A == {i \in 1 .. n : s[i] = x}
           B == {i \in 1 .. Len(t) : t[i] = x}
<1>1. /\ n \in Nat \ {0} /\ Len(t) = n - 1 /\ Head(s) = s[1]
      /\ \A i \in 1 .. n - 1 : t[i] = s[i + 1]
  OBVIOUS
<1> HIDE DEF t, n, x
<1>2. \A i \in B : i + 1 \in A /\ i + 1 # 1
  BY <1>1
<1>3. \A j \in A : j # 1 => j - 1 \in B /\ (j - 1) + 1 = j
  <2> SUFFICES ASSUME NEW j \in A, j # 1 PROVE j - 1 \in B /\ (j - 1) + 1 = j
    OBVIOUS
  <2>1. j - 1 \in 1 .. n - 1 /\ (j - 1) + 1 = j
    BY <1>1
  <2> QED BY <1>1, <2>1
<1>4. (\A i, j \in A : i = j) => \A i, j \in B : i = j
  <2> SUFFICES ASSUME \A i, j \in A : i = j, NEW i \in B, NEW j \in B PROVE i = j
    OBVIOUS
  <2>1. i + 1 = j + 1
    BY <1>2
  <2> QED BY <2>1
<1>5. ASSUME s[1] # x
      PROVE  A = {} <=> B = {}
  <2>1. \A j \in A : j # 1
    BY <1>5
  <2> HIDE DEF A, B
  <2> QED BY <1>2, <1>3, <2>1
<1>6. ASSUME s[1] = x
      PROVE  A # {} /\ ((\A i, j \in A : i = j) => B = {})
  <2>1. 1 \in A
    BY <1>1, <1>6
  <2> HIDE DEF A, B
  <2> QED BY <1>2, <2>1
<1> QED BY <1>1, <1>4, <1>5, <1>6 DEF Ahead, AtMostOne, SameAhead, t, n, x

(* Priority messages without an end of the role join the front or the back. *)
LEMMA AheadConcat ==
  ASSUME NEW s \in Seq(Msg), NEW h \in Seq(Msg), NEW r
  PROVE  /\ Ahead(s, r) = {} => SameAhead(h, s \o h, r)
         /\ Ahead(s, r) # {} => Ahead(s \o h, r) # {}
         /\ Ahead(h, r) = {} => SameAhead(s, s \o h, r)
<1> DEFINE x == Message("end", r)
           t == s \o h
           n == Len(s)
           A == {i \in 1 .. n : s[i] = x}
           B == {i \in 1 .. Len(h) : h[i] = x}
           C == {i \in 1 .. Len(t) : t[i] = x}
<1>1. /\ n \in Nat /\ Len(h) \in Nat /\ Len(t) = n + Len(h)
      /\ \A i \in 1 .. n : t[i] = s[i]
      /\ \A i \in 1 .. Len(h) : t[n + i] = h[i]
  BY ConcatElements
<1> HIDE DEF t, n, x
<1>2. \A i \in A : i \in C
  BY <1>1
<1>3. \A i \in B : n + i \in C
  BY <1>1
<1>4. ASSUME NEW i \in C PROVE i \in A \/ (i - n \in B /\ n + (i - n) = i)
  <2>1. CASE i \in 1 .. n
    BY <1>1, <2>1
  <2>2. CASE i \notin 1 .. n
    <3>1. i - n \in 1 .. Len(h) /\ n + (i - n) = i
      BY <1>1, <2>2
    <3> QED BY <1>1, <3>1
  <2> QED BY <2>1, <2>2
<1>5. \A i, j \in C : i \in Int /\ j \in Int
  OBVIOUS
<1>6. ASSUME A = {}
      PROVE  (B = {} <=> C = {}) /\ ((\A i, j \in B : i = j) => \A i, j \in C : i = j)
  <2>1. \A i \in C : i - n \in B /\ n + (i - n) = i
    BY <1>4, <1>6
  <2> HIDE DEF A, B, C
  <2>2. B = {} <=> C = {}
    BY <1>3, <2>1
  <2>3. ASSUME \A i, j \in B : i = j, NEW i \in C, NEW j \in C PROVE i = j
    <3>1. i - n = j - n
      BY <2>1, <2>3
    <3> QED BY <2>1, <3>1
  <2> QED BY <2>2, <2>3
<1>7. ASSUME B = {}
      PROVE  (A = {} <=> C = {}) /\ ((\A i, j \in A : i = j) => \A i, j \in C : i = j)
  <2>1. \A i \in C : i \in A
    BY <1>4, <1>7
  <2> HIDE DEF A, B, C
  <2> QED BY <1>2, <2>1
<1> QED BY <1>2, <1>6, <1>7 DEF Ahead, AtMostOne, SameAhead, t, n, x

(* Priority messages change, but none of an end of the role. *)
LEMMA StreamAhead ==
  ASSUME NEW p, NEW r, NEW st, NEW ov, NEW ac, StreamAt(p, r, st, ov, ac),
         NEW d, SameAhead(p.priority, d.priority, r),
         d.entries[r] = p.entries[r], r \in d.streaming <=> r \in p.streaming,
         d.epoch[r] = p.epoch[r]
  PROVE  StreamAt(d, r, st, ov, ac)
BY DEF StreamAt, HasKind, Continues, SameAhead

(* Messages that start or end no stream leave the queue of the role. *)
LEMMA StreamFewer ==
  ASSUME NEW p, NEW r, NEW st, NEW ov, NEW ac, StreamAt(p, r, st, ov, ac),
         NEW T, \A e \in T : e.kind \notin {"start", "end"},
         NEW d, d.entries[r] = p.entries[r] \ T,
         d.priority = p.priority, d.streaming = p.streaming, d.epoch[r] = p.epoch[r]
  PROVE  StreamAt(d, r, st, ov, ac)
<1>1. /\ HasKind(d, r, "start") <=> HasKind(p, r, "start")
      /\ HasKind(d, r, "end") <=> HasKind(p, r, "end")
  BY DEF HasKind
<1>2. Continues(d, r) <=> Continues(p, r)
  BY <1>1 DEF Continues
<1>3. ASSUME NEW g \in d.entries[r], g.kind = "chunk", Live(g, d.epoch[r])
      PROVE  Continues(d, r) \/ \E f \in d.entries[r] : f.kind = "start" /\ f.seq < g.seq
  BY <1>2, <1>3 DEF StreamAt
<1> QED BY <1>1, <1>2, <1>3 DEF StreamAt

(* A role that is overtaken promises less of its ends. *)
LEMMA StreamOvertaken ==
  ASSUME NEW p, NEW r, NEW st, NEW ov, NEW ac, StreamAt(p, r, st, ov, ac), NEW ov2, r \in ov => r \in ov2
  PROVE  StreamAt(p, r, st, ov2, ac)
BY DEF StreamAt

(* The head of a role's queue has no earlier live message behind it. *)
LEMMA HeadIsFirst ==
  ASSUME NEW p \in QueuesType, NEW r \in Roles, NEW now, OrderedAt(p, r, now),
         NEW e \in Heads(p.entries[r]), Live(e, p.epoch[r])
  PROVE  \A f \in p.entries[r] : Live(f, p.epoch[r]) => ~(f.seq < e.seq)
<1> SUFFICES ASSUME NEW f \in p.entries[r], Live(f, p.epoch[r]), f.seq < e.seq PROVE FALSE
  OBVIOUS
<1>1. e \in p.entries[r] /\ (f = e \/ Before(e, f))
  BY DEF Heads
<1>2. Before(f, e)
  BY <1>1 DEF OrderedAt, InOrder
<1>3. e \in Entry /\ f \in Entry
  BY <1>1, RoleTypes
<1> QED BY <1>1, <1>2, <1>3 DEF Before, Entry

(* A stream/start leaves: the client is in the role's stream. *)
LEMMA StreamStartSent ==
  ASSUME NEW p \in QueuesType, NEW r \in Roles, NEW now, OrderedAt(p, r, now),
         NEW st, NEW ov, NEW ac, StreamAt(p, r, st, ov, ac), Ahead(p.priority, r) = {},
         NEW e \in Heads(p.entries[r]), e.kind = "start",
         NEW d, d.entries[r] = p.entries[r] \ {e}, d.priority = p.priority,
         r \in d.streaming, d.epoch[r] = p.epoch[r], NEW ov2
  PROVE  StreamAt(d, r, st, ov2, ac)
<1>1. e \in p.entries[r] /\ Live(e, p.epoch[r])
  BY DEF Heads, Live
<1>2. ~HasKind(p, r, "end")
  <2> SUFFICES ASSUME NEW g \in p.entries[r], g.kind = "end" PROVE FALSE
    BY DEF HasKind
  <2>1. g.seq < e.seq
    BY <1>1 DEF OrderedAt, InOrder
  <2>2. Live(g, p.epoch[r])
    BY DEF Live
  <2> QED BY <1>1, <2>1, <2>2, HeadIsFirst
<1>3. ~HasKind(d, r, "end")
  BY <1>2 DEF HasKind
<1>4. Continues(d, r)
  BY <1>3 DEF Continues
<1>5. r \in st
  BY <1>1 DEF StreamAt, HasKind
<1>6. AtMostOne(d.priority, r)
  BY DEF AtMostOne
<1> QED BY <1>3, <1>4, <1>5, <1>6 DEF StreamAt

(* A stream/end leaves the queue: the client has left the role's stream. *)
LEMMA StreamEndSent ==
  ASSUME NEW p, NEW r, NEW now, OrderedAt(p, r, now),
         NEW st, NEW ov, NEW ac, StreamAt(p, r, st, ov, ac), Ahead(p.priority, r) = {},
         NEW e \in p.entries[r], e.kind = "end",
         NEW d, d.entries[r] = p.entries[r] \ {e}, d.priority = p.priority,
         r \notin d.streaming, d.epoch[r] = p.epoch[r]
  PROVE  StreamAt(d, r, st, ov, ac)
<1>1. ~HasKind(d, r, "end")
  BY DEF HasKind, OrderedAt, InOrder
<1>2. ~Continues(p, r) /\ ~Continues(d, r)
  BY DEF Continues, HasKind
<1>3. HasKind(d, r, "start") <=> HasKind(p, r, "start")
  BY DEF HasKind
<1>4. ASSUME NEW g \in d.entries[r], g.kind = "chunk", Live(g, d.epoch[r])
      PROVE  \E f \in d.entries[r] : f.kind = "start" /\ f.seq < g.seq
  BY <1>2, <1>4 DEF StreamAt
<1>5. AtMostOne(d.priority, r)
  BY DEF AtMostOne
<1> QED BY <1>1, <1>2, <1>3, <1>4, <1>5 DEF StreamAt

(* A stream/end leaves the priority messages. *)
LEMMA StreamEndAheadSent ==
  ASSUME NEW p, NEW r, NEW st, NEW ov, NEW ac, StreamAt(p, r, st, ov, ac),
         Ahead(p.priority, r) # {},
         NEW d, d.entries[r] = p.entries[r], AtMostOne(p.priority, r) => Ahead(d.priority, r) = {},
         r \notin d.streaming, d.epoch[r] = p.epoch[r]
  PROVE  StreamAt(d, r, st, ov, ac)
<1>1. ~Continues(p, r) /\ ~Continues(d, r)
  BY DEF Continues
<1>2. HasKind(d, r, "start") <=> HasKind(p, r, "start")
  BY DEF HasKind
<1>3. HasKind(d, r, "end") <=> HasKind(p, r, "end")
  BY DEF HasKind
<1> QED BY <1>1, <1>2, <1>3 DEF StreamAt, AtMostOne

(* Live binary at the head of its role is in a stream the client knows. *)
LEMMA ChunkInStream ==
  ASSUME NEW p \in QueuesType, NEW r \in Roles, NEW now, OrderedAt(p, r, now),
         NEW st, NEW ov, NEW ac, StreamAt(p, r, st, ov, ac),
         NEW e \in Heads(p.entries[r]), e.kind = "chunk", Live(e, p.epoch[r])
  PROVE  r \in p.streaming
<1>1. e \in p.entries[r]
  BY DEF Heads
<1>2. \A f \in p.entries[r] : f.kind = "start" => Live(f, p.epoch[r])
  BY DEF Live
<1>3. ~\E f \in p.entries[r] : f.kind = "start" /\ f.seq < e.seq
  BY <1>2, HeadIsFirst
<1> QED BY <1>1, <1>3 DEF StreamAt, Continues

(* Only messages of the same role are sent with it; the rest stays. *)
LEMMA StreamsSendRole ==
  ASSUME IInv, CountInv, Ordered, StreamsKept, WriterSendsRole
  PROVE  StreamsKept'
<1>0. q \in QueuesType
  BY DEF IInv, QueueInv
<1>1. PICK r \in Roles : \E e \in q.entries[r] : \E M \in SUBSET q.entries[r] : Sent(r, e, M)
  BY WriterSendsRoleEffect
<1>e. PICK e \in q.entries[r] : \E M \in SUBSET q.entries[r] : Sent(r, e, M)
  BY <1>1
<1>m. PICK M \in SUBSET q.entries[r] : Sent(r, e, M)
  BY <1>e
<1>2. q.priority = <<>>
  BY WriterSendsRoleEffect DEF CountInv
<1>3. \A x \in Roles : Ahead(q.priority, x) = {}
  <2>1. Len(q.priority) = 0
    BY <1>2
  <2> QED BY <2>1 DEF Ahead
<1>4. /\ q'.priority = q.priority /\ q'.epoch = q.epoch /\ q'.normal = q.normal
      /\ Told(q, q', Message(e.kind, r)) /\ sending' = Message(e.kind, r)
      /\ overtaken' = IF e.kind = "start" THEN overtaken \ {r} ELSE overtaken
      /\ ~Stale(q, r, e)
  BY <1>m DEF Sent
<1>5. /\ q'.entries[r] = q.entries[r] \ ({e} \cup M)
      /\ \A x \in Roles \ {r} : q'.entries[x] = q.entries[x]
  BY <1>0, <1>m DEF Sent, QueuesType
<1>6. active' = active /\ started' = started /\ transfer' = transfer
  BY DEF WriterSendsRole, roleVars
<1>7. e \in Heads(q.entries[r]) /\ Live(e, q.epoch[r])
  BY <1>m DEF Sent, Peeked, Stale, Live
<1>8. /\ e.kind # "state" => M = {}
      /\ \A f \in M : f.kind = "state"
  BY <1>m DEF Sent, Mergeable
<1>9. OrderedAt(q, r, clock) /\ StreamAt(q, r, started, overtaken, active)
  BY DEF Ordered, StreamsKept
<1>10. /\ e.kind = "start" => q'.streaming = q.streaming \cup {r}
       /\ e.kind = "end" => q'.streaming = q.streaming \ {r}
       /\ e.kind # "start" /\ e.kind # "end" => q'.streaming = q.streaming
       /\ sending'.kind = e.kind /\ sending'.role = r
  BY <1>4 DEF Told, Message
<1>11. StreamAt(q', r, started, overtaken', active)
  <2>1. CASE e.kind = "start"
    <3>1. q'.entries[r] = q.entries[r] \ {e} /\ r \in q'.streaming
      BY <1>5, <1>8, <1>10, <2>1
    <3> QED BY <1>0, <1>3, <1>4, <1>7, <1>9, <2>1, <3>1, StreamStartSent
  <2>2. CASE e.kind = "end"
    <3>1. q'.entries[r] = q.entries[r] \ {e} /\ r \notin q'.streaming
      BY <1>5, <1>8, <1>10, <2>2
    <3>2. overtaken' = overtaken
      BY <1>4, <2>2
    <3> QED BY <1>3, <1>4, <1>9, <2>2, <3>1, <3>2, StreamEndSent
  <2>3. CASE e.kind \notin {"start", "end"}
    <3>1. \A f \in {e} \cup M : f.kind \notin {"start", "end"}
      BY <1>8, <2>3
    <3>2. q'.streaming = q.streaming /\ overtaken' = overtaken
      BY <1>4, <1>10, <2>3
    <3> QED BY <1>4, <1>5, <1>9, <3>1, <3>2, StreamFewer
  <2> QED BY <2>1, <2>2, <2>3
<1>12. ASSUME NEW x \in Roles, x # r
       PROVE  StreamAt(q', x, started, overtaken', active)
  <2>1. x \in q'.streaming <=> x \in q.streaming
    BY <1>10, <1>12
  <2>2. q'.entries[x] = q.entries[x] /\ q'.epoch[x] = q.epoch[x]
    BY <1>4, <1>5, <1>12
  <2>3. StreamAt(q', x, started, overtaken, active)
    BY <1>4, <2>1, <2>2, StreamSame DEF StreamsKept
  <2>4. x \in overtaken => x \in overtaken'
    BY <1>4, <1>12
  <2> QED BY <2>3, <2>4, StreamOvertaken
<1>13. \A x \in Roles : StreamAt(q', x, started', overtaken', active')
  BY <1>6, <1>11, <1>12
<1>14. sending'.kind = "chunk" => sending'.role \in q'.streaming
  <2> SUFFICES ASSUME e.kind = "chunk" PROVE r \in q'.streaming
    BY <1>10
  <2>1. r \in q.streaming
    BY <1>0, <1>7, <1>9, ChunkInStream
  <2> QED BY <1>10, <2>1
<1> QED BY <1>4, <1>6, <1>13, <1>14 DEF StreamsKept

(* The first priority message leaves. *)
LEMMA StreamsFirstPriority ==
  ASSUME IInv, StreamsKept, SendFirstPriority, UNCHANGED roleVars
  PROVE  StreamsKept'
<1> DEFINE m == Head(q.priority)
           s == q.priority
<1>0. q \in QueuesType /\ s \in Seq(Msg)
  BY DEF IInv, QueueInv, QueuesType
<1>1. /\ s # <<>> /\ q'.priority = Tail(s)
      /\ q'.entries = q.entries /\ q'.epoch = q.epoch /\ q'.normal = q.normal
      /\ Told(q, q', m) /\ sending' = m
      /\ overtaken' = IF m.kind = "start" THEN overtaken \ {m.role} ELSE overtaken
  BY FirstPriorityEffect
<1>2. /\ m \in Msg /\ m = s[1] /\ 1 \in 1 .. Len(s)
      /\ Len(Tail(s)) = Len(s) - 1 /\ Len(s) \in Nat \ {0}
      /\ \A i \in 1 .. Len(Tail(s)) : Tail(s)[i] = s[i + 1]
  BY <1>0, <1>1
<1>3. m.kind \in {"control", "activate", "end", "exempt"}
  BY <1>2 DEF StreamsKept, Teardown
<1>4. \A r : AtMostOne(s, r) => AtMostOne(s, r)
  OBVIOUS
<1> HIDE DEF m
<1>5. active' = active /\ started' = started /\ transfer' = transfer
  BY DEF roleVars
<1>6. ASSUME NEW r \in Roles PROVE StreamAt(q', r, started, overtaken, active)
  <2>1. StreamAt(q, r, started, overtaken, active)
    BY DEF StreamsKept
  <2>2. CASE m = Message("end", r)
    <3>1. m.kind = "end" /\ m.role = r
      BY <2>2 DEF Message
    <3>2. r \notin q'.streaming
      BY <1>1, <3>1 DEF Told
    <3>3. Ahead(q.priority, r) # {} /\ (AtMostOne(q.priority, r) => Ahead(q'.priority, r) = {})
      BY <1>0, <1>1, <2>2, AheadTail DEF m
    <3> QED BY <1>1, <2>1, <3>2, <3>3, StreamEndAheadSent
  <2>3. CASE m # Message("end", r)
    <3>1. SameAhead(q.priority, q'.priority, r)
      BY <1>0, <1>1, <2>3, AheadTail DEF m
    <3>2. r \in q'.streaming <=> r \in q.streaming
      <4>1. CASE m.kind = "end"
        <5>1. m.role # r
          BY <1>2, <2>3, <4>1 DEF Msg, Message
        <5> QED BY <1>1, <4>1, <5>1 DEF Told
      <4>2. CASE m.kind # "end"
        BY <1>1, <1>3, <4>2 DEF Told
      <4> QED BY <4>1, <4>2
    <3> QED BY <1>1, <2>1, <3>1, <3>2, StreamAhead
  <2> QED BY <2>2, <2>3
<1>7. overtaken' = overtaken
  BY <1>1, <1>3
<1>8. \A r \in Roles : StreamAt(q', r, started', overtaken', active')
  BY <1>5, <1>6, <1>7
<1>9. Teardown(q'.priority)
  <2> SUFFICES ASSUME NEW i \in 1 .. Len(Tail(s))
               PROVE  Tail(s)[i].kind \in {"control", "activate", "end", "exempt"}
    BY <1>1 DEF Teardown
  <2>1. i + 1 \in 1 .. Len(s) /\ Tail(s)[i] = s[i + 1]
    BY <1>2
  <2> QED BY <2>1 DEF StreamsKept, Teardown
<1> QED BY <1>1, <1>3, <1>5, <1>8, <1>9 DEF StreamsKept

(* A step that leaves what is queued and the streams alone. *)
LEMMA StreamsSame ==
  ASSUME StreamsKept, q'.entries = q.entries, q'.epoch = q.epoch, q'.priority = q.priority,
         q'.normal \subseteq q.normal, q'.streaming = q.streaming,
         active' = active, started' = started, transfer' = transfer, overtaken' = overtaken,
         sending'.kind = "chunk" => sending' = sending
  PROVE  StreamsKept'
<1>1. \A r \in Roles : StreamAt(q', r, started', overtaken', active')
  BY StreamSame DEF StreamsKept
<1> QED BY <1>1 DEF StreamsKept

(* The head that is dropped is binary. *)
LEMMA StreamsDrop ==
  ASSUME IInv, StreamsKept, WriterDrops
  PROVE  StreamsKept'
<1>0. q \in QueuesType
  BY DEF IInv, QueueInv
<1>1. PICK r \in Roles : \E e \in q.entries[r] : Dropped(r, e)
  BY WriterDropsEffect
<1>2. PICK e \in q.entries[r] : Dropped(r, e)
  BY <1>1
<1>3. /\ sending' = sending /\ active' = active /\ started' = started /\ transfer' = transfer
      /\ overtaken' = overtaken
  BY DEF WriterDrops, roleVars, history
<1>4. /\ q'.priority = q.priority /\ q'.normal = q.normal /\ q'.streaming = q.streaming
      /\ q'.epoch = q.epoch /\ q'.entries = [q.entries EXCEPT ![r] = @ \ {e}]
      /\ e.kind = "chunk"
  BY <1>2 DEF Dropped, Stale
<1>5. /\ q'.entries[r] = q.entries[r] \ {e}
      /\ \A x \in Roles \ {r} : q'.entries[x] = q.entries[x]
  BY <1>0, <1>4 DEF QueuesType
<1>6. StreamAt(q', r, started, overtaken, active)
  <2>1. \A f \in {e} : f.kind \notin {"start", "end"}
    BY <1>4
  <2> QED BY <1>4, <1>5, <2>1, StreamFewer DEF StreamsKept
<1>7. ASSUME NEW x \in Roles, x # r PROVE StreamAt(q', x, started, overtaken, active)
  <2>1. q'.entries[x] = q.entries[x] /\ q'.epoch[x] = q.epoch[x]
    BY <1>4, <1>5, <1>7
  <2> QED BY <1>4, <2>1, StreamSame DEF StreamsKept
<1>8. \A x \in Roles : StreamAt(q', x, started', overtaken', active')
  BY <1>3, <1>6, <1>7
<1> QED BY <1>3, <1>4, <1>8 DEF StreamsKept

(* No step of the writer breaks a stream. *)
LEMMA StreamsWriterStep ==
  ASSUME IInv, CountInv, Ordered, StreamsInv, WriterStep
  PROVE  StreamsInv'
<1>0. q \in QueuesType
  BY DEF IInv, QueueInv
<1>a. active' = active /\ started' = started /\ transfer' = transfer /\ UNCHANGED roleVars
  BY DEF WriterStep, WriterStops, WriterSendsControl, WriterPromotes, WriterSkips, WriterWaits,
         WriterWakes, WriterDrops, WriterBlocks, WriterSendsRole, WriterSent, WriterEnds, roleVars
<1>1. CASE WriterStops \/ WriterPromotes \/ WriterSkips \/ WriterWaits \/ WriterWakes
             \/ WriterBlocks \/ WriterSent
  <2>1. /\ Holdings(q') = Holdings(q) /\ q'.streaming = q.streaming
        /\ sending' = sending \/ sending' = Nothing
    BY <1>1, IdleStepEffect, WriterSentEffect
  <2>2. /\ q'.entries = q.entries /\ q'.epoch = q.epoch /\ q'.priority = q.priority
        /\ q'.normal = q.normal /\ q'.disconnecting = q.disconnecting
    BY <2>1, HoldingsOf
  <2>3. sending'.kind = "chunk" => sending' = sending
    BY <2>1 DEF Nothing, Message
  <2>4. overtaken' = overtaken
    BY <1>1 DEF WriterStops, WriterPromotes, WriterSkips, WriterWaits, WriterWakes, WriterBlocks,
                WriterSent, history
  <2> QED BY <1>a, <2>1, <2>2, <2>3, <2>4, StreamsSame DEF StreamsInv
<1>2. CASE WriterSendsControl
  <2>1. CASE SendFirstPriority
    <3>1. q'.disconnecting = q.disconnecting
      BY <2>1, FirstPriorityEffect
    <3> QED BY <1>a, <2>1, <3>1, StreamsFirstPriority DEF StreamsInv
  <2>2. ASSUME NEW c \in q.normal,
               Transmit([q EXCEPT !.normal = @ \ {c}, !.size = Minus(@, 1)], c.msg, NoRole)
        PROVE  StreamsInv'
    <3>1. /\ q'.entries = q.entries /\ q'.epoch = q.epoch /\ q'.priority = q.priority
          /\ q'.normal = q.normal \ {c} /\ q'.disconnecting = q.disconnecting
          /\ Told(q, q', c.msg) /\ sending' = c.msg
          /\ overtaken' = IF c.msg.kind = "start" THEN overtaken \ {c.msg.role} ELSE overtaken
      BY <2>2, NormalEffect
    <3>2. ASSUME StreamsKept PROVE StreamsKept'
      <4>1. c.msg.kind \in {"control", "command"}
        BY <3>2 DEF StreamsKept
      <4>2. /\ overtaken' = overtaken /\ q'.streaming = q.streaming /\ sending'.kind # "chunk"
        BY <3>1, <4>1 DEF Told
      <4> QED BY <1>a, <3>1, <3>2, <4>2, StreamsSame
    <3> QED BY <3>1, <3>2 DEF StreamsInv
  <2> QED BY <1>2, <2>1, <2>2 DEF WriterSendsControl
<1>3. CASE WriterDrops
  <2>1. PICK r \in Roles : \E e \in q.entries[r] : Dropped(r, e)
    BY <1>3, WriterDropsEffect
  <2>2. q'.disconnecting = q.disconnecting
    BY <2>1 DEF Dropped
  <2> QED BY <1>3, <2>2, StreamsDrop DEF StreamsInv
<1>4. CASE WriterSendsRole
  <2>1. PICK r \in Roles : \E e \in q.entries[r] : \E M \in SUBSET q.entries[r] : Sent(r, e, M)
    BY <1>4, WriterSendsRoleEffect
  <2>2. q'.disconnecting = q.disconnecting
    BY <2>1 DEF Sent
  <2> QED BY <1>4, <2>2, StreamsSendRole DEF StreamsInv
<1>5. CASE WriterEnds
  <2> DEFINE d == IF sendingRole = NoRole THEN q ELSE RoleDone(q, sendingRole)
  <2>1. d \in QueuesType
    <3>1. QueueInv(d, Exempt)
      BY RoleDoneInv DEF IInv
    <3> QED BY <3>1 DEF QueueInv
  <2>2. q' = [d EXCEPT !.disconnecting = TRUE, !.idle = TRUE]
    BY <1>5 DEF WriterEnds
  <2> HIDE DEF d
  <2>3. q'.disconnecting
    BY <2>1, <2>2 DEF QueuesType
  <2> QED BY <2>3 DEF StreamsInv
<1> QED BY <1>1, <1>2, <1>3, <1>4, <1>5 DEF WriterStep

-----------------------------------------------------------------------------
(* A message of a teardown, or of none, joins the priority messages. *)
LEMMA TeardownAnd ==
  ASSUME NEW s \in Seq(Msg), Teardown(s), NEW m \in Msg,
         m.kind \in {"control", "activate", "end", "exempt"}, NEW b
  PROVE  And(s, b, m) \in Seq(Msg) /\ Teardown(And(s, b, m))
<1> DEFINE t == Append(s, m)
<1>1. /\ t \in Seq(Msg) /\ Len(t) = Len(s) + 1 /\ Len(s) \in Nat /\ t[Len(s) + 1] = m
      /\ \A i \in 1 .. Len(s) : t[i] = s[i]
  BY AppendElements
<1> HIDE DEF t
<1>2. \A i \in 1 .. Len(t) : i \in 1 .. Len(s) \/ i = Len(s) + 1
  BY <1>1
<1>3. Teardown(t)
  BY <1>1, <1>2 DEF Teardown
<1>4. t \in Seq(Msg) /\ Teardown(t)
  BY <1>1, <1>3
<1> QED BY <1>4 DEF And, t

(* A message that is not an end of the role adds none. *)
LEMMA AheadAnd ==
  ASSUME NEW s \in Seq(Msg), NEW m \in Msg, NEW b, NEW x, m # Message("end", x)
  PROVE  And(s, b, m) \in Seq(Msg) /\ Ahead(And(s, b, m), x) = Ahead(s, x)
<1>1. Append(s, m) \in Seq(Msg)
  BY AppendElements
<1>2. Ahead(Append(s, m), x) = Ahead(s, x)
  BY AheadOther
<1> QED BY <1>1, <1>2 DEF And

(* A priority message of no role, or a control message, is queued. *)
LEMMA StreamsControl ==
  ASSUME IInv, StreamsInv, SendControl
  PROVE  StreamsInv'
<1>0. q \in QueuesType /\ q.priority \in Seq(Msg) /\ Control \in Msg
  BY OtherMessageType DEF IInv, QueueInv, QueuesType
<1>1. /\ sending' = sending /\ overtaken' = overtaken
      /\ active' = active /\ started' = started /\ transfer' = transfer
  BY DEF SendControl, Unsent, history, roleVars
<1>2. Control.kind = "control" /\ \A r : Control # Message("end", r)
  BY DEF Control, Message
<1>3. \/ q' = SendPriority(q, Control)
      \/ q' = SendNormal(q, Control)
      \/ \E r \in active \cap Timed : q' = SendNormal(q, Message("command", r))
  BY DEF SendControl
<1>4. CASE q' = SendPriority(q, Control)
  <2> DEFINE s == Append(q.priority, Control)
  <2>1. /\ q'.entries = q.entries /\ q'.epoch = q.epoch /\ q'.normal = q.normal
        /\ q'.streaming = q.streaming
        /\ q'.disconnecting \/ (q'.disconnecting = q.disconnecting /\ q'.priority = s)
    BY <1>0, <1>4, SendPriorityFields
  <2>2. ASSUME StreamsKept, q'.priority = s PROVE StreamsKept'
    <3>1. Teardown(s)
      <4>1. Teardown(And(q.priority, TRUE, Control))
        BY <1>0, <1>2, <2>2, TeardownAnd DEF StreamsKept
      <4> QED BY <4>1 DEF And
    <3>2. \A r : Ahead(s, r) = Ahead(q.priority, r)
      BY <1>0, <1>2, AheadOther
    <3> HIDE DEF s
    <3>3. \A r : SameAhead(q.priority, q'.priority, r)
      BY <2>2, <3>2 DEF SameAhead, AtMostOne
    <3>4. \A r \in Roles : StreamAt(q', r, started, overtaken, active)
      BY <2>1, <2>2, <3>3, StreamAhead DEF StreamsKept
    <3>5. \A r \in Roles : StreamAt(q', r, started', overtaken', active')
      BY <1>1, <3>4
    <3>6. Teardown(q'.priority)
      BY <2>2, <3>1
    <3> QED BY <1>1, <2>1, <2>2, <3>5, <3>6 DEF StreamsKept
  <2> HIDE DEF s
  <2> QED BY <2>1, <2>2 DEF StreamsInv
<1>5. ASSUME NEW m, q' = SendNormal(q, m), m.kind \in {"control", "command"}
      PROVE  StreamsInv'
  <2> DEFINE N == q.normal \cup {[at |-> q.seq, msg |-> m]}
  <2>1. /\ q'.entries = q.entries /\ q'.epoch = q.epoch /\ q'.priority = q.priority
        /\ q'.streaming = q.streaming
        /\ q'.disconnecting \/ (q'.disconnecting = q.disconnecting /\ q'.normal = N)
    BY <1>0, <1>5, SendNormalFields
  <2>2. \A c \in N : c \in q.normal \/ c.msg = m
    OBVIOUS
  <2> HIDE DEF N
  <2>3. ASSUME StreamsKept, q'.normal = N PROVE StreamsKept'
    <3>1. \A r \in Roles : StreamAt(q', r, started', overtaken', active')
      BY <1>1, <2>1, <2>3, StreamSame DEF StreamsKept
    <3>2. \A c \in q'.normal : c.msg.kind \in {"control", "command"}
      BY <1>5, <2>2, <2>3 DEF StreamsKept
    <3> QED BY <1>1, <2>1, <2>3, <3>1, <3>2 DEF StreamsKept
  <2> QED BY <2>1, <2>3 DEF StreamsInv
<1>6. ASSUME NEW r \in active \cap Timed, q' = SendNormal(q, Message("command", r))
      PROVE  StreamsInv'
  <2>1. Message("command", r).kind = "command"
    BY DEF Message
  <2> QED BY <1>5, <1>6, <2>1
<1> QED BY <1>2, <1>3, <1>4, <1>5, <1>6

-----------------------------------------------------------------------------
(* The teardown of role r still owes the client an end of its stream. *)
EndsOwed(p, r) == EndQueuedLast(p, r) \/ (r \in started /\ r \in p.streaming)

(* The priority messages t hold one end of role r more than s when b. *)
OwedAhead(s, t, r, b) ==
  IF b THEN Ahead(t, r) # {} /\ (Ahead(s, r) = {} => AtMostOne(t, r)) ELSE SameAhead(s, t, r)

(* The teardown of a role queues the end it owes, and no end of another role. *)
LEMMA TornAhead ==
  ASSUME NEW p, NEW X, QueueInv(p, X), NEW r \in Roles, clock \in Nat, Teardown(p.priority),
         ~(EndQueuedLast(p, r) /\ r \in started), ~Torn(p, r).disconnecting
  PROVE  /\ Torn(p, r).priority \in Seq(Msg) /\ Teardown(Torn(p, r).priority)
         /\ \A x \in Roles \ {r} : SameAhead(p.priority, Torn(p, r).priority, x)
         /\ OwedAhead(p.priority, Torn(p, r).priority, r, EndsOwed(p, r))
<1> DEFINE a == EndQueuedLast(p, r)
           b == r \in started \cap Untimed \cap transfer
           c == r \in started /\ r \in p.streaming
           m == Message("end", r)
           n == Message("exempt", r)
           sa == And(p.priority, a, m)
           sb == And(sa, b, n)
           sc == And(sb, c, m)
<1>1. Torn(p, r).priority = sc
  BY TornEmpties
<1>2. p.priority \in Seq(Msg)
  BY DEF QueueInv, QueuesType
<1>3. m \in Msg /\ n \in Msg /\ m.kind = "end" /\ n.kind = "exempt"
  BY MessageType DEF Message, RoleKinds, JsonKinds, BinaryKinds
<1>4. n # m /\ \A x : x # r => m # Message("end", x) /\ n # Message("end", x)
  BY DEF Message
<1>5. ~(a /\ c)
  OBVIOUS
<1>6. EndsOwed(p, r) <=> a \/ c
  BY DEF EndsOwed
<1> HIDE DEF a, b, c, n
<1>7. sa \in Seq(Msg) /\ Teardown(sa)
  BY <1>2, <1>3, TeardownAnd
<1>8. ASSUME NEW x, x # r PROVE Ahead(sa, x) = Ahead(p.priority, x)
  BY <1>2, <1>3, <1>4, <1>8, AheadAnd
<1>9. /\ ~a => sa = p.priority
      /\ a => Ahead(sa, r) # {} /\ (Ahead(p.priority, r) = {} => AtMostOne(sa, r))
  <2>1. Ahead(Append(p.priority, m), r) # {}
        /\ (Ahead(p.priority, r) = {} => AtMostOne(Append(p.priority, m), r))
    BY <1>2, <1>3, AheadEnd
  <2> QED BY <2>1 DEF And
<1> HIDE DEF sa
<1>10. sb \in Seq(Msg) /\ Teardown(sb)
  BY <1>3, <1>7, TeardownAnd
<1>11. ASSUME NEW x PROVE Ahead(sb, x) = Ahead(sa, x)
  <2>1. n # Message("end", x)
    BY <1>4
  <2> QED BY <1>3, <1>7, <2>1, AheadAnd
<1> HIDE DEF sb
<1>12. sc \in Seq(Msg) /\ Teardown(sc)
  BY <1>3, <1>10, TeardownAnd
<1>13. ASSUME NEW x, x # r PROVE Ahead(sc, x) = Ahead(sb, x)
  BY <1>3, <1>4, <1>10, <1>13, AheadAnd
<1>14. /\ ~c => sc = sb
       /\ c => Ahead(sc, r) # {} /\ (Ahead(sb, r) = {} => AtMostOne(sc, r))
  <2>1. Ahead(Append(sb, m), r) # {}
        /\ (Ahead(sb, r) = {} => AtMostOne(Append(sb, m), r))
    BY <1>3, <1>10, AheadEnd
  <2> QED BY <2>1 DEF And
<1> HIDE DEF sc, m
<1>15. ASSUME NEW x \in Roles \ {r} PROVE SameAhead(p.priority, sc, x)
  <2>1. Ahead(sc, x) = Ahead(p.priority, x)
    BY <1>8, <1>11, <1>13
  <2> QED BY <2>1 DEF SameAhead, AtMostOne
<1>16. OwedAhead(p.priority, sc, r, a \/ c)
  <2>0. Ahead(sb, r) = Ahead(sa, r)
    BY <1>11
  <2>1. CASE a
    <3>1. Ahead(sc, r) = Ahead(sa, r)
      BY <1>5, <1>14, <2>0, <2>1
    <3> QED BY <1>9, <2>1, <3>1 DEF OwedAhead, AtMostOne
  <2>2. CASE ~a /\ c
    BY <1>9, <1>14, <2>0, <2>2 DEF OwedAhead
  <2>3. CASE ~a /\ ~c
    <3>1. Ahead(sc, r) = Ahead(p.priority, r)
      BY <1>9, <1>14, <2>0, <2>3
    <3> QED BY <2>3, <3>1 DEF OwedAhead, SameAhead, AtMostOne
  <2> QED BY <2>1, <2>2, <2>3
<1>17. OwedAhead(p.priority, sc, r, EndsOwed(p, r))
  BY <1>6, <1>16 DEF OwedAhead
<1> QED BY <1>1, <1>12, <1>15, <1>17

(* What an activation leaves among the priority messages. *)
LEMMA SendActivationAhead ==
  ASSUME NEW p, NEW X, QueueInv(p, X), clock \in Nat, Teardown(p.priority),
         active \in SUBSET Roles, NEW new \in SUBSET Roles, Cardinality(active \ new) <= 1,
         \A x \in Roles : ~(EndQueuedLast(p, x) /\ x \in started),
         ~SendActivation(p, new).disconnecting
  PROVE  /\ SendActivation(p, new).priority \in Seq(Msg)
         /\ Teardown(SendActivation(p, new).priority)
         /\ SendActivation(p, new).normal \subseteq p.normal
         /\ \A x \in Roles \ (active \ new) :
              SameAhead(p.priority, SendActivation(p, new).priority, x)
         /\ \A x \in active \ new :
              OwedAhead(p.priority, SendActivation(p, new).priority, x, EndsOwed(p, x))
<1> DEFINE m == Activation(new)
           d == SendActivation(p, new)
<1>m. m.kind = "activate" /\ m \in Msg /\ \A x : m # Message("end", x)
  BY OtherMessageType DEF Activation, Message
<1>1. PICK t \in QueuesType :
           /\ QueueInv(t, X)
           /\ d = SendPriority(t, m)
           /\ TornFor(p, new, t)
  BY SendActivationSteps
<1>p. p \in QueuesType /\ p.priority \in Seq(Msg)
  BY DEF QueueInv, QueuesType
<1>d. ~d.disconnecting
  OBVIOUS
<1> HIDE DEF m, d
<1>2. ~t.disconnecting /\ d.priority = Append(t.priority, m) /\ d.normal = t.normal
  <2> DEFINE f == SendPriority(t, m)
  <2>1. /\ f.normal = t.normal
        /\ \/ f.disconnecting
           \/ f.disconnecting = t.disconnecting /\ f.priority = Append(t.priority, m)
    BY SendPriorityFields
  <2> HIDE DEF f
  <2>2. d = f
    BY <1>1 DEF f
  <2> QED BY <1>d, <2>1, <2>2
<1>3. /\ t.priority \in Seq(Msg) /\ Teardown(t.priority) /\ t.normal \subseteq p.normal
      /\ \A x \in Roles \ (active \ new) : SameAhead(p.priority, t.priority, x)
      /\ \A x \in active \ new : OwedAhead(p.priority, t.priority, x, EndsOwed(p, x))
  <2>1. CASE t = p /\ active \ new = {}
    BY <1>p, <2>1 DEF SameAhead
  <2>2. ASSUME NEW r \in Roles, t = Torn(p, r), active \ new = {r}
        PROVE <1>3!:
    <3>1. Emptied(p, t, r)
      BY <2>2, TornEmpties
    <3>2. t.normal \subseteq p.normal
      BY <3>1 DEF Emptied
    <3>3. /\ Torn(p, r).priority \in Seq(Msg) /\ Teardown(Torn(p, r).priority)
          /\ \A x \in Roles \ {r} : SameAhead(p.priority, Torn(p, r).priority, x)
          /\ OwedAhead(p.priority, Torn(p, r).priority, r, EndsOwed(p, r))
      BY <1>2, <2>2, TornAhead
    <3> QED BY <2>2, <3>2, <3>3
  <2> QED BY <1>1, <2>1, <2>2 DEF TornFor
<1>4. d.priority \in Seq(Msg) /\ Teardown(d.priority)
  <2>1. And(t.priority, TRUE, m) \in Seq(Msg) /\ Teardown(And(t.priority, TRUE, m))
    BY <1>m, <1>3, TeardownAnd
  <2> QED BY <1>2, <2>1 DEF And
<1>5. \A x : Ahead(d.priority, x) = Ahead(t.priority, x)
  BY <1>m, <1>2, <1>3, AheadOther
<1>6. \A x \in Roles \ (active \ new) : SameAhead(p.priority, d.priority, x)
  BY <1>3, <1>5 DEF SameAhead, AtMostOne
<1>7. \A x \in active \ new : OwedAhead(p.priority, d.priority, x, EndsOwed(p, x))
  BY <1>3, <1>5 DEF OwedAhead, SameAhead, AtMostOne
<1> QED BY <1>2, <1>3, <1>4, <1>6, <1>7 DEF d

(* A role whose last start or end queued is an end has not started a stream. *)
LEMMA EndLastNotStarted ==
  ASSUME NEW p \in QueuesType, NEW r \in Roles, NEW st, NEW ov, NEW ac,
         StreamAt(p, r, st, ov, ac), NEW now, OrderedAt(p, r, now)
  PROVE  ~(EndQueuedLast(p, r) /\ r \in st)
<1> SUFFICES ASSUME EndQueuedLast(p, r), r \in st PROVE FALSE
  OBVIOUS
<1>1. PICK e \in p.entries[r] :
        /\ e.kind = "end"
        /\ \A f \in p.entries[r] : f.kind \in {"start", "end"} => f = e \/ Before(f, e)
  BY DEF EndQueuedLast
<1>2. PICK f \in p.entries[r] : f.kind = "start"
  BY <1>1 DEF StreamAt, Continues, HasKind
<1>3. e.seq < f.seq
  BY <1>1, <1>2 DEF OrderedAt, InOrder, Live
<1>4. Before(e, f)
  BY <1>1, <1>2, <1>3 DEF OrderedAt, InOrder, Live
<1>5. f # e
  BY <1>1, <1>2
<1>6. Before(f, e)
  BY <1>1, <1>2, <1>5
<1>7. e \in Entry /\ f \in Entry
  BY DEF QueuesType, Finite
<1> QED BY <1>4, <1>6, <1>7 DEF Before, Entry

(* A role queues one end at most: without a start it is the last. *)
LEMMA EndAloneLast ==
  ASSUME NEW p, NEW r, NEW now, OrderedAt(p, r, now), HasKind(p, r, "end"), ~HasKind(p, r, "start")
  PROVE  EndQueuedLast(p, r)
BY DEF OrderedAt, InOrder, HasKind, EndQueuedLast

(* A role that is removed ends the stream the client was told of, once. *)
LEMMA StreamRemoved ==
  ASSUME NEW p \in QueuesType, NEW r \in Roles, NEW now, OrderedAt(p, r, now),
         NEW ov, NEW ac, r \in ac, StreamAt(p, r, started, ov, ac),
         NEW d, d.entries[r] = {}, d.streaming = p.streaming,
         OwedAhead(p.priority, d.priority, r, EndsOwed(p, r)),
         NEW st2, r \notin st2, NEW ac2, r \notin ac2
  PROVE  StreamAt(d, r, st2, ov, ac2)
<1>1. ~HasKind(d, r, "start") /\ ~HasKind(d, r, "end")
  BY DEF HasKind
<1>2. ASSUME r \in p.streaming, Ahead(p.priority, r) = {}
      PROVE  EndsOwed(p, r)
  <2>1. CASE r \in started
    BY <1>2, <2>1 DEF EndsOwed
  <2>2. CASE r \notin started
    <3>1. ~HasKind(p, r, "start") /\ HasKind(p, r, "end")
      BY <1>2, <2>2 DEF StreamAt, Continues
    <3> QED BY <3>1, EndAloneLast DEF EndsOwed
  <2> QED BY <2>1, <2>2
<1>3. ~Continues(d, r)
  <2> SUFFICES ASSUME Continues(d, r) PROVE FALSE
    OBVIOUS
  <2>1. r \in p.streaming /\ Ahead(d.priority, r) = {}
    BY DEF Continues
  <2>2. ~EndsOwed(p, r) /\ SameAhead(p.priority, d.priority, r)
    BY <2>1 DEF OwedAhead
  <2>3. Ahead(p.priority, r) = {}
    BY <2>1, <2>2 DEF SameAhead
  <2> QED BY <1>2, <2>1, <2>2, <2>3
<1>4. ASSUME r \notin ov
      PROVE  /\ Ahead(d.priority, r) # {} => r \in d.streaming
             /\ AtMostOne(d.priority, r)
  <2>1. Ahead(p.priority, r) = {} /\ AtMostOne(p.priority, r)
    BY <1>4 DEF StreamAt
  <2>2. EndsOwed(p, r) => r \in p.streaming
    <3>1. EndQueuedLast(p, r) => HasKind(p, r, "end")
      BY DEF EndQueuedLast, HasKind
    <3> QED BY <1>4, <3>1 DEF EndsOwed, StreamAt
  <2> QED BY <2>1, <2>2 DEF OwedAhead, SameAhead
<1> QED BY <1>1, <1>3, <1>4 DEF StreamAt

(* A role is added, overtaking the end of its last stream if that waits. *)
LEMMA StreamAdded ==
  ASSUME NEW d, NEW r, NEW st, NEW ov, NEW ac, StreamAt(d, r, st, ov, ac),
         NEW st2, r \in st2 <=> r \in st, NEW ov2, r \in ov => r \in ov2,
         Ahead(d.priority, r) # {} => r \in ov2, NEW ac2
  PROVE  StreamAt(d, r, st2, ov2, ac2)
BY DEF StreamAt

(* The roles an activation adds behind an end are those EndAhead names. *)
LEMMA EndAheadIs ==
  ASSUME NEW r \in Roles
  PROVE  r \in EndAhead <=> Ahead(q.priority, r) # {}
BY DEF EndAhead, Ahead

(* An activation, with its teardown, keeps every stream. *)
LEMMA StreamsActivation ==
  ASSUME IInv, Ordered, StreamsKept, NEW new, NEW d, ActivatedQueues(new, d),
         Teardown(q'.priority), q'.normal \subseteq q.normal,
         \A x \in Roles \ (active \ new) : SameAhead(q.priority, q'.priority, x),
         \A x \in active \ new : OwedAhead(q.priority, q'.priority, x, EndsOwed(q, x))
  PROVE  StreamsKept'
<1>0. q \in QueuesType
  BY DEF IInv, QueueInv
<1>1. /\ active' = new /\ started' = started \cap new /\ transfer' = transfer \cap new
      /\ new \in SUBSET Roles
      /\ overtaken' = overtaken \cup (EndAhead \cap (new \ active))
      /\ q'.streaming = q.streaming
      /\ \A x \in Roles \ (active \ new) : /\ q'.entries[x] = q.entries[x]
                                           /\ q'.epoch[x] = q.epoch[x]
      /\ \A x \in active \ new : q'.entries[x] = {}
      /\ sending' = sending
  BY DEF ActivatedQueues
<1>2. transfer \subseteq started /\ started \subseteq active /\ active \subseteq Roles
  BY DEF StreamsKept, IInv, RestTypeOK
<1>3. \A x \in Roles : StreamAt(q, x, started, overtaken, active) /\ OrderedAt(q, x, clock)
  BY DEF StreamsKept, Ordered
<1>4. ASSUME NEW x \in Roles PROVE StreamAt(q', x, started', overtaken', active')
  <2>1. CASE x \in active \ new
    <3>1. x \notin started' /\ x \notin active' /\ (x \in overtaken' <=> x \in overtaken)
      BY <1>1, <2>1
    <3>2. StreamAt(q', x, started', overtaken, active')
      BY <1>0, <1>1, <1>3, <2>1, <3>1, StreamRemoved
    <3> QED BY <3>1, <3>2, StreamOvertaken
  <2>2. CASE x \notin active \ new
    <3>1. StreamAt(q', x, started, overtaken, active)
      BY <1>1, <1>3, <2>2, StreamAhead
    <3>2. x \in started' <=> x \in started
      BY <1>1, <1>2, <2>2
    <3>3. CASE x \in new \ active
      <4>1. x \in EndAhead <=> Ahead(q.priority, x) # {}
        BY EndAheadIs
      <4>2. Ahead(q'.priority, x) # {} => x \in overtaken'
        BY <1>1, <2>2, <3>3, <4>1 DEF SameAhead
      <4>3. x \in overtaken => x \in overtaken'
        BY <1>1
      <4> QED BY <3>1, <3>2, <4>2, <4>3, StreamAdded
    <3>4. CASE x \notin new \ active
      <4>1. (x \in active' <=> x \in active) /\ (x \in overtaken => x \in overtaken')
        BY <1>1, <2>2, <3>4
      <4>2. StreamAt(q', x, started', overtaken, active')
        BY <3>1, <3>2, <4>1, StreamSame
      <4> QED BY <4>1, <4>2, StreamOvertaken
    <3> QED BY <3>3, <3>4
  <2> QED BY <2>1, <2>2
<1>5. transfer' \subseteq started' /\ started' \subseteq active'
  BY <1>1, <1>2
<1> QED BY <1>1, <1>4, <1>5 DEF StreamsKept

(* The refreshed activation joins the priority messages. *)
LEMMA StreamsRefresh ==
  ASSUME IInv, Ordered, StreamsKept, RefreshTrusted, ~q'.disconnecting
  PROVE  StreamsKept'
<1>0. /\ QueueInv(q, Exempt) /\ q \in QueuesType /\ clock \in Nat /\ active \in SUBSET Roles
  BY DEF IInv, RestTypeOK, QueueInv
<1>1. PICK new \in SUBSET Roles : /\ ActivatedQueues(new, SendActivation(q, new))
                                  /\ q' = SendActivation(q, new)
  BY RefreshEffect
<1> DEFINE d == SendActivation(q, new)
<1>2. Cardinality(active \ new) <= 1
  BY <1>1 DEF ActivatedQueues
<1>3. Teardown(q.priority)
  BY DEF StreamsKept
<1>4. \A x \in Roles : ~(EndQueuedLast(q, x) /\ x \in started)
  BY <1>0, EndLastNotStarted DEF StreamsKept, Ordered
<1>5. ~d.disconnecting
  BY <1>1
<1>6. /\ d.priority \in Seq(Msg) /\ Teardown(d.priority) /\ d.normal \subseteq q.normal
      /\ \A x \in Roles \ (active \ new) : SameAhead(q.priority, d.priority, x)
      /\ \A x \in active \ new : OwedAhead(q.priority, d.priority, x, EndsOwed(q, x))
  BY <1>0, <1>2, <1>3, <1>4, <1>5, SendActivationAhead
<1> HIDE DEF d
<1>7. q' = d /\ ActivatedQueues(new, d)
  BY <1>1 DEF d
<1> QED BY <1>6, <1>7, StreamsActivation

(* What was queued with priority meanwhile follows the activation. *)
LEMMA StreamsActivate ==
  ASSUME IInv, Ordered, StreamsKept, Activate, ~q'.disconnecting
  PROVE  StreamsKept'
<1>0. /\ QueueInv(Aside, Exempt) /\ clock \in Nat /\ active \in SUBSET Roles
      /\ q \in QueuesType /\ q.priority \in Seq(Msg)
  BY AsideFields DEF IInv, RestTypeOK, QueueInv, QueuesType
<1>1. PICK new \in SUBSET Roles :
        /\ ActivatedQueues(new, SendActivation(Aside, new))
        /\ q'.priority = SendActivation(Aside, new).priority \o q.priority
  BY ActivateEffect
<1> DEFINE d == SendActivation(Aside, new)
<1>2. Cardinality(active \ new) <= 1
  BY <1>1 DEF ActivatedQueues
<1>a. /\ Aside.priority = <<>> /\ Aside.normal = q.normal /\ Aside.entries = q.entries
      /\ Aside.streaming = q.streaming
  BY AsideFields
<1>3. Teardown(Aside.priority) /\ \A x : Ahead(Aside.priority, x) = {}
  <2>1. Len(<<>>) = 0
    OBVIOUS
  <2> QED BY <1>a, <2>1 DEF Teardown, Ahead
<1>4. \A x \in Roles : ~(EndQueuedLast(Aside, x) /\ x \in started)
  <2>1. \A x \in Roles : ~(EndQueuedLast(q, x) /\ x \in started)
    BY <1>0, EndLastNotStarted DEF StreamsKept, Ordered
  <2>2. \A x \in Roles : EndQueuedLast(Aside, x) <=> EndQueuedLast(q, x)
    BY <1>a DEF EndQueuedLast
  <2> QED BY <2>1, <2>2
<1>5. ~d.disconnecting
  BY <1>1 DEF ActivatedQueues
<1>6. /\ d.priority \in Seq(Msg) /\ Teardown(d.priority) /\ d.normal \subseteq Aside.normal
      /\ \A x \in Roles \ (active \ new) : SameAhead(Aside.priority, d.priority, x)
      /\ \A x \in active \ new : OwedAhead(Aside.priority, d.priority, x, EndsOwed(Aside, x))
  BY <1>0, <1>2, <1>3, <1>4, <1>5, SendActivationAhead
<1> DEFINE s == d.priority
           h == q.priority
           u == s \o h
<1> HIDE DEF d
<1>7. ActivatedQueues(new, d) /\ q'.priority = u
  BY <1>1 DEF d
<1>8. q'.normal \subseteq q.normal
  BY <1>6, <1>7, <1>a DEF ActivatedQueues
<1>9. s \in Seq(Msg) /\ h \in Seq(Msg) /\ Teardown(s) /\ Teardown(h)
  BY <1>0, <1>6 DEF StreamsKept
<1> HIDE DEF s, h
<1>10. /\ Len(s) \in Nat /\ Len(h) \in Nat /\ Len(u) = Len(s) + Len(h)
       /\ \A i \in 1 .. Len(s) : u[i] = s[i]
       /\ \A i \in 1 .. Len(h) : u[Len(s) + i] = h[i]
  BY <1>9, ConcatElements
<1>11. \A x : /\ Ahead(s, x) = {} => SameAhead(h, u, x)
              /\ Ahead(s, x) # {} => Ahead(u, x) # {}
              /\ Ahead(h, x) = {} => SameAhead(s, u, x)
  BY <1>9, AheadConcat
<1> HIDE DEF u
<1>12. Teardown(u)
  <2> SUFFICES ASSUME NEW i \in 1 .. Len(u)
               PROVE  u[i].kind \in {"control", "activate", "end", "exempt"}
    BY DEF Teardown
  <2>1. CASE i \in 1 .. Len(s)
    BY <1>9, <1>10, <2>1 DEF Teardown
  <2>2. CASE i \notin 1 .. Len(s)
    <3>1. i - Len(s) \in 1 .. Len(h) /\ Len(s) + (i - Len(s)) = i
      BY <1>10, <2>2
    <3> QED BY <1>9, <1>10, <3>1 DEF Teardown
  <2> QED BY <2>1, <2>2
<1>13. ASSUME NEW x \in Roles \ (active \ new) PROVE SameAhead(h, u, x)
  <2>1. Ahead(s, x) = {}
    BY <1>3, <1>6, <1>13 DEF SameAhead, s
  <2> QED BY <1>11, <2>1
<1>14. ASSUME NEW x \in active \ new PROVE OwedAhead(h, u, x, EndsOwed(q, x))
  <2>1. EndsOwed(Aside, x) <=> EndsOwed(q, x)
    BY <1>a DEF EndsOwed, EndQueuedLast
  <2>2. CASE EndsOwed(q, x)
    <3>1. Ahead(s, x) # {} /\ AtMostOne(s, x)
      BY <1>3, <1>6, <1>14, <2>1, <2>2 DEF OwedAhead, s
    <3>2. Ahead(u, x) # {} /\ (Ahead(h, x) = {} => AtMostOne(u, x))
      BY <1>11, <3>1 DEF SameAhead
    <3> QED BY <2>2, <3>2 DEF OwedAhead
  <2>3. CASE ~EndsOwed(q, x)
    <3>1. Ahead(s, x) = {}
      BY <1>3, <1>6, <1>14, <2>1, <2>3 DEF OwedAhead, SameAhead, s
    <3>2. SameAhead(h, u, x)
      BY <1>11, <3>1
    <3> QED BY <2>3, <3>2 DEF OwedAhead
  <2> QED BY <2>2, <2>3
<1>15. /\ Teardown(q'.priority)
       /\ \A x \in Roles \ (active \ new) : SameAhead(q.priority, q'.priority, x)
       /\ \A x \in active \ new : OwedAhead(q.priority, q'.priority, x, EndsOwed(q, x))
  BY <1>7, <1>12, <1>13, <1>14 DEF h
<1> QED BY <1>7, <1>8, <1>15, StreamsActivation

(* No step of an activation breaks a stream. *)
LEMMA StreamsActivationStep ==
  ASSUME IInv, Ordered, StreamsInv, ActivationStep
  PROVE  StreamsInv'
<1>0. q \in QueuesType
  BY DEF IInv, QueueInv
<1>1. CASE PauseWriter
  <2>1. /\ q' = [q EXCEPT !.wake = TRUE] /\ sending' = sending /\ overtaken' = overtaken
        /\ active' = active /\ started' = started /\ transfer' = transfer
    BY <1>1 DEF PauseWriter, roleVars, history
  <2>2. /\ q'.entries = q.entries /\ q'.epoch = q.epoch /\ q'.priority = q.priority
        /\ q'.normal = q.normal /\ q'.streaming = q.streaming /\ q'.disconnecting = q.disconnecting
    BY <1>0, <2>1 DEF QueuesType
  <2> QED BY <2>1, <2>2, StreamsSame DEF StreamsInv
<1>2. CASE WriterPaused \/ FlushSent \/ FlushDone \/ ResumeWriter
  <2>1. /\ q' = q /\ overtaken' = overtaken
        /\ sending' = sending \/ sending' = Nothing
        /\ active' = active /\ started' = started /\ transfer' = transfer
    BY <1>2 DEF WriterPaused, FlushSent, FlushDone, ResumeWriter, roleVars, history
  <2>2. sending'.kind = "chunk" => sending' = sending
    BY <2>1 DEF Nothing, Message
  <2> QED BY <2>1, <2>2, StreamsSame DEF StreamsInv
<1>3. CASE FlushPriority
  <2>1. SendFirstPriority /\ UNCHANGED roleVars
    BY <1>3 DEF FlushPriority
  <2>2. q'.disconnecting = q.disconnecting
    BY <2>1, FirstPriorityEffect
  <2> QED BY <2>1, <2>2, StreamsFirstPriority DEF StreamsInv
<1>4. CASE FlushFails
  <2>1. Overflow(q).disconnecting
    BY <1>0, OverflowFields
  <2> QED BY <1>4, <2>1 DEF FlushFails, StreamsInv
<1>5. CASE Activate
  <2>1. q.disconnecting => q'.disconnecting
    BY <1>5, ActivateEffect DEF ActivatedQueues
  <2> QED BY <1>5, <2>1, StreamsActivate DEF StreamsInv
<1>6. CASE RefreshTrusted
  <2>1. q.disconnecting => q'.disconnecting
    BY <1>6, RefreshEffect DEF ActivatedQueues
  <2> QED BY <1>6, <2>1, StreamsRefresh DEF StreamsInv
<1> QED BY <1>1, <1>2, <1>3, <1>4, <1>5, <1>6 DEF ActivationStep

(* No step breaks a stream. *)
LEMMA StreamsNext ==
  ASSUME IInv, CountInv, Ordered, StreamsInv, [Next]_vars
  PROVE  StreamsInv'
<1>0. q \in QueuesType
  BY DEF IInv, QueueInv
<1>1. CASE RoleStep
  BY <1>1, StreamsControl, StreamsRoleStep DEF RoleStep
<1>2. CASE WriterStep
  BY <1>2, StreamsWriterStep
<1>3. CASE ActivationStep
  BY <1>3, StreamsActivationStep
<1>4. CASE Disconnect
  <2>1. Overflow(q).disconnecting
    BY <1>0, OverflowFields
  <2> QED BY <1>4, <2>1 DEF Disconnect, StreamsInv
<1>5. CASE Detach
  BY <1>5 DEF Detach, StreamsInv
<1>6. CASE Tick \/ UNCHANGED vars
  <2>1. /\ q' = q /\ sending' = sending /\ overtaken' = overtaken
        /\ active' = active /\ started' = started /\ transfer' = transfer
    BY <1>6 DEF Tick, vars, roleVars, history
  <2> QED BY <2>1, StreamsSame DEF StreamsInv
<1> QED BY <1>1, <1>2, <1>3, <1>4, <1>5, <1>6 DEF Next

-----------------------------------------------------------------------------
(* What is known of the streams in every state. *)
StreamIInv == IInv /\ CountInv /\ Ordered /\ StreamsInv

(* It holds at first, and every step keeps it. *)
LEMMA StreamIInvAlways == Spec => []StreamIInv
<1>1. Init => StreamIInv
  BY InitIInv, CountInit, OrderedInit, StreamsInit DEF StreamIInv
<1>2. StreamIInv /\ [Next]_vars => StreamIInv'
  BY NextIInv, CountNext, OrderedNext, StreamsNext DEF StreamIInv
<1> QED BY <1>1, <1>2, PTL DEF Spec

(* Binary reaches the wire between the start and the end of its stream, and   *)
(* what a role queued leaves in the order it was queued (connection.py,       *)
(* send_role_message, _drop_pending and the ready heap).                      *)
THEOREM StreamFramedHolds == Spec => []StreamFramed
<1>1. StreamIInv => StreamFramed
  <2> SUFFICES ASSUME StreamIInv PROVE StreamFramed
    OBVIOUS
  <2>1. LiveInOrder
    BY OrderedImplies DEF StreamIInv
  <2>2. ChunksInsideStream
    BY DEF StreamIInv, StreamsInv, StreamsKept, ChunksInsideStream
  <2> QED BY <2>1, <2>2 DEF StreamFramed
<1> QED BY <1>1, StreamIInvAlways, PTL

(* When a role has nothing queued and nothing is on its way, the client is in *)
(* a stream of the role exactly when the role has started one: no start and   *)
(* no end was lost (connection.py, send_role_message and _discard_role_queue).*)
THEOREM StreamsAgreeAtRestHolds == Spec => []StreamsAgreeAtRest
<1>1. StreamIInv => StreamsAgreeAtRest
  <2> SUFFICES ASSUME StreamIInv, NEW r \in Streamed,
                      ~q.disconnecting, q.entries[r] = {}, q.priority = <<>>
               PROVE  r \in started <=> r \in q.streaming
    BY DEF StreamsAgreeAtRest
  <2>0. r \in Roles
    BY DEF Roles, Streamed
  <2>1. StreamAt(q, r, started, overtaken, active)
    BY <2>0 DEF StreamIInv, StreamsInv, StreamsKept
  <2>2. Len(q.priority) = 0
    OBVIOUS
  <2>3. Ahead(q.priority, r) = {}
    BY <2>2 DEF Ahead
  <2> QED BY <2>1, <2>3 DEF StreamAt, HasKind, Continues
<1> QED BY <1>1, StreamIInvAlways, PTL

(* An end that leaves is of a stream the client was told of, or overtaken. *)
LEMMA EndsNext ==
  ASSUME IInv, StreamsInv, [Next]_vars,
         sending' # sending, sending'.kind = "end", ~q.disconnecting
  PROVE  sending'.role \in q.streaming \cup overtaken
<1>0. StreamsKept /\ q.priority \in Seq(Msg)
  BY DEF StreamsInv, IInv, QueueInv, QueuesType
<1>1. sending' # Nothing
  BY DEF Nothing, Message
<1>2. CASE SendFirstPriority
  <2> DEFINE m == Head(q.priority)
             s == q.priority
  <2>1. s # <<>> /\ sending' = m
    BY <1>2, FirstPriorityEffect
  <2>2. m \in Msg /\ m = s[1] /\ 1 \in 1 .. Len(s)
    BY <1>0, <2>1
  <2> HIDE DEF m
  <2>3. m.role \in Roles /\ m = Message("end", m.role)
    BY <2>1, <2>2 DEF Msg, Message
  <2>4. Ahead(q.priority, m.role) # {}
    BY <2>2, <2>3 DEF Ahead
  <2>5. StreamAt(q, m.role, started, overtaken, active)
    BY <1>0, <2>3 DEF StreamsKept
  <2> QED BY <2>1, <2>4, <2>5 DEF StreamAt
<1>3. CASE WriterStep
  <2>1. CASE WriterSendsControl
    <3>1. ASSUME NEW c \in q.normal,
                 Transmit([q EXCEPT !.normal = @ \ {c}, !.size = Minus(@, 1)], c.msg, NoRole)
          PROVE  FALSE
      <4>1. sending' = c.msg
        BY <3>1, NormalEffect
      <4> QED BY <1>0, <4>1 DEF StreamsKept
    <3> QED BY <1>2, <2>1, <3>1 DEF WriterSendsControl
  <2>2. CASE WriterSendsRole
    <3>1. PICK r \in Roles : \E e \in q.entries[r] : \E M \in SUBSET q.entries[r] : Sent(r, e, M)
      BY <2>2, WriterSendsRoleEffect
    <3>2. PICK e \in q.entries[r] : sending' = Message(e.kind, r)
      BY <3>1 DEF Sent
    <3>3. e.kind = "end" /\ sending'.role = r
      BY <3>2 DEF Message
    <3>4. StreamAt(q, r, started, overtaken, active) /\ HasKind(q, r, "end")
      BY <1>0, <3>3 DEF StreamsKept, HasKind
    <3> QED BY <3>3, <3>4 DEF StreamAt
  <2> QED BY <1>1, <1>3, <2>1, <2>2 DEF WriterStep, WriterStops, WriterPromotes, WriterSkips,
            WriterWaits, WriterWakes, WriterDrops, WriterBlocks, WriterSent, WriterEnds
<1>4. CASE ActivationStep
  BY <1>1, <1>2, <1>4 DEF ActivationStep, PauseWriter, WriterPaused, FlushPriority, FlushSent,
     FlushFails, FlushDone, Activate, RefreshTrusted, ResumeWriter
<1>5. CASE RoleStep
  BY <1>5 DEF RoleStep, SendControl, SendStreamStart, SendChunk, SendStreamClear, SendStreamEnd,
     SendState, BeginTransfer, TransferWakes, CancelTransfer, Unsent
<1>6. CASE Disconnect \/ Detach \/ Tick \/ UNCHANGED vars
  BY <1>1, <1>6 DEF Disconnect, Detach, Tick, vars
<1> QED BY <1>3, <1>4, <1>5, <1>6 DEF Next

(* The client is told of the end of a stream it was told of, unless the role  *)
(* was added again behind that end: the teardown finds the end a role queued, *)
(* and an end finds one already queued (connection.py, send_role_message and  *)
(* _discard_role_queue).                                                      *)
THEOREM EndsAnOpenStreamHolds == Spec => EndsAnOpenStream
<1>1. StreamIInv /\ [Next]_vars =>
        [sending' # sending /\ sending'.kind = "end" /\ ~q.disconnecting =>
           sending'.role \in q.streaming \cup overtaken]_vars
  BY EndsNext DEF StreamIInv
<1> QED BY <1>1, StreamIInvAlways, PTL DEF Spec, EndsAnOpenStream

=============================================================================
