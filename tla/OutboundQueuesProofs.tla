------------------------ MODULE OutboundQueuesProofs ------------------------
(***************************************************************************)
(* What each operator on the queues preserves.  The invariant of the heaps *)
(* is stated relative to the set X of roles that need not have a key on    *)
(* the ready heap: a key is popped before it is replaced, and the role     *)
(* being sent has none until its message is gone.  The lemmas ...Fields    *)
(* say what an operator does to each field, the lemmas ...Counts that the  *)
(* queues stay counted.                                                    *)
(***************************************************************************)
EXTENDS OutboundQueues, TLAPS, FiniteSetTheorems, WellFoundedInduction

(* The entries of a role are numbered in the order they were queued. *)
Numbered(p) ==
  \A r \in Roles : \A e \in p.entries[r] :
    e.seq < p.seq /\ \A f \in p.entries[r] : e.seq = f.seq => e = f

(* A blocked role has the entry on the delayed heap that releases it. *)
Held(p, r) ==
  p.blocked[r] # NoTime =>
    [at |-> p.blocked[r], gen |-> p.gen[r], role |-> r] \in p.delayed

(* A role with messages has a key on the ready heap, no later than its head. *)
Competing(p, r) ==
  p.entries[r] # {} /\ p.blocked[r] = NoTime =>
    \E k \in p.ready : k.role = r /\ \A e \in p.entries[r] : k = Key(e, r) \/ Before(k, e)

QueueInv(p, X) ==
  /\ p \in QueuesType
  /\ Numbered(p)
  /\ \A r \in Roles : Held(p, r)
  /\ \A r \in Roles \ X : Competing(p, r)

(* A nonempty set of naturals has a least element. *)
LEMMA LeastNat ==
  ASSUME NEW S, S \subseteq Nat, S # {}
  PROVE  \E n \in S : \A m \in S : n <= m
<1>1. PICK n \in S : \A m \in S : ~(<<m, n>> \in OpToRel(<, Nat))
  BY WFMin, NatLessThanWellFounded
<1>2. ASSUME NEW m \in S, m < n
      PROVE  FALSE
  <2>1. <<m, n>> \in Nat \X Nat /\ <<m, n>>[1] < <<m, n>>[2] BY <1>2
  <2> QED BY <1>1, <2>1, Zenon DEF OpToRel
<1> QED BY <1>2

(* A nonempty queue has a head: its least (ts, seq). *)
LEMMA HeadExists ==
  ASSUME NEW S \in SUBSET Entry, S # {},
         \A e, f \in S : e.seq = f.seq => e = f
  PROVE  \E e \in Heads(S) : e \in S
<1> DEFINE Times == {e.ts : e \in S}
<1>1. PICK t \in Times : \A u \in Times : t <= u
  <2>1. Times \subseteq Nat /\ Times # {} BY DEF Entry
  <2> QED BY <2>1, LeastNat
<1> DEFINE Seqs == {e.seq : e \in {f \in S : f.ts = t}}
<1>2. PICK n \in Seqs : \A m \in Seqs : n <= m
  <2>1. Seqs \subseteq Nat /\ Seqs # {} BY DEF Entry
  <2> QED BY <2>1, LeastNat
<1>3. PICK e \in S : e.ts = t /\ e.seq = n
  OBVIOUS
<1>4. ASSUME NEW f \in S PROVE f = e \/ Before(e, f)
  <2>1. t <= f.ts BY <1>1
  <2>2. f.ts = t => n <= f.seq BY <1>2
  <2> QED BY <2>1, <2>2, <1>3 DEF Before, Entry
<1> QED BY <1>3, <1>4 DEF Heads

(* Exempting more roles from the ready heap is weaker. *)
LEMMA QueueInvWider ==
  ASSUME NEW p, NEW X, NEW Y, QueueInv(p, X), X \subseteq Y
  PROVE  QueueInv(p, Y)
BY DEF QueueInv

(* _wake_writer touches no queue. *)
LEMMA WokenInv ==
  ASSUME NEW p, NEW X, QueueInv(p, X)
  PROVE  QueueInv(Woken(p), X)
BY DEF QueueInv, Woken, QueuesType, Numbered, Held, Competing

(* A queue overflow only begins the disconnect. *)
LEMMA OverflowInv ==
  ASSUME NEW p, NEW X, QueueInv(p, X)
  PROVE  QueueInv(Overflow(p), X)
BY DEF QueueInv, Overflow, QueuesType, Numbered, Held, Competing

(* The key of a head is a key of the ready heap. *)
LEMMA HeadKeysType ==
  ASSUME NEW S \in SUBSET Entry, NEW r \in Roles
  PROVE  HeadKeys(S, r) \in SUBSET ReadyKey
BY DEF HeadKeys, Heads, Entry, ReadyKey, Key

(* A role whose head is on the ready heap competes for the writer. *)
LEMMA HeadKeyCompetes ==
  ASSUME NEW p, p \in QueuesType, Numbered(p), NEW r \in Roles,
         HeadKeys(p.entries[r], r) \subseteq p.ready
  PROVE  Competing(p, r)
<1> SUFFICES ASSUME p.entries[r] # {}
             PROVE  \E k \in p.ready :
                      k.role = r /\ \A e \in p.entries[r] : k = Key(e, r) \/ Before(k, e)
  BY DEF Competing
<1>1. PICK h \in Heads(p.entries[r]) : h \in p.entries[r]
  <2>1. p.entries[r] \in SUBSET Entry BY DEF QueuesType, Finite
  <2> QED BY <2>1, HeadExists DEF Numbered
<1>2. Key(h, r) \in p.ready /\ Key(h, r).role = r
  BY <1>1 DEF HeadKeys, Key
<1>3. ASSUME NEW e \in p.entries[r]
      PROVE  Key(h, r) = Key(e, r) \/ Before(Key(h, r), e)
  BY <1>1 DEF Heads, Before, Key
<1> QED BY <1>2, <1>3

(* _schedule_role_head makes its role compete again. *)
LEMMA ScheduleInv ==
  ASSUME NEW p, NEW X, NEW r \in Roles, QueueInv(p, X)
  PROVE  QueueInv(Schedule(p, r), X \ {r})
<1>1. CASE p.blocked[r] # NoTime
  BY <1>1 DEF Schedule, QueueInv, Competing
<1>2. CASE p.blocked[r] = NoTime
  <2> DEFINE s == Schedule(p, r)
  <2>0. s = [p EXCEPT !.ready = p.ready \cup HeadKeys(p.entries[r], r)]
    BY <1>2 DEF Schedule
  <2>1. HeadKeys(p.entries[r], r) \in SUBSET ReadyKey
    BY HeadKeysType DEF QueueInv, QueuesType, Finite
  <2>2. s \in QueuesType
    BY <2>0, <2>1 DEF QueueInv, QueuesType
  <2>3. /\ s.entries = p.entries /\ s.seq = p.seq /\ s.blocked = p.blocked
        /\ s.gen = p.gen /\ s.delayed = p.delayed /\ s.disconnecting = p.disconnecting
        /\ s.ready = p.ready \cup HeadKeys(p.entries[r], r)
    BY <2>0 DEF QueueInv, QueuesType
  <2>4. Numbered(s) /\ \A x \in Roles : Held(s, x)
    BY <2>3 DEF QueueInv, Numbered, Held
  <2>5. Competing(s, r)
    BY <2>2, <2>3, <2>4, HeadKeyCompetes
  <2>6. ASSUME NEW x \in Roles, Competing(p, x) PROVE Competing(s, x)
    BY <2>3, <2>6 DEF Competing
  <2> QED BY <2>2, <2>3, <2>4, <2>5, <2>6 DEF QueueInv
<1> QED BY <1>1, <1>2

(* Bumping an epoch touches no queue and no heap. *)
LEMMA BumpInv ==
  ASSUME NEW p, NEW X, NEW r \in Roles, QueueInv(p, X)
  PROVE  QueueInv([p EXCEPT !.epoch[r] = @ + 1], X)
<1> DEFINE epoch == [p.epoch EXCEPT ![r] = @ + 1]
<1>1. epoch \in [Roles -> Nat]
  BY DEF QueueInv, QueuesType
<1>2. [p EXCEPT !.epoch[r] = @ + 1] = [p EXCEPT !.epoch = epoch]
  OBVIOUS
<1> HIDE DEF epoch
<1>3. [p EXCEPT !.epoch = epoch] \in QueuesType
  BY <1>1 DEF QueueInv, QueuesType
<1> QED BY <1>2, <1>3 DEF QueueInv, QueuesType, Numbered, Held, Competing

(* An unblocked role must be scheduled again; no other role is affected. *)
LEMMA UnblockInv ==
  ASSUME NEW p, NEW X, NEW r \in Roles, QueueInv(p, X)
  PROVE  QueueInv([p EXCEPT !.blocked[r] = NoTime, !.gen[r] = @ + 1], X \cup {r})
<1> DEFINE blocked == [p.blocked EXCEPT ![r] = NoTime]
           gen     == [p.gen EXCEPT ![r] = @ + 1]
           u       == [p EXCEPT !.blocked = blocked, !.gen = gen]
<1>1. /\ blocked \in [Roles -> Nat \cup {NoTime}] /\ gen \in [Roles -> Nat]
      /\ blocked[r] = NoTime
      /\ \A x \in Roles \ {r} : blocked[x] = p.blocked[x] /\ gen[x] = p.gen[x]
  BY DEF QueueInv, QueuesType, NoTime
<1>2. [p EXCEPT !.blocked[r] = NoTime, !.gen[r] = @ + 1] = u
  OBVIOUS
<1> HIDE DEF blocked, gen
<1>3. u \in QueuesType
  BY <1>1 DEF QueueInv, QueuesType
<1>4. /\ u.entries = p.entries /\ u.seq = p.seq /\ u.blocked = blocked /\ u.gen = gen
      /\ u.delayed = p.delayed /\ u.ready = p.ready /\ u.disconnecting = p.disconnecting
  BY DEF QueueInv, QueuesType
<1>5. Numbered(u)
  BY <1>4 DEF QueueInv, Numbered
<1>6. \A x \in Roles : Held(u, x)
  BY <1>1, <1>4 DEF QueueInv, Held
<1>7. ASSUME NEW x \in Roles \ {r}, Competing(p, x) PROVE Competing(u, x)
  BY <1>1, <1>4, <1>7 DEF Competing
<1> QED BY <1>2, <1>3, <1>4, <1>5, <1>6, <1>7 DEF QueueInv

(* drop_pending_binary keeps the heaps right. *)
LEMMA DropPendingInv ==
  ASSUME NEW p, NEW X, NEW r \in Roles, QueueInv(p, X)
  PROVE  QueueInv(DropPending(p, r), X)
<1> DEFINE b == [p EXCEPT !.epoch[r] = @ + 1]
           u == [b EXCEPT !.blocked[r] = NoTime, !.gen[r] = @ + 1]
<1>1. QueueInv(b, X)
  BY BumpInv
<1>2. QueueInv(u, X \cup {r})
  BY <1>1, UnblockInv
<1> HIDE DEF b, u
<1>3. QueueInv(Schedule(u, r), X)
  <2>1. QueueInv(Schedule(u, r), (X \cup {r}) \ {r})
    BY <1>2, ScheduleInv
  <2>2. (X \cup {r}) \ {r} \subseteq X OBVIOUS
  <2> QED BY <2>1, <2>2, QueueInvWider
<1>4. QueueInv(IF p.blocked[r] = NoTime THEN b ELSE Schedule(u, r), X)
  BY <1>1, <1>3
<1> QED BY <1>4, WokenInv DEF DropPending, b, u

(* Removing entries of a role keeps its key no later than its head. *)
LEMMA EntriesInv ==
  ASSUME NEW p, NEW X, NEW r \in Roles, QueueInv(p, X),
         NEW S \in SUBSET p.entries[r], NEW n \in Nat
  PROVE  QueueInv([p EXCEPT !.entries[r] = S, !.size = n], X)
<1> DEFINE entries == [p.entries EXCEPT ![r] = S]
           u       == [p EXCEPT !.entries = entries, !.size = n]
<1>1. [p EXCEPT !.entries[r] = S, !.size = n] = u
  OBVIOUS
<1>2. S \in Finite(Entry)
  BY FS_Subset DEF QueueInv, QueuesType, Finite
<1>3. entries \in [Roles -> Finite(Entry)] /\ \A x \in Roles : entries[x] \subseteq p.entries[x]
  BY <1>2 DEF QueueInv, QueuesType
<1> HIDE DEF entries
<1>4. u \in QueuesType
  BY <1>3 DEF QueueInv, QueuesType
<1>5. /\ u.entries = entries /\ u.seq = p.seq /\ u.blocked = p.blocked /\ u.gen = p.gen
      /\ u.delayed = p.delayed /\ u.ready = p.ready /\ u.disconnecting = p.disconnecting
  BY DEF QueueInv, QueuesType
<1>6. Numbered(u) /\ \A x \in Roles : Held(u, x)
  BY <1>3, <1>5 DEF QueueInv, Numbered, Held
<1>7. ASSUME NEW x \in Roles, Competing(p, x) PROVE Competing(u, x)
  BY <1>3, <1>5, <1>7 DEF Competing
<1> QED BY <1>1, <1>4, <1>5, <1>6, <1>7 DEF QueueInv

(* The timestamp of the last entry queued is free. *)
LEMMA LastTsInv ==
  ASSUME NEW p, NEW X, NEW r \in Roles, QueueInv(p, X), NEW ts \in Nat
  PROVE  QueueInv([p EXCEPT !.lastTs[r] = ts], X)
<1> DEFINE lastTs == [p.lastTs EXCEPT ![r] = ts]
<1>1. lastTs \in [Roles -> Nat]
  BY DEF QueueInv, QueuesType
<1>2. [p EXCEPT !.lastTs[r] = ts] = [p EXCEPT !.lastTs = lastTs]
  OBVIOUS
<1> HIDE DEF lastTs
<1> QED BY <1>1, <1>2 DEF QueueInv, QueuesType, Numbered, Held, Competing

(* _enqueue_role_entry pushes a key exactly when the entry becomes the head. *)
LEMMA EnqueueInv ==
  ASSUME NEW p, NEW X, NEW r \in Roles, QueueInv(p, X),
         NEW kind \in JsonKinds \cup BinaryKinds,
         NEW ts \in Nat, NEW due \in Nat, NEW room \in Nat
  PROVE  QueueInv(Enqueue(p, r, kind, ts, due, room), X)
<1> DEFINE e == [kind |-> kind, epoch |-> p.epoch[r], ts |-> ts, seq |-> p.seq,
                 due |-> due, room |-> room]
           S       == p.entries[r] \cup {e}
           new     == IF p.blocked[r] = NoTime /\ e \in Heads(S) THEN {Key(e, r)} ELSE {}
           entries == [p.entries EXCEPT ![r] = S]
           seq     == p.seq + 1
           size    == p.size + 1
           ready   == p.ready \cup new
           u       == [p EXCEPT !.entries = entries, !.seq = seq, !.size = size,
                                !.ready = ready]
<1>1. Enqueue(p, r, kind, ts, due, room) = Woken(u)
  BY DEF Enqueue
<1>2. e \in Entry /\ e.seq = p.seq /\ e.ts = ts
  BY DEF QueueInv, QueuesType, Entry
<1> HIDE DEF e
<1>3. S \in Finite(Entry)
  BY <1>2, FS_AddElement DEF QueueInv, QueuesType, Finite
<1>4. entries \in [Roles -> Finite(Entry)]
  BY <1>3 DEF QueueInv, QueuesType
<1>5. /\ ready \in SUBSET ReadyKey
      /\ seq \in Nat /\ seq = p.seq + 1 /\ size \in Nat
  <2>1. p.ready \in SUBSET ReadyKey /\ p.seq \in Nat /\ p.size \in Nat
    BY DEF QueueInv, QueuesType
  <2>2. Key(e, r) \in ReadyKey
    BY <1>2 DEF Key, ReadyKey, Entry
  <2>3. ready \in SUBSET ReadyKey
    BY <2>1, <2>2
  <2>4. seq \in Nat /\ seq = p.seq + 1 /\ size \in Nat
    BY <2>1
  <2> HIDE DEF ready, seq, size
  <2> QED BY <2>3, <2>4
<1>6. entries[r] = S /\ \A x \in Roles \ {r} : entries[x] = p.entries[x]
  BY DEF QueueInv, QueuesType
<1>6a. ready = p.ready \cup new
  OBVIOUS
<1> HIDE DEF entries, ready, new, seq, size
<1>7. u \in QueuesType
  BY <1>4, <1>5 DEF QueueInv, QueuesType
<1>8. /\ u.entries = entries /\ u.seq = p.seq + 1 /\ u.blocked = p.blocked /\ u.gen = p.gen
      /\ u.delayed = p.delayed /\ u.ready = p.ready \cup new
      /\ u.disconnecting = p.disconnecting
  BY <1>5, <1>6a DEF QueueInv, QueuesType
<1>9. Numbered(u)
  <2> SUFFICES ASSUME NEW x \in Roles, NEW f \in u.entries[x]
               PROVE  f.seq < u.seq /\ \A g \in u.entries[x] : f.seq = g.seq => f = g
    BY DEF Numbered
  <2>1. p.seq \in Nat /\ \A g \in p.entries[x] : g.seq \in Nat /\ g.seq < p.seq
    BY DEF QueueInv, QueuesType, Numbered, Finite, Entry
  <2>2. CASE x # r
    BY <2>1, <2>2, <1>6, <1>8 DEF QueueInv, Numbered
  <2>3. CASE x = r
    <3>1. f \in S /\ u.entries[x] = S /\ u.seq = p.seq + 1
      BY <2>3, <1>6, <1>8
    <3>2. \A g \in p.entries[r] : g.seq \in Nat /\ g.seq < p.seq
      BY <2>1, <2>3
    <3>3. \A g, h \in p.entries[r] : g.seq = h.seq => g = h
      BY DEF QueueInv, Numbered
    <3>4. f.seq < u.seq
      BY <3>1, <3>2, <2>1, <1>2
    <3>5. \A g \in S : f.seq = g.seq => f = g
      BY <3>1, <3>2, <3>3, <2>1, <1>2
    <3> QED BY <3>1, <3>4, <3>5
  <2> QED BY <2>2, <2>3
<1>10. \A x \in Roles : Held(u, x)
  BY <1>8 DEF QueueInv, Held
<1>11. ASSUME NEW x \in Roles, Competing(p, x) PROVE Competing(u, x)
  <2>1. CASE x # r
    BY <2>1, <1>6, <1>8, <1>11 DEF Competing
  <2>2. CASE x = r /\ p.blocked[r] # NoTime
    BY <2>2, <1>8 DEF Competing
  <2>3. CASE x = r /\ p.blocked[r] = NoTime /\ e \in Heads(S)
    <3>1. Key(e, r) \in u.ready /\ Key(e, r).role = r
      BY <2>3, <1>8 DEF new, Key
    <3>2. \A f \in S : Key(e, r) = Key(f, r) \/ Before(Key(e, r), f)
      BY <2>3 DEF Heads, Before, Key
    <3> QED BY <3>1, <3>2, <2>3, <1>6, <1>8 DEF Competing
  <2>4. CASE x = r /\ p.blocked[r] = NoTime /\ e \notin Heads(S)
    <3>1. \A f \in S : f.ts \in Nat /\ f.seq \in Nat
      BY <1>3 DEF Finite, Entry
    <3>2. PICK f \in p.entries[r] : ~Before(e, f)
      BY <2>4 DEF Heads
    <3>3. f.seq < e.seq
      BY <1>2 DEF QueueInv, Numbered
    <3>4. Before(f, e)
      BY <3>1, <3>2, <3>3 DEF Before
    <3>5. PICK k \in p.ready :
            k.role = r /\ \A g \in p.entries[r] : k = Key(g, r) \/ Before(k, g)
      BY <2>4, <3>2, <1>11 DEF Competing
    <3>6. k.ts \in Nat /\ k.seq \in Nat
      BY DEF QueueInv, QueuesType, ReadyKey
    <3>7. Before(k, e)
      BY <3>1, <3>2, <3>4, <3>5, <3>6 DEF Before, Key
    <3> QED BY <2>4, <3>5, <3>7, <1>6, <1>8 DEF Competing
  <2> QED BY <2>1, <2>2, <2>3, <2>4
<1>12. QueueInv(u, X)
  BY <1>7, <1>8, <1>9, <1>10, <1>11 DEF QueueInv
<1> QED BY <1>1, <1>12, WokenInv

(* send_priority_message keeps the heaps right. *)
LEMMA SendPriorityInv ==
  ASSUME NEW p, NEW X, QueueInv(p, X), NEW m \in Msg
  PROVE  QueueInv(SendPriority(p, m), X)
<1> DEFINE priority == Append(p.priority, m)
           seq  == p.seq + 1
           size == p.size + 1
           u    == [p EXCEPT !.priority = priority, !.seq = seq, !.size = size]
<1>1. /\ priority \in Seq(Msg)
      /\ seq \in Nat /\ seq = p.seq + 1 /\ size \in Nat
  BY DEF QueueInv, QueuesType
<1> HIDE DEF priority, seq, size
<1>2. u \in QueuesType
  BY <1>1 DEF QueueInv, QueuesType
<1>3. /\ u.entries = p.entries /\ u.seq = p.seq + 1 /\ u.blocked = p.blocked /\ u.gen = p.gen
      /\ u.delayed = p.delayed /\ u.ready = p.ready /\ u.disconnecting = p.disconnecting
  BY <1>1 DEF QueueInv, QueuesType
<1>4. \A x \in Roles : \A e \in p.entries[x] : e.seq \in Nat
  BY DEF QueueInv, QueuesType, Finite, Entry
<1>5. Numbered(u)
  BY <1>3, <1>4 DEF QueueInv, QueuesType, Numbered
<1>6. \A x \in Roles : Held(u, x) /\ (Competing(p, x) => Competing(u, x))
  BY <1>3 DEF QueueInv, Held, Competing
<1>7. QueueInv(u, X)
  BY <1>2, <1>3, <1>5, <1>6 DEF QueueInv
<1> QED BY <1>7, WokenInv, OverflowInv DEF SendPriority, priority, seq, size

(* send_message keeps the heaps right. *)
LEMMA SendNormalInv ==
  ASSUME NEW p, NEW X, QueueInv(p, X), NEW m \in Msg
  PROVE  QueueInv(SendNormal(p, m), X)
<1> DEFINE normal == p.normal \cup {[at |-> p.seq, msg |-> m]}
           seq  == p.seq + 1
           size == p.size + 1
           u    == [p EXCEPT !.normal = normal, !.seq = seq, !.size = size]
<1>1. normal \in Finite(NormalEntry)
  <2>1. [at |-> p.seq, msg |-> m] \in NormalEntry
    BY DEF QueueInv, QueuesType, NormalEntry
  <2>2. p.normal \subseteq NormalEntry /\ IsFiniteSet(p.normal)
    BY DEF QueueInv, QueuesType, Finite
  <2>3. IsFiniteSet(normal)
    BY <2>2, FS_AddElement
  <2> QED BY <2>1, <2>2, <2>3 DEF Finite
<1>1a. seq \in Nat /\ seq = p.seq + 1 /\ size \in Nat
  BY DEF QueueInv, QueuesType
<1> HIDE DEF normal, seq, size
<1>2. u \in QueuesType
  BY <1>1, <1>1a DEF QueueInv, QueuesType
<1>3. /\ u.entries = p.entries /\ u.seq = p.seq + 1 /\ u.blocked = p.blocked /\ u.gen = p.gen
      /\ u.delayed = p.delayed /\ u.ready = p.ready /\ u.disconnecting = p.disconnecting
  BY <1>1a DEF QueueInv, QueuesType
<1>4. \A x \in Roles : \A e \in p.entries[x] : e.seq \in Nat
  BY DEF QueueInv, QueuesType, Finite, Entry
<1>5. Numbered(u)
  BY <1>3, <1>4 DEF QueueInv, QueuesType, Numbered
<1>6. \A x \in Roles : Held(u, x) /\ (Competing(p, x) => Competing(u, x))
  BY <1>3 DEF QueueInv, Held, Competing
<1>7. QueueInv(u, X)
  BY <1>2, <1>3, <1>5, <1>6 DEF QueueInv
<1> QED BY <1>7, WokenInv, OverflowInv DEF SendNormal, normal, seq, size

(* send_binary keeps the heaps right. *)
LEMMA SendBinaryInv ==
  ASSUME NEW p, NEW X, NEW r \in Roles, QueueInv(p, X), NEW kind \in BinaryKinds,
         NEW due \in Nat, NEW room \in Nat
  PROVE  QueueInv(SendBinary(p, r, kind, due, room), X)
<1> DEFINE ts == Larger(due, p.lastTs[r])
           l  == [p EXCEPT !.lastTs[r] = ts]
<1>1. ts \in Nat
  BY DEF Larger, QueueInv, QueuesType
<1>2. QueueInv(l, X)
  BY <1>1, LastTsInv
<1> HIDE DEF ts, l
<1>3. QueueInv(Enqueue(l, r, kind, ts, due, room), X)
  BY <1>1, <1>2, EnqueueInv
<1> QED BY <1>3, OverflowInv DEF SendBinary, ts, l

(* The drained events touch no queue. *)
LEMMA DrainedInv ==
  ASSUME NEW p, NEW X, QueueInv(p, X), NEW S \in SUBSET Roles
  PROVE  QueueInv([p EXCEPT !.roleDrained = S], X)
<1> DEFINE u == [p EXCEPT !.roleDrained = S]
<1>1. u \in QueuesType
  BY DEF QueueInv, QueuesType
<1>2. /\ u.entries = p.entries /\ u.seq = p.seq /\ u.blocked = p.blocked /\ u.gen = p.gen
      /\ u.delayed = p.delayed /\ u.ready = p.ready /\ u.disconnecting = p.disconnecting
  BY DEF QueueInv, QueuesType
<1> QED BY <1>1, <1>2 DEF QueueInv, Numbered, Held, Competing

(* The queue count never goes below zero. *)
LEMMA SizeCutType ==
  ASSUME NEW p \in QueuesType, NEW k \in Nat
  PROVE  Minus(p.size, k) \in Nat
BY DEF QueuesType, Minus

(* _supersede_queued_stream keeps the heaps right. *)
LEMMA SupersedeInv ==
  ASSUME NEW p, NEW X, NEW r \in Roles, QueueInv(p, X)
  PROVE  QueueInv(Supersede(p, r), X)
<1> DEFINE S    == p.entries[r]
           kept == {e \in S : e.kind \notin {"start", "clear"}}
           size == Minus(p.size, Cardinality(S) - Cardinality(kept))
           cut  == [p EXCEPT !.entries[r] = kept, !.size = size]
<1>1. Cardinality(S) - Cardinality(kept) \in Nat
  <2>1. IsFiniteSet(S) BY DEF QueueInv, QueuesType, Finite
  <2>2. kept \in SUBSET S OBVIOUS
  <2>3. IsFiniteSet(kept) /\ Cardinality(kept) <= Cardinality(S)
    BY <2>1, <2>2, FS_Subset
  <2> QED BY <2>1, <2>3, FS_CardinalityType
<1>2. size \in Nat
  BY <1>1, SizeCutType DEF QueueInv
<1>3. QueueInv(cut, X)
  <2>1. kept \in SUBSET p.entries[r] OBVIOUS
  <2> HIDE DEF kept, size
  <2> QED BY <2>1, <1>2, EntriesInv
<1>4. Supersede(p, r) = IF S # {} /\ kept = {}
                        THEN [cut EXCEPT !.roleDrained = cut.roleDrained \ {r}] ELSE cut
  BY DEF Supersede
<1> HIDE DEF S, kept, cut
<1>5. cut.roleDrained \ {r} \in SUBSET Roles
  BY <1>3 DEF QueueInv, QueuesType
<1> QED BY <1>3, <1>4, <1>5, DrainedInv

(* A message of a role is well typed. *)
LEMMA MessageType ==
  ASSUME NEW kind \in RoleKinds, NEW r \in Roles
  PROVE  Message(kind, r) \in Msg
BY DEF Message, Msg, RoleKinds

(* The messages of no role are well typed. *)
LEMMA OtherMessageType ==
  ASSUME NEW S \in SUBSET Roles
  PROVE  Control \in Msg /\ Nothing \in Msg /\ Activation(S) \in Msg
BY DEF Control, Nothing, Activation, Message, Msg

(* send_role_message keeps the heaps right. *)
LEMMA SendJsonInv ==
  ASSUME NEW p, NEW X, NEW r \in Roles, QueueInv(p, X), NEW kind \in JsonKinds,
         NEW now \in Nat, NEW retiring
  PROVE  QueueInv(SendJson(p, r, kind, now, retiring), X)
<1> DEFINE dropped == IF kind \in {"clear", "end"} THEN DropPending(p, r) ELSE p
           ready   == IF kind = "end" THEN Supersede(dropped, r) ELSE dropped
           ts      == JsonTs(ready, r, kind, now)
           l       == [ready EXCEPT !.lastTs[r] = ts]
<1>1. QueueInv(dropped, X)
  BY DropPendingInv
<1> HIDE DEF dropped
<1>2. QueueInv(ready, X)
  BY <1>1, SupersedeInv
<1> HIDE DEF ready
<1>3. ts \in Nat
  <2>1. ready.lastTs[r] \in Nat BY <1>2 DEF QueueInv, QueuesType
  <2> QED BY <2>1 DEF JsonTs, Larger
<1> HIDE DEF ts
<1>4. QueueInv(l, X)
  BY <1>2, <1>3, LastTsInv
<1> HIDE DEF l
<1>5. QueueInv(Enqueue(l, r, kind, ts, 0, 0), X)
  BY <1>3, <1>4, EnqueueInv
<1>6. QueueInv(SendPriority(ready, Message(kind, r)), X)
  BY <1>2, MessageType, SendPriorityInv DEF RoleKinds
<1>7. QueueInv(Overflow(ready), X)
  BY <1>2, OverflowInv
<1> QED BY <1>2, <1>5, <1>6, <1>7 DEF SendJson, dropped, ready, ts, l

(* Taking entries off a queue keeps the heaps right. *)
LEMMA TakeInv ==
  ASSUME NEW p, NEW X, NEW r \in Roles, QueueInv(p, X), NEW taken \in SUBSET p.entries[r]
  PROVE  QueueInv(Take(p, r, taken), X)
<1> DEFINE S    == p.entries[r] \ taken
           size == Minus(p.size, Cardinality(taken))
<1>1. Cardinality(taken) \in Nat
  <2>1. IsFiniteSet(p.entries[r]) BY DEF QueueInv, QueuesType, Finite
  <2> QED BY <2>1, FS_Subset, FS_CardinalityType
<1>2. size \in Nat
  BY <1>1, SizeCutType DEF QueueInv
<1>3. S \in SUBSET p.entries[r]
  OBVIOUS
<1>4. Take(p, r, taken) = [p EXCEPT !.entries[r] = S, !.size = size]
  BY DEF Take
<1> HIDE DEF S, size
<1>5. QueueInv([p EXCEPT !.entries[r] = S, !.size = size], X)
  BY <1>2, <1>3, EntriesInv
<1> QED BY <1>4, <1>5

(* _discard_role_queue keeps the heaps right. *)
LEMMA DiscardRoleQueueInv ==
  ASSUME NEW p, NEW X, NEW r \in Roles, QueueInv(p, X)
  PROVE  QueueInv(DiscardRoleQueue(p, r), X)
<1> DEFINE size    == Minus(p.size, Cardinality(p.entries[r]))
           emptied == [p EXCEPT !.entries[r] = {}, !.size = size]
           owing   == IF EndQueuedLast(p, r) THEN SendPriority(emptied, Message("end", r))
                      ELSE emptied
           orders  == {c \in owing.normal : c.msg.kind = "command" /\ c.msg.role = r}
           normal  == owing.normal \ orders
           left    == Minus(owing.size, Cardinality(orders))
           cut     == [owing EXCEPT !.normal = normal, !.size = left]
           zero    == [cut EXCEPT !.lastTs[r] = 0]
<1>1. size \in Nat
  <2>1. IsFiniteSet(p.entries[r]) BY DEF QueueInv, QueuesType, Finite
  <2>2. Cardinality(p.entries[r]) \in Nat BY <2>1, FS_CardinalityType
  <2> QED BY <2>2, SizeCutType DEF QueueInv
<1> HIDE DEF size
<1>2. QueueInv(emptied, X)
  BY <1>1, EntriesInv
<1> HIDE DEF emptied
<1>3. QueueInv(owing, X)
  <2>1. Message("end", r) \in Msg BY MessageType DEF RoleKinds, JsonKinds
  <2> QED BY <1>2, <2>1, SendPriorityInv
<1> HIDE DEF owing
<1>4. normal \in Finite(NormalEntry) /\ left \in Nat
  <2>1. owing.normal \in SUBSET NormalEntry /\ IsFiniteSet(owing.normal)
    BY <1>3 DEF QueueInv, QueuesType, Finite
  <2>2. orders \in SUBSET owing.normal /\ normal \in SUBSET owing.normal OBVIOUS
  <2>3. IsFiniteSet(orders) /\ IsFiniteSet(normal) BY <2>1, <2>2, FS_Subset
  <2>4. Cardinality(orders) \in Nat BY <2>3, FS_CardinalityType
  <2>5. left \in Nat BY <1>3, <2>4, SizeCutType DEF QueueInv
  <2> QED BY <2>1, <2>2, <2>3, <2>5 DEF Finite
<1> HIDE DEF normal, left
<1>5. QueueInv(cut, X)
  <2>1. cut \in QueuesType
    BY <1>3, <1>4 DEF QueueInv, QueuesType
  <2>2. /\ cut.entries = owing.entries /\ cut.seq = owing.seq /\ cut.blocked = owing.blocked
        /\ cut.gen = owing.gen /\ cut.delayed = owing.delayed /\ cut.ready = owing.ready
        /\ cut.disconnecting = owing.disconnecting
    BY <1>3 DEF QueueInv, QueuesType
  <2> QED BY <1>3, <2>1, <2>2 DEF QueueInv, Numbered, Held, Competing
<1>6. QueueInv(zero, X)
  BY <1>5, LastTsInv
<1>7. DiscardRoleQueue(p, r) = DropPending(zero, r)
  BY DEF DiscardRoleQueue, size, emptied, owing, normal, left
<1> HIDE DEF zero
<1> QED BY <1>6, <1>7, DropPendingInv

(* A key popped off the ready heap exempts its role until it is replaced. *)
LEMMA PopInv ==
  ASSUME NEW p, NEW X, NEW r \in Roles, QueueInv(p, X), NEW k, k.role = r
  PROVE  QueueInv([p EXCEPT !.ready = @ \ {k}], X \cup {r})
<1> DEFINE ready == p.ready \ {k}
           u     == [p EXCEPT !.ready = ready]
<1>1. ready \in SUBSET ReadyKey
  BY DEF QueueInv, QueuesType
<1>2. u \in QueuesType
  <2> HIDE DEF ready
  <2> QED BY <1>1 DEF QueueInv, QueuesType
<1>3. /\ u.entries = p.entries /\ u.seq = p.seq /\ u.blocked = p.blocked /\ u.gen = p.gen
      /\ u.delayed = p.delayed /\ u.ready = ready /\ u.disconnecting = p.disconnecting
  BY DEF QueueInv, QueuesType
<1>4. ASSUME NEW x \in Roles \ {r}, Competing(p, x) PROVE Competing(u, x)
  BY <1>3, <1>4 DEF Competing
<1> HIDE DEF ready
<1> QED BY <1>2, <1>3, <1>4 DEF QueueInv, Numbered, Held, ready

(* _block_role puts the entry that ends the wait on the delayed heap. *)
LEMMA BlockInv ==
  ASSUME NEW p, NEW X, NEW r \in Roles, QueueInv(p, X), NEW at \in Nat
  PROVE  QueueInv(Block(p, r, at), X \ {r})
<1> DEFINE blocked == [p.blocked EXCEPT ![r] = at]
           gen     == [p.gen EXCEPT ![r] = @ + 1]
           d       == [at |-> at, gen |-> p.gen[r] + 1, role |-> r]
           delayed == p.delayed \cup {d}
           u       == [p EXCEPT !.blocked = blocked, !.gen = gen, !.delayed = delayed]
<1>1. /\ blocked \in [Roles -> Nat \cup {NoTime}] /\ gen \in [Roles -> Nat]
      /\ blocked[r] = at /\ gen[r] = p.gen[r] + 1
      /\ \A x \in Roles \ {r} : blocked[x] = p.blocked[x] /\ gen[x] = p.gen[x]
  BY DEF QueueInv, QueuesType, NoTime
<1>2. delayed \in SUBSET DelayedKey
  BY DEF QueueInv, QueuesType, DelayedKey
<1>3. Block(p, r, at) = u
  BY DEF Block
<1> HIDE DEF blocked, gen
<1>4. u \in QueuesType
  <2> HIDE DEF delayed
  <2> QED BY <1>1, <1>2 DEF QueueInv, QueuesType
<1>5. /\ u.entries = p.entries /\ u.seq = p.seq /\ u.blocked = blocked /\ u.gen = gen
      /\ u.delayed = delayed /\ u.ready = p.ready /\ u.disconnecting = p.disconnecting
  BY DEF QueueInv, QueuesType
<1>6. Numbered(u)
  BY <1>5 DEF QueueInv, Numbered
<1>7. ASSUME NEW x \in Roles PROVE Held(u, x)
  <2>1. CASE x = r
    BY <2>1, <1>1, <1>5 DEF Held
  <2>2. CASE x # r
    BY <2>2, <1>1, <1>5 DEF QueueInv, Held
  <2> QED BY <2>1, <2>2
<1>8. Competing(u, r)
  BY <1>1, <1>5 DEF Competing, NoTime
<1>9. ASSUME NEW x \in Roles \ {r}, Competing(p, x) PROVE Competing(u, x)
  BY <1>1, <1>5, <1>9 DEF Competing
<1> QED BY <1>3, <1>4, <1>5, <1>6, <1>7, <1>8, <1>9 DEF QueueInv

(* _promote_ready_roles unblocks exactly the roles whose wait is over. *)
LEMMA PromoteInv ==
  ASSUME NEW p, NEW X, QueueInv(p, X), NEW now \in Nat
  PROVE  QueueInv(Promote(p, now), X)
<1> DEFINE over  == {d \in p.delayed : d.at <= now}
           freed == {r \in Roles : \E d \in over : /\ d.role = r
                                                   /\ d.gen = p.gen[r]
                                                   /\ d.at = p.blocked[r]}
           delayed == p.delayed \ over
           blocked == [r \in Roles |-> IF r \in freed THEN NoTime ELSE p.blocked[r]]
           ready   == p.ready \cup UNION {HeadKeys(p.entries[r], r) : r \in freed}
           u       == [p EXCEPT !.delayed = delayed, !.blocked = blocked, !.ready = ready]
<1>1. blocked \in [Roles -> Nat \cup {NoTime}] /\ delayed \in SUBSET DelayedKey
  BY DEF QueueInv, QueuesType
<1>2. ready \in SUBSET ReadyKey
  <2>1. \A r \in Roles : HeadKeys(p.entries[r], r) \in SUBSET ReadyKey
    BY HeadKeysType DEF QueueInv, QueuesType, Finite
  <2> QED BY <2>1 DEF QueueInv, QueuesType
<1>3. Promote(p, now) = u
  BY DEF Promote
<1>4. /\ \A r \in freed : blocked[r] = NoTime /\ HeadKeys(p.entries[r], r) \subseteq ready
      /\ \A r \in Roles \ freed : blocked[r] = p.blocked[r]
      /\ p.ready \subseteq ready
  OBVIOUS
<1>5. u \in QueuesType
  <2> HIDE DEF blocked, ready, delayed
  <2> QED BY <1>1, <1>2 DEF QueueInv, QueuesType
<1>6. /\ u.entries = p.entries /\ u.seq = p.seq /\ u.blocked = blocked /\ u.gen = p.gen
      /\ u.delayed = delayed /\ u.ready = ready /\ u.disconnecting = p.disconnecting
  BY DEF QueueInv, QueuesType
<1>7. Numbered(u)
  BY <1>6 DEF QueueInv, Numbered
<1>8. ASSUME NEW r \in Roles PROVE Held(u, r)
  <2> DEFINE d == [at |-> p.blocked[r], gen |-> p.gen[r], role |-> r]
  <2> SUFFICES ASSUME blocked[r] # NoTime PROVE d \in delayed /\ blocked[r] = p.blocked[r]
    BY <1>6 DEF Held
  <2>1. r \notin freed /\ blocked[r] = p.blocked[r] BY <1>4
  <2>2. d \in p.delayed BY <2>1 DEF QueueInv, Held
  <2>3. d \notin over BY <2>1
  <2> QED BY <2>1, <2>2, <2>3
<1>9. ASSUME NEW r \in Roles, r \in freed \/ Competing(p, r) PROVE Competing(u, r)
  <2>1. CASE r \in freed
    <3>1. HeadKeys(u.entries[r], r) \subseteq u.ready BY <2>1, <1>4, <1>6
    <3> QED BY <3>1, <1>5, <1>7, HeadKeyCompetes
  <2>2. CASE r \notin freed
    <3>1. blocked[r] = p.blocked[r] /\ p.ready \subseteq u.ready BY <2>2, <1>4, <1>6
    <3> HIDE DEF freed, blocked, ready, delayed, u
    <3> QED BY <2>2, <3>1, <1>6, <1>9 DEF Competing
  <2> QED BY <2>1, <2>2
<1> HIDE DEF u, freed
<1> QED BY <1>3, <1>5, <1>6, <1>7, <1>8, <1>9 DEF QueueInv

(* What the client has been told touches no queue. *)
LEMMA OnWireInv ==
  ASSUME NEW p, NEW X, QueueInv(p, X), NEW m \in Msg
  PROVE  QueueInv(OnWire(p, m), X)
<1> DEFINE S == CASE m.kind = "start" -> p.streaming \cup {m.role}
                  [] m.kind = "end"   -> p.streaming \ {m.role}
                  [] OTHER            -> p.streaming
           u == [p EXCEPT !.streaming = S]
<1>1. S \in SUBSET Roles
  <2>1. m.kind \in {"start", "end"} => m.role \in Roles
    BY DEF Msg, RoleKinds
  <2> QED BY <2>1 DEF QueueInv, QueuesType
<1>2. OnWire(p, m) = u
  BY DEF OnWire
<1> HIDE DEF S
<1>3. u \in QueuesType
  BY <1>1 DEF QueueInv, QueuesType
<1>4. /\ u.entries = p.entries /\ u.seq = p.seq /\ u.blocked = p.blocked /\ u.gen = p.gen
      /\ u.delayed = p.delayed /\ u.ready = p.ready /\ u.disconnecting = p.disconnecting
  BY DEF QueueInv, QueuesType
<1> QED BY <1>2, <1>3, <1>4 DEF QueueInv, Numbered, Held, Competing

(* Waking wait_role_drained touches no queue. *)
LEMMA RoleDoneInv ==
  ASSUME NEW p, NEW X, QueueInv(p, X), NEW r
  PROVE  QueueInv(RoleDone(p, r), X)
<1>1. p.roleDrained \ {r} \in SUBSET Roles
  BY DEF QueueInv, QueuesType
<1> QED BY <1>1, DrainedInv DEF RoleDone

(* Waiting for a role to drain touches no queue. *)
LEMMA AwaitDrainedInv ==
  ASSUME NEW p, NEW X, QueueInv(p, X), NEW r \in Roles, NEW s
  PROVE  QueueInv(AwaitDrained(p, r, s), X)
<1>1. p.roleDrained \cup {r} \in SUBSET Roles
  BY DEF QueueInv, QueuesType
<1> QED BY <1>1, DrainedInv DEF AwaitDrained

(* The wake-up and idle events touch no queue. *)
LEMMA FlagsInv ==
  ASSUME NEW p, NEW X, QueueInv(p, X), NEW wake \in BOOLEAN, NEW idle \in BOOLEAN
  PROVE  QueueInv([p EXCEPT !.wake = wake, !.idle = idle], X)
BY DEF QueueInv, QueuesType, Numbered, Held, Competing

(* The end of the writer touches no queue. *)
LEMMA DisconnectedInv ==
  ASSUME NEW p, NEW X, QueueInv(p, X), NEW idle \in BOOLEAN
  PROVE  QueueInv([p EXCEPT !.disconnecting = TRUE, !.idle = idle], X)
BY DEF QueueInv, QueuesType, Numbered, Held, Competing

(* The priority queue is independent of the role queues. *)
LEMMA PriorityInv ==
  ASSUME NEW p, NEW X, QueueInv(p, X), NEW s \in Seq(Msg), NEW n \in Nat
  PROVE  QueueInv([p EXCEPT !.priority = s, !.size = n], X)
<1> DEFINE u == [p EXCEPT !.priority = s, !.size = n]
<1>1. u \in QueuesType
  BY DEF QueueInv, QueuesType
<1>2. /\ u.entries = p.entries /\ u.seq = p.seq /\ u.blocked = p.blocked /\ u.gen = p.gen
      /\ u.delayed = p.delayed /\ u.ready = p.ready /\ u.disconnecting = p.disconnecting
  BY DEF QueueInv, QueuesType
<1> QED BY <1>1, <1>2 DEF QueueInv, Numbered, Held, Competing

(* The queue of control messages is independent of the role queues. *)
LEMMA NormalInv ==
  ASSUME NEW p, NEW X, QueueInv(p, X), NEW S \in SUBSET p.normal, NEW n \in Nat
  PROVE  QueueInv([p EXCEPT !.normal = S, !.size = n], X)
<1> DEFINE u == [p EXCEPT !.normal = S, !.size = n]
<1>1. S \in Finite(NormalEntry)
  BY FS_Subset DEF QueueInv, QueuesType, Finite
<1>2. u \in QueuesType
  BY <1>1 DEF QueueInv, QueuesType
<1>3. /\ u.entries = p.entries /\ u.seq = p.seq /\ u.blocked = p.blocked /\ u.gen = p.gen
      /\ u.delayed = p.delayed /\ u.ready = p.ready /\ u.disconnecting = p.disconnecting
  BY DEF QueueInv, QueuesType
<1> QED BY <1>2, <1>3 DEF QueueInv, Numbered, Held, Competing


-----------------------------------------------------------------------------
(* The fields of the queues that no heap and no event of the writer is part of. *)
Contents(p) == <<p.entries, p.lastTs, p.epoch, p.priority, p.normal, p.streaming, p.disconnecting>>

(* Waking the writer touches only its events. *)
LEMMA WokenFields ==
  ASSUME NEW p \in QueuesType
  PROVE  /\ Contents(Woken(p)) = Contents(p)
         /\ Woken(p).seq = p.seq /\ Woken(p).size = p.size /\ Woken(p).roleDrained = p.roleDrained
         /\ ~Woken(p).idle
BY DEF Woken, QueuesType, Contents

(* A full queue ends the connection and changes nothing else. *)
LEMMA OverflowFields ==
  ASSUME NEW p \in QueuesType
  PROVE  /\ Overflow(p).disconnecting /\ Overflow(p).entries = p.entries
         /\ Overflow(p).lastTs = p.lastTs /\ Overflow(p).epoch = p.epoch
         /\ Overflow(p).priority = p.priority /\ Overflow(p).normal = p.normal
         /\ Overflow(p).streaming = p.streaming /\ Overflow(p).seq = p.seq
         /\ Overflow(p).size = p.size /\ Overflow(p).roleDrained = p.roleDrained
         /\ Overflow(p).idle = p.idle
BY DEF Overflow, QueuesType

(* _schedule_role_head pushes the heads of one role on the ready heap. *)
LEMMA ScheduleFields ==
  ASSUME NEW p \in QueuesType, NEW r \in Roles
  PROVE  /\ Contents(Schedule(p, r)) = Contents(p)
         /\ Schedule(p, r).seq = p.seq /\ Schedule(p, r).size = p.size
         /\ Schedule(p, r).roleDrained = p.roleDrained /\ Schedule(p, r).idle = p.idle
<1> DEFINE ready == p.ready \cup HeadKeys(p.entries[r], r)
<1>1. Schedule(p, r) = IF p.blocked[r] # NoTime THEN p ELSE [p EXCEPT !.ready = ready]
  BY DEF Schedule
<1> HIDE DEF ready
<1> QED BY <1>1 DEF QueuesType, Contents

(* invalidate_role_binary moves one role to its next epoch, releases it, and *)
(* wakes the writer; its entries stay queued.                                *)
LEMMA DropPendingFields ==
  ASSUME NEW p \in QueuesType, NEW r \in Roles
  PROVE  LET d == DropPending(p, r)
         IN  /\ d.entries = p.entries /\ d.lastTs = p.lastTs
             /\ d.epoch = [p.epoch EXCEPT ![r] = @ + 1]
             /\ d.priority = p.priority /\ d.normal = p.normal /\ d.streaming = p.streaming
             /\ d.disconnecting = p.disconnecting /\ d.seq = p.seq /\ d.size = p.size
             /\ d.roleDrained = p.roleDrained /\ ~d.idle
<1> DEFINE epoch   == [p.epoch EXCEPT ![r] = @ + 1]
           blocked == [p.blocked EXCEPT ![r] = NoTime]
           gen     == [p.gen EXCEPT ![r] = @ + 1]
           b       == [p EXCEPT !.epoch = epoch]
           u       == [p EXCEPT !.epoch = epoch, !.blocked = blocked, !.gen = gen]
           x       == IF p.blocked[r] = NoTime THEN b ELSE Schedule(u, r)
<1>1. DropPending(p, r) = Woken(x)
  BY DEF DropPending, QueuesType
<1>2. epoch \in [Roles -> Nat] /\ blocked \in [Roles -> Nat \cup {NoTime}] /\ gen \in [Roles -> Nat]
  BY DEF QueuesType
<1> HIDE DEF epoch, blocked, gen
<1>3. b \in QueuesType /\ u \in QueuesType
  BY <1>2 DEF QueuesType
<1>4. /\ Contents(b) = Contents([p EXCEPT !.epoch = epoch])
      /\ Contents(u) = Contents([p EXCEPT !.epoch = epoch])
      /\ b.seq = p.seq /\ b.size = p.size /\ b.roleDrained = p.roleDrained
      /\ u.seq = p.seq /\ u.size = p.size /\ u.roleDrained = p.roleDrained
  BY DEF QueuesType, Contents
<1>5. Schedule(u, r) \in QueuesType
  <2> DEFINE ready == u.ready \cup HeadKeys(u.entries[r], r)
  <2>1. ready \in SUBSET ReadyKey
    BY <1>3, HeadKeysType DEF QueuesType, Finite
  <2>2. Schedule(u, r) = IF u.blocked[r] # NoTime THEN u ELSE [u EXCEPT !.ready = ready]
    BY DEF Schedule
  <2> HIDE DEF ready, u
  <2> QED BY <1>3, <2>1, <2>2, ZenonT(30) DEF QueuesType
<1>6. /\ x \in QueuesType /\ Contents(x) = Contents([p EXCEPT !.epoch = epoch])
      /\ x.seq = p.seq /\ x.size = p.size /\ x.roleDrained = p.roleDrained
  <2> HIDE DEF b, u
  <2> QED BY <1>3, <1>4, <1>5, ScheduleFields
<1> HIDE DEF x
<1>7. /\ Contents(Woken(x)) = Contents([p EXCEPT !.epoch = epoch])
      /\ Woken(x).seq = p.seq /\ Woken(x).size = p.size /\ Woken(x).roleDrained = p.roleDrained
      /\ ~Woken(x).idle
  BY <1>6, WokenFields
<1>8. [p EXCEPT !.epoch = epoch].epoch = epoch
  BY DEF QueuesType
<1> QED BY <1>1, <1>7, <1>8 DEF Contents, epoch, QueuesType

(* The entry _enqueue_role_entry pushes. *)
NewEntry(p, r, kind, ts, due, room) ==
  [kind |-> kind, epoch |-> p.epoch[r], ts |-> ts, seq |-> p.seq, due |-> due, room |-> room]

(* The queue of role r with an entry more. *)
WithEntry(p, r, e) == [p.entries EXCEPT ![r] = @ \cup {e}]

(* _enqueue_role_entry adds one entry to one role, and counts it. *)
LEMMA EnqueueFields ==
  ASSUME NEW p \in QueuesType, NEW r \in Roles, NEW kind, NEW ts, NEW due, NEW room
  PROVE  LET d == Enqueue(p, r, kind, ts, due, room)
         IN  /\ d.entries = WithEntry(p, r, NewEntry(p, r, kind, ts, due, room))
             /\ d.lastTs = p.lastTs /\ d.epoch = p.epoch
             /\ d.priority = p.priority /\ d.normal = p.normal /\ d.streaming = p.streaming
             /\ d.disconnecting = p.disconnecting /\ d.seq = p.seq + 1 /\ d.size = p.size + 1
             /\ d.roleDrained = p.roleDrained /\ ~d.idle
<1> DEFINE e == [kind |-> kind, epoch |-> p.epoch[r], ts |-> ts, seq |-> p.seq,
                 due |-> due, room |-> room]
           S       == p.entries[r] \cup {e}
           new     == IF p.blocked[r] = NoTime /\ e \in Heads(S) THEN {Key(e, r)} ELSE {}
           entries == [p.entries EXCEPT ![r] = S]
           seq     == p.seq + 1
           size    == p.size + 1
           ready   == p.ready \cup new
           u       == [p EXCEPT !.entries = entries, !.seq = seq, !.size = size,
                                !.ready = ready]
<1>1. Enqueue(p, r, kind, ts, due, room) = [u EXCEPT !.wake = TRUE, !.idle = FALSE]
  BY DEF Enqueue, Woken
<1>2. entries = [p.entries EXCEPT ![r] = @ \cup {e}]
  BY DEF QueuesType
<1> HIDE DEF e, entries, ready, seq, size
<1>3. /\ u.entries = entries /\ u.lastTs = p.lastTs /\ u.epoch = p.epoch
      /\ u.priority = p.priority /\ u.normal = p.normal /\ u.streaming = p.streaming
      /\ u.disconnecting = p.disconnecting /\ u.seq = seq /\ u.size = size
      /\ u.roleDrained = p.roleDrained
  BY DEF QueuesType
<1>4. LET d == [u EXCEPT !.wake = TRUE, !.idle = FALSE]
      IN  /\ d.entries = u.entries /\ d.lastTs = u.lastTs /\ d.epoch = u.epoch
          /\ d.priority = u.priority /\ d.normal = u.normal /\ d.streaming = u.streaming
          /\ d.disconnecting = u.disconnecting /\ d.seq = u.seq /\ d.size = u.size
          /\ d.roleDrained = u.roleDrained /\ ~d.idle
  BY DEF QueuesType
<1> QED BY <1>1, <1>2, <1>3, <1>4 DEF e, seq, size, NewEntry, WithEntry

(* A priority message joins the end of its queue, or the connection ends. *)
LEMMA SendPriorityFields ==
  ASSUME NEW p \in QueuesType, NEW m
  PROVE  LET d == SendPriority(p, m)
         IN  /\ d.entries = p.entries /\ d.lastTs = p.lastTs /\ d.epoch = p.epoch
             /\ d.normal = p.normal /\ d.streaming = p.streaming
             /\ d.roleDrained = p.roleDrained
             /\ \/ /\ d.disconnecting /\ d.priority = p.priority
                   /\ d.seq = p.seq /\ d.size = p.size /\ d.idle = p.idle
                \/ /\ d.disconnecting = p.disconnecting /\ d.priority = Append(p.priority, m)
                   /\ d.seq = p.seq + 1 /\ d.size = p.size + 1 /\ ~d.idle
<1> DEFINE priority == Append(p.priority, m)
           seq  == p.seq + 1
           size == p.size + 1
           u    == [p EXCEPT !.priority = priority, !.seq = seq, !.size = size, !.wake = TRUE,
                             !.idle = FALSE]
<1>1. SendPriority(p, m) = IF Len(p.priority) >= MaxQueue THEN Overflow(p) ELSE u
  BY DEF SendPriority, Woken
<1> HIDE DEF priority, seq, size
<1>2. /\ u.entries = p.entries /\ u.lastTs = p.lastTs /\ u.epoch = p.epoch
      /\ u.normal = p.normal /\ u.streaming = p.streaming
      /\ u.roleDrained = p.roleDrained
      /\ u.disconnecting = p.disconnecting /\ u.priority = priority
      /\ u.seq = seq /\ u.size = size /\ ~u.idle
  BY DEF QueuesType
<1> HIDE DEF u
<1> QED BY <1>1, <1>2, OverflowFields DEF priority, seq, size

(* A control message joins the normal queue, or the connection ends. *)
LEMMA SendNormalFields ==
  ASSUME NEW p \in QueuesType, NEW m
  PROVE  LET d == SendNormal(p, m)
         IN  /\ d.entries = p.entries /\ d.lastTs = p.lastTs /\ d.epoch = p.epoch
             /\ d.priority = p.priority /\ d.streaming = p.streaming
             /\ d.roleDrained = p.roleDrained
             /\ \/ /\ d.disconnecting /\ d.normal = p.normal
                   /\ d.seq = p.seq /\ d.size = p.size /\ d.idle = p.idle
                \/ /\ d.disconnecting = p.disconnecting
                   /\ d.normal = p.normal \cup {[at |-> p.seq, msg |-> m]}
                   /\ d.seq = p.seq + 1 /\ d.size = p.size + 1 /\ ~d.idle
<1> DEFINE normal == p.normal \cup {[at |-> p.seq, msg |-> m]}
           seq  == p.seq + 1
           size == p.size + 1
           u    == [p EXCEPT !.normal = normal, !.seq = seq, !.size = size, !.wake = TRUE,
                             !.idle = FALSE]
<1>1. SendNormal(p, m) = IF p.size >= MaxQueue THEN Overflow(p) ELSE u
  BY DEF SendNormal, Woken
<1> HIDE DEF normal, seq, size
<1>2. /\ u.entries = p.entries /\ u.lastTs = p.lastTs /\ u.epoch = p.epoch
      /\ u.normal = normal /\ u.streaming = p.streaming
      /\ u.roleDrained = p.roleDrained
      /\ u.disconnecting = p.disconnecting /\ u.priority = p.priority
      /\ u.seq = seq /\ u.size = size /\ ~u.idle
  BY DEF QueuesType
<1> HIDE DEF u
<1> QED BY <1>1, <1>2, OverflowFields DEF normal, seq, size

(* A chunk joins the queue of its role no earlier than what was queued to it *)
(* before, or the connection ends.                                           *)
LEMMA SendBinaryFields ==
  ASSUME NEW p \in QueuesType, NEW r \in Roles, NEW kind, NEW due \in Nat, NEW room
  PROVE  LET d == SendBinary(p, r, kind, due, room)
             e == NewEntry(p, r, kind, Larger(due, p.lastTs[r]), due, room)
         IN  /\ d.epoch = p.epoch /\ d.priority = p.priority /\ d.normal = p.normal
             /\ d.streaming = p.streaming /\ d.roleDrained = p.roleDrained
             /\ \/ /\ d.disconnecting /\ d.entries = p.entries /\ d.lastTs = p.lastTs
                   /\ d.seq = p.seq /\ d.size = p.size /\ d.idle = p.idle
                \/ /\ d.disconnecting = p.disconnecting
                   /\ d.entries = WithEntry(p, r, e)
                   /\ d.lastTs = [p.lastTs EXCEPT ![r] = Larger(due, @)]
                   /\ d.seq = p.seq + 1 /\ d.size = p.size + 1 /\ ~d.idle
<1> DEFINE ts     == Larger(due, p.lastTs[r])
           lastTs == [p.lastTs EXCEPT ![r] = ts]
           l      == [p EXCEPT !.lastTs = lastTs]
<1>1. lastTs \in [Roles -> Nat] /\ lastTs = [p.lastTs EXCEPT ![r] = Larger(due, @)]
  BY DEF QueuesType, Larger
<1>2. SendBinary(p, r, kind, due, room) =
        IF RoleFull(p, r) THEN Overflow(p) ELSE Enqueue(l, r, kind, ts, due, room)
  BY DEF SendBinary
<1> HIDE DEF ts, lastTs
<1>3. /\ l \in QueuesType /\ l.lastTs = lastTs /\ l.entries = p.entries /\ l.epoch = p.epoch
      /\ l.priority = p.priority /\ l.normal = p.normal /\ l.streaming = p.streaming
      /\ l.disconnecting = p.disconnecting /\ l.seq = p.seq /\ l.size = p.size
      /\ l.roleDrained = p.roleDrained
  BY <1>1 DEF QueuesType
<1> HIDE DEF l
<1>4. CASE RoleFull(p, r)
  BY <1>2, <1>4, OverflowFields
<1>5. CASE ~RoleFull(p, r)
  <2>1. WithEntry(l, r, NewEntry(l, r, kind, ts, due, room))
          = WithEntry(p, r, NewEntry(p, r, kind, ts, due, room))
    BY <1>3 DEF WithEntry, NewEntry
  <2> DEFINE d == Enqueue(l, r, kind, ts, due, room)
  <2>2. SendBinary(p, r, kind, due, room) = d
    BY <1>2, <1>5
  <2>3. /\ d.entries = WithEntry(p, r, NewEntry(p, r, kind, ts, due, room))
        /\ d.lastTs = l.lastTs /\ d.epoch = l.epoch
        /\ d.priority = l.priority /\ d.normal = l.normal /\ d.streaming = l.streaming
        /\ d.disconnecting = l.disconnecting /\ d.seq = l.seq + 1 /\ d.size = l.size + 1
        /\ d.roleDrained = l.roleDrained /\ ~d.idle
    <3>1. l \in QueuesType
      BY <1>3
    <3>2. /\ d.entries = WithEntry(l, r, NewEntry(l, r, kind, ts, due, room))
          /\ d.lastTs = l.lastTs /\ d.epoch = l.epoch
          /\ d.priority = l.priority /\ d.normal = l.normal /\ d.streaming = l.streaming
          /\ d.disconnecting = l.disconnecting /\ d.seq = l.seq + 1 /\ d.size = l.size + 1
          /\ d.roleDrained = l.roleDrained /\ ~d.idle
      BY <3>1, EnqueueFields, Zenon
    <3> QED BY <2>1, <3>2
  <2> HIDE DEF d
  <2> QED BY <1>1, <1>3, <2>2, <2>3 DEF ts
<1> QED BY <1>4, <1>5

(* The entries of role r that a stream/end leaves in its queue. *)
KeptByEnd(p, r) == {e \in p.entries[r] : e.kind \notin {"start", "clear"}}

(* A stream/end takes the stream/start and stream/clear messages still *)
(* queued to its role out of the queue.                                *)
LEMMA SupersedeFields ==
  ASSUME NEW p \in QueuesType, NEW r \in Roles
  PROVE  LET d == Supersede(p, r)
         IN  /\ d.entries = [p.entries EXCEPT ![r] = KeptByEnd(p, r)]
             /\ d.lastTs = p.lastTs /\ d.epoch = p.epoch
             /\ d.priority = p.priority /\ d.normal = p.normal /\ d.streaming = p.streaming
             /\ d.disconnecting = p.disconnecting /\ d.seq = p.seq
             /\ d.size = Minus(p.size, Cardinality(p.entries[r]) - Cardinality(KeptByEnd(p, r)))
             /\ d.roleDrained = IF p.entries[r] # {} /\ KeptByEnd(p, r) = {} THEN p.roleDrained \ {r} ELSE p.roleDrained
             /\ d.idle = p.idle
<1> DEFINE S    == p.entries[r]
           kept == {e \in S : e.kind \notin {"start", "clear"}}
           size == Minus(p.size, Cardinality(S) - Cardinality(kept))
           entries == [p.entries EXCEPT ![r] = kept]
           drained == IF S # {} /\ kept = {} THEN p.roleDrained \ {r} ELSE p.roleDrained
           u == [p EXCEPT !.entries = entries, !.size = size, !.roleDrained = drained]
<1>1. Supersede(p, r) = u
  BY DEF Supersede, QueuesType
<1>2. entries = [p.entries EXCEPT ![r] = kept] /\ size = Minus(p.size, Cardinality(S) - Cardinality(kept))
  OBVIOUS
<1> HIDE DEF entries, size, drained, kept
<1>3. /\ u.entries = entries
      /\ u.lastTs = p.lastTs /\ u.epoch = p.epoch
      /\ u.priority = p.priority /\ u.normal = p.normal /\ u.streaming = p.streaming
      /\ u.disconnecting = p.disconnecting /\ u.seq = p.seq
      /\ u.size = size /\ u.roleDrained = drained /\ u.idle = p.idle
  BY DEF QueuesType
<1> QED BY <1>1, <1>2, <1>3 DEF drained, kept, KeptByEnd

(* Taking entries out of the queue of a role. *)
LEMMA TakeFields ==
  ASSUME NEW p \in QueuesType, NEW r \in Roles, NEW T
  PROVE  LET d == Take(p, r, T)
         IN  /\ d.entries = [p.entries EXCEPT ![r] = @ \ T]
             /\ d.lastTs = p.lastTs /\ d.epoch = p.epoch
             /\ d.priority = p.priority /\ d.normal = p.normal /\ d.streaming = p.streaming
             /\ d.disconnecting = p.disconnecting /\ d.seq = p.seq
             /\ d.size = Minus(p.size, Cardinality(T))
             /\ d.roleDrained = p.roleDrained /\ d.idle = p.idle
<1> DEFINE entries == [p.entries EXCEPT ![r] = @ \ T]
           size    == Minus(p.size, Cardinality(T))
           u       == [p EXCEPT !.entries = entries, !.size = size]
<1>1. Take(p, r, T) = u
  BY DEF Take, QueuesType
<1> HIDE DEF entries, size
<1>2. /\ u.entries = entries
      /\ u.lastTs = p.lastTs /\ u.epoch = p.epoch
      /\ u.priority = p.priority /\ u.normal = p.normal /\ u.streaming = p.streaming
      /\ u.disconnecting = p.disconnecting /\ u.seq = p.seq
      /\ u.size = size /\ u.roleDrained = p.roleDrained /\ u.idle = p.idle
  BY DEF QueuesType
<1> QED BY <1>1, <1>2 DEF entries, size

(* Popping a key off the ready heap changes nothing else. *)
LEMMA PopFields ==
  ASSUME NEW p \in QueuesType, NEW k
  PROVE  LET d == [p EXCEPT !.ready = @ \ {k}]
         IN  /\ d.entries = p.entries
             /\ d.lastTs = p.lastTs /\ d.epoch = p.epoch
             /\ d.priority = p.priority /\ d.normal = p.normal /\ d.streaming = p.streaming
             /\ d.disconnecting = p.disconnecting /\ d.seq = p.seq
             /\ d.size = p.size /\ d.roleDrained = p.roleDrained /\ d.idle = p.idle
BY DEF QueuesType

(* Blocking a role changes only its block and the delayed heap. *)
LEMMA BlockFields ==
  ASSUME NEW p \in QueuesType, NEW r \in Roles, NEW at
  PROVE  LET d == Block(p, r, at)
         IN  /\ d.entries = p.entries
             /\ d.lastTs = p.lastTs /\ d.epoch = p.epoch
             /\ d.priority = p.priority /\ d.normal = p.normal /\ d.streaming = p.streaming
             /\ d.disconnecting = p.disconnecting /\ d.seq = p.seq
             /\ d.size = p.size /\ d.roleDrained = p.roleDrained /\ d.idle = p.idle
<1> DEFINE blocked == [p.blocked EXCEPT ![r] = at]
           gen     == [p.gen EXCEPT ![r] = @ + 1]
           delayed == p.delayed \cup {[at |-> at, gen |-> p.gen[r] + 1, role |-> r]}
<1>1. Block(p, r, at) = [p EXCEPT !.blocked = blocked, !.gen = gen, !.delayed = delayed]
  BY DEF Block, QueuesType
<1> HIDE DEF blocked, gen, delayed
<1> QED BY <1>1 DEF QueuesType

(* Releasing the roles whose time has come changes only blocks and heaps. *)
LEMMA PromoteFields ==
  ASSUME NEW p \in QueuesType, NEW now
  PROVE  LET d == Promote(p, now)
         IN  /\ d.entries = p.entries
             /\ d.lastTs = p.lastTs /\ d.epoch = p.epoch
             /\ d.priority = p.priority /\ d.normal = p.normal /\ d.streaming = p.streaming
             /\ d.disconnecting = p.disconnecting /\ d.seq = p.seq
             /\ d.size = p.size /\ d.roleDrained = p.roleDrained /\ d.idle = p.idle
<1> DEFINE over  == {d \in p.delayed : d.at <= now}
           freed == {r \in Roles : \E d \in over : /\ d.role = r
                                                   /\ d.gen = p.gen[r]
                                                   /\ d.at = p.blocked[r]}
           delayed == p.delayed \ over
           blocked == [r \in Roles |-> IF r \in freed THEN NoTime ELSE p.blocked[r]]
           ready   == p.ready \cup UNION {HeadKeys(p.entries[r], r) : r \in freed}
<1>1. Promote(p, now) = [p EXCEPT !.delayed = delayed, !.blocked = blocked, !.ready = ready]
  BY DEF Promote
<1> HIDE DEF delayed, blocked, ready
<1> QED BY <1>1 DEF QueuesType

(* What the server notes of a message it hands over: the roles whose stream *)
(* the client has been told is open.                                        *)
LEMMA OnWireFields ==
  ASSUME NEW p \in QueuesType, NEW m
  PROVE  LET d == OnWire(p, m)
         IN  /\ d.entries = p.entries
             /\ d.lastTs = p.lastTs /\ d.epoch = p.epoch
             /\ d.priority = p.priority /\ d.normal = p.normal
             /\ m.kind = "start" => d.streaming = p.streaming \cup {m.role}
             /\ m.kind = "end" => d.streaming = p.streaming \ {m.role}
             /\ m.kind # "start" /\ m.kind # "end" => d.streaming = p.streaming
             /\ d.disconnecting = p.disconnecting /\ d.seq = p.seq
             /\ d.size = p.size /\ d.roleDrained = p.roleDrained /\ d.idle = p.idle
<1> DEFINE streaming == CASE m.kind = "start" -> p.streaming \cup {m.role}
                          [] m.kind = "end"   -> p.streaming \ {m.role}
                          [] OTHER            -> p.streaming
<1>1. OnWire(p, m) = [p EXCEPT !.streaming = streaming]
  BY DEF OnWire
<1>2. /\ m.kind = "start" => streaming = p.streaming \cup {m.role}
      /\ m.kind = "end" => streaming = p.streaming \ {m.role}
      /\ m.kind # "start" /\ m.kind # "end" => streaming = p.streaming
  OBVIOUS
<1> HIDE DEF streaming
<1> QED BY <1>1, <1>2 DEF QueuesType

(* A role is drained when its last message has been sent. *)
LEMMA RoleDoneFields ==
  ASSUME NEW p \in QueuesType, NEW r \in Roles
  PROVE  LET d == RoleDone(p, r)
         IN  /\ d.entries = p.entries
             /\ d.lastTs = p.lastTs /\ d.epoch = p.epoch
             /\ d.priority = p.priority /\ d.normal = p.normal /\ d.streaming = p.streaming
             /\ d.disconnecting = p.disconnecting /\ d.seq = p.seq
             /\ d.size = p.size /\ d.idle = p.idle
             /\ d.roleDrained = IF p.entries[r] = {} THEN p.roleDrained \ {r} ELSE p.roleDrained
BY DEF RoleDone, QueuesType

(* wait_role_drained clears the event unless the role has nothing to send. *)
LEMMA AwaitDrainedFields ==
  ASSUME NEW p \in QueuesType, NEW r \in Roles, NEW s
  PROVE  LET d == AwaitDrained(p, r, s)
         IN  /\ d.entries = p.entries
             /\ d.lastTs = p.lastTs /\ d.epoch = p.epoch
             /\ d.priority = p.priority /\ d.normal = p.normal /\ d.streaming = p.streaming
             /\ d.disconnecting = p.disconnecting /\ d.seq = p.seq
             /\ d.size = p.size /\ d.idle = p.idle
             /\ d.roleDrained = IF p.entries[r] = {} /\ s # r THEN p.roleDrained
                                ELSE p.roleDrained \cup {r}
BY DEF AwaitDrained, QueuesType

-----------------------------------------------------------------------------
(* A JSON message queued to a role, at the timestamp ts. *)
Queued(p, r, kind, ts) ==
  IF RoleFull(p, r) THEN Overflow(p) ELSE Enqueue([p EXCEPT !.lastTs[r] = ts], r, kind, ts, 0, 0)

(* A queued message joins its role, or the connection ends. *)
LEMMA QueuedFields ==
  ASSUME NEW p \in QueuesType, NEW r \in Roles, NEW kind, NEW ts \in Nat
  PROVE  LET d == Queued(p, r, kind, ts)
         IN  /\ d.epoch = p.epoch /\ d.priority = p.priority /\ d.normal = p.normal
             /\ d.streaming = p.streaming /\ d.roleDrained = p.roleDrained
             /\ \/ /\ d.disconnecting /\ d.entries = p.entries /\ d.lastTs = p.lastTs
                   /\ d.seq = p.seq /\ d.size = p.size /\ d.idle = p.idle
                \/ /\ d.disconnecting = p.disconnecting
                   /\ d.entries = WithEntry(p, r, NewEntry(p, r, kind, ts, 0, 0))
                   /\ d.lastTs = [p.lastTs EXCEPT ![r] = ts]
                   /\ d.seq = p.seq + 1 /\ d.size = p.size + 1 /\ ~d.idle
<1> DEFINE lastTs == [p.lastTs EXCEPT ![r] = ts]
           l      == [p EXCEPT !.lastTs = lastTs]
<1>1. lastTs \in [Roles -> Nat]
  BY DEF QueuesType
<1>2. Queued(p, r, kind, ts) =
        IF RoleFull(p, r) THEN Overflow(p) ELSE Enqueue(l, r, kind, ts, 0, 0)
  BY DEF Queued
<1> HIDE DEF lastTs
<1>3. /\ l \in QueuesType /\ l.lastTs = lastTs /\ l.entries = p.entries /\ l.epoch = p.epoch
      /\ l.priority = p.priority /\ l.normal = p.normal /\ l.streaming = p.streaming
      /\ l.disconnecting = p.disconnecting /\ l.seq = p.seq /\ l.size = p.size
      /\ l.roleDrained = p.roleDrained
  BY <1>1 DEF QueuesType
<1> HIDE DEF l
<1>4. CASE RoleFull(p, r)
  BY <1>2, <1>4, OverflowFields
<1>5. CASE ~RoleFull(p, r)
  <2>1. WithEntry(l, r, NewEntry(l, r, kind, ts, 0, 0))
          = WithEntry(p, r, NewEntry(p, r, kind, ts, 0, 0))
    BY <1>3 DEF WithEntry, NewEntry
  <2> QED BY <1>2, <1>3, <1>5, <2>1, EnqueueFields DEF lastTs
<1> QED BY <1>4, <1>5

(* What the code sends for each kind. *)
LEMMA StartIsQueued ==
  ASSUME NEW p \in QueuesType, NEW r \in Roles, NEW now \in Nat
  PROVE  /\ SendJson(p, r, "start", now, {}) = Queued(p, r, "start", Larger(now, p.lastTs[r]))
         /\ Larger(now, p.lastTs[r]) \in Nat
BY DEF SendJson, Queued, JsonTs, QueuesType, Larger

(* A state message is queued behind what the role has queued. *)
LEMMA StateIsQueued ==
  ASSUME NEW p \in QueuesType, NEW r \in Roles, NEW now \in Nat
  PROVE  SendJson(p, r, "state", now, {}) = Queued(p, r, "state", p.lastTs[r]) /\ p.lastTs[r] \in Nat
BY DEF SendJson, Queued, JsonTs, QueuesType, Larger

(* A stream/clear invalidates the binary of its role first. *)
LEMMA ClearIsQueued ==
  ASSUME NEW p \in QueuesType, NEW r \in Roles, NEW now \in Nat
  PROVE  /\ SendJson(p, r, "clear", now, {})
              = Queued(DropPending(p, r), r, "clear", p.lastTs[r])
         /\ p.lastTs[r] \in Nat
<1>1. DropPending(p, r).lastTs = p.lastTs
  BY DropPendingFields
<1> HIDE DEF DropPending
<1> QED BY <1>1 DEF SendJson, Queued, JsonTs, QueuesType, Larger

(* A stream/end: what it leaves behind when it is owed, and when it is not. *)
LEMMA EndIsQueued ==
  ASSUME NEW p, NEW r, NEW now, NEW retiring
  PROVE  LET d == Supersede(DropPending(p, r), r)
         IN  SendJson(p, r, "end", now, retiring) =
               IF ~EndOwed(d, r) THEN d
               ELSE IF r \in retiring THEN SendPriority(d, Message("end", r))
               ELSE Queued(d, r, "end", now)
BY DEF SendJson, Queued, JsonTs

(* The role's queue once its binary is invalidated and its stream superseded. *)
Superseded(p, r) == Supersede(DropPending(p, r), r)

(* Invalidating the binary of a role leaves well-typed queues. *)
LEMMA DropPendingType ==
  ASSUME NEW p \in QueuesType, NEW r \in Roles
  PROVE  DropPending(p, r) \in QueuesType
<1> DEFINE epoch   == [p.epoch EXCEPT ![r] = @ + 1]
           blocked == [p.blocked EXCEPT ![r] = NoTime]
           gen     == [p.gen EXCEPT ![r] = @ + 1]
           ready   == p.ready \cup HeadKeys(p.entries[r], r)
           b       == [p EXCEPT !.epoch = epoch, !.wake = TRUE, !.idle = FALSE]
           u       == [p EXCEPT !.epoch = epoch, !.blocked = blocked, !.gen = gen,
                                !.ready = ready, !.wake = TRUE, !.idle = FALSE]
<1>1. DropPending(p, r) = IF p.blocked[r] = NoTime THEN b ELSE u
  BY DEF DropPending, Woken, Schedule, QueuesType
<1>2. ready \in SUBSET ReadyKey
  BY HeadKeysType DEF QueuesType, Finite
<1>3. epoch \in [Roles -> Nat] /\ blocked \in [Roles -> Nat \cup {NoTime}] /\ gen \in [Roles -> Nat]
  BY DEF QueuesType
<1> HIDE DEF epoch, blocked, gen, ready
<1>4. b \in QueuesType /\ u \in QueuesType
  BY <1>2, <1>3 DEF QueuesType
<1> QED BY <1>1, <1>4

(* What invalidating the binary and superseding the stream leaves. *)
LEMMA SupersededFields ==
  ASSUME NEW p \in QueuesType, NEW r \in Roles
  PROVE  LET d == Superseded(p, r)
         IN  /\ d.entries = [p.entries EXCEPT ![r] = KeptByEnd(p, r)]
             /\ d.lastTs = p.lastTs /\ d.epoch = [p.epoch EXCEPT ![r] = @ + 1]
             /\ d.priority = p.priority /\ d.normal = p.normal /\ d.streaming = p.streaming
             /\ d.disconnecting = p.disconnecting /\ d.seq = p.seq
             /\ d.size = Minus(p.size, Cardinality(p.entries[r]) - Cardinality(KeptByEnd(p, r)))
             /\ d.roleDrained = IF p.entries[r] # {} /\ KeptByEnd(p, r) = {}
                                THEN p.roleDrained \ {r} ELSE p.roleDrained
             /\ ~d.idle
<1> DEFINE c == DropPending(p, r)
<1>1. c \in QueuesType
  BY DropPendingType
<1>2. /\ c.entries = p.entries /\ c.lastTs = p.lastTs
      /\ c.epoch = [p.epoch EXCEPT ![r] = @ + 1]
      /\ c.priority = p.priority /\ c.normal = p.normal /\ c.streaming = p.streaming
      /\ c.disconnecting = p.disconnecting /\ c.seq = p.seq /\ c.size = p.size
      /\ c.roleDrained = p.roleDrained /\ ~c.idle
  BY DropPendingFields
<1>3. Superseded(p, r) = Supersede(c, r)
  BY DEF Superseded
<1> HIDE DEF c
<1>4. KeptByEnd(p, r) = KeptByEnd(c, r)
  BY <1>2 DEF KeptByEnd
<1>5. LET d == Supersede(c, r)
      IN  /\ d.entries = [c.entries EXCEPT ![r] = KeptByEnd(c, r)]
          /\ d.lastTs = c.lastTs /\ d.epoch = c.epoch
          /\ d.priority = c.priority /\ d.normal = c.normal /\ d.streaming = c.streaming
          /\ d.disconnecting = c.disconnecting /\ d.seq = c.seq
          /\ d.size = Minus(c.size, Cardinality(c.entries[r]) - Cardinality(KeptByEnd(c, r)))
          /\ d.roleDrained = IF c.entries[r] # {} /\ KeptByEnd(c, r) = {}
                             THEN c.roleDrained \ {r} ELSE c.roleDrained
          /\ d.idle = c.idle
  BY <1>1, SupersedeFields
<1> HIDE DEF Supersede
<1> QED BY <1>2, <1>3, <1>4, <1>5

(* discard_role_queue empties one role, forgets its last timestamp and its        *)
(* queued commands, and keeps the stream/end it still owed as a priority message. *)
LEMMA DiscardFields ==
  ASSUME NEW p \in QueuesType, NEW r \in Roles
  PROVE  LET d == DiscardRoleQueue(p, r)
             orders == {c \in p.normal : c.msg.kind = "command" /\ c.msg.role = r}
             size   == Minus(p.size, Cardinality(p.entries[r]))
         IN  /\ d.entries = [p.entries EXCEPT ![r] = {}]
             /\ d.lastTs = [p.lastTs EXCEPT ![r] = 0]
             /\ d.epoch = [p.epoch EXCEPT ![r] = @ + 1]
             /\ d.normal = p.normal \ orders /\ d.streaming = p.streaming
             /\ d.roleDrained = p.roleDrained /\ ~d.idle
             /\ \/ /\ d.disconnecting /\ d.priority = p.priority /\ d.seq = p.seq
                   /\ d.size = Minus(size, Cardinality(orders))
                \/ /\ d.disconnecting = p.disconnecting
                   /\ EndQueuedLast(p, r)
                   /\ d.priority = Append(p.priority, Message("end", r)) /\ d.seq = p.seq + 1
                   /\ d.size = Minus(size + 1, Cardinality(orders))
                \/ /\ d.disconnecting = p.disconnecting
                   /\ ~EndQueuedLast(p, r)
                   /\ d.priority = p.priority /\ d.seq = p.seq
                   /\ d.size = Minus(size, Cardinality(orders))
<1> DEFINE size    == Minus(p.size, Cardinality(p.entries[r]))
           entries == [p.entries EXCEPT ![r] = {}]
           emptied == [p EXCEPT !.entries = entries, !.size = size]
           owing   == IF EndQueuedLast(p, r) THEN SendPriority(emptied, Message("end", r))
                      ELSE emptied
           orders  == {c \in owing.normal : c.msg.kind = "command" /\ c.msg.role = r}
           normal  == owing.normal \ orders
           left    == Minus(owing.size, Cardinality(orders))
           lastTs  == [owing.lastTs EXCEPT ![r] = 0]
           zero    == [owing EXCEPT !.normal = normal, !.size = left, !.lastTs = lastTs]
<1>1. DiscardRoleQueue(p, r) = DropPending(zero, r)
  BY DEF DiscardRoleQueue, QueuesType
<1>2. size \in Nat
  <2>1. IsFiniteSet(p.entries[r]) BY DEF QueuesType, Finite
  <2> QED BY <2>1, FS_CardinalityType DEF QueuesType, Minus
<1>3. entries \in [Roles -> Finite(Entry)]
  <2>1. {} \in Finite(Entry) BY FS_EmptySet DEF Finite
  <2> QED BY <2>1 DEF QueuesType
<1> HIDE DEF size
<1>4. entries = [p.entries EXCEPT ![r] = {}]
  OBVIOUS
<1> HIDE DEF entries
<1>5. emptied \in QueuesType
  BY <1>2, <1>3 DEF QueuesType
<1>6. /\ emptied.entries = entries /\ emptied.lastTs = p.lastTs /\ emptied.epoch = p.epoch
      /\ emptied.priority = p.priority /\ emptied.normal = p.normal
      /\ emptied.streaming = p.streaming /\ emptied.disconnecting = p.disconnecting
      /\ emptied.seq = p.seq /\ emptied.size = size /\ emptied.roleDrained = p.roleDrained
  BY DEF QueuesType
<1> HIDE DEF emptied
<1>7. /\ owing.entries = entries /\ owing.lastTs = p.lastTs /\ owing.epoch = p.epoch
      /\ owing.normal = p.normal /\ owing.streaming = p.streaming
      /\ owing.roleDrained = p.roleDrained
      /\ \/ /\ owing.disconnecting /\ owing.priority = p.priority
            /\ owing.seq = p.seq /\ owing.size = size
         \/ /\ owing.disconnecting = p.disconnecting /\ EndQueuedLast(p, r)
            /\ owing.priority = Append(p.priority, Message("end", r))
            /\ owing.seq = p.seq + 1 /\ owing.size = size + 1
         \/ /\ owing.disconnecting = p.disconnecting /\ ~EndQueuedLast(p, r)
            /\ owing.priority = p.priority
            /\ owing.seq = p.seq /\ owing.size = size
  <2>1. CASE EndQueuedLast(p, r)
    BY <2>1, <1>5, <1>6, SendPriorityFields
  <2>2. CASE ~EndQueuedLast(p, r)
    BY <2>2, <1>6
  <2> QED BY <2>1, <2>2
<1>8. owing \in QueuesType
  <2>1. Message("end", r) \in Msg BY MessageType DEF RoleKinds, JsonKinds
  <2>2. SendPriority(emptied, Message("end", r)) \in QueuesType
    <3> DEFINE m == Message("end", r)
               priority == Append(emptied.priority, m)
               seq  == emptied.seq + 1
               n    == emptied.size + 1
               u    == [emptied EXCEPT !.priority = priority, !.seq = seq, !.size = n,
                                       !.wake = TRUE, !.idle = FALSE]
    <3>1. priority \in Seq(Msg) /\ seq \in Nat /\ n \in Nat
      BY <1>5, <2>1 DEF QueuesType
    <3>2. SendPriority(emptied, m) = IF Len(emptied.priority) >= MaxQueue THEN Overflow(emptied) ELSE u
      BY DEF SendPriority, Woken
    <3> HIDE DEF priority, seq, n, m
    <3>3. u \in QueuesType /\ Overflow(emptied) \in QueuesType
      BY <1>5, <3>1 DEF QueuesType, Overflow
    <3> HIDE DEF u
    <3> QED BY <3>2, <3>3 DEF m
  <2> QED BY <2>2, <1>5
<1> HIDE DEF owing
<1>9. orders = {c \in p.normal : c.msg.kind = "command" /\ c.msg.role = r}
  BY <1>7
<1>10. /\ normal \in Finite(NormalEntry) /\ left \in Nat /\ lastTs \in [Roles -> Nat]
       /\ lastTs = [p.lastTs EXCEPT ![r] = 0]
  <2>1. owing.normal \in SUBSET NormalEntry /\ IsFiniteSet(owing.normal)
    BY <1>8 DEF QueuesType, Finite
  <2>2. orders \in SUBSET owing.normal /\ normal \in SUBSET owing.normal OBVIOUS
  <2>3. IsFiniteSet(orders) /\ IsFiniteSet(normal) BY <2>1, <2>2, FS_Subset
  <2>4. Cardinality(orders) \in Nat BY <2>3, FS_CardinalityType
  <2>5. left \in Nat BY <1>8, <2>4, SizeCutType
  <2>6. lastTs \in [Roles -> Nat] BY <1>8 DEF QueuesType
  <2> QED BY <1>7, <2>1, <2>2, <2>3, <2>5, <2>6 DEF Finite
<1>11. normal = p.normal \ orders /\ left = Minus(owing.size, Cardinality(orders))
  BY <1>7
<1> HIDE DEF normal, left, lastTs
<1>12. /\ zero \in QueuesType
       /\ zero.entries = owing.entries /\ zero.lastTs = lastTs /\ zero.epoch = owing.epoch
       /\ zero.priority = owing.priority /\ zero.normal = normal
       /\ zero.streaming = owing.streaming /\ zero.disconnecting = owing.disconnecting
       /\ zero.seq = owing.seq /\ zero.size = left /\ zero.roleDrained = owing.roleDrained
  BY <1>8, <1>10 DEF QueuesType
<1> HIDE DEF zero, orders
<1>13. LET d == DropPending(zero, r)
       IN  /\ d.entries = zero.entries /\ d.lastTs = zero.lastTs
           /\ d.epoch = [zero.epoch EXCEPT ![r] = @ + 1]
           /\ d.priority = zero.priority /\ d.normal = zero.normal
           /\ d.streaming = zero.streaming
           /\ d.disconnecting = zero.disconnecting /\ d.seq = zero.seq /\ d.size = zero.size
           /\ d.roleDrained = zero.roleDrained /\ ~d.idle
  BY <1>12, DropPendingFields
<1> HIDE DEF DropPending
<1>14. LET d == DiscardRoleQueue(p, r)
       IN  /\ d.entries = entries /\ d.lastTs = lastTs
           /\ d.epoch = [p.epoch EXCEPT ![r] = @ + 1]
           /\ d.priority = owing.priority /\ d.normal = normal
           /\ d.streaming = p.streaming
           /\ d.disconnecting = owing.disconnecting /\ d.seq = owing.seq /\ d.size = left
           /\ d.roleDrained = p.roleDrained /\ ~d.idle
  BY <1>1, <1>7, <1>12, <1>13
<1> QED BY <1>4, <1>7, <1>9, <1>10, <1>11, <1>14 DEF size

(* The elements of a sequence with one more. *)
LEMMA AppendElements ==
  ASSUME NEW T, NEW s \in Seq(T), NEW m \in T
  PROVE  /\ Append(s, m) \in Seq(T) /\ Len(Append(s, m)) = Len(s) + 1 /\ Len(s) \in Nat
         /\ \A i \in 1 .. Len(s) : Append(s, m)[i] = s[i]
         /\ Append(s, m)[Len(s) + 1] = m
OBVIOUS

(* A message queued to a role keeps the heaps right. *)
LEMMA QueuedInv ==
  ASSUME NEW p, NEW X, NEW r \in Roles, QueueInv(p, X), NEW kind \in JsonKinds, NEW ts \in Nat
  PROVE  QueueInv(Queued(p, r, kind, ts), X)
<1> DEFINE l == [p EXCEPT !.lastTs[r] = ts]
<1>1. QueueInv(l, X)
  BY LastTsInv
<1> HIDE DEF l
<1>2. QueueInv(Enqueue(l, r, kind, ts, 0, 0), X)
  BY <1>1, EnqueueInv
<1> QED BY <1>2, OverflowInv DEF Queued, l

(* What the queues hold: the messages of the roles, and all of them. *)
Row(r, S)  == {<<r, e>> : e \in S}
Pairs(en)  == UNION {Row(r, en[r]) : r \in Roles}
Total(p)   == Len(p.priority) + Cardinality(p.normal) + Cardinality(Pairs(p.entries))

(* The count of the queues is k more than they hold: k messages are put aside. *)
Sized(p, k) ==
  /\ p.size = k + Total(p)
  /\ \A c \in p.normal : c.at < p.seq

(* From p to d the writer is woken for whatever is queued or taken away, and *)
(* a connection that ends keeps ending.                                      *)
Calls(p, d) ==
  /\ p.disconnecting => d.disconnecting
  /\ d.idle => p.idle /\ d.entries = p.entries /\ d.priority = p.priority /\ d.normal = p.normal

(* The messages of one role are counted once each. *)
LEMMA RowSize ==
  ASSUME NEW r, NEW S, IsFiniteSet(S)
  PROVE  IsFiniteSet(Row(r, S)) /\ Cardinality(Row(r, S)) = Cardinality(S)
<1> DEFINE f == [e \in S |-> <<r, e>>]
<1>1. f \in Bijection(S, Row(r, S))
  BY DEF Bijection, Injection, Surjection, IsInjective, Row
<1>2. ExistsBijection(S, Row(r, S))
  BY <1>1 DEF ExistsBijection
<1> QED BY <1>2, FS_Bijection

(* The messages of the roles R. *)
RowsOf(en, R) == UNION {Row(x, en[x]) : x \in R}

(* Finitely many messages are queued. *)
LEMMA RowsFinite ==
  ASSUME NEW en \in [Roles -> Finite(Entry)], NEW R \in SUBSET Roles
  PROVE  IsFiniteSet(RowsOf(en, R)) /\ Cardinality(RowsOf(en, R)) \in Nat
<1> DEFINE F == {Row(x, en[x]) : x \in R}
           f == [x \in R |-> Row(x, en[x])]
<1>1. IsFiniteSet(R)
  BY QueuesAssumption, FS_Subset
<1>2. f \in Surjection(R, F)
  BY DEF Surjection
<1>3. IsFiniteSet(F)
  BY <1>1, <1>2, FS_Surjection
<1>4. \A T \in F : IsFiniteSet(T)
  <2>1. \A x \in R : IsFiniteSet(en[x])
    BY DEF Finite
  <2> QED BY <2>1, RowSize
<1> HIDE DEF F
<1>5. IsFiniteSet(UNION F)
  BY <1>3, <1>4, FS_UNION
<1> QED BY <1>5, FS_CardinalityType DEF F, RowsOf

(* Changing the queue of one role changes the count by as much. *)
LEMMA PairsSplit ==
  ASSUME NEW en \in [Roles -> Finite(Entry)], NEW r \in Roles
  PROVE  /\ Cardinality(en[r]) \in Nat /\ Cardinality(RowsOf(en, Roles \ {r})) \in Nat
         /\ Cardinality(Pairs(en)) = Cardinality(RowsOf(en, Roles \ {r})) + Cardinality(en[r])
<1> DEFINE O == RowsOf(en, Roles \ {r})
           T == Row(r, en[r])
<1>1. IsFiniteSet(O) /\ Cardinality(O) \in Nat
  BY RowsFinite
<1>2. IsFiniteSet(en[r])
  BY DEF Finite
<1>3. IsFiniteSet(T) /\ Cardinality(T) = Cardinality(en[r]) /\ Cardinality(en[r]) \in Nat
  BY <1>2, RowSize, FS_CardinalityType
<1>4. Pairs(en) = O \cup T
  BY DEF Pairs, RowsOf
<1>5. O \cap T = {}
  BY DEF RowsOf, Row
<1>6. Cardinality(O \cap T) = 0
  <2> HIDE DEF O, T
  <2> QED BY <1>5, FS_EmptySet, Zenon
<1>7. Cardinality(O \cup T) = Cardinality(O) + Cardinality(T) - Cardinality(O \cap T)
  BY <1>1, <1>3, FS_Union
<1>8. Cardinality(O \cup T) = Cardinality(O) + Cardinality(T)
  <2>1. \A a, b, c, x : a \in Nat /\ b \in Nat /\ c = 0 /\ x = a + b - c => x = a + b
    OBVIOUS
  <2> HIDE DEF O, T
  <2>2. Cardinality(T) \in Nat
    BY <1>3
  <2> QED BY <1>1, <2>2, <1>6, <1>7, <2>1, Zenon
<1> QED BY <1>1, <1>3, <1>4, <1>8

(* The count after the queue of one role has changed. *)
LEMMA PairsChange ==
  ASSUME NEW p \in QueuesType, NEW d \in QueuesType, NEW r \in Roles, NEW S,
         d.entries = [p.entries EXCEPT ![r] = S]
  PROVE  /\ Cardinality(p.entries[r]) \in Nat /\ Cardinality(S) \in Nat
         /\ Cardinality(Pairs(p.entries)) \in Nat
         /\ Cardinality(p.entries[r]) <= Cardinality(Pairs(p.entries))
         /\ Cardinality(Pairs(d.entries))
              = Cardinality(Pairs(p.entries)) - Cardinality(p.entries[r]) + Cardinality(S)
<1> DEFINE n == Cardinality(RowsOf(p.entries, Roles \ {r}))
<1>1. p.entries \in [Roles -> Finite(Entry)] /\ d.entries \in [Roles -> Finite(Entry)]
  BY DEF QueuesType
<1>2. d.entries[r] = S /\ \A x \in Roles \ {r} : d.entries[x] = p.entries[x]
  BY <1>1
<1>3. RowsOf(d.entries, Roles \ {r}) = RowsOf(p.entries, Roles \ {r})
  BY <1>2 DEF RowsOf
<1>4. /\ Cardinality(p.entries[r]) \in Nat /\ n \in Nat
      /\ Cardinality(Pairs(p.entries)) = n + Cardinality(p.entries[r])
  BY <1>1, PairsSplit
<1>5. /\ Cardinality(d.entries[r]) \in Nat
      /\ Cardinality(Pairs(d.entries)) = n + Cardinality(d.entries[r])
  BY <1>1, <1>3, PairsSplit
<1> HIDE DEF n
<1>6. \A a, b, m, x, y \in Nat : x = m + a /\ y = m + b => y = x - a + b /\ a <= x
  OBVIOUS
<1>7. Cardinality(Pairs(p.entries)) \in Nat /\ Cardinality(Pairs(d.entries)) \in Nat
  BY <1>4, <1>5
<1> QED BY <1>2, <1>4, <1>5, <1>6, <1>7

(* What is counted is never negative. *)
LEMMA TotalType ==
  ASSUME NEW p \in QueuesType
  PROVE  /\ Len(p.priority) \in Nat /\ Cardinality(p.normal) \in Nat
         /\ Cardinality(Pairs(p.entries)) \in Nat /\ Total(p) \in Nat /\ p.size \in Nat
         /\ p.seq \in Nat
<1>1. Len(p.priority) \in Nat /\ p.size \in Nat /\ p.seq \in Nat
  BY DEF QueuesType
<1>2. Cardinality(p.normal) \in Nat
  BY FS_CardinalityType DEF QueuesType, Finite
<1>3. Pairs(p.entries) = RowsOf(p.entries, Roles)
  BY DEF Pairs, RowsOf
<1>4. Cardinality(Pairs(p.entries)) \in Nat
  BY <1>3, RowsFinite DEF QueuesType
<1> QED BY <1>1, <1>2, <1>4 DEF Total

(* An operation on the queues keeps their count and wakes the writer. *)
Counts(p, d) == Calls(p, d) /\ \A k \in Nat : Sized(p, k) => Sized(d, k)

(* Doing nothing does. *)
LEMMA CountsSelf ==
  ASSUME NEW p
  PROVE  Counts(p, p)
BY DEF Counts, Calls

(* So do two operations, one after the other. *)
LEMMA CountsTransitive ==
  ASSUME NEW p, NEW d, NEW f, Counts(p, d), Counts(d, f)
  PROVE  Counts(p, f)
BY DEF Counts, Calls

(* The control messages queued are numbered by natural numbers. *)
LEMMA NormalNumbered ==
  ASSUME NEW p \in QueuesType, NEW k, Sized(p, k), NEW n \in Nat, p.seq <= n
  PROVE  \A c \in p.normal : c.at < n
<1>1. \A c \in p.normal : c.at \in Nat /\ c.at < p.seq /\ p.seq \in Nat
  BY DEF QueuesType, Finite, NormalEntry, Sized
<1> QED BY <1>1

(* An operation that changes no queue. *)
LEMMA CountSame ==
  ASSUME NEW p \in QueuesType, NEW d \in QueuesType, NEW k, Sized(p, k),
         d.entries = p.entries, d.priority = p.priority, d.normal = p.normal,
         d.size = p.size, p.seq <= d.seq
  PROVE  Sized(d, k)
<1>1. \A c \in d.normal : c.at < d.seq
  BY TotalType, NormalNumbered
<1>2. Total(d) = Total(p)
  BY DEF Total
<1> QED BY <1>1, <1>2 DEF Sized

(* An operation that changes the queue of one role. *)
LEMMA CountRole ==
  ASSUME NEW p \in QueuesType, NEW d \in QueuesType, NEW k \in Nat, Sized(p, k), NEW r \in Roles,
         NEW S, d.entries = [p.entries EXCEPT ![r] = S], d.priority = p.priority,
         d.normal = p.normal, p.seq <= d.seq,
         d.size = p.size - Cardinality(p.entries[r]) + Cardinality(S)
  PROVE  Sized(d, k)
<1> DEFINE P == Cardinality(Pairs(p.entries))
           D == Cardinality(Pairs(d.entries))
           a == Cardinality(p.entries[r])
           b == Cardinality(S)
           l == Len(p.priority)
           n == Cardinality(p.normal)
<1>1. a \in Nat /\ b \in Nat /\ P \in Nat /\ D = P - a + b
  BY PairsChange
<1>2. l \in Nat /\ n \in Nat /\ d.seq \in Nat
  BY TotalType
<1>3. p.size = k + (l + n + P) /\ Total(d) = l + n + D /\ d.size = p.size - a + b
  BY DEF Sized, Total
<1> HIDE DEF P, D, a, b, l, n
<1>4. d.size = k + Total(d)
  BY <1>1, <1>2, <1>3
<1>5. \A c \in d.normal : c.at < d.seq
  BY <1>2, NormalNumbered
<1> QED BY <1>4, <1>5 DEF Sized

(* The end of the connection takes nothing off the queues. *)
LEMMA OverflowCounts ==
  ASSUME NEW p \in QueuesType
  PROVE  Counts(p, Overflow(p))
<1> DEFINE d == Overflow(p)
<1>1. /\ d.disconnecting /\ d.entries = p.entries /\ d.priority = p.priority
      /\ d.normal = p.normal /\ d.seq = p.seq /\ d.size = p.size /\ d.idle = p.idle
  BY OverflowFields
<1>2. d \in QueuesType
  BY DEF Overflow, QueuesType
<1> HIDE DEF d
<1>3. p.seq <= d.seq
  BY <1>1, TotalType
<1>4. \A k \in Nat : Sized(p, k) => Sized(d, k)
  BY <1>1, <1>2, <1>3, CountSame
<1> QED BY <1>1, <1>4 DEF Counts, Calls, d

(* send_priority_message. *)
LEMMA SendPriorityCounts ==
  ASSUME NEW p, NEW X, QueueInv(p, X), NEW m \in Msg
  PROVE  Counts(p, SendPriority(p, m))
<1> DEFINE d == SendPriority(p, m)
<1>0. p \in QueuesType /\ d \in QueuesType
  BY SendPriorityInv DEF QueueInv
<1>1. /\ d.entries = p.entries /\ d.normal = p.normal
      /\ \/ /\ d.disconnecting /\ d.priority = p.priority
            /\ d.seq = p.seq /\ d.size = p.size /\ d.idle = p.idle
         \/ /\ d.disconnecting = p.disconnecting /\ d.priority = Append(p.priority, m)
            /\ d.seq = p.seq + 1 /\ d.size = p.size + 1 /\ ~d.idle
  BY <1>0, SendPriorityFields
<1> HIDE DEF d
<1>2. Calls(p, d)
  BY <1>1 DEF Calls
<1>3. ASSUME NEW k \in Nat, Sized(p, k) PROVE Sized(d, k)
  <2>0. p.seq \in Nat /\ d.seq \in Nat
    BY <1>0, TotalType
  <2>1. CASE d.priority = p.priority /\ d.seq = p.seq /\ d.size = p.size
    <3>1. p.seq <= d.seq
      BY <2>0, <2>1
    <3> QED BY <1>0, <1>1, <1>3, <2>1, <3>1, CountSame
  <2>2. CASE d.priority = Append(p.priority, m) /\ d.seq = p.seq + 1 /\ d.size = p.size + 1
    <3> DEFINE l == Len(p.priority)
               n == Cardinality(p.normal)
               c == Cardinality(Pairs(p.entries))
    <3>1. p.priority \in Seq(Msg)
      BY <1>0 DEF QueuesType
    <3>2. Len(d.priority) = l + 1
      BY <2>2, <3>1, AppendElements
    <3>3. l \in Nat /\ n \in Nat /\ c \in Nat
      BY <1>0, TotalType
    <3>4. p.size = k + (l + n + c) /\ Total(d) = (l + 1) + n + c
      BY <1>1, <1>3, <3>2 DEF Sized, Total
    <3> HIDE DEF l, n, c
    <3>5. d.size = k + Total(d)
      BY <2>2, <3>3, <3>4
    <3>6. \A x \in d.normal : x.at < d.seq
      BY <1>0, <1>1, <1>3, <2>0, <2>2, NormalNumbered
    <3> QED BY <3>5, <3>6 DEF Sized
  <2> QED BY <1>1, <2>1, <2>2
<1> QED BY <1>2, <1>3 DEF Counts, d

(* send_message. *)
LEMMA SendNormalCounts ==
  ASSUME NEW p, NEW X, QueueInv(p, X), NEW m \in Msg
  PROVE  Counts(p, SendNormal(p, m))
<1> DEFINE d == SendNormal(p, m)
<1>0. p \in QueuesType /\ d \in QueuesType
  BY SendNormalInv DEF QueueInv
<1>1. /\ d.entries = p.entries /\ d.priority = p.priority
      /\ \/ /\ d.disconnecting /\ d.normal = p.normal
            /\ d.seq = p.seq /\ d.size = p.size /\ d.idle = p.idle
         \/ /\ d.disconnecting = p.disconnecting
            /\ d.normal = p.normal \cup {[at |-> p.seq, msg |-> m]}
            /\ d.seq = p.seq + 1 /\ d.size = p.size + 1 /\ ~d.idle
  BY <1>0, SendNormalFields
<1> HIDE DEF d
<1>2. Calls(p, d)
  BY <1>1 DEF Calls
<1>3. ASSUME NEW k \in Nat, Sized(p, k) PROVE Sized(d, k)
  <2>0. p.seq \in Nat /\ d.seq \in Nat
    BY <1>0, TotalType
  <2>1. CASE d.normal = p.normal /\ d.seq = p.seq /\ d.size = p.size
    <3>1. p.seq <= d.seq
      BY <2>0, <2>1
    <3> QED BY <1>0, <1>1, <1>3, <2>1, <3>1, CountSame
  <2>2. CASE /\ d.normal = p.normal \cup {[at |-> p.seq, msg |-> m]}
             /\ d.seq = p.seq + 1 /\ d.size = p.size + 1
    <3> DEFINE l == Len(p.priority)
               n == Cardinality(p.normal)
               c == Cardinality(Pairs(p.entries))
               x == [at |-> p.seq, msg |-> m]
    <3>1. IsFiniteSet(p.normal)
      BY <1>0 DEF QueuesType, Finite
    <3>2. x.at = p.seq
      OBVIOUS
    <3>3. l \in Nat /\ n \in Nat /\ c \in Nat
      BY <1>0, TotalType
    <3> HIDE DEF x
    <3>4. x \notin p.normal
      BY <1>3, <2>0, <3>2 DEF Sized
    <3>5. Cardinality(p.normal \cup {x}) = n + 1
      BY <3>1, <3>4, FS_AddElement
    <3>6. d.normal = p.normal \cup {x}
      BY <2>2 DEF x
    <3>7. p.size = k + (l + n + c) /\ Total(d) = l + (n + 1) + c
      BY <1>1, <1>3, <3>5, <3>6 DEF Sized, Total
    <3> HIDE DEF l, n, c
    <3>8. d.size = k + Total(d)
      BY <2>2, <3>3, <3>7
    <3>9. \A y \in p.normal : y.at < d.seq
      BY <1>0, <1>3, <2>0, <2>2, NormalNumbered
    <3>10. x.at < d.seq
      BY <2>0, <2>2, <3>2
    <3> QED BY <3>6, <3>8, <3>9, <3>10 DEF Sized
  <2> QED BY <1>1, <2>1, <2>2
<1> QED BY <1>2, <1>3 DEF Counts, d

(* What joins the queue of a role is counted. *)
LEMMA EntryCounts ==
  ASSUME NEW p, NEW X, QueueInv(p, X), NEW d \in QueuesType, NEW r \in Roles, NEW e,
         e.seq = p.seq, d.entries = WithEntry(p, r, e), d.priority = p.priority,
         d.normal = p.normal, d.seq = p.seq + 1, d.size = p.size + 1,
         NEW k \in Nat, Sized(p, k)
  PROVE  Sized(d, k)
<1>0. p \in QueuesType /\ p.seq \in Nat /\ p.seq <= d.seq
  BY TotalType DEF QueueInv
<1>1. IsFiniteSet(p.entries[r])
  BY DEF QueueInv, QueuesType, Finite
<1>2. e \notin p.entries[r]
  BY <1>0 DEF QueueInv, Numbered
<1>3. Cardinality(p.entries[r] \cup {e}) = Cardinality(p.entries[r]) + 1
  BY <1>1, <1>2, FS_AddElement
<1>4. d.entries = [p.entries EXCEPT ![r] = p.entries[r] \cup {e}]
  BY <1>0 DEF WithEntry, QueuesType
<1>5. Cardinality(p.entries[r]) \in Nat /\ p.size \in Nat
  BY <1>0, <1>1, FS_CardinalityType, TotalType
<1>6. d.size = p.size - Cardinality(p.entries[r]) + Cardinality(p.entries[r] \cup {e})
  BY <1>3, <1>5
<1> QED BY <1>0, <1>4, <1>6, CountRole

(* _enqueue_role_message with a message that is no binary. *)
LEMMA QueuedCounts ==
  ASSUME NEW p, NEW X, QueueInv(p, X), NEW r \in Roles, NEW kind \in JsonKinds, NEW ts \in Nat
  PROVE  Counts(p, Queued(p, r, kind, ts))
<1> DEFINE d == Queued(p, r, kind, ts)
           e == NewEntry(p, r, kind, ts, 0, 0)
<1>0. p \in QueuesType /\ d \in QueuesType
  BY QueuedInv DEF QueueInv
<1>1. /\ d.priority = p.priority /\ d.normal = p.normal
      /\ \/ /\ d.disconnecting /\ d.entries = p.entries /\ d.lastTs = p.lastTs
            /\ d.seq = p.seq /\ d.size = p.size /\ d.idle = p.idle
         \/ /\ d.disconnecting = p.disconnecting /\ d.entries = WithEntry(p, r, e)
            /\ d.lastTs = [p.lastTs EXCEPT ![r] = ts]
            /\ d.seq = p.seq + 1 /\ d.size = p.size + 1 /\ ~d.idle
  BY <1>0, QueuedFields
<1>2. e.seq = p.seq
  BY DEF NewEntry
<1> HIDE DEF d, e
<1>3. Calls(p, d)
  BY <1>1 DEF Calls
<1>4. ASSUME NEW k \in Nat, Sized(p, k) PROVE Sized(d, k)
  <2>0. p.seq \in Nat
    BY <1>0, TotalType
  <2>1. CASE d.entries = p.entries /\ d.seq = p.seq /\ d.size = p.size
    <3>1. p.seq <= d.seq
      BY <2>0, <2>1
    <3> QED BY <1>0, <1>1, <1>4, <2>1, <3>1, CountSame
  <2>2. CASE d.entries = WithEntry(p, r, e) /\ d.seq = p.seq + 1 /\ d.size = p.size + 1
    BY <1>0, <1>1, <1>2, <1>4, <2>2, EntryCounts
  <2> QED BY <1>1, <2>1, <2>2
<1> QED BY <1>3, <1>4 DEF Counts, d

(* send_binary. *)
LEMMA SendBinaryCounts ==
  ASSUME NEW p, NEW X, QueueInv(p, X), NEW r \in Roles, NEW kind \in BinaryKinds,
         NEW due \in Nat, NEW room \in Nat
  PROVE  Counts(p, SendBinary(p, r, kind, due, room))
<1> DEFINE d == SendBinary(p, r, kind, due, room)
           e == NewEntry(p, r, kind, Larger(due, p.lastTs[r]), due, room)
<1>0. p \in QueuesType /\ d \in QueuesType
  BY SendBinaryInv DEF QueueInv
<1>1. /\ d.priority = p.priority /\ d.normal = p.normal
      /\ \/ /\ d.disconnecting /\ d.entries = p.entries /\ d.lastTs = p.lastTs
            /\ d.seq = p.seq /\ d.size = p.size /\ d.idle = p.idle
         \/ /\ d.disconnecting = p.disconnecting /\ d.entries = WithEntry(p, r, e)
            /\ d.lastTs = [p.lastTs EXCEPT ![r] = Larger(due, @)]
            /\ d.seq = p.seq + 1 /\ d.size = p.size + 1 /\ ~d.idle
  BY <1>0, SendBinaryFields
<1>2. e.seq = p.seq
  BY DEF NewEntry
<1> HIDE DEF d, e
<1>3. Calls(p, d)
  BY <1>1 DEF Calls
<1>4. ASSUME NEW k \in Nat, Sized(p, k) PROVE Sized(d, k)
  <2>0. p.seq \in Nat
    BY <1>0, TotalType
  <2>1. CASE d.entries = p.entries /\ d.seq = p.seq /\ d.size = p.size
    <3>1. p.seq <= d.seq
      BY <2>0, <2>1
    <3> QED BY <1>0, <1>1, <1>4, <2>1, <3>1, CountSame
  <2>2. CASE d.entries = WithEntry(p, r, e) /\ d.seq = p.seq + 1 /\ d.size = p.size + 1
    BY <1>0, <1>1, <1>2, <1>4, <2>2, EntryCounts
  <2> QED BY <1>1, <2>1, <2>2
<1> QED BY <1>3, <1>4 DEF Counts, d

(* Messages taken out of a role's queue are no longer counted. *)
LEMMA CountCut ==
  ASSUME NEW p \in QueuesType, NEW d \in QueuesType, NEW k \in Nat, Sized(p, k), NEW r \in Roles,
         NEW S \in SUBSET p.entries[r], d.entries = [p.entries EXCEPT ![r] = S],
         d.priority = p.priority, d.normal = p.normal, p.seq <= d.seq,
         d.size = Minus(p.size, Cardinality(p.entries[r]) - Cardinality(S))
  PROVE  Sized(d, k)
<1> DEFINE a == Cardinality(p.entries[r])
           b == Cardinality(S)
           P == Cardinality(Pairs(p.entries))
           l == Len(p.priority)
           n == Cardinality(p.normal)
<1>1. IsFiniteSet(p.entries[r])
  BY DEF QueuesType, Finite
<1>2. b <= a
  BY <1>1, FS_Subset
<1>3. a \in Nat /\ b \in Nat /\ P \in Nat /\ a <= P
  BY PairsChange
<1>4. l \in Nat /\ n \in Nat
  BY TotalType
<1>5. p.size = k + (l + n + P) /\ d.size = Minus(p.size, a - b)
  BY DEF Sized, Total
<1> HIDE DEF a, b, P, l, n
<1>6. d.size = p.size - a + b
  <2> DEFINE s == p.size
  <2>1. s \in Nat /\ a <= s
    BY <1>3, <1>4, <1>5
  <2> HIDE DEF s
  <2>2. Minus(s, a - b) = s - a + b
    BY <1>2, <1>3, <2>1 DEF Minus
  <2> QED BY <1>5, <2>2 DEF s
<1> QED BY <1>6, CountRole DEF a, b

(* The writer takes messages of one role. *)
LEMMA CountTaken ==
  ASSUME NEW p \in QueuesType, NEW d \in QueuesType, NEW k \in Nat, Sized(p, k), NEW r \in Roles,
         NEW T \in SUBSET p.entries[r], d.entries = [p.entries EXCEPT ![r] = @ \ T],
         d.priority = p.priority, d.normal = p.normal, d.seq = p.seq,
         d.size = Minus(p.size, Cardinality(T))
  PROVE  Sized(d, k)
<1> DEFINE S == p.entries[r] \ T
<1>0. IsFiniteSet(p.entries[r])
  BY DEF QueuesType, Finite
<1>1. IsFiniteSet(p.entries[r]) /\ IsFiniteSet(T)
  BY <1>0, FS_Subset
<1>2. Cardinality(p.entries[r]) \in Nat /\ Cardinality(T) \in Nat
  BY <1>1, FS_CardinalityType
<1>3. p.entries[r] \cap T = T
  OBVIOUS
<1>4. Cardinality(S) = Cardinality(p.entries[r]) - Cardinality(T)
  <2>1. \A A, B : IsFiniteSet(A) /\ A \cap B = B => Cardinality(A \ B) = Cardinality(A) - Cardinality(B)
    <3> SUFFICES ASSUME NEW A, NEW B, IsFiniteSet(A), A \cap B = B
                 PROVE  Cardinality(A \ B) = Cardinality(A) - Cardinality(B)
      OBVIOUS
    <3>1. Cardinality(A \ B) = Cardinality(A) - Cardinality(A \cap B)
      BY FS_Difference
    <3> QED BY <3>1
  <2> QED BY <1>1, <1>3, <2>1, Zenon
<1>5. Cardinality(T) = Cardinality(p.entries[r]) - Cardinality(S)
  BY <1>2, <1>4
<1>6. S \in SUBSET p.entries[r] /\ d.entries = [p.entries EXCEPT ![r] = S]
  BY DEF QueuesType
<1>7. p.seq <= d.seq
  BY TotalType
<1> HIDE DEF S
<1> QED BY <1>5, <1>6, <1>7, CountCut

(* invalidate_role_binary leaves every message queued. *)
LEMMA DropPendingCounts ==
  ASSUME NEW p, NEW X, QueueInv(p, X), NEW r \in Roles
  PROVE  Counts(p, DropPending(p, r))
<1> DEFINE d == DropPending(p, r)
<1>0. p \in QueuesType /\ d \in QueuesType
  BY DropPendingInv DEF QueueInv
<1>1. /\ d.entries = p.entries /\ d.priority = p.priority /\ d.normal = p.normal
      /\ d.disconnecting = p.disconnecting /\ d.seq = p.seq /\ d.size = p.size /\ ~d.idle
  BY <1>0, DropPendingFields
<1>2. p.seq <= d.seq
  BY <1>0, <1>1, TotalType
<1> HIDE DEF d
<1>3. \A k \in Nat : Sized(p, k) => Sized(d, k)
  BY <1>0, <1>1, <1>2, CountSame
<1> QED BY <1>1, <1>3 DEF Counts, Calls, d

(* _supersede_queued_stream takes the messages it drops out of the count. *)
LEMMA SupersededCounts ==
  ASSUME NEW p, NEW X, QueueInv(p, X), NEW r \in Roles
  PROVE  Counts(p, Superseded(p, r))
<1> DEFINE d == Superseded(p, r)
           S == KeptByEnd(p, r)
<1>0. p \in QueuesType /\ d \in QueuesType
  BY DropPendingInv, SupersedeInv DEF QueueInv, Superseded
<1>1. /\ d.entries = [p.entries EXCEPT ![r] = S] /\ d.priority = p.priority
      /\ d.normal = p.normal /\ d.disconnecting = p.disconnecting /\ d.seq = p.seq
      /\ d.size = Minus(p.size, Cardinality(p.entries[r]) - Cardinality(S)) /\ ~d.idle
  BY <1>0, SupersededFields
<1>2. p.seq <= d.seq
  BY <1>0, <1>1, TotalType
<1>3. S \in SUBSET p.entries[r]
  BY DEF KeptByEnd
<1> HIDE DEF d, S
<1>4. \A k \in Nat : Sized(p, k) => Sized(d, k)
  BY <1>0, <1>1, <1>2, <1>3, CountCut
<1> QED BY <1>1, <1>4 DEF Counts, Calls, d

(* wait_role_drained and the event it waits for queue nothing. *)
LEMMA AwaitDrainedCounts ==
  ASSUME NEW p, NEW X, QueueInv(p, X), NEW r \in Roles, NEW s
  PROVE  Counts(p, AwaitDrained(p, r, s))
<1> DEFINE d == AwaitDrained(p, r, s)
<1>0. p \in QueuesType /\ d \in QueuesType
  BY AwaitDrainedInv DEF QueueInv
<1>1. /\ d.entries = p.entries /\ d.lastTs = p.lastTs /\ d.epoch = p.epoch
      /\ d.priority = p.priority /\ d.normal = p.normal /\ d.streaming = p.streaming
      /\ d.disconnecting = p.disconnecting /\ d.seq = p.seq
      /\ d.size = p.size /\ d.idle = p.idle
  BY <1>0 DEF AwaitDrained, QueuesType
<1>2. p.seq <= d.seq
  BY <1>0, <1>1, TotalType
<1> HIDE DEF d
<1>3. \A k \in Nat : Sized(p, k) => Sized(d, k)
  BY <1>0, <1>1, <1>2, CountSame
<1> QED BY <1>1, <1>3 DEF Counts, Calls, d

(* send_role_message. *)
LEMMA SendJsonCounts ==
  ASSUME NEW p, NEW X, QueueInv(p, X), NEW r \in Roles, NEW kind \in JsonKinds,
         NEW now \in Nat, NEW retiring, kind # "end" => r \notin retiring
  PROVE  Counts(p, SendJson(p, r, kind, now, retiring))
<1>0. p \in QueuesType
  BY DEF QueueInv
<1> DEFINE f == SendJson(p, r, kind, now, retiring)
<1>1. CASE kind = "end"
  <2> DEFINE d == Superseded(p, r)
  <2>1. QueueInv(d, X) /\ Counts(p, d)
    BY DropPendingInv, SupersedeInv, SupersededCounts DEF Superseded
  <2>2. SendJson(p, r, "end", now, retiring) =
          IF ~EndOwed(d, r) THEN d
          ELSE IF r \in retiring THEN SendPriority(d, Message("end", r))
          ELSE Queued(d, r, "end", now)
    BY EndIsQueued DEF Superseded
  <2>3. Message("end", r) \in Msg /\ "end" \in JsonKinds
    BY MessageType DEF RoleKinds, JsonKinds
  <2> HIDE DEF d
  <2>4. Counts(p, SendPriority(d, Message("end", r)))
    BY <2>1, <2>3, SendPriorityCounts, CountsTransitive
  <2>5. Counts(p, Queued(d, r, "end", now))
    BY <2>1, <2>3, QueuedCounts, CountsTransitive
  <2> QED BY <1>1, <2>1, <2>2, <2>4, <2>5
<1>2. CASE kind = "clear"
  <2> DEFINE c == DropPending(p, r)
  <2>1. QueueInv(c, X) /\ Counts(p, c) /\ c.lastTs = p.lastTs
    BY <1>0, DropPendingInv, DropPendingCounts, DropPendingFields
  <2>2. f = Queued(c, r, "clear", p.lastTs[r]) /\ p.lastTs[r] \in Nat
    BY <1>0, <1>2, <2>1 DEF SendJson, Queued, JsonTs, QueuesType
  <2>3. "clear" \in JsonKinds
    BY DEF JsonKinds
  <2> HIDE DEF c, f
  <2> QED BY <2>1, <2>2, <2>3, QueuedCounts, CountsTransitive DEF f
<1>3. CASE kind \in {"start", "state"}
  <2> DEFINE ts == JsonTs(p, r, kind, now)
  <2>1. ts \in Nat
    BY <1>0 DEF JsonTs, Larger, QueuesType
  <2>2. f = Queued(p, r, kind, ts)
    BY <1>3 DEF SendJson, Queued
  <2> HIDE DEF f, ts
  <2> QED BY <2>1, <2>2, QueuedCounts DEF f
<1> QED BY <1>1, <1>2, <1>3 DEF JsonKinds

(* _discard_role_queue takes the messages it drops out of the count, and     *)
(* counts the stream/end it keeps.                                           *)
LEMMA DiscardCounts ==
  ASSUME NEW p, NEW X, QueueInv(p, X), NEW r \in Roles
  PROVE  Counts(p, DiscardRoleQueue(p, r))
<1> DEFINE d == DiscardRoleQueue(p, r)
           orders == {c \in p.normal : c.msg.kind = "command" /\ c.msg.role = r}
           size   == Minus(p.size, Cardinality(p.entries[r]))
<1>0. p \in QueuesType /\ d \in QueuesType
  BY DiscardRoleQueueInv DEF QueueInv
<1>1. /\ d.entries = [p.entries EXCEPT ![r] = {}]
      /\ d.lastTs = [p.lastTs EXCEPT ![r] = 0]
      /\ d.epoch = [p.epoch EXCEPT ![r] = @ + 1]
      /\ d.normal = p.normal \ orders /\ d.streaming = p.streaming
      /\ d.roleDrained = p.roleDrained /\ ~d.idle
      /\ \/ /\ d.disconnecting /\ d.priority = p.priority /\ d.seq = p.seq
            /\ d.size = Minus(size, Cardinality(orders))
         \/ /\ d.disconnecting = p.disconnecting
            /\ EndQueuedLast(p, r)
            /\ d.priority = Append(p.priority, Message("end", r)) /\ d.seq = p.seq + 1
            /\ d.size = Minus(size + 1, Cardinality(orders))
         \/ /\ d.disconnecting = p.disconnecting
            /\ ~EndQueuedLast(p, r)
            /\ d.priority = p.priority /\ d.seq = p.seq
            /\ d.size = Minus(size, Cardinality(orders))
  BY <1>0, DiscardFields, Zenon
<1> DEFINE o == Cardinality(orders)
           n == Cardinality(p.normal)
           a == Cardinality(p.entries[r])
           P == Cardinality(Pairs(p.entries))
           D == Cardinality(Pairs(d.entries))
           l == Len(p.priority)
<1>2. IsFiniteSet(p.normal) /\ orders \in SUBSET p.normal
  BY <1>0 DEF QueuesType, Finite
<1>3. o \in Nat /\ o <= n /\ n \in Nat /\ Cardinality(d.normal) = n - o
  <2>1. IsFiniteSet(orders) /\ o <= n
    BY <1>2, FS_Subset
  <2>2. p.normal \cap orders = orders
    BY <1>2
  <2>3. Cardinality(p.normal \ orders) = n - Cardinality(p.normal \cap orders)
    BY <1>2, FS_Difference
  <2>4. o \in Nat /\ n \in Nat
    BY <1>2, <2>1, FS_CardinalityType
  <2> QED BY <1>1, <2>1, <2>2, <2>3, <2>4
<1>4. a \in Nat /\ P \in Nat /\ a <= P /\ D = P - a
  <2>1. Cardinality({}) = 0
    BY FS_EmptySet
  <2>2. /\ a \in Nat /\ P \in Nat /\ a <= P /\ D = P - a + Cardinality({})
    <3>1. d.entries = [p.entries EXCEPT ![r] = {}]
      BY <1>1
    <3> HIDE DEF d
    <3> QED BY <1>0, <3>1, PairsChange
  <2> HIDE DEF D, P, a
  <2>3. P - a + 0 = P - a /\ P - a \in Nat
    BY <2>2
  <2> QED BY <2>1, <2>2, <2>3, Zenon
<1>5. l \in Nat /\ p.seq \in Nat /\ d.seq \in Nat /\ p.size \in Nat
  BY <1>0, TotalType
<1>6. Calls(p, d)
  BY <1>1 DEF Calls
<1>7. ASSUME NEW k \in Nat, Sized(p, k) PROVE Sized(d, k)
  <2>1. p.size = k + (l + n + P) /\ Total(d) = Len(d.priority) + (n - o) + (P - a)
    BY <1>3, <1>4, <1>7 DEF Sized, Total
  <2>2. d.normal \subseteq p.normal
    BY <1>1
  <2>3. size = Minus(p.size, a)
    OBVIOUS
  <2>4. \/ /\ d.priority = p.priority /\ d.seq = p.seq /\ d.size = Minus(size, o)
        \/ /\ d.priority = Append(p.priority, Message("end", r)) /\ d.seq = p.seq + 1
           /\ d.size = Minus(size + 1, o)
    BY <1>1
  <2>5. Message("end", r) \in Msg /\ p.priority \in Seq(Msg)
    BY <1>0, MessageType DEF RoleKinds, JsonKinds, QueuesType
  <2>6. Len(Append(p.priority, Message("end", r))) = l + 1
    BY <2>5, AppendElements
  <2> HIDE DEF o, n, a, P, D, l, size, d
  <2>7. size = p.size - a /\ size \in Nat /\ o <= size
    BY <1>3, <1>4, <1>5, <2>1, <2>3 DEF Minus
  <2>8. CASE d.priority = p.priority /\ d.seq = p.seq /\ d.size = Minus(size, o)
    <3>1. d.size = size - o
      BY <1>3, <2>7, <2>8 DEF Minus
    <3>2. Len(d.priority) = l
      BY <2>8 DEF l
    <3>3. d.size = k + Total(d)
      BY <1>3, <1>4, <1>5, <2>1, <2>7, <3>1, <3>2
    <3>4. p.seq <= d.seq
      BY <1>5, <2>8
    <3>5. \A c \in d.normal : c.at < d.seq
      BY <1>0, <1>5, <1>7, <2>2, <3>4, NormalNumbered
    <3> QED BY <3>3, <3>5 DEF Sized
  <2>9. CASE /\ d.priority = Append(p.priority, Message("end", r)) /\ d.seq = p.seq + 1
             /\ d.size = Minus(size + 1, o)
    <3>1. d.size = size + 1 - o
      BY <1>3, <2>7, <2>9 DEF Minus
    <3>2. Len(d.priority) = l + 1
      BY <2>6, <2>9
    <3>3. d.size = k + Total(d)
      BY <1>3, <1>4, <1>5, <2>1, <2>7, <3>1, <3>2
    <3>4. p.seq <= d.seq
      BY <1>5, <2>9
    <3>5. \A c \in d.normal : c.at < d.seq
      BY <1>0, <1>5, <1>7, <2>2, <3>4, NormalNumbered
    <3> QED BY <3>3, <3>5 DEF Sized
  <2> QED BY <2>4, <2>8, <2>9
<1> QED BY <1>6, <1>7 DEF Counts, d
=============================================================================
