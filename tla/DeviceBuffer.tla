----------------------------- MODULE DeviceBuffer -----------------------------
(***************************************************************************)
(* The server's account of what a player holds in its buffer               *)
(* (server/audio.py, BufferTracker), the writer that waits for room in it  *)
(* (server/connection.py), the player role that resets it                  *)
(* (server/roles/player/v1.py), and the device itself: it holds a chunk    *)
(* from the moment its transmission starts until it has played it, earlier *)
(* than its timestamp by the output delay it has reported or is about to   *)
(* report. Which queue the writer serves is RoleWriter's subject.          *)
(***************************************************************************)
EXTENDS Integers, Sequences, FiniteSets, SequencesExt, FiniteSetsExt

CONSTANTS
  CapacityBytes,     \* the device's buffer
  MaxDuration,       \* max_duration_us: how far ahead of the clock it is filled
  Recheck,           \* TRANSMISSION_RECHECK_US
  ResetDelay,        \* BUFFER_TRACKER_RESET_DELAY_S
  Sizes, Lengths,    \* bytes and durations of chunks
  Delays,            \* output delays a device reports
  MaxClock, MaxQueued, MaxSent, MaxEvents \* bounds: time, queue, chunks; what else happens

BufferAssumption ==
  /\ {CapacityBytes, MaxDuration, Recheck, ResetDelay} \subseteq Nat \ {0}
  /\ Sizes \cup Lengths \subseteq Nat \ {0} /\ Delays \subseteq Nat
  /\ {MaxClock, MaxQueued, MaxSent, MaxEvents} \subseteq Nat

VARIABLES
  clock,      \* the server's clock, to which the device is synchronized
  tracker,    \* the BufferTracker
  role,       \* the role: its queue, the end of its stream, the writer's block
  flight,     \* the chunk in transmission, and whether it may still arrive
  device,     \* what the device holds, its delay, and the report on its way
  events      \* what is bounded, and the chunks registered since the last reset

bufferVars == <<clock, tracker, role, flight, device, events>>

NoChunk == [id |-> 0, end |-> 0, bytes |-> 0, length |-> 0]
NoTime == -1

Bytes(cs) == MapThenSumSet(LAMBDA c : c.bytes, cs)

-------------------------------------------------------------------------------
(* BufferTracker. held: the chunks that count, in registration order; done:     *)
(* completed ones a lower delay could make count again; sending: the chunk      *)
(* whose transmission is unfinished.                                            *)

EmptyTracker(delay) == [held |-> <<>>, done |-> <<>>, bytes |-> 0, delay |-> delay, sending |-> 0]

Completion(T, c) == c.end - T.delay

(* prune_consumed: completed chunks from the front, up to the one that is being *)
(* sent, stop counting; those whose end has passed are forgotten.               *)
Prune(T, now) ==
  LET stays == SelectInSeq(T.held, LAMBDA c : Completion(T, c) > now \/ c.id = T.sending)
      gone  == IF stays = 0 THEN Len(T.held) ELSE stays - 1
      over  == T.done \o SubSeq(T.held, 1, gone)
      first == SelectInSeq(over, LAMBDA c : c.end > now)
  IN  [T EXCEPT !.held = SubSeq(@, gone + 1, Len(@)),
                !.bytes = @ - Bytes(Range(SubSeq(T.held, 1, gone))),
                !.done = IF first = 0 THEN <<>> ELSE SubSeq(over, first, Len(over))]

(* Mutant: completed chunks are not counted again under a lower delay.          *)
SetOutputDelayOnly(T, delay, now) == Prune([T EXCEPT !.delay = delay], now)

(* output_delay_us: every chunk since the last reset is counted again.          *)
SetOutputDelay(T, delay, now) ==
  LET all == T.done \o T.held
  IN  IF delay = T.delay THEN T
      ELSE Prune([T EXCEPT !.delay = delay, !.done = <<>>, !.held = all,
                           !.bytes = Bytes(Range(all))], now)

(* Mutant: a chunk in transmission is taken to free its bytes like the others.  *)
TimeUntilCapacityFreed(T, need, now) ==
  LET enough == CHOOSE k \in 0 .. Len(T.held) :
                  /\ T.bytes - Bytes(Range(SubSeq(T.held, 1, k))) + need <= CapacityBytes
                  /\ \A j \in 0 .. k - 1 :
                       T.bytes - Bytes(Range(SubSeq(T.held, 1, j))) + need > CapacityBytes
  IN  Max({0} \cup {Completion(T, T.held[i]) - now : i \in 1 .. enough})

(* time_until_capacity: the first chunks that must complete until need fits; if *)
(* one of them is being sent there is no telling, and it is checked again.      *)
TimeUntilCapacity(T, need, now) ==
  LET Left(k) == T.bytes - Bytes(Range(SubSeq(T.held, 1, k)))
      enough  == CHOOSE k \in 0 .. Len(T.held) :
                   /\ Left(k) + need <= CapacityBytes
                   /\ \A j \in 0 .. k - 1 : Left(j) + need > CapacityBytes
      unsent  == SelectInSeq(SubSeq(T.held, 1, enough), LAMBDA c : c.id = T.sending)
      played  == IF unsent = 0 THEN enough ELSE unsent - 1
      waits   == {Completion(T, T.held[i]) - now : i \in 1 .. played}
  IN  Max({0} \cup waits \cup (IF unsent = 0 THEN {} ELSE {Recheck}))

(* time_until_end_time_capacity: until the horizon may reach end. *)
TimeUntilHorizon(T, end, now) ==
  LET last == IF T.held = <<>> THEN now ELSE Completion(T, Last(T.held))
      horizon == Max({last, end - T.delay}) - now
  IN  IF end - T.delay <= now THEN 0 ELSE Max({0, horizon - MaxDuration})

TimeUntilReady(T, chunk, now) ==
  LET P == Prune(T, now)
  IN  Max({TimeUntilCapacity(P, chunk.bytes, now), TimeUntilHorizon(P, chunk.end, now)})

Register(T, chunk) ==
  [T EXCEPT !.held = Append(@, chunk), !.bytes = @ + chunk.bytes, !.sending = chunk.id]

FinishTransmission(T, chunk) ==
  [T EXCEPT !.sending = IF @ = chunk.id THEN 0 ELSE @]

-------------------------------------------------------------------------------
(* The device. It plays a chunk before its timestamp by its delay.              *)

DeviceHolds ==
  {c \in device.held \cup (IF flight.live THEN {flight.chunk} ELSE {}) :
     c.end - device.delay > clock}

(* A delay set on the device is reported with its next client/state.            *)
SetsDelay(d) ==
  /\ events.others < MaxEvents /\ d # device.delay /\ device.reports = <<>>
  /\ device' = [device EXCEPT !.delay = d, !.reports = IF role.connected THEN <<d>> ELSE <<>>]
  /\ events' = [events EXCEPT !.others = @ + 1]
  /\ UNCHANGED <<clock, tracker, role, flight>>

ReadsState ==
  /\ device.reports # <<>>
  /\ tracker' = SetOutputDelay(tracker, Head(device.reports), clock)
  /\ device' = [device EXCEPT !.reports = Tail(@)]
  /\ UNCHANGED <<clock, role, flight, events>>

-------------------------------------------------------------------------------
(* The role. *)

(* on_audio_chunk: chunks follow each other on the timeline of the stream.      *)
QueueChunk ==
  \E size \in Sizes, length \in Lengths, lead \in {0, 1} :
    LET start == IF role.next = NoTime THEN clock + lead ELSE role.next
        chunk == [id |-> events.chunks + 1, end |-> start + length, bytes |-> size, length |-> length]
    IN  /\ role.connected /\ Len(role.queue) < MaxQueued /\ events.chunks < MaxSent
        /\ role.next # NoTime => lead = 0
        /\ role' = [role EXCEPT !.queue = Append(@, chunk), !.next = chunk.end]
        /\ events' = [events EXCEPT !.chunks = @ + 1]
        /\ UNCHANGED <<clock, tracker, flight, device>>

(* Mutant: the tracker is reset but the client is not told to clear.            *)
ClearUntold ==
  /\ role.connected /\ role.next # NoTime /\ events.others < MaxEvents
  /\ role' = [role EXCEPT !.queue = <<>>, !.next = NoTime, !.blocked = NoTime]
  /\ tracker' = EmptyTracker(tracker.delay)
  /\ events' = [events EXCEPT !.others = @ + 1, !.counted = {}]
  /\ UNCHANGED <<clock, flight, device>>

(* on_stream_clear, on_stream_end: what is queued is discarded and what the     *)
(* device holds is not counted; the message follows what is being sent.         *)
Clear ==
  /\ role.connected /\ role.next # NoTime /\ events.others < MaxEvents
  /\ role' = [role EXCEPT !.queue = <<NoChunk>>, !.next = NoTime, !.blocked = NoTime]
  /\ tracker' = EmptyTracker(tracker.delay)
  /\ events' = [events EXCEPT !.others = @ + 1, !.counted = {}]
  /\ UNCHANGED <<clock, flight, device>>

(* on_disconnect: the tracker is reset after a delay, unless the client is back.*)
Disconnect ==
  /\ role.connected /\ events.others < MaxEvents
  /\ role' = [queue |-> <<>>, next |-> NoTime, blocked |-> NoTime, connected |-> FALSE,
              resetAt |-> clock + ResetDelay]
  /\ flight' = [flight EXCEPT !.live = FALSE]
  /\ device' = [device EXCEPT !.held = {}, !.reports = <<>>]
  /\ events' = [events EXCEPT !.others = @ + 1]
  /\ UNCHANGED <<clock, tracker>>

ResetAfterDelay ==
  /\ role.resetAt # NoTime /\ role.resetAt <= clock
  /\ role' = [role EXCEPT !.resetAt = NoTime]
  /\ tracker' = EmptyTracker(tracker.delay)
  /\ events' = [events EXCEPT !.counted = {}]
  /\ UNCHANGED <<clock, flight, device>>

(* on_connect: the client comes back with an empty buffer and its state.        *)
Connect ==
  /\ ~role.connected
  /\ role' = [role EXCEPT !.connected = TRUE, !.resetAt = NoTime]
  /\ tracker' = EmptyTracker(tracker.delay)
  /\ device' = [device EXCEPT !.reports = <<device.delay>>]
  /\ events' = [events EXCEPT !.counted = {}]
  /\ UNCHANGED <<clock, flight>>

-------------------------------------------------------------------------------
(* The writer, with the role's head, not blocked. The task of a lost connection *)
(* may still be in its send.                                                    *)
Serves ==
  /\ role.connected /\ role.queue # <<>> /\ ~flight.live
  /\ role.blocked = NoTime \/ role.blocked <= clock

Late(chunk) == clock > chunk.end - chunk.length - tracker.delay

SendsClear ==
  /\ Serves /\ Head(role.queue) = NoChunk
  /\ role' = [role EXCEPT !.queue = Tail(@), !.blocked = NoTime]
  /\ device' = [device EXCEPT !.held = {}]
  /\ UNCHANGED <<clock, tracker, flight, events>>

DropsChunk ==
  LET chunk == Head(role.queue)
  IN  /\ Serves /\ chunk # NoChunk
      /\ Late(chunk) \/ chunk.bytes > CapacityBytes
      /\ role' = [role EXCEPT !.queue = Tail(@), !.blocked = NoTime]
      /\ UNCHANGED <<clock, tracker, flight, device, events>>

(* A chunk that does not fit blocks the role until it may.                      *)
Blocks ==
  LET chunk == Head(role.queue)
  IN  /\ Serves /\ chunk # NoChunk /\ ~Late(chunk) /\ chunk.bytes <= CapacityBytes
      /\ TimeUntilReady(tracker, chunk, clock) > 0
      /\ role' = [role EXCEPT !.blocked = clock + TimeUntilReady(tracker, chunk, clock)]
      /\ tracker' = Prune(tracker, clock)
      /\ UNCHANGED <<clock, flight, device, events>>

Sends ==
  LET chunk == Head(role.queue)
  IN  /\ Serves /\ chunk # NoChunk /\ ~Late(chunk) /\ chunk.bytes <= CapacityBytes
      /\ TimeUntilReady(tracker, chunk, clock) = 0
      /\ role' = [role EXCEPT !.queue = Tail(@), !.blocked = NoTime]
      /\ tracker' = Register(Prune(tracker, clock), chunk)
      /\ flight' = [chunk |-> chunk, live |-> TRUE]
      /\ events' = [events EXCEPT !.counted = @ \cup {chunk}]
      /\ UNCHANGED <<clock, device>>

SendEnds ==
  /\ flight.chunk # NoChunk
  /\ tracker' = FinishTransmission(tracker, flight.chunk)
  /\ device' = IF flight.live THEN [device EXCEPT !.held = @ \cup {flight.chunk}] ELSE device
  /\ flight' = [chunk |-> NoChunk, live |-> FALSE]
  /\ UNCHANGED <<clock, role, events>>

(* Chunks the device has played under any delay are forgotten. *)
Tick ==
  LET Future(cs) == {c \in cs : c.end > clock + 1 \/ c.id = tracker.sending}
  IN  /\ clock < MaxClock
      /\ clock' = clock + 1
      /\ device' = [device EXCEPT !.held = Future(@)]
      /\ events' = [events EXCEPT !.counted = Future(@)]
      /\ UNCHANGED <<tracker, role, flight>>

-------------------------------------------------------------------------------
Init ==
  /\ clock = 0
  /\ \E d \in Delays : /\ tracker = EmptyTracker(d)
                       /\ device = [held |-> {}, delay |-> d, reports |-> <<>>]
  /\ role = [queue |-> <<>>, next |-> NoTime, blocked |-> NoTime, connected |-> TRUE,
             resetAt |-> NoTime]
  /\ flight = [chunk |-> NoChunk, live |-> FALSE]
  /\ events = [chunks |-> 0, others |-> 0, counted |-> {}]

Next ==
  \/ \E d \in Delays : SetsDelay(d)
  \/ ReadsState \/ QueueChunk \/ Clear \/ Disconnect \/ ResetAfterDelay \/ Connect
  \/ SendsClear \/ DropsChunk \/ Blocks \/ Sends \/ SendEnds \/ Tick

Spec == Init /\ [][Next]_bufferVars

-------------------------------------------------------------------------------
Chunks == [id : Nat, end : Nat, bytes : Nat, length : Nat]

TypeOK ==
  /\ clock \in 0 .. MaxClock
  /\ tracker.held \in Seq(Chunks) /\ tracker.done \in Seq(Chunks)
  /\ tracker.bytes \in Nat /\ tracker.delay \in Delays /\ tracker.sending \in Nat
  /\ role.queue \in Seq(Chunks) /\ role.connected \in BOOLEAN
  /\ {role.next, role.blocked, role.resetAt} \subseteq Nat \cup {NoTime}
  /\ flight.chunk \in Chunks /\ flight.live \in BOOLEAN
  /\ device.held \subseteq Chunks /\ device.delay \in Delays /\ device.reports \in Seq(Delays)

(* The chunks that count now, of those registered since the last reset.         *)
Counting(t) == {c \in events.counted : Completion(tracker, c) > t \/ c.id = tracker.sending}

(* Through any changes of the delay, the tracker counts a chunk exactly while   *)
(* it is being sent or is not complete under the current delay (audio.py,       *)
(* BufferTracker).                                                              *)
CountsExactly ==
  LET P == Prune(tracker, clock)
  IN  /\ Range(P.held) = Counting(clock) /\ P.bytes = Bytes(Counting(clock))
      /\ Len(P.held) = Cardinality(Counting(clock))

(* Whether a chunk fits at t, nothing else being sent. *)
FitsAt(chunk, t) ==
  /\ Bytes(Counting(t)) + chunk.bytes <= CapacityBytes
  /\ \A c \in Counting(t) \cup {chunk} : Completion(tracker, c) - t <= MaxDuration

(* The wait for room is exact: a chunk fits when it is over and not a moment    *)
(* before. With a chunk in transmission it is never taken as freed: there is no *)
(* wait only if the new one fits beside it.                                     *)
WaitsExactly ==
  \A size \in {s \in Sizes : s <= CapacityBytes},
     end \in Max({clock} \cup {c.end : c \in events.counted}) .. MaxClock + MaxDuration + 1 :
    LET chunk == [id |-> 0, end |-> end, bytes |-> size, length |-> 0]
        wait  == TimeUntilReady(tracker, chunk, clock)
    IN  /\ wait = 0 <=> FitsAt(chunk, clock)
        /\ tracker.sending = 0 /\ wait > 0 =>
             FitsAt(chunk, clock + wait) /\ ~FitsAt(chunk, clock + wait - 1)

(* A chunk is sent only when it fits in what the device really holds, whatever  *)
(* was cleared, lost or reset before, as long as the device has no delay that   *)
(* the server has yet to hear of.                                               *)
SendsWhatFits ==
  flight'.live /\ flight' # flight /\ device.delay = tracker.delay
    => Bytes(DeviceHolds) + flight'.chunk.bytes <= CapacityBytes

FitsWhenSent == [][SendsWhatFits]_bufferVars
===============================================================================
