------------------------------ MODULE Visualizer ------------------------------
(***************************************************************************)
(* A visualizer role (server/roles/visualizer/v1.py) and what its group    *)
(* knows of the beats (server/roles/visualizer/group.py): the requests a   *)
(* client makes, the stream/start messages that follow from them and from  *)
(* the beats that land, the frames that are parked so that a schedule can  *)
(* still land in front of them, and the beats in between. The push stream, *)
(* the connection and the program that feeds the beats call it. The        *)
(* deprecated pitch type and the buffer tracker are left out; what a frame *)
(* shows is not modelled, only which configuration it was made for.        *)
(***************************************************************************)
EXTENDS Integers, Sequences, FiniteSets, FiniteSetsExt, SequencesExt

CONSTANTS
  Rates,                        \* rate_max and spectrum, which a frame is made for
  None,                         \* no request, no configuration
  Lead,                         \* _WARMUP_LEAD_US
  MaxTime, MaxTurns             \* bounds: the clock, and what others do to the role

VARIABLES
  now,          \* the server's clock
  stream,       \* the group's push stream
  group,        \* the VisualizerGroupRole: its schedule and availability
  role,         \* the role, and what its client was told
  available,    \* what the client last reported
  turns         \* events so far

visualizerVars == <<now, stream, group, role, available, turns>>

NoTime == -1

(* What a client asks for: fft stands for the types computed from the audio.   *)
Requests == [types : SUBSET {"fft", "beat"}, rate : Rates]
Configs == [types : SUBSET {"fft", "beat"}, rate : Rates, tracks : BOOLEAN]

VisualizerAssumption ==
  /\ Rates # {} /\ {Lead, MaxTime, MaxTurns} \subseteq Nat
  /\ None \notin Requests \cup Configs \cup Rates

-------------------------------------------------------------------------------
(* A message of the role: its time, its type and, for a frame, the configuration *)
(* it was made for. In wire, cursor is the role's wire-ts cursor; seen is the    *)
(* latest time the client was sent since its stream opened or was cleared, faults *)
(* what it could not make sense of, and lifted whether the cursor moved while    *)
(* frames did not wait. told is the last stream/start of the stream that is open; *)
(* deaf: the stream started with no transport to send its start to, and no       *)
(* request since has set that right.                                             *)

Fresh == [cursor |-> NoTime, seen |-> NoTime, faults |-> {}, lifted |-> FALSE]

Beats(times) == {[ts |-> t, type |-> "beat", rate |-> None] : t \in times}

(* A beat comes before a frame of the same time.                                 *)
Before(m, n) == m.ts < n.ts \/ (m.ts = n.ts /\ m.type = "beat" /\ n.type # "beat")

Understood(r, m) ==
  r.told # None /\ m.type \in r.told.types /\ (m.type = "fft" => m.rate = r.told.rate)

(* Mutant: a frame behind the cursor is sent.                                    *)
SendAnyway(r, w, m) ==
  IF m.type = "beat" /\ m.ts <= w.cursor THEN w
  ELSE [cursor |-> m.ts, seen |-> Max({w.seen, m.ts}), lifted |-> w.lifted \/ ~r.hold,
        faults |-> w.faults \cup (IF m.ts < w.seen THEN {"order"} ELSE {})
                            \cup (IF r.deaf \/ Understood(r, m) THEN {} ELSE {"stray"})]

(* _send_frame_now and _emit_beats: nothing is sent behind the cursor, and no    *)
(* beat at it.                                                                   *)
SendNow(r, w, m) ==
  LET beat == m.type = "beat"
  IN  IF m.ts < w.cursor \/ (beat /\ m.ts = w.cursor) THEN w
      ELSE [cursor |-> m.ts, seen |-> Max({w.seen, m.ts}), lifted |-> w.lifted \/ ~r.hold,
            faults |-> w.faults
                 \cup (IF m.ts < w.seen \/ (beat /\ m.ts = w.seen) THEN {"order"} ELSE {})
                 \cup (IF r.deaf \/ Understood(r, m) THEN {} ELSE {"stray"})]

InOrder(messages) ==
  [i \in 1 .. Cardinality(messages) |->
     CHOOSE m \in messages : Cardinality({n \in messages : Before(n, m)}) = i - 1]

SendAll(r, messages) ==
  LET Step(w, m) == SendNow(r, w, m)
  IN  [r EXCEPT !.wire = FoldLeft(Step, @, InOrder(messages))]

-------------------------------------------------------------------------------
(* What the client is told.                                                      *)

Linked(r) == r.link \in {"hello", "on"}

WantsBeats(r) == r.request # None /\ "beat" \in r.request.types /\ ~r.unavailable

(* _build_stream_config: beats are announced once a schedule has landed, unless  *)
(* the client wants nothing else.                                                *)
BuildStreamConfig(r) ==
  LET beats == ~r.unavailable /\ (r.landed \/ r.request.types = {"beat"})
      types == IF beats THEN r.request.types ELSE r.request.types \ {"beat"}
  IN  [types |-> types, rate |-> r.request.rate, tracks |-> "beat" \in types /\ r.tracks]

SendStreamStart(r) ==
  IF r.config = None THEN r
  ELSE IF Linked(r) THEN [r EXCEPT !.started = TRUE, !.told = r.config]
  ELSE [r EXCEPT !.started = TRUE, !.deaf = TRUE]

ReissueStreamStart(r) ==
  IF r.request = None THEN r ELSE SendStreamStart([r EXCEPT !.config = BuildStreamConfig(r)])

-------------------------------------------------------------------------------
(* Frames and beats.                                                             *)

(* The beats _drain_beats_up_to sends, at the latest those at the cap.           *)
Due(r, upTo, time) ==
  IF ~r.started \/ r.config = None \/ "beat" \notin r.config.types THEN {}
  ELSE {b \in r.pending : b <= IF r.hold THEN Min({upTo, time + Lead}) ELSE upTo}

DrainBeats(r, upTo, time) ==
  LET due == Due(r, upTo, time)
  IN  SendAll([r EXCEPT !.pending = @ \ due], Beats(due))

ArmTimer(r) == [r EXCEPT !.timer = @ \/ (r.parked # {} /\ Linked(r))]
RearmHoldback(r) == ArmTimer([r EXCEPT !.hold = WantsBeats(r)])

(* Parked frames in the order of their times, each after the beats due by then.  *)
SendParked(r, frames, time) ==
  LET due == UNION {Due(r, f.ts, time) : f \in frames}
  IN  SendAll([r EXCEPT !.parked = @ \ frames, !.pending = @ \ due], frames \cup Beats(due))

(* _run_release_scheduler                                                        *)
Release(r, time) ==
  LET s == [r EXCEPT !.timer = FALSE]
      t == SendParked(s, {f \in r.parked : f.ts <= time + Lead}, time)
  IN  IF Linked(r) THEN ArmTimer(DrainBeats(t, time + Lead, time)) ELSE s

EndHoldback(r, time) == SendParked([r EXCEPT !.hold = FALSE, !.timer = FALSE], r.parked, time)

DispatchFrame(r, f, time) ==
  IF r.hold /\ f.ts > time + Lead THEN ArmTimer([r EXCEPT !.parked = @ \cup {f}])
  ELSE SendAll(r, {f})

(* on_audio_chunk: the beats due by its start, then the frame its end completes, *)
(* if the extractor makes one of it.                                             *)
OnAudioChunk(r, start, makes, time) ==
  LET s == DrainBeats(r, start, time)
      f == [ts |-> start + 1, type |-> "fft", rate |-> r.config.rate]
  IN  IF ~Linked(r) \/ r.config = None THEN r
      ELSE IF ~r.extractor \/ ~makes THEN s
      ELSE DispatchFrame(DrainBeats(s, start + 1, time), f, time)

-------------------------------------------------------------------------------
(* The beats.                                                                    *)

(* Mutant: a schedule that is gone leaves the announcement as it was.            *)
SetUnavailableOnly(r, u, time) ==
  LET s == [r EXCEPT !.unavailable = u, !.pending = {}, !.landed = FALSE]
  IN  IF r.unavailable = u THEN r ELSE IF u THEN EndHoldback(s, time) ELSE s

(* set_beat_availability                                                         *)
SetBeatAvailability(r, u, time) ==
  LET s == [r EXCEPT !.unavailable = u]
      t == IF u THEN EndHoldback([s EXCEPT !.pending = {}, !.landed = FALSE], time)
           ELSE IF WantsBeats(s) /\ ~s.hold THEN RearmHoldback(s) ELSE s
  IN  IF r.unavailable = u THEN r
      ELSE IF /\ r.request # None /\ "beat" \in r.request.types
              /\ r.config # None /\ r.started /\ BuildStreamConfig(t) # t.config
           THEN ReissueStreamStart(t) ELSE t

AppendBeats(r, beats) ==
  LET s == [r EXCEPT !.pending = @ \cup beats, !.landed = TRUE]
  IN  IF ~WantsBeats(r) \/ beats = {} THEN r
      ELSE IF ~r.landed /\ r.started /\ r.config # None THEN ReissueStreamStart(s) ELSE s

ClearBeats(r) ==
  LET s == [r EXCEPT !.pending = {}]
      t == RearmHoldback([s EXCEPT !.landed = FALSE])
  IN  IF ~r.landed THEN s
      ELSE IF r.started /\ r.config # None THEN ReissueStreamStart(t) ELSE t

(* on_member_join: the group's availability and what is left of its schedule.    *)
MemberJoins(r, g, time) ==
  LET s == SetBeatAvailability(r, g.unavailable, time)
  IN  IF WantsBeats(s) THEN AppendBeats(ClearBeats(s), {b \in g.beats : b >= time}) ELSE s

SetTracksDownbeats(r, tracks) ==
  LET s == [r EXCEPT !.tracks = tracks]
  IN  IF r.started /\ r.request # None /\ BuildStreamConfig(s) # s.config
      THEN ReissueStreamStart(s) ELSE s

-------------------------------------------------------------------------------
(* The stream.                                                                   *)

(* _rebuild_extractor                                                            *)
RebuildExtractor(r) == [r EXCEPT !.extractor = r.config # None /\ "fft" \in r.config.types]

OnStreamStart(r, time) ==
  LET s == [r EXCEPT !.config = BuildStreamConfig(r), !.wire.cursor = Max({@, time}),
                     !.timer = FALSE, !.parked = {}, !.hold = WantsBeats(r)]
  IN  IF r.request = None THEN r
      ELSE RebuildExtractor(IF r.started THEN s ELSE SendStreamStart(s))

OnStreamClear(r) ==
  LET s == RearmHoldback([r EXCEPT !.pending = {}, !.landed = FALSE, !.timer = FALSE,
                                   !.parked = {}])
      t == [s EXCEPT !.wire = [Fresh EXCEPT !.faults = r.wire.faults]]
  IN  IF r.landed /\ r.started /\ r.config # None THEN ReissueStreamStart(t) ELSE t

(* What on_stream_end and on_disconnect reset.                                   *)
Rest(r) ==
  [r EXCEPT !.extractor = FALSE, !.started = FALSE, !.pending = {}, !.landed = FALSE,
            !.wire = [Fresh EXCEPT !.faults = r.wire.faults], !.timer = FALSE, !.parked = {},
            !.hold = FALSE, !.told = None, !.deaf = FALSE]

(* The stream/end goes out only for a stream that was announced; where none was, *)
(* the client knows of none.                                                     *)
OnStreamEnd(r) == Rest(r)
OnDisconnect(r, link) == [Rest(r) EXCEPT !.unavailable = FALSE, !.link = link]

(* on_connect, with the request a hello of an older client carries.              *)
OnConnect(r, legacy, g, time) ==
  MemberJoins([r EXCEPT !.link = "hello", !.request = legacy, !.config = None], g, time)

(* _apply_request_to_stream with _sync_holdback                                  *)
ApplyToStream(r, time) ==
  LET s == [r EXCEPT !.pending = {}, !.landed = FALSE]
      t == [s EXCEPT !.config = BuildStreamConfig(s), !.timer = FALSE, !.parked = {},
                     !.hold = WantsBeats(s), !.deaf = r.deaf /\ ~Linked(r)]
  IN  IF BuildStreamConfig(r) # r.config THEN SendStreamStart(RebuildExtractor(t))
      ELSE IF WantsBeats(r) = r.hold THEN r
      ELSE IF r.hold THEN EndHoldback(r, time) ELSE RearmHoldback(r)

(* _apply_request: who wants beats from now on joins the group again for them.   *)
ApplyRequest(r, request, g, time) ==
  LET s == [r EXCEPT !.request = request]
      t == IF s.started THEN ApplyToStream(s, time) ELSE s
  IN  IF request = r.request THEN r
      ELSE IF WantsBeats(t) /\ ~WantsBeats(r) THEN MemberJoins(t, g, time) ELSE t

-------------------------------------------------------------------------------
NewRole ==
  [link |-> "gone", request |-> None, config |-> None, started |-> FALSE, extractor |-> FALSE,
   pending |-> {}, landed |-> FALSE, unavailable |-> FALSE, hold |-> FALSE,
   parked |-> {}, timer |-> FALSE, tracks |-> FALSE,
   told |-> None, deaf |-> FALSE, wire |-> Fresh]

NoStream == [on |-> FALSE, at |-> 0, started |-> FALSE]
NoBeats == [beats |-> {}, unavailable |-> FALSE]

Init ==
  /\ now = 0 /\ turns = 0 /\ available \in BOOLEAN
  /\ stream = NoStream /\ group = NoBeats /\ role = NewRole

Turn == turns < MaxTurns /\ turns' = turns + 1

Piped(r) == r.link \in {"on", "warm"}

(* _ensure_role_started, which an unavailable client's role takes no notice of.  *)
Ensure(r, s) == IF s.started \/ ~available' THEN r ELSE OnStreamStart(r, now)

(* join_active_stream: the role starts at once where the stream has a timeline,  *)
(* and first gets what is cached of the audio to come.                           *)
JoinsStream(r) ==
  \/ /\ r.link = "on" /\ stream.on
     /\ \E at \in {t \in 1 .. MaxTime : now < t /\ t <= stream.at} \cup {stream.at}, starts \in BOOLEAN :
          /\ role' = (IF starts /\ available' THEN OnStreamStart(r, now) ELSE r)
          /\ stream' = [stream EXCEPT !.at = at, !.started = starts]
  \/ /\ r.link # "on" \/ ~stream.on
     /\ role' = r /\ UNCHANGED stream

(* A connection brings a new role or takes up the one a lost connection left.    *)
Connects ==
  /\ Turn /\ role.link \in {"gone", "warm"}
  /\ \E legacy \in Requests \cup {None} : role' = OnConnect(role, legacy, group, now)
  /\ UNCHANGED <<now, stream, group, available>>

(* The initial client/state: it is applied before the client counts as connected *)
(* and its roles join.                                                           *)
InitialState ==
  /\ Turn /\ role.link = "hello" /\ available' \in BOOLEAN
  /\ \E request \in Requests \cup {role.request} :
       JoinsStream([ApplyRequest(role, request, group, now) EXCEPT !.link = "on"])
  /\ UNCHANGED <<now, group>>

(* Any later client/state that leaves the client as available as it was.         *)
ClientState ==
  /\ Turn /\ role.link = "on" /\ UNCHANGED available
  /\ \E request \in Requests :
       LET r == ApplyRequest(role, request, group, now)
       IN  /\ request # role.request
           /\ IF role.request = None /\ ~r.started THEN JoinsStream(r)
              ELSE role' = r /\ UNCHANGED stream
  /\ UNCHANGED <<now, group>>

BecomesAvailable ==
  /\ Turn /\ role.link = "on" /\ ~available /\ available' = TRUE
  /\ IF role.started THEN UNCHANGED <<role, stream>> ELSE JoinsStream(role)
  /\ UNCHANGED <<now, group>>

(* The client's streams end, and it is left in, or moves to, a group at rest.    *)
BecomesUnavailable ==
  /\ Turn /\ role.link = "on" /\ available /\ available' = FALSE
  /\ stream' = NoStream
  /\ \/ role' = OnStreamEnd(role) /\ UNCHANGED group
     \/ group' = NoBeats /\ role' = MemberJoins(OnStreamEnd(role), NoBeats, now)
  /\ UNCHANGED now

(* Moved to another group, with or without a stream.                             *)
MovesToGroup ==
  /\ Turn /\ Piped(role) /\ UNCHANGED <<now, available>>
  /\ \E beats \in SUBSET (now .. MaxTime), u \in BOOLEAN :
       /\ u => beats = {}
       /\ group' = [beats |-> beats, unavailable |-> u]
       /\ role' = IF Linked(role) THEN MemberJoins(OnStreamEnd(role), group', now)
                  ELSE OnStreamEnd(role)
  /\ \/ stream' = NoStream
     \/ stream' = [on |-> TRUE, at |-> now + 1, started |-> FALSE]

(* The connection is lost: the role is kept for the next, or dropped.            *)
Disconnects ==
  /\ Turn /\ Linked(role)
  /\ \/ role' = OnDisconnect(role, "warm")
     \/ role' = NewRole
  /\ UNCHANGED <<now, stream, group, available>>

(* server/activate without the role, whose instance is dropped.                  *)
Deactivated ==
  /\ Turn /\ role.link = "on" /\ role' = NewRole
  /\ stream' = [stream EXCEPT !.started = FALSE]
  /\ UNCHANGED <<now, group, available>>

-------------------------------------------------------------------------------
(* The program: VisualizerGroupRole's methods, which reach the role it is        *)
(* subscribed to, and set_tracks_downbeats.                                      *)

AppendsSchedule ==
  /\ Turn /\ ~group.unavailable
  /\ \E beats \in SUBSET (now .. MaxTime) \ {{}} :
       /\ \A b \in beats, c \in group.beats : c < b
       /\ group' = [group EXCEPT !.beats = @ \cup beats]
       /\ role' = IF Linked(role) THEN AppendBeats(role, beats) ELSE role
  /\ UNCHANGED <<now, stream, available>>

ClearsSchedule ==
  /\ Turn /\ group' = NoBeats
  /\ role' = IF Linked(role) THEN SetBeatAvailability(ClearBeats(role), FALSE, now) ELSE role
  /\ UNCHANGED <<now, stream, available>>

DeclaresBeats ==
  /\ Turn /\ \E u \in BOOLEAN :
       /\ group' = [beats |-> IF u THEN {} ELSE group.beats, unavailable |-> u]
       /\ role' = IF Linked(role) THEN SetBeatAvailability(role, u, now) ELSE role
  /\ UNCHANGED <<now, stream, available>>

TracksDownbeats ==
  /\ Turn /\ role.link # "gone" /\ role' = SetTracksDownbeats(role, ~role.tracks)
  /\ UNCHANGED <<now, stream, group, available>>

-------------------------------------------------------------------------------
(* The push stream: it keeps a role whose connection is lost in its pipeline.    *)

StreamStarts ==
  /\ Turn /\ ~stream.on
  /\ stream' = [on |-> TRUE, at |-> now + 1, started |-> FALSE]
  /\ UNCHANGED <<now, group, role, available>>

StreamStops ==
  /\ Turn /\ stream.on /\ stream' = NoStream
  /\ role' = IF Piped(role) THEN OnStreamEnd(role) ELSE role
  /\ UNCHANGED <<now, group, available>>

StreamCleared ==
  /\ Turn /\ stream.on /\ stream' = [on |-> TRUE, at |-> now + 1, started |-> FALSE]
  /\ role' = IF Piped(role) THEN OnStreamClear(role) ELSE role
  /\ UNCHANGED <<now, group, available>>

Chunk ==
  /\ stream.on /\ Piped(role)
  /\ LET start == Max({stream.at, now})
     IN  /\ start < MaxTime
         /\ stream' = [stream EXCEPT !.at = start + 1, !.started = TRUE]
         /\ UNCHANGED <<now, group, available, turns>>
         /\ \E makes \in BOOLEAN : role' = OnAudioChunk(Ensure(role, stream), start, makes, now)

TimerFires ==
  /\ role.timer /\ \E f \in role.parked : f.ts <= now + Lead
  /\ role' = Release(role, now)
  /\ UNCHANGED <<now, stream, group, available, turns>>

Tick ==
  /\ now < MaxTime /\ now' = now + 1
  /\ UNCHANGED <<stream, group, role, available, turns>>

Next ==
  \/ Connects \/ InitialState \/ ClientState \/ BecomesAvailable \/ BecomesUnavailable
  \/ MovesToGroup \/ Disconnects \/ Deactivated
  \/ AppendsSchedule \/ ClearsSchedule \/ DeclaresBeats \/ TracksDownbeats
  \/ StreamStarts \/ StreamStops \/ StreamCleared \/ Chunk \/ TimerFires \/ Tick

Spec == Init /\ [][Next]_visualizerVars

-------------------------------------------------------------------------------
(* Types.                                                                        *)
TypeOK ==
  /\ now \in 0 .. MaxTime /\ turns \in 0 .. MaxTurns /\ available \in BOOLEAN
  /\ role.request \in Requests \cup {None} /\ {role.config, role.told} \subseteq Configs \cup {None}
  /\ role.link \in {"gone", "warm", "hello", "on"}
  /\ role.pending \subseteq 0 .. MaxTime /\ role.wire.cursor \in -1 .. MaxTime
  /\ group.beats \subseteq 0 .. MaxTime

(* Within a stream a client's frames and beats come in the order of their times, *)
(* and each is of a type, and made for a configuration, it was told of: neither  *)
(* clears, seeks, new schedules, changes of the request and late timers can slip *)
(* an old one in.                                                                *)
SentInOrder == role.wire.faults = {}

(* While frames wait for the beats, the cursor stays by the playhead, so that a  *)
(* schedule pushed in mid-stream does not land behind it.                        *)
CursorNearPlayhead ==
  role.hold /\ ~role.wire.lifted => role.wire.cursor <= now + Lead

(* What a client was last told is what its role would tell it now, whatever      *)
(* changed since: its request, the beats that landed or went, their availability. *)
ToldTheLatest ==
  Linked(role) /\ ~role.deaf =>
    /\ role.started => role.told = BuildStreamConfig(role) /\ role.config = role.told
    /\ ~role.started => role.told = None

(* Frames wait exactly while the client wants beats, and none waits without a    *)
(* timer that lets it go.                                                        *)
HoldsForBeats ==
  /\ role.started /\ ~role.deaf => (role.hold <=> WantsBeats(role))
  /\ role.parked # {} => role.timer /\ role.hold

(* A role that wants beats has those of its group's schedule, from some time on, *)
(* and no other.                                                                 *)
BeatsOfGroup ==
  Linked(role) /\ WantsBeats(role) =>
    /\ ~group.unavailable /\ role.pending \subseteq group.beats
    /\ \A b \in role.pending, c \in group.beats : b < c => c \in role.pending
===============================================================================
