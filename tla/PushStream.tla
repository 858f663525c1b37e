------------------------------ MODULE PushStream ------------------------------
(***************************************************************************)
(* One stream of live audio to the players of a group                      *)
(* (server/push_stream.py, with the hooks of roles/player/v1.py it calls). *)
(*                                                                         *)
(* A producer commits chunks to a shared timeline. A commit places its     *)
(* chunk, waits for the pipeline, has it resampled and encoded by worker   *)
(* threads once for each format in use, and delivers the result to the     *)
(* players of that format. Meanwhile players join, leave, lose and regain  *)
(* their connection and change their format. A player that joins is sent   *)
(* what is cached for its format or, when nothing is, a catch-up task      *)
(* encodes the cached PCM for it while live delivery of that format waits. *)
(* flush_audio, clear and stop end the audio in three ways.                *)
(*                                                                         *)
(* Time is counted in chunks, which are long enough for a catch-up to      *)
(* yield before each of them, and a chunk is named by its start. All       *)
(* players listen to one channel; sources need no resampling; delays of    *)
(* single players are left out.                                            *)
(***************************************************************************)
EXTENDS Integers, Sequences, FiniteSets, SequencesExt

CONSTANTS
  Roles,       \* the player roles
  Keys,        \* formats (transform keys) they may ask for
  Buffering,   \* the formats whose encoder holds back the last chunk
  Lead,        \* the send-ahead floor: audio is placed this far from now
  Commits,     \* bound: commits and flushes in progress at a time
  MaxTime,     \* bound: the clock
  MaxTail,     \* bound: the end of the timeline
  MaxChanges   \* bound: changes of membership and format

ASSUME PushStreamAssumption ==
  /\ IsFiniteSet(Roles)
  /\ Keys # {}
  /\ Buffering \subseteq Keys
  /\ Lead \in Nat \ {0}
  /\ Commits \in Nat \ {0}
  /\ MaxTime \in Nat
  /\ MaxTail \in Nat
  /\ MaxChanges \in Nat

VARIABLES
  now,      \* the clock, in chunks
  stream,   \* stopped, flush, tail (0: not anchored) and the cached PCM
  keys,     \* what the stream keeps for each format
  players,  \* what it and the role keep for each player
  ops,      \* the commits and flushes in progress
  queue,    \* holder of, then waiters for, _commit_dsp_lock
  unwound,  \* formats of cancelled catch-up tasks that have yet to unwind
  changes   \* counts changes, for the bound

vars == <<now, stream, keys, players, ops, queue, unwound, changes>>

\* The synchronous code between two awaits maps such a record to another.
State == [stream |-> stream, keys |-> keys, players |-> players, unwound |-> unwound]

Becomes(S) ==
  /\ stream' = S.stream
  /\ keys' = S.keys
  /\ players' = S.players
  /\ unwound' = S.unwound

-------------------------------------------------------------------------------
(* Formats: their encoder, cache and catch-up. *)

NoTask == [todo |-> {}, got |-> <<>>, target |-> 0, src |-> 0, enc |-> 0,
           running |-> FALSE, waiting |-> FALSE, drain |-> FALSE]

\* phase: _catchup_state; waiting: _catchup_roles, with each joiner's target
\* (0: the task's own); held: what the encoder has and has not emitted; last:
\* the end of what it received (0: none); cache: _role_chunk_cache; owned: the
\* task is in _catchup_tasks. spoiled only tells the properties of two known
\* faults: a cancelled task took the state of a newer one with it, or the encoder
\* kept audio across a clear, encoded in flight for players that had left.
NoKey == [phase |-> "none", waiting |-> {}, last |-> 0, held |-> 0,
          cache |-> <<>>, task |-> NoTask, owned |-> FALSE, spoiled |-> FALSE]

\* Players: open is TRUE while the role accepts audio, sent its _sent_end_us,
\* resume its entry in _resume_at_us (0: none). For the properties, faults
\* records what was wrong with the audio it was sent, and lossy how it joined if
\* that is known to lose audio.
NoPlayer(k) == [member |-> "out", format |-> k, pending |-> FALSE,
                started |-> FALSE, open |-> FALSE, sent |-> 0, resume |-> 0,
                faults |-> {}, lossy |-> {}]

\* In the pipeline: connected, or disconnected with its roles kept warm.
InPipeline(S, r) == S.players[r].member \in {"in", "warm"}
Active(S) == {r \in Roles : InPipeline(S, r) /\ ~S.players[r].pending}

\* Reconnected and awaiting its state: encoded for but not delivered to.
Reattached(S) ==
  {r \in Roles : S.players[r].member = "back" /\ S.keys[S.players[r].format].cache # <<>>}

\* _other_roles_use_transform_key
Shared(S, k, r) ==
  \E q \in Roles \ {r} : InPipeline(S, q) /\ S.players[q].format = k

\* transformer.reset and the loss of _transform_last_input_end_us.
Fresh(K) == [K EXCEPT !.held = 0, !.last = 0]

\* _encode_transform_for_key: a holding encoder emits the chunk before, which
\* it labels to end where the new one starts.
Emitted(k, K, ts) ==
  IF k \notin Buffering THEN <<ts>>
  ELSE IF K.held = 0 THEN <<>>
  ELSE IF K.last = 0 THEN <<K.held>>
  ELSE <<ts - 1>>

\* Mutant: what the encoder has had is not noted.
EncodedUnnoted(k, K, ts) ==
  [K EXCEPT !.held = IF k \in Buffering THEN ts ELSE 0]

Encoded(k, K, ts) ==
  [K EXCEPT !.held = IF k \in Buffering THEN ts ELSE 0, !.last = ts + 1]

-------------------------------------------------------------------------------
(* Delivery to one player. *)

\* _ensure_role_started and on_stream_start, which needs a connection.
Start(p) ==
  IF p.started THEN p
  ELSE [p EXCEPT !.started = TRUE, !.open = @ \/ p.member = "in"]

\* on_audio_chunk: dropped unless the role's stream is open.
Receive(p, ts, pcm) ==
  IF p.member = "out" THEN [p EXCEPT !.faults = @ \union {"stray"}]
  ELSE IF ~p.open THEN p
  ELSE LET repeated == IF ts < p.sent THEN {"repeated"} ELSE {}
           hole == IF p.sent > 0 /\ \E m \in pcm : p.sent <= m /\ m < ts /\ m > now
                   THEN {"hole"} ELSE {}
       IN [p EXCEPT !.sent = ts + 1, !.faults = @ \union repeated \union hole]

\* Live chunks, held back until a resume position is reached.
ReceiveLive(p, frames, pcm) ==
  LET after[n \in 0 .. Len(frames)] ==
        IF n = 0 THEN Start(p)
        ELSE IF frames[n] < after[n - 1].resume THEN after[n - 1]
        ELSE Receive([after[n - 1] EXCEPT !.resume = 0], frames[n], pcm)
  IN  after[Len(frames)]

\* _send_cached_chunks_to_role: neither the past nor what precedes the target.
ReceiveCached(p, cached, low, pcm) ==
  LET after[n \in 0 .. Len(cached)] ==
        IF n = 0 THEN p
        ELSE IF cached[n] < low \/ cached[n] <= now THEN after[n - 1]
        ELSE Receive(Start(after[n - 1]), cached[n], pcm)
  IN  after[Len(cached)]

-------------------------------------------------------------------------------
(* Joins. *)

Target == now + Lead

ChunksAfter(S, end) == {m \in S.stream.pcm : m + 1 > end}

\* _start_catchup_encoding up to its first await: the snapshot of the PCM,
\* which holds audio beyond the target.
CatchUp(S, k, r, target) ==
  LET todo == ChunksAfter(S, target)
  IN [S EXCEPT !.keys[k] =
       [Fresh(@) EXCEPT !.phase = "catching", !.waiting = {<<r, 0>>}, !.owned = TRUE,
          !.task = [NoTask EXCEPT !.todo = todo, !.target = target,
                                  !.src = Max(todo) + 1, !.running = TRUE]]]

\* A joiner that waits for live audio.
AwaitLive(S, r) ==
  [S EXCEPT !.players[r] = IF S.stream.tail # 0 THEN Start(@) ELSE @]

\* A join that is sent less than there is, in one of two ways known to lose
\* audio: from a cache that a catch-up is still filling; or from a cache, or the
\* live audio, that lacks chunks the PCM cache still has.
Lossy(S, K, target) ==
  IF K.phase = "catching" THEN IF K.cache # <<>> THEN {"filling"} ELSE {}
  ELSE IF \E m \in S.stream.pcm :
            m + 1 > target /\ m > now /\ m # K.held /\ m \notin Range(K.cache)
  THEN {"starved"} ELSE {}

\* _do_role_join
DoRoleJoin(S0, r) ==
  LET S == [S0 EXCEPT !.players[r].pending = FALSE, !.players[r].started = FALSE]
      p == S.players[r]
      k == p.format
      K == S.keys[k]
      target == IF p.resume # 0 THEN p.resume ELSE Target
      L == [S EXCEPT !.players[r].lossy = @ \union Lossy(S, K, target)]
  IN IF S.stream.stopped THEN S
     ELSE IF K.cache # <<>>
     THEN IF \E i \in DOMAIN K.cache : K.cache[i] >= target
          THEN [L EXCEPT !.players[r] = ReceiveCached(@, K.cache, target, S.stream.pcm)]
          ELSE AwaitLive(L, r)
     ELSE IF K.phase # "none"
     THEN [L EXCEPT !.keys[k].waiting = {w \in @ : w[1] # r} \union {<<r, Target>>}]
     ELSE IF ~Shared(S, k, r) /\ ChunksAfter(S, target) # {}
     THEN CatchUp(S, k, r, target)
     ELSE AwaitLive(L, r)

Underway == {i \in DOMAIN ops : ops[i].stage # "none"}

\* on_role_join: deferred while a commit or a flush is in progress.
RoleJoin(S, r) ==
  IF Underway # {} THEN [S EXCEPT !.players[r].pending = TRUE]
  ELSE DoRoleJoin(S, r)

\* Mutant: the player leaves, the catch-up for nobody goes on.
WithdrawnLate(S, r) ==
  [S EXCEPT !.keys = [k \in Keys |->
     [S.keys[k] EXCEPT !.waiting = {w \in @ : w[1] # r}]]]

\* Take the player out of the catch-ups it waits for; one that nobody waits
\* for any longer is cancelled.
Withdrawn(S, r) ==
  LET waits(k) == \E w \in S.keys[k].waiting : w[1] = r
      others(k) == {w \in S.keys[k].waiting : w[1] # r}
      over == {k \in Keys : waits(k) /\ others(k) = {}}
  IN [S EXCEPT !.unwound = @ \union {k \in over : S.keys[k].owned},
               !.keys = [k \in Keys |->
                  IF k \in over
                  THEN [S.keys[k] EXCEPT !.phase = "none", !.waiting = {},
                          !.owned = FALSE,
                          !.task = IF S.keys[k].owned THEN NoTask ELSE @]
                  ELSE [S.keys[k] EXCEPT !.waiting = others(k)]]]

\* What a format keeps goes with its only player.
Dropped(S, k, r) ==
  IF Shared(S, k, r) THEN S
  ELSE [S EXCEPT !.keys[k] = [Fresh(@) EXCEPT !.cache = <<>>]]

\* on_role_leave
RoleLeave(S, r) ==
  Withdrawn(Dropped([S EXCEPT !.players[r] =
    [@ EXCEPT !.started = FALSE, !.pending = FALSE, !.resume = 0]],
    S.players[r].format, r), r)

\* on_role_format_changed, resuming where the last format was sent to.
FormatChange(S, r, k) ==
  LET left == Withdrawn(Dropped(S, S.players[r].format, r), r)
  IN RoleJoin([left EXCEPT !.players[r].format = k,
                           !.players[r].resume = S.players[r].sent], r)

-------------------------------------------------------------------------------
(* Catch-up tasks. *)

\* Mutant: the tail is left to flush_audio.
HandoffNoTail(S, k) ==
  LET K == S.keys[k]
      low(w) == IF S.players[w[1]].resume # 0 THEN S.players[w[1]].resume
                ELSE IF w[2] = 0 THEN K.task.target ELSE w[2]
  IN [S EXCEPT !.keys[k] = [@ EXCEPT !.phase = "live", !.owned = FALSE, !.task = NoTask],
               !.players = [r \in Roles |->
                  IF \E w \in K.waiting : w[1] = r
                  THEN ReceiveCached(S.players[r], K.cache,
                         low(CHOOSE w \in K.waiting : w[1] = r), S.stream.pcm)
                  ELSE S.players[r]]]

\* The end of a catch-up, in one step with the last look at the PCM cache: its
\* players are sent what is cached and the format goes live.
Handoff(S, k) ==
  LET K == S.keys[k]
      tail == IF S.stream.flush = "done" /\ K.held # 0 THEN <<K.held>> ELSE <<>>
      cached == K.cache \o tail
      low(w) == IF S.players[w[1]].resume # 0 THEN S.players[w[1]].resume
                ELSE IF w[2] = 0 THEN K.task.target ELSE w[2]
  IN [S EXCEPT !.keys[k] = [@ EXCEPT !.phase = "live", !.cache = cached,
                              !.held = IF tail = <<>> THEN K.held ELSE 0,
                              !.owned = FALSE, !.task = NoTask],
               !.players = [r \in Roles |->
                  IF \E w \in K.waiting : w[1] = r
                  THEN ReceiveCached(S.players[r], cached,
                         low(CHOOSE w \in K.waiting : w[1] = r), S.stream.pcm)
                  ELSE S.players[r]]]

\* Between batches: take on what was committed meanwhile, wait for more while
\* short of the target, or hand over.
NextBatch(S, k) ==
  LET task == S.keys[k].task
      new == ChunksAfter(S, task.src)
  IN IF new # {}
     THEN [S EXCEPT !.keys[k].task = [@ EXCEPT !.todo = new, !.src = Max(new) + 1,
                                               !.waiting = FALSE]]
     ELSE IF task.enc < task.target /\ ~task.drain
     THEN [S EXCEPT !.keys[k].task.waiting = TRUE]
     ELSE Handoff(S, k)

\* The batch is cached when its last chunk is encoded.
BatchCached(S, k) ==
  LET K == S.keys[k]
      got == K.task.got
  IN NextBatch([S EXCEPT !.keys[k] =
       [K EXCEPT !.cache = @ \o got, !.task.got = <<>>,
                 !.task.enc = IF got = <<>> THEN @ ELSE Last(got) + 1]], k)

\* A cancelled task unwinds, whatever its format is used for by now.
CleanedUp(S, k) ==
  [S EXCEPT !.unwound = @ \ {k},
            !.keys[k] = IF @.phase = "live" THEN [@ EXCEPT !.owned = FALSE]
                        ELSE [Fresh(@) EXCEPT !.phase = "none", !.waiting = {},
                                !.cache = <<>>, !.owned = FALSE,
                                !.spoiled = S.keys[k].spoiled \/ S.keys[k].owned]]

-------------------------------------------------------------------------------
(* Commits and flushes. *)

NoOp == [stage |-> "none", kind |-> "commit", ts |-> 0, live |-> TRUE,
         group |-> {}, todo |-> {}, frames |-> [k \in Keys |-> <<>>]]

\* _release_deferred_joins, once nothing is in progress.
JoinsReleased(S) ==
  LET pending == {r \in Roles : S.players[r].pending}
      order == SetToSeq(pending)
      after[n \in 0 .. Len(order)] ==
        IF n = 0 THEN S ELSE DoRoleJoin(after[n - 1], order[n])
  IN  after[Len(order)]

Ends(i, S) ==
  /\ ops' = [ops EXCEPT ![i] = NoOp]
  /\ queue' = IF queue # <<>> /\ Head(queue) = i THEN Tail(queue) ELSE queue
  /\ Becomes(IF Underway \subseteq {i} THEN JoinsReleased(S) ELSE S)

Continues(i, op, S) ==
  /\ ops' = [ops EXCEPT ![i] = op]
  /\ queue' = IF \E j \in DOMAIN queue : queue[j] = i THEN queue ELSE Append(queue, i)
  /\ Becomes(S)

\* How many chunks at the front of a cache are over.
Expired(cache) ==
  CHOOSE n \in 0 .. Len(cache) :
    /\ \A i \in 1 .. n : cache[i] + 1 <= now
    /\ n = Len(cache) \/ cache[n + 1] + 1 > now

\* _prune_role_chunk_cache
Pruned(S) ==
  [S EXCEPT !.stream.pcm = {m \in @ : m + 1 > now},
            !.keys = [k \in Keys |-> [S.keys[k] EXCEPT !.cache =
                        SubSeq(@, Expired(@) + 1, Len(@))]]]

\* With the lock held: the players to encode for, and their formats by now.
Acquired(i, op, S) ==
  LET all == {<<r, S.players[r].format>> : r \in Active(S) \union Reattached(S)}
      flushed == {g \in all : S.keys[g[2]].phase # "catching"}
  IN IF ~op.live THEN Ends(i, S)
     ELSE IF op.kind = "commit"
     THEN IF all = {} THEN Ends(i, Pruned(S))
          ELSE Continues(i, [op EXCEPT !.stage = "resample", !.group = all], S)
     ELSE LET T == [S EXCEPT !.stream.flush = "done"]
          IN IF flushed = {} THEN Ends(i, T)
             ELSE Continues(i, [op EXCEPT !.stage = "encode", !.group = flushed,
                                          !.todo = {g[2] : g \in flushed}], T)

Locks(i, op, S) ==
  IF queue = <<>> THEN Acquired(i, op, S)
  ELSE Continues(i, [op EXCEPT !.stage = "wait"], S)

\* Mutant: no send-ahead floor.
PlacedAtNow(i, S) ==
  LET ts == IF S.stream.tail > now THEN S.stream.tail ELSE now
      T == [S EXCEPT !.stream.tail = ts + 1, !.stream.pcm = @ \union {ts}]
      op == [ops[i] EXCEPT !.kind = "commit", !.ts = ts]
  IN Locks(i, op, T)

\* The chunk is placed on the timeline and its PCM cached. A catch-up gets to
\* run before the commit goes on.
Placed(i, S) ==
  LET ts == IF S.stream.tail > now + Lead THEN S.stream.tail ELSE now + Lead
      T == [S EXCEPT !.stream.tail = ts + 1, !.stream.pcm = @ \union {ts}]
      op == [ops[i] EXCEPT !.kind = "commit", !.ts = ts]
  IN IF \E k \in Keys : S.keys[k].owned
     THEN /\ ops' = [ops EXCEPT ![i] = [op EXCEPT !.stage = "yield"]]
          /\ UNCHANGED queue
          /\ Becomes(T)
     ELSE Locks(i, op, T)

\* _cache_and_deliver: to the players still in the pipeline, and to the cache
\* unless only players that dropped out of it wanted the format.
CachedAndDelivered(S, op) ==
  LET active == Active(S)
      joining == {S.players[r].format : r \in Reattached(S)
                    \union {q \in Roles : S.players[q].pending}}
      wanted == {k \in Keys : k \in joining \/ \E r \in active : <<r, k>> \in op.group}
      sends(r, k) == r \in active /\ <<r, k>> \in op.group /\ op.frames[k] # <<>>
      stale == IF op.live THEN {} ELSE {"stale"}
  IN [S EXCEPT !.players = [r \in Roles |->
                  IF \E k \in Keys : sends(r, k)
                  THEN [ReceiveLive(S.players[r], op.frames[CHOOSE k \in Keys : sends(r, k)],
                                    S.stream.pcm)
                          EXCEPT !.faults = @ \union stale]
                  ELSE S.players[r]],
               !.keys = [k \in Keys |-> [S.keys[k] EXCEPT !.cache =
                           IF k \in wanted THEN @ \o op.frames[k] ELSE @]]]

-------------------------------------------------------------------------------
(* The actions. *)

\* What follows a known fault of a format is not explored.
Explored == \A k \in Keys : ~keys[k].spoiled

\* No cancelled task is about to unwind: until it does, only what runs in the
\* same turn of the loop comes first.
Turned == unwound = {} /\ Explored

Tick ==
  /\ Turned
  /\ now < MaxTime
  /\ now' = now + 1
  /\ UNCHANGED <<stream, keys, players, ops, queue, unwound, changes>>

\* commit_audio; the first one of a timeline loads the codecs first. One that
\* yielded goes on in the next turn of the loop, before another begins.
Commit(i) ==
  /\ Turned
  /\ ops[i].stage = "none"
  /\ \A j \in Underway : ops[j].stage # "yield"
  /\ ~stream.stopped
  /\ stream.flush = "no"
  /\ stream.tail < MaxTail /\ now + Lead < MaxTail
  /\ IF stream.tail = 0
     THEN /\ ops' = [ops EXCEPT ![i].stage = "load"]
          /\ UNCHANGED <<stream, keys, players, queue, unwound>>
     ELSE Placed(i, State)
  /\ UNCHANGED <<now, changes>>

Loaded(i) ==
  /\ Turned
  /\ ops[i].stage = "load"
  /\ IF ops[i].live THEN Placed(i, State) ELSE Ends(i, State)
  /\ UNCHANGED <<now, changes>>

Yielded(i) ==
  /\ Turned
  /\ ops[i].stage = "yield"
  /\ Locks(i, ops[i], State)
  /\ UNCHANGED <<now, changes>>

\* flush_audio, after the last commit.
Flush(i) ==
  /\ Turned
  /\ Underway = {}
  /\ ~stream.stopped
  /\ stream.flush = "no"
  /\ stream.tail # 0
  /\ Locks(i, [NoOp EXCEPT !.kind = "flush"],
           [State EXCEPT !.stream.flush = "asked"])
  /\ UNCHANGED <<now, changes>>

Granted(i) ==
  /\ Turned
  /\ ops[i].stage = "wait"
  /\ Head(queue) = i
  /\ Acquired(i, ops[i], State)
  /\ UNCHANGED <<now, changes>>

\* Resampling is over: pick the formats that want the chunk. Formats being
\* caught up, and those whose encoder has had it, do not.
Resampled(i) ==
  /\ Turned
  /\ ops[i].stage = "resample"
  /\ LET op == ops[i]
         todo == {g[2] : g \in {h \in op.group : keys[h[2]].phase # "catching"
                                                 /\ keys[h[2]].last <= op.ts}}
     IN IF ~op.live THEN Ends(i, State)
        ELSE IF todo = {} THEN Ends(i, Pruned(State))
        ELSE Continues(i, [op EXCEPT !.stage = "encode", !.todo = todo], State)
  /\ UNCHANGED <<now, changes>>

\* _encode_transforms and _flush_pipelines, on a worker thread.
EncodedOffLoop(i) ==
  /\ Turned
  /\ ops[i].stage = "encode"
  /\ LET op == ops[i]
         runs(k) == op.live /\ k \in op.todo
         out(k) == IF op.kind = "commit" THEN Emitted(k, keys[k], op.ts)
                   ELSE IF keys[k].held # 0 THEN <<keys[k].held>> ELSE <<>>
         now_(k) == IF op.kind = "commit" THEN Encoded(k, keys[k], op.ts)
                    ELSE [keys[k] EXCEPT !.held = 0]
     IN /\ ops' = [ops EXCEPT ![i].stage = "deliver", ![i].frames =
                      [k \in Keys |-> IF runs(k) THEN out(k) ELSE <<>>]]
        /\ keys' = [k \in Keys |-> IF runs(k) THEN now_(k) ELSE keys[k]]
  /\ UNCHANGED <<now, stream, players, queue, unwound, changes>>

Delivered(i) ==
  /\ Turned
  /\ ops[i].stage = "deliver"
  /\ IF ops[i].live
     THEN Ends(i, Pruned(CachedAndDelivered(State, ops[i])))
     ELSE Ends(i, State)
  /\ UNCHANGED <<now, changes>>

\* One chunk of a catch-up, which yields before each.
CatchupEncodes(k) ==
  /\ Turned
  /\ keys[k].task.todo # {}
  /\ LET K == keys[k]
         ts == Min(K.task.todo)
         S == [State EXCEPT !.keys[k] =
                 [Encoded(k, K, ts) EXCEPT !.task.got = @ \o Emitted(k, K, ts),
                                           !.task.todo = @ \ {ts}]]
     IN Becomes(IF K.task.todo = {ts} THEN BatchCached(S, k) ELSE S)
  /\ UNCHANGED <<now, ops, queue, changes>>

\* New PCM, or half a second without any, ends the wait of a catch-up.
CatchupWakes(k) ==
  /\ Turned
  /\ keys[k].task.waiting
  /\ \/ /\ ChunksAfter(State, keys[k].task.src) # {}
        /\ Becomes(NextBatch(State, k))
     \/ Becomes(NextBatch([State EXCEPT !.keys[k].task.drain = TRUE], k))
  /\ UNCHANGED <<now, ops, queue, changes>>

CatchupUnwinds(k) ==
  /\ Explored
  /\ k \in unwound
  /\ Becomes(CleanedUp(State, k))
  /\ UNCHANGED <<now, ops, queue, changes>>

\* Membership and formats.
Changes(S) ==
  /\ Explored
  /\ changes < MaxChanges
  /\ changes' = changes + 1
  /\ Becomes(S)
  /\ UNCHANGED <<now, ops, queue>>

Joins(r) ==
  /\ players[r].member = "out"
  /\ \E k \in Keys :
       Changes(RoleJoin([State EXCEPT !.players[r] =
         [NoPlayer(k) EXCEPT !.member = "in", !.faults = players[r].faults,
                             !.lossy = players[r].lossy]], r))

Leaves(r) ==
  /\ players[r].member # "out"
  /\ Changes(LET S == RoleLeave(State, r)
             IN [S EXCEPT !.players[r] = [@ EXCEPT !.member = "out", !.open = FALSE,
                                                   !.sent = 0]])

ChangesFormat(r) ==
  /\ players[r].member = "in"
  /\ ~stream.stopped
  /\ \E k \in Keys \ {players[r].format} : Changes(FormatChange(State, r, k))

\* The connection is lost with the roles kept warm, regained, and its
\* client/state received.
LosesConnection(r) ==
  /\ players[r].member = "in"
  /\ Changes([State EXCEPT !.players[r] = [@ EXCEPT !.member = "warm", !.open = FALSE,
                                                     !.sent = 0]])

Reconnects(r) ==
  /\ players[r].member = "warm"
  /\ Changes([State EXCEPT !.players[r].member = "back"])

SendsState(r) ==
  /\ players[r].member = "back"
  /\ Changes(LET K == keys[players[r].format]
                 awaited == K.phase = "catching" /\ \E w \in K.waiting : w[1] = r
                 S == [State EXCEPT !.players[r] = [@ EXCEPT !.member = "in",
                         !.lossy = players[r].lossy
                                     \union IF awaited THEN {"filling"} ELSE {}]]
             IN IF stream.stopped THEN S ELSE RoleJoin(S, r))

\* What clear and stop have in common: in-flight work is void, nobody waits.
Voided ==
  ops' = [i \in DOMAIN ops |-> [ops[i] EXCEPT !.live = ops[i].stage = "none"]]

Cancelled(S) ==
  LET used(k) == \E r \in Roles : InPipeline(S, r) /\ S.players[r].format = k
  IN
  [S EXCEPT !.unwound = @ \union {k \in Keys : S.keys[k].owned},
            !.keys = [k \in Keys |-> [S.keys[k] EXCEPT
                        !.phase = "none", !.waiting = {}, !.last = 0,
                        !.held = IF used(k) THEN 0 ELSE @,
                        !.spoiled = @ \/ (~used(k) /\ S.keys[k].held # 0),
                        !.task = IF S.keys[k].owned THEN NoTask ELSE @,
                        !.owned = FALSE]],
            !.players = [r \in Roles |-> [S.players[r] EXCEPT
                           !.pending = FALSE, !.started = FALSE, !.resume = 0,
                           !.sent = IF S.players[r].member = "in" THEN 0 ELSE @]]]

Clear ==
  /\ Turned
  /\ ~stream.stopped
  /\ changes < MaxChanges
  /\ changes' = changes + 1
  /\ Voided
  /\ LET S == [Cancelled(State) EXCEPT
                 !.stream = [@ EXCEPT !.flush = "no", !.tail = 0, !.pcm = {}]]
     IN Becomes([S EXCEPT !.keys = [k \in Keys |-> [S.keys[k] EXCEPT !.cache = <<>>]]])
  /\ UNCHANGED <<now, queue>>

Stop ==
  /\ Turned
  /\ ~stream.stopped
  /\ Voided
  /\ LET S == [Cancelled(State) EXCEPT !.stream = [@ EXCEPT !.stopped = TRUE, !.pcm = {}]]
     IN Becomes([S EXCEPT !.players = [r \in Roles |-> [S.players[r] EXCEPT
                   !.open = @ /\ S.players[r].member # "in"]]])
  /\ UNCHANGED <<now, queue, changes>>

-------------------------------------------------------------------------------
(* The system. *)

Init ==
  /\ now = 0
  /\ stream = [stopped |-> FALSE, flush |-> "no", tail |-> 0, pcm |-> {}]
  /\ keys = [k \in Keys |-> NoKey]
  /\ players = [r \in Roles |-> NoPlayer(CHOOSE k \in Keys : TRUE)]
  /\ ops = [i \in 1 .. Commits |-> NoOp]
  /\ queue = <<>>
  /\ unwound = {}
  /\ changes = 0

Runs ==
  \/ \E i \in DOMAIN ops :
       Loaded(i) \/ Yielded(i) \/ Granted(i) \/ Resampled(i) \/ EncodedOffLoop(i) \/ Delivered(i)
  \/ \E k \in Keys : CatchupEncodes(k) \/ CatchupWakes(k) \/ CatchupUnwinds(k)

Calls ==
  \/ Tick \/ Clear \/ Stop
  \/ \E i \in DOMAIN ops : Commit(i) \/ Flush(i)
  \/ \E r \in Roles :
       \/ Joins(r) \/ Leaves(r) \/ ChangesFormat(r)
       \/ LosesConnection(r) \/ Reconnects(r) \/ SendsState(r)

Next == Runs \/ Calls

Spec == Init /\ [][Next]_vars

-------------------------------------------------------------------------------
(* Properties. *)

Stages == {"none", "load", "yield", "wait", "resample", "encode", "deliver"}
Faults == {"repeated", "hole", "stale", "stray"}
End == (IF MaxTail > MaxTime + Lead THEN MaxTail ELSE MaxTime + Lead) + Commits

TypeOK ==
  /\ now \in 0 .. MaxTime
  /\ stream.flush \in {"no", "asked", "done"}
  /\ stream.tail \in 0 .. End
  /\ stream.pcm \subseteq 1 .. End
  /\ \A k \in Keys :
       /\ keys[k].phase \in {"none", "catching", "live"}
       /\ keys[k].waiting \subseteq Roles \X (0 .. MaxTime + Lead)
       /\ keys[k].held \in 0 .. End
       /\ keys[k].last \in 0 .. End
  /\ \A r \in Roles :
       /\ players[r].member \in {"out", "in", "warm", "back"}
       /\ players[r].format \in Keys
       /\ players[r].sent \in 0 .. End
       /\ players[r].faults \subseteq Faults
  /\ \A i \in DOMAIN ops : ops[i].stage \in Stages

\* A player is sent nothing of a discarded stretch and nothing after it left, and
\* its audio once and in order, whatever joins, format changes, reconnects and
\* clears happen while commits are in progress. What comes after a join known to
\* lose audio is excepted (see Lossy and Contiguous).
Plain(r) == players[r].lossy = {}

SentOnce ==
  \A r \in Roles :
    /\ players[r].faults \subseteq {"repeated", "hole"}
    /\ Plain(r) => "repeated" \notin players[r].faults

\* Known to fail: a player that joins while a catch-up of its format has cached
\* its first batch and encodes the next is not sent what is still to come.
Contiguous == \A r \in Roles : "hole" \notin players[r].faults

\* What a player is sent skips no chunk that could still be played.
NoHoles == \A r \in Roles : Plain(r) => "hole" \notin players[r].faults

AtRest == Turned /\ Underway = {} /\ \A k \in Keys : ~keys[k].task.running

\* No audio is dropped in silence because the stream takes for started a role
\* that was not told of it (a join still deferred will start it).
StartedTold ==
  \A r \in Roles :
    players[r].started /\ players[r].member = "in" /\ ~players[r].pending => players[r].open

\* Nothing is skipped, no audio is dropped in silence, and at rest nothing is owed:
\* no join is still deferred, and a player that was sent audio has everything that
\* was committed since, but for what its encoder holds back, and that only until
\* the stream is flushed.
NothingOwed ==
  /\ NoHoles
  /\ AtRest /\ ~stream.stopped =>
       \A r \in Roles :
         /\ ~players[r].pending
         /\ players[r].member = "in" /\ players[r].sent > 0 /\ Plain(r) =>
              \A m \in stream.pcm : m >= players[r].sent /\ m > now =>
                stream.flush # "done" /\ keys[players[r].format].held = m
  /\ StartedTold

\* Nothing waits for what never comes, however it is cleared and stopped: the
\* lock is held by, and passed to, an operation in progress; one is in progress
\* while a join is deferred; live delivery of a format is suspended only for a
\* catch-up that runs, can be cancelled and has someone to catch up for; and it
\* has a chunk to encode, or a wait that new PCM or the time-out ends.
NeverStuck ==
  /\ \A i \in DOMAIN queue : ops[queue[i]].stage \in {"wait", "resample", "encode", "deliver"}
  /\ \A i \in Underway : ops[i].stage = "wait" => \E j \in DOMAIN queue : queue[j] = i
  /\ \A r \in Roles : players[r].pending => Underway # {}
  /\ \A k \in Keys : keys[k].phase = "catching" =>
       /\ keys[k].owned
       /\ keys[k].task.running
       /\ keys[k].waiting # {}
       /\ keys[k].task.todo # {} \/ keys[k].task.waiting
===============================================================================
