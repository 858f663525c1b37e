----------------------------- MODULE SourceBridge -----------------------------
(***************************************************************************)
(* The bridge between captured audio and a consumer that pulls at a steady *)
(* rate (audio/source_bridge.py, SourceBridge): silence for what the       *)
(* capture missed, a reset when its clock jumps, oldest audio dropped over *)
(* the limit, and once per window a correction towards the target. Audio   *)
(* is counted in units of time; the rounding between microseconds, frames  *)
(* and bytes is left out, and so is the bridge that resamples instead of   *)
(* dropping and inserting (AsrcSourceBridge).                              *)
(***************************************************************************)
EXTENDS Integers, FiniteSets, FiniteSetsExt

CONSTANTS
  TargetUs, MaxUs,          \* target_latency_ms, max_latency_ms
  GapUs, WatermarkUs,       \* _GAP_THRESHOLD_US, _WATERMARK_US
  WindowUs,                 \* _CORRECTION_WINDOW_US
  EpsilonUs, ConvergenceWindows, \* _CONVERGENCE_EPSILON_US, _CONVERGENCE_WINDOWS
  SkewShare,                \* 1 / _MAX_RATIO_ADJUST
  MaxHeld,                  \* what the resampler holds back at most
  Pieces, Pulls,            \* lengths of captured pieces and of the consumer's pulls
  LateBy, EarlyBy, MaxFeeds     \* bounds: what timestamps are off by, either way, and feeds

BridgeAssumption ==
  /\ {TargetUs, MaxUs, GapUs, WatermarkUs, WindowUs, EpsilonUs, MaxHeld, MaxFeeds} \subseteq Nat
  /\ {ConvergenceWindows, SkewShare} \subseteq Nat \ {0}
  /\ TargetUs < MaxUs /\ EpsilonUs <= WatermarkUs
  /\ Pieces \cup Pulls \subseteq Nat \ {0} /\ LateBy \cup EarlyBy \subseteq Nat

VARIABLES
  bridge,     \* the bridge
  ended,      \* flush() has been called
  feeds       \* how many pieces were fed, and where the last ended on the source's clock

bridgeVars == <<bridge, ended, feeds>>

Unset == -1

(* buffer: what is buffered; held: what the resampler holds back; position: where *)
(* the anchor and the samples since put the source's clock; low and high: the     *)
(* extremes of the occupancy in this window.                                      *)
NewBridge ==
  [buffer |-> 0, held |-> 0, primed |-> FALSE, anchored |-> FALSE, position |-> 0,
   skew |-> 0, surplus |-> 0, fed |-> 0, low |-> Unset, high |-> Unset]

AbsOf(x) == IF x < 0 THEN -x ELSE x

(* The source's clock against the samples, its slow skew taken out.              *)
Offset(b, ts) == ts - b.position - b.skew

(* Mutant: a gap is filled but not counted, and filled again by the next piece.  *)
FillUncounted(b, ts, length) ==
  LET offset == Offset(b, ts)
      step   == length \div SkewShare
  IN  IF AbsOf(offset) > MaxUs THEN NewBridge
      ELSE IF offset > GapUs THEN [b EXCEPT !.buffer = @ + offset]
      ELSE [b EXCEPT !.skew = @ + Max({-step, Min({step, offset})})]

(* _track_timestamp: a jump resets the bridge, a gap is filled with silence, and *)
(* anything less moves the skew by as much as clocks plausibly differ.           *)
TrackTimestamp(b, ts, length) ==
  LET offset == Offset(b, ts)
      step   == length \div SkewShare
  IN  IF AbsOf(offset) > MaxUs THEN NewBridge
      ELSE IF offset > GapUs THEN [b EXCEPT !.buffer = @ + offset, !.position = @ + offset]
      ELSE [b EXCEPT !.skew = @ + Max({-step, Min({step, offset})})]

Anchor(b, ts) == IF b.anchored THEN b ELSE [b EXCEPT !.anchored = TRUE, !.position = ts]

(* Mutant: the limit counts what was buffered before the piece.                  *)
LimitLate(b, more) == [b EXCEPT !.buffer = Min({@, MaxUs}) + more]

(* The piece as the resampler gives it out, and the oldest audio over the limit. *)
Limit(b, more) == [b EXCEPT !.buffer = Min({@ + more, MaxUs})]

SampleOccupancy(b) ==
  [b EXCEPT !.low = IF @ = Unset THEN b.buffer ELSE Min({@, b.buffer}),
            !.high = IF @ = Unset THEN b.buffer ELSE Max({@, b.buffer})]

(* Mutant: the surplus is taken from the highest the window has seen.            *)
CorrectByHighest(b) ==
  IF b.high - TargetUs > WatermarkUs
  THEN [b EXCEPT !.buffer = Max({0, @ - (b.high - TargetUs)}), !.surplus = 0] ELSE b

(* _apply_window_correction: a large surplus or deficit at once, a small surplus *)
(* when it persists.                                                             *)
ApplyWindowCorrection(b) ==
  LET surplus == b.low - TargetUs
      deficit == TargetUs - b.high
      drop    == [b EXCEPT !.buffer = @ - surplus, !.surplus = 0]
  IN  IF surplus > WatermarkUs THEN drop
      ELSE IF b.primed /\ deficit > WatermarkUs THEN [b EXCEPT !.buffer = @ + deficit, !.surplus = 0]
      ELSE IF surplus <= EpsilonUs THEN [b EXCEPT !.surplus = 0]
      ELSE IF b.surplus + 1 >= ConvergenceWindows THEN drop
      ELSE [b EXCEPT !.surplus = @ + 1]

EndWindow(b, length) ==
  IF b.fed + length < WindowUs THEN [b EXCEPT !.fed = @ + length]
  ELSE [ApplyWindowCorrection(b) EXCEPT !.fed = 0, !.low = Unset, !.high = Unset]

(* feed(), with the samples the resampler gives out for it.                      *)
FeedBridge(b, ts, length, given) ==
  LET tracked == IF b.anchored THEN TrackTimestamp(b, ts, length) ELSE b
      placed  == [Anchor(tracked, ts) EXCEPT !.position = @ + length,
                                             !.held = @ + length - given]
  IN  EndWindow(SampleOccupancy(Limit(placed, given)), length)

(* read(): silence until the target is buffered; what is over it then is dropped. *)
ReadBridge(b, frames) ==
  LET filled == IF b.primed THEN b.buffer ELSE TargetUs
  IN  IF ~b.primed /\ b.buffer < TargetUs THEN b
      ELSE SampleOccupancy([b EXCEPT !.primed = TRUE, !.buffer = filled - Min({frames, filled})])

-------------------------------------------------------------------------------
Init == bridge = NewBridge /\ ended = FALSE /\ feeds = [count |-> 0, end |-> 0]

(* The piece is on time, or late or early by one of the jumps.                   *)
Feed ==
  /\ ~ended /\ feeds.count < MaxFeeds
  /\ \E length \in Pieces, jump \in {0} \cup LateBy \cup {-e : e \in EarlyBy} :
       LET ts   == feeds.end + jump
           held == IF bridge.anchored /\ AbsOf(Offset(bridge, ts)) > MaxUs THEN 0 ELSE bridge.held
       IN  \E given \in {g \in 0 .. held + length : held + length - g <= MaxHeld} :
             /\ bridge' = FeedBridge(bridge, ts, length, given)
             /\ feeds' = [count |-> feeds.count + 1, end |-> ts + length]
  /\ UNCHANGED ended

Read == \E frames \in Pulls : bridge' = ReadBridge(bridge, frames) /\ UNCHANGED <<ended, feeds>>

(* flush(), once after the last piece: the resampler's tail.                     *)
Flush ==
  /\ ~ended /\ ended' = TRUE
  /\ bridge' = [Limit(bridge, bridge.held) EXCEPT !.held = 0]
  /\ UNCHANGED feeds

Next == Feed \/ Read \/ Flush

Spec == Init /\ [][Next]_bridgeVars

-------------------------------------------------------------------------------
(* Types.                                                                        *)
TypeOK ==
  /\ {bridge.buffer, bridge.held, bridge.surplus, bridge.fed} \subseteq Nat
  /\ {bridge.primed, bridge.anchored, ended} \subseteq BOOLEAN
  /\ {bridge.position, bridge.skew, feeds.end} \subseteq Int
  /\ {bridge.low, bridge.high} \subseteq Nat \cup {Unset}

(* Never is more buffered than the limit, gaps, insertions and tail included.    *)
LatencyBounded == bridge.buffer <= MaxUs

(* The samples never lag the source's clock by more than a gap: what the capture *)
(* missed is in the buffer as silence, once.                                     *)
NoLag ==
  bridge.anchored =>
    /\ Offset(bridge, feeds.end) <= GapUs
    /\ -Offset(bridge, feeds.end) <= MaxUs

(* No correction makes the consumer run dry: what a feed drops leaves the target *)
(* in the buffer, unless the source's clock jumped and the bridge starts over.   *)
DropsLeaveTarget ==
  bridge'.buffer < bridge.buffer /\ feeds' # feeds
    => bridge'.buffer >= TargetUs \/ ~bridge'.primed

(* Playback starts with the target in the buffer, less the first pull.           *)
StartsAtTarget ==
  bridge'.primed /\ ~bridge.primed
    => \E frames \in Pulls : bridge'.buffer = TargetUs - Min({frames, TargetUs})

SteadySupply == [][DropsLeaveTarget /\ StartsAtTarget]_bridgeVars
===============================================================================
