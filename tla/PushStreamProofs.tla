--------------------------- MODULE PushStreamProofs ---------------------------
(***************************************************************************)
(* For any players, formats, lead and bounds: the types of a stream, that  *)
(* nothing in it waits for what never comes, that no player it takes for   *)
(* started was not told, and that players are sent their audio once and in *)
(* order.                                                                  *)
(*                                                                         *)
(* The provers cannot instantiate the induction theorems of the library,   *)
(* which take the predicate as a parameter; induction over data rests on   *)
(* SetInduction instead, which takes the set of those for which it holds.  *)
(***************************************************************************)
EXTENDS PushStream, FiniteSetTheorems, SequenceTheorems, TLAPS

-----------------------------------------------------------------------------
(* Induction, least and greatest elements.                                     *)

(* What holds of 0, and of n + 1 when of n, holds of every natural number:       *)
(* else subtracting 1 maps those up to x for which it fails into themselves      *)
(* without x, and they are finitely many.                                      *)
LEMMA SetInduction ==
  ASSUME NEW S, 0 \in S, \A n \in Nat : n \in S => n + 1 \in S
  PROVE  \A n \in Nat : n \in S
<1>1. SUFFICES ASSUME NEW x \in Nat, x \notin S PROVE FALSE
  OBVIOUS
<1> DEFINE D == {n \in 0 .. x : n \notin S}
           E == D \ {x}
           f == [n \in D |-> n - 1]
<1>2. IsFiniteSet(D)
  <2>1. IsFiniteSet(0 .. x) BY FS_Interval
  <2> QED BY <2>1, FS_Subset
<1>3. \A n \in D : n \in Nat \ {0} /\ n - 1 \in E
  <2>1. TAKE n \in D
  <2>2. n \in Nat \ {0} OBVIOUS
  <2>3. n - 1 \in Nat /\ n - 1 + 1 = n BY <2>2
  <2> QED BY <2>2, <2>3
<1>4. Cardinality(D) <= Cardinality(E)
  <2>1. f \in [D -> E] BY <1>3
  <2>2. \A a, b \in D : f[a] = f[b] => a = b BY <1>3
  <2>3. f \in Injection(D, E) BY <2>1, <2>2 DEF Injection, IsInjective
  <2>4. IsFiniteSet(E) BY <1>2, FS_Subset
  <2> QED BY <1>2, <2>3, <2>4, FS_Injection DEF ExistsInjection
<1>5. x \in D BY <1>1
<1>6. Cardinality(E) = Cardinality(D) - 1
  <2> HIDE DEF D
  <2>1. Cardinality(D \ {x}) = IF x \in D THEN Cardinality(D) - 1 ELSE Cardinality(D)
    BY <1>2, FS_RemoveElement
  <2> QED BY <2>1, <1>5
<1> QED BY <1>2, <1>4, <1>6, FS_CardinalityType

(* A nonempty set of bounded naturals has a least and a greatest element.       *)
LEMMA Extremes ==
  ASSUME NEW N \in Nat, NEW S \in SUBSET (0 .. N), S # {}
  PROVE  /\ \E x \in S : \A y \in S : x <= y
         /\ \E x \in S : \A y \in S : y <= x
<1>1. ASSUME NEW T \in SUBSET (0 .. N), T # {}, \A x \in T : \E y \in T : y < x
      PROVE  FALSE
  <2> DEFINE U == {n \in Nat : \A y \in T : n <= y}
  <2>1. 0 \in U OBVIOUS
  <2>2. \A n \in Nat : n \in U => n + 1 \in U
    <3> SUFFICES ASSUME NEW n \in Nat, \A y \in T : n <= y, NEW y \in T PROVE n + 1 <= y
      OBVIOUS
    <3>1. PICK z \in T : z < y BY <1>1
    <3> QED BY <3>1
  <2> HIDE DEF U
  <2>3. N + 1 \in U BY <2>1, <2>2, SetInduction
  <2>4. PICK y \in T : TRUE BY <1>1
  <2> QED BY <2>3, <2>4 DEF U
<1>2. \E x \in S : \A y \in S : x <= y
  <2> SUFFICES ASSUME \A x \in S : \E y \in S : ~(x <= y) PROVE FALSE
    OBVIOUS
  <2>1. \A x \in S : \E y \in S : y < x OBVIOUS
  <2> QED BY <1>1, <2>1
<1>3. \E x \in S : \A y \in S : y <= x
  <2> SUFFICES ASSUME \A x \in S : \E y \in S : ~(y <= x) PROVE FALSE
    OBVIOUS
  <2> DEFINE T == {N - x : x \in S}
  <2>0. PICK z \in S : TRUE OBVIOUS
  <2>1. T \in SUBSET (0 .. N) /\ N - z \in T BY <2>0
  <2>2. ASSUME NEW t \in T PROVE \E y \in T : y < t
    <3>1. PICK x \in S : t = N - x OBVIOUS
    <3>2. PICK y \in S : ~(y <= x) OBVIOUS
    <3>3. N - y \in T OBVIOUS
    <3>4. N - y < t BY <3>1, <3>2
    <3> QED BY <3>3, <3>4
  <2> HIDE DEF T
  <2> QED BY <1>1, <2>1, <2>2
<1> QED BY <1>2, <1>3

LEMMA MinMax ==
  ASSUME NEW N \in Nat, NEW S \in SUBSET (0 .. N), S # {}
  PROVE  /\ Min(S) \in S /\ \A y \in S : Min(S) <= y
         /\ Max(S) \in S /\ \A y \in S : y <= Max(S)
BY Extremes DEF Min, Max

(* The sequence that a finite set is turned into has each of its elements.     *)
LEMMA SetToSeqFacts ==
  ASSUME NEW S, IsFiniteSet(S)
  PROVE  /\ SetToSeq(S) \in Seq(S)
         /\ \A x \in S : \E n \in 1 .. Len(SetToSeq(S)) : SetToSeq(S)[n] = x
<1> DEFINE N == Cardinality(S)
<1>1. N \in Nat /\ ExistsBijection(1 .. N, S) BY FS_CardinalityType
<1>2. \E f \in [1 .. N -> S] : IsInjective(f)
  BY <1>1 DEF ExistsBijection, Bijection, Injection, IsInjective
<1>3. SetToSeq(S) \in [1 .. N -> S] /\ IsInjective(SetToSeq(S)) BY <1>2 DEF SetToSeq
<1>4. SetToSeq(S) \in Seq(S) /\ Len(SetToSeq(S)) = N BY <1>1, <1>3
<1>5. SetToSeq(S) \in Injection(1 .. N, S) BY <1>3 DEF Injection, IsInjective
<1>6. SetToSeq(S) \in Surjection(1 .. N, S)
  <2>1. IsFiniteSet(1 .. N) /\ Cardinality(1 .. N) = N BY <1>1, FS_Interval
  <2> QED BY <1>5, <2>1, FS_Injection
<1>7. \A x \in S : \E n \in 1 .. N : SetToSeq(S)[n] = x BY <1>6 DEF Surjection
<1> QED BY <1>4, <1>7

(* What is in a sequence, one appended to and one without its head.              *)
LEMMA Elements ==
  ASSUME NEW S, NEW q \in Seq(S)
  PROVE  Len(q) \in Nat /\ \A n \in 1 .. Len(q) : q[n] \in S
OBVIOUS

LEMMA Appended ==
  ASSUME NEW S, NEW q \in Seq(S), NEW x \in S
  PROVE  /\ Append(q, x) \in Seq(S) /\ Len(Append(q, x)) = Len(q) + 1
         /\ Append(q, x)[Len(q) + 1] = x
         /\ \A n \in 1 .. Len(q) : Append(q, x)[n] = q[n]
OBVIOUS

LEMMA Tailed ==
  ASSUME NEW S, NEW q \in Seq(S), q # <<>>
  PROVE  /\ Len(q) \in Nat \ {0} /\ Head(q) = q[1]
         /\ Tail(q) \in Seq(S) /\ Len(Tail(q)) = Len(q) - 1
         /\ \A n \in 1 .. Len(Tail(q)) : Tail(q)[n] = q[n + 1]
OBVIOUS

-----------------------------------------------------------------------------
(* Types.                                                                      *)

Instant == 0 .. End
Label   == 0 .. End - 1   \* of what is sent
Chunk   == 1 .. End - 1   \* where chunks start

Members == {"out", "in", "warm", "back"}
Phases  == {"none", "catching", "live"}

TaskType ==
  [todo : SUBSET Chunk, got : Seq(Label), target : Instant, src : Instant, enc : Instant,
   running : BOOLEAN, waiting : BOOLEAN, drain : BOOLEAN]

KeyType ==
  [phase : Phases, waiting : SUBSET (Roles \X (0 .. MaxTime + Lead)), last : Instant,
   held : Label, cache : Seq(Label), task : TaskType, owned : BOOLEAN, spoiled : BOOLEAN]

PlayerType ==
  [member : Members, format : Keys, pending : BOOLEAN, started : BOOLEAN, open : BOOLEAN,
   sent : Instant, resume : Instant, faults : SUBSET Faults,
   lossy : SUBSET {"filling", "starved"}]

StreamType ==
  [stopped : BOOLEAN, flush : {"no", "asked", "done"}, tail : Instant, pcm : SUBSET Chunk]

OpType ==
  [stage : Stages, kind : {"commit", "flush"}, ts : Label, live : BOOLEAN,
   group : SUBSET (Roles \X Keys), todo : SUBSET Keys, frames : [Keys -> Seq(Label)]]

StateType ==
  [stream : StreamType, keys : [Keys -> KeyType], players : [Roles -> PlayerType],
   unwound : SUBSET Keys]

LEMMA EndFacts ==
  /\ Lead \in Nat /\ Lead >= 1 /\ MaxTime \in Nat /\ MaxTail \in Nat /\ Commits \in Nat
  /\ Commits >= 1 /\ End \in Nat /\ End >= 2
  /\ MaxTime + Lead <= End /\ 0 \in Label /\ 0 \in Instant /\ Chunk \subseteq Label
  /\ Label \subseteq Instant /\ Label \subseteq Nat /\ Instant \subseteq Nat
  /\ \A ts \in Label : ts + 1 \in Instant
BY PushStreamAssumption DEF PushStreamAssumption, End, Instant, Label, Chunk

LEMMA Defaults ==
  /\ NoTask \in TaskType /\ NoKey \in KeyType
  /\ \A k \in Keys : NoPlayer(k) \in PlayerType
  /\ NoOp \in OpType
<1>1. NoTask \in TaskType BY EndFacts DEF NoTask, TaskType
<1>2. NoKey \in KeyType BY <1>1, EndFacts DEF NoKey, KeyType, Phases
<1>3. \A k \in Keys : NoPlayer(k) \in PlayerType BY EndFacts DEF NoPlayer, PlayerType, Members
<1>4. NoOp \in OpType BY EndFacts DEF NoOp, OpType, Stages
<1> QED BY <1>1, <1>2, <1>3, <1>4

(* The records of a format and of a player replaced in a state.                *)
LEMMA SetKey ==
  ASSUME NEW S \in StateType, NEW k \in Keys, NEW K \in KeyType
  PROVE  /\ [S EXCEPT !.keys[k] = K] \in StateType
         /\ [S EXCEPT !.keys[k] = K].stream = S.stream
         /\ [S EXCEPT !.keys[k] = K].players = S.players
         /\ [S EXCEPT !.keys[k] = K].unwound = S.unwound
         /\ [S EXCEPT !.keys[k] = K].keys = [S.keys EXCEPT ![k] = K]
         /\ [S EXCEPT !.keys[k] = K].keys[k] = K
         /\ \A j \in Keys \ {k} : [S EXCEPT !.keys[k] = K].keys[j] = S.keys[j]
BY DEF StateType

LEMMA SetPlayer ==
  ASSUME NEW S \in StateType, NEW r \in Roles, NEW p \in PlayerType
  PROVE  /\ [S EXCEPT !.players[r] = p] \in StateType
         /\ [S EXCEPT !.players[r] = p].stream = S.stream
         /\ [S EXCEPT !.players[r] = p].keys = S.keys
         /\ [S EXCEPT !.players[r] = p].unwound = S.unwound
         /\ [S EXCEPT !.players[r] = p].players = [S.players EXCEPT ![r] = p]
         /\ [S EXCEPT !.players[r] = p].players[r] = p
         /\ \A q \in Roles \ {r} : [S EXCEPT !.players[r] = p].players[q] = S.players[q]
BY DEF StateType

-----------------------------------------------------------------------------
(* Delivery to one player.                                                     *)

(* What deliveries make of a player: q of p.                                   *)
Hears(p, q) ==
  /\ q \in PlayerType
  /\ q.member = p.member /\ q.format = p.format /\ q.pending = p.pending /\ q.lossy = p.lossy
  /\ q.resume \in {p.resume, 0}
  /\ p.started => q.started
  /\ p.open => q.open
  /\ q.started /\ q.member = "in" => q.open \/ p.started

LEMMA HearsOrder ==
  /\ \A p \in PlayerType : Hears(p, p)
  /\ \A p, q, t \in PlayerType : Hears(p, q) /\ Hears(q, t) => Hears(p, t)
<1>1. \A p \in PlayerType : Hears(p, p) BY DEF Hears
<1>2. \A p, q, t \in PlayerType : Hears(p, q) /\ Hears(q, t) => Hears(p, t) BY DEF Hears
<1> QED BY <1>1, <1>2

LEMMA StartHears ==
  ASSUME NEW p \in PlayerType
  PROVE  /\ Hears(p, Start(p)) /\ Start(p).started
         /\ Start(p).sent = p.sent /\ Start(p).resume = p.resume
         /\ Start(p).faults = p.faults
BY DEF Start, Hears, PlayerType

LEMMA ReceiveHears ==
  ASSUME NEW p \in PlayerType, NEW ts \in Label, NEW pcm
  PROVE  Hears(p, Receive(p, ts, pcm))
<1> DEFINE repeated == IF ts < p.sent THEN {"repeated"} ELSE {}
           hole == IF p.sent > 0 /\ \E m \in pcm : p.sent <= m /\ m < ts /\ m > now
                   THEN {"hole"} ELSE {}
<1>1. repeated \subseteq Faults /\ hole \subseteq Faults /\ {"stray"} \subseteq Faults BY DEF Faults
<1>2. ts + 1 \in Instant BY EndFacts
<1>3. CASE p.member = "out"
  BY <1>1, <1>3 DEF Receive, Hears, PlayerType
<1>4. CASE p.member # "out" /\ ~p.open
  BY <1>4 DEF Receive, Hears, PlayerType
<1>5. CASE p.member # "out" /\ p.open
  <2>1. Receive(p, ts, pcm)
          = [p EXCEPT !.sent = ts + 1, !.faults = @ \union repeated \union hole]
    BY <1>5 DEF Receive
  <2> HIDE DEF repeated, hole
  <2> QED BY <1>1, <1>2, <2>1 DEF Hears, PlayerType
<1> QED BY <1>3, <1>4, <1>5

LEMMA ResumeCleared ==
  ASSUME NEW p \in PlayerType PROVE Hears(p, [p EXCEPT !.resume = 0])
BY EndFacts DEF Hears, PlayerType

(* A delivery in steps: f[n] is the player after n of the chunks.              *)
LiveStep(q, ts, pcm) ==
  IF ts < q.resume THEN q ELSE Receive([q EXCEPT !.resume = 0], ts, pcm)

LiveSteps(p, frames, pcm, N, f) ==
  f = [n \in 0 .. N |-> IF n = 0 THEN Start(p) ELSE LiveStep(f[n - 1], frames[n], pcm)]

CachedStep(q, ts, low, pcm) ==
  IF ts < low \/ ts <= now THEN q ELSE Receive(Start(q), ts, pcm)

CachedSteps(p, cached, low, pcm, N, f) ==
  f = [n \in 0 .. N |-> IF n = 0 THEN p ELSE CachedStep(f[n - 1], cached[n], low, pcm)]

LEMMA LiveStepHears ==
  ASSUME NEW q \in PlayerType, NEW ts \in Label, NEW pcm
  PROVE  Hears(q, LiveStep(q, ts, pcm))
<1>1. [q EXCEPT !.resume = 0] \in PlayerType BY ResumeCleared DEF Hears
<1>2. Hears([q EXCEPT !.resume = 0], Receive([q EXCEPT !.resume = 0], ts, pcm))
  BY <1>1, ReceiveHears
<1>3. Receive([q EXCEPT !.resume = 0], ts, pcm) \in PlayerType BY <1>2 DEF Hears
<1> QED BY <1>1, <1>2, <1>3, HearsOrder, ResumeCleared DEF LiveStep

LEMMA CachedStepHears ==
  ASSUME NEW q \in PlayerType, NEW ts \in Label, NEW low, NEW pcm
  PROVE  Hears(q, CachedStep(q, ts, low, pcm))
<1>1. Start(q) \in PlayerType /\ Hears(q, Start(q)) BY StartHears DEF Hears
<1>2. Hears(Start(q), Receive(Start(q), ts, pcm)) BY <1>1, ReceiveHears
<1>3. Receive(Start(q), ts, pcm) \in PlayerType BY <1>2 DEF Hears
<1> QED BY <1>1, <1>2, <1>3, HearsOrder DEF CachedStep

LEMMA LiveExists ==
  ASSUME NEW p, NEW frames, NEW pcm
  PROVE  \A N \in Nat : \E f : LiveSteps(p, frames, pcm, N, f)
<1> DEFINE S == {N \in Nat : \E f : LiveSteps(p, frames, pcm, N, f)}
<1>1. 0 \in S
  <2> DEFINE f == [n \in 0 .. 0 |-> Start(p)]
  <2>1. LiveSteps(p, frames, pcm, 0, f) BY DEF LiveSteps
  <2> QED BY <2>1
<1>2. \A N \in Nat : N \in S => N + 1 \in S
  <2> SUFFICES ASSUME NEW N \in Nat, NEW f, LiveSteps(p, frames, pcm, N, f)
               PROVE  \E g : LiveSteps(p, frames, pcm, N + 1, g)
    OBVIOUS
  <2> DEFINE g == [n \in 0 .. N + 1 |-> IF n <= N THEN f[n] ELSE LiveStep(f[N], frames[N + 1], pcm)]
  <2>1. \A n \in 0 .. N : g[n] = f[n] OBVIOUS
  <2>2. \A n \in 0 .. N : f[n] = IF n = 0 THEN Start(p) ELSE LiveStep(f[n - 1], frames[n], pcm)
    BY Zenon DEF LiveSteps
  <2>3. ASSUME NEW n \in 0 .. N + 1
        PROVE g[n] = IF n = 0 THEN Start(p) ELSE LiveStep(g[n - 1], frames[n], pcm)
    <3>1. CASE n = 0 BY <3>1, <2>2
    <3>2. CASE n \in 1 .. N BY <3>2, <2>1, <2>2
    <3>3. CASE n = N + 1 BY <3>3, <2>1
    <3> QED BY <3>1, <3>2, <3>3
  <2> HIDE DEF g
  <2>4. g = [n \in 0 .. N + 1 |-> g[n]] BY DEF g
  <2>5. LiveSteps(p, frames, pcm, N + 1, g) BY <2>3, <2>4 DEF LiveSteps
  <2> QED BY <2>5
<1> HIDE DEF S
<1>3. \A N \in Nat : N \in S BY <1>1, <1>2, SetInduction
<1> QED BY <1>3 DEF S

LEMMA CachedExists ==
  ASSUME NEW p, NEW cached, NEW low, NEW pcm
  PROVE  \A N \in Nat : \E f : CachedSteps(p, cached, low, pcm, N, f)
<1> DEFINE S == {N \in Nat : \E f : CachedSteps(p, cached, low, pcm, N, f)}
<1>1. 0 \in S
  <2> DEFINE f == [n \in 0 .. 0 |-> p]
  <2>1. CachedSteps(p, cached, low, pcm, 0, f) BY DEF CachedSteps
  <2> QED BY <2>1
<1>2. \A N \in Nat : N \in S => N + 1 \in S
  <2> SUFFICES ASSUME NEW N \in Nat, NEW f, CachedSteps(p, cached, low, pcm, N, f)
               PROVE  \E g : CachedSteps(p, cached, low, pcm, N + 1, g)
    OBVIOUS
  <2> DEFINE g == [n \in 0 .. N + 1 |->
                     IF n <= N THEN f[n] ELSE CachedStep(f[N], cached[N + 1], low, pcm)]
  <2>1. \A n \in 0 .. N : g[n] = f[n] OBVIOUS
  <2>2. \A n \in 0 .. N : f[n] = IF n = 0 THEN p ELSE CachedStep(f[n - 1], cached[n], low, pcm)
    BY Zenon DEF CachedSteps
  <2>3. ASSUME NEW n \in 0 .. N + 1
        PROVE g[n] = IF n = 0 THEN p ELSE CachedStep(g[n - 1], cached[n], low, pcm)
    <3>1. CASE n = 0 BY <3>1, <2>2
    <3>2. CASE n \in 1 .. N BY <3>2, <2>1, <2>2
    <3>3. CASE n = N + 1 BY <3>3, <2>1
    <3> QED BY <3>1, <3>2, <3>3
  <2> HIDE DEF g
  <2>4. g = [n \in 0 .. N + 1 |-> g[n]] BY DEF g
  <2>5. CachedSteps(p, cached, low, pcm, N + 1, g) BY <2>3, <2>4 DEF CachedSteps
  <2> QED BY <2>5
<1> HIDE DEF S
<1>3. \A N \in Nat : N \in S BY <1>1, <1>2, SetInduction
<1> QED BY <1>3 DEF S

LEMMA LiveFold ==
  ASSUME NEW p, NEW frames, Len(frames) \in Nat, NEW pcm
  PROVE  \E f : /\ LiveSteps(p, frames, pcm, Len(frames), f)
                /\ ReceiveLive(p, frames, pcm) = f[Len(frames)]
<1>1. \E f : LiveSteps(p, frames, pcm, Len(frames), f) BY LiveExists
<1> DEFINE h == CHOOSE f : LiveSteps(p, frames, pcm, Len(frames), f)
<1>2. LiveSteps(p, frames, pcm, Len(frames), h) BY <1>1
<1>3. ReceiveLive(p, frames, pcm) = h[Len(frames)]
  BY DEF LiveSteps, LiveStep, ReceiveLive
<1> QED BY <1>2, <1>3

LEMMA CachedFold ==
  ASSUME NEW p, NEW cached, Len(cached) \in Nat, NEW low, NEW pcm
  PROVE  \E f : /\ CachedSteps(p, cached, low, pcm, Len(cached), f)
                /\ ReceiveCached(p, cached, low, pcm) = f[Len(cached)]
<1>1. \E f : CachedSteps(p, cached, low, pcm, Len(cached), f) BY CachedExists
<1> DEFINE h == CHOOSE f : CachedSteps(p, cached, low, pcm, Len(cached), f)
<1>2. CachedSteps(p, cached, low, pcm, Len(cached), h) BY <1>1
<1>3. ReceiveCached(p, cached, low, pcm) = h[Len(cached)]
  BY DEF CachedSteps, CachedStep, ReceiveCached
<1> QED BY <1>2, <1>3

LEMMA LiveHears ==
  ASSUME NEW p \in PlayerType, NEW frames \in Seq(Label), NEW pcm
  PROVE  Hears(p, ReceiveLive(p, frames, pcm)) /\ ReceiveLive(p, frames, pcm).started
<1>1. Len(frames) \in Nat OBVIOUS
<1>2. PICK f : /\ LiveSteps(p, frames, pcm, Len(frames), f)
               /\ ReceiveLive(p, frames, pcm) = f[Len(frames)]
  BY <1>1, LiveFold
<1>3. \A n \in 0 .. Len(frames) :
        f[n] = IF n = 0 THEN Start(p) ELSE LiveStep(f[n - 1], frames[n], pcm)
  BY <1>2, Zenon DEF LiveSteps
<1> DEFINE S == {n \in Nat : n <= Len(frames) => Hears(p, f[n]) /\ f[n].started}
<1>4. 0 \in S BY <1>1, <1>3, StartHears
<1>5. ASSUME NEW n \in Nat, n \in S PROVE n + 1 \in S
  <2> SUFFICES ASSUME n + 1 <= Len(frames) PROVE Hears(p, f[n + 1]) /\ f[n + 1].started
    OBVIOUS
  <2>1. Hears(p, f[n]) /\ f[n].started /\ f[n] \in PlayerType BY <1>1, <1>5 DEF Hears
  <2>2. n + 1 \in 1 .. Len(frames) /\ n + 1 - 1 = n BY <1>1
  <2>3. f[n + 1] = LiveStep(f[n], frames[n + 1], pcm) BY <1>3, <2>2
  <2>4. frames[n + 1] \in Label BY <2>2
  <2>5. Hears(f[n], f[n + 1]) BY <2>1, <2>3, <2>4, LiveStepHears
  <2>6. f[n + 1] \in PlayerType /\ f[n + 1].started BY <2>1, <2>5 DEF Hears
  <2> QED BY <2>1, <2>5, <2>6, HearsOrder
<1> HIDE DEF S
<1>6. \A n \in Nat : n \in S BY <1>4, <1>5, SetInduction
<1> QED BY <1>1, <1>2, <1>6 DEF S

LEMMA CachedHears ==
  ASSUME NEW p \in PlayerType, NEW cached \in Seq(Label), NEW low, NEW pcm
  PROVE  Hears(p, ReceiveCached(p, cached, low, pcm))
<1>1. Len(cached) \in Nat OBVIOUS
<1>2. PICK f : /\ CachedSteps(p, cached, low, pcm, Len(cached), f)
               /\ ReceiveCached(p, cached, low, pcm) = f[Len(cached)]
  BY <1>1, CachedFold
<1>3. \A n \in 0 .. Len(cached) :
        f[n] = IF n = 0 THEN p ELSE CachedStep(f[n - 1], cached[n], low, pcm)
  BY <1>2, Zenon DEF CachedSteps
<1> DEFINE S == {n \in Nat : n <= Len(cached) => Hears(p, f[n])}
<1>4. 0 \in S BY <1>1, <1>3, HearsOrder
<1>5. ASSUME NEW n \in Nat, n \in S PROVE n + 1 \in S
  <2> SUFFICES ASSUME n + 1 <= Len(cached) PROVE Hears(p, f[n + 1])
    OBVIOUS
  <2>1. Hears(p, f[n]) /\ f[n] \in PlayerType BY <1>1, <1>5 DEF Hears
  <2>2. n + 1 \in 1 .. Len(cached) /\ n + 1 - 1 = n BY <1>1
  <2>3. f[n + 1] = CachedStep(f[n], cached[n + 1], low, pcm) BY <1>3, <2>2
  <2>4. cached[n + 1] \in Label BY <2>2
  <2>5. Hears(f[n], f[n + 1]) BY <2>1, <2>3, <2>4, CachedStepHears
  <2>6. f[n + 1] \in PlayerType BY <2>5 DEF Hears
  <2> QED BY <2>1, <2>5, <2>6, HearsOrder
<1> HIDE DEF S
<1>6. \A n \in Nat : n \in S BY <1>4, <1>5, SetInduction
<1> QED BY <1>1, <1>2, <1>6 DEF S

-----------------------------------------------------------------------------
(* Formats.                                                                    *)

LEMMA FreshFacts ==
  ASSUME NEW K \in KeyType
  PROVE  /\ Fresh(K) \in KeyType /\ Fresh(K).held = 0 /\ Fresh(K).last = 0
         /\ Fresh(K).phase = K.phase /\ Fresh(K).waiting = K.waiting /\ Fresh(K).cache = K.cache
         /\ Fresh(K).task = K.task /\ Fresh(K).owned = K.owned /\ Fresh(K).spoiled = K.spoiled
BY EndFacts DEF Fresh, KeyType

LEMMA EmittedFacts ==
  ASSUME NEW k \in Keys, NEW K \in KeyType, NEW ts \in Chunk
  PROVE  Emitted(k, K, ts) \in Seq(Label)
<1>1. ts \in Label /\ ts - 1 \in Label /\ K.held \in Label
  BY EndFacts DEF KeyType, Chunk, Label
<1> QED BY <1>1 DEF Emitted

LEMMA EncodedFacts ==
  ASSUME NEW k \in Keys, NEW K \in KeyType, NEW ts \in Chunk
  PROVE  /\ Encoded(k, K, ts) \in KeyType
         /\ Encoded(k, K, ts).held = IF k \in Buffering THEN ts ELSE 0
         /\ Encoded(k, K, ts).last = ts + 1
         /\ Encoded(k, K, ts).phase = K.phase /\ Encoded(k, K, ts).waiting = K.waiting
         /\ Encoded(k, K, ts).cache = K.cache /\ Encoded(k, K, ts).task = K.task
         /\ Encoded(k, K, ts).owned = K.owned /\ Encoded(k, K, ts).spoiled = K.spoiled
<1>1. ts \in Label /\ ts + 1 \in Instant /\ 0 \in Label BY EndFacts
<1> QED BY <1>1 DEF Encoded, KeyType

LEMMA PcmFacts ==
  ASSUME NEW S \in StateType, NEW end
  PROVE  /\ ChunksAfter(S, end) \subseteq S.stream.pcm
         /\ ChunksAfter(S, end) \in SUBSET Chunk
         /\ ChunksAfter(S, end) # {} =>
              /\ Max(ChunksAfter(S, end)) \in ChunksAfter(S, end)
              /\ Max(ChunksAfter(S, end)) + 1 \in Instant
              /\ \A m \in ChunksAfter(S, end) : m < Max(ChunksAfter(S, end)) + 1
<1>1. ChunksAfter(S, end) \subseteq S.stream.pcm BY DEF ChunksAfter
<1>2. S.stream.pcm \in SUBSET Chunk BY DEF StateType, StreamType
<1>3. ChunksAfter(S, end) \in SUBSET Chunk BY <1>1, <1>2
<1>4. ASSUME ChunksAfter(S, end) # {}
      PROVE  /\ Max(ChunksAfter(S, end)) \in ChunksAfter(S, end)
             /\ \A m \in ChunksAfter(S, end) : m <= Max(ChunksAfter(S, end))
  <2>1. ChunksAfter(S, end) \in SUBSET (0 .. End) BY <1>3, EndFacts DEF Chunk
  <2> HIDE DEF ChunksAfter
  <2> QED BY <1>4, <2>1, MinMax, EndFacts
<1>5. ASSUME ChunksAfter(S, end) # {}
      PROVE  /\ Max(ChunksAfter(S, end)) + 1 \in Instant
             /\ \A m \in ChunksAfter(S, end) : m < Max(ChunksAfter(S, end)) + 1
  BY <1>3, <1>4, <1>5, EndFacts DEF Chunk
<1> QED BY <1>1, <1>3, <1>4, <1>5

-----------------------------------------------------------------------------
(* What holds of a format and of a player, whatever runs.                      *)

\* The task of a catch-up that the format does not own does nothing.
Idle(K) == K.task.todo = {} /\ ~K.task.waiting /\ ~K.task.running

Caught(K) ==
  /\ K.phase = "catching" => /\ K.owned /\ K.task.running /\ K.waiting # {}
                             /\ K.task.todo # {} \/ K.task.waiting
  /\ K.owned => K.phase = "catching"
  /\ ~K.owned => K.spoiled \/ Idle(K)

Told(p) == p.started /\ p.member = "in" /\ ~p.pending => p.open

Sound(S) ==
  /\ \A k \in Keys : Caught(S.keys[k])
  /\ \A r \in Roles : Told(S.players[r])
  /\ S.stream.stopped => /\ \A k \in Keys : ~S.keys[k].owned
                         /\ \A r \in Roles : ~S.players[r].started

\* A synchronous step from S to T that starts no stream again, with the deferred
\* joins of T among those of S and of extra.
Steps(S, T, extra) ==
  /\ T \in StateType /\ Sound(T)
  /\ T.stream = S.stream
  /\ \A r \in Roles : T.players[r].pending => S.players[r].pending \/ r \in extra

LEMMA StepsOrder ==
  \A S, T, U \in StateType, extra \in SUBSET Roles :
    Steps(S, T, extra) /\ Steps(T, U, extra) => Steps(S, U, extra)
BY DEF Steps

LEMMA HearsTold ==
  ASSUME NEW p \in PlayerType, NEW q, Hears(p, q), Told(p)
  PROVE  Told(q)
BY DEF Hears, Told, PlayerType

-----------------------------------------------------------------------------
(* Joins.                                                                      *)

LEMMA TargetType == now \in 0 .. MaxTime => Target \in 0 .. MaxTime + Lead /\ Target \in Instant
BY EndFacts DEF Target, Instant

\* The record of a format as a catch-up starts.
CatchingUp(K, r, target, todo) ==
  [Fresh(K) EXCEPT !.phase = "catching", !.waiting = {<<r, 0>>}, !.owned = TRUE,
     !.task = [NoTask EXCEPT !.todo = todo, !.target = target,
                             !.src = Max(todo) + 1, !.running = TRUE]]

LEMMA CatchingUpFacts ==
  ASSUME NEW K \in KeyType, NEW r \in Roles, NEW target \in Instant, NEW todo \in SUBSET Chunk,
         Max(todo) + 1 \in Instant
  PROVE  /\ CatchingUp(K, r, target, todo) \in KeyType
         /\ CatchingUp(K, r, target, todo).phase = "catching"
         /\ CatchingUp(K, r, target, todo).waiting = {<<r, 0>>}
         /\ CatchingUp(K, r, target, todo).owned
         /\ CatchingUp(K, r, target, todo).spoiled = K.spoiled
         /\ CatchingUp(K, r, target, todo).held = 0 /\ CatchingUp(K, r, target, todo).last = 0
         /\ CatchingUp(K, r, target, todo).cache = K.cache
         /\ CatchingUp(K, r, target, todo).task.todo = todo
         /\ CatchingUp(K, r, target, todo).task.got = <<>>
         /\ CatchingUp(K, r, target, todo).task.target = target
         /\ CatchingUp(K, r, target, todo).task.src = Max(todo) + 1
         /\ CatchingUp(K, r, target, todo).task.enc = 0
         /\ CatchingUp(K, r, target, todo).task.running
         /\ ~CatchingUp(K, r, target, todo).task.waiting
<1> DEFINE src == Max(todo) + 1
           task == [NoTask EXCEPT !.todo = todo, !.target = target,
                                  !.src = src, !.running = TRUE]
<1>1. src \in Instant OBVIOUS
<1> HIDE DEF src
<1>2. /\ task \in TaskType /\ task.todo = todo /\ task.got = <<>> /\ task.target = target
      /\ task.src = src /\ task.enc = 0 /\ task.running /\ ~task.waiting
  BY <1>1, Defaults DEF TaskType, NoTask
<1>3. {<<r, 0>>} \in SUBSET (Roles \X (0 .. MaxTime + Lead)) BY EndFacts
<1>4. CatchingUp(K, r, target, todo)
        = [Fresh(K) EXCEPT !.phase = "catching", !.waiting = {<<r, 0>>}, !.owned = TRUE,
                           !.task = task]
  BY DEF CatchingUp, src
<1> HIDE DEF task
<1>5. Fresh(K) \in KeyType BY FreshFacts
<1>6. CatchingUp(K, r, target, todo) \in KeyType
  BY <1>2, <1>3, <1>4, <1>5 DEF KeyType, Phases
<1>7. /\ CatchingUp(K, r, target, todo).phase = "catching"
      /\ CatchingUp(K, r, target, todo).waiting = {<<r, 0>>}
      /\ CatchingUp(K, r, target, todo).owned
      /\ CatchingUp(K, r, target, todo).task = task
      /\ CatchingUp(K, r, target, todo).spoiled = Fresh(K).spoiled
      /\ CatchingUp(K, r, target, todo).held = Fresh(K).held
      /\ CatchingUp(K, r, target, todo).last = Fresh(K).last
      /\ CatchingUp(K, r, target, todo).cache = Fresh(K).cache
  BY <1>4, <1>5 DEF KeyType
<1> QED BY <1>2, <1>6, <1>7, FreshFacts DEF src

LEMMA CatchUpIs ==
  ASSUME NEW S \in StateType, NEW k \in Keys, NEW r, NEW target
  PROVE  CatchUp(S, k, r, target)
           = [S EXCEPT !.keys[k] = CatchingUp(S.keys[k], r, target, ChunksAfter(S, target))]
BY DEF CatchUp, CatchingUp, StateType

LEMMA CatchUpSteps ==
  ASSUME NEW S \in StateType, Sound(S), NEW k \in Keys, NEW r \in Roles, NEW target \in Instant,
         ChunksAfter(S, target) # {}, ~S.stream.stopped
  PROVE  Steps(S, CatchUp(S, k, r, target), {})
<1> DEFINE K == CatchingUp(S.keys[k], r, target, ChunksAfter(S, target))
           T == CatchUp(S, k, r, target)
<1>1. S.keys[k] \in KeyType BY DEF StateType
<1>2. K \in KeyType /\ Caught(K)
  <2>1. ChunksAfter(S, target) \in SUBSET Chunk /\ Max(ChunksAfter(S, target)) + 1 \in Instant
    BY PcmFacts
  <2> HIDE DEF K
  <2>2. /\ K \in KeyType /\ K.owned /\ K.task.running /\ K.waiting = {<<r, 0>>}
        /\ K.phase = "catching" /\ K.task.todo = ChunksAfter(S, target)
    BY <1>1, <2>1, CatchingUpFacts DEF K
  <2> QED BY <2>2 DEF Caught
<1>3. T = [S EXCEPT !.keys[k] = K] BY CatchUpIs
<1> HIDE DEF K, T
<1>4. /\ T \in StateType /\ T.stream = S.stream /\ T.players = S.players
      /\ T.keys[k] = K /\ \A j \in Keys \ {k} : T.keys[j] = S.keys[j]
  BY <1>2, <1>3, SetKey
<1>5. Sound(T) BY <1>2, <1>4 DEF Sound
<1>6. Steps(S, T, {}) BY <1>4, <1>5 DEF Steps
<1> QED BY <1>6 DEF T

\* A player that is about to join, and one known to join with less than there is.
Joiner(p) == [p EXCEPT !.pending = FALSE, !.started = FALSE]
Marked(p, lossy) == [p EXCEPT !.lossy = @ \union lossy]

Rejoining(S, r) == [S EXCEPT !.players[r] = Joiner(S.players[r])]

JoinTarget(p) == IF p.resume # 0 THEN p.resume ELSE Target

\* What a join makes of its player, and of its format.
JoinsCached(S, r) ==
  LET p == S.players[r] K == S.keys[p.format]
  IN  ReceiveCached(Marked(Joiner(p), Lossy(Rejoining(S, r), K, JoinTarget(p))), K.cache,
                    JoinTarget(p), S.stream.pcm)

JoinsLive(S, r) ==
  LET p == S.players[r] K == S.keys[p.format]
      q == Marked(Joiner(p), Lossy(Rejoining(S, r), K, JoinTarget(p)))
  IN  IF S.stream.tail # 0 THEN Start(q) ELSE q

JoinsWaiting(S, r) ==
  LET p == S.players[r] K == S.keys[p.format]
  IN  Marked(Joiner(p), Lossy(Rejoining(S, r), K, JoinTarget(p)))

LEMMA JoinerFacts ==
  ASSUME NEW p \in PlayerType, NEW lossy \in SUBSET {"filling", "starved"}
  PROVE  /\ Joiner(p) \in PlayerType /\ Marked(Joiner(p), lossy) \in PlayerType
         /\ \A q \in {Joiner(p), Marked(Joiner(p), lossy)} :
              /\ ~q.pending /\ ~q.started /\ q.member = p.member /\ q.format = p.format
              /\ q.open = p.open /\ q.sent = p.sent /\ q.resume = p.resume /\ q.faults = p.faults
         /\ Joiner(p).lossy = p.lossy /\ Marked(Joiner(p), lossy).lossy = p.lossy \union lossy
BY DEF Joiner, Marked, PlayerType

LEMMA JoinerIs ==
  ASSUME NEW p \in PlayerType
  PROVE  /\ Joiner(p) \in PlayerType /\ ~Joiner(p).pending /\ ~Joiner(p).started
         /\ Joiner(p).member = p.member /\ Joiner(p).format = p.format
         /\ Joiner(p).open = p.open /\ Joiner(p).sent = p.sent /\ Joiner(p).resume = p.resume
         /\ Joiner(p).faults = p.faults /\ Joiner(p).lossy = p.lossy
BY DEF Joiner, PlayerType

LEMMA LossyType ==
  ASSUME NEW S, NEW K, NEW target
  PROVE  Lossy(S, K, target) \in SUBSET {"filling", "starved"}
BY DEF Lossy

LEMMA JoinPlayers ==
  ASSUME NEW S \in StateType, NEW r \in Roles
  PROVE  LET q == Marked(Joiner(S.players[r]),
                         Lossy(Rejoining(S, r), S.keys[S.players[r].format],
                               JoinTarget(S.players[r])))
         IN  /\ q \in PlayerType /\ JoinsWaiting(S, r) = q
             /\ Hears(q, JoinsCached(S, r)) /\ JoinsCached(S, r) \in PlayerType
             /\ Hears(q, JoinsLive(S, r)) /\ JoinsLive(S, r) \in PlayerType
             /\ Hears(q, JoinsWaiting(S, r)) /\ JoinsWaiting(S, r) \in PlayerType
<1> DEFINE p == S.players[r]
           K == S.keys[p.format]
           q == Marked(Joiner(p), Lossy(Rejoining(S, r), K, JoinTarget(p)))
<1>1. p \in PlayerType /\ p.format \in Keys BY DEF StateType, PlayerType
<1>2. K \in KeyType /\ K.cache \in Seq(Label) BY <1>1 DEF StateType, KeyType
<1>3. q \in PlayerType BY <1>1, JoinerFacts, LossyType
<1>4. JoinsWaiting(S, r) = q BY DEF JoinsWaiting
<1>5. JoinsCached(S, r) = ReceiveCached(q, K.cache, JoinTarget(p), S.stream.pcm) BY DEF JoinsCached
<1>6. JoinsLive(S, r) = IF S.stream.tail # 0 THEN Start(q) ELSE q BY DEF JoinsLive
<1> HIDE DEF q, p, K
<1>7. Hears(q, JoinsCached(S, r)) BY <1>2, <1>3, <1>5, CachedHears
<1>8. Hears(q, JoinsLive(S, r)) BY <1>3, <1>6, StartHears, HearsOrder
<1>9. Hears(q, JoinsWaiting(S, r)) BY <1>3, <1>4, HearsOrder
<1>10. /\ q \in PlayerType /\ JoinsWaiting(S, r) = q
       /\ Hears(q, JoinsCached(S, r)) /\ JoinsCached(S, r) \in PlayerType
       /\ Hears(q, JoinsLive(S, r)) /\ JoinsLive(S, r) \in PlayerType
       /\ Hears(q, JoinsWaiting(S, r)) /\ JoinsWaiting(S, r) \in PlayerType
  BY <1>3, <1>4, <1>7, <1>8, <1>9 DEF Hears
<1> QED BY <1>10 DEF q, p, K

\* DoRoleJoin with its abbreviations as arguments.
JoinFrom(R, r, k, K, target, L) ==
  IF R.stream.stopped THEN R
  ELSE IF K.cache # <<>>
  THEN IF \E i \in DOMAIN K.cache : K.cache[i] >= target
       THEN [L EXCEPT !.players[r] = ReceiveCached(@, K.cache, target, R.stream.pcm)]
       ELSE AwaitLive(L, r)
  ELSE IF K.phase # "none"
  THEN [L EXCEPT !.keys[k].waiting = {w \in @ : w[1] # r} \union {<<r, Target>>}]
  ELSE IF ~Shared(R, k, r) /\ ChunksAfter(R, target) # {}
  THEN CatchUp(R, k, r, target)
  ELSE AwaitLive(L, r)

\* A waiting player more.
AlsoWaits(K, r, w) == [K EXCEPT !.waiting = {v \in @ : v[1] # r} \union {w}]

LEMMA AlsoWaitsFacts ==
  ASSUME NEW K \in KeyType, NEW r \in Roles, NEW w \in Roles \X (0 .. MaxTime + Lead)
  PROVE  /\ AlsoWaits(K, r, w) \in KeyType
         /\ AlsoWaits(K, r, w).waiting = {v \in K.waiting : v[1] # r} \union {w}
         /\ AlsoWaits(K, r, w).phase = K.phase /\ AlsoWaits(K, r, w).last = K.last
         /\ AlsoWaits(K, r, w).held = K.held /\ AlsoWaits(K, r, w).cache = K.cache
         /\ AlsoWaits(K, r, w).task = K.task /\ AlsoWaits(K, r, w).owned = K.owned
         /\ AlsoWaits(K, r, w).spoiled = K.spoiled
BY DEF AlsoWaits, KeyType

\* The ways a join can go.
LEMMA JoinCases ==
  ASSUME NEW S \in StateType, NEW r \in Roles
  PROVE  LET p == S.players[r]
             k == p.format
             K == S.keys[k]
             target == JoinTarget(p)
             R == Rejoining(S, r)
             T == DoRoleJoin(S, r)
         IN  \/ S.stream.stopped /\ T = R
             \/ /\ ~S.stream.stopped /\ K.cache # <<>>
                /\ \E i \in DOMAIN K.cache : K.cache[i] >= target
                /\ T = [S EXCEPT !.players[r] = JoinsCached(S, r)]
             \/ /\ ~S.stream.stopped /\ K.cache # <<>>
                /\ \A i \in DOMAIN K.cache : ~(K.cache[i] >= target)
                /\ T = [S EXCEPT !.players[r] = JoinsLive(S, r)]
             \/ /\ ~S.stream.stopped /\ K.cache = <<>> /\ K.phase # "none"
                /\ T = [[S EXCEPT !.players[r] = JoinsWaiting(S, r)]
                          EXCEPT !.keys[k] = AlsoWaits(K, r, <<r, Target>>)]
             \/ /\ ~S.stream.stopped /\ K.cache = <<>> /\ K.phase = "none"
                /\ ~Shared(R, k, r) /\ ChunksAfter(R, target) # {}
                /\ T = CatchUp(R, k, r, target)
             \/ /\ ~S.stream.stopped /\ K.cache = <<>> /\ K.phase = "none"
                /\ Shared(R, k, r) \/ ChunksAfter(R, target) = {}
                /\ T = [S EXCEPT !.players[r] = JoinsLive(S, r)]
<1> DEFINE R == [S EXCEPT !.players[r].pending = FALSE, !.players[r].started = FALSE]
           p == S.players[r]
           k == p.format
           K == S.keys[k]
           target == JoinTarget(p)
           L == [R EXCEPT !.players[r].lossy = @ \union Lossy(R, K, target)]
           q == Marked(Joiner(p), Lossy(R, K, target))
<1>1. R = [S EXCEPT !.players[r] = Joiner(p)] BY DEF Joiner, StateType
<1>2. R = Rejoining(S, r) BY <1>1 DEF Rejoining
<1>3. p \in PlayerType BY DEF StateType
<1>4. Joiner(p) \in PlayerType /\ Joiner(p).format = k /\ Joiner(p).resume = p.resume
  BY <1>3, JoinerIs
<1>5. /\ R.keys = S.keys /\ R.stream = S.stream /\ R.players[r] = Joiner(p)
      /\ R.players[r].format = k /\ R.players[r].resume = p.resume
  <2> HIDE DEF R
  <2> QED BY <1>1, <1>4, SetPlayer
<1>6. q \in PlayerType BY <1>3, JoinerFacts, LossyType
<1>7. L = [S EXCEPT !.players[r] = q]
  <2>1. [R EXCEPT !.players[r].lossy = @ \union Lossy(R, K, target)]
          = [R EXCEPT !.players[r] = Marked(@, Lossy(R, K, target))] BY DEF Marked
  <2> HIDE DEF R
  <2>2. L = [R EXCEPT !.players[r] = Marked(Joiner(p), Lossy(R, K, target))]
    BY <2>1, <1>5
  <2> HIDE DEF L, q, p
  <2>3. L = [R EXCEPT !.players[r] = q] BY <2>2 DEF q
  <2> QED BY <1>1, <2>3 DEF StateType
<1>8. DoRoleJoin(S, r) = JoinFrom(R, r, k, K, target, L)
  <2> DEFINE k1 == R.players[r].format
             K1 == R.keys[k1]
             t1 == IF R.players[r].resume # 0 THEN R.players[r].resume ELSE Target
             L1 == [R EXCEPT !.players[r].lossy = @ \union Lossy(R, K1, t1)]
  <2>1. DoRoleJoin(S, r) = JoinFrom(R, r, k1, K1, t1, L1) BY DEF DoRoleJoin, JoinFrom
  <2>2. k1 = k /\ K1 = K BY <1>5
  <2>3. t1 = target BY <1>5 DEF JoinTarget
  <2> HIDE DEF k1, K1, t1, R, K, k, target
  <2>4. L1 = L BY <2>2, <2>3
  <2> QED BY <2>1, <2>2, <2>3, <2>4
<1>9. L.players[r] = q /\ L.stream = S.stream /\ L.keys = S.keys
  <2> HIDE DEF L, q
  <2> QED BY <1>6, <1>7, SetPlayer
<1>10. [L EXCEPT !.players[r] = ReceiveCached(@, K.cache, target, S.stream.pcm)]
         = [S EXCEPT !.players[r] = JoinsCached(S, r)]
  <2>1. JoinsCached(S, r) = ReceiveCached(q, K.cache, target, S.stream.pcm)
    BY <1>2 DEF JoinsCached
  <2> HIDE DEF L, q, K, target, R
  <2>2. [L EXCEPT !.players[r] = ReceiveCached(@, K.cache, target, S.stream.pcm)]
          = [L EXCEPT !.players[r] = JoinsCached(S, r)]
    BY <2>1, <1>9
  <2> QED BY <1>7, <2>2 DEF StateType
<1>11. AwaitLive(L, r) = [S EXCEPT !.players[r] = JoinsLive(S, r)]
  <2>1. JoinsLive(S, r) = IF S.stream.tail # 0 THEN Start(q) ELSE q
    BY <1>2 DEF JoinsLive
  <2> HIDE DEF L, q, K, target, R
  <2>2. AwaitLive(L, r) = [L EXCEPT !.players[r] = JoinsLive(S, r)]
    BY <2>1, <1>9 DEF AwaitLive
  <2> QED BY <1>7, <2>2 DEF StateType
<1>12. [L EXCEPT !.keys[k].waiting = {w \in @ : w[1] # r} \union {<<r, Target>>}]
         = [[S EXCEPT !.players[r] = JoinsWaiting(S, r)]
              EXCEPT !.keys[k] = AlsoWaits(K, r, <<r, Target>>)]
  <2>1. JoinsWaiting(S, r) = q BY <1>2 DEF JoinsWaiting
  <2>2. k \in Keys BY <1>3 DEF PlayerType
  <2> DEFINE w1 == <<r, Target>>
  <2> HIDE DEF q, k, L, w1
  <2>3. [L EXCEPT !.keys[k].waiting = {v \in @ : v[1] # r} \union {w1}]
          = [[S EXCEPT !.players[r] = q] EXCEPT !.keys[k] = AlsoWaits(S.keys[k], r, w1)]
    BY <1>7, <2>2 DEF AlsoWaits, StateType
  <2> QED BY <2>1, <2>3 DEF w1
<1> HIDE DEF L, q, K, target, R
<1>13. \/ S.stream.stopped /\ DoRoleJoin(S, r) = R
       \/ /\ ~S.stream.stopped /\ K.cache # <<>>
          /\ \E i \in DOMAIN K.cache : K.cache[i] >= target
          /\ DoRoleJoin(S, r) = [S EXCEPT !.players[r] = JoinsCached(S, r)]
       \/ /\ ~S.stream.stopped /\ K.cache # <<>>
          /\ \A i \in DOMAIN K.cache : ~(K.cache[i] >= target)
          /\ DoRoleJoin(S, r) = [S EXCEPT !.players[r] = JoinsLive(S, r)]
       \/ /\ ~S.stream.stopped /\ K.cache = <<>> /\ K.phase # "none"
          /\ DoRoleJoin(S, r) = [[S EXCEPT !.players[r] = JoinsWaiting(S, r)]
                                   EXCEPT !.keys[k] = AlsoWaits(K, r, <<r, Target>>)]
       \/ /\ ~S.stream.stopped /\ K.cache = <<>> /\ K.phase = "none"
          /\ ~Shared(R, k, r) /\ ChunksAfter(R, target) # {}
          /\ DoRoleJoin(S, r) = CatchUp(R, k, r, target)
       \/ /\ ~S.stream.stopped /\ K.cache = <<>> /\ K.phase = "none"
          /\ Shared(R, k, r) \/ ChunksAfter(R, target) = {}
          /\ DoRoleJoin(S, r) = [S EXCEPT !.players[r] = JoinsLive(S, r)]
  BY <1>5, <1>8, <1>10, <1>11, <1>12 DEF JoinFrom
<1> QED BY <1>2, <1>13 DEF K, target

\* A state in which only player r differs, told of what it starts.
LEMMA PlayerSteps ==
  ASSUME NEW S \in StateType, Sound(S), NEW r \in Roles, NEW p \in PlayerType,
         Told(p), S.stream.stopped => ~p.started, NEW extra \in SUBSET Roles,
         p.pending => S.players[r].pending \/ r \in extra
  PROVE  Steps(S, [S EXCEPT !.players[r] = p], extra)
<1> DEFINE T == [S EXCEPT !.players[r] = p]
<1>1. /\ T \in StateType /\ T.stream = S.stream /\ T.keys = S.keys /\ T.players[r] = p
      /\ \A q \in Roles \ {r} : T.players[q] = S.players[q]
  BY SetPlayer
<1> HIDE DEF T
<1>2. Sound(T) BY <1>1 DEF Sound
<1>3. Steps(S, T, extra) BY <1>1, <1>2 DEF Steps
<1> QED BY <1>3 DEF T

LEMMA KeySteps ==
  ASSUME NEW S \in StateType, Sound(S), NEW k \in Keys, NEW K \in KeyType,
         Caught(K), S.stream.stopped => ~K.owned, NEW extra \in SUBSET Roles
  PROVE  Steps(S, [S EXCEPT !.keys[k] = K], extra)
<1> DEFINE T == [S EXCEPT !.keys[k] = K]
<1>1. /\ T \in StateType /\ T.stream = S.stream /\ T.players = S.players /\ T.keys[k] = K
      /\ \A j \in Keys \ {k} : T.keys[j] = S.keys[j]
  BY SetKey
<1> HIDE DEF T
<1>2. Sound(T) BY <1>1 DEF Sound
<1>3. Steps(S, T, extra) BY <1>1, <1>2 DEF Steps
<1> QED BY <1>3 DEF T

LEMMA RejoiningSteps ==
  ASSUME NEW S \in StateType, Sound(S), NEW r \in Roles
  PROVE  /\ Steps(S, Rejoining(S, r), {}) /\ Rejoining(S, r) \in StateType
         /\ Rejoining(S, r).keys = S.keys /\ Rejoining(S, r).stream = S.stream
         /\ Rejoining(S, r).unwound = S.unwound
         /\ Rejoining(S, r).players[r] = Joiner(S.players[r])
         /\ \A q \in Roles \ {r} : Rejoining(S, r).players[q] = S.players[q]
<1> DEFINE p == Joiner(S.players[r])
<1>1. S.players[r] \in PlayerType BY DEF StateType
<1>2. p \in PlayerType /\ ~p.pending /\ ~p.started BY <1>1, JoinerIs
<1>3. Told(p) BY <1>2 DEF Told
<1>4. Rejoining(S, r) = [S EXCEPT !.players[r] = p] BY DEF Rejoining
<1> HIDE DEF p
<1>5. Steps(S, Rejoining(S, r), {}) BY <1>2, <1>3, <1>4, PlayerSteps
<1>6. /\ Rejoining(S, r) \in StateType
      /\ Rejoining(S, r).keys = S.keys /\ Rejoining(S, r).stream = S.stream
      /\ Rejoining(S, r).unwound = S.unwound
      /\ Rejoining(S, r).players[r] = p
      /\ \A q \in Roles \ {r} : Rejoining(S, r).players[q] = S.players[q]
  BY <1>2, <1>4, SetPlayer
<1> QED BY <1>5, <1>6 DEF p

LEMMA JoinSteps ==
  ASSUME NEW S \in StateType, Sound(S), NEW r \in Roles, now \in 0 .. MaxTime
  PROVE  /\ Steps(S, DoRoleJoin(S, r), {})
         /\ DoRoleJoin(S, r) \in StateType
         /\ ~DoRoleJoin(S, r).players[r].pending
         /\ DoRoleJoin(S, r).unwound = S.unwound
         /\ \A q \in Roles \ {r} : DoRoleJoin(S, r).players[q] = S.players[q]
<1> DEFINE p == S.players[r]
           k == p.format
           K == S.keys[k]
           target == JoinTarget(p)
           R == Rejoining(S, r)
           T == DoRoleJoin(S, r)
           Goal == /\ Steps(S, T, {}) /\ T \in StateType /\ ~T.players[r].pending
                   /\ T.unwound = S.unwound
                   /\ \A q \in Roles \ {r} : T.players[q] = S.players[q]
<1> SUFFICES Goal OBVIOUS
<1> HIDE DEF Goal, T
<1>1. p \in PlayerType /\ k \in Keys /\ K \in KeyType BY DEF StateType, PlayerType
<1>2. target \in Instant
  <2>1. p.resume \in Instant BY <1>1 DEF PlayerType
  <2> QED BY <2>1, TargetType DEF JoinTarget
<1>3. /\ Steps(S, R, {}) /\ R \in StateType /\ R.keys = S.keys /\ R.stream = S.stream
      /\ R.unwound = S.unwound
      /\ R.players[r] = Joiner(p) /\ \A q \in Roles \ {r} : R.players[q] = S.players[q]
      /\ Sound(R) /\ ~R.players[r].pending
  BY <1>1, RejoiningSteps, JoinerIs DEF Steps
<1>4. ASSUME NEW j \in PlayerType, Hears(JoinsWaiting(S, r), j), ~S.stream.stopped,
             T = [S EXCEPT !.players[r] = j]
      PROVE  Goal
  <2>1. ~JoinsWaiting(S, r).pending /\ ~JoinsWaiting(S, r).started
        /\ JoinsWaiting(S, r) \in PlayerType
    <3> HIDE DEF K
    <3>1. JoinsWaiting(S, r) = Marked(Joiner(p), Lossy(R, K, target))
      BY DEF JoinsWaiting, K
    <3> QED BY <1>1, <3>1, JoinerFacts, LossyType
  <2>2. Told(j) /\ ~j.pending BY <1>4, <2>1 DEF Hears, Told
  <2>3. Steps(S, T, {}) BY <1>4, <2>2, PlayerSteps
  <2>4. T.players[r] = j /\ \A q \in Roles \ {r} : T.players[q] = S.players[q]
    BY <1>4, SetPlayer
  <2>5. T.unwound = S.unwound BY <1>4, SetPlayer
  <2> QED BY <2>2, <2>3, <2>4, <2>5 DEF Steps, Goal
<1>5. /\ JoinsWaiting(S, r) \in PlayerType /\ JoinsCached(S, r) \in PlayerType
      /\ JoinsLive(S, r) \in PlayerType /\ Hears(JoinsWaiting(S, r), JoinsCached(S, r))
      /\ Hears(JoinsWaiting(S, r), JoinsLive(S, r))
      /\ Hears(JoinsWaiting(S, r), JoinsWaiting(S, r))
      /\ ~JoinsWaiting(S, r).pending /\ ~JoinsWaiting(S, r).started
  <2>1. JoinsWaiting(S, r) = Marked(Joiner(p), Lossy(R, K, target)) BY DEF JoinsWaiting
  <2>2. ~JoinsWaiting(S, r).pending /\ ~JoinsWaiting(S, r).started
    <3> HIDE DEF K
    <3> QED BY <1>1, <2>1, JoinerFacts, LossyType
  <2> QED BY <2>1, <2>2, JoinPlayers
<1>6. CASE S.stream.stopped /\ T = R BY <1>3, <1>6 DEF Goal
<1>7. CASE ~S.stream.stopped /\ T = [S EXCEPT !.players[r] = JoinsCached(S, r)]
  <2> QED BY <1>4, <1>5, <1>7
<1>8. CASE ~S.stream.stopped /\ T = [S EXCEPT !.players[r] = JoinsLive(S, r)]
  <2> QED BY <1>4, <1>5, <1>8
<1>9. CASE /\ ~S.stream.stopped /\ K.cache = <<>> /\ K.phase # "none"
           /\ T = [[S EXCEPT !.players[r] = JoinsWaiting(S, r)]
                     EXCEPT !.keys[k] = AlsoWaits(K, r, <<r, Target>>)]
  <2> DEFINE U == [S EXCEPT !.players[r] = JoinsWaiting(S, r)]
             j == AlsoWaits(K, r, <<r, Target>>)
  <2>1. Told(JoinsWaiting(S, r)) BY <1>5 DEF Told
  <2>2. Steps(S, U, {}) BY <1>5, <2>1, PlayerSteps
  <2>3. /\ U \in StateType /\ U.keys = S.keys /\ U.stream = S.stream /\ U.unwound = S.unwound
        /\ U.players[r] = JoinsWaiting(S, r)
        /\ \A q \in Roles \ {r} : U.players[q] = S.players[q]
    BY <1>5, SetPlayer
  <2>4. <<r, Target>> \in Roles \X (0 .. MaxTime + Lead) BY TargetType
  <2>5. Caught(K) /\ Caught(U.keys[k]) BY <1>1, <2>3 DEF Sound
  <2> HIDE DEF K
  <2>6. j \in KeyType /\ Caught(j) /\ j.owned = K.owned
    <3>1. /\ j \in KeyType /\ j.waiting # {} /\ j.phase = K.phase /\ j.task = K.task
          /\ j.owned = K.owned /\ j.spoiled = K.spoiled
      BY <1>1, <2>4, AlsoWaitsFacts
    <3> QED BY <2>5, <3>1 DEF Caught, Idle
  <2>7. T = [U EXCEPT !.keys[k] = j] BY <1>9
  <2> HIDE DEF U, j
  <2>8. Sound(U) BY <2>2 DEF Steps
  <2>12. ~U.stream.stopped BY <1>9, <2>3
  <2>13. k \in Keys BY <1>1
  <2> HIDE DEF k
  <2>9. Steps(U, T, {}) BY <2>3, <2>6, <2>7, <2>8, <2>12, <2>13, KeySteps
  <2>10. Steps(S, T, {}) /\ T \in StateType BY <2>2, <2>3, <2>9, StepsOrder DEF Steps
  <2>11. T.players = U.players /\ T.unwound = U.unwound BY <1>1, <2>3, <2>6, <2>7, SetKey
  <2> QED BY <1>5, <2>3, <2>10, <2>11 DEF Goal
<1>10. CASE /\ ~S.stream.stopped /\ ChunksAfter(R, target) # {}
            /\ T = CatchUp(R, k, r, target)
  <2> HIDE DEF R, target
  <2>1. Steps(R, T, {}) BY <1>1, <1>2, <1>3, <1>10, CatchUpSteps
  <2>2. Steps(S, T, {}) /\ T \in StateType BY <1>3, <2>1, StepsOrder DEF Steps
  <2>3. T.players = R.players /\ T.unwound = R.unwound
    <3>1. Max(ChunksAfter(R, target)) + 1 \in Instant BY <1>3, <1>10, PcmFacts
    <3>2. R.keys[k] \in KeyType /\ ChunksAfter(R, target) \in SUBSET Chunk
      BY <1>1, <1>3, PcmFacts
    <3>3. CatchingUp(R.keys[k], r, target, ChunksAfter(R, target)) \in KeyType
      BY <1>2, <3>1, <3>2, CatchingUpFacts
    <3> DEFINE K2 == CatchingUp(R.keys[k], r, target, ChunksAfter(R, target))
    <3>4. T = [R EXCEPT !.keys[k] = K2] BY <1>1, <1>3, <1>10, CatchUpIs
    <3>5. k \in Keys BY <1>1
    <3> HIDE DEF K2, k
    <3> QED BY <1>3, <3>3, <3>4, <3>5, SetKey DEF K2
  <2> QED BY <1>3, <2>2, <2>3 DEF Goal
<1>11. \/ S.stream.stopped /\ T = R
       \/ ~S.stream.stopped /\ T = [S EXCEPT !.players[r] = JoinsCached(S, r)]
       \/ ~S.stream.stopped /\ T = [S EXCEPT !.players[r] = JoinsLive(S, r)]
       \/ /\ ~S.stream.stopped /\ K.cache = <<>> /\ K.phase # "none"
          /\ T = [[S EXCEPT !.players[r] = JoinsWaiting(S, r)]
                    EXCEPT !.keys[k] = AlsoWaits(K, r, <<r, Target>>)]
       \/ /\ ~S.stream.stopped /\ ChunksAfter(R, target) # {}
          /\ T = CatchUp(R, k, r, target)
  <2> HIDE DEF R, target, K
  <2> QED BY JoinCases DEF T, R, target, K
<1> HIDE DEF R, target, K
<1> QED BY <1>6, <1>7, <1>8, <1>9, <1>10, <1>11

\* on_role_join
LEMMA RoleJoinSteps ==
  ASSUME NEW S \in StateType, Sound(S), NEW r \in Roles, now \in 0 .. MaxTime
  PROVE  /\ Steps(S, RoleJoin(S, r), IF Underway # {} THEN {r} ELSE {})
         /\ RoleJoin(S, r) \in StateType
         /\ RoleJoin(S, r).unwound = S.unwound
         /\ \A q \in Roles \ {r} : RoleJoin(S, r).players[q] = S.players[q]
<1>1. CASE Underway = {}
  BY <1>1, JoinSteps DEF RoleJoin
<1>2. CASE Underway # {}
  <2> DEFINE p == [S.players[r] EXCEPT !.pending = TRUE]
             T == [S EXCEPT !.players[r] = p]
  <2>1. S.players[r] \in PlayerType BY DEF StateType
  <2>2. p \in PlayerType /\ p.pending /\ p.started = S.players[r].started
    BY <2>1 DEF PlayerType
  <2>3. RoleJoin(S, r) = T BY <1>2 DEF RoleJoin, StateType
  <2> HIDE DEF p
  <2>4. Told(p) /\ (S.stream.stopped => ~p.started) BY <2>2 DEF Told, Sound
  <2>5. Steps(S, T, {r}) BY <2>2, <2>4, PlayerSteps
  <2>6. /\ T \in StateType /\ T.unwound = S.unwound
        /\ \A q \in Roles \ {r} : T.players[q] = S.players[q]
    BY <2>2, SetPlayer
  <2> HIDE DEF T
  <2> QED BY <1>2, <2>3, <2>5, <2>6
<1> QED BY <1>1, <1>2

\* The deferred joins in steps: f[n] is the state after n of them.
JoinsInSteps(S, order, N, f) ==
  f = [n \in 0 .. N |-> IF n = 0 THEN S ELSE DoRoleJoin(f[n - 1], order[n])]

LEMMA JoinsExist ==
  ASSUME NEW S, NEW order
  PROVE  \A N \in Nat : \E f : JoinsInSteps(S, order, N, f)
<1> DEFINE D == {N \in Nat : \E f : JoinsInSteps(S, order, N, f)}
<1>1. 0 \in D
  <2> DEFINE f == [n \in 0 .. 0 |-> S]
  <2>1. JoinsInSteps(S, order, 0, f) BY DEF JoinsInSteps
  <2> QED BY <2>1
<1>2. \A N \in Nat : N \in D => N + 1 \in D
  <2> SUFFICES ASSUME NEW N \in Nat, NEW f, JoinsInSteps(S, order, N, f)
               PROVE  \E g : JoinsInSteps(S, order, N + 1, g)
    OBVIOUS
  <2> DEFINE g == [n \in 0 .. N + 1 |-> IF n <= N THEN f[n] ELSE DoRoleJoin(f[N], order[N + 1])]
  <2>1. \A n \in 0 .. N : g[n] = f[n] OBVIOUS
  <2>2. \A n \in 0 .. N : f[n] = IF n = 0 THEN S ELSE DoRoleJoin(f[n - 1], order[n])
    BY Zenon DEF JoinsInSteps
  <2>3. ASSUME NEW n \in 0 .. N + 1
        PROVE g[n] = IF n = 0 THEN S ELSE DoRoleJoin(g[n - 1], order[n])
    <3>1. CASE n = 0 BY <3>1, <2>2
    <3>2. CASE n \in 1 .. N BY <3>2, <2>1, <2>2
    <3>3. CASE n = N + 1 BY <3>3, <2>1
    <3> QED BY <3>1, <3>2, <3>3
  <2> HIDE DEF g
  <2>4. g = [n \in 0 .. N + 1 |-> g[n]] BY DEF g
  <2>5. JoinsInSteps(S, order, N + 1, g) BY <2>3, <2>4 DEF JoinsInSteps
  <2> QED BY <2>5
<1> HIDE DEF D
<1>3. \A N \in Nat : N \in D BY <1>1, <1>2, SetInduction
<1> QED BY <1>3 DEF D

LEMMA JoinsFold ==
  ASSUME NEW S, Len(SetToSeq({r \in Roles : S.players[r].pending})) \in Nat
  PROVE  LET order == SetToSeq({r \in Roles : S.players[r].pending})
         IN  \E f : /\ JoinsInSteps(S, order, Len(order), f)
                    /\ JoinsReleased(S) = f[Len(order)]
<1> DEFINE order == SetToSeq({r \in Roles : S.players[r].pending})
<1>1. \E f : JoinsInSteps(S, order, Len(order), f) BY JoinsExist
<1> DEFINE h == CHOOSE f : JoinsInSteps(S, order, Len(order), f)
<1>2. JoinsInSteps(S, order, Len(order), h) BY <1>1
<1>3. JoinsReleased(S) = h[Len(order)]
  BY DEF JoinsInSteps, JoinsReleased
<1> QED BY <1>2, <1>3

LEMMA JoinsReleasedSteps ==
  ASSUME NEW S \in StateType, Sound(S), now \in 0 .. MaxTime
  PROVE  /\ Steps(S, JoinsReleased(S), {})
         /\ JoinsReleased(S) \in StateType
         /\ JoinsReleased(S).unwound = S.unwound
         /\ \A r \in Roles : ~JoinsReleased(S).players[r].pending
<1> DEFINE pending == {r \in Roles : S.players[r].pending}
           order == SetToSeq(pending)
<1>1. /\ order \in Seq(pending) /\ Len(order) \in Nat
      /\ \A r \in pending : \E n \in 1 .. Len(order) : order[n] = r
  <2>1. IsFiniteSet(pending) BY PushStreamAssumption, FS_Subset DEF PushStreamAssumption
  <2> HIDE DEF pending
  <2> QED BY <2>1, SetToSeqFacts
<1>2. PICK f : /\ JoinsInSteps(S, order, Len(order), f)
               /\ JoinsReleased(S) = f[Len(order)]
  BY <1>1, JoinsFold
<1> HIDE DEF order
<1>3. \A n \in 0 .. Len(order) : f[n] = IF n = 0 THEN S ELSE DoRoleJoin(f[n - 1], order[n])
  BY <1>2, Zenon DEF JoinsInSteps
<1> DEFINE Done(n) == /\ Steps(S, f[n], {}) /\ f[n] \in StateType /\ f[n].unwound = S.unwound
                      /\ \A m \in 1 .. n : ~f[n].players[order[m]].pending
           D == {n \in Nat : n <= Len(order) => Done(n)}
<1>4. 0 \in D
  <2>1. f[0] = S BY <1>1, <1>3
  <2>2. Steps(S, S, {}) BY DEF Steps
  <2> QED BY <2>1, <2>2
<1>5. ASSUME NEW n \in Nat, n \in D PROVE n + 1 \in D
  <2> SUFFICES ASSUME n + 1 <= Len(order) PROVE Done(n + 1)
    OBVIOUS
  <2>1. Done(n) BY <1>1, <1>5
  <2>2. n + 1 \in 1 .. Len(order) /\ n + 1 - 1 = n BY <1>1
  <2>3. f[n + 1] = DoRoleJoin(f[n], order[n + 1]) BY <1>3, <2>2
  <2>4. order[n + 1] \in Roles BY <1>1, <2>2
  <2>5. Sound(f[n]) /\ f[n] \in StateType BY <2>1 DEF Steps
  <2>6. /\ Steps(f[n], f[n + 1], {}) /\ f[n + 1] \in StateType
        /\ ~f[n + 1].players[order[n + 1]].pending
        /\ f[n + 1].unwound = f[n].unwound
        /\ \A q \in Roles \ {order[n + 1]} : f[n + 1].players[q] = f[n].players[q]
    BY <2>3, <2>4, <2>5, JoinSteps
  <2>7. Steps(S, f[n + 1], {}) BY <2>1, <2>5, <2>6, StepsOrder
  <2>8. ASSUME NEW m \in 1 .. n + 1 PROVE ~f[n + 1].players[order[m]].pending
    <3>1. order[m] \in Roles BY <1>1, <2>2
    <3>2. CASE order[m] = order[n + 1] BY <2>6, <3>2
    <3>3. CASE order[m] # order[n + 1]
      <4>1. m \in 1 .. n BY <3>3
      <4>2. f[n + 1].players[order[m]] = f[n].players[order[m]] BY <2>6, <3>1, <3>3
      <4> QED BY <2>1, <4>1, <4>2
    <3> QED BY <3>2, <3>3
  <2> QED BY <2>1, <2>6, <2>7, <2>8
<1> HIDE DEF D, Done
<1>6. Len(order) \in D
  <2>1. \A n \in Nat : n \in D BY <1>4, <1>5, SetInduction
  <2> QED BY <1>1, <2>1
<1>7. Done(Len(order)) BY <1>1, <1>6 DEF D
<1> DEFINE T == JoinsReleased(S)
<1>8. /\ Steps(S, T, {}) /\ T \in StateType /\ T.unwound = S.unwound
      /\ \A m \in 1 .. Len(order) : ~T.players[order[m]].pending
  BY <1>2, <1>7 DEF Done
<1> HIDE DEF T
<1>9. ASSUME NEW r \in Roles PROVE ~T.players[r].pending
  <2>1. CASE r \notin pending BY <1>8, <2>1 DEF Steps
  <2>2. CASE r \in pending
    <3>1. PICK n \in 1 .. Len(order) : order[n] = r BY <1>1, <2>2
    <3> QED BY <1>8, <3>1
  <2> QED BY <2>1, <2>2
<1> QED BY <1>8, <1>9 DEF T

\* A format without the catch-up it had, and without what it kept.
Without(K) ==
  [K EXCEPT !.phase = "none", !.waiting = {}, !.owned = FALSE,
            !.task = IF K.owned THEN NoTask ELSE @]

LEMMA WithoutFacts ==
  ASSUME NEW K \in KeyType
  PROVE  /\ Without(K) \in KeyType /\ Without(K).phase = "none" /\ Without(K).waiting = {}
         /\ ~Without(K).owned /\ Without(K).task = IF K.owned THEN NoTask ELSE K.task
         /\ Without(K).held = K.held /\ Without(K).last = K.last
         /\ Without(K).cache = K.cache /\ Without(K).spoiled = K.spoiled
         /\ Caught(K) => Caught(Without(K))
<1> DEFINE task == IF K.owned THEN NoTask ELSE K.task
<1>1. task \in TaskType BY Defaults DEF KeyType
<1>2. Without(K) = [K EXCEPT !.phase = "none", !.waiting = {}, !.owned = FALSE, !.task = task]
  BY DEF Without
<1>3. K.owned => Idle([K EXCEPT !.task = task]) BY DEF Idle, NoTask, KeyType
<1> HIDE DEF task
<1>4. /\ Without(K) \in KeyType /\ Without(K).phase = "none" /\ Without(K).waiting = {}
      /\ ~Without(K).owned /\ Without(K).task = task
      /\ Without(K).held = K.held /\ Without(K).last = K.last
      /\ Without(K).cache = K.cache /\ Without(K).spoiled = K.spoiled
  BY <1>1, <1>2 DEF KeyType, Phases
<1>5. K.owned => Idle(Without(K)) BY <1>3, <1>4 DEF Idle, KeyType
<1>6. ~K.owned => task = K.task BY DEF task
<1>7. Caught(K) => Caught(Without(K)) BY <1>4, <1>5, <1>6 DEF Caught, Idle
<1> QED BY <1>4, <1>7 DEF task

Others(K, r) == {w \in K.waiting : w[1] # r}

WithoutPlayer(K, r) ==
  IF (\E w \in K.waiting : w[1] = r) /\ Others(K, r) = {} THEN Without(K)
  ELSE [K EXCEPT !.waiting = Others(K, r)]

LEMMA WithoutPlayerFacts ==
  ASSUME NEW K \in KeyType, NEW r \in Roles
  PROVE  /\ WithoutPlayer(K, r) \in KeyType
         /\ WithoutPlayer(K, r).waiting = Others(K, r)
         /\ WithoutPlayer(K, r).phase \in {K.phase, "none"}
         /\ WithoutPlayer(K, r).task \in {K.task, NoTask}
         /\ WithoutPlayer(K, r).owned => K.owned
         /\ WithoutPlayer(K, r).held = K.held /\ WithoutPlayer(K, r).last = K.last
         /\ WithoutPlayer(K, r).cache = K.cache /\ WithoutPlayer(K, r).spoiled = K.spoiled
         /\ Caught(K) => Caught(WithoutPlayer(K, r))
<1>1. CASE (\E w \in K.waiting : w[1] = r) /\ Others(K, r) = {}
  <2>1. WithoutPlayer(K, r) = Without(K) BY <1>1 DEF WithoutPlayer
  <2> QED BY <1>1, <2>1, WithoutFacts
<1>2. CASE ~((\E w \in K.waiting : w[1] = r) /\ Others(K, r) = {})
  <2> DEFINE T == [K EXCEPT !.waiting = Others(K, r)]
  <2>1. WithoutPlayer(K, r) = T BY <1>2 DEF WithoutPlayer
  <2>2. Others(K, r) \in SUBSET (Roles \X (0 .. MaxTime + Lead)) BY DEF Others, KeyType
  <2>3. K.waiting # {} => Others(K, r) # {} BY <1>2 DEF Others
  <2>4. /\ T \in KeyType /\ T.waiting = Others(K, r) /\ T.phase = K.phase /\ T.task = K.task
        /\ T.owned = K.owned /\ T.held = K.held /\ T.last = K.last /\ T.cache = K.cache
        /\ T.spoiled = K.spoiled
    BY <2>2 DEF KeyType
  <2> HIDE DEF T
  <2>5. Caught(K) => Caught(T) BY <2>3, <2>4 DEF Caught, Idle
  <2> QED BY <2>1, <2>4, <2>5
<1> QED BY <1>1, <1>2

LEMMA WithdrawnSteps ==
  ASSUME NEW S \in StateType, Sound(S), NEW r \in Roles
  PROVE  /\ Steps(S, Withdrawn(S, r), {}) /\ Withdrawn(S, r) \in StateType
         /\ Withdrawn(S, r).players = S.players /\ Withdrawn(S, r).stream = S.stream
         /\ \A k \in Keys : Withdrawn(S, r).keys[k] = WithoutPlayer(S.keys[k], r)
         /\ Withdrawn(S, r).unwound
              = S.unwound \union {k \in Keys : /\ \E w \in S.keys[k].waiting : w[1] = r
                                               /\ Others(S.keys[k], r) = {}
                                               /\ S.keys[k].owned}
<1> DEFINE T == Withdrawn(S, r)
           over == {k \in Keys : (\E w \in S.keys[k].waiting : w[1] = r)
                                 /\ Others(S.keys[k], r) = {}}
           lost == {k \in over : S.keys[k].owned}
<1>1. T = [S EXCEPT !.unwound = S.unwound \union lost,
                    !.keys = [k \in Keys |-> WithoutPlayer(S.keys[k], r)]]
  BY DEF Withdrawn, WithoutPlayer, Without, Others
<1>2. \A k \in Keys : /\ WithoutPlayer(S.keys[k], r) \in KeyType
                      /\ Caught(WithoutPlayer(S.keys[k], r))
                      /\ WithoutPlayer(S.keys[k], r).owned => S.keys[k].owned
  BY WithoutPlayerFacts DEF StateType, Sound
<1>3. lost = {k \in Keys : /\ \E w \in S.keys[k].waiting : w[1] = r
                           /\ Others(S.keys[k], r) = {}
                           /\ S.keys[k].owned}
  OBVIOUS
<1>4. lost \in SUBSET Keys OBVIOUS
<1> HIDE DEF lost, T
<1>5. /\ T \in StateType /\ T.players = S.players /\ T.stream = S.stream
      /\ \A k \in Keys : T.keys[k] = WithoutPlayer(S.keys[k], r)
      /\ T.unwound = S.unwound \union lost
  BY <1>1, <1>2, <1>4 DEF StateType
<1>6. Sound(T) BY <1>2, <1>5 DEF Sound
<1>7. Steps(S, T, {}) BY <1>5, <1>6 DEF Steps
<1> QED BY <1>3, <1>5, <1>7 DEF T

LEMMA CacheSet ==
  ASSUME NEW K \in KeyType, NEW cache \in Seq(Label)
  PROVE  /\ [K EXCEPT !.cache = cache] \in KeyType
         /\ [K EXCEPT !.cache = cache].cache = cache
         /\ [K EXCEPT !.cache = cache].phase = K.phase
         /\ [K EXCEPT !.cache = cache].waiting = K.waiting
         /\ [K EXCEPT !.cache = cache].last = K.last /\ [K EXCEPT !.cache = cache].held = K.held
         /\ [K EXCEPT !.cache = cache].task = K.task
         /\ [K EXCEPT !.cache = cache].owned = K.owned
         /\ [K EXCEPT !.cache = cache].spoiled = K.spoiled
         /\ Caught(K) => Caught([K EXCEPT !.cache = cache])
<1> DEFINE T == [K EXCEPT !.cache = cache]
<1>1. /\ T \in KeyType /\ T.cache = cache /\ T.phase = K.phase /\ T.waiting = K.waiting
      /\ T.last = K.last /\ T.held = K.held /\ T.task = K.task /\ T.owned = K.owned
      /\ T.spoiled = K.spoiled
  BY DEF KeyType
<1> HIDE DEF T
<1>2. Caught(K) => Caught(T) BY <1>1 DEF Caught, Idle
<1> QED BY <1>1, <1>2 DEF T

LEMMA DroppedSteps ==
  ASSUME NEW S \in StateType, Sound(S), NEW k \in Keys, NEW r \in Roles
  PROVE  /\ Steps(S, Dropped(S, k, r), {}) /\ Dropped(S, k, r) \in StateType
         /\ Dropped(S, k, r).players = S.players /\ Dropped(S, k, r).stream = S.stream
         /\ Dropped(S, k, r).unwound = S.unwound
<1>1. CASE Shared(S, k, r)
  <2>1. Dropped(S, k, r) = S BY <1>1 DEF Dropped
  <2>2. Steps(S, S, {}) BY DEF Steps
  <2> QED BY <2>1, <2>2
<1>2. CASE ~Shared(S, k, r)
  <2> DEFINE F == Fresh(S.keys[k])
             K == [F EXCEPT !.cache = <<>>]
             T == [S EXCEPT !.keys[k] = K]
  <2>1. S.keys[k] \in KeyType /\ Caught(S.keys[k]) BY DEF StateType, Sound
  <2>2. /\ F \in KeyType /\ F.phase = S.keys[k].phase /\ F.waiting = S.keys[k].waiting
        /\ F.task = S.keys[k].task /\ F.owned = S.keys[k].owned
        /\ F.spoiled = S.keys[k].spoiled
    BY <2>1, FreshFacts
  <2> HIDE DEF F
  <2>3. /\ K \in KeyType /\ K.phase = F.phase /\ K.waiting = F.waiting
        /\ K.task = F.task /\ K.owned = F.owned /\ K.spoiled = F.spoiled
    <3>1. F \in KeyType /\ <<>> \in Seq(Label) BY <2>2
    <3> QED BY <3>1, CacheSet, Zenon
  <2>4. Dropped(S, k, r) = T BY <1>2 DEF Dropped, F, StateType
  <2> HIDE DEF K
  <2>5. Caught(K) /\ (S.stream.stopped => ~K.owned)
    BY <2>1, <2>2, <2>3 DEF Caught, Idle, Sound
  <2>6. Steps(S, T, {}) BY <2>3, <2>5, KeySteps
  <2>7. /\ T \in StateType /\ T.players = S.players /\ T.stream = S.stream
        /\ T.unwound = S.unwound
    BY <2>3, SetKey
  <2> HIDE DEF T
  <2> QED BY <2>4, <2>6, <2>7
<1> QED BY <1>1, <1>2

-----------------------------------------------------------------------------
(* Catch-up tasks.                                                             *)

\* All is sound but for the progress of the catch-up of k, which runs.
Running(S, k) ==
  /\ \A j \in Keys \ {k} : Caught(S.keys[j])
  /\ S.keys[k].phase = "catching" /\ S.keys[k].owned /\ S.keys[k].task.running
  /\ S.keys[k].waiting # {}
  /\ \A r \in Roles : Told(S.players[r])
  /\ S.stream.stopped => /\ \A j \in Keys : ~S.keys[j].owned
                         /\ \A r \in Roles : ~S.players[r].started

\* What a hand-off makes of the format, and of the players.
HandedTail(S, k) ==
  IF S.stream.flush = "done" /\ S.keys[k].held # 0 THEN <<S.keys[k].held>> ELSE <<>>

HandedKey(S, k) ==
  [S.keys[k] EXCEPT !.phase = "live", !.cache = S.keys[k].cache \o HandedTail(S, k),
                    !.held = IF HandedTail(S, k) = <<>> THEN @ ELSE 0,
                    !.owned = FALSE, !.task = NoTask]

HandedFrom(S, k, w) ==
  IF S.players[w[1]].resume # 0 THEN S.players[w[1]].resume
  ELSE IF w[2] = 0 THEN S.keys[k].task.target ELSE w[2]

HandedPlayer(S, k, r) ==
  IF \E w \in S.keys[k].waiting : w[1] = r
  THEN ReceiveCached(S.players[r], S.keys[k].cache \o HandedTail(S, k),
                     HandedFrom(S, k, CHOOSE w \in S.keys[k].waiting : w[1] = r),
                     S.stream.pcm)
  ELSE S.players[r]

LEMMA HandoffIs ==
  ASSUME NEW S \in StateType, NEW k \in Keys
  PROVE  Handoff(S, k) = [S EXCEPT !.keys[k] = HandedKey(S, k),
                                   !.players = [r \in Roles |-> HandedPlayer(S, k, r)]]
<1> DEFINE tail == HandedTail(S, k)
           cached == S.keys[k].cache \o tail
           P == [r \in Roles |->
                  IF \E w \in S.keys[k].waiting : w[1] = r
                  THEN ReceiveCached(S.players[r], cached,
                         HandedFrom(S, k, CHOOSE w \in S.keys[k].waiting : w[1] = r),
                         S.stream.pcm)
                  ELSE S.players[r]]
<1>1. Handoff(S, k)
        = [S EXCEPT !.keys[k] = [@ EXCEPT !.phase = "live", !.cache = cached,
                                          !.held = IF tail = <<>> THEN S.keys[k].held ELSE 0,
                                          !.owned = FALSE, !.task = NoTask],
                    !.players = P]
  BY Zenon DEF Handoff, HandedFrom, HandedTail
<1>2. P = [r \in Roles |-> HandedPlayer(S, k, r)] BY Zenon DEF HandedPlayer
<1>3. [S.keys[k] EXCEPT !.phase = "live", !.cache = cached,
                        !.held = IF tail = <<>> THEN @ ELSE 0,
                        !.owned = FALSE, !.task = NoTask] = HandedKey(S, k)
  BY Zenon DEF HandedKey
<1> HIDE DEF P, cached, tail
<1> QED BY <1>1, <1>2, <1>3 DEF StateType

LEMMA HandedKeyFacts ==
  ASSUME NEW S \in StateType, NEW k \in Keys
  PROVE  /\ HandedTail(S, k) \in Seq(Label)
         /\ S.keys[k].cache \o HandedTail(S, k) \in Seq(Label)
         /\ HandedKey(S, k) \in KeyType
         /\ HandedKey(S, k).phase = "live" /\ ~HandedKey(S, k).owned
         /\ HandedKey(S, k).task = NoTask
         /\ HandedKey(S, k).cache = S.keys[k].cache \o HandedTail(S, k)
         /\ HandedKey(S, k).held = IF HandedTail(S, k) = <<>> THEN S.keys[k].held ELSE 0
         /\ HandedKey(S, k).last = S.keys[k].last
         /\ HandedKey(S, k).waiting = S.keys[k].waiting
         /\ HandedKey(S, k).spoiled = S.keys[k].spoiled
         /\ Caught(HandedKey(S, k))
<1> DEFINE K == S.keys[k]
           tail == HandedTail(S, k)
           cached == K.cache \o tail
           held == IF tail = <<>> THEN K.held ELSE 0
           T == HandedKey(S, k)
<1>1. K \in KeyType BY DEF StateType
<1>2. K.held \in Label /\ K.cache \in Seq(Label) BY <1>1 DEF KeyType
<1>3. tail \in Seq(Label) BY <1>2 DEF HandedTail
<1> HIDE DEF K, tail
<1>4. cached \in Seq(Label) BY <1>2, <1>3
<1>5. held \in Label BY <1>2, EndFacts
<1>6. T = [K EXCEPT !.phase = "live", !.cache = cached, !.held = held,
                    !.owned = FALSE, !.task = NoTask]
  BY DEF HandedKey, K, tail
<1>7. NoTask \in TaskType BY Defaults
<1> HIDE DEF cached, held, T
<1>8. /\ T \in KeyType /\ T.phase = "live" /\ ~T.owned /\ T.task = NoTask /\ T.cache = cached
      /\ T.held = held /\ T.last = K.last /\ T.waiting = K.waiting /\ T.spoiled = K.spoiled
  BY <1>1, <1>4, <1>5, <1>6, <1>7 DEF KeyType, Phases
<1>9. Caught(T) BY <1>8 DEF Caught, Idle, NoTask
<1> QED BY <1>3, <1>4, <1>8, <1>9 DEF T, K, tail, cached, held

LEMMA HandedPlayerFacts ==
  ASSUME NEW S \in StateType, NEW k \in Keys, NEW r \in Roles
  PROVE  Hears(S.players[r], HandedPlayer(S, k, r)) /\ HandedPlayer(S, k, r) \in PlayerType
<1>1. S.players[r] \in PlayerType BY DEF StateType
<1>2. S.keys[k].cache \o HandedTail(S, k) \in Seq(Label) BY HandedKeyFacts
<1>3. Hears(S.players[r], HandedPlayer(S, k, r))
  BY <1>1, <1>2, CachedHears, HearsOrder DEF HandedPlayer
<1> QED BY <1>3 DEF Hears

LEMMA HearsSteps ==
  ASSUME NEW p \in PlayerType, NEW q, Hears(p, q), Told(p)
  PROVE  Told(q) /\ (q.pending => p.pending)
BY HearsTold DEF Hears

LEMMA HandoffSteps ==
  ASSUME NEW S \in StateType, NEW k \in Keys, Running(S, k)
  PROVE  /\ Steps(S, Handoff(S, k), {}) /\ Handoff(S, k) \in StateType
         /\ Handoff(S, k).unwound = S.unwound
         /\ Handoff(S, k).keys[k] = HandedKey(S, k)
         /\ \A j \in Keys \ {k} : Handoff(S, k).keys[j] = S.keys[j]
         /\ \A r \in Roles : Handoff(S, k).players[r] = HandedPlayer(S, k, r)
<1> DEFINE K == HandedKey(S, k)
           P(r) == HandedPlayer(S, k, r)
           T == [S EXCEPT !.keys[k] = K, !.players = [r \in Roles |-> P(r)]]
<1>1. Handoff(S, k) = T BY HandoffIs
<1>2. K \in KeyType /\ Caught(K) /\ ~K.owned BY HandedKeyFacts
<1>3. ASSUME NEW r \in Roles
      PROVE  P(r) \in PlayerType /\ Told(P(r)) /\ (P(r).pending => S.players[r].pending)
  <2>1. S.players[r] \in PlayerType /\ Told(S.players[r]) BY DEF StateType, Running
  <2> QED BY <2>1, HandedPlayerFacts, HearsSteps
<1>4. ~S.stream.stopped BY DEF Running
<1> HIDE DEF K, P
<1>5. /\ T \in StateType /\ T.unwound = S.unwound /\ T.stream = S.stream
      /\ T.keys[k] = K /\ \A j \in Keys \ {k} : T.keys[j] = S.keys[j]
      /\ \A r \in Roles : T.players[r] = P(r)
  BY <1>2, <1>3 DEF StateType
<1> HIDE DEF T
<1>6. Sound(T) BY <1>2, <1>3, <1>4, <1>5 DEF Sound, Running
<1>7. Steps(S, T, {}) BY <1>3, <1>5, <1>6 DEF Steps
<1> QED BY <1>1, <1>5, <1>7 DEF K, P

\* A catch-up with a batch more to encode, and one that waits.
NewBatch(K, todo) ==
  [K EXCEPT !.task = [@ EXCEPT !.todo = todo, !.src = Max(todo) + 1, !.waiting = FALSE]]

Waits(K) == [K EXCEPT !.task.waiting = TRUE]

LEMMA NewBatchFacts ==
  ASSUME NEW K \in KeyType, NEW todo \in SUBSET Chunk, Max(todo) + 1 \in Instant
  PROVE  /\ NewBatch(K, todo) \in KeyType
         /\ NewBatch(K, todo).task.todo = todo /\ NewBatch(K, todo).task.src = Max(todo) + 1
         /\ ~NewBatch(K, todo).task.waiting
         /\ NewBatch(K, todo).task.running = K.task.running
         /\ NewBatch(K, todo).task.got = K.task.got /\ NewBatch(K, todo).task.enc = K.task.enc
         /\ NewBatch(K, todo).task.target = K.task.target
         /\ NewBatch(K, todo).task.drain = K.task.drain
         /\ NewBatch(K, todo).phase = K.phase /\ NewBatch(K, todo).waiting = K.waiting
         /\ NewBatch(K, todo).held = K.held /\ NewBatch(K, todo).last = K.last
         /\ NewBatch(K, todo).cache = K.cache /\ NewBatch(K, todo).owned = K.owned
         /\ NewBatch(K, todo).spoiled = K.spoiled
<1> DEFINE src == Max(todo) + 1
           task == [K.task EXCEPT !.todo = todo, !.src = src, !.waiting = FALSE]
<1>1. K.task \in TaskType /\ src \in Instant BY DEF KeyType
<1>2. NewBatch(K, todo) = [K EXCEPT !.task = task] BY DEF NewBatch
<1> HIDE DEF src
<1>3. /\ task \in TaskType /\ task.todo = todo /\ task.src = src /\ ~task.waiting
      /\ task.running = K.task.running /\ task.got = K.task.got /\ task.enc = K.task.enc
      /\ task.target = K.task.target /\ task.drain = K.task.drain
  BY <1>1 DEF TaskType
<1> HIDE DEF task
<1>4. /\ NewBatch(K, todo) \in KeyType /\ NewBatch(K, todo).task = task
      /\ NewBatch(K, todo).phase = K.phase /\ NewBatch(K, todo).waiting = K.waiting
      /\ NewBatch(K, todo).held = K.held /\ NewBatch(K, todo).last = K.last
      /\ NewBatch(K, todo).cache = K.cache /\ NewBatch(K, todo).owned = K.owned
      /\ NewBatch(K, todo).spoiled = K.spoiled
  BY <1>2, <1>3 DEF KeyType
<1> QED BY <1>3, <1>4 DEF src

LEMMA WaitsFacts ==
  ASSUME NEW K \in KeyType
  PROVE  /\ Waits(K) \in KeyType /\ Waits(K).task = [K.task EXCEPT !.waiting = TRUE]
         /\ Waits(K).task.waiting
         /\ Waits(K).task.running = K.task.running /\ Waits(K).task.todo = K.task.todo
         /\ Waits(K).task.got = K.task.got /\ Waits(K).task.enc = K.task.enc
         /\ Waits(K).task.target = K.task.target /\ Waits(K).task.src = K.task.src
         /\ Waits(K).phase = K.phase /\ Waits(K).waiting = K.waiting
         /\ Waits(K).held = K.held /\ Waits(K).last = K.last
         /\ Waits(K).cache = K.cache /\ Waits(K).owned = K.owned
         /\ Waits(K).spoiled = K.spoiled
<1> DEFINE task == [K.task EXCEPT !.waiting = TRUE]
<1>1. K.task \in TaskType BY DEF KeyType
<1>2. Waits(K) = [K EXCEPT !.task = task] BY DEF Waits
<1>3. /\ task \in TaskType /\ task.waiting /\ task.running = K.task.running
      /\ task.todo = K.task.todo /\ task.got = K.task.got /\ task.enc = K.task.enc
      /\ task.target = K.task.target /\ task.src = K.task.src
  BY <1>1 DEF TaskType
<1> HIDE DEF task
<1>4. /\ Waits(K) \in KeyType /\ Waits(K).task = task
      /\ Waits(K).phase = K.phase /\ Waits(K).waiting = K.waiting
      /\ Waits(K).held = K.held /\ Waits(K).last = K.last
      /\ Waits(K).cache = K.cache /\ Waits(K).owned = K.owned
      /\ Waits(K).spoiled = K.spoiled
  BY <1>2, <1>3 DEF KeyType
<1>5. Waits(K).task = [K.task EXCEPT !.waiting = TRUE] BY <1>4 DEF task
<1> QED BY <1>3, <1>4, <1>5

LEMMA RunningKey ==
  ASSUME NEW S \in StateType, NEW k \in Keys, Running(S, k), NEW K \in KeyType,
         K.phase = "catching", K.owned, K.task.running, K.waiting # {}
  PROVE  /\ [S EXCEPT !.keys[k] = K] \in StateType
         /\ Running([S EXCEPT !.keys[k] = K], k)
         /\ K.task.todo # {} \/ K.task.waiting => Steps(S, [S EXCEPT !.keys[k] = K], {})
<1> DEFINE T == [S EXCEPT !.keys[k] = K]
<1>1. /\ T \in StateType /\ T.stream = S.stream /\ T.players = S.players
      /\ T.keys[k] = K /\ \A j \in Keys \ {k} : T.keys[j] = S.keys[j]
  BY SetKey
<1> HIDE DEF T
<1>2. Running(T, k) BY <1>1 DEF Running
<1>3. ASSUME K.task.todo # {} \/ K.task.waiting PROVE Steps(S, T, {})
  <2>1. Caught(K) BY <1>3 DEF Caught
  <2>2. Sound(T) BY <1>1, <2>1 DEF Sound, Running
  <2> QED BY <1>1, <2>2 DEF Steps
<1> QED BY <1>1, <1>2, <1>3 DEF T

\* What comes between two batches.
LEMMA NextBatchIs ==
  ASSUME NEW S \in StateType, NEW k \in Keys
  PROVE  LET K == S.keys[k]
             new == ChunksAfter(S, K.task.src)
         IN  NextBatch(S, k)
               = IF new # {} THEN [S EXCEPT !.keys[k] = NewBatch(K, new)]
                 ELSE IF K.task.enc < K.task.target /\ ~K.task.drain
                 THEN [S EXCEPT !.keys[k] = Waits(K)]
                 ELSE Handoff(S, k)
<1> DEFINE K == S.keys[k]
           new == ChunksAfter(S, K.task.src)
           src == Max(new) + 1
<1>1. [S EXCEPT !.keys[k].task = [@ EXCEPT !.todo = new, !.src = Max(new) + 1,
                                           !.waiting = FALSE]]
        = [S EXCEPT !.keys[k] = NewBatch(K, new)]
  <2>1. NewBatch(K, new) = [K EXCEPT !.task = [K.task EXCEPT !.todo = new, !.src = src,
                                                             !.waiting = FALSE]]
    BY DEF NewBatch
  <2> HIDE DEF src, new
  <2>2. [S EXCEPT !.keys[k].task = [@ EXCEPT !.todo = new, !.src = src, !.waiting = FALSE]]
          = [S EXCEPT !.keys[k] = [K EXCEPT !.task = [K.task EXCEPT !.todo = new, !.src = src,
                                                                    !.waiting = FALSE]]]
    BY DEF StateType
  <2> QED BY <2>1, <2>2 DEF src
<1>2. [S EXCEPT !.keys[k].task.waiting = TRUE] = [S EXCEPT !.keys[k] = Waits(K)]
  BY DEF Waits, StateType
<1>3. NextBatch(S, k)
        = IF new # {}
          THEN [S EXCEPT !.keys[k].task = [@ EXCEPT !.todo = new, !.src = Max(new) + 1,
                                                    !.waiting = FALSE]]
          ELSE IF K.task.enc < K.task.target /\ ~K.task.drain
          THEN [S EXCEPT !.keys[k].task.waiting = TRUE]
          ELSE Handoff(S, k)
  BY Zenon DEF NextBatch
<1> QED BY <1>1, <1>2, <1>3

LEMMA NextBatchSteps ==
  ASSUME NEW S \in StateType, NEW k \in Keys, Running(S, k)
  PROVE  /\ Steps(S, NextBatch(S, k), {}) /\ NextBatch(S, k) \in StateType
         /\ NextBatch(S, k).unwound = S.unwound
<1> DEFINE K == S.keys[k]
           new == ChunksAfter(S, K.task.src)
           T == NextBatch(S, k)
           Goal == Steps(S, T, {}) /\ T \in StateType /\ T.unwound = S.unwound
<1> SUFFICES Goal OBVIOUS
<1>1. K \in KeyType BY DEF StateType
<1>2. /\ K.phase = "catching" /\ K.owned /\ K.task.running /\ K.waiting # {}
  BY DEF Running
<1>3. new \in SUBSET Chunk /\ (new # {} => Max(new) + 1 \in Instant) BY PcmFacts
<1>4. T = IF new # {} THEN [S EXCEPT !.keys[k] = NewBatch(K, new)]
          ELSE IF K.task.enc < K.task.target /\ ~K.task.drain
          THEN [S EXCEPT !.keys[k] = Waits(K)]
          ELSE Handoff(S, k)
  BY NextBatchIs
<1> HIDE DEF T, K, new
<1>5. CASE new # {}
  <2> DEFINE K2 == NewBatch(K, new)
  <2>1. /\ K2 \in KeyType /\ K2.phase = "catching" /\ K2.owned /\ K2.task.running
        /\ K2.waiting # {} /\ K2.task.todo # {}
    BY <1>1, <1>2, <1>3, <1>5, NewBatchFacts
  <2>2. T = [S EXCEPT !.keys[k] = K2] BY <1>4, <1>5
  <2> HIDE DEF K2
  <2> QED BY <2>1, <2>2, RunningKey, SetKey
<1>6. CASE new = {} /\ K.task.enc < K.task.target /\ ~K.task.drain
  <2> DEFINE K2 == Waits(K)
  <2>1. /\ K2 \in KeyType /\ K2.phase = "catching" /\ K2.owned /\ K2.task.running
        /\ K2.waiting # {} /\ K2.task.waiting
    BY <1>1, <1>2, WaitsFacts
  <2>2. T = [S EXCEPT !.keys[k] = K2] BY <1>4, <1>6
  <2> HIDE DEF K2
  <2> QED BY <2>1, <2>2, RunningKey, SetKey
<1>7. CASE T = Handoff(S, k) BY <1>7, HandoffSteps
<1> QED BY <1>4, <1>5, <1>6, <1>7

\* The record of a format with its batch cached.
Batched(K) ==
  [K EXCEPT !.cache = @ \o K.task.got, !.task.got = <<>>,
            !.task.enc = IF K.task.got = <<>> THEN @ ELSE Last(K.task.got) + 1]

LEMMA BatchedFacts ==
  ASSUME NEW K \in KeyType
  PROVE  /\ Batched(K) \in KeyType /\ Batched(K).cache = K.cache \o K.task.got
         /\ Batched(K).phase = K.phase /\ Batched(K).waiting = K.waiting
         /\ Batched(K).held = K.held /\ Batched(K).last = K.last
         /\ Batched(K).owned = K.owned /\ Batched(K).spoiled = K.spoiled
         /\ Batched(K).task.got = <<>> /\ Batched(K).task.todo = K.task.todo
         /\ Batched(K).task.target = K.task.target /\ Batched(K).task.src = K.task.src
         /\ Batched(K).task.running = K.task.running
         /\ Batched(K).task.waiting = K.task.waiting
         /\ Batched(K).task.drain = K.task.drain
<1> DEFINE got == K.task.got
           enc == IF got = <<>> THEN K.task.enc ELSE Last(got) + 1
           cache == K.cache \o got
           task == [K.task EXCEPT !.got = <<>>, !.enc = enc]
<1>1. K.task \in TaskType /\ K.cache \in Seq(Label) BY DEF KeyType
<1>2. got \in Seq(Label) /\ K.task.enc \in Instant BY <1>1 DEF TaskType
<1>3. enc \in Instant
  <2>1. CASE got # <<>>
    <3>1. Last(got) \in Label BY <1>2, <2>1 DEF Last
    <3>2. Last(got) + 1 \in Instant BY <3>1, EndFacts
    <3> QED BY <2>1, <3>2
  <2> QED BY <1>2, <2>1
<1>4. cache \in Seq(Label) BY <1>1, <1>2
<1>5. Batched(K) = [K EXCEPT !.cache = cache, !.task = task]
  BY DEF Batched, KeyType, TaskType
<1> HIDE DEF enc, cache, got
<1>6. /\ task \in TaskType /\ task.got = <<>> /\ task.todo = K.task.todo
      /\ task.target = K.task.target /\ task.src = K.task.src
      /\ task.running = K.task.running /\ task.waiting = K.task.waiting
      /\ task.drain = K.task.drain
  <2> DEFINE none == <<>>
             task2 == [K.task EXCEPT !.got = none, !.enc = enc]
  <2>1. none \in Seq(Label) OBVIOUS
  <2> HIDE DEF none
  <2>2. /\ task2 \in TaskType /\ task2.got = none /\ task2.todo = K.task.todo
        /\ task2.target = K.task.target /\ task2.src = K.task.src
        /\ task2.running = K.task.running /\ task2.waiting = K.task.waiting
        /\ task2.drain = K.task.drain
    BY <1>1, <1>3, <2>1 DEF TaskType
  <2> QED BY <2>2, Zenon DEF none
<1> HIDE DEF task
<1>7. /\ Batched(K) \in KeyType /\ Batched(K).cache = cache /\ Batched(K).task = task
      /\ Batched(K).phase = K.phase /\ Batched(K).waiting = K.waiting
      /\ Batched(K).held = K.held /\ Batched(K).last = K.last
      /\ Batched(K).owned = K.owned /\ Batched(K).spoiled = K.spoiled
  BY <1>4, <1>5, <1>6 DEF KeyType
<1> QED BY <1>6, <1>7 DEF cache, got

LEMMA BatchCachedSteps ==
  ASSUME NEW S \in StateType, NEW k \in Keys, Running(S, k)
  PROVE  /\ Steps(S, BatchCached(S, k), {}) /\ BatchCached(S, k) \in StateType
         /\ BatchCached(S, k).unwound = S.unwound
<1> DEFINE K == Batched(S.keys[k])
           T == [S EXCEPT !.keys[k] = K]
<1>1. S.keys[k] \in KeyType BY DEF StateType
<1>2. /\ K \in KeyType /\ K.phase = "catching" /\ K.owned /\ K.task.running /\ K.waiting # {}
  BY <1>1, BatchedFacts DEF Running
<1>3. BatchCached(S, k) = NextBatch(T, k) BY DEF BatchCached, Batched
<1> HIDE DEF K
<1>4. /\ T \in StateType /\ Running(T, k) /\ T.players = S.players /\ T.stream = S.stream
      /\ T.unwound = S.unwound
  BY <1>2, RunningKey, SetKey
<1> HIDE DEF T
<1>5. /\ Steps(T, NextBatch(T, k), {}) /\ NextBatch(T, k) \in StateType
      /\ NextBatch(T, k).unwound = T.unwound
  BY <1>4, NextBatchSteps
<1>6. Steps(S, NextBatch(T, k), {}) BY <1>4, <1>5 DEF Steps
<1> QED BY <1>3, <1>4, <1>5, <1>6

\* The record of a format with the next chunk of its catch-up encoded.
ChunkEncoded(k, K, ts) ==
  [Encoded(k, K, ts) EXCEPT !.task.got = @ \o Emitted(k, K, ts), !.task.todo = @ \ {ts}]

LEMMA ChunkEncodedFacts ==
  ASSUME NEW k \in Keys, NEW K \in KeyType, NEW ts \in Chunk
  PROVE  /\ ChunkEncoded(k, K, ts) \in KeyType
         /\ ChunkEncoded(k, K, ts).held = IF k \in Buffering THEN ts ELSE 0
         /\ ChunkEncoded(k, K, ts).last = ts + 1
         /\ ChunkEncoded(k, K, ts).phase = K.phase
         /\ ChunkEncoded(k, K, ts).waiting = K.waiting
         /\ ChunkEncoded(k, K, ts).cache = K.cache
         /\ ChunkEncoded(k, K, ts).owned = K.owned
         /\ ChunkEncoded(k, K, ts).spoiled = K.spoiled
         /\ ChunkEncoded(k, K, ts).task.got = K.task.got \o Emitted(k, K, ts)
         /\ ChunkEncoded(k, K, ts).task.todo = K.task.todo \ {ts}
         /\ ChunkEncoded(k, K, ts).task.target = K.task.target
         /\ ChunkEncoded(k, K, ts).task.src = K.task.src
         /\ ChunkEncoded(k, K, ts).task.enc = K.task.enc
         /\ ChunkEncoded(k, K, ts).task.running = K.task.running
         /\ ChunkEncoded(k, K, ts).task.waiting = K.task.waiting
         /\ ChunkEncoded(k, K, ts).task.drain = K.task.drain
<1> DEFINE E == Encoded(k, K, ts)
           got == K.task.got \o Emitted(k, K, ts)
           todo == K.task.todo \ {ts}
           task == [K.task EXCEPT !.got = got, !.todo = todo]
           T == ChunkEncoded(k, K, ts)
<1>1. /\ E \in KeyType /\ E.held = IF k \in Buffering THEN ts ELSE 0
      /\ E.last = ts + 1 /\ E.phase = K.phase /\ E.waiting = K.waiting
      /\ E.cache = K.cache /\ E.task = K.task /\ E.owned = K.owned /\ E.spoiled = K.spoiled
  BY EncodedFacts
<1>2. K.task \in TaskType BY DEF KeyType
<1>3. got \in Seq(Label) /\ todo \in SUBSET Chunk
  <2>1. K.task.got \in Seq(Label) /\ K.task.todo \in SUBSET Chunk BY <1>2 DEF TaskType
  <2>2. Emitted(k, K, ts) \in Seq(Label) BY EmittedFacts
  <2> QED BY <2>1, <2>2
<1> HIDE DEF E
<1>4. T = [E EXCEPT !.task = task]
  <2>1. T = [E EXCEPT !.task.got = E.task.got \o Emitted(k, K, ts),
                      !.task.todo = E.task.todo \ {ts}]
    BY <1>1, <1>2 DEF ChunkEncoded, E, KeyType, TaskType
  <2> HIDE DEF T
  <2>2. T = [E EXCEPT !.task.got = got, !.task.todo = todo] BY <1>1, <2>1
  <2> HIDE DEF got, todo
  <2> QED BY <1>1, <2>2 DEF KeyType, TaskType
<1> HIDE DEF T, got, todo
<1>5. /\ task \in TaskType /\ task.got = got /\ task.todo = todo
      /\ task.target = K.task.target /\ task.src = K.task.src /\ task.enc = K.task.enc
      /\ task.running = K.task.running /\ task.waiting = K.task.waiting
      /\ task.drain = K.task.drain
  BY <1>2, <1>3 DEF TaskType
<1> HIDE DEF task
<1>6. /\ T \in KeyType /\ T.task = task /\ T.held = E.held /\ T.last = E.last
      /\ T.phase = E.phase /\ T.waiting = E.waiting /\ T.cache = E.cache
      /\ T.owned = E.owned /\ T.spoiled = E.spoiled
  BY <1>1, <1>4, <1>5 DEF KeyType
<1> QED BY <1>1, <1>5, <1>6 DEF T, got, todo

LEMMA EncodesSteps ==
  ASSUME NEW S \in StateType, NEW k \in Keys, Running(S, k), S.keys[k].task.todo # {}
  PROVE  LET K == S.keys[k]
             ts == Min(K.task.todo)
             T == [S EXCEPT !.keys[k] = ChunkEncoded(k, K, ts)]
             U == IF K.task.todo = {ts} THEN BatchCached(T, k) ELSE T
         IN  /\ ts \in Chunk /\ ts \in K.task.todo
             /\ T \in StateType /\ Running(T, k)
             /\ Steps(S, U, {}) /\ U \in StateType /\ U.unwound = S.unwound
<1> DEFINE K == S.keys[k]
           ts == Min(K.task.todo)
           E == ChunkEncoded(k, K, ts)
           T == [S EXCEPT !.keys[k] = E]
           U == IF K.task.todo = {ts} THEN BatchCached(T, k) ELSE T
<1>1. K \in KeyType /\ K.task.todo \in SUBSET Chunk BY DEF StateType, KeyType, TaskType
<1>2. ts \in K.task.todo
  <2>1. K.task.todo \in SUBSET (0 .. End) /\ End \in Nat BY <1>1, EndFacts DEF Chunk
  <2> HIDE DEF K
  <2>2. K.task.todo # {} BY DEF K
  <2> QED BY <2>1, <2>2, MinMax
<1>3. ts \in Chunk BY <1>1, <1>2
<1>4. /\ K.phase = "catching" /\ K.owned /\ K.task.running /\ K.waiting # {} BY DEF Running
<1> HIDE DEF K, ts
<1>5. /\ E \in KeyType /\ E.phase = "catching" /\ E.owned /\ E.task.running /\ E.waiting # {}
      /\ E.task.todo = K.task.todo \ {ts}
  BY <1>1, <1>3, <1>4, ChunkEncodedFacts
<1> HIDE DEF E
<1>6. /\ T \in StateType /\ Running(T, k)
      /\ E.task.todo # {} => Steps(S, T, {})
      /\ T.players = S.players /\ T.stream = S.stream /\ T.unwound = S.unwound
  BY <1>5, RunningKey, SetKey
<1> HIDE DEF T
<1>7. CASE K.task.todo = {ts}
  <2>1. /\ Steps(T, BatchCached(T, k), {}) /\ BatchCached(T, k) \in StateType
        /\ BatchCached(T, k).unwound = T.unwound
    BY <1>6, BatchCachedSteps
  <2>2. Steps(S, BatchCached(T, k), {}) BY <1>6, <2>1 DEF Steps
  <2>3. Steps(S, U, {}) /\ U \in StateType /\ U.unwound = S.unwound BY <1>6, <1>7, <2>1, <2>2
  <2> QED BY <1>2, <1>3, <1>6, <2>3 DEF K, ts, E, T
<1>8. CASE K.task.todo # {ts}
  <2>1. E.task.todo # {} BY <1>2, <1>5, <1>8
  <2>3. Steps(S, U, {}) /\ U \in StateType /\ U.unwound = S.unwound BY <1>6, <1>8, <2>1
  <2> QED BY <1>2, <1>3, <1>6, <2>3 DEF K, ts, E, T
<1> QED BY <1>7, <1>8

\* The record of a format whose cancelled task unwinds.
Unwound(K) ==
  IF K.phase = "live" THEN [K EXCEPT !.owned = FALSE]
  ELSE [Fresh(K) EXCEPT !.phase = "none", !.waiting = {}, !.cache = <<>>, !.owned = FALSE,
                        !.spoiled = K.spoiled \/ K.owned]

LEMMA UnwoundFacts ==
  ASSUME NEW K \in KeyType, Caught(K)
  PROVE  /\ Unwound(K) \in KeyType /\ Caught(Unwound(K)) /\ ~Unwound(K).owned
         /\ Unwound(K).task = K.task /\ Unwound(K).phase # "catching"
<1>1. CASE K.phase = "live"
  <2>1. Unwound(K) = [K EXCEPT !.owned = FALSE] BY <1>1 DEF Unwound
  <2>2. ~K.owned BY <1>1 DEF Caught
  <2>3. Unwound(K) = K BY <2>1, <2>2 DEF KeyType
  <2> QED BY <1>1, <2>2, <2>3
<1>2. CASE K.phase # "live"
  <2> DEFINE F == Fresh(K)
             none == <<>>
             spoiled == K.spoiled \/ K.owned
             T == [F EXCEPT !.phase = "none", !.waiting = {}, !.cache = none, !.owned = FALSE,
                            !.spoiled = spoiled]
  <2>1. F \in KeyType /\ F.task = K.task BY FreshFacts
  <2>2. none \in Seq(Label) /\ spoiled \in BOOLEAN OBVIOUS
  <2>3. Unwound(K) = T BY <1>2 DEF Unwound
  <2> HIDE DEF F, none, spoiled
  <2>4. /\ T \in KeyType /\ T.phase = "none" /\ ~T.owned /\ T.task = F.task
        /\ T.spoiled = spoiled
    BY <2>1, <2>2 DEF KeyType, Phases
  <2> HIDE DEF T
  <2>5. Caught(T) BY <2>1, <2>4 DEF Caught, Idle, spoiled
  <2> QED BY <2>1, <2>3, <2>4, <2>5
<1> QED BY <1>1, <1>2

LEMMA CleanedUpSteps ==
  ASSUME NEW S \in StateType, Sound(S), NEW k \in Keys
  PROVE  /\ Steps(S, CleanedUp(S, k), {}) /\ CleanedUp(S, k) \in StateType
<1> DEFINE K == Unwound(S.keys[k])
           R == [S EXCEPT !.unwound = S.unwound \ {k}]
           T == [R EXCEPT !.keys[k] = K]
<1>1. S.keys[k] \in KeyType /\ Caught(S.keys[k]) BY DEF StateType, Sound
<1>2. K \in KeyType /\ Caught(K) /\ ~K.owned BY <1>1, UnwoundFacts
<1>3. CleanedUp(S, k) = T BY DEF CleanedUp, Unwound, StateType
<1>4. /\ R \in StateType /\ R.stream = S.stream /\ R.keys = S.keys /\ R.players = S.players
  BY DEF StateType
<1> HIDE DEF R, K
<1>5. Sound(R) BY <1>4 DEF Sound
<1>6. Steps(R, T, {}) BY <1>2, <1>4, <1>5, KeySteps
<1>7. Steps(S, T, {}) BY <1>4, <1>6 DEF Steps
<1> QED BY <1>3, <1>7 DEF Steps

-----------------------------------------------------------------------------
(* Commits and flushes.                                                        *)

LEMMA ExpiredFacts ==
  ASSUME NEW cache \in Seq(Label), now \in Nat
  PROVE  /\ Expired(cache) \in 0 .. Len(cache)
         /\ \A i \in 1 .. Expired(cache) : cache[i] + 1 <= now
         /\ Expired(cache) = Len(cache) \/ cache[Expired(cache) + 1] + 1 > now
<1> DEFINE A == {n \in 0 .. Len(cache) : \A i \in 1 .. n : cache[i] + 1 <= now}
<1>1. Len(cache) \in Nat OBVIOUS
<1>2. A \in SUBSET (0 .. Len(cache)) /\ 0 \in A BY <1>1
<1> HIDE DEF A
<1>3. PICK N \in A : \A n \in A : n <= N BY <1>1, <1>2, Extremes
<1>4. N \in 0 .. Len(cache) /\ \A i \in 1 .. N : cache[i] + 1 <= now BY <1>3 DEF A
<1>5. ASSUME N # Len(cache) PROVE cache[N + 1] + 1 > now
  <2>1. N + 1 \in 1 .. Len(cache) BY <1>1, <1>4, <1>5
  <2>5. cache[N + 1] \in Label BY <2>1
  <2>2. cache[N + 1] \in Nat BY <2>5, EndFacts
  <2> SUFFICES ASSUME cache[N + 1] + 1 <= now PROVE FALSE BY <2>2
  <2>3. \A i \in 1 .. N + 1 : cache[i] + 1 <= now BY <1>4
  <2>4. N + 1 \in A BY <2>1, <2>3 DEF A
  <2> QED BY <1>3, <1>4, <2>4
<1>6. \E n \in 0 .. Len(cache) : /\ \A i \in 1 .. n : cache[i] + 1 <= now
                                 /\ n = Len(cache) \/ cache[n + 1] + 1 > now
  BY <1>4, <1>5
<1> QED BY <1>6 DEF Expired

Kept(cache) == SubSeq(cache, Expired(cache) + 1, Len(cache))

LEMMA KeptFacts ==
  ASSUME NEW cache \in Seq(Label), now \in Nat
  PROVE  /\ Kept(cache) \in Seq(Label)
         /\ Len(Kept(cache)) = Len(cache) - Expired(cache)
         /\ \A i \in 1 .. Len(Kept(cache)) : Kept(cache)[i] = cache[Expired(cache) + i]
<1> DEFINE n == Expired(cache)
<1>1. n \in 0 .. Len(cache) /\ Len(cache) \in Nat BY ExpiredFacts
<1> HIDE DEF n
<1>2. /\ SubSeq(cache, n + 1, Len(cache)) \in Seq(Label)
      /\ Len(SubSeq(cache, n + 1, Len(cache))) = Len(cache) - n
      /\ \A i \in 1 .. Len(cache) - n : SubSeq(cache, n + 1, Len(cache))[i] = cache[n + i]
  BY <1>1
<1> QED BY <1>2 DEF Kept, n

LEMMA PrunedFacts ==
  ASSUME NEW S \in StateType, now \in Nat
  PROVE  /\ Pruned(S) \in StateType /\ Pruned(S).players = S.players
         /\ Pruned(S).unwound = S.unwound
         /\ Pruned(S).stream.stopped = S.stream.stopped
         /\ Pruned(S).stream.flush = S.stream.flush
         /\ Pruned(S).stream.tail = S.stream.tail
         /\ Pruned(S).stream.pcm = {m \in S.stream.pcm : m + 1 > now}
         /\ \A k \in Keys : Pruned(S).keys[k]
                              = [S.keys[k] EXCEPT !.cache = Kept(S.keys[k].cache)]
         /\ Sound(S) => Sound(Pruned(S))
<1> DEFINE pcm == {m \in S.stream.pcm : m + 1 > now}
           stream1 == [S.stream EXCEPT !.pcm = pcm]
           K(k) == [S.keys[k] EXCEPT !.cache = Kept(S.keys[k].cache)]
           T == [S EXCEPT !.stream = stream1, !.keys = [k \in Keys |-> K(k)]]
<1>1. Pruned(S) = T BY DEF Pruned, Kept, StateType, StreamType
<1>2. S.stream \in StreamType BY DEF StateType
<1>3. pcm \in SUBSET Chunk BY <1>2 DEF StreamType
<1> HIDE DEF pcm
<1>4. /\ stream1 \in StreamType /\ stream1.stopped = S.stream.stopped
      /\ stream1.flush = S.stream.flush /\ stream1.tail = S.stream.tail /\ stream1.pcm = pcm
  BY <1>2, <1>3 DEF StreamType
<1>5. ASSUME NEW k \in Keys
      PROVE  /\ K(k) \in KeyType /\ K(k).owned = S.keys[k].owned
             /\ Caught(S.keys[k]) => Caught(K(k))
  <2>1. S.keys[k] \in KeyType BY DEF StateType
  <2>2. S.keys[k].cache \in Seq(Label) BY <2>1 DEF KeyType
  <2>3. Kept(S.keys[k].cache) \in Seq(Label) BY <2>2, KeptFacts
  <2> QED BY <2>1, <2>3, CacheSet, Zenon
<1> HIDE DEF K, stream1
<1>6. /\ T \in StateType /\ T.stream = stream1 /\ T.players = S.players
      /\ T.unwound = S.unwound /\ \A k \in Keys : T.keys[k] = K(k)
  BY <1>4, <1>5 DEF StateType
<1> HIDE DEF T
<1>7. Sound(S) => Sound(T) BY <1>4, <1>5, <1>6 DEF Sound
<1> QED BY <1>1, <1>4, <1>6, <1>7 DEF K, pcm

\* What a delivery makes of the players and of the formats.
Sends(S, op, r, k) == r \in Active(S) /\ <<r, k>> \in op.group /\ op.frames[k] # <<>>

Stale(op) == IF op.live THEN {} ELSE {"stale"}

Blamed(p, faults) == [p EXCEPT !.faults = @ \union faults]

DeliveredPlayer(S, op, r) ==
  IF \E k \in Keys : Sends(S, op, r, k)
  THEN Blamed(ReceiveLive(S.players[r], op.frames[CHOOSE k \in Keys : Sends(S, op, r, k)],
                          S.stream.pcm), Stale(op))
  ELSE S.players[r]

Wanted(S, op) ==
  {k \in Keys : \/ k \in {S.players[r].format : r \in Reattached(S)
                             \union {q \in Roles : S.players[q].pending}}
                \/ \E r \in Active(S) : <<r, k>> \in op.group}

DeliveredKey(S, op, k) ==
  [S.keys[k] EXCEPT !.cache = IF k \in Wanted(S, op) THEN @ \o op.frames[k] ELSE @]

LEMMA DeliveredIs ==
  ASSUME NEW S \in StateType, NEW op
  PROVE  CachedAndDelivered(S, op)
           = [S EXCEPT !.players = [r \in Roles |-> DeliveredPlayer(S, op, r)],
                       !.keys = [k \in Keys |-> DeliveredKey(S, op, k)]]
BY Zenon DEF CachedAndDelivered, DeliveredPlayer, DeliveredKey, Wanted, Sends, Stale, Blamed

LEMMA DeliveredSteps ==
  ASSUME NEW S \in StateType, Sound(S), NEW op \in OpType, ~S.stream.stopped
  PROVE  /\ Steps(S, CachedAndDelivered(S, op), {})
         /\ CachedAndDelivered(S, op) \in StateType
         /\ CachedAndDelivered(S, op).unwound = S.unwound
         /\ \A r \in Roles :
              CachedAndDelivered(S, op).players[r] = DeliveredPlayer(S, op, r)
         /\ \A k \in Keys : CachedAndDelivered(S, op).keys[k] = DeliveredKey(S, op, k)
<1> DEFINE P(r) == DeliveredPlayer(S, op, r)
           K(k) == DeliveredKey(S, op, k)
           T == [S EXCEPT !.players = [r \in Roles |-> P(r)],
                          !.keys = [k \in Keys |-> K(k)]]
<1>1. CachedAndDelivered(S, op) = T BY DeliveredIs
<1>2. \A k \in Keys : op.frames[k] \in Seq(Label) BY DEF OpType
<1>3. ASSUME NEW r \in Roles
      PROVE  P(r) \in PlayerType /\ Told(P(r)) /\ (P(r).pending => S.players[r].pending)
  <2>1. S.players[r] \in PlayerType /\ Told(S.players[r]) BY DEF StateType, Sound
  <2>2. CASE \E k \in Keys : Sends(S, op, r, k)
    <3> DEFINE k == CHOOSE k \in Keys : Sends(S, op, r, k)
               q == ReceiveLive(S.players[r], op.frames[k], S.stream.pcm)
    <3>1. k \in Keys BY <2>2
    <3>2. op.frames[k] \in Seq(Label) BY <1>2, <3>1
    <3>3. Hears(S.players[r], q) BY <2>1, <3>2, LiveHears
    <3>4. q \in PlayerType BY <3>3 DEF Hears
    <3>5. Told(q) /\ (q.pending => S.players[r].pending) BY <2>1, <3>3, HearsSteps
    <3>6. P(r) = Blamed(q, Stale(op)) BY <2>2 DEF DeliveredPlayer
    <3>7. Stale(op) \subseteq Faults BY DEF Stale, Faults
    <3> HIDE DEF q, P
    <3>8. /\ P(r) \in PlayerType /\ P(r).started = q.started /\ P(r).member = q.member
          /\ P(r).pending = q.pending /\ P(r).open = q.open
      BY <3>4, <3>6, <3>7 DEF PlayerType, Blamed
    <3> QED BY <3>5, <3>8 DEF Told
  <2>3. CASE ~\E k \in Keys : Sends(S, op, r, k)
    BY <2>1, <2>3 DEF DeliveredPlayer
  <2> QED BY <2>2, <2>3
<1>4. ASSUME NEW k \in Keys PROVE K(k) \in KeyType /\ Caught(K(k))
  <2> DEFINE cache == IF k \in Wanted(S, op) THEN S.keys[k].cache \o op.frames[k]
                      ELSE S.keys[k].cache
  <2>1. S.keys[k] \in KeyType /\ Caught(S.keys[k]) BY DEF StateType, Sound
  <2>2. S.keys[k].cache \in Seq(Label) BY <2>1 DEF KeyType
  <2>3. cache \in Seq(Label)
    <3> HIDE DEF Wanted
    <3> QED BY <1>2, <2>2
  <2>4. K(k) = [S.keys[k] EXCEPT !.cache = cache] BY DEF DeliveredKey
  <2> HIDE DEF cache, K
  <2> QED BY <2>1, <2>3, <2>4, CacheSet
<1> HIDE DEF P, K
<1>5. /\ T \in StateType /\ T.unwound = S.unwound /\ T.stream = S.stream
      /\ \A r \in Roles : T.players[r] = P(r)
      /\ \A k \in Keys : T.keys[k] = K(k)
  BY <1>3, <1>4 DEF StateType
<1> HIDE DEF T
<1>6. Sound(T) BY <1>3, <1>4, <1>5 DEF Sound
<1>7. Steps(S, T, {}) BY <1>3, <1>5, <1>6 DEF Steps
<1> QED BY <1>1, <1>5, <1>7 DEF P, K

\* What clear and stop have in common.
CancelledKey(S, k) ==
  LET used == \E r \in Roles : InPipeline(S, r) /\ S.players[r].format = k
  IN  [Without(S.keys[k]) EXCEPT !.last = 0, !.held = IF used THEN 0 ELSE S.keys[k].held,
         !.spoiled = S.keys[k].spoiled \/ (~used /\ S.keys[k].held # 0)]

CancelledPlayer(p) ==
  [p EXCEPT !.pending = FALSE, !.started = FALSE, !.resume = 0,
            !.sent = IF p.member = "in" THEN 0 ELSE @]

LEMMA CancelledKeyFacts ==
  ASSUME NEW S \in StateType, NEW k \in Keys, Caught(S.keys[k])
  PROVE  /\ CancelledKey(S, k) \in KeyType /\ Caught(CancelledKey(S, k))
         /\ ~CancelledKey(S, k).owned /\ CancelledKey(S, k).waiting = {}
         /\ CancelledKey(S, k).phase = "none" /\ CancelledKey(S, k).last = 0
         /\ CancelledKey(S, k).task \in {S.keys[k].task, NoTask}
<1> DEFINE K == S.keys[k]
           W == Without(K)
           used == \E r \in Roles : InPipeline(S, r) /\ S.players[r].format = k
           held == IF used THEN 0 ELSE K.held
           spoiled == K.spoiled \/ (~used /\ K.held # 0)
           T == [W EXCEPT !.last = 0, !.held = held, !.spoiled = spoiled]
<1>1. K \in KeyType BY DEF StateType
<1>2. /\ W \in KeyType /\ Caught(W) /\ ~W.owned /\ W.waiting = {} /\ W.phase = "none"
      /\ W.task \in {K.task, NoTask} /\ W.spoiled = K.spoiled
  BY <1>1, WithoutFacts
<1>3. CancelledKey(S, k) = T BY Zenon DEF CancelledKey
<1>4. held \in Label /\ spoiled \in BOOLEAN /\ (K.spoiled => spoiled)
  <2>1. K.held \in Label BY <1>1 DEF KeyType
  <2> HIDE DEF used, K
  <2> QED BY <2>1, EndFacts
<1> HIDE DEF held, spoiled, W, K
<1>5. /\ T \in KeyType /\ T.phase = W.phase /\ T.waiting = W.waiting /\ T.owned = W.owned
      /\ T.task = W.task /\ T.last = 0 /\ T.spoiled = spoiled
  BY <1>2, <1>4, EndFacts DEF KeyType
<1> HIDE DEF T
<1>6. Caught(T) BY <1>2, <1>4, <1>5 DEF Caught, Idle
<1> QED BY <1>2, <1>3, <1>5, <1>6 DEF K

LEMMA CancelledPlayerFacts ==
  ASSUME NEW p \in PlayerType
  PROVE  /\ CancelledPlayer(p) \in PlayerType
         /\ ~CancelledPlayer(p).pending /\ ~CancelledPlayer(p).started
         /\ CancelledPlayer(p).resume = 0 /\ CancelledPlayer(p).member = p.member
         /\ CancelledPlayer(p).format = p.format /\ CancelledPlayer(p).open = p.open
         /\ CancelledPlayer(p).sent = IF p.member = "in" THEN 0 ELSE p.sent
         /\ CancelledPlayer(p).faults = p.faults /\ CancelledPlayer(p).lossy = p.lossy
BY EndFacts DEF CancelledPlayer, PlayerType

LEMMA CancelledFacts ==
  ASSUME NEW S \in StateType, Sound(S)
  PROVE  /\ Cancelled(S) \in StateType /\ Cancelled(S).stream = S.stream
         /\ Cancelled(S).unwound = S.unwound \union {k \in Keys : S.keys[k].owned}
         /\ \A k \in Keys : Cancelled(S).keys[k] = CancelledKey(S, k)
         /\ \A r \in Roles : Cancelled(S).players[r] = CancelledPlayer(S.players[r])
         /\ Sound(Cancelled(S))
<1> DEFINE K(k) == CancelledKey(S, k)
           P(r) == CancelledPlayer(S.players[r])
           lost == {k \in Keys : S.keys[k].owned}
           T == [S EXCEPT !.unwound = S.unwound \union lost,
                          !.keys = [k \in Keys |-> K(k)],
                          !.players = [r \in Roles |-> P(r)]]
<1>1. ASSUME NEW k \in Keys
      PROVE  K(k) \in KeyType /\ Caught(K(k)) /\ ~K(k).owned
  BY CancelledKeyFacts DEF Sound
<1>2. ASSUME NEW r \in Roles
      PROVE  P(r) \in PlayerType /\ ~P(r).pending /\ ~P(r).started
  BY CancelledPlayerFacts DEF StateType
<1>3. Cancelled(S) = T
  <2> DEFINE used(k) == \E r \in Roles : InPipeline(S, r) /\ S.players[r].format = k
             J(k) == [S.keys[k] EXCEPT
                        !.phase = "none", !.waiting = {}, !.last = 0,
                        !.held = IF used(k) THEN 0 ELSE @,
                        !.spoiled = @ \/ (~used(k) /\ S.keys[k].held # 0),
                        !.task = IF S.keys[k].owned THEN NoTask ELSE @,
                        !.owned = FALSE]
  <2>1. \A k \in Keys : J(k) = K(k)
    <3> SUFFICES ASSUME NEW k \in Keys, NEW u
                 PROVE  [S.keys[k] EXCEPT
                          !.phase = "none", !.waiting = {}, !.last = 0,
                          !.held = IF u THEN 0 ELSE @,
                          !.spoiled = @ \/ (~u /\ S.keys[k].held # 0),
                          !.task = IF S.keys[k].owned THEN NoTask ELSE @,
                          !.owned = FALSE]
                          = [Without(S.keys[k]) EXCEPT !.last = 0,
                              !.held = IF u THEN 0 ELSE S.keys[k].held,
                              !.spoiled = S.keys[k].spoiled \/ (~u /\ S.keys[k].held # 0)]
      BY DEF CancelledKey
    <3> DEFINE K1 == S.keys[k]
    <3>1. K1 \in KeyType BY DEF StateType
    <3> HIDE DEF K1
    <3>2. [K1 EXCEPT !.phase = "none", !.waiting = {}, !.last = 0,
                     !.held = IF u THEN 0 ELSE @,
                     !.spoiled = @ \/ (~u /\ K1.held # 0),
                     !.task = IF K1.owned THEN NoTask ELSE @, !.owned = FALSE]
            = [Without(K1) EXCEPT !.last = 0, !.held = IF u THEN 0 ELSE K1.held,
                                  !.spoiled = K1.spoiled \/ (~u /\ K1.held # 0)]
      BY <3>1 DEF Without, KeyType
    <3> QED BY <3>2 DEF K1
  <2>2. Cancelled(S) = [S EXCEPT !.unwound = S.unwound \union lost,
                                 !.keys = [k \in Keys |-> J(k)],
                                 !.players = [r \in Roles |-> P(r)]]
    BY Zenon DEF Cancelled, CancelledPlayer
  <2> HIDE DEF K, J
  <2>3. [k \in Keys |-> J(k)] = [k \in Keys |-> K(k)] BY <2>1
  <2> QED BY <2>2, <2>3, Zenon
<1>4. lost \in SUBSET Keys OBVIOUS
<1> HIDE DEF K, P, lost
<1>5. /\ T \in StateType /\ T.stream = S.stream /\ T.unwound = S.unwound \union lost
      /\ \A k \in Keys : T.keys[k] = K(k)
      /\ \A r \in Roles : T.players[r] = P(r)
  BY <1>1, <1>2, <1>4 DEF StateType
<1> HIDE DEF T
<1>6. Sound(T) BY <1>1, <1>2, <1>5 DEF Sound, Told
<1> QED BY <1>3, <1>5, <1>6 DEF K, P, lost

-----------------------------------------------------------------------------
(* The inductive invariant.                                                    *)

Past == {"resample", "encode", "deliver"}   \* stages past the lock

Loads == {i \in 1 .. Commits : ops[i].stage = "load"}

TypesInv ==
  /\ now \in 0 .. MaxTime
  /\ changes \in Nat
  /\ State \in StateType
  /\ ops \in [1 .. Commits -> OpType]
  /\ queue \in Seq(1 .. Commits)

\* The queue of the lock, and what is in the queue.
QueueInv ==
  /\ \A n \in 1 .. Len(queue) : ops[queue[n]].stage \in {"wait"} \union Past
  /\ \A m, n \in 1 .. Len(queue) : queue[m] = queue[n] => m = n
  /\ \A i \in 1 .. Commits : ops[i].stage \in Past => queue # <<>> /\ queue[1] = i
  /\ \A i \in 1 .. Commits :
       ops[i].stage = "wait" => \E n \in 1 .. Len(queue) : queue[n] = i

\* Commits that were placed are; those that load their codecs will have room.
PlacedInv ==
  /\ \A i \in 1 .. Commits :
       ops[i].kind = "commit" /\ ops[i].stage \notin {"none", "load"} => ops[i].ts \in Chunk
  /\ stream.tail + Cardinality(Loads) <= End

\* Joins are deferred to what is in progress; stop makes that void.
DeferInv ==
  /\ \A r \in Roles : players[r].pending => Underway # {}
  /\ stream.stopped => \A i \in 1 .. Commits : ops[i].stage # "none" => ~ops[i].live

IInv == TypesInv /\ QueueInv /\ PlacedInv /\ DeferInv /\ Sound(State)

\* A state that an operation in progress may leave behind.
Moved(S) ==
  /\ S \in StateType /\ Sound(S) /\ S.stream.stopped = stream.stopped
  /\ \A r \in Roles : S.players[r].pending => players[r].pending

\* There is room for what is to be placed but for operation i.
Room(i, S) == S.stream.tail + Cardinality(Loads \ {i}) <= End

LEMMA StateIs ==
  /\ State.stream = stream /\ State.keys = keys /\ State.players = players
  /\ State.unwound = unwound
BY DEF State

LEMMA BecomesIs ==
  ASSUME NEW T \in StateType, Becomes(T)
  PROVE  /\ State' = T
         /\ stream' = T.stream /\ keys' = T.keys /\ players' = T.players
         /\ unwound' = T.unwound
BY DEF Becomes, State, StateType

LEMMA LoadsFacts ==
  ASSUME ops \in [1 .. Commits -> OpType]
  PROVE  /\ IsFiniteSet(Loads) /\ Cardinality(Loads) \in 0 .. Commits
         /\ \A i \in 1 .. Commits :
              /\ Cardinality(Loads \ {i}) \in Nat
              /\ Cardinality(Loads \ {i}) <= Cardinality(Loads)
              /\ ops[i].stage = "load" => Cardinality(Loads \ {i}) = Cardinality(Loads) - 1
              /\ Cardinality(Loads \union {i}) \in 0 .. Commits
<1>1. IsFiniteSet(1 .. Commits) /\ Cardinality(1 .. Commits) = Commits
  BY FS_Interval, EndFacts
<1>2. \A D \in SUBSET (1 .. Commits) : IsFiniteSet(D) /\ Cardinality(D) \in 0 .. Commits
  <2>1. TAKE D \in SUBSET (1 .. Commits)
  <2>2. IsFiniteSet(D) /\ Cardinality(D) <= Cardinality(1 .. Commits) BY <1>1, FS_Subset
  <2>3. Cardinality(D) \in Nat BY <2>2, FS_CardinalityType
  <2> QED BY <1>1, <2>2, <2>3, EndFacts
<1>3. Loads \in SUBSET (1 .. Commits) BY DEF Loads
<1>4. ASSUME NEW i \in 1 .. Commits
      PROVE  /\ Cardinality(Loads \ {i}) \in Nat
             /\ Cardinality(Loads \ {i}) <= Cardinality(Loads)
             /\ ops[i].stage = "load" => Cardinality(Loads \ {i}) = Cardinality(Loads) - 1
             /\ Cardinality(Loads \union {i}) \in 0 .. Commits
  <2>1. IsFiniteSet(Loads) /\ Cardinality(Loads) \in Nat BY <1>2, <1>3, EndFacts
  <2>2. Cardinality(Loads \ {i}) = IF i \in Loads THEN Cardinality(Loads) - 1
                                   ELSE Cardinality(Loads)
    BY <2>1, FS_RemoveElement
  <2>3. Loads \ {i} \in SUBSET (1 .. Commits) /\ Loads \union {i} \in SUBSET (1 .. Commits)
    BY <1>3
  <2>4. ops[i].stage = "load" => i \in Loads BY DEF Loads
  <2> HIDE DEF Loads
  <2> QED BY <1>2, <2>1, <2>2, <2>3, <2>4, EndFacts
<1> QED BY <1>2, <1>3, <1>4

\* A step that leaves the operations in progress alone.
LEMMA StateStep ==
  ASSUME IInv, NEW T, NEW extra \in SUBSET Roles, Steps(State, T, extra), Becomes(T),
         extra # {} => Underway # {},
         now' = now, changes' \in Nat, UNCHANGED <<ops, queue>>
  PROVE  IInv'
<1>1. T \in StateType BY DEF Steps
<1>2. /\ State' = T /\ stream' = T.stream /\ players' = T.players BY <1>1, BecomesIs
<1>3. Sound(T) /\ T.stream = stream
      /\ \A r \in Roles : T.players[r].pending => players[r].pending \/ r \in extra
  BY StateIs DEF Steps
<1>4. TypesInv' BY <1>1, <1>2 DEF IInv, TypesInv
<1>5. QueueInv' BY DEF IInv, QueueInv
<1>6. PlacedInv' BY <1>2, <1>3 DEF IInv, PlacedInv, Loads
<1>7. Underway' = Underway BY DEF Underway
<1>8. DeferInv' BY <1>2, <1>3, <1>7 DEF IInv, DeferInv
<1>9. Sound(State)' BY <1>2, <1>3 DEF Sound
<1> QED BY <1>4, <1>5, <1>6, <1>8, <1>9 DEF IInv

\* Operation i ends, or makes way for a stage that needs the lock.
LEMMA EndsStep ==
  ASSUME IInv, NEW i \in 1 .. Commits, NEW S, Moved(S), Room(i, S), Ends(i, S),
         \A n \in 1 .. Len(queue) : queue[n] = i => n = 1,
         UNCHANGED <<now, changes>>
  PROVE  IInv'
<1>0. /\ ops \in [1 .. Commits -> OpType] /\ queue \in Seq(1 .. Commits)
      /\ now \in 0 .. MaxTime
  BY DEF IInv, TypesInv
<1> DEFINE T == IF Underway \subseteq {i} THEN JoinsReleased(S) ELSE S
<1>1. /\ T \in StateType /\ Sound(T) /\ T.stream = S.stream
      /\ \A r \in Roles : T.players[r].pending =>
           S.players[r].pending /\ ~(Underway \subseteq {i})
  <2>1. S \in StateType /\ Sound(S) BY DEF Moved
  <2>2. CASE Underway \subseteq {i}
    BY <1>0, <2>1, <2>2, JoinsReleasedSteps DEF Steps
  <2>3. CASE ~(Underway \subseteq {i}) BY <2>1, <2>3
  <2> QED BY <2>2, <2>3
<1>2. Becomes(T) BY DEF Ends
<1> HIDE DEF T
<1>3. State' = T /\ stream' = T.stream /\ players' = T.players BY <1>1, <1>2, BecomesIs
<1>4. ops' = [ops EXCEPT ![i] = NoOp] BY DEF Ends
<1>5. /\ ops' \in [1 .. Commits -> OpType] /\ ops'[i] = NoOp
      /\ \A j \in 1 .. Commits : j # i => ops'[j] = ops[j]
  BY <1>0, <1>4, Defaults
<1>6. /\ NoOp.stage = "none" /\ NoOp.kind = "commit" BY DEF NoOp
<1>7. QueueInv' /\ queue' \in Seq(1 .. Commits)
  <2>0. QueueInv BY DEF IInv
  <2>1. CASE queue # <<>> /\ Head(queue) = i
    <3>1. queue' = Tail(queue) BY <2>1 DEF Ends
    <3>2. /\ Len(queue) \in Nat \ {0} /\ queue[1] = i
          /\ queue' \in Seq(1 .. Commits) /\ Len(queue') = Len(queue) - 1
          /\ \A n \in 1 .. Len(queue') : queue'[n] = queue[n + 1]
      BY <1>0, <2>1, <3>1, Tailed
    <3>3. \A n \in 1 .. Len(queue') : n + 1 \in 1 .. Len(queue) /\ queue'[n] # i
      BY <2>0, <3>2 DEF QueueInv
    <3>4. \A n \in 1 .. Len(queue') : queue'[n] \in 1 .. Commits
      BY <3>2, Elements
    <3>5. \A n \in 1 .. Len(queue') : ops'[queue'[n]].stage \in {"wait"} \union Past
      <4>1. TAKE n \in 1 .. Len(queue')
      <4>2. /\ queue'[n] \in 1 .. Commits /\ queue'[n] # i
            /\ n + 1 \in 1 .. Len(queue) /\ queue'[n] = queue[n + 1]
        BY <3>2, <3>3, <3>4
      <4>3. ops'[queue'[n]] = ops[queue[n + 1]] BY <1>5, <4>2
      <4>4. ops[queue[n + 1]].stage \in {"wait"} \union Past BY <2>0, <4>2, Zenon DEF QueueInv
      <4> QED BY <4>3, <4>4
    <3>6. \A m, n \in 1 .. Len(queue') : queue'[m] = queue'[n] => m = n
      BY <2>0, <3>2, <3>3 DEF QueueInv
    <3>7. \A j \in 1 .. Commits : ops'[j].stage \notin Past
      BY <2>0, <1>5, <1>6, <3>2 DEF QueueInv, Past
    <3>8. ASSUME NEW j \in 1 .. Commits, ops'[j].stage = "wait"
          PROVE  \E n \in 1 .. Len(queue') : queue'[n] = j
      <4>1. j # i /\ ops[j].stage = "wait" BY <1>5, <1>6, <3>8
      <4>2. PICK n \in 1 .. Len(queue) : queue[n] = j BY <2>0, <4>1 DEF QueueInv
      <4>3. n # 1 BY <3>2, <4>1, <4>2
      <4>4. n - 1 \in 1 .. Len(queue') /\ n - 1 + 1 = n BY <3>2, <4>2, <4>3
      <4> QED BY <3>2, <4>2, <4>4
    <3> QED BY <3>2, <3>5, <3>6, <3>7, <3>8 DEF QueueInv
  <2>2. CASE ~(queue # <<>> /\ Head(queue) = i)
    <3>1. queue' = queue BY <2>2 DEF Ends
    <3>2. \A n \in 1 .. Len(queue) : queue[n] \in 1 .. Commits /\ queue[n] # i
      <4>1. \A n \in 1 .. Len(queue) : queue[n] \in 1 .. Commits BY <1>0, Elements
      <4>2. \A n \in 1 .. Len(queue) : queue[n] = i => queue # <<>> /\ Head(queue) = i
        BY <1>0, Tailed
      <4> QED BY <2>2, <4>1, <4>2
    <3>3. \A n \in 1 .. Len(queue) : ops'[queue[n]].stage \in {"wait"} \union Past
      BY <2>0, <1>5, <3>2 DEF QueueInv
    <3>4. \A j \in 1 .. Commits : ops'[j].stage \in Past => queue # <<>> /\ queue[1] = j
      BY <2>0, <1>5, <1>6 DEF QueueInv, Past
    <3>5. \A j \in 1 .. Commits :
            ops'[j].stage = "wait" => \E n \in 1 .. Len(queue) : queue[n] = j
      BY <2>0, <1>5, <1>6 DEF QueueInv
    <3> QED BY <2>0, <1>0, <3>1, <3>3, <3>4, <3>5 DEF QueueInv
  <2> QED BY <2>1, <2>2
<1>8. TypesInv' BY <1>1, <1>3, <1>5, <1>7 DEF IInv, TypesInv
<1>9. PlacedInv'
  <2>1. Loads' = Loads \ {i} BY <1>5, <1>6 DEF Loads
  <2>2. stream'.tail = S.stream.tail BY <1>1, <1>3
  <2>3. stream'.tail + Cardinality(Loads') <= End BY <2>1, <2>2 DEF Room
  <2>4. \A j \in 1 .. Commits :
          ops'[j].kind = "commit" /\ ops'[j].stage \notin {"none", "load"}
            => ops'[j].ts \in Chunk
    BY <1>5, <1>6 DEF IInv, PlacedInv
  <2> QED BY <2>3, <2>4 DEF PlacedInv
<1>10. DeferInv'
  <2>1. ASSUME NEW r \in Roles, players'[r].pending PROVE Underway' # {}
    <3>1. ~(Underway \subseteq {i}) BY <1>1, <1>3, <2>1
    <3>2. PICK j \in Underway : j # i BY <3>1
    <3>3. j \in 1 .. Commits /\ ops[j].stage # "none" BY <1>0, <3>2 DEF Underway
    <3>4. ops'[j].stage # "none" BY <1>5, <3>2, <3>3
    <3>5. j \in DOMAIN ops' BY <1>5, <3>3
    <3> QED BY <3>4, <3>5 DEF Underway
  <2>2. ASSUME stream'.stopped, NEW j \in 1 .. Commits, ops'[j].stage # "none"
        PROVE  ~ops'[j].live
    BY <1>1, <1>3, <1>5, <1>6, <2>2 DEF IInv, DeferInv, Moved
  <2> QED BY <2>1, <2>2 DEF DeferInv
<1>11. Sound(State)' BY <1>1, <1>3 DEF Sound
<1> QED BY <1>7, <1>8, <1>9, <1>10, <1>11 DEF IInv

LEMMA ContinuesStep ==
  ASSUME IInv, NEW i \in 1 .. Commits, NEW op \in OpType, NEW S, Moved(S), Room(i, S),
         Continues(i, op, S),
         op.stage \in {"wait"} \union Past,
         op.stage \in Past => queue = <<>> \/ queue[1] = i,
         ops[i].stage \in Past => op.stage \in Past,
         op.kind = "commit" => op.ts \in Chunk,
         stream.stopped => ~op.live,
         UNCHANGED <<now, changes>>
  PROVE  IInv'
<1>0. /\ ops \in [1 .. Commits -> OpType] /\ queue \in Seq(1 .. Commits) /\ QueueInv
  BY DEF IInv, TypesInv
<1>1. S \in StateType /\ Sound(S) /\ Becomes(S) BY DEF Moved, Continues
<1>2. State' = S /\ stream' = S.stream /\ players' = S.players BY <1>1, BecomesIs
<1>3. ops' = [ops EXCEPT ![i] = op] BY DEF Continues
<1>4. /\ ops' \in [1 .. Commits -> OpType] /\ ops'[i] = op
      /\ \A j \in 1 .. Commits : j # i => ops'[j] = ops[j]
  BY <1>0, <1>3
<1>5. QueueInv' /\ queue' \in Seq(1 .. Commits)
  <2>1. CASE \E n \in DOMAIN queue : queue[n] = i
    <3>1. queue' = queue /\ queue # <<>> BY <1>0, <2>1 DEF Continues
    <3>2. \A n \in 1 .. Len(queue) : queue[n] \in 1 .. Commits BY <1>0, Elements
    <3>3. \A n \in 1 .. Len(queue) : ops'[queue[n]].stage \in {"wait"} \union Past
      BY <1>0, <1>4, <3>2 DEF QueueInv
    <3>4. \A j \in 1 .. Commits : ops'[j].stage \in Past => queue # <<>> /\ queue[1] = j
      BY <1>0, <1>4, <3>1 DEF QueueInv
    <3>5. \A j \in 1 .. Commits :
            ops'[j].stage = "wait" => \E n \in 1 .. Len(queue) : queue[n] = j
      BY <1>0, <1>4, <2>1 DEF QueueInv
    <3> QED BY <1>0, <3>1, <3>3, <3>4, <3>5 DEF QueueInv
  <2>2. CASE ~\E n \in DOMAIN queue : queue[n] = i
    <3>1. queue' = Append(queue, i) BY <2>2 DEF Continues
    <3>2. /\ Len(queue) \in Nat
          /\ queue' \in Seq(1 .. Commits) /\ Len(queue') = Len(queue) + 1
          /\ queue'[Len(queue) + 1] = i
          /\ \A n \in 1 .. Len(queue) : queue'[n] = queue[n] /\ queue[n] \in 1 .. Commits
      <4>1. Len(queue) \in Nat /\ \A n \in 1 .. Len(queue) : queue[n] \in 1 .. Commits
        BY <1>0, Elements
      <4> DEFINE q == Append(queue, i)
      <4>2. /\ q \in Seq(1 .. Commits) /\ Len(q) = Len(queue) + 1 /\ q[Len(queue) + 1] = i
            /\ \A n \in 1 .. Len(queue) : q[n] = queue[n]
        <5> DEFINE Ids == 1 .. Commits
        <5>1. queue \in Seq(Ids) /\ i \in Ids BY <1>0
        <5> HIDE DEF Ids
        <5>2. /\ Append(queue, i) \in Seq(Ids) /\ Len(Append(queue, i)) = Len(queue) + 1
              /\ Append(queue, i)[Len(queue) + 1] = i
              /\ \A n \in 1 .. Len(queue) : Append(queue, i)[n] = queue[n]
          BY <5>1, Appended
        <5> QED BY <5>2 DEF Ids
      <4> HIDE DEF q
      <4> QED BY <3>1, <4>1, <4>2 DEF q
    <3>3. \A n \in 1 .. Len(queue) : queue[n] # i BY <1>0, <2>2
    <3>4. \A n \in 1 .. Len(queue') : n = Len(queue) + 1 \/ n \in 1 .. Len(queue) BY <3>2
    <3>5. \A n \in 1 .. Len(queue') : ops'[queue'[n]].stage \in {"wait"} \union Past
      BY <1>0, <1>4, <3>2, <3>3, <3>4 DEF QueueInv
    <3>6. \A m, n \in 1 .. Len(queue') : queue'[m] = queue'[n] => m = n
      BY <1>0, <3>2, <3>3, <3>4 DEF QueueInv
    <3>7. queue' # <<>> BY <3>2
    <3>8. ASSUME NEW j \in 1 .. Commits, ops'[j].stage \in Past PROVE queue'[1] = j
      <4>1. CASE j # i
        <5>1. queue # <<>> /\ queue[1] = j BY <1>0, <1>4, <3>8, <4>1 DEF QueueInv
        <5>2. 1 \in 1 .. Len(queue) BY <1>0, <5>1
        <5> QED BY <3>2, <5>1, <5>2
      <4>2. CASE j = i
        <5>1. queue = <<>> \/ queue[1] = i BY <1>4, <3>8, <4>2
        <5>2. queue # <<>> => 1 \in 1 .. Len(queue) BY <1>0
        <5>3. queue = <<>> BY <3>3, <5>1, <5>2
        <5> QED BY <3>2, <4>2, <5>3
      <4> QED BY <4>1, <4>2
    <3>9. ASSUME NEW j \in 1 .. Commits, ops'[j].stage = "wait"
          PROVE  \E n \in 1 .. Len(queue') : queue'[n] = j
      <4>1. CASE j = i
        <5>1. Len(queue) + 1 \in 1 .. Len(queue') BY <3>2
        <5> QED BY <3>2, <4>1, <5>1
      <4>2. CASE j # i
        <5>1. PICK n \in 1 .. Len(queue) : queue[n] = j
          BY <1>0, <1>4, <3>9, <4>2 DEF QueueInv
        <5>2. n \in 1 .. Len(queue') /\ queue'[n] = j BY <3>2, <5>1
        <5> QED BY <5>2
      <4> QED BY <4>1, <4>2
    <3> QED BY <3>2, <3>5, <3>6, <3>7, <3>8, <3>9 DEF QueueInv
  <2> QED BY <2>1, <2>2
<1>6. TypesInv' BY <1>1, <1>2, <1>4, <1>5 DEF IInv, TypesInv
<1>7. op.stage \notin {"none", "load"} BY DEF Past
<1>8. PlacedInv'
  <2>1. Loads' = Loads \ {i} BY <1>4, <1>7 DEF Loads
  <2>2. stream'.tail + Cardinality(Loads') <= End BY <1>2, <2>1 DEF Room
  <2>3. \A j \in 1 .. Commits :
          ops'[j].kind = "commit" /\ ops'[j].stage \notin {"none", "load"}
            => ops'[j].ts \in Chunk
    BY <1>4 DEF IInv, PlacedInv
  <2> QED BY <2>2, <2>3 DEF PlacedInv
<1>9. DeferInv'
  <2>1. i \in Underway' BY <1>4, <1>7 DEF Underway
  <2>2. ASSUME stream'.stopped, NEW j \in 1 .. Commits, ops'[j].stage # "none"
        PROVE  ~ops'[j].live
    BY <1>2, <1>4, <2>2 DEF IInv, DeferInv, Moved
  <2> QED BY <2>1, <2>2 DEF DeferInv
<1>10. Sound(State)' BY <1>1, <1>2 DEF Sound
<1> QED BY <1>5, <1>6, <1>8, <1>9, <1>10 DEF IInv

\* The stream's record replaced in a state.
LEMMA MovedStream ==
  ASSUME NEW S, Moved(S), NEW st \in StreamType, st.stopped = S.stream.stopped
  PROVE  /\ Moved([S EXCEPT !.stream = st]) /\ [S EXCEPT !.stream = st].stream = st
         /\ [S EXCEPT !.stream = st].players = S.players
         /\ [S EXCEPT !.stream = st].keys = S.keys
         /\ [S EXCEPT !.stream = st].unwound = S.unwound
<1> DEFINE T == [S EXCEPT !.stream = st]
<1>1. S \in StateType BY DEF Moved
<1>2. /\ T \in StateType /\ T.stream = st /\ T.players = S.players /\ T.keys = S.keys
      /\ T.unwound = S.unwound
  BY <1>1 DEF StateType
<1> HIDE DEF T
<1>3. Moved(T) BY <1>2 DEF Moved, Sound
<1> QED BY <1>2, <1>3 DEF T

LEMMA MovedPruned ==
  ASSUME IInv, NEW S, Moved(S), NEW i, Room(i, S)
  PROVE  Moved(Pruned(S)) /\ Room(i, Pruned(S))
<1>1. now \in Nat BY EndFacts DEF IInv, TypesInv
<1>2. /\ Pruned(S) \in StateType /\ Pruned(S).players = S.players
      /\ Pruned(S).stream.stopped = S.stream.stopped
      /\ Pruned(S).stream.tail = S.stream.tail /\ Sound(Pruned(S))
  BY <1>1, PrunedFacts DEF Moved
<1> HIDE DEF IInv
<1> QED BY <1>2 DEF Moved, Room

LEMMA AcquiredStep ==
  ASSUME IInv, NEW i \in 1 .. Commits, NEW op \in OpType, NEW S, Moved(S), Room(i, S),
         Acquired(i, op, S), queue = <<>> \/ queue[1] = i,
         op.kind = "commit" => op.ts \in Chunk, stream.stopped => ~op.live,
         UNCHANGED <<now, changes>>
  PROVE  IInv'
<1> DEFINE all == {<<r, S.players[r].format>> : r \in Active(S) \union Reattached(S)}
           flushed == {g \in all : S.keys[g[2]].phase # "catching"}
           formats == {g[2] : g \in flushed}
           op1 == [op EXCEPT !.stage = "resample", !.group = all]
           op2 == [op EXCEPT !.stage = "encode", !.group = flushed, !.todo = formats]
           T == [S EXCEPT !.stream.flush = "done"]
<1>1. \A n \in 1 .. Len(queue) : queue[n] = i => n = 1
  <2>1. queue \in Seq(1 .. Commits) /\ QueueInv BY DEF IInv, TypesInv
  <2>2. CASE queue = <<>> BY <2>2
  <2>3. CASE queue # <<>> /\ queue[1] = i
    <3>1. Len(queue) \in Nat \ {0} BY <2>1, <2>3, Tailed
    <3>2. 1 \in 1 .. Len(queue) BY <3>1
    <3> QED BY <2>1, <2>3, <3>2 DEF QueueInv
  <2> QED BY <2>2, <2>3
<1>2. all \in SUBSET (Roles \X Keys)
  <2>1. \A r \in Roles : S.players[r].format \in Keys BY DEF Moved, StateType, PlayerType
  <2> QED BY <2>1 DEF Active, Reattached
<1>3. flushed \in SUBSET (Roles \X Keys) /\ formats \in SUBSET Keys
  <2> HIDE DEF all
  <2> QED BY <1>2
<1>4. \/ ~op.live /\ Ends(i, S)
      \/ op.live /\ op.kind = "commit" /\ Ends(i, Pruned(S))
      \/ op.live /\ op.kind = "commit" /\ Continues(i, op1, S)
      \/ op.live /\ op.kind # "commit" /\ Ends(i, T)
      \/ op.live /\ op.kind # "commit" /\ Continues(i, op2, T)
  <2> HIDE DEF T
  <2>1. CASE ~op.live BY <2>1 DEF Acquired
  <2>2. CASE op.live /\ op.kind = "commit" BY <2>2 DEF Acquired
  <2>3. CASE op.live /\ op.kind # "commit"
    <3>1. CASE flushed = {} BY <2>3, <3>1, Zenon DEF Acquired, T
    <3>2. CASE flushed # {} BY <2>3, <3>2, Zenon DEF Acquired, T
    <3> QED BY <3>1, <3>2
  <2> QED BY <2>1, <2>2, <2>3
<1> HIDE DEF all, flushed, formats
<1>5. Moved(T) /\ Room(i, T)
  <2> DEFINE st == [S.stream EXCEPT !.flush = "done"]
  <2>1. S.stream \in StreamType BY DEF Moved, StateType
  <2>2. st \in StreamType /\ st.stopped = S.stream.stopped /\ st.tail = S.stream.tail
    BY <2>1 DEF StreamType
  <2>3. T = [S EXCEPT !.stream = st] BY DEF Moved, StateType
  <2> HIDE DEF st, T
  <2>4. Moved(T) /\ T.stream = st BY <2>2, <2>3, MovedStream
  <2> QED BY <2>2, <2>4 DEF Room
<1> HIDE DEF T
<1>6. /\ op1 \in OpType /\ op1.stage = "resample" /\ op1.kind = op.kind /\ op1.ts = op.ts
      /\ op1.live = op.live
  <2>1. "resample" \in Stages BY DEF Stages
  <2> QED BY <1>2, <2>1 DEF OpType
<1>7. /\ op2 \in OpType /\ op2.stage = "encode" /\ op2.kind = op.kind /\ op2.ts = op.ts
      /\ op2.live = op.live
  <2>1. "encode" \in Stages BY DEF Stages
  <2> QED BY <1>3, <2>1 DEF OpType
<1> HIDE DEF op1, op2
<1>8. CASE Ends(i, S) BY <1>1, <1>8, EndsStep
<1>9. CASE Ends(i, Pruned(S))
  <2>1. Moved(Pruned(S)) /\ Room(i, Pruned(S)) BY MovedPruned
  <2> QED BY <1>1, <1>9, <2>1, EndsStep
<1>10. CASE op.live /\ Continues(i, op1, S)
  <2>1. op1.stage \in Past BY <1>6 DEF Past
  <2> QED BY <1>6, <1>10, <2>1, ContinuesStep
<1>11. CASE Ends(i, T) BY <1>1, <1>5, <1>11, EndsStep
<1>12. CASE op.live /\ op.kind # "commit" /\ Continues(i, op2, T)
  <2>1. op2.stage \in Past BY <1>7 DEF Past
  <2> QED BY <1>5, <1>7, <1>12, <2>1, ContinuesStep
<1> QED BY <1>4, <1>8, <1>9, <1>10, <1>11, <1>12

LEMMA LocksStep ==
  ASSUME IInv, NEW i \in 1 .. Commits, NEW op \in OpType, NEW S, Moved(S), Room(i, S),
         Locks(i, op, S), ops[i].stage \notin Past,
         op.kind = "commit" => op.ts \in Chunk, stream.stopped => ~op.live,
         UNCHANGED <<now, changes>>
  PROVE  IInv'
<1>1. CASE queue = <<>>
  <2>1. Acquired(i, op, S) BY <1>1 DEF Locks
  <2> QED BY <1>1, <2>1, AcquiredStep
<1>2. CASE queue # <<>>
  <2> DEFINE op1 == [op EXCEPT !.stage = "wait"]
  <2>1. Continues(i, op1, S) BY <1>2 DEF Locks
  <2>2. /\ op1 \in OpType /\ op1.stage = "wait" /\ op1.kind = op.kind /\ op1.ts = op.ts
        /\ op1.live = op.live
    BY DEF OpType, Stages
  <2> HIDE DEF op1
  <2>3. op1.stage \notin Past BY <2>2 DEF Past
  <2> QED BY <2>1, <2>2, <2>3, ContinuesStep
<1> QED BY <1>1, <1>2

\* A chunk is placed at the tail, no sooner than it can be sent ahead.
PlacedAt == IF stream.tail > now + Lead THEN stream.tail ELSE now + Lead

LEMMA PlacedFacts ==
  ASSUME IInv, NEW i \in 1 .. Commits,
         \/ ops[i].stage = "none" /\ stream.tail < MaxTail /\ now + Lead < MaxTail
         \/ ops[i].stage = "load"
  PROVE  /\ PlacedAt \in Chunk /\ PlacedAt \in Label /\ PlacedAt \in Nat
         /\ PlacedAt + 1 \in Instant /\ stream.tail <= PlacedAt
         /\ PlacedAt + 1 + Cardinality(Loads \ {i}) <= End
<1> DEFINE ts == PlacedAt
<1>0. /\ now \in 0 .. MaxTime /\ State \in StateType /\ ops \in [1 .. Commits -> OpType]
      /\ stream.tail + Cardinality(Loads) <= End
  BY DEF IInv, TypesInv, PlacedInv
<1>1. stream \in StreamType /\ stream.tail \in Nat
  BY <1>0, StateIs, EndFacts DEF StateType, StreamType
<1>2. /\ Cardinality(Loads) \in 0 .. Commits /\ Cardinality(Loads \ {i}) \in Nat
      /\ Cardinality(Loads \ {i}) <= Cardinality(Loads)
      /\ ops[i].stage = "load" => Cardinality(Loads \ {i}) = Cardinality(Loads) - 1
  BY <1>0, LoadsFacts
<1>3. ts \in Nat /\ ts >= 1 /\ stream.tail <= ts /\ ts + 1 + Cardinality(Loads \ {i}) <= End
  <2>1. ts \in Nat /\ ts >= 1 /\ stream.tail <= ts BY <1>0, <1>1, EndFacts DEF PlacedAt
  <2>2. CASE ops[i].stage = "none" /\ stream.tail < MaxTail /\ now + Lead < MaxTail
    <3>1. ts + 1 <= MaxTail BY <1>0, <1>1, <2>2, EndFacts DEF PlacedAt
    <3>2. MaxTail + Commits <= End BY EndFacts DEF End
    <3> HIDE DEF ts
    <3> QED BY <1>2, <2>1, <3>1, <3>2, EndFacts
  <2>3. CASE ops[i].stage = "load"
    <3>1. MaxTime + Lead + Commits <= End BY EndFacts DEF End
    <3>2. now + Lead <= MaxTime + Lead BY <1>0, EndFacts
    <3>3. Cardinality(Loads \ {i}) + 1 = Cardinality(Loads) BY <1>2, <2>3, EndFacts
    <3> DEFINE c == Cardinality(Loads) d == Cardinality(Loads \ {i})
    <3>4. c \in Nat /\ d \in Nat /\ d + 1 = c /\ c <= Commits /\ stream.tail + c <= End
      BY <1>0, <1>2, <3>3, EndFacts
    <3> HIDE DEF c, d
    <3>5. ts + 1 + d <= End BY <1>0, <1>1, <3>1, <3>2, <3>4, EndFacts DEF PlacedAt
    <3> QED BY <2>1, <3>5 DEF d
  <2> QED BY <2>2, <2>3
<1>4. ts \in Chunk /\ ts \in Label /\ ts + 1 \in Instant
  <2> HIDE DEF ts
  <2>1. ts + 1 <= End BY <1>2, <1>3, EndFacts
  <2> QED BY <1>3, <2>1, EndFacts DEF Chunk, Label, Instant
<1> QED BY <1>3, <1>4

\* A commit places its chunk.
LEMMA PlacedStep ==
  ASSUME IInv, NEW i \in 1 .. Commits, Placed(i, State), ~stream.stopped,
         \/ ops[i].stage = "none" /\ stream.tail < MaxTail /\ now + Lead < MaxTail
         \/ ops[i].stage = "load",
         UNCHANGED <<now, changes>>
  PROVE  IInv'
<1> DEFINE ts == PlacedAt
           st == [stream EXCEPT !.tail = ts + 1, !.pcm = @ \union {ts}]
           T == [State EXCEPT !.stream = st]
           op == [ops[i] EXCEPT !.kind = "commit", !.ts = ts]
           op1 == [op EXCEPT !.stage = "yield"]
<1>0. /\ now \in 0 .. MaxTime /\ State \in StateType /\ ops \in [1 .. Commits -> OpType]
  BY DEF IInv, TypesInv
<1>1. stream \in StreamType /\ stream.tail \in Nat
  BY <1>0, StateIs, EndFacts DEF StateType, StreamType
<1>3. ts \in Nat /\ ts + 1 + Cardinality(Loads \ {i}) <= End BY PlacedFacts
<1>4. ts \in Chunk /\ ts \in Label /\ ts + 1 \in Instant BY PlacedFacts
<1>5. \/ ops' = [ops EXCEPT ![i] = op1] /\ UNCHANGED queue /\ Becomes(T)
      \/ Locks(i, op, T)
  <2>1. [State EXCEPT !.stream.tail = ts + 1, !.stream.pcm = @ \union {ts}] = T
    <3> HIDE DEF ts
    <3> QED BY <1>0, StateIs DEF StateType, StreamType
  <2> HIDE DEF T
  <2> QED BY <2>1, StateIs, Zenon DEF Placed, PlacedAt
<1> HIDE DEF ts
<1>6. st \in StreamType /\ st.stopped = stream.stopped /\ st.tail = ts + 1
  BY <1>1, <1>4 DEF StreamType
<1>7. Moved(State) BY StateIs DEF IInv, TypesInv, Moved
<1> HIDE DEF st
<1>8. Moved(T) /\ T.stream = st /\ T.players = State.players /\ T.keys = State.keys
  BY <1>6, <1>7, StateIs, MovedStream
<1>9. Room(i, T) BY <1>3, <1>6, <1>8 DEF Room
<1>10. ops[i] \in OpType BY <1>0
<1>11. /\ op \in OpType /\ op.stage = ops[i].stage /\ op.kind = "commit" /\ op.ts = ts
       /\ op.live = ops[i].live
  BY <1>4, <1>10 DEF OpType
<1> HIDE DEF op, T
<1>12. op1 \in OpType /\ op1.stage = "yield" /\ op1.kind = "commit" /\ op1.ts = ts
  BY <1>11 DEF OpType, Stages
<1> HIDE DEF op1
<1>13. ops[i].stage \notin Past /\ ops[i].stage \notin {"wait"} BY DEF Past
<1>14. CASE Locks(i, op, T)
  BY <1>4, <1>8, <1>9, <1>11, <1>13, <1>14, LocksStep
<1>15. CASE ops' = [ops EXCEPT ![i] = op1] /\ UNCHANGED queue /\ Becomes(T)
  <2>1. T \in StateType /\ Sound(T) BY <1>8 DEF Moved
  <2>2. State' = T /\ stream' = T.stream /\ players' = T.players BY <1>15, <2>1, BecomesIs
  <2>3. /\ ops' \in [1 .. Commits -> OpType] /\ ops'[i] = op1
        /\ \A j \in 1 .. Commits : j # i => ops'[j] = ops[j]
    BY <1>0, <1>12, <1>15
  <2>4. TypesInv' BY <1>15, <2>1, <2>2, <2>3 DEF IInv, TypesInv
  <2>5. QueueInv'
    <3>0. QueueInv /\ queue' = queue /\ queue \in Seq(1 .. Commits)
      BY <1>15 DEF IInv, TypesInv
    <3>1. \A n \in 1 .. Len(queue) : queue[n] \in 1 .. Commits BY <3>0, Elements
    <3>2. \A n \in 1 .. Len(queue) : queue[n] # i
      BY <1>13, <3>0 DEF QueueInv
    <3>3. \A n \in 1 .. Len(queue) : ops'[queue[n]].stage \in {"wait"} \union Past
      BY <2>3, <3>0, <3>1, <3>2 DEF QueueInv
    <3>4. \A j \in 1 .. Commits : ops'[j].stage \in Past => queue # <<>> /\ queue[1] = j
      BY <1>12, <2>3, <3>0 DEF QueueInv, Past
    <3>5. \A j \in 1 .. Commits :
            ops'[j].stage = "wait" => \E n \in 1 .. Len(queue) : queue[n] = j
      BY <1>12, <2>3, <3>0 DEF QueueInv
    <3> QED BY <3>0, <3>3, <3>4, <3>5 DEF QueueInv
  <2>6. PlacedInv'
    <3>1. Loads' = Loads \ {i} BY <1>12, <2>3 DEF Loads
    <3>2. stream'.tail + Cardinality(Loads') <= End BY <1>9, <2>2, <3>1 DEF Room
    <3>3. \A j \in 1 .. Commits :
            ops'[j].kind = "commit" /\ ops'[j].stage \notin {"none", "load"}
              => ops'[j].ts \in Chunk
      BY <1>4, <1>12, <2>3 DEF IInv, PlacedInv
    <3> QED BY <3>2, <3>3 DEF PlacedInv
  <2>7. DeferInv'
    <3>1. i \in Underway' BY <1>12, <2>3 DEF Underway
    <3>2. ~stream'.stopped BY <1>6, <1>8, <2>2
    <3> QED BY <3>1, <3>2 DEF DeferInv
  <2>8. Sound(State)' BY <2>1, <2>2 DEF Sound
  <2> QED BY <2>4, <2>5, <2>6, <2>7, <2>8 DEF IInv
<1> QED BY <1>5, <1>14, <1>15

-----------------------------------------------------------------------------
(* The actions: membership and formats.                                        *)

LEMMA StepsMore ==
  ASSUME NEW S, NEW T, Steps(S, T, {}), NEW extra \in SUBSET Roles
  PROVE  Steps(S, T, extra)
BY DEF Steps

LEMMA InvFacts ==
  ASSUME IInv
  PROVE  /\ now \in 0 .. MaxTime /\ now \in Nat /\ changes \in Nat /\ State \in StateType
         /\ Sound(State) /\ ops \in [1 .. Commits -> OpType] /\ queue \in Seq(1 .. Commits)
         /\ DOMAIN ops = 1 .. Commits /\ Moved(State)
         /\ stream \in StreamType /\ stream.tail \in Nat
         /\ \A k \in Keys : keys[k] \in KeyType /\ Caught(keys[k])
         /\ \A r \in Roles : players[r] \in PlayerType /\ Told(players[r])
         /\ unwound \in SUBSET Keys
<1>1. /\ now \in 0 .. MaxTime /\ changes \in Nat /\ State \in StateType
      /\ Sound(State) /\ ops \in [1 .. Commits -> OpType] /\ queue \in Seq(1 .. Commits)
  BY DEF IInv, TypesInv
<1>2. Moved(State) BY <1>1, StateIs DEF Moved
<1>3. stream \in StreamType /\ stream.tail \in Nat
  BY <1>1, StateIs, EndFacts DEF StateType, StreamType
<1>4. /\ \A k \in Keys : keys[k] \in KeyType /\ Caught(keys[k])
      /\ \A r \in Roles : players[r] \in PlayerType /\ Told(players[r])
      /\ unwound \in SUBSET Keys
  BY <1>1, StateIs DEF StateType, Sound
<1> QED BY <1>1, <1>2, <1>3, <1>4, EndFacts

Deferring(r) == IF Underway # {} THEN {r} ELSE {}

LEMMA ChangesStep ==
  ASSUME IInv, NEW T, NEW r \in Roles, Steps(State, T, Deferring(r)), Changes(T)
  PROVE  IInv'
<1>1. /\ Deferring(r) \in SUBSET Roles /\ (Deferring(r) # {} => Underway # {})
  BY DEF Deferring
<1>2. changes' \in Nat /\ now' = now /\ UNCHANGED <<ops, queue>> /\ Becomes(T)
  BY InvFacts DEF Changes
<1> QED BY <1>1, <1>2, StateStep

\* A player's record is replaced and the player joins.
LEMMA PlayerJoins ==
  ASSUME IInv, NEW S \in StateType, Steps(State, S, {}), NEW r \in Roles,
         NEW p \in PlayerType, Told(p), stream.stopped => ~p.started,
         p.pending => players[r].pending
  PROVE  Steps(State, RoleJoin([S EXCEPT !.players[r] = p], r), Deferring(r))
<1> DEFINE T == [S EXCEPT !.players[r] = p]
<1>1. Sound(S) /\ S.stream = stream BY StateIs DEF Steps
<1>2. T \in StateType /\ T.players[r] = p /\ T.stream = S.stream /\ T.keys = S.keys
      /\ \A q \in Roles \ {r} : T.players[q] = S.players[q]
  BY SetPlayer
<1> HIDE DEF T
<1>3. Sound(T) BY <1>1, <1>2 DEF Sound
<1>4. Steps(State, T, {}) BY <1>1, <1>2, <1>3, StateIs DEF Steps
<1>5. Steps(T, RoleJoin(T, r), Deferring(r)) /\ RoleJoin(T, r) \in StateType
  BY <1>2, <1>3, InvFacts, RoleJoinSteps DEF Deferring
<1>6. Deferring(r) \in SUBSET Roles BY DEF Deferring
<1>7. Steps(State, T, Deferring(r)) BY <1>4, <1>6, StepsMore
<1>8. Steps(State, RoleJoin(T, r), Deferring(r))
  BY <1>2, <1>5, <1>6, <1>7, InvFacts, StepsOrder
<1> QED BY <1>8 DEF T

LEMMA JoinsStep ==
  ASSUME IInv, NEW r \in Roles, Joins(r)
  PROVE  IInv'
<1>1. PICK k \in Keys :
        Changes(RoleJoin([State EXCEPT !.players[r] =
          [NoPlayer(k) EXCEPT !.member = "in", !.faults = players[r].faults,
                              !.lossy = players[r].lossy]], r))
  BY DEF Joins
<1> DEFINE p == [NoPlayer(k) EXCEPT !.member = "in", !.faults = players[r].faults,
                                    !.lossy = players[r].lossy]
<1>2. players[r] \in PlayerType BY InvFacts
<1>3. NoPlayer(k) \in PlayerType /\ ~NoPlayer(k).pending /\ ~NoPlayer(k).started
  BY Defaults DEF NoPlayer
<1>4. p \in PlayerType /\ ~p.pending /\ ~p.started BY <1>2, <1>3 DEF PlayerType, Members
<1> HIDE DEF p
<1>5. Told(p) BY <1>4 DEF Told
<1>6. State \in StateType /\ Steps(State, State, {}) BY InvFacts DEF Steps
<1>7. Steps(State, RoleJoin([State EXCEPT !.players[r] = p], r), Deferring(r))
  BY <1>4, <1>5, <1>6, PlayerJoins
<1>8. Changes(RoleJoin([State EXCEPT !.players[r] = p], r)) BY <1>1 DEF p
<1> QED BY <1>7, <1>8, ChangesStep

LEMMA LeavesStep ==
  ASSUME IInv, NEW r \in Roles, Leaves(r)
  PROVE  IInv'
<1> DEFINE p1 == [players[r] EXCEPT !.started = FALSE, !.pending = FALSE, !.resume = 0]
           p2 == [p1 EXCEPT !.member = "out", !.open = FALSE, !.sent = 0]
           S1 == [State EXCEPT !.players[r] = p1]
           k == players[r].format
           S2 == Dropped(S1, k, r)
           S3 == Withdrawn(S2, r)
           S4 == [S3 EXCEPT !.players[r] = p2]
<1>1. players[r] \in PlayerType /\ k \in Keys BY InvFacts DEF PlayerType
<1>2. p1 \in PlayerType /\ ~p1.pending /\ ~p1.started BY <1>1, EndFacts DEF PlayerType
<1>3. RoleLeave(State, r) = S3
  <2>1. [State EXCEPT !.players[r] = [@ EXCEPT !.started = FALSE, !.pending = FALSE, !.resume = 0]]
          = S1
    BY StateIs, InvFacts DEF StateType
  <2> HIDE DEF S1, k
  <2> QED BY <2>1, StateIs DEF RoleLeave, k
<1> HIDE DEF k, p1
<1>4. p2 \in PlayerType /\ ~p2.pending /\ ~p2.started BY <1>2, EndFacts DEF PlayerType, Members
<1>5. Told(p1) /\ Told(p2) BY <1>2, <1>4 DEF Told
<1>6. State \in StateType /\ Sound(State) BY InvFacts
<1>7. Steps(State, S1, {}) BY <1>2, <1>5, <1>6, PlayerSteps
<1>8. S1 \in StateType /\ Sound(S1) /\ S1.players[r] = p1 BY <1>2, <1>6, <1>7, SetPlayer DEF Steps
<1> HIDE DEF S1
<1>9. /\ Steps(S1, S2, {}) /\ S2 \in StateType /\ Sound(S2) /\ S2.players = S1.players
  BY <1>1, <1>8, DroppedSteps DEF Steps
<1> HIDE DEF S2
<1>10. /\ Steps(S2, S3, {}) /\ S3 \in StateType /\ Sound(S3) /\ S3.players = S2.players
  BY <1>9, WithdrawnSteps DEF Steps
<1> HIDE DEF S3, p2
<1>11. Steps(S3, S4, {}) /\ S4 \in StateType
  BY <1>4, <1>5, <1>10, PlayerSteps, SetPlayer
<1> HIDE DEF S4
<1>12. Steps(State, S4, {})
  <2>1. Steps(State, S2, {}) BY <1>6, <1>7, <1>8, <1>9, StepsOrder
  <2>2. Steps(State, S3, {}) BY <1>6, <1>9, <1>10, <2>1, StepsOrder
  <2> QED BY <1>6, <1>10, <1>11, <2>2, StepsOrder
<1>13. Changes(S4)
  <2>1. Changes([S3 EXCEPT !.players[r] = [@ EXCEPT !.member = "out", !.open = FALSE, !.sent = 0]])
    BY <1>3 DEF Leaves
  <2>2. [S3 EXCEPT !.players[r] = [@ EXCEPT !.member = "out", !.open = FALSE, !.sent = 0]] = S4
    BY <1>8, <1>9, <1>10 DEF S4, p2, StateType
  <2> QED BY <2>1, <2>2
<1>14. Deferring(r) \in SUBSET Roles BY DEF Deferring
<1>15. Steps(State, S4, Deferring(r)) BY <1>12, <1>14, StepsMore
<1> QED BY <1>13, <1>15, ChangesStep

LEMMA ChangesFormatStep ==
  ASSUME IInv, NEW r \in Roles, ChangesFormat(r)
  PROVE  IInv'
<1> DEFINE k == players[r].format
           S1 == Dropped(State, k, r)
           S2 == Withdrawn(S1, r)
           p(j) == [players[r] EXCEPT !.format = j, !.resume = players[r].sent]
<1>1. PICK j \in Keys : Changes(FormatChange(State, r, j)) BY DEF ChangesFormat
<1>2. players[r] \in PlayerType /\ k \in Keys /\ Told(players[r])
  BY InvFacts DEF PlayerType
<1>3. /\ p(j) \in PlayerType /\ p(j).pending = players[r].pending
      /\ p(j).started = players[r].started /\ p(j).member = players[r].member
      /\ p(j).open = players[r].open
  BY <1>2 DEF PlayerType
<1>4. State \in StateType /\ Sound(State) BY InvFacts
<1> HIDE DEF k
<1>5. Steps(State, S1, {}) /\ S1 \in StateType /\ Sound(S1) /\ S1.players = State.players
  BY <1>2, <1>4, DroppedSteps DEF Steps
<1>6. Steps(S1, S2, {}) /\ S2 \in StateType /\ S2.players = S1.players
  BY <1>5, WithdrawnSteps
<1>7. Steps(State, S2, {}) BY <1>4, <1>5, <1>6, StepsOrder
<1>8. FormatChange(State, r, j) = RoleJoin([S2 EXCEPT !.players[r] = p(j)], r)
  <2>1. FormatChange(State, r, j)
          = RoleJoin([S2 EXCEPT !.players[r].format = j, !.players[r].resume = players[r].sent], r)
    BY StateIs, Zenon DEF FormatChange, k
  <2> HIDE DEF S2
  <2>2. [S2 EXCEPT !.players[r].format = j, !.players[r].resume = players[r].sent]
          = [S2 EXCEPT !.players[r] = p(j)]
    BY <1>5, <1>6, StateIs DEF StateType, PlayerType
  <2> QED BY <2>1, <2>2
<1> HIDE DEF S2, p
<1>9. Told(p(j)) /\ (stream.stopped => ~p(j).started)
  BY <1>2, <1>3, <1>4, StateIs DEF Told, Sound
<1>10. Steps(State, RoleJoin([S2 EXCEPT !.players[r] = p(j)], r), Deferring(r))
  BY <1>3, <1>6, <1>7, <1>9, PlayerJoins
<1> QED BY <1>1, <1>8, <1>10, ChangesStep

LEMMA LosesConnectionStep ==
  ASSUME IInv, NEW r \in Roles, LosesConnection(r)
  PROVE  IInv'
<1> DEFINE p == [players[r] EXCEPT !.member = "warm", !.open = FALSE, !.sent = 0]
<1>1. players[r] \in PlayerType /\ State \in StateType /\ Sound(State) BY InvFacts
<1>2. /\ p \in PlayerType /\ p.member = "warm" /\ p.pending = players[r].pending
      /\ p.started = players[r].started
  BY <1>1, EndFacts DEF PlayerType, Members
<1>3. Changes([State EXCEPT !.players[r] = p])
  BY StateIs DEF LosesConnection
<1> HIDE DEF p
<1>4. Told(p) /\ (stream.stopped => ~p.started) BY <1>1, <1>2, StateIs DEF Told, Sound
<1>5. Deferring(r) \in SUBSET Roles BY DEF Deferring
<1>6. Steps(State, [State EXCEPT !.players[r] = p], Deferring(r))
  BY <1>1, <1>2, <1>4, <1>5, StateIs, PlayerSteps
<1> QED BY <1>3, <1>6, ChangesStep

LEMMA ReconnectsStep ==
  ASSUME IInv, NEW r \in Roles, Reconnects(r)
  PROVE  IInv'
<1> DEFINE p == [players[r] EXCEPT !.member = "back"]
<1>1. players[r] \in PlayerType /\ State \in StateType /\ Sound(State) BY InvFacts
<1>2. /\ p \in PlayerType /\ p.member = "back" /\ p.pending = players[r].pending
      /\ p.started = players[r].started
  BY <1>1, EndFacts DEF PlayerType, Members
<1>3. Changes([State EXCEPT !.players[r] = p])
  <2>1. [State EXCEPT !.players[r].member = "back"] = [State EXCEPT !.players[r] = p]
    BY <1>1, StateIs DEF StateType
  <2> QED BY <2>1 DEF Reconnects
<1> HIDE DEF p
<1>4. Told(p) /\ (stream.stopped => ~p.started) BY <1>1, <1>2, StateIs DEF Told, Sound
<1>5. Deferring(r) \in SUBSET Roles BY DEF Deferring
<1>6. Steps(State, [State EXCEPT !.players[r] = p], Deferring(r))
  BY <1>1, <1>2, <1>4, <1>5, StateIs, PlayerSteps
<1> QED BY <1>3, <1>6, ChangesStep

\* A join does not depend on what it first resets.
LEMMA JoinAgain ==
  ASSUME NEW S \in StateType, NEW r \in Roles
  PROVE  DoRoleJoin(S, r) = DoRoleJoin(Rejoining(S, r), r)
<1> DEFINE Q == Rejoining(S, r)
           p == S.players[r]
           R == [S EXCEPT !.players[r].pending = FALSE, !.players[r].started = FALSE]
           k == R.players[r].format
           K == R.keys[k]
           t == IF R.players[r].resume # 0 THEN R.players[r].resume ELSE Target
           L == [R EXCEPT !.players[r].lossy = @ \union Lossy(R, K, t)]
           R2 == [Q EXCEPT !.players[r].pending = FALSE, !.players[r].started = FALSE]
           k2 == R2.players[r].format
           K2 == R2.keys[k2]
           t2 == IF R2.players[r].resume # 0 THEN R2.players[r].resume ELSE Target
           L2 == [R2 EXCEPT !.players[r].lossy = @ \union Lossy(R2, K2, t2)]
<1>1. p \in PlayerType BY DEF StateType
<1>2. R = [S EXCEPT !.players[r] = Joiner(p)] BY DEF Joiner, StateType
<1>3. /\ Joiner(p) \in PlayerType
      /\ Q = [S EXCEPT !.players[r] = Joiner(p)]
  BY <1>1, JoinerIs DEF Rejoining
<1>4. Joiner(Joiner(p)) = Joiner(p) BY <1>1 DEF Joiner, PlayerType
<1>5. Q \in StateType /\ Q.players[r] = Joiner(p)
  <2> HIDE DEF Q
  <2> QED BY <1>3, SetPlayer
<1>6. R2 = Q
  <2> HIDE DEF Q
  <2>1. R2 = [Q EXCEPT !.players[r] = Joiner(Joiner(p))]
    BY <1>5 DEF Joiner, StateType
  <2> HIDE DEF R2
  <2>2. R2 = [[S EXCEPT !.players[r] = Joiner(p)] EXCEPT !.players[r] = Joiner(p)]
    BY <2>1, <1>3, <1>4
  <2> HIDE DEF p
  <2>3. R2 = [S EXCEPT !.players[r] = Joiner(p)] BY <2>2 DEF StateType
  <2> QED BY <2>3, <1>3 DEF p
<1>7. DoRoleJoin(S, r) = JoinFrom(R, r, k, K, t, L) BY DEF DoRoleJoin, JoinFrom
<1>8. DoRoleJoin(Q, r) = JoinFrom(R2, r, k2, K2, t2, L2)
  <2> HIDE DEF Q
  <2> QED BY DEF DoRoleJoin, JoinFrom
<1>9. R = R2 BY <1>2, <1>3, <1>6
<1>10. k = k2 /\ K = K2 /\ t = t2 /\ L = L2
  <2> HIDE DEF R, R2
  <2> QED BY <1>9
<1> HIDE DEF R, R2, k, K, t, L, k2, K2, t2, L2, Q
<1> QED BY <1>7, <1>8, <1>9, <1>10 DEF Q

LEMMA SendsStateStep ==
  ASSUME IInv, NEW r \in Roles, SendsState(r)
  PROVE  IInv'
<1> DEFINE K == keys[players[r].format]
           awaited == K.phase = "catching" /\ \E w \in K.waiting : w[1] = r
           lossy == players[r].lossy \union IF awaited THEN {"filling"} ELSE {}
           p == [players[r] EXCEPT !.member = "in", !.lossy = lossy]
           S == [State EXCEPT !.players[r] = p]
           T == IF stream.stopped THEN S ELSE RoleJoin(S, r)
<1>1. players[r] \in PlayerType /\ State \in StateType /\ Sound(State) BY InvFacts
<1>2. lossy \in SUBSET {"filling", "starved"}
  <2> HIDE DEF awaited
  <2> QED BY <1>1 DEF PlayerType
<1>3. Changes(T) BY StateIs, Zenon DEF SendsState
<1> HIDE DEF lossy
<1>4. /\ p \in PlayerType /\ p.pending = players[r].pending /\ p.started = players[r].started
      /\ p.open = players[r].open
  BY <1>1, <1>2 DEF PlayerType, Members
<1> HIDE DEF p
<1>5. Deferring(r) \in SUBSET Roles BY DEF Deferring
<1>6. CASE stream.stopped
  <2>1. ~p.started BY <1>1, <1>4, <1>6, StateIs DEF Sound
  <2>2. Told(p) BY <2>1 DEF Told
  <2>3. Steps(State, S, Deferring(r)) BY <1>1, <1>4, <1>5, <2>1, <2>2, StateIs, PlayerSteps
  <2> QED BY <1>3, <1>6, <2>3, ChangesStep
<1>7. CASE ~stream.stopped /\ Underway = {}
  <2> DEFINE q == Joiner(p)
             R == [State EXCEPT !.players[r] = q]
  <2>1. q \in PlayerType /\ ~q.pending /\ ~q.started BY <1>4, JoinerIs
  <2>2. Told(q) BY <2>1 DEF Told
  <2>3. S \in StateType /\ S.players[r] = p BY <1>1, <1>4, SetPlayer
  <2>4. Rejoining(S, r) = R
    <3> HIDE DEF q
    <3>1. Rejoining(S, r) = [S EXCEPT !.players[r] = q]
      <4> HIDE DEF S
      <4> QED BY <2>3 DEF Rejoining, q
    <3> QED BY <1>1, <3>1 DEF StateType
  <2> HIDE DEF q, S
  <2>5. Steps(State, R, {}) BY <1>1, <2>1, <2>2, StateIs, PlayerSteps
  <2>6. R \in StateType /\ Sound(R) BY <2>5 DEF Steps
  <2> HIDE DEF R
  <2>7. Steps(R, DoRoleJoin(R, r), {}) /\ DoRoleJoin(R, r) \in StateType
    BY <2>6, InvFacts, JoinSteps
  <2>8. Steps(State, DoRoleJoin(R, r), {}) BY <1>1, <2>5, <2>6, <2>7, StepsOrder
  <2>9. T = DoRoleJoin(R, r) BY <1>7, <2>3, <2>4, JoinAgain DEF RoleJoin
  <2>10. Steps(State, T, Deferring(r)) BY <1>5, <2>8, <2>9, StepsMore
  <2> QED BY <1>3, <2>10, ChangesStep
<1>8. CASE ~stream.stopped /\ Underway # {}
  <2> DEFINE q == [p EXCEPT !.pending = TRUE]
             R == [State EXCEPT !.players[r] = q]
  <2>1. q \in PlayerType /\ q.pending BY <1>4 DEF PlayerType
  <2>2. T = R
    <3>1. T = [S EXCEPT !.players[r].pending = TRUE] BY <1>8 DEF RoleJoin
    <3> HIDE DEF T
    <3> QED BY <1>1, <3>1, StateIs DEF StateType
  <2> HIDE DEF q, T
  <2>3. Told(q) BY <2>1 DEF Told
  <2>4. r \in Deferring(r) BY <1>8 DEF Deferring
  <2>5. Steps(State, R, Deferring(r))
    BY <1>1, <1>5, <1>8, <2>1, <2>3, <2>4, StateIs, PlayerSteps
  <2> QED BY <1>3, <2>2, <2>5, ChangesStep
<1> QED BY <1>6, <1>7, <1>8

-----------------------------------------------------------------------------
(* The actions: catch-ups and the clock.                                       *)

\* What is not at fault and encodes or waits is a catch-up that runs.
LEMMA CatchupRuns ==
  ASSUME IInv, NEW k \in Keys, ~keys[k].spoiled,
         keys[k].task.todo # {} \/ keys[k].task.waiting
  PROVE  Running(State, k)
<1>1. keys[k] \in KeyType /\ Caught(keys[k]) /\ Sound(State) BY InvFacts
<1>2. keys[k].owned /\ keys[k].phase = "catching" BY <1>1 DEF Caught, Idle
<1>3. keys[k].task.running /\ keys[k].waiting # {} BY <1>1, <1>2 DEF Caught
<1> QED BY <1>1, <1>2, <1>3, StateIs DEF Running, Sound

LEMMA QuietStep ==
  ASSUME IInv, NEW T, Steps(State, T, {}), Becomes(T), UNCHANGED <<now, ops, queue, changes>>
  PROVE  IInv'
<1>1. changes' \in Nat BY InvFacts
<1> QED BY <1>1, StateStep

LEMMA CatchupEncodesStep ==
  ASSUME IInv, NEW k \in Keys, CatchupEncodes(k)
  PROVE  IInv'
<1> DEFINE K == keys[k]
           ts == Min(K.task.todo)
           T == [State EXCEPT !.keys[k] = ChunkEncoded(k, K, ts)]
           U == IF K.task.todo = {ts} THEN BatchCached(T, k) ELSE T
<1>1. ~keys[k].spoiled /\ K.task.todo # {} BY DEF CatchupEncodes, Turned, Explored
<1>2. Running(State, k) BY <1>1, CatchupRuns
<1>3. Becomes(U) /\ UNCHANGED <<now, ops, queue, changes>>
  BY DEF CatchupEncodes, ChunkEncoded
<1>4. State \in StateType BY InvFacts
<1>5. Steps(State, U, {})
  <2>1. K = State.keys[k] BY StateIs
  <2> QED BY <1>1, <1>2, <1>4, <2>1, EncodesSteps
<1> QED BY <1>3, <1>5, QuietStep

\* A catch-up that no longer waits for more.
Drains(K) == [K EXCEPT !.task.drain = TRUE]

LEMMA DrainsFacts ==
  ASSUME NEW K \in KeyType
  PROVE  /\ Drains(K) \in KeyType
         /\ Drains(K).phase = K.phase /\ Drains(K).waiting = K.waiting
         /\ Drains(K).owned = K.owned /\ Drains(K).task.running = K.task.running
<1>1. K.task \in TaskType BY DEF KeyType
<1>2. [K.task EXCEPT !.drain = TRUE] \in TaskType
      /\ [K.task EXCEPT !.drain = TRUE].running = K.task.running BY <1>1 DEF TaskType
<1>3. Drains(K) = [K EXCEPT !.task = [K.task EXCEPT !.drain = TRUE]] BY DEF Drains
<1> HIDE DEF TaskType
<1> QED BY <1>2, <1>3 DEF KeyType

LEMMA CatchupWakesStep ==
  ASSUME IInv, NEW k \in Keys, CatchupWakes(k)
  PROVE  IInv'
<1> DEFINE T == [State EXCEPT !.keys[k] = Drains(keys[k])]
<1>1. ~keys[k].spoiled /\ keys[k].task.waiting BY DEF CatchupWakes, Turned, Explored
<1>2. Running(State, k) BY <1>1, CatchupRuns
<1>3. State \in StateType /\ keys[k] \in KeyType BY InvFacts
<1>4. Becomes(NextBatch(State, k)) \/ Becomes(NextBatch(T, k))
  <2>1. [State EXCEPT !.keys[k].task.drain = TRUE] = T BY DEF Drains, State
  <2> QED BY <2>1 DEF CatchupWakes
<1>5. UNCHANGED <<now, ops, queue, changes>> BY DEF CatchupWakes
<1>6. CASE Becomes(NextBatch(State, k))
  BY <1>2, <1>3, <1>5, <1>6, NextBatchSteps, QuietStep
<1>7. CASE Becomes(NextBatch(T, k))
  <2>1. keys[k].phase = "catching" /\ keys[k].owned /\ keys[k].task.running
        /\ keys[k].waiting # {}
    BY <1>2, StateIs DEF Running
  <2>2. keys[k].task.todo # {} \/ keys[k].task.waiting BY <1>1
  <2> DEFINE D == Drains(keys[k])
  <2>3. D \in KeyType /\ D.phase = "catching" /\ D.owned /\ D.task.running /\ D.waiting # {}
    BY <1>3, <2>1, DrainsFacts
  <2>4. D.task.waiting BY <1>1, <1>3 DEF Drains, KeyType, TaskType
  <2> HIDE DEF D
  <2>5. T \in StateType /\ Running(T, k) /\ Steps(State, T, {})
    BY <1>2, <1>3, <2>3, <2>4, RunningKey DEF D
  <2> HIDE DEF T
  <2>6. Steps(T, NextBatch(T, k), {}) /\ NextBatch(T, k) \in StateType
    BY <2>5, NextBatchSteps
  <2>7. Steps(State, NextBatch(T, k), {}) BY <1>3, <2>5, <2>6, StepsOrder
  <2> QED BY <1>5, <1>7, <2>7, QuietStep
<1> QED BY <1>4, <1>6, <1>7

LEMMA CatchupUnwindsStep ==
  ASSUME IInv, NEW k \in Keys, CatchupUnwinds(k)
  PROVE  IInv'
<1>1. Becomes(CleanedUp(State, k)) /\ UNCHANGED <<now, ops, queue, changes>>
  BY DEF CatchupUnwinds
<1>2. Steps(State, CleanedUp(State, k), {}) BY InvFacts, CleanedUpSteps
<1> QED BY <1>1, <1>2, QuietStep

LEMMA TickStep ==
  ASSUME IInv, Tick
  PROVE  IInv'
<1>1. now' = now + 1 /\ now < MaxTime /\ UNCHANGED <<stream, keys, players, ops, queue, unwound, changes>>
  BY DEF Tick
<1>2. State' = State BY <1>1 DEF State
<1>3. now' \in 0 .. MaxTime BY <1>1, InvFacts, EndFacts
<1>4. TypesInv' BY <1>1, <1>2, <1>3 DEF IInv, TypesInv
<1>5. QueueInv' BY <1>1 DEF IInv, QueueInv
<1>6. PlacedInv' BY <1>1 DEF IInv, PlacedInv, Loads
<1>7. DeferInv' BY <1>1 DEF IInv, DeferInv, Underway
<1>8. Sound(State)' BY <1>1, <1>2 DEF IInv, Sound, Caught, Idle, Told
<1> QED BY <1>4, <1>5, <1>6, <1>7, <1>8 DEF IInv

-----------------------------------------------------------------------------
(* The actions: commits and flushes.                                           *)

LEMMA RoomFacts ==
  ASSUME IInv, NEW i \in 1 .. Commits
  PROVE  Room(i, State)
<1>1. stream.tail + Cardinality(Loads) <= End BY DEF IInv, PlacedInv
<1>2. ops \in [1 .. Commits -> OpType] /\ stream.tail \in Nat BY InvFacts
<1>3. /\ Cardinality(Loads \ {i}) \in Nat /\ Cardinality(Loads) \in 0 .. Commits
      /\ Cardinality(Loads \ {i}) <= Cardinality(Loads)
  BY <1>2, LoadsFacts
<1> DEFINE c == Cardinality(Loads) d == Cardinality(Loads \ {i})
<1>4. c \in Nat BY <1>3, EndFacts
<1> HIDE DEF c, d
<1>5. stream.tail + d <= End BY <1>1, <1>2, <1>3, <1>4, EndFacts DEF c, d
<1> QED BY <1>5, StateIs DEF Room, d

LEMMA OpFacts ==
  ASSUME IInv, NEW i \in 1 .. Commits
  PROVE  /\ ops[i] \in OpType /\ ops[i].stage \in Stages
         /\ ops[i].kind = "commit" /\ ops[i].stage \notin {"none", "load"} => ops[i].ts \in Chunk
         /\ stream.stopped /\ ops[i].stage # "none" => ~ops[i].live
         /\ ops[i].stage \in Past => queue # <<>> /\ queue[1] = i
         /\ ops[i].stage \in Past => \A n \in 1 .. Len(queue) : queue[n] = i => n = 1
         /\ ops[i].stage \notin {"wait"} \union Past =>
              \A n \in 1 .. Len(queue) : queue[n] = i => n = 1
<1>1. ops[i] \in OpType /\ ops[i].stage \in Stages BY InvFacts DEF OpType
<1>2. ops[i].kind = "commit" /\ ops[i].stage \notin {"none", "load"} => ops[i].ts \in Chunk
  BY DEF IInv, PlacedInv
<1>3. stream.stopped /\ ops[i].stage # "none" => ~ops[i].live BY DEF IInv, DeferInv
<1>4. QueueInv /\ queue \in Seq(1 .. Commits) BY InvFacts DEF IInv
<1>5. ops[i].stage \in Past => queue # <<>> /\ queue[1] = i BY <1>4 DEF QueueInv
<1>6. ASSUME ops[i].stage \in Past, NEW n \in 1 .. Len(queue), queue[n] = i PROVE n = 1
  <2>1. Len(queue) \in Nat \ {0} BY <1>4, <1>5, <1>6, Tailed
  <2>2. 1 \in 1 .. Len(queue) BY <2>1
  <2> QED BY <1>4, <1>5, <1>6, <2>2 DEF QueueInv
<1>7. ops[i].stage \notin {"wait"} \union Past => \A n \in 1 .. Len(queue) : queue[n] # i
  BY <1>4 DEF QueueInv
<1> QED BY <1>1, <1>2, <1>3, <1>5, <1>6, <1>7

LEMMA CommitStep ==
  ASSUME IInv, NEW i \in 1 .. Commits, Commit(i)
  PROVE  IInv'
<1>1. /\ ops[i].stage = "none" /\ ~stream.stopped
      /\ stream.tail < MaxTail /\ now + Lead < MaxTail /\ UNCHANGED <<now, changes>>
  BY DEF Commit
<1>2. CASE stream.tail # 0
  <2>1. Placed(i, State) BY <1>2 DEF Commit
  <2> QED BY <1>1, <2>1, PlacedStep
<1>3. CASE stream.tail = 0
  <2>1. /\ ops' = [ops EXCEPT ![i].stage = "load"]
        /\ UNCHANGED <<stream, keys, players, queue, unwound>>
    BY <1>3 DEF Commit
  <2>2. ops \in [1 .. Commits -> OpType] /\ ops[i] \in OpType BY InvFacts
  <2>3. [ops[i] EXCEPT !.stage = "load"] \in OpType BY <2>2 DEF OpType, Stages
  <2>4. /\ ops' \in [1 .. Commits -> OpType] /\ ops'[i].stage = "load"
        /\ \A j \in 1 .. Commits : j # i => ops'[j] = ops[j]
    <3>1. ops' = [ops EXCEPT ![i] = [ops[i] EXCEPT !.stage = "load"]] BY <2>1
    <3> DEFINE op == [ops[i] EXCEPT !.stage = "load"]
    <3>2. op.stage = "load" BY <2>2 DEF OpType
    <3> HIDE DEF op
    <3> QED BY <2>2, <2>3, <3>1, <3>2 DEF op
  <2>5. State' = State /\ UNCHANGED <<stream, players, queue>> BY <2>1 DEF State
  <2>6. TypesInv' BY <1>1, <2>4, <2>5 DEF IInv, TypesInv
  <2>7. QueueInv'
    <3>1. QueueInv /\ queue \in Seq(1 .. Commits) BY InvFacts DEF IInv
    <3>2. \A n \in 1 .. Len(queue) : queue[n] # i /\ queue[n] \in 1 .. Commits
      BY <1>1, <3>1, Elements DEF QueueInv, Past
    <3>3. \A n \in 1 .. Len(queue) : ops'[queue[n]].stage \in {"wait"} \union Past
      BY <2>4, <3>1, <3>2 DEF QueueInv
    <3>4. \A j \in 1 .. Commits : ops'[j].stage \in Past => queue # <<>> /\ queue[1] = j
      BY <1>1, <2>4, <3>1 DEF QueueInv, Past
    <3>5. \A j \in 1 .. Commits :
            ops'[j].stage = "wait" => \E n \in 1 .. Len(queue) : queue[n] = j
      BY <1>1, <2>4, <3>1 DEF QueueInv
    <3> QED BY <2>5, <3>1, <3>3, <3>4, <3>5 DEF QueueInv
  <2>8. PlacedInv'
    <3>1. Loads' = Loads \union {i} BY <2>4 DEF Loads
    <3>2. Cardinality(Loads \union {i}) \in 0 .. Commits BY <2>2, LoadsFacts
    <3>3. Commits <= End BY EndFacts DEF End
    <3>4. stream.tail' + Cardinality(Loads') <= End
      BY <1>3, <2>5, <3>1, <3>2, <3>3, EndFacts
    <3>5. \A j \in 1 .. Commits : ops'[j].kind = "commit" /\ ops'[j].stage \notin {"none", "load"}
                                   => ops'[j].ts \in Chunk
      BY <2>4 DEF IInv, PlacedInv
    <3> QED BY <3>4, <3>5 DEF PlacedInv
  <2>9. DeferInv'
    <3>1. DOMAIN ops = 1 .. Commits /\ DOMAIN ops' = 1 .. Commits BY <2>2, <2>4
    <3>2. Underway' # {}
      <4>1. ops'[i].stage # "none" BY <2>4
      <4> QED BY <3>1, <4>1 DEF Underway
    <3> QED BY <1>1, <2>5, <3>2 DEF DeferInv
  <2>10. Sound(State)' BY <2>5 DEF IInv, Sound
  <2> QED BY <2>6, <2>7, <2>8, <2>9, <2>10 DEF IInv
<1> QED BY <1>2, <1>3

LEMMA LoadedStep ==
  ASSUME IInv, NEW i \in 1 .. Commits, Loaded(i)
  PROVE  IInv'
<1>1. ops[i].stage = "load" /\ UNCHANGED <<now, changes>> BY DEF Loaded
<1>2. CASE ops[i].live
  <2>1. Placed(i, State) BY <1>2 DEF Loaded
  <2>2. ~stream.stopped BY <1>1, <1>2, OpFacts
  <2> QED BY <1>1, <2>1, <2>2, PlacedStep
<1>3. CASE ~ops[i].live
  <2>1. Ends(i, State) BY <1>3 DEF Loaded
  <2>2. \A n \in 1 .. Len(queue) : queue[n] = i => n = 1 BY <1>1, OpFacts DEF Past
  <2>3. Moved(State) /\ Room(i, State) BY InvFacts, RoomFacts
  <2> QED BY <1>1, <2>1, <2>2, <2>3, EndsStep
<1> QED BY <1>2, <1>3

LEMMA YieldedStep ==
  ASSUME IInv, NEW i \in 1 .. Commits, Yielded(i)
  PROVE  IInv'
<1>1. /\ ops[i].stage = "yield" /\ UNCHANGED <<now, changes>>
      /\ Locks(i, ops[i], State)
  BY DEF Yielded
<1>2. /\ ops[i] \in OpType /\ ops[i].stage \notin Past
      /\ ops[i].kind = "commit" => ops[i].ts \in Chunk
      /\ stream.stopped => ~ops[i].live
  BY <1>1, OpFacts DEF Past
<1>3. Moved(State) /\ Room(i, State) BY InvFacts, RoomFacts
<1> QED BY <1>1, <1>2, <1>3, LocksStep

LEMMA FlushStep ==
  ASSUME IInv, NEW i \in 1 .. Commits, Flush(i)
  PROVE  IInv'
<1> DEFINE st == [stream EXCEPT !.flush = "asked"]
           S == [State EXCEPT !.stream = st]
           op == [NoOp EXCEPT !.kind = "flush"]
<1>1. /\ Underway = {} /\ ~stream.stopped /\ UNCHANGED <<now, changes>>
  BY DEF Flush
<1>2. Locks(i, op, S)
  <2>1. [State EXCEPT !.stream.flush = "asked"] = S BY DEF State
  <2> QED BY <2>1 DEF Flush
<1>3. ops[i].stage = "none" BY <1>1, InvFacts DEF Underway
<1>4. op \in OpType /\ op.kind = "flush" BY Defaults DEF OpType
<1>5. stream \in StreamType BY InvFacts
<1>6. st \in StreamType /\ st.stopped = stream.stopped /\ st.tail = stream.tail
  BY <1>5 DEF StreamType
<1> HIDE DEF st, op
<1>7. Moved(S) /\ S.stream = st
  BY <1>6, InvFacts, StateIs, MovedStream
<1>8. Room(i, S) BY <1>6, <1>7, RoomFacts, StateIs DEF Room
<1> HIDE DEF S
<1> QED BY <1>1, <1>2, <1>3, <1>4, <1>7, <1>8, LocksStep DEF Past

LEMMA GrantedStep ==
  ASSUME IInv, NEW i \in 1 .. Commits, Granted(i)
  PROVE  IInv'
<1>1. /\ ops[i].stage = "wait" /\ Head(queue) = i /\ UNCHANGED <<now, changes>>
      /\ Acquired(i, ops[i], State)
  BY DEF Granted
<1>2. /\ ops[i] \in OpType
      /\ ops[i].kind = "commit" => ops[i].ts \in Chunk
      /\ stream.stopped => ~ops[i].live
  BY <1>1, OpFacts
<1>3. queue = <<>> \/ queue[1] = i
  <2>1. queue \in Seq(1 .. Commits) BY InvFacts
  <2> QED BY <1>1, <2>1, Tailed
<1>4. Moved(State) /\ Room(i, State) BY InvFacts, RoomFacts
<1> QED BY <1>1, <1>2, <1>3, <1>4, AcquiredStep

LEMMA ResampledStep ==
  ASSUME IInv, NEW i \in 1 .. Commits, Resampled(i)
  PROVE  IInv'
<1> DEFINE todo == {g[2] : g \in {h \in ops[i].group : keys[h[2]].phase # "catching"
                                                      /\ keys[h[2]].last <= ops[i].ts}}
           op == [ops[i] EXCEPT !.stage = "encode", !.todo = todo]
<1>1. /\ ops[i].stage = "resample" /\ UNCHANGED <<now, changes>>
      /\ IF ~ops[i].live THEN Ends(i, State)
         ELSE IF todo = {} THEN Ends(i, Pruned(State))
         ELSE Continues(i, op, State)
  BY DEF Resampled
<1>2. /\ ops[i] \in OpType /\ ops[i].stage \in Past
      /\ ops[i].kind = "commit" => ops[i].ts \in Chunk
      /\ stream.stopped => ~ops[i].live
      /\ queue[1] = i /\ \A n \in 1 .. Len(queue) : queue[n] = i => n = 1
  BY <1>1, OpFacts DEF Past
<1>3. Moved(State) /\ Room(i, State) BY InvFacts, RoomFacts
<1>4. todo \in SUBSET Keys
  <2>1. ops[i].group \in SUBSET (Roles \X Keys) BY <1>2 DEF OpType
  <2> QED BY <2>1
<1> HIDE DEF todo
<1>5. /\ op \in OpType /\ op.stage = "encode" /\ op.kind = ops[i].kind /\ op.ts = ops[i].ts
      /\ op.live = ops[i].live
  BY <1>2, <1>4 DEF OpType, Stages
<1> HIDE DEF op
<1>6. CASE ~ops[i].live BY <1>1, <1>2, <1>3, <1>6, EndsStep
<1>7. CASE ops[i].live /\ todo = {}
  <2>1. Moved(Pruned(State)) /\ Room(i, Pruned(State)) BY <1>3, MovedPruned
  <2> QED BY <1>1, <1>2, <1>7, <2>1, EndsStep
<1>8. CASE ops[i].live /\ todo # {}
  <2>1. Continues(i, op, State) BY <1>1, <1>8
  <2>2. op.stage \in Past BY <1>5 DEF Past
  <2>3. op.kind = "commit" => op.ts \in Chunk BY <1>2, <1>5
  <2>4. stream.stopped => ~op.live BY <1>2, <1>5
  <2> QED BY <1>1, <1>2, <1>3, <1>5, <2>1, <2>2, <2>3, <2>4, ContinuesStep
<1> QED BY <1>6, <1>7, <1>8

LEMMA DeliveredStep ==
  ASSUME IInv, NEW i \in 1 .. Commits, Delivered(i)
  PROVE  IInv'
<1>1. /\ ops[i].stage = "deliver" /\ UNCHANGED <<now, changes>>
      /\ IF ops[i].live THEN Ends(i, Pruned(CachedAndDelivered(State, ops[i])))
         ELSE Ends(i, State)
  BY DEF Delivered
<1>2. /\ ops[i] \in OpType
      /\ stream.stopped => ~ops[i].live
      /\ \A n \in 1 .. Len(queue) : queue[n] = i => n = 1
  BY <1>1, OpFacts DEF Past
<1>3. Moved(State) /\ Room(i, State) BY InvFacts, RoomFacts
<1>4. CASE ~ops[i].live BY <1>1, <1>2, <1>3, <1>4, EndsStep
<1>5. CASE ops[i].live
  <2> DEFINE T == CachedAndDelivered(State, ops[i])
  <2>1. State \in StateType /\ Sound(State) BY InvFacts
  <2>2. ~State.stream.stopped BY <1>2, <1>5, StateIs
  <2>3. Steps(State, T, {}) BY <1>2, <2>1, <2>2, DeliveredSteps
  <2> HIDE DEF T
  <2>4. T.stream = stream BY <2>3, StateIs DEF Steps
  <2>5. Moved(T) BY <2>3, <2>4, StateIs DEF Steps, Moved
  <2>6. Room(i, T) BY <1>3, <2>4, StateIs DEF Room
  <2>7. Moved(Pruned(T)) /\ Room(i, Pruned(T)) BY <2>5, <2>6, MovedPruned
  <2>8. Ends(i, Pruned(T)) BY <1>1, <1>5 DEF T
  <2> QED BY <1>1, <1>2, <2>7, <2>8, EndsStep
<1> QED BY <1>4, <1>5

\* What the worker thread makes of the format, and what it emits.
EncodedKey(op, k) ==
  IF op.kind = "commit" THEN Encoded(k, keys[k], op.ts) ELSE [keys[k] EXCEPT !.held = 0]
EncodedOut(op, k) ==
  IF op.kind = "commit" THEN Emitted(k, keys[k], op.ts)
  ELSE IF keys[k].held # 0 THEN <<keys[k].held>> ELSE <<>>

LEMMA EncodedKeyFacts ==
  ASSUME IInv, NEW k \in Keys, NEW op \in OpType, op.kind = "commit" => op.ts \in Chunk
  PROVE  /\ EncodedKey(op, k) \in KeyType /\ Caught(EncodedKey(op, k))
         /\ EncodedKey(op, k).owned = keys[k].owned
         /\ EncodedOut(op, k) \in Seq(Label)
<1>1. keys[k] \in KeyType /\ Caught(keys[k]) BY InvFacts
<1>2. op.kind \in {"commit", "flush"} BY DEF OpType
<1>3. CASE op.kind = "commit"
  <2>1. EncodedKey(op, k) = Encoded(k, keys[k], op.ts) /\ EncodedOut(op, k) = Emitted(k, keys[k], op.ts)
    BY <1>3 DEF EncodedKey, EncodedOut
  <2>2. op.ts \in Chunk BY <1>3
  <2> QED BY <1>1, <2>1, <2>2, EncodedFacts, EmittedFacts DEF Caught, Idle
<1>4. CASE op.kind # "commit"
  <2> DEFINE K == [keys[k] EXCEPT !.held = 0]
  <2>1. /\ K \in KeyType /\ K.phase = keys[k].phase /\ K.waiting = keys[k].waiting
        /\ K.task = keys[k].task /\ K.owned = keys[k].owned /\ K.spoiled = keys[k].spoiled
    BY <1>1, EndFacts DEF KeyType
  <2>2. EncodedKey(op, k) = K BY <1>4 DEF EncodedKey
  <2> HIDE DEF K
  <2>3. Caught(K) BY <1>1, <2>1 DEF Caught, Idle
  <2>4. keys[k].held \in Label BY <1>1 DEF KeyType
  <2>5. EncodedOut(op, k) = IF keys[k].held # 0 THEN <<keys[k].held>> ELSE <<>>
    BY <1>4 DEF EncodedOut
  <2>6. EncodedOut(op, k) \in Seq(Label) BY <2>4, <2>5
  <2> QED BY <2>1, <2>2, <2>3, <2>6
<1> QED BY <1>3, <1>4

LEMMA EncodedOffLoopStep ==
  ASSUME IInv, NEW i \in 1 .. Commits, EncodedOffLoop(i)
  PROVE  IInv'
<1> DEFINE frames == [k \in Keys |-> IF ops[i].live /\ k \in ops[i].todo
                                     THEN EncodedOut(ops[i], k) ELSE <<>>]
           ks == [k \in Keys |-> IF ops[i].live /\ k \in ops[i].todo
                                 THEN EncodedKey(ops[i], k) ELSE keys[k]]
           op == [ops[i] EXCEPT !.stage = "deliver", !.frames = frames]
           S == [State EXCEPT !.keys = ks]
<1>1. /\ ops[i].stage = "encode"
      /\ ops' = [ops EXCEPT ![i].stage = "deliver", ![i].frames = frames]
      /\ keys' = ks
      /\ UNCHANGED <<now, stream, players, queue, unwound, changes>>
  BY Zenon DEF EncodedOffLoop, EncodedKey, EncodedOut
<1>2. /\ ops[i] \in OpType /\ ops[i].stage \in Past
      /\ ops[i].kind = "commit" => ops[i].ts \in Chunk
      /\ stream.stopped => ~ops[i].live
      /\ queue # <<>> /\ queue[1] = i
  BY <1>1, OpFacts DEF Past
<1>3. Moved(State) /\ Room(i, State) BY InvFacts, RoomFacts
<1>4. \A k \in Keys : /\ keys[k] \in KeyType /\ Caught(keys[k])
                      /\ EncodedKey(ops[i], k) \in KeyType /\ Caught(EncodedKey(ops[i], k))
                      /\ EncodedKey(ops[i], k).owned = keys[k].owned
                      /\ EncodedOut(ops[i], k) \in Seq(Label)
  BY <1>2, InvFacts, EncodedKeyFacts
<1>5. /\ ks \in [Keys -> KeyType]
      /\ \A k \in Keys : Caught(ks[k]) /\ ks[k].owned = keys[k].owned
  BY <1>4
<1>6. frames \in [Keys -> Seq(Label)]
  <2> DEFINE none == <<>>
  <2>1. none \in Seq(Label) BY EndFacts
  <2>2. frames = [k \in Keys |-> IF ops[i].live /\ k \in ops[i].todo
                                 THEN EncodedOut(ops[i], k) ELSE none] OBVIOUS
  <2> HIDE DEF none, frames
  <2> QED BY <1>4, <2>1, <2>2
<1> HIDE DEF frames, ks
<1>7. /\ op \in OpType /\ op.stage = "deliver" /\ op.kind = ops[i].kind /\ op.ts = ops[i].ts
      /\ op.live = ops[i].live
  BY <1>2, <1>6 DEF OpType, Stages
<1>8. ops' = [ops EXCEPT ![i] = op]
  <2>1. ops \in [1 .. Commits -> OpType] BY InvFacts
  <2> QED BY <1>1, <2>1 DEF OpType
<1> HIDE DEF op
<1>9. State \in StateType /\ Sound(State) BY InvFacts
<1>10. S \in StateType /\ S.keys = ks /\ S.players = players /\ S.stream = stream
       /\ S.unwound = unwound
  BY <1>5, <1>9, StateIs DEF StateType
<1> HIDE DEF S
<1>11. Sound(S) BY <1>5, <1>9, <1>10, StateIs DEF Sound
<1>12. Moved(S) /\ Room(i, S) BY <1>3, <1>10, <1>11, StateIs DEF Moved, Room
<1>13. Becomes(S) BY <1>1, <1>10 DEF Becomes
<1>14. \E n \in DOMAIN queue : queue[n] = i
  <2>1. queue \in Seq(1 .. Commits) BY InvFacts
  <2>2. Len(queue) \in Nat \ {0} BY <1>2, <2>1, Tailed
  <2>3. 1 \in DOMAIN queue BY <2>1, <2>2
  <2> QED BY <1>2, <2>3
<1>15. Continues(i, op, S) BY <1>1, <1>8, <1>13, <1>14 DEF Continues
<1>16. op.stage \in Past BY <1>7 DEF Past
<1>17. op.kind = "commit" => op.ts \in Chunk BY <1>2, <1>7
<1>18. stream.stopped => ~op.live BY <1>2, <1>7
<1> QED BY <1>1, <1>2, <1>7, <1>12, <1>15, <1>16, <1>17, <1>18, ContinuesStep

-----------------------------------------------------------------------------
(* The actions: clear and stop.                                                *)

\* What is in progress, void.
Void(op) == [op EXCEPT !.live = op.stage = "none"]

LEMMA VoidFacts ==
  ASSUME IInv, Voided
  PROVE  /\ ops' \in [1 .. Commits -> OpType]
         /\ \A i \in 1 .. Commits :
              /\ ops'[i].stage = ops[i].stage /\ ops'[i].kind = ops[i].kind
              /\ ops'[i].ts = ops[i].ts
              /\ ops'[i].stage # "none" => ~ops'[i].live
         /\ Loads' = Loads /\ Underway' = Underway
<1>1. ops \in [1 .. Commits -> OpType] /\ DOMAIN ops = 1 .. Commits BY InvFacts
<1>2. ops' = [i \in 1 .. Commits |-> Void(ops[i])] BY <1>1 DEF Voided, Void
<1>3. \A op \in OpType : /\ Void(op) \in OpType
                         /\ Void(op).stage = op.stage /\ Void(op).kind = op.kind
                         /\ Void(op).ts = op.ts
                         /\ Void(op).stage # "none" => ~Void(op).live
  BY DEF Void, OpType
<1>4. /\ ops' \in [1 .. Commits -> OpType]
      /\ \A i \in 1 .. Commits :
           /\ ops'[i].stage = ops[i].stage /\ ops'[i].kind = ops[i].kind
           /\ ops'[i].ts = ops[i].ts
           /\ ops'[i].stage # "none" => ~ops'[i].live
  BY <1>1, <1>2, <1>3
<1>5. Loads' = Loads BY <1>4 DEF Loads
<1>6. DOMAIN ops' = 1 .. Commits BY <1>4
<1>7. Underway' = Underway BY <1>1, <1>4, <1>6 DEF Underway
<1> QED BY <1>4, <1>5, <1>7

\* A step that makes what is in progress void and withdraws the deferred joins.
LEMMA VoidStep ==
  ASSUME IInv, Voided, NEW T \in StateType, Sound(T), Becomes(T),
         T.stream.tail <= stream.tail, \A r \in Roles : ~T.players[r].pending,
         now' = now, changes' \in Nat, UNCHANGED queue
  PROVE  IInv'
<1>1. State' = T /\ stream' = T.stream /\ players' = T.players BY BecomesIs
<1>2. /\ ops' \in [1 .. Commits -> OpType]
      /\ \A i \in 1 .. Commits :
           /\ ops'[i].stage = ops[i].stage /\ ops'[i].kind = ops[i].kind
           /\ ops'[i].ts = ops[i].ts
           /\ ops'[i].stage # "none" => ~ops'[i].live
      /\ Loads' = Loads /\ Underway' = Underway
  BY VoidFacts
<1>3. queue \in Seq(1 .. Commits) /\ stream.tail \in Nat BY InvFacts
<1>4. TypesInv' BY <1>1, <1>2 DEF IInv, TypesInv
<1>5. QueueInv'
  <2>1. \A n \in 1 .. Len(queue) : queue[n] \in 1 .. Commits BY <1>3, Elements
  <2> QED BY <1>2, <2>1 DEF IInv, QueueInv
<1>6. PlacedInv'
  <2>1. T.stream.tail \in Nat BY EndFacts DEF StateType, StreamType
  <2>2. Cardinality(Loads) \in Nat
    <3>1. Cardinality(Loads) \in 0 .. Commits BY InvFacts, LoadsFacts
    <3> QED BY <3>1, EndFacts
  <2> DEFINE c == Cardinality(Loads)
  <2>3. stream.tail + c <= End BY DEF IInv, PlacedInv
  <2>4. T.stream.tail + c <= End
    <3> HIDE DEF c
    <3> QED BY <1>3, <2>1, <2>2, <2>3, EndFacts DEF c
  <2> QED BY <1>1, <1>2, <2>4 DEF IInv, PlacedInv
<1>7. DeferInv' BY <1>1, <1>2 DEF DeferInv
<1>8. Sound(State)' BY <1>1 DEF Sound
<1> QED BY <1>4, <1>5, <1>6, <1>7, <1>8 DEF IInv

LEMMA ClearStep ==
  ASSUME IInv, Clear
  PROVE  IInv'
<1> DEFINE C == Cancelled(State)
           st == [stream EXCEPT !.flush = "no", !.tail = 0, !.pcm = {}]
           none == <<>>
           ks == [k \in Keys |-> [C.keys[k] EXCEPT !.cache = none]]
           T == [C EXCEPT !.stream = st, !.keys = ks]
<1>1. State \in StateType /\ Sound(State) /\ stream \in StreamType /\ stream.tail \in Nat BY InvFacts
<1>2. /\ C \in StateType /\ C.stream = stream /\ Sound(C)
      /\ \A r \in Roles : C.players[r] = CancelledPlayer(players[r])
  BY <1>1, CancelledFacts, StateIs
<1>3. st \in StreamType /\ st.tail = 0 /\ st.stopped = stream.stopped
  BY <1>1, EndFacts DEF StreamType
<1>4. none \in Seq(Label) BY EndFacts
<1>5. /\ ~stream.stopped /\ Voided /\ now' = now /\ queue' = queue /\ changes' = changes + 1
      /\ Becomes(T)
  <2> DEFINE S == [C EXCEPT !.stream = [C.stream EXCEPT !.flush = "no", !.tail = 0, !.pcm = {}]]
  <2>1. Becomes([S EXCEPT !.keys = [k \in Keys |-> [S.keys[k] EXCEPT !.cache = <<>>]]])
    BY DEF Clear
  <2>2. S = [C EXCEPT !.stream = st] BY <1>2
  <2> HIDE DEF C, st
  <2>3. S.keys = C.keys BY <1>2, <2>2 DEF StateType
  <2>4. Becomes([S EXCEPT !.keys = ks]) BY <2>1, <2>3
  <2> HIDE DEF S, ks
  <2>5. [S EXCEPT !.keys = ks] = T BY <1>2, <2>2 DEF StateType
  <2>6. Becomes(T) BY <2>4, <2>5
  <2> QED BY <2>6 DEF Clear
<1> HIDE DEF C, st, none
<1>6. \A k \in Keys : C.keys[k] \in KeyType /\ Caught(C.keys[k]) BY <1>2 DEF StateType, Sound
<1>7. \A k \in Keys : /\ ks[k] \in KeyType /\ Caught(ks[k]) /\ ks[k].owned = C.keys[k].owned
  BY <1>4, <1>6, CacheSet
<1>8. ks \in [Keys -> KeyType] BY <1>7
<1> HIDE DEF ks
<1>9. T \in StateType /\ T.keys = ks /\ T.stream = st /\ T.players = C.players
  BY <1>2, <1>3, <1>8 DEF StateType
<1> HIDE DEF T
<1>10. Sound(T) BY <1>2, <1>3, <1>5, <1>7, <1>9 DEF Sound
<1>11. \A r \in Roles : ~T.players[r].pending
  BY <1>2, <1>9, InvFacts, CancelledPlayerFacts
<1>12. changes' \in Nat /\ T.stream.tail <= stream.tail BY <1>1, <1>3, <1>5, <1>9, InvFacts
<1> QED BY <1>5, <1>9, <1>10, <1>11, <1>12, VoidStep

LEMMA StopStep ==
  ASSUME IInv, Stop
  PROVE  IInv'
<1> DEFINE C == Cancelled(State)
           st == [stream EXCEPT !.stopped = TRUE, !.pcm = {}]
           ps == [r \in Roles |-> [C.players[r] EXCEPT !.open = @ /\ C.players[r].member # "in"]]
           T == [C EXCEPT !.stream = st, !.players = ps]
<1>1. State \in StateType /\ Sound(State) /\ stream \in StreamType /\ stream.tail \in Nat BY InvFacts
<1>2. /\ C \in StateType /\ C.stream = stream /\ Sound(C)
      /\ \A r \in Roles : C.players[r] = CancelledPlayer(players[r])
      /\ \A k \in Keys : C.keys[k] = CancelledKey(State, k)
  BY <1>1, CancelledFacts, StateIs
<1>3. st \in StreamType /\ st.tail = stream.tail /\ st.stopped
  BY <1>1 DEF StreamType
<1>5. /\ Voided /\ now' = now /\ queue' = queue /\ changes' = changes
      /\ Becomes(T)
  <2> DEFINE S == [C EXCEPT !.stream = [C.stream EXCEPT !.stopped = TRUE, !.pcm = {}]]
  <2>1. Becomes([S EXCEPT !.players = [r \in Roles |->
                   [S.players[r] EXCEPT !.open = S.players[r].open /\ S.players[r].member # "in"]]])
    BY DEF Stop
  <2>2. S = [C EXCEPT !.stream = st] BY <1>2
  <2> HIDE DEF C, st
  <2>3. S.players = C.players BY <1>2, <2>2 DEF StateType
  <2> HIDE DEF S
  <2>4. Becomes([S EXCEPT !.players = ps])
    <3>1. ps = [r \in Roles |->
                  [C.players[r] EXCEPT !.open = C.players[r].open /\ C.players[r].member # "in"]]
      OBVIOUS
    <3> QED BY <2>1, <2>3, <3>1
  <2> HIDE DEF ps
  <2>5. [S EXCEPT !.players = ps] = T BY <1>2, <2>2 DEF StateType
  <2>6. Becomes(T) BY <2>4, <2>5
  <2> QED BY <2>6 DEF Stop
<1> HIDE DEF C, st
<1>6. \A r \in Roles : /\ C.players[r] \in PlayerType /\ Told(C.players[r])
                       /\ ~C.players[r].started /\ ~C.players[r].pending
  BY <1>2, InvFacts, CancelledPlayerFacts DEF Sound
<1>7. \A r \in Roles : /\ ps[r] \in PlayerType /\ ~ps[r].started /\ ~ps[r].pending
  <2> SUFFICES ASSUME NEW r \in Roles
               PROVE  ps[r] \in PlayerType /\ ~ps[r].started /\ ~ps[r].pending
    OBVIOUS
  <2>1. ps[r] = [C.players[r] EXCEPT !.open = @ /\ C.players[r].member # "in"] OBVIOUS
  <2>2. (C.players[r].open /\ C.players[r].member # "in") \in BOOLEAN OBVIOUS
  <2> DEFINE p == C.players[r] b == p.open /\ p.member # "in"
  <2>3. p \in PlayerType /\ b \in BOOLEAN /\ ~p.started /\ ~p.pending BY <1>6
  <2>4. ps[r] = [p EXCEPT !.open = b] BY <2>1
  <2> HIDE DEF p, b, ps
  <2> QED BY <2>3, <2>4 DEF PlayerType
<1>8. ps \in [Roles -> PlayerType] BY <1>7
<1> HIDE DEF ps
<1>9. T \in StateType /\ T.keys = C.keys /\ T.stream = st /\ T.players = ps
  BY <1>2, <1>3, <1>8 DEF StateType
<1> HIDE DEF T
<1>10. Sound(T)
  <2>1. \A k \in Keys : Caught(T.keys[k]) BY <1>2, <1>9 DEF Sound
  <2>2. \A r \in Roles : Told(T.players[r]) BY <1>7, <1>9 DEF Told
  <2>3. \A k \in Keys : ~T.keys[k].owned
    BY <1>1, <1>2, <1>9, CancelledKeyFacts DEF Sound
  <2> QED BY <1>7, <1>9, <2>1, <2>2, <2>3 DEF Sound
<1>11. changes' \in Nat /\ T.stream.tail <= stream.tail BY <1>1, <1>3, <1>5, <1>9, InvFacts
<1> QED BY <1>5, <1>7, <1>9, <1>10, <1>11, VoidStep

-----------------------------------------------------------------------------
(* The invariant holds initially, and whatever is done.                        *)

LEMMA InitInv == Init => IInv
<1> SUFFICES ASSUME Init PROVE IInv OBVIOUS
<1> DEFINE st == [stopped |-> FALSE, flush |-> "no", tail |-> 0, pcm |-> {}]
           first == CHOOSE k \in Keys : TRUE
<1>1. /\ now = 0 /\ stream = st /\ keys = [k \in Keys |-> NoKey]
      /\ players = [r \in Roles |-> NoPlayer(first)]
      /\ ops = [i \in 1 .. Commits |-> NoOp] /\ queue = <<>> /\ unwound = {} /\ changes = 0
  BY DEF Init
<1>2. first \in Keys BY PushStreamAssumption DEF PushStreamAssumption
<1> HIDE DEF first
<1>3. st \in StreamType /\ ~st.stopped /\ st.tail = 0 BY EndFacts DEF StreamType
<1> HIDE DEF st
<1>4. keys \in [Keys -> KeyType] /\ \A k \in Keys : keys[k] = NoKey
  BY <1>1, Defaults
<1>5. players \in [Roles -> PlayerType] /\ \A r \in Roles : players[r] = NoPlayer(first)
  BY <1>1, <1>2, Defaults
<1>6. ops \in [1 .. Commits -> OpType] /\ \A i \in 1 .. Commits : ops[i] = NoOp
  BY <1>1, Defaults
<1>7. NoOp.stage = "none" BY DEF NoOp
<1>8. State \in StateType
  <2>1. unwound \in SUBSET Keys /\ stream \in StreamType BY <1>1, <1>3
  <2> QED BY <1>4, <1>5, <2>1 DEF State, StateType
<1>9. TypesInv
  <2>1. now \in 0 .. MaxTime /\ changes \in Nat BY <1>1, EndFacts
  <2>2. queue \in Seq(1 .. Commits) /\ Len(queue) = 0 BY <1>1
  <2> QED BY <1>6, <1>8, <2>1, <2>2 DEF TypesInv
<1>10. QueueInv
  <2>1. Len(queue) = 0 /\ 1 .. Len(queue) = {} BY <1>1
  <2> QED BY <1>6, <1>7, <2>1 DEF QueueInv, Past
<1>11. PlacedInv
  <2>1. Loads = {} BY <1>6, <1>7 DEF Loads
  <2>2. Cardinality(Loads) = 0 BY <2>1, FS_EmptySet
  <2> QED BY <1>1, <1>3, <1>6, <1>7, <2>2, EndFacts DEF PlacedInv
<1>12. NoPlayer(first).member = "out" /\ ~NoPlayer(first).pending /\ ~NoPlayer(first).started
  BY DEF NoPlayer
<1>13. DeferInv BY <1>1, <1>3, <1>5, <1>12 DEF DeferInv
<1>14. Sound(State)
  <2>1. Caught(NoKey) BY DEF Caught, Idle, NoKey, NoTask
  <2> QED BY <1>1, <1>3, <1>4, <1>5, <1>12, <2>1, StateIs DEF Sound, Told
<1> QED BY <1>9, <1>10, <1>11, <1>13, <1>14 DEF IInv

LEMMA NextInv == IInv /\ [Next]_vars => IInv'
<1> SUFFICES ASSUME IInv, [Next]_vars PROVE IInv' OBVIOUS
<1>1. DOMAIN ops = 1 .. Commits BY InvFacts
<1>2. CASE Runs
  <2>1. ASSUME NEW i \in 1 .. Commits,
               \/ Loaded(i) \/ Yielded(i) \/ Granted(i)
               \/ Resampled(i) \/ EncodedOffLoop(i) \/ Delivered(i)
        PROVE  IInv'
    BY <2>1, LoadedStep, YieldedStep, GrantedStep, ResampledStep, EncodedOffLoopStep,
       DeliveredStep
  <2>2. ASSUME NEW k \in Keys, CatchupEncodes(k) \/ CatchupWakes(k) \/ CatchupUnwinds(k)
        PROVE  IInv'
    BY <2>2, CatchupEncodesStep, CatchupWakesStep, CatchupUnwindsStep
  <2> QED BY <1>1, <1>2, <2>1, <2>2, Zenon DEF Runs
<1>3. CASE Calls
  <2>1. ASSUME NEW i \in 1 .. Commits, Commit(i) \/ Flush(i) PROVE IInv'
    BY <2>1, CommitStep, FlushStep
  <2>2. ASSUME NEW r \in Roles,
               \/ Joins(r) \/ Leaves(r) \/ ChangesFormat(r)
               \/ LosesConnection(r) \/ Reconnects(r) \/ SendsState(r)
        PROVE  IInv'
    BY <2>2, JoinsStep, LeavesStep, ChangesFormatStep, LosesConnectionStep, ReconnectsStep,
       SendsStateStep
  <2> QED BY <1>1, <1>3, <2>1, <2>2, TickStep, ClearStep, StopStep, Zenon DEF Calls
<1>4. CASE UNCHANGED vars
  <2>1. UNCHANGED <<now, stream, keys, players, ops, queue, unwound, changes>>
    BY <1>4 DEF vars
  <2>2. State' = State BY <2>1 DEF State
  <2>3. TypesInv' BY <2>1, <2>2 DEF IInv, TypesInv
  <2>4. QueueInv' BY <2>1 DEF IInv, QueueInv
  <2>5. PlacedInv' BY <2>1 DEF IInv, PlacedInv, Loads
  <2>6. DeferInv' BY <2>1 DEF IInv, DeferInv, Underway
  <2>7. Sound(State)' BY <2>2 DEF IInv, Sound
  <2> QED BY <2>3, <2>4, <2>5, <2>6, <2>7 DEF IInv
<1> QED BY <1>2, <1>3, <1>4 DEF Next

\* The inductive invariant.
LEMMA Invariant == Spec => []IInv
<1> QED BY InitInv, NextInv, PTL DEF Spec

LEMMA InvTypes == IInv => TypeOK
<1> SUFFICES ASSUME IInv PROVE TypeOK OBVIOUS
<1>1. /\ now \in 0 .. MaxTime /\ stream \in StreamType /\ ops \in [1 .. Commits -> OpType]
      /\ DOMAIN ops = 1 .. Commits
      /\ \A k \in Keys : keys[k] \in KeyType
      /\ \A r \in Roles : players[r] \in PlayerType
  BY InvFacts
<1>2. /\ stream.flush \in {"no", "asked", "done"} /\ stream.tail \in 0 .. End
      /\ stream.pcm \subseteq 1 .. End
  BY <1>1, EndFacts DEF StreamType, Instant, Chunk
<1>3. \A k \in Keys :
        /\ keys[k].phase \in {"none", "catching", "live"}
        /\ keys[k].waiting \subseteq Roles \X (0 .. MaxTime + Lead)
        /\ keys[k].held \in 0 .. End
        /\ keys[k].last \in 0 .. End
  BY <1>1, EndFacts DEF KeyType, Phases, Instant, Label
<1>4. \A r \in Roles :
        /\ players[r].member \in {"out", "in", "warm", "back"}
        /\ players[r].format \in Keys
        /\ players[r].sent \in 0 .. End
        /\ players[r].faults \subseteq Faults
  BY <1>1 DEF PlayerType, Members, Instant
<1>5. \A i \in DOMAIN ops : ops[i].stage \in Stages BY <1>1 DEF OpType
<1> QED BY <1>1, <1>2, <1>3, <1>4, <1>5 DEF TypeOK

LEMMA InvNeverStuck == IInv => NeverStuck
<1> SUFFICES ASSUME IInv PROVE NeverStuck OBVIOUS
<1>1. QueueInv /\ queue \in Seq(1 .. Commits) /\ DOMAIN ops = 1 .. Commits
      /\ DOMAIN queue = 1 .. Len(queue)
  BY InvFacts DEF IInv
<1>2. \A i \in DOMAIN queue : ops[queue[i]].stage \in {"wait", "resample", "encode", "deliver"}
  BY <1>1 DEF QueueInv, Past
<1>3. \A i \in Underway : ops[i].stage = "wait" => \E j \in DOMAIN queue : queue[j] = i
  BY <1>1 DEF QueueInv, Underway
<1>4. \A r \in Roles : players[r].pending => Underway # {} BY DEF IInv, DeferInv
<1>5. \A k \in Keys : keys[k].phase = "catching" =>
        /\ keys[k].owned
        /\ keys[k].task.running
        /\ keys[k].waiting # {}
        /\ keys[k].task.todo # {} \/ keys[k].task.waiting
  BY InvFacts DEF Caught
<1> QED BY <1>2, <1>3, <1>4, <1>5 DEF NeverStuck

\* Whatever is committed, flushed, cleared and stopped, and whoever joins and
\* leaves meanwhile, the records of the stream keep their types, and the
\* timeline stays within its bound.
THEOREM TypesKept == Spec => []TypeOK
<1> QED BY Invariant, InvTypes, PTL

\* Nothing waits for what never comes: the lock of _commit_dsp_lock is passed on,
\* deferred joins are released, and a format whose live delivery is suspended has
\* a catch-up that runs, belongs to it, has someone to catch up for, and has a
\* chunk to encode or waits for one or for the time-out.
THEOREM StreamNeverStuck == Spec => []NeverStuck
<1> QED BY Invariant, InvNeverStuck, PTL

\* The stream takes no connected role for started that was not told of it, and
\* so drops no audio in silence: on_stream_start ran after what last closed it.
THEOREM StartsAreTold == Spec => []StartedTold
<1>1. IInv => StartedTold
  <2> SUFFICES ASSUME IInv PROVE StartedTold OBVIOUS
  <2>1. \A r \in Roles : Told(players[r]) BY InvFacts
  <2> QED BY <2>1 DEF Told, StartedTold
<1> QED BY <1>1, Invariant, PTL

-----------------------------------------------------------------------------
(***************************************************************************)
(* What players are sent. The invariant relates what each player was sent  *)
(* last, and what is cached, to what is to come: what an encoder holds     *)
(* back, what a catch-up has yet to encode, and what the commits in        *)
(* progress, in the order of the lock, are going to deliver.               *)
(***************************************************************************)

Before == {"yield", "wait", "resample", "encode"}   \* stages up to the encoder

Rising(q) == \A m, n \in 1 .. Len(q) : m < n => q[m] < q[n]

\* Audio up to s lies before what the encoder holds back, and on the timeline.
Fits(K, tail, s) == s <= tail /\ (K.held # 0 => s <= K.held)

FitsAll(K, tail, q) == \A n \in 1 .. Len(q) : Fits(K, tail, q[n] + 1)

\* A commit yet to be encoded; what it and the others in progress are going to
\* add for a format with input up to last comes after audio up to s.
Awaits(op) == op.live /\ op.kind = "commit" /\ op.stage \in Before

Clears(last, o, k, s) ==
  \A i \in 1 .. Commits :
    /\ Awaits(o[i]) /\ last <= o[i].ts => s <= o[i].ts
    /\ o[i].live /\ o[i].stage = "deliver" /\ o[i].frames[k] # <<>> => s <= o[i].frames[k][1]

\* The same whatever the input is up to.
Later(o, s) == \A i \in 1 .. Commits : Awaits(o[i]) => s <= o[i].ts

\* What a catch-up has encoded comes in order, before what it has yet to encode
\* and from its target on; something is cached only past the target.
Known(K, x) ==
  \/ \E n \in 1 .. Len(K.cache) : K.cache[n] = x
  \/ \E n \in 1 .. Len(K.task.got) : K.task.got[n] = x
  \/ K.held # 0 /\ K.held = x

CatchGood(K, tail) ==
  /\ Rising(K.task.got)
  /\ \A m \in 1 .. Len(K.cache), n \in 1 .. Len(K.task.got) : K.cache[m] < K.task.got[n]
  /\ FitsAll(K, tail, K.task.got)
  /\ \A x \in Label : Known(K, x) =>
       K.task.target <= x /\ x < K.task.src /\ \A m \in K.task.todo : x < m
  /\ \A m \in K.task.todo : K.task.target <= m /\ m < K.task.src
  /\ K.task.target <= K.task.src /\ K.task.src <= tail
  /\ K.cache # <<>> => K.task.enc > K.task.target
  /\ K.task.todo = {} => K.task.got = <<>> /\ K.task.enc < K.task.target
  /\ K.task.waiting => K.task.todo = {}

KeyGood(K, tail) ==
  /\ K.held # 0 => K.last = K.held + 1
  /\ K.last <= tail
  /\ Rising(K.cache)
  /\ FitsAll(K, tail, K.cache)
  /\ K.phase = "catching" => CatchGood(K, tail)

GoodStream(S) ==
  /\ \A m \in S.stream.pcm : m < S.stream.tail
  /\ S.stream.tail = 0 => \A k \in Keys : ~S.keys[k].owned

WaitersGood(S, k) ==
  \A w \in S.keys[k].waiting : S.players[w[1]].format = k /\ S.players[w[1]].member # "out"

GoodKey(S, k) ==
  /\ KeyGood(S.keys[k], S.stream.tail)
  /\ k \in S.unwound => S.keys[k].phase # "live"
  /\ WaitersGood(S, k)

GoodCache(S, o, k) ==
  S.keys[k].phase # "catching" /\ k \notin S.unwound =>
    \A n \in 1 .. Len(S.keys[k].cache) :
      Clears(S.keys[k].last, o, k, S.keys[k].cache[n] + 1)

Waiting(S, r) == \E w \in S.keys[S.players[r].format].waiting : w[1] = r

\* What a player was sent fits what is to come of its format.
Abreast(S, o, r) ==
  LET p == S.players[r]
      k == p.format
      K == S.keys[k]
  IN  /\ ~p.pending /\ K.phase # "catching"
      /\ Fits(K, S.stream.tail, p.sent) /\ Clears(K.last, o, k, p.sent)
      /\ k \in S.unwound => Later(o, p.sent)

Anew(p) == p.sent \in {0, p.resume}

GoodPlayer(S, o, r) ==
  LET p == S.players[r]
  IN  p.lossy = {} =>
      /\ p.member = "in" => Anew(p) \/ Abreast(S, o, r)
      /\ InPipeline(S, r) /\ S.keys[p.format].phase = "catching" =>
           (p.pending <=> ~Waiting(S, r))

Faultless(p) ==
  /\ "stale" \notin p.faults /\ "stray" \notin p.faults
  /\ p.lossy = {} => "repeated" \notin p.faults
  /\ p.member # "in" => p.sent = 0 /\ ~p.open
  /\ p.pending => p.member # "out"

\* An operation in progress that is not void; X: players being moved.
Framed(S, op, k) ==
  op.frames[k] # <<>> =>
    /\ S.keys[k].phase # "catching"
    /\ Len(op.frames[k]) = 1
    /\ Fits(S.keys[k], S.stream.tail, op.frames[k][1] + 1)
    /\ op.kind = "commit" => op.frames[k][1] <= op.ts

Chosen(S, op, k) ==
  S.keys[k].phase # "catching" /\ (op.kind = "commit" => S.keys[k].last <= op.ts)

Grouped(S, op, X) ==
  \A g \in op.group :
    g[1] \notin X /\ InPipeline(S, g[1]) /\ ~S.players[g[1]].pending =>
      S.players[g[1]].format = g[2]

OpGood(S, op, X) ==
  op.live /\ op.stage # "none" =>
    /\ op.kind = "flush" <=> S.stream.flush # "no"
    /\ op.stage \in {"load", "yield"} => op.kind = "commit"
    /\ op.stage # "load" /\ op.kind = "commit" => op.ts < S.stream.tail
    /\ op.stage = "load" => \A k \in Keys : ~S.keys[k].owned
    /\ op.stage = "encode" => \A k \in op.todo : Chosen(S, op, k)
    /\ op.stage = "deliver" => \A k \in Keys : Framed(S, op, k)
    /\ op.stage \in {"resample", "encode", "deliver"} => Grouped(S, op, X)

Good(S, o, X) ==
  /\ GoodStream(S)
  /\ \A k \in Keys : GoodKey(S, k) /\ GoodCache(S, o, k)
  /\ \A r \in Roles \ X : GoodPlayer(S, o, r)
  /\ \A r \in Roles : Faultless(S.players[r])
  /\ \A i \in 1 .. Commits : OpGood(S, o[i], X)

\* The commits in the queue are in the order of the timeline, one that yielded
\* comes after them, and none begins beside it.
InOrder(o, q) ==
  /\ \A i \in 1 .. Commits : o[i].stage = "none" => o[i].kind = "commit"
  /\ \A m, n \in 1 .. Len(q) :
       /\ m < n /\ o[q[m]].live /\ o[q[n]].live
       /\ o[q[m]].kind = "commit" /\ o[q[n]].kind = "commit"
       => o[q[m]].ts < o[q[n]].ts
  /\ \A i \in 1 .. Commits : o[i].live /\ o[i].stage = "yield" =>
       /\ \A n \in 1 .. Len(q) :
            o[q[n]].live /\ o[q[n]].kind = "commit" => o[q[n]].ts < o[i].ts
       /\ \A j \in 1 .. Commits : o[j].live /\ o[j].stage \in {"load", "yield"} => j = i

SentInv ==
  /\ \A r \in Roles : Faultless(players[r])
  /\ Explored => Good(State, ops, {}) /\ InOrder(ops, queue)

-----------------------------------------------------------------------------
(* What a player is sent.                                                      *)

LEMMA ReceiveFacts ==
  ASSUME NEW p \in PlayerType, NEW ts \in Label, NEW pcm, p.member # "out"
  PROVE  LET q == Receive(p, ts, pcm)
         IN  /\ q.resume = p.resume /\ q.open = p.open
             /\ "stray" \in q.faults => "stray" \in p.faults
             /\ "stale" \in q.faults => "stale" \in p.faults
             /\ ~p.open => q = p
             /\ p.open => /\ q.sent = ts + 1
                          /\ "repeated" \in q.faults => "repeated" \in p.faults \/ ts < p.sent
<1> DEFINE repeated == IF ts < p.sent THEN {"repeated"} ELSE {}
           hole == IF p.sent > 0 /\ \E m \in pcm : p.sent <= m /\ m < ts /\ m > now
                   THEN {"hole"} ELSE {}
           faults == p.faults \union repeated \union hole
           q == [p EXCEPT !.sent = ts + 1, !.faults = faults]
<1>1. Receive(p, ts, pcm) = IF p.open THEN q ELSE p BY DEF Receive
<1>2. /\ "stray" \in faults => "stray" \in p.faults
      /\ "stale" \in faults => "stale" \in p.faults
      /\ "repeated" \in faults => "repeated" \in p.faults \/ ts < p.sent
  OBVIOUS
<1> HIDE DEF faults
<1>3. q.sent = ts + 1 /\ q.faults = faults /\ q.resume = p.resume /\ q.open = p.open
  BY DEF PlayerType
<1> HIDE DEF q
<1> QED BY <1>1, <1>2, <1>3

LEMMA StartKeeps ==
  ASSUME NEW p \in PlayerType, Faultless(p)
  PROVE  /\ Start(p) \in PlayerType /\ Faultless(Start(p))
         /\ Start(p).sent = p.sent /\ Start(p).resume = p.resume
         /\ Start(p).member = p.member /\ Start(p).lossy = p.lossy
         /\ Start(p).format = p.format /\ Start(p).pending = p.pending
<1>1. /\ Start(p) \in PlayerType /\ Start(p).sent = p.sent /\ Start(p).resume = p.resume
      /\ Start(p).member = p.member /\ Start(p).lossy = p.lossy
      /\ Start(p).format = p.format /\ Start(p).pending = p.pending
      /\ Start(p).faults = p.faults
  BY StartHears DEF Hears
<1>2. p.member # "in" => (Start(p).open <=> p.open) BY DEF Start, PlayerType
<1> QED BY <1>1, <1>2 DEF Faultless

LEMMA LiveOne ==
  ASSUME NEW p \in PlayerType, NEW frames \in Seq(Label), Len(frames) = 1, NEW pcm
  PROVE  ReceiveLive(p, frames, pcm) = LiveStep(Start(p), frames[1], pcm)
<1>1. Len(frames) \in Nat OBVIOUS
<1>2. PICK f : /\ LiveSteps(p, frames, pcm, Len(frames), f)
               /\ ReceiveLive(p, frames, pcm) = f[Len(frames)]
  BY <1>1, LiveFold
<1>3. f = [n \in 0 .. 1 |-> IF n = 0 THEN Start(p) ELSE LiveStep(f[n - 1], frames[n], pcm)]
  BY <1>2 DEF LiveSteps
<1>4. f[0] = Start(p) BY <1>3
<1>5. f[1] = LiveStep(f[1 - 1], frames[1], pcm) BY <1>3
<1>6. f[1] = LiveStep(f[0], frames[1], pcm)
  <2>1. 1 - 1 = 0 OBVIOUS
  <2> QED BY <1>5, <2>1
<1> QED BY <1>2, <1>4, <1>6

\* A live chunk that comes after what the player was sent.
LEMMA LiveSent ==
  ASSUME NEW p \in PlayerType, Faultless(p), p.member # "out", NEW pcm,
         NEW frames \in Seq(Label), Len(frames) = 1,
         p.lossy = {} /\ p.member = "in" => Anew(p) \/ p.sent <= frames[1]
  PROVE  LET q == ReceiveLive(p, frames, pcm)
         IN  /\ q \in PlayerType /\ Hears(p, q) /\ Faultless(q)
             /\ p.lossy = {} /\ p.member = "in" =>
                  (q.sent = p.sent /\ q.resume = p.resume) \/ q.sent <= frames[1] + 1
<1> DEFINE q == ReceiveLive(p, frames, pcm)
           s == Start(p)
           t == [s EXCEPT !.resume = 0]
           x == frames[1]
<1>1. x \in Label /\ x \in Nat
  <2>1. 1 \in 1 .. Len(frames) OBVIOUS
  <2>2. frames[1] \in Label BY <2>1, Elements
  <2> QED BY <2>2, EndFacts
<1>2. q \in PlayerType /\ Hears(p, q) BY LiveHears DEF Hears
<1>3. q = IF x < s.resume THEN s ELSE Receive(t, x, pcm) BY LiveOne DEF LiveStep
<1>4. /\ s \in PlayerType /\ Faultless(s) /\ s.sent = p.sent /\ s.resume = p.resume
      /\ s.member = p.member /\ s.lossy = p.lossy /\ s.pending = p.pending
  BY StartKeeps
<1>5. p.sent \in Nat /\ p.resume \in Nat BY EndFacts DEF PlayerType
<1> HIDE DEF s, q, x
<1>6. CASE x < s.resume BY <1>2, <1>3, <1>4, <1>6 DEF q
<1>7. CASE ~(x < s.resume)
  <2>1. /\ t \in PlayerType /\ t.sent = p.sent /\ t.resume = 0 /\ t.member = p.member
        /\ t.lossy = p.lossy /\ t.faults = s.faults /\ t.open = s.open /\ t.pending = p.pending
    BY <1>4, EndFacts DEF PlayerType
  <2> HIDE DEF t
  <2>2. q = Receive(t, x, pcm) BY <1>3, <1>7
  <2>3. /\ "stray" \in q.faults => "stray" \in t.faults
        /\ "stale" \in q.faults => "stale" \in t.faults
        /\ ~t.open => q = t
        /\ t.open => /\ q.sent = x + 1
                     /\ "repeated" \in q.faults => "repeated" \in t.faults \/ x < t.sent
    BY <1>1, <2>1, <2>2, ReceiveFacts
  <2>4. q.lossy = p.lossy /\ q.member = p.member /\ q.pending = p.pending BY <1>2 DEF Hears
  <2>5. CASE t.open
    <3>1. p.member = "in" BY <1>4, <2>1, <2>5 DEF Faultless
    <3>2. p.lossy = {} => p.sent <= x
      BY <1>1, <1>4, <1>5, <1>7, <3>1 DEF Anew, x
    <3>3. Faultless(q)
      BY <1>1, <1>4, <1>5, <2>1, <2>3, <2>4, <2>5, <3>1, <3>2 DEF Faultless
    <3>4. q.sent <= x + 1 BY <1>1, <2>3, <2>5
    <3> QED BY <1>2, <3>3, <3>4 DEF q, x
  <2>6. CASE ~t.open
    <3>1. q = t BY <2>3, <2>6
    <3>2. Faultless(q) BY <1>4, <2>1, <3>1 DEF Faultless
    <3>3. p.lossy = {} /\ p.member = "in" => q.sent <= x + 1
      BY <1>1, <1>4, <1>5, <1>7, <2>1, <3>1 DEF Anew, x
    <3> QED BY <1>2, <3>2, <3>3 DEF q, x
  <2> QED BY <2>1, <2>5, <2>6 DEF PlayerType
<1> QED BY <1>6, <1>7

\* Cached chunks, to a player that starts anew or resumes where they are low.
GotCached(p, q, cached) ==
  /\ q \in PlayerType /\ Hears(p, q) /\ Faultless(q) /\ q.resume = p.resume
  /\ q.sent = p.sent \/ \E n \in 1 .. Len(cached) : q.sent = cached[n] + 1

LEMMA CachedSent ==
  ASSUME NEW p \in PlayerType, Faultless(p), p.member # "out", NEW pcm,
         NEW cached \in Seq(Label), Rising(cached), NEW low \in Nat, now \in Nat,
         p.resume # 0 => low = p.resume,
         p.lossy = {} /\ p.member = "in" => Anew(p)
  PROVE  GotCached(p, ReceiveCached(p, cached, low, pcm), cached)
<1> DEFINE q == ReceiveCached(p, cached, low, pcm)
           N == Len(cached)
<1>1. N \in Nat OBVIOUS
<1>2. PICK f : /\ CachedSteps(p, cached, low, pcm, N, f)
               /\ q = f[N]
  BY <1>1, CachedFold
<1>3. \A n \in 0 .. N :
        f[n] = IF n = 0 THEN p ELSE CachedStep(f[n - 1], cached[n], low, pcm)
  BY <1>2 DEF CachedSteps
<1>4. p.sent \in Nat /\ p.resume \in Nat BY EndFacts DEF PlayerType
<1>5. \A n \in 1 .. N : cached[n] \in Label /\ cached[n] \in Nat BY Elements, EndFacts
<1> DEFINE Ok(n) == /\ f[n] \in PlayerType /\ Hears(p, f[n]) /\ Faultless(f[n])
                    /\ f[n].resume = p.resume
                    /\ f[n].sent = p.sent \/ \E m \in 1 .. n : f[n].sent = cached[m] + 1
           D == {n \in Nat : n <= N => Ok(n)}
<1>6. \A n \in 1 .. N : f[n] = CachedStep(f[n - 1], cached[n], low, pcm)
  BY <1>1, <1>3
<1>7. f[0] = p BY <1>1, <1>3
<1> HIDE DEF N, q
<1>8. 0 \in D
  <2>1. Ok(0) BY <1>7, HearsOrder
  <2> QED BY <2>1
<1>9. \A n \in Nat : n \in D => n + 1 \in D
  <2> SUFFICES ASSUME NEW n \in Nat, n \in D, n + 1 <= N PROVE Ok(n + 1)
    OBVIOUS
  <2> DEFINE a == f[n]
             b == f[n + 1]
             x == cached[n + 1]
             s == Start(a)
  <2>1. Ok(n) /\ n + 1 \in 1 .. N /\ n \in 0 .. N BY <1>1
  <2>2. a \in PlayerType /\ Hears(p, a) /\ Faultless(a) /\ a.resume = p.resume
        /\ (a.sent = p.sent \/ \E m \in 1 .. n : a.sent = cached[m] + 1)
    BY <2>1
  <2>3. x \in Label /\ x \in Nat BY <1>5, <2>1
  <2>4. b = IF x < low \/ x <= now THEN a ELSE Receive(s, x, pcm)
    <3>1. f[n + 1] = CachedStep(f[(n + 1) - 1], cached[n + 1], low, pcm) BY <1>6, <2>1
    <3>2. (n + 1) - 1 = n OBVIOUS
    <3> QED BY <3>1, <3>2 DEF CachedStep
  <2>5. a.member = p.member /\ a.lossy = p.lossy BY <2>2 DEF Hears
  <2>6. /\ s \in PlayerType /\ Faultless(s) /\ s.sent = a.sent /\ s.resume = a.resume
        /\ s.member = p.member /\ s.lossy = p.lossy
    BY <2>2, <2>5, StartKeeps
  <2>7. Hears(a, s) BY <2>2, StartHears
  <2>8. \A m \in 1 .. n : cached[m] < x
    <3> SUFFICES ASSUME NEW m \in 1 .. n PROVE cached[m] < x OBVIOUS
    <3>1. m \in 1 .. N /\ n + 1 \in 1 .. N /\ m < n + 1 BY <1>1, <2>1
    <3> QED BY <3>1 DEF Rising, N
  <2> HIDE DEF a, b, x, s, Ok, D
  <2>9. CASE x < low \/ x <= now
    <3>1. b = a BY <2>4, <2>9
    <3>2. b.sent = p.sent \/ \E m \in 1 .. n + 1 : b.sent = cached[m] + 1
      BY <2>2, <3>1
    <3> QED BY <2>2, <3>1, <3>2 DEF Ok, b
  <2>10. CASE ~(x < low \/ x <= now)
    <3>1. b = Receive(s, x, pcm) BY <2>4, <2>10
    <3>2. Hears(s, b) /\ b \in PlayerType BY <2>3, <2>6, <3>1, ReceiveHears DEF Hears
    <3>3. Hears(p, b) BY <2>2, <2>6, <2>7, <3>2, HearsOrder
    <3>4. b.lossy = p.lossy /\ b.member = p.member /\ b.pending = p.pending BY <3>3 DEF Hears
    <3>5. /\ b.resume = s.resume /\ b.open = s.open
          /\ "stray" \in b.faults => "stray" \in s.faults
          /\ "stale" \in b.faults => "stale" \in s.faults
          /\ ~s.open => b = s
          /\ s.open => /\ b.sent = x + 1
                       /\ "repeated" \in b.faults => "repeated" \in s.faults \/ x < s.sent
      BY <2>3, <2>6, <3>1, ReceiveFacts
    <3>6. CASE ~s.open
      <4>1. b = s BY <3>5, <3>6
      <4>2. b.sent = p.sent \/ \E m \in 1 .. n + 1 : b.sent = cached[m] + 1
        BY <2>2, <2>6, <4>1
      <4> QED BY <2>2, <2>6, <3>2, <3>3, <4>1, <4>2 DEF Ok, b
    <3>7. CASE s.open
      <4>1. p.member = "in" BY <2>6, <3>7 DEF Faultless
      <4>2. ASSUME p.lossy = {} PROVE ~(x < s.sent)
        <5>1. CASE a.sent = p.sent
          BY <1>4, <2>3, <2>6, <2>10, <4>1, <4>2, <5>1 DEF Anew
        <5>2. ASSUME NEW m \in 1 .. n, a.sent = cached[m] + 1 PROVE ~(x < s.sent)
          <6>1. cached[m] \in Nat /\ cached[m] < x BY <1>1, <1>5, <2>1, <2>8
          <6> QED BY <2>3, <2>6, <5>2, <6>1
        <5> QED BY <2>2, <5>1, <5>2
      <4>3. Faultless(b)
        BY <2>6, <3>4, <3>5, <3>7, <4>1, <4>2 DEF Faultless, Hears
      <4>4. b.sent = cached[n + 1] + 1 /\ n + 1 \in 1 .. n + 1 BY <3>5, <3>7 DEF x
      <4> QED BY <2>2, <2>6, <3>2, <3>3, <3>5, <4>3, <4>4 DEF Ok, b
    <3> QED BY <2>6, <3>6, <3>7 DEF PlayerType
  <2> QED BY <2>9, <2>10
<1> HIDE DEF Ok, D
<1>10. N \in D BY <1>1, <1>8, <1>9, SetInduction
<1>11. Ok(N) BY <1>1, <1>10 DEF D
<1> QED BY <1>2, <1>11 DEF Ok, N, q, GotCached

-----------------------------------------------------------------------------
(* What changes leave of what is good.                                         *)

LEMMA Naturals ==
  ASSUME NEW S \in StateType
  PROVE  /\ S.stream.tail \in Nat /\ S.stream \in StreamType
         /\ \A k \in Keys : S.keys[k] \in KeyType /\ S.keys[k].last \in Nat /\ S.keys[k].held \in Nat
         /\ \A r \in Roles : /\ S.players[r] \in PlayerType /\ S.players[r].format \in Keys
                             /\ S.players[r].sent \in Nat /\ S.players[r].resume \in Nat
<1>1. /\ S.stream \in StreamType
      /\ \A k \in Keys : S.keys[k] \in KeyType
      /\ \A r \in Roles : S.players[r] \in PlayerType
  BY DEF StateType
<1>2. S.stream.tail \in Nat BY <1>1, EndFacts DEF StreamType
<1>3. \A k \in Keys : S.keys[k].last \in Nat /\ S.keys[k].held \in Nat
  BY <1>1, EndFacts DEF KeyType
<1>4. \A r \in Roles : /\ S.players[r].format \in Keys
                       /\ S.players[r].sent \in Nat /\ S.players[r].resume \in Nat
  BY <1>1, EndFacts DEF PlayerType
<1> QED BY <1>1, <1>2, <1>3, <1>4

\* Nothing is in progress that is not void.
Idling(o) == \A i \in 1 .. Commits : o[i].live => o[i].stage = "none"

EasesKey(K, L) ==
  /\ L.owned => K.owned
  /\ K.phase # "catching" => L.phase # "catching" /\ L.last <= K.last /\ L.held \in {0, K.held}

EasesPlayer(S, T, X, Y, r) ==
  r \notin Y /\ InPipeline(T, r) /\ ~T.players[r].pending =>
    /\ r \notin X /\ InPipeline(S, r) /\ ~S.players[r].pending
    /\ S.players[r].format = T.players[r].format

\* T asks nothing more of what is in progress than S.
Eases(S, T, X, Y) ==
  /\ S.stream.flush # "no" <=> T.stream.flush # "no"
  /\ S.stream.tail <= T.stream.tail
  /\ \A k \in Keys : EasesKey(S.keys[k], T.keys[k])
  /\ \A r \in Roles : EasesPlayer(S, T, X, Y, r)

LEMMA OpEases ==
  ASSUME NEW S \in StateType, NEW T \in StateType, NEW op \in OpType, NEW X, NEW Y,
         OpGood(S, op, X), Eases(S, T, X, Y)
  PROVE  OpGood(T, op, Y)
<1> SUFFICES ASSUME op.live, op.stage # "none" PROVE OpGood(T, op, Y) BY DEF OpGood
<1>0. /\ S.stream.tail \in Nat /\ T.stream.tail \in Nat /\ op.ts \in Nat
      /\ \A k \in Keys : /\ S.keys[k].last \in Nat /\ S.keys[k].held \in Nat
                         /\ T.keys[k].last \in Nat /\ T.keys[k].held \in Nat
      /\ op.todo \in SUBSET Keys /\ op.group \in SUBSET (Roles \X Keys)
  BY Naturals, EndFacts DEF OpType
<1>1. /\ op.kind = "flush" <=> T.stream.flush # "no"
      /\ op.stage \in {"load", "yield"} => op.kind = "commit"
  BY DEF OpGood, Eases
<1>2. op.stage # "load" /\ op.kind = "commit" => op.ts < T.stream.tail
  BY <1>0 DEF OpGood, Eases
<1>3. op.stage = "load" => \A k \in Keys : ~T.keys[k].owned
  BY DEF OpGood, Eases, EasesKey
<1>4. ASSUME op.stage = "encode", NEW k \in op.todo PROVE Chosen(T, op, k)
  <2>1. Chosen(S, op, k) BY <1>4 DEF OpGood
  <2>2. k \in Keys /\ EasesKey(S.keys[k], T.keys[k]) BY <1>0 DEF Eases
  <2> QED BY <1>0, <2>1, <2>2 DEF Chosen, EasesKey
<1>5. ASSUME op.stage = "deliver", NEW k \in Keys PROVE Framed(T, op, k)
  <2>1. Framed(S, op, k) BY <1>5 DEF OpGood
  <2>2. EasesKey(S.keys[k], T.keys[k]) /\ S.stream.tail <= T.stream.tail BY DEF Eases
  <2> SUFFICES ASSUME op.frames[k] # <<>> PROVE Framed(T, op, k) BY DEF Framed
  <2>3. op.frames[k] \in Seq(Label) BY DEF OpType
  <2>4. Len(op.frames[k]) = 1 BY <2>1 DEF Framed
  <2>5. op.frames[k][1] \in Nat
    <3>1. 1 \in 1 .. Len(op.frames[k]) BY <2>4
    <3>2. op.frames[k][1] \in Label BY <2>3, <3>1, Elements
    <3> QED BY <3>2, EndFacts
  <2> DEFINE x == op.frames[k][1]
  <2>6. Fits(S.keys[k], S.stream.tail, x + 1) /\ S.keys[k].phase # "catching"
    BY <2>1 DEF Framed
  <2>7. Fits(T.keys[k], T.stream.tail, x + 1)
    <3> HIDE DEF x
    <3>1. x \in Nat BY <2>5 DEF x
    <3> QED BY <1>0, <2>2, <2>6, <3>1 DEF Fits, EasesKey
  <2> QED BY <2>1, <2>2, <2>6, <2>7 DEF Framed, EasesKey
<1>6. ASSUME op.stage \in {"resample", "encode", "deliver"} PROVE Grouped(T, op, Y)
  <2>1. Grouped(S, op, X) BY <1>6 DEF OpGood
  <2>2. ASSUME NEW g \in op.group, g[1] \notin Y, InPipeline(T, g[1]), ~T.players[g[1]].pending
        PROVE  T.players[g[1]].format = g[2]
    <3>1. g[1] \in Roles BY <1>0
    <3>2. EasesPlayer(S, T, X, Y, g[1]) BY <3>1 DEF Eases
    <3> QED BY <2>1, <2>2, <3>2 DEF EasesPlayer, Grouped
  <2> QED BY <2>2 DEF Grouped
<1> QED BY <1>1, <1>2, <1>3, <1>4, <1>5, <1>6 DEF OpGood

LEMMA IdlingOp ==
  ASSUME NEW o, Idling(o)
  PROVE  /\ \A S, X : \A i \in 1 .. Commits : OpGood(S, o[i], X)
         /\ \A last, k, s : Clears(last, o, k, s)
         /\ \A s : Later(o, s)
<1>1. \A S, X : \A i \in 1 .. Commits : OpGood(S, o[i], X) BY DEF Idling, OpGood
<1>2. \A i \in 1 .. Commits : ~Awaits(o[i]) /\ ~(o[i].live /\ o[i].stage = "deliver")
  BY DEF Idling, Awaits, Before
<1> QED BY <1>1, <1>2 DEF Clears, Later

\* A player whose record, format, waiters' list and stream stay is as good as it was.
LEMMA GoodPlayerKept ==
  ASSUME NEW S \in StateType, NEW T \in StateType, NEW o, NEW r \in Roles, GoodPlayer(S, o, r),
         T.players[r] = S.players[r], T.stream = S.stream,
         T.keys[S.players[r].format] = S.keys[S.players[r].format],
         S.players[r].format \in T.unwound => S.players[r].format \in S.unwound
  PROVE  GoodPlayer(T, o, r)
<1> DEFINE p == S.players[r]
           k == p.format
<1>1. Waiting(T, r) <=> Waiting(S, r) BY DEF Waiting
<1>2. InPipeline(T, r) <=> InPipeline(S, r) BY DEF InPipeline
<1>3. Abreast(S, o, r) => Abreast(T, o, r) BY DEF Abreast
<1> QED BY <1>1, <1>2, <1>3 DEF GoodPlayer

LEMMA GoodKeyKept ==
  ASSUME NEW S \in StateType, NEW T \in StateType, NEW o, NEW k \in Keys,
         GoodKey(S, k), GoodCache(S, o, k), T.keys[k] = S.keys[k], T.stream = S.stream,
         k \in T.unwound <=> k \in S.unwound,
         \A w \in S.keys[k].waiting : /\ T.players[w[1]].format = S.players[w[1]].format
                                      /\ T.players[w[1]].member # "out"
  PROVE  GoodKey(T, k) /\ GoodCache(T, o, k)
<1>1. WaitersGood(T, k) BY DEF GoodKey, WaitersGood
<1> QED BY <1>1 DEF GoodKey, GoodCache

\* One format changes.
LEMMA GoodKeyChanged ==
  ASSUME NEW S \in StateType, NEW T \in StateType, NEW o \in [1 .. Commits -> OpType], NEW X,
         Good(S, o, X), NEW k \in Keys, T.stream = S.stream, T.players = S.players,
         \A j \in Keys \ {k} : T.keys[j] = S.keys[j] /\ (j \in T.unwound <=> j \in S.unwound),
         Idling(o) \/ EasesKey(S.keys[k], T.keys[k]),
         S.stream.tail = 0 => ~T.keys[k].owned,
         GoodKey(T, k), GoodCache(T, o, k),
         \A r \in Roles \ X : S.players[r].format = k => GoodPlayer(T, o, r)
  PROVE  Good(T, o, X)
<1>1. GoodStream(T) BY DEF Good, GoodStream
<1>2. \A j \in Keys : GoodKey(T, j) /\ GoodCache(T, o, j)
  <2> SUFFICES ASSUME NEW j \in Keys \ {k} PROVE GoodKey(T, j) /\ GoodCache(T, o, j)
    OBVIOUS
  <2>1. GoodKey(S, j) /\ GoodCache(S, o, j) BY DEF Good
  <2>2. WaitersGood(S, j) BY <2>1 DEF GoodKey
  <2> QED BY <2>1, <2>2, GoodKeyKept DEF WaitersGood
<1>3. \A r \in Roles \ X : GoodPlayer(T, o, r)
  <2> SUFFICES ASSUME NEW r \in Roles \ X, S.players[r].format # k PROVE GoodPlayer(T, o, r)
    OBVIOUS
  <2>1. GoodPlayer(S, o, r) /\ S.players[r].format \in Keys \ {k} BY Naturals DEF Good
  <2> QED BY <2>1, GoodPlayerKept
<1>4. \A r \in Roles : Faultless(T.players[r]) BY DEF Good
<1>5. \A i \in 1 .. Commits : OpGood(T, o[i], X)
  <2>1. CASE Idling(o) BY <2>1, IdlingOp
  <2>2. CASE EasesKey(S.keys[k], T.keys[k])
    <3>1. \A j \in Keys : EasesKey(S.keys[j], T.keys[j])
      BY <2>2, Naturals DEF EasesKey
    <3>2. \A r \in Roles : EasesPlayer(S, T, X, X, r) BY DEF EasesPlayer, InPipeline
    <3>3. Eases(S, T, X, X) BY <3>1, <3>2, Naturals DEF Eases
    <3> QED BY <3>3, OpEases DEF Good
  <2> QED BY <2>1, <2>2
<1> QED BY <1>1, <1>2, <1>3, <1>4, <1>5 DEF Good

\* One player changes.
LEMMA GoodPlayerChanged ==
  ASSUME NEW S \in StateType, NEW T \in StateType, NEW o \in [1 .. Commits -> OpType],
         NEW X, NEW Y, Good(S, o, X), NEW r \in Roles, X \ {r} \subseteq Y,
         T.stream = S.stream, T.keys = S.keys, T.unwound = S.unwound,
         \A q \in Roles \ {r} : T.players[q] = S.players[q],
         Faultless(T.players[r]), r \notin Y => GoodPlayer(T, o, r),
         \/ T.players[r].format = S.players[r].format /\ T.players[r].member # "out"
         \/ \A k \in Keys : \A w \in S.keys[k].waiting : w[1] # r,
         Idling(o) \/ EasesPlayer(S, T, X, Y, r)
  PROVE  Good(T, o, Y)
<1>1. GoodStream(T) BY DEF Good, GoodStream
<1>2. \A j \in Keys : GoodKey(T, j) /\ GoodCache(T, o, j)
  <2> SUFFICES ASSUME NEW j \in Keys PROVE GoodKey(T, j) /\ GoodCache(T, o, j)
    OBVIOUS
  <2>1. GoodKey(S, j) /\ GoodCache(S, o, j) BY DEF Good
  <2>2. WaitersGood(S, j) BY <2>1 DEF GoodKey
  <2>3. \A w \in S.keys[j].waiting : w[1] \in Roles BY Naturals DEF KeyType
  <2>4. \A w \in S.keys[j].waiting : /\ T.players[w[1]].format = S.players[w[1]].format
                                     /\ T.players[w[1]].member # "out"
    BY <2>2, <2>3 DEF WaitersGood
  <2> QED BY <2>1, <2>4, GoodKeyKept
<1>3. \A q \in Roles \ Y : GoodPlayer(T, o, q)
  <2> SUFFICES ASSUME NEW q \in Roles \ Y, q # r PROVE GoodPlayer(T, o, q)
    OBVIOUS
  <2>1. GoodPlayer(S, o, q) BY DEF Good
  <2> QED BY <2>1, GoodPlayerKept
<1>4. \A q \in Roles : Faultless(T.players[q]) BY DEF Good
<1>5. \A i \in 1 .. Commits : OpGood(T, o[i], Y)
  <2>1. CASE Idling(o) BY <2>1, IdlingOp
  <2>2. CASE EasesPlayer(S, T, X, Y, r)
    <3>1. \A j \in Keys : EasesKey(S.keys[j], T.keys[j]) BY Naturals DEF EasesKey
    <3>2. \A q \in Roles : EasesPlayer(S, T, X, Y, q) BY <2>2 DEF EasesPlayer, InPipeline
    <3>3. Eases(S, T, X, Y) BY <3>1, <3>2, Naturals DEF Eases
    <3> QED BY <3>3, OpEases DEF Good
  <2> QED BY <2>1, <2>2
<1> QED BY <1>1, <1>2, <1>3, <1>4, <1>5 DEF Good

LEMMA KeyGoodKept ==
  ASSUME NEW K, NEW L, NEW tail, KeyGood(K, tail), L.held = K.held, L.last = K.last,
         L.cache = K.cache, L.phase = "catching" => K.phase = "catching" /\ L.task = K.task
  PROVE  KeyGood(L, tail)
BY DEF KeyGood, CatchGood, Known, FitsAll, Fits

-----------------------------------------------------------------------------
(* Leaving.                                                                    *)

LEMMA DroppedGood ==
  ASSUME NEW S \in StateType, NEW o \in [1 .. Commits -> OpType], NEW X, Good(S, o, X),
         NEW k \in Keys, NEW r \in X, r \in Roles
  PROVE  Good(Dropped(S, k, r), o, X)
<1>1. CASE Shared(S, k, r) BY <1>1 DEF Dropped
<1>2. CASE ~Shared(S, k, r)
  <2> DEFINE K == S.keys[k]
             F == Fresh(K)
             none == <<>>
             D == [F EXCEPT !.cache = none]
             T == [S EXCEPT !.keys[k] = D]
             tail == S.stream.tail
  <2>1. K \in KeyType /\ tail \in Nat BY Naturals
  <2>2. /\ F \in KeyType /\ F.held = 0 /\ F.last = 0 /\ F.phase = K.phase
        /\ F.waiting = K.waiting /\ F.task = K.task /\ F.owned = K.owned
    BY <2>1, FreshFacts
  <2>3. none \in Seq(Label) /\ Len(none) = 0 OBVIOUS
  <2>4. Dropped(S, k, r) = T BY <1>2 DEF Dropped, StateType
  <2> HIDE DEF K, F, none
  <2>5. /\ D \in KeyType /\ D.held = 0 /\ D.last = 0 /\ D.phase = K.phase /\ D.cache = none
        /\ D.waiting = K.waiting /\ D.task = K.task /\ D.owned = K.owned
    BY <2>2, <2>3, CacheSet
  <2> HIDE DEF D
  <2>6. /\ T \in StateType /\ T.stream = S.stream /\ T.players = S.players
        /\ T.unwound = S.unwound /\ T.keys[k] = D
        /\ \A j \in Keys \ {k} : T.keys[j] = S.keys[j]
    BY <2>5, SetKey
  <2> HIDE DEF T
  <2>7. GoodKey(S, k) /\ KeyGood(K, tail) BY DEF Good, GoodKey, K
  <2>8. KeyGood(D, tail)
    <3>1. Len(D.cache) = 0 /\ D.cache = <<>> BY <2>3, <2>5 DEF none
    <3>2. ASSUME D.phase = "catching" PROVE CatchGood(D, tail)
      <4>1. CatchGood(K, tail) BY <2>5, <2>7, <3>2 DEF KeyGood
      <4>2. FitsAll(D, tail, D.task.got) BY <2>5, <4>1 DEF CatchGood, FitsAll, Fits
      <4>3. \A x \in Label : Known(D, x) => Known(K, x) BY <2>5, <3>1 DEF Known
      <4> QED BY <2>5, <3>1, <4>1, <4>2, <4>3 DEF CatchGood
    <3> QED BY <2>1, <2>5, <3>1, <3>2 DEF KeyGood, Rising, FitsAll
  <2>9. GoodKey(T, k) BY <2>5, <2>6, <2>7, <2>8 DEF GoodKey, WaitersGood, K
  <2>10. GoodCache(T, o, k) BY <2>3, <2>5, <2>6 DEF GoodCache
  <2>11. ASSUME NEW q \in Roles \ X, S.players[q].format = k PROVE GoodPlayer(T, o, q)
    <3>1. ~InPipeline(S, q) BY <1>2, <2>11 DEF Shared
    <3> QED BY <2>6, <3>1 DEF GoodPlayer, InPipeline
  <2>12. EasesKey(S.keys[k], T.keys[k])
    BY <2>1, <2>5, <2>6, Naturals DEF EasesKey, K
  <2>13. tail = 0 => ~T.keys[k].owned BY <2>5, <2>6 DEF Good, GoodStream, K
  <2>14. Good(T, o, X) BY <2>6, <2>9, <2>10, <2>11, <2>12, <2>13, GoodKeyChanged
  <2> QED BY <2>4, <2>14
<1> QED BY <1>1, <1>2

LEMMA WithoutPlayerCases ==
  ASSUME NEW K \in KeyType, NEW r
  PROVE  \/ /\ \E w \in K.waiting : w[1] = r
            /\ Others(K, r) = {} /\ WithoutPlayer(K, r) = Without(K)
         \/ /\ WithoutPlayer(K, r).phase = K.phase /\ WithoutPlayer(K, r).task = K.task
            /\ WithoutPlayer(K, r).owned = K.owned
<1>1. CASE (\E w \in K.waiting : w[1] = r) /\ Others(K, r) = {}
  BY <1>1 DEF WithoutPlayer
<1>2. CASE ~((\E w \in K.waiting : w[1] = r) /\ Others(K, r) = {})
  <2>1. WithoutPlayer(K, r) = [K EXCEPT !.waiting = Others(K, r)] BY <1>2 DEF WithoutPlayer
  <2> QED BY <2>1 DEF KeyType
<1> QED BY <1>1, <1>2
\* A player stays abreast while nothing it depends on changes.
LEMMA AbreastKept ==
  ASSUME NEW S, NEW T, NEW o, NEW r, NEW k, k = S.players[r].format, Abreast(S, o, r),
         T.players[r] = S.players[r], T.stream.tail = S.stream.tail,
         T.keys[k].phase = "catching" => S.keys[k].phase = "catching",
         T.keys[k].held = S.keys[k].held, T.keys[k].last = S.keys[k].last,
         k \in T.unwound => k \in S.unwound
  PROVE  Abreast(T, o, r)
<1>1. /\ ~T.players[r].pending /\ T.keys[k].phase # "catching"
      /\ Fits(S.keys[k], S.stream.tail, T.players[r].sent)
      /\ Clears(T.keys[k].last, o, k, T.players[r].sent)
      /\ k \in T.unwound => Later(o, T.players[r].sent)
  BY DEF Abreast
<1>2. Fits(T.keys[k], T.stream.tail, T.players[r].sent) BY <1>1 DEF Fits
<1> QED BY <1>1, <1>2 DEF Abreast

LEMMA WithdrawnGood ==
  ASSUME NEW S \in StateType, Sound(S), NEW o \in [1 .. Commits -> OpType], NEW X,
         Good(S, o, X), NEW r \in X, r \in Roles
  PROVE  /\ Good(Withdrawn(S, r), o, X)
         /\ \A k \in Keys : \A w \in Withdrawn(S, r).keys[k].waiting : w[1] # r
<1> DEFINE T == Withdrawn(S, r)
           lost == {k \in Keys : /\ \E w \in S.keys[k].waiting : w[1] = r
                                 /\ Others(S.keys[k], r) = {}
                                 /\ S.keys[k].owned}
<1>1. /\ T \in StateType /\ T.players = S.players /\ T.stream = S.stream
      /\ \A k \in Keys : T.keys[k] = WithoutPlayer(S.keys[k], r)
      /\ T.unwound = S.unwound \union lost
  BY WithdrawnSteps
<1> HIDE DEF T
<1>2. ASSUME NEW k \in Keys
      PROVE  /\ S.keys[k] \in KeyType /\ Caught(S.keys[k])
             /\ T.keys[k].waiting = Others(S.keys[k], r)
             /\ T.keys[k].phase \in {S.keys[k].phase, "none"}
             /\ T.keys[k].owned => S.keys[k].owned
             /\ T.keys[k].held = S.keys[k].held /\ T.keys[k].last = S.keys[k].last
             /\ T.keys[k].cache = S.keys[k].cache
             /\ \/ k \in lost /\ T.keys[k].phase = "none"
                \/ k \notin lost /\ T.keys[k].phase = "none" /\ S.keys[k].phase # "catching"
                \/ /\ T.keys[k].phase = S.keys[k].phase /\ T.keys[k].task = S.keys[k].task
                   /\ k \notin lost
  <2> DEFINE K == S.keys[k]
             L == WithoutPlayer(K, r)
  <2>1. K \in KeyType /\ Caught(K) BY Naturals DEF Sound
  <2>2. k \in lost <=> (\E w \in K.waiting : w[1] = r) /\ Others(K, r) = {} /\ K.owned
    OBVIOUS
  <2> HIDE DEF K, L, lost
  <2>3. /\ L.waiting = Others(K, r) /\ L.phase \in {K.phase, "none"}
        /\ L.owned => K.owned
        /\ L.held = K.held /\ L.last = K.last /\ L.cache = K.cache
    BY <2>1, WithoutPlayerFacts DEF L
  <2>4. T.keys[k] = L BY <1>1 DEF K, L
  <2>5. /\ T.keys[k].waiting = Others(K, r) /\ T.keys[k].phase \in {K.phase, "none"}
        /\ T.keys[k].owned => K.owned
        /\ T.keys[k].held = K.held /\ T.keys[k].last = K.last /\ T.keys[k].cache = K.cache
    BY <2>3, <2>4
  <2>6. CASE (\E w \in K.waiting : w[1] = r) /\ Others(K, r) = {}
    <3>1. L = Without(K) BY <2>6 DEF L, WithoutPlayer
    <3>2. L.phase = "none" BY <2>1, <3>1, WithoutFacts
    <3>3. ~K.owned => K.phase # "catching" BY <2>1 DEF Caught
    <3>4. \/ k \in lost /\ T.keys[k].phase = "none"
          \/ k \notin lost /\ T.keys[k].phase = "none" /\ K.phase # "catching"
      BY <1>1, <2>2, <2>6, <3>2, <3>3 DEF K, L
    <3> QED BY <2>1, <2>5, <3>4 DEF K
  <2>7. CASE ~((\E w \in K.waiting : w[1] = r) /\ Others(K, r) = {})
    <3>1. L.phase = K.phase /\ L.task = K.task BY <2>1, <2>7, WithoutPlayerCases DEF L
    <3>2. T.keys[k].phase = K.phase /\ T.keys[k].task = K.task /\ k \notin lost
      BY <1>1, <2>2, <2>7, <3>1 DEF K, L
    <3> QED BY <2>1, <2>5, <3>2 DEF K
  <2> QED BY <2>6, <2>7
<1> HIDE DEF lost
<1>3. GoodStream(T) BY <1>1, <1>2 DEF Good, GoodStream
<1>4. ASSUME NEW k \in Keys PROVE GoodKey(T, k) /\ GoodCache(T, o, k)
  <2>1. GoodKey(S, k) /\ GoodCache(S, o, k) BY DEF Good
  <2>2. KeyGood(T.keys[k], T.stream.tail)
    <3>1. KeyGood(S.keys[k], S.stream.tail) BY <2>1 DEF GoodKey
    <3>2. T.keys[k].phase = "catching" =>
            S.keys[k].phase = "catching" /\ T.keys[k].task = S.keys[k].task
      BY <1>2
    <3> QED BY <1>1, <1>2, <3>1, <3>2, KeyGoodKept
  <2>3. k \in T.unwound => T.keys[k].phase # "live" BY <1>1, <1>2, <2>1 DEF GoodKey
  <2>4. WaitersGood(T, k) BY <1>1, <1>2, <2>1 DEF GoodKey, WaitersGood, Others
  <2>5. GoodCache(T, o, k) BY <1>1, <1>2, <2>1 DEF GoodCache
  <2> QED BY <2>2, <2>3, <2>4, <2>5 DEF GoodKey
<1>5. ASSUME NEW q \in Roles \ X PROVE GoodPlayer(T, o, q)
  <2> DEFINE p == S.players[q]
             k == p.format
  <2>1. GoodPlayer(S, o, q) /\ k \in Keys /\ q # r BY Naturals DEF Good
  <2>2. InPipeline(T, q) <=> InPipeline(S, q) BY <1>1 DEF InPipeline
  <2>3. Waiting(T, q) <=> Waiting(S, q)
    <3>1. T.keys[k].waiting = Others(S.keys[k], r) BY <1>2, <2>1
    <3>2. Waiting(T, q) <=> \E v \in Others(S.keys[k], r) : v[1] = q BY <1>1, <3>1 DEF Waiting
    <3>3. Waiting(S, q) <=> \E v \in S.keys[k].waiting : v[1] = q BY DEF Waiting
    <3>4. (\E v \in Others(S.keys[k], r) : v[1] = q) <=> \E v \in S.keys[k].waiting : v[1] = q
      BY <2>1 DEF Others
    <3> QED BY <3>2, <3>3, <3>4
  <2>4. k \in lost => S.keys[k].phase = "catching" BY <1>2, <2>1 DEF lost, Caught
  <2>5. ASSUME Abreast(S, o, q) PROVE Abreast(T, o, q)
    <3>1. S.keys[k].phase # "catching" BY <2>5 DEF Abreast
    <3>2. T.keys[k].phase # "catching" BY <1>2, <2>1, <3>1
    <3>3. T.keys[k].held = S.keys[k].held /\ T.keys[k].last = S.keys[k].last BY <1>2, <2>1
    <3>4. k \in T.unwound => k \in S.unwound BY <1>1, <2>4, <3>1
    <3>5. T.stream = S.stream /\ T.players = S.players BY <1>1
    <3> HIDE DEF k
    <3>6. k = S.players[q].format BY DEF k
    <3> QED BY <2>5, <3>2, <3>3, <3>4, <3>5, <3>6, AbreastKept
  <2>6. T.keys[k].phase = "catching" => S.keys[k].phase = "catching" BY <1>2, <2>1
  <2> QED BY <1>1, <2>1, <2>2, <2>3, <2>5, <2>6 DEF GoodPlayer
<1>6. \A q \in Roles : Faultless(T.players[q]) BY <1>1 DEF Good
<1>7. \A i \in 1 .. Commits : OpGood(T, o[i], X)
  <2>1. \A k \in Keys : EasesKey(S.keys[k], T.keys[k]) BY <1>2, Naturals DEF EasesKey
  <2>2. \A q \in Roles : EasesPlayer(S, T, X, X, q) BY <1>1 DEF EasesPlayer, InPipeline
  <2>3. Eases(S, T, X, X) BY <1>1, <2>1, <2>2, Naturals DEF Eases
  <2> QED BY <1>1, <2>3, OpEases DEF Good
<1>8. Good(T, o, X) BY <1>3, <1>4, <1>5, <1>6, <1>7 DEF Good
<1>9. \A k \in Keys : \A w \in T.keys[k].waiting : w[1] # r BY <1>2 DEF Others
<1> QED BY <1>8, <1>9 DEF T

-----------------------------------------------------------------------------
(* Joining.                                                                    *)

LEMMA GoodAll ==
  ASSUME NEW S, NEW o, NEW X, Good(S, o, X), \A r \in X : r \in Roles => GoodPlayer(S, o, r),
         Idling(o)
  PROVE  Good(S, o, {})
<1>1. \A r \in Roles \ {} : GoodPlayer(S, o, r) BY DEF Good
<1>2. \A i \in 1 .. Commits : OpGood(S, o[i], {}) BY IdlingOp
<1> QED BY <1>1, <1>2 DEF Good

\* A player that can be made to join.
Ready(p) == p.member # "out" /\ (p.lossy = {} /\ p.member = "in" => Anew(p))

\* As it joins, nothing is in progress.
LEMMA JoinerGood ==
  ASSUME NEW p \in PlayerType, Faultless(p), Ready(p),
         NEW lossy \in SUBSET {"filling", "starved"}
  PROVE  LET q == Marked(Joiner(p), lossy)
         IN  /\ q \in PlayerType /\ Faultless(q) /\ Ready(q) /\ ~q.pending
             /\ q.member = p.member /\ q.format = p.format /\ q.lossy = p.lossy \union lossy
             /\ q.sent = p.sent /\ q.resume = p.resume
<1>1. LET q == Marked(Joiner(p), lossy)
      IN  /\ q \in PlayerType /\ ~q.pending /\ q.member = p.member /\ q.format = p.format
          /\ q.lossy = p.lossy \union lossy /\ q.sent = p.sent /\ q.resume = p.resume
          /\ q.open = p.open /\ q.faults = p.faults
  BY JoinerFacts
<1> QED BY <1>1 DEF Faultless, Ready, Anew

LEMMA JoinerAlone ==
  ASSUME NEW p \in PlayerType, Faultless(p), Ready(p)
  PROVE  LET q == Joiner(p)
         IN  /\ q \in PlayerType /\ Faultless(q) /\ Ready(q) /\ ~q.pending
             /\ q.member = p.member /\ q.format = p.format /\ q.lossy = p.lossy
             /\ q.sent = p.sent /\ q.resume = p.resume
BY JoinerIs DEF Faultless, Ready, Anew

\* A player that joins without more to do for its format.
LEMMA JoinsAlone ==
  ASSUME NEW S \in StateType, NEW r \in Roles, NEW o \in [1 .. Commits -> OpType], Idling(o),
         Good(S, o, {r}), S.players[r].member # "out", NEW j \in PlayerType, Faultless(j),
         j.member = S.players[r].member, j.format = S.players[r].format, ~j.pending,
         j.lossy = {} =>
           /\ S.keys[j.format].phase # "catching"
           /\ j.member = "in" =>
                \/ Anew(j)
                \/ Fits(S.keys[j.format], S.stream.tail, j.sent)
  PROVE  Good([S EXCEPT !.players[r] = j], o, {})
<1> DEFINE T == [S EXCEPT !.players[r] = j]
<1>1. /\ T \in StateType /\ T.stream = S.stream /\ T.keys = S.keys /\ T.unwound = S.unwound
      /\ T.players[r] = j /\ \A q \in Roles \ {r} : T.players[q] = S.players[q]
  BY SetPlayer
<1> HIDE DEF T
<1>2. GoodPlayer(T, o, r)
  <2>1. \A last, k, s : Clears(last, o, k, s) /\ Later(o, s) BY IdlingOp
  <2>2. j.lossy = {} /\ Fits(S.keys[j.format], S.stream.tail, j.sent) => Abreast(T, o, r)
    BY <1>1, <2>1 DEF Abreast
  <2> QED BY <1>1, <2>2 DEF GoodPlayer
<1>3. Good(T, o, {}) BY <1>1, <1>2, GoodPlayerChanged
<1> QED BY <1>3 DEF T

LEMMA AlsoWaitsGood ==
  ASSUME NEW S \in StateType, NEW r \in Roles, NEW o \in [1 .. Commits -> OpType], Idling(o),
         Good(S, o, {r}), Ready(S.players[r]), ~S.players[r].pending,
         NEW w \in {r} \X (0 .. MaxTime + Lead)
  PROVE  LET k == S.players[r].format
         IN  Good([S EXCEPT !.keys[k] = AlsoWaits(S.keys[k], r, w)], o, {})
<1> DEFINE k == S.players[r].format
           K == S.keys[k]
           L == AlsoWaits(K, r, w)
           T == [S EXCEPT !.keys[k] = L]
<1>1. k \in Keys /\ K \in KeyType BY Naturals
<1>2. w \in Roles \X (0 .. MaxTime + Lead) /\ w[1] = r OBVIOUS
<1>3. /\ L \in KeyType /\ L.waiting = {v \in K.waiting : v[1] # r} \union {w}
      /\ L.phase = K.phase /\ L.last = K.last /\ L.held = K.held /\ L.cache = K.cache
      /\ L.task = K.task /\ L.owned = K.owned
  BY <1>1, <1>2, AlsoWaitsFacts
<1> HIDE DEF L
<1>4. /\ T \in StateType /\ T.stream = S.stream /\ T.players = S.players
      /\ T.unwound = S.unwound /\ T.keys[k] = L
      /\ \A j \in Keys \ {k} : T.keys[j] = S.keys[j]
  <2>1. L \in KeyType BY <1>3
  <2> HIDE DEF k
  <2> QED BY <1>1, <2>1, SetKey
<1> HIDE DEF T
<1>5. GoodKey(S, k) BY <1>1 DEF Good
<1>6. GoodKey(T, k)
  <2>1. KeyGood(L, S.stream.tail)
    <3>1. KeyGood(K, S.stream.tail) BY <1>5 DEF GoodKey
    <3> QED BY <1>3, <3>1, KeyGoodKept
  <2>2. WaitersGood(T, k)
    <3>1. \A v \in K.waiting : S.players[v[1]].format = k /\ S.players[v[1]].member # "out"
      BY <1>5 DEF GoodKey, WaitersGood
    <3>2. S.players[w[1]].format = k /\ S.players[w[1]].member # "out" BY <1>2 DEF Ready
    <3>3. \A v \in L.waiting : v \in K.waiting \/ v = w BY <1>3
    <3> QED BY <1>4, <3>1, <3>2, <3>3 DEF WaitersGood
  <2> QED BY <1>3, <1>4, <1>5, <2>1, <2>2 DEF GoodKey
<1>7. \A last, i, s : Clears(last, o, i, s) /\ Later(o, s) BY IdlingOp
<1>8. GoodCache(T, o, k) BY <1>7 DEF GoodCache
<1>9. ASSUME NEW q \in Roles \ {r}, S.players[q].format = k PROVE GoodPlayer(T, o, q)
  <2>1. GoodPlayer(S, o, q) BY DEF Good
  <2>2. T.players[q].format = k /\ S.players[q].format = k /\ q # r BY <1>4, <1>9
  <2>3. Waiting(T, q) <=> Waiting(S, q)
    <3>1. Waiting(T, q) <=> \E v \in L.waiting : v[1] = q BY <1>4, <2>2 DEF Waiting
    <3>2. Waiting(S, q) <=> \E v \in K.waiting : v[1] = q BY <2>2 DEF Waiting
    <3>3. w[1] # q BY <1>2, <2>2
    <3>4. L.waiting = {v \in K.waiting : v[1] # r} \union {w} BY <1>3
    <3>5. (\E v \in L.waiting : v[1] = q) <=> \E v \in K.waiting : v[1] = q
      BY <2>2, <3>3, <3>4
    <3> QED BY <3>1, <3>2, <3>5
  <2>4. ASSUME Abreast(S, o, q) PROVE Abreast(T, o, q)
    <3>1. /\ T.keys[k].phase = K.phase /\ T.keys[k].held = K.held /\ T.keys[k].last = K.last
          /\ T.stream = S.stream /\ T.players = S.players /\ T.unwound = S.unwound
      BY <1>3, <1>4
    <3> HIDE DEF k
    <3> QED BY <2>2, <2>4, <3>1, AbreastKept
  <2> QED BY <1>3, <1>4, <1>9, <2>1, <2>3, <2>4 DEF GoodPlayer, InPipeline
<1>10. S.stream.tail = 0 => ~T.keys[k].owned
  BY <1>1, <1>3, <1>4 DEF Good, GoodStream
<1> HIDE DEF k
<1>11. Good(T, o, {r})
  BY <1>1, <1>4, <1>6, <1>8, <1>9, <1>10, GoodKeyChanged
<1>12. GoodPlayer(T, o, r)
  <2>1. Waiting(T, r) BY <1>2, <1>3, <1>4 DEF Waiting, k
  <2> QED BY <1>4, <2>1 DEF GoodPlayer, Ready
<1>13. Good(T, o, {}) BY <1>11, <1>12, GoodAll
<1> QED BY <1>13 DEF T, L, K, k

LEMMA CatchUpGood ==
  ASSUME NEW S \in StateType, NEW r \in Roles, NEW o \in [1 .. Commits -> OpType], Idling(o),
         Good(S, o, {r}), Ready(S.players[r]), ~S.players[r].pending, NEW target \in Instant,
         S.keys[S.players[r].format].cache = <<>>,
         ~Shared(S, S.players[r].format, r), ChunksAfter(S, target) # {}
  PROVE  Good(CatchUp(S, S.players[r].format, r, target), o, {})
<1> DEFINE k == S.players[r].format
           K == S.keys[k]
           todo == ChunksAfter(S, target)
           L == CatchingUp(K, r, target, todo)
           T == [S EXCEPT !.keys[k] = L]
           tail == S.stream.tail
<1>1. k \in Keys /\ K \in KeyType /\ tail \in Nat BY Naturals
<1>2. /\ todo \subseteq S.stream.pcm /\ todo \in SUBSET Chunk /\ Max(todo) \in todo
      /\ Max(todo) + 1 \in Instant /\ \A m \in todo : m < Max(todo) + 1
  BY PcmFacts
<1>3. \A m \in todo : m + 1 > target BY DEF ChunksAfter
<1>4. CatchUp(S, k, r, target) = T BY <1>1, CatchUpIs
<1> HIDE DEF todo
<1>5. /\ L \in KeyType /\ L.phase = "catching" /\ L.waiting = {<<r, 0>>} /\ L.owned
      /\ L.held = 0 /\ L.last = 0 /\ L.cache = K.cache
      /\ L.task.todo = todo /\ L.task.got = <<>> /\ L.task.target = target
      /\ L.task.src = Max(todo) + 1 /\ L.task.enc = 0 /\ ~L.task.waiting
  <2>1. K \in KeyType /\ todo \in SUBSET Chunk /\ Max(todo) + 1 \in Instant BY <1>1, <1>2
  <2> HIDE DEF K
  <2> QED BY <2>1, CatchingUpFacts
<1> HIDE DEF L
<1>6. /\ T \in StateType /\ T.stream = S.stream /\ T.players = S.players
      /\ T.unwound = S.unwound /\ T.keys[k] = L
      /\ \A j \in Keys \ {k} : T.keys[j] = S.keys[j]
  BY <1>1, <1>5, SetKey
<1> HIDE DEF T
<1>7. \A m \in S.stream.pcm : m < tail BY DEF Good, GoodStream
<1>8. /\ target \in Nat /\ \A m \in todo : m \in Nat /\ target <= m
      /\ Max(todo) \in Nat /\ target <= Max(todo) + 1 /\ Max(todo) + 1 <= tail /\ tail # 0
  <2>1. target \in Nat BY EndFacts
  <2>2. \A m \in todo : m \in Nat /\ m < tail BY <1>2, <1>7, EndFacts
  <2>3. \A m \in todo : target <= m BY <1>3, <2>1, <2>2
  <2> HIDE DEF tail
  <2> QED BY <1>1, <1>2, <2>1, <2>2, <2>3
<1>9. CatchGood(L, tail)
  <2>1. Len(L.task.got) = 0 /\ Len(L.cache) = 0 BY <1>5
  <2>2. \A x \in Label : ~Known(L, x) BY <1>5, <2>1 DEF Known
  <2> QED BY <1>2, <1>5, <1>8, <2>1, <2>2 DEF CatchGood, Rising, FitsAll
<1>10. KeyGood(L, tail)
  <2>1. Len(L.cache) = 0 BY <1>5
  <2> QED BY <1>1, <1>5, <1>9, <2>1 DEF KeyGood, Rising, FitsAll
<1>11. GoodKey(T, k)
  <2>1. WaitersGood(T, k) BY <1>5, <1>6 DEF WaitersGood, Ready
  <2> QED BY <1>5, <1>6, <1>10, <2>1 DEF GoodKey
<1>12. GoodCache(T, o, k) BY <1>5, <1>6 DEF GoodCache
<1>13. ASSUME NEW q \in Roles \ {r}, S.players[q].format = k PROVE GoodPlayer(T, o, q)
  <2>1. ~InPipeline(S, q) BY <1>13 DEF Shared
  <2> QED BY <1>6, <2>1 DEF GoodPlayer, InPipeline
<1> HIDE DEF k
<1>14. Good(T, o, {r})
  BY <1>1, <1>6, <1>8, <1>11, <1>12, <1>13, GoodKeyChanged
<1>15. GoodPlayer(T, o, r)
  <2>1. <<r, 0>> \in L.waiting /\ <<r, 0>>[1] = r BY <1>5
  <2>2. T.players[r].format = k BY <1>6 DEF k
  <2>3. Waiting(T, r) BY <1>6, <2>1, <2>2 DEF Waiting
  <2> QED BY <1>6, <2>3 DEF GoodPlayer, Ready
<1> QED BY <1>4, <1>14, <1>15, GoodAll DEF k

\* The same without a look at the player.
LEMMA JoinerPut ==
  ASSUME NEW S \in StateType, NEW r \in Roles, NEW o \in [1 .. Commits -> OpType], Idling(o),
         Good(S, o, {r}), S.players[r].member # "out", NEW j \in PlayerType, Faultless(j),
         j.member = S.players[r].member, j.format = S.players[r].format
  PROVE  Good([S EXCEPT !.players[r] = j], o, {r})
<1> DEFINE T == [S EXCEPT !.players[r] = j]
<1>1. /\ T \in StateType /\ T.stream = S.stream /\ T.keys = S.keys /\ T.unwound = S.unwound
      /\ T.players[r] = j /\ \A q \in Roles \ {r} : T.players[q] = S.players[q]
  BY SetPlayer
<1> HIDE DEF T
<1>2. Good(T, o, {r}) BY <1>1, GoodPlayerChanged
<1> QED BY <1>2 DEF T

LEMMA LossyFilling ==
  ASSUME NEW S, NEW K, NEW target, K.cache # <<>>, Lossy(S, K, target) = {}
  PROVE  K.phase # "catching"
BY DEF Lossy

\* _do_role_join
LEMMA JoinGood ==
  ASSUME NEW S \in StateType, Sound(S), NEW r \in Roles, now \in 0 .. MaxTime,
         NEW o \in [1 .. Commits -> OpType], Idling(o), Good(S, o, {r}), Ready(S.players[r])
  PROVE  Good(DoRoleJoin(S, r), o, {})
<1> DEFINE p == S.players[r]
           k == p.format
           K == S.keys[k]
           target == JoinTarget(p)
           R == Rejoining(S, r)
           lossy == Lossy(R, K, target)
           q == Marked(Joiner(p), lossy)
           T == DoRoleJoin(S, r)
           tail == S.stream.tail
           N == K.cache
<1> SUFFICES Good(T, o, {}) OBVIOUS
<1>1. p \in PlayerType /\ k \in Keys /\ K \in KeyType /\ p.resume \in Nat /\ tail \in Nat
  BY Naturals
<1>2. now \in Nat /\ target \in Nat /\ target \in Instant /\ (p.resume # 0 => target = p.resume)
  BY <1>1, EndFacts, TargetType DEF JoinTarget, PlayerType
<1>3. Faultless(p) /\ KeyGood(K, tail) BY <1>1 DEF Good, GoodKey
<1>4. lossy \in SUBSET {"filling", "starved"} BY LossyType
<1>5. JoinsWaiting(S, r) = q BY DEF JoinsWaiting
<1>6. JoinsLive(S, r) = IF tail # 0 THEN Start(q) ELSE q BY DEF JoinsLive
<1>7. JoinsCached(S, r) = ReceiveCached(q, N, target, S.stream.pcm) BY DEF JoinsCached
<1>8. N # <<>> /\ lossy = {} => K.phase # "catching" BY LossyFilling
<1>9. Sound(S) => (K.phase = "catching" => ~S.stream.stopped)
  BY <1>1 DEF Sound, Caught
<1>10. R = [S EXCEPT !.players[r] = Joiner(p)] BY DEF Rejoining
<1> DEFINE other == \/ S.stream.stopped /\ T = R
                    \/ /\ N # <<>>
                       /\ T = [S EXCEPT !.players[r] = JoinsCached(S, r)]
                    \/ /\ N # <<>> \/ K.phase = "none"
                       /\ T = [S EXCEPT !.players[r] = JoinsLive(S, r)]
                    \/ /\ N = <<>>
                       /\ T = [[S EXCEPT !.players[r] = JoinsWaiting(S, r)]
                                 EXCEPT !.keys[k] = AlsoWaits(K, r, <<r, Target>>)]
                    \/ /\ N = <<>> /\ ~Shared(R, k, r) /\ ChunksAfter(R, target) # {}
                       /\ T = CatchUp(R, k, r, target)
<1>11. other BY JoinCases
<1>12. N \in Seq(Label) /\ Rising(N) /\ FitsAll(K, tail, N) BY <1>1, <1>3 DEF KeyGood, KeyType
<1> HIDE DEF lossy, R, T, target, tail, N
<1>13. /\ q \in PlayerType /\ Faultless(q) /\ Ready(q) /\ ~q.pending
       /\ q.member = p.member /\ q.format = k /\ q.lossy = p.lossy \union lossy
       /\ q.sent = p.sent /\ q.resume = p.resume
  BY <1>1, <1>3, <1>4, JoinerGood
<1>14. /\ Joiner(p) \in PlayerType /\ Faultless(Joiner(p)) /\ Ready(Joiner(p))
       /\ ~Joiner(p).pending /\ Joiner(p).member = p.member /\ Joiner(p).format = k
       /\ Joiner(p).lossy = p.lossy
  BY <1>1, <1>3, JoinerAlone
<1> HIDE DEF q, p, k, K
<1>15. p.member # "out" BY DEF Ready, p
<1>16. CASE S.stream.stopped /\ T = R
  <2>1. Joiner(p).lossy = {} /\ Joiner(p).member = "in" => Anew(Joiner(p)) BY <1>14 DEF Ready
  <2>2. K.phase # "catching" BY <1>9, <1>16
  <2>3. Good([S EXCEPT !.players[r] = Joiner(p)], o, {})
    BY <1>14, <1>15, <2>1, <2>2, JoinsAlone DEF p, k, K
  <2> QED BY <1>10, <1>16, <2>3
<1>17. CASE N # <<>> /\ T = [S EXCEPT !.players[r] = JoinsCached(S, r)]
  <2> DEFINE j == ReceiveCached(q, N, target, S.stream.pcm)
  <2>1. /\ j \in PlayerType /\ Hears(q, j) /\ Faultless(j) /\ j.resume = q.resume
        /\ j.sent = q.sent \/ \E n \in 1 .. Len(N) : j.sent = N[n] + 1
    <3>1. q.lossy = {} /\ q.member = "in" => Anew(q) BY <1>13 DEF Ready
    <3>2. q.member # "out" /\ (q.resume # 0 => target = q.resume) BY <1>2, <1>13, <1>15
    <3>3. GotCached(q, j, N) BY <1>2, <1>12, <1>13, <3>1, <3>2, CachedSent
    <3> HIDE DEF j
    <3> QED BY <3>3 DEF GotCached
  <2> HIDE DEF j
  <2>2. /\ j.member = p.member /\ j.format = k /\ ~j.pending /\ j.lossy = q.lossy
    BY <1>13, <2>1 DEF Hears
  <2>3. ASSUME j.lossy = {}
        PROVE  /\ K.phase # "catching"
               /\ j.member = "in" => Anew(j) \/ Fits(K, tail, j.sent)
    <3>1. lossy = {} BY <1>13, <2>2, <2>3
    <3>2. K.phase # "catching" BY <1>8, <1>17, <3>1
    <3>3. CASE j.sent = q.sent BY <1>13, <2>1, <2>2, <2>3, <3>2, <3>3 DEF Ready, Anew
    <3>4. CASE \E n \in 1 .. Len(N) : j.sent = N[n] + 1 BY <1>12, <3>2, <3>4 DEF FitsAll
    <3> QED BY <2>1, <3>3, <3>4
  <2>4. Good([S EXCEPT !.players[r] = j], o, {})
    BY <1>15, <2>1, <2>2, <2>3, JoinsAlone DEF tail, p, k, K
  <2> QED BY <1>7, <1>17, <2>4 DEF j
<1>18. CASE /\ N # <<>> \/ K.phase = "none"
            /\ T = [S EXCEPT !.players[r] = JoinsLive(S, r)]
  <2> DEFINE j == JoinsLive(S, r)
  <2>1. j = Start(q) \/ j = q BY <1>6
  <2> HIDE DEF j
  <2>2. /\ Start(q) \in PlayerType /\ Faultless(Start(q))
        /\ Start(q).sent = q.sent /\ Start(q).resume = q.resume
        /\ Start(q).member = q.member /\ Start(q).lossy = q.lossy
        /\ Start(q).format = q.format /\ Start(q).pending = q.pending
    BY <1>13, StartKeeps
  <2>3. /\ j \in PlayerType /\ Faultless(j) /\ j.sent = q.sent /\ j.resume = q.resume
        /\ j.member = p.member /\ j.lossy = q.lossy /\ j.format = k /\ ~j.pending
    BY <1>13, <2>1, <2>2
  <2>4. ASSUME j.lossy = {}
        PROVE  K.phase # "catching" /\ (j.member = "in" => Anew(j))
    <3>1. lossy = {} BY <1>13, <2>3, <2>4
    <3>2. K.phase # "catching" BY <1>8, <1>18, <3>1
    <3> QED BY <1>13, <2>3, <2>4, <3>2 DEF Ready, Anew
  <2>5. Good([S EXCEPT !.players[r] = j], o, {})
    BY <1>15, <2>3, <2>4, JoinsAlone DEF p, k, K
  <2> QED BY <1>18, <2>5 DEF j
<1>19. CASE T = [[S EXCEPT !.players[r] = JoinsWaiting(S, r)]
                   EXCEPT !.keys[k] = AlsoWaits(K, r, <<r, Target>>)]
  <2> DEFINE U == [S EXCEPT !.players[r] = q]
             w == <<r, Target>>
  <2>1. /\ Good(U, o, {r}) /\ U \in StateType /\ U.keys = S.keys /\ U.players[r] = q
    <3>1. U \in StateType /\ U.keys = S.keys /\ U.players[r] = q BY <1>13, SetPlayer
    <3>2. q.member = S.players[r].member /\ q.format = S.players[r].format
      BY <1>13 DEF p, k
    <3>3. S.players[r].member # "out" BY <1>15 DEF p
    <3>4. Good(U, o, {r}) BY <1>13, <3>2, <3>3, JoinerPut
    <3> QED BY <3>1, <3>4
  <2>2. w \in {r} \X (0 .. MaxTime + Lead) BY TargetType
  <2> HIDE DEF U, w
  <2>3. Good([U EXCEPT !.keys[k] = AlsoWaits(U.keys[k], r, w)], o, {})
    <3>1. Ready(U.players[r]) /\ ~U.players[r].pending /\ U.players[r].format = k
      BY <1>13, <2>1
    <3> QED BY <2>1, <2>2, <3>1, AlsoWaitsGood
  <2>4. T = [U EXCEPT !.keys[k] = AlsoWaits(U.keys[k], r, w)]
    BY <1>5, <1>19, <2>1 DEF U, w, K
  <2> QED BY <2>3, <2>4
<1>20. CASE /\ N = <<>> /\ ~Shared(R, k, r) /\ ChunksAfter(R, target) # {}
            /\ T = CatchUp(R, k, r, target)
  <2>1. Good(R, o, {r}) /\ R \in StateType /\ R.keys = S.keys /\ R.players[r] = Joiner(p)
    <3>1. Good([S EXCEPT !.players[r] = Joiner(p)], o, {r})
      BY <1>14, <1>15, JoinerPut DEF p, k
    <3>2. R \in StateType /\ R.keys = S.keys /\ R.players[r] = Joiner(p)
      BY <1>10, <1>14, SetPlayer
    <3> QED BY <1>10, <3>1, <3>2
  <2>2. Good(CatchUp(R, k, r, target), o, {})
    BY <1>2, <1>14, <1>20, <2>1, CatchUpGood DEF K, N
  <2> QED BY <1>20, <2>2
<1> QED BY <1>11, <1>16, <1>17, <1>18, <1>19, <1>20

LEMMA GoodMore ==
  ASSUME NEW S \in StateType, NEW o \in [1 .. Commits -> OpType], NEW X, Good(S, o, {})
  PROVE  Good(S, o, X)
<1>1. \A r \in Roles \ X : GoodPlayer(S, o, r) BY DEF Good
<1>2. \A i \in 1 .. Commits : OpGood(S, o[i], X)
  <2>1. Eases(S, S, {}, X) BY Naturals DEF Eases, EasesKey, EasesPlayer
  <2> QED BY <2>1, OpEases DEF Good
<1> QED BY <1>1, <1>2 DEF Good

\* A deferred join can be made up for.
LEMMA DeferredReady ==
  ASSUME NEW S, NEW o, Good(S, o, {}), NEW r \in Roles, S.players[r].pending
  PROVE  Ready(S.players[r])
<1>1. GoodPlayer(S, o, r) /\ Faultless(S.players[r]) BY DEF Good
<1>2. ~Abreast(S, o, r) BY DEF Abreast
<1> QED BY <1>1, <1>2 DEF GoodPlayer, Faultless, Ready

LEMMA SetToSeqOnce ==
  ASSUME NEW S, IsFiniteSet(S)
  PROVE  \A m, n \in 1 .. Len(SetToSeq(S)) : SetToSeq(S)[m] = SetToSeq(S)[n] => m = n
<1> DEFINE N == Cardinality(S)
<1>1. N \in Nat /\ ExistsBijection(1 .. N, S) BY FS_CardinalityType
<1>2. \E f \in [1 .. N -> S] : IsInjective(f)
  BY <1>1 DEF ExistsBijection, Bijection, Injection, IsInjective
<1>3. SetToSeq(S) \in [1 .. N -> S] /\ IsInjective(SetToSeq(S)) BY <1>2 DEF SetToSeq
<1>4. Len(SetToSeq(S)) = N BY <1>1, <1>3
<1> QED BY <1>3, <1>4 DEF IsInjective

\* _release_deferred_joins
LEMMA JoinsReleasedGood ==
  ASSUME NEW S \in StateType, Sound(S), now \in 0 .. MaxTime,
         NEW o \in [1 .. Commits -> OpType], Idling(o), Good(S, o, {})
  PROVE  Good(JoinsReleased(S), o, {})
<1> DEFINE pending == {r \in Roles : S.players[r].pending}
           order == SetToSeq(pending)
<1>1. /\ order \in Seq(pending) /\ Len(order) \in Nat
      /\ \A m, n \in 1 .. Len(order) : order[m] = order[n] => m = n
  <2>1. IsFiniteSet(pending) BY PushStreamAssumption, FS_Subset DEF PushStreamAssumption
  <2> HIDE DEF pending
  <2> QED BY <2>1, SetToSeqFacts, SetToSeqOnce
<1>2. PICK f : /\ JoinsInSteps(S, order, Len(order), f)
               /\ JoinsReleased(S) = f[Len(order)]
  BY <1>1, JoinsFold
<1> HIDE DEF order
<1>3. \A n \in 0 .. Len(order) : f[n] = IF n = 0 THEN S ELSE DoRoleJoin(f[n - 1], order[n])
  BY <1>2, Zenon DEF JoinsInSteps
<1> DEFINE Done(n) == /\ f[n] \in StateType /\ Sound(f[n]) /\ Good(f[n], o, {})
                      /\ \A m \in n + 1 .. Len(order) :
                           f[n].players[order[m]] = S.players[order[m]]
           D == {n \in Nat : n <= Len(order) => Done(n)}
<1>4. 0 \in D
  <2>1. f[0] = S BY <1>1, <1>3
  <2> QED BY <2>1
<1>5. ASSUME NEW n \in Nat, n \in D PROVE n + 1 \in D
  <2> SUFFICES ASSUME n + 1 <= Len(order) PROVE Done(n + 1) OBVIOUS
  <2> DEFINE r == order[n + 1]
  <2>1. Done(n) BY <1>1, <1>5
  <2>2. n + 1 \in 1 .. Len(order) /\ n + 1 \in n + 1 .. Len(order) /\ n + 1 - 1 = n BY <1>1
  <2>3. f[n + 1] = DoRoleJoin(f[n], r) BY <1>3, <2>2
  <2>4. r \in Roles /\ S.players[r].pending BY <1>1, <2>2, Elements
  <2>5. f[n] \in StateType /\ Sound(f[n]) /\ f[n].players[r] = S.players[r] BY <2>1, <2>2
  <2>6. Ready(f[n].players[r]) BY <2>4, <2>5, DeferredReady
  <2>7. Good(f[n], o, {r}) BY <2>1, GoodMore
  <2>8. Good(f[n + 1], o, {})
    <3> HIDE DEF Done, r
    <3> QED BY <2>3, <2>4, <2>5, <2>6, <2>7, JoinGood
  <2>9. /\ Steps(f[n], f[n + 1], {}) /\ f[n + 1] \in StateType
        /\ \A q \in Roles \ {r} : f[n + 1].players[q] = f[n].players[q]
    <3> HIDE DEF Done, r
    <3> QED BY <2>3, <2>4, <2>5, JoinSteps
  <2>10. ASSUME NEW m \in n + 2 .. Len(order)
         PROVE  f[n + 1].players[order[m]] = S.players[order[m]]
    <3>1. m \in 1 .. Len(order) /\ m # n + 1 /\ m \in n + 1 .. Len(order) BY <1>1
    <3>2. order[m] \in Roles \ {r} BY <1>1, <2>2, <3>1, Elements
    <3>3. f[n].players[order[m]] = S.players[order[m]] BY <2>1, <3>1
    <3> HIDE DEF r, Done
    <3> QED BY <2>9, <3>2, <3>3
  <2>11. (n + 1) + 1 .. Len(order) = n + 2 .. Len(order) BY <1>1
  <2> QED BY <2>8, <2>9, <2>10, <2>11 DEF Steps
<1> HIDE DEF D, Done
<1>6. Len(order) \in D
  <2>1. \A n \in Nat : n \in D BY <1>4, <1>5, SetInduction
  <2> QED BY <1>1, <2>1
<1>7. Done(Len(order)) BY <1>1, <1>6 DEF D
<1> QED BY <1>2, <1>7 DEF Done

-----------------------------------------------------------------------------
(* Membership.                                                                 *)

\* on_role_join, deferred.
LEMMA RoleJoinLater ==
  ASSUME NEW S \in StateType, NEW r \in Roles, Underway # {},
         ops \in [1 .. Commits -> OpType], Good(S, ops, {r}), Ready(S.players[r]),
         S.players[r].lossy = {} /\ S.keys[S.players[r].format].phase = "catching" =>
           ~Waiting(S, r)
  PROVE  Good(RoleJoin(S, r), ops, {}) /\ RoleJoin(S, r) \in StateType
<1> DEFINE p == S.players[r]
           j == [p EXCEPT !.pending = TRUE]
           T == [S EXCEPT !.players[r] = j]
<1>1. p \in PlayerType /\ Faultless(p) BY Naturals DEF Good
<1>2. /\ j \in PlayerType /\ j.pending /\ j.member = p.member /\ j.format = p.format
      /\ j.open = p.open /\ j.sent = p.sent /\ j.resume = p.resume
      /\ j.faults = p.faults /\ j.lossy = p.lossy
  BY <1>1 DEF PlayerType
<1>3. RoleJoin(S, r) = T BY DEF RoleJoin, StateType
<1> HIDE DEF j
<1>4. /\ T \in StateType /\ T.stream = S.stream /\ T.keys = S.keys /\ T.unwound = S.unwound
      /\ T.players[r] = j /\ \A q \in Roles \ {r} : T.players[q] = S.players[q]
  BY <1>2, SetPlayer
<1> HIDE DEF T
<1>5. Faultless(j) BY <1>1, <1>2 DEF Faultless, Ready
<1>6. GoodPlayer(T, ops, r)
  <2>1. Waiting(T, r) <=> Waiting(S, r) BY <1>2, <1>4 DEF Waiting
  <2>2. j.lossy = {} /\ j.member = "in" => Anew(j) BY <1>2 DEF Ready, Anew
  <2> QED BY <1>2, <1>4, <2>1, <2>2 DEF GoodPlayer
<1>7. EasesPlayer(S, T, {r}, {}, r) BY <1>2, <1>4 DEF EasesPlayer
<1>8. j.member # "out" BY <1>2 DEF Ready
<1>9. Good(T, ops, {}) BY <1>2, <1>4, <1>5, <1>6, <1>7, <1>8, GoodPlayerChanged
<1> QED BY <1>3, <1>4, <1>9

\* on_role_join, at once; the player is not taken for started.
LEMMA RoleJoinNow ==
  ASSUME NEW S \in StateType, NEW r \in Roles, Underway = {}, now \in 0 .. MaxTime,
         ops \in [1 .. Commits -> OpType], Good(S, ops, {r}), Ready(S.players[r]),
         Sound(Rejoining(S, r))
  PROVE  Good(RoleJoin(S, r), ops, {}) /\ RoleJoin(S, r) \in StateType
<1> DEFINE p == S.players[r]
           q == Joiner(p)
           R == Rejoining(S, r)
<1>1. Idling(ops) BY DEF Underway, Idling
<1>2. p \in PlayerType /\ Faultless(p) BY Naturals DEF Good
<1>3. /\ q \in PlayerType /\ Faultless(q) /\ Ready(q) /\ ~q.pending
      /\ q.member = p.member /\ q.format = p.format
  BY <1>2, JoinerAlone
<1>4. R = [S EXCEPT !.players[r] = q] BY DEF Rejoining
<1>5. RoleJoin(S, r) = DoRoleJoin(R, r) BY JoinAgain DEF RoleJoin
<1> HIDE DEF q, R
<1>6. R \in StateType /\ R.players[r] = q BY <1>3, <1>4, SetPlayer
<1>7. Good(R, ops, {r})
  <2>1. S.players[r].member # "out" BY DEF Ready
  <2> QED BY <1>1, <1>3, <1>4, <2>1, JoinerPut
<1>8. Good(DoRoleJoin(R, r), ops, {}) BY <1>1, <1>3, <1>6, <1>7, JoinGood DEF R
<1>9. DoRoleJoin(R, r) \in StateType BY <1>6, JoinSteps DEF R
<1> QED BY <1>5, <1>8, <1>9

\* on_role_join
LEMMA RoleJoinGood ==
  ASSUME NEW S \in StateType, Sound(S), NEW r \in Roles, now \in 0 .. MaxTime,
         ops \in [1 .. Commits -> OpType], Good(S, ops, {r}), Ready(S.players[r]),
         S.players[r].lossy = {} /\ S.keys[S.players[r].format].phase = "catching" =>
           ~Waiting(S, r)
  PROVE  Good(RoleJoin(S, r), ops, {}) /\ RoleJoin(S, r) \in StateType
<1>1. Sound(Rejoining(S, r)) BY RejoiningSteps DEF Steps
<1> QED BY <1>1, RoleJoinLater, RoleJoinNow

\* A player's record is replaced and the player joins.
LEMMA PlayerJoinsGood ==
  ASSUME NEW S \in StateType, Sound(S), NEW r \in Roles, now \in 0 .. MaxTime,
         ops \in [1 .. Commits -> OpType], NEW X \in {{}, {r}}, Good(S, ops, X),
         NEW p \in PlayerType, Told(p), S.stream.stopped => ~p.started,
         Faultless(p), Ready(p),
         \/ p.format = S.players[r].format
         \/ \A k \in Keys : \A w \in S.keys[k].waiting : w[1] # r,
         p.lossy = {} /\ S.keys[p.format].phase = "catching" =>
           \A w \in S.keys[p.format].waiting : w[1] # r
  PROVE  Good(RoleJoin([S EXCEPT !.players[r] = p], r), ops, {})
<1> DEFINE T == [S EXCEPT !.players[r] = p]
<1>1. /\ T \in StateType /\ T.stream = S.stream /\ T.keys = S.keys /\ T.unwound = S.unwound
      /\ T.players[r] = p /\ \A q \in Roles \ {r} : T.players[q] = S.players[q]
  BY SetPlayer
<1> HIDE DEF T
<1>2. Sound(T) BY <1>1 DEF Sound
<1>3. Good(T, ops, {r})
  <2>1. X \ {r} \subseteq {r} /\ p.member # "out" BY DEF Ready
  <2>2. EasesPlayer(S, T, X, {r}, r) BY DEF EasesPlayer
  <2> QED BY <1>1, <2>1, <2>2, GoodPlayerChanged
<1>4. T.players[r].lossy = {} /\ T.keys[T.players[r].format].phase = "catching" => ~Waiting(T, r)
  BY <1>1 DEF Waiting
<1>5. Good(RoleJoin(T, r), ops, {}) BY <1>1, <1>2, <1>3, <1>4, RoleJoinGood
<1> QED BY <1>5 DEF T

\* What a step that leaves operations alone must keep.
LEMMA SentStep ==
  ASSUME NEW T \in StateType, Becomes(T), UNCHANGED <<ops, queue>>, InOrder(ops, queue),
         Good(T, ops, {})
  PROVE  SentInv'
<1>1. State' = T /\ players' = T.players BY BecomesIs
<1>2. Good(State', ops', {}) BY <1>1
<1>3. InOrder(ops', queue') OBVIOUS
<1>4. \A r \in Roles : Faultless(players'[r]) BY <1>1 DEF Good
<1> QED BY <1>2, <1>3, <1>4 DEF SentInv

LEMMA SentFacts ==
  ASSUME SentInv, Explored
  PROVE  /\ Good(State, ops, {}) /\ InOrder(ops, queue)
         /\ \A r \in Roles : Faultless(players[r]) /\ GoodPlayer(State, ops, r)
         /\ \A k \in Keys : GoodKey(State, k) /\ GoodCache(State, ops, k)
         /\ GoodStream(State)
BY DEF SentInv, Good

LEMMA ChangesSent ==
  ASSUME SentInv, NEW T \in StateType, Changes(T), Explored => Good(T, ops, {})
  PROVE  SentInv'
<1>1. Explored /\ Becomes(T) /\ UNCHANGED <<ops, queue>> BY DEF Changes
<1> QED BY <1>1, SentStep, SentFacts

LEMMA JoinsSent ==
  ASSUME IInv, SentInv, NEW r \in Roles, Joins(r)
  PROVE  SentInv'
<1>1. PICK k \in Keys :
        Changes(RoleJoin([State EXCEPT !.players[r] =
          [NoPlayer(k) EXCEPT !.member = "in", !.faults = players[r].faults,
                              !.lossy = players[r].lossy]], r))
  BY DEF Joins
<1> DEFINE p == [NoPlayer(k) EXCEPT !.member = "in", !.faults = players[r].faults,
                                    !.lossy = players[r].lossy]
           T == RoleJoin([State EXCEPT !.players[r] = p], r)
<1>2. players[r] \in PlayerType BY InvFacts
<1>3. NoPlayer(k) \in PlayerType /\ ~NoPlayer(k).pending /\ ~NoPlayer(k).started
      /\ NoPlayer(k).sent = 0
  BY Defaults DEF NoPlayer
<1>4. /\ p \in PlayerType /\ ~p.pending /\ ~p.started /\ p.member = "in" /\ p.sent = 0
      /\ p.faults = players[r].faults /\ p.lossy = players[r].lossy
  BY <1>2, <1>3 DEF PlayerType, Members
<1> HIDE DEF p
<1>5. Told(p) BY <1>4 DEF Told
<1>6. State \in StateType /\ Sound(State) /\ Steps(State, State, {}) BY InvFacts DEF Steps
<1>7. Explored BY <1>1 DEF Changes
<1>8. Faultless(p) BY <1>4, <1>7, SentFacts DEF Faultless
<1>9. Ready(p) BY <1>4 DEF Ready, Anew
<1>10. \A j \in Keys : \A w \in State.keys[j].waiting : w[1] # r
  BY <1>7, SentFacts, StateIs DEF Joins, GoodKey, WaitersGood
<1>11. p.format \in Keys BY <1>4 DEF PlayerType
<1>12. Good(T, ops, {})
  <2>1. {} \in {{}, {r}} OBVIOUS
  <2>2. now \in 0 .. MaxTime /\ ops \in [1 .. Commits -> OpType] BY InvFacts
  <2> HIDE DEF T
  <2>3. Good(RoleJoin([State EXCEPT !.players[r] = p], r), ops, {})
    BY <1>4, <1>5, <1>6, <1>7, <1>8, <1>9, <1>10, <1>11, <2>1, <2>2, SentFacts,
       PlayerJoinsGood
  <2> QED BY <2>3 DEF T
<1>13. T \in StateType
  BY <1>4, <1>5, <1>6, PlayerJoins DEF Steps
<1>14. Changes(T) BY <1>1 DEF p
<1> HIDE DEF T
<1> QED BY <1>12, <1>13, <1>14, ChangesSent

\* What a player leaves of a stream.
LeftBy(S, T, o, r) ==
  /\ Good(T, o, {r}) /\ T \in StateType /\ T.players = S.players
  /\ T.stream = S.stream /\ Sound(T)
  /\ \A j \in Keys : \A w \in T.keys[j].waiting : w[1] # r

LEMMA LeftGood ==
  ASSUME NEW S \in StateType, Sound(S), NEW o \in [1 .. Commits -> OpType], NEW r \in Roles,
         Good(S, o, {r}), NEW k \in Keys
  PROVE  LeftBy(S, Withdrawn(Dropped(S, k, r), r), o, r)
<1> DEFINE D == Dropped(S, k, r)
           T == Withdrawn(D, r)
<1>1. D \in StateType /\ D.players = S.players /\ D.stream = S.stream /\ Sound(D)
  BY DroppedSteps DEF Steps
<1>2. Good(D, o, {r})
  <2>1. r \in {r} OBVIOUS
  <2> QED BY <2>1, DroppedGood
<1> HIDE DEF D
<1>3. T \in StateType /\ T.players = D.players /\ T.stream = D.stream /\ Sound(T)
  BY <1>1, WithdrawnSteps DEF Steps
<1>4. Good(T, o, {r}) /\ \A j \in Keys : \A w \in T.keys[j].waiting : w[1] # r
  <2>1. r \in {r} OBVIOUS
  <2> QED BY <1>1, <1>2, <2>1, WithdrawnGood
<1> HIDE DEF T
<1>5. /\ Good(T, o, {r}) /\ T \in StateType /\ T.players = S.players
      /\ T.stream = S.stream /\ Sound(T)
      /\ \A j \in Keys : \A w \in T.keys[j].waiting : w[1] # r
  BY <1>1, <1>3, <1>4
<1> QED BY <1>5 DEF T, D, LeftBy

LEMMA ChangesFormatSent ==
  ASSUME IInv, SentInv, NEW r \in Roles, ChangesFormat(r)
  PROVE  SentInv'
<1> DEFINE k == players[r].format
           S2 == Withdrawn(Dropped(State, k, r), r)
           p(j) == [players[r] EXCEPT !.format = j, !.resume = players[r].sent]
<1>1. PICK j \in Keys : Changes(FormatChange(State, r, j)) BY DEF ChangesFormat
<1>2. players[r] \in PlayerType /\ k \in Keys /\ Told(players[r])
  BY InvFacts DEF PlayerType
<1>3. /\ p(j) \in PlayerType /\ p(j).pending = players[r].pending
      /\ p(j).started = players[r].started /\ p(j).member = players[r].member
      /\ p(j).open = players[r].open /\ p(j).sent = players[r].sent
      /\ p(j).resume = players[r].sent /\ p(j).faults = players[r].faults
      /\ p(j).lossy = players[r].lossy /\ p(j).format = j
  BY <1>2 DEF PlayerType
<1>4. State \in StateType /\ Sound(State) /\ now \in 0 .. MaxTime
      /\ ops \in [1 .. Commits -> OpType]
  BY InvFacts
<1> HIDE DEF k
<1>5. Explored BY <1>1 DEF Changes
<1>6. Good(State, ops, {r}) BY <1>4, <1>5, SentFacts, GoodMore
<1>7. /\ Good(S2, ops, {r}) /\ S2 \in StateType /\ S2.players = State.players
      /\ S2.stream = State.stream /\ Sound(S2)
      /\ \A i \in Keys : \A w \in S2.keys[i].waiting : w[1] # r
  <2>1. LeftBy(State, S2, ops, r) BY <1>2, <1>4, <1>6, LeftGood
  <2> HIDE DEF S2
  <2> QED BY <2>1 DEF LeftBy
<1>8. FormatChange(State, r, j) = RoleJoin([S2 EXCEPT !.players[r] = p(j)], r)
  <2>1. FormatChange(State, r, j)
          = RoleJoin([S2 EXCEPT !.players[r].format = j, !.players[r].resume = players[r].sent], r)
    BY StateIs, Zenon DEF FormatChange, k
  <2> HIDE DEF S2
  <2>2. [S2 EXCEPT !.players[r].format = j, !.players[r].resume = players[r].sent]
          = [S2 EXCEPT !.players[r] = p(j)]
    BY <1>7, StateIs DEF StateType, PlayerType
  <2> QED BY <2>1, <2>2
<1> HIDE DEF S2, p
<1>9. Told(p(j)) /\ (S2.stream.stopped => ~p(j).started)
  BY <1>2, <1>3, <1>4, <1>7, StateIs DEF Told, Sound
<1>10. Faultless(p(j)) /\ Ready(p(j))
  <2>1. Faultless(players[r]) BY <1>5, SentFacts
  <2>2. players[r].member = "in" BY DEF ChangesFormat
  <2> QED BY <1>3, <2>1, <2>2 DEF Faultless, Ready, Anew
<1>11. Good(RoleJoin([S2 EXCEPT !.players[r] = p(j)], r), ops, {})
  <2>1. {r} \in {{}, {r}} OBVIOUS
  <2> QED BY <1>3, <1>4, <1>7, <1>9, <1>10, <2>1, PlayerJoinsGood
<1>12. RoleJoin([S2 EXCEPT !.players[r] = p(j)], r) \in StateType
  <2>1. [S2 EXCEPT !.players[r] = p(j)] \in StateType /\ Sound([S2 EXCEPT !.players[r] = p(j)])
    BY <1>3, <1>7, <1>9, PlayerSteps DEF Steps
  <2> DEFINE U == [S2 EXCEPT !.players[r] = p(j)]
  <2>2. U \in StateType /\ Sound(U) BY <2>1
  <2> HIDE DEF U
  <2>3. RoleJoin(U, r) \in StateType BY <1>4, <2>2, RoleJoinSteps
  <2> QED BY <2>3 DEF U
<1> DEFINE T == RoleJoin([S2 EXCEPT !.players[r] = p(j)], r)
<1>13. T \in StateType /\ Good(T, ops, {}) /\ Changes(T) BY <1>1, <1>8, <1>11, <1>12
<1> HIDE DEF T
<1> QED BY <1>13, ChangesSent

LEMMA LeavesSent ==
  ASSUME IInv, SentInv, NEW r \in Roles, Leaves(r)
  PROVE  SentInv'
<1> DEFINE p1 == [players[r] EXCEPT !.started = FALSE, !.pending = FALSE, !.resume = 0]
           p2 == [p1 EXCEPT !.member = "out", !.open = FALSE, !.sent = 0]
           S1 == [State EXCEPT !.players[r] = p1]
           k == players[r].format
           S3 == Withdrawn(Dropped(S1, k, r), r)
           S4 == [S3 EXCEPT !.players[r] = p2]
<1>1. /\ players[r] \in PlayerType /\ k \in Keys /\ State \in StateType /\ Sound(State)
      /\ ops \in [1 .. Commits -> OpType]
  BY InvFacts DEF PlayerType
<1>2. /\ p1 \in PlayerType /\ ~p1.pending /\ ~p1.started /\ p1.member = players[r].member
      /\ p1.format = players[r].format /\ p1.open = players[r].open
      /\ p1.sent = players[r].sent /\ p1.faults = players[r].faults
      /\ p1.lossy = players[r].lossy
  BY <1>1, EndFacts DEF PlayerType
<1>3. RoleLeave(State, r) = S3
  <2>1. [State EXCEPT !.players[r] = [@ EXCEPT !.started = FALSE, !.pending = FALSE, !.resume = 0]]
          = S1
    BY StateIs, InvFacts DEF StateType
  <2> HIDE DEF S1, k
  <2> QED BY <2>1, StateIs DEF RoleLeave, k
<1>4. Explored BY DEF Leaves, Changes
<1> HIDE DEF k, p1
<1>5. /\ p2 \in PlayerType /\ ~p2.pending /\ p2.member = "out" /\ ~p2.open /\ p2.sent = 0
      /\ p2.faults = p1.faults /\ p2.lossy = p1.lossy
  BY <1>2, EndFacts DEF PlayerType, Members
<1>6. /\ S1 \in StateType /\ S1.stream = State.stream /\ S1.keys = State.keys
      /\ S1.unwound = State.unwound /\ S1.players[r] = p1
      /\ \A q \in Roles \ {r} : S1.players[q] = State.players[q]
  <2>1. State \in StateType /\ p1 \in PlayerType BY <1>1, <1>2
  <2> QED BY <2>1, SetPlayer
<1>7. Sound(S1)
  <2>1. Told(p1) BY <1>2 DEF Told
  <2> QED BY <1>1, <1>2, <2>1, PlayerSteps DEF Steps
<1>8. Faultless(p1) /\ Faultless(p2)
  <2>1. Faultless(players[r]) BY <1>4, SentFacts
  <2> QED BY <1>2, <1>5, <2>1 DEF Faultless
<1> HIDE DEF S1
<1>9. Good(S1, ops, {r})
  <2>1. EasesPlayer(State, S1, {}, {r}, r) BY DEF EasesPlayer
  <2>2. p1.member # "out" /\ State.players[r].format = p1.format
    BY <1>2, StateIs DEF Leaves
  <2> QED BY <1>1, <1>4, <1>6, <1>8, <2>1, <2>2, SentFacts, GoodPlayerChanged
<1>10. /\ Good(S3, ops, {r}) /\ S3 \in StateType /\ S3.players = S1.players
       /\ \A j \in Keys : \A w \in S3.keys[j].waiting : w[1] # r
  <2>1. LeftBy(S1, S3, ops, r) BY <1>1, <1>6, <1>7, <1>9, LeftGood
  <2> HIDE DEF S3
  <2> QED BY <2>1 DEF LeftBy
<1>11. Changes(S4)
  <2>1. Changes([S3 EXCEPT !.players[r] = [@ EXCEPT !.member = "out", !.open = FALSE, !.sent = 0]])
    BY <1>3 DEF Leaves
  <2>2. [S3 EXCEPT !.players[r] = [@ EXCEPT !.member = "out", !.open = FALSE, !.sent = 0]] = S4
    BY <1>6, <1>10 DEF S4, p2, StateType
  <2> QED BY <2>1, <2>2
<1> HIDE DEF S3, p2
<1>12. /\ S4 \in StateType /\ S4.stream = S3.stream /\ S4.keys = S3.keys
       /\ S4.unwound = S3.unwound /\ S4.players[r] = p2
       /\ \A q \in Roles \ {r} : S4.players[q] = S3.players[q]
  BY <1>5, <1>10, SetPlayer
<1> HIDE DEF S4
<1>13. Good(S4, ops, {})
  <2>1. ~InPipeline(S4, r) BY <1>5, <1>12 DEF InPipeline
  <2>2. EasesPlayer(S3, S4, {r}, {}, r) BY <2>1 DEF EasesPlayer
  <2>3. GoodPlayer(S4, ops, r) BY <1>5, <1>12, <2>1 DEF GoodPlayer
  <2>4. {r} \ {r} \subseteq {} OBVIOUS
  <2> QED BY <1>1, <1>8, <1>10, <1>12, <2>2, <2>3, <2>4, GoodPlayerChanged
<1> QED BY <1>11, <1>12, <1>13, ChangesSent

\* A player in the pipeline or not, that is sent nothing until it joins again.
LEMMA SetAside ==
  ASSUME IInv, SentInv, Explored, NEW r \in Roles, NEW p \in PlayerType,
         players[r].member # "out", p.member # "out", p.member # "in", p.format = players[r].format,
         p.pending = players[r].pending, p.faults = players[r].faults,
         p.lossy = players[r].lossy, p.sent = 0, ~p.open,
         p.member = "warm" => players[r].member \in {"in", "warm"}
  PROVE  /\ [State EXCEPT !.players[r] = p] \in StateType
         /\ Good([State EXCEPT !.players[r] = p], ops, {})
<1> DEFINE T == [State EXCEPT !.players[r] = p]
<1>1. State \in StateType /\ ops \in [1 .. Commits -> OpType] BY InvFacts
<1>2. /\ T \in StateType /\ T.stream = State.stream /\ T.keys = State.keys
      /\ T.unwound = State.unwound /\ T.players[r] = p
      /\ \A q \in Roles \ {r} : T.players[q] = State.players[q]
  BY <1>1, SetPlayer
<1> HIDE DEF T
<1>3. Faultless(players[r]) /\ GoodPlayer(State, ops, r) /\ Good(State, ops, {}) BY SentFacts
<1>4. Faultless(p) BY <1>3 DEF Faultless
<1>5. InPipeline(T, r) => InPipeline(State, r)
  BY <1>2, StateIs DEF InPipeline
<1>6. GoodPlayer(T, ops, r)
  <2>1. Waiting(T, r) <=> Waiting(State, r) BY <1>2, StateIs DEF Waiting
  <2> QED BY <1>2, <1>3, <1>5, <2>1, StateIs DEF GoodPlayer
<1>7. EasesPlayer(State, T, {}, {}, r) BY <1>2, <1>5, StateIs DEF EasesPlayer
<1>8. Good(T, ops, {})
  BY <1>1, <1>2, <1>3, <1>4, <1>6, <1>7, StateIs, GoodPlayerChanged
<1> QED BY <1>2, <1>8 DEF T

LEMMA LosesConnectionSent ==
  ASSUME IInv, SentInv, NEW r \in Roles, LosesConnection(r)
  PROVE  SentInv'
<1> DEFINE p == [players[r] EXCEPT !.member = "warm", !.open = FALSE, !.sent = 0]
           T == [State EXCEPT !.players[r] = p]
<1>1. players[r] \in PlayerType BY InvFacts
<1>2. /\ p \in PlayerType /\ p.member = "warm" /\ p.pending = players[r].pending
      /\ p.format = players[r].format /\ p.faults = players[r].faults
      /\ p.lossy = players[r].lossy /\ p.sent = 0 /\ ~p.open
  BY <1>1, EndFacts DEF PlayerType, Members
<1>3. Changes(T) /\ players[r].member = "in"
  BY StateIs DEF LosesConnection
<1> HIDE DEF p
<1>4. Explored BY <1>3 DEF Changes
<1>5. T \in StateType /\ Good(T, ops, {}) BY <1>2, <1>3, <1>4, SetAside
<1> HIDE DEF T
<1> QED BY <1>3, <1>5, ChangesSent

LEMMA ReconnectsSent ==
  ASSUME IInv, SentInv, NEW r \in Roles, Reconnects(r)
  PROVE  SentInv'
<1> DEFINE p == [players[r] EXCEPT !.member = "back"]
           T == [State EXCEPT !.players[r] = p]
<1>1. players[r] \in PlayerType /\ State \in StateType BY InvFacts
<1>2. players[r].member = "warm" BY DEF Reconnects
<1>3. Changes(T)
  <2>1. [State EXCEPT !.players[r].member = "back"] = T
    BY <1>1, StateIs DEF StateType
  <2> QED BY <2>1 DEF Reconnects
<1>4. Explored BY <1>3 DEF Changes
<1>5. Faultless(players[r]) BY <1>4, SentFacts
<1>6. /\ p \in PlayerType /\ p.member = "back" /\ p.pending = players[r].pending
      /\ p.format = players[r].format /\ p.faults = players[r].faults
      /\ p.lossy = players[r].lossy /\ p.sent = 0 /\ ~p.open
  BY <1>1, <1>2, <1>5 DEF PlayerType, Members, Faultless
<1> HIDE DEF p
<1>7. T \in StateType /\ Good(T, ops, {}) BY <1>2, <1>4, <1>6, SetAside
<1> HIDE DEF T
<1> QED BY <1>3, <1>7, ChangesSent

LEMMA SendsStateSent ==
  ASSUME IInv, SentInv, NEW r \in Roles, SendsState(r)
  PROVE  SentInv'
<1> DEFINE K == keys[players[r].format]
           awaited == K.phase = "catching" /\ \E w \in K.waiting : w[1] = r
           lossy == players[r].lossy \union IF awaited THEN {"filling"} ELSE {}
           p == [players[r] EXCEPT !.member = "in", !.lossy = lossy]
           S == [State EXCEPT !.players[r] = p]
           T == IF stream.stopped THEN S ELSE RoleJoin(S, r)
<1>1. players[r] \in PlayerType /\ State \in StateType /\ Sound(State) /\ now \in 0 .. MaxTime
      /\ ops \in [1 .. Commits -> OpType]
  BY InvFacts
<1>2. lossy \in SUBSET {"filling", "starved"}
  <2> HIDE DEF awaited
  <2> QED BY <1>1 DEF PlayerType
<1>3. Changes(T) /\ players[r].member = "back" BY StateIs, Zenon DEF SendsState
<1>4. lossy = {} => players[r].lossy = {} /\ ~awaited OBVIOUS
<1> HIDE DEF lossy
<1>5. /\ p \in PlayerType /\ p.pending = players[r].pending /\ p.started = players[r].started
      /\ p.open = players[r].open /\ p.member = "in" /\ p.format = players[r].format
      /\ p.sent = players[r].sent /\ p.faults = players[r].faults /\ p.lossy = lossy
  BY <1>1, <1>2 DEF PlayerType, Members
<1> HIDE DEF p
<1>6. Explored BY <1>3 DEF Changes
<1>7. Faultless(players[r]) /\ Good(State, ops, {}) BY <1>6, SentFacts
<1>8. p.sent = 0 /\ ~p.open /\ Faultless(p)
  BY <1>3, <1>4, <1>5, <1>7 DEF Faultless
<1>9. Ready(p) BY <1>5, <1>8 DEF Ready, Anew
<1>10. /\ S \in StateType /\ S.stream = State.stream /\ S.keys = State.keys
       /\ S.unwound = State.unwound /\ S.players[r] = p
       /\ \A q \in Roles \ {r} : S.players[q] = State.players[q]
  BY <1>1, <1>5, SetPlayer
<1>11. CASE stream.stopped
  <2>1. Idling(ops) BY <1>11 DEF IInv, DeferInv, Idling
  <2>2. keys[p.format].phase # "catching"
    <3>1. p.format \in Keys BY <1>5 DEF PlayerType
    <3> QED BY <1>1, <1>11, <3>1, StateIs DEF Sound, Caught
  <2> HIDE DEF S
  <2>3. GoodPlayer(S, ops, r)
    BY <1>5, <1>9, <1>10, <2>2, StateIs DEF GoodPlayer, Ready
  <2>4. Good(S, ops, {})
    BY <1>1, <1>5, <1>7, <1>8, <1>10, <2>1, <2>3, StateIs, GoodPlayerChanged
  <2>5. T = S BY <1>11
  <2> QED BY <1>3, <1>10, <2>4, <2>5, ChangesSent
<1>12. CASE ~stream.stopped
  <2> HIDE DEF S
  <2>1. Faultless(S.players[r]) /\ Ready(S.players[r]) BY <1>8, <1>9, <1>10
  <2>2. Good(S, ops, {r})
    <3>1. EasesPlayer(State, S, {}, {r}, r) BY DEF EasesPlayer
    <3>2. p.member # "out" /\ State.players[r].format = p.format BY <1>5, StateIs
    <3> QED BY <1>1, <1>7, <1>8, <1>10, <3>1, <3>2, GoodPlayerChanged
  <2>3. Good(RoleJoin(S, r), ops, {}) /\ RoleJoin(S, r) \in StateType
    <3>1. CASE Underway # {}
      <4>1. S.players[r].lossy = {} /\ S.keys[S.players[r].format].phase = "catching"
              => ~Waiting(S, r)
        BY <1>4, <1>5, <1>10, StateIs DEF Waiting
      <4> QED BY <1>1, <1>10, <2>1, <2>2, <3>1, <4>1, RoleJoinLater
    <3>2. CASE Underway = {}
      <4> DEFINE q == Joiner(p)
                 R == [State EXCEPT !.players[r] = q]
      <4>1. q \in PlayerType /\ ~q.pending /\ ~q.started BY <1>5, JoinerIs
      <4>2. Told(q) BY <4>1 DEF Told
      <4>3. Rejoining(S, r) = R
        <5> HIDE DEF q
        <5>1. Rejoining(S, r) = [S EXCEPT !.players[r] = q] BY <1>10 DEF Rejoining, q
        <5> QED BY <1>1, <5>1 DEF S, StateType
      <4> HIDE DEF q
      <4>4. Sound(R) BY <1>1, <4>1, <4>2, StateIs, PlayerSteps DEF Steps
      <4> QED BY <1>1, <1>10, <2>1, <2>2, <3>2, <4>3, <4>4, RoleJoinNow
    <3> QED BY <3>1, <3>2
  <2> DEFINE U == RoleJoin(S, r)
  <2>4. U \in StateType /\ Good(U, ops, {}) /\ Changes(U) BY <1>3, <1>12, <2>3
  <2> HIDE DEF U
  <2> QED BY <2>4, ChangesSent
<1> QED BY <1>11, <1>12

-----------------------------------------------------------------------------
(* The ends of a stream.                                                       *)

LEMMA CancelledMore ==
  ASSUME NEW S \in StateType, NEW k \in Keys
  PROVE  /\ CancelledKey(S, k).cache = S.keys[k].cache
         /\ ~CancelledKey(S, k).spoiled => CancelledKey(S, k).held = 0
<1> DEFINE K == S.keys[k]
           W == Without(K)
           used == \E r \in Roles : InPipeline(S, r) /\ S.players[r].format = k
           held == IF used THEN 0 ELSE K.held
           spoiled == K.spoiled \/ (~used /\ K.held # 0)
           T == [W EXCEPT !.last = 0, !.held = held, !.spoiled = spoiled]
<1>1. K \in KeyType BY Naturals
<1>2. W \in KeyType /\ W.cache = K.cache BY <1>1, WithoutFacts
<1>3. CancelledKey(S, k) = T BY Zenon DEF CancelledKey
<1>4. ~spoiled => held = 0 OBVIOUS
<1> HIDE DEF held, spoiled, W, K
<1>5. T.cache = W.cache /\ T.held = held /\ T.spoiled = spoiled BY <1>2 DEF KeyType
<1> QED BY <1>2, <1>3, <1>4, <1>5 DEF K

\* Nothing in progress, no format in use and no player sent anything.
LEMMA StillGood ==
  ASSUME NEW S \in StateType, NEW o, Idling(o), S.stream.pcm = {},
         \A k \in Keys : /\ S.keys[k].phase = "none" /\ S.keys[k].waiting = {}
                         /\ ~S.keys[k].owned /\ S.keys[k].last = 0 /\ S.keys[k].held = 0
                         /\ Rising(S.keys[k].cache)
                         /\ FitsAll(S.keys[k], S.stream.tail, S.keys[k].cache),
         \A r \in Roles : Faultless(S.players[r]) /\ S.players[r].sent = 0
  PROVE  Good(S, o, {})
<1>1. GoodStream(S) BY DEF GoodStream
<1>2. ASSUME NEW k \in Keys PROVE GoodKey(S, k) /\ GoodCache(S, o, k)
  <2>1. KeyGood(S.keys[k], S.stream.tail) BY Naturals DEF KeyGood
  <2>2. GoodCache(S, o, k) BY IdlingOp DEF GoodCache
  <2> QED BY <2>1, <2>2 DEF GoodKey, WaitersGood
<1>3. \A r \in Roles : GoodPlayer(S, o, r) BY Naturals DEF GoodPlayer, Anew
<1>4. \A i \in 1 .. Commits : OpGood(S, o[i], {}) BY IdlingOp
<1> QED BY <1>1, <1>2, <1>3, <1>4 DEF Good

LEMMA VoidedSent ==
  ASSUME IInv, SentInv, Explored, Voided, NEW T \in StateType, Becomes(T), queue' = queue,
         \A r \in Roles : Faultless(T.players[r]),
         (\A k \in Keys : ~T.keys[k].spoiled) /\ Idling(ops') => Good(T, ops', {})
  PROVE  SentInv'
<1>1. State' = T /\ keys' = T.keys /\ players' = T.players BY BecomesIs
<1>2. \A i \in 1 .. Commits : /\ ops'[i].stage = ops[i].stage /\ ops'[i].kind = ops[i].kind
                              /\ ops'[i].stage # "none" => ~ops'[i].live
  BY VoidFacts
<1>3. Idling(ops') BY <1>2 DEF Idling
<1>4. Explored' => Good(State', ops', {}) BY <1>1, <1>3 DEF Explored
<1>5. InOrder(ops', queue')
  <2>1. \A n \in 1 .. Len(queue) : queue[n] \in 1 .. Commits /\ ops[queue[n]].stage # "none"
    BY Elements DEF IInv, QueueInv, TypesInv, Past
  <2>2. \A n \in 1 .. Len(queue) : ~ops'[queue[n]].live BY <1>2, <2>1
  <2>3. \A i \in 1 .. Commits : ~(ops'[i].live /\ ops'[i].stage = "yield") BY <1>2
  <2>4. \A i \in 1 .. Commits : ops'[i].stage = "none" => ops'[i].kind = "commit"
    BY <1>2, SentFacts DEF InOrder
  <2> QED BY <2>2, <2>3, <2>4 DEF InOrder
<1> QED BY <1>1, <1>4, <1>5 DEF SentInv

LEMMA CancelledFaultless ==
  ASSUME NEW p \in PlayerType, Faultless(p)
  PROVE  Faultless(CancelledPlayer(p)) /\ CancelledPlayer(p).sent = 0
BY CancelledPlayerFacts DEF Faultless

LEMMA ClearSent ==
  ASSUME IInv, SentInv, Clear
  PROVE  SentInv'
<1> DEFINE C == Cancelled(State)
           st == [stream EXCEPT !.flush = "no", !.tail = 0, !.pcm = {}]
           none == <<>>
           ks == [k \in Keys |-> [C.keys[k] EXCEPT !.cache = none]]
           T == [C EXCEPT !.stream = st, !.keys = ks]
<1>0. Explored BY DEF Clear, Turned
<1>1. State \in StateType /\ Sound(State) /\ stream \in StreamType BY InvFacts
<1>2. /\ C \in StateType /\ C.stream = stream
      /\ \A r \in Roles : C.players[r] = CancelledPlayer(players[r])
      /\ \A k \in Keys : C.keys[k] = CancelledKey(State, k)
  BY <1>1, CancelledFacts, StateIs
<1>3. st \in StreamType /\ st.tail = 0 /\ st.pcm = {} BY <1>1, EndFacts DEF StreamType
<1>4. none \in Seq(Label) /\ Len(none) = 0 BY EndFacts
<1>5. Voided /\ queue' = queue /\ Becomes(T)
  <2> DEFINE S == [C EXCEPT !.stream = [C.stream EXCEPT !.flush = "no", !.tail = 0, !.pcm = {}]]
  <2>1. Becomes([S EXCEPT !.keys = [k \in Keys |-> [S.keys[k] EXCEPT !.cache = <<>>]]])
    BY DEF Clear
  <2>2. S = [C EXCEPT !.stream = st] BY <1>2
  <2> HIDE DEF C, st
  <2>3. S.keys = C.keys BY <1>2, <2>2 DEF StateType
  <2>4. Becomes([S EXCEPT !.keys = ks]) BY <2>1, <2>3
  <2> HIDE DEF S, ks
  <2>5. [S EXCEPT !.keys = ks] = T BY <1>2, <2>2 DEF StateType
  <2>6. Becomes(T) BY <2>4, <2>5
  <2> QED BY <2>6 DEF Clear
<1> HIDE DEF C, st, none
<1>6. ASSUME NEW k \in Keys
      PROVE  /\ ks[k] \in KeyType /\ ks[k].phase = "none" /\ ks[k].waiting = {}
             /\ ~ks[k].owned /\ ks[k].last = 0 /\ ks[k].cache = none
             /\ ~ks[k].spoiled => ks[k].held = 0
  <2> DEFINE K == C.keys[k]
  <2>1. /\ K \in KeyType /\ K.phase = "none" /\ K.waiting = {} /\ ~K.owned /\ K.last = 0
        /\ ~K.spoiled => K.held = 0
    BY <1>1, <1>2, CancelledKeyFacts, CancelledMore DEF Sound
  <2>2. ks[k] = [K EXCEPT !.cache = none] OBVIOUS
  <2> HIDE DEF K, ks
  <2>3. K \in KeyType /\ none \in Seq(Label) BY <1>4, <2>1
  <2> DEFINE L == [K EXCEPT !.cache = none]
  <2>4. /\ L \in KeyType /\ L.phase = K.phase /\ L.waiting = K.waiting /\ L.owned = K.owned
        /\ L.last = K.last /\ L.cache = none /\ L.held = K.held /\ L.spoiled = K.spoiled
    BY <2>3, CacheSet
  <2> HIDE DEF L
  <2>5. ks[k] = L BY <2>2 DEF L
  <2> QED BY <2>1, <2>4, <2>5
<1>7. ks \in [Keys -> KeyType] BY <1>6
<1> HIDE DEF ks
<1>8. T \in StateType /\ T.keys = ks /\ T.stream = st /\ T.players = C.players
  BY <1>2, <1>3, <1>7 DEF StateType
<1> HIDE DEF T
<1>9. \A r \in Roles : Faultless(T.players[r]) /\ T.players[r].sent = 0
  BY <1>2, <1>8, InvFacts, CancelledFaultless DEF SentInv
<1>10. ASSUME \A k \in Keys : ~T.keys[k].spoiled, Idling(ops') PROVE Good(T, ops', {})
  <2>1. \A k \in Keys : /\ T.keys[k].phase = "none" /\ T.keys[k].waiting = {}
                        /\ ~T.keys[k].owned /\ T.keys[k].last = 0 /\ T.keys[k].held = 0
                        /\ Len(T.keys[k].cache) = 0
    BY <1>4, <1>6, <1>8, <1>10
  <2>2. \A k \in Keys : Rising(T.keys[k].cache)
    BY <2>1 DEF Rising
  <2>3. \A k \in Keys : FitsAll(T.keys[k], T.stream.tail, T.keys[k].cache)
    BY <2>1 DEF FitsAll
  <2> QED BY <1>3, <1>8, <1>9, <1>10, <2>1, <2>2, <2>3, StillGood
<1> QED BY <1>5, <1>8, <1>9, <1>10, <1>0, VoidedSent

LEMMA StopSent ==
  ASSUME IInv, SentInv, Stop
  PROVE  SentInv'
<1> DEFINE C == Cancelled(State)
           st == [stream EXCEPT !.stopped = TRUE, !.pcm = {}]
           ps == [r \in Roles |-> [C.players[r] EXCEPT !.open = @ /\ C.players[r].member # "in"]]
           T == [C EXCEPT !.stream = st, !.players = ps]
<1>0. Explored BY DEF Stop, Turned
<1>1. State \in StateType /\ Sound(State) /\ stream \in StreamType BY InvFacts
<1>2. /\ C \in StateType /\ C.stream = stream
      /\ \A r \in Roles : C.players[r] = CancelledPlayer(players[r])
      /\ \A k \in Keys : C.keys[k] = CancelledKey(State, k)
  BY <1>1, CancelledFacts, StateIs
<1>3. st \in StreamType /\ st.tail = stream.tail /\ st.pcm = {} BY <1>1 DEF StreamType
<1>4. Voided /\ queue' = queue /\ Becomes(T) /\ Explored
  <2> DEFINE S == [C EXCEPT !.stream = [C.stream EXCEPT !.stopped = TRUE, !.pcm = {}]]
  <2>1. Becomes([S EXCEPT !.players = [r \in Roles |->
                   [S.players[r] EXCEPT !.open = S.players[r].open /\ S.players[r].member # "in"]]])
    BY DEF Stop
  <2>2. S = [C EXCEPT !.stream = st] BY <1>2
  <2> HIDE DEF C, st
  <2>3. S.players = C.players BY <1>2, <2>2 DEF StateType
  <2> HIDE DEF S
  <2>4. Becomes([S EXCEPT !.players = ps])
    <3>1. ps = [r \in Roles |->
                  [C.players[r] EXCEPT !.open = C.players[r].open /\ C.players[r].member # "in"]]
      OBVIOUS
    <3> QED BY <2>1, <2>3, <3>1
  <2> HIDE DEF ps
  <2>5. [S EXCEPT !.players = ps] = T BY <1>2, <2>2 DEF StateType
  <2>6. Becomes(T) BY <2>4, <2>5
  <2> QED BY <2>6 DEF Stop, Turned
<1> HIDE DEF C, st
<1>5. ASSUME NEW r \in Roles
      PROVE  ps[r] \in PlayerType /\ Faultless(ps[r]) /\ ps[r].sent = 0
  <2> DEFINE p == C.players[r]
             b == p.open /\ p.member # "in"
  <2>1. p \in PlayerType /\ Faultless(p) /\ p.sent = 0 /\ b \in BOOLEAN
    BY <1>2, InvFacts, CancelledPlayerFacts, CancelledFaultless DEF SentInv
  <2>2. b => p.open OBVIOUS
  <2>3. ps[r] = [p EXCEPT !.open = b] OBVIOUS
  <2> HIDE DEF p, b, ps
  <2>4. /\ ps[r] \in PlayerType /\ ps[r].sent = 0 /\ ps[r].faults = p.faults
        /\ ps[r].lossy = p.lossy /\ ps[r].member = p.member /\ ps[r].pending = p.pending
        /\ ps[r].open = b
    BY <2>1, <2>3 DEF PlayerType
  <2> QED BY <2>1, <2>2, <2>4 DEF Faultless
<1>6. ps \in [Roles -> PlayerType] BY <1>5
<1> HIDE DEF ps
<1>7. T \in StateType /\ T.keys = C.keys /\ T.stream = st /\ T.players = ps
  BY <1>2, <1>3, <1>6 DEF StateType
<1> HIDE DEF T
<1>8. ASSUME \A k \in Keys : ~T.keys[k].spoiled, Idling(ops') PROVE Good(T, ops', {})
  <2>1. ASSUME NEW k \in Keys
        PROVE  /\ T.keys[k].phase = "none" /\ T.keys[k].waiting = {}
               /\ ~T.keys[k].owned /\ T.keys[k].last = 0 /\ T.keys[k].held = 0
               /\ T.keys[k].cache = keys[k].cache
    BY <1>1, <1>2, <1>7, <1>8, StateIs, CancelledKeyFacts, CancelledMore DEF Sound
  <2>2. \A k \in Keys : KeyGood(keys[k], stream.tail)
    BY <1>4, SentFacts, StateIs DEF GoodKey
  <2>3. \A k \in Keys : Rising(T.keys[k].cache) BY <2>1, <2>2 DEF KeyGood
  <2>4. \A k \in Keys : FitsAll(T.keys[k], T.stream.tail, T.keys[k].cache)
    BY <1>3, <1>7, <2>1, <2>2 DEF KeyGood, FitsAll, Fits
  <2> QED BY <1>3, <1>5, <1>7, <1>8, <2>1, <2>3, <2>4, StillGood
<1> QED BY <1>0, <1>4, <1>5, <1>7, <1>8, VoidedSent

-----------------------------------------------------------------------------
(* A cancelled catch-up unwinds.                                               *)

LEMMA UnwoundMore ==
  ASSUME NEW K \in KeyType, K.phase # "live"
  PROVE  /\ Unwound(K).phase = "none" /\ Unwound(K).waiting = {}
         /\ Unwound(K).held = 0 /\ Unwound(K).last = 0 /\ Len(Unwound(K).cache) = 0
         /\ Unwound(K).spoiled <=> K.spoiled \/ K.owned
<1> DEFINE F == Fresh(K)
           none == <<>>
           spoiled == K.spoiled \/ K.owned
           T == [F EXCEPT !.phase = "none", !.waiting = {}, !.cache = none, !.owned = FALSE,
                          !.spoiled = spoiled]
<1>1. F \in KeyType /\ F.held = 0 /\ F.last = 0 BY FreshFacts
<1>2. none \in Seq(Label) /\ spoiled \in BOOLEAN /\ Len(none) = 0 OBVIOUS
<1>3. Unwound(K) = T BY DEF Unwound
<1> HIDE DEF F, none, spoiled
<1>4. /\ T.phase = "none" /\ T.waiting = {} /\ T.held = F.held /\ T.last = F.last
      /\ T.cache = none /\ T.spoiled = spoiled
  BY <1>1, <1>2 DEF KeyType
<1> QED BY <1>1, <1>2, <1>3, <1>4 DEF spoiled

LEMMA CleanedUpGood ==
  ASSUME NEW S \in StateType, Sound(S), NEW o \in [1 .. Commits -> OpType], Good(S, o, {}),
         NEW k \in S.unwound, k \in Keys, ~CleanedUp(S, k).keys[k].spoiled
  PROVE  Good(CleanedUp(S, k), o, {})
<1> DEFINE K == S.keys[k]
           L == Unwound(K)
           R == [S EXCEPT !.unwound = S.unwound \ {k}]
           T == [R EXCEPT !.keys[k] = L]
           tail == S.stream.tail
<1>1. K \in KeyType /\ Caught(K) /\ tail \in Nat BY Naturals DEF Sound
<1>2. GoodKey(S, k) /\ K.phase # "live" BY DEF Good, GoodKey
<1>3. CleanedUp(S, k) = T BY DEF CleanedUp, Unwound, StateType
<1>4. L \in KeyType /\ ~L.owned BY <1>1, UnwoundFacts
<1>5. /\ L.phase = "none" /\ L.waiting = {} /\ L.held = 0 /\ L.last = 0
      /\ Len(L.cache) = 0
      /\ L.spoiled <=> K.spoiled \/ K.owned
  BY <1>1, <1>2, UnwoundMore
<1>6. /\ R \in StateType /\ R.stream = S.stream /\ R.keys = S.keys /\ R.players = S.players
      /\ R.unwound = S.unwound \ {k}
  BY DEF StateType
<1> HIDE DEF R, K, L
<1>7. /\ T \in StateType /\ T.stream = S.stream /\ T.players = S.players
      /\ T.unwound = S.unwound \ {k} /\ T.keys[k] = L
      /\ \A j \in Keys \ {k} : T.keys[j] = S.keys[j]
  BY <1>4, <1>6, SetKey
<1> HIDE DEF T
<1>8. K.phase # "catching" BY <1>1, <1>3, <1>5, <1>7 DEF Caught
<1>9. EasesKey(K, L) BY <1>1, <1>4, <1>5, Naturals DEF EasesKey, K
<1>10. GoodKey(T, k)
  <2>1. KeyGood(L, tail) BY <1>1, <1>5 DEF KeyGood, Rising, FitsAll
  <2> QED BY <1>5, <1>7, <2>1 DEF GoodKey, WaitersGood, tail
<1>11. GoodCache(T, o, k) BY <1>5, <1>7 DEF GoodCache
<1>12. ASSUME NEW r \in Roles, S.players[r].format = k PROVE GoodPlayer(T, o, r)
  <2>1. GoodPlayer(S, o, r) BY DEF Good
  <2>2. Abreast(S, o, r) => Abreast(T, o, r)
    <3> SUFFICES ASSUME Abreast(S, o, r) PROVE Abreast(T, o, r) OBVIOUS
    <3> DEFINE s == S.players[r].sent
    <3>1. ~S.players[r].pending /\ Fits(K, tail, s) /\ Clears(K.last, o, k, s) /\ Later(o, s)
      BY <1>12 DEF Abreast, K
    <3>2. Fits(L, tail, s) BY <1>5, <3>1 DEF Fits
    <3>3. Clears(L.last, o, k, s) BY <3>1 DEF Clears, Later
    <3> QED BY <1>5, <1>7, <1>12, <3>1, <3>2, <3>3 DEF Abreast, tail
  <2> QED BY <1>5, <1>7, <1>12, <2>1, <2>2 DEF GoodPlayer
<1>13. Good(T, o, {})
  BY <1>4, <1>7, <1>9, <1>10, <1>11, <1>12, GoodKeyChanged DEF K
<1> QED BY <1>3, <1>13

LEMMA CatchupUnwindsSent ==
  ASSUME IInv, SentInv, NEW k \in Keys, CatchupUnwinds(k)
  PROVE  SentInv'
<1> DEFINE T == CleanedUp(State, k)
<1>1. Explored /\ k \in unwound /\ Becomes(T) /\ UNCHANGED <<ops, queue>>
  BY DEF CatchupUnwinds
<1>2. State \in StateType /\ Sound(State) /\ ops \in [1 .. Commits -> OpType] BY InvFacts
<1>3. T \in StateType BY <1>2, CleanedUpSteps
<1>4. State' = T /\ players' = T.players /\ keys' = T.keys BY <1>1, <1>3, BecomesIs
<1>5. T.players = players
  <2>1. T.players = State.players BY <1>2 DEF CleanedUp, StateType
  <2> QED BY <2>1, StateIs
<1>6. Explored' => Good(T, ops, {})
  <2> SUFFICES ASSUME ~keys'[k].spoiled PROVE Good(T, ops, {}) BY DEF Explored
  <2>1. Good(State, ops, {}) /\ k \in State.unwound BY <1>1, SentFacts, StateIs
  <2> QED BY <1>2, <1>4, <2>1, CleanedUpGood
<1> HIDE DEF T
<1>7. Explored' => Good(State', ops', {}) /\ InOrder(ops', queue')
  BY <1>1, <1>4, <1>6, SentFacts
<1>8. \A r \in Roles : Faultless(players'[r]) BY <1>4, <1>5 DEF SentInv
<1> QED BY <1>7, <1>8 DEF SentInv

-----------------------------------------------------------------------------
(* Catching up.                                                                *)

LEMMA Joined ==
  ASSUME NEW q \in Seq(Label), NEW s \in Seq(Label)
  PROVE  /\ q \o s \in Seq(Label) /\ Len(q) \in Nat /\ Len(s) \in Nat
         /\ Len(q \o s) = Len(q) + Len(s)
         /\ \A n \in 1 .. Len(q) : q[n] \in Nat /\ (q \o s)[n] = q[n]
         /\ \A n \in 1 .. Len(s) : s[n] \in Nat
         /\ \A n \in 1 .. Len(q \o s) :
              \/ n \in 1 .. Len(q) /\ (q \o s)[n] = q[n]
              \/ n - Len(q) \in 1 .. Len(s) /\ (q \o s)[n] = s[n - Len(q)]
<1>1. /\ q \o s \in Seq(Label) /\ Len(q) \in Nat /\ Len(s) \in Nat
      /\ Len(q \o s) = Len(q) + Len(s)
      /\ \A n \in 1 .. Len(q) : (q \o s)[n] = q[n]
      /\ \A n \in 1 .. Len(q \o s) :
           \/ n \in 1 .. Len(q) /\ (q \o s)[n] = q[n]
           \/ n - Len(q) \in 1 .. Len(s) /\ (q \o s)[n] = s[n - Len(q)]
  OBVIOUS
<1>2. /\ \A n \in 1 .. Len(q) : q[n] \in Nat
      /\ \A n \in 1 .. Len(s) : s[n] \in Nat
  BY Elements, EndFacts
<1> QED BY <1>1, <1>2

LEMMA RisingJoined ==
  ASSUME NEW q \in Seq(Label), NEW s \in Seq(Label), Rising(q), Rising(s),
         \A m \in 1 .. Len(q), n \in 1 .. Len(s) : q[m] < s[n]
  PROVE  Rising(q \o s)
<1> SUFFICES ASSUME NEW m \in 1 .. Len(q \o s), NEW n \in 1 .. Len(q \o s), m < n
             PROVE  (q \o s)[m] < (q \o s)[n]
  BY DEF Rising
<1>1. \/ m \in 1 .. Len(q) /\ (q \o s)[m] = q[m]
      \/ m - Len(q) \in 1 .. Len(s) /\ (q \o s)[m] = s[m - Len(q)]
  BY Joined
<1>2. \/ n \in 1 .. Len(q) /\ (q \o s)[n] = q[n]
      \/ n - Len(q) \in 1 .. Len(s) /\ (q \o s)[n] = s[n - Len(q)]
  BY Joined
<1>3. Len(q) \in Nat /\ Len(q \o s) \in Nat BY Joined
<1>4. CASE m \in 1 .. Len(q) /\ (q \o s)[m] = q[m]
  BY <1>2, <1>4 DEF Rising
<1>5. CASE m - Len(q) \in 1 .. Len(s) /\ (q \o s)[m] = s[m - Len(q)]
  <2>1. n \notin 1 .. Len(q) BY <1>3, <1>5
  <2>2. n - Len(q) \in 1 .. Len(s) /\ (q \o s)[n] = s[n - Len(q)] BY <1>2, <2>1
  <2>3. m - Len(q) < n - Len(q) BY <1>3
  <2> QED BY <1>5, <2>2, <2>3 DEF Rising
<1> QED BY <1>1, <1>4, <1>5

LEMMA FitsJoined ==
  ASSUME NEW K, NEW tail, NEW q \in Seq(Label), NEW s \in Seq(Label),
         FitsAll(K, tail, q), FitsAll(K, tail, s)
  PROVE  FitsAll(K, tail, q \o s)
BY Joined DEF FitsAll

\* What a format has cached comes before the end of its input.
Filled(K, tail) ==
  /\ K.held # 0 => K.last = K.held + 1
  /\ K.last <= tail
  /\ Rising(K.cache)
  /\ FitsAll(K, tail, K.cache)
  /\ \A n \in 1 .. Len(K.cache) : K.cache[n] < K.last

\* A catch-up with its batch cached.
Between(K, tail) ==
  /\ Filled(K, tail)
  /\ K.task.todo = {} /\ K.task.got = <<>>
  /\ \A x \in Label : Known(K, x) => K.task.target <= x /\ x < K.task.src
  /\ K.task.target <= K.task.src /\ K.task.src <= tail
  /\ K.cache # <<>> => K.task.enc > K.task.target

LEMMA HandedFilled ==
  ASSUME NEW S \in StateType, NEW k \in Keys, Filled(S.keys[k], S.stream.tail)
  PROVE  /\ KeyGood(HandedKey(S, k), S.stream.tail)
         /\ \A n \in 1 .. Len(HandedKey(S, k).cache) :
              HandedKey(S, k).cache[n] < HandedKey(S, k).last
<1> DEFINE K == S.keys[k]
           H == HandedKey(S, k)
           rest == HandedTail(S, k)
           tail == S.stream.tail
<1>1. /\ K \in KeyType /\ tail \in Nat /\ K.last \in Nat /\ K.held \in Nat
      /\ K.cache \in Seq(Label)
  BY Naturals DEF KeyType
<1>2. /\ rest \in Seq(Label) /\ H \in KeyType /\ H.phase = "live"
      /\ H.cache = K.cache \o rest
      /\ H.held = IF rest = <<>> THEN K.held ELSE 0
      /\ H.last = K.last
  BY HandedKeyFacts
<1>3. rest = <<>> \/ (K.held # 0 /\ rest = <<K.held>>) BY DEF HandedTail
<1>4. Filled(K, tail) OBVIOUS
<1>5. \A n \in 1 .. Len(K.cache) : K.cache[n] \in Nat BY <1>1, Elements, EndFacts
<1> HIDE DEF H, rest, K, tail
<1>6. CASE rest = <<>>
  <2>1. H.cache = K.cache /\ H.held = K.held BY <1>1, <1>2, <1>6
  <2> QED BY <1>2, <1>4, <2>1 DEF Filled, KeyGood, FitsAll, Fits, H, tail
<1>7. CASE K.held # 0 /\ rest = <<K.held>>
  <2>1. Len(rest) = 1 /\ rest[1] = K.held /\ H.held = 0 BY <1>2, <1>7
  <2>2. \A n \in 1 .. Len(K.cache) : K.cache[n] + 1 <= K.held
    BY <1>4, <1>7 DEF Filled, FitsAll, Fits
  <2>3. Rising(H.cache)
    <3>1. Rising(rest) BY <2>1 DEF Rising
    <3>2. \A m \in 1 .. Len(K.cache), n \in 1 .. Len(rest) : K.cache[m] < rest[n]
      BY <1>1, <1>5, <2>1, <2>2
    <3>3. Rising(K.cache) BY <1>4 DEF Filled
    <3> QED BY <1>1, <1>2, <3>1, <3>2, <3>3, RisingJoined
  <2>4. K.last = K.held + 1 /\ K.last <= tail BY <1>4, <1>7 DEF Filled
  <2>5. FitsAll(H, tail, H.cache)
    <3>1. FitsAll(H, tail, rest) BY <1>1, <2>1, <2>4 DEF FitsAll, Fits
    <3>2. FitsAll(H, tail, K.cache) BY <1>4, <2>1 DEF Filled, FitsAll, Fits
    <3> QED BY <1>1, <1>2, <3>1, <3>2, FitsJoined
  <2>6. ASSUME NEW n \in 1 .. Len(H.cache) PROVE H.cache[n] < H.last
    <3>1. \/ n \in 1 .. Len(K.cache) /\ H.cache[n] = K.cache[n]
          \/ n - Len(K.cache) \in 1 .. Len(rest) /\ H.cache[n] = rest[n - Len(K.cache)]
      BY <1>1, <1>2, Joined
    <3>2. CASE n \in 1 .. Len(K.cache) /\ H.cache[n] = K.cache[n]
      BY <1>2, <1>4, <3>2 DEF Filled
    <3>3. CASE n - Len(K.cache) \in 1 .. Len(rest) /\ H.cache[n] = rest[n - Len(K.cache)]
      <4>1. n - Len(K.cache) = 1 BY <2>1, <3>3
      <4> QED BY <1>1, <1>2, <2>1, <2>4, <3>3, <4>1
    <3> QED BY <3>1, <3>2, <3>3
  <2>7. KeyGood(H, tail) BY <1>2, <2>1, <2>3, <2>4, <2>5 DEF KeyGood
  <2> QED BY <2>6, <2>7 DEF H, tail
<1> QED BY <1>3, <1>6, <1>7

\* A player that the catch-up was for.
LEMMA HandedSent ==
  ASSUME NEW S \in StateType, NEW k \in Keys, now \in Nat, NEW r \in Roles,
         \E w \in S.keys[k].waiting : w[1] = r,
         Faultless(S.players[r]), S.players[r].member # "out",
         S.players[r].lossy = {} /\ S.players[r].member = "in" => Anew(S.players[r]),
         Rising(HandedKey(S, k).cache)
  PROVE  GotCached(S.players[r], HandedPlayer(S, k, r), HandedKey(S, k).cache)
<1> DEFINE p == S.players[r]
           w == CHOOSE w \in S.keys[k].waiting : w[1] = r
           low == HandedFrom(S, k, w)
           cached == S.keys[k].cache \o HandedTail(S, k)
<1>1. p \in PlayerType /\ p.resume \in Nat /\ S.keys[k] \in KeyType BY Naturals
<1>2. w \in S.keys[k].waiting /\ w[1] = r OBVIOUS
<1>3. HandedPlayer(S, k, r) = ReceiveCached(p, cached, low, S.stream.pcm) BY DEF HandedPlayer
<1>4. HandedKey(S, k).cache = cached /\ cached \in Seq(Label) BY HandedKeyFacts
<1>5. w[2] \in Nat
  <2>1. w \in Roles \X (0 .. MaxTime + Lead) BY <1>1, <1>2 DEF KeyType
  <2> QED BY <2>1, EndFacts
<1>6. S.keys[k].task.target \in Nat BY <1>1, EndFacts DEF KeyType, TaskType
<1> HIDE DEF w
<1>7. low \in Nat /\ (p.resume # 0 => low = p.resume) BY <1>1, <1>2, <1>5, <1>6 DEF HandedFrom
<1> HIDE DEF low, cached
<1>8. Rising(cached) BY <1>4
<1>9. GotCached(p, ReceiveCached(p, cached, low, S.stream.pcm), cached)
  BY <1>1, <1>4, <1>7, <1>8, CachedSent
<1> QED BY <1>3, <1>4, <1>9

\* S is T before its catch-up of k made progress.
Progressed(S, T, k) ==
  /\ S.unwound = {} /\ S.keys[k].phase = "catching" /\ S.keys[k].owned
  /\ T.stream = S.stream /\ T.players = S.players /\ T.unwound = S.unwound
  /\ \A j \in Keys \ {k} : T.keys[j] = S.keys[j]
  /\ T.keys[k].waiting = S.keys[k].waiting

\* While a format is caught up nothing in progress adds to it.
LEMMA CatchingClears ==
  ASSUME NEW S \in StateType, NEW o \in [1 .. Commits -> OpType], NEW X, Good(S, o, X),
         NEW k \in Keys, S.keys[k].phase = "catching", NEW last \in Nat, NEW s \in Nat,
         s <= last
  PROVE  Clears(last, o, k, s)
<1> SUFFICES ASSUME NEW i \in 1 .. Commits
             PROVE  /\ last <= o[i].ts => s <= o[i].ts
                    /\ o[i].live /\ o[i].stage = "deliver" => o[i].frames[k] = <<>>
  BY DEF Clears
<1>1. o[i].ts \in Nat BY EndFacts DEF OpType
<1>2. OpGood(S, o[i], X) BY DEF Good
<1>3. o[i].live /\ o[i].stage = "deliver" => Framed(S, o[i], k) BY <1>2 DEF OpGood
<1> QED BY <1>1, <1>3 DEF Framed

LEMMA HandoffGood ==
  ASSUME NEW S \in StateType, NEW T \in StateType, NEW o \in [1 .. Commits -> OpType],
         NEW k \in Keys, now \in Nat, Good(S, o, {}), Progressed(S, T, k), Running(T, k),
         Filled(T.keys[k], T.stream.tail)
  PROVE  Good(Handoff(T, k), o, {})
<1> DEFINE U == Handoff(T, k)
           H == HandedKey(T, k)
           tail == S.stream.tail
<1>1. /\ U \in StateType /\ U.stream = S.stream /\ U.unwound = {} /\ U.keys[k] = H
      /\ \A j \in Keys \ {k} : U.keys[j] = S.keys[j]
      /\ \A r \in Roles : U.players[r] = HandedPlayer(T, k, r)
  BY HandoffSteps DEF Progressed, Steps
<1>2. /\ H \in KeyType /\ H.phase = "live" /\ ~H.owned /\ H.waiting = S.keys[k].waiting
      /\ H.cache \in Seq(Label)
  BY HandedKeyFacts DEF Progressed, KeyType
<1>3. KeyGood(H, tail) /\ \A n \in 1 .. Len(H.cache) : H.cache[n] < H.last
  BY HandedFilled DEF Progressed
<1>4. ASSUME NEW r \in Roles
      PROVE  /\ U.players[r].member = S.players[r].member
             /\ U.players[r].format = S.players[r].format
             /\ U.players[r].pending = S.players[r].pending
             /\ U.players[r].lossy = S.players[r].lossy
  BY <1>1, HandedPlayerFacts DEF Hears, Progressed
<1> DEFINE waits(r) == \E w \in S.keys[k].waiting : w[1] = r
<1>5. ASSUME NEW r \in Roles, waits(r)
      PROVE  S.players[r].format = k /\ S.players[r].member # "out"
  BY <1>5 DEF Good, GoodKey, WaitersGood
<1>6. ASSUME NEW r \in Roles, waits(r)
      PROVE  GotCached(S.players[r], U.players[r], H.cache)
  <2>1. GoodPlayer(S, o, r) /\ Faultless(S.players[r]) BY DEF Good
  <2>2. ~Abreast(S, o, r) BY <1>5, <1>6 DEF Abreast, Progressed
  <2>3. S.players[r].lossy = {} /\ S.players[r].member = "in" => Anew(S.players[r])
    BY <2>1, <2>2 DEF GoodPlayer
  <2>4. Rising(H.cache) BY <1>3 DEF KeyGood
  <2>5. T.players[r] = S.players[r] /\ T.keys[k].waiting = S.keys[k].waiting
    BY DEF Progressed
  <2> QED BY <1>1, <1>5, <1>6, <2>1, <2>3, <2>4, <2>5, HandedSent
<1>7. ASSUME NEW r \in Roles, ~waits(r)
      PROVE  U.players[r] = S.players[r]
  BY <1>1, <1>7 DEF HandedPlayer, Progressed
<1> HIDE DEF U, H
<1>8. \A r \in Roles : Faultless(U.players[r])
  BY <1>6, <1>7 DEF Good, GotCached
<1>9. ASSUME NEW n \in 1 .. Len(H.cache)
      PROVE  Clears(H.last, o, k, H.cache[n] + 1) /\ Fits(H, tail, H.cache[n] + 1)
  <2>1. H.cache[n] \in Nat /\ H.last \in Nat BY <1>2, Elements, EndFacts DEF KeyType
  <2>2. H.cache[n] + 1 <= H.last BY <1>3, <2>1
  <2>3. S.keys[k].phase = "catching" BY DEF Progressed
  <2>4. H.cache[n] + 1 \in Nat BY <2>1
  <2>5. Clears(H.last, o, k, H.cache[n] + 1) BY <2>1, <2>2, <2>3, <2>4, CatchingClears
  <2> QED BY <1>3, <2>5 DEF KeyGood, FitsAll
<1>10. ASSUME NEW r \in Roles PROVE GoodPlayer(U, o, r)
  <2> SUFFICES ASSUME S.players[r].lossy = {} PROVE GoodPlayer(U, o, r)
    BY <1>4 DEF GoodPlayer
  <2>1. GoodPlayer(S, o, r) BY DEF Good
  <2>2. CASE S.players[r].format # k
    <3>1. ~waits(r) BY <1>5, <2>2
    <3>2. S.players[r].format \in Keys \ {k} BY <2>2, Naturals
    <3> QED BY <1>1, <1>7, <2>1, <3>1, <3>2, GoodPlayerKept
  <2>3. CASE S.players[r].format = k
    <3>1. ~Abreast(S, o, r) BY <2>3 DEF Abreast, Progressed
    <3>2. S.players[r].member = "in" => Anew(S.players[r]) BY <2>1, <3>1 DEF GoodPlayer
    <3> SUFFICES ASSUME S.players[r].member = "in"
                 PROVE  Anew(U.players[r]) \/ Abreast(U, o, r)
      BY <1>1, <1>2, <1>4, <2>3 DEF GoodPlayer
    <3>3. CASE ~waits(r) BY <1>7, <3>2, <3>3
    <3>4. CASE waits(r)
      <4>1. GotCached(S.players[r], U.players[r], H.cache) BY <1>6, <3>4
      <4>2. CASE U.players[r].sent = S.players[r].sent
        BY <3>2, <4>1, <4>2 DEF GotCached, Anew
      <4>3. CASE \E n \in 1 .. Len(H.cache) : U.players[r].sent = H.cache[n] + 1
        <5>1. InPipeline(S, r) /\ Waiting(S, r) BY <2>3, <3>4 DEF InPipeline, Waiting
        <5>2. ~S.players[r].pending BY <2>1, <2>3, <5>1 DEF GoodPlayer, Progressed
        <5> QED BY <1>1, <1>2, <1>4, <1>9, <2>3, <4>3, <5>2 DEF Abreast
      <4> QED BY <4>1, <4>2, <4>3 DEF GotCached
    <3> QED BY <3>3, <3>4
  <2> QED BY <2>2, <2>3
<1>11. ASSUME NEW j \in Keys PROVE GoodKey(U, j) /\ GoodCache(U, o, j)
  <2>1. GoodKey(S, j) /\ GoodCache(S, o, j) BY DEF Good
  <2>2. \A w \in S.keys[j].waiting : w[1] \in Roles BY Naturals DEF KeyType
  <2>3. CASE j # k
    <3>1. \A w \in S.keys[j].waiting : /\ U.players[w[1]].format = S.players[w[1]].format
                                       /\ U.players[w[1]].member # "out"
      BY <1>4, <2>1, <2>2 DEF GoodKey, WaitersGood
    <3>2. U.keys[j] = S.keys[j] /\ (j \in U.unwound <=> j \in S.unwound)
      BY <1>1, <2>3 DEF Progressed
    <3> QED BY <1>1, <2>1, <3>1, <3>2, GoodKeyKept
  <2>4. CASE j = k
    <3>1. WaitersGood(U, k) BY <1>1, <1>2, <1>4, <2>1, <2>2, <2>4 DEF GoodKey, WaitersGood
    <3>2. GoodCache(U, o, k) BY <1>1, <1>9 DEF GoodCache
    <3> QED BY <1>1, <1>3, <2>4, <3>1, <3>2 DEF GoodKey
  <2> QED BY <2>3, <2>4
<1>12. GoodStream(U) BY <1>1, <1>2 DEF Good, GoodStream
<1>13. ASSUME NEW i \in 1 .. Commits PROVE OpGood(U, o[i], {})
  <2>1. \A j \in Keys : EasesKey(S.keys[j], U.keys[j])
    BY <1>1, <1>2, Naturals DEF EasesKey, Progressed
  <2>2. \A r \in Roles : EasesPlayer(S, U, {}, {}, r) BY <1>4 DEF EasesPlayer, InPipeline
  <2>3. Eases(S, U, {}, {}) BY <1>1, <2>1, <2>2, Naturals DEF Eases
  <2> QED BY <1>1, <2>3, OpEases DEF Good
<1>14. Good(U, o, {}) BY <1>8, <1>10, <1>11, <1>12, <1>13 DEF Good
<1> QED BY <1>14 DEF U

\* The catch-up goes on.
LEMMA CatchingGood ==
  ASSUME NEW S \in StateType, NEW T \in StateType, NEW o \in [1 .. Commits -> OpType],
         NEW k \in Keys, Good(S, o, {}), Progressed(S, T, k),
         T.keys[k].phase = "catching", T.keys[k].owned,
         KeyGood(T.keys[k], T.stream.tail)
  PROVE  Good(T, o, {})
<1>1. GoodKey(S, k) BY DEF Good
<1>2. GoodKey(T, k)
  BY <1>1 DEF Progressed, GoodKey, WaitersGood
<1>3. GoodCache(T, o, k) BY DEF GoodCache
<1>4. ASSUME NEW r \in Roles, S.players[r].format = k PROVE GoodPlayer(T, o, r)
  <2>1. GoodPlayer(S, o, r) BY DEF Good
  <2>2. ~Abreast(S, o, r) BY <1>4 DEF Abreast, Progressed
  <2>3. Waiting(T, r) <=> Waiting(S, r) BY <1>4 DEF Waiting, Progressed
  <2>4. InPipeline(T, r) <=> InPipeline(S, r) BY DEF InPipeline, Progressed
  <2> QED BY <1>4, <2>1, <2>2, <2>3, <2>4 DEF GoodPlayer, Progressed
<1>5. EasesKey(S.keys[k], T.keys[k]) BY DEF EasesKey, Progressed
<1>6. S.stream.tail = 0 => ~T.keys[k].owned BY DEF Good, GoodStream, Progressed
<1>7. /\ T.stream = S.stream /\ T.players = S.players
      /\ \A j \in Keys \ {k} : T.keys[j] = S.keys[j] /\ (j \in T.unwound <=> j \in S.unwound)
  BY DEF Progressed
<1> QED BY <1>2, <1>3, <1>4, <1>5, <1>6, <1>7, GoodKeyChanged

LEMMA RefilledGood ==
  ASSUME NEW K \in KeyType, NEW tail \in Nat, Between(K, tail), NEW todo \in SUBSET Chunk,
         todo # {}, \A m \in todo : m < tail /\ m + 1 > K.task.src,
         Max(todo) \in todo, Max(todo) + 1 \in Instant, \A m \in todo : m < Max(todo) + 1
  PROVE  KeyGood(NewBatch(K, todo), tail)
<1> DEFINE L == NewBatch(K, todo)
           src == Max(todo) + 1
<1>1. /\ L.task.todo = todo /\ L.task.src = src /\ ~L.task.waiting
      /\ L.task.got = K.task.got /\ L.task.enc = K.task.enc
      /\ L.task.target = K.task.target
      /\ L.held = K.held /\ L.last = K.last /\ L.cache = K.cache
  BY NewBatchFacts
<1>2. K.task.src \in Nat /\ K.task.target \in Nat BY EndFacts DEF KeyType, TaskType
<1>3. \A m \in todo : m \in Nat /\ K.task.src <= m /\ m < src BY <1>2, EndFacts
<1>4. src \in Nat /\ K.task.src < src /\ src <= tail BY <1>2, <1>3
<1> HIDE DEF L, src
<1>5. \A x \in Label : Known(L, x) => Known(K, x) BY <1>1 DEF Known
<1>6. \A x \in Label : Known(L, x) =>
        K.task.target <= x /\ x < K.task.src
  BY <1>5 DEF Between
<1>7. \A x \in Label : Known(L, x) =>
        L.task.target <= x /\ x < L.task.src /\ \A m \in L.task.todo : x < m
  BY <1>1, <1>2, <1>3, <1>4, <1>6, EndFacts
<1>8. L.task.target <= L.task.src /\ L.task.src <= tail BY <1>1, <1>2, <1>4 DEF Between
<1>9. \A m \in L.task.todo : L.task.target <= m /\ m < L.task.src
  BY <1>1, <1>2, <1>3 DEF Between
<1>10. Len(L.task.got) = 0 BY <1>1 DEF Between
<1>11. L.task.todo # {} /\ (L.cache # <<>> => L.task.enc > L.task.target)
  BY <1>1 DEF Between
<1>12. CatchGood(L, tail)
  BY <1>1, <1>7, <1>8, <1>9, <1>10, <1>11 DEF CatchGood, Rising, FitsAll
<1>13. KeyGood(L, tail)
  BY <1>1, <1>12 DEF KeyGood, Between, Filled, FitsAll, Fits
<1> QED BY <1>13 DEF L

LEMMA WaitsGood ==
  ASSUME NEW K \in KeyType, NEW tail \in Nat, Between(K, tail), K.task.enc < K.task.target
  PROVE  KeyGood(Waits(K), tail)
<1> DEFINE L == Waits(K)
<1>1. /\ L.task.todo = {} /\ L.task.src = K.task.src
      /\ L.task.got = <<>> /\ L.task.enc = K.task.enc
      /\ L.task.target = K.task.target
      /\ L.held = K.held /\ L.last = K.last /\ L.cache = K.cache
  BY WaitsFacts DEF Between
<1> HIDE DEF L
<1>2. \A x \in Label : Known(L, x) => Known(K, x) BY <1>1 DEF Known, Between
<1>3. \A x \in Label : Known(L, x) => L.task.target <= x /\ x < L.task.src
  BY <1>1, <1>2 DEF Between
<1>4. Len(L.task.got) = 0 BY <1>1
<1>5. CatchGood(L, tail)
  BY <1>1, <1>3, <1>4 DEF CatchGood, Rising, FitsAll, Between
<1>6. KeyGood(L, tail)
  BY <1>1, <1>5 DEF KeyGood, Between, Filled, FitsAll, Fits
<1> QED BY <1>6 DEF L

LEMMA NextBatchGood ==
  ASSUME NEW S \in StateType, NEW T \in StateType, NEW o \in [1 .. Commits -> OpType],
         NEW k \in Keys, now \in Nat, Good(S, o, {}), Progressed(S, T, k), Running(T, k),
         Between(T.keys[k], T.stream.tail)
  PROVE  Good(NextBatch(T, k), o, {})
<1> DEFINE K == T.keys[k]
           new == ChunksAfter(T, K.task.src)
           U == NextBatch(T, k)
           tail == T.stream.tail
<1> SUFFICES Good(U, o, {}) OBVIOUS
<1>1. K \in KeyType /\ tail \in Nat BY Naturals
<1>2. K.phase = "catching" /\ K.owned BY DEF Running
<1>3. U = IF new # {} THEN [T EXCEPT !.keys[k] = NewBatch(K, new)]
          ELSE IF K.task.enc < K.task.target /\ ~K.task.drain
          THEN [T EXCEPT !.keys[k] = Waits(K)]
          ELSE Handoff(T, k)
  BY NextBatchIs
<1>4. /\ new \subseteq T.stream.pcm /\ new \in SUBSET Chunk
      /\ new # {} => /\ Max(new) \in new /\ Max(new) + 1 \in Instant
                     /\ \A m \in new : m < Max(new) + 1
  BY PcmFacts
<1>5. \A m \in new : m + 1 > K.task.src BY DEF ChunksAfter
<1>6. \A m \in new : m < tail
  BY <1>4 DEF Good, GoodStream, Progressed
<1>7. Between(K, tail) OBVIOUS
<1> HIDE DEF U, K, new, tail
<1>8. ASSUME NEW L \in KeyType, U = [T EXCEPT !.keys[k] = L], L.phase = K.phase,
             L.owned = K.owned, L.waiting = K.waiting, KeyGood(L, tail)
      PROVE  Good(U, o, {})
  <2>1. /\ U \in StateType /\ U.stream = T.stream /\ U.players = T.players
        /\ U.unwound = T.unwound /\ U.keys[k] = L
        /\ \A j \in Keys \ {k} : U.keys[j] = T.keys[j]
    BY <1>8, SetKey
  <2>2. Progressed(S, U, k) BY <1>8, <2>1 DEF Progressed, K
  <2>3. /\ U.keys[k].phase = "catching" /\ U.keys[k].owned
        /\ KeyGood(U.keys[k], U.stream.tail)
    BY <1>2, <1>8, <2>1 DEF tail
  <2>4. U \in StateType BY <2>1
  <2> QED BY <2>2, <2>3, <2>4, CatchingGood
<1>9. CASE new # {}
  <2> DEFINE L == NewBatch(K, new)
  <2>1. L \in KeyType /\ L.phase = K.phase /\ L.owned = K.owned /\ L.waiting = K.waiting
    BY <1>1, <1>4, <1>9, NewBatchFacts
  <2>2. KeyGood(L, tail)
    BY <1>1, <1>4, <1>5, <1>6, <1>7, <1>9, RefilledGood
  <2>3. U = [T EXCEPT !.keys[k] = L] BY <1>3, <1>9
  <2> HIDE DEF L
  <2> QED BY <1>8, <2>1, <2>2, <2>3
<1>10. CASE new = {} /\ K.task.enc < K.task.target /\ ~K.task.drain
  <2> DEFINE L == Waits(K)
  <2>1. L \in KeyType /\ L.phase = K.phase /\ L.owned = K.owned /\ L.waiting = K.waiting
    BY <1>1, WaitsFacts
  <2>2. KeyGood(L, tail) BY <1>1, <1>7, <1>10, WaitsGood
  <2>3. U = [T EXCEPT !.keys[k] = L] BY <1>3, <1>10
  <2> HIDE DEF L
  <2> QED BY <1>8, <2>1, <2>2, <2>3
<1>11. CASE U = Handoff(T, k)
  <2>1. Filled(T.keys[k], T.stream.tail) BY <1>7 DEF Between, K, tail
  <2> QED BY <1>11, <2>1, HandoffGood
<1> QED BY <1>3, <1>9, <1>10, <1>11

\* A catch-up within a batch, or at its end.
Encoding(K, tail) ==
  /\ K.held # 0 => K.last = K.held + 1
  /\ K.last <= tail
  /\ Rising(K.cache) /\ FitsAll(K, tail, K.cache)
  /\ Rising(K.task.got) /\ FitsAll(K, tail, K.task.got)
  /\ \A m \in 1 .. Len(K.cache), n \in 1 .. Len(K.task.got) : K.cache[m] < K.task.got[n]
  /\ \A x \in Label : Known(K, x) =>
       /\ K.task.target <= x /\ x < K.task.src /\ x < K.last
       /\ \A m \in K.task.todo : x < m
  /\ \A m \in K.task.todo : K.task.target <= m /\ m < K.task.src
  /\ K.task.target <= K.task.src /\ K.task.src <= tail
  /\ K.cache # <<>> => K.task.enc > K.task.target
  /\ ~K.task.waiting

\* What the encoder emits for a chunk of a catch-up.
LEMMA EmittedOne ==
  ASSUME NEW k \in Keys, NEW K \in KeyType, NEW tail \in Nat, K.phase = "catching",
         KeyGood(K, tail), NEW ts \in K.task.todo
  PROVE  \/ Len(Emitted(k, K, ts)) = 0
         \/ /\ Len(Emitted(k, K, ts)) = 1
            /\ K.task.target <= Emitted(k, K, ts)[1] /\ Emitted(k, K, ts)[1] <= ts
            /\ k \in Buffering => Emitted(k, K, ts)[1] < ts
            /\ \A n \in 1 .. Len(K.cache) : K.cache[n] < Emitted(k, K, ts)[1]
            /\ \A n \in 1 .. Len(K.task.got) : K.task.got[n] < Emitted(k, K, ts)[1]
<1>1. K.task \in TaskType /\ K.held \in Label /\ K.cache \in Seq(Label) BY DEF KeyType
<1>2. K.task.got \in Seq(Label) /\ ts \in Nat /\ K.task.target \in Nat
  BY <1>1, EndFacts DEF TaskType
<1>3. /\ \A n \in 1 .. Len(K.cache) : K.cache[n] \in Label /\ K.cache[n] \in Nat
      /\ \A n \in 1 .. Len(K.task.got) : K.task.got[n] \in Label /\ K.task.got[n] \in Nat
      /\ K.held \in Nat
  BY <1>1, <1>2, Elements, EndFacts
<1>4. CatchGood(K, tail) /\ FitsAll(K, tail, K.cache) /\ FitsAll(K, tail, K.task.got)
  BY DEF KeyGood, CatchGood
<1>5. \A x \in Label : Known(K, x) => K.task.target <= x /\ x < ts BY <1>4 DEF CatchGood
<1>6. K.task.target <= ts BY <1>4 DEF CatchGood
<1>7. CASE k \notin Buffering
  <2>1. Emitted(k, K, ts) = <<ts>> BY <1>7 DEF Emitted
  <2>2. \A n \in 1 .. Len(K.cache) : K.cache[n] < ts BY <1>3, <1>5 DEF Known
  <2>3. \A n \in 1 .. Len(K.task.got) : K.task.got[n] < ts BY <1>3, <1>5 DEF Known
  <2> QED BY <1>2, <1>6, <1>7, <2>1, <2>2, <2>3
<1>8. CASE k \in Buffering /\ K.held = 0
  BY <1>8 DEF Emitted
<1>9. CASE k \in Buffering /\ K.held # 0
  <2>1. K.last # 0 BY <1>3, <1>9 DEF KeyGood
  <2>2. Emitted(k, K, ts) = <<ts - 1>> BY <1>9, <2>1 DEF Emitted
  <2>3. K.task.target <= K.held /\ K.held < ts BY <1>1, <1>5, <1>9 DEF Known
  <2>4. \A n \in 1 .. Len(K.cache) : K.cache[n] + 1 <= K.held BY <1>4, <1>9 DEF FitsAll, Fits
  <2>5. \A n \in 1 .. Len(K.task.got) : K.task.got[n] + 1 <= K.held
    BY <1>4, <1>9 DEF FitsAll, Fits
  <2> QED BY <1>2, <1>3, <2>2, <2>3, <2>4, <2>5
<1> QED BY <1>7, <1>8, <1>9

LEMMA ChunkGood ==
  ASSUME NEW k \in Keys, NEW K \in KeyType, NEW tail \in Nat, K.phase = "catching",
         KeyGood(K, tail), NEW ts \in K.task.todo, \A m \in K.task.todo : ts <= m
  PROVE  Encoding(ChunkEncoded(k, K, ts), tail)
<1> DEFINE E == ChunkEncoded(k, K, ts)
           e == Emitted(k, K, ts)
           got == K.task.got
<1>1. K.task \in TaskType /\ K.held \in Label /\ K.cache \in Seq(Label) BY DEF KeyType
<1>0. K.task.todo \subseteq Chunk /\ K.task.got \in Seq(Label) BY <1>1 DEF TaskType
<1>ts. ts \in Chunk /\ ts \in Nat /\ ts # 0 BY <1>0, EndFacts DEF Chunk
<1>2. /\ got \in Seq(Label) /\ ts \in Nat /\ ts \in Chunk /\ ts # 0
      /\ K.task.target \in Nat /\ K.task.src \in Nat
      /\ \A m \in K.task.todo : m \in Nat
  <2>1. K.task.target \in Nat /\ K.task.src \in Nat BY <1>1, EndFacts DEF TaskType
  <2>2. \A m \in K.task.todo : m \in Nat BY <1>0, EndFacts
  <2> QED BY <1>0, <1>ts, <2>1, <2>2
<1>3. /\ \A n \in 1 .. Len(K.cache) : K.cache[n] \in Label /\ K.cache[n] \in Nat
      /\ \A n \in 1 .. Len(got) : got[n] \in Label /\ got[n] \in Nat
  BY <1>1, <1>2, Elements, EndFacts
<1>4. /\ E.held = IF k \in Buffering THEN ts ELSE 0
      /\ E.last = ts + 1 /\ E.cache = K.cache
      /\ E.task.got = got \o e /\ E.task.todo = K.task.todo \ {ts}
      /\ E.task.target = K.task.target /\ E.task.src = K.task.src
      /\ E.task.enc = K.task.enc /\ E.task.waiting = K.task.waiting
  BY <1>ts, ChunkEncodedFacts
<1>5. e \in Seq(Label) BY <1>2, EmittedFacts
<1>6. \/ Len(e) = 0
      \/ /\ Len(e) = 1
         /\ K.task.target <= e[1] /\ e[1] <= ts
         /\ k \in Buffering => e[1] < ts
         /\ \A n \in 1 .. Len(K.cache) : K.cache[n] < e[1]
         /\ \A n \in 1 .. Len(got) : got[n] < e[1]
  BY EmittedOne
<1>7. CatchGood(K, tail) BY DEF KeyGood
<1>8. ts < K.task.src /\ K.task.src <= tail /\ K.task.target <= ts BY <1>7 DEF CatchGood
<1> HIDE DEF E, e, got
<1>9. \A n \in 1 .. Len(e) : /\ n = 1 /\ e[n] \in Nat /\ K.task.target <= e[n] /\ e[n] <= ts
                             /\ k \in Buffering => e[n] < ts
                             /\ \A m \in 1 .. Len(K.cache) : K.cache[m] < e[n]
                             /\ \A m \in 1 .. Len(got) : got[m] < e[n]
  <2> SUFFICES ASSUME NEW n \in 1 .. Len(e)
               PROVE  /\ n = 1 /\ e[n] \in Nat /\ K.task.target <= e[n] /\ e[n] <= ts
                      /\ k \in Buffering => e[n] < ts
                      /\ \A m \in 1 .. Len(K.cache) : K.cache[m] < e[n]
                      /\ \A m \in 1 .. Len(got) : got[m] < e[n]
    OBVIOUS
  <2>1. Len(e) \in Nat /\ e[n] \in Nat BY <1>5, Elements, EndFacts
  <2>2. n = 1 BY <1>6, <2>1
  <2> QED BY <1>6, <2>1, <2>2
<1>10. /\ \A n \in 1 .. Len(K.cache) : K.cache[n] < ts /\ K.task.target <= K.cache[n]
       /\ \A n \in 1 .. Len(got) : got[n] < ts /\ K.task.target <= got[n]
  BY <1>3, <1>7 DEF CatchGood, Known, got
<1>11. Rising(E.task.got)
  <2>1. Rising(e) BY <1>9 DEF Rising
  <2>2. Rising(got) BY <1>7 DEF CatchGood, got
  <2> QED BY <1>2, <1>4, <1>5, <1>9, <2>1, <2>2, RisingJoined
<1>12. FitsAll(E, tail, K.cache)
  BY <1>2, <1>3, <1>4, <1>8, <1>10 DEF FitsAll, Fits
<1>13. FitsAll(E, tail, E.task.got)
  <2>1. FitsAll(E, tail, e) BY <1>2, <1>4, <1>8, <1>9 DEF FitsAll, Fits
  <2>2. FitsAll(E, tail, got) BY <1>2, <1>3, <1>4, <1>8, <1>10 DEF FitsAll, Fits
  <2> QED BY <1>2, <1>4, <1>5, <2>1, <2>2, FitsJoined
<1>14. ASSUME NEW n \in 1 .. Len(E.task.got)
       PROVE  /\ \A m \in 1 .. Len(K.cache) : K.cache[m] < E.task.got[n]
              /\ K.task.target <= E.task.got[n] /\ E.task.got[n] <= ts
  <2>1. \/ n \in 1 .. Len(got) /\ E.task.got[n] = got[n]
        \/ n - Len(got) \in 1 .. Len(e) /\ E.task.got[n] = e[n - Len(got)]
    BY <1>2, <1>4, <1>5, Joined
  <2>2. CASE n \in 1 .. Len(got) /\ E.task.got[n] = got[n]
    <3>1. \A m \in 1 .. Len(K.cache) : K.cache[m] < got[n] BY <1>7, <2>2 DEF CatchGood, got
    <3> QED BY <1>2, <1>3, <1>10, <2>2, <3>1
  <2>3. CASE n - Len(got) \in 1 .. Len(e) /\ E.task.got[n] = e[n - Len(got)]
    BY <1>9, <2>3
  <2> QED BY <2>1, <2>2, <2>3
<1>15. ASSUME NEW x \in Label, Known(E, x) PROVE K.task.target <= x /\ x <= ts
  <2>1. CASE \E n \in 1 .. Len(E.cache) : E.cache[n] = x
    BY <1>2, <1>3, <1>4, <1>10, <2>1
  <2>2. CASE \E n \in 1 .. Len(E.task.got) : E.task.got[n] = x BY <1>14, <2>2
  <2>3. CASE E.held # 0 /\ E.held = x BY <1>2, <1>4, <1>8, <2>3
  <2> QED BY <1>15, <2>1, <2>2, <2>3 DEF Known
<1>16. \A m \in E.task.todo : m \in K.task.todo /\ ts < m
  BY <1>2, <1>4
<1>17. \A x \in Label : Known(E, x) =>
         /\ E.task.target <= x /\ x < E.task.src /\ x < E.last
         /\ \A m \in E.task.todo : x < m
  BY <1>2, <1>4, <1>8, <1>15, <1>16, EndFacts
<1>18. \A m \in E.task.todo : E.task.target <= m /\ m < E.task.src
  BY <1>4, <1>7, <1>16 DEF CatchGood
<1>19. /\ E.held # 0 => E.last = E.held + 1
       /\ E.last <= tail
  BY <1>2, <1>4, <1>8
<1>20. /\ Rising(E.cache) /\ E.task.target <= E.task.src /\ E.task.src <= tail
       /\ E.cache # <<>> => E.task.enc > E.task.target
       /\ ~E.task.waiting
  BY <1>1, <1>4, <1>7 DEF KeyGood, CatchGood, TaskType
<1> QED BY <1>4, <1>11, <1>12, <1>13, <1>14, <1>17, <1>18, <1>19, <1>20 DEF Encoding, E

LEMMA WithinBatch ==
  ASSUME NEW K \in KeyType, NEW tail, Encoding(K, tail), K.task.todo # {}
  PROVE  KeyGood(K, tail)
BY DEF Encoding, KeyGood, CatchGood

LEMMA BatchEnds ==
  ASSUME NEW K \in KeyType, NEW tail \in Nat, Encoding(K, tail), K.task.todo = {}
  PROVE  Between(Batched(K), tail)
<1> DEFINE B == Batched(K)
           got == K.task.got
<1>1. K.task \in TaskType /\ K.cache \in Seq(Label) /\ got \in Seq(Label)
  BY DEF KeyType, TaskType
<1>2. /\ B.cache = K.cache \o got /\ B.held = K.held /\ B.last = K.last
      /\ B.task.got = <<>> /\ B.task.todo = {}
      /\ B.task.target = K.task.target /\ B.task.src = K.task.src
  BY BatchedFacts
<1>3. B.task.enc = IF got = <<>> THEN K.task.enc ELSE Last(got) + 1
  <2> DEFINE enc == IF K.task.got = <<>> THEN K.task.enc ELSE Last(K.task.got) + 1
             cache == K.cache \o K.task.got
             none == <<>>
  <2>1. B = [K EXCEPT !.cache = cache, !.task = [K.task EXCEPT !.got = none, !.enc = enc]]
    BY <1>1 DEF Batched, KeyType, TaskType
  <2> HIDE DEF enc, cache, none, B
  <2>2. B.task.enc = enc BY <1>1, <2>1 DEF KeyType, TaskType
  <2> QED BY <2>2 DEF enc
<1> HIDE DEF B, got
<1>4. Rising(B.cache) BY <1>1, <1>2, RisingJoined DEF Encoding, got
<1>5. FitsAll(B, tail, B.cache)
  <2>1. FitsAll(B, tail, K.cache) /\ FitsAll(B, tail, got)
    BY <1>2 DEF Encoding, FitsAll, Fits, got
  <2> QED BY <1>1, <1>2, <2>1, FitsJoined
<1>6. \A x \in Label : Known(B, x) => Known(K, x)
  <2> SUFFICES ASSUME NEW x \in Label, Known(B, x) PROVE Known(K, x) OBVIOUS
  <2>1. CASE B.held # 0 /\ B.held = x BY <1>2, <2>1 DEF Known
  <2>2. ASSUME NEW n \in 1 .. Len(B.cache), B.cache[n] = x PROVE Known(K, x)
    <3>1. \/ n \in 1 .. Len(K.cache) /\ B.cache[n] = K.cache[n]
          \/ n - Len(K.cache) \in 1 .. Len(got) /\ B.cache[n] = got[n - Len(K.cache)]
      BY <1>1, <1>2, Joined
    <3> QED BY <2>2, <3>1 DEF Known, got
  <2>3. Len(B.task.got) = 0 BY <1>2
  <2> QED BY <2>1, <2>2, <2>3 DEF Known
<1>7. \A n \in 1 .. Len(B.cache) : B.cache[n] < B.last
  <2> SUFFICES ASSUME NEW n \in 1 .. Len(B.cache) PROVE B.cache[n] < B.last OBVIOUS
  <2>1. B.cache \in Seq(Label) BY <1>1, <1>2, Joined
  <2>2. B.cache[n] \in Label BY <2>1, Elements
  <2>3. Known(K, B.cache[n]) BY <1>6, <2>2 DEF Known
  <2> QED BY <1>2, <2>2, <2>3 DEF Encoding
<1>8. B.cache # <<>> => B.task.enc > B.task.target
  <2>1. CASE got = <<>>
    <3>1. B.cache = K.cache BY <1>1, <1>2, <2>1
    <3> QED BY <1>2, <1>3, <2>1, <3>1 DEF Encoding
  <2>2. CASE got # <<>>
    <3>1. Len(got) \in Nat \ {0} /\ Last(got) = got[Len(got)] BY <1>1, <2>2 DEF Last
    <3>2. Last(got) \in Label /\ Known(K, Last(got)) BY <1>1, <3>1, Elements DEF Known, got
    <3>3. K.task.target <= Last(got) BY <3>2 DEF Encoding
    <3>4. Last(got) \in Nat /\ K.task.target \in Nat BY <1>1, <3>2, EndFacts DEF TaskType
    <3> QED BY <1>2, <1>3, <2>2, <3>3, <3>4
  <2> QED BY <2>1, <2>2
<1>9. Filled(B, tail) BY <1>2, <1>4, <1>5, <1>7 DEF Filled, Encoding
<1>10. \A x \in Label : Known(B, x) => B.task.target <= x /\ x < B.task.src
  BY <1>2, <1>6 DEF Encoding
<1> QED BY <1>2, <1>8, <1>9, <1>10 DEF Between, Encoding, B

\* The next chunk of a catch-up, or its batch.
LEMMA EncodesGood ==
  ASSUME NEW S \in StateType, NEW o \in [1 .. Commits -> OpType], NEW k \in Keys,
         now \in Nat, Good(S, o, {}), S.unwound = {}, Running(S, k),
         S.keys[k].task.todo # {}
  PROVE  LET K == S.keys[k]
             ts == Min(K.task.todo)
             T == [S EXCEPT !.keys[k] = ChunkEncoded(k, K, ts)]
         IN  Good(IF K.task.todo = {ts} THEN BatchCached(T, k) ELSE T, o, {})
<1> DEFINE K == S.keys[k]
           ts == Min(K.task.todo)
           E == ChunkEncoded(k, K, ts)
           T == [S EXCEPT !.keys[k] = E]
           U == IF K.task.todo = {ts} THEN BatchCached(T, k) ELSE T
           tail == S.stream.tail
<1> SUFFICES Good(U, o, {}) OBVIOUS
<1>1. /\ K \in KeyType /\ K.task.todo \in SUBSET (0 .. End) /\ End \in Nat
      /\ K.task.todo # {} /\ K.task.todo \in SUBSET Chunk
  BY EndFacts DEF StateType, KeyType, TaskType, Chunk
<1>2. /\ K.phase = "catching" /\ K.owned /\ K.task.running /\ K.waiting # {} BY DEF Running
<1>3. tail \in Nat /\ KeyGood(K, tail) BY Naturals DEF Good, GoodKey
<1> HIDE DEF K
<1>4. ts \in K.task.todo /\ \A m \in K.task.todo : ts <= m BY <1>1, MinMax
<1>5. ts \in Chunk BY <1>1, <1>4
<1> HIDE DEF ts
<1>6. /\ E \in KeyType /\ E.phase = "catching" /\ E.owned /\ E.task.running /\ E.waiting # {}
      /\ E.waiting = K.waiting /\ E.task.todo = K.task.todo \ {ts}
  BY <1>1, <1>2, <1>5, ChunkEncodedFacts
<1>7. Encoding(E, tail) BY <1>1, <1>2, <1>3, <1>4, ChunkGood
<1> HIDE DEF E
<1>8. ASSUME NEW L \in KeyType, L.waiting = K.waiting, L.phase = "catching", L.owned,
             L.task.running
      PROVE  /\ [S EXCEPT !.keys[k] = L] \in StateType
             /\ [S EXCEPT !.keys[k] = L].keys[k] = L
             /\ [S EXCEPT !.keys[k] = L].stream = S.stream
             /\ Progressed(S, [S EXCEPT !.keys[k] = L], k)
             /\ Running([S EXCEPT !.keys[k] = L], k)
  <2> DEFINE V == [S EXCEPT !.keys[k] = L]
  <2>1. /\ V \in StateType /\ V.stream = S.stream /\ V.players = S.players
        /\ V.unwound = S.unwound /\ V.keys[k] = L
        /\ \A j \in Keys \ {k} : V.keys[j] = S.keys[j]
    BY SetKey
  <2>2. Running(V, k) BY <1>2, <1>8, RunningKey
  <2> HIDE DEF V
  <2>3. Progressed(S, V, k) BY <1>2, <1>8, <2>1 DEF Progressed, K
  <2> QED BY <2>1, <2>2, <2>3 DEF V
<1>9. CASE K.task.todo # {ts}
  <2>1. E.task.todo # {} BY <1>4, <1>6, <1>9
  <2>2. KeyGood(E, tail) BY <1>6, <1>7, <2>1, WithinBatch
  <2>3. /\ T \in StateType /\ T.keys[k] = E /\ T.stream = S.stream /\ Progressed(S, T, k)
    BY <1>6, <1>8
  <2>4. U = T BY <1>9
  <2> HIDE DEF T, U
  <2>5. T.keys[k].phase = "catching" /\ T.keys[k].owned /\ KeyGood(T.keys[k], T.stream.tail)
    BY <1>6, <2>2, <2>3
  <2>6. T \in StateType BY <2>3
  <2>7. Good(T, o, {}) BY <2>3, <2>5, <2>6, CatchingGood
  <2> QED BY <2>4, <2>7
<1>10. CASE K.task.todo = {ts}
  <2> DEFINE B == Batched(E)
             V == [S EXCEPT !.keys[k] = B]
  <2>1. E.task.todo = {} BY <1>6, <1>10
  <2>2. Between(B, tail) BY <1>3, <1>6, <1>7, <2>1, BatchEnds
  <2>3. /\ B \in KeyType /\ B.waiting = K.waiting /\ B.phase = "catching" /\ B.owned
        /\ B.task.running
    BY <1>6, BatchedFacts
  <2>4. U = NextBatch(V, k)
    <3>1. T.keys[k] = E /\ T \in StateType BY <1>6, <1>8
    <3>2. BatchCached(T, k) = NextBatch([T EXCEPT !.keys[k] = Batched(T.keys[k])], k)
      BY DEF BatchCached, Batched
    <3>3. [T EXCEPT !.keys[k] = B] = V BY <1>6 DEF StateType
    <3> HIDE DEF T, B, V
    <3>4. BatchCached(T, k) = NextBatch(V, k) BY <3>1, <3>2, <3>3 DEF B
    <3> QED BY <1>10, <3>4
  <2> HIDE DEF B, U
  <2>5. /\ V \in StateType /\ V.keys[k] = B /\ V.stream = S.stream
        /\ Progressed(S, V, k) /\ Running(V, k)
    BY <1>8, <2>3
  <2> HIDE DEF V
  <2>6. Between(V.keys[k], V.stream.tail) BY <2>2, <2>5
  <2>7. V \in StateType BY <2>5
  <2>8. Good(NextBatch(V, k), o, {}) BY <2>5, <2>6, <2>7, NextBatchGood
  <2> QED BY <2>4, <2>8
<1> QED BY <1>9, <1>10

LEMMA CatchupEncodesSent ==
  ASSUME IInv, SentInv, NEW k \in Keys, CatchupEncodes(k)
  PROVE  SentInv'
<1> DEFINE K == keys[k]
           ts == Min(K.task.todo)
           T == [State EXCEPT !.keys[k] = ChunkEncoded(k, K, ts)]
           U == IF K.task.todo = {ts} THEN BatchCached(T, k) ELSE T
<1>1. Explored /\ unwound = {} /\ ~keys[k].spoiled /\ K.task.todo # {}
  BY DEF CatchupEncodes, Turned, Explored
<1>2. Running(State, k) BY <1>1, CatchupRuns
<1>3. Becomes(U) /\ UNCHANGED <<ops, queue>> BY DEF CatchupEncodes, ChunkEncoded
<1>4. /\ State \in StateType /\ ops \in [1 .. Commits -> OpType] /\ now \in Nat
      /\ K = State.keys[k] /\ State.unwound = {}
  BY <1>1, InvFacts, StateIs
<1>5. U \in StateType BY <1>1, <1>2, <1>4, EncodesSteps
<1>6. Good(State, ops, {}) /\ InOrder(ops, queue) BY <1>1, SentFacts
<1>7. Good(U, ops, {}) BY <1>1, <1>2, <1>4, <1>6, EncodesGood
<1> HIDE DEF U
<1> QED BY <1>3, <1>5, <1>6, <1>7, SentStep

LEMMA CatchupWakesSent ==
  ASSUME IInv, SentInv, NEW k \in Keys, CatchupWakes(k)
  PROVE  SentInv'
<1> DEFINE K == keys[k]
           D == Drains(K)
           T == [State EXCEPT !.keys[k] = D]
<1>1. Explored /\ unwound = {} /\ ~keys[k].spoiled /\ K.task.waiting
  BY DEF CatchupWakes, Turned, Explored
<1>2. Running(State, k) BY <1>1, CatchupRuns
<1>3. /\ State \in StateType /\ ops \in [1 .. Commits -> OpType] /\ now \in Nat
      /\ K = State.keys[k] /\ State.unwound = {} /\ K \in KeyType
      /\ State.stream.tail \in Nat
  BY <1>1, InvFacts, StateIs, Naturals
<1>4. Good(State, ops, {}) /\ InOrder(ops, queue) BY <1>1, SentFacts
<1>5. /\ K.phase = "catching" /\ K.owned /\ K.task.running /\ K.waiting # {}
  BY <1>2, <1>3 DEF Running
<1>6. KeyGood(K, State.stream.tail) /\ CatchGood(K, State.stream.tail)
  BY <1>3, <1>4, <1>5 DEF Good, GoodKey, KeyGood
<1>7. Between(K, State.stream.tail)
  <2>1. K.task.todo = {} /\ K.task.got = <<>> /\ K.task.enc < K.task.target
    BY <1>1, <1>6 DEF CatchGood
  <2>2. K.task.enc \in Nat /\ K.task.target \in Nat BY <1>3, EndFacts DEF KeyType, TaskType
  <2>3. K.cache = <<>> BY <1>6, <2>1, <2>2 DEF CatchGood
  <2>4. Len(K.cache) = 0 BY <2>3
  <2>5. Filled(K, State.stream.tail) BY <1>6, <2>4 DEF Filled, KeyGood
  <2> QED BY <1>6, <2>1, <2>3, <2>5 DEF Between, CatchGood
<1>8. Becomes(NextBatch(State, k)) \/ Becomes(NextBatch(T, k))
  <2>1. [State EXCEPT !.keys[k].task.drain = TRUE] = T BY DEF Drains, State
  <2> QED BY <2>1 DEF CatchupWakes
<1>9. UNCHANGED <<ops, queue>> BY DEF CatchupWakes
<1>10. /\ D \in KeyType /\ D.phase = "catching" /\ D.waiting = K.waiting /\ D.owned
       /\ D.task.running
  BY <1>3, <1>5, DrainsFacts
<1>11. /\ D.held = K.held /\ D.last = K.last /\ D.cache = K.cache
       /\ D.task.todo = K.task.todo /\ D.task.got = K.task.got
       /\ D.task.target = K.task.target /\ D.task.src = K.task.src /\ D.task.enc = K.task.enc
  BY <1>3 DEF Drains, KeyType, TaskType
<1> HIDE DEF D, K
<1>12. Between(D, State.stream.tail)
  BY <1>7, <1>11 DEF Between, Filled, FitsAll, Fits, Known
<1>13. CASE Becomes(NextBatch(State, k))
  <2>1. Progressed(State, State, k) BY <1>3, <1>5 DEF Progressed
  <2>2. Between(State.keys[k], State.stream.tail) BY <1>3, <1>7
  <2>3. Good(NextBatch(State, k), ops, {}) BY <1>2, <1>3, <1>4, <2>1, <2>2, NextBatchGood
  <2>4. NextBatch(State, k) \in StateType BY <1>2, <1>3, NextBatchSteps
  <2> QED BY <1>4, <1>9, <1>13, <2>3, <2>4, SentStep
<1>14. CASE Becomes(NextBatch(T, k))
  <2>1. /\ T \in StateType /\ T.stream = State.stream /\ T.players = State.players
        /\ T.unwound = State.unwound /\ T.keys[k] = D
        /\ \A j \in Keys \ {k} : T.keys[j] = State.keys[j]
    BY <1>3, <1>10, SetKey
  <2>2. Running(T, k) BY <1>2, <1>3, <1>5, <1>10, RunningKey
  <2> HIDE DEF T
  <2>3. Progressed(State, T, k) BY <1>3, <1>5, <1>10, <2>1 DEF Progressed
  <2>4. Between(T.keys[k], T.stream.tail) BY <1>12, <2>1
  <2>5. T \in StateType BY <2>1
  <2>6. Good(NextBatch(T, k), ops, {}) BY <1>3, <1>4, <2>2, <2>3, <2>4, <2>5, NextBatchGood
  <2>7. NextBatch(T, k) \in StateType BY <2>2, <2>5, NextBatchSteps
  <2> QED BY <1>4, <1>9, <1>14, <2>6, <2>7, SentStep
<1> QED BY <1>8, <1>13, <1>14

-----------------------------------------------------------------------------
(* Commits and flushes.                                                        *)

LEMMA KeyGoodMore ==
  ASSUME NEW K \in KeyType, NEW tail \in Nat, NEW tail2 \in Nat, tail <= tail2,
         KeyGood(K, tail)
  PROVE  KeyGood(K, tail2)
<1>1. K.task \in TaskType /\ K.cache \in Seq(Label) /\ K.last \in Nat BY EndFacts DEF KeyType
<1>2. K.task.got \in Seq(Label) /\ K.task.src \in Nat BY <1>1, EndFacts DEF TaskType
<1>3. ASSUME NEW q \in Seq(Label), FitsAll(K, tail, q) PROVE FitsAll(K, tail2, q)
  <2>1. \A n \in 1 .. Len(q) : q[n] \in Nat BY Elements, EndFacts
  <2> QED BY <1>3, <2>1 DEF FitsAll, Fits
<1>4. CatchGood(K, tail) => CatchGood(K, tail2)
  <2>1. FitsAll(K, tail, K.task.got) => FitsAll(K, tail2, K.task.got) BY <1>2, <1>3
  <2>2. K.task.src <= tail => K.task.src <= tail2 BY <1>2
  <2> QED BY <2>1, <2>2 DEF CatchGood
<1>5. K.last <= tail2 /\ FitsAll(K, tail2, K.cache) BY <1>1, <1>3 DEF KeyGood
<1> QED BY <1>4, <1>5 DEF KeyGood

\* An operation goes on, and the timeline may grow.
LEMMA GrownGood ==
  ASSUME NEW S \in StateType, NEW T \in StateType, NEW o \in [1 .. Commits -> OpType],
         Good(S, o, {}), NEW i \in 1 .. Commits, NEW op \in OpType,
         T.keys = S.keys, T.players = S.players, T.unwound = S.unwound,
         S.stream.tail <= T.stream.tail, \A m \in T.stream.pcm : m < T.stream.tail,
         \A j \in 1 .. Commits : j # i /\ o[j].live /\ o[j].stage # "none" =>
           (S.stream.flush # "no" <=> T.stream.flush # "no"),
         OpGood(T, op, {}), ~(op.live /\ op.stage = "deliver"),
         Awaits(op) => (Awaits(o[i]) /\ o[i].ts = op.ts) \/ S.stream.tail <= op.ts
  PROVE  Good(T, [o EXCEPT ![i] = op], {})
<1> DEFINE u == [o EXCEPT ![i] = op]
           tail == S.stream.tail
<1>1. /\ u \in [1 .. Commits -> OpType] /\ u[i] = op
      /\ \A j \in 1 .. Commits : j # i => u[j] = o[j]
  OBVIOUS
<1>2. tail \in Nat /\ T.stream.tail \in Nat /\ op.ts \in Nat BY Naturals, EndFacts DEF OpType
<1> SUFFICES Good(T, u, {}) OBVIOUS
<1> HIDE DEF u
<1>3. ASSUME NEW k, NEW last, NEW s \in Nat, s <= tail, Clears(last, o, k, s)
      PROVE  Clears(last, u, k, s)
  <2> SUFFICES ASSUME NEW j \in 1 .. Commits
               PROVE  /\ Awaits(u[j]) /\ last <= u[j].ts => s <= u[j].ts
                      /\ u[j].live /\ u[j].stage = "deliver" /\ u[j].frames[k] # <<>> =>
                           s <= u[j].frames[k][1]
    BY DEF Clears
  <2>1. CASE j # i BY <1>1, <1>3, <2>1 DEF Clears
  <2>2. CASE j = i BY <1>1, <1>2, <1>3, <2>2 DEF Clears
  <2> QED BY <2>1, <2>2
<1>4. ASSUME NEW s \in Nat, s <= tail, Later(o, s) PROVE Later(u, s)
  BY <1>1, <1>2, <1>4 DEF Later
<1>5. GoodStream(T) BY <1>2 DEF Good, GoodStream
<1>6. ASSUME NEW k \in Keys PROVE GoodKey(T, k) /\ GoodCache(T, u, k)
  <2> DEFINE K == S.keys[k]
  <2>1. GoodKey(S, k) /\ GoodCache(S, o, k) /\ K \in KeyType BY Naturals DEF Good
  <2>2. KeyGood(K, tail) /\ KeyGood(K, T.stream.tail)
    BY <1>2, <2>1, KeyGoodMore DEF GoodKey
  <2>3. GoodKey(T, k) BY <2>1, <2>2 DEF GoodKey, WaitersGood
  <2>4. \A n \in 1 .. Len(K.cache) : K.cache[n] + 1 \in Nat /\ K.cache[n] + 1 <= tail
    <3>1. K.cache \in Seq(Label) BY <2>1 DEF KeyType
    <3>2. \A n \in 1 .. Len(K.cache) : K.cache[n] \in Nat BY <3>1, Elements, EndFacts
    <3> QED BY <2>2, <3>2 DEF KeyGood, FitsAll, Fits
  <2>5. GoodCache(T, u, k) BY <1>3, <2>1, <2>4 DEF GoodCache
  <2> QED BY <2>3, <2>5
<1>7. ASSUME NEW r \in Roles PROVE GoodPlayer(T, u, r)
  <2>1. GoodPlayer(S, o, r) BY DEF Good
  <2>2. Waiting(T, r) <=> Waiting(S, r) BY DEF Waiting
  <2>3. InPipeline(T, r) <=> InPipeline(S, r) BY DEF InPipeline
  <2>4. Abreast(S, o, r) => Abreast(T, u, r)
    <3> DEFINE p == S.players[r]
               k == p.format
               K == S.keys[k]
    <3> SUFFICES ASSUME Abreast(S, o, r) PROVE Abreast(T, u, r) OBVIOUS
    <3>1. /\ ~p.pending /\ K.phase # "catching" /\ Fits(K, tail, p.sent)
          /\ Clears(K.last, o, k, p.sent) /\ (k \in S.unwound => Later(o, p.sent))
      BY DEF Abreast
    <3>2. p.sent \in Nat /\ p.sent <= tail BY <3>1, Naturals DEF Fits
    <3>3. Clears(K.last, u, k, p.sent) /\ (k \in S.unwound => Later(u, p.sent))
      BY <1>3, <1>4, <3>1, <3>2
    <3>4. p.sent <= T.stream.tail BY <1>2, <3>2
    <3>5. Fits(K, T.stream.tail, p.sent) BY <3>1, <3>4 DEF Fits
    <3> QED BY <3>1, <3>3, <3>5 DEF Abreast
  <2> QED BY <2>1, <2>2, <2>3, <2>4 DEF GoodPlayer
<1>8. \A r \in Roles : Faultless(T.players[r]) BY DEF Good
<1>9. ASSUME NEW j \in 1 .. Commits PROVE OpGood(T, u[j], {})
  <2>1. CASE j = i BY <1>1, <2>1
  <2>2. CASE j # i /\ o[j].live /\ o[j].stage # "none"
    <3>1. \A k \in Keys : EasesKey(S.keys[k], T.keys[k]) BY Naturals DEF EasesKey
    <3>2. \A r \in Roles : EasesPlayer(S, T, {}, {}, r) BY DEF EasesPlayer, InPipeline
    <3>3. Eases(S, T, {}, {}) BY <2>2, <3>1, <3>2 DEF Eases
    <3>4. OpGood(S, o[j], {}) /\ o[j] \in OpType BY DEF Good
    <3> QED BY <1>1, <2>2, <3>3, <3>4, OpEases
  <2>3. CASE j # i /\ ~(o[j].live /\ o[j].stage # "none") BY <1>1, <2>3 DEF OpGood
  <2> QED BY <2>1, <2>2, <2>3
<1> QED BY <1>5, <1>6, <1>7, <1>8, <1>9 DEF Good

KeptKey(K) == [K EXCEPT !.cache = Kept(K.cache)]

LEMMA KeptGood ==
  ASSUME NEW K \in KeyType, NEW tail, KeyGood(K, tail), now \in Nat
  PROVE  LET L == KeptKey(K)
         IN  /\ KeyGood(L, tail)
             /\ L.phase = K.phase /\ L.waiting = K.waiting /\ L.held = K.held
             /\ L.last = K.last /\ L.owned = K.owned
             /\ \A n \in 1 .. Len(L.cache) :
                  \E m \in 1 .. Len(K.cache) : L.cache[n] = K.cache[m]
<1> DEFINE e == Expired(K.cache)
           L == KeptKey(K)
<1>1. K.cache \in Seq(Label) /\ Len(K.cache) \in Nat BY DEF KeyType
<1>2. /\ Kept(K.cache) \in Seq(Label) /\ Len(Kept(K.cache)) = Len(K.cache) - e
      /\ \A n \in 1 .. Len(Kept(K.cache)) : Kept(K.cache)[n] = K.cache[e + n]
      /\ e \in 0 .. Len(K.cache)
  BY <1>1, KeptFacts, ExpiredFacts
<1>3. /\ L.cache = Kept(K.cache) /\ L.phase = K.phase /\ L.waiting = K.waiting
      /\ L.held = K.held /\ L.last = K.last /\ L.task = K.task /\ L.owned = K.owned
  BY <1>2, CacheSet DEF KeptKey
<1> HIDE DEF e, L
<1>4. \A n \in 1 .. Len(L.cache) : e + n \in 1 .. Len(K.cache) /\ L.cache[n] = K.cache[e + n]
  BY <1>1, <1>2, <1>3
<1>5. Rising(L.cache)
  <2> SUFFICES ASSUME NEW m \in 1 .. Len(L.cache), NEW n \in 1 .. Len(L.cache), m < n
               PROVE  L.cache[m] < L.cache[n]
    BY DEF Rising
  <2>1. e + m < e + n BY <1>1, <1>2
  <2> QED BY <1>4, <2>1 DEF KeyGood, Rising
<1>6. FitsAll(L, tail, L.cache) BY <1>3, <1>4 DEF KeyGood, FitsAll, Fits
<1>7. \A x \in Label : Known(L, x) => Known(K, x) BY <1>3, <1>4 DEF Known
<1>8. L.cache # <<>> => K.cache # <<>>
  <2> SUFFICES ASSUME K.cache = <<>> PROVE L.cache = <<>> OBVIOUS
  <2>1. Len(Kept(K.cache)) = 0 BY <1>2
  <2> QED BY <1>2, <1>3, <2>1
<1>9. CatchGood(K, tail) => CatchGood(L, tail)
  <2> SUFFICES ASSUME CatchGood(K, tail) PROVE CatchGood(L, tail) OBVIOUS
  <2>1. \A m \in 1 .. Len(L.cache), n \in 1 .. Len(L.task.got) : L.cache[m] < L.task.got[n]
    BY <1>3, <1>4 DEF CatchGood
  <2>2. FitsAll(L, tail, L.task.got) BY <1>3 DEF CatchGood, FitsAll, Fits
  <2> QED BY <1>3, <1>7, <1>8, <2>1, <2>2 DEF CatchGood
<1>10. KeyGood(L, tail) BY <1>3, <1>5, <1>6, <1>9 DEF KeyGood
<1> QED BY <1>3, <1>4, <1>10 DEF L

LEMMA PrunedGood ==
  ASSUME NEW S \in StateType, NEW o \in [1 .. Commits -> OpType], Good(S, o, {}), now \in Nat
  PROVE  Good(Pruned(S), o, {})
<1> DEFINE T == Pruned(S)
<1>1. /\ T \in StateType /\ T.players = S.players /\ T.unwound = S.unwound
      /\ T.stream.flush = S.stream.flush /\ T.stream.tail = S.stream.tail
      /\ T.stream.pcm = {m \in S.stream.pcm : m + 1 > now}
      /\ \A k \in Keys : T.keys[k] = [S.keys[k] EXCEPT !.cache = Kept(S.keys[k].cache)]
  BY PrunedFacts
<1> HIDE DEF T
<1>2. ASSUME NEW k \in Keys
      PROVE  /\ KeyGood(T.keys[k], T.stream.tail)
             /\ T.keys[k].phase = S.keys[k].phase /\ T.keys[k].waiting = S.keys[k].waiting
             /\ T.keys[k].held = S.keys[k].held /\ T.keys[k].last = S.keys[k].last
             /\ T.keys[k].owned = S.keys[k].owned
             /\ \A n \in 1 .. Len(T.keys[k].cache) : \E m \in 1 .. Len(S.keys[k].cache) :
                  T.keys[k].cache[n] = S.keys[k].cache[m]
  <2>1. S.keys[k] \in KeyType /\ KeyGood(S.keys[k], S.stream.tail) BY Naturals DEF Good, GoodKey
  <2>2. T.keys[k] = KeptKey(S.keys[k]) BY <1>1 DEF KeptKey
  <2>3. KeyGood(S.keys[k], T.stream.tail) BY <1>1, <2>1
  <2> QED BY <2>1, <2>2, <2>3, KeptGood
<1>3. GoodStream(T) BY <1>1, <1>2 DEF Good, GoodStream
<1>4. ASSUME NEW k \in Keys PROVE GoodKey(T, k) /\ GoodCache(T, o, k)
  <2>1. GoodKey(S, k) /\ GoodCache(S, o, k) BY DEF Good
  <2>2. GoodKey(T, k) BY <1>1, <1>2, <2>1 DEF GoodKey, WaitersGood
  <2>3. GoodCache(T, o, k) BY <1>1, <1>2, <2>1 DEF GoodCache
  <2> QED BY <2>2, <2>3
<1>5. ASSUME NEW r \in Roles PROVE GoodPlayer(T, o, r)
  <2>1. GoodPlayer(S, o, r) /\ S.players[r].format \in Keys BY Naturals DEF Good
  <2>2. Waiting(T, r) <=> Waiting(S, r) BY <1>1, <1>2, <2>1 DEF Waiting
  <2>3. InPipeline(T, r) <=> InPipeline(S, r) BY <1>1 DEF InPipeline
  <2>4. ASSUME Abreast(S, o, r) PROVE Abreast(T, o, r)
    <3>1. T.players = S.players /\ T.unwound = S.unwound /\ T.stream.tail = S.stream.tail BY <1>1
    <3> DEFINE k == S.players[r].format
    <3>2. /\ T.keys[k].phase = S.keys[k].phase /\ T.keys[k].held = S.keys[k].held
          /\ T.keys[k].last = S.keys[k].last
      BY <1>2, <2>1
    <3> HIDE DEF k
    <3>3. k = S.players[r].format BY DEF k
    <3> QED BY <2>4, <3>1, <3>2, <3>3, AbreastKept
  <2> QED BY <1>1, <1>2, <2>1, <2>2, <2>3, <2>4 DEF GoodPlayer
<1>6. \A r \in Roles : Faultless(T.players[r]) BY <1>1 DEF Good
<1>7. \A j \in 1 .. Commits : OpGood(T, o[j], {})
  <2>1. \A k \in Keys : EasesKey(S.keys[k], T.keys[k]) BY <1>2, Naturals DEF EasesKey
  <2>2. \A r \in Roles : EasesPlayer(S, T, {}, {}, r) BY <1>1 DEF EasesPlayer, InPipeline
  <2>3. Eases(S, T, {}, {}) BY <1>1, <2>1, <2>2, Naturals DEF Eases
  <2> QED BY <1>1, <2>3, OpEases DEF Good
<1>8. Good(T, o, {}) BY <1>3, <1>4, <1>5, <1>6, <1>7 DEF Good
<1> QED BY <1>8 DEF T

LEMMA OrderEnds ==
  ASSUME NEW o \in [1 .. Commits -> OpType], NEW q \in Seq(1 .. Commits), InOrder(o, q),
         NEW i \in 1 .. Commits, \A n \in 1 .. Len(q) : q[n] = i => n = 1
  PROVE  InOrder([o EXCEPT ![i] = NoOp], IF q # <<>> /\ Head(q) = i THEN Tail(q) ELSE q)
<1> DEFINE u == [o EXCEPT ![i] = NoOp]
           p == IF q # <<>> /\ Head(q) = i THEN Tail(q) ELSE q
           d == IF q # <<>> /\ Head(q) = i THEN 1 ELSE 0
<1>1. u[i] = NoOp /\ \A j \in 1 .. Commits : j # i => u[j] = o[j] OBVIOUS
<1>2. NoOp.stage = "none" /\ NoOp.kind = "commit" BY DEF NoOp
<1>3. /\ d \in Nat /\ Len(p) \in Nat
      /\ \A n \in 1 .. Len(p) :
           /\ n + d \in 1 .. Len(q) /\ p[n] = q[n + d] /\ p[n] # i /\ p[n] \in 1 .. Commits
  <2>0. Len(q) \in Nat /\ \A n \in 1 .. Len(q) : q[n] \in 1 .. Commits BY Elements
  <2>1. CASE q # <<>> /\ Head(q) = i
    <3>1. /\ Len(Tail(q)) = Len(q) - 1 /\ Len(q) \in Nat \ {0}
          /\ \A n \in 1 .. Len(Tail(q)) : Tail(q)[n] = q[n + 1]
      BY <2>1, Tailed
    <3>2. p = Tail(q) /\ d = 1 BY <2>1
    <3> HIDE DEF p, d
    <3> QED BY <2>0, <3>1, <3>2
  <2>2. CASE ~(q # <<>> /\ Head(q) = i)
    <3>1. \A n \in 1 .. Len(q) : q[n] # i
      <4> SUFFICES ASSUME NEW n \in 1 .. Len(q), q[n] = i PROVE FALSE OBVIOUS
      <4>1. q # <<>> /\ q[1] = i BY <2>0
      <4> QED BY <2>2, <4>1, Tailed
    <3>2. p = q /\ d = 0 BY <2>2
    <3> HIDE DEF p, d
    <3> QED BY <2>0, <3>1, <3>2
  <2> QED BY <2>1, <2>2
<1> SUFFICES InOrder(u, p) OBVIOUS
<1> HIDE DEF u, p, d
<1>4. \A n \in 1 .. Len(p) : u[p[n]] = o[q[n + d]] BY <1>1, <1>3
<1>5. \A j \in 1 .. Commits : u[j].stage = "none" => u[j].kind = "commit"
  BY <1>1, <1>2 DEF InOrder
<1>6. ASSUME NEW m \in 1 .. Len(p), NEW n \in 1 .. Len(p), m < n,
             u[p[m]].live, u[p[n]].live, u[p[m]].kind = "commit", u[p[n]].kind = "commit"
      PROVE  u[p[m]].ts < u[p[n]].ts
  <2>1. m + d < n + d /\ m + d \in 1 .. Len(q) /\ n + d \in 1 .. Len(q) BY <1>3, <1>6
  <2>2. u[p[m]] = o[q[m + d]] /\ u[p[n]] = o[q[n + d]] BY <1>4
  <2> QED BY <1>6, <2>1, <2>2 DEF InOrder
<1>7. ASSUME NEW j \in 1 .. Commits, u[j].live, u[j].stage = "yield"
      PROVE  /\ \A n \in 1 .. Len(p) :
                  u[p[n]].live /\ u[p[n]].kind = "commit" => u[p[n]].ts < u[j].ts
             /\ \A x \in 1 .. Commits : u[x].live /\ u[x].stage \in {"load", "yield"} => x = j
  <2>1. j # i /\ u[j] = o[j] BY <1>1, <1>2, <1>7
  <2>2. ASSUME NEW n \in 1 .. Len(p), u[p[n]].live, u[p[n]].kind = "commit"
        PROVE  u[p[n]].ts < u[j].ts
    <3>1. n + d \in 1 .. Len(q) /\ u[p[n]] = o[q[n + d]] BY <1>3, <1>4
    <3> QED BY <1>7, <2>1, <2>2, <3>1 DEF InOrder
  <2>3. ASSUME NEW x \in 1 .. Commits, u[x].live, u[x].stage \in {"load", "yield"}
        PROVE  x = j
    <3>1. x # i /\ u[x] = o[x] BY <1>1, <1>2, <2>3
    <3> QED BY <1>7, <2>1, <2>3, <3>1 DEF InOrder
  <2> QED BY <2>2, <2>3
<1> QED BY <1>5, <1>6, <1>7 DEF InOrder

\* An operation that joins the queue comes after the commits before it.
Follows(o, q, i, op) ==
  op.live /\ op.kind = "commit" =>
    /\ \A n \in 1 .. Len(q) : o[q[n]].live /\ o[q[n]].kind = "commit" => o[q[n]].ts < op.ts
    /\ \A j \in 1 .. Commits : j # i /\ o[j].live => o[j].stage # "yield"

LEMMA OrderContinues ==
  ASSUME NEW o \in [1 .. Commits -> OpType], NEW q \in Seq(1 .. Commits), InOrder(o, q),
         NEW i \in 1 .. Commits, NEW op \in OpType, op.stage \notin {"none", "load", "yield"},
         (\E n \in 1 .. Len(q) : q[n] = i) =>
           op.kind = o[i].kind /\ op.ts = o[i].ts /\ (op.live => o[i].live),
         (\A n \in 1 .. Len(q) : q[n] # i) => Follows(o, q, i, op)
  PROVE  InOrder([o EXCEPT ![i] = op],
                 IF \E n \in 1 .. Len(q) : q[n] = i THEN q ELSE Append(q, i))
<1> DEFINE u == [o EXCEPT ![i] = op]
           p == IF \E n \in 1 .. Len(q) : q[n] = i THEN q ELSE Append(q, i)
<1>1. u[i] = op /\ \A j \in 1 .. Commits : j # i => u[j] = o[j] OBVIOUS
<1>2. Len(q) \in Nat /\ \A n \in 1 .. Len(q) : q[n] \in 1 .. Commits BY Elements
<1> SUFFICES InOrder(u, p) OBVIOUS
<1> HIDE DEF u
<1>3. \A j \in 1 .. Commits : u[j].stage = "none" => u[j].kind = "commit"
  BY <1>1 DEF InOrder
<1>4. CASE \E n \in 1 .. Len(q) : q[n] = i
  <2>1. p = q BY <1>4
  <2>2. \A n \in 1 .. Len(q) : u[q[n]].live /\ u[q[n]].kind = "commit" =>
          o[q[n]].live /\ o[q[n]].kind = "commit" /\ o[q[n]].ts = u[q[n]].ts
    BY <1>1, <1>2, <1>4
  <2>3. ASSUME NEW m \in 1 .. Len(q), NEW n \in 1 .. Len(q), m < n,
               u[q[m]].live, u[q[n]].live, u[q[m]].kind = "commit", u[q[n]].kind = "commit"
        PROVE  u[q[m]].ts < u[q[n]].ts
    BY <2>2, <2>3 DEF InOrder
  <2>4. ASSUME NEW j \in 1 .. Commits, u[j].live, u[j].stage = "yield"
        PROVE  /\ \A n \in 1 .. Len(q) :
                    u[q[n]].live /\ u[q[n]].kind = "commit" => u[q[n]].ts < u[j].ts
               /\ \A x \in 1 .. Commits : u[x].live /\ u[x].stage \in {"load", "yield"} => x = j
    <3>1. j # i /\ u[j] = o[j] BY <1>1, <2>4
    <3> QED BY <1>1, <2>2, <2>4, <3>1 DEF InOrder
  <2> HIDE DEF p
  <2> QED BY <1>3, <2>1, <2>3, <2>4 DEF InOrder
<1>5. CASE \A n \in 1 .. Len(q) : q[n] # i
  <2>1. p = Append(q, i) BY <1>5
  <2>2. /\ Len(p) = Len(q) + 1 /\ p[Len(q) + 1] = i
        /\ \A n \in 1 .. Len(q) : p[n] = q[n] /\ u[p[n]] = o[q[n]]
    BY <1>1, <1>2, <1>5, <2>1, Appended
  <2> HIDE DEF p
  <2>3. Follows(o, q, i, op) BY <1>5
  <2>4. ASSUME NEW m \in 1 .. Len(p), NEW n \in 1 .. Len(p), m < n,
               u[p[m]].live, u[p[n]].live, u[p[m]].kind = "commit", u[p[n]].kind = "commit"
        PROVE  u[p[m]].ts < u[p[n]].ts
    <3>1. m \in 1 .. Len(q) BY <1>2, <2>2, <2>4
    <3>2. CASE n \in 1 .. Len(q) BY <2>2, <2>4, <3>1, <3>2 DEF InOrder
    <3>3. CASE n = Len(q) + 1
      <4>1. u[p[n]] = op BY <1>1, <2>2, <3>3
      <4> QED BY <2>2, <2>3, <2>4, <3>1, <4>1 DEF Follows
    <3> QED BY <1>2, <2>2, <3>2, <3>3
  <2>5. ASSUME NEW j \in 1 .. Commits, u[j].live, u[j].stage = "yield"
        PROVE  /\ \A n \in 1 .. Len(p) :
                    u[p[n]].live /\ u[p[n]].kind = "commit" => u[p[n]].ts < u[j].ts
               /\ \A x \in 1 .. Commits : u[x].live /\ u[x].stage \in {"load", "yield"} => x = j
    <3>1. j # i /\ u[j] = o[j] BY <1>1, <2>5
    <3>2. ~(op.live /\ op.kind = "commit") BY <2>3, <2>5, <3>1 DEF Follows
    <3>3. ASSUME NEW n \in 1 .. Len(p), u[p[n]].live, u[p[n]].kind = "commit"
          PROVE  u[p[n]].ts < u[j].ts
      <4>1. n \in 1 .. Len(q)
        <5>1. n # Len(q) + 1 BY <1>1, <2>2, <3>2, <3>3
        <5> QED BY <1>2, <2>2, <5>1
      <4> QED BY <2>2, <2>5, <3>1, <3>3, <4>1 DEF InOrder
    <3>4. \A x \in 1 .. Commits : u[x].live /\ u[x].stage \in {"load", "yield"} => x = j
      BY <1>1, <2>5, <3>1 DEF InOrder
    <3> QED BY <3>3, <3>4
  <2> QED BY <1>3, <2>4, <2>5 DEF InOrder
<1> QED BY <1>4, <1>5

LEMMA EndsSent ==
  ASSUME IInv, SentInv, Explored, NEW i \in 1 .. Commits, NEW S \in StateType, Sound(S),
         Ends(i, S), \A n \in 1 .. Len(queue) : queue[n] = i => n = 1,
         Good(S, [ops EXCEPT ![i] = NoOp], {})
  PROVE  SentInv'
<1> DEFINE T == IF Underway \subseteq {i} THEN JoinsReleased(S) ELSE S
           u == [ops EXCEPT ![i] = NoOp]
<1>1. /\ ops \in [1 .. Commits -> OpType] /\ queue \in Seq(1 .. Commits)
      /\ now \in 0 .. MaxTime /\ DOMAIN ops = 1 .. Commits
  BY InvFacts
<1>2. /\ u \in [1 .. Commits -> OpType] /\ u[i] = NoOp
      /\ \A j \in 1 .. Commits : j # i => u[j] = ops[j]
  BY <1>1, Defaults
<1>3. /\ ops' = u /\ Becomes(T)
      /\ queue' = IF queue # <<>> /\ Head(queue) = i THEN Tail(queue) ELSE queue
  BY DEF Ends
<1>4. InOrder(ops, queue) BY SentFacts
<1>5. InOrder(ops', queue')
  <2>1. InOrder([ops EXCEPT ![i] = NoOp],
                IF queue # <<>> /\ Head(queue) = i THEN Tail(queue) ELSE queue)
    BY <1>1, <1>4, OrderEnds
  <2> QED BY <1>3, <2>1
<1> HIDE DEF u
<1>6. T \in StateType /\ Good(T, u, {})
  <2>0. Good(S, u, {}) BY DEF u
  <2>1. CASE Underway \subseteq {i}
    <3>1. Idling(u)
      <4>1. \A j \in 1 .. Commits : j # i => ops[j].stage = "none"
        BY <1>1, <2>1 DEF Underway
      <4> QED BY <1>2, <4>1 DEF Idling, NoOp
    <3>2. Good(JoinsReleased(S), u, {}) BY <1>1, <1>2, <2>0, <3>1, JoinsReleasedGood
    <3>3. JoinsReleased(S) \in StateType BY <1>1, JoinsReleasedSteps DEF Steps
    <3> QED BY <2>1, <3>2, <3>3
  <2>2. CASE ~(Underway \subseteq {i}) BY <2>0, <2>2
  <2> QED BY <2>1, <2>2
<1> HIDE DEF T
<1>7. State' = T /\ players' = T.players BY <1>3, <1>6, BecomesIs
<1>8. \A r \in Roles : Faultless(players'[r]) BY <1>6, <1>7 DEF Good
<1> QED BY <1>3, <1>5, <1>6, <1>7, <1>8 DEF SentInv

LEMMA ContinuesSent ==
  ASSUME IInv, SentInv, Explored, NEW i \in 1 .. Commits, NEW op \in OpType,
         NEW S \in StateType, Continues(i, op, S), Good(S, [ops EXCEPT ![i] = op], {}),
         op.stage \notin {"none", "load", "yield"},
         (\E n \in 1 .. Len(queue) : queue[n] = i) =>
           op.kind = ops[i].kind /\ op.ts = ops[i].ts /\ (op.live => ops[i].live),
         (\A n \in 1 .. Len(queue) : queue[n] # i) => Follows(ops, queue, i, op)
  PROVE  SentInv'
<1>1. ops \in [1 .. Commits -> OpType] /\ queue \in Seq(1 .. Commits) BY InvFacts
<1>2. /\ ops' = [ops EXCEPT ![i] = op] /\ Becomes(S)
      /\ queue' = IF \E n \in 1 .. Len(queue) : queue[n] = i THEN queue ELSE Append(queue, i)
  <2>1. DOMAIN queue = 1 .. Len(queue) BY <1>1
  <2> QED BY <2>1 DEF Continues
<1>3. InOrder(ops, queue) BY SentFacts
<1>4. InOrder([ops EXCEPT ![i] = op],
              IF \E n \in 1 .. Len(queue) : queue[n] = i THEN queue ELSE Append(queue, i))
  BY <1>1, <1>3, OrderContinues
<1>5. State' = S /\ players' = S.players BY <1>2, BecomesIs
<1>6. Good(State', ops', {}) /\ InOrder(ops', queue') BY <1>2, <1>4, <1>5
<1>7. \A r \in Roles : Faultless(players'[r]) BY <1>5 DEF Good
<1> QED BY <1>6, <1>7 DEF SentInv

LEMMA StaysGood ==
  ASSUME NEW S \in StateType, NEW o \in [1 .. Commits -> OpType], Good(S, o, {}),
         NEW i \in 1 .. Commits, NEW op \in OpType, OpGood(S, op, {}),
         ~(op.live /\ op.stage = "deliver"),
         Awaits(op) => (Awaits(o[i]) /\ o[i].ts = op.ts) \/ S.stream.tail <= op.ts
  PROVE  Good(S, [o EXCEPT ![i] = op], {})
<1>1. S.stream.tail <= S.stream.tail BY Naturals
<1>2. \A m \in S.stream.pcm : m < S.stream.tail BY DEF Good, GoodStream
<1> QED BY <1>1, <1>2, GrownGood

LEMMA EndedGood ==
  ASSUME NEW S \in StateType, NEW o \in [1 .. Commits -> OpType], Good(S, o, {}),
         NEW i \in 1 .. Commits
  PROVE  Good(S, [o EXCEPT ![i] = NoOp], {})
<1>1. NoOp \in OpType /\ NoOp.stage = "none" BY Defaults DEF NoOp
<1> QED BY <1>1, StaysGood DEF OpGood, Awaits, Before

\* The operation about to have the lock, as one that waits for it.
AtLock(op) == [op EXCEPT !.stage = "wait"]

LEMMA AtLockFacts ==
  ASSUME NEW op \in OpType
  PROVE  /\ AtLock(op) \in OpType /\ AtLock(op).stage = "wait"
         /\ AtLock(op).kind = op.kind /\ AtLock(op).ts = op.ts /\ AtLock(op).live = op.live
BY DEF AtLock, OpType, Stages

Queues(i, op) ==
  /\ (\E n \in 1 .. Len(queue) : queue[n] = i) =>
       op.kind = ops[i].kind /\ op.ts = ops[i].ts /\ (op.live => ops[i].live)
  /\ (\A n \in 1 .. Len(queue) : queue[n] # i) => Follows(ops, queue, i, op)

LEMMA AcquiredSent ==
  ASSUME IInv, SentInv, Explored, NEW i \in 1 .. Commits, NEW op \in OpType, NEW S, Moved(S),
         Acquired(i, op, S), \A n \in 1 .. Len(queue) : queue[n] = i => n = 1,
         Good(S, [ops EXCEPT ![i] = AtLock(op)], {}), Queues(i, op)
  PROVE  SentInv'
<1> DEFINE all == {<<r, S.players[r].format>> : r \in Active(S) \union Reattached(S)}
           flushed == {g \in all : S.keys[g[2]].phase # "catching"}
           formats == {g[2] : g \in flushed}
           op1 == [op EXCEPT !.stage = "resample", !.group = all]
           op2 == [op EXCEPT !.stage = "encode", !.group = flushed, !.todo = formats]
           T == [S EXCEPT !.stream.flush = "done"]
           w == AtLock(op)
           o == [ops EXCEPT ![i] = w]
<1>0. S \in StateType /\ Sound(S) BY DEF Moved
<1>1. ops \in [1 .. Commits -> OpType] /\ now \in Nat BY InvFacts
<1>2. /\ w \in OpType /\ w.stage = "wait" /\ w.kind = op.kind /\ w.ts = op.ts
      /\ w.live = op.live
  BY AtLockFacts
<1>3. all \in SUBSET (Roles \X Keys)
  <2>1. \A r \in Roles : S.players[r].format \in Keys BY <1>0 DEF StateType, PlayerType
  <2> QED BY <2>1 DEF Active, Reattached
<1>4. \A g \in all : S.players[g[1]].format = g[2] OBVIOUS
<1>5. flushed \in SUBSET (Roles \X Keys) /\ formats \in SUBSET Keys /\ flushed \subseteq all
      /\ \A k \in formats : S.keys[k].phase # "catching"
  <2> HIDE DEF all
  <2> QED BY <1>3
<1>6. \/ ~op.live /\ Ends(i, S)
      \/ op.live /\ op.kind = "commit" /\ Ends(i, Pruned(S))
      \/ op.live /\ op.kind = "commit" /\ Continues(i, op1, S)
      \/ op.live /\ op.kind # "commit" /\ Ends(i, T)
      \/ op.live /\ op.kind # "commit" /\ Continues(i, op2, T)
  <2> HIDE DEF T
  <2>1. CASE ~op.live BY <2>1 DEF Acquired
  <2>2. CASE op.live /\ op.kind = "commit" BY <2>2 DEF Acquired
  <2>3. CASE op.live /\ op.kind # "commit"
    <3>1. CASE flushed = {} BY <2>3, <3>1, Zenon DEF Acquired, T
    <3>2. CASE flushed # {} BY <2>3, <3>2, Zenon DEF Acquired, T
    <3> QED BY <3>1, <3>2
  <2> QED BY <2>1, <2>2, <2>3
<1> HIDE DEF all, flushed, formats, w
<1>7. /\ o \in [1 .. Commits -> OpType] /\ o[i] = w
      /\ \A j \in 1 .. Commits : j # i => o[j] = ops[j]
      /\ \A x \in OpType : [o EXCEPT ![i] = x] = [ops EXCEPT ![i] = x]
      /\ Good(S, o, {})
  BY <1>1, <1>2 DEF w
<1>8. op.stage \in Stages /\ op.kind \in {"commit", "flush"} BY DEF OpType
<1>9. /\ op1 \in OpType /\ op1.stage = "resample" /\ op1.kind = op.kind /\ op1.ts = op.ts
      /\ op1.live = op.live /\ op1.group = all
  BY <1>3 DEF OpType, Stages
<1>10. /\ op2 \in OpType /\ op2.stage = "encode" /\ op2.kind = op.kind /\ op2.ts = op.ts
       /\ op2.live = op.live /\ op2.group = flushed /\ op2.todo = formats
  BY <1>5 DEF OpType, Stages
<1> HIDE DEF op1, op2, o
<1>11. OpGood(S, w, {}) BY <1>7 DEF Good
<1>12. NoOp \in OpType BY Defaults
<1>13. Good(S, [ops EXCEPT ![i] = NoOp], {}) BY <1>0, <1>7, <1>12, EndedGood
<1>14. CASE Ends(i, S) BY <1>0, <1>13, <1>14, EndsSent
<1>15. CASE Ends(i, Pruned(S))
  <2>1. Pruned(S) \in StateType /\ Sound(Pruned(S)) BY <1>0, <1>1, PrunedFacts
  <2>2. [ops EXCEPT ![i] = NoOp] \in [1 .. Commits -> OpType] BY <1>1, <1>12
  <2>3. Good(Pruned(S), [ops EXCEPT ![i] = NoOp], {}) BY <1>0, <1>1, <1>13, <2>2, PrunedGood
  <2> QED BY <1>15, <2>1, <2>3, EndsSent
<1>16. CASE op.live /\ op.kind = "commit" /\ Continues(i, op1, S)
  <2>1. Grouped(S, op1, {}) BY <1>4, <1>9 DEF Grouped
  <2>2. OpGood(S, op1, {}) BY <1>2, <1>9, <1>11, <1>16, <2>1 DEF OpGood
  <2>3. Awaits(op1) => Awaits(o[i]) /\ o[i].ts = op1.ts
    BY <1>2, <1>7, <1>9 DEF Awaits, Before
  <2>4. Good(S, [o EXCEPT ![i] = op1], {}) BY <1>0, <1>7, <1>9, <2>2, <2>3, StaysGood
  <2>5. Good(S, [ops EXCEPT ![i] = op1], {}) BY <1>7, <1>9, <2>4
  <2>6. Queues(i, op1) BY <1>9 DEF Queues, Follows
  <2> QED BY <1>0, <1>9, <1>16, <2>5, <2>6, ContinuesSent DEF Queues
<1>17. CASE op.live /\ op.kind # "commit" /\ (Ends(i, T) \/ Continues(i, op2, T))
  <2>1. /\ T \in StateType /\ T.stream.tail = S.stream.tail /\ T.stream.pcm = S.stream.pcm
        /\ T.stream.flush = "done" /\ T.players = S.players /\ T.keys = S.keys
        /\ T.unwound = S.unwound /\ Sound(T)
    <3> DEFINE st == [S.stream EXCEPT !.flush = "done"]
    <3>1. S.stream \in StreamType BY <1>0, Naturals
    <3>2. /\ st \in StreamType /\ st.stopped = S.stream.stopped /\ st.tail = S.stream.tail
          /\ st.pcm = S.stream.pcm /\ st.flush = "done"
      BY <3>1 DEF StreamType
    <3>3. T = [S EXCEPT !.stream = st] BY <1>0 DEF StateType
    <3> HIDE DEF st, T
    <3>4. /\ Moved(T) /\ T.stream = st /\ T.players = S.players /\ T.keys = S.keys
          /\ T.unwound = S.unwound
      BY <3>2, <3>3, MovedStream
    <3> QED BY <3>2, <3>4 DEF Moved
  <2> HIDE DEF T
  <2>2. op.kind = "flush" /\ S.stream.flush # "no"
    BY <1>2, <1>8, <1>11, <1>17 DEF OpGood
  <2>3. /\ S.stream.tail <= T.stream.tail /\ \A m \in T.stream.pcm : m < T.stream.tail
        /\ S.stream.flush # "no" <=> T.stream.flush # "no"
    BY <1>0, <1>7, <2>1, <2>2, Naturals DEF Good, GoodStream
  <2>4. ASSUME NEW x \in OpType, OpGood(T, x, {}), ~(x.live /\ x.stage = "deliver"), ~Awaits(x)
        PROVE  Good(T, [ops EXCEPT ![i] = x], {})
    <3>1. Good(T, [o EXCEPT ![i] = x], {}) BY <1>0, <1>7, <2>1, <2>3, <2>4, GrownGood
    <3> QED BY <1>7, <3>1
  <2>5. CASE Ends(i, T)
    <3>1. NoOp.stage = "none" BY DEF NoOp
    <3>2. Good(T, [ops EXCEPT ![i] = NoOp], {})
      BY <1>12, <2>4, <3>1 DEF OpGood, Awaits, Before
    <3> QED BY <2>1, <2>5, <3>2, EndsSent
  <2>6. CASE Continues(i, op2, T)
    <3>1. Grouped(T, op2, {}) BY <1>4, <1>5, <1>10, <2>1 DEF Grouped
    <3>2. \A k \in op2.todo : Chosen(T, op2, k) BY <1>5, <1>10, <2>1, <2>2 DEF Chosen
    <3>3. OpGood(T, op2, {}) BY <1>10, <2>1, <2>2, <3>1, <3>2 DEF OpGood
    <3>4. ~Awaits(op2) BY <1>10, <2>2 DEF Awaits
    <3>5. Good(T, [ops EXCEPT ![i] = op2], {}) BY <1>10, <2>4, <3>3, <3>4
    <3>6. Queues(i, op2) BY <1>10 DEF Queues, Follows
    <3> QED BY <1>10, <2>1, <2>6, <3>5, <3>6, ContinuesSent DEF Queues
  <2> QED BY <1>17, <2>5, <2>6
<1> QED BY <1>6, <1>14, <1>15, <1>16, <1>17

LEMMA LocksSent ==
  ASSUME IInv, SentInv, Explored, NEW i \in 1 .. Commits, NEW op \in OpType, NEW S, Moved(S),
         Locks(i, op, S), \A n \in 1 .. Len(queue) : queue[n] = i => n = 1,
         Good(S, [ops EXCEPT ![i] = AtLock(op)], {}), Queues(i, op)
  PROVE  SentInv'
<1>1. CASE queue = <<>>
  <2>1. Acquired(i, op, S) BY <1>1 DEF Locks
  <2> QED BY <2>1, AcquiredSent
<1>2. CASE queue # <<>>
  <2>1. Continues(i, AtLock(op), S) BY <1>2 DEF Locks, AtLock
  <2>2. S \in StateType BY DEF Moved
  <2> DEFINE w == AtLock(op)
  <2>3. /\ w \in OpType /\ w.stage = "wait" /\ w.kind = op.kind /\ w.ts = op.ts
        /\ w.live = op.live
    BY AtLockFacts
  <2>4. Good(S, [ops EXCEPT ![i] = w], {}) OBVIOUS
  <2>5. Continues(i, w, S) BY <2>1
  <2> HIDE DEF w
  <2>6. Queues(i, w) BY <2>3 DEF Queues, Follows
  <2> QED BY <2>2, <2>3, <2>4, <2>5, <2>6, ContinuesSent DEF Queues
<1> QED BY <1>1, <1>2

\* What is placed comes after all that was.
LEMMA TailFollows ==
  ASSUME IInv, SentInv, Explored, NEW i \in 1 .. Commits,
         \A n \in 1 .. Len(queue) : queue[n] # i, NEW op, op.ts \in Nat, stream.tail <= op.ts,
         \A j \in 1 .. Commits : j # i /\ ops[j].live => ops[j].stage # "yield"
  PROVE  /\ Queues(i, op)
         /\ \A n \in 1 .. Len(queue) :
              ops[queue[n]].live /\ ops[queue[n]].kind = "commit" => ops[queue[n]].ts < op.ts
<1>1. /\ queue \in Seq(1 .. Commits) /\ ops \in [1 .. Commits -> OpType]
      /\ stream.tail \in Nat /\ QueueInv
  BY InvFacts DEF IInv
<1>2. ASSUME NEW n \in 1 .. Len(queue), ops[queue[n]].live, ops[queue[n]].kind = "commit"
      PROVE  ops[queue[n]].ts < op.ts
  <2> DEFINE x == ops[queue[n]]
  <2>1. queue[n] \in 1 .. Commits BY <1>1, Elements
  <2>2. x.stage \in {"wait"} \union Past BY <1>1 DEF QueueInv
  <2>3. OpGood(State, x, {}) BY <2>1, SentFacts DEF Good
  <2>4. x.ts < stream.tail BY <1>2, <2>2, <2>3, StateIs DEF OpGood, Past
  <2>5. x.ts \in Nat BY <1>1, <2>1, EndFacts DEF OpType
  <2> QED BY <1>1, <2>4, <2>5
<1> QED BY <1>2 DEF Queues, Follows

LEMMA PlacedSent ==
  ASSUME IInv, SentInv, Explored, NEW i \in 1 .. Commits, Placed(i, State),
         stream.flush = "no",
         \/ ops[i].stage = "none" /\ stream.tail < MaxTail /\ now + Lead < MaxTail
         \/ ops[i].stage = "load",
         \A j \in 1 .. Commits : j # i /\ ops[j].live => ops[j].stage # "yield"
  PROVE  SentInv'
<1> DEFINE ts == PlacedAt
           st == [stream EXCEPT !.tail = ts + 1, !.pcm = @ \union {ts}]
           T == [State EXCEPT !.stream = st]
           op == [ops[i] EXCEPT !.kind = "commit", !.ts = ts]
           op1 == [op EXCEPT !.stage = "yield"]
<1>0. /\ State \in StateType /\ ops \in [1 .. Commits -> OpType] /\ ops[i] \in OpType
      /\ stream \in StreamType /\ stream.tail \in Nat /\ queue \in Seq(1 .. Commits)
  BY InvFacts
<1>1. ts \in Chunk /\ ts \in Label /\ ts \in Nat /\ ts + 1 \in Instant /\ stream.tail <= ts
  BY PlacedFacts
<1>2. \/ /\ \E k \in Keys : keys[k].owned
         /\ ops' = [ops EXCEPT ![i] = op1] /\ UNCHANGED queue /\ Becomes(T)
      \/ Locks(i, op, T)
  <2>1. [State EXCEPT !.stream.tail = ts + 1, !.stream.pcm = @ \union {ts}] = T
    <3> HIDE DEF ts
    <3> QED BY <1>0, StateIs DEF StateType, StreamType
  <2> HIDE DEF T
  <2> QED BY <2>1, StateIs, Zenon DEF Placed, PlacedAt
<1> HIDE DEF ts
<1>3. /\ st \in StreamType /\ st.stopped = stream.stopped /\ st.tail = ts + 1
      /\ st.pcm = stream.pcm \union {ts} /\ st.flush = "no"
  BY <1>0, <1>1 DEF StreamType
<1> HIDE DEF st
<1>4. /\ Moved(T) /\ T \in StateType /\ T.stream = st /\ T.players = State.players
      /\ T.keys = State.keys /\ T.unwound = State.unwound
  <2>1. Moved(State) BY InvFacts
  <2>2. st.stopped = State.stream.stopped BY <1>3, StateIs
  <2> QED BY <1>3, <2>1, <2>2, MovedStream DEF Moved
<1>5. /\ op \in OpType /\ op.kind = "commit" /\ op.ts = ts /\ op.live = ops[i].live
  BY <1>0, <1>1 DEF OpType
<1>6. /\ op1 \in OpType /\ op1.stage = "yield" /\ op1.kind = "commit" /\ op1.ts = ts
      /\ op1.live = ops[i].live
  BY <1>5 DEF OpType, Stages
<1> HIDE DEF op, op1, T
<1>7. Good(State, ops, {}) /\ InOrder(ops, queue) BY SentFacts
<1>8. /\ State.stream.tail <= T.stream.tail /\ \A m \in T.stream.pcm : m < T.stream.tail
      /\ State.stream.flush # "no" <=> T.stream.flush # "no"
  <2>1. \A m \in stream.pcm : m < stream.tail /\ m \in Nat
    BY <1>0, <1>7, EndFacts, StateIs DEF Good, GoodStream, StreamType, Chunk
  <2> QED BY <1>0, <1>1, <1>3, <1>4, <2>1, StateIs
<1>9. ASSUME NEW x \in OpType, x.kind = "commit", x.ts = ts, x.stage \in {"yield", "wait"}
      PROVE  Good(T, [ops EXCEPT ![i] = x], {})
  <2>1. OpGood(T, x, {}) BY <1>1, <1>3, <1>4, <1>9 DEF OpGood
  <2>2. State.stream.tail <= x.ts BY <1>1, <1>9, StateIs
  <2> QED BY <1>0, <1>4, <1>7, <1>8, <1>9, <2>1, <2>2, GrownGood
<1>10. \A n \in 1 .. Len(queue) : queue[n] # i
  <2>1. ops[i].stage \notin {"wait"} \union Past BY DEF Past
  <2>2. QueueInv BY DEF IInv
  <2> QED BY <2>1, <2>2 DEF QueueInv
<1>11. CASE Locks(i, op, T)
  <2>1. Good(T, [ops EXCEPT ![i] = AtLock(op)], {}) BY <1>5, <1>9, AtLockFacts
  <2>2. Queues(i, op) BY <1>1, <1>5, <1>10, TailFollows
  <2> QED BY <1>4, <1>5, <1>10, <1>11, <2>1, <2>2, LocksSent
<1>12. CASE /\ \E k \in Keys : keys[k].owned
            /\ ops' = [ops EXCEPT ![i] = op1] /\ UNCHANGED queue /\ Becomes(T)
  <2> DEFINE u == [ops EXCEPT ![i] = op1]
  <2>1. Good(T, u, {}) BY <1>6, <1>9
  <2>2. u[i] = op1 /\ \A j \in 1 .. Commits : j # i => u[j] = ops[j] BY <1>0
  <2> HIDE DEF u
  <2>3. \A n \in 1 .. Len(queue) : u[queue[n]] = ops[queue[n]]
    BY <1>0, <1>10, <2>2, Elements
  <2>4. \A n \in 1 .. Len(queue) :
          ops[queue[n]].live /\ ops[queue[n]].kind = "commit" => ops[queue[n]].ts < op1.ts
    BY <1>1, <1>6, <1>10, TailFollows
  <2>5. ASSUME NEW j \in 1 .. Commits, u[j].live, u[j].stage = "yield"
        PROVE  /\ \A n \in 1 .. Len(queue) :
                    u[queue[n]].live /\ u[queue[n]].kind = "commit" => u[queue[n]].ts < u[j].ts
               /\ \A x \in 1 .. Commits : u[x].live /\ u[x].stage \in {"load", "yield"} => x = j
    <3>1. j = i BY <2>2, <2>5
    <3>2. ASSUME NEW x \in 1 .. Commits, x # i, u[x].live, u[x].stage \in {"load", "yield"}
          PROVE  FALSE
      <4>1. u[x] = ops[x] /\ ops[x].stage = "load" BY <2>2, <3>2
      <4>2. OpGood(State, ops[x], {}) BY <1>7 DEF Good
      <4>3. \A k \in Keys : ~keys[k].owned BY <3>2, <4>1, <4>2, StateIs DEF OpGood
      <4> QED BY <1>12, <4>3
    <3> QED BY <2>2, <2>3, <2>4, <3>1, <3>2
  <2>6. \A m, n \in 1 .. Len(queue) :
          /\ m < n /\ u[queue[m]].live /\ u[queue[n]].live
          /\ u[queue[m]].kind = "commit" /\ u[queue[n]].kind = "commit"
          => u[queue[m]].ts < u[queue[n]].ts
    BY <1>7, <2>3 DEF InOrder
  <2>7. \A j \in 1 .. Commits : u[j].stage = "none" => u[j].kind = "commit"
    BY <1>6, <1>7, <2>2 DEF InOrder
  <2>8. InOrder(u, queue) BY <2>5, <2>6, <2>7 DEF InOrder
  <2>9. State' = T /\ players' = T.players BY <1>4, <1>12, BecomesIs
  <2>10. ops' = u /\ queue' = queue BY <1>12 DEF u
  <2>11. \A r \in Roles : Faultless(players'[r]) BY <2>1, <2>9 DEF Good
  <2>12. Good(State', ops', {}) /\ InOrder(ops', queue') BY <2>1, <2>8, <2>9, <2>10
  <2> QED BY <2>11, <2>12 DEF SentInv
<1> QED BY <1>2, <1>11, <1>12

LEMMA CommitSent ==
  ASSUME IInv, SentInv, NEW i \in 1 .. Commits, Commit(i)
  PROVE  SentInv'
<1>1. /\ Explored /\ ops[i].stage = "none" /\ stream.flush = "no"
      /\ stream.tail < MaxTail /\ now + Lead < MaxTail
      /\ \A j \in Underway : ops[j].stage # "yield"
  BY DEF Commit, Turned
<1>2. \A j \in 1 .. Commits : ops[j].stage # "yield" BY <1>1, InvFacts DEF Underway
<1>3. CASE stream.tail # 0
  <2>1. Placed(i, State) BY <1>3 DEF Commit
  <2> QED BY <1>1, <1>2, <2>1, PlacedSent
<1>4. CASE stream.tail = 0
  <2> DEFINE op == [ops[i] EXCEPT !.stage = "load"]
             u == [ops EXCEPT ![i] = op]
  <2>1. u = ops' /\ UNCHANGED <<stream, keys, players, queue, unwound>>
    BY <1>4 DEF Commit
  <2>2. /\ ops \in [1 .. Commits -> OpType] /\ ops[i] \in OpType /\ State \in StateType
        /\ queue \in Seq(1 .. Commits) /\ QueueInv
    BY InvFacts DEF IInv
  <2>3. /\ op \in OpType /\ op.stage = "load" /\ op.kind = ops[i].kind
        /\ op.live = ops[i].live
    BY <2>2 DEF OpType, Stages
  <2> HIDE DEF op
  <2>4. u[i] = op /\ \A j \in 1 .. Commits : j # i => u[j] = ops[j] BY <2>2
  <2>5. Good(State, ops, {}) /\ InOrder(ops, queue) BY <1>1, SentFacts
  <2>6. op.kind = "commit" BY <1>1, <2>3, <2>5 DEF InOrder
  <2>7. \A k \in Keys : ~State.keys[k].owned BY <1>4, <2>5, StateIs DEF Good, GoodStream
  <2>8. OpGood(State, op, {}) BY <1>1, <2>3, <2>6, <2>7, StateIs DEF OpGood
  <2>9. Good(State, u, {}) BY <2>2, <2>3, <2>5, <2>8, StaysGood DEF Awaits, Before
  <2> HIDE DEF u
  <2>10. \A n \in 1 .. Len(queue) : u[queue[n]] = ops[queue[n]]
    <3>1. \A n \in 1 .. Len(queue) : queue[n] # i /\ queue[n] \in 1 .. Commits
      BY <1>1, <2>2, Elements DEF QueueInv, Past
    <3> QED BY <2>4, <3>1
  <2>11. \A j \in 1 .. Commits : u[j].stage # "yield" BY <1>2, <2>3, <2>4
  <2>12. \A j \in 1 .. Commits : u[j].stage = "none" => u[j].kind = "commit"
    BY <2>3, <2>4, <2>5 DEF InOrder
  <2>13. InOrder(u, queue) BY <2>5, <2>10, <2>11, <2>12 DEF InOrder
  <2>14. State' = State /\ UNCHANGED <<players, queue>> BY <2>1 DEF State
  <2>15. \A r \in Roles : Faultless(players'[r]) BY <2>14 DEF SentInv
  <2>16. Good(State', ops', {}) /\ InOrder(ops', queue') BY <2>1, <2>9, <2>13, <2>14
  <2> QED BY <2>15, <2>16 DEF SentInv
<1> QED BY <1>3, <1>4

LEMMA TickSent ==
  ASSUME IInv, SentInv, Tick
  PROVE  SentInv'
<1>1. Explored /\ UNCHANGED <<stream, keys, players, ops, queue, unwound>> BY DEF Tick, Turned
<1>2. State' = State /\ Explored' BY <1>1 DEF State, Explored
<1>3. Good(State, ops, {}) /\ InOrder(ops, queue) BY <1>1, SentFacts
<1>4. Good(State', ops', {}) /\ InOrder(ops', queue') BY <1>1, <1>2, <1>3
<1>5. \A r \in Roles : Faultless(players'[r]) BY <1>1 DEF SentInv
<1> QED BY <1>4, <1>5 DEF SentInv

LEMMA LoadedSent ==
  ASSUME IInv, SentInv, NEW i \in 1 .. Commits, Loaded(i)
  PROVE  SentInv'
<1>1. Explored /\ ops[i].stage = "load" BY DEF Loaded, Turned
<1>2. /\ Good(State, ops, {}) /\ InOrder(ops, queue) /\ ops \in [1 .. Commits -> OpType]
      /\ State \in StateType /\ Sound(State)
  BY <1>1, SentFacts, InvFacts
<1>3. CASE ops[i].live
  <2>1. Placed(i, State) BY <1>3 DEF Loaded
  <2>2. OpGood(State, ops[i], {}) BY <1>2 DEF Good
  <2>3. stream.flush = "no" BY <1>1, <1>3, <2>2, StateIs DEF OpGood
  <2>4. \A j \in 1 .. Commits : j # i /\ ops[j].live => ops[j].stage # "yield"
    BY <1>1, <1>2, <1>3 DEF InOrder
  <2> QED BY <1>1, <2>1, <2>3, <2>4, PlacedSent
<1>4. CASE ~ops[i].live
  <2>1. Ends(i, State) BY <1>4 DEF Loaded
  <2>2. \A n \in 1 .. Len(queue) : queue[n] = i => n = 1 BY <1>1, OpFacts DEF Past
  <2>3. Good(State, [ops EXCEPT ![i] = NoOp], {}) BY <1>2, EndedGood
  <2> QED BY <1>1, <1>2, <2>1, <2>2, <2>3, EndsSent
<1> QED BY <1>3, <1>4

\* An operation in progress is good at the lock as well.
LEMMA AtLockGood ==
  ASSUME IInv, SentInv, Explored, NEW i \in 1 .. Commits, ops[i].stage \in {"yield", "wait"}
  PROVE  Good(State, [ops EXCEPT ![i] = AtLock(ops[i])], {})
<1>1. /\ Good(State, ops, {}) /\ State \in StateType /\ ops \in [1 .. Commits -> OpType]
      /\ ops[i] \in OpType
  BY SentFacts, InvFacts
<1>2. OpGood(State, ops[i], {}) BY <1>1 DEF Good
<1> DEFINE w == AtLock(ops[i])
<1>3. /\ w \in OpType /\ w.stage = "wait" /\ w.kind = ops[i].kind /\ w.ts = ops[i].ts
      /\ w.live = ops[i].live
  BY <1>1, AtLockFacts
<1> HIDE DEF w
<1>4. OpGood(State, w, {}) BY <1>2, <1>3 DEF OpGood
<1>5. Awaits(w) => Awaits(ops[i]) /\ ops[i].ts = w.ts BY <1>3 DEF Awaits, Before
<1>6. Good(State, [ops EXCEPT ![i] = w], {}) BY <1>1, <1>3, <1>4, <1>5, StaysGood
<1> QED BY <1>6 DEF w

LEMMA YieldedSent ==
  ASSUME IInv, SentInv, NEW i \in 1 .. Commits, Yielded(i)
  PROVE  SentInv'
<1>1. Explored /\ ops[i].stage = "yield" /\ Locks(i, ops[i], State) BY DEF Yielded, Turned
<1>2. /\ InOrder(ops, queue) /\ ops[i] \in OpType /\ Moved(State)
  BY <1>1, SentFacts, InvFacts
<1>3. Good(State, [ops EXCEPT ![i] = AtLock(ops[i])], {}) BY <1>1, AtLockGood
<1>4. \A n \in 1 .. Len(queue) : queue[n] = i => n = 1 BY <1>1, OpFacts DEF Past
<1>5. Queues(i, ops[i]) BY <1>1, <1>2 DEF Queues, Follows, InOrder
<1> QED BY <1>1, <1>2, <1>3, <1>4, <1>5, LocksSent

LEMMA GrantedSent ==
  ASSUME IInv, SentInv, NEW i \in 1 .. Commits, Granted(i)
  PROVE  SentInv'
<1>1. Explored /\ ops[i].stage = "wait" /\ Head(queue) = i /\ Acquired(i, ops[i], State)
  BY DEF Granted, Turned
<1>2. /\ ops[i] \in OpType /\ Moved(State) /\ queue \in Seq(1 .. Commits) /\ QueueInv
  BY InvFacts DEF IInv
<1>3. Good(State, [ops EXCEPT ![i] = AtLock(ops[i])], {}) BY <1>1, AtLockGood
<1>4. \E n \in 1 .. Len(queue) : queue[n] = i BY <1>1, <1>2 DEF QueueInv
<1>5. \A n \in 1 .. Len(queue) : queue[n] = i => n = 1
  <2>1. queue # <<>> /\ Len(queue) \in Nat BY <1>2, <1>4
  <2>2. queue[1] = i /\ 1 \in 1 .. Len(queue) BY <1>1, <1>2, <2>1, Tailed
  <2> QED BY <1>2, <2>2 DEF QueueInv
<1>6. Queues(i, ops[i]) BY <1>4 DEF Queues
<1> QED BY <1>1, <1>2, <1>3, <1>5, <1>6, AcquiredSent

LEMMA FlushSent ==
  ASSUME IInv, SentInv, NEW i \in 1 .. Commits, Flush(i)
  PROVE  SentInv'
<1> DEFINE st == [stream EXCEPT !.flush = "asked"]
           S == [State EXCEPT !.stream = st]
           op == [NoOp EXCEPT !.kind = "flush"]
<1>1. Explored /\ Underway = {} BY DEF Flush, Turned
<1>2. Locks(i, op, S)
  <2>1. [State EXCEPT !.stream.flush = "asked"] = S BY DEF State
  <2> QED BY <2>1 DEF Flush
<1>3. \A j \in 1 .. Commits : ops[j].stage = "none" BY <1>1, InvFacts DEF Underway
<1>4. op \in OpType /\ op.kind = "flush" BY Defaults DEF OpType
<1>5. /\ stream \in StreamType /\ State \in StateType /\ ops \in [1 .. Commits -> OpType]
      /\ queue \in Seq(1 .. Commits) /\ Moved(State) /\ QueueInv /\ stream.tail \in Nat
  BY InvFacts DEF IInv
<1>6. /\ st \in StreamType /\ st.stopped = stream.stopped /\ st.tail = stream.tail
      /\ st.pcm = stream.pcm /\ st.flush = "asked"
  BY <1>5 DEF StreamType
<1> HIDE DEF st, op
<1>7. /\ Moved(S) /\ S \in StateType /\ S.stream = st /\ S.players = State.players
      /\ S.keys = State.keys /\ S.unwound = State.unwound
  <2>1. st.stopped = State.stream.stopped BY <1>6, StateIs
  <2> QED BY <1>5, <1>6, <2>1, MovedStream DEF Moved
<1> HIDE DEF S
<1>8. Good(State, ops, {}) BY <1>1, SentFacts
<1> DEFINE w == AtLock(op)
<1>9. /\ w \in OpType /\ w.stage = "wait" /\ w.kind = "flush" BY <1>4, AtLockFacts
<1> HIDE DEF w
<1>10. Good(S, [ops EXCEPT ![i] = w], {})
  <2>1. OpGood(S, w, {}) BY <1>6, <1>7, <1>9 DEF OpGood
  <2>2. ~Awaits(w) BY <1>9 DEF Awaits
  <2>3. /\ State.stream.tail <= S.stream.tail
        /\ \A m \in S.stream.pcm : m < S.stream.tail
    BY <1>5, <1>6, <1>7, <1>8, StateIs DEF Good, GoodStream
  <2> QED BY <1>3, <1>5, <1>7, <1>8, <1>9, <2>1, <2>2, <2>3, GrownGood
<1>11. Len(queue) = 0
  <2> SUFFICES ASSUME Len(queue) # 0 PROVE FALSE OBVIOUS
  <2>0. Len(queue) \in Nat BY <1>5
  <2>1. 1 \in 1 .. Len(queue) BY <2>0
  <2>2. queue[1] \in 1 .. Commits BY <1>5, <2>1, Elements
  <2> QED BY <1>3, <1>5, <2>1, <2>2 DEF QueueInv, Past
<1>12. Queues(i, op) BY <1>4, <1>11 DEF Queues, Follows
<1>13. \A n \in 1 .. Len(queue) : queue[n] = i => n = 1 BY <1>11
<1> QED BY <1>1, <1>2, <1>4, <1>7, <1>10, <1>12, <1>13, LocksSent DEF w

LEMMA ResampledSent ==
  ASSUME IInv, SentInv, NEW i \in 1 .. Commits, Resampled(i)
  PROVE  SentInv'
<1> DEFINE chosen == {h \in ops[i].group : keys[h[2]].phase # "catching"
                                           /\ keys[h[2]].last <= ops[i].ts}
           todo == {g[2] : g \in chosen}
           op == [ops[i] EXCEPT !.stage = "encode", !.todo = todo]
<1>1. /\ Explored /\ ops[i].stage = "resample"
      /\ IF ~ops[i].live THEN Ends(i, State)
         ELSE IF todo = {} THEN Ends(i, Pruned(State))
         ELSE Continues(i, op, State)
  BY DEF Resampled, Turned
<1>2. /\ ops[i] \in OpType /\ ops[i].stage \in Past
      /\ queue # <<>> /\ queue[1] = i /\ \A n \in 1 .. Len(queue) : queue[n] = i => n = 1
  BY <1>1, OpFacts DEF Past
<1>3. /\ Good(State, ops, {}) /\ State \in StateType /\ Sound(State) /\ now \in Nat
      /\ ops \in [1 .. Commits -> OpType] /\ queue \in Seq(1 .. Commits)
  BY <1>1, SentFacts, InvFacts
<1>4. todo \in SUBSET Keys
      /\ \A k \in todo : keys[k].phase # "catching" /\ keys[k].last <= ops[i].ts
  <2>1. ops[i].group \in SUBSET (Roles \X Keys) BY <1>2 DEF OpType
  <2>2. chosen \in SUBSET (Roles \X Keys) BY <2>1
  <2> QED BY <2>2
<1> HIDE DEF chosen, todo
<1>5. /\ op \in OpType /\ op.stage = "encode" /\ op.kind = ops[i].kind /\ op.ts = ops[i].ts
      /\ op.live = ops[i].live /\ op.group = ops[i].group /\ op.todo = todo
  BY <1>2, <1>4 DEF OpType, Stages
<1> HIDE DEF op
<1>6. Good(State, [ops EXCEPT ![i] = NoOp], {}) BY <1>3, EndedGood
<1>7. CASE ~ops[i].live BY <1>1, <1>2, <1>3, <1>6, <1>7, EndsSent
<1>8. CASE ops[i].live /\ todo = {}
  <2>1. Pruned(State) \in StateType /\ Sound(Pruned(State)) BY <1>3, PrunedFacts
  <2>2. [ops EXCEPT ![i] = NoOp] \in [1 .. Commits -> OpType] BY <1>3, Defaults
  <2>3. Good(Pruned(State), [ops EXCEPT ![i] = NoOp], {}) BY <1>3, <1>6, <2>2, PrunedGood
  <2> QED BY <1>1, <1>2, <1>8, <2>1, <2>3, EndsSent
<1>9. CASE ops[i].live /\ todo # {}
  <2>1. Continues(i, op, State) BY <1>1, <1>9
  <2>2. OpGood(State, ops[i], {}) BY <1>3 DEF Good
  <2>3. Grouped(State, op, {}) BY <1>1, <1>5, <1>9, <2>2 DEF OpGood, Grouped
  <2>4. \A k \in op.todo : Chosen(State, op, k) BY <1>4, <1>5, StateIs DEF Chosen
  <2>5. OpGood(State, op, {}) BY <1>1, <1>5, <1>9, <2>2, <2>3, <2>4 DEF OpGood
  <2>6. Awaits(op) => Awaits(ops[i]) /\ ops[i].ts = op.ts BY <1>1, <1>5 DEF Awaits, Before
  <2>7. Good(State, [ops EXCEPT ![i] = op], {}) BY <1>3, <1>5, <2>5, <2>6, StaysGood
  <2>8. \E n \in 1 .. Len(queue) : queue[n] = i
    <3>1. Len(queue) \in Nat \ {0} BY <1>2, <1>3, Tailed
    <3>2. 1 \in 1 .. Len(queue) BY <3>1
    <3> QED BY <1>2, <3>2
  <2> QED BY <1>1, <1>3, <1>5, <2>1, <2>7, <2>8, ContinuesSent
<1> QED BY <1>7, <1>8, <1>9

\* What came before an operation's step comes before what is left to come.
Abides(S, T, o, u, k) ==
  /\ T.keys[k].held # 0 => T.keys[k].last = T.keys[k].held + 1
  /\ T.keys[k].last <= T.stream.tail
  /\ \A s \in Nat :
       Fits(S.keys[k], S.stream.tail, s) /\ Clears(S.keys[k].last, o, k, s) =>
         Fits(T.keys[k], T.stream.tail, s) /\ Clears(T.keys[k].last, u, k, s)

LEMMA AbidesGood ==
  ASSUME NEW S \in StateType, NEW T \in StateType, NEW o, NEW u, Good(S, o, {}),
         S.unwound = {}, T.unwound = {}, T.stream = S.stream, T.players = S.players,
         \A k \in Keys :
           /\ T.keys[k].phase = S.keys[k].phase /\ T.keys[k].waiting = S.keys[k].waiting
           /\ T.keys[k].owned = S.keys[k].owned /\ T.keys[k].cache = S.keys[k].cache
           /\ S.keys[k].phase = "catching" => T.keys[k] = S.keys[k]
           /\ S.keys[k].phase # "catching" => Abides(S, T, o, u, k),
         \A j \in 1 .. Commits : OpGood(T, u[j], {})
  PROVE  Good(T, u, {})
<1>1. GoodStream(T) BY DEF Good, GoodStream
<1>2. ASSUME NEW k \in Keys PROVE GoodKey(T, k) /\ GoodCache(T, u, k)
  <2> DEFINE K == S.keys[k]
             L == T.keys[k]
             tail == T.stream.tail
  <2>1. /\ GoodKey(S, k) /\ GoodCache(S, o, k) /\ KeyGood(K, tail) /\ K \in KeyType
    BY Naturals DEF Good, GoodKey
  <2>2. WaitersGood(T, k) BY <2>1 DEF GoodKey, WaitersGood
  <2>3. CASE K.phase = "catching"
    <3>1. L = K BY <2>3
    <3> QED BY <2>1, <2>2, <2>3, <3>1 DEF GoodKey, GoodCache
  <2>4. CASE K.phase # "catching"
    <3>1. Abides(S, T, o, u, k) /\ L.phase # "catching" /\ L.cache = K.cache BY <2>4
    <3>2. ASSUME NEW n \in 1 .. Len(K.cache)
          PROVE  /\ Fits(L, tail, K.cache[n] + 1)
                 /\ Clears(L.last, u, k, K.cache[n] + 1)
      <4>1. K.cache \in Seq(Label) BY <2>1 DEF KeyType
      <4>2. K.cache[n] + 1 \in Nat BY <4>1, Elements, EndFacts
      <4>3. Fits(K, tail, K.cache[n] + 1) BY <2>1 DEF KeyGood, FitsAll
      <4>4. Clears(K.last, o, k, K.cache[n] + 1) BY <2>1, <2>4 DEF GoodCache
      <4> QED BY <3>1, <4>2, <4>3, <4>4 DEF Abides
    <3>3. KeyGood(L, tail)
      <4>1. FitsAll(L, tail, L.cache) BY <3>1, <3>2 DEF FitsAll
      <4>2. Rising(L.cache) BY <2>1, <3>1 DEF KeyGood
      <4> QED BY <3>1, <4>1, <4>2 DEF KeyGood, Abides
    <3>4. GoodCache(T, u, k) BY <3>1, <3>2 DEF GoodCache
    <3> QED BY <2>2, <3>3, <3>4 DEF GoodKey
  <2> QED BY <2>3, <2>4
<1>3. ASSUME NEW r \in Roles PROVE GoodPlayer(T, u, r)
  <2> DEFINE p == S.players[r]
             k == p.format
  <2>1. GoodPlayer(S, o, r) /\ k \in Keys /\ p.sent \in Nat BY Naturals DEF Good
  <2>2. Waiting(T, r) <=> Waiting(S, r) BY <2>1 DEF Waiting
  <2>3. InPipeline(T, r) <=> InPipeline(S, r) BY DEF InPipeline
  <2>4. T.keys[k].phase = S.keys[k].phase BY <2>1
  <2>5. Abreast(S, o, r) => Abreast(T, u, r)
    <3> SUFFICES ASSUME Abreast(S, o, r) PROVE Abreast(T, u, r) OBVIOUS
    <3>1. /\ ~p.pending /\ S.keys[k].phase # "catching"
          /\ Fits(S.keys[k], S.stream.tail, p.sent) /\ Clears(S.keys[k].last, o, k, p.sent)
      BY DEF Abreast
    <3>2. Abides(S, T, o, u, k) BY <2>1, <3>1
    <3>3. Fits(T.keys[k], T.stream.tail, p.sent) /\ Clears(T.keys[k].last, u, k, p.sent)
      BY <2>1, <3>1, <3>2 DEF Abides
    <3> QED BY <2>4, <3>1, <3>3 DEF Abreast
  <2> QED BY <2>1, <2>2, <2>3, <2>4, <2>5 DEF GoodPlayer
<1>4. \A r \in Roles : Faultless(T.players[r]) BY DEF Good
<1> QED BY <1>1, <1>2, <1>3, <1>4 DEF Good

\* What the worker thread emits for a format comes after what was there before it.
LEMMA EncodedAbides ==
  ASSUME IInv, NEW k \in Keys, NEW op \in OpType, NEW tail \in Nat,
         KeyGood(keys[k], tail), keys[k].phase # "catching",
         op.kind = "commit" => op.ts \in Chunk /\ op.ts < tail /\ keys[k].last <= op.ts
  PROVE  LET K == keys[k]
             L == EncodedKey(op, k)
             e == EncodedOut(op, k)
         IN  /\ L.phase = K.phase /\ L.waiting = K.waiting /\ L.owned = K.owned
             /\ L.cache = K.cache /\ K.last <= L.last /\ L.last <= tail
             /\ L.held # 0 => L.last = L.held + 1
             /\ e # <<>> => /\ Len(e) = 1 /\ e[1] \in Nat /\ Fits(L, tail, e[1] + 1)
                            /\ op.kind = "commit" => e[1] <= op.ts
             /\ \A s \in Nat : Fits(K, tail, s) /\ (op.kind = "commit" => s <= op.ts) =>
                  Fits(L, tail, s) /\ (e # <<>> => s <= e[1])
<1> DEFINE K == keys[k]
           L == EncodedKey(op, k)
           e == EncodedOut(op, k)
<1>1. /\ K \in KeyType /\ K.last \in Nat /\ K.held \in Nat
      /\ (K.held # 0 => K.last = K.held + 1) /\ K.last <= tail
  BY InvFacts, EndFacts DEF KeyType, KeyGood
<1>2. op.kind \in {"commit", "flush"} BY DEF OpType
<1>3. CASE op.kind = "commit"
  <2> DEFINE ts == op.ts
  <2>1. L = Encoded(k, K, ts) /\ e = Emitted(k, K, ts) BY <1>3 DEF EncodedKey, EncodedOut
  <2>2. ts \in Chunk /\ ts \in Nat /\ ts < tail /\ K.last <= ts /\ ts >= 1
    BY <1>3, EndFacts DEF Chunk
  <2>3. /\ L.held = (IF k \in Buffering THEN ts ELSE 0) /\ L.last = ts + 1
        /\ L.phase = K.phase /\ L.waiting = K.waiting /\ L.cache = K.cache /\ L.owned = K.owned
    BY <1>1, <2>1, <2>2, EncodedFacts
  <2>4. e = IF k \notin Buffering THEN <<ts>>
            ELSE IF K.held = 0 THEN <<>> ELSE <<ts - 1>>
    BY <1>1, <2>1 DEF Emitted
  <2> HIDE DEF K, L, ts
  <2>5. CASE k \notin Buffering
    <3>1. L.held = 0 /\ e = <<ts>> BY <2>3, <2>4, <2>5
    <3>2. Len(e) = 1 /\ e[1] = ts BY <3>1
    <3> HIDE DEF e
    <3> QED BY <1>1, <1>3, <2>2, <2>3, <3>1, <3>2 DEF Fits, K, L, e, ts
  <2>6. CASE k \in Buffering /\ K.held = 0
    <3>1. L.held = ts /\ e = <<>> BY <2>3, <2>4, <2>6
    <3> HIDE DEF e
    <3> QED BY <1>1, <1>3, <2>2, <2>3, <3>1 DEF Fits, K, L, e, ts
  <2>7. CASE k \in Buffering /\ K.held # 0
    <3>1. L.held = ts /\ e = <<ts - 1>> BY <2>3, <2>4, <2>7
    <3>2. Len(e) = 1 /\ e[1] = ts - 1 BY <3>1
    <3> HIDE DEF e
    <3> QED BY <1>1, <1>3, <2>2, <2>3, <2>7, <3>1, <3>2 DEF Fits, K, L, e, ts
  <2> QED BY <2>5, <2>6, <2>7
<1>4. CASE op.kind # "commit"
  <2>1. L = [K EXCEPT !.held = 0] /\ e = IF K.held # 0 THEN <<K.held>> ELSE <<>>
    BY <1>4 DEF EncodedKey, EncodedOut
  <2>2. /\ L.held = 0 /\ L.last = K.last /\ L.phase = K.phase /\ L.waiting = K.waiting
        /\ L.cache = K.cache /\ L.owned = K.owned
    BY <1>1, <2>1 DEF KeyType
  <2> HIDE DEF K, L
  <2>3. CASE K.held # 0
    <3>1. Len(e) = 1 /\ e[1] = K.held BY <2>1, <2>3
    <3> HIDE DEF e
    <3> QED BY <1>1, <1>4, <2>2, <2>3, <3>1 DEF Fits, K, L, e
  <2>4. CASE K.held = 0
    <3>1. e = <<>> BY <2>1, <2>4
    <3> HIDE DEF e
    <3> QED BY <1>1, <1>4, <2>2, <2>4, <3>1 DEF Fits, K, L, e
  <2> QED BY <2>3, <2>4
<1> QED BY <1>2, <1>3, <1>4

LEMMA EncodedOffLoopSent ==
  ASSUME IInv, SentInv, NEW i \in 1 .. Commits, EncodedOffLoop(i)
  PROVE  SentInv'
<1> DEFINE frames == [k \in Keys |-> IF ops[i].live /\ k \in ops[i].todo
                                     THEN EncodedOut(ops[i], k) ELSE <<>>]
           ks == [k \in Keys |-> IF ops[i].live /\ k \in ops[i].todo
                                 THEN EncodedKey(ops[i], k) ELSE keys[k]]
           op == [ops[i] EXCEPT !.stage = "deliver", !.frames = frames]
           S == [State EXCEPT !.keys = ks]
           u == [ops EXCEPT ![i] = op]
           tail == stream.tail
<1>1. /\ ops[i].stage = "encode" /\ Explored /\ unwound = {}
      /\ ops' = [ops EXCEPT ![i].stage = "deliver", ![i].frames = frames]
      /\ keys' = ks
      /\ UNCHANGED <<now, stream, players, queue, unwound, changes>>
  BY Zenon DEF EncodedOffLoop, EncodedKey, EncodedOut, Turned
<1>2. /\ ops[i] \in OpType /\ ops[i].stage \in Past
      /\ ops[i].kind = "commit" => ops[i].ts \in Chunk
      /\ queue # <<>> /\ queue[1] = i
  BY <1>1, OpFacts DEF Past
<1>3. /\ Good(State, ops, {}) /\ State \in StateType /\ ops \in [1 .. Commits -> OpType]
      /\ queue \in Seq(1 .. Commits) /\ tail \in Nat
      /\ \A k \in Keys : keys[k] \in KeyType
  BY <1>1, SentFacts, InvFacts
<1>4. \A k \in Keys : /\ EncodedKey(ops[i], k) \in KeyType
                      /\ EncodedOut(ops[i], k) \in Seq(Label)
  BY <1>2, InvFacts, EncodedKeyFacts
<1>5. /\ ks \in [Keys -> KeyType]
      /\ \A k \in Keys : ks[k] = IF ops[i].live /\ k \in ops[i].todo
                                 THEN EncodedKey(ops[i], k) ELSE keys[k]
  BY <1>3, <1>4
<1>6. frames \in [Keys -> Seq(Label)]
  <2> DEFINE none == <<>>
  <2>1. none \in Seq(Label) BY EndFacts
  <2>2. frames = [k \in Keys |-> IF ops[i].live /\ k \in ops[i].todo
                                 THEN EncodedOut(ops[i], k) ELSE none] OBVIOUS
  <2> HIDE DEF none, frames
  <2> QED BY <1>4, <2>1, <2>2
<1>7. \A k \in Keys : frames[k] = IF ops[i].live /\ k \in ops[i].todo
                                  THEN EncodedOut(ops[i], k) ELSE <<>>
  OBVIOUS
<1> HIDE DEF frames, ks
<1>8. /\ op \in OpType /\ op.stage = "deliver" /\ op.kind = ops[i].kind /\ op.ts = ops[i].ts
      /\ op.live = ops[i].live /\ op.group = ops[i].group /\ op.frames = frames
  BY <1>2, <1>6 DEF OpType, Stages
<1>9. ops' = u BY <1>1, <1>3 DEF OpType
<1> HIDE DEF op
<1>10. /\ u \in [1 .. Commits -> OpType] /\ u[i] = op
       /\ \A j \in 1 .. Commits : j # i => u[j] = ops[j]
  BY <1>3, <1>8
<1>11. /\ S \in StateType /\ S.keys = ks /\ S.players = players /\ S.stream = stream
       /\ S.unwound = unwound
  BY <1>3, <1>5, StateIs DEF StateType
<1> HIDE DEF S, u
<1>12. \E n \in 1 .. Len(queue) : queue[n] = i
  <2>1. Len(queue) \in Nat \ {0} BY <1>2, <1>3, Tailed
  <2>2. 1 \in 1 .. Len(queue) BY <2>1
  <2> QED BY <1>2, <2>2
<1>13. Continues(i, op, S)
  <2>1. \E n \in DOMAIN queue : queue[n] = i BY <1>3, <1>12
  <2>2. Becomes(S) BY <1>1, <1>11 DEF Becomes
  <2> QED BY <1>1, <1>9, <2>1, <2>2 DEF Continues, u
<1>14. CASE ~ops[i].live
  <2>1. S = State
    <3>1. ks = keys
      <4>1. keys \in [Keys -> KeyType] BY <1>3, StateIs DEF StateType
      <4> QED BY <1>5, <1>14, <4>1
    <3> QED BY <1>3, <3>1, StateIs DEF S, StateType
  <2>2. OpGood(State, op, {}) /\ ~Awaits(op) BY <1>8, <1>14 DEF OpGood, Awaits
  <2>3. Good(State, [ops EXCEPT ![i] = op], {}) BY <1>3, <1>8, <1>14, <2>2, StaysGood
  <2>4. Good(S, [ops EXCEPT ![i] = op], {}) BY <2>1, <2>3
  <2> QED BY <1>1, <1>8, <1>11, <1>12, <1>13, <2>4, ContinuesSent
<1>15. CASE ops[i].live
  <2>1. /\ OpGood(State, ops[i], {}) /\ Awaits(ops[i]) <=> ops[i].kind = "commit"
    BY <1>1, <1>3, <1>15 DEF Good, Awaits, Before
  <2>2. /\ ops[i].kind = "flush" <=> stream.flush # "no"
        /\ ops[i].kind = "commit" => ops[i].ts < tail
        /\ \A k \in ops[i].todo : Chosen(State, ops[i], k)
        /\ Grouped(State, ops[i], {})
    BY <1>1, <1>3, <1>15, StateIs DEF Good, OpGood
  <2>3. ASSUME NEW k \in Keys
        PROVE  /\ KeyGood(keys[k], tail) /\ keys[k] \in KeyType
               /\ keys[k].held # 0 => keys[k].last = keys[k].held + 1
               /\ keys[k].last <= tail
    BY <1>3, StateIs DEF Good, GoodKey, KeyGood
  <2>4. ASSUME NEW k \in Keys, k \in ops[i].todo
        PROVE  /\ keys[k].phase # "catching"
               /\ ops[i].kind = "commit" => keys[k].last <= ops[i].ts
               /\ ks[k].phase = keys[k].phase /\ ks[k].waiting = keys[k].waiting
               /\ ks[k].owned = keys[k].owned /\ ks[k].cache = keys[k].cache
               /\ keys[k].last <= ks[k].last /\ ks[k].last <= tail
               /\ ks[k].held # 0 => ks[k].last = ks[k].held + 1
               /\ frames[k] # <<>> =>
                    /\ Len(frames[k]) = 1 /\ frames[k][1] \in Nat
                    /\ Fits(ks[k], tail, frames[k][1] + 1)
                    /\ ops[i].kind = "commit" => frames[k][1] <= ops[i].ts
               /\ \A s \in Nat : Fits(keys[k], tail, s) /\ (ops[i].kind = "commit" => s <= ops[i].ts) =>
                    Fits(ks[k], tail, s) /\ (frames[k] # <<>> => s <= frames[k][1])
    <3>1. /\ keys[k].phase # "catching"
          /\ ops[i].kind = "commit" => keys[k].last <= ops[i].ts
      BY <2>2, <2>4, StateIs DEF Chosen
    <3>2. KeyGood(keys[k], tail) BY <2>3
    <3>3. ops[i].kind = "commit" =>
            ops[i].ts \in Chunk /\ ops[i].ts < tail /\ keys[k].last <= ops[i].ts
      BY <1>2, <2>2, <3>1
    <3>4. ks[k] = EncodedKey(ops[i], k) /\ frames[k] = EncodedOut(ops[i], k)
      BY <1>5, <1>7, <1>15, <2>4
    <3> HIDE DEF tail
    <3> QED BY <1>2, <1>3, <3>1, <3>2, <3>3, <3>4, EncodedAbides
  <2>5. \A k \in Keys : k \notin ops[i].todo => ks[k] = keys[k] /\ frames[k] = <<>>
    BY <1>5, <1>7
  <2>6. ASSUME NEW k \in Keys, keys[k].phase # "catching" PROVE Abides(State, S, ops, u, k)
    <3>1. /\ ks[k].held # 0 => ks[k].last = ks[k].held + 1
          /\ ks[k].last <= tail /\ keys[k].last <= ks[k].last
      <4>1. CASE k \in ops[i].todo BY <2>4, <4>1
      <4>2. CASE k \notin ops[i].todo
        <5>1. ks[k] = keys[k] /\ keys[k].last \in Nat BY <1>3, <2>5, <4>2, EndFacts DEF KeyType
        <5> QED BY <2>3, <5>1
      <4> QED BY <4>1, <4>2
    <3>2. ks[k].last \in Nat /\ keys[k].last \in Nat BY <1>3, <1>5, EndFacts DEF KeyType
    <3>3. ASSUME NEW s \in Nat, Fits(keys[k], tail, s), Clears(keys[k].last, ops, k, s)
          PROVE  Fits(ks[k], tail, s) /\ Clears(ks[k].last, u, k, s)
      <4>1. k \in ops[i].todo /\ ops[i].kind = "commit" => s <= ops[i].ts
        BY <2>1, <2>4, <3>3 DEF Clears
      <4>2. /\ Fits(ks[k], tail, s)
            /\ frames[k] # <<>> => s <= frames[k][1]
        <5>1. CASE k \in ops[i].todo BY <2>4, <3>3, <4>1, <5>1
        <5>2. CASE k \notin ops[i].todo BY <2>5, <3>3, <5>2
        <5> QED BY <5>1, <5>2
      <4>3. ASSUME NEW j \in 1 .. Commits
            PROVE  /\ Awaits(u[j]) /\ ks[k].last <= u[j].ts => s <= u[j].ts
                   /\ u[j].live /\ u[j].stage = "deliver" /\ u[j].frames[k] # <<>> =>
                        s <= u[j].frames[k][1]
        <5>1. CASE j = i
          <6>1. ~Awaits(u[j]) BY <1>8, <1>10, <5>1 DEF Awaits, Before
          <6> QED BY <1>8, <1>10, <4>2, <5>1, <6>1
        <5>2. CASE j # i
          <6>1. u[j] = ops[j] /\ u[j].ts \in Nat BY <1>3, <1>10, <5>2, EndFacts DEF OpType
          <6>2. ks[k].last <= u[j].ts => keys[k].last <= u[j].ts BY <3>1, <3>2, <6>1
          <6> QED BY <3>3, <6>1, <6>2 DEF Clears
        <5> QED BY <5>1, <5>2
      <4> QED BY <4>2, <4>3 DEF Clears
    <3> QED BY <1>11, <3>1, <3>3, StateIs DEF Abides
  <2>7. ASSUME NEW k \in Keys
        PROVE  /\ S.keys[k].phase = keys[k].phase /\ S.keys[k].waiting = keys[k].waiting
               /\ S.keys[k].owned = keys[k].owned /\ S.keys[k].cache = keys[k].cache
               /\ keys[k].phase = "catching" => S.keys[k] = keys[k]
               /\ keys[k].phase # "catching" => Abides(State, S, ops, u, k)
    <3>1. CASE k \in ops[i].todo BY <1>11, <2>4, <2>6, <3>1
    <3>2. CASE k \notin ops[i].todo BY <1>11, <2>5, <2>6, <3>2
    <3> QED BY <3>1, <3>2
  <2>8. ASSUME NEW j \in 1 .. Commits PROVE OpGood(S, u[j], {})
    <3>1. CASE j = i
      <4>1. \A k \in Keys : Framed(S, op, k)
        <5> SUFFICES ASSUME NEW k \in Keys, frames[k] # <<>> PROVE Framed(S, op, k)
          BY <1>8 DEF Framed
        <5>1. k \in ops[i].todo BY <2>5
        <5> QED BY <1>8, <1>11, <2>4, <5>1 DEF Framed
      <4>2. Grouped(S, op, {}) BY <1>8, <1>11, <2>2, StateIs DEF Grouped, InPipeline
      <4>3. OpGood(S, op, {}) BY <1>8, <1>11, <2>2, <4>1, <4>2 DEF OpGood
      <4> QED BY <1>10, <3>1, <4>3
    <3>2. CASE j # i
      <4>1. u[j] = ops[j] /\ OpGood(State, ops[j], {}) BY <1>3, <1>10, <3>2 DEF Good
      <4>2. ops[j].stage \notin Past BY <1>2, <3>2, OpFacts
      <4>3. \A k \in Keys : S.keys[k].owned = State.keys[k].owned BY <2>7, StateIs
      <4>4. S.stream = State.stream BY <1>11, StateIs
      <4> QED BY <4>1, <4>2, <4>3, <4>4 DEF OpGood, Past
    <3> QED BY <3>1, <3>2
  <2>9. Good(S, u, {})
    <3>1. S.stream = State.stream /\ S.players = State.players /\ S.unwound = {} /\ State.unwound = {}
      BY <1>1, <1>11, StateIs
    <3>2. \A k \in Keys :
            /\ S.keys[k].phase = State.keys[k].phase /\ S.keys[k].waiting = State.keys[k].waiting
            /\ S.keys[k].owned = State.keys[k].owned /\ S.keys[k].cache = State.keys[k].cache
            /\ State.keys[k].phase = "catching" => S.keys[k] = State.keys[k]
            /\ State.keys[k].phase # "catching" => Abides(State, S, ops, u, k)
      BY <2>7, StateIs
    <3> QED BY <1>3, <1>11, <2>8, <3>1, <3>2, AbidesGood
  <2>10. Good(S, [ops EXCEPT ![i] = op], {}) BY <2>9 DEF u
  <2> QED BY <1>1, <1>8, <1>11, <1>12, <1>13, <2>10, ContinuesSent
<1> QED BY <1>14, <1>15

\* What an operation delivers comes before what the others are going to add.
LEMMA FrameClears ==
  ASSUME IInv, SentInv, Explored, NEW i \in 1 .. Commits, ops[i].stage = "deliver",
         ops[i].live, NEW k \in Keys, ops[i].frames[k] # <<>>
  PROVE  LET f == ops[i].frames[k][1]
         IN  /\ keys[k].phase # "catching" /\ Len(ops[i].frames[k]) = 1 /\ f \in Nat
             /\ Fits(keys[k], stream.tail, f + 1)
             /\ Clears(keys[k].last, [ops EXCEPT ![i] = NoOp], k, f + 1)
<1> DEFINE op == ops[i]
           f == op.frames[k][1]
           u == [ops EXCEPT ![i] = NoOp]
<1>1. /\ Good(State, ops, {}) /\ InOrder(ops, queue) /\ ops \in [1 .. Commits -> OpType]
      /\ queue \in Seq(1 .. Commits) /\ QueueInv
  BY SentFacts, InvFacts DEF IInv
<1>2. /\ op.kind = "flush" <=> stream.flush # "no"
      /\ Framed(State, op, k)
  BY <1>1, StateIs DEF Good, OpGood
<1>3. /\ keys[k].phase # "catching" /\ Len(op.frames[k]) = 1
      /\ Fits(keys[k], stream.tail, f + 1)
      /\ op.kind = "commit" => f <= op.ts
  BY <1>2, StateIs DEF Framed
<1>4. f \in Nat
  <2>1. op.frames[k] \in Seq(Label) BY <1>1 DEF OpType
  <2>2. 1 \in 1 .. Len(op.frames[k]) BY <1>3
  <2> QED BY <2>1, <2>2, Elements, EndFacts
<1>5. queue # <<>> /\ queue[1] = i BY OpFacts DEF Past
<1>6. Len(queue) \in Nat \ {0} /\ 1 \in 1 .. Len(queue) BY <1>1, <1>5, Tailed
<1>7. u[i] = NoOp /\ \A j \in 1 .. Commits : j # i => u[j] = ops[j] BY <1>1
<1>8. ASSUME NEW j \in 1 .. Commits
      PROVE  /\ Awaits(u[j]) /\ keys[k].last <= u[j].ts => f + 1 <= u[j].ts
             /\ u[j].live /\ u[j].stage = "deliver" /\ u[j].frames[k] # <<>> =>
                  f + 1 <= u[j].frames[k][1]
  <2>1. CASE j = i BY <1>7, <2>1 DEF NoOp, Awaits, Before
  <2>2. CASE j # i
    <3>1. u[j] = ops[j] /\ ops[j].stage \notin Past BY <1>5, <1>7, <2>2, OpFacts
    <3>2. ops[j].stage # "deliver" BY <3>1 DEF Past
    <3>3. ASSUME Awaits(ops[j]) PROVE f + 1 <= ops[j].ts
      <4>1. ops[j].live /\ ops[j].kind = "commit" /\ ops[j].stage \in {"yield", "wait"}
        BY <3>1, <3>3 DEF Awaits, Before, Past
      <4>2. op.kind = "commit"
        <5>1. OpGood(State, ops[j], {}) BY <1>1 DEF Good
        <5>2. stream.flush = "no" BY <4>1, <5>1, StateIs DEF OpGood
        <5>3. op.kind \in {"commit", "flush"} BY <1>1 DEF OpType
        <5> QED BY <1>2, <5>2, <5>3
      <4>3. op.ts < ops[j].ts
        <5>1. CASE ops[j].stage = "yield"
          BY <1>1, <1>5, <1>6, <4>1, <4>2, <5>1 DEF InOrder
        <5>2. CASE ops[j].stage = "wait"
          <6>1. PICK n \in 1 .. Len(queue) : queue[n] = j BY <1>1, <5>2 DEF QueueInv
          <6>2. 1 < n BY <1>5, <1>6, <2>2, <6>1
          <6> QED BY <1>1, <1>5, <1>6, <4>1, <4>2, <6>1, <6>2 DEF InOrder
        <5> QED BY <4>1, <5>1, <5>2
      <4>4. op.ts \in Nat /\ ops[j].ts \in Nat BY <1>1, EndFacts DEF OpType
      <4> QED BY <1>3, <1>4, <4>2, <4>3, <4>4
    <3> QED BY <3>1, <3>2, <3>3
  <2> QED BY <2>1, <2>2
<1>9. Clears(keys[k].last, u, k, f + 1) BY <1>8 DEF Clears
<1> QED BY <1>3, <1>4, <1>9

LEMMA DeliveredGood ==
  ASSUME IInv, SentInv, Explored, unwound = {}, NEW i \in 1 .. Commits,
         ops[i].stage = "deliver", ops[i].live
  PROVE  Good(CachedAndDelivered(State, ops[i]), [ops EXCEPT ![i] = NoOp], {})
<1> DEFINE op == ops[i]
           u == [ops EXCEPT ![i] = NoOp]
           T == CachedAndDelivered(State, op)
           tail == stream.tail
           f(k) == op.frames[k][1]
<1>1. /\ Good(State, ops, {}) /\ ops \in [1 .. Commits -> OpType] /\ State \in StateType
      /\ Sound(State) /\ op \in OpType /\ tail \in Nat
      /\ \A k \in Keys : keys[k] \in KeyType /\ op.frames[k] \in Seq(Label)
      /\ \A r \in Roles : players[r] \in PlayerType
  BY SentFacts, InvFacts DEF OpType
<1>2. ~State.stream.stopped BY OpFacts, StateIs
<1>3. /\ T \in StateType /\ T.stream = stream /\ T.unwound = {}
      /\ \A r \in Roles : T.players[r] = DeliveredPlayer(State, op, r)
      /\ \A k \in Keys : T.keys[k] = DeliveredKey(State, op, k)
  BY <1>1, <1>2, DeliveredSteps, StateIs DEF Steps
<1>4. /\ u[i] = NoOp /\ \A j \in 1 .. Commits : j # i => u[j] = ops[j]
  BY <1>1
<1> HIDE DEF T, u
<1>5. ASSUME NEW k, NEW last, NEW s, Clears(last, ops, k, s) PROVE Clears(last, u, k, s)
  <2> SUFFICES ASSUME NEW j \in 1 .. Commits
               PROVE  /\ Awaits(u[j]) /\ last <= u[j].ts => s <= u[j].ts
                      /\ u[j].live /\ u[j].stage = "deliver" /\ u[j].frames[k] # <<>> =>
                           s <= u[j].frames[k][1]
    BY DEF Clears
  <2>1. CASE j = i BY <1>4, <2>1 DEF NoOp, Awaits, Before
  <2>2. CASE j # i BY <1>4, <1>5, <2>2 DEF Clears
  <2> QED BY <2>1, <2>2
<1>6. ASSUME NEW k \in Keys, op.frames[k] # <<>>
      PROVE  /\ keys[k].phase # "catching" /\ Len(op.frames[k]) = 1 /\ f(k) \in Nat
             /\ Fits(keys[k], tail, f(k) + 1) /\ Clears(keys[k].last, u, k, f(k) + 1)
  BY <1>6, FrameClears DEF u
<1>7. ASSUME NEW k \in Keys
      PROVE  /\ T.keys[k].phase = keys[k].phase /\ T.keys[k].waiting = keys[k].waiting
             /\ T.keys[k].owned = keys[k].owned /\ T.keys[k].last = keys[k].last
             /\ T.keys[k].held = keys[k].held
             /\ T.keys[k].cache \in {keys[k].cache, keys[k].cache \o op.frames[k]}
             /\ op.frames[k] = <<>> => T.keys[k] = keys[k]
  <2> DEFINE cache == IF k \in Wanted(State, op) THEN keys[k].cache \o op.frames[k]
                      ELSE keys[k].cache
  <2>1. T.keys[k] = [keys[k] EXCEPT !.cache = cache]
    BY <1>3, StateIs DEF DeliveredKey
  <2>2. op.frames[k] = <<>> => cache = keys[k].cache
    <3>1. keys[k].cache \in Seq(Label) BY <1>1 DEF KeyType
    <3> HIDE DEF Wanted
    <3> QED BY <3>1
  <2>3. cache \in {keys[k].cache, keys[k].cache \o op.frames[k]} OBVIOUS
  <2> HIDE DEF cache
  <2>4. keys[k] \in KeyType BY <1>1
  <2>5. /\ T.keys[k].phase = keys[k].phase /\ T.keys[k].waiting = keys[k].waiting
        /\ T.keys[k].owned = keys[k].owned /\ T.keys[k].last = keys[k].last
        /\ T.keys[k].held = keys[k].held /\ T.keys[k].cache = cache
        /\ cache = keys[k].cache => T.keys[k] = keys[k]
    BY <2>1, <2>4 DEF KeyType
  <2> QED BY <2>2, <2>3, <2>5
<1>8. ASSUME NEW r \in Roles
      PROVE  \/ T.players[r] = players[r]
             \/ \E k \in Keys :
                  /\ InPipeline(State, r) /\ ~players[r].pending
                  /\ <<r, k>> \in op.group /\ op.frames[k] # <<>>
                  /\ T.players[r] = ReceiveLive(players[r], op.frames[k], stream.pcm)
  <2>1. T.players[r] = DeliveredPlayer(State, op, r) BY <1>3
  <2>2. CASE \E k \in Keys : Sends(State, op, r, k)
    <3> DEFINE k == CHOOSE k \in Keys : Sends(State, op, r, k)
               q == ReceiveLive(players[r], op.frames[k], stream.pcm)
    <3>1. k \in Keys /\ Sends(State, op, r, k) BY <2>2
    <3>2. T.players[r] = Blamed(q, Stale(op)) BY <2>1, <2>2, StateIs DEF DeliveredPlayer
    <3> HIDE DEF k
    <3>3. q \in PlayerType
      <4>1. op.frames[k] \in Seq(Label) /\ players[r] \in PlayerType BY <1>1, <3>1
      <4> QED BY <4>1, LiveHears DEF Hears
    <3>4. /\ InPipeline(State, r) /\ ~players[r].pending
          /\ <<r, k>> \in op.group /\ op.frames[k] # <<>>
      BY <3>1, StateIs DEF Sends, Active
    <3> HIDE DEF q
    <3>5. Blamed(q, Stale(op)) = q BY <3>3 DEF Blamed, Stale, PlayerType
    <3> QED BY <3>1, <3>2, <3>4, <3>5 DEF q
  <2>3. CASE ~\E k \in Keys : Sends(State, op, r, k)
    BY <2>1, <2>3, StateIs DEF DeliveredPlayer
  <2> QED BY <2>2, <2>3
<1>9. ASSUME NEW r \in Roles PROVE GoodPlayer(State, ops, r) /\ Faultless(players[r])
  BY <1>1, StateIs DEF Good
<1>10. ASSUME NEW r \in Roles, T.players[r] # players[r]
       PROVE  LET p == players[r]
                  q == T.players[r]
                  k == p.format
              IN  /\ op.frames[k] # <<>> /\ ~p.pending
                  /\ q \in PlayerType /\ Hears(p, q) /\ Faultless(q)
                  /\ p.lossy = {} /\ p.member = "in" =>
                       (q.sent = p.sent /\ q.resume = p.resume) \/ q.sent <= f(k) + 1
  <2> DEFINE p == players[r]
             q == T.players[r]
  <2>1. PICK k \in Keys : /\ InPipeline(State, r) /\ ~p.pending
                          /\ <<r, k>> \in op.group /\ op.frames[k] # <<>>
                          /\ q = ReceiveLive(p, op.frames[k], stream.pcm)
    BY <1>8, <1>10
  <2>2. p.format = k
    <3>1. OpGood(State, op, {}) BY <1>1 DEF Good
    <3>2. Grouped(State, op, {}) BY <3>1 DEF OpGood
    <3> QED BY <2>1, <3>2, StateIs DEF Grouped
  <2>3. p.member # "out" BY <2>1, StateIs DEF InPipeline
  <2>4. p.lossy = {} /\ p.member = "in" => Anew(p) \/ p.sent <= f(k)
    <3> SUFFICES ASSUME p.lossy = {}, p.member = "in" PROVE Anew(p) \/ p.sent <= f(k) OBVIOUS
    <3>1. Anew(p) \/ Abreast(State, ops, r) BY <1>9, StateIs DEF GoodPlayer
    <3>2. CASE Abreast(State, ops, r)
      <4>1. Clears(keys[k].last, ops, k, p.sent) BY <2>2, <3>2, StateIs DEF Abreast
      <4> QED BY <2>1, <4>1 DEF Clears
    <3> QED BY <3>1, <3>2
  <2>5. p \in PlayerType /\ op.frames[k] \in Seq(Label) /\ Len(op.frames[k]) = 1 /\ Faultless(p)
    BY <1>1, <1>6, <1>9, <2>1
  <2> HIDE DEF p, q, f
  <2>6. /\ q \in PlayerType /\ Hears(p, q) /\ Faultless(q)
        /\ p.lossy = {} /\ p.member = "in" =>
             (q.sent = p.sent /\ q.resume = p.resume) \/ q.sent <= f(k) + 1
    BY <2>1, <2>3, <2>4, <2>5, LiveSent DEF f
  <2> QED BY <2>1, <2>2, <2>6 DEF p, q
<1>11. ASSUME NEW r \in Roles
       PROVE  /\ T.players[r].member = players[r].member /\ T.players[r].format = players[r].format
              /\ T.players[r].pending = players[r].pending /\ T.players[r].lossy = players[r].lossy
              /\ Faultless(T.players[r])
  <2>1. CASE T.players[r] = players[r] BY <1>9, <2>1
  <2>2. CASE T.players[r] # players[r] BY <1>10, <2>2 DEF Hears
  <2> QED BY <2>1, <2>2
<1>12. GoodStream(T) BY <1>1, <1>3, <1>7, StateIs DEF Good, GoodStream
<1>13. ASSUME NEW k \in Keys PROVE GoodKey(T, k) /\ GoodCache(T, u, k)
  <2> DEFINE K == keys[k]
             L == T.keys[k]
             e == op.frames[k]
  <2>1. /\ GoodKey(State, k) /\ GoodCache(State, ops, k) /\ KeyGood(K, tail) /\ K \in KeyType
    BY <1>1, StateIs DEF Good, GoodKey
  <2>2. WaitersGood(T, k)
    <3> SUFFICES ASSUME NEW w \in L.waiting
                 PROVE  T.players[w[1]].format = k /\ T.players[w[1]].member # "out"
      BY DEF WaitersGood
    <3>1. w \in K.waiting BY <1>7
    <3>2. w[1] \in Roles
      <4>1. K.waiting \in SUBSET (Roles \X (0 .. MaxTime + Lead)) BY <2>1 DEF KeyType
      <4> QED BY <3>1, <4>1
    <3>3. players[w[1]].format = k /\ players[w[1]].member # "out"
      BY <2>1, <3>1, StateIs DEF GoodKey, WaitersGood
    <3> QED BY <1>11, <3>2, <3>3
  <2>3. CASE e = <<>>
    <3>1. L = K BY <1>7, <2>3
    <3>2. GoodKey(T, k) BY <1>3, <2>1, <2>2, <3>1 DEF GoodKey
    <3>3. GoodCache(T, u, k)
      <4> SUFFICES ASSUME K.phase # "catching", NEW n \in 1 .. Len(K.cache)
                   PROVE  Clears(K.last, u, k, K.cache[n] + 1)
        BY <3>1 DEF GoodCache
      <4>1. k \notin State.unwound BY StateIs
      <4>2. Clears(K.last, ops, k, K.cache[n] + 1) BY <2>1, <4>1, StateIs DEF GoodCache
      <4> QED BY <1>5, <4>2
    <3> QED BY <3>2, <3>3
  <2>4. CASE e # <<>>
    <3>1. /\ K.phase # "catching" /\ Len(e) = 1 /\ f(k) \in Nat /\ e[1] = f(k)
          /\ Fits(K, tail, f(k) + 1) /\ Clears(K.last, u, k, f(k) + 1)
      BY <1>6, <2>4
    <3>2. K.cache \in Seq(Label) /\ e \in Seq(Label) BY <1>1, <2>1 DEF KeyType
    <3>3. ASSUME NEW n \in 1 .. Len(K.cache)
          PROVE  /\ Clears(K.last, u, k, K.cache[n] + 1) /\ K.cache[n] + 1 <= f(k)
                 /\ K.cache[n] \in Nat
      <4>1. k \notin State.unwound BY StateIs
      <4>2. Clears(K.last, ops, k, K.cache[n] + 1) BY <2>1, <3>1, <4>1, StateIs DEF GoodCache
      <4>3. K.cache[n] + 1 <= f(k) BY <2>4, <4>2 DEF Clears
      <4>4. K.cache[n] \in Nat BY <3>2, Elements, EndFacts
      <4> QED BY <1>5, <4>2, <4>3, <4>4
    <3> HIDE DEF e, f, K
    <3>4. Rising(e) /\ FitsAll(K, tail, e)
      <4>1. \A n \in 1 .. Len(e) : n = 1 BY <3>1
      <4> QED BY <3>1, <4>1 DEF Rising, FitsAll
    <3>5. \A m \in 1 .. Len(K.cache), n \in 1 .. Len(e) : K.cache[m] < e[n]
      <4>1. \A n \in 1 .. Len(e) : n = 1 BY <3>1
      <4> QED BY <3>1, <3>3, <4>1
    <3>6. Rising(K.cache) /\ FitsAll(K, tail, K.cache) BY <2>1 DEF KeyGood
    <3>7. Rising(K.cache \o e) /\ FitsAll(K, tail, K.cache \o e)
      BY <3>2, <3>4, <3>5, <3>6, RisingJoined, FitsJoined
    <3>8. /\ L.phase = K.phase /\ L.last = K.last /\ L.held = K.held
          /\ L.cache \in {K.cache, K.cache \o e}
      BY <1>7 DEF K, e
    <3>9. KeyGood(L, tail)
      <4>1. Rising(L.cache) /\ FitsAll(K, tail, L.cache) BY <3>6, <3>7, <3>8
      <4>2. FitsAll(L, tail, L.cache) BY <3>8, <4>1 DEF FitsAll, Fits
      <4> QED BY <2>1, <3>1, <3>8, <4>1, <4>2 DEF KeyGood
    <3>10. GoodKey(T, k) BY <1>3, <2>2, <3>9 DEF GoodKey
    <3>11. GoodCache(T, u, k)
      <4> SUFFICES ASSUME NEW n \in 1 .. Len(L.cache)
                   PROVE  Clears(L.last, u, k, L.cache[n] + 1)
        BY DEF GoodCache
      <4>1. CASE L.cache = K.cache BY <3>3, <3>8, <4>1
      <4>2. CASE L.cache = K.cache \o e
        <5>1. \/ n \in 1 .. Len(K.cache) /\ L.cache[n] = K.cache[n]
              \/ n - Len(K.cache) \in 1 .. Len(e) /\ L.cache[n] = e[n - Len(K.cache)]
          BY <3>2, <4>2, Joined
        <5>2. CASE n \in 1 .. Len(K.cache) /\ L.cache[n] = K.cache[n] BY <3>3, <3>8, <5>2
        <5>3. CASE n - Len(K.cache) \in 1 .. Len(e) /\ L.cache[n] = e[n - Len(K.cache)]
          <6>1. n - Len(K.cache) = 1 BY <3>1, <5>3
          <6>2. L.cache[n] = f(k) BY <3>1, <5>3, <6>1
          <6> QED BY <3>1, <3>8, <6>2
        <5> QED BY <5>1, <5>2, <5>3
      <4> QED BY <3>8, <4>1, <4>2
    <3> QED BY <3>10, <3>11
  <2> QED BY <2>3, <2>4
<1>14. ASSUME NEW r \in Roles PROVE GoodPlayer(T, u, r)
  <2> DEFINE p == players[r]
             q == T.players[r]
             k == p.format
  <2>1. /\ p \in PlayerType /\ k \in Keys /\ p.sent \in Nat
        /\ q.member = p.member /\ q.format = k /\ q.pending = p.pending /\ q.lossy = p.lossy
    BY <1>1, <1>11, Naturals, StateIs
  <2>2. Waiting(T, r) <=> Waiting(State, r)
    <3>1. T.players[r].format = k /\ T.keys[k].waiting = keys[k].waiting BY <1>7, <2>1
    <3>2. State.players[r].format = k /\ State.keys[k].waiting = keys[k].waiting BY StateIs
    <3> QED BY <3>1, <3>2 DEF Waiting
  <2>3. InPipeline(T, r) <=> InPipeline(State, r) BY <2>1, StateIs DEF InPipeline
  <2>4. /\ T.keys[k].phase = keys[k].phase /\ T.keys[k].last = keys[k].last
        /\ T.keys[k].held = keys[k].held
    BY <1>7, <2>1
  <2>5. GoodPlayer(State, ops, r) BY <1>9
  <2> SUFFICES ASSUME p.lossy = {}, p.member = "in" PROVE Anew(q) \/ Abreast(T, u, r)
    BY <2>1, <2>2, <2>3, <2>4, <2>5, StateIs DEF GoodPlayer
  <2>6. Anew(p) \/ Abreast(State, ops, r) BY <2>5, StateIs DEF GoodPlayer
  <2>7. ASSUME q.sent = p.sent, Abreast(State, ops, r) PROVE Abreast(T, u, r)
    <3>1. /\ ~p.pending /\ keys[k].phase # "catching" /\ Fits(keys[k], tail, p.sent)
          /\ Clears(keys[k].last, ops, k, p.sent)
      BY <2>7, StateIs DEF Abreast
    <3>2. Clears(keys[k].last, u, k, p.sent) BY <1>5, <3>1
    <3> QED BY <1>3, <2>1, <2>4, <2>7, <3>1, <3>2 DEF Abreast, Fits
  <2>8. CASE q = p BY <2>6, <2>7, <2>8
  <2>9. CASE q # p
    <3>1. /\ op.frames[k] # <<>> /\ ~p.pending /\ q \in PlayerType
          /\ (q.sent = p.sent /\ q.resume = p.resume) \/ q.sent <= f(k) + 1
      BY <1>10, <2>9
    <3>2. CASE q.sent = p.sent /\ q.resume = p.resume BY <2>6, <2>7, <3>2 DEF Anew
    <3>3. CASE q.sent <= f(k) + 1
      <4>1. /\ keys[k].phase # "catching" /\ f(k) \in Nat
            /\ Fits(keys[k], tail, f(k) + 1) /\ Clears(keys[k].last, u, k, f(k) + 1)
        BY <1>6, <2>1, <3>1
      <4>2. /\ q.sent \in Nat /\ keys[k].held \in Nat
            /\ \A j \in 1 .. Commits : u[j].ts \in Nat
            /\ \A j \in 1 .. Commits : u[j].frames[k] # <<>> => u[j].frames[k][1] \in Nat
        <5>1. \A j \in 1 .. Commits : u[j] \in OpType BY <1>1, <1>4, Defaults
        <5>2. \A j \in 1 .. Commits : u[j].frames[k] \in Seq(Label) /\ u[j].ts \in Nat
          BY <2>1, <5>1, EndFacts DEF OpType
        <5>3. ASSUME NEW j \in 1 .. Commits, u[j].frames[k] # <<>>
              PROVE  u[j].frames[k][1] \in Nat
          <6>1. Len(u[j].frames[k]) \in Nat \ {0} BY <5>2, <5>3, Tailed
          <6>2. 1 \in 1 .. Len(u[j].frames[k]) BY <6>1
          <6> QED BY <5>2, <6>2, Elements, EndFacts
        <5>4. q.sent \in Nat /\ keys[k].held \in Nat
          BY <1>1, <2>1, <3>1, EndFacts DEF PlayerType, KeyType
        <5> QED BY <5>2, <5>3, <5>4
      <4> HIDE DEF f, p, q, k
      <4>3. Fits(keys[k], tail, q.sent) BY <1>1, <3>3, <4>1, <4>2 DEF Fits
      <4>4. Clears(keys[k].last, u, k, q.sent) BY <3>3, <4>1, <4>2 DEF Clears
      <4> QED BY <1>3, <2>1, <2>4, <3>1, <4>1, <4>3, <4>4 DEF Abreast, Fits, p, q, k
    <3> QED BY <3>1, <3>2, <3>3
  <2> QED BY <2>8, <2>9
<1>15. ASSUME NEW j \in 1 .. Commits PROVE OpGood(T, u[j], {})
  <2>1. CASE j = i BY <1>4, <2>1 DEF NoOp, OpGood
  <2>2. CASE j # i
    <3>1. ASSUME NEW k \in Keys PROVE EasesKey(State.keys[k], T.keys[k])
      <4>1. keys[k].last \in Nat BY <1>1, Naturals, StateIs
      <4>2. /\ T.keys[k].phase = keys[k].phase /\ T.keys[k].owned = keys[k].owned
            /\ T.keys[k].last = keys[k].last /\ T.keys[k].held = keys[k].held
        BY <1>7
      <4> QED BY <4>1, <4>2, StateIs DEF EasesKey
    <3>2. \A r \in Roles : EasesPlayer(State, T, {}, {}, r)
      BY <1>11, StateIs DEF EasesPlayer, InPipeline
    <3>3. Eases(State, T, {}, {}) BY <1>1, <1>3, <3>1, <3>2, StateIs DEF Eases
    <3>4. OpGood(State, ops[j], {}) /\ ops[j] \in OpType BY <1>1 DEF Good
    <3> QED BY <1>1, <1>3, <1>4, <2>2, <3>3, <3>4, OpEases
  <2> QED BY <2>1, <2>2
<1>16. Good(T, u, {}) BY <1>11, <1>12, <1>13, <1>14, <1>15 DEF Good
<1> QED BY <1>16 DEF T, u

LEMMA DeliveredSent ==
  ASSUME IInv, SentInv, NEW i \in 1 .. Commits, Delivered(i)
  PROVE  SentInv'
<1>1. /\ ops[i].stage = "deliver" /\ Explored /\ unwound = {}
      /\ IF ops[i].live THEN Ends(i, Pruned(CachedAndDelivered(State, ops[i])))
         ELSE Ends(i, State)
  BY DEF Delivered, Turned
<1>2. /\ ops[i] \in OpType /\ (stream.stopped => ~ops[i].live)
      /\ \A n \in 1 .. Len(queue) : queue[n] = i => n = 1
  BY <1>1, OpFacts DEF Past
<1>3. /\ Good(State, ops, {}) /\ State \in StateType /\ Sound(State) /\ now \in Nat
      /\ ops \in [1 .. Commits -> OpType]
  BY <1>1, SentFacts, InvFacts
<1>4. CASE ~ops[i].live
  <2>1. Good(State, [ops EXCEPT ![i] = NoOp], {}) BY <1>3, EndedGood
  <2> QED BY <1>1, <1>2, <1>3, <1>4, <2>1, EndsSent
<1>5. CASE ops[i].live
  <2> DEFINE T == CachedAndDelivered(State, ops[i])
  <2>1. Good(T, [ops EXCEPT ![i] = NoOp], {}) BY <1>1, <1>5, DeliveredGood
  <2>2. ~State.stream.stopped BY <1>2, <1>5, StateIs
  <2>3. T \in StateType /\ Sound(T) BY <1>2, <1>3, <2>2, DeliveredSteps DEF Steps
  <2>4. Ends(i, Pruned(T)) BY <1>1, <1>5
  <2> HIDE DEF T
  <2>5. [ops EXCEPT ![i] = NoOp] \in [1 .. Commits -> OpType] BY <1>3, Defaults
  <2>6. Good(Pruned(T), [ops EXCEPT ![i] = NoOp], {}) BY <1>3, <2>1, <2>3, <2>5, PrunedGood
  <2>7. Pruned(T) \in StateType /\ Sound(Pruned(T)) BY <1>3, <2>3, PrunedFacts
  <2> QED BY <1>1, <1>2, <2>4, <2>6, <2>7, EndsSent
<1> QED BY <1>4, <1>5

LEMMA InitSent == Init => SentInv
<1> SUFFICES ASSUME Init PROVE SentInv OBVIOUS
<1> DEFINE first == CHOOSE k \in Keys : TRUE
<1>1. /\ stream.tail = 0 /\ stream.pcm = {} /\ keys = [k \in Keys |-> NoKey]
      /\ players = [r \in Roles |-> NoPlayer(first)]
      /\ ops = [i \in 1 .. Commits |-> NoOp] /\ queue = <<>> /\ unwound = {}
  BY DEF Init
<1> HIDE DEF first
<1>2. /\ \A r \in Roles : players[r] = NoPlayer(first)
      /\ \A k \in Keys : keys[k] = NoKey
      /\ \A i \in 1 .. Commits : ops[i] = NoOp
  BY <1>1
<1>3. \A r \in Roles : Faultless(players[r]) /\ players[r].sent = 0
  BY <1>2 DEF Faultless, NoPlayer
<1>4. \A i \in 1 .. Commits : ops[i].stage = "none" /\ ops[i].kind = "commit"
  BY <1>2 DEF NoOp
<1>5. Idling(ops) BY <1>4 DEF Idling
<1>6. ASSUME NEW k \in Keys
      PROVE  /\ keys[k].phase = "none" /\ keys[k].waiting = {} /\ ~keys[k].owned
             /\ keys[k].last = 0 /\ keys[k].held = 0
             /\ Rising(keys[k].cache) /\ FitsAll(keys[k], stream.tail, keys[k].cache)
  <2>1. keys[k].cache = <<>> BY <1>2 DEF NoKey
  <2>2. Len(keys[k].cache) = 0 BY <2>1
  <2>3. 1 .. Len(keys[k].cache) = {} BY <2>2
  <2>4. Rising(keys[k].cache) /\ FitsAll(keys[k], stream.tail, keys[k].cache)
    BY <2>3 DEF Rising, FitsAll
  <2> QED BY <1>2, <2>4 DEF NoKey
<1>7. State \in StateType BY InitInv, InvFacts
<1>8. Good(State, ops, {}) BY <1>1, <1>3, <1>5, <1>6, <1>7, StateIs, StillGood
<1>9. InOrder(ops, queue)
  <2>1. Len(queue) = 0 BY <1>1
  <2>2. 1 .. Len(queue) = {} BY <2>1
  <2> QED BY <1>4, <2>2 DEF InOrder
<1> QED BY <1>3, <1>8, <1>9 DEF SentInv

LEMMA NextSent == IInv /\ SentInv /\ [Next]_vars => SentInv'
<1> SUFFICES ASSUME IInv, SentInv, [Next]_vars PROVE SentInv' OBVIOUS
<1>1. DOMAIN ops = 1 .. Commits BY InvFacts
<1>2. CASE Runs
  <2>1. ASSUME NEW i \in 1 .. Commits,
               \/ Loaded(i) \/ Yielded(i) \/ Granted(i)
               \/ Resampled(i) \/ EncodedOffLoop(i) \/ Delivered(i)
        PROVE  SentInv'
    BY <2>1, LoadedSent, YieldedSent, GrantedSent, ResampledSent, EncodedOffLoopSent,
       DeliveredSent
  <2>2. ASSUME NEW k \in Keys, CatchupEncodes(k) \/ CatchupWakes(k) \/ CatchupUnwinds(k)
        PROVE  SentInv'
    BY <2>2, CatchupEncodesSent, CatchupWakesSent, CatchupUnwindsSent
  <2> QED BY <1>1, <1>2, <2>1, <2>2, Zenon DEF Runs
<1>3. CASE Calls
  <2>1. ASSUME NEW i \in 1 .. Commits, Commit(i) \/ Flush(i) PROVE SentInv'
    BY <2>1, CommitSent, FlushSent
  <2>2. ASSUME NEW r \in Roles,
               \/ Joins(r) \/ Leaves(r) \/ ChangesFormat(r)
               \/ LosesConnection(r) \/ Reconnects(r) \/ SendsState(r)
        PROVE  SentInv'
    BY <2>2, JoinsSent, LeavesSent, ChangesFormatSent, LosesConnectionSent, ReconnectsSent,
       SendsStateSent
  <2> QED BY <1>1, <1>3, <2>1, <2>2, TickSent, ClearSent, StopSent, Zenon DEF Calls
<1>4. CASE UNCHANGED vars
  <2>1. UNCHANGED <<stream, keys, players, ops, queue, unwound>> BY <1>4 DEF vars
  <2>2. State' = State /\ (Explored' <=> Explored) BY <2>1 DEF State, Explored
  <2>3. \A r \in Roles : Faultless(players'[r]) BY <2>1 DEF SentInv
  <2>4. Explored => Good(State', ops', {}) /\ InOrder(ops', queue')
    BY <2>1, <2>2, SentFacts
  <2> QED BY <2>2, <2>3, <2>4 DEF SentInv
<1> QED BY <1>2, <1>3, <1>4 DEF Next

\* A player is sent its audio once and in order, and none of a discarded stretch
\* or after it left (push_stream.py: the delivery of commits, flushes, joins and
\* catch-ups, with what clear and stop void).
THEOREM AudioSentOnce == Spec => []SentOnce
<1>1. IInv /\ SentInv => SentOnce
  <2> SUFFICES ASSUME IInv, SentInv, NEW r \in Roles
               PROVE  /\ players[r].faults \subseteq {"repeated", "hole"}
                      /\ Plain(r) => "repeated" \notin players[r].faults
    BY DEF SentOnce
  <2>1. players[r].faults \subseteq Faults BY InvFacts DEF PlayerType
  <2>2. Faultless(players[r]) BY DEF SentInv
  <2> QED BY <2>1, <2>2 DEF Faultless, Faults, Plain
<1> QED BY <1>1, InitInv, NextInv, InitSent, NextSent, PTL DEF Spec

=============================================================================
