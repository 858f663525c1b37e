------------------------ MODULE ClientAdmissionProofs ------------------------
(***************************************************************************)
(* For any number of connections, any slots, limits and bounds: one server   *)
(* is served, slots are kept, unpaired access is refused, and an operator    *)
(* gesture serves one server.                                                *)
(***************************************************************************)
EXTENDS ClientAdmission, SequenceTheorems, FiniteSetTheorems, TLAPS

Admitting == {"recording", "displacing", "draining"}

(* A task that was let into the admission keeps the lock until it leaves.     *)
LockKept == \A c \in Conns : stage[c] \in Admitting => Holds(c)

(* What the holder of the lock has checked stays true while it awaits: the    *)
(* setting cannot be switched, nor another connection be admitted.            *)
CheckedStays ==
  \A c \in Conns :
    /\ stage[c] \in Admitting /\ session[c].needs => access
    /\ stage[c] = "recording" /\ conn[c] = "up" => "playback" \in session[c].acts
    /\ stage[c] \in {"displacing", "draining"} /\ conn[c] = "up" => admitted = c

(* While it is off, unpaired access is used only until its setter, which      *)
(* holds the lock, closes the connection.                                     *)
ClosedByItsSetter ==
  ~access => \A c \in Conns : Serving(c) /\ session[c].needs => setter.step = "saving"

ServingInv == TypeOK /\ LockKept /\ CheckedStays /\ OneServing /\ ClosedByItsSetter

(* The attempts that run by a gesture, and what is left of it: the window     *)
(* counts at least the failures since it was opened.                          *)
GestureInv ==
  /\ spent.live \subseteq spent.by
  /\ \A c, d \in spent.by : c = d
  /\ spent.failed <= MaxFailures /\ spent.paired <= 1
  /\ spent.live # {} => spent.failed < MaxFailures /\ spent.paired = 0
  /\ window.open => /\ spent.by \subseteq {window.owner}
                    /\ spent.failed <= window.failures /\ window.failures < MaxFailures
                    /\ spent.paired = 0

-----------------------------------------------------------------------------
(* The admission lock. *)

LEMMA WithoutType ==
  ASSUME NEW T, NEW q \in Seq(T), NEW c
  PROVE  /\ Without(q, c) \in Seq(T)
         /\ q # <<>> /\ Head(q) # c => Without(q, c) # <<>> /\ Head(Without(q, c)) = Head(q)
<1>1. CASE \E i \in DOMAIN q : q[i] = c
  <2> DEFINE i == CHOOSE i \in DOMAIN q : q[i] = c
  <2>1. i \in 1 .. Len(q) /\ q[i] = c
    BY <1>1, LenProperties
  <2> DEFINE l == SubSeq(q, 1, i - 1)
             r == SubSeq(q, i + 1, Len(q))
  <2>2. Without(q, c) = l \o r
    BY <1>1 DEF Without
  <2>3. Len(q) \in Nat /\ \A j \in 1 .. Len(q) : q[j] \in T
    BY LenProperties, ElementOfSeq
  <2> HIDE DEF i
  <2>4. /\ l \in Seq(T) /\ Len(l) = IF 1 <= i - 1 THEN i - 1 ELSE 0
        /\ \A j \in 1 .. i - 1 : l[j] = q[j]
    <3>1. \A j \in 1 .. i - 1 : q[j] \in T
      BY <2>1, <2>3
    <3> QED BY <2>1, <2>3, <3>1, SubSeqProperties
  <2>5. r \in Seq(T)
    <3>1. \A j \in i + 1 .. Len(q) : q[j] \in T
      BY <2>1, <2>3
    <3> QED BY <2>1, <2>3, <3>1, SubSeqProperties
  <2> HIDE DEF l, r
  <2>6. l \o r \in Seq(T) /\ Len(l \o r) = Len(l) + Len(r)
        /\ \A j \in 1 .. Len(l) + Len(r) : (l \o r)[j] = IF j <= Len(l) THEN l[j] ELSE r[j - Len(l)]
    BY <2>4, <2>5, ConcatProperties
  <2>7. ASSUME q # <<>>, Head(q) # c
        PROVE  l \o r # <<>> /\ Head(l \o r) = Head(q)
    <3>1. i # 1 /\ i > 1
      BY <2>1, <2>7, <2>3
    <3>2. Len(l) = i - 1 /\ Len(l) \in Nat \ {0} /\ Len(r) \in Nat
      BY <3>1, <2>1, <2>3, <2>4, <2>5, LenProperties
    <3>3. (l \o r)[1] = q[1] /\ Len(l \o r) > 0
      BY <3>1, <3>2, <2>4, <2>6, <2>1
    <3> QED BY <3>3, <2>6
  <2> QED BY <2>2, <2>6, <2>7
<1>2. CASE ~ \E i \in DOMAIN q : q[i] = c
  BY <1>2 DEF Without
<1> QED BY <1>1, <1>2

-----------------------------------------------------------------------------
(* Types. *)

Line == Conns \cup {Setter}

LEMMA DisconnectType ==
  ASSUME TypeOK, NEW c, Disconnect(c) \/ DisconnectIfUp(c)
  PROVE  /\ conn' \in [Conns -> {"none", "up", "closing", "closed"}]
         /\ attempt' \in [Conns -> Attempts] /\ noting' \subseteq Conns
<1>1. NoAttempt \in Attempts
  BY DEF NoAttempt, Attempts
<1>2. CASE Disconnect(c)
  BY <1>1, <1>2 DEF TypeOK, Disconnect
<1>3. CASE UNCHANGED <<conn, attempt, noting>>
  BY <1>3 DEF TypeOK
<1> QED BY <1>2, <1>3 DEF DisconnectIfUp

LEMMA EndAdmissionType ==
  ASSUME TypeOK, NEW c, EndAdmission(c)
  PROVE  provisional' \subseteq Conns /\ open' \subseteq Conns
BY DEF TypeOK, EndAdmission

LEMMA LeaveType ==
  ASSUME TypeOK, NEW c, Leave(c)
  PROVE  /\ stage' \in [Conns -> Stages] /\ line' \in Seq(Line)
         /\ provisional' \subseteq Conns /\ open' \subseteq Conns
<1>1. line' \in Seq(Line)
  BY WithoutType DEF TypeOK, Leave, Line
<1> QED BY <1>1, EndAdmissionType DEF TypeOK, Leave, Stages

LEMMA CloseAndLeaveType ==
  ASSUME TypeOK, NEW c, CloseAndLeave(c)
  PROVE  /\ stage' \in [Conns -> Stages] /\ line' \in Seq(Line)
         /\ provisional' \subseteq Conns /\ open' \subseteq Conns
         /\ conn' \in [Conns -> {"none", "up", "closing", "closed"}]
         /\ attempt' \in [Conns -> Attempts] /\ noting' \subseteq Conns
<1>1. CASE conn[c] = "up"
  BY <1>1, DisconnectType DEF TypeOK, CloseAndLeave, Stages, Line
<1>2. CASE conn[c] # "up"
  BY <1>2, LeaveType DEF TypeOK, CloseAndLeave
<1> QED BY <1>1, <1>2

LEMMA ServeType ==
  ASSUME TypeOK, NEW c, line # <<>>, Serve(c)
  PROVE  /\ stage' \in [Conns -> Stages] /\ line' \in Seq(Line)
         /\ provisional' \subseteq Conns /\ open' \subseteq Conns
         /\ attempt' \in [Conns -> Attempts] /\ victim' \in Conns \cup {None}
<1>1. line' \in Seq(Line)
  BY HeadTailProperties DEF TypeOK, Serve, Line
<1>2. Begun \in Attempts
  BY DEF Begun, Attempts
<1> QED BY <1>1, <1>2, EndAdmissionType DEF TypeOK, Serve, Stages

LEMMA AdmitType ==
  ASSUME TypeOK, NEW c \in Conns, line # <<>>, Admit(c)
  PROVE  /\ stage' \in [Conns -> Stages] /\ line' \in Seq(Line)
         /\ provisional' \subseteq Conns /\ open' \subseteq Conns
         /\ attempt' \in [Conns -> Attempts] /\ victim' \in Conns \cup {None}
         /\ admitted' \in Conns \cup {None}
<1>1. CASE conn[c] # "up"
  BY <1>1, LeaveType DEF TypeOK, Admit
<1>2. CASE conn[c] = "up" /\ admitted = None
  BY <1>2, ServeType DEF TypeOK, Admit
<1>3. CASE conn[c] = "up" /\ admitted # None
  BY <1>3 DEF TypeOK, Admit, Stages, Line
<1> QED BY <1>1, <1>2, <1>3

Windows  == [open: BOOLEAN, owner: Conns \cup {None}, failures: Nat]
Spendings == [live: SUBSET Conns, by: SUBSET Conns, failed: Nat, paired: Nat]
Shuts    == [step: {"no", "provisional", "goodbye", "closing", "done"},
             todo: SUBSET Conns, on: Conns \cup {None}]

LEMMA ClaimType ==
  ASSUME TypeOK, NEW c \in Conns, ClaimWindow(c)
  PROVE  window' \in Windows /\ spent' \in Spendings
<1>1. window' \in Windows
  BY DEF TypeOK, ClaimWindow, Windows
<1>2. spent' \in Spendings
  <2> DEFINE l == spent.live \cup {c}
             b == spent.by \cup {c}
  <2>1. l \in SUBSET Conns /\ b \in SUBSET Conns
    BY DEF TypeOK
  <2>2. spent' = [spent EXCEPT !.live = l, !.by = b]
    BY DEF ClaimWindow
  <2> HIDE DEF l, b
  <2> QED BY <2>1, <2>2 DEF TypeOK, Spendings
<1> QED BY <1>1, <1>2

LEMMA RecordType ==
  ASSUME TypeOK, NEW c \in Conns, NEW p \in BOOLEAN, RecordAttempt(c, p)
  PROVE  window' \in Windows
<1> DEFINE f == window.failures + IF p THEN 0 ELSE 1
<1>1. f \in Nat
  BY DEF TypeOK
<1>2. window' = IF window.owner # c THEN window
                ELSE IF p \/ f >= MaxFailures THEN Closed ELSE [window EXCEPT !.failures = f]
  BY DEF RecordAttempt
<1> HIDE DEF f
<1>3. Closed \in Windows /\ window \in Windows
  BY DEF Closed, Windows, TypeOK
<1>4. [window EXCEPT !.failures = f] \in Windows
  BY <1>1, <1>3 DEF Windows
<1> QED BY <1>2, <1>3, <1>4

LEMMA SpentEndType ==
  ASSUME TypeOK, NEW c \in Conns, NEW p \in BOOLEAN
  PROVE  /\ [spent EXCEPT !.live = @ \ {c}] \in Spendings
         /\ [spent EXCEPT !.live = @ \ {c}, !.paired = @ + IF p THEN 1 ELSE 0,
                          !.failed = @ + IF p THEN 0 ELSE 1] \in Spendings
<1> DEFINE l == spent.live \ {c}
           k == spent.paired + IF p THEN 1 ELSE 0
           f == spent.failed + IF p THEN 0 ELSE 1
<1>1. l \in SUBSET Conns /\ k \in Nat /\ f \in Nat /\ spent \in Spendings
  BY DEF TypeOK, Spendings
<1>2. /\ [spent EXCEPT !.live = @ \ {c}] = [spent EXCEPT !.live = l]
      /\ [spent EXCEPT !.live = @ \ {c}, !.paired = @ + IF p THEN 1 ELSE 0,
                       !.failed = @ + IF p THEN 0 ELSE 1]
         = [spent EXCEPT !.live = l, !.paired = k, !.failed = f]
  OBVIOUS
<1> HIDE DEF l, k, f
<1>3. /\ [spent EXCEPT !.live = l] \in Spendings
      /\ [spent EXCEPT !.live = l, !.paired = k, !.failed = f] \in Spendings
  BY <1>1 DEF Spendings
<1> QED BY <1>2, <1>3

LEMMA ShutReturnsType ==
  ASSUME TypeOK, ShutReturns
  PROVE  shut' \in Shuts /\ asked' \subseteq Conns
BY DEF TypeOK, ShutReturns, Shuts

LEMMA AttemptType ==
  ASSUME TypeOK, NEW c
  PROVE  /\ \A k \in {"none", "begun", "waiting", "running", "final"}, g \in BOOLEAN :
              SetAttempt(c, k, g) => attempt' \in [Conns -> Attempts]
         /\ attempt' = [attempt EXCEPT ![c] = NoAttempt] => attempt' \in [Conns -> Attempts]
         /\ NoAttempt \in Attempts /\ Begun \in Attempts
<1>1. NoAttempt \in Attempts /\ Begun \in Attempts
  BY DEF NoAttempt, Begun, Attempts
<1>2. ASSUME NEW k \in {"none", "begun", "waiting", "running", "final"}, NEW g \in BOOLEAN,
             SetAttempt(c, k, g)
      PROVE  attempt' \in [Conns -> Attempts]
  <2>1. [step |-> k, gated |-> g] \in Attempts
    BY DEF Attempts
  <2> QED BY <1>2, <2>1 DEF SetAttempt, TypeOK
<1> QED BY <1>1, <1>2 DEF TypeOK

LEMMA TypeInit == Init => TypeOK
<1> SUFFICES ASSUME Init PROVE TypeOK
  OBVIOUS
<1>1. NoSession \in Sessions /\ NoAttempt \in Attempts /\ Closed \in Windows /\ Unspent \in Spendings
  BY DEF NoSession, Sessions, NoAttempt, Attempts, Closed, Windows, Unspent, Spendings
<1>2. line \in Seq(Line)
  BY EmptySeq DEF Init
<1> QED BY <1>1, <1>2, AdmissionAssumption DEF Init, TypeOK, Stages, Windows, Spendings,
  Line

LEMMA TypeStep == TypeOK /\ [Next]_vars => TypeOK'
<1> SUFFICES ASSUME TypeOK, [Next]_vars PROVE TypeOK'
  OBVIOUS
<1> USE AdmissionAssumption
<1>1. ASSUME NEW c \in Conns, Begin(c) PROVE TypeOK'
  BY <1>1
     DEF Begin, TypeOK, connVars, slotVars, windowVars, accessVars, shutVars, Stages
<1>2. ASSUME NEW c \in Conns, Handshaken(c) PROVE TypeOK'
  BY <1>2
     DEF Handshaken, TypeOK, connVars, slotVars, windowVars, accessVars, shutVars, Stages
<1>3. ASSUME NEW c \in Conns, BringUpFails(c) PROVE TypeOK'
  BY <1>3, CloseAndLeaveType
     DEF BringUpFails, TypeOK, connVars, slotVars, windowVars, accessVars, shutVars, Line
<1>4. ASSUME NEW c \in Conns, Ended(c) PROVE TypeOK'
  BY <1>4, LeaveType
     DEF Ended, TypeOK, connVars, slotVars, windowVars, accessVars, shutVars, Line
<1>5. ASSUME NEW c \in Conns, NEW s \in Kinds, Activated(c, s) PROVE TypeOK'
  <2>1. CASE s.needs /\ ~access
    BY <1>5, <2>1, CloseAndLeaveType DEF Activated, TypeOK, connVars, slotVars, windowVars,
      accessVars, shutVars, Line
  <2>2. CASE ~(s.needs /\ ~access)
    <3>1. s \in Sessions
      BY <1>5
    <3>2. Append(line, c) \in Seq(Line)
      BY AppendProperties DEF TypeOK, Line
    <3>3. /\ session' = [session EXCEPT ![c] = s] /\ stage' = [stage EXCEPT ![c] = "waiting"]
          /\ line' = Append(line, c) /\ UNCHANGED <<conn, noting, attempt, provisional, open>>
      BY <1>5, <2>2 DEF Activated
    <3>4. /\ session' \in [Conns -> Sessions] /\ stage' \in [Conns -> Stages]
          /\ line' \in Seq(Line)
      BY <3>1, <3>2, <3>3 DEF TypeOK, Stages
    <3> QED BY <1>5, <3>3, <3>4 DEF Activated, TypeOK, connVars, slotVars, windowVars,
      accessVars, shutVars, Line
  <2> QED BY <2>1, <2>2
<1>6. ASSUME NEW c \in Conns, Decide(c) PROVE TypeOK'
  <2>1. line # <<>>
    BY <1>6 DEF Decide, Holds
  <2>2. CASE CloseAndLeave(c) /\ UNCHANGED <<admitted, victim>>
    BY <1>6, <2>2, CloseAndLeaveType DEF Decide, TypeOK, connVars, slotVars, windowVars,
      accessVars, shutVars, Line
  <2>3. CASE stage' = [stage EXCEPT ![c] = "recording"] /\ UNCHANGED <<attempt, slotVars, conn, noting>>
    BY <1>6, <2>3 DEF Decide, TypeOK, connVars, slotVars, windowVars, accessVars, shutVars,
      Stages
  <2>4. CASE Admit(c) /\ UNCHANGED <<conn, noting>>
    BY <1>6, <2>1, <2>4, AdmitType DEF Decide, TypeOK, connVars, slotVars, windowVars,
      accessVars, shutVars, Line
  <2> QED BY <1>6, <2>2, <2>3, <2>4 DEF Decide
<1>7. ASSUME NEW c \in Conns, Recorded(c) PROVE TypeOK'
  BY <1>7, AdmitType
     DEF Recorded, TypeOK, connVars, slotVars, windowVars, accessVars, shutVars, Holds,
       Server, Line
<1>8. ASSUME NEW c \in Conns, Dismissed(c) PROVE TypeOK'
  <2>1. line # <<>>
    BY <1>8 DEF Dismissed, Holds
  <2>2. CASE conn[victim] = "up"
    BY <1>8, <2>2, DisconnectType DEF Dismissed, TypeOK, connVars, slotVars, windowVars,
      accessVars, shutVars, Stages
  <2>3. CASE conn[victim] # "up"
    BY <1>8, <2>1, <2>3, ServeType DEF Dismissed, TypeOK, connVars, slotVars, windowVars,
      accessVars, shutVars, Line
  <2> QED BY <2>2, <2>3
<1>9. ASSUME NEW c \in Conns, Drained(c) PROVE TypeOK'
  BY <1>9, ServeType
     DEF Drained, TypeOK, connVars, slotVars, windowVars, accessVars, shutVars, Holds, Line
<1>10. ASSUME NEW c \in Conns, Cancelled(c) PROVE TypeOK'
  BY <1>10, LeaveType, DisconnectType
     DEF Cancelled, TypeOK, connVars, slotVars, windowVars, accessVars, shutVars, Line
<1>11. ASSUME NEW c \in Conns, ConnectionClosed(c) PROVE TypeOK'
  BY <1>11
     DEF ConnectionClosed, TypeOK, connVars, slotVars, windowVars, accessVars, shutVars,
       NoSession, Sessions, Stages, Closed
<1>12. ASSUME NEW c \in Conns, ConnectionLost(c) PROVE TypeOK'
  BY <1>12, DisconnectType
     DEF ConnectionLost, TypeOK, connVars, slotVars, windowVars, accessVars, shutVars
<1>13. ASSUME NEW c \in Conns, Noted(c) PROVE TypeOK'
  BY <1>13
     DEF Noted, TypeOK, connVars, slotVars, windowVars, accessVars, shutVars, Begun,
       Attempts
<1>14. ASSUME NEW c \in Conns, NEW s \in Kinds, Reactivated(c, s) PROVE TypeOK'
  <2>1. CASE s.needs /\ ~access
    BY <1>14, <2>1, DisconnectType DEF Reactivated, TypeOK, connVars, slotVars, windowVars,
      accessVars, shutVars
  <2>2. CASE ~(s.needs /\ ~access)
    <3> DEFINE w == c = admitted /\ "playback" \in s.acts /\ ServerOf[c] # last
               a == IF "pairing" \in s.acts /\ ~w THEN Begun ELSE NoAttempt
               n == IF w THEN noting \cup {c} ELSE noting
    <3>1. s \in Sessions /\ a \in Attempts /\ n \subseteq Conns
      BY <1>14, AttemptType DEF TypeOK
    <3>2. /\ noting' = n /\ attempt' = [attempt EXCEPT ![c] = a]
          /\ session' = [session EXCEPT ![c] = s] /\ conn' = conn
      BY <1>14, <2>2 DEF Reactivated
    <3> HIDE DEF w, a, n
    <3> QED BY <1>14, <3>1, <3>2 DEF Reactivated, TypeOK, connVars, slotVars, windowVars,
      accessVars, shutVars
  <2> QED BY <2>1, <2>2
<1>15. ASSUME NEW c \in Conns, NEW g \in Gating, AttemptStarts(c, g) PROVE TypeOK'
  <2>1. window' \in Windows /\ spent' \in Spendings
    BY <1>15, ClaimType DEF AttemptStarts, TypeOK, Windows, Spendings
  <2>2. attempt' \in [Conns -> Attempts]
    BY <1>15, AttemptType DEF AttemptStarts
  <2> QED BY <1>15, <2>1, <2>2 DEF AttemptStarts, TypeOK, connVars, slotVars, windowVars,
    accessVars, shutVars, Windows, Spendings
<1>16. ASSUME NEW c \in Conns, AttemptAdmitted(c) PROVE TypeOK'
  <2>1. window' \in Windows /\ spent' \in Spendings
    BY <1>16, ClaimType DEF AttemptAdmitted
  <2>2. attempt' \in [Conns -> Attempts]
    BY <1>16, AttemptType DEF AttemptAdmitted
  <2> QED BY <1>16, <2>1, <2>2
    DEF AttemptAdmitted, TypeOK, connVars, slotVars, windowVars, accessVars, shutVars,
      Windows, Spendings
<1>17. ASSUME NEW c \in Conns, AttemptFinal(c) PROVE TypeOK'
  BY <1>17
     DEF AttemptFinal, TypeOK, connVars, slotVars, windowVars, accessVars, shutVars,
       SetAttempt, Attempts
<1>18. ASSUME NEW c \in Conns, AttemptEnds(c) PROVE TypeOK'
  <2>1. spent' \in Spendings /\ attempt' \in [Conns -> Attempts]
    BY <1>18, SpentEndType, AttemptType DEF AttemptEnds
  <2> QED BY <1>18, <2>1 DEF AttemptEnds, TypeOK, connVars, slotVars, windowVars,
    accessVars, shutVars, Spendings
<1>19. ASSUME NEW c \in Conns, NEW p \in BOOLEAN, GatedAttemptEnds(c, p) PROVE TypeOK'
  <2>1. spent' \in Spendings /\ attempt' \in [Conns -> Attempts]
    BY <1>19, SpentEndType, AttemptType DEF GatedAttemptEnds, TypeOK, Spendings
  <2>2. window' \in Windows
    BY <1>19, RecordType DEF GatedAttemptEnds
  <2> QED BY <1>19, <2>1, <2>2 DEF GatedAttemptEnds, TypeOK, connVars, slotVars,
    windowVars, accessVars, shutVars, Windows, Spendings
<1>20. ASSUME CancelPairing PROVE TypeOK'
  BY <1>20
     DEF CancelPairing, TypeOK, connVars, slotVars, windowVars, accessVars, shutVars,
       NoAttempt, Attempts, Closed
<1>21. ASSUME OpenWindow PROVE TypeOK'
  <2>1. Unspent \in Spendings
    BY DEF Unspent, Spendings
  <2>2. window' \in Windows
    BY <1>21 DEF OpenWindow, Closed, Windows
  <2> QED BY <1>21, <2>1, <2>2 DEF OpenWindow, TypeOK, connVars, slotVars, windowVars,
    accessVars, shutVars, Windows, Spendings
<1>22. ASSUME CloseWindow PROVE TypeOK'
  <2>1. window' \in Windows
    <3>1. CASE window' = Closed
      BY <3>1 DEF Closed, Windows
    <3>2. CASE window' = [window EXCEPT !.open = FALSE]
      BY <3>2 DEF TypeOK, Windows
    <3> QED BY <1>22, <3>1, <3>2 DEF CloseWindow
  <2> QED BY <1>22, <2>1 DEF CloseWindow, TypeOK, connVars, slotVars, windowVars,
    accessVars, shutVars, Windows
<1>23. ASSUME NEW v \in BOOLEAN, AskAccess(v) PROVE TypeOK'
  BY <1>23, AppendProperties
     DEF AskAccess, TypeOK, connVars, slotVars, windowVars, accessVars, shutVars, Line
<1>24. ASSUME WriteAccess PROVE TypeOK'
  BY <1>24
     DEF WriteAccess, TypeOK, connVars, slotVars, windowVars, accessVars, shutVars, Holds
<1>25. ASSUME AccessWritten PROVE TypeOK'
  <2>1. line # <<>>
    BY <1>25 DEF AccessWritten, Holds
  <2>2. setter' \in [step: {"idle", "waiting", "saving", "closing"}, value: BOOLEAN]
    BY <1>25 DEF AccessWritten, ReleaseAccess, TypeOK
  <2>3. CASE Disconnect(admitted) /\ UNCHANGED slotVars
    BY <1>25, <2>2, <2>3, DisconnectType DEF AccessWritten, TypeOK, connVars, slotVars,
      windowVars, accessVars, shutVars
  <2>4. CASE ReleaseAccess /\ UNCHANGED <<conn, attempt, noting>>
    BY <1>25, <2>1, <2>2, <2>4, HeadTailProperties DEF AccessWritten, ReleaseAccess,
      TypeOK, connVars, slotVars, windowVars, accessVars, shutVars
  <2> QED BY <1>25, <2>3, <2>4 DEF AccessWritten
<1>26. ASSUME AccessSet PROVE TypeOK'
  BY <1>26, HeadTailProperties
     DEF AccessSet, TypeOK, connVars, slotVars, windowVars, accessVars, shutVars, Line,
       Holds, ReleaseAccess
<1>27. ASSUME Shutdown PROVE TypeOK'
  <2>1. shut' \in Shuts /\ asked' \subseteq Conns
    BY <1>27 DEF Shutdown, Shuts, Known, TypeOK
  <2> QED BY <1>27, <2>1 DEF Shutdown, TypeOK, connVars, slotVars, windowVars, accessVars,
    shutVars, Shuts
<1>28. ASSUME ShutAdmitted PROVE TypeOK'
  <2>1. shut' \in Shuts /\ asked' \subseteq Conns
    <3>1. CASE ShutReturns
      BY <3>1, ShutReturnsType
    <3>2. CASE shut' = [shut EXCEPT !.step = "goodbye", !.on = admitted] /\ asked' = asked
      BY <3>2 DEF TypeOK, Shuts
    <3> QED BY <1>28, <3>1, <3>2 DEF ShutAdmitted
  <2> QED BY <1>28, <2>1 DEF ShutAdmitted, TypeOK, connVars, slotVars, windowVars,
    accessVars, shutVars, Shuts
<1>29. ASSUME ShutGoodbye PROVE TypeOK'
  BY <1>29, DisconnectType
     DEF ShutGoodbye, TypeOK, connVars, slotVars, windowVars, accessVars, shutVars,
       ShutReturns
<1>30. ASSUME ShutClosed PROVE TypeOK'
  BY <1>30
     DEF ShutClosed, TypeOK, connVars, slotVars, windowVars, accessVars, shutVars,
       ShutReturns
<1>31. ASSUME NEW c \in Conns, ShutProvisional(c) PROVE TypeOK'
  BY <1>31, DisconnectType, ZenonT(30)
     DEF ShutProvisional, TypeOK, connVars, slotVars, windowVars, accessVars, shutVars
<1>32. CASE UNCHANGED vars
  BY <1>32 DEF TypeOK, vars, connVars, slotVars, windowVars, accessVars, shutVars
<1> QED BY <1>1, <1>2, <1>3, <1>4, <1>5, <1>6, <1>7, <1>8, <1>9, <1>10, <1>11, <1>12,
  <1>13, <1>14, <1>15, <1>16, <1>17, <1>18, <1>19, <1>20, <1>21, <1>22, <1>23, <1>24,
  <1>25, <1>26, <1>27, <1>28, <1>29, <1>30, <1>31, <1>32, SMTT(30)
  DEF Next, BringUp, Admission, Steady, Pairing, Operator
-----------------------------------------------------------------------------
(* Slots. *)

SlotOK(c) ==
  /\ conn[c] = "up" => c \in open
  /\ stage[c] \in {"serving", "done"} /\ conn[c] \in {"none", "closed"} => c \notin open

LEMMA OpenFinite == TypeOK => IsFiniteSet(open) /\ Cardinality(open) \in Nat
BY AdmissionAssumption, FS_Subset, FS_CardinalityType DEF TypeOK

LEMMA FewerSlots ==
  ASSUME TypeOK, SlotsKept, open' \subseteq open, \A c \in Conns : SlotOK(c) => SlotOK(c)'
  PROVE  SlotsKept'
<1>1. Cardinality(open') <= Cardinality(open) /\ Cardinality(open') \in Nat
  BY OpenFinite, FS_Subset, FS_CardinalityType
<1>2. Cardinality(open') < Capacity
  BY <1>1, OpenFinite, AdmissionAssumption DEF SlotsKept
<1> QED BY <1>2 DEF SlotsKept, SlotOK

LEMMA SlotsStep == TypeOK /\ SlotsKept /\ [Next]_vars => SlotsKept'
<1> SUFFICES ASSUME TypeOK, SlotsKept, [Next]_vars PROVE SlotsKept'
  OBVIOUS
<1>1. ASSUME NEW c \in Conns, Begin(c) PROVE SlotsKept'
  <2>1. open' = open \/ (open' = open \cup {c} /\ Cardinality(open) < Capacity - 1)
    BY <1>1 DEF Begin
  <2>2. Cardinality(open') < Capacity
    <3>1. Cardinality(open \cup {c}) <= Cardinality(open) + 1 /\ Cardinality(open \cup {c}) \in Nat
      <4>1. IsFiniteSet(open) /\ Cardinality(open) \in Nat
        BY OpenFinite
      <4>2. Cardinality(open \cup {c}) = IF c \in open THEN Cardinality(open) ELSE Cardinality(open) + 1
        BY <4>1, FS_AddElement
      <4> QED BY <4>1, <4>2
    <3>2. Capacity \in Int /\ Cardinality(open) \in Nat /\ Cardinality(open) < Capacity
      BY OpenFinite, AdmissionAssumption DEF SlotsKept
    <3>3. CASE open' = open
      BY <3>2, <3>3
    <3>4. CASE open' = open \cup {c} /\ Cardinality(open) < Capacity - 1
      BY <3>1, <3>2, <3>4, SMT
    <3> QED BY <2>1, <3>3, <3>4
  <2>3. \A d \in Conns : SlotOK(d)'
    BY <1>1, <2>1 DEF Begin, SlotsKept, SlotOK, TypeOK, connVars
  <2> QED BY <2>2, <2>3 DEF SlotsKept, SlotOK
<1>2. ASSUME NEW c \in Conns, Handshaken(c) PROVE SlotsKept'
  BY <1>2, FewerSlots
     DEF Handshaken, TypeOK, SlotOK, connVars, slotVars, windowVars, accessVars, shutVars
<1>3. ASSUME NEW c \in Conns, BringUpFails(c) PROVE SlotsKept'
  BY <1>3, FewerSlots
     DEF BringUpFails, CloseAndLeave, Leave, EndAdmission, Disconnect, TypeOK, SlotOK,
       connVars, slotVars, windowVars, accessVars, shutVars
<1>4. ASSUME NEW c \in Conns, Ended(c) PROVE SlotsKept'
  BY <1>4, FewerSlots
     DEF Ended, Leave, EndAdmission, TypeOK, SlotOK, connVars, slotVars, windowVars,
       accessVars, shutVars
<1>5. ASSUME NEW c \in Conns, NEW s \in Kinds, Activated(c, s) PROVE SlotsKept'
  BY <1>5, FewerSlots
     DEF Activated, CloseAndLeave, Leave, EndAdmission, Disconnect, TypeOK, SlotOK,
       connVars, slotVars, windowVars, accessVars, shutVars
<1>6. ASSUME NEW c \in Conns, Decide(c) PROVE SlotsKept'
  BY <1>6, FewerSlots
     DEF Decide, CloseAndLeave, Leave, EndAdmission, Disconnect, Admit, Serve, TypeOK,
       SlotOK, connVars, slotVars, windowVars, accessVars, shutVars
<1>7. ASSUME NEW c \in Conns, Recorded(c) PROVE SlotsKept'
  BY <1>7, FewerSlots
     DEF Recorded, Admit, Leave, Serve, EndAdmission, TypeOK, SlotOK, connVars, slotVars,
       windowVars, accessVars, shutVars
<1>8. ASSUME NEW c \in Conns, Dismissed(c) PROVE SlotsKept'
  BY <1>8, FewerSlots
     DEF Dismissed, Disconnect, Serve, EndAdmission, TypeOK, SlotOK, connVars, slotVars,
       windowVars, accessVars, shutVars
<1>9. ASSUME NEW c \in Conns, Drained(c) PROVE SlotsKept'
  BY <1>9, FewerSlots
     DEF Drained, Serve, EndAdmission, TypeOK, SlotOK, connVars, slotVars, windowVars,
       accessVars, shutVars
<1>10. ASSUME NEW c \in Conns, Cancelled(c) PROVE SlotsKept'
  BY <1>10, FewerSlots
     DEF Cancelled, Leave, EndAdmission, DisconnectIfUp, Disconnect, TypeOK, SlotOK,
       connVars, slotVars, windowVars, accessVars, shutVars
<1>11. ASSUME NEW c \in Conns, ConnectionClosed(c) PROVE SlotsKept'
  BY <1>11, FewerSlots
     DEF ConnectionClosed, TypeOK, SlotOK, connVars, slotVars, windowVars, accessVars,
       shutVars
<1>12. ASSUME NEW c \in Conns, ConnectionLost(c) PROVE SlotsKept'
  BY <1>12, FewerSlots
     DEF ConnectionLost, Disconnect, TypeOK, SlotOK, connVars, slotVars, windowVars,
       accessVars, shutVars
<1>13. ASSUME NEW c \in Conns, NEW s \in Kinds, Reactivated(c, s) PROVE SlotsKept'
  BY <1>13, FewerSlots
     DEF Reactivated, Disconnect, TypeOK, SlotOK, connVars, slotVars, windowVars,
       accessVars, shutVars
<1>14. ASSUME AccessWritten PROVE SlotsKept'
  BY <1>14, FewerSlots
     DEF AccessWritten, Disconnect, ReleaseAccess, TypeOK, SlotOK, connVars, slotVars,
       windowVars, accessVars, shutVars
<1>15. ASSUME ShutGoodbye PROVE SlotsKept'
  BY <1>15, FewerSlots
     DEF ShutGoodbye, DisconnectIfUp, Disconnect, TypeOK, SlotOK, connVars, slotVars,
       windowVars, accessVars, shutVars
<1>16. ASSUME NEW c \in Conns, ShutProvisional(c) PROVE SlotsKept'
  BY <1>16, FewerSlots
     DEF ShutProvisional, DisconnectIfUp, Disconnect, TypeOK, SlotOK, connVars, slotVars,
       windowVars, accessVars, shutVars
<1>17. CASE
           \/ \E c \in Conns : Noted(c)
           \/ \E c \in Conns : \E g \in Gating : AttemptStarts(c, g)
           \/ \E c \in Conns : AttemptAdmitted(c)
           \/ \E c \in Conns : AttemptFinal(c)
           \/ \E c \in Conns : AttemptEnds(c)
           \/ \E c \in Conns : \E p \in BOOLEAN : GatedAttemptEnds(c, p)
           \/ CancelPairing
           \/ OpenWindow
           \/ CloseWindow
           \/ \E v \in BOOLEAN : AskAccess(v)
           \/ WriteAccess
           \/ AccessSet
           \/ Shutdown
           \/ ShutAdmitted
           \/ ShutClosed
           \/ UNCHANGED vars
  <2>1. UNCHANGED <<stage, conn, open>>
    BY <1>17 DEF Noted, AttemptStarts, AttemptAdmitted, AttemptFinal, AttemptEnds,
      GatedAttemptEnds, CancelPairing, OpenWindow, CloseWindow, AskAccess, WriteAccess,
      AccessSet, Shutdown, ShutAdmitted, ShutClosed, ReleaseAccess, vars, connVars,
      slotVars, windowVars, accessVars, shutVars
  <2> QED BY <2>1 DEF SlotsKept
<1> QED BY <1>1, <1>2, <1>3, <1>4, <1>5, <1>6, <1>7, <1>8, <1>9, <1>10, <1>11, <1>12,
  <1>13, <1>14, <1>15, <1>16, <1>17, SMTT(30)
  DEF Next, BringUp, Admission, Steady, Pairing, Operator

-----------------------------------------------------------------------------
(* One server is served, and none that is refused. *)

Later == LockKept /\ CheckedStays /\ OneServing /\ ClosedByItsSetter

LEMMA StillHolds ==
  ASSUME TypeOK, NEW d, Holds(d)
  PROVE  /\ \A c : c # d /\ line' = Without(line, c) => Holds(d)'
         /\ \A c \in Line : line' = Append(line, c) => Holds(d)'
         /\ line' = line => Holds(d)'
<1>1. line \in Seq(Line) /\ line # <<>> /\ Head(line) = d
  BY DEF TypeOK, Line, Holds
<1>2. \A c : c # d /\ line' = Without(line, c) => Holds(d)'
  BY <1>1, WithoutType DEF Holds
<1>3. ASSUME NEW c \in Line, line' = Append(line, c)
      PROVE  Holds(d)'
  <2>1. Len(line) >= 1 /\ Len(line) \in Nat
    BY <1>1, EmptySeq
  <2>2. Append(line, c) # <<>> /\ Append(line, c)[1] = line[1]
    BY <1>1, <2>1, AppendProperties
  <2> QED BY <1>1, <1>3, <2>2 DEF Holds
<1> QED BY <1>1, <1>2, <1>3 DEF Holds

(* Connections only end. *)
LEMMA Closing ==
  ASSUME ServingInv, UNCHANGED <<stage, session, line, admitted, victim, access, setter>>,
         \A c \in Conns : conn'[c] = "up" => conn[c] = "up"
  PROVE  Later'
BY DEF ServingInv, Later, LockKept, CheckedStays, OneServing, ClosedByItsSetter, Serving,
       BeingDisplaced, Holds

(* A task leaves that displaces nobody. *)
LEMMA Leaving ==
  ASSUME ServingInv, NEW c \in Conns, stage[c] \notin {"displacing", "draining"},
         stage' = [stage EXCEPT ![c] = "done"] \/ stage' = [stage EXCEPT ![c] = "ending"],
         line' = line \/ line' = Without(line, c),
         \A d \in Conns : conn'[d] = "up" => conn[d] = "up",
         UNCHANGED <<session, admitted, victim, access, setter>>
  PROVE  Later'
<1>1. /\ stage'[c] \in {"done", "ending"}
      /\ \A d \in Conns \ {c} : stage'[d] = stage[d]
  BY DEF ServingInv, TypeOK
<1>2. \A d \in Conns \ {c} : Holds(d) => Holds(d)'
  BY StillHolds DEF ServingInv
<1>3. LockKept'
  BY <1>1, <1>2 DEF ServingInv, LockKept, Admitting
<1>4. CheckedStays'
  BY <1>1 DEF ServingInv, CheckedStays, Admitting
<1>5. OneServing'
  BY <1>1, <1>2 DEF ServingInv, OneServing, Serving, BeingDisplaced
<1>6. ClosedByItsSetter'
  BY <1>1 DEF ServingInv, ClosedByItsSetter, Serving
<1> QED BY <1>3, <1>4, <1>5, <1>6 DEF Later

(* While a connection holds the lock in its admission, the only other that    *)
(* is served is the admitted one, or the one it displaces.                    *)
LEMMA ServedMeanwhile ==
  ASSUME ServingInv, NEW h, Holds(h), NEW c \in Conns, Serving(c)
  PROVE  c = admitted \/ (c = victim /\ h \in Conns /\ stage[h] = "displacing")
BY DEF ServingInv, OneServing, BeingDisplaced, Holds

(* The admitted connection starts. *)
LEMMA Starting ==
  ASSUME ServingInv, NEW c \in Conns, Holds(c), Serve(c),
         UNCHANGED <<session, access, setter>>, conn' = conn,
         \/ /\ admitted = None /\ admitted' = c
            /\ stage[c] \in {"waiting", "recording"} /\ ~RefusesUnpaired(c)
         \/ /\ admitted' = admitted /\ stage[c] \in {"displacing", "draining"}
            /\ stage[c] = "displacing" => conn[victim] # "up"
  PROVE  Later'
<1>1. \A d \in Conns \ {c} : stage'[d] = stage[d] /\ stage[d] \notin Admitting
  BY DEF ServingInv, TypeOK, LockKept, Serve, Holds
<1>2. stage'[c] \in {"serving", "done"} /\ (stage'[c] = "serving" => conn[c] = "up")
  BY DEF ServingInv, TypeOK, Serve
<1>3. LockKept' /\ CheckedStays'
  BY <1>1, <1>2 DEF LockKept, CheckedStays, Admitting
<1>4. stage'[c] = "serving" => admitted' = c /\ (session[c].needs => access)
  BY <1>2 DEF ServingInv, CheckedStays, Admitting, RefusesUnpaired
<1>5. \A d \in Conns \ {c} : Serving(d) => d = admitted'
  <2> SUFFICES ASSUME NEW d \in Conns \ {c}, Serving(d) PROVE d = admitted'
    OBVIOUS
  <2>1. d = admitted \/ (d = victim /\ stage[c] = "displacing")
    BY ServedMeanwhile
  <2>2. d \in Conns /\ conn[d] = "up" /\ d # None
    BY AdmissionAssumption DEF Serving
  <2> QED BY <2>1, <2>2
<1>6. OneServing'
  BY <1>1, <1>4, <1>5 DEF OneServing, Serving
<1>7. ClosedByItsSetter'
  BY <1>1, <1>4 DEF ServingInv, ClosedByItsSetter, Serving
<1> QED BY <1>3, <1>6, <1>7 DEF Later

(* The holder of the lock is admitted, and starts or displaces.               *)
LEMMA Admitted ==
  ASSUME ServingInv, NEW c \in Conns, Holds(c), Admit(c),
         stage[c] \in {"waiting", "recording"}, ~RefusesUnpaired(c),
         UNCHANGED <<session, access, setter>>, conn' = conn
  PROVE  Later'
<1>1. CASE conn[c] # "up"
  BY <1>1, Leaving DEF Admit, Leave
<1>2. CASE conn[c] = "up" /\ admitted = None
  BY <1>2, Starting DEF Admit
<1>3. CASE conn[c] = "up" /\ admitted # None
  <2>1. /\ stage' = [stage EXCEPT ![c] = "displacing"] /\ line' = line
        /\ admitted' = c /\ victim' = admitted
    BY <1>3 DEF Admit
  <2>2. /\ stage'[c] = "displacing" /\ Holds(c)'
        /\ \A d \in Conns \ {c} : stage'[d] = stage[d] /\ stage[d] \notin Admitting
    BY <2>1 DEF ServingInv, TypeOK, LockKept, Holds
  <2>3. LockKept' /\ CheckedStays'
    BY <2>1, <2>2 DEF LockKept, CheckedStays, Admitting, RefusesUnpaired
  <2>4. \A d \in Conns : Serving(d) => d = admitted
    BY ServedMeanwhile
  <2>5. OneServing'
    BY <2>1, <2>2, <2>4 DEF OneServing, Serving, BeingDisplaced
  <2>6. ClosedByItsSetter'
    BY <2>2 DEF ServingInv, ClosedByItsSetter, Serving
  <2> QED BY <2>3, <2>5, <2>6 DEF Later
<1> QED BY <1>1, <1>2, <1>3

LEMMA ServingStep == ServingInv /\ [Next]_vars => ServingInv'
<1> SUFFICES ASSUME ServingInv, [Next]_vars PROVE ServingInv'
  OBVIOUS
<1>1. ASSUME NEW c \in Conns, Begin(c) PROVE Later'
  <2>1. /\ stage'[c] = "handshake" /\ \A d \in Conns \ {c} : stage'[d] = stage[d]
        /\ UNCHANGED <<conn, session, line, admitted, victim, access, setter>>
        /\ stage[c] = "new"
    BY <1>1 DEF Begin, ServingInv, TypeOK, accessVars
  <2> QED BY <2>1 DEF ServingInv, Later, LockKept, CheckedStays, OneServing,
    ClosedByItsSetter,
                      Serving, BeingDisplaced, Holds, Admitting
<1>2. ASSUME NEW c \in Conns, Handshaken(c) PROVE Later'
  <2>1. /\ stage'[c] \in {"hello", "ending"} /\ stage[c] = "handshake"
        /\ \A d \in Conns \ {c} : stage'[d] = stage[d] /\ conn'[d] = conn[d]
        /\ UNCHANGED <<session, line, admitted, victim, access, setter>>
    BY <1>2 DEF Handshaken, ServingInv, TypeOK, slotVars, accessVars
  <2> QED BY <2>1 DEF ServingInv, Later, LockKept, CheckedStays, OneServing,
    ClosedByItsSetter,
                      Serving, BeingDisplaced, Holds, Admitting
<1>3. ASSUME NEW c \in Conns, BringUpFails(c) PROVE Later'
  <2>1. \A d \in Conns : conn'[d] = "up" => conn[d] = "up"
    BY <1>3 DEF BringUpFails, CloseAndLeave, Disconnect, ServingInv, TypeOK
  <2> QED BY <1>3, <2>1, Leaving DEF BringUpFails, CloseAndLeave, Leave, accessVars
<1>4. ASSUME NEW c \in Conns, Ended(c) PROVE Later'
  BY <1>4, Leaving DEF Ended, Leave, accessVars
<1>5. ASSUME NEW c \in Conns, NEW s \in Kinds, Activated(c, s) PROVE Later'
  <2>1. CASE s.needs /\ ~access
    <3>1. \A d \in Conns : conn'[d] = "up" => conn[d] = "up"
      BY <1>5, <2>1 DEF Activated, CloseAndLeave, Disconnect, ServingInv, TypeOK
    <3> QED BY <1>5, <2>1, <3>1, Leaving DEF Activated, CloseAndLeave, Leave, accessVars
  <2>2. CASE ~(s.needs /\ ~access)
    <3>1. /\ stage' = [stage EXCEPT ![c] = "waiting"] /\ session' = [session EXCEPT ![c] = s]
          /\ line' = Append(line, c) /\ stage[c] = "hello"
          /\ UNCHANGED <<conn, admitted, victim, access, setter>>
      BY <1>5, <2>2 DEF Activated, accessVars
    <3>2. /\ stage'[c] = "waiting"
          /\ \A d \in Conns \ {c} : stage'[d] = stage[d] /\ session'[d] = session[d]
      BY <3>1 DEF ServingInv, TypeOK
    <3>3. \A d \in Conns : Holds(d) => Holds(d)'
      BY <3>1, StillHolds DEF ServingInv, Line
    <3>4. LockKept' /\ CheckedStays'
      BY <3>1, <3>2, <3>3 DEF ServingInv, LockKept, CheckedStays, Admitting
    <3>5. OneServing'
      BY <3>1, <3>2, <3>3 DEF ServingInv, OneServing, Serving, BeingDisplaced
    <3>6. ClosedByItsSetter'
      BY <3>1, <3>2 DEF ServingInv, ClosedByItsSetter, Serving
    <3> QED BY <3>4, <3>5, <3>6 DEF Later
  <2> QED BY <2>1, <2>2
<1>6. ASSUME NEW c \in Conns, Decide(c) PROVE Later'
  <2>1. Holds(c) /\ stage[c] = "waiting" /\ UNCHANGED <<session, access, setter>>
    BY <1>6 DEF Decide, accessVars
  <2>2. CASE CloseAndLeave(c) /\ UNCHANGED <<admitted, victim>>
    <3>1. \A d \in Conns : conn'[d] = "up" => conn[d] = "up"
      BY <2>2 DEF CloseAndLeave, Disconnect, ServingInv, TypeOK
    <3> QED BY <2>1, <2>2, <3>1, Leaving DEF CloseAndLeave, Leave
  <2>3. CASE /\ ~RefusesUnpaired(c) /\ Records(c) /\ UNCHANGED <<attempt, slotVars, conn, noting>>
            /\ stage' = [stage EXCEPT ![c] = "recording"]
    <3>1. /\ stage'[c] = "recording" /\ Holds(c)'
          /\ \A d \in Conns \ {c} : stage'[d] = stage[d] /\ stage[d] \notin Admitting
      BY <2>1, <2>3 DEF ServingInv, TypeOK, LockKept, Holds, slotVars
    <3>2. LockKept' /\ CheckedStays'
      BY <2>1, <2>3, <3>1 DEF LockKept, CheckedStays, Admitting, RefusesUnpaired, Records
    <3>3. \A d \in Conns : Serving(d) => d = admitted
      BY <2>1, ServedMeanwhile
    <3>4. OneServing'
      BY <2>3, <3>1, <3>3 DEF OneServing, Serving, slotVars
    <3>5. ClosedByItsSetter'
      BY <2>1, <2>3, <3>1 DEF ServingInv, ClosedByItsSetter, Serving
    <3> QED BY <3>2, <3>4, <3>5 DEF Later
  <2>4. CASE ~RefusesUnpaired(c) /\ Admit(c) /\ UNCHANGED <<conn, noting>>
    BY <2>1, <2>4, Admitted
  <2> QED BY <1>6, <2>2, <2>3, <2>4 DEF Decide
<1>7. ASSUME NEW c \in Conns, Recorded(c) PROVE Later'
  <2>1. ~RefusesUnpaired(c)
    BY <1>7 DEF Recorded, RefusesUnpaired, ServingInv, CheckedStays, Admitting
  <2> QED BY <1>7, <2>1, Admitted DEF Recorded, accessVars
<1>8. ASSUME NEW c \in Conns, Dismissed(c) PROVE Later'
  <2>1. CASE conn[victim] = "up"
    <3>1. /\ stage' = [stage EXCEPT ![c] = "draining"] /\ conn' = [conn EXCEPT ![victim] = "closing"]
          /\ stage[c] = "displacing" /\ Holds(c)
          /\ UNCHANGED <<session, line, admitted, victim, access, setter>>
      BY <1>8, <2>1 DEF Dismissed, Disconnect, slotVars, accessVars
    <3>2. /\ stage'[c] = "draining" /\ \A d \in Conns \ {c} : stage'[d] = stage[d]
          /\ \A d \in Conns : conn'[d] = "up" => conn[d] = "up" /\ d # victim
      BY <3>1 DEF ServingInv, TypeOK
    <3>3. LockKept' /\ CheckedStays'
      BY <3>1, <3>2 DEF ServingInv, LockKept, CheckedStays, Admitting, Holds
    <3>4. OneServing'
      BY <3>1, <3>2 DEF ServingInv, OneServing, Serving, BeingDisplaced
    <3>5. ClosedByItsSetter'
      BY <3>1, <3>2 DEF ServingInv, ClosedByItsSetter, Serving
    <3> QED BY <3>3, <3>4, <3>5 DEF Later
  <2>2. CASE conn[victim] # "up"
    BY <1>8, <2>2, Starting DEF Dismissed, accessVars
  <2> QED BY <2>1, <2>2
<1>9. ASSUME NEW c \in Conns, Drained(c) PROVE Later'
  BY <1>9, Starting DEF Drained, accessVars
<1>10. ASSUME NEW c \in Conns, Cancelled(c) PROVE Later'
  <2>1. \A d \in Conns : conn'[d] = "up" => conn[d] = "up"
    BY <1>10 DEF Cancelled, DisconnectIfUp, Disconnect, ServingInv, TypeOK
  <2> QED BY <1>10, <2>1, Leaving DEF Cancelled, Leave, accessVars
<1>11. ASSUME NEW c \in Conns, ConnectionClosed(c) PROVE Later'
  <2>1. /\ stage'[c] = IF stage[c] = "serving" THEN "done" ELSE stage[c]
        /\ \A d \in Conns \ {c} : stage'[d] = stage[d] /\ conn'[d] = conn[d] /\ session'[d] = session[d]
        /\ conn'[c] = "closed" /\ session'[c].needs = FALSE
        /\ admitted' = (IF admitted = c THEN None ELSE admitted)
        /\ UNCHANGED <<line, victim, access, setter>>
    BY <1>11 DEF ConnectionClosed, NoSession, ServingInv, TypeOK, accessVars
  <2>2. LockKept' /\ CheckedStays'
    BY <2>1 DEF ServingInv, LockKept, CheckedStays, Holds, Admitting
  <2>3. OneServing'
    BY <2>1 DEF ServingInv, OneServing, Serving, BeingDisplaced, Holds
  <2>4. ClosedByItsSetter'
    BY <2>1 DEF ServingInv, ClosedByItsSetter, Serving
  <2> QED BY <2>2, <2>3, <2>4 DEF Later
<1>12. ASSUME NEW c \in Conns, NEW s \in Kinds, Reactivated(c, s) PROVE Later'
  <2>1. /\ stage[c] = "serving" /\ UNCHANGED <<stage, line, admitted, victim, access, setter>>
        /\ \A d \in Conns : conn'[d] = "up" => conn[d] = "up"
        /\ \A d \in Conns \ {c} : session'[d] = session[d]
        /\ conn'[c] = "up" /\ ~access => ~session'[c].needs
    BY <1>12 DEF Reactivated, Disconnect, ServingInv, TypeOK, slotVars, accessVars
  <2>2. LockKept' /\ CheckedStays'
    BY <2>1 DEF ServingInv, LockKept, CheckedStays, Holds, Admitting
  <2>3. OneServing'
    BY <2>1 DEF ServingInv, OneServing, Serving, BeingDisplaced, Holds
  <2>4. ClosedByItsSetter'
    BY <2>1 DEF ServingInv, ClosedByItsSetter, Serving
  <2> QED BY <2>2, <2>3, <2>4 DEF Later
<1>13. ASSUME NEW v \in BOOLEAN, AskAccess(v) PROVE Later'
  <2>1. /\ UNCHANGED <<stage, conn, session, admitted, victim, access>>
        /\ setter.step = "idle" /\ line' = Append(line, Setter)
    BY <1>13 DEF AskAccess, connVars
  <2>2. \A d \in Conns : Holds(d) => Holds(d)'
    BY <2>1, StillHolds DEF ServingInv, Line
  <2> QED BY <2>1, <2>2 DEF ServingInv, Later, LockKept, CheckedStays, OneServing,
                            ClosedByItsSetter, Serving, BeingDisplaced
<1>14. ASSUME WriteAccess PROVE Later'
  <2>1. /\ UNCHANGED <<stage, conn, session, line, admitted, victim>>
        /\ setter'.step = "saving" /\ Holds(Setter)
    BY <1>14 DEF WriteAccess, connVars, slotVars, ServingInv, TypeOK
  <2>2. \A d \in Conns : ~Holds(d)
    BY <2>1, AdmissionAssumption DEF Holds
  <2> QED BY <2>1, <2>2 DEF ServingInv, Later, LockKept, CheckedStays, OneServing,
                            ClosedByItsSetter, Serving, BeingDisplaced, Holds
<1>15. ASSUME AccessWritten PROVE Later'
  <2>1. Holds(Setter) /\ UNCHANGED <<stage, session, victim, admitted, access>>
    BY <1>15 DEF AccessWritten, ReleaseAccess, slotVars
  <2>2. \A d \in Conns : ~Holds(d) /\ stage[d] \notin Admitting
    BY <2>1, AdmissionAssumption DEF Holds, ServingInv, LockKept
  <2>3. \A d \in Conns : Serving(d) => d = admitted
    BY <2>2 DEF ServingInv, OneServing, BeingDisplaced
  <2>4. LockKept' /\ CheckedStays'
    BY <2>1, <2>2 DEF LockKept, CheckedStays, Admitting
  <2>5. /\ \A d \in Conns : conn'[d] = "up" => conn[d] = "up"
        /\ ~access => \A d \in Conns : Serving(d)' => ~session[d].needs
    <3>1. CASE admitted # None /\ conn[admitted] = "up" /\ RefusesUnpaired(admitted)
      <4>1. conn' = [conn EXCEPT ![admitted] = "closing"]
        BY <1>15, <3>1 DEF AccessWritten, Disconnect
      <4> QED BY <2>1, <2>3, <4>1 DEF Serving, ServingInv, TypeOK
    <3>2. CASE ~(admitted # None /\ conn[admitted] = "up" /\ RefusesUnpaired(admitted))
      <4>1. conn' = conn
        BY <1>15, <3>2 DEF AccessWritten
      <4>2. \A d \in Conns : Serving(d) => ~RefusesUnpaired(d)
        BY <2>3, <3>2, AdmissionAssumption DEF Serving
      <4> QED BY <2>1, <4>1, <4>2 DEF Serving, RefusesUnpaired
    <3> QED BY <3>1, <3>2
  <2> QED BY <2>1, <2>3, <2>4, <2>5 DEF Later, OneServing, ClosedByItsSetter, Serving
<1>16. ASSUME AccessSet PROVE Later'
  <2>1. /\ Holds(Setter) /\ UNCHANGED <<stage, conn, session, victim, admitted, access>>
        /\ setter.step = "closing"
    BY <1>16 DEF AccessSet, ReleaseAccess, connVars
  <2>2. \A d \in Conns : ~Holds(d) /\ stage[d] \notin Admitting
    BY <2>1, AdmissionAssumption DEF Holds, ServingInv, LockKept
  <2> QED BY <2>1, <2>2 DEF ServingInv, Later, LockKept, CheckedStays, OneServing,
                            ClosedByItsSetter, Serving, BeingDisplaced
<1>17. CASE
           \/ \E c \in Conns : ConnectionLost(c)
           \/ \E c \in Conns : Noted(c)
           \/ \E c \in Conns : \E g \in Gating : AttemptStarts(c, g)
           \/ \E c \in Conns : AttemptAdmitted(c)
           \/ \E c \in Conns : AttemptFinal(c)
           \/ \E c \in Conns : AttemptEnds(c)
           \/ \E c \in Conns : \E p \in BOOLEAN : GatedAttemptEnds(c, p)
           \/ CancelPairing
           \/ OpenWindow
           \/ CloseWindow
           \/ Shutdown
           \/ ShutAdmitted
           \/ ShutGoodbye
           \/ ShutClosed
           \/ \E c \in Conns : ShutProvisional(c)
           \/ UNCHANGED vars
  <2>1. /\ UNCHANGED <<stage, session, line, admitted, victim, access, setter>>
        /\ \A c \in Conns : conn'[c] = "up" => conn[c] = "up"
    BY <1>17 DEF ConnectionLost, Noted, AttemptStarts, AttemptAdmitted, AttemptFinal,
      AttemptEnds, GatedAttemptEnds, CancelPairing, OpenWindow, CloseWindow, Shutdown,
      ShutAdmitted, ShutGoodbye, ShutClosed, ShutProvisional, Disconnect, DisconnectIfUp,
      ServingInv, TypeOK, vars,
       connVars, slotVars, windowVars, accessVars, shutVars
  <2> QED BY <2>1, Closing, TypeStep, SMTT(30) DEF ServingInv, Later
<1> QED BY <1>1, <1>2, <1>3, <1>4, <1>5, <1>6, <1>7, <1>8, <1>9, <1>10, <1>11, <1>12,
  <1>13, <1>14, <1>15, <1>16, <1>17, TypeStep, SMTT(30)
  DEF Next, BringUp, Admission, Steady, Pairing, Operator, ServingInv, Later

-----------------------------------------------------------------------------
(* The admitted connection is live. *)

LEMMA AdmittedStep == TypeOK /\ AdmittedLives /\ [Next]_vars => AdmittedLives'
<1> SUFFICES ASSUME TypeOK, AdmittedLives, [Next]_vars PROVE AdmittedLives'
  OBVIOUS
<1>1. ASSUME NEW c \in Conns, Handshaken(c) PROVE AdmittedLives'
  BY <1>1
     DEF Handshaken, TypeOK, AdmittedLives, slotVars, connVars
<1>2. ASSUME NEW c \in Conns, BringUpFails(c) PROVE AdmittedLives'
  BY <1>2
     DEF BringUpFails, CloseAndLeave, Leave, Disconnect, TypeOK, AdmittedLives, slotVars,
       connVars
<1>3. ASSUME NEW c \in Conns, NEW s \in Kinds, Activated(c, s) PROVE AdmittedLives'
  BY <1>3
     DEF Activated, CloseAndLeave, Leave, Disconnect, TypeOK, AdmittedLives, slotVars,
       connVars
<1>4. ASSUME NEW c \in Conns, Decide(c) PROVE AdmittedLives'
  BY <1>4
     DEF Decide, CloseAndLeave, Leave, Disconnect, Admit, Serve, TypeOK, AdmittedLives,
       slotVars, connVars
<1>5. ASSUME NEW c \in Conns, Recorded(c) PROVE AdmittedLives'
  BY <1>5
     DEF Recorded, Admit, TypeOK, AdmittedLives, slotVars, connVars
<1>6. ASSUME NEW c \in Conns, Dismissed(c) PROVE AdmittedLives'
  BY <1>6
     DEF Dismissed, Disconnect, TypeOK, AdmittedLives, slotVars, connVars
<1>7. ASSUME NEW c \in Conns, Drained(c) PROVE AdmittedLives'
  BY <1>7
     DEF Drained, TypeOK, AdmittedLives, slotVars, connVars
<1>8. ASSUME NEW c \in Conns, Cancelled(c) PROVE AdmittedLives'
  BY <1>8
     DEF Cancelled, Leave, DisconnectIfUp, Disconnect, TypeOK, AdmittedLives, slotVars,
       connVars
<1>9. ASSUME NEW c \in Conns, ConnectionClosed(c) PROVE AdmittedLives'
  BY <1>9
     DEF ConnectionClosed, TypeOK, AdmittedLives, slotVars, connVars
<1>10. ASSUME NEW c \in Conns, ConnectionLost(c) PROVE AdmittedLives'
  BY <1>10
     DEF ConnectionLost, Disconnect, TypeOK, AdmittedLives, slotVars, connVars
<1>11. ASSUME NEW c \in Conns, NEW s \in Kinds, Reactivated(c, s) PROVE AdmittedLives'
  BY <1>11
     DEF Reactivated, Disconnect, TypeOK, AdmittedLives, slotVars, connVars
<1>12. ASSUME AccessWritten PROVE AdmittedLives'
  BY <1>12
     DEF AccessWritten, Disconnect, ReleaseAccess, TypeOK, AdmittedLives, slotVars, connVars
<1>13. ASSUME ShutGoodbye PROVE AdmittedLives'
  BY <1>13
     DEF ShutGoodbye, DisconnectIfUp, Disconnect, TypeOK, AdmittedLives, slotVars, connVars
<1>14. ASSUME NEW c \in Conns, ShutProvisional(c) PROVE AdmittedLives'
  BY <1>14
     DEF ShutProvisional, DisconnectIfUp, Disconnect, TypeOK, AdmittedLives, slotVars,
       connVars
<1>15. CASE
           \/ \E c \in Conns : Begin(c)
           \/ \E c \in Conns : Ended(c)
           \/ \E c \in Conns : Noted(c)
           \/ \E c \in Conns : \E g \in Gating : AttemptStarts(c, g)
           \/ \E c \in Conns : AttemptAdmitted(c)
           \/ \E c \in Conns : AttemptFinal(c)
           \/ \E c \in Conns : AttemptEnds(c)
           \/ \E c \in Conns : \E p \in BOOLEAN : GatedAttemptEnds(c, p)
           \/ CancelPairing
           \/ OpenWindow
           \/ CloseWindow
           \/ \E v \in BOOLEAN : AskAccess(v)
           \/ WriteAccess
           \/ AccessSet
           \/ Shutdown
           \/ ShutAdmitted
           \/ ShutClosed
           \/ UNCHANGED vars
  <2>1. UNCHANGED <<conn, admitted>>
    BY <1>15 DEF Begin, Ended, Noted, AttemptStarts, AttemptAdmitted, AttemptFinal,
      AttemptEnds, GatedAttemptEnds, CancelPairing, OpenWindow, CloseWindow, AskAccess,
      WriteAccess, AccessSet, Shutdown, ShutAdmitted, ShutClosed, Leave, ReleaseAccess,
      vars, connVars, slotVars, windowVars, accessVars, shutVars
  <2> QED BY <2>1 DEF AdmittedLives
<1> QED BY <1>1, <1>2, <1>3, <1>4, <1>5, <1>6, <1>7, <1>8, <1>9, <1>10, <1>11, <1>12,
  <1>13, <1>14, <1>15, SMTT(30)
  DEF Next, BringUp, Admission, Steady, Pairing, Operator

-----------------------------------------------------------------------------
(* A playing server is displaced by a playing one. *)

Kept(a, b) ==
  a # None /\ b # a /\ b \notin Dialed \cup {None} /\ conn[a] = "up" /\ Rank(a) = 2
    => Rank(b) = 2

LEMMA AdmitKeepsPlayback ==
  ASSUME TypeOK, NEW c \in Conns, Admit(c),
         "playback" \in session[c].acts \/ c \in Dialed \/ ShouldAdmit(c)
  PROVE  Kept(admitted, admitted')
<1>1. admitted' = admitted \/ admitted' = c
  BY DEF Admit
<1>2. CASE "playback" \in session[c].acts
  BY <1>1, <1>2 DEF Kept, Rank
<1>3. CASE c \in Dialed
  BY <1>1, <1>3 DEF Kept
<1>4. CASE ShouldAdmit(c)
  <2> SUFFICES ASSUME admitted # None, conn[admitted] = "up", Rank(admitted) = 2
               PROVE  Rank(c) = 2
    BY <1>1 DEF Kept
  <2>1. Outranks(c, admitted)
    BY <1>4 DEF ShouldAdmit
  <2>2. Rank(c) \in {0, 1, 2}
    BY DEF Rank
  <2> QED BY <2>1, <2>2 DEF Outranks
<1> QED BY <1>2, <1>3, <1>4

LEMMA PlaybackStep == ServingInv /\ [Next]_vars => Kept(admitted, admitted')
<1> SUFFICES ASSUME ServingInv, [Next]_vars PROVE Kept(admitted, admitted')
  OBVIOUS
<1>1. ASSUME NEW c \in Conns, Decide(c) PROVE Kept(admitted, admitted')
  <2>1. CASE UNCHANGED admitted
    BY <2>1 DEF Kept
  <2>2. CASE Admit(c) /\ (c \in Dialed \/ ShouldAdmit(c))
    BY <2>2, AdmitKeepsPlayback DEF ServingInv
  <2> QED BY <1>1, <2>1, <2>2 DEF Decide, slotVars
<1>2. ASSUME NEW c \in Conns, Recorded(c) PROVE Kept(admitted, admitted')
  <2>1. CASE conn[c] = "up"
    BY <1>2, <2>1, AdmitKeepsPlayback DEF Recorded, ServingInv, CheckedStays
  <2>2. CASE conn[c] # "up"
    BY <1>2, <2>2 DEF Recorded, Admit, Kept
  <2> QED BY <2>1, <2>2
<1>3. ASSUME NEW c \in Conns, ConnectionClosed(c) PROVE Kept(admitted, admitted')
  BY <1>3 DEF ConnectionClosed, Kept
<1>4. CASE
           \/ \E c \in Conns : Begin(c)
           \/ \E c \in Conns : Handshaken(c)
           \/ \E c \in Conns : BringUpFails(c)
           \/ \E c \in Conns : Ended(c)
           \/ \E c \in Conns : \E s \in Kinds : Activated(c, s)
           \/ \E c \in Conns : Dismissed(c)
           \/ \E c \in Conns : Drained(c)
           \/ \E c \in Conns : Cancelled(c)
           \/ \E c \in Conns : ConnectionLost(c)
           \/ \E c \in Conns : Noted(c)
           \/ \E c \in Conns : \E s \in Kinds : Reactivated(c, s)
           \/ \E c \in Conns : \E g \in Gating : AttemptStarts(c, g)
           \/ \E c \in Conns : AttemptAdmitted(c)
           \/ \E c \in Conns : AttemptFinal(c)
           \/ \E c \in Conns : AttemptEnds(c)
           \/ \E c \in Conns : \E p \in BOOLEAN : GatedAttemptEnds(c, p)
           \/ CancelPairing
           \/ OpenWindow
           \/ CloseWindow
           \/ \E v \in BOOLEAN : AskAccess(v)
           \/ WriteAccess
           \/ AccessWritten
           \/ AccessSet
           \/ Shutdown
           \/ ShutAdmitted
           \/ ShutGoodbye
           \/ ShutClosed
           \/ \E c \in Conns : ShutProvisional(c)
           \/ UNCHANGED vars
  <2>1. admitted' = admitted
    BY <1>4 DEF Begin, Handshaken, BringUpFails, Ended, Activated, Dismissed, Drained,
      Cancelled, ConnectionLost, Noted, Reactivated, AttemptStarts, AttemptAdmitted,
      AttemptFinal, AttemptEnds, GatedAttemptEnds, CancelPairing, OpenWindow, CloseWindow,
      AskAccess, WriteAccess, AccessWritten, AccessSet, Shutdown, ShutAdmitted,
      ShutGoodbye, ShutClosed, ShutProvisional, CloseAndLeave, Leave, Serve, ReleaseAccess,
      vars, slotVars
  <2> QED BY <2>1 DEF Kept
<1> QED BY <1>1, <1>2, <1>3, <1>4, SMTT(30)
  DEF Next, BringUp, Admission, Steady, Pairing, Operator

-----------------------------------------------------------------------------
(* Gestures. *)

LEMMA Claiming ==
  ASSUME TypeOK, GestureInv, NEW c \in Conns, Admits(c), ClaimWindow(c)
  PROVE  GestureInv'
<1>1. window.open /\ window.owner \in {None, c}
  BY DEF Admits
<1>2. /\ window'.open /\ window'.owner = c /\ window'.failures = window.failures
      /\ spent'.live = spent.live \cup {c} /\ spent'.by = spent.by \cup {c}
      /\ spent'.failed = spent.failed /\ spent'.paired = spent.paired
  BY <1>1 DEF ClaimWindow, TypeOK
<1>3. spent.by \subseteq {c}
  BY <1>1, AdmissionAssumption DEF GestureInv, TypeOK
<1>4. spent.failed \in Nat /\ window.failures \in Nat /\ MaxFailures \in Nat
  BY AdmissionAssumption DEF TypeOK
<1> QED BY <1>1, <1>2, <1>3, <1>4 DEF GestureInv

LEMMA Recording ==
  ASSUME TypeOK, GestureInv, NEW c \in Conns, NEW p \in BOOLEAN, RecordAttempt(c, p),
         spent' = IF c \notin spent.live THEN spent
                  ELSE [spent EXCEPT !.live = @ \ {c},
                                     !.paired = @ + IF p THEN 1 ELSE 0,
                                     !.failed = @ + IF p THEN 0 ELSE 1]
  PROVE  GestureInv'
<1> DEFINE f == window.failures + IF p THEN 0 ELSE 1
<1>1. /\ spent.failed \in Nat /\ spent.paired \in Nat /\ window.failures \in Nat
      /\ f \in Nat /\ MaxFailures \in Nat /\ window.open \in BOOLEAN
  BY AdmissionAssumption DEF TypeOK
<1>2. \/ window.owner # c /\ window' = window
      \/ ~window'.open
      \/ /\ window.owner = c /\ ~p /\ f < MaxFailures
         /\ window'.open = window.open /\ window'.owner = c /\ window'.failures = f
  <2>1. window' = IF window.owner # c THEN window
                  ELSE IF p \/ f >= MaxFailures THEN Closed ELSE [window EXCEPT !.failures = f]
    BY DEF RecordAttempt
  <2> HIDE DEF f
  <2>2. CASE window.owner # c
    BY <2>1, <2>2
  <2>3. CASE window.owner = c /\ (p \/ f >= MaxFailures)
    BY <2>1, <2>3 DEF Closed
  <2>4. CASE window.owner = c /\ ~(p \/ f >= MaxFailures)
    BY <1>1, <2>1, <2>4 DEF TypeOK
  <2> QED BY <2>2, <2>3, <2>4
<1>3. CASE c \notin spent.live
  BY <1>1, <1>2, <1>3 DEF GestureInv
<1>4. CASE c \in spent.live
  <2>1. /\ spent'.live = spent.live \ {c} /\ spent'.by = spent.by
        /\ spent'.paired = spent.paired + (IF p THEN 1 ELSE 0)
        /\ spent'.failed = spent.failed + (IF p THEN 0 ELSE 1)
    BY <1>4 DEF TypeOK
  <2>2. spent'.live = {} /\ spent.failed < MaxFailures /\ spent.paired = 0
    BY <1>4, <2>1 DEF GestureInv
  <2>3. window.open => window.owner = c
    BY <1>4 DEF GestureInv
  <2> QED BY <1>1, <1>2, <2>1, <2>2, <2>3 DEF GestureInv
<1> QED BY <1>3, <1>4

LEMMA GestureStep == TypeOK /\ GestureInv /\ [Next]_vars => GestureInv'
<1> SUFFICES ASSUME TypeOK, GestureInv, [Next]_vars PROVE GestureInv'
  OBVIOUS
<1>1. ASSUME NEW c \in Conns, ConnectionClosed(c) PROVE GestureInv'
  BY <1>1 DEF ConnectionClosed, Closed, GestureInv
<1>2. ASSUME NEW c \in Conns, NEW g \in Gating, AttemptStarts(c, g) PROVE GestureInv'
  <2>1. CASE g /\ Admits(c)
    BY <1>2, <2>1, Claiming DEF AttemptStarts
  <2>2. CASE ~(g /\ Admits(c))
    BY <1>2, <2>2 DEF AttemptStarts, GestureInv
  <2> QED BY <2>1, <2>2
<1>3. ASSUME NEW c \in Conns, AttemptAdmitted(c) PROVE GestureInv'
  BY <1>3, Claiming DEF AttemptAdmitted
<1>4. ASSUME NEW c \in Conns, AttemptEnds(c) PROVE GestureInv'
  <2>1. window' = window /\ spent' = [spent EXCEPT !.live = spent.live \ {c}]
    BY <1>4 DEF AttemptEnds
  <2>2. /\ spent'.live = spent.live \ {c} /\ spent'.by = spent.by
        /\ spent'.failed = spent.failed /\ spent'.paired = spent.paired
    BY <2>1 DEF TypeOK
  <2> QED BY <2>1, <2>2 DEF GestureInv
<1>5. ASSUME NEW c \in Conns, NEW p \in BOOLEAN, GatedAttemptEnds(c, p) PROVE GestureInv'
  BY <1>5, Recording DEF GatedAttemptEnds
<1>6. ASSUME CancelPairing PROVE GestureInv'
  BY <1>6 DEF CancelPairing, Closed, GestureInv
<1>7. ASSUME OpenWindow PROVE GestureInv'
  <2>1. spent' = Unspent /\ window' = [Closed EXCEPT !.open = TRUE]
    BY <1>7 DEF OpenWindow
  <2>2. MaxFailures \in Nat \ {0}
    BY AdmissionAssumption
  <2> QED BY <2>1, <2>2 DEF Unspent, Closed, GestureInv
<1>8. ASSUME CloseWindow PROVE GestureInv'
  <2>1. ~window'.open /\ spent' = spent
    BY <1>8 DEF CloseWindow, Closed, TypeOK
  <2> QED BY <2>1 DEF GestureInv
<1>9. CASE
           \/ \E c \in Conns : Begin(c)
           \/ \E c \in Conns : Handshaken(c)
           \/ \E c \in Conns : BringUpFails(c)
           \/ \E c \in Conns : Ended(c)
           \/ \E c \in Conns : \E s \in Kinds : Activated(c, s)
           \/ \E c \in Conns : Decide(c)
           \/ \E c \in Conns : Recorded(c)
           \/ \E c \in Conns : Dismissed(c)
           \/ \E c \in Conns : Drained(c)
           \/ \E c \in Conns : Cancelled(c)
           \/ \E c \in Conns : ConnectionLost(c)
           \/ \E c \in Conns : Noted(c)
           \/ \E c \in Conns : \E s \in Kinds : Reactivated(c, s)
           \/ \E c \in Conns : AttemptFinal(c)
           \/ \E v \in BOOLEAN : AskAccess(v)
           \/ WriteAccess
           \/ AccessWritten
           \/ AccessSet
           \/ Shutdown
           \/ ShutAdmitted
           \/ ShutGoodbye
           \/ ShutClosed
           \/ \E c \in Conns : ShutProvisional(c)
           \/ UNCHANGED vars
  <2>1. UNCHANGED <<window, spent>>
    BY <1>9 DEF Begin, Handshaken, BringUpFails, Ended, Activated, Decide, Recorded,
      Dismissed, Drained, Cancelled, ConnectionLost, Noted, Reactivated, AttemptFinal,
      AskAccess, WriteAccess, AccessWritten, AccessSet, Shutdown, ShutAdmitted,
      ShutGoodbye, ShutClosed, ShutProvisional, vars, windowVars
  <2> QED BY <2>1 DEF GestureInv
<1> QED BY <1>1, <1>2, <1>3, <1>4, <1>5, <1>6, <1>7, <1>8, <1>9, SMTT(30)
  DEF Next, BringUp, Admission, Steady, Pairing, Operator

LEMMA OneByGesture == TypeOK /\ GestureInv => GestureSpent
<1> SUFFICES ASSUME TypeOK, GestureInv PROVE Cardinality(spent.by) <= 1
  BY DEF GestureInv, GestureSpent
<1>1. CASE spent.by = {}
  BY <1>1, FS_EmptySet
<1>2. CASE spent.by # {}
  <2>1. PICK c \in spent.by : TRUE
    BY <1>2
  <2>2. spent.by = {c}
    BY <2>1 DEF GestureInv
  <2>3. Cardinality({c}) = 1
    BY FS_Singleton
  <2> QED BY <2>2, <2>3
<1> QED BY <1>1, <1>2

-----------------------------------------------------------------------------
(* The theorems. *)

LEMMA InitHolds == Init => ServingInv /\ SlotsKept /\ AdmittedLives /\ GestureInv
<1> SUFFICES ASSUME Init PROVE ServingInv /\ SlotsKept /\ AdmittedLives /\ GestureInv
  OBVIOUS
<1>1. /\ \A c \in Conns : stage[c] = "new" /\ conn[c] = "none"
      /\ open = {} /\ admitted = None /\ spent = Unspent /\ window = Closed
  BY DEF Init
<1>2. ServingInv
  BY <1>1, TypeInit DEF ServingInv, LockKept, CheckedStays, Admitting, OneServing,
     ClosedByItsSetter, Serving
<1>3. SlotsKept
  BY <1>1, FS_EmptySet, AdmissionAssumption DEF SlotsKept
<1>4. GestureInv
  BY <1>1, AdmissionAssumption DEF GestureInv, Unspent, Closed
<1> QED BY <1>1, <1>2, <1>3, <1>4 DEF AdmittedLives

(* Every variable keeps its type. *)
THEOREM AdmissionTypeCorrect == Spec => []TypeOK
BY TypeInit, TypeStep, PTL DEF Spec

LEMMA ServingInvariant == Spec => []ServingInv
BY InitHolds, ServingStep, PTL DEF Spec

(* However many servers connect, are dialed, play, pair and leave at once, at *)
(* most one is served, next to the one that is just told that it is displaced. *)
THEOREM OneServingHolds == Spec => []OneServing
<1>1. ServingInv => OneServing
  BY DEF ServingInv
<1> QED BY <1>1, ServingInvariant, PTL

(* Once set_unpaired_access has returned from switching it off, no served     *)
(* connection relies on unpaired access.                                      *)
THEOREM UnpairedRefusedHolds == Spec => []UnpairedRefused
<1>1. ServingInv => UnpairedRefused
  BY DEF ServingInv, ClosedByItsSetter, UnpairedRefused
<1> QED BY <1>1, ServingInvariant, PTL

(* A playing server is displaced by an incoming connection only if that plays *)
(* too, whatever happens while the decision awaits the write.                 *)
THEOREM PlaybackKeptHolds == Spec => PlaybackKept
<1>1. ServingInv /\ [Next]_vars
      => [ admitted # None /\ admitted' # admitted /\ admitted' \notin Dialed \cup {None}
           /\ conn[admitted] = "up" /\ Rank(admitted) = 2
           => Rank(admitted') = 2 ]_vars
  BY PlaybackStep DEF Kept
<1> QED BY <1>1, ServingInvariant, PTL DEF Spec, PlaybackKept

(* Slots neither leak nor overflow, whatever capacity the pairing store has.  *)
THEOREM SlotsKeptHolds == Spec => []SlotsKept
BY InitHolds, SlotsStep, AdmissionTypeCorrect, PTL DEF Spec

(* No connection that has closed stays the admitted one.                      *)
THEOREM AdmittedLivesHolds == Spec => []AdmittedLives
BY InitHolds, AdmittedStep, AdmissionTypeCorrect, PTL DEF Spec

(* However connections come, go and wait for the lock, those served are one,   *)
(* live, and allowed to rely on what they rely on.                             *)
THEOREM ServedRightlyHolds == Spec => []ServedRightly
BY OneServingHolds, AdmittedLivesHolds, UnpairedRefusedHolds, PTL DEF ServedRightly

(* An operator gesture admits one server, and a bounded number of failures.   *)
THEOREM GestureSpentHolds == Spec => []GestureSpent
<1>1. Spec => []GestureInv
  BY InitHolds, GestureStep, AdmissionTypeCorrect, PTL DEF Spec
<1> QED BY <1>1, OneByGesture, AdmissionTypeCorrect, PTL
=============================================================================
