------------------------- MODULE ScheduledStateProofs -------------------------
(***************************************************************************)
(* For any groups, clients, states and bounds: the state is well typed, no *)
(* client is sent a scheduled state before the lead limit, and when        *)
(* messages arrive before the clock moves, every client comes to agree     *)
(* with its group.                                                         *)
(***************************************************************************)
EXTENDS ScheduledState, SequenceTheorems, TLAPS

(* The messages that may be on their way at time t. *)
Soon(t) == {m \in Message : m.at <= t + MaxLead}

(* What a group holds at time t: a state that was announced, or that is to  *)
(* be given to legacy clients, is within the lead limit, and the timer that *)
(* announces a state fires when it comes within it.                         *)
GroupOK(s, t) ==
  /\ s \in GroupType
  /\ s.sent /\ s.at # Never => s.at <= t + MaxLead
  /\ s.timer = "announce" /\ s.at # Never => s.due = s.at - MaxLead
  /\ s.timer = "due" => s.msg \in Soon(t)

(* Everything but the groups and the wires. *)
RestTypeOK ==
  /\ clock \in Times
  /\ place \in [Clients -> Groups]
  /\ joined \subseteq Clients
  /\ view \in [Clients -> ViewType]
  /\ slow \in BOOLEAN
  /\ updates \in Nat /\ moves \in Nat

GroupsOK == group \in [Groups -> GroupType] /\ \A g \in Groups : GroupOK(group[g], clock)
WiresOK  == wire \in [Clients -> Seq(Soon(clock))]

IInv == RestTypeOK /\ GroupsOK /\ WiresOK

-----------------------------------------------------------------------------
(* Messages and the sequences of them. *)

LEMMA NowIsSoon ==
  ASSUME NEW t \in Times, NEW v \in States \cup {Blank}
  PROVE  Msg(v, t) \in Soon(t)
BY StateAssumption DEF Msg, Soon, Message, Times

LEMMA SoonLater ==
  ASSUME NEW t \in Times, NEW u \in Times, t <= u
  PROVE  Soon(t) \subseteq Soon(u)
BY StateAssumption DEF Soon, Message, Times

LEMMA SendType ==
  ASSUME NEW T, NEW w \in [Clients -> Seq(T)], NEW S, NEW m \in T
  PROVE  Send(w, S, m) \in [Clients -> Seq(T)]
BY DEF Send

LEMMA WelcomeType ==
  ASSUME NEW c, clock \in Times, NEW s, GroupOK(s, clock)
  PROVE  Welcome(c, s) \in Seq(Soon(clock))
<1>1. s.cur \in States \cup {Blank} /\ s.pend \in States \cup {Blank}
  BY DEF GroupOK, GroupType
<1>2. Msg(s.cur, clock) \in Soon(clock)
  BY <1>1, NowIsSoon
<1>3. s.at # Never /\ s.sent => Msg(s.pend, s.at) \in Soon(clock)
  BY <1>1, StateAssumption DEF GroupOK, GroupType, Soon, Msg, Message
<1> QED BY <1>2, <1>3 DEF Welcome

LEMMA RemovalType ==
  ASSUME NEW T, NEW w \in Seq(T), NEW i \in 1 .. Len(w), i < Len(w)
  PROVE  SubSeq(w, 1, i - 1) \o SubSeq(w, i + 1, Len(w)) \in Seq(T)
<1>1. SubSeq(w, 1, i - 1) \in Seq(T) /\ SubSeq(w, i + 1, Len(w)) \in Seq(T)
  BY SubSeqProperties, LenProperties
<1> QED BY <1>1, ConcatProperties

-----------------------------------------------------------------------------
(* What a group holds. *)

LEMMA HoldingOK ==
  ASSUME NEW t \in Times, NEW v \in States \cup {Blank}
  PROVE  GroupOK(Holding(v), t)
BY StateAssumption DEF GroupOK, Holding, GroupType, Msg, Message, Times, Never

LEMMA PromotedOK ==
  ASSUME clock \in Times, NEW s, GroupOK(s, clock)
  PROVE  GroupOK(Promoted(s), clock)
BY DEF GroupOK, Promoted, GroupType

LEMMA GroupOKLater ==
  ASSUME NEW t \in Times, NEW u \in Times, t <= u, NEW s, GroupOK(s, t)
  PROVE  GroupOK(s, u)
<1>1. Soon(t) \subseteq Soon(u)
  BY SoonLater
<1>2. s.at \in Times \cup {Never}
  BY DEF GroupOK, GroupType
<1> QED BY <1>1, <1>2, StateAssumption DEF GroupOK, Times, Never

(* A step that changes one group while the clock stands still. *)
LEMMA GroupChanged ==
  ASSUME GroupsOK, NEW g \in Groups, NEW s, GroupOK(s, clock),
         group' = [group EXCEPT ![g] = s], clock' = clock
  PROVE  GroupsOK'
BY DEF GroupsOK, GroupOK

(* Announcing the pending state of s, which is within the lead limit. *)
LEMMA AnnounceOK ==
  ASSUME GroupsOK, NEW g \in Groups, NEW w \in [Clients -> Seq(Soon(clock))],
         NEW s \in GroupType, s.at # Never, s.at <= clock + MaxLead, clock \in Times,
         Announce(g, s, w), clock' = clock
  PROVE  GroupsOK' /\ WiresOK'
<1> DEFINE m == Msg(s.pend, s.at)
           n == [s EXCEPT !.sent = TRUE, !.timer = "due", !.due = s.at, !.msg = m]
<1>1. m \in Soon(clock) /\ m \in Message
  BY DEF GroupType, Soon, Msg, Message
<1>2. GroupOK(n, clock)
  <2>1. n \in GroupType
    BY <1>1 DEF GroupType
  <2>2. n.at = s.at /\ n.timer = "due" /\ n.msg = m
    BY DEF GroupType
  <2> QED BY <1>1, <2>1, <2>2 DEF GroupOK
<1>3. GroupsOK'
  BY <1>2, GroupChanged DEF Announce
<1>4. WiresOK'
  BY <1>1, SendType DEF Announce, WiresOK
<1> QED BY <1>3, <1>4

LEMMA ApplyStateOK ==
  ASSUME IInv, NEW g \in Groups, NEW v \in States \cup {Blank}, ApplyState(g, v), clock' = clock
  PROVE  GroupsOK' /\ WiresOK'
<1>1. clock \in Times
  BY DEF IInv, RestTypeOK
<1>2. GroupsOK'
  BY <1>1, HoldingOK, GroupChanged DEF ApplyState, IInv
<1>3. WiresOK'
  BY <1>1, NowIsSoon, SendType DEF ApplyState, IInv, WiresOK
<1> QED BY <1>2, <1>3

-----------------------------------------------------------------------------
(* The operations on a group. *)

LEMMA SetStateOK ==
  ASSUME IInv, NEW g \in Groups, NEW v \in States \cup {Blank}, NEW forced, SetState(g, v, forced)
  PROVE  GroupsOK' /\ WiresOK'
<1> DEFINE s == Promoted(group[g])
<1>1. GroupOK(s, clock)
  BY PromotedOK DEF IInv, RestTypeOK, GroupsOK
<1>2. clock' = clock
  BY DEF SetState, Asleep
<1>3. CASE ApplyState(g, v)
  BY <1>2, <1>3, ApplyStateOK
<1>4. CASE group' = [group EXCEPT ![g] = s] /\ wire' = wire
  BY <1>1, <1>2, <1>4, GroupChanged DEF IInv, WiresOK
<1> QED BY <1>3, <1>4 DEF SetState

LEMMA CancelScheduledOK ==
  ASSUME IInv, NEW g \in Groups, CancelScheduled(g)
  PROVE  GroupsOK' /\ WiresOK'
<1> DEFINE s == Promoted(group[g])
<1>1. GroupOK(s, clock) /\ clock \in Times
  BY PromotedOK DEF IInv, RestTypeOK, GroupsOK
<1>2. s.cur \in States \cup {Blank}
  BY <1>1 DEF GroupOK, GroupType
<1>3. clock' = clock
  BY DEF CancelScheduled, Asleep
<1>4. CASE ApplyState(g, s.cur)
  BY <1>2, <1>3, <1>4, ApplyStateOK
<1>5. CASE ~ApplyState(g, s.cur)
  <2> DEFINE n == IF s.at = Never THEN s ELSE Holding(s.cur)
  <2>1. group' = [group EXCEPT ![g] = n] /\ wire' = wire
    BY <1>5 DEF CancelScheduled
  <2>2. GroupOK(n, clock)
    BY <1>1, <1>2, HoldingOK
  <2>3. GroupsOK'
    BY <1>3, <2>1, <2>2, GroupChanged DEF IInv
  <2> QED BY <1>3, <2>1, <2>3 DEF IInv, WiresOK
<1> QED BY <1>4, <1>5

LEMMA ScheduleOK ==
  ASSUME IInv, NEW g \in Groups, NEW v \in States, NEW t \in Times, Schedule(g, v, t)
  PROVE  GroupsOK' /\ WiresOK'
<1> DEFINE s    == Promoted(group[g])
           owed == s.sent /\ s.at = Never /\ s.timer # "none"
           paid == IF owed THEN Send(wire, Members(g) \cap Legacy, Msg(s.cur, clock)) ELSE wire
           n    == [Holding(s.cur) EXCEPT !.pend = v, !.at = t]
<1>1. GroupOK(s, clock) /\ clock \in Times
  BY PromotedOK DEF IInv, RestTypeOK, GroupsOK
<1>2. s.cur \in States \cup {Blank}
  BY <1>1 DEF GroupOK, GroupType
<1>3. clock' = clock /\ t > clock
  BY DEF Schedule, Asleep
<1>4. Msg(s.cur, clock) \in Soon(clock)
  BY <1>1, <1>2, NowIsSoon
<1>5. paid \in [Clients -> Seq(Soon(clock))]
  BY <1>4, SendType DEF IInv, WiresOK
<1>6. n \in GroupType /\ n.at = t /\ n.sent = FALSE /\ t # Never
  <2>1. Holding(s.cur) \in GroupType
    BY <1>1, <1>2, HoldingOK DEF GroupOK
  <2>2. Holding(s.cur).sent = FALSE
    BY DEF Holding
  <2>3. t # Never
    BY StateAssumption DEF Times, Never
  <2> DEFINE h == Holding(s.cur)
  <2> HIDE DEF h
  <2> QED BY <2>1, <2>2, <2>3 DEF GroupType, h
<1>7. CASE t - MaxLead <= clock
  <2>1. Announce(g, n, paid)
    BY <1>7 DEF Schedule
  <2>2. t <= clock + MaxLead
    BY <1>1, <1>7, StateAssumption DEF Times
  <2> QED
    <3> HIDE DEF n, paid
    <3> QED BY <1>1, <1>3, <1>5, <1>6, <2>1, <2>2, AnnounceOK DEF IInv
<1>8. CASE ~(t - MaxLead <= clock)
  <2> DEFINE k == [n EXCEPT !.timer = "announce", !.due = t - MaxLead]
             again == s.sent /\ s.at # Never
  <2>1. /\ group' = [group EXCEPT ![g] = k]
        /\ wire' = IF again THEN Send(paid, Members(g), Msg(s.cur, clock)) ELSE paid
    BY <1>8 DEF Schedule
  <2>2. t - MaxLead \in Times
    BY <1>1, <1>8, StateAssumption DEF Times
  <2>3. /\ k \in GroupType /\ k.sent = FALSE /\ k.timer = "announce"
        /\ k.at = t /\ k.due = t - MaxLead
    BY <1>6, <2>2 DEF GroupType
  <2>4. GroupOK(k, clock)
    BY <2>3 DEF GroupOK
  <2>5. GroupsOK'
    BY <1>3, <2>1, <2>4, GroupChanged DEF IInv
  <2>6. WiresOK'
    <3> HIDE DEF paid, again
    <3> QED BY <1>3, <1>4, <1>5, <2>1, SendType DEF WiresOK
  <2> QED BY <2>5, <2>6
<1> QED BY <1>7, <1>8

LEMMA TimerFiresOK ==
  ASSUME IInv, NEW g \in Groups, TimerFires(g)
  PROVE  GroupsOK' /\ WiresOK'
<1> DEFINE s    == group[g]
           idle == [s EXCEPT !.timer = "none"]
<1>1. GroupOK(s, clock) /\ s \in GroupType /\ clock \in Times
  BY DEF IInv, RestTypeOK, GroupsOK
<1>2. clock' = clock /\ s.timer # "none" /\ s.due <= clock
  BY DEF TimerFires, Asleep, TimerDue
<1>3. GroupOK(idle, clock)
  <2>1. /\ idle \in GroupType /\ idle.sent = s.sent /\ idle.at = s.at
        /\ idle.timer = "none"
    BY <1>1 DEF GroupType
  <2> QED BY <1>1, <2>1 DEF GroupOK
<1>4. CASE s.timer = "announce" /\ s.at # Never
  <2>1. Announce(g, s, wire)
    BY <1>4 DEF TimerFires
  <2>2. s.at <= clock + MaxLead
    BY <1>1, <1>2, <1>4, StateAssumption DEF GroupOK, GroupType, Times
  <2> QED BY <1>1, <1>2, <1>4, <2>1, <2>2, AnnounceOK DEF IInv, WiresOK
<1>5. CASE s.timer = "announce" /\ s.at = Never
  <2>1. group' = [group EXCEPT ![g] = idle] /\ wire' = wire
    BY <1>5 DEF TimerFires
  <2> QED BY <1>2, <1>3, <2>1, GroupChanged DEF IInv, WiresOK
<1>6. CASE s.timer = "due"
  <2>1. /\ group' = [group EXCEPT ![g] = idle]
        /\ wire' = Send(wire, Members(g) \cap Legacy, s.msg)
    BY <1>6 DEF TimerFires
  <2>2. s.msg \in Soon(clock)
    BY <1>1, <1>6 DEF GroupOK
  <2>3. WiresOK'
    BY <1>2, <2>1, <2>2, SendType DEF IInv, WiresOK
  <2>4. GroupsOK'
    BY <1>2, <1>3, <2>1, GroupChanged DEF IInv
  <2> QED BY <2>3, <2>4
<1> QED BY <1>1, <1>2, <1>4, <1>5, <1>6 DEF GroupType

-----------------------------------------------------------------------------
(* The steps of a client, and the clock. *)

LEMMA ConnectOK ==
  ASSUME IInv, NEW c \in Clients, Connect(c)
  PROVE  GroupsOK' /\ WiresOK'
<1> DEFINE g == place[c]
           s == Promoted(group[g])
<1>1. g \in Groups /\ clock \in Times
  BY DEF IInv, RestTypeOK
<1>2. GroupOK(s, clock)
  BY <1>1, PromotedOK DEF IInv, GroupsOK
<1>3. clock' = clock /\ group' = [group EXCEPT ![g] = s]
  BY DEF Connect
<1>4. GroupsOK'
  BY <1>1, <1>2, <1>3, GroupChanged DEF IInv
<1>5. Welcome(c, s) \in Seq(Soon(clock))
  BY <1>1, <1>2, WelcomeType
<1>6. wire' = [wire EXCEPT ![c] = Welcome(c, s)]
  BY DEF Connect
<1>7. WiresOK'
  BY <1>3, <1>5, <1>6 DEF IInv, WiresOK
<1> QED BY <1>4, <1>7

LEMMA MoveOK ==
  ASSUME IInv, NEW c \in Clients, NEW h \in Groups, Move(c, h)
  PROVE  GroupsOK' /\ WiresOK'
<1> DEFINE g     == place[c]
           there == Promoted(group[h])
           left  == IF \A x \in Clients \ {c} : place[x] # g THEN Holding(Blank) ELSE group[g]
           found == IF c \in joined THEN there ELSE group[h]
<1>1. g \in Groups /\ clock \in Times /\ g # h /\ clock' = clock
  BY DEF IInv, RestTypeOK, Move
<1>2. GroupOK(there, clock)
  BY <1>1, PromotedOK DEF IInv, GroupsOK
<1>3. GroupOK(left, clock) /\ GroupOK(found, clock)
  BY <1>1, <1>2, HoldingOK DEF IInv, GroupsOK
<1>4. GroupsOK'
  <2>1. group' = [group EXCEPT ![g] = left, ![h] = found]
    BY <1>1 DEF Move
  <2> HIDE DEF left, found
  <2> QED BY <1>1, <1>3, <2>1 DEF IInv, GroupsOK, GroupOK
<1>5. WiresOK'
  <2> DEFINE T    == Soon(clock)
             more == <<Msg(Blank, clock)>> \o Welcome(c, there)
  <2>1. Welcome(c, there) \in Seq(T) /\ <<Msg(Blank, clock)>> \in Seq(T)
    BY <1>1, <1>2, WelcomeType, NowIsSoon
  <2>2. wire[c] \in Seq(T)
    BY DEF IInv, WiresOK
  <2>3. (wire[c] \o <<Msg(Blank, clock)>>) \o Welcome(c, there) \in Seq(T)
    BY <2>1, <2>2, ConcatProperties
  <2> QED BY <1>1, <2>3 DEF IInv, WiresOK, Move
<1> QED BY <1>4, <1>5

(* A step that leaves the groups and the clock alone, and only shortens one *)
(* client's wire.                                                           *)
LEMMA WireShortened ==
  ASSUME IInv, NEW c \in Clients, NEW w \in Seq(Soon(clock)),
         wire' = [wire EXCEPT ![c] = w], group' = group, clock' = clock
  PROVE  GroupsOK' /\ WiresOK'
BY DEF IInv, GroupsOK, WiresOK, GroupOK

LEMMA ClientOK ==
  ASSUME IInv, NEW c \in Clients, ClientStep(c)
  PROVE  GroupsOK' /\ WiresOK'
<1> DEFINE T == Soon(clock)
<1>1. wire[c] \in Seq(T)
  BY DEF IInv, WiresOK
<1>2. CASE Connect(c)
  BY <1>2, ConnectOK
<1>3. CASE \E h \in Groups : Move(c, h)
  BY <1>3, MoveOK
<1>4. CASE Disconnect(c)
  <2>1. <<>> \in Seq(T)
    OBVIOUS
  <2> QED BY <1>4, <2>1, WireShortened DEF Disconnect
<1>5. CASE Receive(c)
  <2>1. Tail(wire[c]) \in Seq(T)
    BY <1>1, <1>5, HeadTailProperties DEF Receive
  <2> QED BY <1>5, <2>1, WireShortened DEF Receive, Still
<1>6. CASE \E i \in 1 .. Len(wire[c]) : Merge(c, i)
  <2>1. PICK i \in 1 .. Len(wire[c]) : Merge(c, i)
    BY <1>6
  <2> DEFINE w == SubSeq(wire[c], 1, i - 1) \o SubSeq(wire[c], i + 1, Len(wire[c]))
  <2>2. w \in Seq(T)
    BY <1>1, <2>1, RemovalType DEF Merge
  <2>3. wire' = [wire EXCEPT ![c] = w] /\ group' = group /\ clock' = clock
    BY <2>1 DEF Merge, Still
  <2> HIDE DEF w
  <2> QED BY <2>2, <2>3, WireShortened
<1>7. CASE ApplyPending(c) \/ Synchronize(c)
  BY <1>7 DEF ApplyPending, Synchronize, Still, IInv, GroupsOK, WiresOK, GroupOK
<1> QED BY <1>2, <1>3, <1>4, <1>5, <1>6, <1>7 DEF ClientStep

LEMMA TickOK ==
  ASSUME IInv, Tick
  PROVE  GroupsOK' /\ WiresOK'
<1>1. /\ clock \in Times /\ clock' \in Times /\ clock <= clock'
      /\ group' = group /\ wire' = wire
  BY StateAssumption DEF IInv, RestTypeOK, Tick, Times
<1>2. GroupsOK'
  BY <1>1, GroupOKLater DEF IInv, GroupsOK
<1>3. WiresOK'
  <2>1. Soon(clock) \subseteq Soon(clock')
    BY <1>1, SoonLater
  <2>2. Seq(Soon(clock)) \subseteq Seq(Soon(clock'))
    BY <2>1, SeqMonotonic
  <2> QED BY <1>1, <2>2 DEF IInv, WiresOK, Soon
<1> QED BY <1>2, <1>3

-----------------------------------------------------------------------------
(* What a client shows. *)

LEMMA TakeMessageType ==
  ASSUME NEW c, NEW v \in ViewType, NEW m \in Message
  PROVE  TakeMessage(c, v, m) \in ViewType
<1> DEFINE d == [v EXCEPT !.pend = Blank, !.at = Never]
<1>1. d \in ViewType
  BY DEF ViewType
<1>2. m.state \in States \cup {Blank} /\ m.at \in Times
  BY DEF Message
<1>3. [d EXCEPT !.pend = m.state, !.at = m.at] \in ViewType
  <2> HIDE DEF d
  <2> QED BY <1>1, <1>2 DEF ViewType
<1>4. [d EXCEPT !.cur = m.state, !.early = c \notin Legacy /\ m.at > clock] \in ViewType
  <2> DEFINE e == c \notin Legacy /\ m.at > clock
  <2>1. e \in BOOLEAN
    OBVIOUS
  <2> HIDE DEF d, e
  <2>2. [d EXCEPT !.cur = m.state, !.early = e] \in ViewType
    BY <1>1, <1>2, <2>1 DEF ViewType
  <2> QED BY <2>2 DEF e
<1> QED BY <1>3, <1>4 DEF TakeMessage

LEMMA ClientRest ==
  ASSUME IInv, NEW c \in Clients, ClientStep(c)
  PROVE  RestTypeOK'
<1>1. RestTypeOK /\ view[c] \in ViewType
  BY DEF IInv, RestTypeOK
<1>2. moves' = moves + 1 => moves' \in Nat
  BY <1>1 DEF RestTypeOK
<1>3. CASE Connect(c)
  BY <1>1, <1>2, <1>3 DEF Connect, RestTypeOK, MayMove
<1>4. CASE \E h \in Groups : Move(c, h)
  BY <1>1, <1>2, <1>4 DEF Move, RestTypeOK, MayMove
<1>5. CASE Disconnect(c)
  <2>1. NewView(c) \in ViewType
    BY DEF NewView, ViewType
  <2> QED BY <1>1, <1>2, <1>5, <2>1 DEF Disconnect, RestTypeOK, MayMove
<1>6. CASE Receive(c)
  <2>1. wire[c] \in Seq(Message) /\ wire[c] # <<>>
    <3>1. Seq(Soon(clock)) \subseteq Seq(Message)
      BY SeqMonotonic DEF Soon
    <3> QED BY <1>6, <3>1 DEF Receive, IInv, WiresOK
  <2>2. TakeMessage(c, view[c], Head(wire[c])) \in ViewType
    BY <1>1, <2>1, HeadTailProperties, TakeMessageType
  <2> QED BY <1>1, <1>6, <2>2 DEF Receive, Still, RestTypeOK
<1>7. CASE \E i \in 1 .. Len(wire[c]) : Merge(c, i)
  BY <1>1, <1>7 DEF Merge, Still, RestTypeOK
<1>8. CASE ApplyPending(c)
  <2> DEFINE v == [view[c] EXCEPT !.cur = view[c].pend, !.pend = Blank, !.at = Never,
                                  !.early = FALSE]
  <2>1. v \in ViewType
    BY <1>1 DEF ViewType
  <2>2. view' = [view EXCEPT ![c] = v]
    BY <1>1, <1>8 DEF ApplyPending, ViewType
  <2> HIDE DEF v
  <2> QED BY <1>1, <1>8, <2>1, <2>2, ZenonT(30) DEF ApplyPending, Still, RestTypeOK
<1>9. CASE Synchronize(c)
  <2>1. [view[c] EXCEPT !.synced = TRUE] \in ViewType
    BY <1>1 DEF ViewType
  <2> QED BY <1>1, <1>9, <2>1 DEF Synchronize, Still, RestTypeOK
<1> QED BY <1>3, <1>4, <1>5, <1>6, <1>7, <1>8, <1>9 DEF ClientStep

-----------------------------------------------------------------------------
LEMMA InitIInv == Init => IInv
<1> SUFFICES ASSUME Init PROVE IInv
  OBVIOUS
<1>1. 0 \in Times /\ Blank \in States \cup {Blank}
  BY StateAssumption DEF Times
<1>2. RestTypeOK
  <2>1. \A c \in Clients : NewView(c) \in ViewType
    BY DEF NewView, ViewType
  <2> QED BY <1>1, <2>1 DEF Init, RestTypeOK
<1>3. GroupsOK
  <2>1. GroupOK(Holding(Blank), 0) /\ Holding(Blank) \in GroupType
    BY <1>1, HoldingOK DEF GroupOK
  <2> QED BY <2>1 DEF Init, GroupsOK
<1>4. WiresOK
  BY DEF Init, WiresOK
<1> QED BY <1>2, <1>3, <1>4 DEF IInv

LEMMA NextIInv == IInv /\ [Next]_vars => IInv'
<1> SUFFICES ASSUME IInv, [Next]_vars PROVE IInv'
  OBVIOUS
<1>1. CASE Tick
  <2>1. RestTypeOK'
    BY <1>1, StateAssumption DEF IInv, RestTypeOK, Tick, Times
  <2> QED BY <1>1, <2>1, TickOK DEF IInv
<1>2. ASSUME NEW g \in Groups, GroupStep(g) PROVE IInv'
  <2>1. GroupsOK' /\ WiresOK'
    BY <1>2, SetStateOK, ScheduleOK, CancelScheduledOK, TimerFiresOK DEF GroupStep
  <2>2. Asleep /\ (updates' = updates \/ updates' = updates + 1)
    BY <1>2 DEF GroupStep, SetState, Schedule, CancelScheduled, TimerFires, MayUpdate
  <2>3. RestTypeOK'
    BY <2>2 DEF IInv, RestTypeOK, Asleep
  <2> QED BY <2>1, <2>3 DEF IInv
<1>3. ASSUME NEW c \in Clients, ClientStep(c) PROVE IInv'
  BY <1>3, ClientOK, ClientRest DEF IInv
<1>4. CASE UNCHANGED vars
  <2>1. /\ clock' = clock /\ group' = group /\ place' = place /\ joined' = joined
        /\ wire' = wire /\ view' = view /\ slow' = slow
        /\ updates' = updates /\ moves' = moves
    BY <1>4 DEF vars
  <2>2. RestTypeOK'
    BY <2>1 DEF IInv, RestTypeOK
  <2>3. GroupsOK' /\ WiresOK'
    BY <2>1 DEF IInv, GroupsOK, WiresOK, GroupOK
  <2> QED BY <2>2, <2>3 DEF IInv
<1> QED BY <1>1, <1>2, <1>3, <1>4 DEF Next

(* Every group, client and message has its type.                            *)
THEOREM StateTypeCorrect == Spec => []TypeOK
<1>1. IInv => TypeOK
  <2> SUFFICES ASSUME IInv PROVE TypeOK
    OBVIOUS
  <2>1. Seq(Soon(clock)) \subseteq Seq(Message)
    BY SeqMonotonic DEF Soon
  <2> QED BY <2>1 DEF IInv, RestTypeOK, GroupsOK, WiresOK, TypeOK
<1> QED BY <1>1, InitIInv, NextIInv, PTL DEF Spec

(* MAX_SCHEDULED_LEAD_US is kept towards every client, whenever it joined,  *)
(* whatever was replaced or cancelled, and however late the timers run.     *)
THEOREM LeadKeptHolds == Spec => []LeadKept
<1>1. IInv => LeadKept
  <2> SUFFICES ASSUME IInv, NEW c \in Clients, NEW i \in 1 .. Len(wire[c])
               PROVE  wire[c][i].at <= clock + MaxLead
    BY DEF LeadKept
  <2>1. wire[c] \in Seq(Soon(clock))
    BY DEF IInv, WiresOK
  <2>2. wire[c][i] \in Soon(clock)
    BY <2>1, ElementOfSeq
  <2> QED BY <2>2 DEF Soon
<1> QED BY <1>1, InitIInv, NextIInv, PTL DEF Spec

-----------------------------------------------------------------------------
(* What the clients come to show. *)

(* A group at time t, its pending state promoted when due; a client at time t, *)
(* its own timer fired when due.                                               *)
Prom(s, t) ==
  IF s.at > t THEN s ELSE [s EXCEPT !.cur = s.pend, !.pend = Blank, !.at = Never]
Shown(v, t) ==
  IF v.at > t THEN v
  ELSE [v EXCEPT !.cur = v.pend, !.pend = Blank, !.at = Never, !.early = FALSE]

(* A group has exactly the timer its pending state needs: one that announces  *)
(* it in time, or one that gives it to legacy clients once it takes effect.   *)
GroupKept(s, t) ==
  /\ s.at = Never => s.pend = Blank
  /\ s.timer = "announce" => s.at # Never /\ ~s.sent /\ s.at > t
  /\ s.at # Never /\ ~s.sent => s.timer = "announce"
  /\ s.at # Never /\ s.at > t /\ s.sent => s.timer = "due"
  /\ s.timer = "due" => s.sent
  /\ s.timer = "due" /\ s.at = Never => s.msg.state = s.cur /\ s.due <= t
  /\ s.timer = "due" /\ s.at # Never => s.msg.state = s.pend /\ s.due = s.at

(* Among the messages w, those that take effect at once. *)
NoneCurrent(w, t) == \A i \in 1 .. Len(w) : w[i].at > t
LastCurrent(w, i, t) == w[i].at <= t /\ \A j \in i + 1 .. Len(w) : w[j].at > t

(* A client that shows v and is still to handle w ends up agreeing with s:    *)
(* the last message is the group's last word, and the last state that took    *)
(* effect at once is the current one.                                         *)
AtRest(v, s) ==
  /\ v.at # Never => s.sent /\ v.pend = s.pend /\ v.at = s.at
  /\ ~v.early => v.cur = s.cur /\ (s.sent => v.at = s.at)

Underway(w, v, s, t) ==
  /\ \A i \in 1 .. Len(w) : LastCurrent(w, i, t) => w[i].state = s.cur
  /\ NoneCurrent(w, t) => v.early \/ v.cur = s.cur
  /\ w[Len(w)].at > t => s.sent /\ s.at = w[Len(w)].at /\ s.pend = w[Len(w)].state
  /\ w[Len(w)].at <= t => (s.sent => s.at = Never)

Told(w, v, s, t) == IF w = <<>> THEN AtRest(v, s) ELSE Underway(w, v, s, t)

(* A legacy client is only told what is current, when its timer fires. *)
Paid(w, v, s) ==
  \/ s.timer = "due" /\ s.at = Never
  \/ s.cur = IF w = <<>> THEN v.cur ELSE w[Len(w)].state

Informs(c, w, v, s, t) ==
  IF c \in Legacy THEN Paid(w, v, Prom(s, t)) ELSE Told(w, Shown(v, t), Prom(s, t), t)

Informed(c) == Informs(c, wire[c], view[c], group[place[c]], clock)

GroupsKept == \A g \in Groups : GroupKept(group[g], clock)

ViewKept(c, v) == (v.at = Never => v.pend = Blank) /\ (c \in Legacy => v.at = Never)
ViewsKept == \A c \in Clients : ViewKept(c, view[c])

AllInformed == ~slow => \A c \in joined : Informed(c)

Agreeing == GroupsKept /\ ViewsKept /\ AllInformed

LEMMA NeverLater ==
  ASSUME NEW t \in Times
  PROVE  /\ Never \in Nat /\ Never > t /\ Never \notin Times /\ Times \subseteq Nat
         /\ \A x \in Times \cup {Never} : x \in Nat /\ (x > t \/ x <= t) /\ ~(x > t /\ x <= t)
BY StateAssumption DEF Times, Never

(* Promoting a group, once or twice. *)
LEMMA PromFields ==
  ASSUME NEW t \in Times, NEW s \in GroupType
  PROVE  LET p == Prom(s, t)
         IN  /\ p \in GroupType /\ p.at > t /\ Prom(p, t) = p
             /\ p.sent = s.sent /\ p.timer = s.timer /\ p.due = s.due /\ p.msg = s.msg
             /\ s.at > t => p = s
             /\ s.at <= t => p.cur = s.pend /\ p.pend = Blank /\ p.at = Never
<1> DEFINE p == Prom(s, t)
<1>0. s.at \in Times \cup {Never} BY DEF GroupType
<1>1. CASE s.at > t
  <2>1. p = s BY <1>1 DEF Prom
  <2>2. ~(s.at <= t) BY <1>0, <1>1, NeverLater
  <2> QED BY <1>1, <2>1, <2>2 DEF Prom
<1>2. CASE ~(s.at > t)
  <2> DEFINE q == [s EXCEPT !.cur = s.pend, !.pend = Blank, !.at = Never]
  <2>1. /\ q \in GroupType /\ q.at = Never /\ q.cur = s.pend /\ q.pend = Blank
        /\ q.sent = s.sent /\ q.timer = s.timer /\ q.due = s.due /\ q.msg = s.msg
    BY DEF GroupType
  <2>2. p = q BY <1>2 DEF Prom
  <2> HIDE DEF q, p
  <2>3. p.at > t BY <2>1, <2>2, NeverLater
  <2>4. Prom(p, t) = p BY <2>3 DEF Prom
  <2>5. p \in GroupType /\ p.at > t /\ Prom(p, t) = p
        /\ p.sent = s.sent /\ p.timer = s.timer /\ p.due = s.due /\ p.msg = s.msg
        /\ p.cur = s.pend /\ p.pend = Blank /\ p.at = Never
    BY <2>1, <2>2, <2>3, <2>4
  <2> QED BY <1>2, <2>5 DEF p
<1> QED BY <1>1, <1>2

LEMMA PromKept ==
  ASSUME NEW t \in Times, NEW s \in GroupType, GroupKept(s, t)
  PROVE  GroupKept(Prom(s, t), t)
<1> DEFINE p == Prom(s, t)
<1>0. s.at \in Times \cup {Never} BY DEF GroupType
<1>1. /\ p \in GroupType /\ p.at > t /\ p.sent = s.sent /\ p.timer = s.timer
      /\ p.due = s.due /\ p.msg = s.msg
      /\ s.at > t => p = s
      /\ s.at <= t => p.cur = s.pend /\ p.pend = Blank /\ p.at = Never
  BY PromFields
<1> HIDE DEF p
<1>2. s.at > t => GroupKept(p, t) BY <1>1
<1>3. ASSUME s.at <= t PROVE GroupKept(p, t)
  <2>1. s.at # Never /\ ~(s.at > t) BY <1>0, <1>3, NeverLater
  <2> QED BY <1>1, <1>3, <2>1 DEF GroupKept
<1>4. GroupKept(p, t) BY <1>0, <1>2, <1>3, NeverLater
<1> QED BY <1>4 DEF p

(* The operator of the module, at the present time. *)
LEMMA PromotedProm ==
  \A s : Promoted(s) = Prom(s, clock)
BY DEF Promoted, Prom

(* A group without anything scheduled. *)
LEMMA HoldingKept ==
  ASSUME NEW t \in Times, NEW v \in States \cup {Blank}
  PROVE  LET n == Holding(v)
         IN  /\ n \in GroupType /\ GroupKept(n, t) /\ Prom(n, t) = n
             /\ n.cur = v /\ ~n.sent /\ n.at = Never /\ n.timer = "none"
             /\ n.pend = Blank
<1> DEFINE n == Holding(v)
<1>1. n \in GroupType BY HoldingOK DEF GroupOK
<1>2. n.cur = v /\ ~n.sent /\ n.at = Never /\ n.timer = "none" /\ n.pend = Blank
  BY DEF Holding
<1> HIDE DEF n
<1>3. GroupKept(n, t) BY <1>2 DEF GroupKept
<1>4. Prom(n, t) = n BY <1>2, NeverLater DEF Prom
<1> QED BY <1>1, <1>2, <1>3, <1>4 DEF n

-----------------------------------------------------------------------------
(* What a message on its way changes. *)

LEMMA MsgFields ==
  \A v, t : Msg(v, t).state = v /\ Msg(v, t).at = t
BY DEF Msg

(* The last message is the current state, and nothing is announced. *)
LEMMA TellsCurrent ==
  ASSUME NEW t \in Times, NEW w \in Seq(Message), w # <<>>, NEW v, NEW s,
         w[Len(w)].at <= t, w[Len(w)].state = s.cur, s.sent => s.at = Never
  PROVE  Told(w, v, s, t)
<1>1. Len(w) \in Nat \ {0} BY EmptySeq, LenProperties
<1>2. w[Len(w)] \in Message BY <1>1, ElementOfSeq
<1>3. w[Len(w)].at \in Nat /\ ~(w[Len(w)].at > t) BY <1>2, NeverLater DEF Message
<1>4. ~NoneCurrent(w, t) BY <1>1, <1>3 DEF NoneCurrent
<1>5. ASSUME NEW i \in 1 .. Len(w), LastCurrent(w, i, t) PROVE w[i].state = s.cur
  <2>1. CASE i = Len(w) BY <2>1
  <2>2. CASE i < Len(w)
    <3>1. Len(w) \in i + 1 .. Len(w) BY <1>1, <2>2
    <3> QED BY <1>3, <1>5, <3>1 DEF LastCurrent
  <2> QED BY <1>1, <2>1, <2>2
<1> QED BY <1>3, <1>4, <1>5 DEF Told, Underway

(* The last message is the announced state, after the current one. *)
LEMMA TellsBoth ==
  ASSUME NEW t \in Times, NEW w \in Seq(Message), NEW n \in Nat, Len(w) = n + 1, n # 0,
         NEW v, NEW s,
         w[n].at <= t, w[n].state = s.cur,
         w[n + 1].at > t, s.sent, s.at = w[n + 1].at, s.pend = w[n + 1].state
  PROVE  Told(w, v, s, t)
<1>1. w # <<>> BY EmptySeq
<1>2. w[n] \in Message /\ w[n + 1] \in Message BY ElementOfSeq
<1>3. /\ w[n].at \in Nat /\ ~(w[n].at > t)
      /\ w[n + 1].at \in Nat /\ ~(w[n + 1].at <= t)
  BY <1>2, NeverLater DEF Message
<1>4. ~NoneCurrent(w, t) BY <1>3 DEF NoneCurrent
<1>5. ASSUME NEW i \in 1 .. Len(w), LastCurrent(w, i, t) PROVE w[i].state = s.cur
  <2>1. CASE i = n BY <2>1
  <2>2. CASE i = n + 1 BY <1>3, <1>5, <2>2 DEF LastCurrent
  <2>3. CASE i < n
    <3>1. n \in i + 1 .. Len(w) BY <2>3
    <3> QED BY <1>3, <1>5, <3>1 DEF LastCurrent
  <2> QED BY <2>1, <2>2, <2>3
<1> QED BY <1>1, <1>3, <1>4, <1>5 DEF Told, Underway

(* One more message is announced, over the same current state. *)
LEMMA TellsAhead ==
  ASSUME NEW t \in Times, NEW w \in Seq(Message), NEW m \in Message, NEW v, NEW s, NEW n,
         Told(w, v, s, t), m.at > t,
         n.cur = s.cur, n.sent, n.at = m.at, n.pend = m.state
  PROVE  Told(Append(w, m), v, n, t)
<1> DEFINE u == Append(w, m)
<1>1. /\ u \in Seq(Message) /\ Len(u) = Len(w) + 1 /\ Len(w) \in Nat
      /\ u[Len(w) + 1] = m /\ \A i \in 1 .. Len(w) : u[i] = w[i]
  BY AppendProperties, LenProperties
<1> HIDE DEF u
<1>2. u # <<>> BY <1>1, EmptySeq
<1>3. ~(m.at <= t) BY NeverLater DEF Message
<1>4. ASSUME NEW i \in 1 .. Len(u), LastCurrent(u, i, t) PROVE u[i].state = n.cur
  <2>1. i # Len(w) + 1 BY <1>1, <1>3, <1>4 DEF LastCurrent
  <2>2. i \in 1 .. Len(w) BY <1>1, <2>1
  <2>3. LastCurrent(w, i, t)
    <3>1. \A j \in i + 1 .. Len(w) : j \in i + 1 .. Len(u) /\ u[j] = w[j]
      BY <1>1, <2>2
    <3> QED BY <1>1, <1>4, <2>2, <3>1 DEF LastCurrent
  <2>4. w # <<>> BY <1>1, <2>2
  <2> QED BY <1>1, <2>2, <2>3, <2>4 DEF Told, Underway
<1>5. NoneCurrent(u, t) => v.early \/ v.cur = n.cur
  <2>1. CASE w = <<>> BY <2>1 DEF Told, AtRest
  <2>2. CASE w # <<>>
    <3>1. NoneCurrent(u, t) => NoneCurrent(w, t)
      <4>1. \A i \in 1 .. Len(w) : i \in 1 .. Len(u) BY <1>1
      <4> QED BY <1>1, <4>1 DEF NoneCurrent
    <3> QED BY <2>2, <3>1 DEF Told, Underway
  <2> QED BY <2>1, <2>2
<1> QED BY <1>1, <1>2, <1>3, <1>4, <1>5 DEF Told, Underway, u

(* What was scheduled but not announced can be forgotten silently. *)
LEMMA TellsNothing ==
  ASSUME NEW t \in Times, NEW w \in Seq(Message), NEW v, NEW s, NEW n,
         Told(w, v, s, t), s.sent => s.at = Never,
         n.cur = s.cur, ~n.sent
  PROVE  Told(w, v, n, t)
<1>1. CASE w = <<>> BY <1>1 DEF Told, AtRest
<1>2. CASE w # <<>>
  <2>1. Len(w) \in Nat \ {0} BY <1>2, EmptySeq, LenProperties
  <2>2. w[Len(w)] \in Message BY <2>1, ElementOfSeq
  <2>3. w[Len(w)].at \in Times BY <2>2 DEF Message
  <2>4. ~(w[Len(w)].at > t)
    BY <1>2, <2>3, NeverLater DEF Told, Underway
  <2> QED BY <1>2, <2>4 DEF Told, Underway
<1> QED BY <1>1, <1>2

-----------------------------------------------------------------------------
(* The steps of a group. *)

LEMMA Typed ==
  ASSUME IInv
  PROVE  /\ clock \in Times /\ joined \subseteq Clients
         /\ \A g \in Groups : group[g] \in GroupType /\ GroupOK(group[g], clock)
         /\ group \in [Groups -> GroupType]
         /\ \A c \in Clients : /\ place[c] \in Groups /\ view[c] \in ViewType
                               /\ wire[c] \in Seq(Message)
<1>1. Seq(Soon(clock)) \subseteq Seq(Message)
  BY SeqMonotonic DEF Soon
<1> QED BY <1>1 DEF IInv, RestTypeOK, GroupsOK, WiresOK

(* One group changes, and its members are told. *)
LEMMA GroupAgrees ==
  ASSUME IInv, Agreeing, Asleep, NEW g \in Groups, NEW n, GroupKept(n, clock),
         group' = [group EXCEPT ![g] = n],
         \A c \in Clients \ Members(g) : wire'[c] = wire[c],
         ~slow => \A c \in Members(g) :
                    Informs(c, wire[c], view[c], group[g], clock)
                      => Informs(c, wire'[c], view[c], n, clock)
  PROVE  Agreeing'
<1>1. /\ clock' = clock /\ place' = place /\ joined' = joined /\ view' = view /\ slow' = slow
  BY DEF Asleep
<1>2. group'[g] = n /\ \A h \in Groups \ {g} : group'[h] = group[h]
  BY Typed
<1>3. GroupsKept' BY <1>1, <1>2 DEF Agreeing, GroupsKept
<1>4. ViewsKept' BY <1>1 DEF Agreeing, ViewsKept
<1>5. ASSUME ~slow, NEW c \in joined PROVE Informed(c)'
  <2>1. c \in Clients /\ place[c] \in Groups BY Typed
  <2>2. Informs(c, wire[c], view[c], group[place[c]], clock)
    BY <1>5 DEF Agreeing, AllInformed, Informed
  <2>3. CASE place[c] = g
    <3>1. c \in Members(g) BY <2>3 DEF Members
    <3>2. Informs(c, wire'[c], view[c], n, clock) BY <1>5, <2>2, <2>3, <3>1
    <3> QED BY <1>1, <1>2, <2>3, <3>2 DEF Informed
  <2>4. CASE place[c] # g
    <3>1. c \in Clients \ Members(g) BY <2>1, <2>4 DEF Members
    <3>2. wire'[c] = wire[c] BY <3>1
    <3> QED BY <1>1, <1>2, <2>1, <2>2, <2>4, <3>2 DEF Informed
  <2> QED BY <2>3, <2>4
<1>6. AllInformed' BY <1>1, <1>5 DEF AllInformed
<1> QED BY <1>3, <1>4, <1>6 DEF Agreeing

LEMMA SendFields ==
  ASSUME NEW w, NEW S, NEW m
  PROVE  /\ \A c \in Clients \ S : Send(w, S, m)[c] = w[c]
         /\ \A c \in Clients \cap S : Send(w, S, m)[c] = Append(w[c], m)
BY DEF Send

LEMMA MembersAreClients ==
  ASSUME IInv, NEW g \in Groups
  PROVE  \A c \in Members(g) : c \in Clients
BY Typed DEF Members

(* A group whose pending state is not announced is at its current state. *)
LEMMA InformsSame ==
  ASSUME NEW c, NEW w, NEW v, NEW s, NEW n, NEW t,
         Informs(c, w, v, s, t), Prom(n, t) = Prom(s, t)
  PROVE  Informs(c, w, v, n, t)
BY DEF Informs

LEMMA InformsCurrent ==
  ASSUME NEW t \in Times, NEW c, NEW w \in Seq(Message), NEW x \in States \cup {Blank}, NEW v,
         NEW n, Prom(n, t) = n, n.cur = x, ~n.sent
  PROVE  Informs(c, Append(w, Msg(x, t)), v, n, t)
<1> DEFINE m == Msg(x, t)
           u == Append(w, m)
<1>1. m \in Message /\ m.state = x /\ m.at = t BY DEF Msg, Message
<1>2. u \in Seq(Message) /\ Len(u) = Len(w) + 1 /\ Len(w) \in Nat /\ u[Len(w) + 1] = m
  BY <1>1, AppendProperties, LenProperties
<1> HIDE DEF m, u
<1>3. u # <<>> /\ u[Len(u)] = m BY <1>2, EmptySeq
<1>4. m.at <= t BY <1>1, NeverLater
<1>5. Told(u, Shown(v, t), n, t) BY <1>1, <1>2, <1>3, <1>4, TellsCurrent
<1>6. Paid(u, v, n) BY <1>1, <1>3 DEF Paid
<1> QED BY <1>5, <1>6 DEF Informs, u, m

LEMMA ApplyStateAgrees ==
  ASSUME IInv, Agreeing, Asleep, NEW g \in Groups, NEW x \in States \cup {Blank},
         ApplyState(g, x)
  PROVE  Agreeing'
<1> DEFINE n == Holding(x)
<1>1. clock \in Times BY Typed
<1>2. GroupKept(n, clock) /\ Prom(n, clock) = n /\ n.cur = x /\ ~n.sent
  BY <1>1, HoldingKept
<1>3. group' = [group EXCEPT ![g] = n] /\ wire' = Send(wire, Members(g), Msg(x, clock))
  BY DEF ApplyState
<1> HIDE DEF n
<1>4. \A c \in Clients \ Members(g) : wire'[c] = wire[c]
  BY <1>3, SendFields
<1>5. ASSUME NEW c \in Members(g) PROVE Informs(c, wire'[c], view[c], n, clock)
  <2>1. c \in Clients /\ wire[c] \in Seq(Message) BY Typed, MembersAreClients
  <2>2. wire'[c] = Append(wire[c], Msg(x, clock)) BY <1>3, <2>1, SendFields
  <2> QED BY <1>1, <1>2, <2>1, <2>2, InformsCurrent
<1> QED BY <1>2, <1>3, <1>4, <1>5, GroupAgrees

LEMMA SetStateAgrees ==
  ASSUME IInv, Agreeing, NEW g \in Groups, NEW v \in States \cup {Blank}, NEW forced,
         SetState(g, v, forced)
  PROVE  Agreeing'
<1> DEFINE s == Promoted(group[g])
<1>1. Asleep BY DEF SetState
<1>2. CASE ApplyState(g, v) BY <1>1, <1>2, ApplyStateAgrees
<1>3. CASE group' = [group EXCEPT ![g] = s] /\ wire' = wire
  <2>1. clock \in Times /\ group[g] \in GroupType /\ GroupKept(group[g], clock)
    BY Typed DEF Agreeing, GroupsKept
  <2>2. s = Prom(group[g], clock) BY PromotedProm
  <2>3. GroupKept(s, clock) /\ Prom(s, clock) = Prom(group[g], clock)
    BY <2>1, <2>2, PromKept, PromFields
  <2> HIDE DEF s
  <2>4. \A c \in Members(g) : Informs(c, wire[c], view[c], group[g], clock)
                                => Informs(c, wire'[c], view[c], s, clock)
    BY <1>3, <2>3, InformsSame
  <2> QED BY <1>1, <1>3, <2>3, <2>4, GroupAgrees
<1> QED BY <1>2, <1>3 DEF SetState

(* A member is not told that what was never announced is cancelled. *)
LEMMA InformsNothing ==
  ASSUME NEW t \in Times, NEW c, NEW w \in Seq(Message), NEW v, NEW s, NEW n,
         Informs(c, w, v, s, t), Prom(s, t).sent => Prom(s, t).at = Never,
         ~(Prom(s, t).timer = "due" /\ Prom(s, t).at = Never),
         Prom(n, t) = n, n.cur = Prom(s, t).cur, ~n.sent
  PROVE  Informs(c, w, v, n, t)
<1>1. CASE c \in Legacy BY <1>1 DEF Informs, Paid
<1>2. CASE c \notin Legacy
  <2>1. Told(w, Shown(v, t), Prom(s, t), t) BY <1>2 DEF Informs
  <2>2. Told(w, Shown(v, t), n, t) BY <2>1, TellsNothing
  <2> QED BY <1>2, <2>2 DEF Informs
<1> QED BY <1>1, <1>2

LEMMA CancelScheduledAgrees ==
  ASSUME IInv, Agreeing, NEW g \in Groups, CancelScheduled(g)
  PROVE  Agreeing'
<1> DEFINE s == Promoted(group[g])
<1>1. Asleep BY DEF CancelScheduled
<1>2. clock \in Times /\ group[g] \in GroupType /\ GroupKept(group[g], clock)
  BY Typed DEF Agreeing, GroupsKept
<1>3. s = Prom(group[g], clock) BY PromotedProm
<1>4. GroupKept(s, clock) /\ Prom(s, clock) = Prom(group[g], clock) /\ s \in GroupType
  BY <1>2, <1>3, PromKept, PromFields
<1>5. s.cur \in States \cup {Blank} BY <1>4 DEF GroupType
<1>6. CASE s.at # Never /\ s.sent
  <2>1. ApplyState(g, s.cur) BY <1>6 DEF CancelScheduled
  <2> QED BY <1>1, <1>5, <2>1, ApplyStateAgrees
<1>7. CASE s.at = Never
  <2>1. group' = [group EXCEPT ![g] = s] /\ wire' = wire BY <1>7 DEF CancelScheduled
  <2> HIDE DEF s
  <2>2. \A c \in Members(g) : Informs(c, wire[c], view[c], group[g], clock)
                                => Informs(c, wire'[c], view[c], s, clock)
    BY <1>4, <2>1, InformsSame
  <2> QED BY <1>1, <1>4, <2>1, <2>2, GroupAgrees
<1>8. CASE s.at # Never /\ ~s.sent
  <2> DEFINE n == Holding(s.cur)
  <2>1. group' = [group EXCEPT ![g] = n] /\ wire' = wire BY <1>8 DEF CancelScheduled
  <2>2. GroupKept(n, clock) /\ Prom(n, clock) = n /\ n.cur = s.cur /\ ~n.sent
    BY <1>2, <1>5, HoldingKept
  <2> HIDE DEF s, n
  <2>3. ASSUME NEW c \in Members(g), Informs(c, wire[c], view[c], group[g], clock)
        PROVE  Informs(c, wire'[c], view[c], n, clock)
    <3>1. wire[c] \in Seq(Message) BY Typed, MembersAreClients
    <3> QED BY <1>2, <1>3, <1>8, <2>1, <2>2, <2>3, <3>1, InformsNothing
  <2> QED BY <1>1, <2>1, <2>2, <2>3, GroupAgrees
<1> QED BY <1>6, <1>7, <1>8

-----------------------------------------------------------------------------
(* A state that is announced. *)
Announced(s) ==
  [s EXCEPT !.sent = TRUE, !.timer = "due", !.due = s.at, !.msg = Msg(s.pend, s.at)]

LEMMA AnnouncedFields ==
  ASSUME NEW t \in Times, NEW s \in GroupType, s.at \in Times, s.at > t
  PROVE  LET n == Announced(s)
         IN  /\ n.cur = s.cur /\ n.pend = s.pend /\ n.at = s.at /\ n.sent /\ n.at # Never
             /\ GroupKept(n, t) /\ Prom(n, t) = n
<1> DEFINE m == Msg(s.pend, s.at)
           n == [s EXCEPT !.sent = TRUE, !.timer = "due", !.due = s.at, !.msg = m]
<1>1. m.state = s.pend BY MsgFields
<1> HIDE DEF m
<1>2. /\ n.cur = s.cur /\ n.pend = s.pend /\ n.at = s.at /\ n.sent
      /\ n.timer = "due" /\ n.due = s.at /\ n.msg = m
  BY DEF GroupType
<1>3. n = Announced(s) BY DEF Announced, m
<1> HIDE DEF n
<1>4. n.at # Never BY <1>2, NeverLater
<1>5. GroupKept(n, t) BY <1>1, <1>2, <1>4 DEF GroupKept
<1>6. Prom(n, t) = n BY <1>2 DEF Prom
<1>7. /\ n.cur = s.cur /\ n.pend = s.pend /\ n.at = s.at /\ n.sent /\ n.at # Never
      /\ GroupKept(n, t) /\ Prom(n, t) = n
  BY <1>2, <1>4, <1>5, <1>6
<1> QED BY <1>3, <1>7

LEMMA AnnounceAgrees ==
  ASSUME IInv, Agreeing, Asleep, NEW g \in Groups, NEW s \in GroupType,
         s.at \in Times, s.at > clock, s.cur = Prom(group[g], clock).cur,
         NEW w, Announce(g, s, w),
         \A c \in Clients : c \notin Members(g) \cap Legacy => w[c] = wire[c],
         ~slow => \A c \in Members(g) \cap Legacy :
                    Informs(c, wire[c], view[c], group[g], clock)
                      => Paid(w[c], view[c], Announced(s))
  PROVE  Agreeing'
<1> DEFINE n == Announced(s)
           m == Msg(s.pend, s.at)
<1>1. clock \in Times BY Typed
<1>2. /\ n.cur = s.cur /\ n.pend = s.pend /\ n.at = s.at /\ n.sent /\ n.at # Never
      /\ GroupKept(n, clock) /\ Prom(n, clock) = n
  BY <1>1, AnnouncedFields
<1>3. group' = [group EXCEPT ![g] = n] /\ wire' = Send(w, Members(g) \ Legacy, m)
  BY DEF Announce, Announced
<1>4. m \in Message /\ m.state = s.pend /\ m.at = s.at
  BY DEF Msg, Message, GroupType
<1> HIDE DEF n, m
<1>5. \A c \in Clients : c \notin Members(g) \ Legacy => wire'[c] = w[c]
  BY <1>3, SendFields
<1>6. \A c \in Clients \ Members(g) : wire'[c] = wire[c]
  BY <1>5
<1>7. ASSUME ~slow, NEW c \in Members(g),
             Informs(c, wire[c], view[c], group[g], clock)
      PROVE  Informs(c, wire'[c], view[c], n, clock)
  <2>1. c \in Clients /\ wire[c] \in Seq(Message) BY Typed, MembersAreClients
  <2>2. CASE c \in Legacy
    <3>1. wire'[c] = w[c] BY <1>5, <2>1, <2>2
    <3>2. Paid(w[c], view[c], n) BY <1>7, <2>2 DEF n
    <3> QED BY <1>2, <2>2, <3>1, <3>2 DEF Informs
  <2>3. CASE c \notin Legacy
    <3>1. w[c] = wire[c] BY <2>1, <2>3
    <3>2. wire'[c] = Append(wire[c], m) BY <1>3, <2>1, <2>3, <3>1, SendFields
    <3>3. Told(wire[c], Shown(view[c], clock), Prom(group[g], clock), clock)
      BY <1>7, <2>3 DEF Informs
    <3>4. Told(Append(wire[c], m), Shown(view[c], clock), n, clock)
      BY <1>1, <1>2, <1>4, <2>1, <3>3, TellsAhead
    <3> QED BY <1>2, <2>3, <3>2, <3>4 DEF Informs
  <2> QED BY <2>2, <2>3
<1> QED BY <1>2, <1>3, <1>6, <1>7, GroupAgrees

(* The state to announce later. *)
Waiting(x, v, t) == [Holding(x) EXCEPT !.pend = v, !.at = t]
WaitingTimer(x, v, t) == [Waiting(x, v, t) EXCEPT !.timer = "announce", !.due = t - MaxLead]

LEMMA WaitingFields ==
  ASSUME NEW x \in States \cup {Blank}, NEW v \in States, NEW t \in Times
  PROVE  LET n == Waiting(x, v, t)
         IN  n \in GroupType /\ n.cur = x /\ n.at = t
<1> DEFINE h == Holding(x)
           n == [h EXCEPT !.pend = v, !.at = t]
<1>1. h \in GroupType /\ h.cur = x
  BY HoldingOK DEF Holding, GroupOK
<1> HIDE DEF h
<1>2. n \in GroupType /\ n.cur = x /\ n.at = t BY <1>1 DEF GroupType
<1>3. n = Waiting(x, v, t) BY DEF Waiting, h
<1> HIDE DEF n
<1> QED BY <1>2, <1>3

LEMMA WaitingTimerFields ==
  ASSUME NEW x \in States \cup {Blank}, NEW v \in States, NEW t \in Times, NEW u \in Times, t > u
  PROVE  LET n == WaitingTimer(x, v, t)
         IN  n.cur = x /\ ~n.sent /\ GroupKept(n, u) /\ Prom(n, u) = n
<1> DEFINE n == WaitingTimer(x, v, t)
<1>1. n.cur = x /\ ~n.sent /\ n.at = t /\ n.timer = "announce"
  BY DEF WaitingTimer, Waiting, Holding
<1> HIDE DEF n
<1>2. n.at # Never BY <1>1, NeverLater
<1>3. GroupKept(n, u) BY <1>1, <1>2 DEF GroupKept
<1>4. Prom(n, u) = n BY <1>1 DEF Prom
<1> QED BY <1>1, <1>3, <1>4 DEF n

LEMMA ScheduleAgrees ==
  ASSUME IInv, Agreeing, NEW g \in Groups, NEW v \in States, NEW t \in Times, Schedule(g, v, t)
  PROVE  Agreeing'
<1> DEFINE s        == Promoted(group[g])
           replaced == s.sent /\ s.at # Never
           owed     == s.sent /\ s.at = Never /\ s.timer # "none"
           paid     == IF owed THEN Send(wire, Members(g) \cap Legacy, Msg(s.cur, clock)) ELSE wire
           n        == Waiting(s.cur, v, t)
           f        == WaitingTimer(s.cur, v, t)
<1>1. Asleep /\ t > clock BY DEF Schedule
<1>2. clock \in Times /\ group[g] \in GroupType /\ GroupKept(group[g], clock)
  BY Typed DEF Agreeing, GroupsKept
<1>3. s = Prom(group[g], clock) BY PromotedProm
<1>4. GroupKept(s, clock) /\ s \in GroupType BY <1>2, <1>3, PromKept, PromFields
<1>5. s.cur \in States \cup {Blank} BY <1>4 DEF GroupType
<1>6. CASE t - MaxLead <= clock
  <2>1. Announce(g, n, paid) BY <1>6 DEF Schedule, Waiting
  <2>2. n \in GroupType /\ n.cur = s.cur /\ n.at = t BY <1>5, WaitingFields
  <2> HIDE DEF n, s
  <2>3. \A c \in Clients : c \notin Members(g) \cap Legacy => paid[c] = wire[c]
    BY SendFields
  <2>4. ASSUME NEW c \in Members(g) \cap Legacy,
               Informs(c, wire[c], view[c], group[g], clock)
        PROVE  Paid(paid[c], view[c], Announced(n))
    <3>1. c \in Clients /\ wire[c] \in Seq(Message) BY Typed, MembersAreClients
    <3>2. Announced(n).cur = s.cur BY <1>1, <1>2, <2>2, AnnouncedFields
    <3>3. Paid(wire[c], view[c], s) BY <1>3, <2>4 DEF Informs
    <3>4. CASE owed
      <4> DEFINE m == Msg(s.cur, clock)
                 u == Append(wire[c], m)
      <4>1. paid[c] = u BY <2>4, <3>1, <3>4, SendFields
      <4>2. m \in Message /\ m.state = s.cur BY <1>2, <1>5 DEF Msg, Message
      <4> HIDE DEF m
      <4>3. u \in Seq(Message) /\ Len(u) = Len(wire[c]) + 1 /\ Len(wire[c]) \in Nat
            /\ u[Len(wire[c]) + 1] = m
        BY <3>1, <4>2, AppendProperties, LenProperties
      <4> HIDE DEF u, paid
      <4>4. u # <<>> /\ u[Len(u)] = m BY <4>3, EmptySeq
      <4> QED BY <3>2, <4>1, <4>2, <4>4 DEF Paid
    <3>5. CASE ~owed
      <4>1. paid[c] = wire[c] BY <3>5
      <4> HIDE DEF paid
      <4>2. s.timer = "due" /\ s.at = Never => owed BY <1>4 DEF GroupKept
      <4> QED BY <3>2, <3>3, <3>5, <4>1, <4>2 DEF Paid
    <3> QED BY <3>4, <3>5
  <2> HIDE DEF paid
  <2> QED BY <1>1, <1>3, <2>1, <2>2, <2>3, <2>4, AnnounceAgrees
<1>7. CASE ~(t - MaxLead <= clock)
  <2>1. /\ group' = [group EXCEPT ![g] = f]
        /\ wire' = IF replaced THEN Send(paid, Members(g), Msg(s.cur, clock)) ELSE paid
    BY <1>7 DEF Schedule, Waiting, WaitingTimer
  <2>2. f.cur = s.cur /\ ~f.sent /\ GroupKept(f, clock) /\ Prom(f, clock) = f
    BY <1>1, <1>2, <1>5, WaitingTimerFields
  <2> HIDE DEF f, s
  <2>3. \A c \in Clients \ Members(g) : wire'[c] = wire[c]
    BY <2>1, SendFields
  <2>4. ASSUME NEW c \in Members(g), Informs(c, wire[c], view[c], group[g], clock)
        PROVE  Informs(c, wire'[c], view[c], f, clock)
    <3>1. c \in Clients /\ wire[c] \in Seq(Message) BY Typed, MembersAreClients
    <3>2. CASE replaced
      <4>1. paid = wire BY <3>2
      <4>2. wire'[c] = Append(wire[c], Msg(s.cur, clock)) BY <2>1, <3>1, <3>2, <4>1, SendFields
      <4> QED BY <1>2, <1>5, <2>2, <3>1, <4>2, InformsCurrent
    <3>3. CASE owed /\ c \in Legacy
      <4>1. wire'[c] = Append(wire[c], Msg(s.cur, clock)) BY <2>1, <3>1, <3>3, SendFields
      <4> QED BY <1>2, <1>5, <2>2, <3>1, <4>1, InformsCurrent
    <3>4. CASE owed /\ c \notin Legacy
      <4>1. wire'[c] = wire[c] BY <2>1, <3>1, <3>4, SendFields
      <4>2. Told(wire[c], Shown(view[c], clock), s, clock) BY <1>3, <2>4, <3>4 DEF Informs
      <4>3. Told(wire[c], Shown(view[c], clock), f, clock)
        BY <1>2, <2>2, <3>1, <3>4, <4>2, TellsNothing
      <4> QED BY <2>2, <3>4, <4>1, <4>3 DEF Informs
    <3>5. CASE ~replaced /\ ~owed
      <4>1. wire'[c] = wire[c] BY <2>1, <3>5
      <4>2. s.timer = "due" => s.sent BY <1>4 DEF GroupKept
      <4>3. ~(s.timer = "due" /\ s.at = Never) BY <3>5, <4>2
      <4>4. s.sent => s.at = Never BY <3>5
      <4> HIDE DEF owed, replaced
      <4> QED BY <1>2, <1>3, <2>2, <2>4, <3>1, <4>1, <4>3, <4>4, InformsNothing
    <3> QED BY <3>2, <3>3, <3>4, <3>5
  <2> QED BY <1>1, <2>1, <2>2, <2>3, <2>4, GroupAgrees
<1> QED BY <1>6, <1>7

(* A timer that fired. *)
LEMMA IdleFields ==
  ASSUME NEW t \in Times, NEW s \in GroupType, GroupKept(s, t), s.timer = "due", s.due <= t
  PROVE  LET n == [s EXCEPT !.timer = "none"]
         IN  /\ GroupKept(n, t) /\ Prom(n, t).cur = s.msg.state /\ Prom(s, t).cur = s.msg.state
             /\ Prom(n, t).sent = Prom(s, t).sent /\ Prom(n, t).at = Prom(s, t).at
             /\ Prom(n, t).pend = Prom(s, t).pend
<1> DEFINE n == [s EXCEPT !.timer = "none"]
<1>1. /\ n \in GroupType /\ n.cur = s.cur /\ n.pend = s.pend /\ n.at = s.at /\ n.sent = s.sent
      /\ n.timer = "none"
  BY DEF GroupType
<1> HIDE DEF n
<1>2. s.at \in Times \cup {Never} BY DEF GroupType
<1>3. CASE s.at = Never
  <2>1. s.at > t /\ n.at > t BY <1>1, <1>3, NeverLater
  <2>2. Prom(s, t) = s /\ Prom(n, t) = n BY <2>1 DEF Prom
  <2>3. s.msg.state = s.cur BY <1>3 DEF GroupKept
  <2>4. GroupKept(n, t) BY <1>1, <1>3 DEF GroupKept
  <2> QED BY <1>1, <2>2, <2>3, <2>4 DEF n
<1>4. CASE s.at # Never
  <2>1. s.due = s.at /\ s.msg.state = s.pend /\ s.sent BY <1>4 DEF GroupKept
  <2>2. s.at <= t /\ ~(s.at > t) /\ n.at <= t BY <1>1, <1>2, <2>1, NeverLater
  <2>3. /\ Prom(s, t).cur = s.pend /\ Prom(s, t).pend = Blank /\ Prom(s, t).at = Never
        /\ Prom(s, t).sent = s.sent
    BY <2>2, PromFields
  <2>4. /\ Prom(n, t).cur = n.pend /\ Prom(n, t).pend = Blank /\ Prom(n, t).at = Never
        /\ Prom(n, t).sent = n.sent
    BY <1>1, <2>2, PromFields
  <2>5. GroupKept(n, t) BY <1>1, <1>4, <2>1, <2>2 DEF GroupKept
  <2> QED BY <1>1, <2>1, <2>3, <2>4, <2>5 DEF n
<1> QED BY <1>3, <1>4

LEMMA TimerFiresAgrees ==
  ASSUME IInv, Agreeing, NEW g \in Groups, TimerFires(g)
  PROVE  Agreeing'
<1> DEFINE s == group[g]
           n == [s EXCEPT !.timer = "none"]
<1>1. Asleep /\ TimerDue(s) BY DEF TimerFires
<1>2. clock \in Times /\ s \in GroupType /\ GroupKept(s, clock)
  BY Typed DEF Agreeing, GroupsKept
<1>3. CASE s.timer = "announce"
  <2>1. s.at # Never /\ ~s.sent /\ s.at > clock BY <1>2, <1>3 DEF GroupKept
  <2>2. Announce(g, s, wire) BY <1>3, <2>1 DEF TimerFires
  <2>3. s.at \in Times BY <1>2, <2>1 DEF GroupType
  <2>4. Prom(s, clock) = s BY <2>1 DEF Prom
  <2>5. ASSUME NEW c \in Members(g) \cap Legacy, Informs(c, wire[c], view[c], s, clock)
        PROVE  Paid(wire[c], view[c], Announced(s))
    <3>1. Announced(s).cur = s.cur BY <1>2, <2>1, <2>3, AnnouncedFields
    <3>2. Paid(wire[c], view[c], s) BY <2>4, <2>5 DEF Informs
    <3> QED BY <1>3, <3>1, <3>2 DEF Paid
  <2> QED BY <1>1, <1>2, <2>1, <2>2, <2>3, <2>4, <2>5, AnnounceAgrees
<1>4. CASE s.timer = "due"
  <2>1. group' = [group EXCEPT ![g] = n] /\ wire' = Send(wire, Members(g) \cap Legacy, s.msg)
    BY <1>4 DEF TimerFires
  <2>2. s.due <= clock BY <1>1 DEF TimerDue
  <2>3. /\ GroupKept(n, clock)
        /\ Prom(n, clock).cur = s.msg.state /\ Prom(s, clock).cur = s.msg.state
        /\ Prom(n, clock).sent = Prom(s, clock).sent /\ Prom(n, clock).at = Prom(s, clock).at
        /\ Prom(n, clock).pend = Prom(s, clock).pend
    BY <1>2, <1>4, <2>2, IdleFields
  <2> HIDE DEF n
  <2>4. \A c \in Clients \ Members(g) : wire'[c] = wire[c]
    BY <2>1, SendFields
  <2>5. ASSUME NEW c \in Members(g), Informs(c, wire[c], view[c], s, clock)
        PROVE  Informs(c, wire'[c], view[c], n, clock)
    <3>1. c \in Clients /\ wire[c] \in Seq(Message) BY Typed, MembersAreClients
    <3>2. CASE c \in Legacy
      <4> DEFINE u == Append(wire[c], s.msg)
      <4>1. wire'[c] = u BY <2>1, <3>1, <3>2, SendFields
      <4>2. s.msg \in Message BY <1>2 DEF GroupType
      <4>3. u \in Seq(Message) /\ Len(u) = Len(wire[c]) + 1 /\ Len(wire[c]) \in Nat
            /\ u[Len(wire[c]) + 1] = s.msg
        BY <3>1, <4>2, AppendProperties, LenProperties
      <4> HIDE DEF u
      <4>4. u # <<>> /\ u[Len(u)] = s.msg BY <4>3, EmptySeq
      <4>5. Paid(u, view[c], Prom(n, clock)) BY <2>3, <4>4 DEF Paid
      <4> QED BY <3>2, <4>1, <4>5 DEF Informs
    <3>3. CASE c \notin Legacy
      <4>1. wire'[c] = wire[c] BY <2>1, <3>1, <3>3, SendFields
      <4>2. Told(wire[c], Shown(view[c], clock), Prom(s, clock), clock)
        BY <2>5, <3>3 DEF Informs
      <4>3. Told(wire[c], Shown(view[c], clock), Prom(n, clock), clock)
        BY <2>3, <4>2 DEF Told, AtRest, Underway
      <4> QED BY <3>3, <4>1, <4>3 DEF Informs
    <3> QED BY <3>2, <3>3
  <2> QED BY <1>1, <2>1, <2>3, <2>4, <2>5, GroupAgrees
<1>5. s.timer \in {"announce", "due"} BY <1>1, <1>2 DEF TimerDue, GroupType
<1> QED BY <1>3, <1>4, <1>5

-----------------------------------------------------------------------------
(* The steps of a client. *)

(* A client's view when its timer fires, once or twice. *)
LEMMA ShownFields ==
  ASSUME NEW t \in Times, NEW v \in ViewType
  PROVE  LET u == Shown(v, t)
         IN  /\ u \in ViewType /\ u.at > t /\ Shown(u, t) = u
             /\ v.at > t => u = v
             /\ v.at <= t => u.cur = v.pend /\ u.pend = Blank /\ u.at = Never /\ ~u.early
<1> DEFINE u == Shown(v, t)
<1>0. v.at \in Times \cup {Never} BY DEF ViewType
<1>1. CASE v.at > t
  <2>1. u = v BY <1>1 DEF Shown
  <2>2. ~(v.at <= t) BY <1>0, <1>1, NeverLater
  <2> QED BY <1>1, <2>1, <2>2 DEF Shown
<1>2. CASE ~(v.at > t)
  <2> DEFINE q == [v EXCEPT !.cur = v.pend, !.pend = Blank, !.at = Never, !.early = FALSE]
  <2>1. q \in ViewType /\ q.at = Never /\ q.cur = v.pend /\ q.pend = Blank /\ ~q.early
    BY DEF ViewType
  <2>2. u = q BY <1>2 DEF Shown
  <2> HIDE DEF q, u
  <2>3. u.at > t BY <2>1, <2>2, NeverLater
  <2>4. Shown(u, t) = u BY <2>3 DEF Shown
  <2>5. u \in ViewType /\ u.at > t /\ Shown(u, t) = u
        /\ u.cur = v.pend /\ u.pend = Blank /\ u.at = Never /\ ~u.early
    BY <2>1, <2>2, <2>3, <2>4
  <2> QED BY <1>2, <2>5 DEF u
<1> QED BY <1>1, <1>2

(* One client changes, and its groups as far as being read promotes them. *)
LEMMA ClientAgrees ==
  ASSUME IInv, Agreeing, NEW c \in Clients, clock' = clock, slow' = slow,
         joined' \subseteq joined \cup {c},
         \A d \in Clients \ {c} : /\ place'[d] = place[d] /\ wire'[d] = wire[d]
                                  /\ view'[d] = view[d],
         ~slow => \A d \in joined \ {c} :
                    Prom(group'[place[d]], clock) = Prom(group[place[d]], clock),
         \A g \in Groups : GroupKept(group'[g], clock),
         ViewKept(c, view'[c]),
         ~slow /\ c \in joined' => Informs(c, wire'[c], view'[c], group'[place'[c]], clock)
  PROVE  Agreeing'
<1>1. GroupsKept' BY DEF GroupsKept
<1>2. ViewsKept'
  <2>1. \A d \in Clients : ViewKept(d, view'[d])
    BY DEF Agreeing, ViewsKept
  <2> QED BY <2>1 DEF ViewsKept
<1>3. ASSUME ~slow, NEW d \in joined' PROVE Informed(d)'
  <2>1. CASE d = c BY <1>3, <2>1 DEF Informed
  <2>2. CASE d # c
    <3>1. d \in joined /\ d \in Clients \ {c} BY <2>2, Typed
    <3>2. Informs(d, wire[d], view[d], group[place[d]], clock)
      BY <1>3, <3>1 DEF Agreeing, AllInformed, Informed
    <3>3. Prom(group'[place[d]], clock) = Prom(group[place[d]], clock)
      BY <1>3, <3>1
    <3>4. Informs(d, wire[d], view[d], group'[place[d]], clock)
      BY <3>2, <3>3, InformsSame
    <3>5. place'[d] = place[d] /\ wire'[d] = wire[d] /\ view'[d] = view[d]
      BY <3>1
    <3> QED BY <3>4, <3>5 DEF Informed
  <2> QED BY <2>1, <2>2
<1>4. AllInformed' BY <1>3 DEF AllInformed
<1> QED BY <1>1, <1>2, <1>4 DEF Agreeing

(* The second of two sequences, in their concatenation. *)
LEMMA ConcatSecond ==
  ASSUME NEW S, NEW w \in Seq(S), NEW x \in Seq(S), NEW k \in 1 .. Len(x)
  PROVE  (w \o x)[Len(w) + k] = x[k]
<1> DEFINE u == w \o x
           i == Len(w) + k
<1>1. Len(w) \in Nat /\ Len(x) \in Nat BY LenProperties
<1>2. \A j \in 1 .. Len(w) + Len(x) : u[j] = IF j <= Len(w) THEN w[j] ELSE x[j - Len(w)]
  BY ConcatProperties
<1>3. i \in 1 .. Len(w) + Len(x) /\ ~(i <= Len(w)) /\ i - Len(w) = k BY <1>1
<1> HIDE DEF u, i
<1>4. u[i] = x[i - Len(w)] BY <1>2, <1>3
<1>5. u[i] = x[k] BY <1>3, <1>4
<1> QED BY <1>5 DEF u, i

(* A client that joins is told what the group holds and has announced. *)
LEMMA WelcomeInforms ==
  ASSUME clock \in Times, NEW c, NEW s \in GroupType, s.at > clock, NEW w \in Seq(Message),
         NEW v
  PROVE  LET u == w \o Welcome(c, s)
         IN  IF c \in Legacy THEN Paid(u, v, s) ELSE Told(u, v, s, clock)
<1> DEFINE m == Msg(s.cur, clock)
           a == Msg(s.pend, s.at)
           u == w \o Welcome(c, s)
           n == Len(w)
<1>1. m \in Message /\ m.state = s.cur /\ m.at = clock BY DEF Msg, Message, GroupType
<1>2. n \in Nat BY LenProperties
<1>3. clock <= clock BY NeverLater
<1>4. CASE s.at # Never /\ s.sent /\ c \notin Legacy
  <2>1. u = w \o <<m, a>> BY <1>4 DEF Welcome
  <2>2. a \in Message /\ a.state = s.pend /\ a.at = s.at
    BY <1>4 DEF Msg, Message, GroupType
  <2> HIDE DEF m, a, u
  <2>3. <<m, a>> \in Seq(Message) /\ Len(<<m, a>>) = 2 /\ <<m, a>>[1] = m /\ <<m, a>>[2] = a
    BY <1>1, <2>2
  <2>4. u \in Seq(Message) /\ Len(u) = n + 2
    BY <2>1, <2>3, ConcatProperties
  <2>5. u[n + 1] = m /\ u[n + 2] = a
    <3>1. 1 \in 1 .. Len(<<m, a>>) /\ 2 \in 1 .. Len(<<m, a>>) BY <2>3
    <3>2. u[n + 1] = <<m, a>>[1] /\ u[n + 2] = <<m, a>>[2]
      BY <2>1, <2>3, <3>1, ConcatSecond
    <3> QED BY <2>3, <3>2
  <2> HIDE DEF n
  <2> DEFINE k == n + 1
  <2>6. k \in Nat /\ k # 0 /\ Len(u) = k + 1 /\ u[k] = m /\ u[k + 1] = a
    BY <1>2, <2>4, <2>5
  <2> HIDE DEF k
  <2>7. Told(u, v, s, clock)
    BY <1>1, <1>3, <1>4, <2>2, <2>4, <2>6, TellsBoth
  <2> QED BY <1>4, <2>7 DEF u
<1>5. CASE ~(s.at # Never /\ s.sent /\ c \notin Legacy)
  <2>1. u = w \o <<m>> BY <1>5 DEF Welcome
  <2> HIDE DEF m, u
  <2>2. <<m>> \in Seq(Message) /\ Len(<<m>>) = 1 /\ <<m>>[1] = m
    BY <1>1
  <2>3. u \in Seq(Message) /\ Len(u) = n + 1
    BY <2>1, <2>2, ConcatProperties
  <2>4. u[n + 1] = m
    <3>1. 1 \in 1 .. Len(<<m>>) BY <2>2
    <3>2. u[n + 1] = <<m>>[1] BY <2>1, <2>2, <3>1, ConcatSecond
    <3> QED BY <2>2, <3>2
  <2> HIDE DEF n
  <2>5. u # <<>> /\ u[Len(u)] = m BY <1>2, <2>3, <2>4, EmptySeq
  <2>6. Paid(u, v, s) BY <1>1, <2>5 DEF Paid
  <2>7. c \notin Legacy => (s.sent => s.at = Never) BY <1>5
  <2>8. c \notin Legacy => Told(u, v, s, clock)
    BY <1>1, <1>3, <2>3, <2>5, <2>7, TellsCurrent
  <2> QED BY <2>6, <2>8 DEF u
<1> QED BY <1>4, <1>5

LEMMA ConnectAgrees ==
  ASSUME IInv, Agreeing, NEW c \in Clients, Connect(c)
  PROVE  Agreeing'
<1> DEFINE g == place[c]
           s == Promoted(group[g])
<1>1. /\ clock' = clock /\ slow' = slow /\ joined' = joined \cup {c} /\ place' = place
      /\ view' = view /\ group' = [group EXCEPT ![g] = s]
      /\ wire' = [wire EXCEPT ![c] = Welcome(c, s)]
  BY DEF Connect
<1>2. /\ clock \in Times /\ g \in Groups /\ group[g] \in GroupType
      /\ GroupKept(group[g], clock)
  BY Typed DEF Agreeing, GroupsKept
<1>3. s = Prom(group[g], clock) BY PromotedProm
<1>4. /\ s \in GroupType /\ s.at > clock /\ Prom(s, clock) = s /\ GroupKept(s, clock)
      /\ Prom(s, clock) = Prom(group[g], clock)
  BY <1>2, <1>3, PromFields, PromKept
<1> HIDE DEF s
<1>5. wire'[c] = Welcome(c, s) /\ \A d \in Clients \ {c} : wire'[d] = wire[d]
  BY <1>1 DEF IInv, WiresOK
<1>6. group'[g] = s /\ \A h \in Groups \ {g} : group'[h] = group[h]
  BY <1>1, <1>2 DEF IInv, GroupsOK
<1>7. \A h \in Groups : /\ GroupKept(group'[h], clock)
                        /\ Prom(group'[h], clock) = Prom(group[h], clock)
  BY <1>4, <1>6 DEF Agreeing, GroupsKept
<1>8. Informs(c, wire'[c], view[c], s, clock)
  <2>1. <<>> \in Seq(Message) BY EmptySeq
  <2>2. Welcome(c, s) \in Seq(Message)
    <3>1. \A x \in States \cup {Blank} : Msg(x, clock) \in Message
      BY <1>2 DEF Msg, Message
    <3>2. s.cur \in States \cup {Blank} /\ (s.at # Never => Msg(s.pend, s.at) \in Message)
      BY <1>4 DEF GroupType, Msg, Message
    <3> QED BY <3>1, <3>2 DEF Welcome
  <2>3. <<>> \o Welcome(c, s) = Welcome(c, s) BY <2>2, ConcatEmptySeq
  <2>4. IF c \in Legacy THEN Paid(wire'[c], view[c], s)
        ELSE Told(wire'[c], Shown(view[c], clock), s, clock)
    BY <1>2, <1>4, <1>5, <2>1, <2>3, WelcomeInforms
  <2> QED BY <1>4, <2>4 DEF Informs
<1>9. ViewKept(c, view[c]) BY DEF Agreeing, ViewsKept
<1>10. \A d \in joined : place[d] \in Groups BY Typed
<1> QED BY <1>1, <1>5, <1>6, <1>7, <1>8, <1>9, <1>10, ClientAgrees

LEMMA DisconnectAgrees ==
  ASSUME IInv, Agreeing, NEW c \in Clients, Disconnect(c)
  PROVE  Agreeing'
<1>1. /\ clock' = clock /\ slow' = slow /\ joined' = joined \ {c} /\ place' = place
      /\ group' = group /\ view' = [view EXCEPT ![c] = NewView(c)]
      /\ wire' = [wire EXCEPT ![c] = <<>>]
  BY DEF Disconnect
<1>2. view'[c] = NewView(c) /\ \A d \in Clients \ {c} : view'[d] = view[d]
  BY <1>1 DEF IInv, RestTypeOK
<1>3. \A d \in Clients \ {c} : wire'[d] = wire[d] BY <1>1 DEF IInv, WiresOK
<1>4. ViewKept(c, view'[c]) BY <1>2 DEF NewView, ViewKept
<1>5. \A g \in Groups : GroupKept(group'[g], clock) BY <1>1 DEF Agreeing, GroupsKept
<1>6. c \notin joined' /\ joined' \subseteq joined \cup {c} BY <1>1
<1> QED BY <1>1, <1>2, <1>3, <1>4, <1>5, <1>6, ClientAgrees

LEMMA MoveAgrees ==
  ASSUME IInv, Agreeing, NEW c \in Clients, NEW h \in Groups, Move(c, h)
  PROVE  Agreeing'
<1> DEFINE g     == place[c]
           alone == \A x \in Clients \ {c} : place[x] # g
           there == Promoted(group[h])
           left  == IF alone THEN Holding(Blank) ELSE group[g]
           found == IF c \in joined THEN there ELSE group[h]
           head  == wire[c] \o <<Msg(Blank, clock)>>
<1>1. /\ clock' = clock /\ slow' = slow /\ joined' = joined /\ h # g
      /\ view' = view /\ place' = [place EXCEPT ![c] = h]
  BY DEF Move
<1>2. /\ clock \in Times /\ g \in Groups /\ group[h] \in GroupType
      /\ GroupKept(group[h], clock) /\ GroupKept(group[g], clock)
  BY Typed DEF Agreeing, GroupsKept
<1>3. there = Prom(group[h], clock) BY PromotedProm
<1>4. /\ there \in GroupType /\ there.at > clock /\ Prom(there, clock) = there
      /\ GroupKept(there, clock) /\ Prom(there, clock) = Prom(group[h], clock)
  BY <1>2, <1>3, PromFields, PromKept
<1>5. group' = [group EXCEPT ![g] = left, ![h] = found] BY <1>1, <1>2 DEF Move
<1>6. c \in joined => wire' = [wire EXCEPT ![c] = head \o Welcome(c, there)]
  <2>0. Msg(Blank, clock) \in Message BY <1>2 DEF Msg, Message
  <2>1. wire[c] \in Seq(Message) /\ <<Msg(Blank, clock)>> \in Seq(Message)
    BY <2>0, Typed
  <2>2. Welcome(c, there) \in Seq(Message)
    <3>1. \A x \in States \cup {Blank} : Msg(x, clock) \in Message
      BY <1>2 DEF Msg, Message
    <3>2. there.cur \in States \cup {Blank}
          /\ (there.at # Never => Msg(there.pend, there.at) \in Message)
      BY <1>4 DEF GroupType, Msg, Message
    <3> QED BY <3>1, <3>2 DEF Welcome
  <2> QED BY <2>1, <2>2, ConcatAssociative DEF Move
<1>7. GroupKept(left, clock) /\ GroupKept(found, clock)
      /\ Prom(found, clock) = Prom(group[h], clock)
  <2>1. GroupKept(Holding(Blank), clock) BY <1>2, HoldingKept
  <2> QED BY <1>2, <1>4, <2>1
<1>8. ~alone => left = group[g] OBVIOUS
<1>9. c \in joined => found = there OBVIOUS
<1>10. c \notin joined => wire' = wire BY DEF Move
<1>11. head \in Seq(Message)
  <2>0. Msg(Blank, clock) \in Message BY <1>2 DEF Msg, Message
  <2>1. wire[c] \in Seq(Message) /\ <<Msg(Blank, clock)>> \in Seq(Message)
    BY <2>0, Typed
  <2> QED BY <2>1, ConcatProperties
<1> HIDE DEF left, found, there, head
<1>12. /\ group'[g] = left /\ group'[h] = found
       /\ \A x \in Groups \ {g, h} : group'[x] = group[x]
  BY <1>1, <1>2, <1>5 DEF IInv, GroupsOK
<1>13. \A x \in Groups : GroupKept(group'[x], clock)
  BY <1>7, <1>12 DEF Agreeing, GroupsKept
<1>14. \A d \in Clients \ {c} : place'[d] = place[d] /\ wire'[d] = wire[d] /\ view'[d] = view[d]
  <2>1. \A d \in Clients \ {c} : place'[d] = place[d] BY <1>1 DEF IInv, RestTypeOK
  <2>2. \A d \in Clients \ {c} : wire'[d] = wire[d] BY <1>6, <1>10 DEF IInv, WiresOK
  <2> QED BY <1>1, <2>1, <2>2
<1>15. ASSUME NEW d \in joined \ {c}
       PROVE  Prom(group'[place[d]], clock) = Prom(group[place[d]], clock)
  <2>1. d \in Clients \ {c} /\ place[d] \in Groups BY Typed
  <2>2. CASE place[d] = g
    <3>1. ~alone BY <2>1, <2>2
    <3> QED BY <1>8, <1>12, <2>2, <3>1
  <2>3. CASE place[d] = h BY <1>7, <1>12, <2>3
  <2>4. CASE place[d] \notin {g, h} BY <1>12, <2>1, <2>4
  <2> QED BY <2>2, <2>3, <2>4
<1>16. ASSUME c \in joined PROVE Informs(c, wire'[c], view[c], group'[h], clock)
  <2>1. wire'[c] = head \o Welcome(c, there) BY <1>6, <1>16 DEF IInv, WiresOK
  <2>2. IF c \in Legacy THEN Paid(wire'[c], view[c], there)
        ELSE Told(wire'[c], Shown(view[c], clock), there, clock)
    BY <1>2, <1>4, <1>11, <2>1, WelcomeInforms
  <2>3. Prom(group'[h], clock) = there BY <1>4, <1>7, <1>12
  <2> QED BY <2>2, <2>3 DEF Informs
<1>17. place'[c] = h /\ view'[c] = view[c] BY <1>1 DEF IInv, RestTypeOK
<1>18. ViewKept(c, view'[c]) BY <1>17 DEF Agreeing, ViewsKept
<1>19. ~slow /\ c \in joined' => Informs(c, wire'[c], view'[c], group'[place'[c]], clock)
  BY <1>1, <1>16, <1>17
<1>20. joined' \subseteq joined \cup {c} BY <1>1
<1> HIDE DEF g, alone
<1> QED BY <1>1, <1>13, <1>14, <1>15, <1>18, <1>19, <1>20, ClientAgrees

-----------------------------------------------------------------------------
(* What is on its way, and what a client does with it. *)

(* A step of one client that leaves everything but its wire and view alone. *)
LEMMA ViewAgrees ==
  ASSUME IInv, Agreeing, Still, NEW c \in Clients, NEW w, NEW v,
         wire' = [wire EXCEPT ![c] = w] \/ (wire' = wire /\ w = wire[c]),
         view' = [view EXCEPT ![c] = v] \/ (view' = view /\ v = view[c]),
         ViewKept(c, v),
         ~slow /\ c \in joined => Informs(c, w, v, group[place[c]], clock)
  PROVE  Agreeing'
<1>1. /\ clock' = clock /\ group' = group /\ place' = place /\ joined' = joined /\ slow' = slow
  BY DEF Still
<1>2. wire'[c] = w /\ \A d \in Clients \ {c} : wire'[d] = wire[d]
  BY DEF IInv, WiresOK
<1>3. view'[c] = v /\ \A d \in Clients \ {c} : view'[d] = view[d]
  BY DEF IInv, RestTypeOK
<1>4. \A g \in Groups : GroupKept(group'[g], clock) BY <1>1 DEF Agreeing, GroupsKept
<1>5. joined' \subseteq joined \cup {c} BY <1>1
<1> QED BY <1>1, <1>2, <1>3, <1>4, <1>5, ClientAgrees

LEMMA TakeFields ==
  ASSUME clock \in Times, NEW c, NEW v \in ViewType, NEW m \in Message
  PROVE  LET u == TakeMessage(c, v, m)
         IN  /\ c \notin Legacy /\ v.synced /\ m.at > clock =>
                  /\ u.cur = v.cur /\ u.pend = m.state /\ u.at = m.at /\ u.early = v.early
             /\ ~(c \notin Legacy /\ v.synced /\ m.at > clock) =>
                  /\ u.cur = m.state /\ u.pend = Blank /\ u.at = Never
                  /\ u.early <=> c \notin Legacy /\ m.at > clock
<1> DEFINE d == [v EXCEPT !.pend = Blank, !.at = Never]
           e == c \notin Legacy /\ m.at > clock
           x == [d EXCEPT !.pend = m.state, !.at = m.at]
           y == [d EXCEPT !.cur = m.state, !.early = e]
           u == TakeMessage(c, v, m)
<1>1. /\ d \in ViewType /\ d.cur = v.cur /\ d.early = v.early /\ d.pend = Blank /\ d.at = Never
  BY DEF ViewType
<1>2. u = IF c \notin Legacy /\ v.synced /\ m.at > clock THEN x ELSE y
  BY DEF TakeMessage
<1>3. e \in BOOLEAN /\ (e <=> c \notin Legacy /\ m.at > clock) OBVIOUS
<1> HIDE DEF d, e
<1>4. x.cur = v.cur /\ x.pend = m.state /\ x.at = m.at /\ x.early = v.early
  BY <1>1 DEF ViewType
<1>5. y.cur = m.state /\ y.pend = Blank /\ y.at = Never /\ y.early = e
  BY <1>1 DEF ViewType
<1> HIDE DEF x, y, u
<1>6. c \notin Legacy /\ v.synced /\ m.at > clock =>
        u.cur = v.cur /\ u.pend = m.state /\ u.at = m.at /\ u.early = v.early
  BY <1>2, <1>4
<1>7. ~(c \notin Legacy /\ v.synced /\ m.at > clock) =>
        u.cur = m.state /\ u.pend = Blank /\ u.at = Never /\ u.early = e
  BY <1>2, <1>5
<1> QED BY <1>3, <1>6, <1>7 DEF u

LEMMA TailFields ==
  ASSUME NEW w \in Seq(Message), w # <<>>
  PROVE  /\ Len(w) \in Nat \ {0} /\ Head(w) = w[1] /\ Head(w) \in Message
         /\ Tail(w) \in Seq(Message) /\ Len(Tail(w)) = Len(w) - 1
         /\ \A i \in 1 .. Len(Tail(w)) : Tail(w)[i] = w[i + 1]
         /\ Tail(w) = <<>> <=> Len(w) = 1
         /\ Tail(w) # <<>> => Tail(w)[Len(Tail(w))] = w[Len(w)]
<1> DEFINE t == Tail(w)
<1>1. Len(w) \in Nat \ {0} BY EmptySeq
<1>2. Head(w) \in Message /\ t \in Seq(Message) /\ Len(t) = Len(w) - 1
      /\ \A i \in 1 .. Len(t) : t[i] = w[i + 1]
  BY HeadTailProperties
<1>3. Head(w) = w[1] BY <1>1
<1> HIDE DEF t
<1>4. t = <<>> <=> Len(w) = 1 BY <1>1, <1>2, EmptySeq
<1>5. ASSUME t # <<>> PROVE t[Len(t)] = w[Len(w)]
  <2>1. Len(t) \in 1 .. Len(t) /\ Len(t) + 1 = Len(w) BY <1>1, <1>2, <1>4, <1>5
  <2> QED BY <1>2, <2>1
<1> QED BY <1>1, <1>2, <1>3, <1>4, <1>5 DEF t

(* The messages that are left after the first, whatever it left in the view. *)
LEMMA TakeTells ==
  ASSUME clock \in Times, NEW w \in Seq(Message), w # <<>>, NEW v, NEW u, NEW s,
         Told(w, v, s, clock),
         \/ /\ w[1].at > clock
            /\ u.cur = v.cur /\ u.pend = w[1].state /\ u.at = w[1].at /\ u.early = v.early
         \/ /\ u.cur = w[1].state /\ u.at = Never
            /\ u.early <=> w[1].at > clock
  PROVE  Told(Tail(w), u, s, clock)
<1> DEFINE q == Tail(w)
<1>1. /\ Len(w) \in Nat \ {0} /\ q \in Seq(Message) /\ Len(q) = Len(w) - 1
      /\ \A i \in 1 .. Len(q) : q[i] = w[i + 1]
      /\ q = <<>> <=> Len(w) = 1
      /\ q # <<>> => q[Len(q)] = w[Len(w)]
  BY TailFields
<1> HIDE DEF q
<1>2. w[1] \in Message /\ w[1].at \in Times
  <2>1. w[1] \in Message BY <1>1, ElementOfSeq
  <2> QED BY <2>1 DEF Message
<1>3. (w[1].at > clock \/ w[1].at <= clock) /\ ~(w[1].at > clock /\ w[1].at <= clock)
      /\ w[1].at # Never
  BY <1>2, NeverLater
<1>4. Underway(w, v, s, clock) BY DEF Told
<1>5. NoneCurrent(q, clock) /\ w[1].at > clock => v.early \/ v.cur = s.cur
  <2> SUFFICES ASSUME NoneCurrent(q, clock), w[1].at > clock PROVE NoneCurrent(w, clock)
    BY <1>4 DEF Underway
  <2> SUFFICES ASSUME NEW i \in 1 .. Len(w) PROVE w[i].at > clock
    BY DEF NoneCurrent
  <2>1. CASE i = 1 BY <2>1
  <2>2. CASE i # 1
    <3>1. i - 1 \in 1 .. Len(q) /\ (i - 1) + 1 = i BY <1>1, <2>2
    <3> QED BY <1>1, <3>1 DEF NoneCurrent
  <2> QED BY <2>1, <2>2
<1>6. NoneCurrent(q, clock) /\ w[1].at <= clock => w[1].state = s.cur
  <2> SUFFICES ASSUME NoneCurrent(q, clock), w[1].at <= clock PROVE LastCurrent(w, 1, clock)
    BY <1>1, <1>4 DEF Underway
  <2> SUFFICES ASSUME NEW i \in 2 .. Len(w) PROVE w[i].at > clock
    BY DEF LastCurrent
  <2>1. i - 1 \in 1 .. Len(q) /\ (i - 1) + 1 = i BY <1>1
  <2> QED BY <1>1, <2>1 DEF NoneCurrent
<1>7. NoneCurrent(q, clock) => u.early \/ u.cur = s.cur
  BY <1>3, <1>5, <1>6
<1>8. CASE q = <<>>
  <2>1. NoneCurrent(q, clock)
    <3>1. Len(q) = 0 BY <1>1, <1>8
    <3> QED BY <3>1 DEF NoneCurrent
  <2>2. Len(w) = 1 BY <1>1, <1>8
  <2>3. w[1].at > clock => s.sent /\ s.at = w[1].at /\ s.pend = w[1].state
    BY <1>4, <2>2 DEF Underway
  <2>4. w[1].at <= clock => (s.sent => s.at = Never)
    BY <1>4, <2>2 DEF Underway
  <2>5. AtRest(u, s) BY <1>3, <1>7, <2>1, <2>3, <2>4 DEF AtRest
  <2> QED BY <1>8, <2>5 DEF Told, q
<1>9. CASE q # <<>>
  <2>1. ASSUME NEW i \in 1 .. Len(q), LastCurrent(q, i, clock) PROVE q[i].state = s.cur
    <3>1. i + 1 \in 1 .. Len(w) /\ q[i] = w[i + 1] BY <1>1
    <3>2. LastCurrent(w, i + 1, clock)
      <4> SUFFICES ASSUME NEW j \in (i + 1) + 1 .. Len(w) PROVE w[j].at > clock
        BY <2>1, <3>1 DEF LastCurrent
      <4>1. j - 1 \in i + 1 .. Len(q) /\ j - 1 \in 1 .. Len(q) /\ (j - 1) + 1 = j BY <1>1
      <4>2. q[j - 1].at > clock BY <2>1, <4>1 DEF LastCurrent
      <4> QED BY <1>1, <4>1, <4>2
    <3> QED BY <1>4, <3>1, <3>2 DEF Underway
  <2>2. q[Len(q)] = w[Len(w)] BY <1>1, <1>9
  <2>3. Underway(q, u, s, clock) BY <1>4, <1>7, <2>1, <2>2 DEF Underway
  <2> QED BY <1>9, <2>3 DEF Told, q
<1> QED BY <1>8, <1>9

LEMMA ReceiveAgrees ==
  ASSUME IInv, Agreeing, NEW c \in Clients, Receive(c)
  PROVE  Agreeing'
<1> DEFINE w == wire[c]
           v == view[c]
           u == TakeMessage(c, v, Head(w))
           s == group[place[c]]
           p == Prom(s, clock)
<1>1. /\ w # <<>> /\ v.at > clock /\ Still
      /\ wire' = [wire EXCEPT ![c] = Tail(w)] /\ view' = [view EXCEPT ![c] = u]
  BY DEF Receive
<1>2. clock \in Times /\ w \in Seq(Message) /\ v \in ViewType BY Typed
<1>3. /\ Len(w) \in Nat \ {0} /\ Head(w) = w[1] /\ Head(w) \in Message
      /\ Tail(w) = <<>> <=> Len(w) = 1
      /\ Tail(w) # <<>> => Tail(w)[Len(Tail(w))] = w[Len(w)]
  BY <1>1, <1>2, TailFields
<1>4. u \in ViewType BY <1>2, <1>3, TakeMessageType
<1>5. /\ c \notin Legacy /\ v.synced /\ w[1].at > clock =>
           /\ u.cur = v.cur /\ u.pend = w[1].state /\ u.at = w[1].at /\ u.early = v.early
      /\ ~(c \notin Legacy /\ v.synced /\ w[1].at > clock) =>
           /\ u.cur = w[1].state /\ u.pend = Blank /\ u.at = Never
           /\ u.early <=> c \notin Legacy /\ w[1].at > clock
  <2> DEFINE m == Head(w)
  <2>1. m \in Message /\ m = w[1] BY <1>3
  <2> HIDE DEF m
  <2> DEFINE x == TakeMessage(c, v, m)
  <2>2. /\ c \notin Legacy /\ v.synced /\ m.at > clock =>
             /\ x.cur = v.cur /\ x.pend = m.state /\ x.at = m.at /\ x.early = v.early
        /\ ~(c \notin Legacy /\ v.synced /\ m.at > clock) =>
             /\ x.cur = m.state /\ x.pend = Blank /\ x.at = Never
             /\ x.early <=> c \notin Legacy /\ m.at > clock
    BY <1>2, <2>1, TakeFields
  <2>3. x = u BY DEF m
  <2> HIDE DEF x, u
  <2> QED BY <2>1, <2>2, <2>3
<1> HIDE DEF u
<1>6. w[1].at # Never BY <1>2, <1>3, NeverLater DEF Message
<1>7. ViewKept(c, u) BY <1>5, <1>6 DEF ViewKept
<1>8. ASSUME ~slow, c \in joined PROVE Informs(c, Tail(w), u, s, clock)
  <2>1. Informs(c, w, v, s, clock) BY <1>8 DEF Agreeing, AllInformed, Informed
  <2>2. CASE c \in Legacy
    <3>1. Paid(w, v, p) BY <2>1, <2>2 DEF Informs
    <3>2. CASE Tail(w) = <<>>
      <4>1. w[Len(w)].state = u.cur BY <1>3, <1>5, <2>2, <3>2
      <4> QED BY <1>1, <2>2, <3>1, <3>2, <4>1 DEF Informs, Paid
    <3>3. CASE Tail(w) # <<>>
      <4>1. Tail(w)[Len(Tail(w))] = w[Len(w)] BY <1>3, <3>3
      <4> QED BY <1>1, <2>2, <3>1, <3>3, <4>1 DEF Informs, Paid
    <3> QED BY <3>2, <3>3
  <2>3. CASE c \notin Legacy
    <3>1. Shown(v, clock) = v BY <1>1 DEF Shown
    <3>2. Told(w, v, p, clock) BY <2>1, <2>3, <3>1 DEF Informs
    <3>3. u.at > clock
      <4>1. w[1].at > clock => w[1].at > clock OBVIOUS
      <4> QED BY <1>2, <1>5, NeverLater
    <3>4. Shown(u, clock) = u BY <3>3 DEF Shown
    <3>5. Told(Tail(w), u, p, clock)
      <4>1. \/ /\ w[1].at > clock
               /\ u.cur = v.cur /\ u.pend = w[1].state /\ u.at = w[1].at /\ u.early = v.early
            \/ /\ u.cur = w[1].state /\ u.at = Never
               /\ u.early <=> w[1].at > clock
        BY <1>5, <2>3
      <4> HIDE DEF w, v, p
      <4> QED BY <1>1, <1>2, <3>2, <4>1, TakeTells
    <3> QED BY <2>3, <3>4, <3>5 DEF Informs
  <2> QED BY <2>2, <2>3
<1> QED BY <1>1, <1>7, <1>8, ViewAgrees

(* The messages without the i-th. *)
Without(w, i) == SubSeq(w, 1, i - 1) \o SubSeq(w, i + 1, Len(w))

LEMMA WithoutFields ==
  ASSUME NEW w \in Seq(Message), NEW i \in 1 .. Len(w), i < Len(w)
  PROVE  LET u == Without(w, i)
         IN  /\ u \in Seq(Message) /\ Len(u) = Len(w) - 1
             /\ \A j \in 1 .. Len(u) : u[j] = IF j < i THEN w[j] ELSE w[j + 1]
<1> DEFINE a == SubSeq(w, 1, i - 1)
           b == SubSeq(w, i + 1, Len(w))
           u == a \o b
<1>1. Len(w) \in Nat /\ i \in Nat /\ i >= 1 /\ i < Len(w) BY LenProperties
<1>2. \A j \in 1 .. Len(w) : w[j] \in Message BY ElementOfSeq
<1>3. /\ a \in Seq(Message) /\ Len(a) = i - 1
      /\ \A j \in 1 .. i - 1 : a[j] = w[j]
  <2>1. \A j \in 1 .. i - 1 : w[j] \in Message BY <1>1, <1>2
  <2>2. 1 \in Int /\ i - 1 \in Int BY <1>1
  <2>3. /\ a \in Seq(Message) /\ Len(a) = IF 1 <= i - 1 THEN (i - 1) - 1 + 1 ELSE 0
        /\ \A j \in 1 .. (i - 1) - 1 + 1 : a[j] = w[1 + j - 1]
    BY <2>1, <2>2, SubSeqProperties
  <2> HIDE DEF a
  <2>4. \A j \in 1 .. i - 1 : j \in 1 .. (i - 1) - 1 + 1 /\ 1 + j - 1 = j BY <1>1
  <2> QED BY <1>1, <2>3, <2>4
<1>4. /\ b \in Seq(Message) /\ Len(b) = Len(w) - i
      /\ \A j \in 1 .. Len(w) - i : b[j] = w[i + j]
  <2>1. \A j \in i + 1 .. Len(w) : w[j] \in Message BY <1>1, <1>2
  <2>2. i + 1 \in Int /\ Len(w) \in Int BY <1>1
  <2>3. /\ b \in Seq(Message)
        /\ Len(b) = IF i + 1 <= Len(w) THEN Len(w) - (i + 1) + 1 ELSE 0
        /\ \A j \in 1 .. Len(w) - (i + 1) + 1 : b[j] = w[(i + 1) + j - 1]
    BY <2>1, <2>2, SubSeqProperties
  <2> HIDE DEF b
  <2>4. \A j \in 1 .. Len(w) - i : j \in 1 .. Len(w) - (i + 1) + 1 /\ (i + 1) + j - 1 = i + j
    BY <1>1
  <2> QED BY <1>1, <2>3, <2>4
<1> HIDE DEF a, b
<1>5. /\ u \in Seq(Message) /\ Len(u) = Len(a) + Len(b)
      /\ \A j \in 1 .. Len(a) + Len(b) : u[j] = IF j <= Len(a) THEN a[j] ELSE b[j - Len(a)]
  BY <1>3, <1>4, ConcatProperties
<1> HIDE DEF u
<1>6. Len(u) = Len(w) - 1 BY <1>1, <1>3, <1>4, <1>5
<1>7. ASSUME NEW j \in 1 .. Len(u) PROVE u[j] = IF j < i THEN w[j] ELSE w[j + 1]
  <2>1. CASE j < i
    <3>1. j \in 1 .. i - 1 /\ j <= Len(a) /\ j \in 1 .. Len(a) + Len(b)
      BY <1>1, <1>3, <1>5, <2>1
    <3> QED BY <1>3, <1>5, <2>1, <3>1
  <2>2. CASE ~(j < i)
    <3>1. ~(j <= Len(a)) /\ j \in 1 .. Len(a) + Len(b) BY <1>1, <1>3, <1>5, <2>2
    <3> DEFINE k == j - Len(a)
    <3>2. k \in 1 .. Len(w) - i /\ i + k = j + 1 BY <1>1, <1>3, <1>6, <2>2
    <3>3. u[j] = b[k] BY <1>5, <3>1
    <3> HIDE DEF k
    <3>4. b[k] = w[i + k] BY <1>4, <3>2
    <3> QED BY <2>2, <3>2, <3>3, <3>4
  <2> QED BY <2>1, <2>2
<1>8. u \in Seq(Message) /\ Len(u) = Len(w) - 1
      /\ \A j \in 1 .. Len(u) : u[j] = IF j < i THEN w[j] ELSE w[j + 1]
  BY <1>5, <1>6, <1>7
<1> QED BY <1>8 DEF u, a, b, Without

(* A message that may be merged into the next one tells nothing more. *)
LEMMA MergeTells ==
  ASSUME clock \in Times, NEW w \in Seq(Message), NEW i \in 1 .. Len(w), i < Len(w),
         Mergeable(w[i], w[i + 1]), NEW v, NEW s
  PROVE  LET u == Without(w, i)
         IN  /\ w # <<>> /\ u # <<>> /\ u[Len(u)] = w[Len(w)]
             /\ Told(w, v, s, clock) => Told(u, v, s, clock)
<1> DEFINE u == Without(w, i)
<1>1. Len(w) \in Nat /\ i \in Nat /\ i >= 1 /\ i < Len(w) BY LenProperties
<1>2. /\ u \in Seq(Message) /\ Len(u) = Len(w) - 1
      /\ \A j \in 1 .. Len(u) : u[j] = IF j < i THEN w[j] ELSE w[j + 1]
  BY WithoutFields
<1> HIDE DEF u
<1>3. w # <<>> /\ u # <<>> BY <1>1, <1>2, EmptySeq
<1>4. u[Len(u)] = w[Len(w)]
  <2>1. Len(u) \in 1 .. Len(u) /\ ~(Len(u) < i) /\ Len(u) + 1 = Len(w) BY <1>1, <1>2
  <2> QED BY <1>2, <2>1
<1>5. w[i + 1].at > clock => w[i].at > clock
  <2>1. i + 1 \in 1 .. Len(w) BY <1>1
  <2>2. w[i + 1] \in Message BY <2>1, ElementOfSeq
  <2>3. w[i + 1].at \in Times BY <2>2 DEF Message
  <2> QED BY <2>3, NeverLater DEF Mergeable
<1>6. i \in 1 .. Len(u) /\ u[i] = w[i + 1]
  <2>1. i \in 1 .. Len(u) /\ ~(i < i) BY <1>1, <1>2
  <2> QED BY <1>2, <2>1
<1>7. ASSUME NEW k \in 0 .. Len(u), \A j \in k + 1 .. Len(u) : u[j].at > clock
      PROVE  /\ k < i => \A j \in k + 1 .. Len(w) : w[j].at > clock
             /\ k >= i => \A j \in k + 2 .. Len(w) : w[j].at > clock
  <2>1. ASSUME NEW j \in k + 1 .. Len(w), k < i PROVE w[j].at > clock
    <3>1. CASE j < i
      <4>1. j \in k + 1 .. Len(u) /\ j \in 1 .. Len(u) BY <1>1, <1>2, <2>1, <3>1
      <4>2. u[j] = w[j] BY <1>2, <3>1, <4>1
      <4>3. u[j].at > clock BY <1>7, <4>1
      <4> QED BY <4>2, <4>3
    <3>2. CASE j = i
      <4>1. i \in k + 1 .. Len(u) BY <1>1, <1>2, <2>1
      <4>2. u[i].at > clock BY <1>7, <4>1
      <4> QED BY <1>5, <1>6, <3>2, <4>2
    <3>3. CASE j > i
      <4> DEFINE l == j - 1
      <4>1. l \in k + 1 .. Len(u) /\ l \in 1 .. Len(u) /\ ~(l < i) /\ l + 1 = j
        BY <1>1, <1>2, <2>1, <3>3
      <4> HIDE DEF l
      <4>2. u[l] = w[j] BY <1>2, <4>1
      <4>3. u[l].at > clock BY <1>7, <4>1
      <4> QED BY <4>2, <4>3
    <3> QED BY <1>1, <2>1, <3>1, <3>2, <3>3
  <2>2. ASSUME NEW j \in k + 2 .. Len(w), k >= i PROVE w[j].at > clock
    <3> DEFINE l == j - 1
    <3>1. l \in k + 1 .. Len(u) /\ l \in 1 .. Len(u) /\ ~(l < i) /\ l + 1 = j
      BY <1>1, <1>2, <2>2
    <3> HIDE DEF l
    <3>2. u[l] = w[j] BY <1>2, <3>1
    <3>3. u[l].at > clock BY <1>7, <3>1
    <3> QED BY <3>2, <3>3
  <2> QED BY <2>1, <2>2
<1>8. ASSUME Underway(w, v, s, clock) PROVE Underway(u, v, s, clock)
  <2>1. ASSUME NEW k \in 1 .. Len(u), LastCurrent(u, k, clock) PROVE u[k].state = s.cur
    <3>1. k \in 0 .. Len(u) /\ \A j \in k + 1 .. Len(u) : u[j].at > clock
      BY <1>2, <2>1 DEF LastCurrent
    <3>2. CASE k < i
      <4>1. u[k] = w[k] /\ k \in 1 .. Len(w) BY <1>1, <1>2, <3>2
      <4>2. LastCurrent(w, k, clock) BY <1>7, <2>1, <3>1, <3>2, <4>1 DEF LastCurrent
      <4> QED BY <1>8, <4>1, <4>2 DEF Underway
    <3>3. CASE ~(k < i)
      <4> DEFINE l == k + 1
      <4>1. u[k] = w[l] /\ l \in 1 .. Len(w) /\ k >= i /\ l + 1 = k + 2
        BY <1>1, <1>2, <3>3
      <4> HIDE DEF l
      <4>2. LastCurrent(w, l, clock) BY <1>7, <2>1, <3>1, <4>1 DEF LastCurrent
      <4> QED BY <1>8, <4>1, <4>2 DEF Underway
    <3> QED BY <3>2, <3>3
  <2>2. NoneCurrent(u, clock) => NoneCurrent(w, clock)
    <3> SUFFICES ASSUME NoneCurrent(u, clock) PROVE NoneCurrent(w, clock)
      OBVIOUS
    <3>1. 0 \in 0 .. Len(u) /\ 0 < i /\ 0 + 1 = 1 BY <1>1, <1>2
    <3>2. \A j \in 0 + 1 .. Len(u) : u[j].at > clock BY <3>1 DEF NoneCurrent
    <3>3. \A j \in 0 + 1 .. Len(w) : w[j].at > clock BY <1>7, <3>1, <3>2
    <3> QED BY <3>1, <3>3 DEF NoneCurrent
  <2> QED BY <1>4, <1>8, <2>1, <2>2 DEF Underway
<1> QED BY <1>3, <1>4, <1>8 DEF Told, u

LEMMA MergeAgrees ==
  ASSUME IInv, Agreeing, NEW c \in Clients, NEW i \in 1 .. Len(wire[c]), Merge(c, i)
  PROVE  Agreeing'
<1> DEFINE w == wire[c]
           v == view[c]
           u == Without(w, i)
           s == group[place[c]]
           p == Prom(s, clock)
<1>1. /\ i < Len(w) /\ Mergeable(w[i], w[i + 1]) /\ Still /\ view' = view
      /\ wire' = [wire EXCEPT ![c] = u]
  BY DEF Merge, Without
<1>2. clock \in Times /\ w \in Seq(Message) BY Typed
<1>3. /\ w # <<>> /\ u # <<>> /\ u[Len(u)] = w[Len(w)]
      /\ Told(w, Shown(v, clock), p, clock) => Told(u, Shown(v, clock), p, clock)
  BY <1>1, <1>2, MergeTells
<1> HIDE DEF u
<1>4. ASSUME ~slow, c \in joined PROVE Informs(c, u, v, s, clock)
  <2>1. Informs(c, w, v, s, clock) BY <1>4 DEF Agreeing, AllInformed, Informed
  <2>2. Paid(w, v, p) => Paid(u, v, p) BY <1>3 DEF Paid
  <2> HIDE DEF p, w, v
  <2> QED BY <1>3, <2>1, <2>2 DEF Informs, p, s
<1>5. ViewKept(c, v) BY DEF Agreeing, ViewsKept
<1> QED BY <1>1, <1>4, <1>5, ViewAgrees

LEMMA ApplyPendingAgrees ==
  ASSUME IInv, Agreeing, NEW c \in Clients, ApplyPending(c)
  PROVE  Agreeing'
<1> DEFINE w == wire[c]
           v == view[c]
           u == Shown(v, clock)
           s == group[place[c]]
<1>1. clock \in Times /\ v \in ViewType BY Typed
<1>2. v.at <= clock /\ Still /\ wire' = wire BY DEF ApplyPending
<1>3. v.at # Never /\ ~(v.at > clock) BY <1>1, <1>2, NeverLater DEF ViewType
<1>4. view' = [view EXCEPT ![c] = u]
  <2> DEFINE x == [v EXCEPT !.cur = v.pend, !.pend = Blank, !.at = Never, !.early = FALSE]
  <2>1. view' = [view EXCEPT ![c] = x] BY DEF ApplyPending
  <2>2. u = x BY <1>3 DEF Shown
  <2> HIDE DEF x
  <2> QED BY <2>1, <2>2
<1>5. /\ u.at > clock /\ Shown(u, clock) = u
      /\ v.at <= clock => u.cur = v.pend /\ u.pend = Blank /\ u.at = Never /\ ~u.early
  BY <1>1, ShownFields
<1>6. c \notin Legacy BY <1>3 DEF Agreeing, ViewsKept, ViewKept
<1> HIDE DEF u
<1>7. ASSUME ~slow, c \in joined PROVE Informs(c, w, u, s, clock)
  <2>1. Informs(c, w, v, s, clock) BY <1>7 DEF Agreeing, AllInformed, Informed
  <2>2. Told(w, u, Prom(s, clock), clock) BY <1>6, <2>1 DEF Informs, u
  <2> QED BY <1>5, <1>6, <2>2 DEF Informs
<1>8. ViewKept(c, u) BY <1>2, <1>5 DEF ViewKept
<1> QED BY <1>2, <1>4, <1>7, <1>8, ViewAgrees

LEMMA SynchronizeAgrees ==
  ASSUME IInv, Agreeing, NEW c \in Clients, Synchronize(c)
  PROVE  Agreeing'
<1> DEFINE w == wire[c]
           v == view[c]
           u == [v EXCEPT !.synced = TRUE]
           s == group[place[c]]
<1>1. clock \in Times /\ v \in ViewType BY Typed
<1>2. Still /\ wire' = wire /\ view' = [view EXCEPT ![c] = u] BY DEF Synchronize
<1>3. u \in ViewType /\ u.cur = v.cur /\ u.pend = v.pend /\ u.at = v.at /\ u.early = v.early
  BY <1>1 DEF ViewType
<1> HIDE DEF u
<1>4. ASSUME ~slow, c \in joined PROVE Informs(c, w, u, s, clock)
  <2>1. Informs(c, w, v, s, clock) BY <1>4 DEF Agreeing, AllInformed, Informed
  <2> DEFINE x == Shown(v, clock)
             y == Shown(u, clock)
  <2>2. y.cur = x.cur /\ y.pend = x.pend /\ y.at = x.at /\ (y.early <=> x.early)
    <3>1. CASE v.at > clock
      <4>1. x = v /\ y = u BY <1>1, <1>3, <3>1, ShownFields
      <4> HIDE DEF x, y
      <4> QED BY <1>3, <4>1
    <3>2. CASE v.at <= clock
      <4>1. x.cur = v.pend /\ x.pend = Blank /\ x.at = Never /\ ~x.early
        BY <1>1, <3>2, ShownFields
      <4>2. u.at <= clock BY <1>3, <3>2
      <4>3. y.cur = u.pend /\ y.pend = Blank /\ y.at = Never /\ ~y.early
        BY <1>1, <1>3, <4>2, ShownFields
      <4> HIDE DEF x, y
      <4> QED BY <1>3, <4>1, <4>3
    <3>3. v.at \in Times \cup {Never} BY <1>1 DEF ViewType
    <3> QED BY <1>1, <3>1, <3>2, <3>3, NeverLater
  <2> HIDE DEF x, y
  <2>3. \A p : Told(w, x, p, clock) => Told(w, y, p, clock)
    BY <2>2 DEF Told, AtRest, Underway
  <2>4. \A p : Paid(w, v, p) => Paid(w, u, p)
    BY <1>3 DEF Paid
  <2> QED BY <2>1, <2>3, <2>4 DEF Informs, x, y
<1>5. ViewKept(c, v) BY DEF Agreeing, ViewsKept
<1>6. ViewKept(c, u) BY <1>3, <1>5 DEF ViewKept
<1> QED BY <1>2, <1>4, <1>6, ViewAgrees

-----------------------------------------------------------------------------
(* Time passes. *)

(* A timer that is not later than MaxLag announces in time. *)
LEMMA KeptLater ==
  ASSUME NEW t \in Times, t + 1 \in Times, NEW s, GroupOK(s, t), GroupKept(s, t),
         s.timer # "none" => t < s.due + MaxLag
  PROVE  GroupKept(s, t + 1)
<1>1. s.at \in Times \cup {Never} BY DEF GroupOK, GroupType
<1>2. t \in Nat /\ Never \in Nat /\ Times \subseteq Nat BY NeverLater
<1>3. s.timer = "announce" => s.at > t + 1
  <2> SUFFICES ASSUME s.timer = "announce" PROVE s.at > t + 1
    OBVIOUS
  <2>1. s.at # Never BY DEF GroupKept
  <2>2. s.due = s.at - MaxLead /\ s.at \in Nat BY <1>1, <1>2, <2>1 DEF GroupOK
  <2>3. t < s.at - MaxLead + MaxLag BY <2>2
  <2> QED BY <1>2, <2>2, <2>3, StateAssumption
<1>4. s.at > t + 1 => s.at > t
  <2>1. s.at \in Nat BY <1>1, <1>2
  <2> QED BY <1>2, <2>1
<1>5. s.timer = "due" /\ s.at = Never => s.due <= t + 1
  <2> SUFFICES ASSUME s.timer = "due", s.at = Never PROVE s.due <= t + 1
    OBVIOUS
  <2>1. s.due <= t BY DEF GroupKept
  <2>2. s.due \in Int BY DEF GroupOK, GroupType, Times
  <2> QED BY <1>2, <2>1, <2>2
<1> QED BY <1>3, <1>4, <1>5 DEF GroupKept

(* A client whose wire is empty and a group that reach the time of a state. *)
LEMMA AtRestLater ==
  ASSUME NEW t \in Times, t + 1 \in Times, NEW v \in ViewType, v.at > t,
         NEW s \in GroupType, GroupKept(s, t), GroupKept(s, t + 1),
         AtRest(v, Prom(s, t))
  PROVE  AtRest(Shown(v, t + 1), Prom(s, t + 1))
<1> DEFINE p == Prom(s, t)
           q == Prom(s, t + 1)
           x == Shown(v, t + 1)
<1>1. /\ p.at > t /\ p.sent = s.sent
      /\ s.at > t => p = s
      /\ s.at <= t => p.cur = s.pend /\ p.pend = Blank /\ p.at = Never
  BY PromFields
<1>2. /\ q.sent = s.sent
      /\ s.at > t + 1 => q = s
      /\ s.at <= t + 1 => q.cur = s.pend /\ q.pend = Blank /\ q.at = Never
  BY PromFields
<1>3. /\ v.at > t + 1 => x = v
      /\ v.at <= t + 1 => x.cur = v.pend /\ x.pend = Blank /\ x.at = Never /\ ~x.early
  BY ShownFields
<1>4. AtRest(v, p) OBVIOUS
<1> HIDE DEF p, q, x
<1>5. s.at \in Times \cup {Never} /\ v.at \in Times \cup {Never} BY DEF GroupType, ViewType
<1>6. Never \in Nat /\ Never > t + 1 /\ Times \subseteq Nat /\ t \in Nat BY NeverLater
<1>7. s.at \in Nat /\ v.at \in Nat BY <1>5, <1>6
<1>8. CASE s.at <= t
  <2>1. s.at <= t + 1 BY <1>6, <1>7, <1>8
  <2>2. q.cur = p.cur /\ q.pend = p.pend /\ q.at = p.at /\ q.sent = p.sent /\ p.at = Never
    BY <1>1, <1>2, <1>8, <2>1
  <2>3. v.at = Never
    BY <1>4, <1>6, <1>7, <2>2 DEF AtRest
  <2>4. x = v BY <1>3, <1>6, <2>3
  <2> QED BY <1>4, <2>2, <2>4 DEF AtRest, x, q
<1>9. CASE s.at > t + 1
  <2>1. s.at > t BY <1>6, <1>7, <1>9
  <2>2. q = s /\ p = s BY <1>1, <1>2, <1>9, <2>1
  <2>3. v.at > t + 1
    <3>1. CASE v.at = Never BY <1>6, <3>1
    <3>2. CASE v.at # Never
      <4>1. v.at = s.at BY <1>4, <2>2, <3>2 DEF AtRest
      <4> QED BY <1>9, <4>1
    <3> QED BY <3>1, <3>2
  <2>4. x = v BY <1>3, <2>3
  <2> QED BY <1>4, <2>2, <2>4 DEF x, q
<1>10. CASE s.at = t + 1
  <2>1. s.at > t /\ s.at <= t + 1 /\ ~(s.at > t + 1) /\ s.at # Never BY <1>6, <1>7, <1>10
  <2>2. p = s BY <1>1, <2>1
  <2>3. q.cur = s.pend /\ q.pend = Blank /\ q.at = Never /\ q.sent = s.sent BY <1>2, <2>1
  <2>4. s.sent
    <3>1. ~(s.timer = "announce") BY <2>1 DEF GroupKept
    <3> QED BY <2>1, <3>1 DEF GroupKept
  <2>5. CASE v.at = Never
    <3>1. x = v BY <1>3, <1>6, <2>5
    <3>2. v.early BY <1>4, <2>1, <2>2, <2>4, <2>5 DEF AtRest
    <3>3. AtRest(x, q) BY <2>5, <3>1, <3>2 DEF AtRest
    <3> QED BY <3>3 DEF x, q
  <2>6. CASE v.at # Never
    <3>1. v.pend = s.pend /\ v.at = s.at BY <1>4, <2>2, <2>6 DEF AtRest
    <3>2. x.cur = v.pend /\ x.pend = Blank /\ x.at = Never /\ ~x.early
      BY <1>3, <2>1, <3>1
    <3>3. AtRest(x, q) BY <2>3, <3>1, <3>2 DEF AtRest
    <3> QED BY <3>3 DEF x, q
  <2> QED BY <2>5, <2>6
<1> QED BY <1>6, <1>7, <1>8, <1>9, <1>10

(* A legacy client is not told yet, but then the timer is due. *)
LEMMA PaidLater ==
  ASSUME NEW t \in Times, t + 1 \in Times, NEW w, NEW v,
         NEW s \in GroupType, GroupKept(s, t), GroupKept(s, t + 1),
         Paid(w, v, Prom(s, t))
  PROVE  Paid(w, v, Prom(s, t + 1))
<1> DEFINE p == Prom(s, t)
           q == Prom(s, t + 1)
<1>1. /\ p.timer = s.timer
      /\ s.at > t => p = s
      /\ s.at <= t => p.cur = s.pend /\ p.pend = Blank /\ p.at = Never
  BY PromFields
<1>2. /\ q.timer = s.timer
      /\ s.at > t + 1 => q = s
      /\ s.at <= t + 1 => q.cur = s.pend /\ q.pend = Blank /\ q.at = Never
  BY PromFields
<1>3. Paid(w, v, p) OBVIOUS
<1> HIDE DEF p, q
<1>4. s.at \in Times \cup {Never} BY DEF GroupType
<1>5. Never \in Nat /\ Never > t + 1 /\ Times \subseteq Nat /\ t \in Nat BY NeverLater
<1>6. s.at \in Nat BY <1>4, <1>5
<1>7. CASE s.at <= t
  <2>1. s.at <= t + 1 BY <1>5, <1>6, <1>7
  <2>2. q.cur = p.cur /\ q.at = p.at /\ q.timer = p.timer BY <1>1, <1>2, <1>7, <2>1
  <2> QED BY <1>3, <2>2 DEF Paid, q
<1>8. CASE s.at > t + 1
  <2>1. s.at > t BY <1>5, <1>6, <1>8
  <2>2. q = p BY <1>1, <1>2, <1>8, <2>1
  <2> QED BY <1>3, <2>2 DEF q
<1>9. CASE s.at = t + 1
  <2>1. s.at > t /\ s.at <= t + 1 /\ ~(s.at > t + 1) /\ s.at # Never BY <1>5, <1>6, <1>9
  <2>2. s.timer = "due"
    <3>1. ~(s.timer = "announce") BY <2>1 DEF GroupKept
    <3>2. s.sent BY <2>1, <3>1 DEF GroupKept
    <3> QED BY <2>1, <3>2 DEF GroupKept
  <2>3. q.timer = "due" /\ q.at = Never BY <1>2, <2>1, <2>2
  <2> QED BY <2>3 DEF Paid, q
<1> QED BY <1>5, <1>6, <1>7, <1>8, <1>9

LEMMA TickAgrees ==
  ASSUME IInv, Agreeing, Tick
  PROVE  Agreeing'
<1> DEFINE t == clock
<1>1. /\ clock' = t + 1 /\ group' = group /\ place' = place /\ joined' = joined
      /\ wire' = wire /\ view' = view /\ slow' = slow
  BY DEF Tick
<1>2. t \in Times /\ t + 1 \in Times
  BY Typed, StateAssumption DEF Tick, Times
<1>3. \A g \in Groups : /\ group[g] \in GroupType /\ GroupOK(group[g], t)
                        /\ GroupKept(group[g], t)
                        /\ group[g].timer # "none" => t < group[g].due + MaxLag
  BY Typed DEF Agreeing, GroupsKept, Tick
<1>4. \A c \in Clients : view[c].at > t /\ (slow \/ wire[c] = <<>>) BY DEF Tick
<1> HIDE DEF t
<1>5. \A g \in Groups : GroupKept(group[g], t + 1)
  BY <1>2, <1>3, KeptLater
<1>6. GroupsKept' BY <1>1, <1>5 DEF GroupsKept
<1>7. ViewsKept' BY <1>1 DEF Agreeing, ViewsKept
<1>8. ASSUME ~slow, NEW c \in joined PROVE Informs(c, wire[c], view[c], group[place[c]], t + 1)
  <2> DEFINE v == view[c]
             s == group[place[c]]
  <2>1. c \in Clients /\ v \in ViewType /\ s \in GroupType /\ v.at > t /\ wire[c] = <<>>
        /\ GroupKept(s, t) /\ GroupKept(s, t + 1)
    BY <1>3, <1>4, <1>5, <1>8, Typed
  <2>2. Informs(c, <<>>, v, s, t)
    BY <1>8, <2>1 DEF Agreeing, AllInformed, Informed, t
  <2> HIDE DEF v, s
  <2>3. CASE c \in Legacy
    <3>1. Paid(<<>>, v, Prom(s, t)) BY <2>2, <2>3 DEF Informs
    <3>2. Paid(<<>>, v, Prom(s, t + 1)) BY <1>2, <2>1, <3>1, PaidLater
    <3> QED BY <2>1, <2>3, <3>2 DEF Informs, v, s
  <2>4. CASE c \notin Legacy
    <3>1. Shown(v, t) = v BY <2>1 DEF Shown
    <3>2. AtRest(v, Prom(s, t)) BY <2>2, <2>4, <3>1 DEF Informs, Told
    <3>3. AtRest(Shown(v, t + 1), Prom(s, t + 1)) BY <1>2, <2>1, <3>2, AtRestLater
    <3> QED BY <2>1, <2>4, <3>3 DEF Informs, Told, v, s
  <2> QED BY <2>3, <2>4
<1>9. AllInformed' BY <1>1, <1>8 DEF AllInformed, Informed
<1> QED BY <1>6, <1>7, <1>9 DEF Agreeing

-----------------------------------------------------------------------------
LEMMA InitAgrees == Init => Agreeing
<1> SUFFICES ASSUME Init PROVE Agreeing
  OBVIOUS
<1>1. clock \in Times /\ clock = 0 BY StateAssumption DEF Init, Times
<1>2. GroupKept(Holding(Blank), clock)
  <2>1. Blank \in States \cup {Blank} OBVIOUS
  <2> QED BY <1>1, <2>1, HoldingKept
<1>3. GroupsKept BY <1>2 DEF Init, GroupsKept
<1>4. \A c \in Clients : ViewKept(c, NewView(c)) BY DEF NewView, ViewKept
<1>5. ViewsKept BY <1>4 DEF Init, ViewsKept
<1>6. AllInformed BY DEF Init, AllInformed
<1> QED BY <1>3, <1>5, <1>6 DEF Agreeing

LEMMA NextAgrees == IInv /\ Agreeing /\ [Next]_vars => Agreeing'
<1> SUFFICES ASSUME IInv, Agreeing, [Next]_vars PROVE Agreeing'
  OBVIOUS
<1>1. CASE Tick BY <1>1, TickAgrees
<1>2. ASSUME NEW g \in Groups, GroupStep(g) PROVE Agreeing'
  <2>1. ASSUME NEW v \in States \cup {Blank}, NEW forced \in BOOLEAN, SetState(g, v, forced)
        PROVE  Agreeing'
    BY <2>1, SetStateAgrees
  <2>2. ASSUME NEW v \in States, NEW t \in Times, Schedule(g, v, t) PROVE Agreeing'
    BY <2>2, ScheduleAgrees
  <2>3. CASE CancelScheduled(g) BY <2>3, CancelScheduledAgrees
  <2>4. CASE TimerFires(g) BY <2>4, TimerFiresAgrees
  <2> QED BY <1>2, <2>1, <2>2, <2>3, <2>4 DEF GroupStep
<1>3. ASSUME NEW c \in Clients, ClientStep(c) PROVE Agreeing'
  <2>1. CASE Connect(c) BY <2>1, ConnectAgrees
  <2>2. CASE Disconnect(c) BY <2>2, DisconnectAgrees
  <2>3. CASE Receive(c) BY <2>3, ReceiveAgrees
  <2>4. CASE ApplyPending(c) BY <2>4, ApplyPendingAgrees
  <2>5. CASE Synchronize(c) BY <2>5, SynchronizeAgrees
  <2>6. ASSUME NEW h \in Groups, Move(c, h) PROVE Agreeing' BY <2>6, MoveAgrees
  <2>7. ASSUME NEW i \in 1 .. Len(wire[c]), Merge(c, i) PROVE Agreeing'
    BY <2>7, MergeAgrees
  <2> QED BY <1>3, <2>1, <2>2, <2>3, <2>4, <2>5, <2>6, <2>7 DEF ClientStep
<1>4. CASE UNCHANGED vars
  <2>1. /\ clock' = clock /\ group' = group /\ place' = place /\ joined' = joined
        /\ wire' = wire /\ view' = view /\ slow' = slow
    BY <1>4 DEF vars
  <2> QED BY <2>1 DEF Agreeing, GroupsKept, ViewsKept, AllInformed, Informed
<1> QED BY <1>1, <1>2, <1>3, <1>4 DEF Next

(* When messages arrive before the clock moves, a client with nothing on its  *)
(* way shows what its group holds, and one that supports it holds what its    *)
(* group has announced: for any number of groups, clients and states, in any  *)
(* order of schedules, cancellations, joins, moves, merges and late timers.   *)
THEOREM ViewsAgreeHolds == Spec => []ViewsAgree
<1>1. IInv /\ Agreeing => ViewsAgree
  <2> SUFFICES ASSUME IInv, Agreeing, ~slow, NEW c \in Clients, Settled(c)
               PROVE  Agrees(c)
    BY DEF ViewsAgree
  <2> DEFINE v == view[c]
             s == group[place[c]]
             p == Promoted(s)
  <2>1. /\ c \in joined /\ wire[c] = <<>> /\ v.synced /\ ~v.early /\ v.at > clock
        /\ ~TimerDue(s)
    BY DEF Settled
  <2>2. clock \in Times /\ s \in GroupType /\ GroupKept(s, clock) /\ v \in ViewType
    BY Typed DEF Agreeing, GroupsKept
  <2>3. p = Prom(s, clock) BY PromotedProm
  <2>4. Informs(c, <<>>, v, s, clock)
    BY <2>1 DEF Agreeing, AllInformed, Informed
  <2>5. ViewKept(c, v) BY DEF Agreeing, ViewsKept
  <2>6. p.sent = s.sent /\ p.timer = s.timer /\ p.due = s.due /\ p \in GroupType
        /\ GroupKept(p, clock)
    BY <2>2, <2>3, PromFields, PromKept
  <2>7. (c \notin Legacy => IF p.sent THEN v.pend = p.pend /\ v.at = p.at ELSE v.at = Never)
        /\ v.cur = p.cur
    <3> HIDE DEF v, s, p
    <3>1. CASE c \in Legacy
      <4>1. Paid(<<>>, v, p) BY <2>3, <2>4, <3>1 DEF Informs
      <4>2. ~(p.timer = "due" /\ p.at = Never)
        <5>1. p.timer = "due" /\ p.at = Never => p.due <= clock BY <2>6 DEF GroupKept
        <5> QED BY <2>1, <2>6, <5>1 DEF TimerDue
      <4> QED BY <3>1, <4>1, <4>2 DEF Paid
    <3>2. CASE c \notin Legacy
      <4>1. Shown(v, clock) = v BY <2>1 DEF Shown
      <4>2. AtRest(v, p) BY <2>3, <2>4, <3>2, <4>1 DEF Informs, Told
      <4>3. v.cur = p.cur /\ (p.sent => v.at = p.at) BY <2>1, <4>2 DEF AtRest
      <4>4. p.sent => v.pend = p.pend
        <5>1. CASE v.at = Never BY <2>5, <2>6, <4>3, <5>1 DEF ViewKept, GroupKept
        <5>2. CASE v.at # Never BY <4>2, <5>2 DEF AtRest
        <5> QED BY <5>1, <5>2
      <4>5. ~p.sent => v.at = Never BY <4>2 DEF AtRest
      <4> QED BY <4>3, <4>4, <4>5
    <3> QED BY <3>1, <3>2
  <2> QED BY <2>7 DEF Agrees
<1>2. Init => IInv /\ Agreeing BY InitIInv, InitAgrees
<1>3. IInv /\ Agreeing /\ [Next]_vars => (IInv /\ Agreeing)'
  BY NextIInv, NextAgrees
<1> QED BY <1>1, <1>2, <1>3, PTL DEF Spec

=============================================================================
