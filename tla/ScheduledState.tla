--------------------------- MODULE ScheduledState ---------------------------
(***************************************************************************)
(* Metadata or color of a group that takes effect at a given time: what    *)
(* the group role holds and sends (server/roles/scheduled_state.py, with   *)
(* the metadata and color group roles), what the writer merges on the way  *)
(* (server/connection.py), and what each client shows                      *)
(* (client/connection.py).  The clients in Legacy are not of this          *)
(* repository: they show whatever arrives.                                 *)
(*                                                                         *)
(* A state is a value; the playback position a metadata message carries,   *)
(* which both sides extrapolate, is left out.                              *)
(***************************************************************************)
EXTENDS Integers, Sequences

CONSTANTS Groups, Clients,
          Legacy,     \* clients that do not support scheduled updates
          States,     \* metadata or palettes
          MaxLead,    \* MAX_SCHEDULED_LEAD_US
          MaxLag,     \* how late the server's loop may run a timer
          MaxTime,    \* the clock stops there
          MaxUpdates, \* bound: operations on the groups
          MaxMoves    \* bound: connections, disconnections and regroupings

Never == MaxTime + 1
Times == 0 .. MaxTime
Blank == "none"       \* no state: sent as a timestamp-only object

ASSUME StateAssumption ==
  /\ Legacy \subseteq Clients /\ Blank \notin States
  /\ MaxTime \in Nat /\ MaxLag \in Nat
  /\ MaxLead \in Nat /\ MaxLag < MaxLead  \* the loop is never blocked for that long

VARIABLES
  clock,    \* server clock; a client that is synced knows it exactly
  group,    \* what each group role holds
  place,    \* the group of each client
  joined,   \* clients connected with the role active: members of the group role
  wire,     \* server/state messages queued or in transit to each client
  view,     \* what each client shows and what it holds for later
  slow,     \* whether a message may still be on its way when the clock moves
  updates, moves

vars == <<clock, group, place, joined, wire, view, slow, updates, moves>>

Message == [state: States \cup {Blank}, at: Times]
Msg(v, t) == [state |-> v, at |-> t]

(* ScheduledStateGroupRole: the current and the pending state, whether the   *)
(* pending one was sent, and the timer with its deadline.                    *)
GroupType ==
  [cur: States \cup {Blank}, pend: States \cup {Blank}, at: Times \cup {Never},
   sent: BOOLEAN, timer: {"none", "announce", "due"}, due: Times, msg: Message]

Holding(v) == [cur |-> v, pend |-> Blank, at |-> Never, sent |-> FALSE,
               timer |-> "none", due |-> 0, msg |-> Msg(Blank, 0)]

(* A client's current and scheduled update.  early, history: it shows an       *)
(* update ahead of its time, because its clock was not synchronized.           *)
ViewType ==
  [cur: States \cup {Blank}, pend: States \cup {Blank}, at: Times \cup {Never},
   synced: BOOLEAN, early: BOOLEAN]

NewView(c) == [cur |-> Blank, pend |-> Blank, at |-> Never,
               synced |-> c \in Legacy, early |-> FALSE]

TypeOK ==
  /\ clock \in Times
  /\ group \in [Groups -> GroupType]
  /\ place \in [Clients -> Groups]
  /\ joined \subseteq Clients
  /\ wire \in [Clients -> Seq(Message)]
  /\ view \in [Clients -> ViewType]
  /\ slow \in BOOLEAN
  /\ updates \in Nat /\ moves \in Nat

Init ==
  /\ clock = 0
  /\ group = [g \in Groups |-> Holding(Blank)]
  /\ place \in [Clients -> Groups]
  /\ joined = {}
  /\ wire = [c \in Clients |-> <<>>]
  /\ view = [c \in Clients |-> NewView(c)]
  /\ slow \in BOOLEAN
  /\ updates = 0 /\ moves = 0

-----------------------------------------------------------------------------
(* The group role. *)

Members(g) == {c \in joined : place[c] = g}

Send(w, S, m) == [c \in Clients |-> IF c \in S THEN Append(w[c], m) ELSE w[c]]

(* current: reading the state promotes a pending one that is due. *)
Promoted(s) ==
  IF s.at > clock THEN s ELSE [s EXCEPT !.cur = s.pend, !.pend = Blank, !.at = Never]

MayUpdate == updates < MaxUpdates /\ updates' = updates + 1

Asleep == UNCHANGED <<clock, place, joined, view, slow, moves>>

(* Mutant: a timer that is armed stays armed. *)
ApplyStateKeepsTimer(g, v) ==
  /\ group' = [group EXCEPT ![g] = [@ EXCEPT !.cur = v, !.pend = Blank, !.at = Never,
                                             !.sent = FALSE]]
  /\ wire' = Send(wire, Members(g), Msg(v, clock))

(* _apply: v becomes current, nothing stays scheduled, and members are told. *)
ApplyState(g, v) ==
  /\ group' = [group EXCEPT ![g] = Holding(v)]
  /\ wire' = Send(wire, Members(g), Msg(v, clock))

(* set_metadata, update, clear, set_color; forced: seek and reset_progress.  *)
(* An unchanged state is not sent again, unless it cancels a scheduled one.  *)
SetState(g, v, forced) ==
  LET s == Promoted(group[g])
  IN  /\ MayUpdate
      /\ forced => v # Blank /\ s.cur # Blank
      /\ IF s.at = Never /\ v = s.cur /\ ~forced
         THEN group' = [group EXCEPT ![g] = s] /\ wire' = wire
         ELSE ApplyState(g, v)
      /\ Asleep

CancelScheduled(g) ==
  LET s == Promoted(group[g])
  IN  /\ MayUpdate
      /\ IF s.at # Never /\ s.sent THEN ApplyState(g, s.cur)
         ELSE /\ group' = [group EXCEPT ![g] = IF s.at = Never THEN s ELSE Holding(s.cur)]
              /\ wire' = wire
      /\ Asleep

(* _send_scheduled, from the state s and the messages w sent before. *)
Announce(g, s, w) ==
  /\ group' = [group EXCEPT ![g] = [s EXCEPT !.sent = TRUE, !.timer = "due", !.due = s.at,
                                             !.msg = Msg(s.pend, s.at)]]
  /\ wire' = Send(w, Members(g) \ Legacy, Msg(s.pend, s.at))

(* Mutant: a state scheduled again further ahead is not restated. *)
ScheduleWithoutRestating(g, v, t) ==
  LET s == Promoted(group[g])
      n == [Holding(s.cur) EXCEPT !.pend = v, !.at = t]
  IN  /\ MayUpdate /\ t > clock
      /\ IF t - MaxLead <= clock THEN Announce(g, n, wire)
         ELSE /\ group' = [group EXCEPT ![g] = [n EXCEPT !.timer = "announce", !.due = t - MaxLead]]
              /\ wire' = wire
      /\ Asleep

(* Mutant: the announcement always waits for the timer. *)
ScheduleOnTimer(g, v, t) ==
  LET n == [Holding(Promoted(group[g]).cur) EXCEPT !.pend = v, !.at = t]
  IN  /\ MayUpdate /\ t > clock
      /\ group' = [group EXCEPT ![g] = [n EXCEPT !.timer = "announce", !.due = t - MaxLead]]
      /\ wire' = wire
      /\ Asleep

(* _schedule.  Legacy clients are still owed a state that has become current *)
(* before its timer fired; the others hold a replaced state until they get   *)
(* the new one, or the current one when the new one is too far ahead.        *)
Schedule(g, v, t) ==
  LET s        == Promoted(group[g])
      replaced == s.sent /\ s.at # Never
      owed     == s.sent /\ s.at = Never /\ s.timer # "none"
      paid     == IF owed THEN Send(wire, Members(g) \cap Legacy, Msg(s.cur, clock)) ELSE wire
      n        == [Holding(s.cur) EXCEPT !.pend = v, !.at = t]
  IN  /\ MayUpdate /\ t > clock
      /\ IF t - MaxLead <= clock THEN Announce(g, n, paid)
         ELSE /\ group' = [group EXCEPT ![g] = [n EXCEPT !.timer = "announce", !.due = t - MaxLead]]
              /\ wire' = IF replaced THEN Send(paid, Members(g), Msg(s.cur, clock)) ELSE paid
      /\ Asleep

TimerDue(s) == s.timer # "none" /\ s.due <= clock

(* The timer fires: announce the pending state, unless it is current already, *)
(* or give it to the legacy clients now that it takes effect.                 *)
TimerFires(g) ==
  LET s    == group[g]
      idle == [s EXCEPT !.timer = "none"]
  IN  /\ TimerDue(s)
      /\ CASE s.timer = "announce" /\ s.at # Never -> Announce(g, s, wire)
           [] s.timer = "announce" /\ s.at = Never ->
                group' = [group EXCEPT ![g] = idle] /\ wire' = wire
           [] s.timer = "due" ->
                /\ group' = [group EXCEPT ![g] = idle]
                /\ wire' = Send(wire, Members(g) \cap Legacy, s.msg)
      /\ Asleep /\ UNCHANGED updates

-----------------------------------------------------------------------------
(* Membership. *)

MayMove == moves < MaxMoves /\ moves' = moves + 1

(* Mutant: a client that joins is told what is not announced yet. *)
WelcomeAll(c, s) ==
  IF s.at # Never /\ c \notin Legacy
  THEN <<Msg(s.cur, clock), Msg(s.pend, s.at)>>
  ELSE <<Msg(s.cur, clock)>>

(* on_member_join: the current state, then a scheduled one already sent.     *)
Welcome(c, s) ==
  IF s.at # Never /\ s.sent /\ c \notin Legacy
  THEN <<Msg(s.cur, clock), Msg(s.pend, s.at)>>
  ELSE <<Msg(s.cur, clock)>>

(* The client connects, or its role is activated. *)
Connect(c) ==
  LET g == place[c]
  IN  /\ MayMove /\ c \notin joined
      /\ joined' = joined \cup {c}
      /\ group' = [group EXCEPT ![g] = Promoted(@)]
      /\ wire' = [wire EXCEPT ![c] = Welcome(c, Promoted(group[g]))]
      /\ UNCHANGED <<clock, place, view, slow, updates>>

(* The connection ends, with what was on its way; the next one starts anew. *)
Disconnect(c) ==
  /\ MayMove /\ c \in joined
  /\ joined' = joined \ {c}
  /\ wire' = [wire EXCEPT ![c] = <<>>]
  /\ view' = [view EXCEPT ![c] = NewView(c)]
  /\ UNCHANGED <<clock, group, place, slow, updates>>

(* The client moves to another group by way of a group of its own; a group   *)
(* without clients is deleted, and a new one starts without state.           *)
Move(c, h) ==
  LET g     == place[c]
      there == Promoted(group[h])
      alone == \A x \in Clients \ {c} : place[x] # g
  IN  /\ MayMove /\ h # g
      /\ place' = [place EXCEPT ![c] = h]
      /\ group' = [group EXCEPT ![g] = IF alone THEN Holding(Blank) ELSE @,
                                ![h] = IF c \in joined THEN there ELSE @]
      /\ wire' = IF c \in joined
                 THEN [wire EXCEPT ![c] = @ \o <<Msg(Blank, clock)>> \o Welcome(c, there)]
                 ELSE wire
      /\ UNCHANGED <<clock, joined, view, slow, updates>>

-----------------------------------------------------------------------------
(* The way to a client, and the client. *)

Still == UNCHANGED <<clock, group, place, joined, slow, updates, moves>>

(* _merge_state_messages: a scheduled state is not merged over a current one. *)
Mergeable(old, new) == old.at > clock \/ new.at <= clock

(* The writer takes the i-th message and the next one, both still queued, as *)
(* one: the later state replaces the earlier.  It may also find the earlier  *)
(* one alone in the queue.                                                   *)
Merge(c, i) ==
  /\ i < Len(wire[c]) /\ Mergeable(wire[c][i], wire[c][i + 1])
  /\ wire' = [wire EXCEPT ![c] = SubSeq(@, 1, i - 1) \o SubSeq(@, i + 1, Len(@))]
  /\ Still /\ UNCHANGED view

(* _handle_server_state: hold a scheduled update, show any other; before its  *)
(* clock is synchronized the client shows either at once.                     *)
TakeMessage(c, v, m) ==
  LET discarded == [v EXCEPT !.pend = Blank, !.at = Never]
  IN  IF c \notin Legacy /\ v.synced /\ m.at > clock
      THEN [discarded EXCEPT !.pend = m.state, !.at = m.at]
      ELSE [discarded EXCEPT !.cur = m.state, !.early = c \notin Legacy /\ m.at > clock]

(* A client's timer runs on time, before a message is handled. *)
Receive(c) ==
  /\ wire[c] # <<>> /\ view[c].at > clock
  /\ wire' = [wire EXCEPT ![c] = Tail(@)]
  /\ view' = [view EXCEPT ![c] = TakeMessage(c, @, Head(wire[c]))]
  /\ Still

(* _apply_pending_state *)
ApplyPending(c) ==
  /\ view[c].at <= clock
  /\ view' = [view EXCEPT ![c].cur = view[c].pend, ![c].pend = Blank, ![c].at = Never,
                          ![c].early = FALSE]
  /\ Still /\ UNCHANGED wire

(* The client's first time measurement: from here on it knows the clock. *)
Synchronize(c) ==
  /\ c \in joined /\ ~view[c].synced
  /\ view' = [view EXCEPT ![c].synced = TRUE]
  /\ Still /\ UNCHANGED wire

(* Time passes: no timer of the server is later than MaxLag, none of a client *)
(* is late, and unless slow every message arrives at once.                    *)
Tick ==
  /\ clock < MaxTime
  /\ \A g \in Groups : group[g].timer # "none" => clock < group[g].due + MaxLag
  /\ \A c \in Clients : view[c].at > clock /\ (slow \/ wire[c] = <<>>)
  /\ clock' = clock + 1
  /\ UNCHANGED <<group, place, joined, wire, view, slow, updates, moves>>

-----------------------------------------------------------------------------
GroupStep(g) ==
  \/ \E v \in States \cup {Blank}, forced \in BOOLEAN : SetState(g, v, forced)
  \/ \E v \in States, t \in Times : Schedule(g, v, t)
  \/ CancelScheduled(g)
  \/ TimerFires(g)

ClientStep(c) ==
  \/ Connect(c) \/ Disconnect(c) \/ Receive(c) \/ ApplyPending(c) \/ Synchronize(c)
  \/ \E h \in Groups : Move(c, h)
  \/ \E i \in 1 .. Len(wire[c]) : Merge(c, i)

Next == Tick \/ (\E g \in Groups : GroupStep(g)) \/ (\E c \in Clients : ClientStep(c))

Spec == Init /\ [][Next]_vars

(* Timers of both sides fire, messages arrive and time passes. *)
Fairness ==
  /\ WF_vars(Tick)
  /\ \A g \in Groups : WF_vars(TimerFires(g))
  /\ \A c \in Clients : WF_vars(Receive(c)) /\ WF_vars(ApplyPending(c))

FairSpec == Spec /\ Fairness

-----------------------------------------------------------------------------
(* Nothing is on its way to c or late, and c has not shown a state early. *)
Settled(c) ==
  /\ c \in joined /\ wire[c] = <<>>
  /\ view[c].synced /\ ~view[c].early /\ view[c].at > clock
  /\ ~TimerDue(group[place[c]])

Agrees(c) ==
  LET s == Promoted(group[place[c]])
      v == view[c]
  IN  /\ v.cur = s.cur
      /\ c \notin Legacy =>
           IF s.sent THEN v.pend = s.pend /\ v.at = s.at ELSE v.at = Never

(* When messages arrive before the clock moves, a client with nothing on its *)
(* way shows what its group holds, and a client that supports it holds what  *)
(* its group has announced: whatever was scheduled, replaced, cancelled or   *)
(* joined in between, and whichever group it came from.                      *)
ViewsAgree == ~slow => \A c \in Clients : Settled(c) => Agrees(c)

(* test_scheduled_state_fuzz, of the clients of a group: "Assert every       *)
(* client agrees with the server away from any scheduled boundary".          *)
ViewsAlwaysAgree == \A c \in Clients : Settled(c) => Agrees(c)

(* MAX_SCHEDULED_LEAD_US: "A scheduled update is sent at most this long      *)
(* before it takes effect", to members and to clients that join later.       *)
LeadKept == \A c \in Clients : \A i \in 1 .. Len(wire[c]) : wire[c][i].at <= clock + MaxLead

(* However late messages are, every connected client ends up showing what    *)
(* its group holds, also the legacy clients, which nobody tells in advance.  *)
ViewsSettle ==
  <>[](\A c \in joined : view[c].cur = Promoted(group[place[c]]).cur)

=============================================================================
