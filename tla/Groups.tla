------------------------------- MODULE Groups -------------------------------
(***************************************************************************)
(* The groups of a server: server/group.py, the group half of               *)
(* server/client.py, and the group roles of controllers and players.        *)
(*                                                                          *)
(* Every client is in one group. Programs and switch commands move it;      *)
(* becoming unavailable, client/leave and a takeover move it to a solo      *)
(* group. Two things follow the group from a distance and are kept by hand: *)
(* what each controller was last told of the volume, and what each client   *)
(* was last told of its group. The streams of a group are PushStream's      *)
(* subject; here a group plays or does not.                                 *)
(*                                                                          *)
(* No handler here suspends: group.stop takes a lock nobody holds, no hook  *)
(* returns a coroutine, and the tasks of client.py start eagerly. Each is   *)
(* one action, composed of operators from a world [c: clients, g: groups]   *)
(* to the next.                                                             *)
(***************************************************************************)
EXTENDS Integers, Sequences, FiniteSets, FiniteSetsExt, SequencesExt

CONSTANTS Clients,      \* devices the server knows
          Players,      \* those that hold the player role
          Controllers,  \* those that hold the controller role
          GroupIds,     \* identifiers of groups, ordered like group_id
          Volumes,      \* volumes a player reports, the largest being 100
          Full,         \* that largest one
          MaxTurns      \* bound: moves, lost connections and client/states together

GroupsAssumption ==
  /\ Players \cup Controllers = Clients /\ Players # {}
  /\ Volumes \subseteq 0 .. Full /\ Full \in Nat
  /\ GroupIds \subseteq Nat \ {0} /\ Clients \subseteq GroupIds /\ Clients # GroupIds
  /\ MaxTurns \in Nat

VARIABLES clients,  \* SendspinClient, its roles and its connection
          groups,   \* SendspinGroup and its group roles
          turns     \* the moves, lost connections and client/states so far

groupVars == <<clients, groups, turns>>

Unset   == Full + 1  \* volume commands are not taken
Nothing == Full + 2  \* nothing sent yet
NoGroup == 0

Members(w, g) == ToSet(w.g[g].members)

World == [c |-> clients, g |-> groups]
Becomes(w) == clients' = w.c /\ groups' = w.g

Turn == turns < MaxTurns /\ turns' = turns + 1

(* A connection is attached, then its server/activate is out, then the       *)
(* initial client/state of a player is in.                                   *)
Linked(k) == k.link # "off"
Told(k)   == k.link \in {"activated", "connected", "reported"}
(* The client/state a connection opens with is in. *)
Reported(c) == clients[c].link = IF c \in Players THEN "connected" ELSE "reported"

-----------------------------------------------------------------------------
(* The group's volume. *)

RoundHalfEven(sum, n) ==
  LET rest == 2 * (sum % n)
  IN  (sum \div n) + IF rest < n \/ (rest = n /\ (sum \div n) % 2 = 0) THEN 0 ELSE 1

(* Players subscribed to the group's player role that take volume commands.   *)
Settable(w, g) == {p \in Players : w.c[p].playerOf = g /\ w.c[p].volume # Unset}

(* get_group_volume: the average.                                             *)
VolumeOf(w, ps) ==
  IF ps = {} THEN Unset
  ELSE RoundHalfEven(MapThenSumSet(LAMBDA p : w.c[p].volume, ps), Cardinality(ps))

GroupVolume(w, g) == VolumeOf(w, Settable(w, g))

(* set_group_volume: what every player is asked for, in parts of a volume      *)
(* (Parts is a multiple of every divisor). A pass moves the players by delta;  *)
(* what those at the ends cannot take is shared among the others.              *)
Parts == FoldSet(LAMBDA n, product : n * product, 1, 1 .. Cardinality(Players))

FirstDelta(w, ps, level) ==
  ((level * Cardinality(ps) - MapThenSumSet(LAMBDA p : w.c[p].volume, ps)) * Parts)
    \div Cardinality(ps)

(* Mutant: what is lost at the ends is not shared.                             *)
ClampedVolumes(w, g, level) ==
  LET ps    == Settable(w, g)
      delta == FirstDelta(w, ps, level)
  IN  [p \in ps |-> Max({0, Min({Full * Parts, w.c[p].volume * Parts + delta})})]

AskedVolumes(w, g, level) ==
  LET ps    == Settable(w, g)
      n     == Cardinality(ps)
      start == [volume |-> [p \in ps |-> w.c[p].volume * Parts], active |-> ps,
                delta |-> FirstDelta(w, ps, level)]
      Pass(s) ==
        LET wanted(p) == s.volume[p] + s.delta
            free == {p \in s.active : wanted(p) \in 0 .. Full * Parts}
            end  == IF s.delta > 0 THEN Full * Parts ELSE 0
            lost == MapThenSumSet(LAMBDA p : wanted(p) - end, s.active \ free)
        IN  [volume |-> [p \in ps |-> IF p \in free THEN wanted(p)
                                      ELSE IF p \in s.active THEN end ELSE s.volume[p]],
             active |-> IF free = s.active THEN {} ELSE free,
             delta  |-> IF free = {} THEN 0 ELSE lost \div Cardinality(free)]
      pass[k \in 0 .. n] == IF k = 0 THEN start ELSE Pass(pass[k - 1])
  IN  pass[n].volume

(* The volume the player group role and the controllers show.                *)
Shown(volume) == IF volume = Unset THEN Full ELSE volume

ShownVolume(w, g) == Shown(GroupVolume(w, g))

(* A controller's server/state: the volume, and whether it may be set.       *)
ControllerState(w, g) == GroupVolume(w, g)

SendControllerState(w, c, s) ==
  IF Linked(w.c[c]) THEN [w EXCEPT !.c[c].view = s] ELSE w

(* Mutant: what was pushed last is remembered only if someone was told.       *)
PushStateForgetful(w, g, now) ==
  LET cs == {c \in Controllers : w.c[c].controllerOf = g}
  IN  IF w.g[g].pushed = now THEN w
      ELSE FoldSet(LAMBDA c, v : SendControllerState(v, c, now),
                   IF cs = {} THEN w ELSE [w EXCEPT !.g[g].pushed = now], cs)

(* push_state: to every subscribed controller, if it changed since the last  *)
(* push.                                                                     *)
PushState(w, g, now) ==
  IF w.g[g].pushed = now THEN w
  ELSE FoldSet(LAMBDA c, v : SendControllerState(v, c, now),
               [w EXCEPT !.g[g].pushed = now],
               {c \in Controllers : w.c[c].controllerOf = g})

(* _recompute_and_emit: an application that follows the volume events knows   *)
(* the volume of the last one.                                                *)
RecomputeAndEmit(w, g, volume) == [w EXCEPT !.g[g].emitted = Shown(volume)]

Announce(w, g, volume) == PushState(RecomputeAndEmit(w, g, volume), g, volume)

MembershipChanged(w, g) == Announce(w, g, GroupVolume(w, g))

-----------------------------------------------------------------------------
(* The roles of a connection subscribe to the group roles of their client's group. *)

SubscribePlayer(w, c) ==
  LET g == w.c[c].group
  IN  IF c \notin Players \/ ~Linked(w.c[c]) \/ w.c[c].playerOf = g THEN w
      ELSE MembershipChanged([w EXCEPT !.c[c].playerOf = g], g)

UnsubscribePlayer(w, c) ==
  LET g == w.c[c].playerOf
  IN  IF g = NoGroup THEN w ELSE MembershipChanged([w EXCEPT !.c[c].playerOf = NoGroup], g)

SubscribeController(w, c) ==
  LET g == w.c[c].group
  IN  IF c \notin Controllers \/ ~Linked(w.c[c]) THEN w
      ELSE SendControllerState([w EXCEPT !.c[c].controllerOf = g], c, ControllerState(w, g))

UnsubscribeController(w, c) == [w EXCEPT !.c[c].controllerOf = NoGroup]

(* on_connect of the roles: the player's before the controller's, which       *)
(* reads the volume. No command may be sent before the client's own state.     *)
ConnectRoles(w, c) ==
  SubscribeController(SubscribePlayer([w EXCEPT !.c[c].volume = Unset], c), c)

(* on_disconnect of the roles, in reverse order.                              *)
DisconnectRoles(w, c) == UnsubscribePlayer(UnsubscribeController(w, c), c)

(* on_client_added: the first player primes the volume the events start from. *)
RegisterEvents(w, c, g) ==
  IF c \in Players /\ w.g[g].emitted = Nothing
  THEN [w EXCEPT !.g[g].emitted = ShownVolume(w, g)] ELSE w

(* VolumeChangedEvent: heard by the group of the client.                      *)
ReportVolume(w, c, v) ==
  LET reported == [w EXCEPT !.c[c].volume = v]
  IN  IF c \notin Players \/ w.c[c].volume = v THEN reported
      ELSE MembershipChanged(reported, w.c[c].group)

-----------------------------------------------------------------------------
(* What clients are told of their group. *)

(* A group without a name of its own has that of its founding member.        *)
GroupUpdate(w, g) ==
  {<<g, Head(w.g[g].members), w.g[g].playing>>}

SendGroupUpdate(w, g, cs) ==
  LET update == GroupUpdate(w, g)
  IN  FoldSet(LAMBDA c, v : [v EXCEPT !.c[c].update = update], w, {c \in cs : Told(w.c[c])})

SetPlayback(w, g, playing) ==
  IF w.g[g].playing = playing THEN w
  ELSE SendGroupUpdate([w EXCEPT !.g[g].playing = playing], g, Members(w, g))

StopGroup(w, g) == SetPlayback(w, g, FALSE)

-----------------------------------------------------------------------------
(* Membership. *)

EmptyGroup ==
  [members |-> <<>>, playing |-> FALSE, pushed |-> Nothing, emitted |-> Nothing]

(* An identifier no group has.  uuid4 gives any order; here identifiers       *)
(* return, so two live groups come in either order.                           *)
FreshId(w) == Min({g \in GroupIds : w.g[g].members = <<>>})

(* _set_group, with the on_group_changed of the roles.                        *)
SetGroup(w, c, g) ==
  LET member == RegisterEvents([w EXCEPT !.c[c].group = g], c, g)
      player == SubscribePlayer(UnsubscribePlayer(member, c), c)
  IN  SubscribeController(UnsubscribeController(player, c), c)

NewGroup(w, c, g) ==
  LET founded == SetGroup([w EXCEPT !.g[g] = [EmptyGroup EXCEPT !.members = <<c>>]], c, g)
  IN  SendGroupUpdate(founded, g, {c})

HasPlayer(w, g) == Members(w, g) \cap Players # {}

Leaves(w, g, c) == [w EXCEPT !.g[g].members = Remove(@, c)]

StopUnlessPlayer(w, g) == IF HasPlayer(w, g) THEN w ELSE StopGroup(w, g)

PublishIfRenamed(w, g, was) ==
  IF Head(w.g[g].members) = was THEN w ELSE SendGroupUpdate(w, g, Members(w, g))

(* Mutant: those who stay are not told that the group is called after another.*)
RemnantUntold(w, g, c) == StopUnlessPlayer(Leaves(w, g, c), g)

(* Mutant: the group stops whoever stays.                                     *)
RemnantStopped(w, g, c) ==
  PublishIfRenamed(StopGroup(Leaves(w, g, c), g), g, Head(w.g[g].members))

(* The members that stay: the group stops if no player is left to play, and  *)
(* is called after its new first member.                                     *)
Remnant(w, g, c) ==
  PublishIfRenamed(StopUnlessPlayer(Leaves(w, g, c), g), g, Head(w.g[g].members))

(* A group is gone: nobody comes to it or finds it again, so what clients     *)
(* remember of it counts for nothing.                                         *)
Dissolve(w, g) ==
  FoldSet(LAMBDA c, v : [v EXCEPT !.c[c].previous = NoGroup, !.c[c].soloAt = NoGroup],
          [w EXCEPT !.g[g] = EmptyGroup],
          {c \in Clients : g \in {w.c[c].soloAt, w.c[c].previous}})

DissolveIfEmpty(w, g) == IF w.g[g].members = <<>> THEN Dissolve(w, g) ELSE w

(* remove_client: to a new solo group.                                        *)
RemoveClient(w, c) ==
  LET g    == w.c[c].group
      rest == IF Len(w.g[g].members) = 1 THEN [StopGroup(w, g) EXCEPT !.g[g].members = <<>>]
              ELSE Remnant(w, g, c)
  IN  DissolveIfEmpty(NewGroup(rest, c, FreshId(w)), g)

(* add_client: through a solo group nobody else sees, into g.                 *)
Arrives(w, c, g) ==
  LET member == SetGroup([w EXCEPT !.g[g].members = Append(@, c)], c, g)
  IN  SendGroupUpdate(Dissolve(member, w.c[c].group), g, {c})

AddClient(w, c, g) == Arrives(RemoveClient(w, c), c, g)

(* _leave_to_solo_group: a group left for a solo one is remembered.           *)
LeaveToSolo(w, c) ==
  LET g == w.c[c].group
      Remembers(alone) == [alone EXCEPT !.c[c].previous = g, !.c[c].soloAt = alone.c[c].group]
  IN  IF Len(w.g[g].members) = 1 THEN StopGroup(w, g) ELSE Remembers(RemoveClient(w, c))

-----------------------------------------------------------------------------
(* Connections. *)

Detached(w, c) ==
  [w EXCEPT !.c[c].link = "off", !.c[c].volume = Unset, !.c[c].view = Nothing,
            !.c[c].update = {}]

(* attach_connection: a connection still there is replaced, and its roles     *)
(* are connected again.                                                       *)
Attach(c) ==
  LET retired  == IF Linked(clients[c]) THEN Detached(DisconnectRoles(World, c), c) ELSE World
      attached == [retired EXCEPT !.c[c].link = "attached"]
  IN  /\ Becomes(ConnectRoles(attached, c))
      /\ IF Linked(clients[c]) THEN Turn ELSE UNCHANGED turns

(* The first server/activate is out, and group/update follows from now on.    *)
(* A client without a player waits for no state.                              *)
Activate(c) ==
  LET link == IF c \in Players THEN "activated" ELSE "connected"
  IN  /\ clients[c].link = "attached"
      /\ Becomes(SendGroupUpdate([World EXCEPT !.c[c].link = link], clients[c].group, {c}))
      /\ UNCHANGED turns

(* The client/state a connection opens with does not move the client.         *)
FirstState(c, available, v) ==
  LET link == IF c \in Players THEN "connected" ELSE "reported"
      opened == [World EXCEPT !.c[c].available = available, !.c[c].link = link]
  IN  /\ clients[c].link = IF c \in Players THEN "activated" ELSE "connected"
      /\ Becomes(ReportVolume(opened, c, v)) /\ UNCHANGED turns

(* Becoming unavailable leaves a shared group before the rest of the state is *)
(* read.                                                                      *)
State(c, available, v) ==
  LET changed == [World EXCEPT !.c[c].available = available]
      left    == IF clients[c].available /\ ~available THEN LeaveToSolo(changed, c) ELSE changed
  IN  /\ Reported(c) /\ Turn
      /\ <<available, v>> # <<clients[c].available, clients[c].volume>>
      /\ Becomes(ReportVolume(left, c, v))

(* client/leave.                                                              *)
Leave(c) == Told(clients[c]) /\ Becomes(LeaveToSolo(World, c)) /\ Turn

(* detach_connection after a lost socket or a restart, a client that is not   *)
(* coming back ("lost"), one taken over by another server ("taken") or busy   *)
(* with one ("busy").                                                         *)
Detach(c, reason) ==
  LET off == Detached(DisconnectRoles(World, c), c)
      g   == clients[c].group
  IN  /\ Linked(clients[c]) /\ Turn
      /\ Becomes(CASE reason = "lost" -> off
                   [] reason = "taken" \/ (reason = "busy" /\ Len(groups[g].members) > 1) ->
                        RemoveClient(off, c)
                   [] OTHER -> StopGroup(off, g))

-----------------------------------------------------------------------------
(* Switch commands. *)

Connected(w, c) == w.c[c].link \in {"connected", "reported"}

SeenGroups(w) == {w.c[c].group : c \in {d \in Clients : Connected(w, d)}}

InOrder(S) == SetToSortSeq(S, <)

(* _build_group_cycle: groups of several that play, other groups of one       *)
(* player that play, and for a player its own or a new solo group.            *)
Cycle(w, c) ==
  LET g       == w.c[c].group
      Several(h) == Len(w.g[h].members) > 1
      multi   == {h \in SeenGroups(w) : w.g[h].playing /\ Several(h) /\ HasPlayer(w, h)}
      single  == {h \in SeenGroups(w) : w.g[h].playing /\ ~Several(h) /\ HasPlayer(w, h) /\ h # g}
      solo    == IF Several(g) THEN <<NoGroup>> ELSE <<g>>
  IN  InOrder(multi) \o InOrder(single) \o (IF c \in Players THEN solo ELSE <<>>)

NextInCycle(cycle, g) ==
  LET at == {i \in DOMAIN cycle : cycle[i] = g}
  IN  IF at = {} THEN cycle[1] ELSE cycle[((CHOOSE i \in at : TRUE) % Len(cycle)) + 1]

(* The group a client was moved out of, while it is alone where it was moved. *)
MayRejoin(w, c) ==
  /\ w.c[c].previous # NoGroup
  /\ w.c[c].soloAt = w.c[c].group
  /\ Len(w.g[w.c[c].group].members) = 1

Switch(c) ==
  LET asked  == IF MayRejoin(World, c)
                THEN [World EXCEPT !.c[c].previous = NoGroup, !.c[c].soloAt = NoGroup] ELSE World
      cycle  == Cycle(asked, c)
      target == IF MayRejoin(World, c) /\ clients[c].previous \in SeenGroups(World)
                THEN clients[c].previous
                ELSE IF cycle = <<>> THEN clients[c].group
                ELSE NextInCycle(cycle, clients[c].group)
  IN  /\ c \in Controllers /\ Connected(World, c) /\ clients[c].available
      /\ Turn
      /\ Becomes(IF target = clients[c].group THEN asked
                 ELSE IF target = NoGroup THEN RemoveClient(asked, c)
                 ELSE AddClient(asked, c, target))

-----------------------------------------------------------------------------
(* What a program does with groups. *)

Join(c, g) ==
  /\ groups[g].members # <<>> /\ c \notin Members(World, g)
  /\ Becomes(AddClient(World, c, g)) /\ Turn

Ungroup(c) == Becomes(RemoveClient(World, c)) /\ Turn

(* start_stream.                                                              *)
Play(g) ==
  /\ groups[g].members # <<>> /\ ~groups[g].playing
  /\ Becomes(SetPlayback(World, g, TRUE)) /\ UNCHANGED turns

Stop(g) == groups[g].playing /\ Becomes(StopGroup(World, g)) /\ UNCHANGED turns

-----------------------------------------------------------------------------
(* Every client connected and in one group, players at full volume.           *)
Init ==
  LET first == Min(Clients)
  IN  /\ clients = [c \in Clients |->
           [group |-> first, link |-> IF c \in Players THEN "connected" ELSE "reported",
            available |-> TRUE, volume |-> IF c \in Players THEN Full ELSE Unset,
            playerOf |-> IF c \in Players THEN first ELSE NoGroup,
            controllerOf |-> IF c \in Controllers THEN first ELSE NoGroup,
            view |-> IF c \in Controllers THEN Full ELSE Nothing,
            update |-> {<<first, first, FALSE>>}, previous |-> NoGroup, soloAt |-> NoGroup]]
      /\ groups = [g \in GroupIds |->
           IF g # first THEN EmptyGroup
           ELSE [members |-> InOrder(Clients), playing |-> FALSE, pushed |-> Full, emitted |-> Full]]
      /\ turns = 0

Next ==
  \/ \E c \in Clients :
       \/ Attach(c) \/ Activate(c) \/ Leave(c) \/ Switch(c) \/ Ungroup(c)
       \/ \E reason \in {"lost", "taken", "busy"} : Detach(c, reason)
       \/ \E g \in GroupIds : Join(c, g)
       \/ \E available \in BOOLEAN, v \in IF c \in Players THEN Volumes \cup {Unset} ELSE {Unset} :
            FirstState(c, available, v) \/ State(c, available, v)
  \/ \E g \in GroupIds : Play(g) \/ Stop(g)

Spec == Init /\ [][Next]_groupVars

-----------------------------------------------------------------------------
TypeOK ==
  /\ \A c \in Clients :
       /\ clients[c].group \in GroupIds
       /\ clients[c].link \in {"off", "attached", "activated", "connected", "reported"}
       /\ clients[c].volume \in Volumes \cup {Unset, Full}
       /\ {clients[c].previous, clients[c].soloAt} \subseteq GroupIds \cup {NoGroup}
       /\ clients[c].view \in 0 .. Nothing
  /\ \A g \in GroupIds :
       /\ Members(World, g) = {c \in Clients : clients[c].group = g}
       /\ Len(groups[g].members) = Cardinality(Members(World, g))
       /\ groups[g].playing \in BOOLEAN

(* Whoever joins, leaves, connects or reports, in whatever order, every        *)
(* controller was last told the volume its group has now (controller/group.py, *)
(* push_state, which tells nobody if nothing changed since its last push).     *)
ViewsCurrent ==
  \A c \in Controllers : Linked(clients[c]) =>
    clients[c].view = GroupVolume(World, clients[c].group)

(* Every client knows the group it is in, by its present name, and whether it  *)
(* plays, from its first server/activate on (group.py, _send_group_update).    *)
UpdatesCurrent ==
  \A c \in Clients : Told(clients[c]) =>
    clients[c].update = GroupUpdate(World, clients[c].group)

(* A program that follows the volume events of a group knows its volume.       *)
EventsFollow ==
  \A g \in GroupIds : groups[g].emitted # Nothing =>
    groups[g].emitted = ShownVolume(World, g)

(* A volume set on a group is its volume exactly once every player has taken  *)
(* what it is asked for, no player moves the other way, and none overtakes     *)
(* another (player/group.py, set_group_volume).                                *)
VolumeReached ==
  \A g \in GroupIds : Settable(World, g) # {} => \A level \in 0 .. Full :
    LET ps    == Settable(World, g)
        asked == AskedVolumes(World, g, level)
        now(p) == clients[p].volume * Parts
        up    == level * Cardinality(ps) >= MapThenSumSet(LAMBDA p : clients[p].volume, ps)
    IN  /\ MapThenSumSet(LAMBDA p : asked[p], ps) = level * Cardinality(ps) * Parts
        /\ \A p \in ps : IF up THEN asked[p] >= now(p) ELSE asked[p] <= now(p)
        /\ \A p, q \in ps : now(p) <= now(q) => asked[p] <= asked[q]

(* A move stops the music of those who stay only if none of them can play.     *)
PlaysOn ==
  \A g \in GroupIds :
    groups[g].playing /\ ~groups'[g].playing
      /\ groups'[g].members \notin {groups[g].members, <<>>}
    => \A c \in ToSet(groups'[g].members) : c \notin Players

RemnantPlays == [][PlaysOn]_groupVars
===============================================================================
