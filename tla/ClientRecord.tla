----------------------------- MODULE ClientRecord -----------------------------
(***************************************************************************)
(* One persistent client (SendspinClient), as pure operators: each method  *)
(* that changes its roles, its attachment or its cleanup timer is a        *)
(* function from the client k to the client it leaves behind               *)
(* (server/client.py).                                                     *)
(*                                                                         *)
(* A role instance is "fresh" until its on_connect runs, then "live" until *)
(* on_disconnect or on_deactivate; a live instance that is dropped without *)
(* a hook, or connected twice, leaves a mark in k.faults.                  *)
(***************************************************************************)
EXTENDS FiniteSets

CONSTANTS RoleIds,     \* the roles this server implements
          NeedsState,  \* roles that wait for their client/state object
          Conns        \* the device's connections, each of them used once

NoConn == "none"

ASSUME ClientAssumption == NeedsState \subseteq RoleIds /\ NoConn \notin Conns

(* The classes of client/goodbye reasons: RETAINED stands for the reasons of *)
(* _RETAINED_GOODBYE_REASONS, SHUTDOWN for IMMEDIATE_CLEANUP_REASONS.        *)
Reasons == {"NONE", "RESTART", "SHUTDOWN", "RETAINED"}

Instance == {"absent", "fresh", "live", "retired"}

ClientType ==
  [connection: Conns \cup {NoConn}, connected: BOOLEAN, roles: [RoleIds -> Instance],
   warm: BOOLEAN, cold: BOOLEAN, attached: BOOLEAN, awaiting: SUBSET RoleIds,
   retained: BOOLEAN, cleanup: {"none", "soon", "later"},
   faults: SUBSET {"leaked", "doubled"}]

EmptyClient ==
  [connection |-> NoConn, connected |-> FALSE, roles |-> [r \in RoleIds |-> "absent"],
   warm |-> FALSE, cold |-> FALSE, attached |-> FALSE, awaiting |-> {},
   retained |-> FALSE, cleanup |-> "none", faults |-> {}]

ActiveRoles(k) == {r \in RoleIds : k.roles[r] # "absent"}
LiveRoles(k)   == {r \in RoleIds : k.roles[r] = "live"}

Fault(k, name, occurs) == [k EXCEPT !.faults = IF occurs THEN @ \cup {name} ELSE @]

(* _hard_detach_roles: forget every role, after its on_disconnect if hooks. *)
HardDetachRoles(k, hooks) ==
  [Fault(k, "leaked", ~hooks /\ LiveRoles(k) # {})
     EXCEPT !.roles = [r \in RoleIds |-> "absent"], !.awaiting = {},
            !.cold = FALSE, !.attached = FALSE]

(* _retire_roles_warm: run on_disconnect but keep the instances. *)
RetireRolesWarm(k) ==
  [k EXCEPT !.roles = [r \in RoleIds |-> IF @[r] = "absent" THEN "absent" ELSE "retired"],
            !.warm = TRUE, !.cold = FALSE, !.attached = FALSE]

(* _connect_active_roles: reuse the instances of S, create the missing ones; *)
(* only roles attached without a transport are still live.                   *)
ConnectActiveRoles(k, S) ==
  LET again   == \E r \in S : k.roles[r] = "live" /\ ~k.attached
      dropped == \E r \in RoleIds \ S : k.roles[r] = "live" /\ ~k.attached
      kept    == {r \in S : k.attached /\ k.roles[r] # "absent"}
  IN  [Fault(Fault(k, "doubled", again), "leaked", dropped)
         EXCEPT !.roles = [r \in RoleIds |-> IF r \in kept THEN @[r]
                                             ELSE IF r \in S THEN "live" ELSE "absent"]]

(* Mutant: the roles of a replaced connection are not retired. *)
AttachOverLive(k, c, S) ==
  LET found   == IF k.warm \/ k.cold THEN k ELSE HardDetachRoles(k, FALSE)
  IN  [ConnectActiveRoles(found, S)
         EXCEPT !.connection = c, !.connected = FALSE, !.awaiting = {}, !.retained = FALSE,
                !.cleanup = "none", !.warm = FALSE, !.cold = FALSE, !.attached = TRUE]

(* Mutant: a pending cleanup is not cancelled. *)
AttachKeepsCleanup(k, c, S) ==
  LET replaces == k.connection \notin {NoConn, c} /\ ActiveRoles(k) # {}
      kept     == IF replaces /\ ~k.warm /\ ~k.cold THEN RetireRolesWarm(k) ELSE k
      found    == IF kept.warm \/ kept.cold THEN kept ELSE HardDetachRoles(kept, TRUE)
  IN  [ConnectActiveRoles(found, S)
         EXCEPT !.connection = c, !.connected = FALSE, !.awaiting = {}, !.retained = FALSE,
                !.warm = FALSE, !.cold = FALSE, !.attached = TRUE]

(* attach_connection, without the disconnect of the connection it replaces. *)
AttachConnection(k, c, S) ==
  LET replaces == k.connection \notin {NoConn, c} /\ ActiveRoles(k) # {}
      kept     == IF replaces /\ ~k.warm /\ ~k.cold THEN RetireRolesWarm(k) ELSE k
      found    == IF kept.warm \/ kept.cold THEN kept ELSE HardDetachRoles(kept, TRUE)
  IN  [ConnectActiveRoles(found, S)
         EXCEPT !.connection = c, !.connected = FALSE, !.awaiting = {}, !.retained = FALSE,
                !.cleanup = "none", !.warm = FALSE, !.cold = FALSE, !.attached = TRUE]

(* set_active_roles, after deactivate_roles: a removed role is torn down, an *)
(* added one starts live and may wait for its client/state object.           *)
SetActiveRoles(k, S) ==
  LET added == S \ ActiveRoles(k)
  IN  [k EXCEPT !.roles = [r \in RoleIds |-> IF r \in added THEN "live"
                                             ELSE IF r \in S THEN @[r] ELSE "absent"],
                !.awaiting = (@ \cap S) \cup (added \cap NeedsState)]

MarkConnected(k) ==
  IF k.connection = NoConn THEN k ELSE [k EXCEPT !.connected = TRUE]

(* Mutants: a lost connection arms nothing; the timer is armed with the reason. *)
ScheduleGoodbyesOnly(k, reason, isExternal) ==
  IF isExternal \/ reason \in {"NONE", "RESTART"} THEN [k EXCEPT !.retained = FALSE]
  ELSE [k EXCEPT !.retained = reason = "RETAINED",
                 !.cleanup = IF reason = "SHUTDOWN" THEN "soon" ELSE "none"]
ScheduleReason(k, reason, isExternal) ==
  IF isExternal THEN [k EXCEPT !.retained = FALSE]
  ELSE [k EXCEPT !.retained = reason = "RETAINED", !.cleanup = reason]

(* _schedule_cleanup: external players stay, retained clients wait for mDNS. *)
(* No timer is armed when it is called: attach_connection cancelled it.      *)
ScheduleCleanup(k, reason, isExternal) ==
  [k EXCEPT !.retained = ~isExternal /\ reason = "RETAINED",
            !.cleanup = CASE isExternal \/ reason = "RETAINED" -> @
                          [] ~isExternal /\ reason = "SHUTDOWN" -> "soon"
                          [] OTHER -> "later"]

DetachConnection(k, reason, isExternal) ==
  LET quiet == IF reason \in {"NONE", "RESTART"} THEN RetireRolesWarm(k)
               ELSE [HardDetachRoles(k, TRUE) EXCEPT !.warm = FALSE]
  IN  ScheduleCleanup([quiet EXCEPT !.connected = FALSE, !.connection = NoConn],
                      reason, isExternal)

(* preinitialize_client_from_hello: cold roles, known before any transport. *)
Preinitialize(k, S) ==
  [HardDetachRoles(k, k.attached)
     EXCEPT !.cleanup = "none", !.warm = FALSE, !.cold = TRUE,
            !.roles = [r \in RoleIds |-> IF r \in S THEN "fresh" ELSE "absent"]]

(* attach_preinitialized_roles: connect the cold roles without a transport. *)
AttachPreinitialized(k) ==
  IF ~k.cold \/ k.attached THEN k
  ELSE [k EXCEPT !.roles = [r \in RoleIds |-> IF @[r] = "absent" THEN "absent" ELSE "live"],
                 !.attached = TRUE]

=============================================================================
