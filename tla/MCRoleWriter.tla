---------------------------- MODULE MCRoleWriter ----------------------------
(* Instances of RoleWriter small enough for TLC: one player, one artwork    *)
(* role, one role that only queues server/state.                            *)
EXTENDS RoleWriter

Player   == {"player"}
Artwork  == {"artwork"}
Metadata == {"metadata"}
NoRoles  == {}

EarlyLateNever == {0, 2, 3}
NoRooms        == {}
=============================================================================
