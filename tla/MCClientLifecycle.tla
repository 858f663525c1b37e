-------------------------- MODULE MCClientLifecycle --------------------------
(* Instances of ClientLifecycle small enough for TLC: a player that waits   *)
(* for its state, a metadata role that does not, and two                    *)
(* connections, accepted or dialed.                                         *)
EXTENDS ClientLifecycle, TLC

CONSTANTS a, b, d

PlayerAndMetadata == {"player", "metadata"}
OnePlayer == {"player"}
NoConns   == {}
NoRoles   == {}
TwoDialed == {a, d}
TwoConns  == {a, b}
Alike     == Permutations({a, b})
=============================================================================
