-------------------------- MODULE MCScheduledState --------------------------
(* Instances of ScheduledState small enough for TLC: two groups, a client    *)
(* that supports scheduled updates and one that does not.                    *)
EXTENDS ScheduledState

OneGroup   == {"g"}
TwoGroups  == {"g", "h"}
TwoClients == {"new", "old"}
OneClient  == {"new"}
OldClient  == {"old"}
NoClient   == {}
OneState   == {"x"}
TwoStates  == {"x", "y"}
=============================================================================
