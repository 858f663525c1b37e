-------------------------- MODULE MCClientAdmission --------------------------
(* Instances of ClientAdmission small enough for TLC. *)
EXTENDS ClientAdmission, TLC

CONSTANTS a, b, d, one, two

TwoConns    == {a, b}
ThreeConns  == {a, b, d}
NoConns     == {}
SingleKinds == {s \in Sessions : Cardinality(s.acts) < 2 /\ (s.needs => "playback" \in s.acts)}
PairOrPlay  == {s \in Sessions : Cardinality(s.acts) < 2 /\ ~s.needs}
Allowed     == {TRUE}
Ungated     == {FALSE}
Both        == BOOLEAN
OneDialed   == {d}
TwoServers  == [c \in Conns |-> IF c = a THEN one ELSE two]
=============================================================================
