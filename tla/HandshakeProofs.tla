--------------------------- MODULE HandshakeProofs ---------------------------
(***************************************************************************)
(* For any records and Pairing PSKs and any bounds: a handshake gives both  *)
(* ends one session with whom they mean to reach, or neither, and ends as   *)
(* the stores say.                                                         *)
(***************************************************************************)
EXTENDS Handshake, SequenceTheorems, TLAPS

Hello    == [type |-> "init"]
Reply(k) == [type |-> "msg2", key |-> k]
Hail     == [type |-> "init", server |-> setup.server]
Offer(p) == [type |-> "msg1", psk |-> p]
Error(r) == [type |-> "error", reason |-> r]

-----------------------------------------------------------------------------
(* The inductive invariant. *)

Psks == {NoPsk, Sentinel} \cup {LongTerm(key) : key \in Records}
          \cup {Pairing(key) : key \in Pairings}

Whys == {"none", "rejected", "refused", "unverified", "no attempt", "lost", "timeout",
         "other server", "misbound"}
Faults == {"none", "version", "suite", "malformed"}

ServerEnd ==
  [pc : {"init", "picking", "msg2", "checking", "up", "plain", "closed"},
   attempt : {"none", "psk", "code"}, psk : Psks, why : Whys,
   mismatch : BOOLEAN, repair : BOOLEAN]

ClientEnd ==
  [pc : {"init", "msg1", "resolving", "up", "closed"}, psk : Psks, why : Whys,
   mismatch : BOOLEAN, server : {None, 1, 2}, reason : Faults]

Types ==
  /\ HandshakeAssumption
  /\ setup.tried \in Pairings /\ setup.server \in {1, 2}
  /\ held \in [record : Records \cup {None}, staged : Pairings \cup {None}]
  /\ kept \in [records : SUBSET Records, bound : {1}, pairing : Pairings]
  /\ srv \in ServerEnd /\ cli \in ClientEnd
  /\ past \in [changes : Nat, timeouts : Nat, dials : Nat \ {0}]

(* What the client has made of the offer it was sent. *)
Answered ==
  /\ \/ cli.psk = srv.psk /\ ~cli.mismatch
     \/ cli.psk = Sentinel /\ cli.mismatch /\ srv.psk.category # "sentinel"
  /\ cli.psk.category = "long_term" => cli.server = kept.bound

(* Where the other end may be, and what is on its way, by the server's place. *)
BeforePick ==
  /\ srv.pc = "init" =>
       /\ toClient = <<>>
       /\ \/ cli.pc = "init" /\ toServer = <<Hello>>
          \/ cli.pc = "closed" /\ toServer = <<Hello, Close>> /\ Ours
  /\ srv.pc = "picking" =>
       /\ toClient = <<>>
       /\ \/ cli.pc = "init" /\ toServer = <<>>
          \/ cli.pc = "closed" /\ toServer = <<Close>>
  /\ srv.pc = "plain" => cli.pc = "init" /\ toClient = <<>> /\ toServer = <<>> /\ ~Ours
  /\ srv.pc \in {"init", "picking"} => ~srv.mismatch /\ ~cli.mismatch
  /\ cli.pc \in {"init", "msg1", "resolving"} => ~cli.mismatch

Exchange ==
  srv.pc = "msg2" =>
    /\ ~srv.mismatch /\ srv.psk # NoPsk
    /\ srv.attempt = "psk" => srv.psk = Pairing(setup.tried)
    /\ \/ cli.pc = "init" /\ toClient = <<Hail, Offer(srv.psk)>> /\ toServer = <<>>
       \/ cli.pc = "msg1" /\ toClient = <<Offer(srv.psk)>> /\ toServer = <<>>
       \/ cli.pc = "resolving" /\ toClient = <<>> /\ toServer = <<>> /\ cli.psk = srv.psk
       \/ cli.pc = "up" /\ toClient = <<>> /\ toServer = <<Reply(cli.psk.key)>> /\ Answered
       \/ cli.pc = "closed" /\ toServer = <<Close>>

Settled ==
  srv.pc \in {"checking", "up"} =>
    /\ cli.pc = "up" /\ toClient = <<>> /\ toServer = <<>>
    /\ srv.psk = cli.psk /\ srv.mismatch = cli.mismatch /\ srv.psk # NoPsk
    /\ cli.psk.category = "long_term" => cli.server = kept.bound
    /\ srv.attempt = "psk" => srv.psk = Pairing(setup.tried)

Over ==
  srv.pc = "closed" =>
    \/ cli.pc = "closed"
    \/ cli.pc = "init" /\ toClient \in {<<Close>>, <<Error(Rejection), Close>>}
    \/ /\ srv.why # "refused"
       /\ \/ cli.pc = "init" /\ \E p \in Psks : toClient = <<Hail, Offer(p), Close>>
          \/ cli.pc = "msg1" /\ \E p \in Psks : toClient = <<Offer(p), Close>>
          \/ cli.pc \in {"resolving", "up"} /\ toClient = <<Close>>

(* What the server gave up for, and what the client had seen by then. *)
Reasons ==
  /\ srv.why # "unverified"
  /\ srv.why # "none" => srv.pc = "closed"
  /\ past.dials = 1 /\ (srv.pc \in {"init", "picking"} \/ srv.why = "refused") => cli.server = None

(* Undisturbed, every place has its story. *)
Unhindered ==
  /\ Rejection = "none"
  /\ srv.psk = PskProvider(held)
  /\ cli.pc \in {"msg1", "resolving", "up"} => setup.expects \in {None, setup.server}
  /\ cli.pc \in {"msg1", "resolving", "up"} => cli.server = setup.server
  /\ cli.pc = "closed" => Refused
  /\ cli.pc = "up" => ~Refused /\ (cli.mismatch <=> Lacks)

Admissible == Rejection = "none" /\ ~Refused /\ (Lacks => srv.attempt = "none")

Ended ==
  \/ Rejection # "none" /\ cli.pc = "init" /\ toClient = <<Error(Rejection), Close>>
  \/ Rejection # "none" /\ cli.pc = "closed" /\ cli.why = "rejected" /\ cli.reason = Rejection
  \/ Rejection = "none" /\ (Refused \/ (Lacks /\ srv.attempt # "none"))

Story ==
  Undisturbed /\ Ours =>
    /\ srv.pc \in {"init", "picking"} => cli.pc = "init"
    /\ srv.pc = "picking" => Rejection = "none"
    /\ srv.pc = "msg2" => Unhindered
    /\ srv.pc \in {"checking", "up"} =>
         Admissible /\ srv.psk = Expected /\ (srv.mismatch <=> Lacks)
    /\ srv.pc = "up" => (srv.repair <=> Lacks /\ held.record # None)
    /\ srv.pc = "closed" => Ended

Phases == BeforePick /\ Exchange /\ Settled /\ Over

IInv == Types /\ Phases /\ Reasons /\ Story

-----------------------------------------------------------------------------
(* Sequences of up to three messages. *)

LEMMA TailOfTwo == ASSUME NEW a, NEW b PROVE Tail(<<a, b>>) = <<b>>
BY <<b>> \in Seq({a, b}), Tail(<<a, b>>) \in Seq({a, b}), Len(Tail(<<a, b>>)) = 1,
   Tail(<<a, b>>)[1] = b

LEMMA TailOfThree == ASSUME NEW a, NEW b, NEW c PROVE Tail(<<a, b, c>>) = <<b, c>>
BY <<b, c>> \in Seq({a, b, c}), Tail(<<a, b, c>>) \in Seq({a, b, c}),
   Len(Tail(<<a, b, c>>)) = 2, Tail(<<a, b, c>>)[1] = b, Tail(<<a, b, c>>)[2] = c

LEMMA Joins ==
  ASSUME NEW a, NEW b, NEW c
  PROVE  /\ Append(<<>>, a) = <<a>> /\ Append(<<a>>, b) = <<a, b>>
         /\ Append(<<a, b>>, c) = <<a, b, c>> /\ <<>> \o <<a, b>> = <<a, b>>
<1>1. Append(<<>>, a) = <<a>> OBVIOUS
<1>2. Append(<<a>>, b) = <<a, b>>
  <2>1. <<a>> \in Seq({a, b}) /\ <<a, b>> \in Seq({a, b}) OBVIOUS
  <2>2. Len(<<a>>) = 1 /\ Len(<<a, b>>) = 2 OBVIOUS
  <2>3. /\ Append(<<a>>, b) \in Seq({a, b}) /\ Len(Append(<<a>>, b)) = 2
        /\ Append(<<a>>, b)[1] = a /\ Append(<<a>>, b)[2] = b
    <3>1. \A i \in 1 .. 1 : Append(<<a>>, b)[i] = <<a>>[i]
      BY <2>1, <2>2, AppendProperties
    <3> QED BY <3>1, <2>1, <2>2, AppendProperties
  <2>4. \A i \in 1 .. 2 : Append(<<a>>, b)[i] = <<a, b>>[i]
    BY <2>3
  <2> QED BY <2>1, <2>2, <2>3, <2>4, SeqEqual
<1>3. Append(<<a, b>>, c) = <<a, b, c>>
  <2>1. <<a, b>> \in Seq({a, b, c}) /\ <<a, b, c>> \in Seq({a, b, c}) OBVIOUS
  <2>2. Len(<<a, b>>) = 2 /\ Len(<<a, b, c>>) = 3 OBVIOUS
  <2>3. /\ Append(<<a, b>>, c) \in Seq({a, b, c}) /\ Len(Append(<<a, b>>, c)) = 3
        /\ Append(<<a, b>>, c)[1] = a /\ Append(<<a, b>>, c)[2] = b
        /\ Append(<<a, b>>, c)[3] = c
    <3>1. \A i \in 1 .. 2 : Append(<<a, b>>, c)[i] = <<a, b>>[i]
      BY <2>1, <2>2, AppendProperties
    <3> QED BY <3>1, <2>1, <2>2, AppendProperties
  <2>4. \A i \in 1 .. 3 : Append(<<a, b>>, c)[i] = <<a, b, c>>[i]
    BY <2>3
  <2> QED BY <2>1, <2>2, <2>3, <2>4, SeqEqual
<1>4. <<>> \o <<a, b>> = <<a, b>> OBVIOUS
<1> QED BY <1>1, <1>2, <1>3, <1>4

LEMMA Splits ==
  ASSUME NEW a, NEW b, NEW c
  PROVE  /\ <<a>> # <<>> /\ Head(<<a>>) = a /\ Tail(<<a>>) = <<>>
         /\ <<a, b>> # <<>> /\ Head(<<a, b>>) = a /\ Tail(<<a, b>>) = <<b>>
         /\ <<a, b, c>> # <<>> /\ Head(<<a, b, c>>) = a /\ Tail(<<a, b, c>>) = <<b, c>>
<1>1. <<a>> # <<>> /\ Head(<<a>>) = a /\ Tail(<<a>>) = <<>> OBVIOUS
<1>2. <<a, b>> # <<>> /\ <<a, b, c>> # <<>> OBVIOUS
<1>3. Head(<<a, b>>) = a OBVIOUS
<1>4. Head(<<a, b, c>>) = a OBVIOUS
<1> QED BY <1>1, <1>2, <1>3, <1>4, TailOfTwo, TailOfThree

(* Messages of different types are different. *)
LEMMA Kinds ==
  ASSUME NEW p, NEW r
  PROVE  /\ Hello # Close /\ Reply(p) # Close /\ Hail # Close /\ Offer(p) # Close /\ Error(r) # Close
         /\ Error(r).type = "error" /\ Error(r).reason = r
         /\ Hail.type # "error" /\ Hail.server = setup.server
         /\ Offer(p).psk = p /\ Reply(p).key = p
BY DEF Hello, Reply, Hail, Offer, Error, Close

(* A PSK's category says what its key is. *)
LEMMA PskFacts ==
  ASSUME HandshakeAssumption, NEW p \in Psks, p # NoPsk
  PROVE  /\ p.category = "sentinel" => p = Sentinel
         /\ p.category = "long_term" => p.key \in Records /\ p = LongTerm(p.key)
         /\ p.category = "pairing" => p.key \in Pairings /\ p = Pairing(p.key)
         /\ p.category \in {"sentinel", "long_term", "pairing"}
         /\ p.category # "sentinel" => p.key # Sentinel.key
BY DEF HandshakeAssumption, Psks, NoPsk, Sentinel, LongTerm, Pairing, None

(* The server's pick is a PSK. *)
LEMMA PicksPsk == Types => PskProvider(held) \in Psks
<1> SUFFICES ASSUME Types PROVE PskProvider(held) \in Psks
  OBVIOUS
<1>1. held.record \in Records \cup {None} /\ held.staged \in Pairings \cup {None}
  BY DEF Types
<1>2. setup.tried \in Pairings /\ srv.attempt \in {"none", "psk", "code"}
  BY DEF Types, ServerEnd
<1> QED BY <1>1, <1>2 DEF PskProvider, Psks

-----------------------------------------------------------------------------
(* Types. *)

LEMMA InitTypes == HandshakeAssumption /\ Init => Types
<1> SUFFICES ASSUME HandshakeAssumption, Init PROVE Types
  OBVIOUS
<1>1. setup.tried \in Pairings /\ setup.server \in {1, 2}
  BY DEF Init, Setups
<1>2. kept \in [records : SUBSET Records, bound : {1}, pairing : Pairings]
  BY DEF Init
<1>3. srv \in ServerEnd /\ cli \in ClientEnd
  BY DEF Init, ServerEnd, ClientEnd, Psks, Whys, Faults
<1>4. past \in [changes : Nat, timeouts : Nat, dials : Nat \ {0}]
  BY DEF Init
<1> QED BY <1>1, <1>2, <1>3, <1>4 DEF Init, Types

(* What a server/error says is what is wrong with client/init. *)
LEMMA RejectionType == Rejection \in Faults
<1>1. CASE setup.opening \in {"version", "suite"}
  BY <1>1 DEF Rejection, Faults
<1>2. CASE setup.opening \notin {"version", "suite"}
  BY <1>2 DEF Rejection, Faults
<1> QED BY <1>1, <1>2

(* What the client may find when it waits for server/init. *)
LEMMA InitRead ==
  ASSUME IInv, ReadsInit
  PROVE  \/ /\ Head(toClient) = Error(Rejection) /\ toClient' = <<Close>>
            /\ srv.pc = "closed"
         \/ /\ Head(toClient) = Hail
            /\ \/ srv.pc = "msg2" /\ toClient' = <<Offer(srv.psk)>> /\ toServer = <<>>
               \/ /\ srv.pc = "closed" /\ srv.why # "refused"
                  /\ \E p \in Psks : toClient' = <<Offer(p), Close>>
<1>1. /\ cli.pc = "init" /\ toClient # <<>> /\ Head(toClient) # Close
      /\ toClient' = Tail(toClient)
  BY DEF ReadsInit
<1>2. srv.pc \in {"msg2", "closed"}
  BY <1>1 DEF IInv, Types, ServerEnd, Phases, BeforePick, Settled
<1>3. CASE srv.pc = "msg2"
  <2>1. toClient = <<Hail, Offer(srv.psk)>> /\ toServer = <<>>
    BY <1>1, <1>3 DEF IInv, Phases, Exchange
  <2> QED BY <1>1, <1>3, <2>1, Splits
<1>4. CASE srv.pc = "closed"
  <2>1. \/ toClient \in {<<Close>>, <<Error(Rejection), Close>>}
        \/ srv.why # "refused" /\ \E p \in Psks : toClient = <<Hail, Offer(p), Close>>
    BY <1>1, <1>4 DEF IInv, Phases, Over
  <2>2. CASE toClient = <<Close>>
    BY <1>1, <2>2, Splits
  <2>3. CASE toClient = <<Error(Rejection), Close>>
    BY <1>1, <1>4, <2>3, Splits
  <2>4. ASSUME NEW p \in Psks, srv.why # "refused", toClient = <<Hail, Offer(p), Close>>
        PROVE  /\ Head(toClient) = Hail /\ srv.why # "refused"
               /\ \E o \in Psks : toClient' = <<Offer(o), Close>>
    BY <1>1, <2>4, Splits
  <2> QED BY <1>4, <2>1, <2>2, <2>3, <2>4
<1> QED BY <1>2, <1>3, <1>4

(* What it may find when it waits for message 1. *)
LEMMA Msg1Read ==
  ASSUME IInv, ReadsMsg1
  PROVE  \/ /\ srv.pc = "msg2" /\ Head(toClient) = Offer(srv.psk) /\ toClient' = <<>>
            /\ toServer = <<>>
         \/ /\ srv.pc = "closed" /\ srv.why # "refused" /\ toClient' = <<Close>>
            /\ \E p \in Psks : Head(toClient) = Offer(p)
<1>1. /\ cli.pc = "msg1" /\ toClient # <<>> /\ Head(toClient) # Close
      /\ toClient' = Tail(toClient)
  BY DEF ReadsMsg1
<1>2. srv.pc \in {"msg2", "closed"}
  BY <1>1 DEF IInv, Types, ServerEnd, Phases, BeforePick, Settled
<1>3. CASE srv.pc = "msg2"
  <2>1. toClient = <<Offer(srv.psk)>> /\ toServer = <<>>
    BY <1>1, <1>3 DEF IInv, Phases, Exchange
  <2> QED BY <1>1, <1>3, <2>1, Splits
<1>4. CASE srv.pc = "closed"
  <2>1. srv.why # "refused" /\ \E p \in Psks : toClient = <<Offer(p), Close>>
    BY <1>1, <1>4 DEF IInv, Phases, Over
  <2> QED BY <1>1, <1>4, <2>1, Splits
<1> QED BY <1>2, <1>3, <1>4

(* The server waits for message 2, and the only message there is the answer. *)
LEMMA Msg2Read ==
  ASSUME IInv, ReadsMsg2
  PROVE  /\ srv.pc = "msg2" /\ cli.pc = "up" /\ Answered
         /\ Head(toServer) = Reply(cli.psk.key) /\ toServer' = <<>> /\ toClient = <<>>
<1>1. srv.pc = "msg2" /\ toServer # <<>> /\ Head(toServer) # Close /\ toServer' = Tail(toServer)
  BY DEF ReadsMsg2
<1>2. CASE cli.pc = "closed" /\ toServer = <<Close>>
  BY <1>1, <1>2, Splits
<1>3. CASE /\ cli.pc = "up" /\ toClient = <<>> /\ toServer = <<Reply(cli.psk.key)>>
           /\ Answered
  BY <1>1, <1>3, Splits
<1> QED BY <1>1, <1>2, <1>3 DEF IInv, Phases, Exchange

LEMMA TypesStep == IInv /\ Next => Types'
<1> SUFFICES ASSUME IInv, Next PROVE Types'
  OBVIOUS
<1>1. Types
  BY DEF IInv
<1>s. srv \in ServerEnd /\ cli \in ClientEnd
  BY <1>1 DEF Types
<1>a. HandshakeAssumption'
  BY <1>1 DEF Types, HandshakeAssumption
<1>2. CASE ReadsOpening
  <2>1. srv' \in ServerEnd
    BY <1>s, <1>2 DEF ReadsOpening, ServerEnd, Ends, Whys
  <2> QED BY <1>1, <1>a, <1>2, <2>1 DEF Types, ReadsOpening
<1>3. CASE Picks
  <2>1. srv' \in ServerEnd
    BY <1>s, <1>1, <1>3, PicksPsk DEF Picks, ServerEnd, Ends, Whys
  <2> QED BY <1>1, <1>a, <1>3, <2>1 DEF Types, Picks
<1>4. CASE ReadsMsg2
  <2>1. Verifies(srv, Head(toServer).key) \in ServerEnd
    BY <1>s, <1>4 DEF Verifies, ServerEnd, Ends, Whys, Psks
  <2>2. srv' \in ServerEnd
    BY <1>4, <2>1 DEF ReadsMsg2, Admitted, ServerEnd, Ends, Whys
  <2> QED BY <1>1, <1>a, <1>4, <2>2 DEF Types, ReadsMsg2
<1>5. CASE Checks
  <2>1. srv' \in ServerEnd
    BY <1>s, <1>5 DEF Checks, ServerEnd
  <2> QED BY <1>1, <1>a, <1>5, <2>1 DEF Types, Checks
<1>6. CASE ReadsInit
  <2>1. CASE Head(toClient) = Error(Rejection)
    <3>1. Head(toClient).type = "error" /\ Head(toClient).reason \in Faults
      BY <2>1, Kinds, RejectionType
    <3>2. cli' \in ClientEnd
      BY <1>s, <1>6, <3>1 DEF ReadsInit, ClientEnd, Ends, Whys
    <3> QED BY <1>1, <1>a, <1>6, <3>2 DEF Types, ReadsInit
  <2>2. CASE Head(toClient) = Hail
    <3>1. Head(toClient).type # "error" /\ Head(toClient).server \in {1, 2}
      BY <1>1, <2>2, Kinds DEF Types
    <3>2. cli' \in ClientEnd
      BY <1>s, <1>6, <3>1 DEF ReadsInit, ClientEnd, Ends, Whys
    <3> QED BY <1>1, <1>a, <1>6, <3>2 DEF Types, ReadsInit
  <2> QED BY <1>6, <2>1, <2>2, InitRead
<1>7. CASE ReadsMsg1
  <2>1. Head(toClient).psk \in Psks
    <3>1. srv.psk \in Psks
      BY <1>s DEF ServerEnd
    <3>2. PICK p \in Psks : Head(toClient) = Offer(p)
      BY <1>7, <3>1, Msg1Read
    <3> QED BY <3>2, Kinds
  <2>2. cli' \in ClientEnd
    BY <1>s, <1>7, <2>1 DEF ReadsMsg1, ClientEnd
  <2> QED BY <1>1, <1>a, <1>7, <2>2 DEF Types, ReadsMsg1
<1>8. CASE SendsMsg2
  <2>1. cli' \in ClientEnd
    BY <1>s, <1>8 DEF SendsMsg2, Answers, ClientEnd, Ends, Whys, Psks
  <2> QED BY <1>1, <1>a, <1>8, <2>1 DEF Types, SendsMsg2
<1>9. CASE ServerLosesPeer \/ ServerTimesOut
  <2>1. srv' \in ServerEnd
    BY <1>s, <1>9 DEF ServerLosesPeer, ServerTimesOut, ServerEnd, Ends, Whys
  <2>2. past' \in [changes : Nat, timeouts : Nat, dials : Nat \ {0}]
    BY <1>1, <1>a, <1>9 DEF Types, ServerLosesPeer, ServerTimesOut, Late
  <2> QED BY <1>1, <1>a, <1>9, <2>1, <2>2 DEF Types, ServerLosesPeer, ServerTimesOut
<1>10. CASE ClientLosesPeer \/ ClientTimesOut
  <2>1. cli' \in ClientEnd
    BY <1>s, <1>10 DEF ClientLosesPeer, ClientTimesOut, ClientEnd, Ends, Whys
  <2>2. past' \in [changes : Nat, timeouts : Nat, dials : Nat \ {0}]
    BY <1>1, <1>a, <1>10 DEF Types, ClientLosesPeer, ClientTimesOut, Late
  <2> QED BY <1>1, <1>a, <1>10, <2>1, <2>2 DEF Types, ClientLosesPeer, ClientTimesOut
<1>11. CASE Drops
  BY <1>1, <1>a, <1>11 DEF Types, Drops
<1>12. CASE Changes
  <2>1. past' \in [changes : Nat, timeouts : Nat, dials : Nat \ {0}]
    BY <1>1, <1>a, <1>12 DEF Types, Changes
  <2>2. held' \in [record : Records \cup {None}, staged : Pairings \cup {None}]
    BY <1>1, <1>a, <1>12 DEF Types, Changes
  <2>3. kept' \in [records : SUBSET Records, bound : {1}, pairing : Pairings]
    BY <1>1, <1>a, <1>12 DEF Types, Changes
  <2> QED BY <1>1, <1>a, <1>12, <2>1, <2>2, <2>3 DEF Types, Changes
<1>13. CASE Redials
  <2>1. srv' \in ServerEnd
    BY <1>s, <1>13 DEF Redials, ServerEnd, Whys, Psks
  <2>2. cli' \in ClientEnd
    BY <1>s, <1>13 DEF Redials, ClientEnd, Whys, Psks
  <2>3. past' \in [changes : Nat, timeouts : Nat, dials : Nat \ {0}]
    <3>1. past \in [changes : Nat, timeouts : Nat, dials : Nat \ {0}]
      BY <1>1 DEF Types
    <3>2. past' = [past EXCEPT !.dials = @ + 1, !.changes = 0, !.timeouts = 0]
      BY <1>13 DEF Redials
    <3>3. past.dials + 1 \in Nat \ {0}
      BY <3>1
    <3>4. [past EXCEPT !.dials = past.dials + 1] \in [changes : Nat, timeouts : Nat, dials : Nat \ {0}]
      BY <3>1, <3>3
    <3> QED BY <3>1, <3>2, <3>3, <3>4
  <2> QED BY <1>1, <1>a, <1>13, <2>1, <2>2, <2>3 DEF Types, Redials
<1> QED
  BY <1>2, <1>3, <1>4, <1>5, <1>6, <1>7, <1>8, <1>9, <1>10, <1>11, <1>12, <1>13 DEF Next

-----------------------------------------------------------------------------
(* Where both ends are, and what is between them. *)

LEMMA Same ==
  ASSUME setup' = setup
  PROVE  Rejection' = Rejection /\ Hail' = Hail /\ (Ours' <=> Ours) /\ (TakesPlain => ~Ours)
BY DEF Rejection, Hail, Ours, TakesPlain

LEMMA InitPhases == Init => Phases
BY DEF Init, Phases, BeforePick, Exchange, Settled, Over, Hello, NoPsk

LEMMA ReadsOpeningPhases == IInv /\ ReadsOpening => Phases'
<1> SUFFICES ASSUME IInv, ReadsOpening PROVE Phases'
  OBVIOUS
<1>1. srv.pc = "init" /\ toServer' = Tail(toServer) /\ UNCHANGED <<setup, held, kept, cli>>
  BY DEF ReadsOpening
<1>2. /\ toClient = <<>> /\ ~srv.mismatch /\ ~cli.mismatch
      /\ \/ cli.pc = "init" /\ toServer' = <<>>
         \/ cli.pc = "closed" /\ toServer' = <<Close>> /\ Ours
  <2>1. /\ toClient = <<>> /\ ~srv.mismatch /\ ~cli.mismatch
        /\ \/ cli.pc = "init" /\ toServer = <<Hello>>
           \/ cli.pc = "closed" /\ toServer = <<Hello, Close>> /\ Ours
    BY <1>1 DEF IInv, Phases, BeforePick
  <2>2. CASE toServer = <<Hello>>
    BY <1>1, <2>1, <2>2, Splits
  <2>3. CASE toServer = <<Hello, Close>>
    BY <1>1, <2>1, <2>3, Splits
  <2> QED BY <2>1, <2>2, <2>3
<1>3. srv \in ServerEnd /\ cli \in ClientEnd
  BY DEF IInv, Types
<1>4. CASE TakesPlain
  <2>1. srv' = [srv EXCEPT !.pc = "plain"] /\ toClient' = toClient /\ ~Ours
    BY <1>1, <1>4, Same DEF ReadsOpening
  <2> QED
    BY <1>1, <1>2, <1>3, <2>1, Same
    DEF Phases, BeforePick, Exchange, Settled, Over, ServerEnd, ClientEnd
<1>5. CASE ~TakesPlain /\ Rejection # "none"
  <2>1. srv' = Ends(srv, "rejected") /\ toClient' = <<Error(Rejection), Close>>
    <3>1. /\ srv' = Ends(srv, "rejected")
          /\ toClient' = toClient \o <<[type |-> "error", reason |-> Rejection], Close>>
      BY <1>5 DEF ReadsOpening
    <3> QED BY <1>2, <3>1, Joins DEF Error
  <2> QED
    BY <1>1, <1>2, <1>3, <2>1, Same
    DEF Phases, BeforePick, Exchange, Settled, Over, Ends, ServerEnd, ClientEnd
<1>6. CASE ~TakesPlain /\ Rejection = "none"
  <2>1. srv' = [srv EXCEPT !.pc = "picking"] /\ toClient' = toClient
    BY <1>6 DEF ReadsOpening
  <2> QED
    BY <1>1, <1>2, <1>3, <2>1, Same
    DEF Phases, BeforePick, Exchange, Settled, Over, ServerEnd, ClientEnd
<1> QED BY <1>4, <1>5, <1>6

LEMMA PicksPhases == IInv /\ Picks => Phases'
<1> SUFFICES ASSUME IInv, Picks PROVE Phases'
  OBVIOUS
<1>1. srv.pc = "picking" /\ UNCHANGED <<setup, held, kept, toServer, cli>>
  BY DEF Picks
<1>2. /\ toClient = <<>> /\ ~srv.mismatch /\ ~cli.mismatch
      /\ \/ cli.pc = "init" /\ toServer = <<>>
         \/ cli.pc = "closed" /\ toServer = <<Close>>
  BY <1>1 DEF IInv, Phases, BeforePick
<1>3. srv \in ServerEnd /\ cli \in ClientEnd
  BY DEF IInv, Types
<1>4. CASE PskProvider(held) = NoPsk
  <2>1. srv' = Ends(srv, "refused") /\ toClient' = <<Close>>
    BY <1>2, <1>4, Joins DEF Picks, Sends
  <2> QED
    BY <1>1, <1>2, <1>3, <2>1, Same
    DEF Phases, BeforePick, Exchange, Settled, Over, Ends, ServerEnd, ClientEnd
<1>5. CASE PskProvider(held) # NoPsk
  <2>1. /\ srv' = [srv EXCEPT !.pc = "msg2", !.psk = PskProvider(held)]
        /\ toClient' = <<Hail, Offer(PskProvider(held))>>
    BY <1>2, <1>5, Joins DEF Picks, Hail, Offer
  <2>2. srv.attempt = "psk" => PskProvider(held) = Pairing(setup.tried)
    BY <1>5 DEF PskProvider
  <2>3. /\ srv'.pc = "msg2" /\ srv'.psk = PskProvider(held) /\ srv'.attempt = srv.attempt
        /\ srv'.mismatch = srv.mismatch
    BY <1>3, <2>1 DEF ServerEnd
  <2>4. Hail' = Hail /\ Offer(srv.psk)' = Offer(PskProvider(held))
    BY <1>1, <2>3, Same DEF Offer
  <2>5. Exchange'
    BY <1>1, <1>2, <1>5, <2>1, <2>2, <2>3, <2>4 DEF Exchange
  <2> QED
    BY <1>1, <1>2, <2>3, <2>5 DEF Phases, BeforePick, Settled, Over
<1> QED BY <1>4, <1>5

(* What the server makes of the answer. *)
LEMMA Verdict ==
  ASSUME IInv, ReadsMsg2
  PROVE  \/ /\ cli.psk = srv.psk /\ ~cli.mismatch
            /\ srv' = [srv EXCEPT !.pc = "checking"] /\ toClient' = <<>>
         \/ /\ cli.psk = Sentinel /\ cli.mismatch /\ srv.attempt = "none"
            /\ srv' = [srv EXCEPT !.pc = "checking", !.psk = Sentinel, !.mismatch = TRUE]
            /\ toClient' = <<>>
         \/ /\ cli.mismatch /\ srv.attempt # "none" /\ toClient' = <<Close>>
            /\ srv' = [srv EXCEPT !.pc = "closed", !.psk = Sentinel, !.mismatch = TRUE,
                                  !.why = "no attempt"]
<1>1. /\ Answered /\ Head(toServer) = Reply(cli.psk.key) /\ toClient = <<>>
      /\ Head(toServer).key = cli.psk.key
  BY Msg2Read, Kinds
<1>2. srv \in ServerEnd /\ srv.psk \in Psks /\ srv.psk # NoPsk /\ ~srv.mismatch
      /\ HandshakeAssumption
  BY Msg2Read DEF IInv, Types, ServerEnd, Phases, Exchange
<1>3. /\ srv' = Admitted(Verifies(srv, cli.psk.key))
      /\ toClient' = IF srv'.pc = "closed" THEN Sends(toClient, Close) ELSE toClient
  BY <1>1 DEF ReadsMsg2
<1>4. CASE cli.psk = srv.psk /\ ~cli.mismatch
  BY <1>1, <1>2, <1>3, <1>4 DEF Verifies, Admitted, ServerEnd
<1>5. CASE cli.psk = Sentinel /\ cli.mismatch /\ srv.psk.category # "sentinel"
  <2>1. /\ cli.psk.key # srv.psk.key /\ cli.psk.key = Sentinel.key
    BY <1>2, <1>5, PskFacts
  <2>2. Verifies(srv, cli.psk.key)
          = [srv EXCEPT !.pc = "checking", !.psk = Sentinel, !.mismatch = TRUE]
    BY <1>5, <2>1 DEF Verifies
  <2>3. CASE srv.attempt = "none"
    BY <1>1, <1>2, <1>3, <1>5, <2>2, <2>3 DEF Admitted, ServerEnd
  <2>4. CASE srv.attempt # "none"
    <3>1. srv' = [srv EXCEPT !.pc = "closed", !.psk = Sentinel, !.mismatch = TRUE,
                             !.why = "no attempt"]
      BY <1>2, <1>3, <2>2, <2>4 DEF Admitted, Ends, ServerEnd
    <3>2. srv'.pc = "closed"
      BY <1>2, <3>1 DEF ServerEnd
    <3>3. toClient' = <<Close>>
      BY <1>1, <1>3, <3>2, Joins DEF Sends
    <3> QED BY <1>5, <2>4, <3>1, <3>3
  <2> QED BY <2>3, <2>4
<1> QED BY <1>1, <1>4, <1>5 DEF Answered

LEMMA ReadsMsg2Phases == IInv /\ ReadsMsg2 => Phases'
<1> SUFFICES ASSUME IInv, ReadsMsg2 PROVE Phases'
  OBVIOUS
<1>1. /\ srv.pc = "msg2" /\ cli.pc = "up" /\ Answered /\ toServer' = <<>>
      /\ UNCHANGED <<setup, held, kept, cli>>
  BY Msg2Read DEF ReadsMsg2
<1>2. /\ srv \in ServerEnd /\ cli \in ClientEnd /\ srv.psk # NoPsk /\ ~srv.mismatch
      /\ srv.attempt = "psk" => srv.psk = Pairing(setup.tried)
  BY <1>1 DEF IInv, Types, Phases, Exchange
<1>3. CASE /\ cli.psk = srv.psk /\ ~cli.mismatch
           /\ srv' = [srv EXCEPT !.pc = "checking"] /\ toClient' = <<>>
  BY <1>1, <1>2, <1>3
  DEF Phases, BeforePick, Exchange, Settled, Over, ServerEnd, ClientEnd, Answered
<1>4. CASE /\ cli.psk = Sentinel /\ cli.mismatch /\ srv.attempt = "none"
           /\ srv' = [srv EXCEPT !.pc = "checking", !.psk = Sentinel, !.mismatch = TRUE]
           /\ toClient' = <<>>
  BY <1>1, <1>2, <1>4
  DEF Phases, BeforePick, Exchange, Settled, Over, ServerEnd, ClientEnd, Sentinel, NoPsk
<1>5. CASE /\ cli.mismatch /\ srv.attempt # "none" /\ toClient' = <<Close>>
           /\ srv' = [srv EXCEPT !.pc = "closed", !.psk = Sentinel, !.mismatch = TRUE,
                                 !.why = "no attempt"]
  BY <1>1, <1>2, <1>5
  DEF Phases, BeforePick, Exchange, Settled, Over, ServerEnd, ClientEnd
<1> QED BY <1>3, <1>4, <1>5, Verdict

LEMMA ChecksPhases == IInv /\ Checks => Phases'
<1> SUFFICES ASSUME IInv, Checks PROVE Phases'
  OBVIOUS
<1>1. /\ srv.pc = "checking" /\ UNCHANGED <<setup, held, kept, toServer, toClient, cli>>
      /\ srv' = [srv EXCEPT !.pc = "up", !.repair = srv.mismatch /\ held.record # None]
  BY DEF Checks
<1>2. srv \in ServerEnd /\ cli \in ClientEnd /\ Settled
  BY DEF IInv, Types, Phases
<1> QED
  BY <1>1, <1>2 DEF Phases, BeforePick, Exchange, Settled, Over, ServerEnd, ClientEnd

LEMMA ReadsInitPhases == IInv /\ ReadsInit => Phases'
<1> SUFFICES ASSUME IInv, ReadsInit PROVE Phases'
  OBVIOUS
<1>1. UNCHANGED <<setup, held, kept, srv>>
  BY DEF ReadsInit
<1>2. srv \in ServerEnd /\ cli \in ClientEnd /\ ~cli.mismatch /\ cli.pc = "init"
  BY DEF IInv, Types, Phases, BeforePick, ReadsInit
<1>3. CASE Head(toClient) = Error(Rejection) /\ srv.pc = "closed"
  <2>1. cli' = [Ends(cli, "rejected") EXCEPT !.reason = Rejection]
    <3>1. Head(toClient).type = "error" /\ Head(toClient).reason = Rejection
      BY <1>3, Kinds
    <3> QED BY <3>1 DEF ReadsInit
  <2>2. cli'.pc = "closed" /\ srv'.pc = "closed"
    BY <1>1, <1>2, <1>3, <2>1 DEF Ends, ClientEnd
  <2> QED BY <2>2 DEF Phases, BeforePick, Exchange, Settled, Over
<1>4. CASE Head(toClient) = Hail
  <2>1. \/ /\ cli' = [cli EXCEPT !.pc = "closed", !.why = "other server"]
           /\ toServer' = Append(toServer, Close)
        \/ /\ cli' = [cli EXCEPT !.pc = "msg1", !.server = setup.server]
           /\ toServer' = toServer
    BY <1>4, Kinds DEF ReadsInit, Ends, Sends
  <2>2. CASE srv.pc = "msg2" /\ toClient' = <<Offer(srv.psk)>> /\ toServer = <<>>
    <3>1. /\ ~srv.mismatch /\ srv.psk # NoPsk
          /\ srv.attempt = "psk" => srv.psk = Pairing(setup.tried)
      BY <2>2 DEF IInv, Phases, Exchange
    <3>2. \/ cli'.pc = "closed" /\ toServer' = <<Close>> /\ ~cli'.mismatch
          \/ cli'.pc = "msg1" /\ toServer' = <<>> /\ ~cli'.mismatch
      BY <1>2, <2>1, <2>2, Joins DEF ClientEnd
    <3>3. Offer(srv.psk)' = Offer(srv.psk)
      BY <1>1 DEF Offer
    <3> QED
      BY <1>1, <2>2, <3>1, <3>2, <3>3
      DEF Phases, BeforePick, Exchange, Settled, Over
  <2>3. CASE /\ srv.pc = "closed" /\ srv.why # "refused"
             /\ \E p \in Psks : toClient' = <<Offer(p), Close>>
    <3>1. cli'.pc \in {"msg1", "closed"} /\ ~cli'.mismatch
      BY <1>2, <2>1 DEF ClientEnd
    <3>2. PICK p \in Psks : toClient' = <<Offer(p), Close>>
      BY <2>3
    <3>3. Over'
      BY <1>1, <2>3, <3>1, <3>2 DEF Over, Offer
    <3> QED
      BY <1>1, <2>3, <3>1, <3>3 DEF Phases, BeforePick, Exchange, Settled
  <2> QED BY <1>4, <2>2, <2>3, InitRead, Kinds
<1> QED BY <1>3, <1>4, InitRead

LEMMA ReadsMsg1Phases == IInv /\ ReadsMsg1 => Phases'
<1> SUFFICES ASSUME IInv, ReadsMsg1 PROVE Phases'
  OBVIOUS
<1>1. UNCHANGED <<setup, held, kept, srv, toServer>>
  BY DEF ReadsMsg1
<1>2. srv \in ServerEnd /\ cli \in ClientEnd /\ ~cli.mismatch
  BY DEF IInv, Types, Phases, BeforePick, ReadsMsg1
<1>3. cli' = [cli EXCEPT !.pc = "resolving", !.psk = Head(toClient).psk]
  BY DEF ReadsMsg1
<1>4. cli'.pc = "resolving" /\ ~cli'.mismatch /\ cli'.psk = Head(toClient).psk
  BY <1>2, <1>3 DEF ClientEnd
<1>5. CASE srv.pc = "msg2" /\ Head(toClient) = Offer(srv.psk) /\ toClient' = <<>> /\ toServer = <<>>
  <2>1. /\ ~srv.mismatch /\ srv.psk # NoPsk
        /\ srv.attempt = "psk" => srv.psk = Pairing(setup.tried)
    BY <1>5 DEF IInv, Phases, Exchange
  <2>2. cli'.psk = srv.psk
    BY <1>4, <1>5, Kinds
  <2> QED
    BY <1>1, <1>4, <1>5, <2>1, <2>2 DEF Phases, BeforePick, Exchange, Settled, Over
<1>6. CASE srv.pc = "closed" /\ srv.why # "refused" /\ toClient' = <<Close>>
  BY <1>1, <1>4, <1>6 DEF Phases, BeforePick, Exchange, Settled, Over
<1> QED BY <1>5, <1>6, Msg1Read

(* What the client makes of the offer. *)
LEMMA Answering ==
  ASSUME IInv, SendsMsg2
  PROVE  /\ srv.pc \in {"msg2", "closed"} /\ ~cli.mismatch
         /\ \/ /\ cli' = [cli EXCEPT !.pc = "up"] /\ toServer' = Append(toServer, Reply(cli.psk.key))
               /\ Resolves(kept, cli.psk)
               /\ cli.psk.category = "long_term" => cli.server = kept.bound
            \/ /\ cli' = [cli EXCEPT !.pc = "up", !.psk = Sentinel, !.mismatch = TRUE]
               /\ toServer' = Append(toServer, Reply(Sentinel.key)) /\ ~Resolves(kept, cli.psk)
            \/ /\ cli' = [cli EXCEPT !.pc = "closed", !.why = "misbound"]
               /\ toServer' = Append(toServer, Close) /\ Resolves(kept, cli.psk)
               /\ cli.psk.category = "long_term" /\ cli.server # kept.bound
<1>1. cli.pc = "resolving" /\ cli' = Answers(cli, kept)
  BY DEF SendsMsg2
<1>2. toServer' = Append(toServer, IF cli'.pc = "closed" THEN Close ELSE Reply(cli'.psk.key))
  BY <1>1 DEF SendsMsg2, Sends, Reply
<1>3. srv.pc \in {"msg2", "closed"} /\ ~cli.mismatch /\ cli \in ClientEnd
  BY <1>1 DEF IInv, Types, ServerEnd, Phases, BeforePick, Settled
<1>4. CASE ~Resolves(kept, cli.psk)
  <2>1. cli' = [cli EXCEPT !.pc = "up", !.psk = Sentinel, !.mismatch = TRUE]
    BY <1>1, <1>4 DEF Answers
  <2>2. cli'.pc = "up" /\ cli'.psk = Sentinel
    BY <1>3, <2>1 DEF ClientEnd
  <2> QED BY <1>2, <1>3, <1>4, <2>1, <2>2
<1>5. CASE Resolves(kept, cli.psk) /\ cli.psk.category = "long_term" /\ kept.bound # cli.server
  <2>1. cli' = [cli EXCEPT !.pc = "closed", !.why = "misbound"]
    BY <1>1, <1>5 DEF Answers, Ends
  <2>2. cli'.pc = "closed"
    BY <1>3, <2>1 DEF ClientEnd
  <2> QED BY <1>2, <1>3, <1>5, <2>1, <2>2
<1>6. CASE Resolves(kept, cli.psk) /\ ~(cli.psk.category = "long_term" /\ kept.bound # cli.server)
  <2>1. cli' = [cli EXCEPT !.pc = "up"]
    BY <1>1, <1>6 DEF Answers
  <2>2. cli'.pc = "up" /\ cli'.psk = cli.psk
    BY <1>3, <2>1 DEF ClientEnd
  <2> QED BY <1>2, <1>3, <1>6, <2>1, <2>2
<1> QED BY <1>4, <1>5, <1>6

LEMMA SendsMsg2Phases == IInv /\ SendsMsg2 => Phases'
<1> SUFFICES ASSUME IInv, SendsMsg2 PROVE Phases'
  OBVIOUS
<1>1. cli.pc = "resolving" /\ UNCHANGED <<setup, held, kept, srv, toClient>>
  BY DEF SendsMsg2
<1>2. /\ srv \in ServerEnd /\ cli \in ClientEnd /\ ~cli.mismatch /\ srv.pc \in {"msg2", "closed"}
      /\ cli'.pc \in {"up", "closed"}
  <2>1. cli \in ClientEnd
    BY DEF IInv, Types
  <2>2. cli'.pc \in {"up", "closed"}
    BY <2>1, Answering DEF ClientEnd
  <2> QED BY <2>1, <2>2, Answering DEF IInv, Types
<1>3. CASE srv.pc = "closed"
  <2>1. toClient = <<Close>>
    BY <1>1, <1>3 DEF IInv, Phases, Over
  <2>2. srv.why # "refused"
    BY <1>1, <1>3 DEF IInv, Phases, Over
  <2> QED
    BY <1>1, <1>2, <1>3, <2>1, <2>2 DEF Phases, BeforePick, Exchange, Settled, Over
<1>4. CASE srv.pc = "msg2"
  <2>1. /\ ~srv.mismatch /\ srv.psk # NoPsk /\ cli.psk = srv.psk /\ toClient = <<>>
        /\ toServer = <<>>
        /\ srv.attempt = "psk" => srv.psk = Pairing(setup.tried)
    BY <1>1, <1>4 DEF IInv, Phases, Exchange
  <2>s. ASSUME NEW m PROVE Append(toServer, m) = <<m>>
    BY <2>1
  <2>2. \/ cli'.pc = "up" /\ toServer' = <<Reply(cli'.psk.key)>> /\ Answered'
        \/ cli'.pc = "closed" /\ toServer' = <<Close>>
    <3>1. CASE /\ cli' = [cli EXCEPT !.pc = "up"]
               /\ toServer' = Append(toServer, Reply(cli.psk.key))
               /\ cli.psk.category = "long_term" => cli.server = kept.bound
      <4>1. cli'.pc = "up" /\ cli'.psk = cli.psk /\ ~cli'.mismatch /\ cli'.server = cli.server
        BY <1>2, <3>1 DEF ClientEnd
      <4> QED BY <1>1, <2>1, <3>1, <4>1, <2>s DEF Answered
    <3>2. CASE /\ cli' = [cli EXCEPT !.pc = "up", !.psk = Sentinel, !.mismatch = TRUE]
               /\ toServer' = Append(toServer, Reply(Sentinel.key)) /\ ~Resolves(kept, cli.psk)
      <4>1. cli'.pc = "up" /\ cli'.psk = Sentinel /\ cli'.mismatch
        BY <1>2, <3>2 DEF ClientEnd
      <4>2. srv'.psk.category # "sentinel"
        BY <1>1, <2>1, <3>2 DEF Resolves
      <4>3. Sentinel.category # "long_term"
        BY DEF Sentinel
      <4> QED BY <1>1, <2>1, <3>2, <4>1, <4>2, <4>3, <2>s DEF Answered
    <3>3. CASE /\ cli' = [cli EXCEPT !.pc = "closed", !.why = "misbound"]
               /\ toServer' = Append(toServer, Close)
      BY <1>2, <2>s, <3>3 DEF ClientEnd
    <3> QED BY <3>1, <3>2, <3>3, Answering
  <2>3. Exchange'
    <3>1. Reply(cli.psk.key)' = Reply(cli'.psk.key)
      BY DEF Reply
    <3> QED BY <1>1, <1>4, <2>1, <2>2, <3>1 DEF Exchange
  <2> QED BY <1>1, <1>2, <1>4, <2>3 DEF Phases, BeforePick, Settled, Over
<1> QED BY <1>2, <1>3, <1>4

LEMMA ServerLosesPeerPhases == IInv /\ ServerLosesPeer => Phases'
<1> SUFFICES ASSUME IInv, ServerLosesPeer PROVE Phases'
  OBVIOUS
<1>1. /\ toServer # <<>> /\ Head(toServer) = Close
      /\ UNCHANGED <<setup, held, kept, toClient, cli>>
  BY DEF ServerLosesPeer
<1>2. srv \in ServerEnd /\ cli \in ClientEnd
  BY DEF IInv, Types
<1>3. CASE srv.pc = "closed"
  <2>1. srv' = srv
    BY <1>3 DEF ServerLosesPeer
  <2>2. Over'
    BY <1>1, <1>3, <2>1, Same DEF IInv, Phases, Over, Offer, Error
  <2> QED
    BY <1>1, <1>3, <2>1, <2>2 DEF IInv, Phases, BeforePick, Exchange, Settled
<1>4. CASE srv.pc # "closed"
  <2>1. srv'.pc = "closed" /\ cli' = cli
    BY <1>1, <1>2, <1>4 DEF ServerLosesPeer, Ends, ServerEnd
  <2>2. toServer # <<Hello>> /\ toServer # <<Hello, Close>>
    BY <1>1, Splits, Kinds
  <2>3. \A k : toServer # <<Reply(k)>>
    BY <1>1, Splits, Kinds
  <2>4. cli.pc = "closed"
    BY <1>1, <1>2, <1>4, <2>2, <2>3
    DEF IInv, Phases, BeforePick, Exchange, Settled, ServerEnd
  <2> QED BY <2>1, <2>4 DEF Phases, BeforePick, Exchange, Settled, Over
<1> QED BY <1>3, <1>4

LEMMA ClientLosesPeerPhases == IInv /\ ClientLosesPeer => Phases'
<1> SUFFICES ASSUME IInv, ClientLosesPeer PROVE Phases'
  OBVIOUS
<1>1. /\ toClient # <<>> /\ Head(toClient) = Close
      /\ UNCHANGED <<setup, held, kept, toServer, srv>>
  BY DEF ClientLosesPeer
<1>2. srv \in ServerEnd /\ cli \in ClientEnd /\ cli'.pc = "closed"
  BY DEF IInv, Types, ClientLosesPeer, Ends, ClientEnd
<1>3. srv.pc \in {"msg2", "closed"}
  BY <1>1, <1>2 DEF IInv, Phases, BeforePick, Settled, ServerEnd
<1>4. CASE srv.pc = "msg2"
  <2>1. cli.pc = "closed"
    <3>1. \A p : toClient # <<Hail, Offer(p)>> /\ toClient # <<Offer(p)>>
      BY <1>1, Splits, Kinds
    <3> QED BY <1>1, <1>4, <3>1 DEF IInv, Phases, Exchange
  <2>2. cli' = cli
    BY <2>1 DEF ClientLosesPeer
  <2> QED
    BY <1>1, <1>2, <1>4, <2>1, <2>2 DEF IInv, Phases, BeforePick, Exchange, Settled, Over
<1>5. CASE srv.pc = "closed"
  BY <1>1, <1>2, <1>5 DEF Phases, BeforePick, Exchange, Settled, Over
<1> QED BY <1>3, <1>4, <1>5

LEMMA DropsPhases == IInv /\ Drops => Phases'
<1> SUFFICES ASSUME IInv, Drops PROVE Phases'
  OBVIOUS
<1>1. UNCHANGED <<setup, held, kept, srv, cli>>
  BY DEF Drops
<1>2. CASE srv.pc = "closed" /\ toClient' = toClient
  <2>1. Over'
    BY <1>1, <1>2, Same DEF IInv, Phases, Over, Offer, Error
  <2> QED
    BY <1>1, <1>2, <2>1 DEF IInv, Phases, BeforePick, Exchange, Settled
<1>3. CASE cli.pc = "closed" /\ toClient' = <<>> /\ toServer' = toServer
  <2>1. srv.pc \notin {"plain", "checking", "up"}
    BY <1>3 DEF IInv, Phases, BeforePick, Settled
  <2> QED
    BY <1>1, <1>3, <2>1, Same DEF IInv, Phases, BeforePick, Exchange, Settled, Over, Hello
<1> QED BY <1>2, <1>3 DEF Drops

LEMMA ServerTimesOutPhases == IInv /\ ServerTimesOut => Phases'
<1> SUFFICES ASSUME IInv, ServerTimesOut PROVE Phases'
  OBVIOUS
<1>1. /\ srv.pc \in {"init", "msg2"} /\ toClient' = Append(toClient, Close)
      /\ UNCHANGED <<setup, held, kept, toServer, cli>>
  BY DEF ServerTimesOut, Sends
<1>2. srv \in ServerEnd /\ srv'.pc = "closed" /\ srv'.why = "timeout" /\ cli' = cli
  <2>1. srv \in ServerEnd
    BY DEF IInv, Types
  <2> QED BY <1>1, <2>1 DEF ServerTimesOut, Ends, ServerEnd
<1>3. Over'
  <2>1. CASE cli.pc = "closed"
    BY <1>2, <2>1 DEF Over
  <2>2. CASE cli.pc = "init" /\ toClient = <<>>
    <3>1. toClient' = <<Close>>
      BY <1>1, <2>2
    <3> QED BY <1>2, <2>2, <3>1 DEF Over
  <2>3. CASE cli.pc = "init" /\ toClient = <<Hail, Offer(srv.psk)>>
    <3>1. toClient' = <<Hail, Offer(srv.psk), Close>> /\ srv.psk \in Psks
      BY <1>1, <1>2, <2>3, Joins, ZenonT(30) DEF ServerEnd
    <3>2. Hail' = Hail /\ \A p : Offer(p)' = Offer(p)
      BY <1>1, Same DEF Offer
    <3> QED BY <1>2, <2>3, <3>1, <3>2 DEF Over, Offer, Psks
  <2>4. CASE cli.pc = "msg1" /\ toClient = <<Offer(srv.psk)>>
    <3>1. toClient' = <<Offer(srv.psk), Close>> /\ srv.psk \in Psks
      BY <1>1, <1>2, <2>4, Joins DEF ServerEnd
    <3> QED BY <1>2, <2>4, <3>1 DEF Over, Offer, Psks
  <2>5. CASE cli.pc \in {"resolving", "up"} /\ toClient = <<>>
    <3>1. toClient' = <<Close>>
      BY <1>1, <2>5
    <3> QED BY <1>2, <2>5, <3>1 DEF Over
  <2>6. CASE srv.pc = "init"
    BY <2>1, <2>2, <2>6 DEF IInv, Phases, BeforePick
  <2>7. CASE srv.pc = "msg2"
    <3>1. \/ cli.pc = "init" /\ toClient = <<Hail, Offer(srv.psk)>>
          \/ cli.pc = "msg1" /\ toClient = <<Offer(srv.psk)>>
          \/ cli.pc \in {"resolving", "up"} /\ toClient = <<>>
          \/ cli.pc = "closed"
      BY <2>7 DEF IInv, Phases, Exchange
    <3> QED BY <2>1, <2>3, <2>4, <2>5, <3>1
  <2>8. srv.pc \in {"init", "msg2"}
    BY <1>1
  <2> QED BY <2>6, <2>7, <2>8
<1>4. cli.pc \in {"init", "msg1", "resolving"} => ~cli.mismatch
  BY DEF IInv, Phases, BeforePick
<1> QED BY <1>2, <1>3, <1>4 DEF Phases, BeforePick, Exchange, Settled

LEMMA ClientTimesOutPhases == IInv /\ ClientTimesOut => Phases'
<1> SUFFICES ASSUME IInv, ClientTimesOut PROVE Phases'
  OBVIOUS
<1>1. /\ Ours /\ cli.pc \in {"init", "msg1", "resolving"} /\ toServer' = Append(toServer, Close)
      /\ UNCHANGED <<setup, held, kept, toClient, srv>>
  BY DEF ClientTimesOut, Sends
<1>2. srv \in ServerEnd /\ cli'.pc = "closed" /\ ~cli.mismatch /\ ~cli'.mismatch
  <2>1. srv \in ServerEnd /\ cli \in ClientEnd /\ ~cli.mismatch
    BY <1>1 DEF IInv, Types, Phases, BeforePick
  <2> QED BY <2>1 DEF ClientTimesOut, Ends, ClientEnd
<1>3. srv.pc \in {"init", "picking", "msg2", "closed"}
  BY <1>1, <1>2 DEF IInv, Phases, BeforePick, Settled, ServerEnd
<1>4. CASE srv.pc = "init"
  <2>1. toServer = <<Hello>> /\ toClient = <<>> /\ ~srv.mismatch
    BY <1>1, <1>4 DEF IInv, Phases, BeforePick
  <2>2. toServer' = <<Hello, Close>>
    BY <1>1, <2>1, Joins
  <2>3. Hello' = Hello
    BY DEF Hello
  <2> QED
    BY <1>1, <1>2, <1>4, <2>1, <2>2, <2>3, Same
    DEF Phases, BeforePick, Exchange, Settled, Over
<1>5. CASE srv.pc \in {"picking", "msg2"}
  <2>1. toServer = <<>>
    BY <1>1, <1>5 DEF IInv, Phases, BeforePick, Exchange
  <2>2. toServer' = <<Close>>
    BY <1>1, <2>1
  <2> QED
    BY <1>1, <1>2, <1>5, <2>2 DEF IInv, Phases, BeforePick, Exchange, Settled, Over
<1>6. CASE srv.pc = "closed"
  BY <1>1, <1>2, <1>6 DEF Phases, BeforePick, Exchange, Settled, Over
<1> QED BY <1>3, <1>4, <1>5, <1>6

LEMMA ChangesPhases == IInv /\ Changes => Phases'
<1> SUFFICES ASSUME IInv, Changes PROVE Phases'
  OBVIOUS
<1>1. UNCHANGED <<setup, toServer, toClient, srv, cli>>
  BY DEF Changes
<1>2. kept'.bound = kept.bound
  BY DEF IInv, Types, Changes
<1> QED
  BY <1>1, <1>2, Same
  DEF IInv, Phases, BeforePick, Exchange, Settled, Over, Answered, Hello, Reply, Offer, Error

LEMMA RedialsPhases == IInv /\ Redials => Phases'
<1> SUFFICES ASSUME IInv, Redials PROVE Phases'
  OBVIOUS
<1>1. srv'.pc = "init" /\ ~srv'.mismatch /\ cli'.pc = "init" /\ ~cli'.mismatch
  <2>1. srv \in ServerEnd /\ cli \in ClientEnd
    BY DEF IInv, Types
  <2> QED BY <2>1 DEF Redials, ServerEnd, ClientEnd
<1>2. toServer' = <<Hello>> /\ toClient' = <<>>
  BY DEF Redials, Hello
<1>3. Hello' = Hello
  BY DEF Hello
<1> QED BY <1>1, <1>2, <1>3 DEF Phases, BeforePick, Exchange, Settled, Over

LEMMA PhasesStep == IInv /\ Next => Phases'
BY ReadsOpeningPhases, PicksPhases, ReadsMsg2Phases, ChecksPhases, ReadsInitPhases,
   ReadsMsg1Phases, SendsMsg2Phases, ServerLosesPeerPhases, ClientLosesPeerPhases, DropsPhases,
   ServerTimesOutPhases, ClientTimesOutPhases, ChangesPhases, RedialsPhases
DEF Next

-----------------------------------------------------------------------------
(* Why the server gave up, and what the client knew. *)

LEMMA InitReasons == Init => Reasons
BY DEF Init, Reasons, None

LEMMA ReasonsStep == IInv /\ Next => Reasons'
<1> SUFFICES ASSUME IInv, Next PROVE Reasons'
  OBVIOUS
<1>1. srv \in ServerEnd /\ cli \in ClientEnd /\ past \in [changes : Nat, timeouts : Nat, dials : Nat \ {0}]
  BY DEF IInv, Types
<1>2. CASE ReadsOpening
  BY <1>1, <1>2 DEF IInv, Reasons, ReadsOpening, Ends, ServerEnd
<1>3. CASE Picks
  BY <1>1, <1>3 DEF IInv, Reasons, Picks, Ends, ServerEnd
<1>4. CASE ReadsMsg2
  <2>1. /\ srv'.why \in {srv.why, "no attempt"}
        /\ srv'.why # srv.why => srv'.pc = "closed"
        /\ srv'.pc \notin {"init", "picking"} /\ cli' = cli /\ past' = past
    BY <1>1, <1>4, Verdict DEF ReadsMsg2, ServerEnd
  <2> QED BY <1>1, <1>4, <2>1 DEF IInv, Reasons, ReadsMsg2
<1>5. CASE Checks
  BY <1>1, <1>5 DEF IInv, Reasons, Checks, ServerEnd
<1>6. CASE ReadsInit
  <2>1. srv' = srv /\ past' = past
    BY <1>6 DEF ReadsInit
  <2>2. CASE Head(toClient) = Error(Rejection)
    <3>1. Head(toClient).type = "error"
      BY <2>2, Kinds
    <3>2. cli'.server = cli.server
      BY <1>1, <1>6, <3>1 DEF ReadsInit, Ends, ClientEnd
    <3> QED BY <2>1, <3>2 DEF IInv, Reasons
  <2>3. CASE srv.pc \notin {"init", "picking"} /\ srv.why # "refused"
    BY <2>1, <2>3 DEF IInv, Reasons
  <2>4. CASE srv.pc = "msg2"
    BY <2>1, <2>4 DEF IInv, Reasons
  <2> QED BY <1>6, <2>2, <2>3, <2>4, InitRead
<1>7. CASE ReadsMsg1
  BY <1>1, <1>7 DEF IInv, Reasons, ReadsMsg1, ClientEnd
<1>8. CASE SendsMsg2
  BY <1>1, <1>8 DEF IInv, Reasons, SendsMsg2, Answers, Ends, ClientEnd
<1>9. CASE ServerLosesPeer \/ ServerTimesOut
  BY <1>1, <1>9 DEF IInv, Reasons, ServerLosesPeer, ServerTimesOut, Late, Ends, ServerEnd
<1>10. CASE ClientLosesPeer \/ ClientTimesOut
  BY <1>1, <1>10 DEF IInv, Reasons, ClientLosesPeer, ClientTimesOut, Late, Ends, ClientEnd
<1>11. CASE Drops
  BY <1>11 DEF IInv, Reasons, Drops
<1>12. CASE Changes
  BY <1>1, <1>12 DEF IInv, Reasons, Changes
<1>13. CASE Redials
  <2>1. srv'.why = "none" /\ srv'.pc = "init"
    BY <1>1, <1>13 DEF Redials, ServerEnd
  <2>2. past'.dials = past.dials + 1
    BY <1>1, <1>13 DEF Redials
  <2>3. past'.dials # 1
    BY <1>1, <2>2
  <2> QED BY <2>1, <2>3 DEF Reasons
<1> QED
  BY <1>2, <1>3, <1>4, <1>5, <1>6, <1>7, <1>8, <1>9, <1>10, <1>11, <1>12, <1>13 DEF Next

-----------------------------------------------------------------------------
(* The undisturbed story. *)

(* What the stores say does not change while nothing is stored. *)
LEMMA Steady ==
  ASSUME UNCHANGED <<setup, held, kept>>, srv'.attempt = srv.attempt
  PROVE  /\ Rejection' = Rejection /\ PskProvider(held)' = PskProvider(held)
         /\ (Ours' <=> Ours) /\ (Lacks' <=> Lacks) /\ (Refused' <=> Refused)
         /\ (Admissible' <=> Admissible) /\ Expected' = Expected
<1>1. Rejection' = Rejection /\ (Ours' <=> Ours)
  BY Same
<1>2. Lacks' <=> Lacks
  BY DEF Lacks, Attempted
<1>3. Refused' <=> Refused
  BY <1>2 DEF Refused, Attempted
<1>4. PskProvider(held)' = PskProvider(held)
  BY DEF PskProvider
<1>5. Admissible' <=> Admissible
  BY <1>1, <1>2, <1>3 DEF Admissible
<1>6. Expected' = Expected
  BY <1>2 DEF Expected, Attempted
<1> QED BY <1>1, <1>2, <1>3, <1>4, <1>5, <1>6

(* The attempt of a dial does not change until the next. *)
LEMMA SameAttempt ==
  ASSUME IInv, Next, ~Redials
  PROVE  srv'.attempt = srv.attempt
<1>1. srv \in ServerEnd
  BY DEF IInv, Types
<1>2. CASE ReadsMsg2
  BY <1>1, <1>2, Verdict DEF ServerEnd
<1>3. CASE ~ReadsMsg2
  BY <1>1, <1>3
  DEF Next, ReadsOpening, Picks, Checks, ReadsInit, ReadsMsg1, SendsMsg2, ServerLosesPeer,
      ClientLosesPeer, Drops, ServerTimesOut, ClientTimesOut, Changes, Ends, ServerEnd
<1> QED BY <1>2, <1>3

(* What is undisturbed after a step was so before, and the step is none of the *)
(* disturbances.                                                             *)
LEMMA StaysQuiet ==
  ASSUME IInv, Next, ~Redials, Undisturbed'
  PROVE  /\ Undisturbed /\ UNCHANGED <<setup, held, kept>> /\ srv'.attempt = srv.attempt
         /\ ~ServerTimesOut /\ ~ClientTimesOut /\ ~Changes
<1>1. past \in [changes : Nat, timeouts : Nat, dials : Nat \ {0}]
  BY DEF IInv, Types
<1>2. ~Late
  <2>1. Late => past'.timeouts = past.timeouts + 1
    BY <1>1 DEF Late
  <2> QED BY <1>1, <2>1 DEF Undisturbed
<1>3. ~Changes
  <2>1. Changes => past'.changes = past.changes + 1
    BY <1>1 DEF Changes
  <2> QED BY <1>1, <2>1 DEF Undisturbed
<1>4. ~ServerTimesOut /\ ~ClientTimesOut
  BY <1>2 DEF ServerTimesOut, ClientTimesOut
<1>5. UNCHANGED <<setup, held, kept, past>>
  BY <1>3, <1>4
  DEF Next, ReadsOpening, Picks, ReadsMsg2, Checks, ReadsInit, ReadsMsg1, SendsMsg2,
      ServerLosesPeer, ClientLosesPeer, Drops
<1> QED BY <1>3, <1>4, <1>5, SameAttempt DEF Undisturbed

(* The server's pick against what both sides have stored. *)
LEMMA PickSays ==
  ASSUME Types
  PROVE  /\ PskProvider(held) = NoPsk <=> Attempted /\ ~setup.meant
         /\ PskProvider(held) # NoPsk =>
              /\ Resolves(kept, PskProvider(held)) <=> ~Lacks
              /\ ~Lacks => PskProvider(held) = Expected
              /\ PskProvider(held).category = "long_term" <=>
                   srv.attempt = "none" /\ held.record # None
<1>1. srv.attempt \in {"none", "psk", "code"}
  BY DEF Types, ServerEnd
<1>2. CASE srv.attempt = "psk"
  BY <1>2 DEF PskProvider, Attempted, Resolves, Lacks, Expected, NoPsk, Pairing
<1>3. CASE srv.attempt = "code"
  BY <1>3 DEF PskProvider, Attempted, Resolves, Lacks, Expected, NoPsk, Sentinel
<1>4. CASE srv.attempt = "none" /\ held.record # None
  BY <1>4 DEF PskProvider, Attempted, Resolves, Lacks, Expected, NoPsk, LongTerm
<1>5. CASE srv.attempt = "none" /\ held.record = None
  BY <1>5
  DEF PskProvider, Attempted, Resolves, Lacks, Expected, NoPsk, Sentinel, Pairing
<1> QED BY <1>1, <1>2, <1>3, <1>4, <1>5

LEMMA InitStory == Init => Story
BY DEF Init, Story

(* The steps of a handshake that is not disturbed. *)
LEMMA QuietStory ==
  ASSUME IInv, Next, ~Redials, Undisturbed', Ours'
  PROVE  Story'
<1>1. /\ Undisturbed /\ Ours /\ UNCHANGED <<setup, held, kept>> /\ srv'.attempt = srv.attempt
      /\ ~ServerTimesOut /\ ~ClientTimesOut /\ ~Changes
  BY StaysQuiet, Same
<1>2. /\ Rejection' = Rejection /\ PskProvider(held)' = PskProvider(held)
      /\ (Lacks' <=> Lacks) /\ (Refused' <=> Refused)
      /\ (Admissible' <=> Admissible) /\ Expected' = Expected
  BY <1>1, Steady
<1>3. /\ srv.pc \in {"init", "picking"} => cli.pc = "init"
      /\ srv.pc = "picking" => Rejection = "none"
      /\ srv.pc = "msg2" => Unhindered
      /\ srv.pc \in {"checking", "up"} =>
           Admissible /\ srv.psk = Expected /\ (srv.mismatch <=> Lacks)
      /\ srv.pc = "up" => (srv.repair <=> Lacks /\ held.record # None)
      /\ srv.pc = "closed" => Ended
  BY <1>1 DEF IInv, Story
<1>4. srv \in ServerEnd /\ cli \in ClientEnd /\ Types
  BY DEF IInv, Types
<1>5. CASE ReadsOpening
  <2>1. srv.pc = "init" /\ cli.pc = "init" /\ cli' = cli /\ toClient = <<>>
    BY <1>3, <1>5 DEF ReadsOpening, IInv, Phases, BeforePick
  <2>2. ~TakesPlain
    BY <1>1, Same
  <2>3. CASE Rejection # "none"
    <3>1. /\ srv'.pc = "closed"
          /\ toClient' = toClient \o <<[type |-> "error", reason |-> Rejection], Close>>
      BY <1>4, <1>5, <2>2, <2>3 DEF ReadsOpening, Ends, ServerEnd
    <3>2. toClient' = <<Error(Rejection), Close>>
      BY <2>1, <3>1, Joins DEF Error
    <3>3. Error(Rejection)' = Error(Rejection)
      BY <1>2 DEF Error
    <3> QED BY <1>2, <2>1, <2>3, <3>1, <3>2, <3>3 DEF Story, Ended
  <2>4. CASE Rejection = "none"
    <3>1. srv'.pc = "picking"
      BY <1>4, <1>5, <2>2, <2>4 DEF ReadsOpening, ServerEnd
    <3> QED BY <1>2, <2>1, <2>4, <3>1 DEF Story
  <2> QED BY <2>3, <2>4
<1>6. CASE Picks
  <2>1. srv.pc = "picking" /\ cli.pc = "init" /\ cli' = cli /\ Rejection = "none"
    BY <1>3, <1>6 DEF Picks
  <2>2. CASE PskProvider(held) = NoPsk
    <3>1. srv'.pc = "closed"
      BY <1>4, <1>6, <2>2 DEF Picks, Ends, ServerEnd
    <3>2. Refused
      BY <1>4, <2>2, PickSays DEF Refused
    <3> QED BY <1>2, <2>1, <3>1, <3>2 DEF Story, Ended
  <2>3. CASE PskProvider(held) # NoPsk
    <3>1. srv'.pc = "msg2" /\ srv'.psk = PskProvider(held)
      BY <1>4, <1>6, <2>3 DEF Picks, ServerEnd
    <3> QED BY <1>2, <2>1, <3>1 DEF Story, Unhindered
  <2> QED BY <2>2, <2>3
<1>7. CASE ReadsMsg2
  <2>1. /\ srv.pc = "msg2" /\ cli.pc = "up" /\ ~srv.mismatch /\ srv.psk # NoPsk
        /\ Unhindered
    BY <1>3, <1>7, Msg2Read DEF IInv, Phases, Exchange
  <2>2. Rejection = "none" /\ ~Refused /\ (cli.mismatch <=> Lacks) /\ srv.psk = PskProvider(held)
    BY <2>1 DEF Unhindered
  <2>3. CASE /\ cli.psk = srv.psk /\ ~cli.mismatch
             /\ srv' = [srv EXCEPT !.pc = "checking"]
    <3>1. srv'.pc = "checking" /\ srv'.psk = srv.psk /\ ~srv'.mismatch
      BY <1>4, <2>1, <2>3 DEF ServerEnd
    <3>2. srv.psk = Expected /\ Admissible
      BY <1>4, <2>1, <2>2, <2>3, PickSays DEF Admissible
    <3> QED BY <1>2, <2>2, <2>3, <3>1, <3>2 DEF Story
  <2>4. CASE /\ cli.mismatch /\ srv.attempt = "none"
             /\ srv' = [srv EXCEPT !.pc = "checking", !.psk = Sentinel, !.mismatch = TRUE]
    <3>1. srv'.pc = "checking" /\ srv'.psk = Sentinel /\ srv'.mismatch
      BY <1>4, <2>4 DEF ServerEnd
    <3>2. Sentinel = Expected /\ Admissible
      BY <2>2, <2>4 DEF Admissible, Expected
    <3> QED BY <1>2, <2>2, <2>4, <3>1, <3>2 DEF Story
  <2>5. CASE /\ cli.mismatch /\ srv.attempt # "none"
             /\ srv' = [srv EXCEPT !.pc = "closed", !.psk = Sentinel, !.mismatch = TRUE,
                                   !.why = "no attempt"]
    <3>1. srv'.pc = "closed"
      BY <1>4, <2>5 DEF ServerEnd
    <3> QED BY <1>1, <1>2, <2>2, <2>5, <3>1 DEF Story, Ended
  <2> QED BY <1>7, <2>3, <2>4, <2>5, Verdict
<1>8. CASE Checks
  <2>1. /\ srv.pc = "checking" /\ srv'.pc = "up" /\ srv'.psk = srv.psk
        /\ srv'.mismatch = srv.mismatch /\ srv'.repair = (srv.mismatch /\ held.record # None)
    BY <1>4, <1>8 DEF Checks, ServerEnd
  <2> QED BY <1>1, <1>2, <1>3, <2>1 DEF Story
<1>9. CASE ReadsInit
  <2>1. srv' = srv /\ cli.pc = "init"
    BY <1>9 DEF ReadsInit
  <2>2. CASE Head(toClient) = Error(Rejection) /\ srv.pc = "closed"
    <3>1. Head(toClient).type = "error" /\ Head(toClient).reason = Rejection
      BY <2>2, Kinds
    <3>2. cli' = [Ends(cli, "rejected") EXCEPT !.reason = Rejection]
      BY <1>9, <3>1 DEF ReadsInit
    <3>3. cli'.pc = "closed" /\ cli'.why = "rejected" /\ cli'.reason = Rejection
      BY <1>4, <3>2 DEF Ends, ClientEnd
    <3> QED BY <1>2, <1>3, <2>1, <2>2, <3>3 DEF Story, Ended
  <2>3. CASE Head(toClient) = Hail
    <3>1. Head(toClient).type # "error" /\ Head(toClient).server = setup.server
      BY <2>3, Kinds
    <3>2. \/ /\ setup.expects \notin {None, setup.server} /\ cli'.pc = "closed"
          \/ /\ setup.expects \in {None, setup.server} /\ cli'.pc = "msg1"
             /\ cli'.server = setup.server
      BY <1>4, <1>9, <3>1 DEF ReadsInit, Ends, ClientEnd
    <3>3. CASE srv.pc = "msg2"
      <4>1. Unhindered'
        BY <1>1, <1>2, <1>3, <2>1, <3>2, <3>3 DEF Unhindered, Refused
      <4> QED BY <2>1, <3>3, <4>1 DEF Story
    <3>4. CASE srv.pc = "closed"
      <4>1. toClient # <<Error(Rejection), Close>>
        BY <2>3, Splits, Kinds
      <4> QED BY <1>1, <1>2, <1>3, <2>1, <3>4, <4>1 DEF Story, Ended
    <3> QED BY <1>9, <3>3, <3>4, <2>3, InitRead, Kinds
  <2> QED BY <1>9, <2>2, <2>3, InitRead
<1>10. CASE ReadsMsg1
  <2>1. /\ srv' = srv /\ cli.pc = "msg1" /\ cli'.pc = "resolving" /\ cli'.server = cli.server
    BY <1>4, <1>10 DEF ReadsMsg1, ClientEnd
  <2>2. srv.pc \in {"msg2", "closed"}
    BY <1>10, Msg1Read
  <2>3. CASE srv.pc = "msg2"
    BY <1>1, <1>2, <1>3, <2>1, <2>3 DEF Story, Unhindered
  <2>4. CASE srv.pc = "closed"
    BY <1>1, <1>2, <1>3, <2>1, <2>4 DEF Story, Ended
  <2> QED BY <2>2, <2>3, <2>4
<1>11. CASE SendsMsg2
  <2>1. /\ srv' = srv /\ cli.pc = "resolving" /\ srv.pc \in {"msg2", "closed"}
    BY <1>11, Answering DEF SendsMsg2
  <2>2. CASE srv.pc = "closed"
    BY <1>1, <1>2, <1>3, <2>1, <2>2 DEF Story, Ended
  <2>3. CASE srv.pc = "msg2"
    <3>1. /\ srv.psk = PskProvider(held) /\ Rejection = "none" /\ cli.server = setup.server
          /\ setup.expects \in {None, setup.server}
      BY <1>3, <2>1, <2>3 DEF Unhindered
    <3>2. cli.psk = PskProvider(held) /\ PskProvider(held) # NoPsk /\ ~cli.mismatch
      BY <2>1, <2>3, <3>1 DEF IInv, Phases, BeforePick, Exchange
    <3>3. /\ Resolves(kept, cli.psk) <=> ~Lacks
          /\ cli.psk.category = "long_term" <=> srv.attempt = "none" /\ held.record # None
          /\ ~(Attempted /\ ~setup.meant)
      BY <1>4, <3>2, PickSays
    <3>4. CASE /\ cli' = [cli EXCEPT !.pc = "up"] /\ Resolves(kept, cli.psk)
               /\ cli.psk.category = "long_term" => cli.server = kept.bound
      <4>1. cli'.pc = "up" /\ ~cli'.mismatch /\ cli'.server = cli.server
        BY <1>4, <3>2, <3>4 DEF ClientEnd
      <4>2. ~Lacks /\ ~Refused
        BY <3>1, <3>3, <3>4 DEF Refused
      <4> QED BY <1>1, <1>2, <2>1, <2>3, <3>1, <4>1, <4>2 DEF Story, Unhindered
    <3>5. CASE /\ cli' = [cli EXCEPT !.pc = "up", !.psk = Sentinel, !.mismatch = TRUE]
               /\ ~Resolves(kept, cli.psk)
      <4>1. cli'.pc = "up" /\ cli'.mismatch /\ cli'.server = cli.server
        BY <1>4, <3>5 DEF ClientEnd
      <4>2. Lacks /\ ~Refused
        BY <3>1, <3>3, <3>5 DEF Refused
      <4> QED BY <1>1, <1>2, <2>1, <2>3, <3>1, <4>1, <4>2 DEF Story, Unhindered
    <3>6. CASE /\ cli' = [cli EXCEPT !.pc = "closed", !.why = "misbound"]
               /\ Resolves(kept, cli.psk) /\ cli.psk.category = "long_term"
               /\ cli.server # kept.bound
      <4>1. cli'.pc = "closed"
        BY <1>4, <3>6 DEF ClientEnd
      <4>2. Refused
        BY <3>1, <3>3, <3>6 DEF Refused
      <4> QED BY <1>1, <1>2, <2>1, <2>3, <3>1, <4>1, <4>2 DEF Story, Unhindered
    <3> QED BY <1>11, <3>4, <3>5, <3>6, Answering
  <2> QED BY <2>1, <2>2, <2>3
<1>12. CASE ServerLosesPeer
  <2>1. cli' = cli /\ toClient' = toClient /\ toServer # <<>> /\ Head(toServer) = Close
    BY <1>12 DEF ServerLosesPeer
  <2>2. CASE srv.pc = "closed"
    <3>1. srv' = srv
      BY <1>12, <2>2 DEF ServerLosesPeer
    <3>2. Error(Rejection)' = Error(Rejection)
      BY <1>2 DEF Error
    <3> QED BY <1>1, <1>2, <1>3, <2>1, <2>2, <3>1, <3>2 DEF Story, Ended
  <2>3. CASE srv.pc # "closed"
    <3>1. srv'.pc = "closed"
      BY <1>4, <1>12, <2>3 DEF ServerLosesPeer, Ends, ServerEnd
    <3>2. \A k : toServer # <<Hello>> /\ toServer # <<Reply(k)>>
      BY <2>1, Splits, Kinds
    <3>3. srv.pc = "msg2" /\ cli.pc = "closed"
      BY <1>3, <1>4, <2>1, <2>3, <3>2
      DEF IInv, Phases, BeforePick, Exchange, Settled, ServerEnd
    <3> QED BY <1>2, <1>3, <3>1, <3>3 DEF Story, Unhindered, Ended
  <2> QED BY <2>2, <2>3
<1>13. CASE ClientLosesPeer
  <2>1. srv' = srv /\ toClient # <<>> /\ Head(toClient) = Close /\ cli'.pc = "closed"
    BY <1>4, <1>13 DEF ClientLosesPeer, Ends, ClientEnd
  <2>2. cli.pc = "closed" => cli' = cli
    BY <1>13 DEF ClientLosesPeer
  <2>3. /\ \A p : toClient # <<Hail, Offer(p)>> /\ toClient # <<Offer(p)>>
        /\ toClient # <<Error(Rejection), Close>>
    BY <2>1, Splits, Kinds
  <2>4. \/ srv.pc = "msg2" /\ cli.pc = "closed"
        \/ srv.pc = "closed"
    BY <1>4, <2>1, <2>3 DEF IInv, Phases, BeforePick, Exchange, Settled, ServerEnd
  <2>5. CASE srv.pc = "msg2" /\ cli.pc = "closed"
    BY <1>1, <1>2, <1>3, <2>1, <2>2, <2>5 DEF Story, Unhindered
  <2>6. CASE srv.pc = "closed"
    BY <1>1, <1>2, <1>3, <2>1, <2>2, <2>3, <2>6 DEF Story, Ended
  <2> QED BY <2>4, <2>5, <2>6
<1>14. CASE Drops
  <2>1. srv' = srv /\ cli' = cli /\ (cli.pc = "closed" \/ toClient' = toClient)
    BY <1>14 DEF Drops
  <2>2. Error(Rejection)' = Error(Rejection)
    BY <1>2 DEF Error
  <2>3. Unhindered => Unhindered'
    BY <1>1, <1>2, <2>1 DEF Unhindered
  <2>4. Ended => Ended'
    BY <1>1, <1>2, <2>1, <2>2 DEF Ended
  <2> QED BY <1>1, <1>2, <1>3, <2>1, <2>3, <2>4 DEF Story
<1> QED
  BY <1>1, <1>5, <1>6, <1>7, <1>8, <1>9, <1>10, <1>11, <1>12, <1>13, <1>14 DEF Next

LEMMA StoryStep == IInv /\ Next => Story'
<1> SUFFICES ASSUME IInv, Next PROVE Story'
  OBVIOUS
<1>1. CASE Redials
  <2>1. srv \in ServerEnd /\ cli \in ClientEnd
    BY DEF IInv, Types
  <2>2. srv'.pc = "init" /\ cli'.pc = "init"
    BY <1>1, <2>1 DEF Redials, ServerEnd, ClientEnd
  <2> QED BY <2>2 DEF Story
<1>2. CASE ~Redials /\ Undisturbed' /\ Ours'
  BY <1>2, QuietStory
<1>3. CASE ~(Undisturbed' /\ Ours')
  BY <1>3 DEF Story
<1> QED BY <1>1, <1>2, <1>3

-----------------------------------------------------------------------------
LEMMA InitIInv == HandshakeAssumption /\ Init => IInv
BY InitTypes, InitPhases, InitReasons, InitStory DEF IInv

LEMMA NextIInv == IInv /\ [Next]_handshakeVars => IInv'
<1> SUFFICES ASSUME IInv, [Next]_handshakeVars PROVE IInv'
  OBVIOUS
<1>1. CASE Next
  BY <1>1, TypesStep, PhasesStep, ReasonsStep, StoryStep DEF IInv
<1>2. CASE UNCHANGED handshakeVars
  <2>u. /\ setup' = setup /\ held' = held /\ kept' = kept /\ toServer' = toServer
        /\ toClient' = toClient /\ srv' = srv /\ cli' = cli /\ past' = past
    BY <1>2 DEF handshakeVars
  <2>1. Types'
    BY <2>u DEF IInv, Types, HandshakeAssumption
  <2>2. Phases'
    BY <2>u, Same
    DEF IInv, Phases, BeforePick, Exchange, Settled, Over, Answered, Hello,
        Reply, Offer, Error
  <2>3. Reasons'
    BY <2>u DEF IInv, Reasons
  <2>4. Story'
    <3>1. /\ Rejection' = Rejection /\ PskProvider(held)' = PskProvider(held)
          /\ (Ours' <=> Ours) /\ (Lacks' <=> Lacks) /\ (Refused' <=> Refused)
          /\ (Admissible' <=> Admissible) /\ Expected' = Expected
      BY <2>u, Steady
    <3>2. Story /\ (Error(Rejection)' = Error(Rejection))
      BY <2>u, <3>1 DEF IInv, Error
    <3>3. (Unhindered => Unhindered') /\ (Ended => Ended')
      BY <2>u, <3>1, <3>2 DEF Unhindered, Ended
    <3> QED BY <2>u, <3>1, <3>2, <3>3 DEF Story, Undisturbed
  <2> QED BY <2>1, <2>2, <2>3, <2>4 DEF IInv
<1> QED BY <1>1, <1>2

THEOREM Inductive == HandshakeAssumption /\ Spec => []IInv
<1>1. HandshakeAssumption /\ Init => IInv
  BY InitIInv
<1>2. IInv /\ [Next]_handshakeVars => IInv'
  BY NextIInv
<1> QED BY <1>1, <1>2, PTL DEF Spec

(* The two ends and the stores have their types (noise/driver.py).            *)
THEOREM HandshakeTypes == HandshakeAssumption /\ Spec => []TypeOK
<1>1. IInv => TypeOK
  BY DEF IInv, Types, ServerEnd, ClientEnd, TypeOK, Psks, NoPsk, Sentinel, LongTerm, Pairing
<1> QED BY <1>1, Inductive, PTL

(* Whatever the stores do meanwhile and whoever gives up: two ends that are up   *)
(* have one key and know alike what it stands in for, a session on a record is   *)
(* with the server it is bound to, no message 2 fails to authenticate, and once  *)
(* nothing is on its way both are up or neither is (HandshakeResult in           *)
(* noise/driver.py).                                                          *)
THEOREM OneSession ==
  HandshakeAssumption /\ Spec => [](SameSession /\ RightParty /\ EndAlike)
<1>1. IInv => SameSession
  BY DEF IInv, Phases, Settled, Reasons, SameSession, Both
<1>2. IInv => RightParty
  BY DEF IInv, Phases, Settled, RightParty, Both
<1>3. IInv => EndAlike
  <2> SUFFICES ASSUME IInv, AtRest PROVE srv.pc = cli.pc
    BY DEF EndAlike
  <2>1. toClient = <<>> /\ srv.pc \in {"up", "closed"} /\ cli.pc \in {"up", "closed"}
    BY DEF AtRest
  <2>2. CASE srv.pc = "up"
    BY <2>2 DEF IInv, Phases, Settled
  <2>3. CASE srv.pc = "closed"
    BY <2>1, <2>3 DEF IInv, Phases, Over
  <2> QED BY <2>1, <2>2, <2>3
<1> QED BY <1>1, <1>2, <1>3, Inductive, PTL

(* Undisturbed, a handshake ends as what both sides have stored says:           *)
(* _psk_provider against _resolve_psk, _holds_record and the fork at message 2.  *)
THEOREM EndsAsStored == HandshakeAssumption /\ Spec => []EndsRightly
<1>1. IInv => EndsRightly
  <2> SUFFICES ASSUME IInv, AtRest, Undisturbed, Ours
        PROVE  IF Rejection # "none" THEN cli.why = "rejected" /\ cli.reason = Rejection
               ELSE IF Refused \/ (Lacks /\ srv.attempt # "none") THEN srv.pc = "closed"
               ELSE /\ Both /\ srv.psk = Expected
                    /\ srv.repair <=> Lacks /\ held.record # None
    BY DEF EndsRightly
  <2>1. srv.pc \in {"up", "closed"} /\ cli.pc \in {"up", "closed"}
    BY DEF AtRest
  <2>2. CASE srv.pc = "up"
    <3>1. /\ Admissible /\ srv.psk = Expected /\ (srv.repair <=> Lacks /\ held.record # None)
          /\ Both
      BY <2>2 DEF IInv, Story, Phases, Settled, Both
    <3> QED BY <3>1 DEF Admissible
  <2>3. CASE srv.pc = "closed"
    BY <2>1, <2>3 DEF IInv, Story, Ended
  <2> QED BY <2>1, <2>2, <2>3
<1> QED BY <1>1, Inductive, PTL

(* Who is not admitted to a pairing is told nothing of the server: server/init   *)
(* and message 1 go out together or not at all.                                *)
THEOREM NothingTold == HandshakeAssumption /\ Spec => []RefusedUnseen
<1>1. IInv => RefusedUnseen
  BY DEF IInv, Types, Reasons, RefusedUnseen
<1> QED BY <1>1, Inductive, PTL
=============================================================================
