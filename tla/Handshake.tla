------------------------------ MODULE Handshake ------------------------------
(***************************************************************************)
(* The first handshake of a connection (noise/driver.py, noise/session.py): *)
(* the client's first frame, the server's choice of a pre-shared key, the   *)
(* client's search for it and what both do when the client does not have    *)
(* it.  The stores on both sides change meanwhile, by what happens on other *)
(* connections: every store operation awaits.                               *)
(*                                                                          *)
(* Message 1 only needs the static keys of both sides.  Message 2 can be    *)
(* read by who has the key it was written with.  A client that opens with   *)
(* anything but client/init is not of this repository, and only waits for   *)
(* an answer.                                                               *)
(***************************************************************************)
EXTENDS Integers, Sequences, FiniteSets

CONSTANTS Records,   \* keys of pairing records
          Pairings,  \* Pairing PSKs
          MaxChanges, MaxDials, MaxTimeouts  \* bounds: changes of a store, dials, timeouts

HandshakeAssumption ==
  /\ 0 \notin Records \cup Pairings /\ Records \cap Pairings = {}
  /\ {MaxChanges, MaxDials, MaxTimeouts} \subseteq Nat

VARIABLES setup,     \* what this connection is between, and for
          held,      \* the server's pairing store
          kept,      \* the client's
          toServer, toClient,
          srv, cli,  \* the two ends of the connection
          past       \* changes and timeouts of this dial

handshakeVars == <<setup, held, kept, toServer, toClient, srv, cli, past>>

None     == 0
Sentinel == [key |-> 0, category |-> "sentinel"]
LongTerm(key) == [key |-> key, category |-> "long_term"]
Pairing(key)  == [key |-> key, category |-> "pairing"]
NoPsk == [key |-> 0, category |-> "none"]

(* First frames: client/init of a client, with a client_id in another base64url *)
(* spelling ("odd"), with an unknown version or suite, or broken; a            *)
(* client/hello in the clear; a binary frame.                                 *)
Openings == {"init", "odd", "version", "suite", "malformed", "hello", "binary"}
Ours == setup.opening \in {"init", "odd"}

Close == [type |-> "close"]
Sends(queue, m) == Append(queue, m)

-----------------------------------------------------------------------------
(* The server. *)

Ends(e, why) == [e EXCEPT !.pc = "closed", !.why = why]

(* _parse_client_init and the checks around it: the reason of a server/error,   *)
(* or "none".                                                                 *)
Rejection ==
  CASE setup.opening \in {"version", "suite"} -> setup.opening
    [] setup.opening = "init" \/ (setup.opening = "odd" /\ ~setup.strict) -> "none"
    [] OTHER -> "malformed"

(* _establish_transport.  A client of the time before encryption is accepted   *)
(* as it is where the server allows it, but not for a pairing.                *)
TakesPlain ==
  setup.opening = "hello" /\ srv.attempt = "none" /\ setup.plain /\ ~setup.strict

ReadsOpening ==
  /\ srv.pc = "init" /\ toServer # <<>> /\ Head(toServer) # Close
  /\ toServer' = Tail(toServer)
  /\ IF TakesPlain
     THEN srv' = [srv EXCEPT !.pc = "plain"] /\ UNCHANGED toClient
     ELSE IF Rejection # "none"
     THEN /\ srv' = Ends(srv, "rejected")
          /\ toClient' = toClient \o <<[type |-> "error", reason |-> Rejection], Close>>
     ELSE srv' = [srv EXCEPT !.pc = "picking"] /\ UNCHANGED toClient
  /\ UNCHANGED <<setup, held, kept, cli, past>>

(* Mutant: a Pairing PSK staged for a client comes before its record.          *)
StagedFirst(store) ==
  CASE srv.attempt = "psk"  -> IF setup.meant THEN Pairing(setup.tried) ELSE NoPsk
    [] srv.attempt = "code" -> Sentinel
    [] srv.attempt = "none" -> IF store.staged # None THEN Pairing(store.staged)
                               ELSE IF store.record # None THEN LongTerm(store.record)
                               ELSE Sentinel

(* _psk_provider.                                                             *)
PskProvider(store) ==
  CASE srv.attempt = "psk"  -> IF setup.meant THEN Pairing(setup.tried) ELSE NoPsk
    [] srv.attempt = "code" -> Sentinel
    [] srv.attempt = "none" -> IF store.record # None THEN LongTerm(store.record)
                               ELSE IF store.staged # None THEN Pairing(store.staged)
                               ELSE Sentinel

(* server/init and message 1, back to back, or neither.                       *)
Picks ==
  LET psk == PskProvider(held)
  IN  /\ srv.pc = "picking"
      /\ IF psk = NoPsk
         THEN srv' = Ends(srv, "refused") /\ toClient' = Sends(toClient, Close)
         ELSE /\ srv' = [srv EXCEPT !.pc = "msg2", !.psk = psk]
              /\ toClient' = toClient \o <<[type |-> "init", server |-> setup.server],
                                           [type |-> "msg1", psk |-> psk]>>
      /\ UNCHANGED <<setup, held, kept, toServer, cli, past>>

(* Mutant: the session the Sentinel admits passes for one on the key meant.      *)
VerifiesAsMeant(e, key) ==
  IF key \in {e.psk.key, Sentinel.key}
  THEN [e EXCEPT !.pc = "checking", !.mismatch = key # e.psk.key]
  ELSE Ends(e, "unverified")

(* _exchange_as_initiator: message 2 read with the key of message 1, or with   *)
(* the Sentinel at the same point of the handshake (fork_at_message_2).        *)
Verifies(e, key) ==
  IF key = e.psk.key THEN [e EXCEPT !.pc = "checking"]
  ELSE IF e.psk.category # "sentinel" /\ key = Sentinel.key
       THEN [e EXCEPT !.pc = "checking", !.psk = Sentinel, !.mismatch = TRUE]
       ELSE Ends(e, "unverified")

(* Mutant: a session for a pairing goes on without its Pairing PSK.            *)
AdmittedAnyway(e) == e

(* A pairing dial the client lacks the Pairing PSK for is closed, and the next  *)
(* dial carries no attempt.                                                   *)
Admitted(e) ==
  IF e.pc = "checking" /\ e.mismatch /\ e.attempt # "none" THEN Ends(e, "no attempt") ELSE e

ReadsMsg2 ==
  LET m == Head(toServer)
      e == Admitted(Verifies(srv, m.key))
  IN  /\ srv.pc = "msg2" /\ toServer # <<>> /\ m # Close
      /\ toServer' = Tail(toServer) /\ srv' = e
      /\ toClient' = IF e.pc = "closed" THEN Sends(toClient, Close) ELSE toClient
      /\ UNCHANGED <<setup, held, kept, cli, past>>

(* _holds_record: what it could not use must be there still for the client to  *)
(* be in need of a new pairing.                                               *)
Checks ==
  /\ srv.pc = "checking"
  /\ srv' = [srv EXCEPT !.pc = "up", !.repair = srv.mismatch /\ held.record # None]
  /\ UNCHANGED <<setup, held, kept, toServer, toClient, cli, past>>

-----------------------------------------------------------------------------
(* The client. *)

ReadsInit ==
  LET m == Head(toClient)
  IN  /\ cli.pc = "init" /\ toClient # <<>> /\ m # Close
      /\ toClient' = Tail(toClient)
      /\ IF m.type = "error"
         THEN cli' = [Ends(cli, "rejected") EXCEPT !.reason = m.reason] /\ UNCHANGED toServer
         ELSE IF setup.expects \notin {None, m.server}
         THEN cli' = Ends(cli, "other server") /\ toServer' = Sends(toServer, Close)
         ELSE cli' = [cli EXCEPT !.pc = "msg1", !.server = m.server] /\ UNCHANGED toServer
      /\ UNCHANGED <<setup, held, kept, srv, past>>

ReadsMsg1 ==
  LET m == Head(toClient)
  IN  /\ cli.pc = "msg1" /\ toClient # <<>> /\ m # Close
      /\ toClient' = Tail(toClient) /\ cli' = [cli EXCEPT !.pc = "resolving", !.psk = m.psk]
      /\ UNCHANGED <<setup, held, kept, toServer, srv, past>>

(* _resolve_psk: the key is looked for only where the category says.           *)
Resolves(store, psk) ==
  CASE psk.category = "sentinel"  -> TRUE
    [] psk.category = "long_term" -> psk.key \in store.records
    [] psk.category = "pairing"   -> psk.key = store.pairing

(* Mutant: a key bound to another server is taken for one that is not there.    *)
UnboundIsMissing(e, store) ==
  IF Resolves(store, e.psk) /\ (e.psk.category = "long_term" => store.bound = e.server)
  THEN [e EXCEPT !.pc = "up"] ELSE [e EXCEPT !.pc = "up", !.psk = Sentinel, !.mismatch = TRUE]

(* _exchange_as_responder: a key that is not there is stood in for by the      *)
(* Sentinel; one that is bound to another server never is.                    *)
Answers(e, store) ==
  IF ~Resolves(store, e.psk) THEN [e EXCEPT !.pc = "up", !.psk = Sentinel, !.mismatch = TRUE]
  ELSE IF e.psk.category = "long_term" /\ store.bound # e.server THEN Ends(e, "misbound")
  ELSE [e EXCEPT !.pc = "up"]

SendsMsg2 ==
  LET e == Answers(cli, kept)
  IN  /\ cli.pc = "resolving" /\ cli' = e
      /\ toServer' = Sends(toServer, IF e.pc = "closed" THEN Close
                                     ELSE [type |-> "msg2", key |-> e.psk.key])
      /\ UNCHANGED <<setup, held, kept, toClient, srv, past>>

-----------------------------------------------------------------------------
(* Either side's socket closes, or a wait lasts too long. *)

ServerLosesPeer ==
  /\ toServer # <<>> /\ Head(toServer) = Close /\ toServer' = Tail(toServer)
  /\ srv' = IF srv.pc = "closed" THEN srv ELSE Ends(srv, "lost")
  /\ UNCHANGED <<setup, held, kept, toClient, cli, past>>

ClientLosesPeer ==
  /\ toClient # <<>> /\ Head(toClient) = Close /\ toClient' = Tail(toClient)
  /\ cli' = IF cli.pc = "closed" THEN cli ELSE Ends(cli, "lost")
  /\ UNCHANGED <<setup, held, kept, toServer, srv, past>>

(* What a closed side does not read.                                          *)
Drops ==
  /\ \/ srv.pc = "closed" /\ toServer # <<>> /\ toServer' = <<>> /\ UNCHANGED toClient
     \/ cli.pc = "closed" /\ toClient # <<>> /\ toClient' = <<>> /\ UNCHANGED toServer
  /\ UNCHANGED <<setup, held, kept, srv, cli, past>>

Late == past.timeouts < MaxTimeouts /\ past' = [past EXCEPT !.timeouts = @ + 1]

ServerTimesOut ==
  /\ srv.pc \in {"init", "msg2"} /\ Late
  /\ srv' = Ends(srv, "timeout") /\ toClient' = Sends(toClient, Close)
  /\ UNCHANGED <<setup, held, kept, toServer, cli>>

ClientTimesOut ==
  /\ Ours /\ cli.pc \in {"init", "msg1", "resolving"} /\ Late
  /\ cli' = Ends(cli, "timeout") /\ toServer' = Sends(toServer, Close)
  /\ UNCHANGED <<setup, held, kept, toClient, srv>>

-----------------------------------------------------------------------------
(* The stores change: the server pairs anew, and then the client; a record is   *)
(* removed on one side; the client has a new Pairing PSK.                      *)
Changes ==
  /\ past.changes < MaxChanges /\ past' = [past EXCEPT !.changes = @ + 1]
  /\ \/ \E record \in Records \cup {None} : held' = [held EXCEPT !.record = record]
        /\ UNCHANGED kept
     \/ /\ \/ \E records \in {{}, {held.record} \ {None}} :
                kept' = [kept EXCEPT !.records = records]
           \/ \E psk \in Pairings : kept' = [kept EXCEPT !.pairing = psk]
        /\ UNCHANGED held
  /\ UNCHANGED <<setup, toServer, toClient, srv, cli>>

Redials ==
  /\ Ours /\ srv.pc = "closed" /\ cli.pc = "closed" /\ past.dials < MaxDials
  /\ past' = [past EXCEPT !.dials = @ + 1, !.changes = 0, !.timeouts = 0]
  /\ srv' = [srv EXCEPT !.pc = "init", !.attempt = "none", !.why = "none", !.psk = NoPsk,
                        !.mismatch = FALSE, !.repair = FALSE]
  /\ cli' = [cli EXCEPT !.pc = "init", !.why = "none", !.psk = NoPsk, !.mismatch = FALSE]
  /\ toServer' = <<[type |-> "init"]>> /\ toClient' = <<>>
  /\ UNCHANGED <<setup, held, kept>>

-----------------------------------------------------------------------------
(* The server the client paired with is 1; server 2 has its records, and an     *)
(* identity of its own.                                                       *)
Setups ==
  [opening : {"init"}, strict : {FALSE}, plain : {FALSE}, server : {1, 2}, expects : {None, 1},
   meant : BOOLEAN, tried : Pairings]
  \cup [opening : Openings, strict : BOOLEAN, plain : BOOLEAN, server : {1}, expects : {None},
        meant : {TRUE}, tried : Pairings]

Init ==
  /\ setup \in Setups
  /\ held \in [record : Records \cup {None}, staged : Pairings \cup {None}]
  /\ kept \in [records : {{}} \cup {{record} : record \in Records}, bound : {1},
               pairing : Pairings]
  /\ toServer = <<[type |-> "init"]>> /\ toClient = <<>>
  /\ \E attempt \in {"none", "psk", "code"} :
       srv = [pc |-> "init", attempt |-> attempt, psk |-> NoPsk, why |-> "none",
              mismatch |-> FALSE, repair |-> FALSE]
  /\ cli = [pc |-> "init", psk |-> NoPsk, why |-> "none", mismatch |-> FALSE,
            server |-> None, reason |-> "none"]
  /\ past = [changes |-> 0, timeouts |-> 0, dials |-> 1]

Next ==
  \/ ReadsOpening \/ Picks \/ ReadsMsg2 \/ Checks
  \/ ReadsInit \/ ReadsMsg1 \/ SendsMsg2
  \/ ServerLosesPeer \/ ClientLosesPeer \/ Drops \/ ServerTimesOut \/ ClientTimesOut
  \/ Changes \/ Redials

Spec == Init /\ [][Next]_handshakeVars

-----------------------------------------------------------------------------
TypeOK ==
  /\ srv.pc \in {"init", "picking", "msg2", "checking", "up", "plain", "closed"}
  /\ cli.pc \in {"init", "msg1", "resolving", "up", "closed"}
  /\ held.record \in Records \cup {None} /\ kept.records \subseteq Records
  /\ {srv.psk.category, cli.psk.category} \subseteq {"none", "long_term", "pairing", "sentinel"}

Both == srv.pc = "up" /\ cli.pc = "up"

(* Both ends of a session have the same key and take it for the same thing, and *)
(* know alike whether it stands in for one the client could not use             *)
(* (driver.py, HandshakeResult); no message 2 fails to authenticate.           *)
SameSession ==
  /\ Both => srv.psk = cli.psk /\ srv.mismatch = cli.mismatch
  /\ srv.why # "unverified"

(* A session on a record is with the server the record is bound to, and a       *)
(* session for a pairing by Pairing PSK is on that key.                        *)
RightParty ==
  /\ Both /\ cli.psk.category = "long_term" => cli.server = kept.bound
  /\ srv.pc = "up" /\ srv.attempt = "psk" => srv.psk = Pairing(setup.tried)

(* When both wait, both are up or neither is: nobody keeps a session the other   *)
(* has given up.                                                              *)
AtRest == toServer = <<>> /\ toClient = <<>> /\ srv.pc \in {"up", "closed"}
            /\ cli.pc \in {"up", "closed"}
EndAlike == AtRest => srv.pc = cli.pc

(* Unless the stores change or a wait lasts too long meanwhile, a handshake ends *)
(* as the stores say: on the record both hold, on the staged key both know, or    *)
(* on the Sentinel, in need of a new pairing exactly if the client lacks the      *)
(* server's record; refused for another server or another client, without a       *)
(* word; and with the reason where client/init is at fault.                      *)
Undisturbed == past.changes = 0 /\ past.timeouts = 0

Attempted == srv.attempt = "psk"
Lacks     == CASE Attempted             -> kept.pairing # setup.tried
               [] srv.attempt = "code"  -> FALSE
               [] srv.attempt = "none"  -> IF held.record # None
                                           THEN held.record \notin kept.records
                                           ELSE held.staged \notin {None, kept.pairing}
Refused   == \/ Attempted /\ ~setup.meant
             \/ setup.expects \notin {None, setup.server}
             \/ srv.attempt = "none" /\ held.record # None /\ ~Lacks /\ kept.bound # setup.server
Expected  ==
  IF Lacks \/ srv.attempt = "code" THEN Sentinel
  ELSE IF Attempted THEN Pairing(setup.tried)
  ELSE IF held.record # None THEN LongTerm(held.record)
  ELSE IF held.staged # None THEN Pairing(held.staged)
  ELSE Sentinel

EndsRightly ==
  AtRest /\ Undisturbed /\ Ours =>
    IF Rejection # "none" THEN cli.why = "rejected" /\ cli.reason = Rejection
    ELSE IF Refused \/ (Lacks /\ srv.attempt # "none") THEN srv.pc = "closed"
    ELSE /\ Both /\ srv.psk = Expected
         /\ srv.repair <=> Lacks /\ held.record # None

(* Who is not admitted to a pairing is told nothing of the server.               *)
RefusedUnseen == srv.why = "refused" => cli.server = None \/ past.dials > 1
=============================================================================
