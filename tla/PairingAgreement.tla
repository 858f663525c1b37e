--------------------------- MODULE PairingAgreement ---------------------------
(***************************************************************************)
(* What pairing promises about credentials, without messages, timeouts or  *)
(* sessions. Every attempt the server activates mints at most one          *)
(* credential, named after the attempt. The client offers it, the server   *)
(* accepts it only while that attempt is the one it runs, and the client   *)
(* adopts it only once the server has written it to its disk. So whatever  *)
(* the client holds is a credential the server stored first, and an        *)
(* attempt that was superseded can no longer produce one.                  *)
(***************************************************************************)
EXTENDS Naturals

VARIABLES
  attempt,    \* the attempts the server has activated so far
  offered,    \* the credentials the client has sent in client/pair-finalize
  accepted,   \* the credentials the server has taken for its record
  stored,     \* the credentials the server has written to its disk
  held        \* the credential the client stores for this server, 0 for none

vars == <<attempt, offered, accepted, stored, held>>

Init ==
  /\ attempt = 0
  /\ offered = {}
  /\ accepted = {}
  /\ stored = {}
  /\ held = 0

\* The server starts another attempt; the one before it is superseded.
Begin ==
  /\ attempt' = attempt + 1
  /\ UNCHANGED <<offered, accepted, stored, held>>

\* The client sends the credential of an attempt, late or not.
Offer(a) ==
  /\ offered' = offered \union {a}
  /\ UNCHANGED <<attempt, accepted, stored, held>>

\* The server takes the credential of the attempt it is running.
Accept(a) ==
  /\ a = attempt
  /\ a \in offered
  /\ accepted' = accepted \union {a}
  /\ UNCHANGED <<attempt, offered, stored, held>>

\* The record the server took reaches its disk.
Store(a) ==
  /\ a \in accepted
  /\ stored' = stored \union {a}
  /\ UNCHANGED <<attempt, offered, accepted, held>>

\* The client stores a credential that the server holds already.
Adopt(a) ==
  /\ a \in stored
  /\ a > held
  /\ held' = a
  /\ UNCHANGED <<attempt, offered, accepted, stored>>

\* A restart before the write reached the disk brings an earlier one back.
Forget(a) ==
  /\ a \in stored \union {0}
  /\ a < held
  /\ held' = a
  /\ UNCHANGED <<attempt, offered, accepted, stored>>

Next ==
  \/ Begin
  \/ \E a \in 1 .. attempt : Offer(a) \/ Accept(a) \/ Store(a) \/ Adopt(a)
  \/ \E a \in 0 .. attempt : Forget(a)

Spec == Init /\ [][Next]_vars
===============================================================================
