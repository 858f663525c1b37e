--------------------------- MODULE ClientAdmission ---------------------------
(***************************************************************************)
(* The client side of aiosendspin: a SendspinClient that several servers     *)
(* connect to and that serves one of them (client/client.py,                 *)
(* client/connection.py).                                                    *)
(*                                                                           *)
(* A connection is provisional from its first byte to the end of the         *)
(* decision on it, which its task takes under the admission lock.  It awaits *)
(* in between: the write of the last-playback server, the goodbye to the     *)
(* connection it displaces, and the end of that connection.  Meanwhile the   *)
(* readers, the pairing attempts, the operator and a shutdown go on.         *)
(***************************************************************************)
EXTENDS Naturals, Sequences, FiniteSets

CONSTANTS Conns,           \* SendspinConnection objects, each used once
          Dialed,          \* those opened by connect, the others are incoming
          ServerOf,        \* server_id of the peer of each
          Capacity,        \* record_capacity of the pairing store
          MaxFailures,     \* _PAIRING_WINDOW_MAX_FAILURES
          Kinds,           \* the activations the servers make, among Sessions
          Settings,        \* initial values of unpaired_access_enabled
          Gating,          \* the methods they use: TRUE one that needs a gesture
          MaxActivations,  \* bound: server/activate after the first
          MaxGestures,     \* bound: pairing windows
          MaxChanges,      \* bound: set_unpaired_access
          MaxShutdowns     \* bound, 0 or 1: disconnect() of the client

None   == "none"           \* no connection, no server
Setter == "setter"         \* set_unpaired_access, which takes the lock too

(* The activities of a server/activate, and whether they or its roles rely on *)
(* unpaired access.  A paired server neither pairs nor needs it; an unpaired  *)
(* one needs it to play.                                                      *)
Sessions ==
  {s \in [acts: SUBSET {"playback", "pairing"}, needs: BOOLEAN] :
     s.acts = {"playback", "pairing"} => s.needs}

ASSUME AdmissionAssumption ==
  /\ Kinds \subseteq Sessions
  /\ Dialed \subseteq Conns /\ None \notin Conns /\ Setter \notin Conns
  /\ IsFiniteSet(Conns)
  /\ Gating \subseteq BOOLEAN /\ Settings \subseteq BOOLEAN
  /\ Capacity \in Nat \ {0} /\ MaxFailures \in Nat \ {0}
  /\ ServerOf \in [Conns -> {ServerOf[c] : c \in Conns}]
  /\ \A c \in Conns : ServerOf[c] # None

VARIABLES
  stage,        \* how far the task of each connection is
  conn,         \* the transport of each: disconnect empties it in two steps
  session,      \* what its server last activated
  noting,       \* connections whose reader is writing the last-playback server
  attempt,      \* the pairing attempt of each
  line,         \* the admission lock: its holder, then those that wait
  admitted,     \* _admitted_connection
  victim,       \* the connection the holder of the lock displaces
  provisional,  \* _provisional_connections
  open,         \* _open_connections
  last,         \* last_playback_server_id
  window,       \* the pairing window
  access,       \* unpaired_access_enabled
  setter,       \* how far set_unpaired_access is, and the value it sets
  shut,         \* how far disconnect() is
  asked,        \* history: the connections that were up and known when it began
  spent,        \* history: the attempts admitted by the last gesture
  activations, gestures, changes

connVars  == <<stage, conn, session, noting, attempt>>
slotVars  == <<line, admitted, victim, provisional, open>>
shutVars  == <<shut, asked>>
windowVars == <<window, spent, gestures>>
accessVars == <<access, setter, changes>>
vars == <<connVars, slotVars, last, windowVars, accessVars, shutVars, activations>>

Stages == {"new", "handshake", "hello", "waiting", "recording", "displacing",
           "draining", "ending", "serving", "done"}

NoSession == [acts |-> {}, needs |-> FALSE]

(* A pairing attempt.  gated: its method needs an operator gesture.  begun:    *)
(* created; waiting: for a window; final: it has sent client/pair-finalize.    *)
Attempts  == [step: {"none", "begun", "waiting", "running", "final"}, gated: BOOLEAN]
NoAttempt == [step |-> "none", gated |-> FALSE]
(* Mutant: the method is only known later. *)
BegunBlank == [step |-> "begun"]
Begun     == [step |-> "begun", gated |-> FALSE]

Closed    == [open |-> FALSE, owner |-> None, failures |-> 0]
Unspent   == [live |-> {}, by |-> {}, failed |-> 0, paired |-> 0]

TypeOK ==
  /\ stage \in [Conns -> Stages]
  /\ conn \in [Conns -> {"none", "up", "closing", "closed"}]
  /\ session \in [Conns -> Sessions]
  /\ noting \subseteq Conns
  /\ attempt \in [Conns -> Attempts]
  /\ line \in Seq(Conns \cup {Setter})
  /\ admitted \in Conns \cup {None} /\ victim \in Conns \cup {None}
  /\ provisional \subseteq Conns /\ open \subseteq Conns
  /\ last \in {ServerOf[c] : c \in Conns} \cup {None}
  /\ window \in [open: BOOLEAN, owner: Conns \cup {None}, failures: Nat]
  /\ access \in BOOLEAN
  /\ setter \in [step: {"idle", "waiting", "saving", "closing"}, value: BOOLEAN]
  /\ shut \in [step: {"no", "provisional", "goodbye", "closing", "done"},
               todo: SUBSET Conns, on: Conns \cup {None}]
  /\ asked \subseteq Conns
  /\ spent \in [live: SUBSET Conns, by: SUBSET Conns, failed: Nat, paired: Nat]
  /\ activations \in Nat /\ gestures \in Nat /\ changes \in Nat

-----------------------------------------------------------------------------
(* Closing a connection. *)

(* disconnect() of a connection that is up, until its first await: it is not   *)
(* connected any more, and its tasks are cancelled.                            *)
Disconnect(c) ==
  /\ conn' = [conn EXCEPT ![c] = "closing"]
  /\ attempt' = [attempt EXCEPT ![c] = NoAttempt]
  /\ noting' = noting \ {c}

(* A connection that is closed already, or being closed, is left alone. *)
DisconnectIfUp(c) ==
  IF conn[c] = "up" THEN Disconnect(c) ELSE UNCHANGED <<conn, attempt, noting>>

(* The rest of disconnect(), and on_connection_closed. *)
ConnectionClosed(c) ==
  /\ conn[c] = "closing"
  /\ conn' = [conn EXCEPT ![c] = "closed"]
  /\ session' = [session EXCEPT ![c] = NoSession]
  /\ stage' = [stage EXCEPT ![c] = IF @ = "serving" THEN "done" ELSE @]
  /\ provisional' = provisional \ {c}
  /\ open' = open \ {c}
  /\ window' = IF window.owner = c THEN Closed ELSE window
  /\ admitted' = IF admitted = c THEN None ELSE admitted
  /\ UNCHANGED <<noting, attempt, line, victim, last, spent, gestures, accessVars,
                 shutVars, activations>>

(* The server, or a failure, ends a connection that is served. *)
ConnectionLost(c) ==
  /\ stage[c] = "serving" /\ conn[c] = "up"
  /\ Disconnect(c)
  /\ UNCHANGED <<stage, session, slotVars, last, windowVars, accessVars, shutVars, activations>>

-----------------------------------------------------------------------------
(* Bring-up: connect and attach_websocket until the admission lock. *)

(* Over the limit connect raises; an incoming connection is handshaken first.  *)
Begin(c) ==
  /\ stage[c] = "new"
  /\ IF Cardinality(open) < Capacity - 1 THEN open' = open \cup {c}
     ELSE c \notin Dialed /\ open' = open
  /\ provisional' = provisional \cup {c}
  /\ stage' = [stage EXCEPT ![c] = "handshake"]
  /\ UNCHANGED <<conn, session, noting, attempt, line, admitted, victim, last, windowVars,
                 accessVars, shutVars, activations>>

(* The Noise handshake is through, and the connection holds a slot or not. *)
Handshaken(c) ==
  /\ stage[c] = "handshake"
  /\ conn' = [conn EXCEPT ![c] = IF c \in open THEN "up" ELSE "closing"]
  /\ stage' = [stage EXCEPT ![c] = IF c \in open THEN "hello" ELSE "ending"]
  /\ UNCHANGED <<session, noting, attempt, slotVars, last, windowVars, accessVars, shutVars,
                 activations>>

(* Mutant: the slot is left to on_connection_closed. *)
EndAdmissionLate(c) ==
  /\ provisional' = provisional \ {c}
  /\ open' = open

(* _end_admission. *)
EndAdmission(c) ==
  /\ provisional' = provisional \ {c}
  /\ open' = IF conn[c] = "up" THEN open ELSE open \ {c}

(* Mutant: the lock is kept. *)
LeaveLocked(c) ==
  /\ stage' = [stage EXCEPT ![c] = "done"]
  /\ EndAdmission(c)
  /\ line' = line

(* The lock is released, or the wait for it given up. *)
Without(q, c) ==
  IF \E i \in DOMAIN q : q[i] = c
  THEN LET i == CHOOSE i \in DOMAIN q : q[i] = c
       IN  SubSeq(q, 1, i - 1) \o SubSeq(q, i + 1, Len(q))
  ELSE q

(* The task of a connection ends without serving it, and lets go of the lock. *)
Leave(c) ==
  /\ stage' = [stage EXCEPT ![c] = "done"]
  /\ EndAdmission(c)
  /\ line' = Without(line, c)

(* It first disconnects the connection, if nobody else does. *)
CloseAndLeave(c) ==
  IF conn[c] = "up"
  THEN /\ Disconnect(c)
       /\ stage' = [stage EXCEPT ![c] = "ending"]
       /\ UNCHANGED <<provisional, open, line>>
  ELSE Leave(c) /\ UNCHANGED <<conn, attempt, noting>>

Ended(c) ==
  /\ stage[c] = "ending" /\ conn[c] = "closed"
  /\ Leave(c)
  /\ UNCHANGED <<conn, session, noting, attempt, admitted, victim, last, windowVars,
                 accessVars, shutVars, activations>>

(* The handshake or a hello fails or takes too long. *)
BringUpFails(c) ==
  /\ stage[c] \in {"handshake", "hello"}
  /\ CloseAndLeave(c)
  /\ UNCHANGED <<session, admitted, victim, last, windowVars, accessVars, shutVars, activations>>

(* The first server/activate: rejected, or the connection asks to be admitted. *)
Activated(c, s) ==
  /\ stage[c] = "hello" /\ conn[c] = "up"
  /\ IF s.needs /\ ~access
     THEN /\ CloseAndLeave(c)
          /\ session' = session
     ELSE /\ session' = [session EXCEPT ![c] = s]
          /\ stage' = [stage EXCEPT ![c] = "waiting"]
          /\ line' = Append(line, c)
          /\ UNCHANGED <<conn, noting, attempt, provisional, open>>
  /\ UNCHANGED <<admitted, victim, last, windowVars, accessVars, shutVars, activations>>

-----------------------------------------------------------------------------
(* Admission, under the lock. *)

Holds(c) == line # <<>> /\ Head(line) = c

(* server_id: forgotten when the connection is closed. *)
Server(c) == IF conn[c] = "closed" THEN None ELSE ServerOf[c]

Rank(c) ==
  IF "playback" \in session[c].acts THEN 2
  ELSE IF "pairing" \in session[c].acts THEN 1 ELSE 0

(* pairing_attempt_in_progress: not while it waits for a window. *)
Pairs(c) == attempt[c].step \in {"running", "final"}

(* Mutant: any activity displaces. *)
OutranksActive(c, d) ==
  \/ Rank(c) > 0
  \/ Rank(d) = 0 /\ Server(c) = last /\ Server(d) # last

Outranks(c, d) ==
  \/ Rank(c) > Rank(d)
  \/ /\ Rank(c) = Rank(d)
     /\ Rank(c) = 0 => Server(c) = last /\ Server(d) # last

ShouldAdmit(c) ==
  admitted # None /\ conn[admitted] = "up" =>
    Outranks(c, admitted) /\ ~(Pairs(admitted) /\ Rank(c) \in {1, 2})

RefusesUnpaired(c) == session[c].needs /\ ~access

(* The admitted connection starts: reader, time sync and pairing attempt. *)
Serve(c) ==
  /\ stage' = [stage EXCEPT ![c] = IF conn[c] = "up" THEN "serving" ELSE "done"]
  /\ attempt' = [attempt EXCEPT ![c] = IF "pairing" \in session[c].acts THEN Begun ELSE @]
  /\ EndAdmission(c)
  /\ line' = Tail(line)
  /\ victim' = None

(* _admit_connection, once the last-playback server is written. *)
Admit(c) ==
  IF conn[c] # "up"
  THEN Leave(c) /\ UNCHANGED <<attempt, admitted, victim>>
  ELSE /\ admitted' = c
       /\ IF admitted = None THEN Serve(c)
          ELSE /\ stage' = [stage EXCEPT ![c] = "displacing"]
               /\ victim' = admitted
               /\ UNCHANGED <<attempt, provisional, open, line>>

(* _record_last_playback has something to write. *)
Records(c) == "playback" \in session[c].acts /\ Server(c) # last /\ Server(c) # None

Decide(c) ==
  /\ Holds(c) /\ stage[c] = "waiting"
  /\ \/ /\ (c \notin Dialed /\ ~ShouldAdmit(c)) \/ RefusesUnpaired(c)
        /\ CloseAndLeave(c)
        /\ UNCHANGED <<admitted, victim>>
     \/ /\ c \in Dialed \/ ShouldAdmit(c)
        /\ ~RefusesUnpaired(c)
        /\ IF Records(c)
           THEN /\ stage' = [stage EXCEPT ![c] = "recording"]
                /\ UNCHANGED <<attempt, slotVars>>
           ELSE Admit(c)
        /\ UNCHANGED <<conn, noting>>
  /\ UNCHANGED <<session, last, windowVars, accessVars, shutVars, activations>>

(* The write is done.  The connection may have closed meanwhile. *)
Recorded(c) ==
  /\ Holds(c) /\ stage[c] = "recording"
  /\ last' = Server(c)
  /\ Admit(c)
  /\ UNCHANGED <<conn, session, noting, windowVars, accessVars, shutVars, activations>>

(* Mutant: a pairing server that was sent pair/abort is trusted to leave. *)
DismissedTrusting(c) ==
  /\ Holds(c) /\ stage[c] = "displacing"
  /\ IF conn[victim] = "up" /\ "pairing" \notin session[victim].acts
     THEN /\ Disconnect(victim)
          /\ stage' = [stage EXCEPT ![c] = "draining"]
          /\ UNCHANGED slotVars
     ELSE /\ Serve(c)
          /\ UNCHANGED <<conn, noting, admitted>>
  /\ UNCHANGED <<session, last, windowVars, accessVars, shutVars, activations>>

(* _dismiss_connection is through: the displaced connection is disconnected,  *)
(* unless that is under way already.                                          *)
Dismissed(c) ==
  /\ Holds(c) /\ stage[c] = "displacing"
  /\ IF conn[victim] = "up"
     THEN /\ Disconnect(victim)
          /\ stage' = [stage EXCEPT ![c] = "draining"]
          /\ UNCHANGED slotVars
     ELSE /\ Serve(c)
          /\ UNCHANGED <<conn, noting, admitted>>
  /\ UNCHANGED <<session, last, windowVars, accessVars, shutVars, activations>>

Drained(c) ==
  /\ Holds(c) /\ stage[c] = "draining" /\ conn[victim] = "closed"
  /\ Serve(c)
  /\ UNCHANGED <<conn, session, noting, admitted, last, windowVars, accessVars, shutVars,
                 activations>>

(* The task is cancelled while it waits for the lock or for the write. *)
Cancelled(c) ==
  /\ stage[c] \in {"waiting", "recording"}
  /\ Leave(c)
  /\ DisconnectIfUp(c)
  /\ UNCHANGED <<session, admitted, victim, last, windowVars, accessVars, shutVars, activations>>

-----------------------------------------------------------------------------
(* The reader of a served connection. *)

(* server/activate: any attempt ends, then the activation applies or closes  *)
(* the connection.  The admitted connection's playback is written before the *)
(* next attempt starts.                                                      *)
Reactivated(c, s) ==
  /\ stage[c] = "serving" /\ conn[c] = "up" /\ c \notin noting
  /\ activations < MaxActivations
  /\ activations' = activations + 1
  /\ IF s.needs /\ ~access
     THEN Disconnect(c) /\ session' = session
     ELSE /\ session' = [session EXCEPT ![c] = s]
          /\ LET writes == c = admitted /\ "playback" \in s.acts /\ ServerOf[c] # last
             IN /\ noting' = IF writes THEN noting \cup {c} ELSE noting
                /\ attempt' = [attempt EXCEPT ![c] =
                     IF "pairing" \in s.acts /\ ~writes THEN Begun ELSE NoAttempt]
          /\ conn' = conn
  /\ UNCHANGED <<stage, slotVars, last, windowVars, accessVars, shutVars>>

Noted(c) ==
  /\ c \in noting
  /\ last' = ServerOf[c]
  /\ noting' = noting \ {c}
  /\ attempt' = [attempt EXCEPT ![c] = IF "pairing" \in session[c].acts THEN Begun ELSE @]
  /\ UNCHANGED <<stage, conn, session, slotVars, windowVars, accessVars, shutVars, activations>>

-----------------------------------------------------------------------------
(* Pairing attempts and the window that admits those that need a gesture. *)

Admits(c) == window.open /\ window.owner \in {None, c}

ClaimWindow(c) ==
  /\ window' = [window EXCEPT !.owner = c]
  /\ spent' = [spent EXCEPT !.live = @ \cup {c}, !.by = @ \cup {c}]

SetAttempt(c, step, gated) ==
  attempt' = [attempt EXCEPT ![c] = [step |-> step, gated |-> gated]]

AttemptStarts(c, gated) ==
  /\ attempt[c].step = "begun"
  /\ IF gated /\ Admits(c) THEN ClaimWindow(c) ELSE UNCHANGED <<window, spent>>
  /\ SetAttempt(c, IF gated /\ ~Admits(c) THEN "waiting" ELSE "running", gated)
  /\ UNCHANGED <<stage, conn, session, noting, slotVars, last, gestures, accessVars, shutVars,
                 activations>>

AttemptAdmitted(c) ==
  /\ attempt[c].step = "waiting" /\ Admits(c)
  /\ ClaimWindow(c)
  /\ SetAttempt(c, "running", TRUE)
  /\ UNCHANGED <<stage, conn, session, noting, slotVars, last, gestures, accessVars, shutVars,
                 activations>>

AttemptFinal(c) ==
  /\ attempt[c].step = "running" /\ conn[c] = "up"
  /\ SetAttempt(c, "final", attempt[c].gated)
  /\ UNCHANGED <<stage, conn, session, noting, slotVars, last, windowVars, accessVars, shutVars,
                 activations>>

(* Mutant: the limit is off by one. *)
RecordAttemptLate(c, paired) ==
  LET failures == window.failures + IF paired THEN 0 ELSE 1 IN
  window' = IF window.owner # c THEN window
            ELSE IF paired \/ failures > MaxFailures THEN Closed
            ELSE [window EXCEPT !.failures = failures]

(* record_pairing_window_attempt. *)
RecordAttempt(c, paired) ==
  LET failures == window.failures + IF paired THEN 0 ELSE 1 IN
  window' = IF window.owner # c THEN window
            ELSE IF paired \/ failures >= MaxFailures THEN Closed
            ELSE [window EXCEPT !.failures = failures]

(* A gated attempt pairs, or the server's key confirmation is wrong. *)
GatedAttemptEnds(c, paired) ==
  /\ attempt[c].gated /\ conn[c] = "up"
  /\ attempt[c].step = IF paired THEN "final" ELSE "running"
  /\ RecordAttempt(c, paired)
  /\ spent' = IF c \notin spent.live THEN spent
              ELSE [spent EXCEPT !.live = @ \ {c},
                                 !.paired = @ + IF paired THEN 1 ELSE 0,
                                 !.failed = @ + IF paired THEN 0 ELSE 1]
  /\ attempt' = [attempt EXCEPT ![c] = NoAttempt]
  /\ UNCHANGED <<stage, conn, session, noting, slotVars, last, gestures, accessVars, shutVars,
                 activations>>

(* Any other end: an abort, a timeout, a failure, an ungated pairing. *)
AttemptEnds(c) ==
  /\ attempt[c].step # "none"
  /\ attempt' = [attempt EXCEPT ![c] = NoAttempt]
  /\ spent' = [spent EXCEPT !.live = @ \ {c}]
  /\ UNCHANGED <<stage, conn, session, noting, slotVars, last, window, gestures, accessVars,
                 shutVars, activations>>

(* cancel_pairing: a no-op once the attempt is final. *)
CancelPairing ==
  /\ admitted # None
  /\ attempt[admitted].step \in {"begun", "waiting", "running"}
  /\ window' = Closed
  /\ attempt' = [attempt EXCEPT ![admitted] = NoAttempt]
  /\ UNCHANGED <<stage, conn, session, noting, slotVars, last, spent, gestures, accessVars,
                 shutVars, activations>>

OpenWindow ==
  /\ ~window.open /\ gestures < MaxGestures
  /\ window' = [Closed EXCEPT !.open = TRUE]
  /\ gestures' = gestures + 1
  /\ spent' = Unspent
  /\ UNCHANGED <<connVars, slotVars, last, accessVars, shutVars, activations>>

(* close_pairing_window by the operator, or the lifetime is over: then the    *)
(* owner stays until the next gesture.                                        *)
CloseWindow ==
  /\ window.open
  /\ window' \in {Closed, [window EXCEPT !.open = FALSE]}
  /\ UNCHANGED <<connVars, slotVars, last, spent, gestures, accessVars, shutVars, activations>>

-----------------------------------------------------------------------------
(* set_unpaired_access. *)

AskAccess(v) ==
  /\ setter.step = "idle" /\ changes < MaxChanges
  /\ setter' = [step |-> "waiting", value |-> v]
  /\ changes' = changes + 1
  /\ line' = Append(line, Setter)
  /\ UNCHANGED <<connVars, admitted, victim, provisional, open, last, windowVars, access,
                 shutVars, activations>>

WriteAccess ==
  /\ Holds(Setter) /\ setter.step = "waiting"
  /\ access' = setter.value
  /\ setter' = [setter EXCEPT !.step = "saving"]
  /\ UNCHANGED <<connVars, slotVars, last, windowVars, changes, shutVars, activations>>

ReleaseAccess ==
  /\ setter' = [setter EXCEPT !.step = "idle"]
  /\ line' = Tail(line)
  /\ UNCHANGED <<admitted, victim, provisional, open>>

(* The setting is written: the admitted connection that relied on it closes. *)
AccessWritten ==
  /\ Holds(Setter) /\ setter.step = "saving"
  /\ IF admitted # None /\ conn[admitted] = "up" /\ RefusesUnpaired(admitted)
     THEN /\ Disconnect(admitted)
          /\ setter' = [setter EXCEPT !.step = "closing"]
          /\ UNCHANGED slotVars
     ELSE /\ ReleaseAccess
          /\ UNCHANGED <<conn, attempt, noting>>
  /\ UNCHANGED <<stage, session, last, windowVars, access, changes, shutVars, activations>>

(* The lock is only held while the connection closes, so no other is admitted. *)
AccessSet ==
  /\ Holds(Setter) /\ setter.step = "closing"
  /\ admitted = None
  /\ ReleaseAccess
  /\ UNCHANGED <<connVars, last, windowVars, access, changes, shutVars, activations>>

-----------------------------------------------------------------------------
(* SendspinClient.disconnect. *)

Known == {c \in provisional \cup {admitted} : c # None}

(* Mutant: the connections that wait for admission are forgotten. *)
ShutdownServed ==
  /\ shut.step = "no" /\ MaxShutdowns > 0
  /\ shut' = [step |-> "provisional", todo |-> {}, on |-> None]
  /\ asked' = {c \in Known : conn[c] = "up"}
  /\ UNCHANGED <<connVars, slotVars, last, windowVars, accessVars, activations>>

Shutdown ==
  /\ shut.step = "no" /\ MaxShutdowns > 0
  /\ shut' = [step |-> "provisional", todo |-> provisional, on |-> None]
  /\ asked' = {c \in Known : conn[c] = "up"}
  /\ UNCHANGED <<connVars, slotVars, last, windowVars, accessVars, activations>>

ShutAwaits == shut.on # None /\ conn[shut.on] # "closed"

ShutProvisional(c) ==
  /\ shut.step = "provisional" /\ ~ShutAwaits /\ c \in shut.todo
  /\ DisconnectIfUp(c)
  /\ shut' = [shut EXCEPT !.todo = @ \ {c}, !.on = IF conn[c] = "up" THEN c ELSE None]
  /\ UNCHANGED <<stage, session, slotVars, last, windowVars, accessVars, asked, activations>>

(* disconnect() returns. *)
ShutReturns ==
  /\ shut' = [step |-> "done", todo |-> {}, on |-> None]
  /\ asked' = {}

(* The admitted connection is sent a goodbye, then it is disconnected. *)
ShutAdmitted ==
  /\ shut.step = "provisional" /\ ~ShutAwaits /\ shut.todo = {}
  /\ IF admitted = None THEN ShutReturns
     ELSE /\ shut' = [shut EXCEPT !.step = "goodbye", !.on = admitted]
          /\ asked' = asked
  /\ UNCHANGED <<connVars, slotVars, last, windowVars, accessVars, activations>>

ShutGoodbye ==
  /\ shut.step = "goodbye"
  /\ DisconnectIfUp(shut.on)
  /\ IF conn[shut.on] # "up" THEN ShutReturns
     ELSE shut' = [shut EXCEPT !.step = "closing"] /\ asked' = asked
  /\ UNCHANGED <<stage, session, slotVars, last, windowVars, accessVars, activations>>

ShutClosed ==
  /\ shut.step = "closing" /\ ~ShutAwaits
  /\ ShutReturns
  /\ UNCHANGED <<connVars, slotVars, last, windowVars, accessVars, activations>>

-----------------------------------------------------------------------------
Init ==
  /\ stage = [c \in Conns |-> "new"]
  /\ conn = [c \in Conns |-> "none"]
  /\ session = [c \in Conns |-> NoSession]
  /\ noting = {}
  /\ attempt = [c \in Conns |-> NoAttempt]
  /\ line = <<>> /\ admitted = None /\ victim = None
  /\ provisional = {} /\ open = {}
  /\ last \in {ServerOf[c] : c \in Conns} \cup {None}  \* read from the store
  /\ window = Closed
  /\ access \in Settings
  /\ setter = [step |-> "idle", value |-> FALSE]
  /\ shut = [step |-> "no", todo |-> {}, on |-> None]
  /\ asked = {} /\ spent = Unspent
  /\ activations = 0 /\ gestures = 0 /\ changes = 0

BringUp(c) ==
  \/ Begin(c) \/ Handshaken(c) \/ BringUpFails(c) \/ Ended(c)
  \/ \E s \in Kinds : Activated(c, s)

Admission(c) ==
  \/ Decide(c) \/ Recorded(c) \/ Dismissed(c) \/ Drained(c) \/ Cancelled(c)

Steady(c) ==
  \/ ConnectionClosed(c) \/ ConnectionLost(c) \/ Noted(c)
  \/ \E s \in Kinds : Reactivated(c, s)

Pairing(c) ==
  \/ \E gated \in Gating : AttemptStarts(c, gated)
  \/ AttemptAdmitted(c) \/ AttemptFinal(c) \/ AttemptEnds(c)
  \/ \E paired \in BOOLEAN : GatedAttemptEnds(c, paired)

Operator ==
  \/ CancelPairing \/ OpenWindow \/ CloseWindow
  \/ \E v \in BOOLEAN : AskAccess(v)
  \/ WriteAccess \/ AccessWritten \/ AccessSet
  \/ Shutdown \/ ShutAdmitted \/ ShutGoodbye \/ ShutClosed
  \/ \E c \in Conns : ShutProvisional(c)

Next ==
  \/ \E c \in Conns : BringUp(c) \/ Admission(c) \/ Steady(c) \/ Pairing(c)
  \/ Operator

Spec == Init /\ [][Next]_vars

(* What the task of a connection does next once it is provisional. *)
TaskStep(c) ==
  BringUpFails(c) \/ Ended(c) \/ Decide(c) \/ Recorded(c) \/ Dismissed(c) \/ Drained(c)

(* Bring-up is under a timeout; a write and a goodbye end, or fail; closing a  *)
(* connection cancels its tasks and closes its socket.  Peers and the operator *)
(* owe nothing.                                                                *)
Fairness ==
  /\ \A c \in Conns : WF_vars(TaskStep(c)) /\ WF_vars(ConnectionClosed(c))
  /\ WF_vars(WriteAccess \/ AccessWritten \/ AccessSet)

FairSpec == Spec /\ Fairness

-----------------------------------------------------------------------------
(* Properties. *)

Serving(c) == stage[c] = "serving" /\ conn[c] = "up"

BeingDisplaced(c) == c = victim /\ \E d \in Conns : Holds(d) /\ stage[d] = "displacing"

(* At most one server is served: a connection that is up and past its          *)
(* admission is the admitted one, or it is being told that it is displaced by  *)
(* the connection that holds the lock.                                         *)
OneServing == \A c \in Conns : Serving(c) => c = admitted \/ BeingDisplaced(c)

(* The admitted connection is live, or its end will be reported: no connection *)
(* that has closed, during the write before its admission say, stays admitted, *)
(* where it would hide the end of the session from the application.            *)
AdmittedLives == admitted # None => conn[admitted] \in {"up", "closing"}

(* Slots: never more than the pairing store leaves room for, one for every     *)
(* connection that gets past its handshake, and none for one that has ended,   *)
(* whichever of bring-up, admission and closing ended it.                      *)
SlotsKept ==
  /\ Cardinality(open) < Capacity
  /\ \A c \in Conns :
       /\ conn[c] = "up" => c \in open
       /\ stage[c] \in {"serving", "done"} /\ conn[c] \in {"none", "closed"} => c \notin open

(* When unpaired access is off, and the call that turned it off has returned,  *)
(* no served connection relies on it: not one that was let in just before the  *)
(* setting was written, nor one that waited for admission meanwhile.           *)
UnpairedRefused ==
  ~access /\ setter.step \notin {"saving", "closing"} =>
    \A c \in Conns : Serving(c) => ~session[c].needs

(* Who is served: one at a time, live, and allowed.                            *)
ServedRightly == OneServing /\ AdmittedLives /\ UnpairedRefused

(* One gesture of the operator admits the attempts of one server only, of      *)
(* which at most MaxFailures fail and at most one pairs, even if the window    *)
(* lapses or a new one opens while an attempt runs.                            *)
GestureSpent ==
  /\ Cardinality(spent.by) <= 1
  /\ spent.failed <= MaxFailures
  /\ spent.paired <= 1

(* A server that plays is displaced by an incoming connection only if that one *)
(* plays too, whatever was awaited between the decision and the displacement.  *)
PlaybackKept ==
  [][ admitted # None /\ admitted' # admitted /\ admitted' \notin Dialed \cup {None}
      /\ conn[admitted] = "up" /\ Rank(admitted) = 2
      => Rank(admitted') = 2 ]_vars

(* A connection that was up, admitted or awaiting its admission, when          *)
(* disconnect() was called, is not served when it returns, unless another one  *)
(* was displacing it then.                                                     *)
ShutdownCloses ==
  [][ shut'.step = "done" =>
      \A c \in asked : Serving(c) => BeingDisplaced(c) ]_shut

(* Every provisional connection is admitted or dropped in the end: the lock is *)
(* always released.                                                            *)
ProvisionalEnds == \A c \in Conns : c \in provisional ~> c \notin provisional
=============================================================================
