------------------------- MODULE ClientLifecycleProofs -------------------------
(***************************************************************************)
(* For any roles and any connections of a device, accepted or dialed: the  *)
(* registry follows the device, roles start and stop in pairs, a lenient   *)
(* server never waits without a timeout, and only its own connection       *)
(* detaches a client.  The argument follows two things through every step: *)
(* whose client it is, and which of its roles run.                         *)
(***************************************************************************)
EXTENDS ClientLifecycle, TLAPS

-----------------------------------------------------------------------------
(* The inductive invariant. *)

(* An attached client is registered, and its connection acts on it. *)
Attachment ==
  /\ k.connection # NoConn =>
       /\ srv.registered /\ k.cleanup = "none" /\ ~k.retained
       /\ conn[k.connection].hasClient /\ conn[k.connection].owner = srv.gen
  /\ k.connected => k.connection # NoConn

(* A connection that still acts on the registered client and is not being   *)
(* closed is the one attached: an older one was told to disconnect.         *)
Owned(c) ==
  /\ conn[c].hasClient =>
       /\ conn[c].owner <= srv.gen
       /\ conn[c].owner = srv.gen /\ conn[c].disc = "no" => k.connection = c
  /\ conn[c].place \in {"off", "hello"} => ~conn[c].hasClient /\ ~conn[c].initial

Ownership == \A c \in Conns : Owned(c)

(* Who wants a registered client that has no connection. *)
Wanted == NoForgottenClient /\ ExternalOutlivesCleanup

(* The roles of an attached client run, and no role runs otherwise. *)
Paired ==
  /\ k.faults = {}
  /\ k.connection # NoConn => k.attached
  /\ k.attached => k.cold \/ k.connection # NoConn
  /\ k.attached => \A r \in RoleIds : k.roles[r] \in {"live", "absent"}
  /\ ~k.attached => \A r \in RoleIds : k.roles[r] # "live"

(* What the attached connection still waits for is timed. *)
Timed(c) ==
  k.connection = c =>
    /\ conn[c].initial => k.connected
    /\ Lenient /\ conn[c].disc = "no" /\ conn[c].initial => k.awaiting = {} \/ conn[c].actTimer
    /\ Lenient /\ conn[c].disc = "no" /\ conn[c].place = "live" /\ ~conn[c].initial =>
         conn[c].timer /\ conn[c].awaited

Holding == \A r \in k.awaiting : r \in NeedsState /\ k.roles[r] # "absent"

Waits == Holding /\ \A c \in Conns : Timed(c)

IInv ==
  /\ TypeOK /\ Attachment /\ Ownership /\ Wanted /\ Paired /\ Waits

-----------------------------------------------------------------------------
(* Connections. *)

(* From s to t a connection at most winds down. *)
Winds(s, t) ==
  /\ t \in ConnType
  /\ t.hasClient = s.hasClient /\ t.owner = s.owner
  /\ t.initial = s.initial /\ t.awaited = s.awaited
  /\ t.disc = "no" => s.disc = "no" /\ t.timer = s.timer /\ t.actTimer = s.actTimer
  /\ t.place \in {"off", "hello"} => s.place \in {"off", "hello"}
  /\ t.place = "live" => s.place = "live"

LEMMA WindsRefl ==
  ASSUME NEW s \in ConnType
  PROVE  Winds(s, s)
BY DEF Winds

(* The first part of a disconnect winds a connection down. *)
LEMMA BeginDisconnectWinds ==
  ASSUME NEW s \in ConnType, NEW retry \in BOOLEAN
  PROVE  Winds(s, BeginDisconnect(s, retry)) /\ BeginDisconnect(s, retry).disc # "no"
<1> DEFINE shut == [s EXCEPT !.closing = @ \/ ~retry]
           writer == s.place \in {"live", "closing"} /\ s.reader = "running"
           d == IF writer THEN "tasks" ELSE "socket"
           r == IF ~writer /\ s.reader = "running" THEN "ended" ELSE s.reader
           t == [shut EXCEPT !.timer = FALSE, !.actTimer = FALSE, !.disc = d, !.reader = r]
<1>1. shut \in ConnType /\ Winds(s, shut) /\ shut.disc = s.disc /\ shut.reader = s.reader
  BY DEF ConnType, Winds
<1>2. BeginDisconnect(s, retry) = IF s.disc # "no" THEN shut ELSE t
  BY <1>1 DEF BeginDisconnect
<1>3. d \in {"tasks", "socket"} /\ r \in {"none", "running", "leaving", "ended"}
  BY DEF ConnType
<1> HIDE DEF shut, d, r
<1>4. t \in ConnType /\ t.disc = d /\ t.hasClient = shut.hasClient /\ t.owner = shut.owner
      /\ t.initial = shut.initial /\ t.awaited = shut.awaited /\ t.place = shut.place
  BY <1>1, <1>3 DEF ConnType
<1> HIDE DEF t
<1>5. Winds(s, t) /\ t.disc # "no"
  BY <1>1, <1>3, <1>4 DEF Winds
<1> QED BY <1>1, <1>2, <1>5

(* So does cancelling its task. *)
LEMMA CancelledWinds ==
  ASSUME NEW s \in ConnType
  PROVE  Winds(s, Cancelled(s))
<1>1. CASE s.place \in {"hello", "pairing", "activating", "live"}
  BY <1>1 DEF Cancelled, Winds, ConnType, Places
<1>2. CASE s.place = "closing"
  BY <1>2 DEF Cancelled, Winds, ConnType, Places
<1>3. CASE s.place = "detaching" /\ s.disc = "socket"
  BY <1>3 DEF Cancelled, Winds, ConnType, Places
<1>4. CASE s.place \notin {"hello", "pairing", "activating", "live", "closing"}
           /\ ~(s.place = "detaching" /\ s.disc = "socket")
  BY <1>4 DEF Cancelled, Winds
<1> QED BY <1>1, <1>2, <1>3, <1>4

(* A step that changes nothing of the client and only winds connections down. *)
Quiet ==
  /\ k' = k
  /\ srv' \in ServerType
  /\ srv'.gen = srv.gen /\ srv'.registered = srv.registered /\ srv'.external = srv.external
  /\ conn' \in [Conns -> ConnType]
  /\ \A x \in Conns : Winds(conn[x], conn'[x])
  /\ dial' \in DialType /\ requests' \in Nat /\ registrations' \in Nat

(* A step of one connection alone. *)
LEMMA OneWinds ==
  ASSUME TypeOK, NEW c \in Conns, NEW t, Winds(conn[c], t),
         conn' = [conn EXCEPT ![c] = t]
  PROVE  conn' \in [Conns -> ConnType] /\ \A x \in Conns : Winds(conn[x], conn'[x])
<1>1. t \in ConnType BY DEF Winds
<1>2. conn' \in [Conns -> ConnType] BY <1>1 DEF TypeOK
<1>3. ASSUME NEW x \in Conns PROVE Winds(conn[x], conn'[x])
  <2>1. CASE x = c BY <2>1 DEF TypeOK
  <2>2. CASE x # c
    <3>1. conn'[x] = conn[x] /\ conn[x] \in ConnType BY <2>2 DEF TypeOK
    <3> QED BY <3>1, WindsRefl
  <2> QED BY <2>1, <2>2
<1> QED BY <1>2, <1>3

LEMMA QuietKeeps ==
  ASSUME IInv, Quiet
  PROVE  IInv'
<1>1. TypeOK'
  BY DEF IInv, TypeOK, Quiet
<1>2. Attachment'
  <2>1. CASE k.connection # NoConn
    <3>1. k.connection \in Conns BY <2>1 DEF IInv, TypeOK, ClientType
    <3> QED BY <2>1, <3>1 DEF IInv, Attachment, Quiet, Winds
  <2>2. CASE k.connection = NoConn
    BY <2>2 DEF IInv, Attachment, Quiet
  <2> QED BY <2>1, <2>2
<1>3. Ownership'
  <2> SUFFICES ASSUME NEW c \in Conns PROVE Owned(c)'
    BY DEF Ownership
  <2>1. Owned(c) /\ Winds(conn[c], conn'[c])
    BY DEF IInv, Ownership, Quiet
  <2> QED BY <2>1 DEF Owned, Winds, Quiet
<1>4. Wanted'
  BY DEF IInv, Wanted, NoForgottenClient, ExternalOutlivesCleanup, Quiet
<1>5. Paired'
  BY DEF IInv, Paired, Quiet
<1>6. Waits'
  <2>1. Holding' BY DEF IInv, Waits, Holding, Quiet
  <2>2. ASSUME NEW c \in Conns PROVE Timed(c)'
    <3>1. Timed(c) /\ Winds(conn[c], conn'[c])
      BY DEF IInv, Waits, Quiet
    <3> QED BY <3>1 DEF Timed, Winds, Quiet
  <2> QED BY <2>1, <2>2 DEF Waits
<1> QED BY <1>1, <1>2, <1>3, <1>4, <1>5, <1>6 DEF IInv

-----------------------------------------------------------------------------
(* The steps that change nothing of the client. *)

(* The steps that end a connection, before its socket is closed. *)
LEMMA EndingIsQuiet ==
  ASSUME IInv, NEW c \in Conns,
         \/ TasksEnd(c) \/ Overflows(c) \/ ReaderEnds(c)
         \/ \E reason \in Reasons : Goodbye(c, reason)
         \/ HandlerFails(c) \/ HandlerDisconnects(c) \/ HandlerEnds(c) \/ Accept(c)
  PROVE  Quiet
<1>0. conn[c] \in ConnType /\ conn \in [Conns -> ConnType] /\ TypeOK
  BY DEF IInv, TypeOK
<1>1. ASSUME NEW t, Winds(conn[c], t), conn' = [conn EXCEPT ![c] = t],
             UNCHANGED <<k, Registry>>
      PROVE  Quiet
  <2>1. conn' \in [Conns -> ConnType] /\ \A x \in Conns : Winds(conn[x], conn'[x])
    BY <1>0, <1>1, OneWinds
  <2> QED BY <1>0, <1>1, <2>1 DEF Quiet, Registry, boundVars, TypeOK
<1>2. CASE TasksEnd(c)
  <2> DEFINE r == IF conn[c].reader = "running" THEN "ended" ELSE conn[c].reader
             t == [conn[c] EXCEPT !.disc = "socket", !.reader = r]
  <2>1. r \in {"none", "running", "leaving", "ended"} BY <1>0 DEF ConnType
  <2>2. conn' = [conn EXCEPT ![c] = t] BY <1>0, <1>2 DEF TasksEnd, ConnType
  <2> HIDE DEF r
  <2>3. Winds(conn[c], t) BY <1>0, <2>1 DEF Winds, ConnType
  <2> QED BY <1>1, <1>2, <2>2, <2>3 DEF TasksEnd
<1>3. CASE Overflows(c)
  BY <1>0, <1>1, <1>3, BeginDisconnectWinds DEF Overflows
<1>4. CASE ReaderEnds(c)
  <2>1. PICK rejected \in BOOLEAN :
          conn' = [conn EXCEPT ![c].reader = "ended", ![c].closing = @ \/ rejected]
    BY <1>4 DEF ReaderEnds
  <2> DEFINE cl == conn[c].closing \/ rejected
             t == [conn[c] EXCEPT !.reader = "ended", !.closing = cl]
  <2>2. conn' = [conn EXCEPT ![c] = t] BY <1>0, <2>1 DEF ConnType
  <2>3. cl \in BOOLEAN OBVIOUS
  <2> HIDE DEF cl
  <2>4. Winds(conn[c], t) BY <1>0, <2>3 DEF Winds, ConnType
  <2> QED BY <1>1, <1>4, <2>2, <2>4 DEF ReaderEnds
<1>5. CASE \E reason \in Reasons : Goodbye(c, reason)
  <2>1. PICK reason \in Reasons : Goodbye(c, reason) BY <1>5
  <2> DEFINE g == [conn[c] EXCEPT !.goodbye = reason]
             retry == reason = "RESTART"
             s == BeginDisconnect(g, retry)
             t == IF conn[c].disc = "no" THEN [s EXCEPT !.reader = "leaving"] ELSE s
  <2>2. g \in ConnType /\ Winds(conn[c], g)
    BY <1>0 DEF Winds, ConnType
  <2>3. retry \in BOOLEAN OBVIOUS
  <2>4. conn' = [conn EXCEPT ![c] = t] BY <2>1 DEF Goodbye
  <2> HIDE DEF g, retry
  <2>5. Winds(g, s) BY <2>2, <2>3, BeginDisconnectWinds
  <2> HIDE DEF s
  <2>6. Winds(conn[c], s) BY <2>2, <2>5 DEF Winds
  <2>7. Winds(conn[c], t) BY <2>6 DEF Winds, ConnType
  <2> QED BY <1>1, <2>1, <2>4, <2>7 DEF Goodbye
<1>6. CASE HandlerFails(c)
  <2>1. PICK rejected \in BOOLEAN :
          conn' = [conn EXCEPT ![c].place = "closing", ![c].closing = @ \/ rejected]
    BY <1>6 DEF HandlerFails
  <2> DEFINE cl == conn[c].closing \/ rejected
             t == [conn[c] EXCEPT !.place = "closing", !.closing = cl]
  <2>2. conn' = [conn EXCEPT ![c] = t] BY <1>0, <2>1 DEF ConnType
  <2>3. cl \in BOOLEAN OBVIOUS
  <2> HIDE DEF cl
  <2>4. Winds(conn[c], t) BY <1>0, <2>3 DEF Winds, ConnType, Places
  <2> QED BY <1>1, <1>6, <2>2, <2>4 DEF HandlerFails
<1>7. CASE HandlerDisconnects(c)
  <2> DEFINE retry == ~conn[c].closing
             s == BeginDisconnect(conn[c], retry)
             t == IF conn[c].disc = "no" THEN [s EXCEPT !.place = "detaching"]
                  ELSE [conn[c] EXCEPT !.place = "ended"]
  <2>1. retry \in BOOLEAN BY <1>0 DEF ConnType
  <2>2. conn' = [conn EXCEPT ![c] = t] BY <1>7 DEF HandlerDisconnects
  <2> HIDE DEF retry
  <2>3. Winds(conn[c], s) BY <1>0, <2>1, BeginDisconnectWinds
  <2> HIDE DEF s
  <2>4. Winds(conn[c], t) BY <1>0, <2>3 DEF Winds, ConnType, Places
  <2> QED BY <1>1, <1>7, <2>2, <2>4 DEF HandlerDisconnects
<1>8. CASE HandlerEnds(c)
  <2> DEFINE t == [conn[c] EXCEPT !.place = "ended"]
  <2>1. conn' = [conn EXCEPT ![c] = t] BY <1>8 DEF HandlerEnds
  <2>2. Winds(conn[c], t) BY <1>0 DEF Winds, ConnType, Places
  <2> QED BY <1>1, <1>8, <2>1, <2>2 DEF HandlerEnds
<1>9. CASE Accept(c)
  <2> DEFINE t == [conn[c] EXCEPT !.place = "hello"]
  <2>1. conn' = [conn EXCEPT ![c] = t] BY <1>9 DEF Accept
  <2>2. Winds(conn[c], t) BY <1>0, <1>9 DEF Accept, Winds, ConnType, Places
  <2> QED BY <1>1, <1>9, <2>1, <2>2 DEF Accept
<1> QED BY <1>2, <1>3, <1>4, <1>5, <1>6, <1>7, <1>8, <1>9

(* The connections when the dial task is stopped. *)
LEMMA StopTaskEffect ==
  ASSUME TypeOK, StopTask
  PROVE  /\ dial' \in DialType
         /\ conn' \in [Conns -> ConnType] /\ \A x \in Conns : Winds(conn[x], conn'[x])
<1>1. \A x \in Conns : conn[x] \in ConnType BY DEF TypeOK
<1>2. \A x \in Conns : Winds(conn[x], Cancelled(conn[x])) /\ Winds(conn[x], conn[x])
  BY <1>1, CancelledWinds, WindsRefl
<1>3. \A x \in Conns : Winds(conn[x], conn'[x])
  BY <1>2 DEF StopTask
<1>4. conn' \in [Conns -> ConnType]
  <2>1. \A x \in Conns : conn'[x] \in ConnType BY <1>3 DEF Winds
  <2> QED BY <2>1 DEF StopTask
<1>5. dial' \in DialType BY DEF StopTask, Idle, DialType
<1> QED BY <1>3, <1>4, <1>5

LEMMA AllWindRefl ==
  ASSUME TypeOK, conn' = conn
  PROVE  conn' \in [Conns -> ConnType] /\ \A x \in Conns : Winds(conn[x], conn'[x])
<1>1. \A x \in Conns : conn[x] \in ConnType BY DEF TypeOK
<1> QED BY <1>1, WindsRefl DEF TypeOK

LEMMA RedialedType ==
  ASSUME TypeOK, NEW t \in Redialed
  PROVE  t \in DialType
<1>1. CASE ~dial.running
  BY <1>1 DEF Redialed, Dialing, Idle, DialType
<1>2. CASE dial.running
  <2>1. PICK again \in BOOLEAN : t = [dial EXCEPT !.redial = @ \/ again]
    <3>1. ASSUME NEW s PROVE \A retry \in Retries(s) : retry \in BOOLEAN
      BY DEF Retries
    <3>2. CASE dial.on # NoConn /\ conn[dial.on].disc # "no"
      BY <1>2, <3>1, <3>2 DEF Redialed
    <3>3. CASE ~(dial.on # NoConn /\ conn[dial.on].disc # "no")
      BY <1>2, <3>3 DEF Redialed
    <3> QED BY <3>2, <3>3
  <2> DEFINE rd == dial.redial \/ again
  <2>2. t = [dial EXCEPT !.redial = rd] BY <2>1 DEF TypeOK, DialType
  <2>3. rd \in BOOLEAN OBVIOUS
  <2> HIDE DEF rd
  <2> QED BY <2>2, <2>3 DEF TypeOK, DialType
<1> QED BY <1>1, <1>2

(* The steps of the dial task that leave the registry alone. *)
LEMMA DialIsQuiet ==
  ASSUME IInv,
         \/ DialRequest \/ Reclaim \/ StopDial
         \/ \E c \in Conns : DialOpens(c) \/ DialResumes(c)
  PROVE  Quiet
<1>0. TypeOK /\ srv \in ServerType /\ dial \in DialType /\ requests \in Nat
      /\ registrations \in Nat /\ conn \in [Conns -> ConnType]
  BY DEF IInv, TypeOK
<1>1. CASE DialRequest
  <2>1. k' = k /\ conn' = conn /\ srv' = srv /\ registrations' = registrations
        /\ dial' \in Redialed /\ requests' = requests + 1
    BY <1>1 DEF DialRequest
  <2>2. dial' \in DialType BY <1>0, <2>1, RedialedType
  <2> QED BY <1>0, <2>1, <2>2, AllWindRefl DEF Quiet
<1>2. CASE Reclaim
  <2>1. k' = k /\ conn' = conn /\ registrations' = registrations
        /\ dial' \in Redialed /\ requests' = requests + 1
        /\ srv' = [srv EXCEPT !.reclaim = TRUE]
    BY <1>2 DEF Reclaim
  <2>2. dial' \in DialType BY <1>0, <2>1, RedialedType
  <2>3. srv' \in ServerType /\ srv'.gen = srv.gen /\ srv'.registered = srv.registered
        /\ srv'.external = srv.external
    BY <1>0, <2>1 DEF ServerType
  <2> QED BY <1>0, <2>1, <2>2, <2>3, AllWindRefl DEF Quiet
<1>3. CASE StopDial
  <2>1. PICK forgets \in BOOLEAN :
          srv' = [srv EXCEPT !.deferred = @ /\ ~(srv.url /\ forgets)]
    BY <1>3 DEF StopDial
  <2>2. k' = k /\ registrations' = registrations /\ requests' = requests + 1 /\ StopTask
    BY <1>3 DEF StopDial
  <2> DEFINE df == srv.deferred /\ ~(srv.url /\ forgets)
  <2>3. srv' = [srv EXCEPT !.deferred = df] BY <1>0, <2>1 DEF ServerType
  <2>4. df \in BOOLEAN BY <1>0 DEF ServerType
  <2> HIDE DEF df
  <2>5. srv' \in ServerType /\ srv'.gen = srv.gen /\ srv'.registered = srv.registered
        /\ srv'.external = srv.external
    BY <1>0, <2>3, <2>4 DEF ServerType
  <2> QED BY <1>0, <2>2, <2>5, StopTaskEffect DEF Quiet
<1>4. ASSUME NEW c \in Conns, DialOpens(c) PROVE Quiet
  <2> DEFINE t == [conn[c] EXCEPT !.place = "hello"]
  <2>1. conn' = [conn EXCEPT ![c] = t] /\ k' = k /\ srv' = srv /\ requests' = requests
        /\ registrations' = registrations /\ conn[c].place = "off"
        /\ dial' = [dial EXCEPT !.ok = TRUE, !.on = c]
    BY <1>4 DEF DialOpens, boundVars
  <2>2. conn[c] \in ConnType BY <1>0
  <2>3. Winds(conn[c], t) BY <2>1, <2>2 DEF Winds, ConnType, Places
  <2>4. dial' \in DialType BY <1>0, <2>1 DEF DialType
  <2> HIDE DEF t
  <2>5. conn' \in [Conns -> ConnType] /\ \A x \in Conns : Winds(conn[x], conn'[x])
    BY <1>0, <2>1, <2>3, OneWinds
  <2> QED BY <1>0, <2>1, <2>4, <2>5 DEF Quiet
<1>5. ASSUME NEW c \in Conns, DialResumes(c) PROVE Quiet
  <2>1. conn' = conn /\ k' = k /\ srv' = srv /\ requests' = requests
        /\ registrations' = registrations
        /\ dial' = [dial EXCEPT !.on = NoConn, !.redial = FALSE, !.ok = @ /\ ~dial.redial]
    BY <1>5 DEF DialResumes, boundVars
  <2> DEFINE ok == dial.ok /\ ~dial.redial
  <2>2. dial' = [dial EXCEPT !.on = NoConn, !.redial = FALSE, !.ok = ok]
    BY <1>0, <2>1 DEF DialType
  <2>3. ok \in BOOLEAN BY <1>0 DEF DialType
  <2> HIDE DEF ok
  <2>4. dial' \in DialType BY <1>0, <2>2, <2>3 DEF DialType
  <2> QED BY <1>0, <2>1, <2>4, AllWindRefl DEF Quiet
<1> QED BY <1>1, <1>2, <1>3, <1>4, <1>5

-----------------------------------------------------------------------------
(* The steps that forget the client. *)

(* A client without a connection leaves the registry. *)
Removal ==
  /\ k.connection = NoConn
  /\ k' = EmptyClient
  /\ srv' \in ServerType
  /\ ~srv'.registered /\ srv'.external = "no"
  /\ srv'.gen = srv.gen \/ (srv'.gen = srv.gen + 1)
  /\ conn' \in [Conns -> ConnType]
  /\ \A x \in Conns : Winds(conn[x], conn'[x])
  /\ dial' \in DialType /\ requests' \in Nat /\ registrations' \in Nat

LEMMA EmptyClientType ==
  /\ EmptyClient \in ClientType
  /\ EmptyClient.connection = NoConn /\ ~EmptyClient.connected /\ ~EmptyClient.attached
  /\ EmptyClient.cleanup = "none" /\ EmptyClient.faults = {} /\ EmptyClient.awaiting = {}
  /\ EmptyClient.roles = [r \in RoleIds |-> "absent"]
BY DEF EmptyClient, ClientType, Instance

LEMMA RemovalKeeps ==
  ASSUME IInv, Removal
  PROVE  IInv'
<1>0. k'.connection = NoConn /\ ~k'.connected /\ ~k'.attached /\ k'.cleanup = "none"
      /\ k'.faults = {} /\ k'.awaiting = {} /\ k'.roles = [r \in RoleIds |-> "absent"]
      /\ k' \in ClientType
  BY EmptyClientType DEF Removal
<1>1. TypeOK'
  BY <1>0 DEF TypeOK, Removal
<1>2. Attachment'
  BY <1>0 DEF Attachment
<1>3. Ownership'
  <2> SUFFICES ASSUME NEW c \in Conns PROVE Owned(c)'
    BY DEF Ownership
  <2>1. Owned(c) /\ Winds(conn[c], conn'[c]) /\ k.connection # c
    BY ClientAssumption DEF IInv, Ownership, Removal
  <2>2. conn[c].owner \in Nat /\ srv.gen \in Nat
    BY DEF IInv, TypeOK, ConnType, ServerType
  <2>3. conn'[c].hasClient => conn'[c].owner <= srv'.gen
    BY <2>1, <2>2 DEF Owned, Winds, Removal
  <2>4. ~(conn'[c].hasClient /\ conn'[c].owner = srv'.gen /\ conn'[c].disc = "no")
    BY <2>1, <2>2 DEF Owned, Winds, Removal
  <2>5. conn'[c].place \in {"off", "hello"} => ~conn'[c].hasClient /\ ~conn'[c].initial
    BY <2>1 DEF Owned, Winds
  <2> QED BY <2>3, <2>4, <2>5 DEF Owned
<1>4. Wanted'
  BY <1>0 DEF Wanted, NoForgottenClient, ExternalOutlivesCleanup, Removal
<1>5. Paired'
  BY <1>0 DEF Paired
<1>6. Waits'
  BY <1>0, ClientAssumption DEF Waits, Holding, Timed
<1> QED BY <1>1, <1>2, <1>3, <1>4, <1>5, <1>6 DEF IInv

(* remove_client leaves no trace of the client, if none of its roles ran. *)
LEMMA RemoveClientEffect ==
  ASSUME NEW j, j.faults = {}, LiveRoles(j) = {} \/ j.cold,
         NEW s \in ServerType, RemoveClient(j, s)
  PROVE  /\ k' = EmptyClient
         /\ srv' \in ServerType /\ ~srv'.registered /\ srv'.external = "no"
         /\ srv'.gen = s.gen \/ (srv'.gen = s.gen + 1)
<1>1. k' = EmptyClient
  <2> DEFINE f == Fault(j, "leaked", LiveRoles(j) # {} /\ ~j.cold).faults
  <2>1. f = {} BY DEF Fault
  <2>2. k' = [EmptyClient EXCEPT !.faults = f] BY DEF RemoveClient
  <2> HIDE DEF f
  <2> QED BY <2>1, <2>2 DEF EmptyClient
<1>2. /\ srv' \in ServerType /\ ~srv'.registered /\ srv'.external = "no"
      /\ srv'.gen = s.gen \/ (srv'.gen = s.gen + 1)
  <2> DEFINE g == s.gen + (IF s.registered THEN 1 ELSE 0)
             df == s.deferred
  <2>1. srv' = [NewServer EXCEPT !.gen = g, !.deferred = df] BY DEF RemoveClient
  <2>2. g \in Nat /\ (g = s.gen \/ (g = s.gen + 1)) /\ df \in BOOLEAN BY DEF ServerType
  <2> HIDE DEF g, df
  <2> QED BY <2>1, <2>2 DEF NewServer, ServerType
<1> QED BY <1>1, <1>2

(* No role of a detached client runs, unless it was connected cold. *)
LEMMA DetachedIsIdle ==
  ASSUME IInv, k.connection = NoConn
  PROVE  LiveRoles(k) = {} \/ k.cold
BY DEF IInv, Paired, LiveRoles

(* _full_unregister_disconnected_client removes a client, or changes little. *)
LEMMA FullUnregisterEffect ==
  ASSUME IInv, NEW s \in ServerType, NEW running \in BOOLEAN,
         s.gen = srv.gen, s.registered = srv.registered, s.external = srv.external,
         FullUnregister(s, running), conn' = conn,
         dial' \in DialType, requests' \in Nat, registrations' \in Nat
  PROVE  Quiet \/ Removal
<1>0. TypeOK BY DEF IInv
<1>1. CASE k.connection # NoConn
  BY <1>0, <1>1, AllWindRefl DEF FullUnregister, Quiet
<1>2. CASE k.connection = NoConn /\ s.url /\ running
  <2>1. k' = k /\ srv' = [s EXCEPT !.deferred = TRUE] BY <1>2 DEF FullUnregister
  <2>2. srv' \in ServerType /\ srv'.gen = srv.gen /\ srv'.registered = srv.registered
        /\ srv'.external = srv.external
    BY <2>1 DEF ServerType
  <2> QED BY <1>0, <2>1, <2>2, AllWindRefl DEF Quiet
<1>3. CASE k.connection = NoConn /\ ~(s.url /\ running)
  <2> DEFINE u == [s EXCEPT !.deferred = FALSE]
  <2>1. u \in ServerType /\ u.gen = srv.gen BY DEF ServerType
  <2>2. RemoveClient(k, u) BY <1>3 DEF FullUnregister
  <2>3. k.faults = {} BY DEF IInv, Paired
  <2> HIDE DEF u
  <2>4. /\ k' = EmptyClient
        /\ srv' \in ServerType /\ ~srv'.registered /\ srv'.external = "no"
        /\ srv'.gen = srv.gen \/ (srv'.gen = srv.gen + 1)
    BY <1>3, <2>1, <2>2, <2>3, DetachedIsIdle, RemoveClientEffect
  <2> QED BY <1>0, <1>3, <2>4, AllWindRefl DEF Removal
<1> QED BY <1>1, <1>2, <1>3

(* The end of the dial task. *)
LEMMA DialEndsEffect ==
  ASSUME IInv, DialEnds, UNCHANGED <<conn, boundVars>>
  PROVE  Quiet \/ Removal
<1>0. TypeOK /\ conn' = conn /\ requests' = requests /\ registrations' = registrations
      /\ srv \in ServerType /\ requests \in Nat /\ registrations \in Nat
  BY DEF IInv, TypeOK, boundVars
<1>1. dial' \in DialType BY DEF DialEnds, Idle, DialType
<1>2. CASE srv.url /\ srv.deferred /\ ~dial.ok
  <2> DEFINE s == [srv EXCEPT !.deferred = FALSE]
  <2>1. s \in ServerType /\ s.gen = srv.gen /\ s.registered = srv.registered
        /\ s.external = srv.external
    BY <1>0 DEF ServerType
  <2>2. FullUnregister(s, FALSE) BY <1>2 DEF DialEnds
  <2> HIDE DEF s
  <2> QED BY <1>0, <1>1, <2>1, <2>2, FullUnregisterEffect
<1>3. CASE ~(srv.url /\ srv.deferred /\ ~dial.ok)
  <2>1. k' = k /\ srv' = [srv EXCEPT !.deferred = @ /\ ~srv.url]
    BY <1>3 DEF DialEnds
  <2> DEFINE df == srv.deferred /\ ~srv.url
  <2>2. srv' = [srv EXCEPT !.deferred = df] BY <1>0, <2>1 DEF ServerType
  <2>3. df \in BOOLEAN BY <1>0 DEF ServerType
  <2> HIDE DEF df
  <2>4. srv' \in ServerType /\ srv'.gen = srv.gen /\ srv'.registered = srv.registered
        /\ srv'.external = srv.external
    BY <1>0, <2>2, <2>3 DEF ServerType
  <2> QED BY <1>0, <1>1, <2>1, <2>4, AllWindRefl DEF Quiet
<1> QED BY <1>2, <1>3

(* The deadlines of a registration. *)
LEMMA DeadlineEffect ==
  ASSUME IInv, ExternalDeadline \/ ReclaimDeadline
  PROVE  Quiet \/ Removal
<1>0. TypeOK /\ srv \in ServerType /\ requests \in Nat /\ registrations \in Nat
      /\ dial \in DialType /\ dial.running \in BOOLEAN
  BY DEF IInv, TypeOK, DialType
<1>1. CASE ExternalDeadline
  <2> DEFINE s == [srv EXCEPT !.extTimer = FALSE]
  <2>1. s \in ServerType /\ s.gen = srv.gen /\ s.registered = srv.registered
        /\ s.external = srv.external
    BY <1>0 DEF ServerType
  <2>2. FullUnregister(s, dial.running) /\ conn' = conn /\ dial' = dial
        /\ requests' = requests /\ registrations' = registrations
    BY <1>1 DEF ExternalDeadline, boundVars
  <2> HIDE DEF s
  <2> QED BY <1>0, <2>1, <2>2, FullUnregisterEffect
<1>2. CASE ReclaimDeadline
  <2> DEFINE s == [srv EXCEPT !.reclaim = FALSE]
  <2>1. s \in ServerType /\ s.gen = srv.gen /\ s.registered = srv.registered
        /\ s.external = srv.external
    BY <1>0 DEF ServerType
  <2>2. FullUnregister(s, dial.running) /\ conn' = conn /\ dial' = dial
        /\ requests' = requests /\ registrations' = registrations
    BY <1>2 DEF ReclaimDeadline, boundVars
  <2> HIDE DEF s
  <2> QED BY <1>0, <2>1, <2>2, FullUnregisterEffect
<1> QED BY <1>1, <1>2

(* The mDNS record of the device disappears. *)
LEMMA MdnsEffect ==
  ASSUME IInv, MdnsRemoved
  PROVE  Quiet \/ Removal
<1>0. TypeOK /\ srv \in ServerType /\ dial \in DialType /\ requests \in Nat
      /\ registrations \in Nat
  BY DEF IInv, TypeOK
<1>1. requests' = requests /\ registrations' = registrations
  BY DEF MdnsRemoved, boundVars
<1>2. /\ dial' \in DialType
      /\ conn' \in [Conns -> ConnType] /\ \A x \in Conns : Winds(conn[x], conn'[x])
  <2>1. CASE StopTask BY <1>0, <2>1, StopTaskEffect
  <2>2. CASE UNCHANGED <<dial, conn>> BY <1>0, <2>2, AllWindRefl
  <2> QED BY <2>1, <2>2 DEF MdnsRemoved
<1>3. CASE srv.url /\ srv.registered /\ k.retained
  <2>1. RemoveClient(k, srv) BY <1>3 DEF MdnsRemoved
  <2>2. k.faults = {} /\ k.connection = NoConn BY <1>3 DEF IInv, Paired, Attachment
  <2>3. /\ k' = EmptyClient
        /\ srv' \in ServerType /\ ~srv'.registered /\ srv'.external = "no"
        /\ srv'.gen = srv.gen \/ (srv'.gen = srv.gen + 1)
    BY <1>0, <2>1, <2>2, DetachedIsIdle, RemoveClientEffect
  <2> QED BY <1>0, <1>1, <1>2, <2>2, <2>3 DEF Removal
<1>4. CASE ~(srv.url /\ srv.registered /\ k.retained)
  <2>1. k' = k /\ srv' = srv BY <1>4 DEF MdnsRemoved
  <2> QED BY <1>0, <1>1, <1>2, <2>1 DEF Quiet
<1> QED BY <1>3, <1>4

-----------------------------------------------------------------------------
(* What the operators of a client preserve. *)

(* The instances of an attached client run, those of another one do not. *)
Sound(j) ==
  /\ j.faults = {}
  /\ j.attached => \A r \in RoleIds : j.roles[r] \in {"live", "absent"}
  /\ ~j.attached => \A r \in RoleIds : j.roles[r] # "live"

SameSession(j, h) ==
  /\ h.connection = j.connection /\ h.connected = j.connected
  /\ h.retained = j.retained /\ h.cleanup = j.cleanup

LEMMA HardDetachFields ==
  ASSUME NEW j \in ClientType, NEW hooks \in BOOLEAN, j.faults = {},
         hooks \/ LiveRoles(j) = {}
  PROVE  LET h == HardDetachRoles(j, hooks)
         IN  /\ h \in ClientType /\ h.faults = {} /\ h.awaiting = {}
             /\ ~h.cold /\ ~h.attached /\ h.warm = j.warm
             /\ \A r \in RoleIds : h.roles[r] = "absent"
             /\ SameSession(j, h)
<1> DEFINE f == Fault(j, "leaked", ~hooks /\ LiveRoles(j) # {})
           rs == [r \in RoleIds |-> "absent"]
           h == [f EXCEPT !.roles = rs, !.awaiting = {}, !.cold = FALSE, !.attached = FALSE]
<1>1. f = [j EXCEPT !.faults = {}] BY DEF Fault
<1>2. f = j BY <1>1 DEF ClientType
<1>3. HardDetachRoles(j, hooks) = h BY DEF HardDetachRoles
<1>4. rs \in [RoleIds -> Instance] /\ \A r \in RoleIds : rs[r] = "absent" BY DEF Instance
<1> HIDE DEF f, rs
<1>5. /\ h \in ClientType /\ h.faults = {} /\ h.awaiting = {}
      /\ ~h.cold /\ ~h.attached /\ h.warm = j.warm /\ h.roles = rs
      /\ h.connection = j.connection /\ h.connected = j.connected
      /\ h.retained = j.retained /\ h.cleanup = j.cleanup
  BY <1>2, <1>4 DEF ClientType
<1> HIDE DEF h
<1> QED BY <1>3, <1>4, <1>5 DEF SameSession

LEMMA RetireFields ==
  ASSUME NEW j \in ClientType, j.faults = {}
  PROVE  LET h == RetireRolesWarm(j)
         IN  /\ h \in ClientType /\ h.faults = {} /\ h.awaiting = j.awaiting
             /\ ~h.cold /\ ~h.attached /\ h.warm
             /\ \A r \in RoleIds : h.roles[r] # "live"
                                   /\ (h.roles[r] = "absent" <=> j.roles[r] = "absent")
             /\ SameSession(j, h)
<1> DEFINE rs == [r \in RoleIds |-> IF j.roles[r] = "absent" THEN "absent" ELSE "retired"]
           h == [j EXCEPT !.roles = rs, !.warm = TRUE, !.cold = FALSE, !.attached = FALSE]
<1>1. RetireRolesWarm(j) = h BY DEF RetireRolesWarm, ClientType
<1>2. rs \in [RoleIds -> Instance]
      /\ \A r \in RoleIds : rs[r] # "live" /\ (rs[r] = "absent" <=> j.roles[r] = "absent")
  BY DEF Instance
<1> HIDE DEF rs
<1>3. /\ h \in ClientType /\ h.faults = {} /\ h.awaiting = j.awaiting
      /\ ~h.cold /\ ~h.attached /\ h.warm /\ h.roles = rs
      /\ h.connection = j.connection /\ h.connected = j.connected
      /\ h.retained = j.retained /\ h.cleanup = j.cleanup
  BY <1>2 DEF ClientType
<1> HIDE DEF h
<1> QED BY <1>1, <1>2, <1>3 DEF SameSession

(* Connecting roles over a sound client leaks and doubles nothing. *)
LEMMA ConnectRolesFields ==
  ASSUME NEW j \in ClientType, Sound(j), NEW S \in SUBSET RoleIds
  PROVE  LET h == ConnectActiveRoles(j, S)
         IN  /\ h \in ClientType /\ h.faults = {}
             /\ \A r \in RoleIds : h.roles[r] \in {"live", "absent"}
<1> DEFINE again   == \E r \in S : j.roles[r] = "live" /\ ~j.attached
           dropped == \E r \in RoleIds \ S : j.roles[r] = "live" /\ ~j.attached
           kept    == {r \in S : j.attached /\ j.roles[r] # "absent"}
           f  == Fault(Fault(j, "doubled", again), "leaked", dropped)
           rs == [r \in RoleIds |-> IF r \in kept THEN j.roles[r]
                                    ELSE IF r \in S THEN "live" ELSE "absent"]
           h  == [f EXCEPT !.roles = rs]
<1>1. ~again /\ ~dropped BY DEF Sound
<1>2. f = j
  <2>1. Fault(j, "doubled", again) = [j EXCEPT !.faults = @] BY <1>1 DEF Fault
  <2>2. Fault(j, "doubled", again) = j BY <2>1 DEF ClientType
  <2>3. Fault(j, "leaked", dropped) = [j EXCEPT !.faults = @] BY <1>1 DEF Fault
  <2>4. Fault(j, "leaked", dropped) = j BY <2>3 DEF ClientType
  <2> QED BY <2>2, <2>4
<1>3. rs \in [RoleIds -> Instance] /\ \A r \in RoleIds : rs[r] \in {"live", "absent"}
  <2>1. \A r \in RoleIds : rs[r] \in {"live", "absent"} BY DEF Sound
  <2> QED BY <2>1 DEF Instance
<1>4. ConnectActiveRoles(j, S) = h
  <2>1. f.roles = j.roles BY <1>2
  <2> QED BY <2>1 DEF ConnectActiveRoles
<1> HIDE DEF f, rs
<1>5. h \in ClientType /\ h.faults = {} /\ h.roles = rs
  BY <1>2, <1>3 DEF ClientType, Sound
<1> HIDE DEF h
<1> QED BY <1>3, <1>4, <1>5

(* A client that a connection takes, whoever had it. *)
LEMMA AttachFields ==
  ASSUME NEW j \in ClientType, Sound(j), NEW c \in Conns, NEW S \in SUBSET RoleIds
  PROVE  LET h == AttachConnection(j, c, S)
         IN  /\ h \in ClientType /\ h.faults = {} /\ h.connection = c /\ ~h.connected
             /\ h.awaiting = {} /\ ~h.retained /\ h.cleanup = "none"
             /\ ~h.warm /\ ~h.cold /\ h.attached
             /\ \A r \in RoleIds : h.roles[r] \in {"live", "absent"}
<1> DEFINE replaces == j.connection \notin {NoConn, c} /\ ActiveRoles(j) # {}
           kept  == IF replaces /\ ~j.warm /\ ~j.cold THEN RetireRolesWarm(j) ELSE j
           found == IF kept.warm \/ kept.cold THEN kept ELSE HardDetachRoles(kept, TRUE)
           u == ConnectActiveRoles(found, S)
           h == [u EXCEPT !.connection = c, !.connected = FALSE, !.awaiting = {},
                          !.retained = FALSE, !.cleanup = "none", !.warm = FALSE,
                          !.cold = FALSE, !.attached = TRUE]
<1>1. kept \in ClientType /\ Sound(kept)
  <2>1. j.faults = {} BY DEF Sound
  <2>2. CASE replaces /\ ~j.warm /\ ~j.cold
    BY <2>1, <2>2, RetireFields DEF Sound
  <2>3. CASE ~(replaces /\ ~j.warm /\ ~j.cold)
    BY <2>3
  <2> QED BY <2>2, <2>3
<1> HIDE DEF kept
<1>2. found \in ClientType /\ Sound(found)
  <2>1. kept.faults = {} BY <1>1 DEF Sound
  <2>2. CASE kept.warm \/ kept.cold BY <1>1, <2>2
  <2>3. CASE ~(kept.warm \/ kept.cold)
    BY <1>1, <2>1, <2>3, HardDetachFields DEF Sound
  <2> QED BY <2>2, <2>3
<1> HIDE DEF found
<1>3. u \in ClientType /\ u.faults = {} /\ \A r \in RoleIds : u.roles[r] \in {"live", "absent"}
  BY <1>2, ConnectRolesFields
<1>4. AttachConnection(j, c, S) = h
  BY DEF AttachConnection, kept, found
<1> HIDE DEF u
<1>5. /\ h \in ClientType /\ h.faults = {} /\ h.connection = c /\ ~h.connected
      /\ h.awaiting = {} /\ ~h.retained /\ h.cleanup = "none"
      /\ ~h.warm /\ ~h.cold /\ h.attached /\ h.roles = u.roles
  BY <1>3 DEF ClientType
<1> HIDE DEF h
<1> QED BY <1>3, <1>4, <1>5

(* Reconciling the roles of an attached client. *)
LEMMA SetActiveFields ==
  ASSUME NEW j \in ClientType, Sound(j), j.attached, NEW S \in SUBSET RoleIds
  PROVE  LET h == SetActiveRoles(j, S)
         IN  /\ h \in ClientType /\ h.faults = {} /\ SameSession(j, h)
             /\ h.attached = j.attached /\ h.cold = j.cold
             /\ \A r \in RoleIds : h.roles[r] \in {"live", "absent"}
             /\ (\A r \in j.awaiting : r \in NeedsState)
                  => \A r \in h.awaiting : r \in NeedsState /\ h.roles[r] # "absent"
<1> DEFINE added == S \ ActiveRoles(j)
           rs == [r \in RoleIds |-> IF r \in added THEN "live"
                                    ELSE IF r \in S THEN j.roles[r] ELSE "absent"]
           aw == (j.awaiting \cap S) \cup (added \cap NeedsState)
           h == [j EXCEPT !.roles = rs, !.awaiting = aw]
<1>1. SetActiveRoles(j, S) = h BY DEF SetActiveRoles, ClientType
<1>2. \A r \in RoleIds : rs[r] \in {"live", "absent"} BY DEF Sound
<1>3. rs \in [RoleIds -> Instance] BY <1>2 DEF Instance
<1>4. aw \in SUBSET RoleIds OBVIOUS
<1>5. \A r \in S : rs[r] # "absent" BY DEF ActiveRoles
<1>6. \A r \in aw : r \in S /\ (r \in j.awaiting \/ r \in NeedsState) OBVIOUS
<1> HIDE DEF rs, aw
<1>7. /\ h \in ClientType /\ h.roles = rs /\ h.awaiting = aw /\ h.faults = j.faults
      /\ h.attached = j.attached /\ h.cold = j.cold
      /\ h.connection = j.connection /\ h.connected = j.connected
      /\ h.retained = j.retained /\ h.cleanup = j.cleanup
  BY <1>3, <1>4 DEF ClientType
<1> HIDE DEF h
<1> QED BY <1>1, <1>2, <1>5, <1>6, <1>7 DEF SameSession, Sound

(* A connection lets go of a client: what is left, and who will remove it. *)
LEMMA DetachFields ==
  ASSUME NEW j \in ClientType, Sound(j), j.cleanup = "none",
         NEW reason \in Reasons, NEW isExternal \in BOOLEAN
  PROVE  LET h == DetachConnection(j, reason, isExternal)
         IN  /\ h \in ClientType /\ h.faults = {} /\ h.connection = NoConn /\ ~h.connected
             /\ ~h.attached /\ \A r \in RoleIds : h.roles[r] # "live"
             /\ \A r \in h.awaiting : r \in j.awaiting
                                      /\ (h.roles[r] = "absent" => j.roles[r] = "absent")
             /\ isExternal => h.cleanup = "none"
             /\ ~isExternal => h.cleanup # "none" \/ h.retained
<1> DEFINE quiet == IF reason \in {"NONE", "RESTART"} THEN RetireRolesWarm(j)
                    ELSE [HardDetachRoles(j, TRUE) EXCEPT !.warm = FALSE]
           loose == [quiet EXCEPT !.connected = FALSE, !.connection = NoConn]
           rt == ~isExternal /\ reason = "RETAINED"
           cl == CASE isExternal \/ reason = "RETAINED" -> loose.cleanup
                   [] ~isExternal /\ reason = "SHUTDOWN" -> "soon"
                   [] OTHER -> "later"
           h == [loose EXCEPT !.retained = rt, !.cleanup = cl]
<1>0. j.faults = {} /\ j.awaiting \in SUBSET RoleIds BY DEF Sound, ClientType
<1>1. /\ quiet \in ClientType /\ quiet.faults = {} /\ ~quiet.attached
      /\ quiet.cleanup = "none" /\ \A r \in RoleIds : quiet.roles[r] # "live"
      /\ \A r \in quiet.awaiting : r \in j.awaiting
           /\ (quiet.roles[r] = "absent" => j.roles[r] = "absent")
  <2>1. CASE reason \in {"NONE", "RESTART"}
    BY <1>0, <2>1, RetireFields DEF SameSession
  <2>2. CASE reason \notin {"NONE", "RESTART"}
    <3> DEFINE g == HardDetachRoles(j, TRUE)
               w == [g EXCEPT !.warm = FALSE]
    <3>1. /\ g \in ClientType /\ g.faults = {} /\ g.awaiting = {} /\ ~g.attached
          /\ g.cleanup = "none" /\ \A r \in RoleIds : g.roles[r] = "absent"
      BY <1>0, HardDetachFields DEF SameSession
    <3>2. quiet = w BY <2>2
    <3> HIDE DEF g, quiet
    <3>3. /\ w \in ClientType /\ w.faults = {} /\ w.awaiting = {} /\ ~w.attached
          /\ w.cleanup = "none" /\ w.roles = g.roles
      BY <3>1 DEF ClientType
    <3> HIDE DEF w
    <3> QED BY <3>1, <3>2, <3>3
  <2> QED BY <2>1, <2>2
<1>2. DetachConnection(j, reason, isExternal) = h
  BY DEF DetachConnection, ScheduleCleanup
<1> HIDE DEF quiet
<1>3. /\ loose \in ClientType /\ loose.faults = {} /\ ~loose.attached /\ ~loose.connected
      /\ loose.connection = NoConn /\ loose.cleanup = "none"
      /\ loose.roles = quiet.roles /\ loose.awaiting = quiet.awaiting
  BY <1>1 DEF ClientType
<1> HIDE DEF loose
<1>4. /\ rt \in BOOLEAN /\ cl \in {"none", "soon", "later"}
      /\ isExternal => cl = "none"
      /\ ~isExternal => cl # "none" \/ rt
  BY <1>3
<1> HIDE DEF rt, cl
<1>5. /\ h \in ClientType /\ h.faults = {} /\ ~h.attached /\ ~h.connected
      /\ h.connection = NoConn /\ h.cleanup = cl /\ h.retained = rt
      /\ h.roles = loose.roles /\ h.awaiting = loose.awaiting
  BY <1>3, <1>4 DEF ClientType
<1> HIDE DEF h
<1> QED BY <1>1, <1>2, <1>3, <1>4, <1>5

(* A client registered before any transport. *)
LEMMA PreinitializeFields ==
  ASSUME NEW j \in ClientType, Sound(j), NEW S \in SUBSET RoleIds
  PROVE  LET h == Preinitialize(j, S)
         IN  /\ h \in ClientType /\ h.faults = {} /\ h.awaiting = {}
             /\ h.connection = j.connection /\ h.connected = j.connected
             /\ h.retained = j.retained /\ h.cleanup = "none"
             /\ h.cold /\ ~h.attached /\ \A r \in RoleIds : h.roles[r] # "live"
<1> DEFINE g == HardDetachRoles(j, j.attached)
           rs == [r \in RoleIds |-> IF r \in S THEN "fresh" ELSE "absent"]
           h == [g EXCEPT !.cleanup = "none", !.warm = FALSE, !.cold = TRUE, !.roles = rs]
<1>1. j.attached \in BOOLEAN /\ (j.attached \/ LiveRoles(j) = {}) /\ j.faults = {}
  BY DEF Sound, ClientType, LiveRoles
<1>2. /\ g \in ClientType /\ g.faults = {} /\ g.awaiting = {} /\ ~g.attached
      /\ SameSession(j, g)
  BY <1>1, HardDetachFields
<1>3. rs \in [RoleIds -> Instance] /\ \A r \in RoleIds : rs[r] # "live" BY DEF Instance
<1>4. Preinitialize(j, S) = h BY DEF Preinitialize
<1> HIDE DEF g, rs
<1>5. /\ h \in ClientType /\ h.faults = {} /\ h.awaiting = {} /\ h.cold /\ ~h.attached
      /\ h.connection = g.connection /\ h.connected = g.connected
      /\ h.retained = g.retained /\ h.cleanup = "none" /\ h.roles = rs
  BY <1>2, <1>3 DEF ClientType
<1> HIDE DEF h
<1> QED BY <1>2, <1>3, <1>4, <1>5 DEF SameSession

(* Its roles connect without a transport. *)
LEMMA PreinitializedFields ==
  ASSUME NEW j \in ClientType, Sound(j), j.cold, ~j.attached
  PROVE  LET h == AttachPreinitialized(j)
         IN  /\ h \in ClientType /\ h.faults = {} /\ h.awaiting = j.awaiting
             /\ SameSession(j, h) /\ h.cold /\ h.attached
             /\ \A r \in RoleIds : h.roles[r] \in {"live", "absent"}
                                   /\ (h.roles[r] = "absent" => j.roles[r] = "absent")
<1> DEFINE rs == [r \in RoleIds |-> IF j.roles[r] = "absent" THEN "absent" ELSE "live"]
           h == [j EXCEPT !.roles = rs, !.attached = TRUE]
<1>1. AttachPreinitialized(j) = h BY DEF AttachPreinitialized, ClientType
<1>2. rs \in [RoleIds -> Instance]
      /\ \A r \in RoleIds : rs[r] \in {"live", "absent"}
                            /\ (rs[r] = "absent" => j.roles[r] = "absent")
  BY DEF Instance
<1> HIDE DEF rs
<1>3. /\ h \in ClientType /\ h.faults = {} /\ h.awaiting = j.awaiting /\ h.cold /\ h.attached
      /\ h.connection = j.connection /\ h.connected = j.connected
      /\ h.retained = j.retained /\ h.cleanup = j.cleanup /\ h.roles = rs
  BY <1>2 DEF ClientType, Sound
<1> HIDE DEF h
<1> QED BY <1>1, <1>2, <1>3 DEF SameSession

(* Only what a client waits for, and whether it is connected, changes. *)
SameRoles(j, h) ==
  /\ h \in ClientType
  /\ h.connection = j.connection /\ h.retained = j.retained /\ h.cleanup = j.cleanup
  /\ h.roles = j.roles /\ h.attached = j.attached /\ h.cold = j.cold /\ h.faults = j.faults

LEMMA MarkConnectedFields ==
  ASSUME NEW j \in ClientType, j.connected => j.connection # NoConn
  PROVE  LET h == MarkConnected(j)
         IN  /\ SameRoles(j, h) /\ h.awaiting = j.awaiting
             /\ h.connected <=> j.connection # NoConn
<1>1. CASE j.connection = NoConn BY <1>1 DEF MarkConnected, SameRoles
<1>2. CASE j.connection # NoConn
  <2> DEFINE h == [j EXCEPT !.connected = TRUE]
  <2>1. MarkConnected(j) = h BY <1>2 DEF MarkConnected
  <2>2. h \in ClientType /\ h.connected /\ h.awaiting = j.awaiting
        /\ h.connection = j.connection /\ h.retained = j.retained /\ h.cleanup = j.cleanup
        /\ h.roles = j.roles /\ h.attached = j.attached /\ h.cold = j.cold
        /\ h.faults = j.faults
    BY DEF ClientType
  <2> HIDE DEF h
  <2> QED BY <1>2, <2>1, <2>2 DEF SameRoles
<1> QED BY <1>1, <1>2

LEMMA AwaitingFields ==
  ASSUME NEW j \in ClientType, NEW S \in SUBSET RoleIds
  PROVE  LET h == [j EXCEPT !.awaiting = S]
         IN  SameRoles(j, h) /\ h.awaiting = S /\ h.connected = j.connected
BY DEF SameRoles, ClientType

-----------------------------------------------------------------------------
(* The steps of an attached connection. *)

(* From s to t a connection keeps its client and does not close. *)
Stays(s, t) ==
  /\ t \in ConnType
  /\ t.hasClient = s.hasClient /\ t.owner = s.owner /\ t.disc = s.disc
  /\ t.place \in {"off", "hello"} => s.place \in {"off", "hello"} /\ t.initial = s.initial

(* A step after which the client has the same connection. *)
Kept ==
  /\ k' \in ClientType
  /\ k'.connection = k.connection /\ k'.retained = k.retained /\ k'.cleanup = k.cleanup
  /\ k'.connected => k.connection # NoConn
  /\ srv' = srv /\ dial' = dial /\ requests' = requests /\ registrations' = registrations
  /\ conn' \in [Conns -> ConnType]
  /\ \A x \in Conns : Stays(conn[x], conn'[x])

(* The step detaches no client. *)
NotDetached == k.connection = NoConn \/ k'.connection # NoConn

LEMMA KeptKeeps ==
  ASSUME IInv, Kept
  PROVE  TypeOK' /\ Attachment' /\ Ownership' /\ Wanted' /\ NotDetached
<1>1. TypeOK'
  BY DEF IInv, TypeOK, Kept
<1>2. Attachment'
  <2>1. CASE k.connection # NoConn
    <3>1. k.connection \in Conns BY <2>1 DEF IInv, TypeOK, ClientType
    <3> QED BY <2>1, <3>1 DEF IInv, Attachment, Kept, Stays
  <2>2. CASE k.connection = NoConn
    BY <2>2 DEF IInv, Attachment, Kept
  <2> QED BY <2>1, <2>2
<1>3. Ownership'
  <2> SUFFICES ASSUME NEW c \in Conns PROVE Owned(c)'
    BY DEF Ownership
  <2>1. Owned(c) /\ Stays(conn[c], conn'[c])
    BY DEF IInv, Ownership, Kept
  <2> QED BY <2>1 DEF Owned, Stays, Kept
<1>4. Wanted'
  BY DEF IInv, Wanted, NoForgottenClient, ExternalOutlivesCleanup, Kept
<1>5. NotDetached BY DEF Kept, NotDetached
<1> QED BY <1>1, <1>2, <1>3, <1>4, <1>5

LEMMA OneStays ==
  ASSUME TypeOK, NEW c \in Conns, NEW t, Stays(conn[c], t),
         conn' = [conn EXCEPT ![c] = t]
  PROVE  /\ conn' \in [Conns -> ConnType] /\ \A x \in Conns : Stays(conn[x], conn'[x])
         /\ conn'[c] = t /\ \A x \in Conns \ {c} : conn'[x] = conn[x]
<1>1. t \in ConnType BY DEF Stays
<1>2. conn' \in [Conns -> ConnType] BY <1>1 DEF TypeOK
<1>3. conn'[c] = t /\ \A x \in Conns \ {c} : conn'[x] = conn[x] BY DEF TypeOK
<1>4. \A x \in Conns \ {c} : conn[x] \in ConnType BY DEF TypeOK
<1>5. \A x \in Conns \ {c} : Stays(conn[x], conn'[x]) BY <1>3, <1>4 DEF Stays
<1> QED BY <1>2, <1>3, <1>5

LEMMA SameRolesPaired ==
  ASSUME IInv, SameRoles(k, k')
  PROVE  Paired'
BY DEF IInv, Paired, SameRoles

(* The client of a connection that acts on it and is not closing. *)
LEMMA OwnerIsAttached ==
  ASSUME IInv, NEW c \in Conns, Owns(c), conn[c].disc = "no"
  PROVE  k.connection = c
BY DEF IInv, Ownership, Owned, Owns

LEMMA AttachedOwns ==
  ASSUME IInv, NEW c \in Conns, k.connection = c
  PROVE  Owns(c) /\ conn[c].place \notin {"off", "hello"}
<1>1. k.connection # NoConn BY ClientAssumption
<1>2. Owns(c) BY <1>1 DEF IInv, Attachment, Owns
<1> QED BY <1>2 DEF IInv, Ownership, Owned, Owns

LEMMA IInvSound ==
  ASSUME IInv
  PROVE  Sound(k)
BY DEF IInv, Paired, Sound

(* Activating other roles on the attached connection. *)
LEMMA ActivateRolesKeeps ==
  ASSUME IInv, NEW c \in Conns, k.connection = c, conn[c].disc = "no",
         NEW S \in SUBSET RoleIds, NEW place \in {"activating", "live"},
         place = "live" => conn[c].place = "live",
         ActivateRoles(c, S, place), UNCHANGED Registry
  PROVE  IInv' /\ NotDetached
<1>0. /\ TypeOK /\ k \in ClientType /\ conn[c] \in ConnType /\ Sound(k) /\ k.attached
      /\ k.connection # NoConn
  BY IInvSound, ClientAssumption DEF IInv, TypeOK, Paired
<1> DEFINE h == SetActiveRoles(k, S)
           at == IF conn[c].initial /\ h.awaiting # {} THEN Lenient ELSE conn[c].actTimer
           t  == [conn[c] EXCEPT !.place = place, !.actTimer = at]
<1>1. k' = h BY DEF ActivateRoles
<1>2. conn' = [conn EXCEPT ![c] = t] BY <1>0 DEF ActivateRoles, ConnType
<1>3. at \in BOOLEAN BY <1>0, LifecycleAssumption DEF ConnType
<1>4. /\ k' \in ClientType /\ k'.faults = {} /\ SameSession(k, k')
      /\ k'.attached /\ k'.cold = k.cold
      /\ \A r \in RoleIds : k'.roles[r] \in {"live", "absent"}
      /\ (\A r \in k.awaiting : r \in NeedsState)
           => \A r \in k'.awaiting : r \in NeedsState /\ k'.roles[r] # "absent"
  BY <1>0, <1>1, SetActiveFields
<1>5. at = IF conn[c].initial /\ k'.awaiting # {} THEN Lenient ELSE conn[c].actTimer
  BY <1>1
<1> HIDE DEF h, at
<1>6. /\ t \in ConnType /\ t.hasClient = conn[c].hasClient /\ t.owner = conn[c].owner
      /\ t.disc = conn[c].disc /\ t.place = place /\ t.initial = conn[c].initial
      /\ t.actTimer = at /\ t.timer = conn[c].timer /\ t.awaited = conn[c].awaited
  BY <1>0, <1>3 DEF ConnType, Places
<1> HIDE DEF t
<1>7. Stays(conn[c], t) BY <1>6 DEF Stays
<1>8. /\ conn' \in [Conns -> ConnType] /\ \A x \in Conns : Stays(conn[x], conn'[x])
      /\ conn'[c] = t
  BY <1>0, <1>2, <1>7, OneStays
<1>9. Kept
  BY <1>0, <1>4, <1>8 DEF Kept, SameSession, Registry, boundVars
<1>10. Paired'
  BY <1>0, <1>4 DEF Paired, SameSession
<1>11. Waits'
  <2>1. Holding' BY <1>4 DEF IInv, Waits, Holding
  <2>2. ASSUME NEW x \in Conns PROVE Timed(x)'
    <3>1. CASE x = c
      <4>1. Timed(c) /\ k'.connected = k.connected /\ k'.connection = k.connection
        BY <1>4 DEF IInv, Waits, SameSession
      <4> QED BY <1>5, <1>6, <1>8, <3>1, <4>1 DEF Timed
    <3>2. CASE x # c BY <1>4, <3>2 DEF Timed, SameSession
    <3> QED BY <3>1, <3>2
  <2> QED BY <2>1, <2>2 DEF Waits
<1> QED BY <1>9, <1>10, <1>11, KeptKeeps DEF IInv

(* The two steps that activate roles. *)
LEMMA ActivationKeeps ==
  ASSUME IInv, NEW c \in Conns, PairingEnds(c) \/ RefreshTrusted(c)
  PROVE  IInv' /\ NotDetached
<1>1. CASE PairingEnds(c)
  <2>1. PICK S \in SUBSET RoleIds : ActivateRoles(c, S, "activating")
    BY <1>1 DEF PairingEnds
  <2>2. conn[c].disc = "no" /\ UNCHANGED Registry BY <1>1 DEF PairingEnds
  <2>3. k.connection = c BY <1>1, OwnerIsAttached DEF PairingEnds
  <2> QED BY <2>1, <2>2, <2>3, ActivateRolesKeeps
<1>2. CASE RefreshTrusted(c)
  <2>1. PICK S \in SUBSET RoleIds : ActivateRoles(c, S, conn[c].place)
    BY <1>2 DEF RefreshTrusted
  <2>2. /\ conn[c].disc = "no" /\ k.connection = c /\ conn[c].place \in {"activating", "live"}
        /\ UNCHANGED Registry
    BY <1>2 DEF RefreshTrusted
  <2> QED BY <2>1, <2>2, ActivateRolesKeeps
<1> QED BY <1>1, <1>2

(* The server/activate is out: a client that waits for nothing is connected, *)
(* any other one is timed by a lenient server.                               *)
LEMMA ExchangeDoneKeeps ==
  ASSUME IInv, NEW c \in Conns, ExchangeDone(c)
  PROVE  IInv' /\ NotDetached
<1>0. TypeOK /\ k \in ClientType /\ conn[c] \in ConnType
  BY DEF IInv, TypeOK
<1> DEFINE roles    == ActiveRoles(k)
           unstated == roles # {} /\ ~conn[c].stateSeen
           waits    == roles \cap NeedsState # {} \/ (unstated /\ ~Lenient)
           ready    == ~conn[c].initial /\ ~waits
           rd == IF conn[c].reader = "none" THEN "running" ELSE conn[c].reader
           i  == conn[c].initial \/ ready
           aw == ~conn[c].initial /\ waits
           tm == ~conn[c].initial /\ Lenient /\ (waits \/ unstated)
           t  == [conn[c] EXCEPT !.place = "live", !.reader = rd, !.initial = i,
                                 !.awaited = aw, !.timer = tm]
<1>1. /\ conn' = [conn EXCEPT ![c] = t]
      /\ k' = IF ready THEN MarkConnected(k) ELSE k
      /\ conn[c].place = "activating"
      /\ srv' = srv /\ dial' = dial /\ requests' = requests /\ registrations' = registrations
  BY DEF ExchangeDone, Registry, boundVars
<1>2. rd \in {"none", "running", "leaving", "ended"} /\ i \in BOOLEAN /\ aw \in BOOLEAN
      /\ tm \in BOOLEAN
  BY <1>0, LifecycleAssumption DEF ConnType
<1>3. /\ conn[c].initial => i
      /\ i => conn[c].initial \/ (ready /\ k.awaiting = {})
      /\ Lenient /\ ~i => tm /\ aw
  <2>1. k.awaiting \subseteq roles \cap NeedsState
    BY <1>0 DEF IInv, Waits, Holding, ActiveRoles, ClientType
  <2> QED BY <2>1
<1>4. SameRoles(k, k') /\ k'.awaiting = k.awaiting
      /\ (k'.connected => k.connection # NoConn)
      /\ (k.connected => k'.connected) /\ (ready /\ k.connection # NoConn => k'.connected)
  <2>1. k.connected => k.connection # NoConn BY DEF IInv, Attachment
  <2>2. CASE ready BY <1>0, <1>1, <2>1, <2>2, MarkConnectedFields
  <2>3. CASE ~ready BY <1>0, <1>1, <2>1, <2>3 DEF SameRoles
  <2> QED BY <2>2, <2>3
<1> HIDE DEF rd, i, aw, tm, ready
<1>5. /\ t \in ConnType /\ t.hasClient = conn[c].hasClient /\ t.owner = conn[c].owner
      /\ t.disc = conn[c].disc /\ t.place = "live" /\ t.initial = i
      /\ t.actTimer = conn[c].actTimer /\ t.timer = tm /\ t.awaited = aw
  <2> DEFINE u == [conn[c] EXCEPT !.place = "live", !.reader = rd]
             v == [u EXCEPT !.initial = i, !.awaited = aw, !.timer = tm]
  <2>1. /\ u \in ConnType /\ u.hasClient = conn[c].hasClient /\ u.owner = conn[c].owner
        /\ u.disc = conn[c].disc /\ u.place = "live" /\ u.actTimer = conn[c].actTimer
    BY <1>0, <1>2 DEF ConnType, Places
  <2>2. t = v OBVIOUS
  <2> HIDE DEF u, t
  <2>3. /\ v \in ConnType /\ v.hasClient = u.hasClient /\ v.owner = u.owner
        /\ v.disc = u.disc /\ v.place = u.place /\ v.initial = i
        /\ v.actTimer = u.actTimer /\ v.timer = tm /\ v.awaited = aw
    BY <1>2, <2>1 DEF ConnType
  <2> HIDE DEF v
  <2> QED BY <2>1, <2>2, <2>3
<1> HIDE DEF t
<1>6. Stays(conn[c], t) BY <1>5 DEF Stays
<1>7. /\ conn' \in [Conns -> ConnType] /\ \A x \in Conns : Stays(conn[x], conn'[x])
      /\ conn'[c] = t /\ \A x \in Conns \ {c} : conn'[x] = conn[x]
  BY <1>0, <1>1, <1>6, OneStays
<1>8. Kept
  BY <1>1, <1>4, <1>7 DEF Kept, SameRoles
<1>9. Waits'
  <2>1. Holding' BY <1>4 DEF IInv, Waits, Holding, SameRoles
  <2>2. ASSUME NEW x \in Conns PROVE Timed(x)'
    <3>0. Timed(x) /\ k'.connection = k.connection BY <1>4 DEF IInv, Waits, SameRoles
    <3>1. CASE x = c
      <4>1. c # NoConn BY ClientAssumption
      <4> QED BY <1>3, <1>4, <1>5, <1>7, <3>0, <3>1, <4>1 DEF Timed
    <3>2. CASE x # c
      BY <1>4, <1>7, <3>0, <3>2 DEF Timed
    <3> QED BY <3>1, <3>2
  <2> QED BY <2>1, <2>2 DEF Waits
<1> QED BY <1>4, <1>8, <1>9, KeptKeeps, SameRolesPaired DEF IInv

(* A client/state arrives, also on a connection that is being replaced. *)
LEMMA ClientStateKeeps ==
  ASSUME IInv, NEW c \in Conns, NEW objs \in SUBSET NeedsState, ClientState(c, objs)
  PROVE  IInv' /\ NotDetached
<1>0. TypeOK /\ k \in ClientType /\ conn[c] \in ConnType
  BY DEF IInv, TypeOK
<1> DEFINE initial == ~conn[c].initial
                        /\ (conn[c].awaited \/ ActiveRoles(k) \cap NeedsState # {})
           left    == k.awaiting \ objs
           i  == conn[c].initial \/ initial
           at == IF initial THEN FALSE
                 ELSE IF left = k.awaiting THEN conn[c].actTimer
                 ELSE Lenient /\ left # {}
           t  == [conn[c] EXCEPT !.timer = FALSE, !.stateSeen = TRUE, !.initial = i,
                                 !.actTimer = at]
           quiet == [k EXCEPT !.awaiting = {}]
           rest  == [k EXCEPT !.awaiting = left]
<1>1. /\ conn' = [conn EXCEPT ![c] = t] /\ Owns(c)
      /\ k' = IF initial THEN MarkConnected(quiet) ELSE rest
      /\ srv' = srv /\ dial' = dial /\ requests' = requests /\ registrations' = registrations
  BY DEF ClientState, Registry, boundVars
<1>2. i \in BOOLEAN /\ at \in BOOLEAN
  BY <1>0, LifecycleAssumption DEF ConnType
<1>3. {} \in SUBSET RoleIds /\ left \in SUBSET RoleIds BY <1>0 DEF ClientType
<1>4. /\ SameRoles(k, quiet) /\ quiet.awaiting = {} /\ quiet.connected = k.connected
      /\ SameRoles(k, rest) /\ rest.awaiting = left /\ rest.connected = k.connected
  BY <1>0, <1>3, AwaitingFields
<1>5. k.connected => k.connection # NoConn BY DEF IInv, Attachment
<1> HIDE DEF quiet, rest
<1>6. /\ SameRoles(k, k') /\ k'.awaiting = (IF initial THEN {} ELSE left)
      /\ (k'.connected => k.connection # NoConn)
      /\ (k.connected => k'.connected) /\ (initial /\ k.connection # NoConn => k'.connected)
  <2>1. CASE initial
    <3>1. quiet \in ClientType /\ quiet.connection = k.connection
      BY <1>4 DEF SameRoles
    <3>2. SameRoles(quiet, k') /\ k'.awaiting = {} /\ (k'.connected <=> k.connection # NoConn)
      BY <1>1, <1>4, <1>5, <2>1, <3>1, MarkConnectedFields
    <3> QED BY <1>4, <1>5, <2>1, <3>2 DEF SameRoles
  <2>2. CASE ~initial BY <1>1, <1>4, <1>5, <2>2
  <2> QED BY <2>1, <2>2
<1>7. /\ i => conn[c].initial \/ initial
      /\ conn[c].initial => i /\ ~initial
      /\ conn[c].awaited => i
      /\ ~initial /\ Lenient /\ (k.awaiting = {} \/ conn[c].actTimer) => left = {} \/ at
  OBVIOUS
<1> HIDE DEF i, at, initial
<1>8. /\ t \in ConnType /\ t.hasClient = conn[c].hasClient /\ t.owner = conn[c].owner
      /\ t.disc = conn[c].disc /\ t.place = conn[c].place /\ t.initial = i
      /\ t.actTimer = at /\ t.awaited = conn[c].awaited
  BY <1>0, <1>2 DEF ConnType
<1> HIDE DEF t
<1>9. conn[c].place \notin {"off", "hello"}
  BY <1>1 DEF IInv, Ownership, Owned, Owns
<1>10. Stays(conn[c], t) BY <1>8, <1>9 DEF Stays
<1>11. /\ conn' \in [Conns -> ConnType] /\ \A x \in Conns : Stays(conn[x], conn'[x])
       /\ conn'[c] = t /\ \A x \in Conns \ {c} : conn'[x] = conn[x]
  BY <1>0, <1>1, <1>10, OneStays
<1>12. Kept
  BY <1>1, <1>6, <1>11 DEF Kept, SameRoles
<1>13. Waits'
  <2>1. Holding' BY <1>6 DEF IInv, Waits, Holding, SameRoles
  <2>2. ASSUME NEW x \in Conns PROVE Timed(x)'
    <3>0. Timed(x) /\ k'.connection = k.connection /\ x # NoConn
      BY <1>6, ClientAssumption DEF IInv, Waits, SameRoles
    <3>1. CASE x = c
      BY <1>6, <1>7, <1>8, <1>11, <3>0, <3>1 DEF Timed
    <3>2. CASE x # c
      <4>1. k.awaiting = {} => k'.awaiting = {} BY <1>6
      <4> QED BY <1>6, <1>11, <3>0, <3>2, <4>1 DEF Timed
    <3> QED BY <3>1, <3>2
  <2> QED BY <2>1, <2>2 DEF Waits
<1> QED BY <1>6, <1>12, <1>13, KeptKeeps, SameRolesPaired DEF IInv

(* A timed wait ends. *)
LEMMA TimeoutKeeps ==
  ASSUME IInv, NEW c \in Conns, InitialStateTimeout(c) \/ ActivationStateTimeout(c)
  PROVE  IInv' /\ NotDetached
<1>0. TypeOK /\ k \in ClientType /\ conn[c] \in ConnType
  BY DEF IInv, TypeOK
<1> DEFINE quiet == [k EXCEPT !.awaiting = {}]
<1>1. {} \in SUBSET RoleIds OBVIOUS
<1>2. SameRoles(k, quiet) /\ quiet.awaiting = {} /\ quiet.connected = k.connected
  BY <1>0, <1>1, AwaitingFields
<1>3. k.connected => k.connection # NoConn BY DEF IInv, Attachment
<1> HIDE DEF quiet
<1>4. ASSUME NEW t, Stays(conn[c], t), conn' = [conn EXCEPT ![c] = t], UNCHANGED Registry,
             SameRoles(k, k'), k'.connected => k.connection # NoConn,
             k.connected => k'.connected,
             k'.awaiting = k.awaiting \/ k'.awaiting = {},
             k.connection = c =>
               /\ t.initial => k'.connected
               /\ Lenient /\ t.disc = "no" /\ t.initial => k'.awaiting = {} \/ t.actTimer
               /\ Lenient /\ t.disc = "no" /\ t.place = "live" /\ ~t.initial =>
                    t.timer /\ t.awaited
      PROVE  IInv' /\ NotDetached
  <2>1. /\ conn' \in [Conns -> ConnType] /\ \A x \in Conns : Stays(conn[x], conn'[x])
        /\ conn'[c] = t /\ \A x \in Conns \ {c} : conn'[x] = conn[x]
    BY <1>0, <1>4, OneStays
  <2>2. Kept BY <1>4, <2>1 DEF Kept, SameRoles, Registry, boundVars
  <2>3. Waits'
    <3>1. Holding' BY <1>4 DEF IInv, Waits, Holding, SameRoles
    <3>2. ASSUME NEW x \in Conns PROVE Timed(x)'
      <4>0. Timed(x) /\ k'.connection = k.connection
        BY <1>4 DEF IInv, Waits, SameRoles
      <4>1. CASE x = c BY <1>4, <2>1, <4>0, <4>1 DEF Timed
      <4>2. CASE x # c BY <1>4, <2>1, <4>0, <4>2 DEF Timed
      <4> QED BY <4>1, <4>2
    <3> QED BY <3>1, <3>2 DEF Waits
  <2> QED BY <1>4, <2>2, <2>3, KeptKeeps, SameRolesPaired DEF IInv
<1>5. CASE InitialStateTimeout(c) /\ Owns(c) /\ ~conn[c].initial
  <2> DEFINE t == [conn[c] EXCEPT !.timer = FALSE, !.initial = TRUE, !.actTimer = FALSE]
  <2>1. conn' = [conn EXCEPT ![c] = t] /\ k' = MarkConnected(quiet) /\ UNCHANGED Registry
    BY <1>5 DEF InitialStateTimeout, quiet
  <2>2. /\ t \in ConnType /\ t.hasClient = conn[c].hasClient /\ t.owner = conn[c].owner
        /\ t.disc = conn[c].disc /\ t.place = conn[c].place /\ t.initial
    BY <1>0 DEF ConnType
  <2> HIDE DEF t
  <2>3. conn[c].place \notin {"off", "hello"}
    BY <1>5 DEF IInv, Ownership, Owned, Owns
  <2>4. Stays(conn[c], t) BY <2>2, <2>3 DEF Stays
  <2>5. SameRoles(quiet, k') /\ k'.awaiting = {} /\ (k'.connected <=> k.connection # NoConn)
    BY <1>2, <1>3, <2>1, MarkConnectedFields DEF SameRoles
  <2>6. SameRoles(k, k') BY <1>2, <2>5 DEF SameRoles
  <2> QED BY <1>3, <1>4, <2>1, <2>2, <2>4, <2>5, <2>6, ClientAssumption
<1>6. CASE InitialStateTimeout(c) /\ ~(Owns(c) /\ ~conn[c].initial)
  <2> DEFINE t == [conn[c] EXCEPT !.timer = FALSE]
  <2>1. conn' = [conn EXCEPT ![c] = t] /\ k' = k /\ UNCHANGED Registry
    BY <1>6 DEF InitialStateTimeout
  <2>2. /\ t \in ConnType /\ t.hasClient = conn[c].hasClient /\ t.owner = conn[c].owner
        /\ t.disc = conn[c].disc /\ t.place = conn[c].place /\ t.initial = conn[c].initial
        /\ t.actTimer = conn[c].actTimer
    BY <1>0 DEF ConnType
  <2> HIDE DEF t
  <2>3. Stays(conn[c], t) BY <2>2 DEF Stays
  <2>4. SameRoles(k, k') BY <1>0, <2>1 DEF SameRoles
  <2>5. k.connection = c => conn[c].initial BY <1>6, AttachedOwns
  <2>6. Timed(c) BY DEF IInv, Waits
  <2> QED BY <1>3, <1>4, <2>1, <2>2, <2>3, <2>4, <2>5, <2>6 DEF Timed
<1>7. CASE ActivationStateTimeout(c)
  <2> DEFINE t == [conn[c] EXCEPT !.actTimer = FALSE]
  <2>1. /\ conn' = [conn EXCEPT ![c] = t] /\ UNCHANGED Registry
        /\ k' = IF Owns(c) THEN quiet ELSE k
    BY <1>7 DEF ActivationStateTimeout, quiet
  <2>2. /\ t \in ConnType /\ t.hasClient = conn[c].hasClient /\ t.owner = conn[c].owner
        /\ t.disc = conn[c].disc /\ t.place = conn[c].place /\ t.initial = conn[c].initial
        /\ t.timer = conn[c].timer /\ t.awaited = conn[c].awaited
    BY <1>0 DEF ConnType
  <2> HIDE DEF t
  <2>3. Stays(conn[c], t) BY <2>2 DEF Stays
  <2>4. SameRoles(k, k') /\ k'.connected = k.connected
        /\ (k'.awaiting = k.awaiting \/ k'.awaiting = {})
    BY <1>0, <1>2, <2>1 DEF SameRoles
  <2>5. k.connection = c => k'.awaiting = {} BY <1>2, <2>1, AttachedOwns
  <2>6. Timed(c) BY DEF IInv, Waits
  <2> QED BY <1>3, <1>4, <2>1, <2>2, <2>3, <2>4, <2>5, <2>6 DEF Timed
<1> QED BY <1>5, <1>6, <1>7

-----------------------------------------------------------------------------
(* The steps that attach a client, detach it or register it. *)

(* The socket of a connection is closed. *)
LEMMA SocketClosedKeeps ==
  ASSUME IInv, NEW c \in Conns, SocketClosed(c)
  PROVE  IInv'
<1>0. /\ TypeOK /\ k \in ClientType /\ conn[c] \in ConnType /\ conn \in [Conns -> ConnType]
      /\ Sound(k) /\ c # NoConn
  BY IInvSound, ClientAssumption DEF IInv, TypeOK
<1> DEFINE rd == IF conn[c].reader = "leaving" THEN "ended" ELSE conn[c].reader
           t == [conn[c] EXCEPT !.disc = "done", !.hasClient = FALSE, !.reader = rd]
<1>1. /\ conn' = [conn EXCEPT ![c] = t]
      /\ k' = IF conn[c].hasClient /\ k.connection = c
              THEN DetachConnection(k, conn[c].goodbye, srv.external = "yes") ELSE k
      /\ srv' = srv /\ dial' = dial /\ requests' = requests /\ registrations' = registrations
  <2>1. Closed(conn[c]) = t BY <1>0 DEF Closed, ConnType
  <2> HIDE DEF t
  <2> QED BY <2>1 DEF SocketClosed, Registry, boundVars
<1>2. rd \in {"none", "running", "leaving", "ended"} BY <1>0 DEF ConnType
<1> HIDE DEF rd
<1>3. /\ t \in ConnType /\ ~t.hasClient /\ t.disc = "done" /\ t.place = conn[c].place
      /\ t.initial = conn[c].initial
  BY <1>0, <1>2 DEF ConnType
<1> HIDE DEF t
<1>4. /\ conn' \in [Conns -> ConnType] /\ conn'[c] = t
      /\ \A x \in Conns \ {c} : conn'[x] = conn[x]
  BY <1>0, <1>1, <1>3
<1>5. CASE k.connection = c
  <2>1. /\ conn[c].hasClient /\ k.cleanup = "none"
    BY <1>0, <1>5 DEF IInv, Attachment
  <2> DEFINE e == srv.external = "yes"
  <2>2. conn[c].goodbye \in Reasons /\ e \in BOOLEAN BY <1>0 DEF ConnType
  <2>3. k' = DetachConnection(k, conn[c].goodbye, e) BY <1>1, <1>5, <2>1
  <2> HIDE DEF e
  <2>4. /\ k' \in ClientType /\ k'.faults = {} /\ k'.connection = NoConn /\ ~k'.connected
        /\ ~k'.attached /\ \A r \in RoleIds : k'.roles[r] # "live"
        /\ \A r \in k'.awaiting : r \in k.awaiting
                                 /\ (k'.roles[r] = "absent" => k.roles[r] = "absent")
        /\ e => k'.cleanup = "none"
        /\ ~e => k'.cleanup # "none" \/ k'.retained
    BY <1>0, <2>1, <2>2, <2>3, DetachFields
  <2>5. TypeOK' BY <1>0, <1>1, <1>4, <2>4 DEF TypeOK
  <2>6. Attachment' BY <2>4 DEF Attachment
  <2>7. Ownership'
    <3> SUFFICES ASSUME NEW x \in Conns PROVE Owned(x)'
      BY DEF Ownership
    <3>1. Owned(x) BY DEF IInv, Ownership
    <3>2. CASE x = c BY <1>1, <1>3, <1>4, <3>1, <3>2 DEF Owned
    <3>3. CASE x # c BY <1>1, <1>4, <1>5, <3>1, <3>3 DEF Owned
    <3> QED BY <3>2, <3>3
  <2>8. Wanted'
    BY <1>1, <2>4 DEF Wanted, NoForgottenClient, ExternalOutlivesCleanup, e
  <2>9. Paired' BY <2>4 DEF Paired
  <2>10. Waits'
    <3>1. Holding' BY <2>4 DEF IInv, Waits, Holding
    <3>2. \A x \in Conns : Timed(x)' BY <2>4, ClientAssumption DEF Timed
    <3> QED BY <3>1, <3>2 DEF Waits
  <2> QED BY <2>5, <2>6, <2>7, <2>8, <2>9, <2>10 DEF IInv
<1>6. CASE k.connection # c
  <2>1. k' = k BY <1>1, <1>6
  <2>2. TypeOK' BY <1>0, <1>1, <1>4, <2>1 DEF TypeOK
  <2>3. Attachment'
    <3>1. CASE k.connection # NoConn
      <4>1. k.connection \in Conns \ {c} BY <1>0, <1>6, <3>1 DEF ClientType
      <4> QED BY <1>1, <1>4, <2>1, <3>1, <4>1 DEF IInv, Attachment
    <3>2. CASE k.connection = NoConn BY <2>1, <3>2 DEF IInv, Attachment
    <3> QED BY <3>1, <3>2
  <2>4. Ownership'
    <3> SUFFICES ASSUME NEW x \in Conns PROVE Owned(x)'
      BY DEF Ownership
    <3>1. Owned(x) BY DEF IInv, Ownership
    <3>2. CASE x = c BY <1>1, <1>3, <1>4, <3>1, <3>2 DEF Owned
    <3>3. CASE x # c BY <1>1, <1>4, <2>1, <3>1, <3>3 DEF Owned
    <3> QED BY <3>2, <3>3
  <2>5. Wanted'
    BY <1>1, <2>1 DEF IInv, Wanted, NoForgottenClient, ExternalOutlivesCleanup
  <2>6. Paired' BY <2>1 DEF IInv, Paired
  <2>7. Waits'
    <3>1. Holding' BY <2>1 DEF IInv, Waits, Holding
    <3>2. ASSUME NEW x \in Conns PROVE Timed(x)'
      <4>1. Timed(x) BY DEF IInv, Waits
      <4>2. CASE x = c BY <1>6, <2>1, <4>2 DEF Timed
      <4>3. CASE x # c BY <1>4, <2>1, <4>1, <4>3 DEF Timed
      <4> QED BY <4>2, <4>3
    <3> QED BY <3>1, <3>2 DEF Waits
  <2> QED BY <2>2, <2>3, <2>4, <2>5, <2>6, <2>7 DEF IInv
<1> QED BY <1>5, <1>6

(* A connection takes the client, from the connection that may still have it. *)
LEMMA AttachKeeps ==
  ASSUME IInv, NEW c \in Conns, Attach(c)
  PROVE  IInv' /\ NotDetached
<1>0. /\ TypeOK /\ k \in ClientType /\ conn[c] \in ConnType /\ conn \in [Conns -> ConnType]
      /\ srv \in ServerType /\ srv.gen \in Nat /\ Sound(k) /\ c # NoConn
  BY IInvSound, ClientAssumption DEF IInv, TypeOK, ServerType
<1>1. PICK S \in SUBSET RoleIds, pairing \in BOOLEAN :
        /\ k' = AttachConnection(k, c, S)
        /\ conn' = [x \in Conns |->
             IF x = c THEN [conn[c] EXCEPT !.place = IF pairing THEN "pairing" ELSE "activating",
                                           !.reader = IF pairing THEN "running" ELSE "none",
                                           !.hasClient = TRUE, !.owner = srv.gen]
             ELSE IF x = k.connection THEN BeginDisconnect(conn[x], FALSE)
             ELSE conn[x]]
  BY DEF Attach
<1>2. /\ k' \in ClientType /\ k'.faults = {} /\ k'.connection = c /\ ~k'.connected
      /\ k'.awaiting = {} /\ ~k'.retained /\ k'.cleanup = "none" /\ k'.attached
      /\ \A r \in RoleIds : k'.roles[r] \in {"live", "absent"}
  BY <1>0, <1>1, AttachFields
<1> DEFINE pl == IF pairing THEN "pairing" ELSE "activating"
           rd == IF pairing THEN "running" ELSE "none"
           g  == srv.gen
           t  == [conn[c] EXCEPT !.place = pl, !.reader = rd, !.hasClient = TRUE, !.owner = g]
<1>3. pl \in {"pairing", "activating"} /\ rd \in {"running", "none"} /\ g \in Nat BY <1>0
<1>4. conn'[c] = t BY <1>1
<1>5. conn' \in [Conns -> ConnType]
      /\ \A x \in Conns \ {c} : Winds(conn[x], conn'[x])
                                /\ (x = k.connection => conn'[x].disc # "no")
  <2>1. ASSUME NEW x \in Conns \ {c}
        PROVE  Winds(conn[x], conn'[x]) /\ (x = k.connection => conn'[x].disc # "no")
    <3>1. conn[x] \in ConnType BY <1>0
    <3>2. CASE x = k.connection
      <4>1. conn'[x] = BeginDisconnect(conn[x], FALSE) BY <1>1, <3>2
      <4> QED BY <3>1, <4>1, BeginDisconnectWinds
    <3>3. CASE x # k.connection
      <4>1. conn'[x] = conn[x] BY <1>1, <3>3
      <4> QED BY <3>1, <3>3, <4>1, WindsRefl
    <3> QED BY <3>2, <3>3
  <2>2. t \in ConnType
    <3> HIDE DEF pl, rd, g
    <3> QED BY <1>0, <1>3 DEF ConnType, Places
  <2>3. \A x \in Conns : conn'[x] \in ConnType BY <1>4, <2>1, <2>2 DEF Winds
  <2>4. conn' = [x \in Conns |-> conn'[x]] BY <1>1
  <2> QED BY <2>1, <2>3, <2>4
<1>6. /\ t.hasClient /\ t.owner = g /\ t.initial = conn[c].initial /\ t.place = pl
  <2> HIDE DEF pl, rd, g
  <2> QED BY <1>0, <1>3 DEF ConnType
<1>7. conn[c].place = "hello" /\ ~conn[c].initial
  BY DEF Attach, IInv, Ownership, Owned
<1>8. g = srv.gen OBVIOUS
<1> HIDE DEF t, pl, rd, g
<1>9. /\ srv' \in ServerType /\ srv'.gen = srv.gen /\ srv'.registered
      /\ dial' = dial /\ requests' = requests /\ registrations' = registrations
  <2> DEFINE e == IF srv.external = "yes" THEN "yes" ELSE "no"
             url == srv.url \/ c \in Dialed
             u == [srv EXCEPT !.registered = TRUE, !.external = e, !.extTimer = FALSE,
                              !.reclaim = FALSE, !.url = url]
  <2>1. srv' = u BY <1>0 DEF Attach, ServerType
  <2>2. e \in {"no", "yes"} /\ url \in BOOLEAN BY <1>0 DEF ServerType
  <2> HIDE DEF e, url
  <2>3. u \in ServerType /\ u.gen = srv.gen /\ u.registered BY <1>0, <2>2 DEF ServerType
  <2> HIDE DEF u
  <2> QED BY <2>1, <2>3 DEF Attach, boundVars
<1>10. TypeOK' BY <1>0, <1>2, <1>5, <1>9 DEF TypeOK
<1>11. Attachment' BY <1>0, <1>2, <1>4, <1>6, <1>8, <1>9 DEF Attachment
<1>12. Ownership'
  <2> SUFFICES ASSUME NEW x \in Conns PROVE Owned(x)'
    BY DEF Ownership
  <2>1. Owned(x) BY DEF IInv, Ownership
  <2>2. CASE x = c BY <1>0, <1>2, <1>3, <1>4, <1>6, <1>8, <1>9, <2>2 DEF Owned
  <2>3. CASE x # c BY <1>5, <1>9, <2>1, <2>3 DEF Owned, Winds
  <2> QED BY <2>2, <2>3
<1>13. Wanted' BY <1>0, <1>2 DEF Wanted, NoForgottenClient, ExternalOutlivesCleanup
<1>14. Paired' BY <1>0, <1>2 DEF Paired
<1>15. Waits'
  <2>1. Holding' BY <1>2 DEF Holding
  <2>2. ASSUME NEW x \in Conns PROVE Timed(x)'
    BY <1>2, <1>3, <1>4, <1>6, <1>7 DEF Timed
  <2> QED BY <2>1, <2>2 DEF Waits
<1>16. NotDetached BY <1>0, <1>2 DEF NotDetached
<1> QED BY <1>10, <1>11, <1>12, <1>13, <1>14, <1>15, <1>16 DEF IInv

(* The cleanup timer only ever fires for a client without a connection. *)
LEMMA CleanupKeeps ==
  ASSUME IInv, CleanupFires
  PROVE  IInv' /\ k.connection = NoConn
<1>0. /\ TypeOK /\ k \in ClientType /\ srv \in ServerType /\ k.faults = {}
  BY DEF IInv, TypeOK, Paired
<1>1. k.cleanup # "none" /\ k.connection = NoConn /\ ~k.connected
  BY DEF CleanupFires, IInv, Attachment
<1> DEFINE j == HardDetachRoles(k, TRUE)
<1>2. RemoveClient(j, srv) /\ conn' = conn /\ dial' = dial /\ requests' = requests
      /\ registrations' = registrations
  BY <1>1 DEF CleanupFires, boundVars
<1>3. j.faults = {} /\ \A r \in RoleIds : j.roles[r] = "absent"
  BY <1>0, HardDetachFields
<1> HIDE DEF j
<1>4. LiveRoles(j) = {} BY <1>3 DEF LiveRoles
<1>5. /\ k' = EmptyClient
      /\ srv' \in ServerType /\ ~srv'.registered /\ srv'.external = "no"
      /\ srv'.gen = srv.gen \/ (srv'.gen = srv.gen + 1)
  BY <1>0, <1>2, <1>3, <1>4, RemoveClientEffect
<1>6. dial \in DialType /\ requests \in Nat /\ registrations \in Nat BY <1>0 DEF TypeOK
<1>7. Removal BY <1>0, <1>1, <1>2, <1>5, <1>6, AllWindRefl DEF Removal
<1> QED BY <1>1, <1>7, RemovalKeeps

(* External players. *)
LEMMA ExternalKeeps ==
  ASSUME IInv,
         UnregisterExternal \/ ConnectColdRoles \/ \E timed \in BOOLEAN : RegisterExternal(timed)
  PROVE  IInv' /\ NotDetached
<1>0. /\ TypeOK /\ k \in ClientType /\ conn \in [Conns -> ConnType] /\ srv \in ServerType
      /\ dial \in DialType /\ requests \in Nat /\ registrations \in Nat /\ Sound(k)
  BY IInvSound DEF IInv, TypeOK
<1>1. \A x \in Conns : conn[x] \in ConnType BY <1>0
<1>2. CASE UnregisterExternal
  <2>1. k' = k /\ conn' = conn /\ dial' = dial /\ requests' = requests
        /\ registrations' = registrations
    BY <1>2 DEF UnregisterExternal, boundVars
  <2>2. /\ srv' \in ServerType /\ srv'.gen = srv.gen /\ srv'.registered = srv.registered
        /\ srv'.external = (IF k.connection = NoConn THEN "dropped" ELSE "no")
    BY <1>0, <1>2 DEF UnregisterExternal, ServerType
  <2>3. TypeOK' BY <1>0, <2>1, <2>2 DEF TypeOK
  <2>4. Attachment' BY <2>1, <2>2 DEF IInv, Attachment
  <2>5. Ownership' BY <2>1, <2>2 DEF IInv, Ownership, Owned
  <2>6. Wanted'
    BY <2>1, <2>2 DEF Wanted, NoForgottenClient, ExternalOutlivesCleanup
  <2>7. Paired' BY <2>1 DEF IInv, Paired
  <2>8. Waits' BY <2>1 DEF IInv, Waits, Holding, Timed
  <2>9. NotDetached BY <2>1 DEF NotDetached
  <2> QED BY <2>3, <2>4, <2>5, <2>6, <2>7, <2>8, <2>9 DEF IInv
<1>3. CASE ConnectColdRoles
  <2>1. /\ k' = AttachPreinitialized(k) /\ k.cold /\ ~k.attached /\ conn' = conn
        /\ srv' = srv /\ dial' = dial /\ requests' = requests /\ registrations' = registrations
    BY <1>3 DEF ConnectColdRoles, Registry, boundVars
  <2>2. /\ k' \in ClientType /\ k'.faults = {} /\ k'.awaiting = k.awaiting
        /\ SameSession(k, k') /\ k'.cold /\ k'.attached
        /\ \A r \in RoleIds : k'.roles[r] \in {"live", "absent"}
                              /\ (k'.roles[r] = "absent" => k.roles[r] = "absent")
    BY <1>0, <2>1, PreinitializedFields
  <2>3. Kept
    <3>1. \A x \in Conns : Stays(conn[x], conn[x]) BY <1>1 DEF Stays
    <3> QED BY <1>0, <2>1, <2>2, <3>1 DEF Kept, SameSession, IInv, Attachment
  <2>4. Paired' BY <2>2 DEF Paired
  <2>5. Waits'
    <3>1. k.awaiting \in SUBSET RoleIds BY <1>0 DEF ClientType
    <3>2. Holding' BY <2>2, <3>1 DEF IInv, Waits, Holding
    <3>3. \A x \in Conns : Timed(x)' BY <2>1, <2>2 DEF IInv, Waits, Timed, SameSession
    <3> QED BY <3>2, <3>3 DEF Waits
  <2> QED BY <2>3, <2>4, <2>5, KeptKeeps DEF IInv
<1>4. ASSUME NEW timed \in BOOLEAN, RegisterExternal(timed) PROVE IInv' /\ NotDetached
  <2>1. PICK S \in SUBSET RoleIds : k' = Preinitialize(k, S)
    BY <1>4 DEF RegisterExternal
  <2>2. /\ k.connection = NoConn /\ conn' = conn /\ dial' = dial /\ requests' = requests
        /\ registrations' = registrations + 1
        /\ srv' = [srv EXCEPT !.registered = TRUE, !.external = "yes", !.reclaim = FALSE,
                              !.extTimer = timed]
    BY <1>4 DEF RegisterExternal
  <2>3. /\ k' \in ClientType /\ k'.faults = {} /\ k'.awaiting = {}
        /\ k'.connection = NoConn /\ k'.connected = k.connected
        /\ k'.retained = k.retained /\ k'.cleanup = "none"
        /\ k'.cold /\ ~k'.attached /\ \A r \in RoleIds : k'.roles[r] # "live"
    BY <1>0, <2>1, <2>2, PreinitializeFields
  <2>4. srv' \in ServerType /\ srv'.gen = srv.gen /\ srv'.external = "yes"
    BY <1>0, <2>2 DEF ServerType
  <2>5. TypeOK' BY <1>0, <2>2, <2>3, <2>4 DEF TypeOK
  <2>6. Attachment' BY <2>2, <2>3 DEF IInv, Attachment
  <2>7. Ownership' BY <2>2, <2>3, <2>4 DEF IInv, Ownership, Owned
  <2>8. Wanted' BY <2>3, <2>4 DEF Wanted, NoForgottenClient, ExternalOutlivesCleanup
  <2>9. Paired' BY <2>3 DEF Paired
  <2>10. Waits' BY <2>3, ClientAssumption DEF Waits, Holding, Timed
  <2>11. NotDetached BY <2>2 DEF NotDetached
  <2> QED BY <2>5, <2>6, <2>7, <2>8, <2>9, <2>10, <2>11 DEF IInv
<1> QED BY <1>2, <1>3, <1>4

-----------------------------------------------------------------------------
(* The theorems. *)

LEMMA InitInv ==
  ASSUME Init
  PROVE  IInv
<1>1. /\ k \in ClientType /\ k.connection = NoConn /\ ~k.connected /\ ~k.attached
      /\ k.cleanup = "none" /\ k.faults = {} /\ k.awaiting = {}
      /\ k.roles = [r \in RoleIds |-> "absent"]
  BY EmptyClientType DEF Init
<1>2. NewConn \in ConnType /\ ~NewConn.hasClient /\ ~NewConn.initial
  BY DEF NewConn, ConnType, Places, Reasons
<1>3. /\ conn \in [Conns -> ConnType]
      /\ \A c \in Conns : ~conn[c].hasClient /\ ~conn[c].initial
  BY <1>2 DEF Init
<1>4. srv \in ServerType /\ ~srv.registered /\ srv.external = "no"
  BY DEF Init, NewServer, ServerType
<1>5. dial \in DialType
  <2>1. Idle \in DialType BY DEF Idle, DialType
  <2>2. Dialing \in DialType BY <2>1 DEF Dialing, DialType
  <2> QED BY <2>1, <2>2 DEF Init
<1>6. TypeOK BY <1>1, <1>3, <1>4, <1>5 DEF TypeOK, Init
<1>7. Attachment BY <1>1 DEF Attachment
<1>8. Ownership BY <1>3 DEF Ownership, Owned
<1>9. Wanted BY <1>4 DEF Wanted, NoForgottenClient, ExternalOutlivesCleanup
<1>10. Paired BY <1>1 DEF Paired
<1>11. Waits BY <1>1, ClientAssumption DEF Waits, Holding, Timed
<1> QED BY <1>6, <1>7, <1>8, <1>9, <1>10, <1>11 DEF IInv

(* The socket of the client's own connection is closed in this step. *)
OwnSocketCloses ==
  conn[k.connection].disc = "socket" /\ conn'[k.connection].disc = "done"

LEMMA SocketClosedDetach ==
  ASSUME IInv, NEW c \in Conns, SocketClosed(c)
  PROVE  NotDetached \/ OwnSocketCloses
<1>1. CASE k.connection = c
  <2>1. conn[c] \in ConnType /\ conn \in [Conns -> ConnType] BY DEF IInv, TypeOK
  <2>2. Closed(conn[c]).disc = "done" BY <2>1 DEF Closed, ConnType
  <2>3. conn'[c] = Closed(conn[c]) /\ conn[c].disc = "socket" BY <2>1 DEF SocketClosed
  <2> QED BY <1>1, <2>2, <2>3 DEF OwnSocketCloses
<1>2. CASE k.connection # c
  <2>1. k' = k BY <1>2 DEF SocketClosed
  <2> QED BY <2>1 DEF NotDetached
<1> QED BY <1>1, <1>2

(* Every step preserves the invariant, and only one of them detaches. *)
LEMMA NextInv ==
  ASSUME IInv, [Next]_vars
  PROVE  IInv' /\ (NotDetached \/ OwnSocketCloses)
<1>1. ASSUME Quiet PROVE IInv' /\ NotDetached
  <2>1. NotDetached BY <1>1 DEF Quiet, NotDetached
  <2> QED BY <1>1, <2>1, QuietKeeps
<1>2. ASSUME Removal PROVE IInv' /\ NotDetached
  <2>1. NotDetached BY <1>2 DEF Removal, NotDetached
  <2> QED BY <1>2, <2>1, RemovalKeeps
<1>3. CASE UNCHANGED vars
  <2>1. Quiet
    <3>1. TypeOK BY DEF IInv
    <3> QED BY <1>3, <3>1, AllWindRefl DEF Quiet, vars, boundVars, TypeOK
  <2> QED BY <1>1, <2>1
<1>4. ASSUME NEW c \in Conns, ConnStep(c) PROVE IInv' /\ (NotDetached \/ OwnSocketCloses)
  <2>1. CASE SocketClosed(c) BY <2>1, SocketClosedKeeps, SocketClosedDetach
  <2>2. CASE \/ TasksEnd(c) \/ Overflows(c) \/ ReaderEnds(c)
             \/ \E reason \in Reasons : Goodbye(c, reason)
             \/ HandlerFails(c) \/ HandlerDisconnects(c) \/ HandlerEnds(c) \/ Accept(c)
    <3>1. Quiet BY <2>2, EndingIsQuiet
    <3> QED BY <1>1, <3>1
  <2>3. CASE Attach(c) BY <2>3, AttachKeeps
  <2>4. CASE PairingEnds(c) \/ RefreshTrusted(c) BY <2>4, ActivationKeeps
  <2>5. CASE ExchangeDone(c) BY <2>5, ExchangeDoneKeeps
  <2>6. CASE \E objs \in SUBSET NeedsState : ClientState(c, objs) BY <2>6, ClientStateKeeps
  <2>7. CASE InitialStateTimeout(c) \/ ActivationStateTimeout(c) BY <2>7, TimeoutKeeps
  <2> QED BY <1>4, <2>1, <2>2, <2>3, <2>4, <2>5, <2>6, <2>7 DEF ConnStep
<1>5. ASSUME RegistryStep PROVE IInv' /\ NotDetached
  <2>1. CASE CleanupFires
    <3>1. IInv' /\ k.connection = NoConn BY <2>1, CleanupKeeps
    <3> QED BY <3>1 DEF NotDetached
  <2>2. CASE UnregisterExternal \/ ConnectColdRoles
             \/ \E timed \in BOOLEAN : RegisterExternal(timed)
    BY <2>2, ExternalKeeps
  <2>3. CASE ExternalDeadline \/ ReclaimDeadline BY <1>1, <1>2, <2>3, DeadlineEffect
  <2> QED BY <1>5, <2>1, <2>2, <2>3 DEF RegistryStep
<1>6. ASSUME DialStep PROVE IInv' /\ NotDetached
  <2>1. CASE DialRequest \/ Reclaim \/ StopDial
             \/ \E c \in Conns : DialOpens(c) \/ DialResumes(c)
    <3>1. Quiet BY <2>1, DialIsQuiet
    <3> QED BY <1>1, <3>1
  <2>2. CASE DialFails \/ \E c \in Conns : DialGivesUp(c)
    <3>1. DialEnds /\ UNCHANGED <<conn, boundVars>> BY <2>2 DEF DialFails, DialGivesUp
    <3> QED BY <1>1, <1>2, <3>1, DialEndsEffect
  <2>3. CASE MdnsRemoved BY <1>1, <1>2, <2>3, MdnsEffect
  <2> QED BY <1>6, <2>1, <2>2, <2>3 DEF DialStep
<1> QED BY <1>3, <1>4, <1>5, <1>6 DEF Next

(* The invariant is inductive. *)
LEMMA Inductive ==
  Spec => []IInv
<1>1. Init => IInv BY InitInv
<1>2. IInv /\ [Next]_vars => IInv' BY NextInv
<1> QED BY <1>1, <1>2, PTL DEF Spec

(* The variables keep their types. *)
THEOREM TypeCorrect ==
  Spec => []TypeOK
<1>1. IInv => TypeOK BY DEF IInv
<1> QED BY <1>1, Inductive, PTL

(* No role instance is left running without its on_disconnect or connected  *)
(* twice; roles run exactly while their client has a transport, or was      *)
(* connected cold.                                                          *)
THEOREM RolesAreSettled ==
  Spec => []RolesSettled
<1>1. IInv => RolesSettled
  BY DEF IInv, Paired, RolesSettled, RolesPaired, RolesFollowAttachment, LiveRoles
<1> QED BY <1>1, Inductive, PTL

(* A lenient server never waits for a client/state without a timeout. *)
THEOREM WaitsAreTimed ==
  Spec => []NoEndlessWait
<1>1. IInv => NoEndlessWait
  <2> SUFFICES ASSUME IInv, NEW c \in Conns, Lenient, k.connection = c,
                      conn[c].place = "live", conn[c].disc = "no"
               PROVE  /\ k.connected \/ conn[c].timer
                      /\ k.awaiting = {} \/ conn[c].timer \/ conn[c].actTimer
    BY DEF NoEndlessWait
  <2>1. Timed(c) BY DEF IInv, Waits
  <2> QED BY <2>1 DEF Timed
<1> QED BY <1>1, Inductive, PTL

(* The registry keeps a client that came back, and one that left only while *)
(* somebody wants it.                                                       *)
THEOREM RegistryFollowsDevice ==
  Spec => []RegistryFollows
<1>1. IInv => RegistryFollows
  BY DEF IInv, Attachment, Wanted, RegistryFollows, AttachedIsRegistered, Owns
<1> QED BY <1>1, Inductive, PTL

(* A client loses its connection only by the close of that connection's own *)
(* socket: no replaced connection, timer or removal detaches it.            *)
THEOREM OnlyItsOwnDetaches ==
  Spec => DetachedByItsOwn
<1>1. IInv /\ [Next]_vars =>
        [k.connection # NoConn /\ k'.connection = NoConn =>
           conn[k.connection].disc = "socket" /\ conn'[k.connection].disc = "done"]_vars
  <2> SUFFICES ASSUME IInv, [Next]_vars, k.connection # NoConn, k'.connection = NoConn
               PROVE  conn[k.connection].disc = "socket" /\ conn'[k.connection].disc = "done"
    OBVIOUS
  <2>1. NotDetached \/ OwnSocketCloses BY NextInv
  <2> QED BY <2>1 DEF NotDetached, OwnSocketCloses
<1> QED BY <1>1, Inductive, PTL DEF Spec, DetachedByItsOwn

=============================================================================
