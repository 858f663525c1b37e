----------------------------- MODULE Credentials -----------------------------
(***************************************************************************)
(* The pairing records of one client and of the servers it pairs with: the *)
(* client's store and its file (noise/trust_store.py), the PSK each        *)
(* handshake settles on (noise/driver.py, client/connection.py), and the   *)
(* store's coroutines, which mark a record used, replace a server's        *)
(* record, evict the least recently used, drop superseded ones and unpair, *)
(* each suspended whenever it waits for the file to be written.            *)
(*                                                                         *)
(* Several connections are brought up at once, one is served, and only     *)
(* that one pairs; which of them is admitted is ClientAdmission's subject, *)
(* and the exchange that leads to a finalize is Pairing's. A record is     *)
(* named by its key; keys are numbered in the order they were minted.      *)
(***************************************************************************)
EXTENDS Integers, Sequences, FiniteSets, SequencesExt, FiniteSetsExt

CONSTANTS
  Servers,      \* the servers
  NoServer,     \* none of them
  Conns,        \* connections, reused once closed and swept
  Capacity,     \* record_capacity of the client's store
  MaxKeys,      \* bound: keys minted
  MaxUnpairs,   \* bound: server/unpair sent
  MaxCrashes    \* bound: crashes of the client

CredentialsAssumption ==
  /\ NoServer \notin Servers
  /\ Capacity \in Nat \ {0, 1}
  /\ {MaxKeys, MaxUnpairs, MaxCrashes} \subseteq Nat

VARIABLES
  store,    \* the client's records: held, and the minted keys by last use
  file,     \* the client's file: the records by last use
  saves,    \* the store's lock: tasks that hold and await it, what is written;
            \* and whether the last sweep had no connection to spare a record for
  jobs,     \* what each task of the store has left to do
  conns,    \* the client's connections
  records,  \* the key each server holds for the client, and keys in flight
  past      \* bounds and what the properties tell apart

credentialVars == <<store, file, saves, jobs, conns, records, past>>

Keys == 1 .. MaxKeys
NoKey == 0

-------------------------------------------------------------------------------
(* Connections. psk: the record that keys the session, NoKey under the          *)
(* Sentinel or a Pairing PSK; resolving: _resolving_psk_id; offer: the key a    *)
(* pairing has sent; acked: server/pair-finalize is under way; told:            *)
(* server/unpair is under way; exposed: a removal was under way when the        *)
(* connection chose its record.                                                 *)

Off == [stage |-> "off", server |-> NoServer, slot |-> FALSE, psk |-> NoKey,
        resolving |-> NoKey, offer |-> NoKey, acked |-> FALSE, told |-> FALSE,
        exposed |-> FALSE]

(* Stages of an admitted connection. *)
Served == {"serving", "offered", "storing", "paired", "rekeying", "remarking", "unpairing"}
Stages == {"off", "keying", "marking", "up"} \cup Served

Slots(cs) == {c \in Conns : cs[c].slot}

(* record_psk_ids of every open or provisional connection. *)
ProtectedPskIds(cs) ==
  UNION {{cs[c].psk, cs[c].resolving} \ {NoKey} : c \in {d \in Conns : cs[d].stage # "off"}}

-------------------------------------------------------------------------------
(* The store. S = [store, saves, jobs, conns] is what the code between two      *)
(* awaits works on.                                                             *)

Client == [store |-> store, saves |-> saves, jobs |-> jobs, conns |-> conns]

(* The times of last use of records the client neither holds nor offers are     *)
(* forgotten.                                                                   *)
Become(S) ==
  LET known == S.store.held \cup {S.conns[c].offer : c \in Conns}
  IN  /\ store' = [S.store EXCEPT !.recent = SelectSeq(@, LAMBDA k : k \in known)]
      /\ saves' = S.saves /\ jobs' = S.jobs /\ conns' = S.conns

Tasks == {"connection", "sweep"} \X Conns

NoJob == [kind |-> "none", todo |-> <<>>, keep |-> {}]

Owner(k) == past.minted[k]

InOrder(S, ks) == SelectSeq(S.store.recent, LAMBDA k : k \in ks)

(* What is written to the file. *)
Snapshot(S) == InOrder(S, S.store.held)

(* The next of the queue takes the lock. *)
TakeLock(S) ==
  [S EXCEPT !.saves.payload = IF S.saves.queue = <<>> THEN <<>> ELSE Snapshot(S)]

(* _save: the lock is taken in order; the holder writes what the store holds    *)
(* when it gets it.                                                             *)
Save(S, t, job) ==
  [S EXCEPT !.jobs[t] = job,
            !.saves.queue = Append(@, t),
            !.saves.payload = IF S.saves.queue = <<>> THEN Snapshot(S) ELSE @]

(* Keys are minted in the order of their records' creation times.               *)
Superseded(S, k) == \E n \in S.store.held : n > k /\ Owner(n) = Owner(k)

(* _evict_over_capacity: the least recently used outside keep.                  *)
Evictable(S, keep) ==
  LET excess == Cardinality(S.store.held) - Capacity
      oldest == InOrder(S, S.store.held \ keep)
  IN  IF excess <= 0 THEN <<>> ELSE SubSeq(oldest, 1, Min({excess, Len(oldest)}))

(* remove_record for what is left of todo: the first one present suspends. At   *)
(* the end of the stale records of a replacement the eviction follows.          *)
RemoveRest(S, t, job) ==
  LET Pop(kind, present) ==
        Save([S EXCEPT !.store.held = @ \ {Head(present)}], t,
             [job EXCEPT !.kind = kind, !.todo = Tail(present)])
      Present(todo) == SelectSeq(todo, LAMBDA k : k \in S.store.held)
      stale == Present(job.todo)
      over  == Evictable(S, job.keep)
  IN  IF stale # <<>> THEN Pop(job.kind, stale)
      ELSE IF job.kind = "stale" /\ over # <<>> THEN Pop("evict", over)
      ELSE [S EXCEPT !.jobs[t] = NoJob]

(* Mutant: the sweep spares no record of an open connection.                    *)
SweepOpen(S, c) ==
  LET old == {k \in S.store.held : Superseded(S, k)}
  IN  RemoveRest([S EXCEPT !.saves.swept = TRUE], <<"sweep", c>>,
                 [kind |-> "sweep", todo |-> InOrder(S, old), keep |-> {}])

(* Mutant: a record that backs no open connection is dropped with the others.   *)
SweepAll(S, c) ==
  LET keep == ProtectedPskIds(S.conns)
      old  == {k \in S.store.held : k \notin keep}
  IN  RemoveRest([S EXCEPT !.saves.swept = keep = {}], <<"sweep", c>>,
                 [kind |-> "sweep", todo |-> InOrder(S, old), keep |-> keep])

(* on_connection_closed: remove_superseded_records runs as a task, from the     *)
(* records there are now.                                                       *)
Sweep(S, c) ==
  LET keep == ProtectedPskIds(S.conns)
      old  == {k \in S.store.held : Superseded(S, k) /\ k \notin keep}
  IN  RemoveRest([S EXCEPT !.saves.swept = keep = {}], <<"sweep", c>>,
                 [kind |-> "sweep", todo |-> InOrder(S, old), keep |-> keep])

(* A task that is cancelled while it awaits the lock leaves the queue; while it *)
(* writes, the lock is released.                                                *)
Cut(S, t) ==
  LET left == SelectSeq(S.saves.queue, LAMBDA u : u # t)
      gone == [S EXCEPT !.jobs[t] = NoJob, !.saves.queue = left]
  IN  IF S.saves.queue # <<>> /\ Head(S.saves.queue) = t THEN TakeLock(gone) ELSE gone

(* disconnect: tasks of the connection are cancelled, its records are no longer *)
(* protected, and the sweep starts. A raw connection is only forgotten.         *)
Disconnect(S, c) ==
  LET cut == Cut(S, <<"connection", c>>)
      off == [cut EXCEPT !.conns[c] = Off]
  IN  IF S.conns[c].stage = "keying" THEN off ELSE Sweep(off, c)

(* mark_record_used; a record that is gone is not marked.                       *)
MarkRecordUsed(S, c, stage, otherwise) ==
  LET k == S.conns[c].psk
      marked == [S EXCEPT !.store.recent = Append(SelectSeq(@, LAMBDA x : x # k), k),
                          !.conns[c].stage = stage]
  IN  IF k \in S.store.held
      THEN Save(marked, <<"connection", c>>, [NoJob EXCEPT !.kind = "mark"])
      ELSE otherwise

(* _require_connection_slot. *)
RequireSlot(S, c) ==
  IF S.conns[c].slot THEN [S EXCEPT !.conns[c].stage = "up"] ELSE Disconnect(S, c)

-------------------------------------------------------------------------------
(* A task whose save has been written goes on; the next in the queue then       *)
(* writes what the store holds then.                                            *)

GoOn(S, t) ==
  LET c   == t[2]
      job == S.jobs[t]
      removed == RemoveRest(S, t, [job EXCEPT !.kind = IF @ = "store" THEN "stale" ELSE @])
      idle == [S EXCEPT !.jobs[t] = NoJob]
  IN  CASE job.kind = "mark" ->
             IF idle.conns[c].stage = "marking" THEN RequireSlot(idle, c)
             ELSE [idle EXCEPT !.conns[c].stage = "serving"]
        [] job.kind = "unpair" -> Disconnect(idle, c)
        [] job.kind = "sweep" -> removed
        [] OTHER -> IF removed.jobs[t].kind = "none"
                    THEN [removed EXCEPT !.conns[c].stage = "paired"] ELSE removed

(* Mutant: the lock is not held while the file is written: what the next one    *)
(* writes was taken when it asked.                                              *)
WrittenAsAsked ==
  LET t    == Head(saves.queue)
      went == GoOn([Client EXCEPT !.saves.queue = Tail(@)], t)
  IN  /\ saves.queue # <<>>
      /\ file' = saves.payload
      /\ Become(IF Len(saves.queue) > 1 THEN went ELSE TakeLock(went))
      /\ past' = [past EXCEPT !.cut = @ /\ saves.payload # Snapshot(Client)]
      /\ UNCHANGED records

Written ==
  LET t    == Head(saves.queue)
      went == GoOn([Client EXCEPT !.saves.queue = Tail(@)], t)
  IN  /\ saves.queue # <<>>
      /\ file' = saves.payload
      /\ Become(TakeLock(went))
      /\ past' = [past EXCEPT !.cut = @ /\ saves.payload # Snapshot(Client)]
      /\ UNCHANGED records

-------------------------------------------------------------------------------
(* Bring-up. *)

(* A connection is opened: it claims a slot below the capacity, and an incoming *)
(* one is brought up without it. Noise message 1 names the server's record; a   *)
(* client that does not hold it answers under the Sentinel.                     *)
Open(c, s) ==
  LET k == records.held[s]
      resolved == IF k \in store.held THEN k ELSE NoKey
      removing == \E t \in Tasks : jobs[t].kind \notin {"none", "mark"}
  IN  /\ conns[c].stage = "off" /\ jobs[<<"sweep", c>>] = NoJob
      /\ conns' = [conns EXCEPT ![c] =
           [Off EXCEPT !.stage = "keying", !.server = s, !.resolving = resolved,
                       !.slot = Cardinality(Slots(conns)) < Capacity - 1,
                       !.exposed = resolved # NoKey /\ removing]]
      /\ UNCHANGED <<store, file, saves, jobs, records, past>>

Keyed(c) ==
  LET S == [Client EXCEPT !.conns[c].psk = conns[c].resolving,
                          !.conns[c].resolving = NoKey]
  IN  /\ conns[c].stage = "keying"
      /\ Become(MarkRecordUsed(S, c, "marking", RequireSlot(S, c)))
      /\ UNCHANGED <<file, records, past>>

(* start, once the connection is admitted and the one it displaces is closed.   *)
Start(c) ==
  /\ conns[c].stage = "up" /\ \A d \in Conns : conns[d].stage \notin Served
  /\ conns' = [conns EXCEPT ![c].stage = "serving"]
  /\ UNCHANGED <<store, file, saves, jobs, records, past>>

-------------------------------------------------------------------------------
(* Pairing, on the connection that is served. *)

(* A pairing needs the session off its record.                                  *)
LeaveRecord(c) ==
  /\ conns[c].stage = "serving" /\ conns[c].psk # NoKey /\ ~conns[c].told
  /\ conns' = [conns EXCEPT ![c].psk = NoKey, ![c].exposed = FALSE]
  /\ UNCHANGED <<store, file, saves, jobs, records, past>>

(* client/pair-finalize with a fresh key.                                       *)
SendFinalize(c) ==
  LET k == Len(past.minted) + 1
  IN  /\ conns[c].stage = "serving" /\ conns[c].psk = NoKey /\ k \in Keys
      /\ past' = [past EXCEPT !.minted = Append(@, conns[c].server)]
      /\ store' = [store EXCEPT !.recent = Append(@, k)]
      /\ records' = [records EXCEPT !.flight = @ \cup {k}]
      /\ conns' = [conns EXCEPT ![c].stage = "offered", ![c].offer = k]
      /\ UNCHANGED <<file, saves, jobs>>

(* The server stores the record, then acknowledges it; a finalize it has        *)
(* received is completed even when the connection is gone.                      *)
CommitFinalize(k) ==
  /\ k \in records.flight
  /\ records' = [held |-> [records.held EXCEPT ![Owner(k)] = k], flight |-> records.flight \ {k}]
  /\ conns' = [c \in Conns |-> [conns[c] EXCEPT !.acked = @ \/ conns[c].offer = k]]
  /\ UNCHANGED <<store, file, saves, jobs, past>>

FinalizeLost(k) ==
  /\ k \in records.flight /\ \A c \in Conns : conns[c].offer # k
  /\ records' = [records EXCEPT !.flight = @ \ {k}]
  /\ UNCHANGED <<store, file, saves, jobs, conns, past>>

(* replace_record_for_server_id: what is protected and what is stale is settled *)
(* before the record is stored.                                                 *)
ReplaceRecord(c) ==
  LET k     == conns[c].offer
      keep  == ProtectedPskIds(conns)
      stale == {x \in store.held : Owner(x) = conns[c].server /\ x # k /\ x \notin keep}
      S     == [Client EXCEPT !.store.held = @ \cup {k}, !.conns[c].stage = "storing",
                              !.conns[c].acked = FALSE]
  IN  Save(S, <<"connection", c>>,
           [kind |-> "store", todo |-> InOrder(Client, stale), keep |-> keep \cup {k}])

ReceiveAck(c) ==
  /\ conns[c].stage = "offered" /\ conns[c].acked /\ ~conns[c].told
  /\ Become(ReplaceRecord(c))
  /\ UNCHANGED <<file, records, past>>

(* The server re-handshakes onto the record it holds: the one just paired, or   *)
(* the one a pairing that came to nothing left. No Sentinel stands in for it.   *)
Reference(c) == IF conns[c].stage = "paired" THEN conns[c].offer ELSE records.held[conns[c].server]

Rehandshake(c) ==
  LET k == Reference(c)
      S == [Client EXCEPT !.conns[c].stage = "rekeying", !.conns[c].resolving = k,
                          !.conns[c].offer = NoKey]
  IN  /\ ~conns[c].told
      /\ \/ conns[c].stage = "paired"
         \/ conns[c].stage \in {"serving", "offered"} /\ conns[c].psk = NoKey
            /\ k # NoKey /\ ~conns[c].acked /\ conns[c].offer \notin records.flight
      /\ IF k \in store.held THEN Become(S) ELSE Become(Disconnect(Client, c))
      /\ UNCHANGED <<file, records, past>>

Rekeyed(c) ==
  LET S == [Client EXCEPT !.conns[c].psk = conns[c].resolving, !.conns[c].resolving = NoKey]
  IN  /\ conns[c].stage = "rekeying"
      /\ Become(MarkRecordUsed(S, c, "remarking", [S EXCEPT !.conns[c].stage = "serving"]))
      /\ UNCHANGED <<file, records, past>>

-------------------------------------------------------------------------------
(* unpair: the server drops its record, then tells the client.                  *)
Unpair(c) ==
  /\ conns[c].stage = "serving" /\ past.unpairs < MaxUnpairs /\ ~conns[c].told
  /\ records' = [records EXCEPT !.held[conns[c].server] = NoKey]
  /\ conns' = [conns EXCEPT ![c].told = TRUE]
  /\ past' = [past EXCEPT !.unpairs = @ + 1]
  /\ UNCHANGED <<store, file, saves, jobs>>

(* _handle_unpair: ignored outside a long-term session.                         *)
HandleUnpair(c) ==
  LET k == conns[c].psk
      S == [Client EXCEPT !.conns = [d \in Conns |->
              [@[d] EXCEPT !.told = @ /\ d # c, !.exposed = @ \/ (k # NoKey /\ conns[d].psk = k)]]]
  IN  /\ conns[c].stage \in {"serving", "offered"} /\ conns[c].told
      /\ Become(IF k = NoKey THEN S
                ELSE IF k \in store.held
                THEN Save([S EXCEPT !.store.held = @ \ {k}, !.conns[c].stage = "unpairing"],
                          <<"connection", c>>, [NoJob EXCEPT !.kind = "unpair"])
                ELSE Disconnect(S, c))
      /\ UNCHANGED <<file, records, past>>

(* The connection is lost, displaced, rejected or given up; the thread that     *)
(* writes for one of its tasks is not stopped.                                  *)
Close(c) ==
  LET t == <<"connection", c>>
      writing == saves.queue # <<>> /\ Head(saves.queue) = t
  IN  /\ conns[c].stage # "off"
      /\ Become(Disconnect(Client, c))
      /\ file' = IF writing THEN saves.payload ELSE file
      /\ past' = [past EXCEPT !.cut = @ \/ (jobs[t] # NoJob /\ (writing => saves.payload # Snapshot(Client)))]
      /\ UNCHANGED records

(* The client is killed and started again from its file.                        *)
Crash ==
  /\ past.crashes < MaxCrashes
  /\ store' = [held |-> Range(file), recent |-> file]
  /\ saves' = [queue |-> <<>>, payload |-> <<>>, swept |-> FALSE]
  /\ jobs' = [t \in Tasks |-> NoJob]
  /\ conns' = [c \in Conns |-> Off]
  /\ past' = [past EXCEPT !.crashes = @ + 1, !.cut = FALSE]
  /\ UNCHANGED <<file, records>>
-------------------------------------------------------------------------------
Init ==
  /\ store = [held |-> {}, recent |-> <<>>] /\ file = <<>>
  /\ saves = [queue |-> <<>>, payload |-> <<>>, swept |-> TRUE]
  /\ jobs = [t \in Tasks |-> NoJob]
  /\ conns = [c \in Conns |-> Off]
  /\ records = [held |-> [s \in Servers |-> NoKey], flight |-> {}]
  /\ past = [minted |-> <<>>, unpairs |-> 0, crashes |-> 0, cut |-> FALSE]

Next ==
  \/ Written \/ Crash
  \/ \E k \in Keys : CommitFinalize(k) \/ FinalizeLost(k)
  \/ \E c \in Conns :
       \/ \E s \in Servers : Open(c, s)
       \/ Keyed(c) \/ Start(c) \/ LeaveRecord(c) \/ SendFinalize(c)
       \/ ReceiveAck(c) \/ Rehandshake(c) \/ Rekeyed(c) \/ Unpair(c) \/ HandleUnpair(c)
       \/ Close(c)

Spec == Init /\ [][Next]_credentialVars

TypeOK ==
  /\ store.held \subseteq Keys /\ store.recent \in Seq(Keys)
  /\ file \in Seq(Keys) /\ saves.payload \in Seq(Keys) /\ saves.swept \in BOOLEAN
  /\ saves.queue \in Seq(Tasks)
  /\ \A t \in Tasks :
       /\ jobs[t].kind \in {"none", "mark", "store", "stale", "evict", "sweep", "unpair"}
       /\ jobs[t].todo \in Seq(Keys) /\ jobs[t].keep \subseteq Keys
       /\ jobs[t] # NoJob <=> t \in Range(saves.queue)
  /\ \A c \in Conns :
       /\ conns[c].stage \in Stages /\ conns[c].server \in Servers \cup {NoServer}
       /\ {conns[c].psk, conns[c].resolving, conns[c].offer} \subseteq Keys \cup {NoKey}
  /\ records.held \in [Servers -> Keys \cup {NoKey}] /\ records.flight \subseteq Keys
  /\ past.minted \in Seq(Servers)

Idle == \A t \in Tasks : jobs[t] = NoJob

(* When the store is idle and no save was cancelled, the file holds what the    *)
(* store holds: whatever the coroutines interleaved, the last snapshot written  *)
(* has every change (trust_store.py, _save).                                    *)
DiskFollows == Idle /\ ~past.cut => file = Snapshot(Client)

(* A server that re-handshakes onto the record it has just paired finds it      *)
(* stored: no eviction, no superseded sweep and no other connection's pairing   *)
(* takes it away in between (client/connection.py, _route_pairing_message).     *)
RekeyResolves == \A c \in Conns : conns[c].stage = "paired" => conns[c].offer \in store.held

(* The record that backs an open connection stays until that connection or      *)
(* another one under the same record is unpaired. A connection that chose its   *)
(* record while a removal was under way is not covered: what is protected was   *)
(* settled before.                                                              *)
OpenKept ==
  \A c \in Conns :
    LET k == conns[c].psk
    IN  conns[c].stage # "off" /\ k # NoKey /\ ~conns[c].exposed => k \in store.held

(* With the store idle and no connection left, no server has two records, if    *)
(* the last connection to close found no other to spare a record for            *)
(* (client/client.py, on_connection_closed).                                    *)
SupersededGone ==
  Idle /\ saves.swept /\ (\A c \in Conns : conns[c].stage = "off")
    => ~\E k \in store.held : Superseded(Client, k)

(* A record the server still relies on is dropped only for want of room, or     *)
(* because a crash comes before it is written.                                  *)
DropsRightly ==
  \A k \in store.held \ store'.held :
    \/ records.held[Owner(k)] # k
    \/ Cardinality(store.held) > Capacity
    \/ \E t \in Tasks : jobs[t].kind = "evict"
    \/ past.crashes' # past.crashes

DroppedRightly == [][DropsRightly]_credentialVars
===============================================================================
