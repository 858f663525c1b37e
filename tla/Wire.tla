-------------------------------- MODULE Wire --------------------------------
(***************************************************************************)
(* The encrypted transport of a connection (noise/wire.py) while it is       *)
(* re-keyed in band: fragments, the lock that keeps a message's fragments    *)
(* together, and the two sessions, swapped at different moments by a task    *)
(* of the server and by the client's reader.                                 *)
(*                                                                          *)
(* The server's messages come from its writer and from the pairing task,     *)
(* which also re-handshakes; the client's from tasks of its own and from     *)
(* its reader.  Frames arrive in order.  What is encrypted under one session *)
(* cannot be read under another.  A socket that breaks, or a handshake that   *)
(* times out, only ends a behavior.                                          *)
(***************************************************************************)
EXTENDS Integers, Sequences, FiniteSets, SequencesExt

CONSTANTS FrameSize,   \* MAX_TRANSPORT_PLAINTEXT
          MaxMessage,  \* MAX_REASSEMBLED_MESSAGE_BYTES
          MsgLengths,  \* lengths of application messages, their type included
          MaxSends, MaxTalks, MaxRekeys  \* bounds: messages each way, pairing messages, re-handshakes

WireAssumption ==
  /\ FrameSize \in Nat /\ FrameSize > 3 /\ MaxMessage \in Nat
  /\ MsgLengths \subseteq 1 .. MaxMessage
  /\ {MaxSends, MaxTalks, MaxRekeys} \subseteq Nat

VARIABLES framing,  \* "flags", or "legacy" with a client that predates them
          down, up, \* frames on their way to the client, to the server
          host,     \* the server's EncryptedWebSocket, writer and pairing task
          peer      \* the client's EncryptedWebSocket, senders and reader

wireVars == <<framing, down, up, host, peer>>

-----------------------------------------------------------------------------
(* Fragments.  A message is [kind, id, len]; its data are bytes 1 to len - 1,  *)
(* the type byte aside, and a piece is some of them in a row.                  *)

Small(kind) == [kind |-> kind, id |-> 0, len |-> 1]
App(id, len) == [kind |-> "app", id |-> id, len |-> len]

Whole(m) == <<m, 1, m.len - 1>>

Plain(m) == [form |-> "message", first |-> FALSE, last |-> FALSE, piece |-> Whole(m)]

(* Pieces of at most first, then rest bytes.                                  *)
Cut(m, first, rest) ==
  LET data  == m.len - 1
      count == 1 + ((data - first + rest - 1) \div rest)
      From(i) == IF i = 1 THEN 1 ELSE first + (i - 2) * rest + 1
      To(i)   == IF i = count THEN data ELSE first + (i - 1) * rest
  IN  [i \in 1 .. count |-> <<m, From(i), To(i)>>]

(* Mutant: the type of the message, repeated in its first fragment, is not    *)
(* counted.                                                                   *)
FlagsUncounted(m) ==
  LET pieces == Cut(m, FrameSize - 2, FrameSize - 2)
  IN  [i \in DOMAIN pieces |->
         [form |-> "fragment", first |-> i = 1, last |-> i = Len(pieces), piece |-> pieces[i]]]

Flagged(m) ==
  LET pieces == Cut(m, FrameSize - 3, FrameSize - 2)
  IN  [i \in DOMAIN pieces |->
         [form |-> "fragment", first |-> i = 1, last |-> i = Len(pieces), piece |-> pieces[i]]]

Legacy(m) ==
  LET pieces == Cut(m, FrameSize - 2, FrameSize - 1)
  IN  [i \in DOMAIN pieces |->
         [form |-> IF i = Len(pieces) THEN "end" ELSE "more", first |-> FALSE, last |-> FALSE,
          piece |-> pieces[i]]]

(* _send_plaintext: the frames of a message.                                  *)
Frames(m, how) ==
  IF m.len <= FrameSize THEN <<Plain(m)>> ELSE IF how = "legacy" THEN Legacy(m) ELSE Flagged(m)

(* Bytes of a frame's plaintext.                                              *)
SizeOf(f) ==
  LET data == f.piece[3] - f.piece[2] + 1
  IN  data + CASE f.form = "message"  -> 1
               [] f.form = "fragment" -> IF f.first THEN 3 ELSE 2
               [] OTHER               -> IF f.piece[2] = 1 THEN 2 ELSE 1

(* What pieces make when they are put together: the message they were, or      *)
(* something nobody sent.                                                     *)
Garbled == Small("garbled")

Joined(pieces) ==
  LET m == pieces[1][1]
  IN  IF /\ \A i \in DOMAIN pieces : pieces[i][1] = m
         /\ pieces[1][2] = 1 /\ Last(pieces)[3] = m.len - 1
         /\ \A i \in 2 .. Len(pieces) : pieces[i][2] = pieces[i - 1][3] + 1
      THEN m ELSE Garbled

Bytes(pieces) == FoldSeq(LAMBDA p, n : n + p[3] - p[2] + 1, 0, pieces)

-----------------------------------------------------------------------------
(* Reassembly.  Each operator gives [buf, out]: the fragments held, and the    *)
(* message, error or nothing that receive() has to return.                     *)

NoBuf   == [pieces |-> <<>>, legacy |-> FALSE]
Nothing == Small("nothing")
Error   == Small("error")

Fails       == [buf |-> NoBuf, out |-> Error]
Started(e)  == e.buf.pieces # <<>>

AppendFragment(buf, piece, last) ==
  LET pieces == Append(buf.pieces, piece)
  IN  IF Bytes(pieces) > MaxMessage THEN Fails
      ELSE IF last THEN [buf |-> NoBuf, out |-> Joined(pieces)]
      ELSE [buf |-> [buf EXCEPT !.pieces = pieces], out |-> Nothing]

OnFragment(e, f) ==
  IF f.first = Started(e) \/ e.buf.legacy THEN Fails
  ELSE AppendFragment(e.buf, f.piece, f.last)

OnLegacyFragment(e, f) ==
  IF ~Started(e)
  THEN IF f.form = "end" THEN Fails
       ELSE AppendFragment([pieces |-> <<>>, legacy |-> TRUE], f.piece, FALSE)
  ELSE IF ~e.buf.legacy THEN Fails ELSE AppendFragment(e.buf, f.piece, f.form = "end")

(* _decode. f is the frame as it was encrypted: its plaintext and its session. *)
Decode(e, f) ==
  IF f.key # e.key THEN Fails
  ELSE CASE f.plain.form = "fragment"        -> OnFragment(e, f.plain)
         [] f.plain.form \in {"more", "end"} -> OnLegacyFragment(e, f.plain)
         [] OTHER -> IF Started(e) THEN Fails
                     ELSE [buf |-> NoBuf, out |-> f.plain.piece[1]]

-----------------------------------------------------------------------------
(* Sending.  line holds the senders in the order in which they get the lock,   *)
(* each with the frames it has still to send.                                  *)

(* Mutant: whoever has a message sends its frames without the lock.           *)
JoinsAhead(e, by, m) ==
  [e EXCEPT !.line = <<[by |-> by, frames |-> Frames(m, framing)]>> \o @,
            !.sent = IF m.kind = "app" THEN Append(@, m) ELSE @]

Joins(e, by, m) == [e EXCEPT !.line = Append(@, [by |-> by, frames |-> Frames(m, framing)]),
                             !.sent = IF m.kind = "app" THEN Append(@, m) ELSE @]

Encrypted(e) == [key |-> e.key, plain |-> Head(e.line[1].frames)]

(* One frame of the message that holds the lock is out.                       *)
FrameOut(e) ==
  IF Len(e.line[1].frames) > 1 THEN [e EXCEPT !.line[1].frames = Tail(@)]
  ELSE [e EXCEPT !.line = Tail(@)]

Sending(e, by) == \E i \in DOMAIN e.line : e.line[i].by = by

Open == host.ended = "no" /\ peer.ended = "no"

-----------------------------------------------------------------------------
(* The server. *)

(* The application, or a stream, has a message for the writer.                *)
Queue ==
  /\ Open /\ Len(host.sent) + host.queued < MaxSends
  /\ host' = [host EXCEPT !.queued = @ + 1]
  /\ UNCHANGED <<framing, down, up, peer>>

WriterTakes(len) ==
  /\ Open /\ ~host.paused /\ host.queued > 0 /\ ~Sending(host, "writer")
  /\ host' = Joins([host EXCEPT !.queued = @ - 1], "writer", App(Len(host.sent) + 1, len))
  /\ UNCHANGED <<framing, down, up, peer>>

HostSends ==
  /\ Open /\ host.line # <<>>
  /\ down' = Append(down, Encrypted(host))
  /\ host' = FrameOut(host)
  /\ UNCHANGED <<framing, up, peer>>

(* The pairing task sends its messages itself, next to the running writer.    *)
Talks ==
  /\ Open /\ host.task = "idle" /\ ~Sending(host, "task") /\ host.talks < MaxTalks
  /\ host' = Joins([host EXCEPT !.talks = @ + 1], "task", Small("pair"))
  /\ UNCHANGED <<framing, down, up, peer>>

(* Mutant: the writer is cancelled where it is.                               *)
PausesAbruptly(e) ==
  [e EXCEPT !.paused = TRUE, !.task = "pausing",
            !.line = SelectSeq(@, LAMBDA s : s.by # "writer")]

(* _pause_writer: the writer stops once the message it has taken is sent.      *)
Pauses(e) == [e EXCEPT !.paused = TRUE, !.task = "pausing"]

Rekeys ==
  /\ Open /\ host.task = "idle" /\ ~Sending(host, "task") /\ host.rekeys < MaxRekeys
  /\ host' = Pauses([host EXCEPT !.rekeys = @ + 1])
  /\ UNCHANGED <<framing, down, up, peer>>

SendsMsg1 ==
  /\ Open /\ host.task = "pausing" /\ ~Sending(host, "writer")
  /\ host' = [Joins(host, "task", Small("msg1")) EXCEPT !.task = "msg2"]
  /\ UNCHANGED <<framing, down, up, peer>>

(* run_rehandshake_server has message 2 from the reader, and swaps.  Then the   *)
(* approval of unpaired playback is read again.                               *)
HostSwaps ==
  /\ Open /\ host.task = "msg2" /\ host.routed
  /\ host' = [host EXCEPT !.routed = FALSE, !.key = @ + 1, !.awaiting = TRUE, !.task = "keyed"]
  /\ UNCHANGED <<framing, down, up, peer>>

(* _activate: before whatever was queued for the writer meanwhile.            *)
Activates ==
  /\ Open /\ host.task = "keyed"
  /\ host' = [Joins(host, "task", Small("activate")) EXCEPT !.awaiting = FALSE, !.task = "out"]
  /\ UNCHANGED <<framing, down, up, peer>>

Resumes ==
  /\ Open /\ host.task = "out" /\ ~Sending(host, "task")
  /\ host' = [host EXCEPT !.paused = FALSE, !.task = "idle"]
  /\ UNCHANGED <<framing, down, up, peer>>

(* The server's reader hands message 2 to the task, and reads on: the next     *)
(* frame may be there before the task has run.                                *)
HostReads ==
  LET got == Decode(host, Head(up))
      m   == got.out
      e   == [host EXCEPT !.buf = got.buf]
  IN  /\ host.ended = "no" /\ up # <<>> /\ up' = Tail(up)
      /\ host' = CASE m = Nothing        -> e
                   [] m = Error          -> [e EXCEPT !.ended = "unread"]
                   [] m.kind = "msg2"    -> [e EXCEPT !.routed = TRUE]
                   [] m.kind = "goodbye" -> [e EXCEPT !.ended = "left", !.flagged = @ \/ host.awaiting]
                   [] OTHER              -> [e EXCEPT !.heard = Append(@, m),
                                                      !.flagged = @ \/ host.awaiting]
      /\ UNCHANGED <<framing, down, peer>>

-----------------------------------------------------------------------------
(* The client.  Its tasks wait for the connection's own lock first, where       *)
(* turns holds those that have it or wait for it.                             *)

Forced == Small("goodbye")
Drain  == Small("drain")

(* A sender that gets the lock gives up during an exchange, but not a goodbye. *)
Enters(e) ==
  IF e.turns = <<>> \/ e.turns[1].kind = "drain" \/ Sending(e, "sender") THEN e
  ELSE IF e.exchange /\ e.turns[1] # Forced THEN [e EXCEPT !.turns = Tail(@)]
  ELSE LET m == IF e.turns[1] = Forced THEN Forced ELSE App(Len(e.sent) + 1, e.turns[1].len)
       IN  Joins(e, "sender", m)

(* _send_message, _send_bytes: a free lock is taken at once.                   *)
Asks(e, m) ==
  LET asked == [e EXCEPT !.turns = Append(@, m)]
  IN  IF e.turns = <<>> THEN Enters(asked) ELSE asked

Says(len) ==
  /\ Open /\ ~peer.leaving /\ peer.calls < MaxSends
  /\ peer' = Asks([peer EXCEPT !.calls = @ + 1], App(0, len))
  /\ UNCHANGED <<framing, down, up, host>>

(* disconnect() of the application: the goodbye goes out even in an exchange.  *)
Leaves ==
  /\ Open /\ ~peer.leaving
  /\ peer' = Asks([peer EXCEPT !.leaving = TRUE], Forced)
  /\ UNCHANGED <<framing, down, up, host>>

(* The task that waited for the lock runs.                                    *)
NextEnters ==
  /\ Open /\ ~Sending(peer, "sender") /\ peer.turns # <<>> /\ peer.turns[1].kind # "drain"
  /\ peer' = Enters(peer)
  /\ UNCHANGED <<framing, down, up, host>>

(* Mutant: the senders are let go before the activation is there.             *)
PeerSwapsFreely(e) == [e EXCEPT !.key = @ + 1, !.reader = "activate", !.exchange = FALSE]

(* The reader swaps as message 2 is out, before anyone else gets the lock.     *)
PeerSwaps(e) == [e EXCEPT !.key = @ + 1, !.reader = "activate"]

PeerSends ==
  LET sent == FrameOut(peer)
      done == Len(peer.line[1].frames) = 1
      by   == peer.line[1].by
  IN  /\ Open /\ peer.line # <<>>
      /\ up' = Append(up, Encrypted(peer))
      /\ peer' = IF ~done THEN sent
                 ELSE IF by = "sender" THEN [sent EXCEPT !.turns = Tail(@)]
                 ELSE PeerSwaps(sent)
      /\ UNCHANGED <<framing, down, host>>

(* _exchange: no new message from here on, and those under way go first.      *)
StartsExchange(e) ==
  [e EXCEPT !.exchange = TRUE, !.turns = Append(@, Drain), !.reader = "drains"]

Drained ==
  /\ Open /\ peer.reader = "drains" /\ peer.turns[1] = Drain
  /\ peer' = [Joins(peer, "reader", Small("msg2")) EXCEPT !.turns = Tail(@), !.reader = "msg2"]
  /\ UNCHANGED <<framing, down, up, host>>

(* After a re-handshake nothing but the activation may come; it ends the       *)
(* exchange, and the client sends its state.                                  *)
PeerReads ==
  LET got == Decode(peer, Head(down))
      m   == got.out
      e   == [peer EXCEPT !.buf = got.buf]
  IN  /\ peer.ended = "no" /\ down # <<>> /\ peer.reader \in {"reads", "activate"}
      /\ down' = Tail(down)
      /\ peer' = CASE m = Nothing -> e
                   [] m = Error   -> [e EXCEPT !.ended = "unread"]
                   [] m \notin {Nothing, Error} /\ peer.reader = "activate" ->
                        IF m.kind = "activate"
                        THEN Asks([e EXCEPT !.exchange = FALSE, !.reader = "reads"],
                                  App(0, 1))
                        ELSE [e EXCEPT !.ended = "unexpected"]
                   [] m.kind = "msg1" /\ peer.reader = "reads" -> StartsExchange(e)
                   [] OTHER -> [e EXCEPT !.heard = IF m.kind = "pair" THEN @ ELSE Append(@, m)]
      /\ UNCHANGED <<framing, up, host>>

-----------------------------------------------------------------------------
End == [key |-> 0, buf |-> NoBuf, line |-> <<>>, sent |-> <<>>, heard |-> <<>>, ended |-> "no"]

Init ==
  /\ framing \in {"flags", "legacy"}
  /\ down = <<>> /\ up = <<>>
  /\ host = [queued |-> 0, paused |-> FALSE, task |-> "idle", talks |-> 0, rekeys |-> 0,
             routed |-> FALSE, awaiting |-> FALSE, flagged |-> FALSE] @@ End
  /\ peer = [turns |-> <<>>, calls |-> 0, reader |-> "reads", exchange |-> FALSE,
             leaving |-> FALSE] @@ End

Next ==
  \/ Queue \/ HostSends \/ Talks \/ Rekeys \/ SendsMsg1 \/ HostSwaps \/ Activates \/ Resumes
  \/ HostReads \/ Leaves \/ NextEnters \/ PeerSends \/ Drained \/ PeerReads
  \/ \E len \in MsgLengths : WriterTakes(len) \/ Says(len)

Spec == Init /\ [][Next]_wireVars

-----------------------------------------------------------------------------
Tasks   == {"idle", "pausing", "msg2", "keyed", "out"}
Readers == {"reads", "drains", "msg2", "activate"}
Ends    == {"no", "left", "unread", "unexpected"}

TypeOK ==
  /\ host.key \in 0 .. MaxRekeys /\ peer.key \in 0 .. MaxRekeys
  /\ host.task \in Tasks /\ peer.reader \in Readers /\ {host.ended, peer.ended} \subseteq Ends
  /\ host.queued \in 0 .. MaxSends /\ host.rekeys \in 0 .. MaxRekeys

(* Every message is cut into several frames that fit, or sent as one, and is    *)
(* put together again from them, in either framing (wire.py, _fragment).       *)
CutFits ==
  \A how \in {"flags", "legacy"}, len \in 1 .. MaxMessage :
    LET m  == App(1, len)
        fs == Frames(m, how)
        read[i \in 0 .. Len(fs)] ==
          IF i = 0 THEN [buf |-> NoBuf, out |-> Nothing]
          ELSE Decode([buf |-> read[i - 1].buf, key |-> 0], [key |-> 0, plain |-> fs[i]])
    IN  /\ \A i \in DOMAIN fs : SizeOf(fs[i]) <= FrameSize
        /\ \A i \in 0 .. Len(fs) - 1 : read[i].out = Nothing
        /\ read[Len(fs)].out = m

(* What each side reads is what the other sent, whole and in order, whatever    *)
(* tasks send and however often the session is replaced between two frames     *)
(* (wire.py, EncryptedWebSocket).                                              *)
ReadsInOrder == IsPrefix(host.heard, peer.sent) /\ IsPrefix(peer.heard, host.sent)

(* No frame fails to authenticate and no fragment comes amiss in spite of the   *)
(* swaps, and after message 1 the client gets the activation before anything    *)
(* else. Only a goodbye, which does not wait for the exchange, can be read      *)
(* before the server has swapped.                                              *)
Readable ==
  /\ peer.ended \notin {"unread", "unexpected"}
  /\ host.ended = "unread" => peer.leaving

(* A client that keeps the quiet period is not flagged for what it sent before  *)
(* message 1 reached it (connection.py, _flag_message_before_activate).          *)
QuietKept == host.flagged => peer.leaving

(* When nothing is on its way and nobody is about to move, both sides have the   *)
(* same session, the writer runs and the client's senders are let through.      *)
Quiet ==
  /\ Open /\ down = <<>> /\ up = <<>> /\ host.line = <<>> /\ peer.line = <<>>
  /\ host.task \in {"idle", "msg2"} /\ ~host.routed
  /\ peer.reader \in {"reads", "activate"} /\ peer.turns = <<>>

RekeySettles ==
  Quiet => /\ host.key = peer.key /\ host.task = "idle" /\ ~host.paused
           /\ peer.reader = "reads" /\ ~peer.exchange /\ ~host.awaiting
=============================================================================
