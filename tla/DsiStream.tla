----------------------------- MODULE DsiStream -----------------------------
(***************************************************************************)
(* The byte stream of one DSI session: the read-ahead buffer, the framing  *)
(* of requests, the payload of FPWrite through buffer, splice and recv,    *)
(* replies that are sent in one piece or streamed, the reading that breaks *)
(* up a blocked write, and the notices the main loop sends in between      *)
(* (libatalk/dsi/dsi_stream.c, dsi_write.c, dsi_read.c, and the loop of    *)
(* etc/afpd/afp_dsi.c).                                                    *)
(*                                                                         *)
(* A byte is a token that knows what it is: h, c and d for the header, the *)
(* command block and the data of request i, r for its reply and n for a    *)
(* notice of the server, each with its place.  A header is two tokens.     *)
(* The client sends a fixed script of requests, as far as the socket takes *)
(* them; an eager one reads no reply before all are sent.  The server sees *)
(* only how many tokens there are and the sizes in the header.             *)
(***************************************************************************)
EXTENDS Integers, Sequences, FiniteSets, SequencesExt, FiniteSetsExt

CONSTANTS StBuffer,   \* the size of the read-ahead buffer
          StRecv,     \* bytes dsi_buffered_stream_read asks for at once
          StSocket,   \* bytes a socket holds in each direction
          StQuantum,  \* bytes of one piece of a streamed read or a write
          StSplice,   \* splice_size
          StConfigs   \* the scripts and faults the runs start from

VARIABLE st
stVars == <<st>>

HeaderLen == 2
NoteLen == 2

Run(kind, i, n) == [j \in 1..n |-> <<kind, i, j>>]
RequestBytes(q, i) == Run("h", i, HeaderLen) \o Run("c", i, 1) \o Run("d", i, q.d)
ReplyBytes(q, i) == Run("r", i, HeaderLen + q.r)
Script(s) == s.cf.script
AllRequests(script) ==
    FlattenSeq([i \in 1..Len(script) |-> RequestBytes(script[i], i)])

\* in_write counts the writes under way; rd and tx are the read and the send
\* in progress, with the places to go on at.
NoRead == [need |-> 0, got |-> <<>>, then |-> "none", fail |-> "none"]
NoSend == [left |-> <<>>, sent |-> 0, nowait |-> 0, then |-> "none", fail |-> "none"]

\* A connection on which the client is about to send the script of cf.
Connected(cf) ==
    [cf |-> cf, unsent |-> AllRequests(cf.script), c2s |-> <<>>, s2c |-> <<>>,
     got |-> <<>>, open |-> 1, buf |-> <<>>, start |-> 0, pc |-> "top",
     rd |-> NoRead, tx |-> NoSend, cur |-> 0, size |-> 0, err |-> 0,
     file |-> <<>>, ok |-> {}, in_write |-> 0, notes |-> 0]

StInit == \E cf \in StConfigs : st = Connected(cf)

Spend(s, what) == [s EXCEPT !.cf[what] = @ - 1]
Least(a, b) == IF a < b THEN a ELSE b
Go(s, pc) == [s EXCEPT !.pc = pc, !.rd = NoRead, !.tx = NoSend]

(***************************************************************************)
(* The read-ahead buffer.                                                  *)
(***************************************************************************)
\* Space behind the bytes: what was taken from the front is free only when
\* the buffer runs empty.
Space(s) == StBuffer - s.start - Len(s.buf)

\* The first n bytes leave the buffer.
Taken(s, n) ==
    IF n = Len(s.buf) THEN [s EXCEPT !.buf = <<>>, !.start = 0]
    ELSE [s EXCEPT !.buf = SubSeq(@, n + 1, Len(@)), !.start = @ + n]

\* The next n bytes of the socket, and the rest of it.
Arrived(s, n) == SubSeq(s.c2s, 1, n)
Received(s, n) == [s EXCEPT !.c2s = SubSeq(@, n + 1, Len(@))]

\* recv into the buffer, up to n bytes and the space there is.
Ahead(s, n) ==
    LET k == Least(Least(n, Space(s)), Len(s.c2s))
    IN  [Received(s, k) EXCEPT !.buf = @ \o Arrived(s, k)]

from_buf(s, n) ==
    [Taken(s, n) EXCEPT !.rd.got = @ \o SubSeq(s.buf, 1, n), !.rd.need = @ - n]

Reading(s, n, then, fail) ==
    [s EXCEPT !.pc = "read", !.tx = NoSend,
              !.rd = [need |-> n, got |-> <<>>, then |-> then, fail |-> fail]]

Sending(s, bytes, then, fail) ==
    [s EXCEPT !.pc = "send", !.rd = NoRead,
              !.tx = [left |-> bytes, sent |-> 0, nowait |-> 0, then |-> then, fail |-> fail]]

\* The connection is gone; the session waits for a reconnect or ends.
dsi_disconnect(s) == [Go(s, "off") EXCEPT !.open = 0]

(***************************************************************************)
(* dsi_stream_read and buf_read: the buffer before the socket.             *)
(***************************************************************************)
dsi_stream_read ==
    /\ st.pc = "read"
    /\ \/ /\ st.rd.need = 0
          /\ st' = [st EXCEPT !.pc = st.rd.then]
       \/ /\ st.rd.need > 0
          /\ st.buf # <<>>
          /\ st' = from_buf(st, Least(st.rd.need, Len(st.buf)))
       \/ /\ st.rd.need > 0
          /\ st.buf = <<>>
          /\ st.c2s # <<>>
          /\ \E n \in {1, Least(st.rd.need, Len(st.c2s))} :
                st' = [Received(st, n) EXCEPT !.rd.got = @ \o Arrived(st, n), !.rd.need = @ - n]
       \/ /\ st.rd.need > 0
          /\ st.buf = <<>>
          /\ st.c2s = <<>>
          /\ st.open = 0
          /\ st' = [st EXCEPT !.pc = st.rd.fail, !.rd = NoRead]

\* dsi_wait_input gives the client up, in a read or a splice.
dsi_wait_input ==
    /\ st.cf.stalls > 0
    /\ \/ st.pc = "read" /\ st.rd.need > 0
       \/ st.pc = "w_splice" /\ st.size > 0
    /\ st.buf = <<>> \/ st.pc = "w_splice"
    /\ st.c2s = <<>>
    /\ st' = Spend(dsi_disconnect(st), "stalls")

(***************************************************************************)
(* dsi_stream_write, dsi_stream_send and dsi_stream_read_file: pieces as   *)
(* the socket takes them.  A full socket is waited for in dsi_peek, which  *)
(* reads ahead meanwhile.                                                  *)
(***************************************************************************)
Room(s) == StSocket - Len(s.s2c)

dsi_peek ==
    /\ st.pc = "send"
    /\ Room(st) = 0
    /\ st.tx.left # <<>>
    /\ st.tx.nowait = 0 \/ st.tx.sent > 0
    /\ \/ /\ st.open = 1
          /\ Space(st) > 0
          /\ st.c2s # <<>>
          /\ st' = Ahead(st, Space(st))
       \/ /\ st.open = 0
          /\ st' = [st EXCEPT !.pc = st.tx.fail, !.tx = NoSend]

dsi_stream_write ==
    /\ st.pc = "send"
    /\ \/ /\ st.tx.left = <<>>
          /\ st' = [st EXCEPT !.pc = st.tx.then, !.tx = NoSend]
       \/ /\ st.tx.left # <<>>
          /\ st.open = 1
          /\ Room(st) > 0
          /\ \E n \in {1, Least(Len(st.tx.left), Room(st))} :
                st' = [st EXCEPT !.s2c = @ \o SubSeq(st.tx.left, 1, n), !.tx.sent = @ + n,
                                 !.tx.left = SubSeq(@, n + 1, Len(@))]
       \/ /\ st.tx.left # <<>>
          /\ st.open = 0
          /\ st' = [st EXCEPT !.pc = st.tx.fail, !.tx = NoSend]
       \/ /\ st.tx.left # <<>>
          /\ Room(st) = 0
          /\ st.tx.nowait = 1
          /\ st.tx.sent = 0
          /\ st' = [st EXCEPT !.pc = st.tx.fail, !.tx = NoSend]

(***************************************************************************)
(* The main loop: notices, the two looks at the buffer, poll.              *)
(***************************************************************************)
\* dsi_attention and dsi_tickle: nothing while a write is under way.
dsi_attention(s, then) ==
    IF s.in_write > 0 THEN Go(s, then)
    ELSE [Sending(s, Run("n", s.notes + 1, NoteLen), then, then) EXCEPT
             !.notes = @ + 1, !.tx.nowait = 1]

\* [A0] the recorded signals, which also end the poll, [A] bytes the buffer
\* already has.
process_deferred_signals ==
    \/ /\ st.pc \in {"top", "poll"}
       /\ st.cf.signals > 0
       /\ st' = Spend(dsi_attention(st, "top"), "signals")
    \/ /\ st.pc = "top"
       /\ st' = Go(st, IF st.buf # <<>> THEN "receive" ELSE "due")

\* afp_dsi_die: the attention and the close of dsi_close, neither after an
\* unfinished reply.
afp_dsi_die ==
    /\ \/ st.pc \in {"top", "poll"} /\ st.cf.terms > 0
       \/ st.pc = "die"
    /\ st' = LET s == IF st.pc # "die" THEN Spend(st, "terms") ELSE st
                 n == dsi_attention(s, "lost_connection")
             IN  IF s.in_write > 0 THEN dsi_disconnect(s)
                 ELSE [n EXCEPT !.tx.nowait = 0]

\* The mutant: the buffer is not looked at again.
flushvoltime_blind ==
    /\ st.pc = "due"
    /\ \/ /\ st.cf.dues > 0
          /\ st' = Spend(dsi_attention(st, "poll"), "dues")
       \/ st' = Go(st, "poll")

\* flushvoltime can send an attention, and that can read ahead.
flushvoltime ==
    \/ /\ st.pc = "due"
       /\ \/ /\ st.cf.dues > 0
             /\ st' = Spend(dsi_attention(st, "looked"), "dues")
          \/ st' = Go(st, "looked")
    \/ /\ st.pc = "looked"
       /\ st' = Go(st, IF st.buf # <<>> THEN "receive" ELSE "poll")

\* poll ends with input or the end of the connection.
poll ==
    /\ st.pc = "poll"
    /\ st.c2s # <<>> \/ st.open = 0
    /\ st' = Go(st, "receive")

(***************************************************************************)
(* dsi_stream_receive and the dispatch.                                    *)
(***************************************************************************)
\* A whole header from the buffer, else one recv into the buffer and the
\* rest through dsi_stream_read.
dsi_buffered_stream_read ==
    /\ st.pc = "receive"
    /\ LET s == Reading(st, HeaderLen, "header", "lost_connection")
           s1 == IF st.buf = <<>> THEN s ELSE from_buf(s, Least(HeaderLen, Len(st.buf)))
       IN  IF s1.rd.need = 0 THEN st' = [s1 EXCEPT !.pc = "header"]
           ELSE st' \in {Ahead(s1, StRecv), Ahead(s1, 1), s1}

\* The sizes of the header.  Tokens that are not a header are the stream out
\* of step; the server would take any two for one.
dsi_stream_receive ==
    /\ st.pc = "header"
    /\ LET i == st.rd.got[1][2]
           q == Script(st)[i]
           good == st.rd.got = Run("h", i, HeaderLen)
           s == [st EXCEPT !.cur = i, !.err = 0]
       IN  IF ~good THEN st' = Go(st, "garbled")
           ELSE IF q.bad = 1 THEN st' = dsi_disconnect(s)
           ELSE st' = Reading(s, 1, q.op, "lost_connection")

\* cmd 0 of dsi_stream_receive, a reply that could not be sent.
lost_connection ==
    /\ st.pc = "lost_connection"
    /\ st' = dsi_disconnect(st)

Reply(s, i) == Sending(s, ReplyBytes(Script(s)[i], i), "top", "lost_connection")

\* A command with its reply in one piece.
dsi_cmdreply ==
    /\ st.pc = "cmd"
    /\ st' = Reply(st, st.cur)

(***************************************************************************)
(* A streamed read: in_write is raised over all pieces, and stays so when  *)
(* the reply breaks off.                                                   *)
(***************************************************************************)
\* dsi_readinit, or the header block of dsi_stream_read_file: the header and
\* the first piece.
dsi_readinit ==
    /\ st.pc = "read_fork"
    /\ LET all == ReplyBytes(Script(st)[st.cur], st.cur)
           n == Least(HeaderLen + StQuantum, Len(all))
       IN  st' = [Sending(st, SubSeq(all, 1, n), "read_more", "read_exit") EXCEPT
                     !.in_write = @ + 1, !.size = Len(all) - n]

\* The file can have shrunk, or a read fail, before the next piece.
dsi_read ==
    /\ st.pc = "read_more"
    /\ LET all == ReplyBytes(Script(st)[st.cur], st.cur)
           n == Least(StQuantum, st.size)
           at == Len(all) - st.size
       IN  \/ /\ st.size = 0
              /\ st' = [Go(st, "top") EXCEPT !.in_write = @ - 1]
           \/ /\ st.size > 0
              /\ st' = [Sending(st, SubSeq(all, at + 1, at + n), "read_more", "read_exit")
                           EXCEPT !.size = @ - n]
           \/ /\ st.size > 0
              /\ st.cf.fails > 0
              /\ st' = Spend(Go(st, "read_exit"), "fails")

\* The mutant: the count goes down on the error path too.
afp_read_exit_lowered ==
    /\ st.pc = "read_exit"
    /\ st' = [Go(st, "die") EXCEPT !.size = 0, !.in_write = @ - 1]

afp_read_exit ==
    /\ st.pc = "read_exit"
    /\ st' = [Go(st, "die") EXCEPT !.size = 0]

(***************************************************************************)
(* The payload of a write.                                                 *)
(***************************************************************************)
\* The outcomes of writing bytes to the file: all, or a part and an error.
Written(s, bytes, good) ==
    {Go([s EXCEPT !.file = @ \o bytes], good)} \cup
    (IF s.cf.fails = 0 \/ bytes = <<>> THEN {}
     ELSE {Go([Spend(s, "fails") EXCEPT !.file = @ \o SubSeq(bytes, 1, n), !.err = 1], "flush")
              : n \in {0, Len(bytes) - 1}})

\* The mutant: the bytes the buffer had are counted twice.
dsi_writeinit_whole(s) ==
    LET n == Least(Len(s.buf), Script(s)[s.cur].d)
        s1 == IF s.buf = <<>> THEN s ELSE Taken(s, n)
    IN  [s |-> [s1 EXCEPT !.size = Script(s)[s.cur].d], got |-> SubSeq(s.buf, 1, n)]

dsi_writeinit(s) ==
    LET n == Least(Len(s.buf), Script(s)[s.cur].d)
        s1 == IF s.buf = <<>> THEN s ELSE Taken(s, n)
    IN  [s |-> [s1 EXCEPT !.size = Script(s)[s.cur].d - n], got |-> SubSeq(s.buf, 1, n)]

\* A refused write is drained, another starts with what the buffer has.
write_fork ==
    /\ st.pc = "write"
    /\ LET w == dsi_writeinit(st)
       IN  IF Script(st)[st.cur].refused = 1
           THEN st' = Go([w.s EXCEPT !.err = 1], "flush")
           ELSE st' \in Written(w.s, w.got, IF st.cf.splice = 1 THEN "w_splice" ELSE "w_recv")

\* One round of splice: socket to pipe to file.  A file that refuses splice
\* gets the round by copy and the rest by recv, as at an urgent mark.
dsi_write_file ==
    /\ st.pc = "w_splice"
    /\ \/ /\ st.size = 0
          /\ st' = Go(st, "w_recv")
       \/ /\ st.size > 0
          /\ st.c2s # <<>>
          /\ \E n \in {1, Least(Least(st.size, StSplice), Len(st.c2s))} :
                st' \in Written([Received(st, n) EXCEPT !.size = @ - n], Arrived(st, n), "w_splice")
       \/ /\ st.size > 0
          /\ st.c2s # <<>>
          /\ st.cf.nosplice > 0
          /\ \/ st' = Spend(Go(st, "w_recv"), "nosplice")
             \/ st' \in Written(Spend([Received(st, 1) EXCEPT !.size = @ - 1], "nosplice"),
                                Arrived(st, 1), "w_recv")
       \/ /\ st.size > 0
          /\ st.c2s = <<>>
          /\ st.open = 0
          /\ st' = Go([st EXCEPT !.err = 1], "flush")

\* The rest in pieces through dsi_stream_read.
dsi_write ==
    /\ st.pc = "w_recv"
    /\ st' = IF st.size = 0 THEN Go(st, "w_reply")
             ELSE Reading(st, Least(StQuantum, st.size), "w_piece", "w_eof")

write_piece ==
    /\ st.pc = "w_piece"
    /\ st' \in Written([st EXCEPT !.size = @ - Len(st.rd.got)], st.rd.got, "w_recv")

write_eof ==
    /\ st.pc = "w_eof"
    /\ st' = Go([st EXCEPT !.err = 1], "flush")

\* The mutant: the reply goes out with the payload still in the socket.
dsi_writeflush_none ==
    /\ st.pc = "flush"
    /\ st' = Go(st, "w_reply")

\* What the error left of the payload is read and dropped.
dsi_writeflush ==
    /\ st.pc = "flush"
    /\ st' = IF st.size = 0 THEN Go(st, "w_reply")
             ELSE Reading(st, Least(StQuantum, st.size), "flushed", "w_reply")

flushed ==
    /\ st.pc = "flushed"
    /\ st' = Go([st EXCEPT !.size = @ - Len(st.rd.got)], "flush")

dsi_wrtreply ==
    /\ st.pc = "w_reply"
    /\ st' = [Reply(st, st.cur) EXCEPT !.size = 0,
                                       !.ok = IF st.err = 0 THEN @ \cup {st.cur} ELSE @]

(***************************************************************************)
(* The client.                                                             *)
(***************************************************************************)
ClientSend ==
    /\ st.open = 1
    /\ st.unsent # <<>>
    /\ Len(st.c2s) < StSocket
    /\ st' = [st EXCEPT !.c2s = Append(@, Head(st.unsent)), !.unsent = Tail(@)]

ClientRead ==
    /\ st.s2c # <<>>
    /\ st.cf.eager = 1 => st.unsent = <<>> \/ st.open = 0
    /\ st' = [st EXCEPT !.got = @ \o st.s2c, !.s2c = <<>>]

ClientClose ==
    /\ st.cf.drops > 0
    /\ st.open = 1
    /\ st' = [Spend(st, "drops") EXCEPT !.open = 0, !.unsent = <<>>]

\* All requests are answered and read, or the session is over.
Done ==
    /\ st.pc = "poll" \/ st.pc = "off" \/ st.pc = "garbled"
    /\ (st.c2s = <<>> /\ st.buf = <<>>) \/ st.pc # "poll"
    /\ st.unsent = <<>> \/ st.open = 0
    /\ st.s2c = <<>>
    /\ st.open = 0 \/ st.pc = "poll"

Server ==
    \/ dsi_stream_read \/ dsi_stream_write \/ dsi_peek \/ process_deferred_signals
    \/ flushvoltime \/ poll \/ dsi_buffered_stream_read \/ dsi_stream_receive
    \/ lost_connection \/ dsi_cmdreply \/ dsi_readinit \/ dsi_read \/ afp_read_exit
    \/ write_fork \/ dsi_write_file \/ dsi_write \/ write_piece \/ write_eof
    \/ dsi_writeflush \/ flushed \/ dsi_wrtreply

\* A session on its way out.
Dying == st.pc = "die" /\ afp_dsi_die

\* afp_dsi_die from a signal and the giving up of a silent client are not
\* owed to anybody; a session on its way out goes.
StNext == Server \/ afp_dsi_die \/ dsi_wait_input \/ ClientSend \/ ClientRead \/ ClientClose

StFair ==
    /\ WF_stVars(Server)
    /\ WF_stVars(Dying)
    /\ WF_stVars(ClientSend)
    /\ WF_stVars(ClientRead)

StSpec == StInit /\ [][StNext]_stVars /\ StFair

(***************************************************************************)
(* Properties.                                                             *)
(***************************************************************************)
\* Buffer, sockets and counts stay within their sizes.
StTypeOK ==
    /\ st.start + Len(st.buf) <= StBuffer
    /\ Len(st.c2s) <= StSocket
    /\ Len(st.s2c) <= StSocket
    /\ st.in_write \in 0..1
    /\ st.size \in Nat

\* The server takes the start of a frame for the start of a frame: whatever
\* dsi_peek read ahead during a reply, however a write's payload came in
\* (dsi_writeinit, dsi_write_file, dsi_write) and wherever it failed or was
\* refused (dsi_writeflush, dsi_writedrain), the next header is a header.
FramesInStep == st.pc # "garbled"

\* Every write's bytes are in the file in order, from the first one on with
\* none left out or repeated and none of another request between them; all
\* of them once the write is answered with success (write_fork and what it
\* calls).
FileIsWrites ==
    LET bytes(i) == SelectSeq(st.file, LAMBDA b : b[2] = i)
    IN  /\ \A p \in 1..(Len(st.file) - 1) : st.file[p][2] <= st.file[p + 1][2]
        /\ \A i \in 1..Len(Script(st)) :
               /\ \A j \in 1..Len(bytes(i)) : bytes(i)[j] = <<"d", i, j>>
               /\ i \in st.ok => Len(bytes(i)) = Script(st)[i].d

\* The client reads whole replies in the order of its requests, with notices
\* only between them, and nothing after a reply that broke off (in_write,
\* dsi_attention, dsi_close, the partial writes of dsi_stream_send).
RepliesWhole ==
    LET all == st.got \o st.s2c
        last(b) == b[3] = IF b[1] = "n" THEN NoteLen ELSE HeaderLen + Script(st)[b[2]].r
        replies == SelectSeq(all, LAMBDA b : b[1] = "r" /\ b[3] = 1)
    IN  /\ \A p \in 1..Len(all) :
               IF all[p][3] = 1 THEN p = 1 \/ last(all[p - 1])
               ELSE p > 1 /\ all[p - 1] = <<all[p][1], all[p][2], all[p][3] - 1>>
        /\ \A k \in 1..Len(replies) : replies[k][2] = k

\* Every request is answered and the answers are read, or the session ends:
\* a client that reads no reply before it has sent all its requests gets on
\* as long as the read-ahead buffer takes them (dsi_peek), and requests that
\* were read ahead during a notice are not left in the buffer while the loop
\* waits for the socket (afp_over_dsi).
AllAnswered == []<>Done
=============================================================================
