----------------------------- MODULE PapPrint -----------------------------
(***************************************************************************)
(* papd: a print session, then the listening process.  The session is the  *)
(* process of etc/papd/session.c with the pap client of bin/pap/pap.c,     *)
(* each on an ATP endpoint of module Atp, and the job behind papd, which   *)
(* the first part describes.                                               *)
(*                                                                         *)
(* The network between the two keeps the order of packets and may lose     *)
(* them; a packet takes less than the 30 seconds of a saved response and   *)
(* the minute of the tickle timers.  A body is a record: k its PAP         *)
(* function, n the sequence number of a READ, d the lines and eof the EOF  *)
(* flag of data.  The status requests pap makes while it waits change no   *)
(* state of either side and are left out.                                  *)
(***************************************************************************)
EXTENDS Atp

(***************************************************************************)
(* What papd makes of the data of a print session: the comment parser of   *)
(* etc/papd/magics.c, headers.c and queries.c, and the spooling of lp.c    *)
(* with CUPS, for a spooled printer.  A line is a token for its comment:   *)
(* q3 and a3 are "%!PS-Adobe-3.0 Query" and "%!PS-Adobe-3.0", qx and ax    *)
(* the same of another version, title to dsc the header comments, bQ to bD *)
(* the queries papd knows an answer to, with an x those it does not, e     *)
(* the end of a query, eof is "%%EOF", text anything else.                 *)
(*                                                                         *)
(* A job is a record: in and out the papfiles of the session, stack the    *)
(* comstate list, lp the struct lp_flags with its spool file, tbuf what    *)
(* lp_write holds back.  The translation of line ends, which changes no    *)
(* decision, is left out.                                                  *)
(***************************************************************************)
CONSTANTS LpHalf,   \* lines after which lp_write asks for the spool file
          LpBuffer  \* lines lp_write can hold back (BUFSIZE)

\* pf_state of a new session
NewIn == [data |-> <<>>, bot |-> 1, eof |-> 0, query |-> 0, stw |-> 0]
NewOut == [data |-> <<>>, eof |-> 0, font |-> 0]
NewLp == [init |-> 0, open |-> 0, pend |-> 0, letter |-> 0, person |-> 0, spool |-> <<>>,
          file |-> 0]

NewJob == [in |-> NewIn, out |-> NewOut, stack |-> <<>>, lp |-> NewLp, tbuf |-> <<>>,
           state |-> 0, stop |-> 0, inited |-> 0, accepts |-> 1, auth |-> "none",
           jobs |-> <<>>, ignored |-> 0, fate |-> "up"]

(***************************************************************************)
(* file.c and comment.c                                                    *)
(***************************************************************************)
append(j, l) == [j EXCEPT !.in.data = Append(@, l)]
Say(j, what) == [j EXCEPT !.out.data = Append(@, what)]
spoolreply(j) == Say(j, "processing")
spoolerror(j) == [Say(j, "error") EXCEPT !.ignored = 1]

\* eof, more for a line that is not here yet, line
markline(j) == IF j.in.data # <<>> THEN "line" ELSE IF j.in.eof = 1 THEN "eof" ELSE "more"
Line(j) == Head(j.in.data)
CONSUME(j) == [j EXCEPT !.in.data = Tail(@)]

compop(j) == [j EXCEPT !.stack = Tail(@)]
compush(j, c) == [j EXCEPT !.stack = <<[c |-> c, fl |-> 0]>> \o @]
comswitch(j, c) == compush(compop(j), c)
comsetflags(j, fl) == [j EXCEPT !.stack[1].fl = fl]
EndOut(j) == [j EXCEPT !.out.eof = 1]

(***************************************************************************)
(* lp.c                                                                    *)
(***************************************************************************)
lp_close(j) == IF j.lp.init = 0 \/ j.lp.open = 0 THEN j
               ELSE [j EXCEPT !.lp.open = 0, !.lp.pend = 1]

\* CUPS reads the spool file, if it is there and CUPS takes jobs; the file
\* goes either way.
cups_print_job(j) == IF j.lp.file = 1 /\ j.accepts = 1
                     THEN [j EXCEPT !.jobs = Append(@, j.lp.spool)] ELSE j

lp_print(j) ==
    IF j.lp.init = 0 \/ j.lp.letter = 0 THEN j
    ELSE [cups_print_job(lp_close(j)) EXCEPT !.lp.pend = 0, !.lp.file = 0, !.lp.spool = <<>>]

lp_cancel(j) == IF j.lp.init = 0 \/ j.lp.letter = 0 THEN j
                ELSE [lp_close(j) EXCEPT !.lp.file = 0, !.lp.spool = <<>>]

\* A printer that asks for a login takes the name of the afpd session on the
\* client's node (cap) or the login of this session (pssp).
lp_authenticated(j) == j.auth \in {"none", "cap"} \/ (j.auth = "pssp" /\ j.lp.person = 1)

lp_init(j) == IF ~lp_authenticated(j) \/ j.accepts = 0
              THEN [ok |-> FALSE, j |-> spoolerror(j)]
              ELSE [ok |-> TRUE, j |-> [j EXCEPT !.lp.init = 1, !.lp.open = 0, !.lp.pend = 0,
                                                 !.lp.letter = 0]]

Printed(j) == IF j.lp.pend = 1 THEN lp_print(j) ELSE j
lp_opened(i) ==
    IF ~i.ok \/ i.j.lp.open = 1 THEN [ok |-> FALSE, j |-> i.j]
    ELSE [ok |-> TRUE, j |-> [i.j EXCEPT !.lp.letter = @ + 1, !.lp.file = 1, !.lp.spool = <<>>, !.lp.open = 1]]
lp_ready(p) == IF p.lp.init = 1 THEN [ok |-> TRUE, j |-> p] ELSE lp_init(p)
lp_open(j) == lp_opened(lp_ready(Printed(j)))

\* The lines held back are forgotten.
lp_wrote_drops(p, l) ==
    IF p.lp.open = 1 THEN [p EXCEPT !.lp.spool = Append(@, l), !.tbuf = <<>>]
    ELSE IF Len(p.tbuf) + 1 > LpBuffer THEN [p EXCEPT !.fate = "abort"]
    ELSE [p EXCEPT !.tbuf = Append(@, l), !.in.stw = IF Len(p.tbuf) + 1 > LpHalf THEN 1 ELSE @]

\* Lines are held back until the spool file is open.
lp_wrote(p, l) ==
    IF p.lp.open = 1 THEN [p EXCEPT !.lp.spool = @ \o Append(p.tbuf, l), !.tbuf = <<>>]
    ELSE IF Len(p.tbuf) + 1 > LpBuffer THEN [p EXCEPT !.fate = "abort"]
    ELSE [p EXCEPT !.tbuf = Append(@, l), !.in.stw = IF Len(p.tbuf) + 1 > LpHalf THEN 1 ELSE @]
lp_write(j, l) == lp_wrote(Printed(j), l)

Write(j) == CONSUME(lp_write(j, Line(j)))

(***************************************************************************)
(* The handlers.  rc is done, more, or spin: a query whose end the data    *)
(* lacks answers "done" at the end of the data, so ps calls it for ever.   *)
(***************************************************************************)
Done(j) == [rc |-> "done", j |-> j]
More(j) == [rc |-> "more", j |-> j]
Spin(j) == [rc |-> "spin", j |-> j]

Magics(l) == CASE l = "q3" -> "cm_psquery" [] l = "a3" -> "cm_psadobe"
               [] l \in {"qx", "ax"} -> "cm_psswitch" [] OTHER -> "none"
Headers(l) == CASE l = "title" -> "ch_title" [] l = "for" -> "ch_for"
                [] l = "creator" -> "ch_creator" [] l = "endc" -> "ch_endcomm"
                [] l = "begf" -> "ch_starttranslate" [] l = "endf" -> "ch_endtranslate"
                [] l \in {"text", "q3", "a3", "qx", "ax"} -> "none"
                [] OTHER -> "ch_translateone"
Queries(l) == CASE l = "bR" -> "cq_rbilogin" [] l \in {"bQ", "bQx"} -> "cq_query"
                [] l \in {"bF", "bFx"} -> "cq_feature" [] l = "bN" -> "cq_font"
                [] l = "bL" -> "cq_fontlist" [] l \in {"bP", "bPx"} -> "cq_printer"
                [] l = "bD" -> "cq_default" [] l = "eof" -> "cq_end" [] OTHER -> "none"

RECURSIVE cm_psquery(_)
cm_psquery(j) ==
    LET m == markline(j)
    IN  CASE j.in.query = 1 -> Done(compop(j))
          [] j.in.query = 0 /\ m = "eof" -> Done(compop(EndOut(j)))
          [] j.in.query = 0 /\ m = "more" -> More(spoolreply(j))
          [] j.in.query = 0 /\ m = "line" ->
                 IF j.in.bot = 1 THEN cm_psquery(CONSUME([j EXCEPT !.in.bot = 0]))
                 ELSE IF Queries(Line(j)) # "none" THEN Done(compush(j, Queries(Line(j))))
                 ELSE cm_psquery(CONSUME(j))

RECURSIVE cm_psadobe(_)
cm_psadobe(j) ==
    LET m == markline(j)
    IN  CASE m = "eof" -> Done(compop(EndOut(j)))
          [] m = "more" -> More(j)
          [] m = "line" ->
                 IF j.in.bot = 1 THEN cm_psadobe(Write([j EXCEPT !.in.bot = 0]))
                 ELSE IF Headers(Line(j)) # "none" THEN Done(compush(j, Headers(Line(j))))
                 ELSE cm_psadobe(Write(j))

Switched(k) ==
    CASE markline(k) = "eof" -> Done(compop(EndOut(k)))
      [] markline(k) = "more" -> More(k)
      [] markline(k) = "line" -> Done(comswitch(k, IF Line(k) = "qx" THEN "cm_psquery" ELSE "cm_psadobe"))
cm_psswitch(j) == Switched([j EXCEPT !.in.query = 0])

\* A header comment is written like any other line; its handler runs only
\* with the line there.
ch_title(j) == Done(compop(Write(j)))
ch_for(j) == Done(compop(Write(j)))
ch_creator(j) == Done(compop(Write(j)))
ch_endcomm(j) == Done(compop(Write([j EXCEPT !.in.stw = 1])))
ch_starttranslate(j) == Done(compop(Write(j)))
ch_endtranslate(j) == Done(compop(Write(j)))
ch_translateone(j) == Done(compop(Write(j)))

\* A query handler answers on the first line of its query or leaves it to
\* cq_default, skips the other lines and takes itself off at the end line.
EndQuery(j) == CONSUME(compop(j))
NoLine(j) == IF markline(j) = "eof" THEN Spin(j) ELSE More(j)
AtFirst(j) == markline(j) = "line" /\ j.stack[1].fl = 0

RECURSIVE Skip(_)
Skip(j) == IF markline(j) = "line" /\ Line(j) # "e" THEN Skip(CONSUME(j)) ELSE j

QuerySkipped(j, r, AtEnd(_)) ==
    IF markline(j) # "line" THEN NoLine(j)
    ELSE IF markline(r) # "line" THEN NoLine(r) ELSE Done(AtEnd(r))
Query(j, answered, AtEnd(_)) ==
    QuerySkipped(j, Skip(IF AtFirst(j) THEN CONSUME(comsetflags(answered, 1)) ELSE j), AtEnd)

OrDefault(j, known, answered) ==
    IF AtFirst(j) /\ Line(j) # known THEN Done(comswitch(j, "cq_default"))
    ELSE Query(j, answered, EndQuery)

cq_default(j) == Query(j, j, LAMBDA k : EndQuery(Say(k, "default")))
cq_query(j) == OrDefault(j, "bQ", Say(j, "answer"))
cq_feature(j) == OrDefault(j, "bF", Say(j, "value"))
cq_printer(j) == OrDefault(j, "bP", Say(j, "product"))
cq_font(j) == Query(j, Say(j, "yesno"), LAMBDA k : EndQuery(Say(k, "star")))
cq_fontlist(j) == Query(j, [Say(Say(j, "font"), "star") EXCEPT !.out.font = 1], EndQuery)
\* The login names the person; the end line is left for cm_psquery.
cq_rbilogin(j) == Query(j, [Say(j, "login") EXCEPT !.lp.person = 1], compop)
cq_end(j) == Done(CONSUME(compop([j EXCEPT !.in.query = 1])))

Handler(j) ==
    LET c == j.stack[1].c
    IN  CASE c = "cm_psquery" -> cm_psquery(j) [] c = "cm_psadobe" -> cm_psadobe(j)
          [] c = "cm_psswitch" -> cm_psswitch(j)
          [] c = "ch_title" -> ch_title(j) [] c = "ch_for" -> ch_for(j)
          [] c = "ch_creator" -> ch_creator(j) [] c = "ch_endcomm" -> ch_endcomm(j)
          [] c = "ch_starttranslate" -> ch_starttranslate(j)
          [] c = "ch_endtranslate" -> ch_endtranslate(j)
          [] c = "ch_translateone" -> ch_translateone(j)
          [] c = "cq_default" -> cq_default(j) [] c = "cq_query" -> cq_query(j)
          [] c = "cq_feature" -> cq_feature(j) [] c = "cq_font" -> cq_font(j)
          [] c = "cq_fontlist" -> cq_fontlist(j) [] c = "cq_printer" -> cq_printer(j)
          [] c = "cq_rbilogin" -> cq_rbilogin(j) [] c = "cq_end" -> cq_end(j)

(***************************************************************************)
(* magics.c: ps runs over the data that is here.                           *)
(***************************************************************************)
\* The spool file is wanted: open it, and tell the client of a failure unless
\* this session has opened one before.
SpoolOpened(o, state) == [IF o.ok \/ state = 1 THEN o.j ELSE spoolerror(o.j) EXCEPT !.state = 1]
StartWriting(j) == IF j.in.stw = 0 THEN j ELSE SpoolOpened(lp_open([j EXCEPT !.in.stw = 0]), j.state)

Go(j) == [go |-> TRUE, j |-> j]
Return(j) == [go |-> FALSE, j |-> j]

\* A line nobody has a handler for: before the magic line it is dropped.
NoHandler(j) ==
    CASE markline(j) = "eof" -> Return(lp_close(EndOut(j)))
      [] markline(j) = "more" -> Return(spoolreply(j))
      [] markline(j) = "line" ->
             IF j.in.bot = 0 THEN Go(Write(j))
             ELSE IF Magics(Line(j)) = "none" THEN Go(CONSUME(j))
             ELSE Go(compush(j, Magics(Line(j))))

Handled(h) ==
    CASE h.rc = "done" -> Go(h.j)
      [] h.rc = "more" -> Return(h.j)
      [] h.rc = "spin" -> Return([h.j EXCEPT !.fate = "spin"])

\* One round of the loop of ps.
RoundIn(k) == IF k.stack = <<>> THEN NoHandler(k) ELSE Handled(Handler(k))
AtTop(s) == [s EXCEPT !.in.bot = IF s.in.query = 1 THEN 1 ELSE @]
Round(j) ==
    IF j.fate # "up" THEN Return(j)
    ELSE IF j.stop = 1 THEN Return([lp_close(EndOut(spoolerror(j))) EXCEPT !.fate = "stopped"])
    ELSE RoundIn(AtTop(StartWriting([j EXCEPT !.inited = 1])))

RECURSIVE ps(_)
Rounds(r) == IF r.go THEN ps(r.j) ELSE r.j
ps(j) == Rounds(Round(j))

-----------------------------------------------------------------------------
CONSTANTS PapConfigs,   \* records: files, auth, noeof, and how often what happens
          PapQuantum,   \* packets of one data response
          PapTries,     \* atp_sreqtries of the CLOSE request
          PapIdleLimit, \* select timeouts after which either side gives up
          PapWire       \* packets on their way, for a request to be sent again

VARIABLE pp   \* both processes and the network

Body(k, n, d, eof) == [k |-> k, n |-> n, d |-> d, eof |-> eof]

\* The packets of one send, in the order of their sequence numbers.
InOrder(out) ==
    LET num(p) == Min(p.bm \cup {AtpResponses})
    IN  [i \in 1..Cardinality(out) |->
            CHOOSE p \in out : Cardinality({q \in out : num(q) < num(p)}) = i - 1]

SrvSends(s, r) == IF s.cli \in {"exit0", "exit1"} THEN [s EXCEPT !.h = r.h]
                  ELSE [s EXCEPT !.h = r.h, !.toC = @ \o InOrder(r.out)]
CliSends(s, r) == IF s.srv = "end" THEN [s EXCEPT !.c = r.h]
                  ELSE [s EXCEPT !.c = r.h, !.toS = @ \o InOrder(r.out)]

(***************************************************************************)
(* papd: session().                                                        *)
(***************************************************************************)
SrvReads(s) ==
    [SrvSends(s, atp_sreq(s.h, "atp", 1, PapQuantum, 1, Infinite, Body("read", s.seq + 1, <<>>, 0)))
     EXCEPT !.seq = @ + 1]

\* The process exits: its endpoint is gone and so is what is on its way there.
SrvEnds(s) == [s EXCEPT !.srv = "end", !.h = atp_close(@), !.toS = <<>>, !.pending = 0, !.t = 0]

\* CLOSE in the middle of a file cancels the job, else what waits is printed.
SrvClose(s) ==
    LET done == s.j.in.bot = 1 \/ (s.j.in.data = <<>> /\ s.j.in.eof = 1)
        k == [s EXCEPT !.j = IF done THEN lp_print(@) ELSE lp_cancel(@)]
    IN  SrvEnds(SrvSends(k, atp_sresp(k.h, "atp", <<Body("closed", 0, <<>>, 0)>>)))

SrvRequest(s, b) ==
    CASE b.k = "read" -> IF b.n # s.rseq THEN s ELSE [s EXCEPT !.rseq = @ + 1, !.pending = 1]
      [] b.k = "close" -> SrvClose(s)
      [] b.k = "tickle" -> s

\* A complete response is appended and parsed, and the next one asked for.
Parsed(k) ==
    CASE k.j.fate = "up" -> SrvReads(k)
      [] k.j.fate = "spin" -> [k EXCEPT !.srv = "spin", !.toS = <<>>]
      [] k.j.fate \in {"stopped", "abort"} -> SrvEnds(k)
SrvLines(s, lines, eof) ==
    Parsed([s EXCEPT !.j = ps([@ EXCEPT !.in.data = @ \o lines, !.in.eof = IF eof = 1 THEN 1 ELSE @]),
                     !.got = @ \o lines \o (IF eof = 1 THEN <<"EOF">> ELSE <<>>)])
SrvData(s, bodies) == SrvLines(s, FlattenSeq([i \in 1..Len(bodies) |-> bodies[i].d]), bodies[1].eof)

\* What papd has to say goes out when pap has asked for it: a font list line
\* by line, anything else at once.  The EOF starts both files anew.
SrvFlush(s) ==
    LET o == s.j.out
        font == o.font = 1
        d == IF font THEN <<Head(o.data)>> ELSE o.data
        rest == IF font THEN Tail(o.data) ELSE <<>>
        eof == IF font THEN (IF Len(o.data) = 1 THEN 1 ELSE 0) ELSE o.eof
        k == [s EXCEPT !.pending = 0,
                       !.j.out = IF eof = 1 THEN NewOut ELSE [o EXCEPT !.data = rest],
                       !.j.in = IF eof = 1 THEN [NewIn EXCEPT !.data = s.j.in.data] ELSE @]
    IN  IF s.srv # "up" \/ s.pending = 0 \/ (o.data = <<>> /\ o.eof = 0) THEN s
        ELSE SrvSends(k, atp_sresp(k.h, "atp", <<Body("data", 0, d, eof)>>))

\* One pass of the loop with a datagram p: late says that the request of papd
\* has gone unanswered for its retry time when atp_rsel is called.
SrvAnswer(s, g) == SrvData([s EXCEPT !.h = g.h], g.bodies)
SrvAsked(s, q) == SrvRequest([s EXCEPT !.h = [@ EXCEPT !.queue = Tail(@), !.rtid = q.tid, !.rxo = q.xo]], q.body)
SrvGot(s, rc) ==
    CASE rc = "req" -> SrvAsked(s, s.h.queue[1])
      [] rc = "resp" -> SrvAnswer(s, atp_rresp(s.h))
      [] rc = "again" -> s
session_rsel(s, r) == IF r.rc = "timedout" THEN SrvEnds(SrvSends(s, r)) ELSE SrvFlush(SrvGot(SrvSends(s, r), r.rc))
session_wait(s, req, p) == session_rsel(s, atp_rsel(s.h, {"atp", "satp"}, {"req", "resp"}, req, p))
session_late(s, req, p, late) ==
    session_wait(IF req /\ late THEN SrvSends(s, resend_request(s.h)) ELSE s, req, p)
session(s, p, late) == session_late(s, Requesting(s.h, {"req", "resp"}), p, late)

\* A minute without a datagram: a tickle on the endpoint of the session, and
\* after three of them the job is cancelled.
SrvIdle(s) ==
    IF s.t > PapIdleLimit THEN SrvEnds([s EXCEPT !.j = lp_cancel(@)])
    ELSE [SrvSends(s, atp_sreq(s.h, "atp", 0, 0, 0, 1, Body("tickle", 0, <<>>, 0))) EXCEPT !.t = @ + 1]

(***************************************************************************)
(* pap: main() after the connection is open, and send_file().              *)
(***************************************************************************)
CliReads(s) ==
    [CliSends(s, atp_sreq(s.c, "sess", 1, PapQuantum, 1, Infinite, Body("read", s.cseq + 1, <<>>, 0)))
     EXCEPT !.cseq = @ + 1]

CliExits(s, rc) == [s EXCEPT !.cli = rc, !.c = atp_close(@), !.toC = <<>>, !.data = 0, !.to = 0,
                             !.chunk = <<>>]

\* The next file, or the close of the connection.
NextFile(s) ==
    IF s.f < Len(s.cfg.files)
    THEN CliReads([s EXCEPT !.f = @ + 1, !.pos = 0, !.chunk = <<>>, !.eof = 0, !.senteof = 0,
                            !.to = 0])
    ELSE [CliSends(s, atp_sreq(s.c, "sess", 1, 1, 1, PapTries, Body("close", 0, <<>>, 0)))
          EXCEPT !.cli = "close"]

\* readv takes up to a quantum of lines; nothing left is the end of file.
ReadFile(s) ==
    LET left == SubSeq(s.cfg.files[s.f], s.pos + 1, Len(s.cfg.files[s.f]))
        take == SubSeq(left, 1, Min({PapQuantum, Len(left)}))
    IN  IF left = <<>> THEN [s EXCEPT !.eof = 1]
        ELSE [s EXCEPT !.pos = @ + Len(take), !.chunk = take]

\* Whatever is pending goes to the request received last.
DataBodies(s) ==
    IF s.chunk = <<>> THEN <<Body("data", 0, <<>>, s.eof)>>
    ELSE [i \in 1..Len(s.chunk) |-> Body("data", 0, <<s.chunk[i]>>, s.eof)]
Pending(s) ==
    [CliSends(s, atp_sresp(s.c, "sess", DataBodies(s))) EXCEPT
        !.senteof = s.eof, !.data = 0, !.chunk = <<>>,
        !.sent = @ \o s.chunk \o (IF s.eof = 1 THEN <<"EOF">> ELSE <<>>)]
SendPending(s) ==
    IF s.cli # "send" \/ s.senteof = 1 \/ s.data = 0 \/ (s.chunk = <<>> /\ s.eof = 0) THEN s
    ELSE IF s.eof = 1 /\ s.cfg.noeof = 1 /\ s.f = Len(s.cfg.files) THEN NextFile(Pending(s)) ELSE Pending(s)

\* A READ is taken whatever its sequence number: the comparison with rseq is
\* compiled out.
CliRequest(s, b) ==
    CASE b.k = "read" -> [s EXCEPT !.to = 0, !.data = 1]
      [] b.k = "tickle" -> [s EXCEPT !.to = 0]

CliData(s, b) ==
    LET t == [s EXCEPT !.to = 0, !.shown = @ \o b.d]
    IN  IF b.eof = 1 THEN NextFile(t) ELSE CliReads(t)

\* The datagram of a pass of send_file.
CliAnswer(s, g) == CliData([s EXCEPT !.c = g.h], g.bodies[1])
CliAsked(s, q) == CliRequest([s EXCEPT !.c = [@ EXCEPT !.queue = Tail(@), !.rtid = q.tid, !.rxo = q.xo]], q.body)
CliGot(s, rc) ==
    CASE rc = "req" -> CliAsked(s, s.c.queue[1])
      [] rc = "resp" -> CliAnswer(s, atp_rresp(s.c))
      [] rc = "again" -> s
      [] rc = "timedout" -> CliExits(s, "exit1")
CliRsel(s, r) == CliGot(CliSends(s, r), r.rc)
CliWait(s, req, p) == CliRsel(s, atp_rsel(s.c, {"sess"}, {"req", "resp"}, req, p))
CliLate(s, req, p, late) == CliWait(IF req /\ late THEN CliSends(s, resend_request(s.c)) ELSE s, req, p)
CliReceive(s, p, late) == CliLate(s, Requesting(s.c, {"req", "resp"}), p, late)

\* The wait for the reply to CLOSE.
CliClosed(t, rc) ==
    CASE rc \in {"again", "wait"} -> t
      [] rc = "resp" -> CliExits(t, IF atp_rresp(t.c).bodies[1].k = "closed" THEN "exit0" ELSE "exit1")
      [] rc = "timedout" -> CliExits(t, "exit1")
CliCloses(s, r) == CliClosed(CliSends(s, r), r.rc)

CliTickle(s) ==
    IF s.srv = "end" THEN s
    ELSE [s EXCEPT !.toS = Append(@, [NoPacket EXCEPT !.f = "req", !.from = "satp", !.to = "sess",
                                      !.tid = s.tickles + s.idles + 1, !.body = Body("tickle", 0, <<>>, 0)])]

(***************************************************************************)
(* Actions.                                                                *)
(***************************************************************************)
PapStart(c) ==
    CliReads(SrvReads(
        [cfg |-> c, h |-> atp_open("sess", 100), c |-> atp_open("atp", 200), toS |-> <<>>, toC |-> <<>>,
         srv |-> "up", j |-> [NewJob EXCEPT !.auth = c.auth], seq |-> 0, rseq |-> 1, pending |-> 0,
         t |-> 0, cli |-> "send", f |-> 1, pos |-> 0, chunk |-> <<>>, eof |-> 0, senteof |-> 0,
         data |-> 0, to |-> 0, cseq |-> 0, shown |-> <<>>, sent |-> <<>>, got |-> <<>>,
         tickles |-> 0, idles |-> 0, lost |-> 0, flaps |-> 0]))

PapInit == \E c \in PapConfigs : pp = PapStart(c)

\* A request is sent again only while its copy is not on the wire already.
Again(h, wire) == IF Len(wire) < PapWire /\ \A i \in 1..Len(wire) : wire[i].tid # h.req.tid
                  THEN BOOLEAN ELSE {FALSE}

PapdReceives ==
    /\ pp.srv = "up" /\ pp.toS # <<>>
    /\ \E late \in Again(pp.h, pp.toC) :
           LET s == IF Queued(pp.h, {"atp", "satp"}, {"req", "resp"}) # 0 THEN pp
                    ELSE [pp EXCEPT !.toS = Tail(@)]
           IN  pp' = session([s EXCEPT !.t = 0], Head(pp.toS), late)

PapdIdle ==
    /\ pp.srv = "up" /\ pp.toS = <<>> /\ pp.idles < pp.cfg.idle
    /\ pp' = [SrvIdle(pp) EXCEPT !.idles = @ + 1]

\* SIGTERM: with its handler in place ps sees the flag, before that it kills.
PapdTerm ==
    /\ pp.srv = "up" /\ pp.cfg.stop = 1 /\ pp.j.stop = 0
    /\ pp' = IF pp.j.inited = 1 THEN [pp EXCEPT !.j.stop = 1] ELSE SrvEnds(pp)

\* The queue of the printer is disabled or enabled again.
PapdQueue ==
    /\ pp.flaps < pp.cfg.flap /\ pp.srv = "up"
    /\ pp' = [pp EXCEPT !.j.accepts = 1 - @, !.flaps = @ + 1]

\* One pass of send_file with the file, the endpoint or both readable.
PapPass ==
    /\ pp.cli = "send"
    /\ \E file, net \in BOOLEAN :
           /\ file \/ net
           /\ file => pp.eof = 0 /\ pp.chunk = <<>>
           /\ net => pp.toC # <<>>
           /\ LET s == IF file THEN ReadFile(pp) ELSE pp
                  u == IF Queued(s.c, {"sess"}, {"req", "resp"}) # 0 THEN s ELSE [s EXCEPT !.toC = Tail(@)]
              IN  \E late \in Again(s.c, s.toS) :
                      pp' = SendPending(IF net THEN CliReceive(u, Head(s.toC), late) ELSE s)

PapTickle ==
    /\ pp.cli = "send" /\ pp.tickles < pp.cfg.tickles
    /\ pp' = [CliTickle(pp) EXCEPT !.tickles = @ + 1]

\* A minute without anything to do ends in a tickle, or in giving up.
PapIdle ==
    /\ pp.cli = "send" /\ pp.toC = <<>> /\ pp.idles < pp.cfg.idle
    /\ pp.eof = 1 \/ pp.chunk # <<>>
    /\ pp' = IF pp.to > PapIdleLimit THEN CliExits(pp, "exit1")
             ELSE [CliTickle(pp) EXCEPT !.idles = @ + 1, !.to = @ + 1]

PapCloseReceives ==
    /\ pp.cli = "close" /\ pp.toC # <<>>
    /\ LET u == IF Queued(pp.c, {"sess"}, {"resp"}) # 0 THEN pp ELSE [pp EXCEPT !.toC = Tail(@)]
       IN  pp' = CliCloses(u, atp_rsel(pp.c, {"sess"}, {"resp"}, Requesting(pp.c, {"resp"}), Head(pp.toC)))

PapCloseTimeout ==
    /\ pp.cli = "close" /\ pp.toC = <<>> /\ pp.toS = <<>>
    /\ Requesting(pp.c, {"resp"})
    /\ pp' = CliCloses(pp, atp_rsel_timeout(pp.c))

PapLoses ==
    /\ pp.lost < pp.cfg.lose
    /\ \/ pp.toS # <<>> /\ pp' = [pp EXCEPT !.toS = Tail(@), !.lost = @ + 1]
       \/ pp.toC # <<>> /\ pp' = [pp EXCEPT !.toC = Tail(@), !.lost = @ + 1]

\* Half a minute with nothing on its way: the saved responses grow old.
PapAges ==
    /\ pp.cfg.age = 1 /\ pp.toS = <<>> /\ pp.toC = <<>>
    /\ pp.c.sent # <<>> \/ pp.h.sent # <<>>
    /\ pp' = [pp EXCEPT !.c.sent = [i \in 1..Len(@) |-> [@[i] EXCEPT !.old = 1]],
                        !.h.sent = [i \in 1..Len(@) |-> [@[i] EXCEPT !.old = 1]]]

\* Nothing is on its way and nothing happens.
PapRests == pp.toS = <<>> /\ pp.toC = <<>> /\ UNCHANGED pp

PapNext == \/ PapdReceives \/ PapdIdle \/ PapdTerm \/ PapdQueue \/ PapPass \/ PapTickle \/ PapIdle
           \/ PapCloseReceives \/ PapCloseTimeout \/ PapLoses \/ PapAges \/ PapRests

PapSpec == PapInit /\ [][PapNext]_pp

(***************************************************************************)
(* Properties.                                                             *)
(***************************************************************************)
PapTypeOK ==
    /\ pp.srv \in {"up", "spin", "end"} /\ pp.cli \in {"send", "close", "exit0", "exit1"}
    /\ Len(pp.j.tbuf) <= LpBuffer
    /\ pp.j.lp.open = 1 => pp.j.lp.init = 1 /\ pp.j.lp.letter > 0

\* The data papd has taken is, in order and without a gap, the beginning of
\* what pap has sent from its files.
StreamIntact == IsPrefix(pp.got, pp.sent)

\* The files that are jobs, not queries: papd answers a query file only.
JobFiles(s) == SelectSeq(s.cfg.files, LAMBDA f : f[1] \in {"a3", "ax"})

\* What CUPS is given is whole jobs, in the order of the files, none of them
\* twice and none with lines of another.
PrintedWhole == IsPrefix(pp.j.jobs, JobFiles(pp))

\* A pap that ends with success has had everything printed that papd did not
\* refuse, as long as the queue takes jobs: one that stops between lp_open and
\* lp_print loses the job with a line in the log.
SuccessIsPrinted ==
    pp.cli = "exit0" /\ pp.j.ignored = 0 /\ pp.flaps = 0 => pp.j.jobs = JobFiles(pp)

(***************************************************************************)
(* The listening process of papd (etc/papd/main.c with the CUPS calls of   *)
(* print_cups.c): the printers of papd.conf and those CUPS has, their      *)
(* names registered with atalkd, and the OPEN requests of the clients,     *)
(* each answered and given to a session process.                           *)
(*                                                                         *)
(* An entry of papd.conf has a name, whether it is "cupsautoadd", whether  *)
(* it is piped, whether it is bad.  A mangled name is the name with a      *)
(* number.  Packets to and from the clients are delivered late, again or   *)
(* never.                                                                  *)
(***************************************************************************)

CONSTANTS PapdConfigs,   \* records: entries, dests (the CUPS queues), noatalk, forkfail
          PapdClients,   \* sockets of the clients
          PapdSockets,   \* sockets of the printers, a sequence
          PapdOpens,     \* OPEN transactions of each client
          PapdMangles    \* names cups_mangle_printer_name tries (99)

VARIABLE pq   \* the process, atalkd's names, the clients and the network

Printer(name, auto, piped, ppd) == [name |-> name, auto |-> auto, piped |-> piped, ppd |-> ppd,
                                    reg |-> 0, freed |-> 0]

(***************************************************************************)
(* The printers.                                                           *)
(***************************************************************************)
\* Where the list has the name, 0 for nowhere.
Conflict(list, pr) == SelectInSeq(list, LAMBDA p : p.name = pr.name)

\* 0 no conflict, 1 a conflict, 2 a conflict of two added printers.  A hand
\* written printer takes the place of the one it conflicts with; in the first
\* place it does so only for the callee, and the list keeps the freed one.
cups_check_printer(list, pr, replace) ==
    LET at == Conflict(list, pr)
    IN  IF at = 0 THEN [rc |-> 0, list |-> list]
        ELSE IF pr.auto = 1 THEN [rc |-> IF list[at].auto = 1 THEN 2 ELSE 1, list |-> list]
        ELSE IF ~replace THEN [rc |-> 1, list |-> list]
        ELSE IF at > 1 THEN [rc |-> 1, list |-> [list EXCEPT ![at] = pr]]
        ELSE [rc |-> 1, list |-> [list EXCEPT ![1].freed = 1]]

\* The first numbered name that is free.
cups_mangle_printer_name(list, pr) ==
    LET named(n) == [pr EXCEPT !.name = <<pr.name[1], n>>]
        free == {n \in 1..PapdMangles : Conflict(list, named(n)) = 0}
    IN  IF free = {} THEN list ELSE <<named(Min(free))>> \o list

cups_autoadd_printers(list, dests) ==
    LET add(l, d) == LET pr == Printer(<<d, 0>>, 1, 0, 1)
                         c == cups_check_printer(l, pr, FALSE)
                     IN  CASE c.rc = 0 -> <<pr>> \o l
                           [] c.rc = 1 -> l
                           [] c.rc = 2 -> cups_mangle_printer_name(l, pr)
    IN  FoldLeft(add, list, dests)

\* One entry of papd.conf; a bad one is skipped.
getprinters(list, e, dests) ==
    LET pr == Printer(<<e.name, 0>>, 0, e.piped, 0)
        c == cups_check_printer(list, pr, TRUE)
    IN  IF e.bad = 1 THEN list
        ELSE IF e.auto = 1 THEN cups_autoadd_printers(list, dests)
        ELSE IF c.rc = 0 THEN <<pr>> \o list ELSE c.list

\* A printer of papd.conf has to be a queue of CUPS; its PPD is fetched once.
rprintcap(s, i) == LET p == s.list[i]
                   IN  p.auto = 1 \/ p.name[1] \in Range(s.cfg.dests)

\* CUPS answers: no such queue or offline, rejecting jobs, or taking them.
cups_get_printer_status(s, i) == s.list[i].name[1] \in Range(s.cfg.dests) /\ s.accepts = 1

(***************************************************************************)
(* The end of the process.                                                 *)
(***************************************************************************)
papd_exit(s, rc) == [s EXCEPT !.pc = "exit", !.rc = rc, !.net = {}]

\* The names are taken back one after the other; the first that fails ends it.
papd_cleanup(s, fails) ==
    LET mine == [i \in 1..Len(s.list) |-> IF s.list[i].reg = 1 THEN {s.list[i].name} ELSE {}]
        upto == IF fails = 0 THEN Len(s.list) ELSE fails - 1
    IN  [s EXCEPT !.names = @ \ UNION {mine[i] : i \in 1..upto}]

die(s, rc) == papd_exit(papd_cleanup(s, 0), rc)

(***************************************************************************)
(* Requests.                                                               *)
(***************************************************************************)
Sent(s, i, r) == [s EXCEPT !.h[i] = r.h, !.net = @ \cup r.out]

\* An OPEN is answered before the session process is made.
Opened(s, i, q, socket, forked) ==
    LET ok == (s.list[i].piped = 1 \/ (rprintcap(s, i) /\ cups_get_printer_status(s, i))) /\ socket
        t == Sent(s, i, atp_sresp(s.h[i], q.from, <<IF ok THEN <<"ready">> ELSE <<"busy">>>>))
    IN  IF ok /\ forked THEN [t EXCEPT !.sessions = Append(@, [from |-> q.from, tid |-> q.tid])] ELSE t

SendStatus(s, i, q) == Sent(s, i, atp_sresp(s.h[i], q.from, <<<<"status">>>>))

(***************************************************************************)
(* Actions.                                                                *)
(***************************************************************************)
PapdStart(c) == [cfg |-> c, pc |-> "conf", rc |-> 0, left |-> c.entries, list |-> <<>>, at |-> 1,
                 h |-> <<>>, names |-> {}, accepts |-> 1, stop |-> 0, sessions |-> <<>>,
                 net |-> {}, opens |-> [k \in PapdClients |-> 0], told |-> [k \in PapdClients |-> "none"]]

PapdInit == \E c \in PapdConfigs : pq = PapdStart(c)

ReadEntry ==
    /\ pq.pc = "conf" /\ pq.left # <<>>
    /\ pq' = [pq EXCEPT !.list = getprinters(@, Head(pq.left), pq.cfg.dests), !.left = Tail(@)]

ReadAll == pq.pc = "conf" /\ pq.left = <<>> /\ pq' = [pq EXCEPT !.pc = "setup"]

\* An endpoint for the printer and its name: without the endpoint papd exits
\* at once, without the name it takes the other names back first.
Register ==
    /\ pq.pc = "setup" /\ pq.at <= Len(pq.list)
    /\ \E got \in IF pq.cfg.noatalk = 1 THEN {"both", "socket", "none"} ELSE {"both"} :
           LET p == pq.list[pq.at]
               t == [pq EXCEPT !.h = Append(@, atp_open(PapdSockets[pq.at], 0))]
           IN  pq' = CASE got = "none" -> papd_exit(pq, 1)
                       [] got = "socket" \/ (got = "both" /\ p.name \in pq.names) -> die(t, 1)
                       [] got = "both" /\ p.name \notin pq.names ->
                              [t EXCEPT !.names = @ \cup {p.name}, !.list[pq.at].reg = 1, !.at = @ + 1]

Serve == pq.pc = "setup" /\ pq.at > Len(pq.list) /\ pq' = [pq EXCEPT !.pc = "serve"]

PapdRequest ==
    /\ pq.pc = "serve" /\ pq.stop = 0
    /\ \E p \in pq.net, i \in 1..Len(pq.list) :
           /\ p.to = PapdSockets[i]
           /\ LET r == atp_rreq_try(pq.h[i], PapdClients, p)
                  t == [Sent(pq, i, r) EXCEPT !.net = (@ \ {p}) \cup r.out]
              IN  CASE r.rc = "none" -> pq' = t
                    [] r.rc = "req" /\ r.p.body = <<"open">> ->
                           \E socket \in BOOLEAN, forked \in IF pq.cfg.forkfail = 1 THEN BOOLEAN ELSE {TRUE} :
                               pq' = Opened(t, i, r.p, socket, forked)
                    [] r.rc = "req" /\ r.p.body = <<"sendstatus">> -> pq' = SendStatus(t, i, r.p)

PapdAccepts == pq.pc = "serve" /\ pq' = [pq EXCEPT !.accepts = 1 - @]

\* SIGTERM or SIGINT, noticed at the top of the loop.
PapdSignal == pq.pc = "serve" /\ pq.stop = 0 /\ pq' = [pq EXCEPT !.stop = 1]

PapdStops ==
    /\ pq.pc = "serve" /\ pq.stop = 1
    /\ \E fails \in IF pq.cfg.noatalk = 1 THEN 0..Len(pq.list) ELSE {0} :
           pq' = papd_exit(papd_cleanup(pq, fails), fails)

PapdOver == pq.pc = "exit" /\ UNCHANGED pq

\* A client asks for the status first (pap -w), opens, sends the same OPEN
\* again when the answer does not come, or makes a new one.
OpenPacket(k, n, i) == [NoPacket EXCEPT !.f = "req", !.from = k, !.to = PapdSockets[i], !.tid = n,
                                        !.xo = 1, !.bm = {0}, !.body = <<"open">>]

ClientOpens ==
    /\ pq.pc = "serve"
    /\ \E k \in PapdClients, i \in 1..Len(pq.list) :
           /\ pq.opens[k] < PapdOpens /\ pq.told[k] # "ready" /\ i <= 2
           /\ pq' = [pq EXCEPT !.opens[k] = @ + 1, !.told[k] = "none",
                               !.net = @ \cup {OpenPacket(k, pq.opens[k] + 1, i)}]

ClientRepeats ==
    /\ pq.pc = "serve"
    /\ \E k \in PapdClients, i \in 1..Len(pq.list) :
           /\ pq.opens[k] > 0 /\ pq.told[k] = "none"
           /\ \E j \in 1..Len(pq.h[i].sent) : pq.h[i].sent[j].to = k /\ pq.h[i].sent[j].tid = pq.opens[k]
           /\ pq' = [pq EXCEPT !.net = @ \cup {OpenPacket(k, pq.opens[k], i)}]

ClientAsks ==
    /\ pq.pc = "serve"
    /\ \E k \in PapdClients, i \in 1..Len(pq.list) :
           /\ pq.opens[k] = 0 /\ i = 1
           /\ pq' = [pq EXCEPT !.net = @ \cup {[OpenPacket(k, 0, i) EXCEPT !.xo = 0, !.body = <<"sendstatus">>]}]

ClientHears ==
    \E p \in pq.net :
        /\ p.f = "resp"
        /\ pq' = [pq EXCEPT !.net = @ \ {p},
                            !.told[p.to] = IF p.tid = pq.opens[p.to] THEN p.body[1] ELSE @]

PapdNext == \/ ReadEntry \/ ReadAll \/ Register \/ Serve \/ PapdRequest \/ PapdAccepts \/ PapdSignal
            \/ PapdStops \/ PapdOver \/ ClientOpens \/ ClientRepeats \/ ClientAsks \/ ClientHears

PapdSpec == PapdInit /\ [][PapdNext]_pq

(***************************************************************************)
(* Properties.                                                             *)
(***************************************************************************)
PapdTypeOK ==
    /\ pq.pc \in {"conf", "setup", "serve", "exit"}
    /\ pq.at \in 1..(Len(pq.list) + 1)
    /\ Len(pq.h) <= Len(pq.list)

\* An OPEN that is sent again, because its answer was late or lost, does not
\* get a second session process: the saved response of the exactly once
\* transaction answers it.
OneSessionPerOpen ==
    \A i, j \in 1..Len(pq.sessions) : pq.sessions[i] = pq.sessions[j] => i = j

\* The names papd holds are those of its printers, each of another name, and
\* a papd that was told to stop leaves none behind.
NoNameLeft ==
    /\ \A i, j \in 1..Len(pq.list) : pq.list[i].name = pq.list[j].name => i = j
    /\ pq.pc = "exit" /\ pq.rc = 0 => pq.names = {}
=============================================================================
