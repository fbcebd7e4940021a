-------------------------------- MODULE Asp --------------------------------
(***************************************************************************)
(* One AFP session over AppleTalk: the session process of etc/afpd/        *)
(* afp_asp.c on the calls of libatalk/asp, over the ATP endpoint of module *)
(* Atp, with its client and the network.                                   *)
(*                                                                         *)
(* The network holds the packets on their way.  A packet is delivered at   *)
(* any later time or never, in any order; the client sends its request     *)
(* again as often as it likes.  The client is a Macintosh and external: it *)
(* has one command in flight, numbers its commands, sends them exactly     *)
(* once, and answers on its workstation session socket (wss).              *)
(***************************************************************************)
EXTENDS Atp

CONSTANTS AspConfigs,     \* records: script, signals, strays, fail
          AspTries,       \* atp_sreqtries of the server's requests
          AspPackets,     \* packets of the data of a write
          MaxReadErrors   \* ASP_MAX_READ_ERRORS

VARIABLE asn   \* the session: server process, client, network

Peer == {"cli", "wss"}    \* the sockets of the client's node
Script == asn.cfg.script

(***************************************************************************)
(* The client.                                                             *)
(***************************************************************************)
\* The n-th call, of the kind the script gives, with sequence number n - 1.
CallPacket(s, n) ==
    [NoPacket EXCEPT !.f = "req", !.from = "cli", !.to = "sess", !.tid = 100 + n,
                     !.xo = 1, !.bm = {0}, !.body = <<s.cfg.script[n], n - 1>>]

\* The data packets of the write with sequence number seq.
WriteData(seq) == [i \in 1..AspPackets |-> <<"data", seq, i>>]

\* Requests an ASP session must not take for commands: too short, of another
\* session, of an unknown function.
StrayPacket(kind) ==
    [NoPacket EXCEPT !.f = "req", !.from = "cli", !.to = "sess", !.tid = 200,
                     !.bm = {0}, !.body = <<kind, 0>>]

ClientReply(s, p, bodies) ==
    {[NoPacket EXCEPT !.f = "resp", !.from = "wss", !.to = "sess", !.tid = p.tid,
                      !.bm = {i - 1}, !.eom = IF i = Len(bodies) THEN 1 ELSE 0,
                      !.body = bodies[i]] : i \in {j \in 1..Len(bodies) : j - 1 \in p.bm}}

\* The client takes packet p: the answer of its call, which it releases, or a
\* request of the server, which it answers.
ClientTakes(s, p) ==
    LET t == [s EXCEPT !.net = @ \ {p}]
        ours == p.f = "resp" /\ p.to = "cli" /\ s.on = 1 /\ p.tid = 100 + s.n
        rel == [CallPacket(s, s.n) EXCEPT !.f = "rel", !.xo = 0, !.bm = {}, !.body = NoBody]
        what == p.body[1]
        current == s.on = 1 /\ p.body[2] = s.n - 1 /\ s.cfg.script[s.n] = "write"
    IN  CASE ours -> [t EXCEPT !.on = 0, !.got = p.body, !.net = @ \cup {rel}]
          [] p.f = "req" /\ what = "wrtcont" ->
                 IF current THEN [t EXCEPT !.net = @ \cup ClientReply(s, p, WriteData(s.n - 1))]
                 ELSE t
          [] p.f = "req" /\ what = "attn" ->
                 [t EXCEPT !.net = @ \cup ClientReply(s, p, <<NoBody>>)]
          [] p.f = "req" /\ what = "close" ->
                 [t EXCEPT !.net = @ \cup ClientReply(s, p, <<NoBody>>), !.gone = 1]
          [] OTHER -> t

(***************************************************************************)
(* The calls of libatalk/asp.  Each request of the server is a wait: pc    *)
(* says which, rq whether the wait runs the timer of the request.          *)
(***************************************************************************)
Sends(s, r) == [s EXCEPT !.h = r.h, !.net = @ \cup r.out]

Waiting_in(t, pc) == [t EXCEPT !.pc = pc, !.rq = IF Requesting(t.h, {"resp"}) THEN 1 ELSE 0]
Waits(s, pc, r) == Waiting_in(Sends(s, r), pc)

asp_attention(s, why) ==
    [Waits(s, "attn", atp_sreq(s.h, "wss", 0, 1, 1, AspTries, <<"attn", why>>))
     EXCEPT !.why = why]

asp_shutdown(s) == Waits(s, "shut", atp_sreq(s.h, "wss", 1, 1, 1, AspTries, <<"close", 0>>))

asp_wrtcont(s) ==
    Waits(s, "wrt", atp_sreq(s.h, "wss", 1, AspPackets, 1, AspTries, <<"wrtcont", s.seq>>))

\* The reply to the command, and the next sequence number.
asp_cmdreply(s, result) ==
    [Sends(s, atp_sresp(s.h, s.sat, <<<<result, s.seq>>>>)) EXCEPT
        !.seq = @ + 1, !.pc = "poll", !.res = result]

asp_closed(s) == [s EXCEPT !.h = atp_close(@), !.pc = "end", !.rq = 0, !.why = "none",
                           !.flags = {}, !.alarm = 0, !.sigs = {}, !.strays = {}]
\* Four zero bytes answer the request received last, whichever it was.
asp_close(s) == asp_closed(IF s.sat = "any" THEN s ELSE Sends(s, atp_sresp(s.h, s.sat, <<<<"closed", 0>>>>)))

afp_asp_close(s) == asp_close(s)

\* Whatever sequence number the request has.
asp_func_noseq(s, b) ==
    IF b[1] = "short" THEN "norequest" ELSE IF b[1] = "sid" THEN "err_sid" ELSE b[1]

\* The function of the request, or why it is none.
asp_func(s, b) ==
    IF b[1] = "short" THEN "norequest"
    ELSE IF b[1] # "close" /\ b[2] # s.seq THEN "err_seq"
    ELSE IF b[1] = "sid" THEN "err_sid" ELSE b[1]
asp_got(s, r) ==
    IF r.rc = "none" THEN [s |-> [Sends(s, r) EXCEPT !.sat = "any"], func |-> "norequest"]
    ELSE [s |-> [Sends(s, r) EXCEPT !.sat = r.p.from], func |-> asp_func(s, r.p.body)]
asp_getrequest(s, p) == asp_got(s, atp_rreq_try(s.h, Peer, p))

(***************************************************************************)
(* The session process.                                                    *)
(***************************************************************************)
afp_asp_die_now(s) == asp_attention(s, "die")

\* The flags the signal handlers set, in the order they are looked at.
asp_process_deferred_signals(s) ==
    CASE "die" \in s.flags -> afp_asp_die_now([s EXCEPT !.flags = @ \ {"die"}])
      [] "die" \notin s.flags /\ "down" \in s.flags ->
             asp_attention([s EXCEPT !.flags = @ \ {"down"}], "down")
      [] OTHER -> asp_attention([s EXCEPT !.flags = @ \ {"mesg"}], "mesg")

\* The command was carried out with its data; result is what the client is
\* told.  A reply that cannot be sent ends the session.
Performed(s, data) == [s EXCEPT !.performed = Append(@, data)]

Replied(s, result) ==
    {asp_cmdreply(s, result)}
        \cup (IF s.cfg.fail = 1 THEN {afp_asp_die_now([s EXCEPT !.cut = 1, !.res = result])} ELSE {})

afp_over_asp_func(t, func) ==
    CASE func \in {"close", "zero"} -> {afp_asp_close(t)}
      [] func = "cmd" -> Replied(Performed(t, <<>>), "ok")
      [] func = "write" -> {asp_wrtcont(t)}
      [] OTHER -> {t}
afp_over_asp_got(g) ==
    afp_over_asp_func(IF g.func \in {"norequest", "err_seq", "err_sid"} THEN g.s ELSE [g.s EXCEPT !.errs = 0],
                      g.func)
\* One pass of the serving loop: a readable socket, one datagram, and the
\* function it asks for.
afp_over_asp(s, p) == afp_over_asp_got(asp_getrequest(s, p))

\* The wait is over, with the response or without it.
Over(t, bodies, ok) ==
    CASE t.pc = "wrt" -> Replied(IF ok THEN Performed(t, bodies) ELSE t, IF ok THEN "ok" ELSE "error")
      [] t.pc = "attn" /\ t.why = "die" -> {asp_shutdown(t)}
      [] t.pc = "attn" /\ t.why = "down" -> {[t EXCEPT !.pc = "poll", !.alarm = 1, !.why = "none"]}
      [] t.pc = "attn" /\ t.why = "mesg" -> {[t EXCEPT !.pc = "poll", !.why = "none"]}
      [] t.pc = "shut" -> {afp_asp_close(t)}
OverWith(s, r, ok) == Over([s EXCEPT !.h = r.h, !.rq = 0], r.bodies, ok)
WaitDone(s, ok) == OverWith(s, atp_rresp(s.h), ok)

\* atp_rresp goes round while atp_rsel has nothing for it.
WaitOn(t, rc) ==
    CASE rc = "again" -> {[t EXCEPT !.rq = IF Requesting(t.h, {"resp"}) THEN 1 ELSE 0]}
      [] rc = "wait" -> {t}
      [] rc \in {"resp", "timedout"} -> WaitDone(t, rc = "resp")
WaitStep(s, r) == WaitOn(Sends(s, r), r.rc)

Waiting == asn.pc \in {"attn", "shut", "wrt"}

(***************************************************************************)
(* Actions.  A packet whose delivery would change nothing, now or later,   *)
(* is left out of the network.                                             *)
(***************************************************************************)
Useful(s, p) ==
    IF p.to = "sess" THEN s.pc # "end"
    ELSE \/ p.f = "resp" /\ s.on = 1 /\ p.tid = 100 + s.n
         \/ p.f = "req" /\ p.body[1] \in {"attn", "close"} /\ s.pc # "end"
         \/ p.f = "req" /\ p.body[1] = "wrtcont" /\ s.on = 1 /\ p.body[2] = s.n - 1

Settled(s) == [s EXCEPT !.net = {p \in s.net : Useful(s, p)}]

\* The first fields are the server's, the others the client's and the net.
AspStart(c) ==
    [cfg |-> c, h |-> atp_open("sess", 0), pc |-> "poll", why |-> "none", rq |-> 0,
     seq |-> 0, sat |-> "any", flags |-> {}, alarm |-> 0, errs |-> 0, cut |-> 0, res |-> "ok",
     performed |-> <<>>, sigs |-> c.signals, strays |-> c.strays,
     n |-> 0, on |-> 0, got |-> NoBody, gone |-> 0, net |-> {}]

AspInit == \E c \in AspConfigs : asn = AspStart(c)

ClientCalls ==
    /\ asn.on = 0 /\ asn.gone = 0 /\ asn.n < Len(Script) /\ asn.pc # "end"
    /\ asn' = [asn EXCEPT !.n = @ + 1, !.on = 1, !.got = NoBody,
                          !.net = @ \cup {CallPacket(asn, asn.n + 1)}]

ClientRetries ==
    /\ asn.on = 1 /\ asn.gone = 0 /\ asn.pc # "end"
    /\ CallPacket(asn, asn.n) \notin asn.net
    /\ asn' = [asn EXCEPT !.net = @ \cup {CallPacket(asn, asn.n)}]

ClientReceives ==
    \E p \in asn.net : p.to \in Peer /\ asn' = Settled(ClientTakes(asn, p))

ClientStray ==
    \E k \in asn.strays :
        asn' = [asn EXCEPT !.strays = @ \ {k}, !.net = @ \cup {StrayPacket(k)}]

\* The client ends the session; it does not wait for the answer.
ClientCloses ==
    /\ asn.on = 0 /\ asn.gone = 0 /\ asn.n = Len(Script)
    /\ asn' = [asn EXCEPT !.gone = 1, !.net = @ \cup {StrayPacket("close")}]

\* SIGTERM, SIGUSR1 and SIGUSR2 set a flag; SIGUSR1 is ignored once the timer
\* of the shutdown runs.
AspSignal ==
    /\ asn.pc # "end"
    /\ \E f \in asn.sigs :
           asn' = [asn EXCEPT !.sigs = @ \ {f},
                              !.flags = IF f = "down" /\ asn.alarm = 1 THEN @ ELSE @ \cup {f}]

\* The shutdown timer fires: SIGALRM has the handler of SIGTERM.
AspAlarm ==
    /\ asn.alarm = 1 /\ asn.pc # "end"
    /\ asn' = [asn EXCEPT !.alarm = 2, !.flags = @ \cup {"die"}]

AspDeferred ==
    /\ asn.pc = "poll" /\ asn.flags # {}
    /\ asn' = asp_process_deferred_signals(asn)

Consumed(s, funcs, p) == IF Queued(s.h, Peer, funcs) = 0 THEN s.net \ {p} ELSE s.net

AspServes ==
    /\ asn.pc = "poll" /\ asn.flags = {}
    /\ \E p \in asn.net :
           /\ p.to = "sess"
           /\ \E t \in afp_over_asp([asn EXCEPT !.net = Consumed(asn, {"req"}, p)], p) :
                  asn' = Settled(t)

\* The socket reports an error; the tenth in a row ends the session.
AspReadError ==
    /\ asn.pc = "poll" /\ asn.flags = {} /\ asn.cfg.fail = 1
    /\ asn' = IF asn.errs + 1 >= MaxReadErrors THEN Settled(afp_asp_close(asn))
              ELSE [asn EXCEPT !.errs = @ + 1]

AspWaitPacket ==
    /\ Waiting
    /\ \E p \in asn.net :
           /\ p.to = "sess"
           /\ \E t \in WaitStep([asn EXCEPT !.net = Consumed(asn, {"resp"}, p)],
                               atp_rsel(asn.h, {"wss"}, {"resp"}, asn.rq = 1, p)) :
                  asn' = Settled(t)

\* Without a timer the wait looks at the queue before it blocks.
AspWaitQueue ==
    /\ Waiting /\ asn.rq = 0 /\ Queued(asn.h, {"wss"}, {"resp"}) # 0
    /\ \E t \in WaitStep(asn, atp_rsel(asn.h, {"wss"}, {"resp"}, FALSE, NoPacket)) :
           asn' = Settled(t)

AspWaitTimeout ==
    /\ Waiting /\ asn.rq = 1
    /\ \E t \in WaitStep(asn, atp_rsel_timeout(asn.h)) : asn' = Settled(t)

AspAges ==
    /\ asn.pc # "end"
    /\ \E i \in 1..Len(asn.h.sent) : asn.h.sent[i].old = 0 /\ asn' = [asn EXCEPT !.h = Aged(@, i)]

AspOver == asn.pc = "end" /\ UNCHANGED asn

AspServer == AspDeferred \/ AspServes \/ AspWaitPacket \/ AspWaitQueue \/ AspWaitTimeout

AspNext == \/ ClientCalls \/ ClientRetries \/ ClientReceives \/ ClientStray \/ ClientCloses
           \/ AspSignal \/ AspAlarm \/ AspReadError \/ AspAges \/ AspOver \/ AspServer

AspSpec == AspInit /\ [][AspNext]_asn

\* The process runs: it acts on its signals, its timers fire, and it reads
\* what has arrived.
AspFairSpec == AspSpec /\ WF_asn(AspServer)

(***************************************************************************)
(* Properties.                                                             *)
(***************************************************************************)
AspTypeOK ==
    /\ asn.pc \in {"poll", "attn", "shut", "wrt", "end"}
    /\ asn.seq \in 0..Len(Script) /\ asn.n \in 0..Len(Script)
    /\ Len(asn.h.queue) <= AtpMaxQueue
    /\ asn.flags \subseteq {"die", "down", "mesg"}
    /\ asn.errs \in 0..MaxReadErrors

\* The data of the last call.
CallData == IF asn.n > 0 /\ Script[asn.n] = "write" THEN WriteData(asn.n - 1) ELSE <<>>

\* The call the client waits for, as the promise sees it: asked until the
\* server has made its reply, then performed or refused.
CallState == IF asn.on = 0 THEN "idle"
             ELSE IF asn.seq < asn.n /\ asn.cut = 0 THEN "asked"
             ELSE IF asn.res = "ok" THEN "done" ELSE "refused"

\* The answer the client took, if it is the one to its last call.
Told == IF asn.got \in {NoBody, <<"closed", 0>>} THEN asn.got[1]
        ELSE IF asn.got[2] = asn.n - 1 THEN asn.got[1] ELSE "another"

C == INSTANCE OneCall WITH issued <- asn.n, data <- CallData, state <- CallState, told <- Told,
                           performed <- asn.performed,
                           over <- IF asn.pc = "end" THEN 1 ELSE 0

\* A session over ASP keeps the promise of OneCall, with packets delayed,
\* lost, reordered and sent again, saved responses growing old, signals in
\* between and waits that fail: no command runs twice, a write gets the data
\* of its own write and all of it, and the answer the client takes is that of
\* the command it sent (the tid and sequence checks of atp_rsel and
\* asp_getrequest).
AspImplements == C!CallSpec

-----------------------------------------------------------------------------
(***************************************************************************)
(* The ASP side of the master afpd: libatalk/asp/asp_getsess.c with the    *)
(* session table of the server_child calls.  The slot of a session in      *)
(* asp_ac holds its process and the state of its client: 0 is dead, 1 is   *)
(* fine, and every round of the tickle timer adds one until the client is  *)
(* heard from.  Requests come as ATP has filtered them (module Atp).       *)
(***************************************************************************)
CONSTANTS AspSessions,   \* servch_nsessions
          AcBad,         \* ACSTATE_BAD
          AspPids        \* processes the system has, in the order it gives them

VARIABLE asl

NoSlot == [pid |-> 0, state |-> 0]
Dead == 0
Ok == 1
SlotIds == 0..(AspSessions - 1)

\* heard: rounds of the timer since each client was heard from; termed: the
\* processes the timer has sent SIGTERM; over: the slot written past the table.
AspListenerInit ==
    asl = [slots |-> [i \in SlotIds |-> NoSlot], table |-> {}, live |-> {}, next |-> 1,
           heard |-> [p \in 1..AspPids |-> 0], termed |-> {}, over |-> 0, done |-> 0]

\* The first slot that is empty or dead; one past the table when there is none.
FreeSlot(s) ==
    LET free == {i \in SlotIds : s.slots[i].state = Dead}
    IN  IF free = {} THEN AspSessions ELSE CHOOSE i \in free : \A j \in free : i <= j

set_asp_ac(s, sid, slot) ==
    IF sid = AspSessions THEN [s EXCEPT !.over = 1] ELSE [s EXCEPT !.slots[sid] = slot]

server_child_add(s, pid) == [s EXCEPT !.table = @ \cup {pid}]
server_child_remove(s, pid) == [s EXCEPT !.table = @ \ {pid}]

\* The dead slot the search stopped at is emptied whether or not a session
\* comes of it.
Searched(s, sid) == IF sid = AspSessions THEN s ELSE [s EXCEPT !.slots[sid] = NoSlot]

\* The outcomes of an open request: busy when the table is full or when the
\* socketpair, the fork, the table entry or the slot cannot be had.
asp_open(s) ==
    LET sid == FreeSlot(s)
        t == Searched(s, sid)
        pid == s.next
        forked == [t EXCEPT !.live = @ \cup {pid}, !.next = @ + 1]
        killed == [t EXCEPT !.next = @ + 1]
    IN  IF Cardinality(s.table) >= AspSessions THEN {s}
        ELSE {t,                                                  \* no pipes, no fork
              killed,                                             \* no entry or no slot: SIGQUIT
              set_asp_ac(server_child_add(forked, pid), sid, [pid |-> pid, state |-> Ok])}

AspOpen == /\ asl.over = 0 /\ asl.done = 0 /\ asl.next <= AspPids
           /\ asl' \in asp_open(asl)

\* The count of missed tickles goes on.
asp_tickled_deaf(s, sid) == s

\* A tickle of the client of session pid, which knows its session number.
asp_tickled(s, sid) ==
    IF s.slots[sid].state = Dead THEN s ELSE [s EXCEPT !.slots[sid].state = Ok]

AspTickle ==
    /\ asl.over = 0
    /\ \E sid \in SlotIds :
           /\ asl.slots[sid].pid # 0
           /\ asl' = [asp_tickled(asl, sid) EXCEPT !.heard[asl.slots[sid].pid] = 0]

\* One round of the tickle timer.  A client that stays silent loses its
\* process and its slot; the others are sent a tickle.
tickle_handler(s) ==
    LET up(i) == s.slots[i].state # Dead
        bad(i) == up(i) /\ s.slots[i].state + 1 >= AcBad
    IN  [s EXCEPT
         !.slots = [i \in SlotIds |-> IF bad(i) THEN [s.slots[i] EXCEPT !.state = Dead]
                                      ELSE IF up(i) THEN [s.slots[i] EXCEPT !.state = s.slots[i].state + 1]
                                      ELSE s.slots[i]],
         !.termed = @ \cup {s.slots[i].pid : i \in {j \in SlotIds : bad(j)}},
         !.heard = [p \in DOMAIN s.heard |-> IF p < s.next /\ s.heard[p] < AcBad
                                             THEN s.heard[p] + 1 ELSE s.heard[p]]]

AspTimer == asl.over = 0 /\ asl.done = 0 /\ asl' = tickle_handler(asl)

\* asp_stop_tickle and asp_kill: the shutdown of the server ends the timer and
\* signals every process of the table.
AspShutdown ==
    /\ asl.done = 0 /\ asl.over = 0
    /\ asl' = [asl EXCEPT !.done = 1]

\* A session process exits, by itself or by a signal, and is reaped.
AspChildExits ==
    /\ asl.over = 0
    /\ \E p \in asl.live :
           asl' = server_child_remove([asl EXCEPT !.live = @ \ {p}], p)

AspListenerOver == (asl.over = 1 \/ asl.done = 1) /\ UNCHANGED asl

AspListenerNext == AspOpen \/ AspTickle \/ AspTimer \/ AspShutdown \/ AspChildExits
                   \/ AspListenerOver

AspListenerSpec == AspListenerInit /\ [][AspListenerNext]_asl

AspListenerTypeOK ==
    /\ asl.table = asl.live
    /\ \A i \in SlotIds : asl.slots[i].state \in 0..AcBad /\ asl.slots[i].pid \in 0..AspPids

\* The tickle timer ends only sessions whose own client has been silent for
\* all the rounds it is given: slots that are given to a new session keep
\* neither the count nor the process of the old one (tickle_handler and the
\* slot search of asp_getsession).
SilentOnly == [][\A p \in asl'.termed \ asl.termed : asl.heard[p] + 1 >= AcBad - 1]_asl

=============================================================================
