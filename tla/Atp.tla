------------------------------- MODULE Atp -------------------------------
(***************************************************************************)
(* The AppleTalk Transaction Protocol library of libatalk/atp, as pure     *)
(* operators on an endpoint (a struct atp_handle).  The modules of its     *)
(* users, the AFP session over ASP and the printer spooler, hold endpoints *)
(* and the network between them.                                           *)
(*                                                                         *)
(* A packet carries the function bits f, the transaction ID, the sockets   *)
(* it goes between, the exactly once bit xo, the STS and EOM bits, and a   *)
(* body.  bm is the bitmap of a request and the set of the one sequence    *)
(* number of a response.  Buffers are reclaimed by the garbage collection  *)
(* of values, and time shows only as a saved response growing old and as   *)
(* the select of atp_rsel running into its timeout.                        *)
(***************************************************************************)
EXTENDS Integers, Sequences, FiniteSets, SequencesExt, FiniteSetsExt

CONSTANTS AtpMaxQueue,   \* ATP_MAXQUEUE: packets an endpoint keeps for later
          AtpResponses   \* ATP_MAXRESP: packets of one response

NoBody == <<"none">>
NoPacket == [f |-> "none", from |-> "none", to |-> "none", tid |-> 0, xo |-> 0,
             bm |-> {}, eom |-> 0, sts |-> 0, body |-> NoBody]

\* A fresh endpoint.  Outside atp_sreq the request fields are unset.
atp_open(sock, tid) ==
    [sock |-> sock, open |-> 1, queue |-> <<>>, sent |-> <<>>, req |-> NoPacket,
     rbm |-> {}, want |-> 0, tries |-> 0, resp |-> {}, tid |-> tid, rtid |-> 0,
     rxo |-> 0]

\* Closing drops the queue, the saved responses and the request.
atp_close(h) == [atp_open(h.sock, 0) EXCEPT !.open = 0]

atp_build_req_packet(h, to, xo, bm, body) ==
    [NoPacket EXCEPT !.f = "req", !.from = h.sock, !.to = to, !.tid = h.tid + 1,
                     !.xo = xo, !.bm = bm, !.body = body]

atp_build_resp_packet(h, to, n, eom, body) ==
    [NoPacket EXCEPT !.f = "resp", !.from = h.sock, !.to = to, !.tid = h.rtid,
                     !.bm = {n}, !.eom = eom, !.body = body]

\* A pattern is the set of the sockets it accepts: a zero net, node or port
\* of a sockaddr_at matches every value.
at_addr_eq(pattern, addr) == addr \in pattern

Infinite == -1
TriesLeft(h) == h.tries > 0 \/ h.tries = Infinite

(***************************************************************************)
(* The queue of packets nobody asked for yet, newest first.                *)
(***************************************************************************)
atp_queue_push(h, p) ==
    [h EXCEPT !.queue = <<p>> \o (IF Len(@) >= AtpMaxQueue /\ Len(@) > 1
                                  THEN Front(@) ELSE @)]

\* A TREL frees the newest saved response to its sender and transaction.
Released(h, p) ==
    LET at == SelectInSeq(h.sent, LAMBDA s : s.to = p.from /\ s.tid = p.tid)
    IN  IF at = 0 THEN h ELSE [h EXCEPT !.sent = RemoveAt(@, at)]

Wanted(pattern, funcs, p) == p.f \in funcs /\ at_addr_eq(pattern, p.from)

\* The position in the queue of the packet a receive takes, 0 for none.
Queued(h, pattern, funcs) == SelectInSeq(h.queue, LAMBDA p : Wanted(pattern, funcs, p))

\* Take a packet from the queue, else look at p, the next datagram of the
\* socket.  A datagram that is not wanted is kept in the queue; the result
\* then has no packet.
atp_recv_atp(h, pattern, funcs, p) ==
    LET at == Queued(h, pattern, funcs)
    IN  IF at # 0 THEN [h |-> [h EXCEPT !.queue = RemoveAt(@, at)], p |-> h.queue[at]]
        ELSE IF p.f = "rel" THEN [h |-> Released(h, p), p |-> NoPacket]
        ELSE IF Wanted(pattern, funcs, p) THEN [h |-> h, p |-> p]
        ELSE [h |-> atp_queue_push(h, p), p |-> NoPacket]

(***************************************************************************)
(* Sending a request, and sending it again.                                *)
(***************************************************************************)
\* The call of a request with a timeout keeps it for atp_rsel to send again;
\* one without a timeout sets up no wait.  Both forget the response packets
\* of the request before.
ReqSent(h, p, count, timed, tries) ==
    [h |-> IF timed = 1
           THEN [h EXCEPT !.req = p, !.rbm = p.bm, !.want = count,
                          !.tries = IF tries = Infinite THEN tries ELSE tries - 1]
           ELSE [h EXCEPT !.want = 0],
     out |-> {p}]
atp_sreq(h, to, xo, count, timed, tries, body) ==
    ReqSent([h EXCEPT !.tid = @ + 1, !.resp = {}], atp_build_req_packet(h, to, xo, 0..(count - 1), body),
            count, timed, tries)

resend_request(h) ==
    [h |-> [h EXCEPT !.req.bm = h.rbm, !.tries = IF @ > 0 THEN @ - 1 ELSE @],
     out |-> {[h.req EXCEPT !.bm = h.rbm]}]

atp_resp_incomplete(h) == IF TriesLeft(h) THEN "again" ELSE "timedout"

(***************************************************************************)
(* Waiting: atp_rsel.                                                      *)
(***************************************************************************)
\* Whether a wait that starts now runs the timer of the request.
Requesting(h, funcs) == "resp" \in funcs /\ h.want > 0 /\ TriesLeft(h)

\* A wait that finds the whole response here returns at once.
Complete(h, funcs) == Requesting(h, funcs) /\ h.rbm = {}

\* The search of the saved responses for a duplicate of request p.  Expired
\* ones met on the way are discarded; the search ends when the first of all
\* has expired.
Fresh(sent) == SelectSeq(sent, LAMBDA s : s.old = 0)
SentUpTo(sent, at, last) ==
    [sent |-> Fresh(SubSeq(sent, 1, last)) \o SubSeq(sent, last + 1, Len(sent)),
     at |-> IF at = 0 THEN 0 ELSE Len(Fresh(SubSeq(sent, 1, last)))]
SentAt(sent, at) == SentUpTo(sent, at, IF at = 0 THEN Len(sent) ELSE at)
SentSearch(h, p) ==
    IF h.sent = <<>> THEN [sent |-> <<>>, at |-> 0]
    ELSE IF h.sent[1].old = 1 THEN [sent |-> Tail(h.sent), at |-> 0]
    ELSE SentAt(h.sent, SelectInSeq(h.sent, LAMBDA s : s.old = 0 /\ s.to = p.from /\ s.tid = p.tid))

\* A duplicate of an answered exactly once request gets the packets of its
\* bitmap again; every other request goes to the queue.
RequestFor(h, p, at) ==
    IF at = 0 THEN [h |-> atp_queue_push(h, p), out |-> {}, rc |-> "req"]
    ELSE [h |-> h, rc |-> "again", out |-> {r \in h.sent[at].pkts : r.bm \subseteq p.bm}]
RequestSought(h, p, s) == RequestFor([h EXCEPT !.sent = s.sent], p, s.at)
RequestIn(h, p) == RequestSought(h, p, SentSearch(h, p))

\* A response packet that is still missing is kept and its bit cleared, EOM
\* clears the bits above it, STS asks for what is left; anything else is
\* tossed.  A completed exactly once request is released.
ReleasePacket(req) == [req EXCEPT !.f = "rel", !.xo = 0, !.body = NoBody]
ResponseKept(h, asked) ==
    IF h.rbm = {} /\ h.req.xo = 1
    THEN [h |-> [h EXCEPT !.req = ReleasePacket(h.req)], out |-> asked \cup {ReleasePacket(h.req)}, rc |-> "resp"]
    ELSE [h |-> h, out |-> asked, rc |-> IF h.rbm # {} THEN atp_resp_incomplete(h) ELSE "resp"]
ResponseFits(h, n, p, left) ==
    ResponseKept([h EXCEPT !.rbm = left, !.resp = @ \cup {[n |-> n, body |-> p.body]},
                           !.req.bm = IF p.sts = 1 THEN left ELSE @],
                 IF p.sts = 1 THEN {[h.req EXCEPT !.bm = left]} ELSE {})
ResponseNo(h, requesting, p, n) ==
    IF h.req = NoPacket \/ n >= AtpResponses THEN [h |-> h, out |-> {}, rc |-> atp_resp_incomplete(h)]
    ELSE IF requesting /\ n \in h.rbm /\ p.tid = h.req.tid
    THEN ResponseFits(h, n, p, {i \in h.rbm \ {n} : p.eom = 0 \/ i <= n})
    ELSE ResponseKept(h, {})
ResponseIn(h, requesting, p) == ResponseNo(h, requesting, p, CHOOSE i \in p.bm : TRUE)

\* One datagram p, or what the queue holds, in a wait for funcs from pattern.
\* rc: req and resp for a request and a complete response, again for nothing
\* the caller can use, timedout for the failure.
atp_rsel_took(r, requesting) ==
    IF r.p = NoPacket THEN [h |-> r.h, out |-> {}, rc |-> "again"]
    ELSE IF r.p.f = "req" THEN RequestIn(r.h, r.p)
    ELSE ResponseIn(r.h, requesting, r.p)
atp_rsel(h, pattern, funcs, requesting, p) == atp_rsel_took(atp_recv_atp(h, pattern, funcs, p), requesting)

\* The select of a wait with a request pending ran into its timeout.
atp_rsel_timeout(h) ==
    IF ~TriesLeft(h) THEN [h |-> h, out |-> {}, rc |-> "timedout"]
    ELSE LET s == resend_request(h) IN [h |-> s.h, out |-> s.out, rc |-> "wait"]

(***************************************************************************)
(* Requests and responses as the callers see them.                         *)
(***************************************************************************)
\* The request atp_rsel just queued, with its transaction noted for the
\* response; rc "none" for a datagram that brought no new request.
RequestTaken(r, q) ==
    IF r.rc # "req" THEN [h |-> r.h, out |-> r.out, rc |-> "none", p |-> NoPacket]
    ELSE [h |-> [r.h EXCEPT !.queue = Tail(@), !.rtid = q.tid, !.rxo = q.xo], out |-> r.out, rc |-> "req", p |-> q]
RequestNewest(r) == RequestTaken(r, IF r.rc = "req" THEN r.h.queue[1] ELSE NoPacket)
atp_rreq_try(h, pattern, p) == RequestNewest(atp_rsel(h, pattern, {"req"}, FALSE, p))

\* The bodies of a complete response, up to the first packet that is missing.
atp_rresp(h) ==
    LET have(n) == \E r \in h.resp : r.n = n
        count == CHOOSE k \in 0..AtpResponses :
                     (\A i \in 0..(k - 1) : have(i)) /\ ~have(k)
        bodyOf(n) == (CHOOSE r \in h.resp : r.n = n).body
    IN  [h |-> [h EXCEPT !.resp = {r \in @ : r.n >= count}],
         bodies |-> [i \in 1..count |-> bodyOf(i - 1)]]

\* The response to the request received last.  For an exactly once request
\* the packets are kept, the newest response first.
RespPackets(h, to, bodies) ==
    {atp_build_resp_packet(h, to, i - 1, IF i = Len(bodies) THEN 1 ELSE 0, bodies[i]) : i \in 1..Len(bodies)}
RespSent(h, to, pkts) ==
    [h |-> IF h.rxo = 1 THEN [h EXCEPT !.sent = <<[to |-> to, tid |-> h.rtid, old |-> 0, pkts |-> pkts]>> \o @]
           ELSE h, out |-> pkts]
atp_sresp(h, to, bodies) == RespSent(h, to, RespPackets(h, to, bodies))

\* The release time of saved response i runs out.
Aged(h, i) == [h EXCEPT !.sent[i].old = 1]
=============================================================================
