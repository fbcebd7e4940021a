------------------------------- MODULE MacIp -------------------------------
(***************************************************************************)
(* The MacIP gateway of contrib/macipgw: the pool of addresses it leases,  *)
(* the probes that keep a lease, and the packets it carries between the    *)
(* tunnel and the AppleTalk nodes.                                         *)
(*                                                                         *)
(* Address i is net + i; entry i of the pool is ipent[i - 1].  Time shows  *)
(* as an entry's timeout running out in a macip_idle.  A datagram is       *)
(* delivered or lost within the two seconds of quiet that the select of    *)
(* server() needs for a macip_idle.  A node that leaves takes its          *)
(* datagrams with it.                                                      *)
(***************************************************************************)
EXTENDS Atp

CONSTANTS MiNodes,     \* AppleTalk nodes
          MiEntries,   \* nipent: (~mask) - 1
          MiRetries,   \* ARPRETRIES
          MiConfigs    \* [xo, asks, drops, again, leaves, quiet, tun, fixed, fails, zones, page, zip, odd, crashes]

VARIABLE mi
miVars == <<mi>>

NoNode == "none"
FREE == "free"
LEASED == "leased"
FIXED == "fixed"
NoEntry == [assigned |-> FREE, sat |-> NoNode, retr |-> 0]
AnyNode == MiNodes

\* A datagram for the gateway, and one for a node.
Datagram(kind, from, ip, pkt) == [kind |-> kind, from |-> from, ip |-> ip, pkt |-> pkt]
Spend(s, what) == [s EXCEPT !.cf[what] = @ - 1]

(***************************************************************************)
(* The pool.                                                               *)
(***************************************************************************)
\* The entry of an address; the last one of the pool has none.
get_ipent(ip) == IF ip > 0 /\ ip < MiEntries THEN ip ELSE 0

\* The first free address, 0 for none.  The entry is due at the next
\* macip_idle unless arp_set follows.
lease_ip(ent) ==
    LET free == {i \in 1..MiEntries : ent[i].assigned = FREE}
        i == IF free = {} THEN 0 ELSE Min(free)
    IN  [ip |-> i, ent |-> IF i = 0 THEN ent
                           ELSE [ent EXCEPT ![i] = [assigned |-> LEASED, sat |-> NoNode, retr |-> MiRetries]]]

\* A sender that does not renew the retries of its entry.
arp_set_once(s, ip, node) ==
    LET i == get_ipent(ip)
    IN  IF i = 0 THEN s
        ELSE [s EXCEPT !.ent[i].sat = node,
                       !.ent[i].assigned = IF @ = FREE THEN LEASED ELSE @,
                       !.known = @ \cup {node}]
arp_set(s, ip, node) ==
    LET i == get_ipent(ip)
    IN  IF i = 0 THEN s
        ELSE [s EXCEPT !.ent[i] = [assigned |-> IF @.assigned = FREE THEN LEASED ELSE @.assigned,
                                   sat |-> node, retr |-> MiRetries],
                       !.known = @ \cup {node}]

\* The lookup of a name in every zone reaches the node that uses the address.
nbp_lookup_req(s, ips) ==
    [s EXCEPT !.back = @ \cup {Datagram("lkup", c, s.node[c].ip, NoPacket) :
                               c \in {n \in MiNodes : s.node[n].ip \in ips /\ s.zones # {}}}]

\* An IP packet for an address goes to the node of its entry; without an
\* entry the packet is dropped and the address looked up.
macip_output(s, ip, kind) ==
    LET i == get_ipent(ip)
    IN  IF i # 0 /\ s.ent[i].assigned # FREE
        THEN IF s.ent[i].sat = NoNode THEN s
             ELSE [s EXCEPT !.back = @ \cup {Datagram(kind, s.ent[i].sat, ip, NoPacket)}]
        ELSE nbp_lookup_req(s, {ip})

\* The entries in due have run out: each is probed, or freed after the last
\* probe.
icmp_echo(s, i) == macip_output([s EXCEPT !.ent[i].retr = @ - 1], i, "echo")
RECURSIVE Probed(_, _)
Probed(s, due) ==
    IF due = {} THEN s
    ELSE LET i == Min(due) IN Probed(icmp_echo(s, i), due \ {i})
macip_idle(s, due) ==
    LET spent == {i \in due : s.ent[i].retr = 0}
        freed == [s EXCEPT !.ent = [i \in 1..MiEntries |->
                    IF i \in spent THEN [s.ent[i] EXCEPT !.assigned = FREE, !.retr = -1] ELSE s.ent[i]]]
    IN  Probed(freed, due \ spent)

(***************************************************************************)
(* What arrives on the AppleTalk socket.                                   *)
(***************************************************************************)
\* The entries of a lookup reply.  A packet of another operation leaves the
\* parser in the middle of a packet, and the reply after it is read from
\* nowhere.
nbp_parse_lkup_repl(s, d) ==
    IF s.parse = 1 THEN [s EXCEPT !.gate = "dead"]
    ELSE IF d.kind = "nbpodd" THEN [s EXCEPT !.parse = 1]
    ELSE arp_set(s, d.ip, d.from)
arp_input(s, d) == nbp_parse_lkup_repl(s, d)

ip_input(s, d) == arp_set(s, d.ip, d.from)

\* The queue has no limit here; a release finds its saved response.
atp_input(h, p) == IF p.f = "rel" THEN Released(h, p) ELSE [h EXCEPT !.queue = <<p>> \o @]

\* The request at hand is answered: an address, the error for none left, or
\* the constants of the network.
Answered(s, r) ==
    LET l == lease_ip(s.ent)
        assign == r.p.body = <<"assign">>
        s1 == IF assign /\ l.ip # 0 THEN arp_set([s EXCEPT !.ent = l.ent], l.ip, r.p.from) ELSE s
        body == IF assign THEN IF l.ip # 0 THEN <<"assign", l.ip>> ELSE <<"error", 0>>
                ELSE <<"server", 0>>
        sent == atp_sresp(r.h, r.p.from, <<body>>)
    IN  [s1 EXCEPT !.h = sent.h,
                   !.back = @ \cup {Datagram("resp", p.to, 0, p) : p \in sent.out \cup r.out}]

\* atp_rsel looks for a request in the queue.  With none there it waits for
\* the next datagram of the socket, whatever it is.
config_rsel(s, p) ==
    LET r == atp_rreq_try(s.h, AnyNode, p)
    IN  IF r.rc = "req" THEN Answered(s, r)
        ELSE [s EXCEPT !.h = r.h, !.back = @ \cup {Datagram("resp", q.to, 0, q) : q \in r.out}]
config_input(s, d) ==
    LET h == atp_input(s.h, d.pkt)
        s1 == [s EXCEPT !.h = h]
    IN  IF Queued(h, AnyNode, {"req"}) = 0 THEN [s1 EXCEPT !.gate = "blocked"]
        ELSE config_rsel(s1, NoPacket)

macip_input(s, d) ==
    CASE d.kind \in {"nbp", "nbpodd"} -> arp_input(s, d)
      [] d.kind = "atp" -> config_input(s, d)
      [] d.kind = "ip" -> ip_input(s, d)

\* The wait inside atp_rsel takes an ATP packet and tosses every other one.
Swallow(s, d) ==
    LET up == [s EXCEPT !.gate = "up"]
    IN  IF d.kind = "atp" THEN config_rsel(up, d.pkt) ELSE up

(***************************************************************************)
(* Starting and stopping.                                                  *)
(***************************************************************************)
init_ip(s) ==
    [s EXCEPT !.ent = [i \in 1..MiEntries |-> IF i = 1 THEN [NoEntry EXCEPT !.assigned = FIXED] ELSE NoEntry],
              !.h = atp_open("gw", 0), !.known = {}, !.parse = 0]

\* The zones of the router come in pages; a router that does not answer
\* leaves the zone "*".  {} for a malformed answer.
RECURSIVE ZonePages(_, _, _)
ZonePages(all, page, from) ==
    LET n == Cardinality(all)
        to == IF from + page - 1 > n THEN n ELSE from + page - 1
    IN  {z \in all : z \in from..to} \cup (IF to >= n THEN {} ELSE ZonePages(all, page, to + 1))
get_zones(s) ==
    CASE s.cf.zip = "silent" -> {0}
      [] s.cf.zip = "bad" -> {}
      [] OTHER -> ZonePages(1..s.cf.zones, s.cf.page, 1)

\* The socket and the name are each tried four times.
OpenTries == 4
macip_open(s, socks, names) ==
    LET z == get_zones(s)
        opened == [init_ip(s) EXCEPT !.zones = z, !.gate = "up"]
    IN  IF socks >= OpenTries \/ names >= OpenTries \/ z = {}
        THEN [init_ip(s) EXCEPT !.gate = "down"]
        ELSE nbp_lookup_req(opened, 1..MiEntries)

(***************************************************************************)
(* The nodes.                                                              *)
(***************************************************************************)
Off == [on |-> 0, ip |-> 0, tid |-> 0]
Ask(s, c) == Datagram("atp", c, 0, [NoPacket EXCEPT !.f = "req", !.from = c, !.to = "gw", !.tid = s.node[c].tid,
                                                    !.xo = s.cf.xo, !.bm = {0}, !.body = <<"assign">>])
Status(s, c) == [Ask(s, c) EXCEPT !.pkt.body = <<"server">>, !.pkt.tid = s.node[c].tid + 100, !.pkt.xo = 0]
Release(s, c) == [Ask(s, c) EXCEPT !.pkt.f = "rel"]
Sends(s, ds) == [s EXCEPT !.wire = @ \cup ds]

NodeAsks(c) ==
    /\ mi.node[c].on = 0 /\ mi.cf.asks > 0 /\ mi.gate # "down"
    /\ LET s == [Spend(mi, "asks") EXCEPT !.node[c] = [on |-> 1, ip |-> 0, tid |-> mi.cf.asks]]
       IN  mi' = Sends(s, {Ask(s, c)})

NodeRetries(c) ==
    /\ mi.node[c].on = 1 /\ mi.node[c].ip = 0 /\ mi.cf.again > 0
    /\ mi' = Sends(Spend(mi, "again"), {Ask(mi, c), Status(mi, c)})

\* An echo is answered from the address it went to, if that is the node's.
NodeReceives(c) ==
    \E d \in mi.back :
        /\ d.from = c
        /\ LET n == mi.node[c]
               s == [mi EXCEPT !.back = @ \ {d}]
               mine == n.on = 1 /\ n.ip = 0 /\ d.kind = "resp" /\ d.pkt.tid = n.tid /\ d.pkt.body[1] = "assign"
           IN  mi' = IF mine
                     THEN Sends([s EXCEPT !.node[c].ip = d.pkt.body[2], !.known = @ \cup {c}],
                                IF d.pkt.body[2] # 0 /\ s.cf.xo = 1 THEN {Release(mi, c)} ELSE {})
                     ELSE IF n.on = 1 /\ n.ip # 0 /\ d.ip = n.ip /\ d.kind = "echo"
                     THEN Sends(s, {Datagram("ip", c, n.ip, NoPacket)})
                     ELSE IF n.on = 1 /\ n.ip # 0 /\ d.kind = "lkup"
                     THEN Sends(s, {Datagram("nbp", c, n.ip, NoPacket)})
                     ELSE s

NodeLeaves(c) ==
    /\ mi.node[c].on = 1 /\ mi.cf.leaves > 0
    /\ mi' = [Spend(mi, "leaves") EXCEPT
                !.node[c] = Off, !.known = @ \ {c},
                !.wire = {d \in @ : d.from # c}, !.back = {d \in @ : d.from # c}]

\* Any other NBP packet of a node.
NodeOdd(c) ==
    /\ mi.node[c].on = 1 /\ mi.cf.odd > 0
    /\ mi' = Sends(Spend(mi, "odd"), {Datagram("nbpodd", c, 0, NoPacket)})

Lost ==
    /\ mi.cf.drops > 0
    /\ \/ \E d \in mi.wire : mi' = [Spend(mi, "drops") EXCEPT !.wire = @ \ {d}]
       \/ \E d \in mi.back : mi' = [Spend(mi, "drops") EXCEPT !.back = @ \ {d}]

(***************************************************************************)
(* The gateway's loop.                                                     *)
(***************************************************************************)
\* A tunnel that cannot be opened or set up ends the start.
tunnel_open(s, bad) == IF bad > 0 THEN {} ELSE {s}
Start ==
    /\ mi.gate = "off"
    /\ \E bad, socks, names \in {0, mi.cf.fails} :
           mi' = IF tunnel_open(mi, bad) = {} THEN [mi EXCEPT !.gate = "down"]
                 ELSE macip_open(mi, socks, names)

ServerInput ==
    /\ mi.gate \in {"up", "blocked"}
    /\ \E d \in mi.wire :
           LET s == [mi EXCEPT !.wire = @ \ {d}]
           IN  mi' = IF mi.gate = "up" THEN macip_input(s, d) ELSE Swallow(s, d)

TunnelInput ==
    /\ mi.gate = "up" /\ mi.cf.tun > 0
    /\ \E ip \in 2..MiEntries : mi' = macip_output(Spend(mi, "tun"), ip, "data")

ServerIdle ==
    /\ mi.gate = "up" /\ mi.cf.quiet > 0 /\ mi.wire = {} /\ mi.back = {}
    /\ \E due \in SUBSET {i \in 1..MiEntries : mi.ent[i].assigned = LEASED} :
           due # {} /\ mi' = macip_idle(Spend(mi, "quiet"), due)

\* The gateway stops and is started again; the nodes stay.
Crash ==
    /\ mi.gate \in {"up", "blocked"} /\ mi.cf.crashes > 0
    /\ mi' = [Spend(mi, "crashes") EXCEPT !.gate = "off", !.wire = {}, !.back = {}, !.known = {}]

MiInit ==
    \E c \in MiConfigs :
        mi = init_ip([cf |-> c, gate |-> "off", ent |-> <<>>, h |-> atp_open("gw", 0), parse |-> 0, zones |-> {},
                      node |-> [n \in MiNodes |-> IF n \in DOMAIN c.fixed
                                                  THEN [on |-> 1, ip |-> c.fixed[n], tid |-> 0] ELSE Off],
                      wire |-> {}, back |-> {}, known |-> {}])

MiNext ==
    \/ Start
    \/ ServerInput
    \/ TunnelInput
    \/ ServerIdle
    \/ Crash
    \/ Lost
    \/ \E c \in MiNodes : NodeAsks(c) \/ NodeRetries(c) \/ NodeReceives(c) \/ NodeLeaves(c) \/ NodeOdd(c)

MiSpec == MiInit /\ [][MiNext]_miVars

\* A node the gateway gave an address or heard from, that answers its probes,
\* keeps the address: its entry stays taken and names that node, so
\* that the packets for the address go there and no other node is given it
\* (lease_ip, arp_set, macip_idle).
LeaseHeld ==
    \A c \in MiNodes :
        mi.gate \in {"up", "blocked"} /\ mi.node[c].ip # 0 /\ c \in mi.known =>
            /\ mi.ent[mi.node[c].ip].assigned = LEASED
            /\ mi.ent[mi.node[c].ip].sat = c
=============================================================================
