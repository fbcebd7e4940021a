------------------------------- MODULE Atalkd -------------------------------
(***************************************************************************)
(* The AppleTalk daemon (etc/atalkd): its configuration file, the boot of  *)
(* the interfaces, the routing table (RTMP), the zone table (ZIP), the     *)
(* names (NBP) and the ten-second timer.  SIGALRM is blocked while a       *)
(* packet is handled, so every handler and every tick is one step.         *)
(*                                                                         *)
(* A net stands for a range; ranges of different nets are disjoint, "any"  *)
(* is 0-fffe and "startup" the startup range.  A route is named by its     *)
(* interface, gateway and net; an interface's own by "own".  An operator that may   *)
(* make atalkd exit returns a state with up = 0.                           *)
(***************************************************************************)
EXTENDS Integers, Sequences, FiniteSets, TLC, SequencesExt, FiniteSetsExt

CONSTANTS NetSeq, ZonesOf,       \* the nets, and the zones of each
          Dists,                 \* the distances a router announces
          Objects, MaxEntries,   \* names to register, and how many at a time
          AtalkdConfigs          \* the lines of atalkd.conf, the net of each wire,
                                 \* the wire of each router, the nets routers tell
                                 \* of, whether they send extended replies, whether
                                 \* names are registered; what happened before (a
                                 \* tick, or the answer for an interface)

VARIABLE at

MaxHops == 15
Poison == 31
(* rt_state and g_state *)
PERM == 0
GOOD == 1
BAD == 4
UNSTABLE == 2

Nets == Range(NetSeq)
Zones == UNION {Range(ZonesOf[n]) : n \in Nets}
Own(i) == <<i, "own", "own">>
Via(s, g, n) == <<s.cfg.gif[g], g, n>>
IsOwn(k) == k[2] = "own"
IfaceOf(k) == k[1]
Exit(s) == [s EXCEPT !.up = 0]
(* What rtmp_new and rtmp_replace search: the route's interface and routers. *)
Searched(s, k, i) == i = IfaceOf(k) \/ s.ifs[i].isr = 1
Overlap(m, n) == m = n \/ m = "any" \/ n = "any"

-----------------------------------------------------------------------------
(* config.c: a line becomes an interface, or an error (ok = 0) *)

newiface(name) ==
  [ok |-> 1, name |-> name, ph |-> {}, seed |-> 0, rseed |-> 0, dont |-> 0, isr |-> 0,
   net |-> "none", caddr |-> "zero", czt |-> <<>>]
newrt(net) == [net |-> net, hops |-> 0, state |-> PERM, inuse |-> 1, kern |-> 0,
               has |-> 0, query |-> 0, nzq |-> 0, zt |-> <<>>]

NoRoute == [newrt("none") EXCEPT !.inuse = 0]
Known(s) == {k \in DOMAIN s.rt : s.rt[k].net # "none"}

Bad(f) == [f EXCEPT !.ok = 0]
router(f) ==
  IF f.dont = 1 \/ f.czt # <<>> THEN Bad(f)
  ELSE [f EXCEPT !.rseed = 1, !.seed = 1, !.isr = 1]
dontroute(f) == IF f.rseed = 1 THEN Bad(f) ELSE [f EXCEPT !.dont = 1]
seed(f) == IF f.czt # <<>> THEN Bad(f) ELSE [f EXCEPT !.seed = 1]
phase(f, v) == IF v \notin {"1", "2"} THEN Bad(f) ELSE [f EXCEPT !.ph = @ \cup {v}]
net(f, v) ==
  IF \/ f.ph = {}
     \/ "1" \in f.ph /\ v = "any"
     \/ f.caddr # "zero" /\ ~Overlap(v, f.caddr)
  THEN Bad(f) ELSE [f EXCEPT !.net = v]
addr(f, v) ==
  IF f.net # "none" /\ ~Overlap(f.net, v) THEN Bad(f)
  ELSE [f EXCEPT !.caddr = v, !.net = IF @ = "none" THEN v ELSE @]
(* The second and later zones go in right behind the first. *)
zone(f, v) ==
  IF f.seed = 0 THEN f
  ELSE IF f.net = "none" THEN Bad(f)
  ELSE [f EXCEPT !.czt = IF @ = <<>> THEN <<v>> ELSE <<@[1], v>> \o Tail(@)]

Param(f, a) ==
  IF f.ok = 0 THEN f
  ELSE CASE a.p = "router" -> router(f)
         [] a.p = "dontroute" -> dontroute(f)
         [] a.p = "seed" -> seed(f)
         [] a.p = "phase" -> phase(f, a.v)
         [] a.p = "net" -> net(f, a.v)
         [] a.p = "addr" -> addr(f, a.v)
         [] a.p = "zone" -> zone(f, a.v)
         [] OTHER -> Bad(f)
(* The flags are all clear, or a phase is shared: the line repeats another. *)
Repeats(f, g) ==
  /\ f.name = g.name
  /\ \/ f.ph \cap g.ph # {}
     \/ \E h \in {f, g} : h.ph = {} /\ h.seed = 0 /\ h.dont = 0
(* The interfaces, or <<>> when a line is wrong or there is none. *)
ReadLines(fs) ==
  IF \E j \in DOMAIN fs : fs[j].ok = 0 \/ \E m \in 1..(j - 1) : Repeats(fs[j], fs[m])
  THEN <<>> ELSE fs
readconf(lines) ==
  ReadLines([j \in DOMAIN lines |-> FoldLeft(Param, newiface(lines[j].name), lines[j].args)])
(* Without a usable file every device of the kernel becomes an interface. *)
getifconf(c) == [j \in DOMAIN c.wire |-> newiface(c.lines[j].name)]

writeconf_flat(s) ==  \* the phase is left out when it is the default
  [j \in DOMAIN s.ifs |->
     [name |-> s.ifs[j].name, args |-> <<[p |-> "net", v |-> s.rt[Own(j)].net]>>]]
(* A leading -router or -seed; the zones the net has, not those configured. *)
writeconf(s) ==
  [j \in DOMAIN s.ifs |->
     LET f == s.ifs[j]
         r == s.rt[Own(j)]
         Flag(b, p) == IF b = 1 THEN <<[p |-> p, v |-> ""]>> ELSE <<>>
     IN [name |-> f.name,
         args |-> Flag(f.rseed, "router")
                  \o Flag(IF f.rseed = 1 THEN 0 ELSE f.seed, "seed")
                  \o Flag(f.dont, "dontroute")
                  \o <<[p |-> "phase", v |-> IF "1" \in f.ph THEN "1" ELSE "2"],
                       [p |-> "net", v |-> r.net],
                       [p |-> "addr", v |-> IF "1" \in f.ph THEN f.anet ELSE r.net]>>
                  \o [k \in DOMAIN r.zt |-> [p |-> "zone", v |-> r.zt[k]]]]]

-----------------------------------------------------------------------------
(* Boot and addresses (main.c) *)

looproute(s, i, add) ==  \* -1 for a route that is there, or that is not
  IF s.ifs[i].loop = add THEN <<-1, s>> ELSE <<0, [s EXCEPT !.ifs[i].loop = add]>>
(* Linux takes net 0 for phase 1 until a router names the net. *)
setaddr(s, i, a) == [s EXCEPT !.ifs[i].anet = a]
bootaddr(s) ==
  IF s.cur > Len(s.ifs) THEN s
  ELSE IF s.ifs[s.cur].addr = 1 THEN Exit(s)
  ELSE [setaddr(s, s.cur, "zero") EXCEPT !.ifs[s.cur].time = @ + 1,
                                         !.ifs[s.cur].addr = 1, !.stimer = UNSTABLE]
BootNext(s, i) == IF i = s.cur THEN bootaddr([s EXCEPT !.cur = @ + 1]) ELSE s
(* The interface is configured once its address is routed to loopback. *)
Looped(s, l, i) == IF l[1] # 0 THEN Exit(s) ELSE BootNext([l[2] EXCEPT !.ifs[i].conf = 1], i)
Configured(s, i) == Looped(s, looproute(s, i, 1), i)

Phase(f) == IF f.ph = {} THEN {"2"} ELSE f.ph
Net(f) == IF f.net # "none" THEN f.net ELSE IF "1" \in Phase(f) THEN f.caddr ELSE "startup"
Interface(f, routable) ==
  [name |-> f.name, ph |-> Phase(f), seed |-> f.seed, rseed |-> f.rseed, dont |-> f.dont,
   isr |-> IF f.isr = 1 \/ (routable > 1 /\ f.dont = 0) THEN 1 ELSE 0,
   czt |-> f.czt, caddr |-> IF f.caddr = "zero" THEN Net(f) ELSE f.caddr,
   anet |-> "zero", addr |-> 0, conf |-> 0, nor |-> 0, loop |-> 0, time |-> 0]
Boot(s) == IF s.up = 1 THEN bootaddr(s) ELSE s
main_ifaces(c, fs) ==
  Boot([up |-> IF Len(fs) = 1 /\ fs[1].seed = 1 /\ fs[1].rseed = 0 THEN 0 ELSE 1,
        cfg |-> c, cur |-> 1,
        ifs |-> [j \in DOMAIN fs |->
                   Interface(fs[j], Cardinality({m \in DOMAIN fs : fs[m].dont = 0}))],
        rt |-> [k \in {Own(j) : j \in DOMAIN fs} \cup {<<c.gif[g], g, n>> : g \in DOMAIN c.gif, n \in Nets} |->
                IF IsOwn(k) THEN newrt(Net(fs[k[1]])) ELSE NoRoute],
        gl |-> [j \in DOMAIN fs |-> <<>>], gst |-> [g \in DOMAIN c.gif |-> GOOD],
        ziptab |-> <<>>, zrt |-> [z \in Zones |-> {}], bcast |-> {}, multi |-> {},
        reg |-> <<>>, stable |-> 0, stimer |-> UNSTABLE, newr |-> 0, par |-> 0, sq |-> 0])
main_read(c, fs) == main_ifaces(c, IF fs = <<>> THEN getifconf(c) ELSE fs)
main(c) == main_read(c, readconf(c.lines))

-----------------------------------------------------------------------------
(* The zone table (zip.c) *)

(* -1, which ends atalkd, when the two lists disagree. *)
addzone(s, k, z) ==
  IF (k \in s.zrt[z]) # (z \in Range(s.rt[k].zt)) THEN Exit(s)
  ELSE IF k \in s.zrt[z] THEN s
  ELSE [s EXCEPT !.ziptab = IF z \in Range(@) THEN @ ELSE Append(@, z),
                 !.zrt[z] = @ \cup {k}, !.rt[k].zt = Append(@, z)]
addzones(s, k, zs) == FoldLeft(LAMBDA t, z : addzone(t, k, z), s, zs)
(* On a seed interface the net has to have the configured zones, no more. *)
zonecheck(s, i) ==
  \/ s.ifs[i].seed = 0
  \/ /\ Range(s.ifs[i].czt) \subseteq Range(s.rt[Own(i)].zt)
     /\ Len(s.ifs[i].czt) = Len(s.rt[Own(i)].zt)
Checked(s, k) == IF IsOwn(k) /\ ~zonecheck(s, k[1]) THEN Exit(s) ELSE s

(* A zone without routes is freed, its multicast address with it. *)
Unmapped(s, k, zrt2) == {z \in Range(s.rt[k].zt) : zrt2[z] = {}}
ZonesFreed(s, k, zrt2, gone) ==
  [s EXCEPT !.rt[k].zt = <<>>, !.zrt = zrt2, !.bcast = @ \ gone,
            !.ziptab = SelectSeq(@, LAMBDA z : z \notin gone)]
rtmp_delmap(s, k, zrt2) == ZonesFreed(s, k, zrt2, Unmapped(s, k, zrt2))
rtmp_delzonemap(s, k) ==
  rtmp_delmap(s, k, [z \in Zones |-> IF z \in Range(s.rt[k].zt) THEN s.zrt[z] \ {k} ELSE s.zrt[z]])

(* The zones move over with the map back to the route. *)
rtmp_copyzones(s, to, from) ==
  LET zs == Range(s.rt[from].zt)
  IN IF \E z \in zs : from \notin s.zrt[z] THEN Exit(s)
     ELSE [s EXCEPT !.rt[to].zt = s.rt[from].zt, !.rt[from].zt = <<>>,
                    !.rt[to].has = IF s.rt[from].has = 1 THEN 1 ELSE @,
                    !.zrt = [z \in Zones |-> IF z \in zs THEN (s.zrt[z] \ {from}) \cup {to}
                                             ELSE s.zrt[z]]]

-----------------------------------------------------------------------------
(* The routing table (rtmp.c) *)

gateroute(s, k, add) == IF IsOwn(k) THEN s ELSE [s EXCEPT !.rt[k].kern = add]
rtmp_delinuse(s, k) ==
  IF IsOwn(k) THEN s
  ELSE gateroute(rtmp_delzonemap([s EXCEPT !.rt[k].inuse = 0], k), k, 0)
rtmp_addinuse(s, k) == [gateroute(s, k, 1) EXCEPT !.rt[k].inuse = 1]
rtmp_free_mapped(s, k) == [s EXCEPT !.rt[k] = NoRoute]  \* the zones keep the route
rtmp_free(s, k) ==
  [IF s.rt[k].inuse = 1 THEN rtmp_delinuse(s, k) ELSE s EXCEPT !.rt[k] = NoRoute]

(* The shortest route to the net, the first of equals in list order. *)
ListedGates(s, k) ==
  FlattenSeq([i \in DOMAIN s.gl |-> IF Searched(s, k, i) THEN s.gl[i] ELSE <<>>])
ListedRoutes(s, k, gs) ==
  SelectSeq([j \in DOMAIN gs |-> <<s.cfg.gif[gs[j]], gs[j], k[3]>>], LAMBDA x : x \in Known(s))
Shortest(s, ks) ==
  ks[Min({j \in DOMAIN ks : \A m \in DOMAIN ks : s.rt[ks[j]].hops <= s.rt[ks[m]].hops})]
Best(s, k) == Shortest(s, ListedRoutes(s, k, ListedGates(s, k)))
(* [s, cc]: cc = 1 when no other route was better. *)
Rerouted(s, c, k) == [s |-> IF s.rt[k].state = BAD THEN rtmp_free(c, k) ELSE c, cc |-> 0]
ReplacedBy(s, k, f) ==
  IF f = k
  THEN [s |-> IF s.rt[k].hops = Poison THEN gateroute(s, k, 0) ELSE s, cc |-> 1]
  ELSE Rerouted(s, rtmp_addinuse(rtmp_delinuse(rtmp_copyzones(s, f, k), k), f), k)
rtmp_replace(s, k) == ReplacedBy(s, k, Best(s, k))
(* In the order of the interfaces, an interface's own route before the others. *)
First(s, ks) ==
  CHOOSE x \in ks : \A y \in ks :
    \/ IfaceOf(x) < IfaceOf(y)
    \/ IfaceOf(x) = IfaceOf(y) /\ (IsOwn(x) \/ ~IsOwn(y))
(* A new route is used unless there is a shorter one, or a range it overlaps. *)
UsedFor(s, k) ==
  {r \in Known(s) : /\ s.rt[r].inuse = 1 /\ Searched(s, k, IfaceOf(r))
                    /\ Overlap(s.rt[r].net, s.rt[k].net)}
NewBeside(s, k, r) ==
  IF s.rt[r].net # s.rt[k].net \/ s.rt[r].hops < s.rt[k].hops THEN s
  ELSE rtmp_addinuse(rtmp_delinuse(rtmp_copyzones(s, k, r), r), k)
NewAmong(s, k, rs) ==
  IF rs = {} THEN rtmp_addinuse(s, k) ELSE NewBeside(s, k, First(s, rs))
rtmp_new(s, k) == NewAmong([s EXCEPT !.newr = 1], k, UsedFor(s, k))

(* Phase 1: the net of the router's packet becomes that of the interface, unless
   the configuration seeds another one. *)
rtmp_config(s, i, n) ==
  IF s.ifs[i].anet = n THEN Configured(s, i)
  ELSE IF s.ifs[i].seed = 1 /\ n # s.ifs[i].caddr THEN s
  ELSE Configured(setaddr([s EXCEPT !.rt[Own(i)].net = n, !.stimer = UNSTABLE], i, n), i)

KnownRoute_noadd(t, r, k, hops) ==  \* a poisoned route comes back, the kernel's does not
  IF r.hops = hops \/ (r.hops = Poison /\ hops > MaxHops) THEN t
  ELSE IF r.inuse = 0 \/ r.hops > hops THEN [t EXCEPT !.rt[k].hops = hops]
  ELSE rtmp_replace([t EXCEPT !.rt[k].hops = IF hops > MaxHops THEN Poison ELSE hops], k).s
(* A tuple about a net the gateway has told of before. *)
KnownRoute(t, r, k, hops) ==
  IF r.hops = hops \/ (r.hops = Poison /\ hops > MaxHops) THEN t
  ELSE IF r.inuse = 0 THEN [t EXCEPT !.rt[k].hops = hops]
  ELSE IF r.hops > hops
  THEN [(IF r.hops = Poison THEN gateroute(t, k, 1) ELSE t) EXCEPT !.rt[k].hops = hops]
  ELSE rtmp_replace([t EXCEPT !.rt[k].hops = IF hops > MaxHops THEN Poison ELSE hops], k).s
KnownTuple(s, k, hops) == KnownRoute([s EXCEPT !.rt[k].state = GOOD], s.rt[k], k, hops)
(* A net that is new for the gateway, unless too far away. *)
NewTuple(s, k, hops) ==
  IF hops > MaxHops THEN s
  ELSE rtmp_new([s EXCEPT !.rt[k] = [newrt(k[3]) EXCEPT !.hops = hops, !.inuse = 0,
                                                        !.state = GOOD]], k)
Tuple(s, k, dist) ==
  IF k \in Known(s) THEN KnownTuple(s, k, dist + 1) ELSE NewTuple(s, k, dist + 1)

(* Linux hands a packet to one socket: the last interface whose range holds the
   sender is taken for the one it came from. *)
PacketIface(s, g) ==
  LET is == {j \in DOMAIN s.ifs : Overlap(s.rt[Own(j)].net, s.cfg.wire[s.cfg.gif[g]])}
  IN IF is = {} THEN s.cfg.gif[g] ELSE Max(is)
(* Data from a router before the interface is configured. *)
SeenRouter(t, i, n) == IF "1" \in t.ifs[i].ph THEN rtmp_config(t, i, n) ELSE t
SeenAgain(s, l, i, n) ==
  IF l[1] < 0 THEN Exit(s)
  ELSE SeenRouter([l[2] EXCEPT !.ifs[i].nor = 0, !.ifs[i].time = 0], i, n)
RouterSeen(s, i, n) ==
  IF s.ifs[i].nor = 0 THEN SeenRouter(s, i, n) ELSE SeenAgain(s, looproute(s, i, 0), i, n)
(* The gateway comes first in the list of its interface when it is new.  In
   phase 2 the tuple of the wire itself is a tuple like the others. *)
GateHeard(s, g, i) == [s EXCEPT !.gl[i] = IF g \in Range(@) THEN @ ELSE <<g>> \o @, !.gst[g] = GOOD]
WireTuple(t, g, f, wire) == IF "1" \in f.ph THEN t ELSE Tuple(t, Via(t, g, wire), 0)
NetTuple(u, g, wire, n, dist) == IF u.up = 0 \/ n = wire THEN u ELSE Tuple(u, Via(u, g, n), dist)
rtmp_data(s, g, i, f, wire, n, dist) ==
  IF f.addr = 1 /\ f.conf = 0 THEN RouterSeen(s, i, wire)
  ELSE IF f.conf = 0 \/ ("1" \notin f.ph /\ s.rt[Own(i)].net # wire) THEN s
  ELSE NetTuple(WireTuple(GateHeard(s, g, i), g, f, wire), g, wire, n, dist)
rtmp_from(s, g, i, n, dist) == rtmp_data(s, g, i, s.ifs[i], s.cfg.wire[s.cfg.gif[g]], n, dist)
rtmp_packet(s, g, n, dist) == rtmp_from(s, g, PacketIface(s, g), n, dist)

-----------------------------------------------------------------------------
(* ZIP packets (zip.c).  k is the route of net n with gateway g, or the
   interface's own. *)

ZipKey(s, i, g, n) == IF s.rt[Own(i)].net = n THEN Own(i) ELSE Via(s, g, n)
(* The whole zone list of one net, for which a query must be out. *)
ZonesTaken(t, k) ==
  IF t.up = 0 \/ t.rt[k].has = 0 THEN t ELSE Checked([t EXCEPT !.rt[k].query = 0], k)
zip_reply_for(s, k, n) ==
  IF s.rt[k].inuse = 1 /\ s.rt[k].query = 1
  THEN ZonesTaken([addzones(s, k, ZonesOf[n]) EXCEPT !.rt[k].has = 1], k) ELSE ZonesTaken(s, k)
zip_reply_at(s, g, i, k, n) ==
  IF g \notin Range(s.gl[i]) \/ k \notin Known(s) THEN s ELSE zip_reply_for(s, k, n)
zip_reply_in(s, g, i, n) == zip_reply_at(s, g, i, ZipKey(s, i, g, n), n)
zip_reply(s, g, n) == zip_reply_in(s, g, s.cfg.gif[g], n)
(* One zone of a list that takes several packets.  Whether the route is in use
   is only logged. *)
ZoneTaken(t, k, n) ==
  IF t.up = 0 \/ Len(t.rt[k].zt) # Len(ZonesOf[n]) THEN t
  ELSE Checked([t EXCEPT !.rt[k].has = 1, !.rt[k].query = 0], k)
zip_ereply_at(s, g, i, k, n, z) ==
  IF g \notin Range(s.gl[i]) \/ k \notin Known(s) \/ s.rt[k].query = 0 THEN s
  ELSE ZoneTaken(addzone(s, k, z), k, n)
zip_ereply_in(s, g, i, n, z) == zip_ereply_at(s, g, i, ZipKey(s, i, g, n), n, z)
zip_ereply(s, g, n, z) == zip_ereply_in(s, g, s.cfg.gif[g], n, z)
(* A router answers GetNetInfo; the zone's multicast address is worked out. *)
zip_gni(s, i, z) ==
  LET zs == s.rt[Own(i)].zt
  IN IF s.ifs[i].isr = 0 \/ zs = <<>> \/ s.ifs[i].conf = 0 THEN s
     ELSE [s EXCEPT !.bcast = @ \cup {IF z \in Range(zs) THEN z ELSE zs[1]}]
(* The answer to ours: the default zone and the range of the wire. *)
NetInfo(t, i, n, seeded, other) ==
  IF t.up = 0 \/ (other /\ seeded = 1) THEN Exit(t)
  ELSE Configured(IF other THEN [t EXCEPT !.rt[Own(i)].net = n, !.stimer = UNSTABLE] ELSE t, i)
zip_gnireply_for(s, i, f, n, z) ==
  IF f.conf = 1 \/ "1" \in f.ph \/ f.addr = 0 THEN s
  ELSE IF f.seed = 1 /\ f.czt # <<>> /\ f.czt[1] # z THEN Exit(s)
  ELSE NetInfo(addzone(s, Own(i), z), i, n, f.seed, s.rt[Own(i)].net # n)
zip_gnireply_from(s, i, n) == zip_gnireply_for(s, i, s.ifs[i], n, ZonesOf[n][1])
zip_gnireply(s, i) == zip_gnireply_from(s, i, s.cfg.wire[i])
FirstZone(zs) == IF zs = <<>> THEN <<>> ELSE <<zs[1]>>
(* GetZoneList and GetLocalZones over ATP, from the 1-based index on. *)
ZoneList(s, i, local, from) ==
  LET zs == IF local = 1 THEN s.rt[Own(i)].zt ELSE s.ziptab
  IN SubSeq(zs, IF from > 1 THEN from ELSE 1, Len(zs))
(* GetMyZone: the default zone of the interface. *)
GetMyZone(s, i) == FirstZone(s.rt[Own(i)].zt)
(* ZIPOP_QUERY: the zones so far of a net with a route in use. *)
zip_query(s, n) ==
  LET ks == {k \in Known(s) : s.rt[k].net = n /\ s.rt[k].inuse = 1}
  IN IF ks = {} THEN <<>> ELSE s.rt[First(s, ks)].zt

-----------------------------------------------------------------------------
(* Names (nbp.c) *)

Default(s) == s.rt[Own(1)].zt
(* The zone a name or a lookup is for: "*" is the first interface's default. *)
RgstrZone(s, z) == IF z # "*" THEN <<z>> ELSE FirstZone(Default(s))
IfacesOf(s, z) == {i \in DOMAIN s.ifs : z \in Range(s.rt[Own(i)].zt)}
nbp_rgstr_nojoin(s, i, o, z) ==  \* the address is worked out, the group not joined
  LET zs == RgstrZone(s, z)
      t == [s EXCEPT !.reg = <<[obj |-> o, zone |-> z, if |-> i]>> \o @]
  IN IF zs = <<>> THEN t
     ELSE IF zs[1] \notin Range(s.ziptab) \/ IfacesOf(s, zs[1]) = {} THEN s
     ELSE [t EXCEPT !.bcast = @ \cup {zs[1]}]
(* The first name in a zone joins its multicast group on the zone's wires. *)
nbp_rgstr(s, i, o, z) ==
  LET zs == RgstrZone(s, z)
      t == [s EXCEPT !.reg = <<[obj |-> o, zone |-> z, if |-> i]>> \o @]
      ph2 == {j \in IfacesOf(s, zs[1]) : "2" \in s.ifs[j].ph}
  IN IF zs = <<>> THEN t
     ELSE IF zs[1] \notin Range(s.ziptab) THEN s
     ELSE IF zs[1] \in s.bcast THEN t
     ELSE IF IfacesOf(s, zs[1]) = {} THEN s
     ELSE [t EXCEPT !.bcast = @ \cup {zs[1]}, !.multi = @ \cup (ph2 \X {zs[1]})]
(* The first entry of the name in the zone, by name or as the default zone. *)
nbp_unrgstr(s, o, z) ==
  LET Same(e) == /\ e.obj = o
                 /\ \/ e.zone = z
                    \/ z = "*" /\ <<e.zone>> = FirstZone(Default(s))
      js == {j \in DOMAIN s.reg : Same(s.reg[j])}
  IN IF js = {} THEN s ELSE [s EXCEPT !.reg = RemoveAt(@, Min(js))]
(* Entries of interfaces that do not route are told on their own wire only. *)
nbp_lkup(s, i, o, z) ==
  {e \in Range(s.reg) :
     /\ e.if = i \/ s.ifs[e.if].isr = 1
     /\ o \in {"=", e.obj}
     /\ \/ z \in {"*", e.zone}
        \/ e.zone = "*" /\ (Default(s) = <<>> \/ Default(s)[1] = z)}
(* The nets a lookup for zone z is sent to: local wires, or through a gateway.
   No zone at all: the wire it came from, or the first router interface. *)
nbp_brrq(s, i, z) ==
  LET zs == IF z # "*" THEN <<z>>
            ELSE IF s.rt[Own(i)].zt # <<>> THEN FirstZone(s.rt[Own(i)].zt)
            ELSE FirstZone(Default(s))
  IN IF zs = <<>> THEN {Own(Min({j \in DOMAIN s.ifs : j = i \/ s.ifs[j].isr = 1}))}
     ELSE s.zrt[zs[1]]

-----------------------------------------------------------------------------
(* The timer (main.c) *)

(* An interface that has an address and no answer yet. *)
NoRouter(s, i) == [s EXCEPT !.ifs[i].nor = 1]
HasZones(z, k) == IF z.rt[k].zt = <<>> THEN z ELSE [z EXCEPT !.rt[k].query = 0, !.rt[k].has = 1]
SeedAddress(s, i, f) == IF "1" \in f.ph THEN setaddr(s, i, f.caddr) ELSE s
SeedTick(z, i, f) ==
  IF z.up = 0 THEN z ELSE Configured(SeedAddress(HasZones(z, Own(i)), i, f), i)
AloneTick(s, l, i) == IF l[1] # 0 THEN Exit(s) ELSE BootNext(l[2], i)
StartupNet(s, i, f) == IF "2" \in f.ph THEN [s EXCEPT !.rt[Own(i)].net = "startup"] ELSE s
BootTick_iface(s, i, f) ==
  IF f.addr = 0 \/ f.conf = 1 \/ f.nor = 1 THEN s
  ELSE IF f.time < 3
  THEN [s EXCEPT !.ifs[i].time = @ + 1,
                 !.newr = IF "1" \in f.ph THEN 1 ELSE @,
                 !.sq = IF "1" \in f.ph THEN @ ELSE 1]
  ELSE IF f.isr = 1 /\ f.seed = 0 THEN [NoRouter(s, i) EXCEPT !.ifs[i].time = 0]
  ELSE IF f.isr = 1
  THEN SeedTick(addzones([NoRouter(s, i) EXCEPT !.ifs[i].conf = 1], Own(i), f.czt), i, f)
  ELSE AloneTick(s, looproute(StartupNet(NoRouter(s, i), i, f), i, 1), i)
BootTick(s, i) == BootTick_iface(s, i, s.ifs[i])

KeysOf(s, g) ==
  SelectSeq([j \in DOMAIN NetSeq |-> Via(s, g, NetSeq[j])], LAMBDA k : k \in Known(s))
(* A route that was not heard of in time: first poisoned, and freed later. *)
Expire(s, k) ==
  IF s.rt[k].hops = Poison \/ s.rt[k].inuse = 0 THEN [s |-> rtmp_free(s, k), cc |-> 0]
  ELSE rtmp_replace([s EXCEPT !.rt[k].hops = Poison], k)
(* A router that was not heard of in time. *)
DeadRoute(t, r, k, g) ==
  IF r.cc = 0 THEN r.s ELSE [r.s EXCEPT !.gst[g] = GOOD, !.rt[k].state = GOOD]
DeadRoutes(s, g) ==
  FoldLeft(LAMBDA t, k : IF t.up = 0 THEN t ELSE DeadRoute(t, Expire(t, k), k, g), s, KeysOf(s, g))
GateGone(t, i, g) ==
  IF KeysOf(t, g) # <<>> THEN t
  ELSE [t EXCEPT !.gl[i] = SelectSeq(@, LAMBDA x : x # g), !.gst[g] = GOOD]
ZonesGone(w, i) ==
  IF w.rt[Own(i)].zt = <<>> THEN w
  ELSE [rtmp_delzonemap(w, Own(i)) EXCEPT !.rt[Own(i)].has = 0]
AnyNet(x, i) == IF "2" \in x.ifs[i].ph THEN [x EXCEPT !.rt[Own(i)].net = "any"] ELSE x
LastGone(u, i) ==
  IF u.gl[i] # <<>> \/ u.ifs[i].seed = 1 \/ u.up = 0 THEN u
  ELSE AnyNet(ZonesGone([u EXCEPT !.ifs[i].nor = 1, !.ifs[i].conf = 0], i), i)
DeadGate(s, i, g) == LastGone(GateGone(DeadRoutes(s, g), i, g), i)
(* A live router: age its routes, and query the zones of those in use. *)
LateRoute(r, k) == IF r.cc = 0 THEN r.s ELSE [r.s EXCEPT !.rt[k].state = GOOD]
AgedRoute(a, k) ==
  IF a.rt[k].state >= BAD THEN LateRoute(Expire(a, k), k)
  ELSE IF a.rt[k].inuse = 1 /\ a.rt[k].has = 0
  THEN [a EXCEPT !.rt[k].nzq = Min({@ + 1, 4}), !.rt[k].query = 1,
                 !.sq = IF a.rt[k].nzq < 3 THEN 1 ELSE @]
  ELSE a
LiveRoutes(s, ks) ==
  FoldLeft(LAMBDA t, k : IF t.up = 0 THEN t ELSE AgedRoute([t EXCEPT !.rt[k].state = @ + 1], k), s, ks)
LiveGate(s, i, g) ==
  LiveRoutes(IF s.rt[Own(i)].has = 0 THEN [s EXCEPT !.rt[Own(i)].query = 1] ELSE s, KeysOf(s, g))
GateAged(t, i, g) == IF t.gst[g] >= BAD THEN DeadGate(t, i, g) ELSE LiveGate(t, i, g)
GateTick(s, i, g) == IF s.up = 0 THEN s ELSE GateAged([s EXCEPT !.gst[g] = @ + 1], i, g)
(* The RTMP data sent on interface i: nets with their zones, not back where
   they came from. *)
Advertised(s, i) ==
  {<<s.rt[k].net, s.rt[k].hops>> : k \in {j \in Known(s) :
     LET i2 == IfaceOf(j)
     IN /\ s.ifs[i].isr = 1 /\ s.ifs[i2].conf = 1 /\ s.ifs[i2].isr = 1
        /\ s.rt[j].inuse = 1 /\ s.rt[j].zt # <<>> /\ s.rt[j].query = 0 /\ s.rt[j].has = 1
        /\ s.ifs[i].rseed = 1 \/ i2 # i}}
(* Stable once nothing is asked for any more, or after long enough; the parent,
   which waits for the child to stop, goes on. *)
Stable(s) ==
  IF s.stable = 1 THEN s
  ELSE IF s.stimer <= 0 /\ s.newr = 0 /\ s.sq = 0 THEN [s EXCEPT !.stable = 1]
  ELSE [s EXCEPT !.stable = IF s.stimer <= -2 THEN 1 ELSE 0, !.stimer = @ - 1]
Resumed(t, was) ==
  [t EXCEPT !.newr = IF was = 1 THEN @ ELSE 0, !.par = IF t.stable = 1 THEN 1 ELSE @, !.sq = 0]
Settle(s) == IF s.up = 0 THEN s ELSE Resumed(Stable(s), s.stable)
GatesTick(b, waits, i) ==
  IF b.up = 0 \/ waits THEN b ELSE FoldLeft(LAMBDA u, g : GateTick(u, i, g), b, b.gl[i])
BootTicked(b, i, nor) == GatesTick(b, b.ifs[i].nor = 1 /\ nor = 0 /\ b.ifs[i].time = 0, i)
IfaceTick(t, i) == IF t.up = 0 THEN t ELSE BootTicked(BootTick(t, i), i, t.ifs[i].nor)
as_timer(s) == Settle(FoldLeft(IfaceTick, s, [j \in DOMAIN s.ifs |-> j]))

-----------------------------------------------------------------------------
(* A route that was freed while a zone still has it: what the next access does
   is undefined, and the model stops there. *)
Dangling(s) == \E z \in Zones : ~(s.zrt[z] \subseteq Known(s))
Runs == at.up = 1 /\ ~Dangling(at)
(* What is not read again once the tables are stable is not told apart. *)
Step(s) ==
  at' = IF s.stable = 0 THEN s
        ELSE [s EXCEPT !.stimer = 0, !.newr = 0,
                       !.rt = [k \in DOMAIN s.rt |-> [s.rt[k] EXCEPT !.nzq = 0]]]

NbpZones == {"*"} \cup UNION {Range(ZonesOf[n]) : n \in at.cfg.nets}
AtalkdTimer == Runs /\ Step(as_timer(at))
RtmpPacket == Runs /\ \E g \in DOMAIN at.cfg.gif, n \in at.cfg.nets, d \in Dists : Step(rtmp_packet(at, g, n, d))
ZipReply == Runs /\ at.cfg.ereply = 0 /\ \E g \in DOMAIN at.cfg.gif, n \in at.cfg.nets : Step(zip_reply(at, g, n))
ZipEreply == Runs /\ at.cfg.ereply = 1 /\ \E g \in DOMAIN at.cfg.gif, n \in at.cfg.nets :
               \E z \in Range(ZonesOf[n]) : Step(zip_ereply(at, g, n, z))
ZipGni == Runs /\ at.cfg.nbp = 1 /\ \E i \in DOMAIN at.ifs : \E z \in Range(ZonesOf[at.cfg.wire[i]]) : Step(zip_gni(at, i, z))
ZipGnireply == Runs /\ \E i \in Range(at.cfg.gif) : Step(zip_gnireply(at, i))
NbpRgstr == Runs /\ at.cfg.nbp = 1 /\ Len(at.reg) < MaxEntries
            /\ \E i \in DOMAIN at.ifs, o \in Objects, z \in NbpZones :
                 Step(nbp_rgstr(at, i, o, z))
NbpUnrgstr == Runs /\ \E o \in Objects, z \in NbpZones : Step(nbp_unrgstr(at, o, z))
AtalkdStopped == ~Runs /\ UNCHANGED at

(* Where the behaviour begins: at boot, or after some quiet ticks. *)
Past(s, e) == IF e = 0 THEN as_timer(s) ELSE zip_gnireply(s, e)
AtalkdInit == at \in {FoldLeft(Past, main(c), c.past) : c \in AtalkdConfigs}
AtalkdNext ==
  \/ AtalkdTimer \/ RtmpPacket \/ ZipReply \/ ZipEreply \/ ZipGni \/ ZipGnireply
  \/ NbpRgstr \/ NbpUnrgstr \/ AtalkdStopped
AtalkdSpec == AtalkdInit /\ [][AtalkdNext]_at

-----------------------------------------------------------------------------
AtalkdTypeOK ==
  /\ at.up \in {0, 1} /\ at.cur \in 1..(Len(at.ifs) + 1) /\ at.stimer \in -3..UNSTABLE
  /\ \A k \in Known(at) : at.rt[k].hops \in 0..32 /\ at.rt[k].state \in PERM..BAD

(* consistency(): a zone has routes that are in use, or interfaces' own, and
   each of them has the zone in its list. *)
consistency ==
  \A z \in Zones : \A k \in at.zrt[z] :
    k \in Known(at) /\ at.rt[k].inuse = 1 /\ z \in Range(at.rt[k].zt)

(* zone lists and route lists mirror each other when routers send their zones in
   one reply (rtmp_copyzones, rtmp_delzonemap, addzone keep them so through every
   change of route), every zone of GetZoneList has a net that a lookup for it is
   sent to, and the default zone of an interface is one of them. *)
ZoneMapsAgree ==
  at.cfg.ereply = 0 =>
    /\ consistency
    /\ \A k \in Known(at) : \A z \in Range(at.rt[k].zt) : k \in at.zrt[z]
    /\ \A i \in DOMAIN at.ifs :
         /\ \A z \in Range(ZoneList(at, i, 0, 0)) :
              nbp_brrq(at, i, z) # {} /\ nbp_brrq(at, i, z) \subseteq Known(at)
         /\ Range(GetMyZone(at, i)) \subseteq Range(ZoneList(at, i, 0, 0))
    /\ \A n \in Nets : Range(zip_query(at, n)) \in {{}, Range(ZonesOf[n])}

(* However routes are replaced, poisoned and freed, a net has one route in use,
   the kernel has routes that are in use only and every one that is not poisoned
   (gateroute), and a net told to other routers as reachable is in the kernel. *)
OneKernelRoute ==
  LET Used(k) == at.rt[k].inuse = 1
      Remote == {k \in Known(at) : ~IsOwn(k)}
  IN /\ \A k, j \in Remote : k # j /\ Used(k) /\ Used(j) => at.rt[k].net # at.rt[j].net
     /\ \A k \in Remote : /\ at.rt[k].kern = 1 => Used(k)
                          /\ Used(k) /\ at.rt[k].hops # Poison => at.rt[k].kern = 1
     /\ \A i \in DOMAIN at.ifs : \A a \in Advertised(at, i) :
          a[2] \in 1..MaxHops => \E k \in Remote : at.rt[k].net = a[1] /\ at.rt[k].kern = 1

(* The file written once the tables are stable can be read by the next start,
   whatever routers said of the nets and zones of the phase 2 interfaces. *)
WrittenConfigReads ==
  (\A i \in DOMAIN at.ifs : at.ifs[i].ph = {"2"}) => readconf(writeconf(at)) # <<>>

(* A registered name is found by a lookup in its zone on its own wire; on a host
   that does not route, a name registered in a zone of its wire joined the zone's
   multicast group, also when routers and zones came and went since. *)
NamesFound ==
  \A e \in Range(at.reg) :
    /\ e \in nbp_lkup(at, e.if, e.obj, e.zone)
    /\ e.zone # "*" /\ (\A i \in DOMAIN at.ifs : at.ifs[i].isr = 0 /\ "2" \in at.ifs[i].ph)
         => <<e.if, e.zone>> \in at.multi
=============================================================================
