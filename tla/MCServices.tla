----------------------------- MODULE MCServices -----------------------------
(***************************************************************************)
(* The services beside the file service: Spotlight, the notifier of file   *)
(* changes, the SRP verifiers and afppasswd, the nad tools and             *)
(* their archives (ServicesSpec); atalkd, ASP, printing and the MacIP      *)
(* gateway (AppleTalkSpec).  The initial state picks one of Parts to run;  *)
(* the others rest.                                                        *)
(***************************************************************************)
EXTENDS Integers, Sequences, TLC

CONSTANT Parts

VARIABLES part,
          sl, mq, xi,      \* Spotlight: queries, marshalling, the index
          fx,              \* change events
          ps, mg,          \* afppasswd, and the move of its file
          ar, hx,          \* MacBinary and BinHex archives
          nt,              \* nad
          at,              \* atalkd
          asn, asl,        \* an ASP session, and the listener
          pp, pq,          \* a print session, and papd's listener
          mi               \* the MacIP gateway

(***************************************************************************)
(* Two queries on each backend, with failing calls, lost results and       *)
(* queries that nobody fetches.                                            *)
(***************************************************************************)
Found == [a |-> <<3, 1, 5>>, b |-> <<1, 2>>, c |-> <<>>, d |-> <<1, 2, 3, 4, 5, 6, 7>>]
Open(t, f) == [terms |-> t, filter |-> f, bad |-> 0]
Local == [backend |-> "local", limit |-> 0, hidden |-> {2}, found |-> Found,
          opens |-> {Open(<<"a">>, {})}, errs |-> 0, resets |-> 0, allocs |-> 0, packs |-> 0,
          ticks |-> 0]
Cnid == [Local EXCEPT !.backend = "cnid", !.ticks = 2,
                      !.opens = {Open(<<"a", "b">>, {}), Open(<<"d">>, {}), Open(<<"d", "a">>, {}),
                                 Open(<<"c", "d">>, {4, 7}), Open(<<>>, {})}]
SlConfigs ==
  {[Local EXCEPT !.opens = {Open(<<"a", "b">>, {}), Open(<<"b">>, {1})}, !.ticks = 1],
   [Local EXCEPT !.errs = 1, !.allocs = 1, !.ticks = 1],
   [Local EXCEPT !.packs = 1, !.resets = 1,
                 !.opens = {Open(<<"a">>, {}), [Open(<<"a">>, {}) EXCEPT !.bad = 1]}],
   Cnid, [Cnid EXCEPT !.limit = 2, !.errs = 1],
   [Cnid EXCEPT !.opens = {Open(<<"d", "a">>, {})}, !.allocs = 1, !.packs = 1, !.hidden = {1, 2, 3}],
   [Cnid EXCEPT !.backend = "xapian", !.errs = 1, !.resets = 1]}
SlQueries == 2
SlContexts == {1, 2}
SlPage == 2
SlMinFind == 1
SlStart == 2
SlGrowth == 2
SlMaxCap == 6
SlIdleActive == 1
SlIdleTerminal == 2

(***************************************************************************)
(* Replies of arrays of two values of every kind, some nested, in a buffer *)
(* that holds them and in one that does not.                               *)
(***************************************************************************)
V(t, v, e) == [t |-> t, v |-> v, e |-> e]
Seven == V("int", <<7>>, <<>>)
Text(n) == V("string", [i \in 1..n |-> i], <<>>)
Nil == V("nil", <<>>, <<>>)
MqRooms == {20, 80}
MqToc == 10
MqDepth == 20
MqDelta == 1000
Leaf ==
  {Seven, Text(1), Text(8), Text(9), V("bool", <<0>>, <<>>), V("bool", <<1>>, <<>>), Nil,
   V("float", <<3>>, <<>>), V("date", <<MqDelta + 5>>, <<>>), V("uuid", <<1, 2>>, <<>>)}
  \cup {V("cnids", s, <<>>) : s \in {<<9>>, <<9, 4>>, <<9, 4, 5>>}}
Array(e) == V("array", <<>>, e)
Filemeta(e) == V("filemeta", <<>>, e)
Nested ==
  {Array(<<>>), Array(<<Text(8), Seven>>),
   V("dict", <<>>, <<Text(1), Seven, Text(9), Array(<<Seven>>)>>),
   Filemeta(<<>>), Filemeta(<<Array(<<>>)>>),
   Filemeta(<<Array(<<Nil, Array(<<Text(9), Seven>>), Array(<<Text(3)>>)>>)>>)}
MqValues == {Array(<<Array(<<a, b>>), c>>) : a \in Leaf \cup Nested, b \in Leaf \cup Nested, c \in Nested}

(***************************************************************************)
(* An index two sessions keep, one process at a time, over logins and a    *)
(* process that dies.                                                      *)
(***************************************************************************)
XiSessions == {1, 2}
XiDirs == {"d", "e"}
XiFiles == {"f"}
Index == [files |-> {<<"d">>, <<"d", "f">>}, reqs |-> 4, fails |-> 1, blind |-> 0, logins |-> 2,
          deaths |-> 1, atonce |-> 1]
XiConfigs == {Index, [Index EXCEPT !.reqs = 5, !.fails = 0, !.blind = 1, !.deaths = 0, !.logins = 1]}
S == INSTANCE Spotlight

(***************************************************************************)
(* One and two listeners, one of them deaf, with held back, coalesced,     *)
(* ignored and over-long events, lost datagrams and failing sends.         *)
(***************************************************************************)
FceListeners == {"l", "m"}
FceDirs == {"d", "e"}
FceFiles == {"d/f", "g", "dx"}
FceAbove == {<<"d", "d/f">>}
FcePrefix == {<<"d", "d/f">>, <<"d", "dx">>}
FceHistory == 2
FceRetry == 2
FceIds == 16
Told == [tree |-> [p \in FceDirs \cup FceFiles |-> IF p \in {"d", "g"} THEN 1 ELSE 0],
         listeners |-> {"l"}, deaf |-> {}, coalesce |-> {}, hold |-> 0, ignore |-> {}, below |-> {},
         long |-> {}, ops |-> {"fcreate", "dcreate", "copy", "write", "delete", "move", "logout"},
         reqs |-> 3, fails |-> 1, drops |-> 1, ticks |-> 1]
FceConfigs ==
  {Told, [Told EXCEPT !.hold = 1, !.ops = @ \ {"logout"}], [Told EXCEPT !.long = {"d/f"}, !.reqs = 2],
   [Told EXCEPT !.listeners = {"l", "m"}, !.reqs = 2, !.drops = 0, !.fails = 2],
   [Told EXCEPT !.listeners = {"l", "m"}, !.deaf = {"m"}, !.reqs = 1],
   [Told EXCEPT !.listeners = {}, !.reqs = 1], [Told EXCEPT !.ignore = {"g"}, !.below = {"d"}, !.reqs = 1],
   [Told EXCEPT !.coalesce = {"create", "delete"}, !.reqs = 3, !.fails = 0, !.drops = 0]}
F == INSTANCE Fce

(***************************************************************************)
(* Two runs of afppasswd at a time on the store and on the Randnum file,   *)
(* with a failing call and a crash; and the move of the old file into the  *)
(* store, with writers beside it.                                          *)
(***************************************************************************)
PsProcs == {"p", "q"}
PsNames == {"x", "y"}
ByRoot(o) == [root |-> 1, opts |-> o, name |-> "x"]
ByUser(o) == [root |-> 0, opts |-> o, name |-> "x"]
Randnum(n) == [ByRoot({"a", "r"}) EXCEPT !.name = n]
Srp == [opts |-> {ByRoot({"a"}), ByRoot({"d"}), ByUser({}), ByRoot({})}, alone |-> {"create", "rcreate"},
        jobs |-> 3, fails |-> 1, crashes |-> 1, dir |-> 1, in |-> 1, own |-> "user", rec |-> 1,
        rn |-> <<>>, key |-> 1]
NoStore == [Srp EXCEPT !.dir = 0, !.in = 0, !.rec = 0]
Rn == [Srp EXCEPT !.opts = {Randnum("x"), ByRoot({"r", "c", "f"}), ByRoot({"r", "c"})},
                  !.alone = {"radd", "rcreate"}, !.crashes = 0]
Row(u) == [u |-> u, v |-> 1, key |-> 1]
PsConfigs ==
  {Srp, [Srp EXCEPT !.in = 0, !.own = "root", !.rec = 0], [Srp EXCEPT !.own = "root", !.rec = -3],
   [NoStore EXCEPT !.own = "root",
                   !.opts = {ByRoot({"c"}), ByRoot({"c", "u"}), ByRoot({"a"}), ByUser({})}],
   [NoStore EXCEPT !.opts = {ByUser({"c", "p", "f"}), ByUser({"c", "p"}), ByUser({})}, !.jobs = 2,
                   !.fails = 2, !.alone = {"private"}],
   [Rn EXCEPT !.rn = <<Row("x")>>, !.opts = @ \cup {Randnum("y")}],
   [Rn EXCEPT !.rn = <<Row("x"), Row("y")>>, !.opts = {Randnum("x"), Randnum("y")},
              !.alone = {"create", "rcreate"}],
   [Rn EXCEPT !.key = 0], [Rn EXCEPT !.key = -1]}
MgUsers == {"u", "v"}
MgBackups == 2
Old == [fails |-> 2, crashes |-> 1, writes |-> 0, runs |-> 2, bad |-> 0, old |-> 0]
MgConfigs == {Old, [Old EXCEPT !.old = 1, !.fails = 3, !.crashes = 0], [Old EXCEPT !.bad = 1],
              [Old EXCEPT !.writes = 1, !.fails = 1]}
P == INSTANCE SrpStore

(***************************************************************************)
(* MacBinary files of all versions, whole, cut and damaged, forks of every *)
(* length around a block, and the options of nad bin and unbin; BinHex     *)
(* archives with escapes, other line ends, text before them, and cuts.     *)
(***************************************************************************)
ArBlock == 4
ArBuffer == 3
ArNameMax == 2
Bytes(n) == [i \in 1..n |-> i]
Sizes == {0, 1, 3, 4, 6}
Fin == [tc |-> 1, hi |-> 2, lo |-> 3, x |-> 4]
Mac(d, r) ==
  [name |-> <<1>>, fin |-> Fin, data |-> Bytes(d), rsrc |-> Bytes(r), len |-> [data |-> d, rsrc |-> r],
   vol |-> 1, exists |-> 0, dir |-> 0]
V3 == [b0 |-> 0, name |-> <<1>>, tc |-> 1, hi |-> 2, b74 |-> 0, b82 |-> 0, len |-> [data |-> 0, rsrc |-> 0],
       lo |-> 3, magic |-> 1, x |-> 4, crc |-> 1]
Two == [V3 EXCEPT !.magic = 0, !.x = 0]
One == [Two EXCEPT !.lo = 0, !.crc = 0, !.b74 = 5]
Heads == {<<V3, Fin>>, <<Two, [Fin EXCEPT !.x = 0]>>,
          <<[Two EXCEPT !.lo = 0, !.b74 = 3], [Fin EXCEPT !.x = 0]>>,
          <<One, [Fin EXCEPT !.x = 0, !.lo = 0]>>,
          <<[One EXCEPT !.b82 = 1], [tc |-> 0, hi |-> 0, lo |-> 0, x |-> 0]>>}
Blocks(n) == Bytes(n) \o [i \in 1..((4 - (n % 4)) % 4) |-> 127]
Packed(h, d, r, p) ==
  [head |-> [h[1] EXCEPT !.len = [data |-> d, rsrc |-> r]], fin |-> h[2], body |-> Blocks(d) \o Blocks(r),
   pipe |-> p, exists |-> 0, dir |-> 0]
Bin(fs) == [mode |-> "bin", here |-> 1, force |-> 0, name |-> <<>>, stdout |-> 0, header |-> 0,
            files |-> fs, fails |-> 1, late |-> 0]
Unbin(fs) == [Bin(fs) EXCEPT !.mode = "unbin"]
Archived == Packed(<<V3, Fin>>, 1, 1, 0)
ArConfigs ==
  {Bin(<<Mac(d, r)>>) : d \in Sizes, r \in Sizes}
  \cup {Unbin(<<Packed(h, d, r, p)>>) : h \in Heads, d \in Sizes, r \in Sizes, p \in {0, 1}}
  \cup {Unbin(<<[Packed(<<V3, Fin>>, d, r, p) EXCEPT !.body = SubSeq(@, 1, Len(@) - k)]>>) :
          d \in {0, 1, 6}, r \in {1, 6}, p \in {0, 1}, k \in {1, 3, 4, 6}}
  \cup {[Bin(<<[Mac(2, 1) EXCEPT !.vol = v], Mac(1, 0)>>) EXCEPT
           !.here = h, !.force = f, !.stdout = o, !.header = e] :
          v \in {0, 1}, h \in {0, 1}, f \in {0, 1}, o \in {0, 1}, e \in {0, 1}}
  \cup {[Unbin(<<Archived>>) EXCEPT !.here = 0, !.force = f] : f \in {0, 1}}
  \cup {Bin(<<[Mac(2, 1) EXCEPT !.exists = 1], Mac(1, 0)>>), Unbin(<<[Archived EXCEPT !.exists = 1]>>)}
  \cup {Bin(<<[Mac(2, 2) EXCEPT !.len = [data |-> d, rsrc |-> r]]>>) :
          <<d, r>> \in {<<1, 2>>, <<3, 2>>, <<2, 1>>, <<2, 3>>}}
  \cup {Bin(<<[Mac(0, 0) EXCEPT !.dir = 1], Mac(1, 0)>>), Bin(<<[Mac(2, 2) EXCEPT !.name = <<1, 2, 3>>]>>),
        [Bin(<<Mac(1, 1), Mac(1, 0)>>) EXCEPT !.name = <<9>>]}
HqxLine == 7
HqxShortest == 3
HqxBuffer == 16
HqxTc == 2
HqxName == 2
Hqx(d, r) == [name |-> <<66>>, tc |-> <<144, 5>>, flags |-> <<255, 17>>, data |-> d, rsrc |-> r,
              cut |-> -1, eol |-> <<10>>, junk |-> <<>>]
Contents == {<<>>, <<1>>, <<144>>, <<0, 144>>, <<144, 144, 2>>, <<65, 0, 0, 7>>}
HqxConfigs ==
  {[files |-> <<Hqx(d, r)>>, chunk |-> 2, read |-> k] : d \in Contents, r \in Contents, k \in {1, 8}}
  \cup {[files |-> <<[Hqx(<<65, 0, 0, 7>>, r) EXCEPT !.cut = c], Hqx(<<1>>, <<144>>)>>,
         chunk |-> k, read |-> 5] : r \in {<<>>, <<144, 144, 2>>}, k \in {1, 3}, c \in 0..60}
  \cup {[files |-> <<[Hqx(d, <<144>>) EXCEPT !.eol = l, !.junk = j]>>, chunk |-> 3, read |-> k] :
          d \in {<<>>, <<65, 0, 0, 7>>}, l \in {<<10>>, <<13>>, <<13, 10>>, <<10, 10>>},
          j \in {<<>>, <<58, 33, 34, 10>>, <<33, 33, 10>>, <<58, 32, 33, 33, 33, 33>>}, k \in {3, 16}}
A == INSTANCE Archive

(***************************************************************************)
(* A tree over two volumes and a folder outside, and one or more commands, *)
(* with a failing call and a signal; an entry may be closed, a link or a   *)
(* fifo.                                                                   *)
(***************************************************************************)
NtFirst == 17
Obj(kind, in, name, root, bytes) ==
  [here |-> 1, used |-> 1, kind |-> kind, in |-> in, name |-> name, root |-> root, data |-> bytes,
   rf |-> 0, fin |-> 0, closed |-> 0]
Unused == [Obj("none", 0, "", 0, 0) EXCEPT !.here = 0, !.used = 0]
Forked(o) == [o EXCEPT !.rf = o.data + 10, !.fin = o.data + 20]
Tree ==
  <<Obj("dir", 0, "V", 1, 0), Obj("dir", 0, "W", 2, 0), Obj("dir", 0, "O", 3, 0),
    Obj("dir", 1, "d", 1, 0), Forked(Obj("file", 4, "f", 1, 11)), Obj("file", 4, "g", 1, 12),
    Forked(Obj("file", 1, "h", 1, 13)), Obj("dir", 2, "k", 2, 0), Obj("dir", 3, "p", 3, 0),
    Obj("file", 9, "q", 3, 14), Unused, Unused, Unused, Unused, Unused, Unused>>
NtRow(id, ino, did, name) == [id |-> id, ino |-> ino, did |-> did, name |-> name]
NtRows ==
  <<{NtRow(17, 4, 2, "d"), NtRow(18, 5, 17, "f"), NtRow(19, 6, 17, "g"), NtRow(20, 7, 2, "h")},
    {NtRow(17, 8, 2, "k")}>>
Do(op, src, dst, flags) == [op |-> op, src |-> src, dst |-> dst, flags |-> flags]
Vd == <<1, "d">>
Vf == <<1, "d", "f">>
Vh == <<1, "h">>
Vmn == <<1, "m", "n">>
Wk == <<2, "k">>
Op == <<3, "p">>
Nad(cmds) == [vol |-> <<"ea", "ea", "none">>, objs |-> Tree, rows |-> NtRows, cmds |-> cmds, fails |-> 1,
              signals |-> 1, exdev |-> 0]
Moves == {<<Vd, Wk>>, <<Vd, <<2, "n">>>>, <<Vh, Vd>>, <<Vh, Vf>>, <<Vf, <<1, "x">>>>, <<Vd, <<1, "e">>>>,
          <<Op, Vd>>, <<Op, <<3, "x">>>>, <<Op, <<2, "x">>>>, <<Vd, <<3, "x">>>>, <<Vh, <<3, "p", "q">>>>,
          <<Vd, <<1, "d", "x">>>>}
Commands ==
  {Do("mv", m[1], m[2], {}) : m \in Moves}
  \cup {Do("cp", m[1], m[2], {"R"}) : m \in {<<Vd, Wk>>, <<Vd, <<1, "e">>>>, <<Op, Vd>>, <<Vd, Vh>>}}
  \cup {Do("cp", m[1], m[2], {}) : m \in {<<Vh, Vf>>, <<Vd, Wk>>, <<Vh, Vh>>, <<Vh, <<1, "y", "z">>>>}}
  \cup {Do(op, Vh, Vf, {"n"}) : op \in {"mv", "cp"}} \cup {Do("cp", Vh, Vf, {"f"})}
  \cup {Do("rm", o, <<>>, {"R"}) : o \in {Vd, Op}} \cup {Do("rm", o, <<>>, {}) : o \in {Vd, Vh}}
  \cup {Do("mkdir", o, <<>>, {}) : o \in {<<1, "m">>, Vmn, <<3, "m">>}}
  \cup {Do("mkdir", o, <<>>, {"p"}) : o \in {Vmn, <<1, "h", "n">>}}
  \cup {Do("rmdir", o, <<>>, {}) : o \in {Wk, Vd, <<1>>}} \cup {Do("rmdir", o, <<>>, {"p"}) : o \in {Wk, Vmn}}
Scripts ==
  {<<Do("cp", Vd, Wk, {"R"}), Do("mv", <<2, "k", "d">>, <<2, "z">>, {})>>,
   <<Do("mv", Vd, Wk, {}), Do("mv", <<2, "k", "d">>, Vd, {})>>,
   <<Do("mv", Vh, Vf, {}), Do("cp", Vf, Vh, {})>>}
Folders ==
  {<<Do("mkdir", Vmn, <<>>, {"p"}), Do("rmdir", Vmn, <<>>, {"p"})>>,
   <<Do("mkdir", Vmn, <<>>, {"p"}), Do("mv", Vh, Vmn, {}), Do("rmdir", Vmn, <<>>, {"p"}),
     Do("rm", <<1, "m">>, <<>>, {"R"}), Do("rmdir", Vmn, <<>>, {"p"})>>}
Whole == {Do("cp", Vd, Wk, {"R"}), Do("mv", Vd, Wk, {}), Do("rm", Vd, <<>>, {"R"})}
NtConfigs ==
  {Nad(<<c>>) : c \in Commands} \cup {Nad(c) : c \in Scripts} \cup {[Nad(c) EXCEPT !.fails = 0] : c \in Folders}
  \cup {[Nad(<<Do("mv", Vh, Vd, {})>>) EXCEPT !.exdev = 1]}
  \cup {[Nad(<<Do("mv", m[1], m[2], {})>>) EXCEPT !.vol = <<"v2", "v2", "none">>] :
          m \in {<<Vd, Wk>>, <<Vh, Vd>>}}
  \cup {[Nad(<<c>>) EXCEPT !.objs[6].closed = 1, !.objs[6].kind = "dir"] : c \in Whole}
  \cup {[Nad(<<c>>) EXCEPT !.objs[6].kind = "fifo"] : c \in Whole}
  \cup {[Nad(<<c>>) EXCEPT !.objs[6].kind = "link", !.objs[6].data = 5] : c \in Whole}
N == INSTANCE NadTools

(***************************************************************************)
(* A host on one wire, in either phase, and a router between two wires,    *)
(* just booted or after quiet ticks.                                       *)
(***************************************************************************)
NetSeq == <<"n1", "n2", "n3">>
ZonesOf == [n \in {"n1", "n2", "n3"} |->
              IF n = "n1" THEN <<"za">> ELSE IF n = "n2" THEN <<"zb">> ELSE <<"za", "zc">>]
Dists == {0, 31}
Objects == {"x"}
MaxEntries == 1
Arg(p, v) == [p |-> p, v |-> v]
Line(n, a) == [name |-> n, args |-> a]
Host == [lines |-> <<Line("eth0", <<>>)>>, wire |-> <<"n1">>, gif |-> [g \in {"g1"} |-> 1],
         nets |-> {"n1", "n3"}, ereply |-> 0, nbp |-> 1, past |-> <<>>]
Router == [lines |-> <<Line("eth0", <<Arg("router", ""), Arg("phase", "2"), Arg("net", "n1"), Arg("addr", "n1"),
                                      Arg("zone", "za")>>), Line("eth1", <<>>)>>,
           wire |-> <<"n1", "n2">>, gif |-> [g \in {"g1"} |-> 2], nets |-> {"n2", "n3"}, ereply |-> 0,
           nbp |-> 0, past |-> <<>>]
AtalkdConfigs ==
  {Host, [Host EXCEPT !.lines = <<Line("eth0", <<Arg("phase", "1"), Arg("net", "n1"), Arg("addr", "n1")>>)>>],
   [Host EXCEPT !.ereply = 1, !.nbp = 0],
   Router, [Router EXCEPT !.gif = [g \in {"g1", "g2"} |-> IF g = "g1" THEN 1 ELSE 2], !.nets = {"n3"},
                          !.past = <<0, 0, 0, 2, 0, 0, 0, 0, 0, 0>>]}
D == INSTANCE Atalkd

(***************************************************************************)
(* One or two calls, signals, stray requests and a failing wait.           *)
(***************************************************************************)
AspTries == 2
AspPackets == 2
MaxReadErrors == 2
Calls(script) == [script |-> script, signals |-> {}, strays |-> {}, fail |-> 0]
AspConfigs ==
  {Calls(<<"cmd", "write">>), [Calls(<<"cmd">>) EXCEPT !.signals = {"down"}],
   [Calls(<<"write">>) EXCEPT !.signals = {"mesg"}],
   [Calls(<<"cmd">>) EXCEPT !.strays = {"short", "sid", "func", "zero"}],
   [Calls(<<"write">>) EXCEPT !.fail = 1]}
AspSessions == 2
AcBad == 3
AspPids == 4
Z == INSTANCE Asp WITH AtpMaxQueue <- 2, AtpResponses <- 8

(***************************************************************************)
(* Jobs and queries of a few lines with lost packets, saved responses that *)
(* grow old, tickles, idle timeouts, and papd told to stop.                *)
(***************************************************************************)
LpHalf == 3
LpBuffer == 5
PapQuantum == 2
PapTries == 2
PapIdleLimit == 1
PapWire == 4
Job == <<"a3", "title", "endc", "text">>
Short == <<"ax", "endc", "begf">>
Prints(fs) == [files |-> fs, auth |-> "none", noeof |-> 0, tickles |-> 0, idle |-> 0, lose |-> 0, age |-> 0,
               stop |-> 0, flap |-> 0]
PapConfigs ==
  {[Prints(<<Job>>) EXCEPT !.lose = 1], Prints(<<Job, Short>>), Prints(<<<<"q3", "bQ", "e", "eof">>, Short>>),
   [Prints(<<Short>>) EXCEPT !.stop = 1], [Prints(<<Short>>) EXCEPT !.flap = 2],
   [Prints(<<Short>>) EXCEPT !.noeof = 1], [Prints(<<Short>>) EXCEPT !.tickles = 1],
   [Prints(<<Short>>) EXCEPT !.idle = 3], [Prints(<<Short>>) EXCEPT !.lose = 1, !.age = 1]}
Printers(es) == [entries |-> es, dests |-> <<"A", "B">>, noatalk |-> 0, forkfail |-> 0]
Printer(n) == [name |-> n, auto |-> 0, piped |-> 0, bad |-> 0]
Auto == [Printer("cups") EXCEPT !.auto = 1]
PapdClients == {"c1"}
PapdSockets == <<"p1", "p2", "p3", "p4", "p5">>
PapdOpens == 2
PapdMangles == 2
PapdConfigs ==
  {Printers(<<Printer("A")>>), [Printers(<<Printer("A"), Auto, Auto>>) EXCEPT !.noatalk = 1],
   [Printers(<<Printer("C"), Printer("A"), Printer("C"), [Printer("P") EXCEPT !.piped = 1],
               [Printer("X") EXCEPT !.bad = 1]>>) EXCEPT !.forkfail = 1]}
B == INSTANCE PapPrint WITH AtpMaxQueue <- 3, AtpResponses <- 8

(***************************************************************************)
(* Two nodes that ask for addresses, with lost and repeated requests,      *)
(* nodes that leave, quiet timers, fixed routes, failures and a restart.   *)
(***************************************************************************)
MiNodes == {"m", "n"}
MiEntries == 5
MiRetries == 2
Fixed(ns) == [n \in ns |-> 4]
Leases == [xo |-> 0, asks |-> 2, drops |-> 1, again |-> 0, leaves |-> 0, quiet |-> 3, tun |-> 0,
           fixed |-> Fixed({}), fails |-> 0, zones |-> 1, page |-> 1, zip |-> "ok", odd |-> 0, crashes |-> 0]
MiConfigs ==
  {Leases, [Leases EXCEPT !.again = 1, !.quiet = 2], [Leases EXCEPT !.xo = 1, !.again = 1, !.drops = 0, !.quiet = 2],
   [Leases EXCEPT !.asks = 3, !.leaves = 2, !.drops = 0, !.quiet = 5],
   [Leases EXCEPT !.asks = 1, !.fixed = Fixed({"m"}), !.tun = 2, !.zones = 3, !.page = 2],
   [Leases EXCEPT !.asks = 1, !.fixed = Fixed({"m"}), !.tun = 1, !.zip = "silent"],
   [Leases EXCEPT !.zip = "bad"], [Leases EXCEPT !.fails = 4],
   [Leases EXCEPT !.fails = 3, !.crashes = 1, !.asks = 1, !.quiet = 1, !.odd = 1]}
M == INSTANCE MacIp WITH AtpMaxQueue <- 8, AtpResponses <- 8

-----------------------------------------------------------------------------
spotlight == <<sl, mq, xi>>
srp == <<ps, mg>>
archives == <<ar, hx>>
asp == <<asn, asl>>
printing == <<pp, pq>>
services == <<spotlight, fx, srp, archives, nt>>
appleTalk == <<at, asp, printing, mi>>
all == <<part, services, appleTalk>>

MCInit ==
  /\ part \in Parts
  /\ IF part = "queries" THEN S!SlInit ELSE sl = <<>>
  /\ IF part = "marshal" THEN S!MqInit ELSE mq = <<>>
  /\ IF part = "index" THEN S!XiInit ELSE xi = <<>>
  /\ IF part = "events" THEN F!FceInit ELSE fx = <<>>
  /\ IF part = "afppasswd" THEN P!PsInit ELSE ps = <<>>
  /\ IF part = "migrate" THEN P!MgInit ELSE mg = <<>>
  /\ IF part = "macbinary" THEN A!ArInit ELSE ar = <<>>
  /\ IF part = "binhex" THEN A!HxInit ELSE hx = <<>>
  /\ IF part = "nad" THEN N!NtInit ELSE nt = <<>>
  /\ IF part = "atalkd" THEN D!AtalkdInit ELSE at = <<>>
  /\ IF part = "asp" THEN Z!AspInit ELSE asn = <<>>
  /\ IF part = "listener" THEN Z!AspListenerInit ELSE asl = <<>>
  /\ IF part = "print" THEN B!PapInit ELSE pp = <<>>
  /\ IF part = "papd" THEN B!PapdInit ELSE pq = <<>>
  /\ IF part = "macip" THEN M!MiInit ELSE mi = <<>>

SpotlightStep ==
  /\ \/ part = "queries" /\ S!SlNext /\ UNCHANGED <<mq, xi>>
     \/ part = "marshal" /\ S!MqNext /\ UNCHANGED <<sl, xi>>
     \/ part = "index" /\ S!XiNext /\ UNCHANGED <<sl, mq>>
  /\ UNCHANGED <<part, fx, srp, archives, nt, appleTalk>>
EventsStep ==
  part = "events" /\ F!FceNext /\ UNCHANGED <<part, spotlight, srp, archives, nt, appleTalk>>
SrpStep ==
  /\ \/ part = "afppasswd" /\ P!PsNext /\ UNCHANGED mg
     \/ part = "migrate" /\ P!MgNext /\ UNCHANGED ps
  /\ UNCHANGED <<part, spotlight, fx, archives, nt, appleTalk>>
ArchiveStep ==
  /\ \/ part = "macbinary" /\ A!ArNext /\ UNCHANGED hx
     \/ part = "binhex" /\ A!HxNext /\ UNCHANGED ar
  /\ UNCHANGED <<part, spotlight, fx, srp, nt, appleTalk>>
NadStep == part = "nad" /\ N!NtNext /\ UNCHANGED <<part, spotlight, fx, srp, archives, appleTalk>>

AtalkdStep == part = "atalkd" /\ D!AtalkdNext /\ UNCHANGED <<part, services, asp, printing, mi>>
AspStep ==
  /\ \/ part = "asp" /\ Z!AspNext /\ UNCHANGED asl
     \/ part = "listener" /\ Z!AspListenerNext /\ UNCHANGED asn
  /\ UNCHANGED <<part, services, at, printing, mi>>
PrintStep ==
  /\ \/ part = "print" /\ B!PapNext /\ UNCHANGED pq
     \/ part = "papd" /\ B!PapdNext /\ UNCHANGED pp
  /\ UNCHANGED <<part, services, at, asp, mi>>
MacIpStep == part = "macip" /\ M!MiNext /\ UNCHANGED <<part, services, at, asp, printing>>

ServicesSpec ==
  MCInit /\ [][SpotlightStep \/ EventsStep \/ SrpStep \/ ArchiveStep \/ NadStep]_all
AppleTalkSpec == MCInit /\ [][AtalkdStep \/ AspStep \/ PrintStep \/ MacIpStep]_all

-----------------------------------------------------------------------------
(* Properties *)

(* A search result is delivered to the query it was made for, every match is
   found however the result buffer grows, a reply reads back as what was packed,
   and the index of a volume knows every file once its passes are over (Spotlight:
   CallbackHasQuery, AllFound, RoundTrip, IndexKnown; slq_close, sl_pack_len,
   sl_xapian_mark_dirty). *)
SearchAnswers ==
  /\ part = "queries" => S!SlTypeOK /\ S!CallbackHasQuery /\ S!AllFound
  /\ part = "marshal" => S!RoundTrip
  /\ part = "index" => S!IndexKnown

(* A listener that has seen every event ID has a true copy of what the session
   changed (Fce: ListenerFollows; send_fce_event, save_close_event). *)
EventsFollow == part = "events" => F!FceTypeOK /\ F!ListenerFollows

(* Two runs of afppasswd, failures and crashes leave each user's verifier whole,
   and the move of the old file into the store loses none (SrpStore:
   CredentialsKept, MigrationKeeps; srp_store_put, migrate). *)
VerifiersKept ==
  /\ part = "afppasswd" => P!PsTypeOK /\ P!CredentialsKept
  /\ part = "migrate" => P!MgTypeOK /\ P!MigrationKeeps

(* The forks and Finder info of a file survive MacBinary and BinHex, or nad says
   that they did not, and nad mv, cp, rm, mkdir and rmdir lose nothing that they
   were not told to remove, whatever fails (Archive: ArchiveWhole, HexRoundTrip;
   NadTools: ToolsKeep). *)
NadKeeps ==
  /\ part = "macbinary" => A!ArchiveWhole
  /\ part = "binhex" => A!HexRoundTrip
  /\ part = "nad" => N!ToolsKeep

(* The routing table, the zone table, the kernel's routes and the registered names
   agree (Atalkd: ZoneMapsAgree, OneKernelRoute, NamesFound, WrittenConfigReads),
   and the MacIP gateway never leases one address to two nodes (MacIp: LeaseHeld). *)
RoutesAgree ==
  /\ part = "atalkd" => D!AtalkdTypeOK /\ D!ZoneMapsAgree /\ D!OneKernelRoute
                        /\ D!WrittenConfigReads /\ D!NamesFound
  /\ part = "macip" => M!LeaseHeld

(* A session over ASP performs a call at most once, with its own data, and the
   client takes the answer to its own call (Asp: AspImplements; atp_rsel,
   asp_getrequest). *)
AspCallsOnce ==
  /\ part = "asp" => Z!C!CallInit
  /\ [][part = "asp" => [Z!C!CallNext]_(Z!C!callVars)]_asn

(* The tickle timer ends only sessions whose own client was silent (Asp:
   SilentOnly; tickle_handler). *)
AspSilent ==
  [][part = "listener" => \A p \in asl'.termed \ asl.termed : asl.heard[p] + 1 >= AcBad - 1]_asl

(* What is printed is what pap sent, and pap reports success only for a printed
   job (PapPrint: StreamIntact, PrintedWhole, SuccessIsPrinted); a repeated OPEN
   gets one session process and a stopped papd leaves no name behind (PapPrint:
   OneSessionPerOpen, NoNameLeft). *)
PrintsWhole ==
  /\ part = "print" => B!PapTypeOK /\ B!StreamIntact /\ B!PrintedWhole /\ B!SuccessIsPrinted
  /\ part = "papd" => B!PapdTypeOK /\ B!OneSessionPerOpen /\ B!NoNameLeft
=============================================================================
