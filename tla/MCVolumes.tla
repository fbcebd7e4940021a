----------------------------- MODULE MCVolumes -----------------------------
(***************************************************************************)
(* A volume and its sessions: share modes, the tables of CNIDs in SQLite   *)
(* and MySQL, their repair by dbd, the catalog requests through the        *)
(* directory cache, FPEnumerate, the hints between sessions, FPCatSearch,  *)
(* the desktop database, the times and the space of a volume, and the list *)
(* of volumes with its configuration.  The initial state picks one of      *)
(* Parts to run; the others rest.                                          *)
(***************************************************************************)
EXTENDS ShareModes, TLC

CONSTANTS Parts,
          CnProcs, CnNames, CnInos, None, Start, MaxHint, Ceiling, Attempts, MaxChanges,
          QuietOpen,
          MySessions, MyNames, MyInos, MyStart, MyMaxHint, MyCeiling, MyAttempts, MyReconnects,
          DbRoot, DbFirst, DbLast, DbSuffix,
          Pids, Objects, Tags, IpcCap, PipeCap, BufSize, RateLimit, ResetLimit, TrackSize,
          SeenSize, WaitBudget, MaxSecond, MaxGen,
          MaxEvents,             \* bound: changes and resets that are told
          CatNames, CatInos, CatLast, Volume,
          EnRoot, EnFolders, EnSlots, EnTabs, EnMisses, EnLast,
          CsRoot, CsBlock, CsRounds,
          DtSessions, DtKeys, DtPaths, DtInos,
          VtSessions, VtDelay, VtQuota, VtTm, VtMax, VtQuiet, VtLast,
          VcProcs, VcVids

VARIABLES part,
          rows, seq, depleted, dir, hdr, flag, told, call, known, changes,
          state, view, gen, stale, ipc, buf, track, seen, waits, pipe, second, passed,
          dropped, missed, events,
          my, db, cat, en, cs, dt, vt, vc

Symmetric ==
  UNION {Permutations(x) : x \in {Procs, Forks, CnNames, CnInos}}

T == INSTANCE CnidTable WITH Procs <- CnProcs, Names <- CnNames, Inos <- CnInos

(***************************************************************************)
(* Two sessions of a MySQL table, with lost connections, a wiped table and *)
(* an exhausted range.                                                     *)
(***************************************************************************)
MyHdr(id) == [i \in MyInos |-> IF i = 1 THEN id ELSE 0]
MyBase == [seq |-> 0, dir |-> [n \in MyNames |-> IF n = "a" THEN 1 ELSE 0], hdr |-> MyHdr(0),
           reqs |-> 3, lost |-> 0, busy |-> 0, preps |-> 0, outside |-> 1, wipes |-> 0,
           opens |-> 2, uuids |-> 0]
MyConfigs ==
  {MyBase, [MyBase EXCEPT !.lost = 1, !.busy = 1, !.reqs = 3],
   [MyBase EXCEPT !.lost = 2, !.reqs = 3, !.outside = 0, !.opens = 1],
   [MyBase EXCEPT !.hdr = MyHdr(2)],
   [MyBase EXCEPT !.wipes = 1, !.uuids = 1, !.outside = 0, !.opens = 3],
   [MyBase EXCEPT !.hdr = MyHdr(2), !.seq = 2, !.opens = 3, !.lost = 1, !.outside = 0]}
Y == INSTANCE CnidMysql

(***************************************************************************)
(* Volumes of either AppleDouble version with good, missing and damaged    *)
(* metadata, and rows that are missing, swapped or of other objects, under *)
(* every combination of the options of dbd.                                *)
(***************************************************************************)
Entry(in, name, kind) ==
  [in |-> in, name |-> name, kind |-> kind, here |-> 1, meta |-> "none", hint |-> 0,
   v2 |-> "none", v2hint |-> 0, hdr |-> "none", lists |-> {},
   file |-> [e \in {"x", "y"} |-> 0], addir |-> "none", oad |-> 0, oea |-> 0, closed |-> 0,
   base |-> "none"]
DbRow(id, ino, did, name) == [id |-> id, ino |-> ino, did |-> did, name |-> name]
Folder(x) == [x EXCEPT !.addir = "ok", !.meta = "ok"]
Meta(x, h) == [x EXCEPT !.meta = "ok", !.hint = h]
DbDecoded == [hex |-> "plain"]
Top == Entry("r", "/", "dir")
Good ==
  "r" :> [Folder(Top) EXCEPT !.oad = 1, !.oea = 1]
  @@ "d" :> Meta(Folder(Entry("r", "d", "dir")), 17)
  @@ "a" :> [Meta(Entry("r", "a", "file"), 18) EXCEPT
               !.hdr = "ok", !.lists = {"x", "y"}, !.file = "x" :> 1 @@ "y" :> 2]
  @@ "e" :> Entry("d", "e", "file")
Hinted == [Good EXCEPT !["e"].meta = "ok", !["e"].hint = 19, !["a"].hint = 17, !["d"].hint = 18]
Damaged ==
  {Good, [Good EXCEPT !["d"].addir = "none", !["d"].meta = "none"],
   [Good EXCEPT !["d"].addir = "bad"], [Good EXCEPT !["a"].meta = "bad", !["r"].meta = "none"],
   [Good EXCEPT !["a"].hdr = "bad", !["e"].meta = "ok", !["e"].hint = 18],
   Hinted, [Hinted EXCEPT !["d"].closed = 1]}
GoodRows == {DbRow(17, "d", 2, "d"), DbRow(18, "a", 2, "a"), DbRow(19, "e", 17, "e")}
OtherRows ==
  {GoodRows, {}, {DbRow(17, "e", 2, "e"), DbRow(18, "a", 2, "a")},
   {DbRow(17, "d", 2, "a"), DbRow(18, "a", 2, "d"), DbRow(19, "e", 17, "e")},
   {DbRow(17, "d", 2, "old"), DbRow(18, "a", 17, "a"), DbRow(20, "e", 17, "old")}}
DbV2 == [vol |-> "v2", ea |-> "ad", flags |-> {}, objs |-> Good, rows |-> GoodRows, fails |-> 1,
         removes |-> 0, signals |-> 0]
EaObjects ==
  "r" :> [Top EXCEPT !.addir = "ok", !.v2 = "ok", !.v2hint = 2]
  @@ "d" :> [Entry("r", "d", "dir") EXCEPT !.v2 = "ok", !.v2hint = 17, !.addir = "ok"]
  @@ "a" :> [Meta(Entry("r", "a", "file"), 18) EXCEPT !.v2 = "bad", !.v2hint = 9]
  @@ "e" :> [Entry("d", "e", "file") EXCEPT !.v2 = "empty"]
  @@ "h" :> Entry("r", "hex", "file") @@ "u" :> [Entry("r", "._a", "under") EXCEPT !.base = "q"]
  @@ "p" :> Entry("r", "p", "fifo") @@ "l" :> Entry("r", "l", "link")
  @@ "s" :> Entry("r", ".AppleDB", "special")
  @@ "w" :> [Entry("d", "._e", "own") EXCEPT !.base = "e"]
These(S) == [o \in S |-> EaObjects[o]]
EaRows == GoodRows \cup {DbRow(20, "h", 2, "hex")}
DbEa == [DbV2 EXCEPT !.vol = "ea", !.ea = "sys", !.objs = These({"r", "d", "a", "e", "h"}),
                     !.rows = EaRows]
DbConfigs ==
  {[DbV2 EXCEPT !.objs = x, !.rows = r, !.flags = f] :
     x \in Damaged, r \in OtherRows, f \in {{}, {"i"}, {"f"}, {"f", "i"}, {"s"}}}
  \cup {[DbEa EXCEPT !.flags = f, !.rows = r] :
     f \in {{}, {"c"}, {"c", "i"}, {"c", "f"}}, r \in {EaRows, {}, EaRows \ {DbRow(18, "a", 2, "a")}}}
  \cup {[DbEa EXCEPT !.objs = These({"r", "a", "u", "p", "l", "s"})],
        [DbEa EXCEPT !.objs = These({"r", "d", "e", "w"}), !.vol = "v2"],
        [DbEa EXCEPT !.objs = These({"r", "d", "e", "w"})],
        [DbEa EXCEPT !.removes = 1, !.signals = 1, !.flags = {"c"}, !.fails = 0],
        [DbV2 EXCEPT !.removes = 1, !.signals = 1], [DbV2 EXCEPT !.flags = {"c"}]}
B == INSTANCE Dbd

(***************************************************************************)
(* Three sessions, of which one object and one volume are of interest;     *)
(* sockets, pipes and the batch hold one hint.  Hints and resets mix       *)
(* within a second ("hints"); resets alone go on into the next ("resets"). *)
(***************************************************************************)
H == INSTANCE HintRelay

(***************************************************************************)
(* The folder "a" with the file "a" in it, or the file alone: two or three *)
(* requests alone with the volume, with siblings, and beside a local       *)
(* process.                                                                *)
(***************************************************************************)
Node(par, name, kind) == [par |-> par, name |-> name, kind |-> kind, hot |-> 0]
CatOps == {"get", "opendir", "createdir", "createfile", "delete", "rename", "move", "set",
           "createid", "resolveid"}
Alone == [tree |-> (2 :> Node(1, "a", "dir")) @@ (3 :> Node(2, "a", "file")), reqs |-> 3,
          sibs |-> 0, locs |-> 0, evicts |-> 1, ticks |-> 1, alone |-> 1, ops |-> CatOps,
          vals |-> {0}, probes |-> {0}]
Shared == [Alone EXCEPT !.evicts = 0, !.ticks = 0, !.alone = 0]
Changes == {"get", "rename", "createfile", "delete", "createdir"}
Moves == {"get", "move", "resolveid", "createid"}
CatConfigs ==
  {Alone,
   [Shared EXCEPT !.sibs = 2, !.reqs = 2, !.ops = Changes],
   [Shared EXCEPT !.sibs = 2, !.ops = {"get", "rename"}, !.tree = 2 :> Node(1, "a", "file")],
   [Shared EXCEPT !.sibs = 1, !.reqs = 2, !.ops = Moves, !.vals = {0, 1}],
   [Shared EXCEPT !.locs = 1, !.ops = Changes, !.vals = {0, -1}],
   [Shared EXCEPT !.locs = 1, !.reqs = 2, !.ops = Moves, !.vals = {0, 2}, !.probes = {0, 1}],
   [Shared EXCEPT !.ops = {"get", "rename", "deleteid", "createid"}]}
V == INSTANCE Catalog

(***************************************************************************)
(* A folder of three names and one of a single name; batches that are cut  *)
(* by count and by room, or that fail and are asked for again.             *)
(***************************************************************************)
EnNames == <<"a", "b", "c">>
Object(ino, kind) == [ino |-> ino, kind |-> kind, ct |-> 0]
NoObject == [ino |-> 0, kind |-> "none", ct |-> 0]
Ask(count, room, fail, read) == [count |-> count, room |-> room, fail |-> fail, read |-> read]
Files == {"file"}
Both == {"file", "dir"}
Listing(f, kinds) == [f |-> f, kinds |-> kinds]
OnePass ==
  [tree |-> "F" :> ("a" :> Object(1, "file") @@ "b" :> Object(2, "dir") @@ "c" :> Object(3, "file"))
            @@ "G" :> ("a" :> Object(4, "file") @@ "b" :> NoObject @@ "c" :> NoObject),
   types |-> 1, chg |-> {"a", "b", "c"}, rows |-> 0, reqs |-> 5, own |-> 0, sibs |-> 0, evicts |-> 0,
   vals |-> {0}, nolist |-> {0},
   asks |-> {Ask(2, 9, 0, 1), Ask(2, 1, 0, 1), Ask(2, 9, 1, 1), Ask(2, 9, 2, 1), Ask(1, 9, 0, 0)},
   pass |-> <<Listing("F", Both)>>]
Plain == [OnePass EXCEPT !.asks = {Ask(2, 9, 0, 1)}]
EnConfigs ==
  {OnePass,
   [OnePass EXCEPT !.pass = <<Listing("F", Both), Listing("F", Files)>>, !.types = 0],
   [OnePass EXCEPT !.pass = <<Listing("F", Both), Listing("G", Files), Listing("R", {"dir"})>>,
                   !.asks = {Ask(1, 9, 0, 1), Ask(2, 9, 2, 1)}, !.evicts = 1],
   [Plain EXCEPT !.own = 1, !.nolist = {0, 1}],
   [Plain EXCEPT !.own = 2, !.chg = {"c"}],
   [Plain EXCEPT !.sibs = 1, !.vals = {0, 1}, !.evicts = 1],
   [Plain EXCEPT !.rows = 1, !.chg = {"c"}, !.sibs = 2, !.reqs = 2]}
N == INSTANCE Enumerate

(***************************************************************************)
(* A tree of four folders: every criterion, folders without permissions, a *)
(* folder that vanishes, calls that fail, and the search in the database.  *)
(***************************************************************************)
Found(id, name, kind, mdate, attr) ==
  [id |-> id, name |-> name, kind |-> kind, mdate |-> mdate, attr |-> attr]
File(id, name) == Found(id, name, "file", 1, {})
Sub(id, name) == Found(id, name, "dir", 1, {})
CsTree ==
  "r" :> <<File("1", "x"), Sub("a", "da"), Found("2", "y", "file", 2, {"l"}), Sub("b", "db")>>
  @@ "a" :> <<File("3", "x"), Sub("c", "dc"), File("4", "z")>>
  @@ "b" :> <<File("5", "x"), Found("6", "s", "other", 1, {})>>
  @@ "c" :> <<File("7", "x"), File("8", "y")>>
Every == [kinds |-> {"file", "dir"}, from |-> 0, to |-> 9, name |-> "", partial |-> 0,
          mask |-> {}, attr |-> {}]
NameX == [Every EXCEPT !.name = "x"]
CsBase ==
  [tree |-> CsTree, mode |-> [d \in DOMAIN CsTree |-> "rx"],
   crits |-> <<Every, [Every EXCEPT !.from = 2, !.kinds = {"file"}]>>, rmatches |-> {1, 3},
   searches |-> 2, abandon |-> 1, searchdb |-> 0,
   rows |-> <<File("1", "x") @@ [in |-> "r"], File("3", "x") @@ [in |-> "a"],
              File("5", "x") @@ [in |-> "b"], File("7", "x") @@ [in |-> "c"]>>,
   removals |-> 0, fails |-> 0]
CsDb == [CsBase EXCEPT !.crits = <<NameX>>, !.searchdb = 1, !.abandon = 0, !.rmatches = {2, 3}]
CsConfigs ==
  {CsBase, [CsBase EXCEPT !.crits = <<[Every EXCEPT !.mask = {"l"}, !.attr = {"l"}], NameX>>],
   [CsBase EXCEPT !.mode["a"] = "x", !.searches = 1],
   [CsBase EXCEPT !.mode["c"] = "none", !.searches = 1],
   [CsBase EXCEPT !.removals = 1], [CsBase EXCEPT !.fails = 1],
   CsDb, [CsDb EXCEPT !.removals = 2, !.searches = 1]}
S == INSTANCE CatSearch

(***************************************************************************)
(* Two sessions that add icons, application mappings and comments to a new *)
(* desktop database, an old one or none, with failing calls and a session  *)
(* that ends in between.                                                   *)
(***************************************************************************)
Icons == [dir |-> "new", had |-> "k", ops |-> {"icon"}, reqs |-> 3, sizes |-> {1, 2},
          vals |-> <<"v", "w">>, fails |-> 1, nolock |-> 0, long |-> 0, deaths |-> 1, keep |-> 2,
          send |-> 1, ticks |-> 0]
Appl == [Icons EXCEPT !.ops = {"add", "rmv", "get"}, !.reqs = 4, !.long = 1, !.deaths = 0]
DtConfigs ==
  {Icons, [Icons EXCEPT !.dir = "old", !.ops = {"open", "icon"}],
   [Icons EXCEPT !.dir = "none", !.ops = {"open", "icon"}], Appl, [Appl EXCEPT !.dir = "none"],
   [Icons EXCEPT !.ops = {"comment"}, !.ticks = 2, !.sizes = {1, 3}]}
D == INSTANCE Desktop

(***************************************************************************)
(* Two sessions of a volume, one of which changes it, with clients that    *)
(* poll or not; then the space of a volume under quotas and a Time Machine *)
(* limit.                                                                  *)
(***************************************************************************)
NoQuota == [soft |-> 0, hard |-> 0, expired |-> 0]
Tell == {"open", "close", "change", "date"}
VtBase == [polls |-> <<1, 1>>, old |-> <<1, 0>>, perm |-> <<1, 1>>, root |-> <<{0}, {0}>>,
           reqs |-> 4, refuse |-> 0, locals |-> 0, blocks |-> 6, limit |-> 0, user |-> NoQuota,
           group |-> NoQuota, quotas |-> 0, used |-> 1, dates |-> <<>>, ops |-> <<Tell, Tell>>]
Space == [VtBase EXCEPT !.blocks = 12, !.reqs = 5,
                        !.ops = <<{"open", "append", "delete", "space"}, {}>>]
VtConfigs ==
  {VtBase, [VtBase EXCEPT !.locals = 1, !.refuse = 1],
   [VtBase EXCEPT !.root = <<{0}, {0, 1}>>, !.polls = <<1, 0>>, !.perm = <<1, 0>>],
   [VtBase EXCEPT !.root = <<{0}, {0, 1}>>, !.polls = <<1, 0>>], [Space EXCEPT !.limit = 2]}
  \cup {[Space EXCEPT !.limit = 2 - u.expired * 2, !.quotas = 1, !.user = u] :
     u \in {[soft |-> 2, hard |-> 4, expired |-> 1], [soft |-> 2, hard |-> 4, expired |-> 0]}}
  \cup {[Space EXCEPT !.quotas = 1, !.group = [soft |-> 0, hard |-> 2, expired |-> 0]]}
M == INSTANCE VolTime

(***************************************************************************)
(* The configuration file while it is edited: volumes that appear, go and  *)
(* change their path, access lists, homes, a volume with Samba attributes, *)
(* and failing calls.                                                      *)
(***************************************************************************)
Section(n, path) ==
  [sec |-> n, name |-> n, path |-> path, real |-> 1, private |-> "", invalid |-> {}, valid |-> {},
   deny |-> <<>>, allow |-> <<>>, rolist |-> {}, rwlist |-> {}, ea |-> "", multi |-> 0, uuid |-> 0]
SecX == Section("x", <<"a">>)
SecY == Section("y", <<"a">>)
SecZ == Section("z", <<"b">>)
Private(who) == [Section("p", <<"c">>) EXCEPT !.private = who]
Samba == [SecZ EXCEPT !.ea = "samba", !.multi = 1]
Homes == [Section("Homes", <<>>) EXCEPT !.name = ""]
VcBase ==
  [first |-> <<SecX>>, edits |-> 2, calls |-> 5, same |-> 0, busy |-> 0, groups |-> 0,
   files |-> {<<SecX>>, <<Section("x", <<"b">>)>>, <<SecY>>, <<SecX, SecZ>>,
              <<Section("y", <<"a", "s">>), SecZ>>, <<>>},
   names |-> {"x", "y"}, kind |-> <<"session", "none">>, user |-> <<"u", "root">>, force |-> 0,
   homes |-> <<"h">>, homesub |-> "", noeas |-> {}, explicit |-> 0, homers |-> {}, closevol |-> 0]
VcHome == [VcBase EXCEPT !.first = <<Homes, Section("w", <<"h", "u", "d">>), SecX>>,
                         !.files = {<<Homes, SecX>>, <<SecX>>}, !.names = {"u"}, !.calls = 3,
                         !.edits = 1, !.kind[2] = "tool", !.homers = {"u", "t"}]
VcConfigs ==
  {VcBase,
   [VcBase EXCEPT !.first = <<[SecZ EXCEPT !.invalid = {"u"}]>>, !.calls = 4, !.names = {"z"},
                  !.files = {<<[SecZ EXCEPT !.valid = {"t"}]>>,
                             <<[SecZ EXCEPT !.deny = <<"other", "match">>], SecX>>,
                             <<[SecZ EXCEPT !.allow = <<"other">>]>>,
                             <<[SecZ EXCEPT !.valid = {"u"}, !.deny = <<"other">>,
                                            !.allow = <<"match">>, !.rolist = {"u"}]>>,
                             <<Private("u")>>, <<Private("root")>>}],
   [VcBase EXCEPT !.kind[2] = "control", !.busy = 1, !.groups = 1, !.calls = 3, !.edits = 1,
                  !.files = {<<SecX>>, <<SecY>>, <<SecX, SecZ>>}],
   VcHome, [VcHome EXCEPT !.homesub = "d"],
   [VcBase EXCEPT !.first = <<Samba, SecX>>, !.files = {<<Samba, SecX>>, <<Samba>>, <<Samba, SecY>>},
                  !.edits = 3, !.noeas = {<<"b">>}, !.names = {"x"}],
   [VcBase EXCEPT !.first = <<Samba>>, !.files = {<<Samba>>}, !.edits = 0, !.calls = 2, !.names = {"z"}]}
U == INSTANCE VolumeConf

tVars == <<rows, seq, depleted, dir, hdr, flag, told, call, known, changes>>
hVars == <<state, view, gen, stale, ipc, buf, track, seen, waits, pipe, second, passed,
           dropped, missed, events>>
others == <<my, db, cat, en, cs, dt, vt, vc>>
all == <<part, vars, tVars, hVars, others>>

MCInit ==
  /\ part \in Parts
  /\ Init /\ H!Init /\ events = 0
  /\ IF part = "sqlite" THEN T!Init
     ELSE /\ rows = <<>> /\ seq = 0 /\ depleted = 0 /\ dir = <<>> /\ hdr = <<>> /\ flag = <<>>
          /\ told = {} /\ call = <<>> /\ known = <<>> /\ changes = 0
  /\ IF part = "mysql" THEN Y!MyInit ELSE my = <<>>
  /\ IF part = "dbd" THEN B!DbInit ELSE db = <<>>
  /\ IF part = "catalog" THEN V!CatInit ELSE cat = <<>>
  /\ IF part = "enumerate" THEN N!EnInit ELSE en = <<>>
  /\ IF part = "catsearch" THEN S!CsInit ELSE cs = <<>>
  /\ IF part = "desktop" THEN D!DtInit ELSE dt = <<>>
  /\ IF part = "times" THEN M!VtInit ELSE vt = <<>>
  /\ IF part = "conf" THEN U!VcInit ELSE vc = <<>>

ShareStep == part = "share" /\ Next /\ UNCHANGED <<part, tVars, hVars, others>>

SqliteStep == part = "sqlite" /\ T!Next /\ UNCHANGED <<part, vars, hVars, others>>

Changed ==
  \E p \in Pids :
     \/ part = "hints" /\ \E o \in Objects, e \in {"REFRESH", "DELETE"} : H!change(p, o, e)
     \/ \E t \in Tags : H!cnid_volume_reset(p, t)

Relayed ==
  \/ \E p \in Pids :
        \/ H!login(p) \/ H!afp_dsi_die(p) \/ H!process_cache_hints(p)
        \/ \E t \in Tags : H!openvol(p, t)
        \/ H!ipc_relay_cache_hint(p) \/ H!child_handler(p)
  \/ H!hint_flush_pending
  \/ part = "resets" /\ H!Tick

HintsStep ==
  /\ part \in {"hints", "resets"}
  /\ \/ Changed /\ events < MaxEvents /\ events' = events + 1
     \/ Relayed /\ UNCHANGED events
  /\ UNCHANGED <<part, vars, tVars, others>>

Rest == UNCHANGED <<part, vars, tVars, hVars>>
MysqlStep == part = "mysql" /\ Y!MyNext /\ Rest /\ UNCHANGED <<db, cat, en, cs, dt, vt, vc>>
DbdStep == part = "dbd" /\ B!DbNext /\ Rest /\ UNCHANGED <<my, cat, en, cs, dt, vt, vc>>
CatalogStep == part = "catalog" /\ V!CatNext /\ Rest /\ UNCHANGED <<my, db, en, cs, dt, vt, vc>>
EnumerateStep == part = "enumerate" /\ N!EnNext /\ Rest /\ UNCHANGED <<my, db, cat, cs, dt, vt, vc>>
CatSearchStep == part = "catsearch" /\ S!CsNext /\ Rest /\ UNCHANGED <<my, db, cat, en, dt, vt, vc>>
DesktopStep == part = "desktop" /\ D!DtNext /\ Rest /\ UNCHANGED <<my, db, cat, en, cs, vt, vc>>
TimesStep == part = "times" /\ M!VtNext /\ Rest /\ UNCHANGED <<my, db, cat, en, cs, dt, vc>>
ConfStep == part = "conf" /\ U!VcNext /\ Rest /\ UNCHANGED <<my, db, cat, en, cs, dt, vt>>

VolumesSpec ==
  MCInit /\ [][HintsStep \/ CatalogStep \/ EnumerateStep \/ TimesStep \/ ConfStep]_all

TablesSpec ==
  MCInit /\ [][\/ ShareStep \/ SqliteStep \/ MysqlStep \/ DbdStep \/ CatSearchStep \/ DesktopStep]_all
-----------------------------------------------------------------------------
(* Every session that caches an object is told of a change of it, or the hint
   was counted as dropped, at no more than the rate of its sender; a reset of
   a volume reaches every session that has it open or is counted as missed,
   and a second report of the same reset is not sent again
   (ipc_relay_cache_hint, hint_flush_pending, check_and_increment_rate,
   cnid_volume_reset). *)
HintsTold ==
  part \in {"hints", "resets"} =>
    H!TypeOK /\ H!ToldOrDropped /\ H!RateRespected /\ H!ResetToldOrMissed /\ H!MissedNotRepeat

(* A CNID a client was given keeps naming the file or folder it was given for,
   a request acts on the object its client named, and the directory cache
   answers what is on disk once the hints of a change have arrived, through
   moves, deletes, and creates of other sessions and of local processes
   (dirlookup_strict, getfilparams, dircache_remove_children_defer). *)
CatalogSound ==
  part = "catalog" => V!CatTypeOK /\ V!IdsStable /\ V!ActsWhereNamed /\ V!CacheCurrent

(* A client that lists a folder page by page gets every entry that was there
   all along, and the cached listing the pages come from is that of the folder
   (enumerate, enumerate_ctime_recent). *)
ListingsWhole == part = "enumerate" => N!EnTypeOK /\ N!PassComplete /\ N!TableAgrees

(* The sessions agree on the CNID of an unchanged file: with the SQLite backend
   one that was returned stays the one of its file while nothing changes on
   disk, whatever other sessions ask (cnid_sqlite_lookup, cnid_sqlite_add),
   with the MySQL backend also through lost replies, locks, and resets
   (cnid_mysql_add, cnid_mysql_lookup), and a maintenance run that ends well
   leaves database, metadata, and volume in agreement (dbd_readdir,
   check_cnid, update_cnid). *)
TablesAgree ==
  /\ part = "sqlite" => T!TypeOK /\ T!ReturnedResolves
  /\ part = "mysql" => Y!MysqlAgrees
  /\ part = "dbd" => B!RepairAgrees

(* With the SQLite backend a move keeps the CNID of the file
   (cnid_sqlite_update, cnid_sqlite_add). *)
MovesKeepId ==
  [][part = "sqlite" =>
       \A p \in CnProcs : call[p].due # 0 /\ call[p].clash = 0 /\ call'[p].at = "idle"
                            => T!Kept(p)]_tVars

(* A search that ends gave its client every match, whatever the pages and the
   pauses were (catsearch, catsearch_db); icons, applications, and comments
   that were acknowledged are the ones a client is given, whatever sessions
   write or die at the same time (afp_addicon, copyapplfile, ad_getcomment). *)
AnswersWhole ==
  /\ part = "catsearch" => S!CsTypeOK /\ S!SearchWhole
  /\ part = "desktop" => D!DtTypeOK /\ D!IconsKept /\ D!ApplExact /\ D!CommentServed

(* Each session lists the volumes the configuration says, keeps the ones its
   client opened through reloads (load_afp_conf_vols); its client is told of
   changes of the volume once it is quiet, and never of more free space than
   there is (pollvoltime, markroot, flushvoltime, getvolspace, get_tm_used). *)
VolumesFollow ==
  /\ part = "conf" => U!VolumesFollow /\ U!HandlesKept
  /\ part = "times" => M!ChangeTold /\ M!SpaceSane
=============================================================================
