----------------------------- MODULE Enumerate -----------------------------
(***************************************************************************)
(* Listing folders in batches: etc/afpd/enumerate.c with the listings it   *)
(* saves between batches, and the folder tables of libatalk/cnid/cnid.c    *)
(* that answer for the rows of a listing.  en is one record:               *)
(*   now, node, fct   the clock in seconds, the object at each name with   *)
(*                    its inode, kind and ctime, each folder's ctime       *)
(*   rows, seq        the CNID rows and the last ID given out              *)
(*   ent              the directory cache entries of the session, by name  *)
(*   slot             the saved listings, the one in use first             *)
(*   tabs, serve      the folder tables and the folder being served        *)
(*   pend, hints      row changes and hints of siblings on their way       *)
(*   pass             what the client has seen of each of its passes       *)
(* Times are whole seconds, as on a file system that keeps no fractions.   *)
(* The volume holds no AppleDouble v2 headers to convert.                  *)
(***************************************************************************)
EXTENDS Integers, Sequences, FiniteSets, SequencesExt, FiniteSetsExt

CONSTANTS EnRoot,        \* the volume root, whose listing no slot keeps
          EnFolders,     \* other folders
          EnNames,       \* the names, as a sequence in the order readdir() has
          EnSlots,       \* SD_SLOTS
          EnTabs,        \* DIRTABS
          EnMisses,      \* CNID_DIRTAB_MISSES
          EnLast,        \* the last second of an instance
          EnConfigs      \* the folders and workloads to start from

VARIABLE en

Folders == EnFolders \cup {EnRoot}
NameSet == Range(EnNames)
NoObject == [ino |-> 0, kind |-> "none", ct |-> 0]
NoEntry == [id |-> 0, ino |-> 0, kind |-> "none", ct |-> 0]
NoSlot == [did |-> "none", lst |-> <<>>, pos |-> 1, sidx |-> 1, kinds |-> {}, ct |-> -1, left |-> 0]
NoTab == [did |-> "none", state |-> "free", armed |-> 0, calls |-> 0, loaded |-> 0, rows |-> {}]
Inos == 1..20

-----------------------------------------------------------------------------
(* Folder tables *)

dirtab_of(e, f) == {i \in 1..EnTabs : e.tabs[i].state # "free" /\ e.tabs[i].did = f}
TheTab(e, f) == CHOOSE i \in dirtab_of(e, f) : TRUE

\* Arming drops the rows; the least recently armed table makes room.
cnid_dir_arm(e, f) ==
    LET free == {i \in 1..EnTabs : e.tabs[i].state = "free"}
        oldest == CHOOSE i \in 1..EnTabs : \A j \in 1..EnTabs : e.tabs[i].armed <= e.tabs[j].armed
        at == IF dirtab_of(e, f) # {} THEN TheTab(e, f) ELSE IF free # {} THEN Min(free) ELSE oldest
        clock == 1 + Max({e.tabs[i].armed : i \in 1..EnTabs})
    IN  [e EXCEPT !.tabs[at] = [NoTab EXCEPT !.did = f, !.state = "armed", !.armed = clock]]

cnid_dir_forget(e, f) == IF dirtab_of(e, f) = {} THEN e ELSE [e EXCEPT !.tabs[TheTab(e, f)] = NoTab]

dirtab_off(e) ==
    [e EXCEPT !.tabs = [i \in 1..EnTabs |-> IF e.tabs[i].state = "ready"
                                            THEN [e.tabs[i] EXCEPT !.state = "off", !.rows = {}] ELSE e.tabs[i]]]

\* A query that fails leaves the table off.
dirtab_load(e, i) ==
    LET t == e.tabs[i]
    IN  IF e.nolist = 1 THEN [e EXCEPT !.tabs[i].state = "off"]
        ELSE [e EXCEPT !.tabs[i] = [t EXCEPT !.state = "ready", !.loaded = e.now - 1,
                                             !.rows = {r \in e.rows : r.f = t.did}]]

dirtab_lookup(t, n, ino) == {r \in t.rows : r.n = n /\ r.ino = ino}

-----------------------------------------------------------------------------
(* The rows *)

cnid_delete(e, id) == [dirtab_off(e) EXCEPT !.rows = {r \in @ : r.id # id}]
cnid_update(e, id, f, n, ino) ==
    [dirtab_off(e) EXCEPT !.rows = {r \in @ : r.id # id /\ ~(r.f = f /\ r.n = n) /\ r.ino # ino}
                                   \cup {[id |-> id, f |-> f, n |-> n, ino |-> ino]}]

\* The backend: a row that is not the object's goes.
Backend(e, f, n, ino) ==
    LET same == {r \in e.rows : r.f = f /\ r.n = n /\ r.ino = ino}
        other == {r \in e.rows : (r.f = f /\ r.n = n) \/ r.ino = ino}
    IN  IF same # {} THEN [e EXCEPT !.r = (CHOOSE r \in same : TRUE).id]
        ELSE [e EXCEPT !.rows = (@ \ other) \cup {[id |-> e.seq + 1, f |-> f, n |-> n, ino |-> ino]},
                       !.seq = @ + 1, !.r = e.seq + 1]

Older_any(o, t) == TRUE
\* The table answers for an object last changed before the second preceding
\* its load.
Older(o, t) == o.ct < t.loaded

\* The table of the folder being served is loaded after so many misses.
Counted(e, t) == IF e.tabs[t].calls > EnMisses THEN dirtab_load(e, t) ELSE e
Loaded(e, t) == IF e.tabs[t].state # "armed" THEN e ELSE Counted([e EXCEPT !.tabs[t].calls = @ + 1], t)
Answered(e, row) == [e EXCEPT !.r = row.id, !.lied = IF row \in e.rows THEN @ ELSE 1]
cnid_add_from(e, t, f, n, o) ==
    LET hit == {r \in dirtab_lookup(e.tabs[t], n, o.ino) : e.tabs[t].state = "ready" /\ Older(o, e.tabs[t])}
    IN  IF hit # {} THEN Answered(e, CHOOSE r \in hit : TRUE) ELSE Backend(e, f, n, o.ino)
\* r is the ID.  lied notes an answer from a table that no row bears out.
cnid_add(e, f, n, o) ==
    IF e.serve = f /\ dirtab_of(e, f) # {} THEN cnid_add_from(Loaded(e, TheTab(e, f)), TheTab(e, f), f, n, o)
    ELSE Backend(e, f, n, o.ino)

-----------------------------------------------------------------------------
(* The entries of the session *)

\* A sampled hit is compared with the disk, and an entry that differs goes.
dircache_search_by_name(e, f, n) ==
    LET d == e.ent[f][n]
        o == e.node[f][n]
        stale == e.val = 1 /\ (o.ino # d.ino \/ o.ct # d.ct)
    IN  IF d # NoEntry /\ stale THEN [e EXCEPT !.ent[f][n] = NoEntry, !.hit = NoEntry] ELSE [e EXCEPT !.hit = d]

Entered(e, f, n, o) == [e EXCEPT !.ent[f][n] = [id |-> e.r, ino |-> o.ino, kind |-> o.kind, ct |-> o.ct]]
\* getfilparams() and dir_add_fill() give a name without an entry an ID and
\* an entry.
Identify(e, f, n, o) == Entered(cnid_add(e, f, n, o), f, n, o)

-----------------------------------------------------------------------------
(* Saved listings *)

sd_drop(e, i) == [(IF e.slot[i].did = "none" THEN e ELSE cnid_dir_forget(e, e.slot[i].did))
                      EXCEPT !.slot[i] = NoSlot]

Parked(e, f) == {i \in 2..EnSlots : e.slot[i].did = f}
ToFront(e, i) == [e EXCEPT !.slot = <<e.slot[i]>> \o RemoveAt(@, i)]
Emptied(e, i) == ToFront(sd_drop(e, i), i)
\* The listing of the folder, or an empty slot, comes to the front; where all
\* are taken the one used least recently makes room.
sd_select(e, f) ==
    IF e.slot[1].did = f THEN e
    ELSE IF Parked(e, f) # {} THEN ToFront(e, Min(Parked(e, f)))
    ELSE IF e.slot[1].did = "none" THEN e
    ELSE Emptied(e, IF Parked(e, "none") = {} THEN EnSlots ELSE Max(Parked(e, "none")))

\* What readdir() tells of the kind; some file systems tell nothing.
sd_kind(e, k) == IF e.cf.types = 1 THEN k ELSE "unknown"
Listing(e, f) ==
    LET there == SelectSeq(EnNames, LAMBDA n : e.node[f][n] # NoObject)
    IN  [i \in 1..Len(there) |-> [n |-> there[i], kind |-> sd_kind(e, e.node[f][there[i]].kind)]]

enumerate_ctime_never(ct, now) == FALSE
\* Whether a later change can leave the ctime as it is.
enumerate_ctime_recent(ct, now) == ct >= now - 1

\* The saved listing while the folder keeps its stamp, else a new read; fresh
\* says which.  The stamp of a read that the last change could still hide a
\* change from is zero, which no ctime equals.
sd_fetch(e, f, sindex) ==
    LET sd == e.slot[1]
        stamped == sd.did = f /\ sd.ct = e.fct[f]
        stamp == IF enumerate_ctime_recent(e.fct[f], e.now) THEN -1 ELSE e.fct[f]
    IN  IF stamped /\ (sindex # 1 \/ sd.left = 0) THEN [e EXCEPT !.fresh = 0]
        ELSE [e EXCEPT !.fresh = 1, !.slot[1] = [NoSlot EXCEPT !.did = f, !.lst = Listing(e, f), !.ct = stamp,
                                                               !.kinds = sd.kinds]]

StatKnown(s, i, k) == [s EXCEPT !.slot[1].lst[i].kind = k]
StatDisk(s, i, o) ==
    IF o # NoObject THEN [StatKnown(s, i, o.kind) EXCEPT !.hit = [id |-> 0, ino |-> o.ino, kind |-> o.kind, ct |-> o.ct]]
    ELSE [StatKnown(s, i, "skip") EXCEPT !.hit = NoEntry, !.slot[1].left = 1]
StatFound(s, f, i, rec) ==
    IF s.hit # NoEntry /\ rec.kind \in {"unknown", s.hit.kind} THEN StatKnown(s, i, s.hit.kind)
    ELSE StatDisk(s, i, s.node[f][rec.n])
\* hit is the object found for record i of the listing, from its entry or
\* from the disk; NoEntry for a name that leaves the listing.
sd_stat(e, f, i) ==
    IF e.slot[1].lst[i].kind = "skip" THEN [e EXCEPT !.hit = NoEntry]
    ELSE StatFound(dircache_search_by_name(e, f, e.slot[1].lst[i].n), f, i, e.slot[1].lst[i])

\* The walk to the index; it counts the names that a batch would list.
RECURSIVE Walk(_, _, _, _)
WalkPast(e, i, counts) == [e EXCEPT !.slot[1] = [@ EXCEPT !.pos = i + 1, !.sidx = IF counts THEN @ + 1 ELSE @]]
WalkLooked(s, i, kinds) == WalkPast(s, i, s.hit # NoEntry /\ s.slot[1].lst[i].kind \in kinds)
WalkAt(e, f, i, kinds, kind) ==
    IF kind = "unknown" \/ (e.fresh = 1 /\ kind \in kinds) THEN WalkLooked(sd_stat(e, f, i), i, kinds)
    ELSE WalkPast(e, i, kind \in kinds)
Walk(e, f, kinds, sindex) ==
    IF e.slot[1].sidx >= sindex \/ e.slot[1].pos > Len(e.slot[1].lst) THEN e
    ELSE Walk(WalkAt(e, f, e.slot[1].pos, kinds, e.slot[1].lst[e.slot[1].pos].kind), f, kinds, sindex)

\* The names of the batch, in out.  An entry past the size limit is made but
\* not sent, and the one at which a request fails ends it.
RECURSIVE Fill(_, _, _, _)
FillGiven(g, n, kind, ask) ==
    IF ask.fail = Len(g.out) + 1 THEN [g EXCEPT !.err = "fail"]
    ELSE IF ask.room = Len(g.out) THEN [g EXCEPT !.slot[1].pos = @ - 1, !.err = "room"]
    ELSE [g EXCEPT !.out = Append(@, [n |-> n, kind |-> kind])]
FillId(s, f, n) == IF s.hit.id # 0 THEN s ELSE Identify(s, f, n, s.hit)
FillStat(s, f, n, kinds, ask) ==
    IF s.hit = NoEntry \/ s.hit.kind \notin kinds THEN s ELSE FillGiven(FillId(s, f, n), n, s.hit.kind, ask)
FillAt(e, f, i, kinds, ask) ==
    FillStat([sd_stat(e, f, i) EXCEPT !.slot[1].pos = i + 1], f, e.slot[1].lst[i].n, kinds, ask)
Fill(e, f, kinds, ask) ==
    IF e.slot[1].pos > Len(e.slot[1].lst) \/ Len(e.out) = ask.count \/ e.err # "ok" THEN e
    ELSE Fill(FillAt(e, f, e.slot[1].pos, kinds, ask), f, kinds, ask)

\* After the batch the slot knows the index that comes next.  A failed request
\* leaves the listing where it was.
Filled(b, f, sindex, pos) ==
    IF b.err = "fail" THEN [b EXCEPT !.slot[1].pos = pos, !.out = <<>>]
    ELSE IF b.out = <<>> THEN [cnid_dir_forget(b, f) EXCEPT !.err = "noobj"]
    ELSE [b EXCEPT !.slot[1].sidx = sindex + Len(b.out), !.err = "ok"]
Walked(w, f, kinds, sindex, ask) ==
    IF w.slot[1].sidx < sindex THEN [cnid_dir_forget(w, f) EXCEPT !.err = "noobj"]
    ELSE Filled([Fill([w EXCEPT !.serve = f], f, kinds, ask) EXCEPT !.serve = "none"], f, sindex, w.slot[1].pos)
Rewound(e, kinds, sindex) ==
    IF sindex < e.slot[1].sidx \/ kinds # e.slot[1].kinds
    THEN [e EXCEPT !.slot[1] = [@ EXCEPT !.sidx = 1, !.pos = 1, !.kinds = kinds]] ELSE e
Armed(e, f, sindex) == IF sindex = 1 THEN cnid_dir_arm(e, f) ELSE e
Fetched(e, at, f, kinds, sindex, ask) ==
    IF ask.read = 0 /\ e.fresh = 1 THEN [sd_drop(at, 1) EXCEPT !.err = "nodir"]
    ELSE Walked(Walk(Rewound(Armed(e, f, sindex), kinds, sindex), f, kinds, sindex), f, kinds, sindex, ask)
Served(e, f, kinds, sindex, ask) == Fetched(sd_fetch(e, f, sindex), e, f, kinds, sindex, ask)

\* One request.  ask gives the number wanted, the number the reply has room
\* for, the entry whose parameters fail, and whether the folder can be read.
\* The listing of the root is of this request alone.
Selected(e, f) == IF f = EnRoot THEN [e EXCEPT !.slot = <<NoSlot>> \o @] ELSE sd_select(e, f)
Parted(e, f) == IF f = EnRoot THEN [e EXCEPT !.slot = Tail(@)] ELSE e
Batch(e, f, kinds, sindex, ask) == Parted(Served(Selected(e, f), f, kinds, sindex, ask), f)

-----------------------------------------------------------------------------
(* The steps *)

EnNew(cf) ==
    LET none == [n \in NameSet |-> NoObject]
        had == {[id |-> cf.tree[f][n].ino, f |-> f, n |-> n, ino |-> cf.tree[f][n].ino] :
                    f \in DOMAIN cf.tree, n \in NameSet}
        rows == IF cf.rows = 1 THEN {r \in had : r.ino # 0} ELSE {}
    IN  [now |-> 2, node |-> [f \in Folders |-> IF f \in DOMAIN cf.tree THEN cf.tree[f] ELSE none],
         fct |-> [f \in Folders |-> 0], rows |-> rows, seq |-> Max({0} \cup {r.id : r \in rows}),
         ent |-> [f \in Folders |-> [n \in NameSet |-> NoEntry]],
         slot |-> [i \in 1..EnSlots |-> NoSlot], tabs |-> [i \in 1..EnTabs |-> NoTab], serve |-> "none",
         pend |-> {}, hints |-> {}, r |-> 0, hit |-> NoEntry, fresh |-> 0, out |-> <<>>, err |-> "ok",
         val |-> 0, nolist |-> 0, lied |-> 0,
         pass |-> [p \in DOMAIN cf.pass |-> [at |-> 0, seen |-> <<>>, clean |-> 1, ended |-> 0]],
         cf |-> [cf EXCEPT !.tree = <<>>]]
EnInit == \E cf \in EnConfigs : en = EnNew(cf)

Quiet(e) == [e EXCEPT !.r = 0, !.hit = NoEntry, !.fresh = 0, !.out = <<>>, !.err = "ok", !.val = 0, !.nolist = 0]

\* The folder changes: its ctime is now, and no pass over it is clean.
Changed(e, fs) ==
    [e EXCEPT !.fct = [f \in Folders |-> IF f \in fs THEN e.now ELSE e.fct[f]],
              !.pass = [p \in DOMAIN e.pass |->
                            IF e.cf.pass[p].f \in fs THEN [e.pass[p] EXCEPT !.clean = 0] ELSE e.pass[p]]]
\* The inode of a new object.
FreshIno(e) == Min(Inos \ ({e.node[f][n].ino : f \in Folders, n \in NameSet} \cup {r.ino : r \in e.rows}))
EnPlace(e, f, n, ino, kind) == Changed([e EXCEPT !.node[f][n] = [ino |-> ino, kind |-> kind, ct |-> e.now]], {f})
EnErase(e, f, n) == Changed([e EXCEPT !.node[f][n] = NoObject], {f})
RowOf(e, f, n) == {r \in e.rows : r.f = f /\ r.n = n /\ r.ino = e.node[f][n].ino}

\* The client goes on with a pass at the index after the last name it got,
\* and starts again at 1 after the end.
Passed(e, p, was, sindex) ==
    [e EXCEPT !.pass[p] = IF e.err = "noobj" THEN [was EXCEPT !.at = 0, !.ended = 1]
                          ELSE IF e.err = "ok" THEN [was EXCEPT !.at = sindex + Len(e.out), !.seen = @ \o e.out]
                          ELSE was]
Listed(e, p, w, was, sindex, ask) == Quiet(Passed(Batch(e, w.f, w.kinds, sindex, ask), p, was, sindex))
EnumerateBatch ==
    \E p \in DOMAIN en.pass, ask \in en.cf.asks, v \in en.cf.vals, nl \in en.cf.nolist :
        LET s == en.pass[p]
            new == s.at = 0
        IN  /\ en.cf.reqs > 0
            /\ en' = Listed([en EXCEPT !.val = v, !.nolist = nl, !.cf.reqs = @ - 1], p, en.cf.pass[p],
                            IF new THEN [s EXCEPT !.seen = <<>>, !.clean = 1, !.ended = 0] ELSE s,
                            IF new THEN 1 ELSE s.at, ask)

Made(e, f, n) == Quiet(Identify(e, f, n, e.node[f][n]))
OwnCreate == /\ en.cf.own > 0
             /\ \E f \in Folders, n \in NameSet, kind \in {"file", "dir"} :
                    /\ n \in en.cf.chg /\ en.node[f][n] = NoObject
                    /\ en' = Made(EnPlace([en EXCEPT !.cf.own = @ - 1], f, n, FreshIno(en), kind), f, n)
OwnDelete == /\ en.cf.own > 0
             /\ \E f \in Folders, n \in NameSet :
                    LET e == EnErase([en EXCEPT !.cf.own = @ - 1, !.ent[f][n] = NoEntry], f, n)
                        rows == {r \in en.rows : r.f = f /\ r.n = n}
                    IN  /\ n \in en.cf.chg /\ en.node[f][n] # NoObject
                        /\ en' = FoldSet(LAMBDA r, x : cnid_delete(x, r.id), e, rows)

\* A sibling changes the volume first and the rows after it, with the hint.
SiblingDelete == /\ en.cf.sibs > 0
                 /\ \E f \in Folders, n \in NameSet :
                        /\ n \in en.cf.chg /\ RowOf(en, f, n) # {}
                        /\ en' = [EnErase(en, f, n) EXCEPT !.cf.sibs = @ - 1,
                                     !.pend = @ \cup {[id |-> r.id, f |-> "none", n |-> n, ino |-> 0] : r \in RowOf(en, f, n)}]
SiblingRename == /\ en.cf.sibs > 0
                 /\ \E f, g \in Folders, n, m \in NameSet :
                        LET o == en.node[f][n]
                        IN  /\ n \in en.cf.chg /\ RowOf(en, f, n) # {} /\ en.node[g][m] = NoObject
                            /\ en' = [EnPlace(EnErase(en, f, n), g, m, o.ino, o.kind) EXCEPT !.cf.sibs = @ - 1,
                                         !.pend = @ \cup {[id |-> r.id, f |-> g, n |-> m, ino |-> o.ino] : r \in RowOf(en, f, n)}]
\* The tables are of this session: the writes of others leave them on.
RowFollows == \E q \in en.pend :
                  LET w == [en EXCEPT !.pend = @ \ {q}, !.hints = @ \cup {q.id}]
                      e == IF q.f = "none" THEN cnid_delete(w, q.id) ELSE cnid_update(w, q.id, q.f, q.n, q.ino)
                  IN  en' = [e EXCEPT !.tabs = en.tabs]
HintComes == \E id \in en.hints :
                 en' = [en EXCEPT !.hints = @ \ {id},
                                  !.ent = [f \in Folders |-> [n \in NameSet |->
                                              IF en.ent[f][n].id = id THEN NoEntry ELSE en.ent[f][n]]]]
EnEvict == /\ en.cf.evicts > 0
           /\ \E f \in Folders, n \in NameSet :
                  en.ent[f][n] # NoEntry /\ en' = [en EXCEPT !.ent[f][n] = NoEntry, !.cf.evicts = @ - 1]
EnTick == en.now < EnLast /\ en' = [en EXCEPT !.now = @ + 1]

EnNext == \/ EnumerateBatch \/ OwnCreate \/ OwnDelete \/ SiblingDelete \/ SiblingRename \/ RowFollows
          \/ HintComes \/ EnEvict \/ EnTick
EnSpec == EnInit /\ [][EnNext]_en

-----------------------------------------------------------------------------
(* Properties *)

EnTypeOK ==
    /\ Len(en.slot) = EnSlots /\ en.serve = "none" /\ en.now \in 0..EnLast
    /\ \A i \in 1..EnTabs : en.tabs[i].state \in {"free", "armed", "ready", "off"}
    /\ \A i \in 1..EnSlots : en.slot[i].pos \in 1..(Len(en.slot[i].lst) + 1)

\* A pass that runs from index 1 to the end over a folder nobody changes
\* meanwhile lists every name of the kinds asked for, each once, however the
\* batches are cut, fail and are repeated, and whatever other passes run.
PassComplete ==
    \A p \in DOMAIN en.pass :
        LET w == en.cf.pass[p]
            s == en.pass[p]
            all == {n \in NameSet : en.node[w.f][n].kind \in w.kinds}
        IN  s.ended = 1 /\ s.clean = 1 =>
                /\ {s.seen[i].n : i \in DOMAIN s.seen} = all
                /\ Len(s.seen) = Cardinality(all)

\* A folder table answers only what the database would: the ID of the row
\* that holds the name and the inode.
TableAgrees == en.lied = 0
=============================================================================
