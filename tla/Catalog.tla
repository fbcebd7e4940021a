------------------------------ MODULE Catalog ------------------------------
(***************************************************************************)
(* The catalog requests of an AFP session (etc/afpd/filedir.c, directory.c *)
(* and file.c) on the record the first part describes, beside the changes  *)
(* that others make to the volume: siblings, which are sessions of other   *)
(* clients and keep the CNID rows in step and send cache hints that arrive *)
(* late, and local processes, which do neither.  A request is one step: it *)
(* runs to its end in the single thread of the session.  Nobody lacks      *)
(* permissions.                                                            *)
(*                                                                         *)
(* cat adds to that record the path p that cname() found, the pairs        *)
(* <<inode, ID>> the client was told (known; Gone stands for the object    *)
(* once it is deleted), the hints on their way (inbox), and what the last  *)
(* request changed (act).                                                  *)
(***************************************************************************)
EXTENDS Integers, Sequences, FiniteSets, SequencesExt, FiniteSetsExt, Folds, TLC

(***************************************************************************)
(* What one AFP session knows of a volume: the directory cache with its    *)
(* two indexes (etc/afpd/dircache.c), the descriptors of parent folders    *)
(* (pfd_cache.c), curdir and the working directory (directory.c), over the *)
(* disk and the CNID rows (libatalk/cnid).  All are fields of a record c,  *)
(* and each function of the code is an operator from records to records.   *)
(* r is the DID or ID a function returns, 0 for NULL; err is afp_errno.    *)
(*                                                                         *)
(* The disk: node[i] is the object with inode i, in folder par under name; *)
(* hdr[i] is the CNID in its AppleDouble header, 0 for none.  Times have   *)
(* the grain of a ctime: node[i].hot says that the last change of i is of  *)
(* the present second, and a recorded ctime is "now" when it is equal and  *)
(* of this second, "old" when it is equal and older, else "stale".         *)
(***************************************************************************)
CONSTANTS CatNames,    \* the names of objects
          CatInos,     \* inodes, a set of numbers; the least is the volume root
          CatLast      \* the last CNID the instance hands out

RootParent == 1        \* DIRDID_ROOT_PARENT
RootDid == 2           \* DIRDID_ROOT
FirstId == 17          \* CNID_START
RootIno == Min(CatInos)
Ids == FirstId..CatLast
Dids == Ids \cup {RootDid}
Dead == -1             \* what a descriptor of a removed folder stands for

NoNode == [par |-> 0, name |-> "", kind |-> "none", hot |-> 0]
NoRow == [pdid |-> 0, name |-> "", ino |-> 0]
NoEnt == [pdid |-> 0, name |-> "", path |-> <<>>, ino |-> 0, kind |-> "none", ct |-> "none",
          off |-> 0, oct |-> "none", listed |-> 0]
NoFd == [ino |-> 0, base |-> 0]
RootEnt == [NoEnt EXCEPT !.pdid = RootParent, !.ino = RootIno, !.kind = "dir", !.ct = "old"]

-----------------------------------------------------------------------------
(* The disk *)

Exists(c, i) == i \in CatInos /\ c.node[i].kind # "none"
IsDir(c, i) == i \in CatInos /\ c.node[i].kind = "dir"
Children(c, i) == {j \in CatInos \ {RootIno} : Exists(c, j) /\ c.node[j].par = i}

\* The object with name n in folder i, 0 for none.
Child(c, i, n) == Max({0} \cup {j \in Children(c, i) : c.node[j].name = n})

\* stat() of a path of names below the volume root; a file has no children.
ostat(c, path) ==
    FoldLeft(LAMBDA i, n : IF IsDir(c, i) THEN Child(c, i, n) ELSE 0, RootIno, path)

\* What a failing stat() or chdir() says: a file stands where a folder should.
Enotdir(c, path) == \E k \in 1..(Len(path) - 1) : \E i \in {ostat(c, SubSeq(path, 1, k))} :
                        Exists(c, i) /\ ~IsDir(c, i)

Taken(c, i) == IF c.node[i].hot = 1 THEN "now" ELSE "old"
Passed(ct) == IF ct = "old" THEN "stale" ELSE ct

\* The ctime of the objects in s becomes the present second.
Touch(c, s) ==
    [c EXCEPT !.node = [i \in CatInos |-> IF i \in s THEN [c.node[i] EXCEPT !.hot = 1] ELSE c.node[i]],
              !.ent = [d \in Dids |-> IF c.ent[d].ino \in s
                                      THEN [c.ent[d] EXCEPT !.ct = Passed(@), !.oct = Passed(@)]
                                      ELSE c.ent[d]]]

Place(c, i, par, name, kind) ==
    Touch([c EXCEPT !.node[i] = [par |-> par, name |-> name, kind |-> kind, hot |-> 1]], {i, par})

Move(c, i, par, name) ==
    Touch([c EXCEPT !.node[i] = [@ EXCEPT !.par = par, !.name = name]], {i, par, c.node[i].par})

\* An open descriptor keeps the inode of a removed folder, not its name.
Erase(c, i) ==
    LET d == Touch(c, {c.node[i].par})
    IN  [d EXCEPT !.node[i] = NoNode, !.hdr[i] = 0, !.cwd = IF @ = i THEN Dead ELSE @,
                  !.pfd = [p \in Dids |-> IF d.pfd[p].ino = i THEN [d.pfd[p] EXCEPT !.ino = Dead]
                                          ELSE d.pfd[p]]]

FreeInos(c) == {i \in CatInos : c.node[i].kind = "none"}

-----------------------------------------------------------------------------
(* The CNID rows *)

Rows(c) == {k \in Ids : c.row[k] # NoRow}
NamedRow(c, pd, n) == {k \in Rows(c) : c.row[k].pdid = pd /\ c.row[k].name = n}
InodeRow(c, i) == {k \in Rows(c) : c.row[k].ino = i}

cnid_get(c, pd, n) == Max({0} \cup NamedRow(c, pd, n))
cnid_delete(c, k) == IF k \in Ids THEN [c EXCEPT !.row[k] = NoRow] ELSE c

cnid_lookup_row(c, k, row, hint) ==
    IF c.row[k] = row THEN [c EXCEPT !.r = k]
    ELSE IF hint = k /\ (c.row[k].pdid # row.pdid \/ c.row[k].name # row.name)
    THEN [c EXCEPT !.row[k] = row, !.r = k]
    ELSE [cnid_delete(c, k) EXCEPT !.r = 0]
cnid_lookup_found(c, named, inode, i, pd, n, hint) ==
    IF named \cup inode = {} THEN [c EXCEPT !.r = 0]
    ELSE IF Cardinality(named \cup inode) > 1
    THEN [cnid_delete(c, CHOOSE x \in inode : x \notin named) EXCEPT !.r = 0]
    ELSE cnid_lookup_row(c, Max(named \cup inode), [pdid |-> pd, name |-> n, ino |-> i], hint)

\* The row found has to be that of the object.  Of two rows the one of the
\* inode goes; a single other row is moved if the hint names it, else it goes.
cnid_lookup(c, i, pd, n, hint) == cnid_lookup_found(c, NamedRow(c, pd, n), InodeRow(c, i), i, pd, n, hint)

RECURSIVE cnid_add(_, _, _, _, _)
cnid_add_k(l, hint) == IF hint # 0 THEN hint ELSE l.seq + 1
cnid_add_insert(l, i, pd, n, hint) ==
    IF l.r # 0 THEN l
    ELSE IF cnid_add_k(l, hint) \in Rows(l) \/ NamedRow(l, pd, n) \cup InodeRow(l, i) # {}
    THEN cnid_add(l, i, pd, n, 0)
    ELSE [l EXCEPT !.row[cnid_add_k(l, hint)] = [pdid |-> pd, name |-> n, ino |-> i], !.r = cnid_add_k(l, hint),
                   !.seq = Max({@, cnid_add_k(l, hint)})]

cnid_add(c, i, pd, n, hint) ==
    cnid_add_insert(cnid_lookup(c, i, pd, n, hint), i, pd, n, hint)

\* The row of k is set, and the rows of other objects with its keys go.
cnid_update(c, k, i, pd, n) ==
    LET others == (NamedRow(c, pd, n) \cup InodeRow(c, i)) \ {k}
    IN  [c EXCEPT !.row = [x \in Ids |-> IF x = k THEN [pdid |-> pd, name |-> n, ino |-> i]
                                         ELSE IF x \in others THEN NoRow ELSE c.row[x]]]

get_id_headed(a, c, i) == IF c.hdr[i] \in {0, a.r} THEN a ELSE [a EXCEPT !.hdr[i] = a.r]

\* The ID of an object, with the one in its header as the hint; the header
\* follows the table.
get_id(c, i, pd, n) ==
    get_id_headed(cnid_add(c, i, pd, n, c.hdr[i]), c, i)

-----------------------------------------------------------------------------
(* The entries and their indexes *)

Cached(c) == {d \in Dids : c.ent[d] # NoEnt}
follows(e, parent) == e.path = Append(parent.path, e.name)   \* dir_path_follows
fullpath_join(c, pd, n) == Append(c.ent[pd].path, n)
dir_new(c, n, pd, i) ==
    [NoEnt EXCEPT !.pdid = pd, !.name = n, !.path = fullpath_join(c, pd, n), !.ino = i,
                  !.kind = c.node[i].kind, !.ct = Taken(c, i)]

pfd_purge(c, d) == [c EXCEPT !.pfd[d] = NoFd]

\* dircache_remove: out of the indexes and of the descriptor cache.  A pointer
\* the request still holds has no valid DID from now on.
Unlink(c, d) == [pfd_purge(c, d) EXCEPT !.ent[d] = NoEnt, !.hold = IF @ = d THEN 0 ELSE @]

TookCur(c, dups) == c.cur \in dups /\ c.ent[c.cur].kind = "dir"
dircache_add_for(c, d, e, dups) ==
    [FoldSet(LAMBDA x, w : Unlink(w, x), c, dups) EXCEPT
        !.ent[d] = e,
        !.cur = IF ~TookCur(c, dups) THEN @ ELSE IF e.kind = "dir" THEN d ELSE RootDid]

\* An entry goes in; what holds its DID or its place goes out, and a curdir
\* that goes out is the new entry from now on.
dircache_add(c, d, e) ==
    dircache_add_for(c, d, e, {x \in Cached(c) \ {RootDid} : x = d \/ (c.ent[x].pdid = e.pdid /\ c.ent[x].name = e.name)})

dircache_remove_children_lost(c, path) == c

\* The entries below the path are left to the idle worker (DeferredClean).
dircache_remove_children_defer(c, path) == [c EXCEPT !.pend = @ \cup {path}]

Hint(c, d, ev) == [c EXCEPT !.sent = @ \cup {[did |-> d, ev |-> ev]}]
gone_event_for(e) == IF e.kind = "file" THEN "delete" ELSE "delete_children"

dircache_lookup_parent(c, d) == IF d \in Cached(c) /\ c.ent[d].kind = "dir" THEN d ELSE 0

-----------------------------------------------------------------------------
(* Descriptors of parent folders *)

slot_fill_with(c, p, i) ==
    IF IsDir(c, i) THEN [c EXCEPT !.pfd[p] = [ino |-> i, base |-> c.ent[p].ino]] ELSE pfd_purge(c, p)
slot_fill(c, p) == slot_fill_with(c, p, ostat(c, c.ent[p].path))

pfd_get_probed(g, p) ==
    IF g.probe = 1 /\ g.pfd[p] # NoFd /\ g.pfd[p].ino # ostat(g, g.ent[p].path) THEN slot_fill(g, p) ELSE g

\* The descriptor of folder p.  It is opened again when the entry has learned
\* of another inode since, and when a probe of the path finds another.
pfd_get(c, p) ==
    pfd_get_probed(IF c.pfd[p] = NoFd \/ c.ent[p].ino \notin {c.pfd[p].base, c.pfd[p].ino} THEN slot_fill(c, p)
                   ELSE [c EXCEPT !.pfd[p].base = c.ent[p].ino], p)

pfd_repair_path(c, d, p) ==
    IF follows(c.ent[d], c.ent[p]) THEN c
    ELSE [c EXCEPT !.ent[d].path = Append(c.ent[p].path, @[Len(@)])]

pfd_ostat_named(g, d, p, i) == IF i = 0 THEN [g EXCEPT !.r = 0] ELSE [pfd_repair_path(g, d, p) EXCEPT !.r = i]
pfd_ostat_at(g, d, p) ==
    IF g.pfd[p] = NoFd THEN [g EXCEPT !.r = ostat(g, g.ent[d].path)]
    ELSE pfd_ostat_named(g, d, p, IF IsDir(g, g.pfd[p].ino) THEN Child(g, g.pfd[p].ino, g.ent[d].name) ELSE 0)
pfd_ostat_in(c, d, p) ==
    IF p = 0 THEN [c EXCEPT !.r = ostat(c, c.ent[d].path)] ELSE pfd_ostat_at(pfd_get(c, p), d, p)

\* r is the inode found for entry d, 0 for none.
pfd_ostat(c, d) == pfd_ostat_in(c, d, dircache_lookup_parent(c, c.ent[d].pdid))

-----------------------------------------------------------------------------
CONSTANTS CatConfigs,   \* the volumes and workloads to start from
          Volume        \* the name of the volume

VARIABLE cat

-----------------------------------------------------------------------------
(* Lookups.  They call each other: an entry that turns out stale is removed,
   and the removal of curdir looks for a directory to take its place.  One
   recursive operator stands for all of these calls. *)

RECURSIVE Calls(_, _, _, _, _)

Validated(c, d) == Calls(c, "validated", d, 0, 0)
dirlookup_internal(c, d, retry, strict) == Calls(c, "dirlookup_internal", d, retry, strict)
dir_remove(c, d) == Calls(c, "dir_remove", d, 0, 0)
dir_modify(c, d, i) == Calls(c, "dir_modify", d, i, 0)
movecwd(c, d) == Calls(c, "movecwd", d, 0, 0)
cname(c, d, names) == Calls(c, "cname", d, names, 0)
Found(c, d, names, strict) == Calls(c, "found", d, names, strict)

dirlookup(c, d) == dirlookup_internal(c, d, 1, 0)

dirlookup_strict_loose(c, d) == dirlookup(c, d)
dirlookup_strict(c, d) == Calls(c, "dirlookup_strict", d, 0, 0)

dir_remove_tree(c, d) ==
    IF d \in {0, RootParent, RootDid} \/ c.ent[d] = NoEnt THEN c
    ELSE dircache_remove_children_defer(dir_remove(c, d), c.ent[d].path)

DirRemove_isFolder(w) == w.r \in Dids /\ w.ent[w.r].kind = "dir"
DirRemove_inParent(up) == [up EXCEPT !.cur = IF DirRemove_isFolder(up) THEN up.r ELSE RootDid]
DirRemove_again(l, c, d) ==
    LET e == c.ent[d]
    IN  IF DirRemove_isFolder(l) THEN [l EXCEPT !.cur = l.r] ELSE DirRemove_inParent(dirlookup_strict(l, e.pdid))

DirRemove(c, d) ==
    LET e == c.ent[d]
    IN  IF d \in {0, RootParent, RootDid} \/ e = NoEnt THEN c
        ELSE IF c.cur # d \/ e.kind = "file" THEN Unlink(c, d)
        ELSE DirRemove_again(dirlookup([Unlink(c, d) EXCEPT !.cur = 0], d), c, d)

\* Whether a stat at the path of an entry is of an object in its folder.
dir_stat_usable(c, d) ==
    \/ d = RootDid
    \/ \E p \in {dircache_lookup_parent(c, c.ent[d].pdid)} :
           /\ p # 0 /\ follows(c.ent[d], c.ent[p])
           /\ p = RootDid \/ ostat(c, c.ent[p].path) = c.ent[p].ino

\* The CNID of an object that has no row, if its folder has one.
object_cnid(c, e, i) ==
    IF e.pdid # RootDid /\ e.pdid \notin Rows(c) THEN [c EXCEPT !.r = 0]
    ELSE cnid_add(c, i, e.pdid, e.name, c.hdr[i])

Replaced_rekeyed(m, k, c, d, e) ==
    [dircache_add([Unlink(m, d) EXCEPT !.cur = IF c.cur = d THEN 0 ELSE @], k, e)
       EXCEPT !.cur = IF c.cur = d THEN k ELSE @, !.hold = IF c.hold = d THEN k ELSE @]
Replaced_told(m, c, d, e) ==
    IF m.r = 0 /\ c.cur # d THEN [dir_remove_tree(m, d) EXCEPT !.r = 0]
    ELSE IF m.r = 0 THEN [m EXCEPT !.ent[d].ct = e.ct, !.r = d]
    ELSE [dircache_remove_children_defer(IF m.r = d THEN [m EXCEPT !.ent[d] = e]
                                         ELSE Replaced_rekeyed(m, m.r, c, d, e), e.path) EXCEPT !.r = m.r]
Replaced_known(l, c, d, i) ==
    Replaced_told(IF l.r = 0 /\ c.cur = d THEN object_cnid(l, c.ent[d], i) ELSE l, c, d,
                  [c.ent[d] EXCEPT !.ino = i, !.ct = Taken(c, i), !.oct = "none", !.listed = 0])

\* The object at the path of entry d is another one, of the same kind.
Replaced(c, d, i) ==
    Replaced_known(cnid_lookup(pfd_purge(c, d), i, c.ent[d].pdid, c.ent[d].name, 0), c, d, i)

\* DCMOD_STAT: entry d takes the stat of object i.  r is the DID of the entry
\* from now on, 0 when it is removed.
DirModify(c, d, i) ==
    IF c.ent[d].ino # i /\ ~dir_stat_usable(c, d) THEN [c EXCEPT !.r = d]
    ELSE IF c.ent[d].kind # c.node[i].kind
    THEN [dir_remove_tree(IF c.ent[d].ino # i /\ cnid_get(c, c.ent[d].pdid, c.ent[d].name) = d
                          THEN cnid_delete(c, d) ELSE c, d) EXCEPT !.r = 0]
    ELSE IF c.ent[d].ino # i THEN Replaced(c, d, i)
    ELSE [c EXCEPT !.ent[d].ct = Taken(c, i), !.r = d]

\* DCMOD_PATH and DCMOD_STAT, after a rename: another entry at the new place
\* goes, and curdir with it becomes this one.
dir_modify_path(c, d, pd, n, i) ==
    dir_modify(dircache_add_for(c, d, [c.ent[d] EXCEPT !.pdid = pd, !.name = n, !.path = fullpath_join(c, pd, n)],
                                {x \in Cached(c) \ {RootDid, d} : c.ent[x].pdid = pd /\ c.ent[x].name = n}), d, i)

dir_stat_differs(e, i) == e.ino # i \/ e.ct = "stale"

dircache_refresh_hinted(m, c, d, i) ==
    IF m.r = 0 THEN Hint(m, d, gone_event_for(c.ent[d]))
    ELSE IF c.ent[d].ino = i \/ m.ent[m.r].ino # i THEN m
    ELSE IF m.r = d THEN Hint(m, d, "refresh")
    ELSE Hint(Hint(m, m.r, "refresh"), d, "refresh")

\* The siblings are told of an object that went or was replaced.
dircache_refresh(c, d, i) ==
    dircache_refresh_hinted(dir_modify(c, d, i), c, d, i)

dir_takes_stat_stands(m, d, i) == [m EXCEPT !.ok = IF m.r = d /\ m.ent[d].ino = i THEN 1 ELSE 0]

\* ok says that entry d stands for object i; r is its DID.
dir_takes_stat(c, d, i) ==
    dir_takes_stat_stands(IF dir_stat_differs(c.ent[d], i) THEN dircache_refresh(c, d, i) ELSE [c EXCEPT !.r = d], d, i)

strict_refresh_out(t, d) ==
    IF t.ok = 0 /\ t.r = d THEN [dir_remove_tree(t, d) EXCEPT !.ok = 0] ELSE t

strict_refresh(c, d, i) ==
    strict_refresh_out(dir_takes_stat(c, d, i), d)

validation_expunge_and_hint(c, d) == Hint(dir_remove_tree(c, d), d, gone_event_for(c.ent[d]))

\* Every lookup is sampled, none, or the one that val counts down to.
EveryLookup == -1
should_validate_cache_entry(c) == c.val \in {EveryLookup, 1}
Counted(c) == [c EXCEPT !.val = IF @ > 0 THEN @ - 1 ELSE @]

CheckEntry_check(s, d) ==
    IF s.r = 0 THEN [validation_expunge_and_hint(s, d) EXCEPT !.r = 0]
    ELSE IF dir_stat_differs(s.ent[d], s.r) THEN dircache_refresh(s, d, s.r)
    ELSE [s EXCEPT !.r = d]

\* The sampled check of a hit: r is the DID of the entry, 0 when it is gone.
CheckEntry(c, d) ==
    IF should_validate_cache_entry(c) THEN CheckEntry_check(pfd_ostat(Counted(c), d), d)
    ELSE [Counted(c) EXCEPT !.r = d]

dircache_search_by_did_same(v, d) == IF v.r = d THEN v ELSE [v EXCEPT !.r = 0]

dircache_search_by_did(c, d) ==
    IF d \notin Ids \/ c.ent[d] = NoEnt THEN [c EXCEPT !.r = 0]
    ELSE IF c.ent[d].kind = "file" THEN [dir_remove(c, d) EXCEPT !.r = 0]
    ELSE dircache_search_by_did_same(Validated(c, d), d)

NamedEntry(c, pd, n) ==
    Max({0} \cup {d \in Cached(c) \ {RootDid} : c.ent[d].pdid = pd /\ c.ent[d].name = n})

dircache_search_entry(c, d) == IF d = 0 THEN [c EXCEPT !.r = 0] ELSE Validated(c, d)
dircache_search_by_name(c, pd, n) == dircache_search_entry(c, NamedEntry(c, pd, n))

dircache_search_at_stat_followed(t, pd, n, i) ==
    IF t.r # 0 /\ t.ent[t.r].ino = i /\ pd \in Cached(t) /\ ~follows(t.ent[t.r], t.ent[pd])
    THEN [pfd_purge(t, t.r) EXCEPT !.ent[t.r].path = fullpath_join(t, pd, n)] ELSE t

\* The entry of a name just found to be object i.
dircache_search_at_stat(c, pd, n, i) ==
    LET d == NamedEntry(c, pd, n)
    IN  IF d = 0 THEN [c EXCEPT !.r = 0] ELSE dircache_search_at_stat_followed(dir_takes_stat(c, d, i), pd, n, i)

dirlookup_miss_retry(stale, d, strict) ==
    dirlookup_internal(IF stale.r = 0 THEN stale ELSE dir_remove_tree(stale, d),
                       d, 0, strict)
\* Object i is at the path that the row gives.
dirlookup_miss_at(up, path, i, row, d, retry, strict) ==
    IF i # 0 THEN [dircache_add(up, d, dir_new(up, row.name, row.pdid, i)) EXCEPT !.r = d]
    ELSE IF Enotdir(up, path) THEN [up EXCEPT !.r = 0, !.err = "misc"]
    ELSE IF retry = 1 THEN dirlookup_miss_retry(dircache_search_by_did(up, d), d, strict)
    ELSE [up EXCEPT !.r = 0, !.err = "noobj"]
dirlookup_miss_path(up, path, row, d, retry, strict) ==
    dirlookup_miss_at(up, path, ostat(up, path), row, d, retry, strict)
dirlookup_miss_inFolder(up, row, d, retry, strict) ==
    IF up.r = 0 THEN up
    ELSE dirlookup_miss_path(up, fullpath_join(up, up.r, row.name), row, d, retry, strict)

\* A miss: the row gives the folder and the name, the folder the path.
dirlookup_miss(c, d, retry, strict) ==
    IF c.row[d] = NoRow THEN [c EXCEPT !.r = 0, !.err = "noobj"]
    ELSE dirlookup_miss_inFolder(dirlookup_internal(c, c.row[d].pdid, 1, 1), c.row[d], d, retry, strict)

\* ok says that entry d stands, at whose path object i is now.
StrictlyAt(h, d, i, strict) ==
    IF ~strict \/ i = h.ent[d].ino THEN [h EXCEPT !.ok = 1]
    ELSE IF i = 0 THEN [dir_remove_tree(h, d) EXCEPT !.ok = 0]
    ELSE strict_refresh(h, d, i)
Strictly(h, d, strict) == StrictlyAt(h, d, ostat(h, h.ent[d].path), strict)

DirlookupInternal_hit(h, d, retry, strict) == IF h.ok = 1 THEN h ELSE dirlookup_miss(h, d, retry, strict)
DirlookupInternal_searched(h, d, strict) ==
    IF h.r = 0 THEN [h EXCEPT !.ok = 0] ELSE Strictly(h, d, strict = 1)
DirlookupInternal(c, d, retry, strict) ==
    IF d = 0 THEN [c EXCEPT !.r = 0, !.err = "param"]
    ELSE IF d \in {RootParent, RootDid} THEN [c EXCEPT !.r = d]
    ELSE DirlookupInternal_hit(DirlookupInternal_searched(dircache_search_by_did(c, d), d, strict), d, retry, strict)

DirlookupStrict_fresh(f, d) == IF f.ok = 1 THEN f ELSE dirlookup(f, d)
DirlookupStrict_looked(l, d) ==
    IF l.r = 0 \/ d \in {RootParent, RootDid} THEN [l EXCEPT !.ok = 1] ELSE Strictly(l, d, TRUE)
DirlookupStrict(c, d) == DirlookupStrict_fresh(DirlookupStrict_looked(dirlookup(c, d), d), d)

-----------------------------------------------------------------------------
(* The working directory *)

chdir_to(c, i) == IF IsDir(c, i) THEN [c EXCEPT !.cwd = i, !.ok = 1] ELSE [c EXCEPT !.ok = 0]
chdir(c, path) == chdir_to(c, ostat(c, path))

Movecwd_sync(l) ==
    [IF l.cur = RootParent THEN l ELSE chdir(l, l.ent[l.cur].path) EXCEPT
        !.ok = 0, !.err = IF l.r = 0 /\ l.err = "misc" THEN "misc" ELSE "noobj"]
Movecwd_entered(m, l) == IF m.ok = 1 THEN [m EXCEPT !.cur = l.r] ELSE Movecwd_sync(l)
Movecwd_healed(l) == IF l.r = 0 THEN Movecwd_sync(l) ELSE Movecwd_entered(chdir(l, l.ent[l.r].path), l)

\* ok says whether curdir and the working directory are now directory d.  A
\* path that is gone is looked up again; failing that, the working directory
\* goes where the lookups left curdir.
Movecwd(c, d) ==
    LET path == c.ent[d].path
    IN  IF d = 0 THEN [c EXCEPT !.ok = 0, !.err = "param"]
        ELSE IF d = RootParent THEN [c EXCEPT !.cur = d, !.ok = 1]
        ELSE IF chdir(c, path).ok = 1 THEN [chdir(c, path) EXCEPT !.cur = d]
        ELSE IF ostat(c, path) # 0 \/ Enotdir(c, path) THEN [c EXCEPT !.ok = 0, !.err = "noobj"]
        ELSE Movecwd_healed(dirlookup_strict(dir_remove_tree(c, d), d))

dir_add_added(id, pd, n, i) == [dircache_add(id, id.r, dir_new(id, n, pd, i)) EXCEPT !.r = id.r]
dir_add_searched(s, pd, n, i) ==
    dir_add_added(get_id(dir_remove_tree(s, s.r), i, pd, n), pd, n, i)

\* The folder with name n in curdir, object i, gets an entry of its own.
dir_add(c, pd, n, i) ==
    dir_add_searched(dircache_search_by_name(c, pd, n), pd, n, i)

-----------------------------------------------------------------------------
Gone == -2
NoPath == [found |-> 0, name |-> "", ino |-> 0, valid |-> 0, dir |-> 0]
NoAct == [ino |-> 0, was |-> {}]
Up == ".."

Fail(c, e) == [c EXCEPT !.err = e]
NoParams(c, e) == [c EXCEPT !.p = NoPath, !.err = e]

-----------------------------------------------------------------------------
(* Path names *)

\* ostat() of a name in the working directory, 0 for none.
Lstat(c, n) == IF IsDir(c, c.cwd) THEN Child(c, c.cwd, n) ELSE 0

of_stat(c) == [c EXCEPT !.p = [@ EXCEPT !.ino = Lstat(c, c.p.name), !.valid = 1]]

\* The folder itself is looked up by its name from its parent.
of_statdir(c) ==
    LET up == IF c.cwd = RootIno THEN RootIno
              ELSE IF IsDir(c, c.cwd) THEN Child(c, c.node[c.cwd].par, c.ent[c.p.dir].name) ELSE 0
    IN  IF c.p.name # "" THEN of_stat(c) ELSE [c EXCEPT !.p = [@ EXCEPT !.ino = up, !.valid = 1]]

\* Into the directory that a lookup found.
GoTo(l) == movecwd(l, l.r)

path_from_dir_in(m, c, d, e, kept) ==
    IF d \in {RootParent, RootDid} \/ c.err # "noobj" \/ m.ok = 0 THEN [m EXCEPT !.p = NoPath]
    ELSE [IF kept THEN dir_remove_tree(m, d) ELSE m EXCEPT
             !.p = [c.p EXCEPT !.found = 1, !.name = e.name, !.dir = 0]]

\* The folder could not be entered: its name in its parent is the result.  The
\* entry goes unless movecwd() has removed it.
path_from_dir(c, d, e, kept) ==
    path_from_dir_in(GoTo(dirlookup(c, e.pdid)), c, d, e, kept)

Enter_in(m, c, d, last) ==
    IF d = 0 \/ m.ok = 1 THEN m
    ELSE IF ~last THEN [m EXCEPT !.p = NoPath]
    ELSE [path_from_dir(m, d, c.ent[d], ostat(c, c.ent[d].path) # 0 \/ Enotdir(c, c.ent[d].path)) EXCEPT !.ok = 0]

\* movecwd() into folder d; last says that no name follows.
Enter(c, d, last) ==
    Enter_in(movecwd(c, d), c, d, last)

Folder_searched(s, c, n, i) == IF s.r # 0 THEN s ELSE dir_add(s, c.cur, n, i)

\* The folder with name n in curdir, found to be object i.
Folder(c, n, i) ==
    Folder_searched(dircache_search_at_stat(c, c.cur, n, i), c, n, i)

PathEnd(c) ==
    IF c.cur = RootParent THEN NoParams(c, "did1")
    ELSE IF c.p.name # "" THEN [c EXCEPT !.p.found = 1]
    ELSE [c EXCEPT !.p = [@ EXCEPT !.found = 1, !.dir = c.cur,
                                   !.valid = IF c.ent[c.cur].ino = c.p.ino THEN @ ELSE 0]]

GoUp_in(m, d) ==
    IF m.ok = 0 THEN [dir_remove_tree(m, d) EXCEPT !.p = NoPath, !.ok = 0]
    ELSE [m EXCEPT !.p = [@ EXCEPT !.valid = 0, !.name = ""]]
GoUp_parent(l) == IF l.r = 0 THEN [l EXCEPT !.p = NoPath, !.ok = 0] ELSE GoUp_in(GoTo(l), l.r)

\* An empty name leads up.
GoUp(c) ==
    IF c.cur \in {RootDid, RootParent} THEN [NoParams(c, "param") EXCEPT !.ok = 0]
    ELSE GoUp_parent(dirlookup(c, c.ent[c.cur].pdid))

RECURSIVE PathWalk(_, _)
\* On with the rest, a name that led down forgotten.
PathWalk_on(w, names) == IF w.ok = 0 THEN w ELSE PathWalk([w EXCEPT !.p.name = ""], Tail(names))
PathWalk_into(f, names) == PathWalk_on(Enter(f, f.r, Len(names) = 1), names)
\* The first name is object i in the working directory.
PathWalk_name(c, names, i) ==
    IF i = 0 \/ ~IsDir(c, i)
    THEN IF Len(names) = 1 THEN PathEnd(c) ELSE NoParams(c, IF i = 0 THEN "noobj" ELSE "param")
    ELSE PathWalk_into(Folder(c, Head(names), i), names)
PathWalk_named(c, names, i) ==
    PathWalk_name([c EXCEPT !.p = [@ EXCEPT !.name = Head(names), !.ino = i, !.valid = 1]], names, i)
PathWalk(c, names) ==
    IF names = <<>> THEN PathEnd(c)
    ELSE IF Head(names) = Up THEN PathWalk_on(GoUp(c), names)
    ELSE IF c.cur # RootParent THEN PathWalk_named(c, names, Lstat(c, Head(names)))
    ELSE IF Head(names) # Volume THEN NoParams(c, "noobj")
    ELSE PathWalk_into([c EXCEPT !.r = RootDid], names)

Cname_in(m, names) == IF m.ok = 0 THEN m ELSE PathWalk(m, names)

\* p is the path found below directory d; p.found = 0 for an error.
Cname(c, d, names) ==
    Cname_in(Enter([c EXCEPT !.p = NoPath, !.err = "noobj"], d, names = <<>>), names)

Found_looked(l, names) == IF l.r = 0 THEN [l EXCEPT !.p = NoPath] ELSE cname(l, l.r, names)

\* The start of every request: the lookup of the DID, and the path.
FoundAt(c, d, names, strict) ==
    Found_looked(IF strict THEN dirlookup_strict(c, d) ELSE dirlookup(c, d), names)

Calls(c, f, d, x, y) ==
    CASE f = "dirlookup_internal" -> DirlookupInternal(c, d, x, y)
      [] f = "dirlookup_strict" -> DirlookupStrict(c, d)
      [] f = "validated" -> CheckEntry(c, d)
      [] f = "dir_remove" -> DirRemove(c, d)
      [] f = "dir_modify" -> DirModify(c, d, x)
      [] f = "movecwd" -> Movecwd(c, d)
      [] f = "cname" -> Cname(c, d, x)
      [] f = "found" -> FoundAt(c, d, x, y)

-----------------------------------------------------------------------------
(* What the client is told *)

\* An ID is told for an object.
Tell(c, i, k) == [c EXCEPT !.known = @ \cup {<<i, k>>}, !.err = "ok"]

diroffcnt(e) == e.oct \in {"old", "now"}
setdiroffcnt(c, d, i, n) ==
    [c EXCEPT !.ent[d] = [@ EXCEPT !.off = n, !.oct = Taken(c, i), !.listed = 0]]
offcnt_serve(c, d, i) ==
    IF diroffcnt(c.ent[d]) THEN c ELSE setdiroffcnt(c, d, i, Cardinality(Children(c, i)))
dir_offcnt_take(c, d) ==
    IF c.ent[d].off > 0 THEN [c EXCEPT !.ent[d].off = @ - 1] ELSE [c EXCEPT !.ent[d].oct = "none"]

getdirparams_answer(t, d, i) ==
    IF t.ok = 0 THEN Fail(t, "noobj") ELSE Tell(offcnt_serve(t, d, i), i, d)

\* The entry follows the stat, or the DID names no folder there.
getdirparams(c, d, i) ==
    getdirparams_answer(dir_takes_stat(c, d, i), d, i)

NewFileEntry_added(id, pd, n, i) == Tell(dircache_add(id, id.r, dir_new(id, n, pd, i)), i, id.r)

\* A file gets its ID and its entry.
NewFileEntry(c, pd, n, i) ==
    NewFileEntry_added(get_id(IF c.r = 0 THEN c ELSE dir_remove_tree(c, c.r), i, pd, n), pd, n, i)

\* Whatever inode the entry has.
getfilparams_anyino(c, i) ==
    LET Searched(s) == IF s.r # 0 THEN Tell(s, i, s.r) ELSE NewFileEntry(s, c.cur, c.p.name, i)
    IN  Searched(dircache_search_by_name(c, c.cur, c.p.name))

getfilparams_searched(s, c, i) ==
    IF s.r # 0 /\ s.ent[s.r].ino = i THEN Tell(s, i, s.r)
    ELSE NewFileEntry(s, c.cur, c.p.name, i)

\* The ID of a file comes from its entry, if that is of the same inode.
getfilparams(c, i) ==
    getfilparams_searched(dircache_search_by_name(c, c.cur, c.p.name), c, i)

afp_getfildirparams_params(s) ==
    LET i == s.p.ino
    IN  IF i = 0 THEN Fail(s, "noobj")
        ELSE IF ~IsDir(s, i) THEN getfilparams(s, i)
        ELSE IF s.p.dir = 0 THEN Fail(s, "noobj")
        ELSE getdirparams(s, s.p.dir, i)
afp_getfildirparams_at(f) ==
    IF f.p.found = 0 THEN f ELSE afp_getfildirparams_params(IF f.p.valid = 1 THEN f ELSE of_statdir(f))

afp_getfildirparams(c, d, names) ==
    afp_getfildirparams_at(Found(c, d, names, FALSE))

afp_opendir_at(f) ==
    IF f.p.found = 0 THEN f
    ELSE IF f.p.name # "" \/ (f.p.valid = 0 /\ f.cwd = Dead) THEN Fail(f, "noobj")
    ELSE Tell(f, f.cwd, f.cur)

afp_opendir(c, d, names) ==
    afp_opendir_at(Found(c, d, names, FALSE))

-----------------------------------------------------------------------------
(* Requests that change the volume *)

\* A change is made to object i for DID d; was are the objects told to have it.
Acted(c, i, d) == [c EXCEPT !.act = [ino |-> i, was |-> {k[1] : k \in {x \in c.known : x[2] = d}}]]
\* The same for what is found at a path of names: it is d's own object, or one
\* in it.
ActedAt(c, i, d, names) ==
    IF names = <<>> THEN Acted(c, i, d)
    ELSE IF Len(names) = 1 /\ names[1] # Up THEN Acted(c, c.node[i].par, d) ELSE c

NewIno(c) == Min(FreeInos(c))

afp_createdir_inside(in, i) ==
    IF in.ok = 0 THEN in
    ELSE Tell(Hint([in EXCEPT !.hdr[i] = in.cur], in.cur, "refresh"), i, in.cur)
afp_createdir_made(f, i, d, n) ==
    afp_createdir_inside(GoTo(dir_add([Place(Acted(f, f.cwd, d), i, f.cwd, n, "dir") EXCEPT
                            !.ent[f.cur].off = @ + 1], f.cur, n, i)), i)
afp_createdir_at(f, d, n) ==
    IF f.p.found = 0 THEN f
    ELSE IF f.p.name = "" \/ f.p.ino # 0 THEN Fail(f, "exist")
    ELSE IF ~IsDir(f, f.cwd) THEN Fail(f, "noobj")
    ELSE afp_createdir_made(f, NewIno(f), d, n)
afp_createdir_moved(m, d, n) ==
    IF m.ok = 0 THEN m ELSE afp_createdir_at(cname(m, m.cur, <<n>>), d, n)
afp_createdir_looked(l, d, n) == IF l.r = 0 THEN l ELSE afp_createdir_moved(GoTo(l), d, n)

afp_createdir(c, d, n) ==
    afp_createdir_looked(dirlookup_strict(c, d), d, n)

afp_createfile_told(in, k, old) ==
    IF old THEN Fail(Hint(Hint(in, in.cur, "refresh"), k, "refresh"), "ok")
    ELSE Fail([Hint(in, in.cur, "refresh") EXCEPT !.ent[in.cur].off = @ + 1], "ok")
afp_createfile_cache(s, pd, k, i, old, n) ==
    afp_createfile_told(IF s.r = 0 THEN dircache_add(s, k, dir_new(s, n, pd, i)) ELSE dir_modify(s, s.r, i), k, old)
afp_createfile_named(id, pd, i, old, n) ==
    afp_createfile_cache(dircache_search_by_name([id EXCEPT !.hdr[i] = id.r], pd, n), pd, id.r, i, old, n)
afp_createfile_make(f, i, old, d, n) ==
    afp_createfile_named(get_id(IF old THEN Touch(Acted(f, f.cwd, d), {i})
                 ELSE Place(Acted(f, f.cwd, d), i, f.cwd, n, "file"), i, f.cur, n), f.cur, i, old, n)
afp_createfile_at(f, d, n, hard) ==
    IF f.p.found = 0 THEN f
    ELSE IF f.p.name = "" THEN Fail(f, "badtype")
    ELSE IF f.p.ino # 0 /\ hard = 0 THEN Fail(f, "exist")
    ELSE IF ~IsDir(f, f.cwd) THEN Fail(f, "noobj")
    ELSE afp_createfile_make(f, IF f.p.ino # 0 THEN f.p.ino ELSE NewIno(f), f.p.ino # 0, d, n)

\* A hard create empties the file it finds.
afp_createfile(c, d, n, hard) ==
    afp_createfile_at(Found(c, d, <<n>>, TRUE), d, n, hard)

\* An object is deleted by way of AFP: its ID is never told again.
Deleted(c, i) ==
    [Erase(c, i) EXCEPT !.known = {IF k[1] = i THEN <<Gone, k[2]>> ELSE k : k \in c.known}]

deletecurdir_out(gone, c) ==
    LET fdir == c.cur
    IN  Hint(dir_remove_tree(cnid_delete(gone, fdir), fdir), fdir, "delete_children")
deletecurdir_uncount(out) == Fail(dir_offcnt_take(out, out.cur), "ok")
deletecurdir_at(m, i, c, d, names) ==
    IF i = 0 THEN Fail(deletecurdir_out(m, c), "noobj")
    ELSE IF ~IsDir(m, i) \/ Children(m, i) # {} THEN Fail(m, "dirnempt")
    ELSE deletecurdir_uncount(deletecurdir_out(Deleted(ActedAt(m, i, d, names), i), c))
deletecurdir_in(m, c, d, names) ==
    LET fdir == c.cur
        e == c.ent[fdir]
    IN  IF m.ok = 0 THEN m ELSE deletecurdir_at(m, Lstat(m, e.name), c, d, names)
deletecurdir_looked(l, c, d, names) ==
    IF l.r = 0 THEN Fail(l, "access") ELSE deletecurdir_in(GoTo(l), c, d, names)

deletecurdir(c, d, names) ==
    LET fdir == c.cur
        e == c.ent[fdir]
    IN  deletecurdir_looked(dirlookup(c, e.pdid), c, d, names)

deletefile_told(out, id) == IF id = 0 THEN out ELSE Hint(out, id, "delete")
deletefile_uncount(w) == Fail(dir_offcnt_take(Hint(w, w.cur, "refresh"), w.cur), "ok")
\* k is the ID of the entry, 0 for none.
deletefile_drop(gone, k, id) ==
    deletefile_uncount(deletefile_told(IF k = 0 THEN cnid_delete(gone, id) ELSE dir_remove(cnid_delete(gone, id), k), id))
deletefile_go(gone, k, c) ==
    LET n == c.p.name
    IN  deletefile_drop(gone, k, IF k # 0 THEN k ELSE cnid_get(gone, c.cur, n))
deletefile_searched(s, c, d, names) ==
    LET i == c.p.ino
    IN  IF s.r # 0 /\ s.ent[s.r].ino # i THEN Fail(dir_remove(s, s.r), "noobj")
        ELSE deletefile_go(Deleted(ActedAt(s, i, d, names), i), s.r, c)

deletefile(c, d, names) ==
    LET n == c.p.name
    IN  deletefile_searched(dircache_search_by_name(c, c.cur, n), c, d, names)

afp_delete_there(s, d, names) ==
    IF s.p.ino = 0 THEN Fail(s, "noobj")
    ELSE IF s.p.dir = 0 THEN IF IsDir(s, s.p.ino) THEN Fail(s, "access") ELSE deletefile(s, d, names)
    ELSE IF s.cur = RootDid THEN Fail(s, "access")
    ELSE deletecurdir(s, d, names)
afp_delete_at(f, d, names) ==
    IF f.p.found = 0 THEN f ELSE afp_delete_there(of_statdir(f), d, names)

afp_delete(c, d, names) ==
    afp_delete_at(Found(c, d, names, TRUE), d, names)

\* Whether folder i is j or lies below it.
RECURSIVE Below(_, _, _)
Below(c, i, j) == i = j \/ (i # RootIno /\ Below(c, c.node[i].par, j))

moveandrename_told(rowed, id, opdid, isdir) ==
    Fail(Hint(Hint(Hint(rowed, id, IF isdir THEN "delete_children" ELSE "refresh"),
                   opdid, "refresh"), rowed.cur, "refresh"), "ok")
moveandrename_header(moved, id, from) ==
    IF moved.hdr[from] = 0 THEN moved ELSE [moved EXCEPT !.hdr[from] = id]
moveandrename_entry(w, entry, from, new) ==
    IF entry = 0 THEN w ELSE dir_modify_path(w, entry, w.cur, new, from)
moveandrename_sweep(w, e, isdir) == IF isdir THEN dircache_remove_children_defer(w, e.path) ELSE w
\* The entry, the header and the row follow.
moveandrename_row(w, id, from, new) == cnid_update(w, id, from, w.cur, new)
moveandrename_done(w, id, entry, from, e, new, isdir) ==
    IF id = 0 THEN Fail(w, "ok")
    ELSE moveandrename_told(
             moveandrename_row(
                 moveandrename_header(moveandrename_entry(moveandrename_sweep(w, e, isdir), entry, from, new),
                                      id, from), id, from, new), id, IF isdir THEN e.pdid ELSE w.hold, isdir)
moveandrename_renamed(s, from, to, here, id, e, old, new, isdir, d, names) ==
    IF here /\ old = new THEN Fail(s, "ok")
    ELSE IF to # 0 /\ ~(here /\ from \in {0, to}) THEN Fail(s, "exist")
    ELSE IF from = 0 THEN Fail(s, "noobj")
    ELSE IF IsDir(s, from) /\ Below(s, s.cwd, from) THEN Fail(s, "cantmove")
    ELSE moveandrename_done(Move(ActedAt(s, from, d, names), from, s.cwd, new), id,
                            IF isdir THEN s.hold ELSE s.r, from, e, new, isdir)
moveandrename_from(sp, sfd, old, isdir) ==
    IF isdir THEN IF sp.r = RootParent THEN 0 ELSE ostat(sp, fullpath_join(sp, sp.r, old))
    ELSE IF IsDir(sp, sfd) THEN Child(sp, sfd, old) ELSE 0
moveandrename_source(sp, c, e, sfd, old, new, isdir, d, names) ==
    IF isdir /\ sp.r = 0 THEN sp
    ELSE moveandrename_renamed(IF isdir THEN sp ELSE dircache_search_by_name(sp, c.hold, old),
                               moveandrename_from(sp, sfd, old, isdir), Lstat(sp, new),
                               sp.cur = IF isdir THEN e.pdid ELSE c.hold,
                               IF isdir THEN c.hold ELSE cnid_get(c, c.hold, old), e, old, new, isdir, d, names)

\* Object old of sdir becomes new in curdir.  e is the entry of sdir: the
\* folder itself if isdir, else the folder of the file, with the descriptor
\* sfd.  hold is what sdir's DID is by now.
moveandrename(c, e, sfd, old, new, isdir, d, names) ==
    moveandrename_source(IF isdir THEN dirlookup_strict(c, e.pdid) ELSE dircache_search_by_name(c, c.hold, old),
                         c, e, sfd, old, new, isdir, d, names)

afp_rename_in(m, e, isdir, d, names, new) ==
    IF isdir /\ m.ok = 0 THEN m
    ELSE moveandrename(m, e, m.cwd, IF isdir THEN e.name ELSE m.p.name, new, isdir, d, names)
afp_rename_held(h, e, d, names, new) ==
    afp_rename_in(IF h.p.dir = 0 THEN h ELSE GoTo(dirlookup(h, e.pdid)), e, h.p.dir # 0, d, names, new)
afp_rename_at(f, d, names, new) ==
    IF f.p.found = 0 THEN f
    ELSE IF f.p.dir # 0 /\ f.cur = RootDid THEN Fail(f, "norename")
    ELSE afp_rename_held([f EXCEPT !.hold = f.cur], f.ent[f.cur], d, names, new)

afp_rename(c, d, names, new) ==
    afp_rename_at(Found(c, d, names, TRUE), d, names, new)

afp_moveandrename_to(g, f, old, d, names, new) ==
    IF g.p.found = 0 THEN g
    ELSE IF g.p.name # "" THEN Fail(g, "noobj")
    ELSE moveandrename(g, f.ent[f.cur], f.cwd, old, IF new = "" THEN old ELSE new,
                       f.p.dir # 0, d, names)
afp_moveandrename_at(f, d, names, dd, dnames, new) ==
    IF f.p.found = 0 THEN f
    ELSE afp_moveandrename_to(Found([f EXCEPT !.hold = f.cur], dd, dnames, TRUE), f,
            IF f.p.dir # 0 THEN f.ent[f.cur].name ELSE f.p.name, d, names, new)

\* An empty new name keeps the old one.
afp_moveandrename(c, d, names, dd, dnames, new) ==
    afp_moveandrename_at(Found(c, d, names, TRUE), d, names, dd, dnames, new)

afp_setfildirparams_wrote(w, i) == Fail(IF w.r = 0 THEN w ELSE dir_modify(w, w.r, i), "ok")
afp_setfildirparams_file(s, id, i) ==
    afp_setfildirparams_wrote(dircache_search_by_name(Touch([id EXCEPT !.hdr[i] = IF @ = 0 THEN id.r ELSE @], {i}),
                                  s.cur, s.p.name), i)
afp_setfildirparams_set(s) ==
    LET i == s.p.ino
    IN  IF i = 0 THEN Fail(s, "noobj")
        ELSE IF IsDir(s, i)
        THEN Fail(dir_modify(Touch([s EXCEPT !.hdr[i] = s.p.dir], {i}), s.p.dir, i), "ok")
        ELSE afp_setfildirparams_file(s, IF s.hdr[i] # 0 THEN s ELSE get_id(s, i, s.cur, s.p.name), i)
afp_setfildirparams_at(f) ==
    IF f.p.found = 0 THEN f ELSE afp_setfildirparams_set(IF f.p.valid = 1 THEN f ELSE of_statdir(f))

\* Attributes, dates and Finder info go to the header, which gets the ID.
afp_setfildirparams(c, d, names) ==
    afp_setfildirparams_at(Found(c, d, names, TRUE))

-----------------------------------------------------------------------------
(* File IDs *)

afp_createid_added(a, i) == Tell(a, i, a.r)
afp_createid_row(l, s) ==
    afp_createid_added(IF l.r # 0 THEN l ELSE cnid_add(l, s.p.ino, s.cur, s.p.name, 0), s.p.ino)
afp_createid_there(s) ==
    IF s.p.ino = 0 THEN Fail(s, "noobj")
    ELSE afp_createid_row(cnid_lookup(s, s.p.ino, s.cur, s.p.name, 0), s)
afp_createid_at(f) ==
    IF f.p.found = 0 THEN f
    ELSE IF f.p.dir # 0 THEN Fail(f, "badtype")
    ELSE afp_createid_there(IF f.p.valid = 1 THEN f ELSE of_stat(f))

afp_createid(c, d, names) ==
    afp_createid_at(Found(c, d, names, FALSE))

\* Every name in the folder gets a row, unless that was done since its last
\* change.  ok = 0 when the DID names no folder there.
reenumerate_id(c, d) ==
    LET All(t) == FoldSet(LAMBDA i, w : cnid_add(w, i, d, w.node[i].name, 0), t, Children(t, t.cwd))
        Listed(t) ==
            IF t.ok = 0 \/ (t.ent[d].listed = 1 /\ diroffcnt(t.ent[d])) THEN t
            ELSE [setdiroffcnt(All(t), d, t.cwd, Cardinality(Children(t, t.cwd))) EXCEPT !.ent[d].listed = 1]
    IN  IF c.cwd = Dead THEN [c EXCEPT !.ok = 0] ELSE Listed(dir_takes_stat(c, d, c.cwd))

RECURSIVE afp_resolveid(_, _, _)
afp_resolveid_again(e, id, retry) ==
    IF retry = 0 \/ e.ok = 0 THEN Fail(e, "noid") ELSE afp_resolveid(e, id, 0)
afp_resolveid_at(m, i, c, id, retry) ==
    LET row == c.row[id]
    IN  IF i = 0 THEN afp_resolveid_again(reenumerate_id(m, m.cur), id, retry)
        ELSE IF IsDir(m, i) THEN Fail(m, "noid")
        ELSE Tell(dircache_search_by_name(m, m.cur, row.name), i, id)
afp_resolveid_in(m, c, id, retry) ==
    LET row == c.row[id]
    IN  IF m.ok = 0 THEN m ELSE afp_resolveid_at(m, Lstat(m, row.name), c, id, retry)
afp_resolveid_looked(l, c, id, retry) ==
    IF l.r = 0 THEN l ELSE afp_resolveid_in(GoTo(l), c, id, retry)

afp_resolveid(c, id, retry) ==
    LET row == c.row[id]
    IN  IF row = NoRow THEN Fail(c, "noid") ELSE afp_resolveid_looked(dirlookup(c, row.pdid), c, id, retry)

afp_deleteid_drop(w, id) ==
    [cnid_delete(w, id) EXCEPT !.known = {k \in @ : k[2] # id}, !.void = @ \cup {id}]
afp_deleteid_in(m, c, id) ==
    LET row == c.row[id]
    IN  IF m.ok = 1 /\ IsDir(m, Lstat(m, row.name)) THEN Fail(m, "badtype") ELSE afp_deleteid_drop(m, id)
afp_deleteid_looked(l, c, id) ==
    IF l.r # 0 THEN afp_deleteid_in(GoTo(l), c, id) ELSE IF l.err = "noobj" THEN afp_deleteid_drop(l, id) ELSE l

\* The ID is no longer anybody's.
afp_deleteid(c, id) ==
    LET row == c.row[id]
    IN  IF row = NoRow THEN Fail(c, "noid") ELSE afp_deleteid_looked(dirlookup(c, row.pdid), c, id)

-----------------------------------------------------------------------------
(* What arrives from others *)

process_cache_hint_kept(m, c, d, ev) ==
    IF ev = "delete_children" /\ m.r # 0 /\ m.ent[m.r].ino = c.ent[d].ino
    THEN dircache_remove_children_defer(m, m.ent[m.r].path) ELSE m

\* A hint about entry d.
process_cache_hint(c, d, ev) ==
    LET i == ostat(c, c.ent[d].path)
    IN  IF c.ent[d] = NoEnt THEN IF ev = "delete" THEN c ELSE pfd_purge(c, d)
        ELSE IF ev = "delete" THEN dir_remove(c, d)
        ELSE IF i = 0 THEN dir_remove_tree(c, d)
        ELSE process_cache_hint_kept(dir_modify(c, d, i), c, d, ev)

\* The deferred scan for the children of one path.
ScanFor(c, path) ==
    LET under == {d \in Cached(c) \ {RootDid, c.cur} :
                      Len(c.ent[d].path) > Len(path) /\ SubSeq(c.ent[d].path, 1, Len(path)) = path}
    IN  [FoldSet(LAMBDA d, w : Unlink(w, d), c, under) EXCEPT !.pend = @ \ {path}]

\* The DID of a folder that has a row.
DidOf(c, i) == IF i = RootIno THEN RootDid ELSE Max({0} \cup InodeRow(c, i))

Tree(c, i) == {j \in CatInos : Exists(c, j) /\ Below(c, j, i)}
Forget(c, s) == [c EXCEPT !.known = {k \in @ : k[1] \notin s}]
Posted(c, d, ev) == [c EXCEPT !.inbox = @ \cup {[did |-> d, ev |-> ev]}]
CanMove(c, i, par, n) == /\ Exists(c, i) /\ i # RootIno /\ IsDir(c, par)
                         /\ Child(c, par, n) = 0 /\ ~Below(c, par, i)

\* A sibling session renames, creates or deletes, as the requests above do.
SiblingMoves(c, i, par, n) ==
    LET k == DidOf(c, i)
        m == cnid_update(Move(c, i, par, n), k, i, DidOf(c, par), n)
    IN  Posted(Posted(Posted(m, k, IF IsDir(c, i) THEN "delete_children" ELSE "refresh"),
                      DidOf(c, c.node[i].par), "refresh"), DidOf(c, par), "refresh")
SiblingCreates(c, par, n, kind) ==
    LET i == NewIno(c)
        m == get_id(Place(c, i, par, n, kind), i, DidOf(c, par), n)
    IN  Posted([m EXCEPT !.hdr[i] = m.r], IF kind = "dir" THEN m.r ELSE DidOf(c, par), "refresh")
SiblingDeletes(c, i) ==
    LET k == DidOf(c, i)
        m == cnid_delete(Deleted(c, i), k)
    IN  Posted(Posted(m, k, IF IsDir(c, i) THEN "delete_children" ELSE "delete"),
               DidOf(c, c.node[i].par), "refresh")

-----------------------------------------------------------------------------
(* The steps *)

\* A configuration gives the objects that exist, and how many requests of
\* which kinds and how many changes of others an instance takes.
CatNew(cf) ==
    LET has(i) == i \in DOMAIN cf.tree
        root == [NoNode EXCEPT !.kind = "dir"]
    IN  [node |-> [i \in CatInos |-> IF i = RootIno THEN root ELSE IF has(i) THEN cf.tree[i] ELSE NoNode],
         hdr |-> [i \in CatInos |-> 0], row |-> [k \in Ids |-> NoRow], seq |-> FirstId - 1,
         ent |-> [d \in Dids |-> IF d = RootDid THEN RootEnt ELSE NoEnt], cur |-> RootDid, cwd |-> RootIno,
         pfd |-> [d \in Dids |-> NoFd], pend |-> {}, sent |-> {}, r |-> 0, ok |-> 0, err |-> "ok",
         val |-> 0, probe |-> 0, hold |-> 0, p |-> NoPath, known |-> {}, void |-> {}, inbox |-> {},
         act |-> NoAct, cf |-> [cf EXCEPT !.tree = <<>>]]

CatInit == \E cf \in CatConfigs : cat = CatNew(cf)

\* Between requests nothing is held, and of the last change only a stray one
\* is of interest.
Rest(c) == [c EXCEPT !.r = 0, !.ok = 0, !.err = "ok", !.hold = 0, !.p = NoPath, !.val = 0, !.probe = 0,
                     !.sent = {}, !.act = IF @.was \subseteq {@.ino} THEN NoAct ELSE @]

\* A request runs with every lookup checked or with one of them, as the
\* configured rate and the counter have it.
Starts == {[cat EXCEPT !.val = v, !.probe = b, !.act = NoAct, !.cf.reqs = @ - 1] :
                   v \in cat.cf.vals, b \in cat.cf.probes}
Ready(op) == op \in cat.cf.ops /\ cat.cf.reqs > 0 /\ cat.seq + 2 <= CatLast /\ FreeInos(cat) # {}

\* The client names DIDs it was told, and paths of up to two names.
KnownDids == {RootDid} \cup {k[2] : k \in cat.known}
Paths == {<<>>} \cup {<<n>> : n \in CatNames} \cup {<<m, n>> : m \in CatNames \cup {Up}, n \in CatNames}

GetParams == /\ Ready("get")
             /\ \E c \in Starts, d \in KnownDids, q \in Paths : cat' = Rest(afp_getfildirparams(c, d, q))
OpenDir == /\ Ready("opendir")
           /\ \E c \in Starts, d \in KnownDids, q \in Paths : cat' = Rest(afp_opendir(c, d, q))
CreateDir == /\ Ready("createdir")
             /\ \E c \in Starts, d \in KnownDids, n \in CatNames :
                    cat' = Rest(afp_createdir(c, d, n))
CreateFile == /\ Ready("createfile")
              /\ \E c \in Starts, d \in KnownDids, n \in CatNames, hard \in {0, 1} :
                     cat' = Rest(afp_createfile(c, d, n, hard))
Delete == /\ Ready("delete")
          /\ \E c \in Starts, d \in KnownDids, q \in Paths : cat' = Rest(afp_delete(c, d, q))
Rename == /\ Ready("rename")
          /\ \E c \in Starts, d \in KnownDids, q \in Paths, n \in CatNames :
                 cat' = Rest(afp_rename(c, d, q, n))
MoveAndRename == /\ Ready("move")
                 /\ \E c \in Starts, d, dd \in KnownDids, q \in Paths, n \in CatNames \cup {""} :
                        Len(q) < 2 /\ cat' = Rest(afp_moveandrename(c, d, q, dd, <<>>, n))
SetParams == /\ Ready("set")
             /\ \E c \in Starts, d \in KnownDids, q \in Paths : cat' = Rest(afp_setfildirparams(c, d, q))
CreateId == /\ Ready("createid")
            /\ \E c \in Starts, d \in KnownDids, q \in Paths : cat' = Rest(afp_createid(c, d, q))
ResolveId == /\ Ready("resolveid")
             /\ \E c \in Starts, d \in KnownDids \ {RootDid} :
                    cat' = Rest(afp_resolveid(c, d, 1))
DeleteId == /\ Ready("deleteid")
            /\ \E c \in Starts, d \in KnownDids \ {RootDid} : cat' = Rest(afp_deleteid(c, d))

HintArrives == \E h \in cat.inbox :
                   cat' = Rest(process_cache_hint([cat EXCEPT !.inbox = @ \ {h}], h.did, h.ev))
IdleScan == \E path \in cat.pend : cat' = Rest(ScanFor(cat, path))
Evict == /\ cat.cf.evicts > 0
         /\ \E d \in Cached(cat) \ {RootDid, cat.cur} : cat' = Rest(Unlink([cat EXCEPT !.cf.evicts = @ - 1], d))

\* A new second.
Tick == /\ cat.cf.ticks > 0
        /\ \E i \in CatInos : cat.node[i].hot = 1
        /\ LET Later(ct) == IF ct = "now" THEN "old" ELSE ct
           IN  cat' = [cat EXCEPT !.cf.ticks = @ - 1,
                           !.node = [i \in CatInos |-> [cat.node[i] EXCEPT !.hot = 0]],
                           !.ent = [d \in Dids |-> [cat.ent[d] EXCEPT !.ct = Later(@), !.oct = Later(@)]]]

\* The hints of one change arrive before the next change of a sibling.
Sibling == [cat EXCEPT !.cf.sibs = @ - 1]
SiblingMove == /\ cat.cf.sibs > 0 /\ cat.inbox = {}
               /\ \E i, par \in CatInos, n \in CatNames :
                      /\ CanMove(cat, i, par, n) /\ DidOf(cat, i) # 0 /\ DidOf(cat, par) # 0
                      /\ cat' = Rest(SiblingMoves(Sibling, i, par, n))
\* The inode of a new object is not one this session still has an entry for.
SiblingCreate == /\ cat.cf.sibs > 0 /\ cat.inbox = {} /\ cat.seq + 2 <= CatLast /\ FreeInos(cat) # {}
                 /\ \E par \in CatInos, n \in CatNames, kind \in {"dir", "file"} :
                        /\ IsDir(cat, par) /\ Child(cat, par, n) = 0 /\ DidOf(cat, par) # 0
                        /\ \A d \in Dids : cat.ent[d].ino # NewIno(cat)
                        /\ cat' = Rest(SiblingCreates(Sibling, par, n, kind))
SiblingDelete == /\ cat.cf.sibs > 0 /\ cat.inbox = {}
                 /\ \E i \in CatInos \ {RootIno} :
                        /\ Exists(cat, i) /\ Children(cat, i) = {} /\ DidOf(cat, i) # 0
                        /\ cat' = Rest(SiblingDeletes(Sibling, i))

Local == [cat EXCEPT !.cf.locs = @ - 1]
LocalMove == /\ cat.cf.locs > 0
             /\ \E i, par \in CatInos, n \in CatNames :
                    /\ CanMove(cat, i, par, n)
                    /\ cat' = Rest(Move(Forget(Local, Tree(cat, i)), i, par, n))
LocalCreate == /\ cat.cf.locs > 0 /\ FreeInos(cat) # {}
               /\ \E par \in CatInos, n \in CatNames, kind \in {"dir", "file"} :
                      /\ IsDir(cat, par) /\ Child(cat, par, n) = 0
                      /\ cat' = Rest(Place(Local, NewIno(cat), par, n, kind))
LocalDelete == /\ cat.cf.locs > 0
               /\ \E i \in CatInos \ {RootIno} :
                      /\ Exists(cat, i) /\ Children(cat, i) = {}
                      /\ cat' = Rest(Erase(Forget(Local, {i}), i))

CatNext == \/ GetParams \/ OpenDir \/ CreateDir \/ CreateFile \/ Delete \/ Rename \/ MoveAndRename
           \/ SetParams \/ CreateId \/ ResolveId \/ DeleteId
           \/ HintArrives \/ IdleScan \/ Evict \/ Tick
           \/ SiblingMove \/ SiblingCreate \/ SiblingDelete \/ LocalMove \/ LocalCreate \/ LocalDelete
CatSpec == CatInit /\ [][CatNext]_cat

-----------------------------------------------------------------------------
(* Properties *)

CatTypeOK ==
    /\ \A i \in CatInos : cat.node[i].par \in CatInos \cup {0} /\ cat.node[i].kind \in {"none", "dir", "file"}
    /\ \A k \in Ids : cat.row[k].pdid \in Dids \cup {0} /\ cat.row[k].ino \in CatInos \cup {0}
    /\ \A d \in Dids : cat.ent[d].ct \in {"none", "now", "old", "stale"}
    /\ cat.cur \in Dids \cup {RootParent} /\ cat.cwd \in CatInos \cup {Dead}
    /\ cat.known \subseteq (CatInos \cup {Gone}) \X Dids

\* The client's IDs are stable: what it is told for an object stays the ID of
\* that object, and names no other, while the object is renamed and moved by
\* this session and by its siblings, and also after it is deleted.
IdsStable ==
    \A j, k \in cat.known : /\ j[2] = k[2] => j[1] = k[1]
                            /\ j[1] = k[1] /\ j[1] # Gone /\ k[2] \notin cat.void => j[2] = k[2]

\* A request that creates, deletes, renames or moves by a DID makes the change
\* in the folder the client was told that DID for.
ActsWhereNamed == cat.act.was \subseteq {cat.act.ino}

\* While nobody else changes the volume, every entry that does not wait for
\* the deferred scan is what the disk and the CNID rows hold.
CacheCurrent ==
    cat.cf.alone = 1 =>
        \A d \in Cached(cat) \ {RootDid} :
            \/ \E p \in cat.pend : IsPrefix(p, cat.ent[d].path)
            \/ /\ ostat(cat, cat.ent[d].path) = cat.ent[d].ino
               /\ cat.row[d] = [pdid |-> cat.ent[d].pdid, name |-> cat.ent[d].name, ino |-> cat.ent[d].ino]
=============================================================================
