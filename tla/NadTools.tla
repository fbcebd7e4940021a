------------------------------ MODULE NadTools ------------------------------
(***************************************************************************)
(* nad cp, mv, rm, mkdir and rmdir, bin/nad: a script of commands changes  *)
(* the files below a few roots, each an AFP volume or a plain folder, and  *)
(* keeps the CNID tables of the volumes.                                   *)
(*                                                                         *)
(* An object is an inode with the place it is linked at, its data, its     *)
(* resource fork rf and its Finder information fin.  How a volume stores   *)
(* the metadata (cf.vol: v2 or ea, none for a plain folder) decides what a *)
(* copy finds.  One step is the handling of one entry of a walk.           *)
(***************************************************************************)
EXTENDS Integers, Sequences, FiniteSets, SequencesExt, FiniteSetsExt

CONSTANTS NtFirst,    \* the first CNID of a table
          NtConfigs   \* [vol, objs, cmds, fails, signals, exdev]

VARIABLE nt
ntVars == <<nt>>

(***************************************************************************)
(* The tree and the tables.                                                *)
(***************************************************************************)
Here(s) == {o \in DOMAIN s.objs : s.objs[o].here = 1}
In(s, d) == {o \in Here(s) : s.objs[o].in = d}
Child(s, d, n) == LET c == {o \in In(s, d) : s.objs[o].name = n}
                  IN  IF c = {} THEN 0 ELSE CHOOSE o \in c : TRUE
Root(s, o) == s.objs[o].root
Volume(s, o) == s.cf.vol[Root(s, o)]
InVolume(s, o) == Volume(s, o) # "none"
Has(s, flag) == flag \in s.cf.cmds[s.i].flags

RECURSIVE Below(_, _)
Below(s, o) == {o} \cup UNION {Below(s, c) : c \in In(s, o)}

RECURSIVE Chain(_, _)
Chain(s, o) == IF o = Root(s, o) THEN <<>> ELSE Append(Chain(s, s.objs[o].in), o)

RECURSIVE Walked(_, _, _)
Walked(s, d, names) ==
    IF names = <<>> \/ d = 0 THEN d ELSE Walked(s, Child(s, d, Head(names)), Tail(names))

\* The object a path names: a root and the names below it.
At(s, path) == Walked(s, path[1], Tail(path))

\* The ID of a folder as its row has it, 2 for the root of a volume.
Did(s, d) == IF d = Root(s, d) THEN 2
             ELSE LET r == {x \in s.rows[Root(s, d)] : x.ino = d}
                  IN  IF r = {} THEN 0 ELSE (CHOOSE x \in r : TRUE).id

cnid_add(s, o) ==
    LET v == Root(s, o)
        did == Did(s, s.objs[o].in)
        hits == {r \in s.rows[v] : r.ino = o \/ (r.did = did /\ r.name = s.objs[o].name)}
        row(k) == [id |-> k, ino |-> o, did |-> did, name |-> s.objs[o].name]
    IN  IF \E r \in hits : r = row(r.id) THEN s
        ELSE [s EXCEPT !.rows[v] = (@ \ hits) \cup {row(s.seq[v])}, !.seq[v] = @ + 1]

cnid_delete(s, o) == [s EXCEPT !.rows[Root(s, o)] = {r \in @ : r.ino # o}]

\* The row gets the inode st, the parent and the name; rows in its way go.
cnid_update(s, id, st, d, n) ==
    LET did == Did(s, d)
    IN  [s EXCEPT !.rows[Root(s, d)] =
            {r \in @ : r.id # id /\ r.ino # st /\ ~(r.did = did /\ r.name = n)}
            \cup {[id |-> id, ino |-> st, did |-> did, name |-> n]}]

\* Every folder on the way and the object get their rows.
cnid_for_path(s, o) == FoldLeft(cnid_add, s, Chain(s, o))
cnid_for_paths_parent(s, o) == FoldLeft(cnid_add, s, Front(Chain(s, o)))

(***************************************************************************)
(* The commands of the script.                                             *)
(***************************************************************************)
Either(s, good, bad) ==
    good \cup (IF s.fails > 0 THEN {[b EXCEPT !.fails = @ - 1] : b \in bad} ELSE {})

\* badcp and badrm of the tool.
Bad(s) == [s EXCEPT !.bad = 1]

Done(s, rc) ==
    [s EXCEPT !.pc = "idle", !.i = @ + 1, !.todo = <<>>, !.args = <<>>, !.rc = 0, !.tool = "none",
              !.rcs = Append(@, rc), !.bad = 0, !.alarmed = 0]
\* NAD_FATAL ends the process.
Fatal(s) == Done(s, 1)

Fresh(s) == CHOOSE o \in DOMAIN s.objs : s.objs[o].here = 0 /\ s.objs[o].used = 0
Create(s, d, n, kind, data) ==
    [s EXCEPT !.objs[Fresh(s)] = [here |-> 1, used |-> 1, kind |-> kind, in |-> d, name |-> n,
                                  root |-> Root(s, d), data |-> data, rf |-> 0, fin |-> 0,
                                  closed |-> 0]]
Unlink(s, o) == [s EXCEPT !.objs[o].here = 0, !.objs[o].used = 1]

\* A walk ends, by itself or at an error.
EndWalk(s, rc) == [s EXCEPT !.todo = <<>>, !.pc = "walked", !.rc = IF rc # 0 THEN 1 ELSE s.bad]
Stop(s) == EndWalk(Bad(s), 1)
Step(s) == [s EXCEPT !.todo = Tail(@)]

(***************************************************************************)
(* nad cp.                                                                 *)
(***************************************************************************)
\* The files of the metadata are copied as the target volume names them; a
\* source without such files has nothing to copy.
vfs_copyfile(s, o, to) ==
    IF Volume(s, o) # Volume(s, to) THEN s
    ELSE [s EXCEPT !.objs[to].rf = s.objs[o].rf, !.objs[to].fin = s.objs[o].fin]

copy_source_header(s, o, to) ==
    IF ~InVolume(s, o) THEN s ELSE [s EXCEPT !.objs[to].fin = s.objs[o].fin]

\* The metadata and the CNID of a new entry in a volume: next is the walk
\* after the entry.  A copy of the metadata that fails ends the entry, later
\* failures end the walk or the process.
CopyMeta(s, o, to, next(_)) ==
    LET ids(t) == cnid_for_path(t, to)
        kept(t) == copy_source_header(ids(t), o, to)
        on(t) == Either(t, {next(kept(t))},
                        {Stop(t), Stop(ids(t)), Fatal(ids(t)), next(Bad(kept(t)))})
    IN  IF ~InVolume(s, to) THEN {next(s)}
        ELSE IF ~InVolume(s, o) THEN on(s)
        ELSE Either(s, on(vfs_copyfile(s, o, to)), {next(Bad(s))})

\* An existing target is overwritten in place, or unlinked before under -f.
ftw_copy_file(s, o, to, d, n) ==
    LET new(t) == Create(t, d, n, "file", s.objs[o].data)
        place(t) == IF to # 0 /\ ~Has(s, "f") THEN [t EXCEPT !.objs[to].data = s.objs[o].data]
                    ELSE IF to # 0 THEN new(Unlink(t, to)) ELSE new(t)
        torn(t) == LET u == place(t) IN [u EXCEPT !.objs[Child(u, d, n)].data = 0]
    IN  [good |-> place(s), bad |-> {s, torn(s)}]

copy_file(s, o, to, d, n) ==
    LET c == ftw_copy_file(s, o, to, d, n)
    IN  Either(s, CopyMeta(c.good, o, Child(c.good, d, n), Step), {Step(Bad(b)) : b \in c.bad})

Entries(s, o, to) ==
    LET kids == IF s.objs[o].closed = 1 THEN {} ELSE In(s, o)
    IN  [i \in 1..Cardinality(kids) |->
            LET c == CHOOSE c \in kids : Cardinality({x \in kids : x < c}) = i - 1
            IN  [o |-> c, d |-> to, n |-> s.objs[c].name]]

\* The entries of a folder follow it, whatever happened to its metadata.  A
\* folder that cannot be read has none.
copy_dir(s, o, to, d, n) ==
    LET made == IF to = 0 THEN Create(s, d, n, "dir", 0) ELSE s
        at == Child(made, d, n)
        next(t) == [t EXCEPT !.todo = Entries(t, o, at) \o Tail(t.todo)]
    IN  IF to # 0 /\ s.objs[to].kind # "dir" THEN {Fatal(s)}
        ELSE Either(s, CopyMeta(made, o, at, next), {Fatal(s)})

copy_link(s, o, to, d, n) ==
    LET gone == IF to = 0 THEN s ELSE Unlink(s, to)
    IN  Either(s, {Step(Create(gone, d, n, "link", s.objs[o].data))}, {Step(Bad(s)), Step(Bad(gone))})

\* copy: the next entry of the walk.
cp_entry(s) ==
    LET e == Head(s.todo)
        x == s.objs[e.o]
        to == Child(s, e.d, e.n)
    IN  IF s.alarmed = 1 THEN {EndWalk(s, 1)}
        ELSE IF x.kind = "side" /\ Volume(s, e.d) = "ea" THEN {Step(s)}
        ELSE IF to = e.o \/ (to # 0 /\ x.kind # "dir" /\ s.objs[to].kind = "dir") THEN {Step(Bad(s))}
        ELSE IF to # 0 /\ Has(s, "n") /\ x.kind # "dir" THEN {Step(s)}
        ELSE CASE x.kind = "dir" -> IF Has(s, "R") \/ s.tool = "mvcp" THEN copy_dir(s, e.o, to, e.d, e.n)
                                    ELSE {Stop(s)}
               [] x.kind \in {"file", "side"} -> copy_file(s, e.o, to, e.d, e.n)
               [] x.kind = "link" -> copy_link(s, e.o, to, e.d, e.n)
               [] x.kind = "fifo" -> {Step(s)}

\* The walk of one source: into a folder that exists, else to the new name.
nad_cp(s, tool, src, dst) ==
    LET o == At(s, src)
        to == At(s, dst)
        d == At(s, Front(dst))
        item == IF to # 0 /\ s.objs[to].kind = "dir"
                THEN [o |-> o, d |-> to, n |-> s.objs[o].name]
                ELSE [o |-> o, d |-> d, n |-> Last(dst)]
    IN  [s EXCEPT !.pc = "cp", !.tool = tool, !.todo = <<item>>, !.bad = 0]

(***************************************************************************)
(* nad rm.  A folder is handled after its entries.                         *)
(***************************************************************************)
RmItems(s, o) == Entries(s, o, 0) \o <<[o |-> o, d |-> -1, n |-> "after"]>>

\* The row goes before the entry does.
rm_entry(s) ==
    LET e == Head(s.todo)
        x == s.objs[e.o]
        rowless == IF InVolume(s, e.o) THEN cnid_delete(cnid_for_path(s, e.o), e.o) ELSE s
        fails == IF InVolume(s, e.o) THEN {Stop(s), Stop(cnid_for_path(s, e.o))} ELSE {}
        gone == Unlink(rowless, e.o)
    IN  IF s.alarmed = 1 THEN {EndWalk(s, 1)}
        ELSE IF x.kind = "side" /\ Volume(s, e.o) = "ea" THEN Either(s, {Step(Unlink(s, e.o))}, {Stop(s)})
        ELSE IF x.kind = "fifo" THEN {Step(Bad(s))}
        ELSE IF x.kind # "dir" THEN Either(s, {Step(gone)}, fails \cup {Step(Bad(rowless))})
        ELSE IF x.closed = 1 THEN {Stop(s)}
        ELSE IF e.d # -1 THEN {[s EXCEPT !.todo = RmItems(s, e.o) \o Tail(@)]}
        ELSE IF In(s, e.o) # {} THEN {Stop(rowless)}
        ELSE Either(s, {Step(gone)}, fails \cup {Stop(rowless)})

nad_rm(s, tool, src) ==
    LET o == At(s, src)
        start == [s EXCEPT !.pc = "rm", !.tool = tool, !.bad = 0,
                           !.todo = <<[o |-> o, d |-> 0, n |-> "top"]>>]
    IN  IF s.objs[o].kind = "dir" /\ tool = "rm" /\ ~Has(s, "R")
        THEN [s EXCEPT !.pc = "walked", !.tool = tool, !.rc = 1]
        ELSE start

\* Outside the volumes nad mv removes the source by itself: entry by entry,
\* and the first one that cannot be removed ends it.
remove_path(s, o) ==
    LET all == Below(s, o)
        less(gone) == [s EXCEPT !.objs = [c \in DOMAIN @ |-> IF c \in gone THEN [@[c] EXCEPT !.here = 0]
                                                             ELSE @[c]]]
    IN  IF \E c \in all : s.objs[c].closed = 1 THEN {Done(s, 1)}
        ELSE Either(s, {Done(less(all), 0)}, {Done(s, 1), Done(less(all \ {o}), 1)})

(***************************************************************************)
(* nad mv.                                                                 *)
(***************************************************************************)
\* stat and open follow a link.
Target(s, o) == IF s.objs[o].kind = "link" THEN s.objs[o].data ELSE o

Replaceable(s, o, to) ==
    to = 0 \/ (s.objs[to].kind = "dir" /\ s.objs[o].kind = "dir" /\ In(s, to) = {})
    \/ (s.objs[to].kind # "dir" /\ s.objs[o].kind # "dir")

Placed(s, o, to, d, n) ==
    LET gone == IF to = 0 THEN s ELSE Unlink(s, to)
    IN  [gone EXCEPT !.objs[o].in = d, !.objs[o].name = n]

\* Within one volume: the row of the source is looked up, the entry renamed,
\* the metadata moved, and the row given the new place.
move_inside(s, o, to, d, n) ==
    LET known == cnid_for_path(s, o)
        row == CHOOSE r \in known.rows[Root(s, o)] : r.ino = o
        st == Target(s, o)
        moved == Placed(known, o, to, d, n)
        parent == cnid_for_paths_parent(moved, o)
        strayed == [moved EXCEPT !.strays = @ \cup {[rf |-> s.objs[o].rf, fin |-> s.objs[o].fin]},
                                 !.objs[o].rf = 0,
                                 !.objs[o].fin = IF Volume(s, o) = "v2" THEN 0 ELSE @]
        updated == cnid_update(parent, row.id, st, d, n)
    IN  IF st = 0 \/ s.objs[st].here = 0 THEN {Done(known, 1)}
        ELSE IF ~Replaceable(s, o, to) \/ d \in Below(s, o) THEN {Done(known, 1)}
        ELSE IF s.objs[st].kind \notin {"file", "dir"} THEN {Done(moved, 1)}
        ELSE Either(s, {Done(updated, 0)},
                    {Done(s, 1), Done(known, 1), Done(moved, 1), Done(parent, 1), Done(updated, 1)}
                    \cup (IF s.objs[st].kind = "file" THEN {Done(strayed, 1)} ELSE {}))

\* Between volumes: an existing target goes, nad cp copies, then the source
\* is removed.
copy(s, src, o, to, d, n) ==
    LET c == [s EXCEPT !.args = src]
        gone == Unlink(c, to)
        item == [o |-> o, d |-> d, n |-> n]
        go(t) == [t EXCEPT !.pc = "cp", !.tool = "mvcp", !.todo = <<item>>]
    IN  IF to = 0 THEN {go(c)}
        ELSE IF s.objs[to].kind = "dir" /\ In(s, to) # {} THEN {Done(s, 1)}
        ELSE Either(s, {go(gone)}, {Done(s, 1)})

\* Mutant: the source is removed whatever nad cp returned.
Removal_always(s) ==
    IF InVolume(s, At(s, s.args)) THEN {nad_rm(s, "mvrm", s.args)}
    ELSE remove_path(s, At(s, s.args))

Removal(s) ==
    IF s.rc # 0 THEN {Done(s, 1)}
    ELSE IF InVolume(s, At(s, s.args)) THEN {nad_rm(s, "mvrm", s.args)}
    ELSE remove_path(s, At(s, s.args))

do_move(s, src, dst) ==
    LET o == At(s, src)
        dir == At(s, dst)
        into == dir # 0 /\ s.objs[dir].kind = "dir"
        d == IF into THEN dir ELSE At(s, Front(dst))
        n == IF into THEN s.objs[o].name ELSE Last(dst)
        to == Child(s, d, n)
        far == s.cf.exdev = 1 /\ s.objs[o].in # d
        plain == ~InVolume(s, o) /\ ~InVolume(s, d)
        rename == IF Replaceable(s, o, to) /\ d \notin Below(s, o)
                  THEN Either(s, {Done(Placed(s, o, to, d, n), 0)}, {Done(s, 1)}) ELSE {Done(s, 1)}
    IN  IF to # 0 /\ Has(s, "n") THEN {Done(s, 0)}
        ELSE IF to = o THEN {Done(s, 0)}
        ELSE IF plain THEN IF Root(s, o) # Root(s, d) THEN copy(s, src, o, to, d, n) ELSE rename
        ELSE IF Root(s, o) # Root(s, d) THEN copy(s, src, o, to, d, n)
        ELSE IF far THEN copy(cnid_for_path(s, o), src, o, to, d, n)
        ELSE move_inside(s, o, to, d, n)

(***************************************************************************)
(* nad mkdir and nad rmdir.                                                *)
(***************************************************************************)
mkdir_with_cnid(s, path) ==
    LET d == At(s, Front(path))
        made == Create(s, d, Last(path), "dir", 0)
        at == Child(made, d, Last(path))
        rowed == IF InVolume(s, d) THEN cnid_for_path(made, at) ELSE made
    IN  IF d = 0 \/ At(s, path) # 0 THEN {[s EXCEPT !.rc = 1]}
        ELSE Either(s, {rowed}, {[t EXCEPT !.rc = 1] : t \in {s, made, rowed}})

\* Under -p the folders of the path are made that are missing.
RECURSIVE mkdir_p(_, _, _)
mkdir_p(s, path, k) ==
    IF k > Len(path) THEN {s}
    ELSE LET o == At(s, SubSeq(path, 1, k))
         IN  IF o # 0 THEN IF s.objs[o].kind = "dir" THEN mkdir_p(s, path, k + 1)
                           ELSE {[s EXCEPT !.rc = 1]}
             ELSE UNION {IF t.rc # 0 THEN {t} ELSE mkdir_p(t, path, k + 1) :
                             t \in mkdir_with_cnid(s, SubSeq(path, 1, k))}

do_mkdir(s, path) ==
    {Done(t, t.rc) : t \in IF Has(s, "p") THEN mkdir_p(s, path, 2) ELSE mkdir_with_cnid(s, path)}

is_protected_dir(s, o) == InVolume(s, o) /\ o = Root(s, o)

\* The row goes only after the folder.
rmdir_with_cnid(s, o) ==
    LET known == IF InVolume(s, o) THEN cnid_for_path(s, o) ELSE s
        gone == Unlink(known, o)
        bad(t) == [t EXCEPT !.rc = 1]
    IN  IF is_protected_dir(s, o) \/ s.objs[o].kind # "dir" THEN {bad(s)}
        ELSE IF In(s, o) # {} THEN {bad(known)}
        ELSE Either(s, {IF InVolume(s, o) THEN cnid_delete(gone, o) ELSE gone},
                    {bad(s), bad(known), bad(gone)})

\* Under -p the parents follow until one cannot be removed.
RECURSIVE rmdir_p(_, _)
rmdir_p(s, path) ==
    IF Len(path) < 2 THEN {s}
    ELSE UNION {IF t.rc # 0 THEN {[t EXCEPT !.rc = 0]} ELSE rmdir_p(t, Front(path)) :
                    t \in rmdir_with_cnid(s, At(s, path))}

do_rmdir(s, path) ==
    {Done(t, t.rc) :
        t \in UNION {IF u.rc = 0 /\ Has(s, "p") THEN rmdir_p(u, Front(path)) ELSE {u} :
                         u \in rmdir_with_cnid(s, At(s, path))}}

(***************************************************************************)
(* The script.                                                             *)
(***************************************************************************)
NtInit ==
    \E cf \in NtConfigs :
        nt = [cf |-> cf, objs |-> cf.objs, rows |-> cf.rows, 
              seq |-> [v \in DOMAIN cf.rows |-> NtFirst + Cardinality(cf.rows[v])],
              i |-> 1, pc |-> "idle", tool |-> "none", todo |-> <<>>, args |-> <<>>, rc |-> 0,
              rcs |-> <<>>, bad |-> 0, alarmed |-> 0, signals |-> cf.signals,
              strays |-> {}, spent |-> {}, fails |-> cf.fails]

\* What the user wants gone: the arguments of rm and rmdir, and what lies at
\* the target of a copy or a move.
Given(s) ==
    LET c == s.cf.cmds[s.i]
        at(p) == IF At(s, p) = 0 THEN {} ELSE Below(s, At(s, p))
    IN  IF c.op \in {"rm", "rmdir"} THEN at(c.src)
        ELSE IF c.op = "mkdir" THEN {} ELSE at(c.dst)

Command(s) ==
    LET c == s.cf.cmds[s.i]
        t == [s EXCEPT !.spent = @ \cup Given(s)]
    IN  IF c.op # "mkdir" /\ At(s, c.src) = 0 THEN {Done(s, 1)}
        ELSE IF c.op \in {"cp", "mv"} /\ At(s, Front(c.dst)) = 0 /\ At(s, c.dst) = 0
        THEN {Done(s, 1)}
        ELSE CASE c.op = "cp" -> {nad_cp(t, "cp", c.src, c.dst)}
               [] c.op = "mv" -> do_move(t, c.src, c.dst)
               [] c.op = "rm" -> {nad_rm(t, "rm", c.src)}
               [] c.op = "mkdir" -> do_mkdir(t, c.src)
               [] c.op = "rmdir" -> do_rmdir(t, c.src)

Begin == nt.pc = "idle" /\ nt.i <= Len(nt.cf.cmds) /\ nt' \in Command(nt)

\* nftw hands the next entry to the tool, or the walk is over.
Walk ==
    /\ nt.pc \in {"cp", "rm"}
    /\ nt' \in IF nt.todo = <<>> THEN {EndWalk(nt, 0)}
               ELSE IF nt.pc = "cp" THEN cp_entry(nt) ELSE rm_entry(nt)

Walked_on ==
    /\ nt.pc = "walked"
    /\ nt' \in IF nt.tool = "mvcp" THEN Removal(nt) ELSE {Done(nt, nt.rc)}

sig_handler ==
    /\ nt.alarmed = 0 /\ nt.signals > 0 /\ nt.pc # "idle"
    /\ nt' = [nt EXCEPT !.alarmed = 1, !.signals = @ - 1]

NtNext == Begin \/ Walk \/ Walked_on \/ sig_handler
NtSpec == NtInit /\ [][NtNext]_ntVars

(***************************************************************************)
(* Properties.                                                             *)
(***************************************************************************)
\* A plain folder has no place for metadata.
Kept(o) ==
    LET x == nt.cf.objs[o]
        meta(y) == [rf |-> y.rf, fin |-> y.fin]
    IN  \E p \in Here(nt) :
            LET y == nt.objs[p]
            IN  /\ y.data = x.data /\ y.kind = x.kind
                /\ meta(y) = meta(x) \/ ~InVolume(nt, p) \/ meta(x) \in nt.strays

\* Rows of objects that are there, at the place they are.
RowTrue(v, r) ==
    LET x == nt.objs[r.ino]
    IN  x.here = 1 /\ x.root = v /\ x.name = r.name /\ Did(nt, x.in) = r.did

\* Whatever call fails and whenever a signal stops it, no tool loses a file
\* it was not told to delete or to replace: its data, its resource fork and
\* its Finder information are there, at the source or in the target volume
\* (nad_mv.c copy, nad_cp.c copy, nad_rm.c rm).  When every command
\* succeeded, each row of a CNID table belongs to an entry that is there,
\* under its name in its folder, and an entry that stayed in its volume has
\* the ID it had.
ToolsKeep ==
    /\ \A o \in DOMAIN nt.cf.objs :
           nt.cf.objs[o].here = 1 /\ nt.cf.objs[o].kind # "dir" /\ o \notin nt.spent => Kept(o)
    /\ nt.pc = "idle" /\ (\A k \in 1..Len(nt.rcs) : nt.rcs[k] = 0)
       => \A v \in DOMAIN nt.rows :
              /\ \A r \in nt.rows[v] : RowTrue(v, r)
              /\ \A r \in nt.cf.rows[v] :
                     nt.objs[r.ino].here = 1 => \E q \in nt.rows[v] : q.ino = r.ino /\ q.id = r.id
=============================================================================
