-------------------------------- MODULE Dbd --------------------------------
(***************************************************************************)
(* dbd, the maintenance run over one volume: bin/dbd/cmd_dbd.c,            *)
(* bin/dbd/cmd_dbd_scanvol.c and the conversion of libatalk/adouble/       *)
(* ad_conv.c.                                                              *)
(*                                                                         *)
(* An object of the volume has a name in a folder, its metadata with the   *)
(* CNID that it holds as a hint, what is left of version 2 metadata on an  *)
(* extended attribute volume, and its extended attribute files: a header   *)
(* that lists them and the files, each missing (0), good (1) or of another *)
(* size than the header says (2).  The metadata of a folder of a version 2 *)
(* volume is the .Parent file of its .AppleDouble folder.  A folder also   *)
(* records the AppleDouble and EA files in .AppleDouble whose data file is *)
(* gone.  The inode of an object is the object.  The scan keeps a stack of *)
(* folders; readdir may return the entries in any order.                   *)
(***************************************************************************)
EXTENDS Integers, Sequences, FiniteSets, FiniteSetsExt, SequencesExt

CONSTANTS DbRoot,     \* the volume root, an object
          DbFirst,    \* the first CNID the database assigns
          DbLast,     \* the CNID whose use empties the table
          DbDecoded,  \* the names decoded from CAP escapes, a function of the escaped ones
          DbSuffix,   \* pairs <<n, m>> where the name m ends with n
          DbConfigs   \* [vol, ea, flags, objs, rows, fails, removes, signals]

VARIABLE db
dbVars == <<db>>

Has(s, f) == f \in s.cf.flags
EaVolume(s) == s.cf.vol = "ea"
In(s, d) == {o \in DOMAIN s.objs : s.objs[o].here = 1 /\ s.objs[o].in = d /\ o # DbRoot}
Named(s, d, n) == {o \in In(s, d) : s.objs[o].name = n}
Fails(s) == s.cf.fails > 0
Spent(s) == [s EXCEPT !.cf.fails = @ - 1, !.hurt = 1]

\* The outcomes of a call: good, or bad when it fails.
Either(s, good, bad) == good \cup (IF Fails(s) THEN {Spent(b) : b \in bad} ELSE {})

DbInit ==
    \E c \in DbConfigs :
        db = [cf |-> c, objs |-> c.objs, rows |-> c.rows,
              seq |-> Max({DbFirst - 1} \cup {r.id : r \in c.rows}),
              pc |-> "start", stack |-> <<>>, ret |-> 0, status |-> "run",
              alarmed |-> 0, hurt |-> 0, seen |-> {}, skipped |-> {}]

Ended(s, status) == [s EXCEPT !.pc = "done", !.status = status, !.stack = <<>>]

(***************************************************************************)
(* The CNID database, as the scan uses it.                                 *)
(***************************************************************************)
Hits(rows, o, did, n) == {r \in rows : r.ino = o \/ (r.did = did /\ r.name = n)}

cnid_wipe(s) ==
    LET w == [s EXCEPT !.rows = {}, !.seq = DbFirst - 1]
    IN  Either(s, {w}, {Ended(s, "failed"), Ended(w, "failed")})

\* The row of an unchanged object is found, that of an object with another
\* name is moved when the hint confirms it, and every other row of the name or
\* the inode goes.  id 0 stands for the failure that empties the table.
cnid_add(s, o, did, n, hint) ==
    LET hits == Hits(s.rows, o, did, n)
        same == {r \in hits : r.ino = o /\ r.did = did /\ r.name = n}
        moved == {r \in hits : r.id = hint /\ <<r.did, r.name>> # <<did, n>>}
        left == s.rows \ hits
        free == Cardinality(hits) < 2 /\ hint # 0 /\ hint \notin {r.id : r \in left}
        id == IF free THEN hint ELSE s.seq + 1
        put(k) == [id |-> k, ino |-> o, did |-> did, name |-> n]
    IN  IF same # {} THEN [s |-> s, id |-> (CHOOSE r \in same : TRUE).id]
        ELSE IF Cardinality(hits) = 1 /\ moved # {}
        THEN [s |-> [s EXCEPT !.rows = left \cup {put(hint)}], id |-> hint]
        ELSE IF id >= DbLast
        THEN [s |-> [s EXCEPT !.rows = {}, !.seq = DbFirst - 1], id |-> 0]
        ELSE [s |-> [s EXCEPT !.rows = left \cup {put(id)}, !.seq = Max({@, id})], id |-> id]

\* Mutant: a renamed entry keeps its row under the old name.
update_cnid_not(s, o, did, old, new) == s

\* The lookup drops the rows that do not agree; the row found is moved, and a
\* row that has the new name already gives way.
update_cnid(s, o, did, old, new) ==
    LET hits == Hits(s.rows, o, did, old)
        same == {r \in hits : r.ino = o /\ r.did = did /\ r.name = old}
        id == (CHOOSE r \in same : TRUE).id
    IN  IF same = {} THEN [s EXCEPT !.rows = @ \ hits]
        ELSE [s EXCEPT !.rows = {r \in @ \ hits : <<r.did, r.name>> # <<did, new>>}
                                \cup {[id |-> id, ino |-> o, did |-> did, name |-> new]}]

(***************************************************************************)
(* Conversion from version 2 metadata to extended attributes.              *)
(***************************************************************************)
\* A header with nothing in it is not copied; the version 2 file goes even
\* when the conversion failed.
ad_conv_v22ea_hf(x) ==
    IF x.v2 = "ok" /\ x.kind # "link" THEN [x EXCEPT !.meta = "ok", !.hint = x.v2hint] ELSE x

ad_conv_v22ea(s, o) ==
    [s EXCEPT !.objs[o] = [ad_conv_v22ea_hf(@) EXCEPT !.v2 = "none", !.v2hint = 0]]

\* The rename replaces a file that has the decoded name; one that cannot
\* replace a folder fails unnoticed, and the scan goes on with the new name.
ad_conv_dehex(s, o) ==
    LET x == s.objs[o]
        new == DbDecoded[x.name]
        over == Named(s, x.in, new)
        done == [s EXCEPT !.objs = [p \in DOMAIN @ |-> IF p \in over THEN [@[p] EXCEPT !.here = 0]
                                                       ELSE IF p = o THEN [@[p] EXCEPT !.name = new]
                                                       ELSE @[p]]]
    IN  IF x.name \notin DOMAIN DbDecoded THEN [s |-> s, name |-> x.name]
        ELSE IF \E p \in over \cup {o} : over # {} /\ s.objs[p].kind = "dir"
        THEN [s |-> s, name |-> new]
        ELSE [s |-> done, name |-> new]

ad_convert(s, o) == ad_conv_dehex(ad_conv_v22ea(s, o), o)

(***************************************************************************)
(* The checks of one folder.                                               *)
(***************************************************************************)
\* 0, 1 to leave the AppleDouble checks of the folder out, -1 for an error.
check_addir(s, d) ==
    LET x == s.objs[d]
        made == [s EXCEPT !.objs[d].addir = "ok", !.objs[d].meta = IF @ = "none" THEN "ok" ELSE @]
    IN  IF EaVolume(s) THEN {<<s, 0>>}
        ELSE IF x.addir = "bad" THEN {<<s, 1>>}
        ELSE IF x.addir = "ok" /\ x.meta # "none" THEN {<<s, 0>>}
        ELSE IF Has(s, "s") THEN {<<s, IF x.addir = "none" THEN -1 ELSE 0>>}
        ELSE {<<made, 0>>} \cup (IF Fails(s) THEN {<<Spent(s), -1>>} ELSE {})

\* An EA file with its data file stays on a volume that keeps EAs in files.
check_eafile_in_adouble(s, d) ==
    IF s.cf.ea = "ad" THEN [s EXCEPT !.objs[d].oea = 0]
    ELSE [s EXCEPT !.objs = [o \in DOMAIN @ |->
             IF o \in In(s, d) THEN [@[o] EXCEPT !.hdr = "none", !.lists = {},
                                                 !.file = [n \in DOMAIN @ |-> 0]]
             ELSE IF o = d THEN [@[o] EXCEPT !.oea = 0] ELSE @[o]]]

\* Orphaned AppleDouble and EA files go, unless the volume is only scanned.
read_addir(s, d) ==
    IF s.objs[d].addir # "ok" THEN {<<s, IF EaVolume(s) THEN 0 ELSE -1>>}
    ELSE IF Has(s, "s") THEN {<<s, 0>>}
    ELSE {<<t, 0>> : t \in Either(s, {[check_eafile_in_adouble(s, d) EXCEPT !.objs[d].oad = 0]}, {s})}

Top(s) == s.stack[Len(s.stack)]

\* The end of dbd_readdir with rc: the caller goes on, or fails as well.
Return(s, rc) ==
    IF Len(s.stack) = 1 THEN Ended(s, IF rc < 0 THEN "failed" ELSE "ok")
    ELSE IF rc < 0 THEN [s EXCEPT !.stack = Front(@), !.pc = "error"]
    ELSE [s EXCEPT !.stack = Front(@), !.pc = "walk", !.ret = rc]

\* The start of dbd_readdir in the folder on top of the stack.
EnterFolder(s) ==
    LET d == Top(s).dir
        go(t, rc) ==
            IF t.objs[d].closed = 1
            THEN Return([t EXCEPT !.skipped = @ \cup {d}], 0)
            ELSE [t EXCEPT !.pc = "walk", !.ret = 0,
                           !.stack[Len(t.stack)] = [@ EXCEPT !.ok = rc, !.left = In(t, d)]]
    IN  UNION { IF a[2] < 0 /\ ~Has(s, "s") THEN {Return(a[1], -1)}
                ELSE IF a[2] # 0 THEN {go(a[1], a[2])}
                ELSE { IF b[2] # 0 /\ ~Has(s, "s") THEN Return(b[1], -1) ELSE go(b[1], 0)
                       : b \in read_addir(a[1], d) }
              : a \in check_addir(s, d) }

(***************************************************************************)
(* The checks of one entry.                                                *)
(***************************************************************************)
\* Outcomes [s, ok, name]: ok is adfile_ok, name that of the entry afterwards.
check_adfile(s, o) ==
    LET x == s.objs[o]
        made == [s EXCEPT !.objs[o] = [@ EXCEPT !.meta = "ok", !.hint = 0,
                                       !.addir = IF x.kind = "dir" THEN "ok" ELSE @]]
        is(t, ok) == [s |-> t, ok |-> ok, name |-> x.name]
    IN  IF EaVolume(s)
        THEN IF ~Has(s, "c") THEN {is(s, 0)}
             ELSE LET c == ad_convert(s, o) IN {[s |-> c.s, ok |-> 0, name |-> c.name]}
        ELSE IF x.kind = "dir" /\ x.addir = "bad" THEN {is(s, -1)}
        ELSE IF x.meta = "none" /\ Has(s, "s") THEN {is(s, -1)}
        ELSE IF x.meta = "none"
        THEN {is(made, 0)} \cup (IF Fails(s) THEN {is(Spent(s), -1)} ELSE {})
        ELSE {is(s, IF x.meta = "ok" THEN 0 ELSE -1)}

\* The name the metadata is looked up under may be one the rename missed.
MetaOk(s, o, n) == s.objs[o].meta = "ok" /\ s.objs[o].name = n

\* The hint the metadata gives, and whether the metadata is there at all.
HintOf(s, o, n, ok) ==
    IF ok # 0 THEN [hint |-> 0, ok |-> ok]
    ELSE IF ~MetaOk(s, o, n) THEN [hint |-> 0, ok |-> 1]
    ELSE [hint |-> IF Has(s, "i") THEN 0 ELSE s.objs[o].hint, ok |-> 0]

\* Outcomes <<s, id>>; an emptied table ends the scan.
check_cnid(s, o, did, n, ok) ==
    LET h == HintOf(s, o, n, ok)
        a == cnid_add(s, o, did, n, h.hint)
    IN  IF a.id = 0 THEN {<<Ended(a.s, "failed"), 0>>}
        ELSE IF h.hint # a.id /\ h.ok = 0 /\ ~Has(s, "s")
        THEN {<<[a.s EXCEPT !.objs[o].hint = a.id], a.id>>}
             \cup (IF Fails(s) THEN {<<Spent(a.s), 0>>} ELSE {})
        ELSE {<<a.s, a.id>>}

\* The files whose name contains that of the entry followed by ::EA.
remove_eafiles(s, o) ==
    LET x == s.objs[o]
        hit == {p \in In(s, x.in) : s.objs[p].name = x.name
                                    \/ <<x.name, s.objs[p].name>> \in DbSuffix}
    IN  [s EXCEPT !.objs = [p \in DOMAIN @ |->
            IF p \in hit THEN [@[p] EXCEPT !.hdr = "none", !.lists = {},
                                           !.file = [n \in DOMAIN @ |-> 0]] ELSE @[p]]]

\* The entries whose file is missing or of another size leave the header, and
\* the file of another size goes: also when the volume is only scanned.
check_eafiles(s, o, n) ==
    LET x == s.objs[o]
        good == {e \in x.lists : x.file[e] = 1}
    IN  IF x.name # n \/ x.hdr = "none" THEN s
        ELSE IF x.hdr = "bad" THEN IF Has(s, "s") THEN s ELSE remove_eafiles(s, o)
        ELSE [s EXCEPT !.objs[o] = [@ EXCEPT !.lists = good,
                 !.hdr = IF good = {} THEN "none" ELSE "ok",
                 !.file = [e \in DOMAIN @ |-> IF e \in x.lists \ good THEN 0 ELSE @[e]]]]

\* The orphaned ._ file goes, also when the volume is only scanned; one that
\* belongs to a file is passed over.
check_orphaned(s, o) ==
    IF Named(s, s.objs[o].in, s.objs[o].base) # {} THEN s ELSE [s EXCEPT !.objs[o].here = 0]

\* A file, folder or link: its metadata, its CNID and its EA files.  A folder
\* with a CNID is entered.
CheckObject(s, o) ==
    LET f == Top(s)
        x == s.objs[o]
        ads == IF f.ok = 0 THEN check_adfile(s, o) ELSE {[s |-> s, ok |-> -1, name |-> x.name]}
        renamed(a) == IF a.name = x.name THEN a.s ELSE update_cnid(a.s, o, f.did, x.name, a.name)
        attributes(t, n) == IF f.ok = 0 /\ s.cf.ea = "ad" THEN check_eafiles(t, o, n) ELSE t
        after(c, n) ==
            IF c[1].pc = "done" THEN c[1]
            ELSE LET t == [attributes(c[1], n) EXCEPT !.seen = @ \cup {o}]
                 IN  IF x.kind = "dir" /\ c[2] # 0 /\ t.objs[o].name = n
                     THEN [t EXCEPT !.pc = "enter",
                              !.stack = Append(@, [dir |-> o, did |-> c[2], ok |-> 0, left |-> {}])]
                     ELSE t
    IN  IF x.kind = "link" THEN {a.s : a \in ads}
        ELSE UNION {{after(c, a.name) : c \in check_cnid(renamed(a), o, f.did, a.name, a.ok)}
                    : a \in ads}

\* One entry of readdir.  A lost entry leaves -1 for the result of the folder.
CheckEntry(s, o) ==
    LET x == s.objs[o]
        t == [s EXCEPT !.stack[Len(s.stack)].left = @ \ {o}]
        u == [t EXCEPT !.ret = 0]
    IN  IF s.alarmed = 1 THEN {Ended(s, "signal")}
        ELSE IF x.kind = "special" \/ (x.kind = "own" /\ EaVolume(s)) THEN {t}
        ELSE IF x.here = 0 THEN {[t EXCEPT !.ret = -1]}
        ELSE IF x.kind = "fifo"
        THEN IF Has(s, "s") THEN {u} ELSE Either(u, {[u EXCEPT !.objs[o].here = 0]}, {u})
        ELSE IF x.kind \in {"under", "own"} THEN {check_orphaned(u, o)}
        ELSE CheckObject(u, o)

\* The end of a folder: a converted one loses its empty .AppleDouble.
LeaveFolder(s) ==
    LET d == Top(s).dir
        x == s.objs[d]
        used == x.oad = 1 \/ x.oea = 1 \/ x.v2 # "none"
                \/ \E o \in In(s, d) : \/ s.objs[o].v2 # "none" /\ s.objs[o].kind # "dir"
                                       \/ s.objs[o].hdr # "none"
                                       \/ \E n \in DOMAIN s.objs[o].file : s.objs[o].file[n] # 0
    IN  Return(IF EaVolume(s) /\ Has(s, "c") /\ x.addir = "ok" /\ ~used
               THEN [s EXCEPT !.objs[d].addir = "none"] ELSE s, s.ret)

\* main: the refusal of -c, the wipe of -f, the conversion of the root.
DbStart(s) ==
    LET wiped == IF Has(s, "f") THEN cnid_wipe(s) ELSE {s}
        root(t) == IF EaVolume(t) /\ Has(t, "c") THEN ad_conv_v22ea(t, DbRoot) ELSE t
    IN  IF Has(s, "c") /\ ~EaVolume(s) THEN {Ended(s, "failed")}
        ELSE { IF t.pc = "done" THEN t
               ELSE [root(t) EXCEPT !.pc = "enter",
                        !.stack = <<[dir |-> DbRoot, did |-> 2, ok |-> 0, left |-> {}]>>]
             : t \in wiped }

(***************************************************************************)
(* The actions.                                                            *)
(***************************************************************************)
main == db.pc = "start" /\ db' \in DbStart(db)
dbd_readdir == db.pc = "enter" /\ db' \in EnterFolder(db)
readdir == /\ db.pc = "walk"
           /\ \E o \in Top(db).left : db' \in CheckEntry(db, o)
closedir == db.pc = "walk" /\ Top(db).left = {} /\ db' = LeaveFolder(db)
unwind == db.pc = "error" /\ db' = Return(db, -1)

\* A file goes between readdir and lstat.
Removed(o) ==
    /\ db.pc = "walk" /\ db.cf.removes > 0
    /\ o \in Top(db).left /\ db.objs[o].kind = "file" /\ db.objs[o].here = 1
    /\ db' = [db EXCEPT !.cf.removes = @ - 1, !.objs[o].here = 0]

sig_handler ==
    /\ db.cf.signals > 0 /\ db.pc # "done"
    /\ db' = [db EXCEPT !.cf.signals = @ - 1, !.alarmed = 1]

DbNext ==
    \/ main \/ dbd_readdir \/ readdir \/ closedir \/ unwind \/ sig_handler
    \/ \E o \in DOMAIN db.objs : Removed(o)

DbSpec == DbInit /\ [][DbNext]_dbVars

DbTypeOK ==
    /\ db.pc \in {"start", "enter", "walk", "error", "done"}
    /\ db.status \in {"run", "ok", "failed", "signal"}
    /\ db.ret \in {-1, 0} /\ {db.alarmed, db.hurt} \subseteq {0, 1}
    /\ \A r \in db.rows : r.id \in 1..DbLast

(***************************************************************************)
(* Properties.                                                             *)
(***************************************************************************)
RowsOf(s, o) == {r \in s.rows : r.ino = o}
IdOf(s, o) == IF o = DbRoot THEN 2 ELSE (CHOOSE r \in RowsOf(s, o) : TRUE).id

\* The row of o is where o is.
Placed(s, o) ==
    LET x == s.objs[o]
    IN  /\ Cardinality(RowsOf(s, o)) = 1
        /\ x.in = DbRoot \/ Cardinality(RowsOf(s, x.in)) = 1
        /\ \E r \in RowsOf(s, o) : r.did = IdOf(s, x.in) /\ r.name = x.name

Chain(s, o) == {o} \cup (IF s.objs[o].in = DbRoot THEN {} ELSE {s.objs[o].in})
At0 == [objs |-> db.cf.objs, rows |-> db.cf.rows]

\* A maintenance run that ends well leaves database, metadata and volume in
\* agreement: every file and folder of the folders it could read has one row,
\* at its place, whose CNID its metadata holds, every EA that a header lists
\* has its file, and no orphan is left.  An object whose row was right all
\* the way down keeps its CNID unless -f wipes the table (dbd_readdir with
\* check_adfile, check_cnid, update_cnid, check_eafiles and read_addir).
RepairAgrees ==
    LET s == db
        there == {o \in DOMAIN s.objs : s.objs[o].here = 1 /\ s.objs[o].kind \in {"file", "dir"}
                                        /\ o # DbRoot /\ Chain(s, o) \cap s.skipped \subseteq {o}}
        usable(d) == EaVolume(s) \/ s.objs[d].addir # "bad"
    IN  s.status = "ok" /\ s.hurt = 0 /\ ~Has(s, "s") =>
        /\ \A o \in there :
            /\ Placed(s, o)
            /\ LET x == s.objs[o]
               IN  usable(x.in) =>
                   /\ x.meta = "ok" /\ (x.kind = "dir" => usable(o)) => x.hint = IdOf(s, o)
                   /\ s.cf.ea = "ad" => x.hdr # "bad" /\ \A e \in x.lists : x.file[e] = 1
            /\ ~Has(s, "f") /\ (\A p \in Chain(s, o) : Placed(At0, p))
               => IdOf(s, o) = IdOf(At0, o)
        /\ \A d \in (there \cup {DbRoot}) \ s.skipped :
            s.objs[d].kind = "dir" /\ s.objs[d].addir = "ok" => s.objs[d].oad = 0 /\ s.objs[d].oea = 0

=============================================================================
