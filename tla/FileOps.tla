----------------------------- MODULE FileOps -----------------------------
(***************************************************************************)
(* Moving, copying, exchanging and deleting one file, as the sequence of   *)
(* system calls etc/afpd/file.c and the VFS modules of libatalk/vfs make.  *)
(*                                                                         *)
(* A file is more than its data fork: an AppleDouble file beside it holds  *)
(* the resource fork and, on a volume with appledouble = v2, the metadata  *)
(* header (with appledouble = ea the header is on the inode); ea = ad adds *)
(* an EA header file and one file per extended attribute.  Each call on    *)
(* the way may fail, and the session may die before it, so an operation is *)
(* an operator from a state to the set of the states it can end in.        *)
(***************************************************************************)
EXTENDS Integers, Sequences, FiniteSets, TLC

CONSTANTS FoEas,       \* names of extended attributes
          FoTemps,     \* names mkstemp and the symlink conversion may make up
          FoConfigs    \* volumes and files to start from

VARIABLE fo

FoNames == {"s", "d"} \cup FoTemps
NoSide == [rf |-> "none", hd |-> "none"]
NoEas == [x \in FoEas |-> "none"]
NoRow == [at |-> "none", obj |-> "none"]

\* The source folder and the destination folder; temporary files are made in
\* the destination folder.
Folder(n) == IF n = "s" THEN "src" ELSE "dst"

(***************************************************************************)
(* Failing calls.                                                          *)
(***************************************************************************)
Ok(f) == [f EXCEPT !.rc = "ok"]
Failed(f) == [f EXCEPT !.rc = "fail"]

\* One system call that takes f to g: it may fail, or never be reached.
Try(f, g) ==
    {Ok(g)} \cup (IF f.fails > 0 THEN {[Failed(f) EXCEPT !.fails = @ - 1]} ELSE {})
            \cup (IF f.crash > 0 THEN {[f EXCEPT !.dead = 1, !.crash = 0]} ELSE {})

\* The steps of F after those that led to S.
Then(S, F(_)) == UNION {IF f.dead = 1 THEN {f} ELSE F(f) : f \in S}

\* The steps of F whatever came before; a failure before them is the result.
AndThen(S, F(_)) ==
    Then(S, LAMBDA f : {IF f.rc = "fail" THEN Failed(g) ELSE g : g \in F(f)})

\* The steps of F unless a step before failed.
OnOk(S, F(_)) == Then(S, LAMBDA f : IF f.rc = "ok" THEN F(f) ELSE {f})

\* The steps of F after a failure.
OnFail(S, F(_)) == Then(S, LAMBDA f : IF f.rc = "fail" THEN F(f) ELSE {f})

unix_rename(f, a, b) ==
    IF f.file[a] = "none" THEN {Failed(f)}
    ELSE Try(f, [f EXCEPT !.file[b] = f.file[a], !.file[a] = "none"])

\* A name that is gone already counts as removed.
netatalk_unlinkat(f, n) ==
    IF f.file[n] = "none" THEN {Ok(f)} ELSE Try(f, [f EXCEPT !.file[n] = "none"])

(***************************************************************************)
(* The AppleDouble module, first of the VFS chain.                         *)
(***************************************************************************)
\* A file without a sidecar has nothing to move.  Where the folder of b has
\* no .AppleDouble, an ad_open makes it and the rename runs again.
RF_renamefile_adouble(f, a, b) ==
    IF f.side[a] = NoSide THEN {Ok(f)}
    ELSE Try(f, [f EXCEPT !.side[b] = f.side[a], !.side[a] = NoSide,
                          !.addir = @ \cup {Folder(b)}])

RF_copyfile_adouble(f, a, b) ==
    IF f.side[a] = NoSide THEN {Ok(f)} ELSE Try(f, [f EXCEPT !.side[b] = f.side[a]])

RF_deletefile_adouble(f, n) ==
    IF f.side[n] = NoSide THEN {Ok(f)} ELSE Try(f, [f EXCEPT !.side[n] = NoSide])

(***************************************************************************)
(* The EA module: extended attributes in files beside the file.            *)
(***************************************************************************)
\* Closing a header that was open for writing: without entries the header
\* file goes, else it is truncated and written again.
ea_close(f, n, entries) ==
    LET lost == IF entries = {} THEN f.eah[n] ELSE {}
    IN  {g \in Try(f, [f EXCEPT !.eah[n] = entries]) : g.rc = "ok" \/ g.dead = 1}
        \cup {[f EXCEPT !.fails = @ - 1, !.eah[n] = lost, !.rc = "fail"] : i \in 1..f.fails}

\* The session ends on the freed name of a destination header that did not
\* open: ea_open sets EFAULT for it, never the ENOENT its callers retry on.
ea_open_dst(f, b) ==
    IF Folder(b) \in f.addir
    THEN {IF g.rc = "ok" THEN g ELSE [g EXCEPT !.dead = 1] : g \in Try(f, f)}
    ELSE {[f EXCEPT !.dead = 1]}

RECURSIVE ea_move(_, _, _, _, _)
\* The loop of ea_renamefile over the entries left: each goes to the other
\* header, then its file is renamed.  The headers are written at the end, and
\* a failed write is not reported.
ea_move(f, a, b, src, dst) ==
    LET closed(g, s, d) ==
            {[h EXCEPT !.rc = g.rc] :
                h \in Then(ea_close(g, a, s), LAMBDA k : ea_close(k, b, d))}
        x == CHOOSE e \in src : TRUE
        moved == [f EXCEPT !.eaf[b][x] = f.eaf[a][x], !.eaf[a][x] = "none"]
    IN  IF src = {} THEN closed(Ok(f), src, dst)
        ELSE Then(Try(f, moved),
                  LAMBDA g : IF g.rc = "fail" THEN closed(g, src \ {x}, dst \cup {x})
                             ELSE ea_move(g, a, b, src \ {x}, dst \cup {x}))

ea_renamefile(f, a, b) ==
    IF f.eah[a] = {} THEN {Ok(f)}
    ELSE OnOk(Try(f, f), LAMBDA g : Then(ea_open_dst(g, b),
                             LAMBDA h : ea_move(h, a, b, h.eah[a], h.eah[b])))

RECURSIVE ea_dup(_, _, _, _, _)
\* The loop of ea_copyfile: entry first, then the copy of its file.
ea_dup(f, a, b, src, dst) ==
    LET closed(g, d) == {[h EXCEPT !.rc = g.rc] : h \in ea_close(g, b, d)}
        x == CHOOSE e \in src : TRUE
    IN  IF src = {} THEN closed(Ok(f), dst)
        ELSE Then(Try(f, [f EXCEPT !.eaf[b][x] = f.eaf[a][x]]),
                  LAMBDA g : IF g.rc = "fail" THEN closed(g, dst \cup {x})
                             ELSE ea_dup(g, a, b, src \ {x}, dst \cup {x}))

ea_copyfile(f, a, b) ==
    IF f.eah[a] = {} THEN {Ok(f)}
    ELSE OnOk(Try(f, f), LAMBDA g : Then(ea_open_dst(g, b),
                             LAMBDA h : ea_dup(h, a, b, h.eah[a], h.eah[b])))

RECURSIVE ea_drop(_, _, _, _)
\* The loop of ea_deletefile: an attribute whose file stays keeps its entry.
ea_drop(f, n, left, kept) ==
    LET x == CHOOSE e \in left : TRUE
    IN  IF left = {} THEN ea_close(f, n, kept)
        ELSE Then(Try(f, [f EXCEPT !.eaf[n][x] = "none"]),
                  LAMBDA g : ea_drop(g, n, left \ {x},
                                     IF g.rc = "ok" THEN kept ELSE kept \cup {x}))

ea_deletefile(f, n) ==
    IF f.eah[n] = {} THEN {Ok(f)}
    ELSE OnOk(Try(f, f), LAMBDA g : ea_drop(g, n, g.eah[n], {}))

\* With ea = sys the attributes are on the inode and only a copy moves them,
\* name by name; a failure goes on with the next.
sys_ea_copyfile(f, a, b) ==
    LET from == f.oea[f.file[a]]
    IN  UNION {Try(f, [f EXCEPT !.oea[f.file[b]] =
                           [x \in FoEas |-> IF x \in got THEN from[x] ELSE "none"]])
               : got \in {s \in SUBSET FoEas : f.fails > 0 \/ s = FoEas}}

(***************************************************************************)
(* The chain: every module runs, a failure of any is the result.           *)
(***************************************************************************)
vfs_renamefile(f, a, b) ==
    AndThen(RF_renamefile_adouble(f, a, b),
            LAMBDA g : IF g.ea = "ad" THEN ea_renamefile(g, a, b) ELSE {Ok(g)})

vfs_copyfile(f, a, b) ==
    AndThen(RF_copyfile_adouble(f, a, b),
            LAMBDA g : IF g.ea = "ad" THEN ea_copyfile(g, a, b)
                       ELSE IF g.ea = "sys" THEN sys_ea_copyfile(g, a, b) ELSE {Ok(g)})

vfs_deletefile(f, n) ==
    AndThen(RF_deletefile_adouble(f, n),
            LAMBDA g : IF g.ea = "ad" THEN ea_deletefile(g, n) ELSE {Ok(g)})

(***************************************************************************)
(* etc/afpd/file.c.                                                        *)
(***************************************************************************)
\* The data fork first: a refused unlink leaves the sidecar.  What the
\* modules leave behind after it is only logged.
deletefile(f, n) ==
    OnOk(netatalk_unlinkat(f, n), LAMBDA g : Then(vfs_deletefile(g, n), LAMBDA h : {Ok(h)}))

\* The header of a copy: the header is copied and gets the ID of a new row.
CopyHeader(f, a, b) ==
    IF f.v2 = 1 /\ f.side[a] = NoSide THEN {Ok(f)}
    ELSE LET hd == IF f.v2 = 1 THEN f.side[a].hd ELSE f.meta[f.file[a]]
             g == IF f.v2 = 1
                  THEN [f EXCEPT !.side[b] = [rf |-> @.rf, hd |-> hd]]
                  ELSE [f EXCEPT !.meta["C"] = hd]
         IN  OnOk(Try(f, g), LAMBDA h : Try(h, [h EXCEPT !.row[3] = [at |-> b, obj |-> "C"]]))

\* A failed data fork skips the modules and still gets its header; any
\* failure up to the close removes the destination.
copyfile(f, a, b) ==
    LET fresh == [f EXCEPT !.file[b] = "C", !.whole = 0, !.meta["C"] = "none",
                           !.copyof = f.file[a], !.oea["C"] = NoEas]
        forks(g) == OnOk(Try(g, [g EXCEPT !.whole = 1]), LAMBDA h : vfs_copyfile(h, a, b))
        undone(g) == {Failed(h) : h \in deletefile(g, b)}
    IN  IF f.file[b] # "none" THEN {Failed(f)}
        ELSE OnOk(Try(f, fresh), LAMBDA g :
                 OnFail(AndThen(AndThen(forks(g), LAMBDA h : CopyHeader(h, a, b)),
                                LAMBDA h : Try(h, h)),
                        LAMBDA h : undone(h)))

\* As renamefile, without sending the data fork back.
renamefile_noback(f, a, b) ==
    OnOk(unix_rename(f, a, b), LAMBDA g : vfs_renamefile(g, a, b))

\* The modules that fail to follow send the data fork back.
renamefile(f, a, b) ==
    LET back(g) == {Failed(h) : h \in unix_rename(g, b, a)}
    IN  IF f.exdev = 1 /\ f.forks = 1 THEN {Failed(f)}
        ELSE IF f.exdev = 1
        THEN OnOk(copyfile(f, a, b), LAMBDA g : deletefile(g, a))
        ELSE OnOk(unix_rename(f, a, b),
                  LAMBDA g : OnFail(vfs_renamefile(g, a, b), back))

\* A link made beside the file takes its name in one rename.
replace_with_symlink(f, t) ==
    OnOk(Try(f, [f EXCEPT !.file[t] = "L"]),
         LAMBDA g : OnFail(unix_rename(g, t, "s"),
                           LAMBDA h : {Failed(k) : k \in netatalk_unlinkat(h, t)}))

(***************************************************************************)
(* FPExchangeFiles: three renames through a temporary file, then what      *)
(* belongs to the names is put back.                                       *)
(***************************************************************************)
Row(n, o) == [at |-> n, obj |-> o]
SwapHeaders(f) ==
    IF f.v2 = 1
    THEN [f EXCEPT !.side["s"].hd = f.side["d"].hd, !.side["d"].hd = f.side["s"].hd]
    ELSE [f EXCEPT !.meta[f.file["s"]] = f.meta[f.file["d"]],
                   !.meta[f.file["d"]] = f.meta[f.file["s"]]]

\* The labels of the unwinding, from the latest failure to the earliest.  An
\* undo that fails ends it.
err_src_to_tmp(f, t) == {Failed(g) : g \in renamefile(f, t, "s")}

\* As err_dest_to_src, going on behind an undo that failed.
err_dest_to_src_on(f, t) ==
    Then(renamefile(f, "s", "d"), LAMBDA g : err_src_to_tmp(g, t))

err_dest_to_src(f, t) ==
    OnOk(renamefile(f, "s", "d"), LAMBDA g : err_src_to_tmp(g, t))

err_temp_to_dest(f, t) ==
    LET g == [f EXCEPT !.row[2] = Row("d", f.file["s"]), !.row[1] = Row("s", f.file["d"])]
    IN  OnOk(renamefile(g, "d", t), LAMBDA h : err_dest_to_src(h, t))

\* The rows of both files go; each comes back with the other's inode.
ExchangeRows(f) ==
    LET gone == [f EXCEPT !.row[1] = NoRow, !.row[2] = NoRow]
    IN  OnOk(Try(gone, [gone EXCEPT !.row[2] = Row("d", f.file["d"])]),
             LAMBDA g : Try(g, [g EXCEPT !.row[1] = Row("s", f.file["s"])]))

ExchangeMeta(f) == IF f.hdrs = 1 THEN Try(f, SwapHeaders(f)) ELSE {Ok(f)}

\* A temporary file the failed first rename did not replace is removed.
DropTemp(f, t) ==
    IF f.file[t] = "E" THEN {Failed(g) : g \in netatalk_unlinkat(f, t)} ELSE {f}

afp_exchangefiles(f, t) ==
    OnOk(Try(f, [f EXCEPT !.file[t] = "E"]),
    LAMBDA f1 : Then(renamefile(f1, "s", t),
    LAMBDA f2 : IF f2.rc = "fail" THEN DropTemp(f2, t) ELSE Then(renamefile(f2, "d", "s"),
    LAMBDA f3 : IF f3.rc = "fail" THEN err_src_to_tmp(f3, t) ELSE Then(renamefile(f3, t, "d"),
    LAMBDA f4 : IF f4.rc = "fail" THEN err_dest_to_src(f4, t)
                ELSE OnFail(OnOk(ExchangeRows(f4), ExchangeMeta),
                            LAMBDA f5 : err_temp_to_dest(f5, t))))))

(***************************************************************************)
(* Requests.                                                               *)
(***************************************************************************)
\* What a volume holds: the object at each name, its sidecar, its EA header
\* and EA files, the metadata and EAs the inodes carry, and the CNID rows 1
\* and 2 of the two files and 3 of a copy.
Holds(f) == [file |-> f.file, side |-> f.side, eah |-> f.eah, eaf |-> f.eaf,
             meta |-> f.meta, oea |-> f.oea, row |-> f.row]

FreeTemp(f) == CHOOSE t \in FoTemps : f.file[t] = "none"

\* The row of a moved file takes its new place.
MoveRow(f) == {[f EXCEPT !.row[1] = Row("d", f.file["d"])]}

Requests == {"move", "copy", "exchange", "delete", "link"}

Asked(f, op) ==
    /\ f.file["s"] \in {"A", "B", "C"}
    /\ op = "move" => f.file["d"] = "none"
    /\ op = "copy" => "C" \notin {f.file[n] : n \in FoNames \ {"d"}}
    /\ op = "exchange" => f.file["d"] \in {"A", "B", "C"}
    /\ op \in {"exchange", "link"} => \E t \in FoTemps : f.file[t] = "none"

Outcomes(f, op) ==
    CASE op = "move" -> OnOk(renamefile(f, "s", "d"), MoveRow)
      [] op = "copy" -> copyfile(f, "s", "d")
      [] op = "exchange" -> afp_exchangefiles(f, FreeTemp(f))
      [] op = "delete" -> OnOk(deletefile(f, "s"),
                               LAMBDA g : {[g EXCEPT !.row[1] = NoRow]})
      [] op = "link" -> replace_with_symlink(f, FreeTemp(f))

\* A session that died is followed by another.
FoRequest(op) ==
    /\ fo.reqs > 0 /\ op \in fo.ops /\ Asked(fo, op)
    /\ \E g \in Outcomes([fo EXCEPT !.dead = 0, !.rc = "ok"], op) :
           fo' = [g EXCEPT !.reqs = @ - 1, !.last = op, !.spent = fo.fails - g.fails,
                           !.was = Holds(fo), !.first = IF fo.last = "none" THEN 1 ELSE 0]

FoInit ==
    \E c \in FoConfigs :
        LET at(a, b, none) == [n \in FoNames |-> IF n = "s" THEN a
                                ELSE IF n = "d" /\ c.both = 1 THEN b ELSE none]
            sideOf(o) == IF o \in c.bare THEN NoSide
                         ELSE [rf |-> o, hd |-> IF c.v2 = 1 THEN o ELSE "none"]
            easOf(o) == [x \in FoEas |-> o]
            ad == c.ea = "ad"
            start ==
              [file |-> at("A", "B", "none"),
               side |-> at(sideOf("A"), sideOf("B"), NoSide),
               eah |-> IF ad THEN at(FoEas, FoEas, {}) ELSE [n \in FoNames |-> {}],
               eaf |-> IF ad THEN at(easOf("A"), easOf("B"), NoEas)
                       ELSE [n \in FoNames |-> NoEas],
               meta |-> [o \in {"A", "B", "C", "L", "E"} |->
                            IF c.v2 = 0 /\ o \in {"A", "B"} THEN o ELSE "none"],
               oea |-> [o \in {"A", "B", "C", "L", "E"} |->
                            IF c.ea = "sys" /\ o \in {"A", "B"} THEN easOf(o) ELSE NoEas],
               row |-> <<Row("s", "A"), IF c.both = 1 THEN Row("d", "B") ELSE NoRow, NoRow>>]
        IN  fo = start @@
              [addir |-> c.addir, v2 |-> c.v2, ea |-> c.ea, exdev |-> c.exdev,
               forks |-> c.forks, hdrs |-> IF c.v2 = 1 /\ c.bare # {} THEN 0 ELSE 1, bare |-> c.bare, ops |-> c.ops, reqs |-> c.reqs,
               fails |-> c.fails, crash |-> c.crash, dead |-> 0, rc |-> "ok",
               whole |-> 1, copyof |-> "none", last |-> "none", spent |-> 0,
               first |-> 0, was |-> start]

FoNext == \E op \in Requests : FoRequest(op)
FoSpec == FoInit /\ [][FoNext]_fo

FoTypeOK ==
    /\ \A n \in FoNames : fo.file[n] \in {"none", "A", "B", "C", "L", "E"}
    /\ fo.rc \in {"ok", "fail"} /\ fo.dead \in {0, 1} /\ fo.fails \in 0..3

(***************************************************************************)
(* Properties.                                                             *)
(***************************************************************************)
\* Object o, or a whole copy of it, is at name n.
IsAt(f, o, n) == f.file[n] = o \/ (f.file[n] = "C" /\ f.copyof = o /\ f.whole = 1)

\* Whatever calls failed and wherever the session ended: a file that no request
\* deleted or turned into a link is still at some name.  So no undo of an
\* exchange renames one file over the other, and a move between devices deletes
\* its source only behind a whole copy.
FilesKept ==
    \A n \in {"s", "d"} :
        LET o == fo.was.file[n]
        IN  o \in {"A", "B"} =>
               \/ \E m \in FoNames : IsAt(fo, o, m)
               \/ fo.last = "delete"
               \/ fo.last = "link" /\ fo.file["s"] = "L"

\* The names hold what they held, and with no EA module the sidecars too.  The
\* row a failed copy made stays.
AsBefore(f) ==
    /\ f.file = f.was.file /\ f.meta = [f.was.meta EXCEPT !["C"] = f.meta["C"]]
    /\ \A i \in {1, 2} : f.row[i] = f.was.row[i]
    /\ f.ea # "ad" => f.side = f.was.side

HeaderAt(f, n) == IF f.v2 = 1 THEN f.side[n].hd ELSE f.meta[f.file[n]]

\* The file of o with its resource fork is at n, under row i.
Arrived(f, o, n, i) == IsAt(f, o, n) /\ f.row[i] = Row(n, f.file[n])
                       /\ f.side[n].rf \in {o, IF o \in f.bare THEN "none" ELSE o}

\* A move, a copy or an exchange either does all of what it was asked or, where
\* one call failed, leaves the files, their sidecars and the CNID rows as they
\* were: after an exchange each name has the other's forks and keeps its header
\* and its file ID.  (A move between devices whose delete fails has made the
\* copy and keeps the source.)
AllOrNothing ==
    (fo.first = 1 /\ fo.dead = 0) =>
        /\ (fo.rc = "fail" /\ fo.spent <= 1 /\ ~(fo.last = "move" /\ fo.exdev = 1))
               => AsBefore(fo)
        /\ (fo.rc = "ok" /\ fo.last = "move") =>
               /\ Arrived(fo, "A", "d", 1) /\ fo.file["s"] = "none"
        /\ (fo.rc = "ok" /\ fo.last = "copy") =>
               fo.file["s"] = "A" /\ fo.copyof = "A" /\ IsAt(fo, "A", "d")
        /\ (fo.rc = "ok" /\ fo.last = "exchange") =>
               /\ Arrived(fo, "A", "d", 2) /\ Arrived(fo, "B", "s", 1)
               /\ fo.hdrs = 1 => HeaderAt(fo, "s") = "A" /\ HeaderAt(fo, "d") = "B"
        /\ (fo.spent = 0 /\ fo.ea = "ad" /\ fo.last \in {"move", "exchange"}) =>
               fo.eah["d"] = FoEas /\ fo.eaf["d"] = [x \in FoEas |-> "A"]
=============================================================================
