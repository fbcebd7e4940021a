------------------------------ MODULE Desktop ------------------------------
(***************************************************************************)
(* The desktop database of a volume (etc/afpd/desktop.c and appl.c): the   *)
(* icon file and the APPL file of a creator, which the sessions of the     *)
(* volume share, and the comments in the metadata of files.                *)
(*                                                                         *)
(* The icon file is a sequence of cells: a header is one cell and a bitmap *)
(* as many as its size.  A record of the APPL file is one cell.  A step of *)
(* a session is a system call that changes a file, so that sessions mix    *)
(* and can die between two of them.                                        *)
(***************************************************************************)
EXTENDS Integers, Sequences, FiniteSets, SequencesExt, FiniteSetsExt

CONSTANTS DtSessions,   \* sessions of the volume
          DtKeys,       \* file type and icon type of a record
          DtPaths,      \* paths of applications
          DtInos,       \* inodes of the APPL file and its temporary
          DtConfigs

VARIABLE dt

dtVars == <<dt>>

Nothing == "-"
Unsure == "?"
NoJob == [op |-> Nothing, at |-> "idle", key |-> Nothing, val |-> Nothing, size |-> 0, pos |-> 0,
          match |-> 0, tmp |-> 0, recs |-> <<>>]

DtSpend(s, what) == [s EXCEPT !.cf[what] = @ - 1]
Job(s, p, at) == [s EXCEPT !.job[p].at = at]
Over(s, p, reply) == [s EXCEPT !.job[p] = NoJob, !.reply = reply]

\* Bytes written at an offset of a file: over what is there, the rest stays, and
\* a hole reads as zeroes.
Written(file, off, cells) ==
    [i \in 1..(IF Len(file) > off + Len(cells) THEN Len(file) ELSE off + Len(cells)) |->
        CASE i > off /\ i <= off + Len(cells) -> cells[i - off]
          [] i <= Len(file) /\ (i <= off \/ i > off + Len(cells)) -> file[i]
          [] OTHER -> [key |-> Nothing, size |-> 0]]
Cut(file, n) == IF Len(file) <= n THEN file ELSE SubSeq(file, 1, n)

(***************************************************************************)
(* The folder of the database: at its place, left at the volume root by an *)
(* old version, or missing.                                                *)
(***************************************************************************)
Missing(s) == s.dir # "new"
NewDir(s) == [s EXCEPT !.dir = "new", !.icon = <<>>, !.appl = 0, !.told = [k \in DtKeys |-> Nothing]]
create_appledesktop_folder(s) ==
    IF ~Missing(s) THEN {s}
    ELSE {NewDir(s)} \cup (IF s.dir = "old" THEN {[s EXCEPT !.dir = "new"]} ELSE {})
\* A session that writes without FPOpenDT gets the folders it lacks.
OpenCreated(s) == IF Missing(s) THEN NewDir(s) ELSE s

(***************************************************************************)
(* Icons.                                                                  *)
(***************************************************************************)
Header(key, size) == [key |-> key, size |-> size]
Pixels(val, size) == [i \in 1..size |-> [key |-> val, size |-> i]]

\* The offsets of the whole records, in order; the first offset that holds
\* none ends them, and so does a record the end of the file cuts short.
Records(file) ==
    LET next(off) == off + 1 + file[off + 1].size
        from[off \in 0..Len(file)] ==
            IF off = Len(file) \/ next(off) > Len(file) THEN <<>> ELSE <<off>> \o from[next(off)]
    IN  from[0]
RecordsEnd(file) ==
    LET r == Records(file) IN IF r = <<>> THEN 0 ELSE Last(r) + 1 + file[Last(r) + 1].size
icon_entry_is(file, off, key) == file[off + 1].key = key
\* The first record of a key, -1 for none.
Find(file, key) ==
    LET r == Records(file)
        i == SelectInSeq(r, LAMBDA off : icon_entry_is(file, off, key))
    IN  IF i = 0 THEN -1 ELSE r[i]
Bitmap(file, off) == SubSeq(file, off + 2, off + 1 + file[off + 1].size)

\* FPAddIcon, once the bitmap is here: open, and wait for the lock.
afp_addicon(s, p, key, val, size) ==
    [OpenCreated(s) EXCEPT !.iconfd[p] = 1,
        !.job[p] = [NoJob EXCEPT !.op = "icon", !.at = "lock", !.key = key, !.val = val, !.size = size]]

\* The lock of the whole file; the file system may take none.
icon_lock_none(s, p) == {Job(s, p, "scan")}
icon_lock(s, p) ==
    IF s.cf.nolock = 1 THEN {Job(s, p, "scan")}
    ELSE IF s.lock = 0 THEN {[Job(s, p, "scan") EXCEPT !.lock = p]}
    ELSE {[Over(s, p, "misc") EXCEPT !.iconfd[p] = 0]}

icon_close(s, p) == [s EXCEPT !.iconfd[p] = 0, !.lock = IF @ = p THEN 0 ELSE @]

\* The record to write over, or the end of the whole records, where what
\* follows them is cut off.
AddIconScan(s, p) ==
    LET j == s.job[p]
        off == Find(s.icon, j.key)
        end == RecordsEnd(s.icon)
    IN  IF off # -1 /\ s.icon[off + 1].size # j.size THEN Over(icon_close(s, p), p, "itype")
        ELSE [s EXCEPT !.icon = IF off = -1 THEN Cut(@, end) ELSE @,
                       !.job[p].at = "header", !.job[p].match = IF off = -1 THEN 0 ELSE 1,
                       !.job[p].pos = IF off = -1 THEN end ELSE off]

\* A failed write of a new record cuts it off again.
Undo(s, p) == [s EXCEPT !.icon = IF s.job[p].match = 0 THEN Cut(@, s.job[p].pos) ELSE @]
AddIconHeader(s, p) ==
    LET j == s.job[p]
    IN  [s EXCEPT !.icon = Written(@, j.pos, <<Header(j.key, j.size)>>), !.job[p].at = "bitmap",
                  !.told[j.key] = Unsure]
\* The bitmap, whole or, when the disk is full, a part of it.
AddIconBitmap(s, p) ==
    LET j == s.job[p]
    IN  [s EXCEPT !.icon = Written(@, j.pos + 1, Pixels(j.val, j.size)), !.told[j.key] = j.val]
AddIconPart(s, p, n) ==
    LET j == s.job[p]
    IN  [s EXCEPT !.icon = Written(@, j.pos + 1, SubSeq(Pixels(j.val, j.size), 1, n))]

\* What FPGetIcon answers now: the whole bitmap of one value, or nothing.
afp_geticon(s, key) ==
    LET off == Find(s.icon, key)
        b == Bitmap(s.icon, off)
    IN  IF Missing(s) \/ off = -1 THEN Nothing ELSE IF b = Pixels(b[1].key, Len(b)) THEN b[1].key ELSE Unsure
\* FPGetIconInfo: the key of record i, in the order of the file.
afp_geticoninfo(s, i) ==
    IF Missing(s) \/ i > Len(Records(s.icon)) THEN Nothing ELSE s.icon[Records(s.icon)[i] + 1].key

(***************************************************************************)
(* Applications.  appl and temp are the inodes of the two names; a session *)
(* keeps a descriptor with its position and the index of the next record.  *)
(***************************************************************************)
NoFd == [ino |-> 0, pos |-> 0, index |-> 0]
FreeIno(s) == CHOOSE i \in DtInos : i # s.appl /\ i # s.temp /\ \A p \in DtSessions : s.sa[p].ino # i /\ s.job[p].tmp # i
\* A name that O_CREAT makes.
Created(s, name) == IF s[name] # 0 THEN s ELSE LET i == FreeIno(s) IN [s EXCEPT ![name] = i, !.data[i] = <<>>]

\* A read of the same creator's file goes on with the open descriptor.
applopen_read(s, p) ==
    IF s.sa[p].ino # 0 THEN s ELSE [s EXCEPT !.sa[p] = [NoFd EXCEPT !.ino = IF Missing(s) THEN 0 ELSE s.appl]]
applopen_write(s, p, create) ==
    LET t == IF create = 1 THEN Created(OpenCreated(s), "appl") ELSE s
    IN  [t EXCEPT !.sa[p] = [NoFd EXCEPT !.ino = IF Missing(t) THEN 0 ELSE t.appl]]

\* FPAddAPPL and FPRemoveAPPL open the file and the temporary one, which is
\* not emptied.  A path too long for the record leaves both open or there.
afp_editappl(s, p, op, path, tag) ==
    LET t == applopen_write(s, p, IF op = "add" THEN 1 ELSE 0)
        u == Created(t, "temp")
    IN  IF t.sa[p].ino = 0 THEN Over(t, p, "noobj")
        ELSE [u EXCEPT !.job[p] = [NoJob EXCEPT !.op = op, !.at = "copy", !.key = path, !.val = tag, !.tmp = u.temp]]
makemacpath_fails(s, p) ==
    Over(IF s.job[p].op = "add" THEN s ELSE [s EXCEPT !.sa[p] = NoFd], p, "param")

\* The records of the other paths, after the new one of an added path.
pathcmp(r, path) == r.path = path
copyapplfile_all(src, path) == src
copyapplfile(src, path) == SelectSeq(src, LAMBDA r : ~pathcmp(r, path))
NewRecords(s, p) ==
    LET j == s.job[p]
        rest == copyapplfile(s.data[s.sa[p].ino], j.key)
    IN  IF j.op = "add" THEN <<[path |-> j.key, tag |-> j.val]>> \o rest ELSE rest
EditApplCopy(s, p) ==
    LET j == s.job[p]
    IN  [s EXCEPT !.data[j.tmp] = Written(@, 0, NewRecords(s, p)), !.sa[p] = NoFd, !.job[p].at = "rename"]
\* A write that fails removes the temporary file.
EditApplFails(s, p) ==
    Over([s EXCEPT !.temp = IF @ = s.job[p].tmp THEN 0 ELSE @, !.sa[p] = NoFd], p, "param")
\* The rename; told is the list a client can expect.
EditApplRename(s, p) ==
    LET j == s.job[p]
        others == SelectSeq(s.want, LAMBDA r : r.path # j.key)
    IN  Over([s EXCEPT !.appl = j.tmp, !.temp = 0,
                       !.want = IF j.op = "add" THEN <<[path |-> j.key, tag |-> j.val]>> \o others ELSE others],
             p, "ok")

\* FPGetAPPL: on with the open file to record i, from its start for a lower
\* one.  The tag of the reply is a variable that nothing sets.
afp_getappl(s, p, i) ==
    LET t == applopen_read(s, p)
        fd == t.sa[p]
        back == IF i - 1 < fd.index THEN [fd EXCEPT !.pos = 0, !.index = 0] ELSE fd
        recs == t.data[fd.ino]
        skip == i - 1 - back.index
        at == back.pos + skip + 1
    IN  IF fd.ino = 0 THEN [s |-> t, r |-> Nothing]
        ELSE IF at > Len(recs)
        THEN [s |-> [t EXCEPT !.sa[p] = [back EXCEPT !.pos = Len(recs), !.index = @ + Len(recs) - back.pos]], r |-> Nothing]
        ELSE [s |-> [t EXCEPT !.sa[p] = [back EXCEPT !.pos = at, !.index = i]], r |-> recs[at].path]

(***************************************************************************)
(* Comments of one file.  A session that found no metadata remembers so,   *)
(* with the change time of the file, for as long as it stays.              *)
(***************************************************************************)
NoComment == [val |-> Nothing, len |-> 0]
Clip(n, max) == IF n > max THEN max ELSE n
ipc_send_cache_hint_none(s, p) == s
ipc_send_cache_hint(s, p) == [s EXCEPT !.hints = @ \cup (DtSessions \ {p})]
\* The metadata is written, the own cache entry follows, the others are told.
Flushed(s, p, c) ==
    ipc_send_cache_hint([s EXCEPT !.comment = c, !.meta = 1, !.ctime = s.clock, !.absent[p] = -1], p)
\* A comment is kept up to one length and sent up to another.
ad_addcomment(s, p, c) == Flushed(s, p, [c EXCEPT !.len = Clip(@, s.cf.keep)])
ad_getcomment(s, p) ==
    IF s.absent[p] = s.ctime \/ s.meta = 0 \/ s.comment.len = 0 THEN NoComment
    ELSE [s.comment EXCEPT !.len = Clip(@, s.cf.send)]
ad_rmvcomment(s, p) == IF s.meta = 0 THEN s ELSE Flushed(s, p, NoComment)

(***************************************************************************)
(* Steps.                                                                  *)
(***************************************************************************)
DtInit ==
    \E cf \in DtConfigs :
        dt = [cf |-> cf, dir |-> cf.dir,
              icon |-> IF cf.dir = "old" THEN <<Header(cf.had, 1)>> \o Pixels("v", 1) ELSE <<>>,
              told |-> [k \in DtKeys |-> IF cf.dir = "old" /\ k = cf.had THEN "v" ELSE Nothing],
              lock |-> 0, iconfd |-> [p \in DtSessions |-> 0], job |-> [p \in DtSessions |-> NoJob],
              appl |-> 0, temp |-> 0, data |-> [i \in DtInos |-> <<>>], sa |-> [p \in DtSessions |-> NoFd],
              want |-> <<>>, comment |-> NoComment, meta |-> 0, ctime |-> 0, clock |-> 0,
              absent |-> [p \in DtSessions |-> -1], hints |-> {}, reply |-> Nothing, right |-> 1]

Idle(p) == dt.job[p].at = "idle"
Asks(p, what) == Idle(p) /\ what \in dt.cf.ops /\ dt.cf.reqs > 0

OpenDt(p) == Asks(p, "open") /\ dt' \in create_appledesktop_folder(DtSpend(dt, "reqs"))

AddIcon(p) ==
    /\ Asks(p, "icon")
    /\ \E k \in DtKeys, n \in dt.cf.sizes : dt' = afp_addicon(DtSpend(dt, "reqs"), p, k, dt.cf.vals[p], n)
IconLock(p) == dt.job[p].at = "lock" /\ dt' \in icon_lock(dt, p)
IconScan(p) == dt.job[p].at = "scan" /\ dt' = AddIconScan(dt, p)
IconHeader(p) == dt.job[p].at = "header" /\ dt' = AddIconHeader(dt, p)
IconBitmap(p) == dt.job[p].at = "bitmap" /\ dt' = Over(icon_close(AddIconBitmap(dt, p), p), p, "ok")
\* The disk is full in the middle of the bitmap.
IconFull(p) ==
    /\ dt.job[p].at = "bitmap" /\ dt.cf.fails > 0
    /\ \E n \in 0..(dt.job[p].size - 1) :
          dt' = Over(icon_close(Undo(AddIconPart(DtSpend(dt, "fails"), p, n), p), p), p, "misc")

EditAppl(p) ==
    /\ \A q \in DtSessions : dt.job[q].op \notin {"add", "rmv"}
    /\ \E op \in {"add", "rmv"}, path \in DtPaths :
          Asks(p, op) /\ dt' = afp_editappl(DtSpend(dt, "reqs"), p, op, path, dt.cf.vals[p])
ApplLong(p) ==
    /\ dt.job[p].at = "copy" /\ dt.cf.long > 0
    /\ dt' = makemacpath_fails(DtSpend(dt, "long"), p)
ApplCopy(p) == dt.job[p].at = "copy" /\ dt' = EditApplCopy(dt, p)
ApplFull(p) ==
    /\ dt.job[p].at = "copy" /\ dt.cf.fails > 0
    /\ dt' = EditApplFails(DtSpend(dt, "fails"), p)
ApplRename(p) == dt.job[p].at = "rename" /\ dt' = EditApplRename(dt, p)
\* right: the record is the one of that index in the file the session reads.
GetAppl(p) ==
    /\ Asks(p, "get")
    /\ \E i \in 1..(Len(dt.want) + 1) :
          LET a == afp_getappl(DtSpend(dt, "reqs"), p, i)
              file == IF a.s.sa[p].ino = 0 THEN <<>> ELSE dt.data[a.s.sa[p].ino]
          IN  dt' = [a.s EXCEPT !.reply = a.r,
                                !.right = IF a.r = (IF i > Len(file) THEN Nothing ELSE file[i].path) THEN 1 ELSE 0]

\* Another request of the session looked at the metadata and found none.
Probe(p) ==
    /\ Idle(p) /\ "comment" \in dt.cf.ops /\ dt.meta = 0 /\ dt.absent[p] # dt.ctime
    /\ dt' = [dt EXCEPT !.absent[p] = dt.ctime]
AddComment(p) ==
    /\ Asks(p, "comment")
    /\ \E n \in dt.cf.sizes : dt' = ad_addcomment(DtSpend(dt, "reqs"), p, [val |-> dt.cf.vals[p], len |-> n])
RmvComment(p) == Asks(p, "comment") /\ dt' = ad_rmvcomment(DtSpend(dt, "reqs"), p)
\* A cache hint makes the session look again.
HintIn(p) == Idle(p) /\ p \in dt.hints /\ dt' = [dt EXCEPT !.hints = @ \ {p}, !.absent[p] = -1]
Tick == "comment" \in dt.cf.ops /\ dt.clock < dt.cf.ticks /\ dt' = [dt EXCEPT !.clock = @ + 1]

\* A session dies: its locks and descriptors go, files stay as they are.
Die(p) ==
    /\ dt.cf.deaths > 0 /\ ~Idle(p)
    /\ dt' = [icon_close(Over(DtSpend(dt, "deaths"), p, Nothing), p) EXCEPT !.sa[p] = NoFd]

DtNext ==
    \/ Tick
    \/ \E p \in DtSessions :
          \/ OpenDt(p) \/ AddIcon(p) \/ IconLock(p) \/ IconScan(p) \/ IconHeader(p) \/ IconBitmap(p) \/ IconFull(p)
          \/ EditAppl(p) \/ ApplLong(p) \/ ApplCopy(p) \/ ApplFull(p) \/ ApplRename(p) \/ GetAppl(p)
          \/ Probe(p) \/ AddComment(p) \/ RmvComment(p) \/ HintIn(p) \/ Die(p)

DtSpec == DtInit /\ [][DtNext]_dtVars

(***************************************************************************)
(* Properties.                                                             *)
(***************************************************************************)
DtTypeOK ==
    /\ dt.dir \in {"none", "old", "new"} /\ dt.lock \in DtSessions \cup {0}
    /\ dt.appl \in DtInos \cup {0} /\ dt.temp \in DtInos \cup {0}
    /\ \A p \in DtSessions : dt.sa[p].ino \in DtInos \cup {0}

\* An icon that FPAddIcon acknowledged is the one FPGetIcon gives, whole, and
\* FPGetIconInfo lists it once, whatever other sessions add at the same time
\* and wherever one of them fails or dies in its writes.
IconsKept ==
    dt.dir = "new" =>
        \A k \in DtKeys : dt.told[k] # Unsure =>
            /\ afp_geticon(dt, k) = dt.told[k]
            /\ Cardinality({i \in 1..Len(Records(dt.icon)) : afp_geticoninfo(dt, i) = k})
                 = IF dt.told[k] = Nothing THEN 0 ELSE 1

\* The APPL file holds the applications that were added and not removed, each
\* path once and the one added last first, and FPGetAPPL gives the record of
\* the index it is asked for, in whatever order a client asks.
ApplExact ==
    /\ dt.dir = "new" /\ dt.appl # 0 => dt.data[dt.appl] = dt.want
    /\ dt.right = 1

\* A session is told the comment a file has, unless a hint about a change of
\* it has yet to arrive: no session goes on answering that there is none.
CommentServed ==
    \A p \in DtSessions : p \notin dt.hints =>
        ad_getcomment(dt, p).val = dt.comment.val
=============================================================================
