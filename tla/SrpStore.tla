----------------------------- MODULE SrpStore -----------------------------
(***************************************************************************)
(* afppasswd: the SRP verifier of one account in the verifier directory,   *)
(* and the Randnum password file (bin/afppasswd/afppasswd.c).              *)
(*                                                                         *)
(* Runs of the program are processes that interleave.  The verifier file   *)
(* ps.file has an owner, root or the user, and a record: empty, a disabled *)
(* placeholder, torn, the record of an earlier user of the uid, or the     *)
(* number of the password it verifies.  Until an fsync the disk may hold   *)
(* any of the values since the last one (downs, drecs, dins).  A crash     *)
(* leaves one of them.  The Randnum file is the sequence of its records,   *)
(* each with the key its password is encrypted with.                       *)
(* ps.want and ps.rwant say what the last completed runs promised.         *)
(***************************************************************************)
EXTENDS Integers, Sequences, FiniteSets, SequencesExt, FiniteSetsExt

CONSTANTS PsProcs,     \* runs of afppasswd at a time
          PsNames,     \* accounts of the Randnum file
          PsConfigs    \* [opts, alone, jobs, fails, crashes, dir, in, own, rec, rn, key]

VARIABLE ps
psVars == <<ps>>

Empty == 0
Dis == -1
Torn == -2
Earlier == -3
Hole == [u |-> "none", v |-> Torn, key |-> 0]
NoJob == [k |-> "none", pc |-> "idle", v |-> 0, u |-> "none", pos |-> 0, made |-> 0,
          force |-> 0, touched |-> 0]

PsInit ==
    \E c \in PsConfigs :
        ps = [cf |-> c, dir |-> c.dir, next |-> 2,
              file |-> [in |-> c.in, own |-> c.own, rec |-> c.rec, downs |-> {c.own},
                        drecs |-> {c.rec}, dins |-> {c.in}],
              lock |-> "none", rlock |-> "none", rn |-> c.rn, key |-> c.key,
              job |-> [p \in PsProcs |-> NoJob],
              want |-> IF c.own = "user" /\ c.rec > 0 THEN {c.rec} ELSE {}, sure |-> 1,
              rwant |-> [n \in PsNames |->
                            IF \E i \in DOMAIN c.rn : c.rn[i].u = n
                            THEN c.rn[SelectInSeq(c.rn, LAMBDA r : r.u = n)].v ELSE Empty]]

(***************************************************************************)
(* The options, and what they ask for.                                     *)
(***************************************************************************)
\* main: o is the set of the option letters, root whether root runs it.  The
\* answer is the operation, or usage for a combination that is refused.
Mode(root, o) ==
    LET has(x) == x \in o
        usage == \/ ~root /\ (o \cap {"a", "d", "n", "m", "r", "u"} # {}
                              \/ (~has("c") /\ o \cap {"f", "w"} # {})
                              \/ (has("c") /\ ~has("p")))
                 \/ has("m") /\ ~(o \subseteq {"m", "p"})
                 \/ {"a", "d"} \subseteq o
                 \/ has("c") /\ (o \cap {"a", "d"} # {} \/ (has("w") /\ root))
                 \/ has("u") /\ ~has("c")
                 \/ has("f") /\ root /\ ~({"r", "c"} \subseteq o)
                 \/ has("d") /\ ~(o \subseteq {"d", "p"})
                 \/ root /\ o \cap {"c", "a", "d", "m"} = {}
    IN  CASE usage -> "usage"
          [] ~usage /\ has("m") -> "migrate"
          [] ~usage /\ ~has("m") /\ has("c") ->
                 IF ~root THEN "private" ELSE IF has("r") THEN "rcreate" ELSE "create"
          [] OTHER -> IF has("r") THEN "radd" ELSE IF has("d") THEN "disable"
                      ELSE IF root THEN "add" ELSE "user"

(***************************************************************************)
(* The verifier file.                                                      *)
(***************************************************************************)
Fails(s) == s.cf.fails > 0
Spent(s) == [s EXCEPT !.cf.fails = @ - 1]
Either(s, good, bad) == good \cup (IF Fails(s) THEN {Spent(b) : b \in bad} ELSE {})

To(s, p, pc) == [s EXCEPT !.job[p].pc = pc]
Own(s, o) == [s EXCEPT !.file.own = o, !.file.downs = @ \cup {o}]
Rec(s, r) == [s EXCEPT !.file.rec = r, !.file.drecs = @ \cup {r, Torn}]
SyncFile(s) == [s EXCEPT !.file.downs = {s.file.own}, !.file.drecs = {s.file.rec}]
SyncDir(s) == [s EXCEPT !.file.dins = {s.file.in}]
Unlocked(s, p) == [s EXCEPT !.lock = IF @ = p THEN "none" ELSE @]

\* A run ends; one that fails after it began to change the record leaves what
\* the record is open.
Done(s, p) == Unlocked([s EXCEPT !.job[p] = NoJob], p)
Failed(s, p) == [Done(s, p) EXCEPT !.sure = IF s.job[p].touched = 1 THEN 0 ELSE @]
Promised(s, p, vs) == [Done(s, p) EXCEPT !.want = vs, !.sure = 1]

\* Creating makes a root-owned empty file; an administrator's run takes an
\* existing file of root or the user, a user's run only its own.
open_srp_verifier(s, p, create) ==
    IF s.dir = 0 \/ (s.file.in = 0 /\ ~create) \/ (~create /\ s.file.own # "user") THEN {}
    ELSE IF s.file.in = 1 THEN {s}
    ELSE {[s EXCEPT !.file = [in |-> 1, own |-> "root", rec |-> Empty, downs |-> {"root"},
                              drecs |-> {Empty}, dins |-> s.file.dins \cup {1}]]}

\* The record a user's or root's update finds: it has to be the user's own,
\* or root adds the account.  The user proves the old password.
ReadRecord(s, k) ==
    IF k = "add" THEN TRUE ELSE s.file.rec > 0

update_srp_passwd(s, p, k) ==
    LET opened == {t \in open_srp_verifier(s, p, k = "add") : ReadRecord(t, k)}
    IN  {[t EXCEPT !.job[p] = [NoJob EXCEPT !.k = k, !.pc = "ask", !.v = s.next],
                   !.next = @ + 1] : t \in opened}

\* The prompts.  A run that is cancelled has changed nothing but a file that
\* it created.
collect_new_password(s, p) == {To(s, p, "lock"), Failed(s, p)}

\* The write lock is not waited for.
LockRecord(s, p) ==
    IF s.lock # "none" THEN {To(s, p, "undo")}
    ELSE {[To(s, p, IF s.job[p].k = "disable" THEN "revoke" ELSE "write") EXCEPT !.lock = p]}

\* srp_write_record: the record, its fsync, then the owner and its fsync.
WriteRecord(s, p) ==
    LET t == [Rec(s, s.job[p].v) EXCEPT !.job[p].touched = 1]
    IN  Either(s, {To(t, p, "sync")}, {To(t, p, "undo"), To(Rec(t, Torn), p, "undo")})

Written(s, p) == CASE s.job[p].k = "add" -> "enroll"
                   [] s.job[p].k = "private" -> "syncdir"
                   [] OTHER -> "end"

SyncRecord(s, p) ==
    Either(s, {To(SyncFile(s), p, Written(s, p))}, {To(s, p, "undo")})

Enroll(s, p) ==
    LET t == Own(s, "user")
    IN  Either(s, {To(SyncFile(t), p, "end")}, {To(s, p, "undo"), To(t, p, "undo")})

\* The end of an update.  A user changes the password of an account that is
\* enabled; only -a enables one.
EndUpdate(s, p) ==
    LET v == s.job[p].v
    IN  {IF s.job[p].k # "user" THEN Promised(s, p, {v})
         ELSE [Done(s, p) EXCEPT !.want = IF @ = {} THEN @ ELSE {v}]}

\* disable_srp_verifier: the owner goes first, then the record.
disable_srp_verifier(s, p) ==
    {[t EXCEPT !.job[p] = [NoJob EXCEPT !.k = "disable", !.pc = "lock"]] :
        t \in open_srp_verifier(s, p, TRUE)}

Revoke_not(s, p) == {To([s EXCEPT !.job[p].touched = 1], p, "truncate")}
Revoke(s, p) ==
    LET t == [Own(s, "root") EXCEPT !.job[p].touched = 1]
    IN  Either(s, {To(t, p, "truncate")}, {To(s, p, "undo"), To(t, p, "undo")})
Truncate(s, p) ==
    Either(s, {To(Rec(s, Empty), p, "place")}, {To(s, p, "undo")})
Placeholder(s, p) ==
    Either(s, {To(Rec(s, Dis), p, "syncoff")}, {To(Rec(s, Torn), p, "undo")})
SyncDisabled(s, p) ==
    Either(s, {To(SyncFile(s), p, IF s.job[p].k = "create" THEN "created" ELSE "syncdir")},
           {To(s, p, "undo")})
EndDirSync(s, p) ==
    LET t == SyncDir(s)
        good == IF s.job[p].k = "private" THEN To(t, p, "end") ELSE Promised(t, p, {})
    IN  Either(s, {good}, {To(s, p, "undo")})

\* create_srp_directory, with no lock: the directory has to be new.
create_srp_directory(s, p) ==
    IF s.dir = 1 THEN {}
    ELSE {[s EXCEPT !.dir = 1, !.job[p] = [NoJob EXCEPT !.k = "create", !.pc = "open"]]}
CreateOpen(s, p) ==
    Either(s, {To(t, p, "revoke") : t \in open_srp_verifier(s, p, TRUE)}, {Failed(s, p)})
EndCreate(s, p) == {Promised(s, p, {})}

\* create_private_srp_verifier: a user's own store.  An existing verifier
\* needs -f; a file this run made goes away again when the run fails.
create_private_srp_verifier(s, p, force) ==
    IF s.file.in = 1 /\ force = 0 THEN {}
    ELSE {[s EXCEPT !.job[p] = [NoJob EXCEPT !.k = "private", !.pc = "ask", !.v = s.next,
                                             !.force = force],
                    !.next = @ + 1]}
PrivateOpen(s, p) ==
    IF s.file.in = 1
    THEN {IF s.job[p].force = 1 THEN To([s EXCEPT !.dir = 1], p, "plock") ELSE Failed(s, p)}
    ELSE {[To(s, p, "plock") EXCEPT !.dir = 1, !.job[p].made = 1,
               !.file = [in |-> 1, own |-> "user", rec |-> Empty, downs |-> {"user"},
                         drecs |-> {Empty}, dins |-> s.file.dins \cup {1}]]}

\* The failure exits: only a private store's own new file is removed.
Undo(s, p) ==
    {IF s.job[p].made = 1
     THEN [Failed(s, p) EXCEPT !.file.in = 0, !.file.dins = @ \cup {0}]
     ELSE Failed(s, p)}

(***************************************************************************)
(* The Randnum file.                                                       *)
(***************************************************************************)
\* The key file: absent, without a valid key, or a key.
NoKey == 0
BadKey == -1

randnum_open_keyfile(s) == s.key > 0

\* The key file is opened empty and gets a key of its own.
randnum_write_keyfile(s) ==
    Either(s, {[s EXCEPT !.key = s.next, !.next = @ + 1]}, {s, [s EXCEPT !.key = BadKey]})

\* A valid key stays; only -f replaces a key file that is not valid.
randnum_ensure_keyfile(s, force) ==
    IF s.key = NoKey \/ (s.key = BadKey /\ force) THEN randnum_write_keyfile(s) ELSE {s}

Position(s, n) ==
    LET at == SelectInSeq(s.rn, LAMBDA r : r.u = n)
    IN  IF at = 0 THEN Len(s.rn) + 1 ELSE at

\* A line that is not whole ends the search of its own account, and nothing
\* is appended behind a last line without its newline.
update_passwd(s, p, n) ==
    LET at == Position(s, n)
        torn == /\ s.rn # <<>>
                /\ IF at <= Len(s.rn) THEN s.rn[at].v = Torn ELSE Last(s.rn).v = Torn
    IN  IF torn \/ ~randnum_open_keyfile(s) THEN {}
        ELSE {[s EXCEPT !.job[p] = [NoJob EXCEPT !.k = "radd", !.pc = "ask", !.v = s.next,
                                                 !.u = n, !.pos = at],
                        !.next = @ + 1]}

LockFile(s, p) ==
    IF s.rlock # "none" THEN {} ELSE {[To(s, p, "rwrite") EXCEPT !.rlock = p]}

\* The record goes to the position found before the lock.
WriteAt(rn, pos, r) ==
    [i \in 1..Max({pos, Len(rn)}) |->
        IF i = pos THEN r ELSE IF i <= Len(rn) THEN rn[i] ELSE Hole]

\* The password encrypted with the key, as the record holds it.
convert_passwd(s, j) == [u |-> j.u, v |-> j.v, key |-> s.key]

WriteFile(s, p) ==
    LET j == s.job[p]
        t == [s EXCEPT !.rlock = "none", !.job[p] = NoJob]
        good == [t EXCEPT !.rn = WriteAt(@, j.pos, convert_passwd(s, j)),
                          !.rwant[j.u] = j.v]
        bad == [t EXCEPT !.rn = WriteAt(@, j.pos, [u |-> j.u, v |-> Torn, key |-> 0]),
                         !.rwant[j.u] = Torn]
    IN  Either(s, {good}, {t, bad})

\* -r -c: with a valid key in place the file is emptied, unless it cannot be
\* opened, and gets a placeholder for every account, up to the first failure.
create_file(s) ==
    LET names == SetToSeq(PsNames)
        upto(k) == [s EXCEPT !.rn = [i \in 1..k |-> [u |-> names[i], v |-> Dis, key |-> 0]],
                             !.rwant = [n \in PsNames |->
                                           IF \E i \in 1..k : names[i] = n THEN Dis ELSE Empty]]
    IN  Either(s, {upto(Len(names))}, {s} \cup {upto(k) : k \in 0..(Len(names) - 1)})

CreateRandnum(s, force) ==
    UNION {IF randnum_open_keyfile(t) THEN create_file(t) ELSE {t} :
              t \in randnum_ensure_keyfile(s, force)}

(***************************************************************************)
(* Steps.                                                                  *)
(***************************************************************************)
\* The kinds of run the administrator keeps apart from all others.
MayStart(s, p, k) ==
    /\ s.job[p].pc = "idle" /\ s.cf.jobs > 0
    /\ \A q \in PsProcs \ {p} : s.job[q].pc = "idle" \/ {k, s.job[q].k} \cap s.cf.alone = {}

Start(s, p, o) ==
    LET k == Mode(o.root = 1, o.opts)
        t == [s EXCEPT !.cf.jobs = @ - 1]
    IN  IF ~MayStart(s, p, k) THEN {}
        ELSE CASE k \in {"add", "user"} -> update_srp_passwd(t, p, k)
               [] k = "disable" -> disable_srp_verifier(t, p)
               [] k = "create" -> create_srp_directory(t, p)
               [] k = "private" ->
                      create_private_srp_verifier(t, p, IF "f" \in o.opts THEN 1 ELSE 0)
               [] k = "radd" -> update_passwd(t, p, o.name)
               [] k = "rcreate" ->
                      IF s.rn = <<>> \/ "f" \in o.opts THEN CreateRandnum(t, "f" \in o.opts) ELSE {}
               [] OTHER -> {}

Run(s, p) ==
    LET j == s.job[p]
    IN  CASE j.pc = "ask" -> IF j.k = "radd" THEN {To(s, p, "rlock"), Failed(s, p)}
                             ELSE IF j.k = "private" THEN {To(s, p, "popen"), Failed(s, p)}
                             ELSE collect_new_password(s, p)
          [] j.pc = "popen" -> PrivateOpen(s, p)
          [] j.pc \in {"lock", "plock"} -> LockRecord(s, p)
          [] j.pc = "write" -> WriteRecord(s, p)
          [] j.pc = "sync" -> SyncRecord(s, p)
          [] j.pc = "enroll" -> Enroll(s, p)
          [] j.pc = "end" -> EndUpdate(s, p)
          [] j.pc = "open" -> CreateOpen(s, p)
          [] j.pc = "revoke" -> Revoke(s, p)
          [] j.pc = "truncate" -> Truncate(s, p)
          [] j.pc = "place" -> Placeholder(s, p)
          [] j.pc = "syncoff" -> SyncDisabled(s, p)
          [] j.pc = "syncdir" -> EndDirSync(s, p)
          [] j.pc = "created" -> EndCreate(s, p)
          [] j.pc = "undo" -> Undo(s, p)
          [] j.pc = "rlock" -> LockFile(s, p)
          [] j.pc = "rwrite" -> WriteFile(s, p)
          [] OTHER -> {}

PsStart == \E p \in PsProcs, o \in ps.cf.opts : ps' \in Start(ps, p, o)
PsRun == \E p \in PsProcs : ps' \in Run(ps, p)

\* The disk of a crash.
Disks(f) == [in : f.dins, own : f.downs, rec : f.drecs]

PsCrash ==
    /\ ps.cf.crashes > 0
    /\ \E d \in Disks(ps.file) :
          ps' = [ps EXCEPT !.file = [in |-> d.in, own |-> d.own, rec |-> d.rec,
                                     downs |-> {d.own}, drecs |-> {d.rec}, dins |-> {d.in}],
                           !.lock = "none", !.rlock = "none", !.cf.crashes = @ - 1,
                           !.job = [p \in PsProcs |-> NoJob],
                           !.sure = IF \E p \in PsProcs : ps.job[p].touched = 1
                                       \/ d.in # ps.file.in THEN 0 ELSE @]

PsNext == PsStart \/ PsRun \/ PsCrash
PsSpec == PsInit /\ [][PsNext]_psVars

PsTypeOK ==
    /\ ps.file.own \in ps.file.downs /\ ps.file.rec \in ps.file.drecs
    /\ ps.file.in \in ps.file.dins
    /\ ps.lock \in PsProcs \cup {"none"} /\ ps.rlock \in PsProcs \cup {"none"}

\* srp_lookup_verifier: the passwords the server takes for the account.
srp_lookup_verifier(f) == IF f.in = 1 /\ f.own = "user" /\ f.rec > 0 THEN {f.rec} ELSE {}

\* While no run is changing the verifier, the server takes for the account
\* exactly what the last completed run set: the password of -a or of the
\* user's change, none after -d or -c, even when a change the user began
\* before writes the record later; and so it is after a crash, except that a
\* crash may lose a file that -a created.  The Randnum file holds for every
\* account what the last completed -r -a set, under the key in place (srp_write_record,
\* disable_srp_verifier, update_passwd).
CredentialsKept ==
    /\ ps.sure = 1 /\ (\A p \in PsProcs : ps.job[p].touched = 0) =>
          /\ srp_lookup_verifier(ps.file) = ps.want
          /\ \A d \in Disks(ps.file) :
                d.in = 1 => srp_lookup_verifier(d) = ps.want
    /\ \A n \in PsNames : Position(ps, n) <= Len(ps.rn) \/ ps.rwant[n] # Empty =>
          Position(ps, n) <= Len(ps.rn) /\ LET r == ps.rn[Position(ps, n)]
             IN  r.v = ps.rwant[n] /\ (r.v > 0 => r.key = ps.key)

-----------------------------------------------------------------------------
(***************************************************************************)
(* afppasswd -m: the flat file of SRP verifiers becomes a directory of     *)
(* verifiers at the same path (bin/afppasswd/afppasswd_migrate.c).         *)
(*                                                                         *)
(* mg.at says what the names of the parent directory hold: the path, the   *)
(* staging sibling and the backup names.  A change of a name is on disk    *)
(* for certain only after an fsync of the parent; until then mg.maybe      *)
(* holds every value a crash may leave the name with, each name on its     *)
(* own.  The flat file is one inode whatever names it has; its content is  *)
(* the number mg.ver of changes a writer made to it.  The new directory    *)
(* records the version it was filled from and the verifiers it has, and    *)
(* which of them a crash keeps.  Every system call may fail, within the    *)
(* failures of the configuration.                                          *)
(***************************************************************************)
CONSTANTS MgUsers,     \* users with a record in the flat file
          MgBackups,   \* number of backup names tried, MIGRATE_ATTEMPTS
          MgConfigs    \* [fails, crashes, writes, runs, bad, old]

VARIABLE mg
mgVars == <<mg>>

Backups == {"legacy"} \cup {"legacy1" : n \in {1} \cap 1..(MgBackups - 1)}
MgNames == {"path", "stage"} \cup Backups
NoDir == [ver |-> 0, has |-> {}, safe |-> {}]

Set(s, n, what) == [s EXCEPT !.at[n] = what, !.maybe[n] = @ \cup {what}]

\* fsync of the parent directory.
SyncParent(s) == [s EXCEPT !.maybe = [n \in MgNames |-> {s.at[n]}]]

Links(s) == Cardinality({n \in MgNames : s.at[n] = "file"})

MgInit ==
    \E c \in MgConfigs :
        mg = [cf |-> c, at |-> [n \in MgNames |-> IF n = "path" THEN "file" ELSE
                                IF n = "legacy" /\ c.old = 1 THEN "other" ELSE "none"],
              maybe |-> [n \in MgNames |-> {IF n = "path" THEN "file" ELSE
                                IF n = "legacy" /\ c.old = 1 THEN "other" ELSE "none"}],
              ver |-> 0, dir |-> NoDir, pc |-> "idle", locked |-> 0, read |-> 0,
              backup |-> "none", staged |-> 0, unlinked |-> 0, installed |-> 0,
              told |-> 0, result |-> "none"]

(***************************************************************************)
(* The steps of afppasswd_migrate_srp.                                     *)
(***************************************************************************)
At(s, pc) == s.pc = pc
Go(s, pc) == [s EXCEPT !.pc = pc]

\* The file has to be a private regular file with one link.
validate_source(s) == s.at["path"] = "file" /\ Links(s) = 1

\* Up to the shared lock nothing is changed; a refusal only reports.
Open(s) ==
    LET t == [s EXCEPT !.cf.runs = @ - 1, !.locked = 0, !.read = 0, !.backup = "none",
                       !.staged = 0, !.unlinked = 0, !.installed = 0,
                       !.result = "none"]
    IN  IF ~At(s, "idle") \/ s.cf.runs = 0 THEN {}
        ELSE IF validate_source(s) THEN {[t EXCEPT !.pc = "read", !.locked = 1, !.told = 0]}
        ELSE {[t EXCEPT !.result = "refused"]}

Stop(s) == [s EXCEPT !.pc = "idle", !.result = "failed", !.locked = 0]

\* Every record has to parse and to name a local user of its own uid.  The
\* stream is a duplicate of the descriptor: closing it ends the lock.
read_records(s) ==
    IF ~At(s, "read") THEN {}
    ELSE IF s.cf.bad = 1 THEN {Stop(s)}
    ELSE {[s EXCEPT !.pc = "scan", !.read = s.ver, !.locked = 0]}

reject_stale_staging(s) ==
    IF ~At(s, "scan") THEN {}
    ELSE IF s.at["stage"] # "none" THEN {Stop(s)} ELSE {Go(s, "stage")}

create_staging_directory(s) ==
    LET made == [Set(s, "stage", "dir") EXCEPT !.dir = [NoDir EXCEPT !.ver = s.read],
                                               !.staged = 1, !.pc = "fill"]
    IN  IF ~At(s, "stage") THEN {}
        ELSE Either(s, {made}, {Stop(s), Stop(Set(made, "stage", "none"))})

\* One verifier file after the other, each written out before the next.
create_verifiers(s) ==
    IF ~At(s, "fill") \/ s.dir.has = MgUsers THEN {}
    ELSE LET u == CHOOSE x \in MgUsers \ s.dir.has : TRUE
         IN  Either(s, {[s EXCEPT !.dir.has = @ \cup {u}]}, {Go(s, "clean")})

\* The directory gets its mode and reaches the disk.
SyncStaging(s) ==
    IF ~At(s, "fill") \/ s.dir.has # MgUsers THEN {}
    ELSE Either(s, {[s EXCEPT !.dir.safe = s.dir.has, !.pc = "check"]}, {Go(s, "clean")})

source_unchanged(s) == s.ver = s.read
source_still_at_path(s) == s.at["path"] = "file" /\ Links(s) = 1

CheckSource(s) ==
    IF ~At(s, "check") THEN {}
    ELSE IF source_unchanged(s) /\ source_still_at_path(s) THEN {Go(s, "link")}
    ELSE {Go(s, "clean")}

\* The first free backup name takes a hard link.
link_backup(s) ==
    LET free == {b \in Backups : s.at[b] = "none"}
        name == IF "legacy" \in free THEN "legacy" ELSE CHOOSE b \in free : TRUE
    IN  IF ~At(s, "link") THEN {}
        ELSE IF free = {} THEN {Go(s, "clean")}
        ELSE Either(s, {[Set(s, name, "file") EXCEPT !.backup = name, !.pc = "syncb"]},
                    {Go(s, "clean")})

\* Without the backup on disk, or with the path still taken, the backup goes
\* away again; that removal and its fsync may fail unnoticed.
DropBackup(s) ==
    LET gone == [Set(s, s.backup, "none") EXCEPT !.backup = "none", !.pc = "clean"]
        kept == [s EXCEPT !.backup = "none", !.pc = "clean"]
    IN  {gone, SyncParent(gone), kept, SyncParent(kept)}

SyncBackup_none(s) == IF At(s, "syncb") THEN {Go(s, "unlink")} ELSE {}

SyncBackup(s) ==
    IF ~At(s, "syncb") THEN {}
    ELSE Either(s, {Go(SyncParent(s), "unlink")}, DropBackup(s))

UnlinkSource(s) ==
    IF ~At(s, "unlink") THEN {}
    ELSE Either(s, {[Set(s, "path", "none") EXCEPT !.unlinked = 1, !.pc = "syncu"]},
                DropBackup(s))

SyncUnlink(s) ==
    IF ~At(s, "syncu") THEN {}
    ELSE Either(s, {Go(SyncParent(s), "install")}, {Go(s, "relink")})

Rename(s, from, to) == Set(Set(s, to, s.at[from]), from, "none")

Install(s) ==
    IF ~At(s, "install") THEN {}
    ELSE Either(s, {[Rename(s, "stage", "path") EXCEPT !.installed = 1, !.pc = "synci"]},
                {Go(s, "relink")})

Finish(s) == [s EXCEPT !.pc = "idle", !.result = "migrated"]

SyncInstall(s) ==
    IF ~At(s, "synci") THEN {}
    ELSE Either(s, {Finish(SyncParent(s))}, {Go(s, "uninstall")})

\* The rollback of the install: the directory goes back to its staging name.
Uninstall(s) ==
    IF ~At(s, "uninstall") THEN {}
    ELSE Either(s, {[Rename(s, "path", "stage") EXCEPT !.installed = 0, !.pc = "relink"]},
                {[s EXCEPT !.told = 1, !.pc = "clean"]})

\* restore_source, one system call at a time: link the backup back, fsync,
\* remove the backup, fsync.
RestoreLink(s) ==
    IF ~At(s, "relink") THEN {}
    ELSE Either(s, {Go(Set(s, "path", "file"), "resync")},
                {[s EXCEPT !.told = 1, !.pc = "clean"]})

RestoreSync(s) ==
    IF ~At(s, "resync") THEN {}
    ELSE Either(s, {Go(SyncParent(s), "redrop")}, {[s EXCEPT !.told = 1, !.pc = "clean"]})

RestoreDrop(s) ==
    LET t == [s EXCEPT !.unlinked = 0, !.pc = "clean"]
    IN  IF ~At(s, "redrop") THEN {}
        ELSE Either(s, {SyncParent(Set(t, s.backup, "none"))},
                    {t, Set(t, s.backup, "none")})

\* The end of a failed run: what was staged goes away, file by file.
remove_staging(s) ==
    LET t == [s EXCEPT !.told = IF s.unlinked = 1 /\ s.installed = 0 THEN 1 ELSE @,
                       !.pc = "idle", !.result = "failed"]
    IN  IF ~At(s, "clean") THEN {}
        ELSE IF s.staged = 0 \/ s.installed = 1 THEN {t}
        ELSE Either(s, {[Set(t, "stage", "none") EXCEPT !.dir = NoDir]}, {t})

Migrate(s) ==
    UNION {Open(s), read_records(s), reject_stale_staging(s), create_staging_directory(s),
           create_verifiers(s), SyncStaging(s), CheckSource(s), link_backup(s),
           SyncBackup(s), UnlinkSource(s), SyncUnlink(s), Install(s), SyncInstall(s),
           Uninstall(s), RestoreLink(s), RestoreSync(s), RestoreDrop(s),
           remove_staging(s)}

MgStep == mg' \in Migrate(mg)

(***************************************************************************)
(* The world around it.                                                    *)
(***************************************************************************)
\* A program that takes the write lock changes the flat file at the path.
Writer ==
    /\ mg.cf.writes > 0 /\ mg.at["path"] = "file" /\ mg.locked = 0
    /\ mg' = [mg EXCEPT !.ver = @ + 1, !.cf.writes = @ - 1]

\* What a crash may leave: every name with one of the values it may have.
Crashed(s) ==
    {[s EXCEPT !.at = f, !.maybe = [n \in MgNames |-> {f[n]}], !.pc = "idle",
               !.dir.has = s.dir.safe, !.locked = 0, !.cf.crashes = @ - 1,
               !.result = IF s.pc = "idle" THEN @ ELSE "crashed"] :
        f \in {g \in [MgNames -> UNION {s.maybe[n] : n \in MgNames}] :
                  \A n \in MgNames : g[n] \in s.maybe[n]}}

Crash == mg.cf.crashes > 0 /\ mg' \in Crashed(mg)

\* The administrator removes the staging sibling a run names in its refusal,
\* and a second link to the flat file.
Tidy ==
    /\ mg.pc = "idle" /\ mg.result \in {"refused", "failed", "crashed"}
    /\ \/ /\ mg.at["stage"] = "dir"
          /\ mg' = SyncParent(Set([mg EXCEPT !.dir = IF mg.at["path"] = "dir" THEN @ ELSE NoDir],
                                  "stage", "none"))
       \/ /\ mg.at["path"] = "file"
          /\ \E b \in Backups : mg.at[b] = "file" /\ mg' = SyncParent(Set(mg, b, "none"))

MgNext == MgStep \/ Writer \/ Crash \/ Tidy
MgSpec == MgInit /\ [][MgNext]_mgVars

MgTypeOK ==
    /\ mg.at \in [MgNames -> {"none", "file", "dir", "other"}]
    /\ mg.dir.safe \subseteq mg.dir.has /\ mg.dir.has \subseteq MgUsers
    /\ mg.result \in {"none", "migrated", "refused", "failed", "crashed"}
    /\ \A n \in MgNames : mg.at[n] \in mg.maybe[n]

\* A crash at any moment of a migration leaves the flat file under its path
\* or a backup name, and puts no directory with missing verifiers at the path
\* unless the run told where the original remains; a run that reports success has its whole directory and the
\* backup on disk, and one that fails without telling where the original
\* remains has it at the path (afppasswd_migrate_srp: the backup is on disk
\* before the path goes, the directory is on disk before it is renamed, and
\* restore_source links the path before it drops the backup).
MigrationKeeps ==
    LET file(s) == \E n \in {"path"} \cup Backups : s.at[n] = "file"
        whole(s) == s.at["path"] = "dir" /\ s.told = 0 => s.dir.has = MgUsers
    IN  /\ \A s \in Crashed(mg) \cup {mg} : file(s) /\ whole(s)
        /\ mg.result = "migrated" =>
              \A s \in Crashed(mg) : s.at["path"] = "dir" /\ s.at[mg.backup] = "file"
        /\ mg.result = "failed" /\ mg.told = 0 => mg.at["path"] = "file"

=============================================================================
