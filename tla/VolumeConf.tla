----------------------------- MODULE VolumeConf -----------------------------
(***************************************************************************)
(* The volume list of a process and the files it is made from: afp.conf    *)
(* and afp_voluuid.conf (libatalk/util/netatalk_conf.c, with the callers   *)
(* in etc/afpd/volume.c and afp_dsi.c).                                    *)
(*                                                                         *)
(* Every process has a list of its own: the controller loads all volumes,  *)
(* a session those of its user, a tool (dbd, nad) those it needs.  A load  *)
(* goes through the file section by section while the administrator edits  *)
(* it and other processes load theirs.  A path is the sequence of its      *)
(* components; time advances by a second with an edit, unless the edit is  *)
(* made in the second of the one before.                                   *)
(***************************************************************************)
EXTENDS Integers, Sequences, FiniteSets, SequencesExt

CONSTANTS VcProcs,    \* the processes
          VcVids,     \* UINT16_MAX
          VcConfigs

VARIABLE vc

vcVars == <<vc>>

NoUuid == 0
NoSection == [sec |-> "", name |-> "", path |-> <<>>, real |-> 1, private |-> "", invalid |-> {},
              valid |-> {}, deny |-> <<>>, allow |-> <<>>, rolist |-> {}, rwlist |-> {},
              ea |-> "", multi |-> 0, uuid |-> NoUuid]
NoVol == [name |-> "", path |-> <<>>, conf |-> "", vid |-> 0, deleted |-> 0, open |-> 0, ea |-> "",
          adouble |-> "", ro |-> 0, scheme |-> "", uuid |-> NoUuid]
NewProc(user, kind) ==
    [user |-> user, kind |-> kind, list |-> <<>>, mtime |-> 0, loaded |-> 0, lastvid |-> 0,
     have_uservol |-> 0, ini |-> <<>>, i |-> 0, at |-> "idle", vol |-> NoVol, op |-> "", arg |-> "",
     strict |-> 0, held |-> {}, lapsed |-> 0]

\* LV_ALL: the load of the controller follows no user.
All(p) == p.kind = "control"
IS_AFP_SESSION(p) == p.kind = "session"
Inside(path, root) == IsPrefix(root, path)
Overlap(a, b) == Inside(a, b) \/ Inside(b, a)

VcSpend(s, what) == [s EXCEPT !.cf[what] = @ - 1]

(***************************************************************************)
(* Access lists.                                                           *)
(***************************************************************************)
\* -1 without a list, else whether the name is in it.
accessvol(list, name) == IF list = {} THEN -1 ELSE IF name \in list THEN 1 ELSE 0

\* The list of hosts up to the first that decides.  An entry that does not
\* resolve is tried again and again.
hostaccessvol(list) ==
    LET at == SelectInSeq(list, LAMBDA h : h # "other")
    IN  IF list = <<>> THEN "nolist"
        ELSE IF at = 0 THEN "out"
        ELSE IF list[at] = "match" THEN "in" ELSE "forever"

(***************************************************************************)
(* afp_voluuid.conf: the first line of a name counts.                      *)
(***************************************************************************)
UuidOf(uuids, name) ==
    LET at == SelectInSeq(uuids, LAMBDA l : l.name = name)
    IN  IF at = 0 THEN NoUuid ELSE uuids[at].uuid
\* The second half of get_vol_uuid, after the file was opened again.
get_vol_uuid_add(s, name) ==
    [s EXCEPT !.uuids = Append(@, [name |-> name, uuid |-> s.next]), !.next = @ + 1]

(***************************************************************************)
(* creatvol                                                                *)
(***************************************************************************)
\* Whether the volume is one of the user's; uid 0 gets every private volume.
VolPrivate(s, sec) == IF sec.sec = "Homes" THEN s.cf.force = 0 /\ sec.private = "" ELSE sec.private # ""
PrivateTo(p, sec) == IF sec.sec = "Homes" THEN p.user ELSE sec.private
PrivateOk(s, p, sec) ==
    VolPrivate(s, sec) => /\ s.cf.force = 0
                          /\ PrivateTo(p, sec) # "root"
                          /\ All(p) \/ p.user = PrivateTo(p, sec)

\* Inside what a home volume would share, if any user has one.
InsideHome(s, p, sec) ==
    /\ sec.sec # "Homes"
    /\ \E h \in Range(p.ini) : h.sec = "Homes"
    /\ Inside(sec.path, s.cf.homes)
    /\ Len(sec.path) > Len(s.cf.homes) + 1
    /\ s.cf.homesub # "" => sec.path[Len(s.cf.homes) + 2] = s.cf.homesub

\* Why the list has no place for the section: the first volume that decides.
\* "keep" is the same volume, still marked from the start of this load.
Same(v, sec) == v.name = sec.name /\ v.path = sec.path /\ v.deleted = 1
Waits(v, sec) == v.name = sec.name /\ v.deleted = 1 /\ v.open = 1
Decider(p, sec) ==
    SelectInSeq(p.list, LAMBDA v : Same(v, sec) \/ Waits(v, sec) \/ Overlap(v.path, sec.path))
Verdict(p, sec) ==
    LET at == Decider(p, sec)
    IN  IF at = 0 THEN "new" ELSE IF Same(p.list[at], sec) THEN "keep" ELSE "skip"

\* The access lists, asked only for a user: root passes the names.
Allowed(p, sec) ==
    IF All(p) THEN "yes"
    ELSE IF p.user # "root" /\ (accessvol(sec.invalid, p.user) = 1 \/ accessvol(sec.valid, p.user) = 0)
    THEN "no"
    ELSE IF p.kind = "session" /\ hostaccessvol(sec.deny) # "nolist" /\ hostaccessvol(sec.deny) # "out"
    THEN IF hostaccessvol(sec.deny) = "in" THEN "no" ELSE "forever"
    ELSE IF p.kind = "session" /\ hostaccessvol(sec.allow) \in {"out", "forever"}
    THEN IF hostaccessvol(sec.allow) = "out" THEN "no" ELSE "forever"
    ELSE "yes"

ReadOnlyFor(p, sec) ==
    ~All(p) /\ (accessvol(sec.rolist, p.user) = 1 \/ accessvol(sec.rwlist, p.user) = 0)

\* How metadata is stored: the setting, then what the filesystem can.
EaSetting(sec) ==
    CASE sec.ea = "ad"   -> [ea |-> "ad", adouble |-> "v2"]
      [] sec.ea = "none" -> [ea |-> "none", adouble |-> "ea"]
      [] sec.ea \in {"sys", "samba"} -> [ea |-> "sys", adouble |-> "ea"]
      [] OTHER -> [ea |-> "auto", adouble |-> "ea"]
do_check_ea_support(s, v) == v.ro = 1 \/ v.path \notin s.cf.noeas
check_ea_support(s, v) ==
    LET has == do_check_ea_support(s, v)
    IN  [v EXCEPT !.ea = IF @ # "auto" THEN @ ELSE IF has THEN "sys" ELSE "ad",
                  !.adouble = IF @ = "ea" /\ ~has THEN "v2" ELSE @]

\* The volume of a section, before its UUID.
VolOptions(s, p, sec) ==
    LET e == EaSetting(sec)
        v == [NoVol EXCEPT
                !.name = sec.name, !.path = sec.path, !.conf = sec.sec, !.ea = e.ea, !.adouble = e.adouble,
                !.vid = p.lastvid + 1, !.uuid = sec.uuid,
                !.ro = IF ReadOnlyFor(p, sec) THEN 1 ELSE 0,
                !.scheme = IF VolPrivate(s, sec) THEN "sqlite" ELSE "global"]
    IN  IF e.ea = "auto" \/ e.adouble = "ea" THEN check_ea_support(s, v) ELSE v

\* The process goes on to the next section.
Onward(p) == [p EXCEPT !.at = "section", !.i = @ + 1, !.vol = NoVol]
Skipped(p) == Onward(p)
\* The volume joins the list; one shared with other protocols turns on strict
\* locking, unless the configuration says otherwise.
apply_multiprotocol_defaults(s, p) == [p EXCEPT !.strict = IF s.cf.explicit = 1 THEN @ ELSE 1]
Joined(s, p, v) ==
    LET q == [Onward(p) EXCEPT !.list = <<v>> \o @]
    IN  IF p.ini[p.i].multi = 1 THEN apply_multiprotocol_defaults(s, q) ELSE q
Reloaded(p, sec) == [Onward(p) EXCEPT !.list[Decider(p, sec)].deleted = 0]

\* The end of a new volume that is not refused before it gets a vid.  The
\* UUID comes from the section, the file, or a second pass over the file.
NewVolume(s, p, sec) ==
    LET v == VolOptions(s, p, sec)
        got == UuidOf(s.uuids, sec.name)
        q == [p EXCEPT !.lastvid = v.vid]
    IN  IF p.lastvid = VcVids THEN Skipped(p)
        ELSE IF v.vid = VcVids THEN Skipped(q)
        ELSE IF sec.ea = "samba" /\ v.adouble # "ea" THEN Skipped(p)
        ELSE IF v.uuid # NoUuid THEN Joined(s, q, v)
        ELSE IF got # NoUuid THEN Joined(s, q, [v EXCEPT !.uuid = got])
        ELSE [q EXCEPT !.at = "uuid", !.vol = v]

creatvol(s, p, sec) ==
    IF ~PrivateOk(s, p, sec) THEN Skipped(p)
    ELSE IF Verdict(p, sec) = "keep" THEN Reloaded(p, sec)
    ELSE IF Verdict(p, sec) = "skip" \/ InsideHome(s, p, sec) THEN Skipped(p)
    ELSE IF Allowed(p, sec) = "forever" THEN [p EXCEPT !.at = "forever"]
    ELSE IF Allowed(p, sec) = "no" THEN Skipped(p)
    ELSE NewVolume(s, p, sec)

(***************************************************************************)
(* readvolfile: one section.                                               *)
(***************************************************************************)
HomeOf(s, user) == s.cf.homes \o <<user>> \o (IF s.cf.homesub = "" THEN <<>> ELSE <<s.cf.homesub>>)
\* The variables of a section's path and name, [Homes] for the session user.
volxlate(s, p, sec) ==
    IF sec.sec = "Homes" THEN [sec EXCEPT !.path = HomeOf(s, p.user), !.name = p.user] ELSE sec

readvolfile(s, p) ==
    LET sec == volxlate(s, p, p.ini[p.i])
        q == IF sec.sec = "Homes" THEN [p EXCEPT !.have_uservol = 1] ELSE p
    IN  IF sec.sec = "Homes" /\ (~IS_AFP_SESSION(p) \/ p.user = "guest") THEN Skipped(q)
        ELSE IF sec.real = 0 THEN Skipped(q)
        ELSE creatvol(s, q, sec)

(***************************************************************************)
(* load_afp_conf_vols                                                      *)
(***************************************************************************)
volfile_changed(s, p) == s.file.mtime > p.mtime

\* An unchanged file needs no work, unless the load is forced.
FastPath(s, p, force) == p.loaded = 1 /\ ~force /\ ~volfile_changed(s, p)

\* The start, under the lock: the change is consumed and what is listed is
\* marked.
LoadBegin(s, p) ==
    [p EXCEPT !.at = "parse", !.have_uservol = IF p.list = <<>> THEN @ ELSE 0,
              !.mtime = IF p.list = <<>> \/ volfile_changed(s, p) THEN s.file.mtime ELSE @,
              !.list = [k \in 1..Len(@) |-> [@[k] EXCEPT !.deleted = 1]]]
\* The groups of the user could not be set, after the marks were.
LoadGroupsFail(s, p) == [LoadBegin(s, p) EXCEPT !.at = "done", !.lapsed = 1]

LoadParse(s, p) ==
    [p EXCEPT !.at = "section", !.i = 1, !.loaded = s.file.ok, !.lapsed = 0,
              !.ini = IF s.file.ok = 1 THEN s.file.secs ELSE <<>>]

\* Mutants: what was dropped does not have the file read again; open volumes
\* go with the others.
LoadSweep_read(p) ==
    [p EXCEPT !.at = "done", !.i = 0, !.ini = <<>>,
              !.list = SelectSeq(@, LAMBDA v : v.deleted = 0 \/ v.open = 1)]
LoadSweep_all(p) ==
    [p EXCEPT !.at = "done", !.i = 0, !.ini = <<>>, !.list = SelectSeq(@, LAMBDA v : v.deleted = 0)]

\* The marked volumes that are not open go; any marked one has the next call
\* read again.
LoadSweep(p) ==
    [p EXCEPT !.at = "done", !.i = 0, !.ini = <<>>,
              !.loaded = IF \E v \in Range(p.list) : v.deleted = 1 THEN 0 ELSE @,
              !.list = SelectSeq(@, LAMBDA v : v.deleted = 0 \/ v.open = 1)]

(***************************************************************************)
(* The list as its users see it.                                           *)
(***************************************************************************)
getvolbyvid(p, vid) == {v \in Range(p.list) : v.vid = vid /\ v.open = 1}
\* The first volume of the list whose path holds the path.
getvolbypath(p, path) == SelectInSeq(p.list, LAMBDA v : Inside(path, v.path))

Ended(p) == [p EXCEPT !.at = "idle", !.op = "", !.arg = ""]

\* FPOpenVol after its load: the first volume of the name.  open tells whether
\* the steps after the search succeed.
afp_openvol(p, open) ==
    LET at == SelectInSeq(p.list, LAMBDA v : v.name = p.arg)
    IN  IF at = 0 \/ open = 0 THEN Ended(p)
        ELSE [Ended(p) EXCEPT !.list[at].open = 1,
                              !.held = @ \cup {[vid |-> p.list[at].vid, path |-> p.list[at].path]}]
closevol(p, vid) ==
    [p EXCEPT !.list = [k \in 1..Len(@) |-> IF @[k].vid = vid THEN [@[k] EXCEPT !.open = 0] ELSE @[k]],
              !.held = {h \in @ : h.vid # vid}]

(***************************************************************************)
(* Steps.                                                                  *)
(***************************************************************************)
Put(s, n, p) == [s EXCEPT !.p[n] = p]

VcInit ==
    \E cf \in VcConfigs :
        vc = [cf |-> cf, now |-> 1, file |-> [secs |-> cf.first, ok |-> 1, mtime |-> 1], uuids |-> <<>>,
              next |-> 1, p |-> [n \in VcProcs |-> NewProc(cf.user[n], cf.kind[n])]]

\* The administrator saves another version of afp.conf.
Edit ==
    /\ vc.cf.edits > 0
    /\ \E f \in vc.cf.files, same \in 0..vc.cf.same :
          /\ f # vc.file.secs
          /\ vc' = [VcSpend(vc, "edits") EXCEPT
                       !.now = @ + 1 - same,
                       !.file = [secs |-> f, ok |-> IF f = <<>> THEN 0 ELSE 1, mtime |-> vc.now + 1 - same]]

\* FPGetSrvrParms (list), SIGHUP (hup, forced), FPOpenVol (open), and the
\* load of a controller or a tool.  A file that cannot be locked, or a user
\* without an account, ends the load with nothing changed.
Call(n) ==
    /\ vc.p[n].at = "idle" /\ vc.p[n].kind # "none" /\ vc.cf.calls > 0
    /\ \E op \in {"list", "hup", "open"}, arg \in vc.cf.names :
          LET p == [vc.p[n] EXCEPT !.op = op, !.arg = IF op = "open" THEN arg ELSE ""]
              s == VcSpend(vc, "calls")
          IN  /\ op = "open" => IS_AFP_SESSION(p)
              /\ \/ vc' = Put(s, n, IF FastPath(s, p, op = "hup") THEN [p EXCEPT !.at = "done"] ELSE LoadBegin(s, p))
                 \/ /\ vc.cf.busy > 0 /\ ~FastPath(s, p, op = "hup")
                    /\ vc' = Put(VcSpend(s, "busy"), n, [p EXCEPT !.at = "done"])
                 \/ /\ vc.cf.groups > 0 /\ ~FastPath(s, p, op = "hup") /\ p.list # <<>> /\ p.user # "root"
                    /\ vc' = Put(VcSpend(s, "groups"), n, LoadGroupsFail(s, p))

Parse(n) == vc.p[n].at = "parse" /\ vc' = Put(vc, n, LoadParse(vc, vc.p[n]))

Section(n) ==
    /\ vc.p[n].at = "section" /\ vc.p[n].i <= Len(vc.p[n].ini)
    /\ vc' = Put(vc, n, readvolfile(vc, vc.p[n]))

\* The line was not found: the file is opened again and the line added, or
\* the lock of another process leaves the volume without a UUID.
AddUuid(n) ==
    LET p == vc.p[n]
    IN  /\ p.at = "uuid"
        /\ \/ vc' = Put(get_vol_uuid_add(vc, p.vol.name), n, Joined(vc, p, [p.vol EXCEPT !.uuid = vc.next]))
           \/ vc.cf.busy > 0 /\ vc' = Put(VcSpend(vc, "busy"), n, Joined(vc, p, p.vol))

Sweep(n) ==
    /\ vc.p[n].at = "section" /\ vc.p[n].i > Len(vc.p[n].ini)
    /\ vc' = Put(vc, n, IF vc.p[n].op = "find" THEN [vc.p[n] EXCEPT !.at = "done", !.i = 0, !.ini = <<>>]
                        ELSE LoadSweep(vc.p[n]))

Done(n) ==
    /\ vc.p[n].at = "done"
    /\ IF vc.p[n].op = "open"
       THEN \E open \in 0..1 : vc' = Put(vc, n, afp_openvol(vc.p[n], open))
       ELSE vc' = Put(vc, n, Ended(vc.p[n]))

Close(n) ==
    /\ vc.p[n].at = "idle"
    /\ \E h \in vc.p[n].held :
          getvolbyvid(vc.p[n], h.vid) # {} /\ vc' = Put(vc, n, closevol(vc.p[n], h.vid))

\* A tool looks for the volume of a path in a home, which it makes when no
\* volume holds the path.
FindPath(n) ==
    LET p == vc.p[n]
    IN  /\ p.kind = "tool" /\ p.at = "idle" /\ p.have_uservol = 1 /\ vc.cf.calls > 0
        /\ \E user \in vc.cf.homers :
              LET sec == [NoSection EXCEPT !.sec = "Homes", !.name = user, !.path = HomeOf(vc, user)]
                  q == [p EXCEPT !.ini = <<sec>>, !.i = 1, !.user = user, !.op = "find"]
              IN  /\ getvolbypath(p, sec.path) = 0
                  /\ vc' = Put(VcSpend(vc, "calls"), n, [creatvol(vc, q, sec) EXCEPT !.user = p.user])

VcNext ==
    \/ Edit
    \/ \E n \in VcProcs :
          Call(n) \/ Parse(n) \/ Section(n) \/ AddUuid(n) \/ Sweep(n) \/ Done(n) \/ Close(n) \/ FindPath(n)

VcSpec == VcInit /\ [][VcNext]_vcVars
\* A process runs its load to the end; it does not depend on another.
VcStep(n) == Parse(n) \/ Section(n) \/ AddUuid(n) \/ Sweep(n) \/ Done(n)
VcFairSpec == VcSpec /\ \A n \in VcProcs : WF_vcVars(VcStep(n))

(***************************************************************************)
(* Properties.                                                             *)
(***************************************************************************)
VcTypeOK ==
    /\ vc.file.ok \in 0..1 /\ vc.file.mtime \in 0..vc.now
    /\ \A n \in VcProcs :
          /\ vc.p[n].at \in {"idle", "parse", "section", "uuid", "done", "forever"}
          /\ vc.p[n].lastvid \in 0..VcVids
          /\ \A v \in Range(vc.p[n].list) : v.vid \in 1..(VcVids - 1) /\ v.deleted \in 0..1 /\ v.open \in 0..1

\* What the configuration offers the process, apart from the other volumes.
Servable(s, p, sec) ==
    /\ sec.real = 1 /\ PrivateOk(s, p, sec)
    /\ sec.sec = "Homes" => IS_AFP_SESSION(p) /\ p.user # "guest"
    /\ Allowed(p, sec) = "yes"
    /\ ~InsideHome(s, [p EXCEPT !.ini = s.file.secs], sec)
    /\ ~(sec.ea = "samba" /\ VolOptions(s, p, sec).adouble # "ea")
Offered(s, p) == {volxlate(s, p, sec) : sec \in Range(s.file.secs)}

\* A process that takes the file for read (the fast path of
\* load_afp_conf_vols) lists what the file says: no volume the file dropped,
\* no two volumes one inside the other, and every section it can serve unless
\* a listed volume holds its path.  No order of edits, loads, opens, and
\* closes leaves a section out for good.
VolumesFollow ==
    \A n \in VcProcs :
        LET p == vc.p[n]
        IN  p.at = "idle" /\ p.lapsed = 0 /\ FastPath(vc, p, FALSE) =>
              /\ \A v \in Range(p.list) :
                    /\ v.deleted = 0
                    /\ \/ \E sec \in Offered(vc, p) : sec.name = v.name /\ sec.path = v.path
                       \/ p.kind = "tool" /\ v.conf = "Homes"
              /\ \A k, l \in 1..Len(p.list) : k # l => ~Overlap(p.list[k].path, p.list[l].path)
              /\ \A sec \in Offered(vc, p) :
                    Servable(vc, p, sec) => \E v \in Range(p.list) : Overlap(v.path, sec.path)

\* The volume ID a client holds keeps leading to the volume it opened, through
\* every reload, until the client closes it: load_afp_conf_vols keeps open
\* volumes, and no vid is given twice.
HandlesKept ==
    \A n \in VcProcs : \A h \in vc.p[n].held :
        LET got == {v \in Range(vc.p[n].list) : v.vid = h.vid}
        IN  Cardinality(got) = 1 /\ \A v \in got : v.path = h.path /\ v.open = 1

=============================================================================
