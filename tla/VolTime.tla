------------------------------ MODULE VolTime ------------------------------
(***************************************************************************)
(* The modification time and the space of a volume, etc/afpd/volume.c and  *)
(* quota.c: how a session learns that another one changed the volume, and  *)
(* what FPGetVolParms says of the free space.                              *)
(*                                                                         *)
(* The sessions share one thing, the time stamp of the volume's root       *)
(* folder.  sec is the second of coarse_time(), ksec the one the file      *)
(* system stamps with, which may lag; two stamps are never the same.       *)
(* Times the code gives in seconds are scaled down by constants.           *)
(***************************************************************************)
EXTENDS Integers, Sequences, FiniteSets, FiniteSetsExt

CONSTANTS VtSessions,  \* sessions with the volume
          VtDelay,     \* the 30 seconds of pollvoltime
          VtQuota,     \* QUOTA_CACHETIME
          VtTm,        \* TM_USED_CACHETIME
          VtMax,       \* the largest VolSpace
          VtQuiet,     \* the last second with requests
          VtLast,      \* the last second
          VtConfigs    \* the clients, their leave to stamp the root, the space, budgets

VARIABLE vt
vtVars == <<vt>>

Least(a, b) == IF a < b THEN a ELSE b
Less(a, b) == (a - b) % (VtMax + 1)

(***************************************************************************)
(* Free space.                                                             *)
(***************************************************************************)
\* q is [soft, hard, expired], cur the blocks in use.
overquota(q, cur) ==
    IF cur > q.hard /\ q.hard # 0 THEN 1
    ELSE IF cur < q.soft \/ q.soft = 0 THEN 0
    ELSE q.expired

Remaining(q, cur) ==
    IF overquota(q, cur) = 1 THEN 0 ELSE IF q.hard # 0 THEN Less(q.hard, cur) ELSE VtMax

\* Whichever of user and group has the least space.
getfsquota(s) ==
    IF Remaining(s.cf.user, s.used) > Remaining(s.cf.group, s.used) THEN s.cf.group ELSE s.cf.user

uquota_getvolspace(s) ==
    LET q == getfsquota(s)
    IN  IF q.soft = 0 /\ q.hard = 0 THEN [free |-> VtMax, total |-> VtMax]
        ELSE IF overquota(q, s.used) = 1
        THEN IF s.used > q.soft THEN [free |-> 0, total |-> s.used]
             ELSE [free |-> q.soft - s.used, total |-> q.soft]
        ELSE [free |-> Less(q.hard, s.used), total |-> q.hard]

\* The answer is kept for VtQuota seconds.
getvolquota(s, a) ==
    LET x == s.sess[a]
    IN  IF x.qtime # 0 /\ s.sec - x.qtime < VtQuota THEN s
        ELSE [s EXCEPT !.sess[a].quota = uquota_getvolspace(s), !.sess[a].qtime = s.sec]

\* The bands of the sparse bundles, one less than there are.
get_tm_bands(s) == IF s.used > 0 THEN s.used - 1 ELSE 0

get_tm_used(s, a) ==
    LET x == s.sess[a]
    IN  IF x.cache # 0 /\ x.cache + VtTm >= s.sec
        THEN [s EXCEPT !.sess[a].tm = @ + x.appended, !.sess[a].appended = 0]
        ELSE [s EXCEPT !.sess[a].tm = get_tm_bands(s), !.sess[a].cache = s.sec,
                       !.sess[a].appended = 0]

\* Mutant: no care for a volume that outgrew its limit.
TmFree_wrap(total, tm) == Less(total, tm)

TmFree(total, tm) == IF total < tm THEN 0 ELSE total - tm

\* A volume without quotas (asked once) has the space of the file system.
getvolspace(s, a) ==
    LET s1 == IF s.cf.quotas = 1 THEN getvolquota(s, a) ELSE s
        q == s1.sess[a].quota
        free == Least(s.cf.blocks - s.used, IF s.cf.quotas = 1 THEN q.free ELSE VtMax)
        total == Least(s.cf.blocks, IF s.cf.quotas = 1 THEN q.total ELSE VtMax)
        s2 == get_tm_used(s1, a)
        limited == Least(total, s.cf.limit)
    IN  IF s.cf.limit = 0 THEN [s1 EXCEPT !.reply = [free |-> free, total |-> total]]
        ELSE [s2 EXCEPT !.reply = [free |-> Least(free, TmFree(limited, s2.sess[a].tm)),
                                   total |-> limited]]

(***************************************************************************)
(* The stamp of the root.                                                  *)
(***************************************************************************)
Stamped(s) == [s EXCEPT !.root = [s |-> s.ksec, n |-> s.sub + 1], !.sub = @ + 1]
utimensat(s, a) == IF s.cf.perm[a] = 1 THEN Stamped(s) ELSE s

same_stamp(s, a) == s.root = s.sess[a].stamp
volpolls(s, a) == s.cf.polls[a] = 1

\* Every session that polls owes its client news of what a did.
Owed(s, a) ==
    [s EXCEPT !.unseen = [b \in VtSessions |->
        IF b # a /\ s.sess[b].open = 1 /\ volpolls(s, b) THEN 1 ELSE s.unseen[b]]]
Told(s, a) == [s EXCEPT !.unseen[a] = 0]

\* The free space attention of AFP 2.2 to 3.1 drops a limited quota answer.
Attention(s, a) ==
    LET x == s.sess[a]
        sent == x.attn = 1 /\ s.cf.old[a] = 1 /\ x.open = 1
    IN  [s EXCEPT !.sess[a].attn = 0,
                  !.sess[a].qtime = IF sent /\ x.quota.total # VtMax THEN 0 ELSE @]

\* Mutant: a stamp of another session is overwritten without a note.
markroot_blind(s, a, mine) ==
    LET s1 == [s EXCEPT !.sess[a].marked = s.sec, !.sess[a].due = 0]
        s2 == utimensat(s1, a)
    IN  Attention([s2 EXCEPT !.sess[a].stamp = IF s.cf.perm[a] = 1 THEN s2.root ELSE @,
                             !.sess[a].mtime = IF s.cf.perm[a] = 1 THEN Max({@, s2.root.s}) ELSE @],
                  a)

markroot(s, a, mine) ==
    LET foreign == IF mine = 0 /\ volpolls(s, a) /\ ~same_stamp(s, a) THEN 1
                   ELSE s.sess[a].foreign
        s1 == [s EXCEPT !.sess[a].foreign = foreign, !.sess[a].marked = s.sec, !.sess[a].due = 0]
        s2 == utimensat(s1, a)
        mtime == IF foreign = 0 THEN Max({s.sess[a].mtime, s2.root.s}) ELSE s.sess[a].mtime
    IN  Attention(IF s.cf.perm[a] = 0 THEN s1
                  ELSE [s2 EXCEPT !.sess[a].stamp = s2.root, !.sess[a].mtime = mtime], a)

\* The root is written once in a second.  A later change of the second, or
\* one stamped behind it, leaves a write due.
markvol(s, a, root, quiet) ==
    LET s1 == IF quiet = 0 THEN [s EXCEPT !.sess[a].attn = 1] ELSE s
        s2 == markroot(s1, a, root)
        late == s.cf.perm[a] = 1 /\ s2.root.s < s.sec
    IN  IF s1.sess[a].marked # s.sec
        THEN [s2 EXCEPT !.sess[a].due = IF late THEN 1 ELSE 0]
        ELSE [s1 EXCEPT !.sess[a].due = 1, !.sess[a].stamp = IF root = 1 THEN s1.root ELSE @]

Overdue(s, a) == s.sess[a].open = 1 /\ s.sess[a].due = 1 /\ s.sess[a].marked # s.sec

flushvoltime(s, a) == IF Overdue(s, a) THEN markroot(s, a, 0) ELSE s

\* The attention may be refused by a full socket.
pollvoltime(s, a) ==
    LET f == flushvoltime(s, a)
        x == f.sess[a]
        due == /\ volpolls(f, a) /\ x.open = 1 /\ x.mtime + VtDelay < f.sec
               /\ x.foreign = 1 \/ ~same_stamp(f, a)
        told == Told([f EXCEPT !.sess[a].mtime = f.root.s, !.sess[a].stamp = f.root,
                               !.sess[a].foreign = 0], a)
    IN  IF ~due THEN {f}
        ELSE {told} \cup (IF f.refuse > 0 THEN {[f EXCEPT !.refuse = @ - 1]} ELSE {})

(***************************************************************************)
(* Requests.                                                               *)
(***************************************************************************)
\* The date the client sees moves on with the root.
VolumeDate(s, a) ==
    IF s.root.s <= s.sess[a].mtime THEN s
    ELSE Told([s EXCEPT !.sess[a].mtime = s.root.s, !.sess[a].stamp = s.root,
                        !.sess[a].foreign = 0], a)

getvolparams(s, a, bits) ==
    LET s1 == IF "space" \in bits THEN getvolspace(s, a) ELSE s
    IN  IF "date" \in bits THEN VolumeDate(s1, a) ELSE s1

\* The Finder asks for the date on opening.
afp_openvol(s, a) ==
    VolumeDate(Told([s EXCEPT !.sess[a].open = 1, !.sess[a].stamp = s.root], a), a)

\* A write that is still due is made.
closevol(s, a) ==
    LET s1 == IF s.sess[a].due = 1 THEN utimensat(s, a) ELSE s
    IN  Told([s1 EXCEPT !.sess[a] = [@ EXCEPT !.open = 0, !.marked = 0, !.due = 0, !.foreign = 0,
                                              !.stamp = [s |-> 0, n |-> 0], !.attn = 0, !.qtime = 0]], a)

\* A change of an entry of the root stamps the root by itself.
Change(s, a, root) ==
    LET s1 == IF root = 1 THEN Stamped(s) ELSE s
        s2 == markvol(s1, a, root, 0)
    IN  IF root = 1 \/ s.cf.perm[a] = 1 THEN Owed(s2, a) ELSE s2

\* A write that appends a band; without leave to write the root nobody learns.
Append_(s, a) ==
    LET s1 == [s EXCEPT !.used = @ + 1, !.sess[a].appended = IF s.cf.limit > 0 THEN @ + 1 ELSE @]
        s2 == markvol(s1, a, 0, 1)
    IN  IF s.cf.perm[a] = 1 THEN Owed(s2, a) ELSE s2

\* The deletion of a band.
Delete(s, a) ==
    LET s1 == [s EXCEPT !.used = @ - 1,
                        !.sess[a].tm = IF @ < 1 THEN 0 ELSE @ - 1]
    IN  IF s.cf.perm[a] = 1 THEN Owed(markvol(s1, a, 0, 0), a) ELSE markvol(s1, a, 0, 0)

(***************************************************************************)
(* The creation dates of a session's volumes.                              *)
(***************************************************************************)
\* Volume id gets its date: one that another volume has moves on by a second
\* and the loop goes on after the head of the list.
RECURSIVE SetDate(_, _, _, _)
SetDate(dates, id, i, date) ==
    IF i > Len(dates) THEN [dates EXCEPT ![id] = date]
    ELSE IF i # id /\ dates[i] = date THEN SetDate(dates, id, 2, date + 1)
    ELSE SetDate(dates, id, i + 1, date)
vol_setdate(dates, id, date) == SetDate(dates, id, 1, date)

(***************************************************************************)
(* The system.                                                             *)
(***************************************************************************)
NewSession ==
    [open |-> 0, mtime |-> 0, marked |-> 0, due |-> 0, foreign |-> 0, stamp |-> [s |-> 0, n |-> 0],
     attn |-> 0, data |-> 0, alarmed |-> 0, tm |-> 0, cache |-> 0, appended |-> 0, qtime |-> 0,
     quota |-> [free |-> VtMax, total |-> VtMax]]

VtInit ==
    \E cf \in VtConfigs :
        vt = [cf |-> cf, sec |-> 1, ksec |-> 1, sub |-> 0, root |-> [s |-> 1, n |-> 0],
              sess |-> [a \in VtSessions |-> NewSession], unseen |-> [a \in VtSessions |-> 0],
              used |-> cf.used, reply |-> [free |-> 0, total |-> 0], reqs |-> cf.reqs,
              refuse |-> cf.refuse, locals |-> cf.locals,
              dates |-> [i \in 1..Len(cf.dates) |-> 0]]

\* The loop makes the due write before it waits for the next request.
Request(a, op, out) ==
    /\ vt.sec <= VtQuiet /\ vt.reqs > 0 /\ op \in vt.cf.ops[a]
    /\ vt' = [flushvoltime(out, a) EXCEPT !.reqs = @ - 1, !.sess[a].data = 1]

Open(a) == vt.sess[a].open = 0 /\ Request(a, "open", afp_openvol(vt, a))
Close(a) == vt.sess[a].open = 1 /\ Request(a, "close", closevol(vt, a))
Changes(a) == vt.sess[a].open = 1 /\ \E r \in vt.cf.root[a] : Request(a, "change", Change(vt, a, r))
Appends(a) == vt.sess[a].open = 1 /\ vt.used < vt.cf.blocks /\ Request(a, "append", Append_(vt, a))
Deletes(a) == vt.sess[a].open = 1 /\ vt.used > 0 /\ Request(a, "delete", Delete(vt, a))
afp_getvolparams(a) ==
    vt.sess[a].open = 1 /\ \E b \in {"date", "space"} : Request(a, b, getvolparams(vt, a, {b}))

\* A volume of the list whose root has no metadata yet is opened.
Dates ==
    \E i \in 1..Len(vt.dates) :
        /\ vt.dates[i] = 0
        /\ vt' = [vt EXCEPT !.dates = vol_setdate(vt.dates, i, vt.cf.dates[i])]

\* A local process changes an entry of the root.
Local ==
    /\ vt.locals > 0 /\ vt.sec <= VtQuiet
    /\ vt' = [Owed(Stamped(vt), 0) EXCEPT !.locals = @ - 1]

\* The wait of the loop ends for the due write.
Flush(a) == Overdue(vt, a) /\ vt' = flushvoltime(vt, a)

\* A tick after traffic only clears the mark.
handle_alarm(a) ==
    /\ vt.sess[a].alarmed = 0
    /\ vt' \in {[p EXCEPT !.sess[a].alarmed = 1, !.sess[a].data = 0] :
                   p \in IF vt.sess[a].data = 1 THEN {vt} ELSE pollvoltime(vt, a)}

KernelTick == vt.ksec < vt.sec /\ vt' = [vt EXCEPT !.ksec = @ + 1, !.sub = 0]

Tick ==
    /\ vt.sec < VtLast /\ vt.ksec = vt.sec
    /\ \A a \in VtSessions : vt.sess[a].alarmed = 1 /\ ~Overdue(vt, a)
    /\ vt' = [vt EXCEPT !.sec = @ + 1,
                        !.sess = [a \in VtSessions |-> [vt.sess[a] EXCEPT !.alarmed = 0]]]

VtNext ==
    \/ \E a \in VtSessions : Open(a) \/ Close(a) \/ Changes(a) \/ Appends(a) \/ Deletes(a)
                             \/ afp_getvolparams(a) \/ Flush(a) \/ handle_alarm(a)
    \/ Dates \/ Local \/ KernelTick \/ Tick
VtSpec == VtInit /\ [][VtNext]_vtVars

(***************************************************************************)
(* Properties.                                                             *)
(***************************************************************************)
\* A change of the volume, by another session or by a local process, is told
\* to the client of every session that polls: by the date of FPGetVolParms or
\* by the attention of the idle tick, whatever this session changes and marks
\* itself in between and however the second of the write falls (pollvoltime,
\* markroot, markvol, flushvoltime).  When the volume has been quiet for the
\* delay, no session owes its client anything.
ChangeTold ==
    vt.sec = VtLast /\ vt.refuse = 0 /\ (\A a \in VtSessions : vt.sess[a].alarmed = 1)
    => \A a \in VtSessions : vt.unseen[a] = 0

\* FPGetVolParms never reports more free space than the volume has, through
\* quotas, the caches of their answers, the size limit and what was appended
\* and deleted since the bands were counted (getvolspace, get_tm_used,
\* uquota_getvolspace).
SpaceSane == vt.reply.free <= vt.reply.total /\ vt.reply.total <= vt.cf.blocks

=============================================================================
