---------------------------- MODULE LoginProofs ----------------------------
(***************************************************************************)
(* Proof that a session runs as a user only after a message has carried    *)
(* that user's password and that a challenge is judged once (Login), for   *)
(* any users, module lists and number of exchanges.                        *)
(*                                                                         *)
(* The invariant says of a living process that each module's static user   *)
(* is the one whose password it will compare (Known, Named), that a        *)
(* challenge is held by one module and was not judged yet (Held), and who  *)
(* the process runs as (Account).  That each module function answers       *)
(* soundly is shown in LoginAnswers; here the answers are put together by  *)
(* the dispatch of afp_login, afp_logincont and afp_changepw.              *)
(***************************************************************************)
EXTENDS LoginAnswers

(* Whatever method afp_login is given, one module answers, soundly. *)
LEMMA FirstAnswer ==
  ASSUME LoginAssumption, NEW s, Typed(s), s.ch < MaxExchanges, NEW seen, NEW now, NEW n \in Names,
         NEW r \in Replies, Carried(s, r, seen, now), Known(s, seen),
         NEW o \in UamLogin(s, s.uam, n, r)
  PROVE  \E m \in Keepers : Answer(s, o, now, m)
<1> DEFINE M == Module(s)
<1>0. {"srp", "rnd", "dhx", "dhxp", "dhx2", "dhx2p"} \subseteq Keepers
  BY Zenon DEF Keepers
<1>1. \/ M = "guest" /\ o \in noauth_login(s)
      \/ M = "passwd" /\ o \in passwd_login(s, n, r)
      \/ M = "pam" /\ o \in pam_login(s, n, r)
      \/ M = "randnum" /\ o \in randnum_login(s, n, r)
      \/ M = "dhx" /\ o \in dhx_passwd_login(s, n, r)
      \/ M = "dhxp" /\ o \in dhx_pam_login(s, n, r)
      \/ M = "dhx2" /\ o \in dhx2_passwd_login(s, n, r)
      \/ M = "dhx2p" /\ o \in dhx2_pam_login(s, n, r)
      \/ M = "srp" /\ o \in srp_login(s, n, r)
      \/ M = "gss" /\ o \in gss_login(s)
      \/ o \in Refuse(s)
  BY DEF UamLogin, Module
<1>2. CASE M = "guest" /\ o \in noauth_login(s)
  BY Zenon, <1>0, <1>2, Guests DEF Carried
<1>3. CASE M = "passwd" /\ o \in passwd_login(s, n, r)
  BY Zenon, <1>0, <1>3, Passwd
<1>4. CASE M = "pam" /\ o \in pam_login(s, n, r)
  BY ZenonT(60), <1>0, <1>4, PamClear
<1>5. CASE M = "randnum" /\ o \in randnum_login(s, n, r)
  BY Zenon, <1>0, <1>5, RandFirst
<1>6. CASE M = "dhx" /\ o \in dhx_passwd_login(s, n, r)
  BY Zenon, <1>0, <1>6, DhxFirst
<1>7. CASE M = "dhxp" /\ o \in dhx_pam_login(s, n, r)
  BY Zenon, <1>0, <1>7, DhxPamFirst
<1>8. CASE M = "dhx2" /\ o \in dhx2_passwd_login(s, n, r)
  BY Zenon, <1>0, <1>8, Dhx2First
<1>9. CASE M = "dhx2p" /\ o \in dhx2_pam_login(s, n, r)
  BY Zenon, <1>0, <1>9, Dhx2PamFirst
<1>10. CASE M = "srp" /\ o \in srp_login(s, n, r)
  BY Zenon, <1>0, <1>10, SrpFirst
<1>11. CASE M = "gss" /\ o \in gss_login(s)
  <2>1. Known(s, now)
    BY Zenon, KnownKept DEF Carried
  <2> QED
    BY Zenon, <1>0, <1>11, <2>1, GssFirst
<1>12. CASE o \in Refuse(s)
  BY Zenon, <1>0, <1>12, Refused
<1> QED
  BY ZenonT(60), <1>1, <1>2, <1>3, <1>4, <1>5, <1>6, <1>7, <1>8, <1>9, <1>10, <1>11, <1>12

(* Whatever method is under way, the second message of afp_logincont goes to one
   module, which answers soundly. *)
LEMMA SecondAnswer ==
  ASSUME LoginAssumption, NEW s, Typed(s),
         s.ch < MaxExchanges \/ Module(s) \notin {"dhx2", "dhx2p"},
         NEW seen, NEW now, NEW r \in Replies, Carried(s, r, seen, now), Known(s, seen), Named(s),
         NEW o \in UamLogincont(s, r)
  PROVE  \E m \in Keepers : Answer(s, o, now, m)
<1> DEFINE M == Module(s)
<1>0. {"srp", "rnd", "dhx", "dhxp", "dhx2", "dhx2p"} \subseteq Keepers
  BY Zenon DEF Keepers
<1>1. \/ o \in randnum_logincont(s, r)
      \/ M = "dhx" /\ o \in dhx_passwd_logincont(s, r)
      \/ M = "dhxp" /\ o \in dhx_pam_logincont(s, r)
      \/ M = "dhx2" /\ o \in dhx2_passwd_logincont(s, r)
      \/ M = "dhx2p" /\ o \in dhx2_pam_logincont(s, r)
      \/ M = "srp" /\ o \in srp_logincont(s, r)
      \/ M = "gss" /\ o \in gss_logincont(s, r)
      \/ o \in Refuse(s)
  BY Zenon DEF UamLogincont, Module, rand2num_logincont
<1>2. CASE o \in randnum_logincont(s, r)
  BY Zenon, <1>0, <1>2, RandSecond
<1>3. CASE M = "dhx" /\ o \in dhx_passwd_logincont(s, r)
  BY Zenon, <1>0, <1>3, DhxSecond
<1>4. CASE M = "dhxp" /\ o \in dhx_pam_logincont(s, r)
  BY Zenon, <1>0, <1>4, DhxPamSecond
<1>5. CASE M = "dhx2" /\ o \in dhx2_passwd_logincont(s, r)
  BY Zenon, <1>0, <1>5, Dhx2Second
<1>6. CASE M = "dhx2p" /\ o \in dhx2_pam_logincont(s, r)
  BY Zenon, <1>0, <1>6, Dhx2PamSecond
<1>7. CASE M = "srp" /\ o \in srp_logincont(s, r)
  BY Zenon, <1>0, <1>7, SrpSecond
<1>8. CASE M = "gss" /\ o \in gss_logincont(s, r)
  BY Zenon, <1>0, <1>8, GssSecond
<1>9. CASE o \in Refuse(s)
  BY Zenon, <1>0, <1>9, Refused
<1> QED
  BY ZenonT(60), <1>1, <1>2, <1>3, <1>4, <1>5, <1>6, <1>7, <1>8, <1>9

(* Whatever method afp_changepw is given, one module answers, and what is known and
   named stays so. *)
LEMMA ChangeAnswer ==
  ASSUME LoginAssumption, NEW s, Typed(s), s.ch < MaxExchanges, NEW seen, NEW now, NEW r \in Replies,
         Carried(s, r, seen, now), Known(s, seen), Named(s), s.frame = s.uname, NEW uam, NEW u,
         NEW o \in UamChangepw(s, uam, u, r)
  PROVE  \E m \in Keepers : Changed(s, o, now, m)
<1>0. {"srp", "rnd", "dhx", "dhxp", "dhx2", "dhx2p"} \subseteq Keepers
  BY Zenon DEF Keepers
<1>1. \/ o \in randnum_changepw(s, u, r) \/ o \in dhx_pam_changepw(s, u, r)
      \/ o \in dhx2_changepw(s, r) \/ o \in pam_changepw(s, u, r) \/ o \in Refuse(s)
  BY Zenon DEF UamChangepw
<1>2. CASE o \in randnum_changepw(s, u, r)
  BY Zenon, <1>0, <1>2, RandChange
<1>3. CASE o \in dhx_pam_changepw(s, u, r)
  BY Zenon, <1>0, <1>3, DhxPamChange
<1>4. CASE o \in dhx2_changepw(s, r)
  BY Zenon, <1>0, <1>4, Dhx2PamChange
<1>5. CASE o \in pam_changepw(s, u, r)
  BY Zenon, <1>0, <1>5, PamChange
<1>6. CASE o \in Refuse(s)
  <2>1. Known(s, now) /\ o.s = s
    BY <1>6, KnownKept, SMTT(60) DEF Carried, Refuse, Out
  <2> QED
    BY ZenonT(60), <1>0, <1>6, <2>1, Refused DEF Answer, Changed
<1> QED
  BY ZenonT(60), <1>1, <1>2, <1>3, <1>4, <1>5, <1>6

-----------------------------------------------------------------------------
(* A challenge is held by one module, and no longer once it has been compared. *)
Counted(s) ==
  /\ s.ch \in 0..MaxExchanges /\ s.judged \in [1..MaxExchanges -> {0, 1}]
  /\ \A c \in 1..MaxExchanges : c > s.ch => s.judged[c] = 0
Held(s) ==
  \A m \in Keepers :
    /\ Challenge(m, s[m]) \in 0..s.ch
    /\ Challenge(m, s[m]) # 0 => s.judged[Challenge(m, s[m])] = 0
    /\ \A k \in Keepers \ {m} :
         Challenge(m, s[m]) # 0 => Challenge(k, s[k]) # Challenge(m, s[m])

(* One module's call keeps the challenges apart: a new one has a new number, and one
   that was compared is held no longer. *)
LEMMA TurnHeld ==
  ASSUME LoginAssumption, NEW s, Counted(s), Held(s), NEW m \in Keepers, NEW t, Frame(s, t, m), Turn(s, t, m)
  PROVE  Counted(t) /\ Held(t)
<1> DEFINE a == Challenge(m, s[m])
           b == Challenge(m, t[m])
<1>1. /\ MaxExchanges \in Nat /\ s.ch \in 0..MaxExchanges /\ s.judged \in [1..MaxExchanges -> {0, 1}]
      /\ \A c \in 1..MaxExchanges : c > s.ch => s.judged[c] = 0
      /\ a \in 0..s.ch /\ (a # 0 => s.judged[a] = 0)
  BY Zenon DEF LoginAssumption, Counted, Held
<1>2. \A k \in Keepers \ {m} :
        /\ t[k] = s[k] /\ Challenge(k, s[k]) \in 0..s.ch
        /\ Challenge(k, s[k]) # 0 => s.judged[Challenge(k, s[k])] = 0 /\ Challenge(k, s[k]) # a
        /\ a # 0 => Challenge(k, s[k]) # a
        /\ \A l \in Keepers \ {m, k} :
             Challenge(k, s[k]) # 0 => Challenge(l, s[l]) # Challenge(k, s[k])
  <2>1. Keepers \subseteq Fields \ {"uname", "pam", "db", "judged", "ch"}
    BY SMTT(60) DEF Keepers, Fields
  <2> QED
    BY Zenon, <2>1 DEF Frame, Held
<1>3. \/ t.judged = s.judged /\ t.ch = s.ch /\ (b = 0 \/ b = a)
      \/ t.judged = s.judged /\ t.ch = s.ch + 1 /\ s.ch < MaxExchanges /\ (b = 0 \/ b = a \/ b = t.ch)
      \/ /\ t.judged = [x \in 1..MaxExchanges |-> s.judged[x] + IF x = a THEN 1 ELSE 0]
         /\ t.ch = s.ch /\ b = 0
  BY Zenon DEF Turn
<1> HIDE DEF a
<1>4. Counted(t) /\ b \in 0..t.ch /\ (b # 0 => t.judged[b] = 0) /\ t.ch >= s.ch
  <2> HIDE DEF b
  <2>1. CASE t.judged = s.judged /\ t.ch = s.ch /\ (b = 0 \/ b = a)
    BY SMTT(30), <1>1, <2>1 DEF Counted
  <2>2. CASE t.judged = s.judged /\ t.ch = s.ch + 1 /\ s.ch < MaxExchanges /\ (b = 0 \/ b = a \/ b = t.ch)
    BY <1>1, <2>2, SMTT(60) DEF Counted
  <2>3. CASE /\ t.judged = [x \in 1..MaxExchanges |-> s.judged[x] + IF x = a THEN 1 ELSE 0]
             /\ t.ch = s.ch /\ b = 0
    <3>1. t.judged \in [1..MaxExchanges -> {0, 1}]
      BY SMTT(30), <1>1, <2>3
    <3>2. \A c \in 1..MaxExchanges : c > s.ch => t.judged[c] = 0
      BY <1>1, <2>3, SMTT(60)
    <3> QED
      BY SMTT(30), <1>1, <2>3, <3>1, <3>2 DEF Counted
  <2> QED
    BY ZenonT(60), <1>3, <2>1, <2>2, <2>3
<1>5. ASSUME NEW k \in Keepers \ {m}, NEW x, x = Challenge(k, s[k])
      PROVE  /\ Challenge(k, t[k]) = x /\ x \in 0..t.ch /\ (x # 0 => t.judged[x] = 0 /\ x # b)
             /\ b # 0 => x # b
  <2>1. /\ Challenge(k, t[k]) = x /\ x \in 0..s.ch /\ (x # 0 => s.judged[x] = 0 /\ x # a)
        /\ a # 0 => x # a
    BY ZenonT(60), <1>2, <1>5
  <2> HIDE DEF b
  <2>2. x # 0 => t.judged[x] = 0
    BY <1>1, <1>3, <2>1, SMTT(60)
  <2> QED
    BY <1>1, <1>3, <1>4, <2>1, <2>2, SMTT(60)
<1>6. \A k \in Keepers \ {m} :
        /\ Challenge(k, t[k]) = Challenge(k, s[k]) /\ Challenge(k, t[k]) \in 0..t.ch
        /\ Challenge(k, t[k]) # 0 => t.judged[Challenge(k, t[k])] = 0 /\ Challenge(k, t[k]) # b
        /\ b # 0 => Challenge(k, t[k]) # b
  BY Zenon, <1>5
<1> QED
  BY <1>2, <1>4, <1>6, SMTT(60) DEF Held

-----------------------------------------------------------------------------
(* Who the process runs as.  Once it has given root away its groups are not the
   administrators' (unless a user is forced), so that a second login cannot keep
   the first one's euid as an administrator's. *)
Account(s, seen) ==
  /\ s.conf \in LoginConfigs /\ s.alive \in {0, 1} /\ s.sw \in {"pre", "expired", "post"}
  /\ s.uid \in Users \cup {None} /\ s.euid \in Users
  /\ s.uid \in Users \ {Guest} => s.uid \in seen
  /\ s.euid # Root => s.euid \in {s.uid, s.conf.force}
  /\ s.sw # "pre" => s.uid # None
  /\ s.euid # Root /\ s.conf.force = None => s.groups \notin s.conf.admins

(* A password has been changed only by who knew it; the fields login() writes. *)
Stored(s, seen) == s.db \in [Users -> {0, 1}] /\ \A u \in Users : s.db[u] # 0 => u \in seen
Identity == {"sw", "logout", "uid", "euid", "groups"}

(* The inductive invariant: of every process, and of one that has not ended. *)
Alive(s, seen) == Typed(s) /\ Known(s, seen) /\ Named(s) /\ Held(s)
Good(s, seen) ==
  /\ DOMAIN s = Fields /\ Account(s, seen) /\ Stored(s, seen) /\ Counted(s)
  /\ s.dhx2.st \in {"IDLE", "CONT1", "CONT2"} /\ s.dhx2p.st \in {"IDLE", "CONT1", "CONT2"}
  /\ s.alive = 1 => Alive(s, seen)
IInv == lgSeen \subseteq Users /\ Good(lg, lgSeen)

(* Who a process runs as depends on no more than these fields. *)
LEMMA AccountKept ==
  ASSUME NEW s, NEW t, NEW seen, NEW now, seen \subseteq now, Account(s, seen),
         t.conf = s.conf, t.alive \in {0, 1}, t.sw = s.sw, t.uid = s.uid, t.euid = s.euid,
         t.groups = s.groups
  PROVE  Account(t, now)
BY Zenon DEF Account

(* login() leaves a process that runs as the user it was given, as the forced user, or
   as root for an administrator; it refuses what setuid would refuse. *)
LEMMA LoggedIn ==
  ASSUME LoginAssumption, NEW t, DOMAIN t = Fields, NEW now, Account(t, now), NEW u \in Users,
         u = Guest \/ u \in now, NEW l, NEW x \in {0, 1}, NEW v, v = login(t, u, l, x)
  PROVE  /\ DOMAIN v.s = Fields /\ \A f \in Fields \ Identity : v.s[f] = t[f]
         /\ Account(v.s, now) /\ v.rc \in {"OK", "ERR"}
<1> DEFINE g == set_groups(t, u)
           e == IF g.groups \in t.conf.admins THEN g.euid ELSE u
           f == IF t.conf.force = None THEN e ELSE t.conf.force
           a == set_auth_switch(g, x)
           w == [a EXCEPT !.logout = l, !.uid = u, !.euid = f]
<1>1. v = Out(t, "ERR", None) \/ v = Out(g, "ERR", None) \/ v = Out(w, "OK", u)
  BY Zenon DEF login
<1>2. /\ DOMAIN g = Fields /\ \A y \in Fields \ {"groups"} : g[y] = t[y]
      /\ g.groups = IF t.euid = Root THEN u ELSE t.groups
  BY Zenon DEF set_groups, Fields
<1>3. /\ DOMAIN a = Fields /\ \A y \in Fields \ {"sw"} : a[y] = g[y]
      /\ a.sw = IF x = 0 THEN "post" ELSE IF g.sw = "pre" THEN "expired" ELSE g.sw
  BY Zenon, <1>2 DEF set_auth_switch, Fields
<1> HIDE DEF g, a
<1>4. /\ DOMAIN w = Fields /\ \A y \in Fields \ Identity : w[y] = t[y]
      /\ w.uid = u /\ w.euid = f /\ w.groups = g.groups /\ w.sw = a.sw /\ w.conf = t.conf
      /\ w.alive = t.alive
  BY ZenonT(60), <1>2, <1>3 DEF Fields, Identity
<1>5. /\ \A y \in Fields \ Identity : g[y] = t[y]
      /\ g.sw = t.sw /\ g.uid = t.uid /\ g.euid = t.euid /\ g.conf = t.conf /\ g.alive = t.alive
  BY Zenon, <1>2 DEF Fields, Identity
<1>6. Account(g, now)
  BY Zenon, <1>2, <1>5 DEF Account
<1>7. /\ t.conf \in LoginConfigs /\ t.conf.force \in Users \cup {None} /\ None \notin Users
      /\ t.euid \in Users
  BY Zenon DEF Account, LoginAssumption
<1>8. Account(w, now)
  <2>1. f \in Users
    BY Zenon, <1>5, <1>7
  <2>2. f # Root /\ t.conf.force = None => f = u /\ g.groups \notin t.conf.admins
    BY Zenon, <1>2, <1>5 DEF Account
  <2>3. f # Root => f \in {u, t.conf.force}
    BY Zenon, <2>2
  <2>4. w.sw \in {"pre", "expired", "post"}
    BY Zenon, <1>3, <1>4, <1>5 DEF Account
  <2>5. u # None
    BY Zenon, <1>7
  <2> HIDE DEF w, f
  <2> QED
    BY SMTT(30), <1>4, <1>7, <2>1, <2>2, <2>3, <2>4, <2>5 DEF Account
<1> HIDE DEF w
<1>9. (v.s = t \/ v.s = g \/ v.s = w) /\ v.rc \in {"OK", "ERR"}
  BY SMTT(30), <1>1 DEF Out
<1>10. CASE v.s = t
  BY Zenon, <1>9, <1>10
<1>11. CASE v.s = g
  BY Zenon, <1>2, <1>5, <1>6, <1>9, <1>11
<1>12. CASE v.s = w
  BY ZenonT(60), <1>4, <1>8, <1>9, <1>12
<1> QED
  BY ZenonT(60), <1>9, <1>10, <1>11, <1>12

(* afp_dsi_close ends the process and keeps what was said of it. *)
LEMMA Closed ==
  ASSUME NEW s, DOMAIN s = Fields, NEW seen, Account(s, seen), Stored(s, seen), Counted(s),
         NEW t, t = afp_dsi_close(s)
  PROVE  Good(t, seen)
<1>1. /\ DOMAIN t = Fields /\ t.alive = 0 /\ t.dhx2 = [st |-> "IDLE"] /\ t.dhx2p = [st |-> "IDLE"]
      /\ t.conf = s.conf /\ t.sw = s.sw /\ t.uid = s.uid /\ t.euid = s.euid /\ t.groups = s.groups
      /\ t.db = s.db /\ t.ch = s.ch /\ t.judged = s.judged
  BY ZenonT(60) DEF afp_dsi_close, Fields
<1>2. Account(t, seen)
  BY Zenon, <1>1, AccountKept
<1>3. Stored(t, seen) /\ Counted(t)
  BY <1>1, SMTT(60) DEF Stored, Counted
<1> QED
  BY SMTT(30), <1>1, <1>2, <1>3 DEF Good

(* A module's call changes neither the account nor the command table. *)
LEMMA Framed ==
  ASSUME NEW s, Typed(s), NEW m \in Keepers, NEW t, Moved(s, t, m)
  PROVE  /\ Typed(t) /\ DOMAIN t = Fields
         /\ t.conf = s.conf /\ t.alive = s.alive /\ t.sw = s.sw /\ t.uid = s.uid /\ t.euid = s.euid
         /\ t.groups = s.groups
<1>1. \A k \in Keepers \ {m} : t[k] = s[k]
  <2>1. Keepers \subseteq Fields \ {"uname", "pam", "db", "judged", "ch"}
    BY ZenonT(60) DEF Keepers, Fields
  <2> QED
    BY Zenon, <2>1 DEF Moved, Frame
<1>2. Typed(t)
  BY Zenon, <1>1 DEF Typed, Moved, Frame
<1>3. {"conf", "alive", "sw", "uid", "euid", "groups"}
        \subseteq Fields \ {m, "uname", "pam", "db", "judged", "ch"}
  BY ZenonT(60) DEF Keepers, Fields
<1>4. \A f \in {"conf", "alive", "sw", "uid", "euid", "groups"} : t[f] = s[f]
  BY Zenon, <1>3 DEF Moved, Frame
<1> QED
  BY Zenon, <1>2, <1>4 DEF Moved, Frame

(* The challenges and the statics of the modules are all that their part of the
   invariant depends on. *)
LEMMA StaticsKept ==
  ASSUME NEW s, NEW t, DOMAIN t = Fields, t.db = s.db, t.judged = s.judged, t.ch = s.ch,
         \A m \in Keepers : t[m] = s[m], Typed(s), Held(s), Counted(s)
  PROVE  Typed(t) /\ Held(t) /\ Counted(t)
<1>1. Typed(t)
  BY Zenon DEF Typed
<1>2. Held(t)
  BY ZenonT(60) DEF Held
<1>3. Counted(t)
  BY Zenon DEF Counted
<1> QED
  BY Zenon, <1>1, <1>2, <1>3

(* login() and set_auth_switch touch nothing of the modules. *)
LEMMA Alike ==
  ASSUME NEW s, NEW t, DOMAIN t = Fields, \A f \in Fields \ Identity : t[f] = s[f],
         NEW seen, Typed(s), Known(s, seen), Named(s), Held(s), Counted(s), Stored(s, seen)
  PROVE  Alive(t, seen) /\ Counted(t) /\ Stored(t, seen)
<1>1. /\ t.uam = s.uam /\ t.reg = s.reg /\ t.uname = s.uname /\ t.frame = s.frame /\ t.db = s.db
      /\ t.judged = s.judged /\ t.ch = s.ch
      /\ \A m \in Keepers : t[m] = s[m]
  BY ZenonT(60) DEF Fields, Identity, Keepers
<1>2. t.rnd = s.rnd /\ t.dhxp = s.dhxp /\ t.dhx2p = s.dhx2p
  BY Zenon, <1>1 DEF Keepers
<1>3. Typed(t) /\ Held(t) /\ Counted(t) /\ Stored(t, seen)
  BY Zenon, <1>1, StaticsKept DEF Stored
<1>4. Known(t, seen) /\ Named(t)
  BY Zenon, <1>1, <1>2, KnownKept, NamedKept
<1> QED
  BY Zenon, <1>3, <1>4 DEF Alive

(* The parts of the invariant, put together for a process that goes on. *)
LEMMA Living ==
  ASSUME NEW s, NEW seen, Account(s, seen), Alive(s, seen), Counted(s), Stored(s, seen)
  PROVE  Good(s, seen)
<1>1. s.dhx2.st \in {"IDLE", "CONT1", "CONT2"} /\ s.dhx2p.st \in {"IDLE", "CONT1", "CONT2"}
  BY Zenon DEF Alive, Typed, Sound, Keepers
<1> QED
  BY Zenon, <1>1 DEF Good, Alive, Typed

(* What afp_login and afp_logincont make of a module's sound answer is sound: a login
   for who is proven, the next message, or the end of the process. *)
LEMMA Replied ==
  ASSUME LoginAssumption, NEW s, Typed(s), NEW now, Account(s, now), Stored(s, now), Counted(s), Held(s),
         NEW m \in Keepers, NEW o, Answer(s, o, now, m), NEW t, t = send_reply(Answered(o))
  PROVE  Good(t, now)
<1> DEFINE p == o.s
           x == IF o.rc = "PWDEXPR" THEN 1 ELSE 0
           v == login(p, o.pwd, auth_uamfind(p, p.uam), x)
<1>1. Moved(s, p, m) /\ Proven(o, now) /\ p.db = s.db /\ (Stays(o) => Known(p, now) /\ Named(p))
  BY Zenon DEF Answer
<1>2. /\ Typed(p) /\ DOMAIN p = Fields /\ Account(p, now)
  <2>1. /\ Typed(p) /\ DOMAIN p = Fields
        /\ p.conf = s.conf /\ p.alive = s.alive /\ p.sw = s.sw /\ p.uid = s.uid /\ p.euid = s.euid
        /\ p.groups = s.groups
    BY <1>1, Framed, SMTT(60)
  <2>2. s.alive \in {0, 1}
    BY Zenon DEF Account
  <2> HIDE DEF p
  <2> QED
    BY ZenonT(60), <2>1, <2>2, AccountKept
<1>3. Counted(p) /\ Held(p) /\ Stored(p, now)
  BY Zenon, <1>1, TurnHeld DEF Moved, Stored
<1>4. CASE o.rc = "AUTHCONT" \/ o.pwd = None \/ o.rc \notin {"OK", "PWDEXPR"}
  <2>1. t = IF o.rc \in {"OK", "AUTHCONT"} THEN p ELSE afp_dsi_close(p)
    BY Zenon, <1>4 DEF send_reply, Answered
  <2>2. CASE o.rc \in {"OK", "AUTHCONT"}
    <3>1. Alive(p, now)
      BY ZenonT(60), <1>1, <1>2, <1>3, <2>2 DEF Alive, Stays
    <3> QED
      BY ZenonT(60), <1>2, <1>3, <2>1, <2>2, <3>1, Living
  <2>3. CASE o.rc \notin {"OK", "AUTHCONT"}
    BY ZenonT(60), <1>2, <1>3, <2>1, <2>3, Closed
  <2> QED
    BY Zenon, <2>2, <2>3
<1>5. CASE ~(o.rc = "AUTHCONT" \/ o.pwd = None \/ o.rc \notin {"OK", "PWDEXPR"})
  <2>1. t = IF v.rc \in {"OK", "AUTHCONT"} THEN v.s ELSE afp_dsi_close(v.s)
    BY Zenon, <1>5 DEF send_reply, Answered
  <2>2. o.pwd \in Users /\ (o.pwd = Guest \/ o.pwd \in now) /\ x \in {0, 1}
    BY ZenonT(60), <1>1, <1>5 DEF Proven
  <2>3. /\ DOMAIN v.s = Fields /\ \A f \in Fields \ Identity : v.s[f] = p[f]
        /\ Account(v.s, now) /\ v.rc \in {"OK", "ERR"}
    BY <1>2, <2>2, LoggedIn, SMTT(60)
  <2>4. Known(p, now) /\ Named(p)
    BY Zenon, <1>1, <1>5 DEF Stays
  <2> HIDE DEF v, p
  <2>5. Alive(v.s, now) /\ Counted(v.s) /\ Stored(v.s, now)
    BY ZenonT(60), <1>2, <1>3, <2>3, <2>4, Alike
  <2> QED
    BY ZenonT(60), <2>1, <2>3, <2>5, Living, Closed
<1> QED
  BY Zenon, <1>4, <1>5

-----------------------------------------------------------------------------
(* A process that has just been forked and has loaded its modules satisfies the
   invariant. *)
LEMMA LoginInitInv ==
  ASSUME LoginAssumption, LoginInit
  PROVE  IInv
<1>1. PICK c \in LoginConfigs :
       lg = [conf |-> c, alive |-> 1, sw |-> "pre", uam |-> None, uid |-> None, euid |-> Root,
             groups |-> Root, logout |-> None, key |-> 0,
             reg |-> auth_load(c.list), uname |-> None, frame |-> None,
             db |-> [u \in Users |-> 0], judged |-> [x \in 1..MaxExchanges |-> 0],
             ch |-> 0, pam |-> {},
             rnd |-> [pwd |-> None, key |-> <<>>, buf |-> 0],
             dhx |-> [K |-> 0, pwd |-> None, buf |-> 0],
             dhxp |-> [K |-> 0, pwd |-> None, buf |-> 0],
             dhx2 |-> [st |-> "IDLE", K |-> 0, nonce |-> 0, pwd |-> None],
             dhx2p |-> [st |-> "IDLE", K |-> 0, nonce |-> 0, pwd |-> None,
                        pname |-> None, call |-> 1],
             srp |-> [v |-> 0, pwd |-> None]]
  BY Zenon DEF LoginInit
<1>2. /\ DOMAIN lg = Fields /\ lg.conf = c /\ lg.alive = 1 /\ lg.sw = "pre" /\ lg.uid = None
      /\ lg.euid = Root /\ lg.groups = Root /\ lg.frame = None /\ lg.uname = None
      /\ lg.db = [u \in Users |-> 0] /\ lg.judged = [x \in 1..MaxExchanges |-> 0] /\ lg.ch = 0
      /\ lg.rnd = [pwd |-> None, key |-> <<>>, buf |-> 0]
      /\ lg.dhx = [K |-> 0, pwd |-> None, buf |-> 0]
      /\ lg.dhxp = [K |-> 0, pwd |-> None, buf |-> 0]
      /\ lg.dhx2 = [st |-> "IDLE", K |-> 0, nonce |-> 0, pwd |-> None]
      /\ lg.dhx2p = [st |-> "IDLE", K |-> 0, nonce |-> 0, pwd |-> None, pname |-> None, call |-> 1]
      /\ lg.srp = [v |-> 0, pwd |-> None]
  BY Zenon, <1>1 DEF Fields
<1>3. Account(lg, lgSeen)
  BY Zenon, <1>2 DEF Account, LoginAssumption
<1>4. Stored(lg, lgSeen) /\ Counted(lg)
  BY SMTT(30), <1>2 DEF Stored, Counted, LoginAssumption
<1>5. Typed(lg)
  BY <1>2, SMTT(60) DEF Typed, Keepers, Sound, Static
<1>6. Known(lg, lgSeen)
  <2>1. lg.rnd.key = <<>>
    BY <1>2
  <2>2. \A u, g : <<>> # <<u, g>>
    BY Zenon
  <2> QED
    BY <1>2, <2>1, <2>2, SMTT(60) DEF Known
<1>7. Named(lg)
  BY <1>2, SMTT(60) DEF Named, PamName
<1>8. Held(lg)
  <2>1. \A m \in Keepers : Challenge(m, lg[m]) = 0
    BY SMTT(30), <1>2 DEF Keepers, Challenge
  <2> QED
    BY <1>2, <2>1, SMTT(60) DEF Held
<1>9. Good(lg, lgSeen)
  BY ZenonT(60), <1>3, <1>4, <1>5, <1>6, <1>7, <1>8, Living DEF Alive
<1> QED
  BY Zenon, <1>9 DEF IInv, LoginInit

(* The users a message adds to those who have shown their password. *)
LEMMA Taken ==
  ASSUME LoginAssumption, lgSeen \subseteq Users, NEW r \in Replies, Took(r), NEW s, s.db = lg.db
  PROVE  lgSeen' \subseteq Users /\ lgSeen \subseteq lgSeen' /\ Carried(s, r, lgSeen, lgSeen')
BY Zenon DEF Took, Carried, Right, Replies

(* A password changed only by who knew it stays so. *)
LEMMA StoredKept ==
  ASSUME NEW s, NEW t, NEW seen, NEW now, seen \subseteq now, Stored(s, seen), t.db = s.db
  PROVE  Stored(t, now)
BY Zenon DEF Stored

(* FPLogin and FPLoginExt keep the invariant (afp_login, afp_login_ext). *)
LEMMA LoginStep ==
  ASSUME LoginAssumption, IInv, NEW uam, NEW n \in Names, NEW r \in Replies, afp_login(uam, n, r)
  PROVE  IInv'
<1> DEFINE s == [[lg EXCEPT !.uam = uam] EXCEPT !.key = 1]
<1>1. /\ lg.alive = 1 /\ lg.ch < MaxExchanges /\ Took(r)
      /\ \E o \in UamLogin(s, uam, n, r) : lg' = send_reply(Answered(o))
  BY Zenon DEF afp_login, Dispatches, create_session_key
<1>2. PICK o \in UamLogin(s, uam, n, r) : lg' = send_reply(Answered(o))
  BY Zenon, <1>1
<1>3. /\ DOMAIN lg = Fields /\ Account(lg, lgSeen) /\ Stored(lg, lgSeen) /\ Counted(lg)
      /\ Typed(lg) /\ Known(lg, lgSeen) /\ Held(lg) /\ lgSeen \subseteq Users
  BY Zenon, <1>1 DEF IInv, Good, Alive
<1>4. /\ DOMAIN s = Fields /\ \A f \in Fields \ {"uam", "key"} : s[f] = lg[f]
      /\ s.uam = uam
  BY Zenon, <1>3 DEF Fields
<1> HIDE DEF s
<1>5. /\ s.conf = lg.conf /\ s.alive = lg.alive /\ s.sw = lg.sw /\ s.uid = lg.uid /\ s.euid = lg.euid
      /\ s.groups = lg.groups /\ s.db = lg.db /\ s.judged = lg.judged /\ s.ch = lg.ch
      /\ s.rnd = lg.rnd /\ \A m \in Keepers : s[m] = lg[m]
  BY ZenonT(60), <1>4 DEF Fields, Keepers
<1>6. Typed(s) /\ Held(s) /\ Counted(s)
  BY Zenon, <1>3, <1>4, <1>5, StaticsKept
<1>7. lgSeen' \subseteq Users /\ lgSeen \subseteq lgSeen' /\ Carried(s, r, lgSeen, lgSeen')
  BY Zenon, <1>1, <1>3, <1>5, Taken
<1>8. Known(s, lgSeen)
  BY Zenon, <1>3, <1>5, KnownKept
<1>9. Account(s, lgSeen') /\ Stored(s, lgSeen')
  <2>1. s.alive \in {0, 1}
    BY Zenon, <1>3, <1>5 DEF Account
  <2> QED
    BY ZenonT(60), <1>3, <1>5, <1>7, <2>1, AccountKept, StoredKept
<1>10. PICK m \in Keepers : Answer(s, o, lgSeen', m)
  <2>1. o \in UamLogin(s, s.uam, n, r) /\ s.ch < MaxExchanges
    BY ZenonT(60), <1>1, <1>2, <1>4, <1>5
  <2> QED
    BY ZenonT(60), <1>6, <1>7, <1>8, <2>1, FirstAnswer
<1>11. Good(lg', lgSeen')
  BY ZenonT(60), <1>2, <1>6, <1>9, <1>10, Replied
<1> QED
  BY Zenon, <1>7, <1>11 DEF IInv

(* FPLoginCont keeps the invariant (afp_logincont). *)
LEMMA LogincontStep ==
  ASSUME LoginAssumption, IInv, NEW r \in Replies, afp_logincont(r)
  PROVE  IInv'
<1>1. /\ lg.alive = 1 /\ Took(r)
      /\ lg.ch < MaxExchanges \/ Module(lg) \notin {"dhx2", "dhx2p"}
      /\ \E o \in UamLogincont(lg, r) : lg' = send_reply(Answered(o))
  BY Zenon DEF afp_logincont, Dispatches, Module
<1>2. PICK o \in UamLogincont(lg, r) : lg' = send_reply(Answered(o))
  BY Zenon, <1>1
<1>3. /\ DOMAIN lg = Fields /\ Account(lg, lgSeen) /\ Stored(lg, lgSeen) /\ Counted(lg)
      /\ Typed(lg) /\ Known(lg, lgSeen) /\ Named(lg) /\ Held(lg) /\ lgSeen \subseteq Users
  BY Zenon, <1>1 DEF IInv, Good, Alive
<1>4. lgSeen' \subseteq Users /\ lgSeen \subseteq lgSeen' /\ Carried(lg, r, lgSeen, lgSeen')
  BY Zenon, <1>1, <1>3, Taken
<1>5. Account(lg, lgSeen') /\ Stored(lg, lgSeen')
  <2>1. lg.alive \in {0, 1}
    BY Zenon, <1>3 DEF Account
  <2> QED
    BY Zenon, <1>3, <1>4, <2>1, AccountKept, StoredKept
<1>6. PICK m \in Keepers : Answer(lg, o, lgSeen', m)
  BY ZenonT(60), <1>1, <1>3, <1>4, SecondAnswer
<1>7. Good(lg', lgSeen')
  BY ZenonT(60), <1>2, <1>3, <1>5, <1>6, Replied
<1> QED
  BY Zenon, <1>4, <1>7 DEF IInv

(* FPChangePassword keeps the invariant (afp_changepw): an expired session that has
   changed its password goes on as the user it was. *)
LEMMA ChangepwStep ==
  ASSUME LoginAssumption, IInv, NEW uam, NEW r \in Replies, afp_changepw(uam, r)
  PROVE  IInv'
<1> DEFINE s == [lg EXCEPT !.frame = lg.uname]
<1>1. /\ lg.alive = 1 /\ lg.sw \in {"expired", "post"} /\ lg.ch < MaxExchanges /\ Took(r)
      /\ \E o \in UamChangepw(s, uam, lg.uname, r) :
           lg' = IF o.rc = "OK" THEN set_auth_switch(o.s, 0) ELSE o.s
  BY Zenon DEF afp_changepw, Dispatches
<1>2. PICK o \in UamChangepw(s, uam, lg.uname, r) :
        lg' = IF o.rc = "OK" THEN set_auth_switch(o.s, 0) ELSE o.s
  BY Zenon, <1>1
<1>3. /\ DOMAIN lg = Fields /\ Account(lg, lgSeen) /\ Stored(lg, lgSeen) /\ Counted(lg)
      /\ Typed(lg) /\ Known(lg, lgSeen) /\ Named(lg) /\ Held(lg) /\ lgSeen \subseteq Users
  BY Zenon, <1>1 DEF IInv, Good, Alive
<1>4. /\ DOMAIN s = Fields /\ \A f \in Fields \ {"frame"} : s[f] = lg[f]
      /\ s.frame = lg.uname
  BY Zenon, <1>3 DEF Fields
<1> HIDE DEF s
<1>5. /\ s.conf = lg.conf /\ s.alive = lg.alive /\ s.sw = lg.sw /\ s.uid = lg.uid /\ s.euid = lg.euid
      /\ s.groups = lg.groups /\ s.db = lg.db /\ s.judged = lg.judged /\ s.ch = lg.ch
      /\ s.uam = lg.uam /\ s.reg = lg.reg /\ s.uname = lg.uname
      /\ s.rnd = lg.rnd /\ s.dhxp = lg.dhxp /\ s.dhx2p = lg.dhx2p
      /\ \A m \in Keepers : s[m] = lg[m]
  BY ZenonT(60), <1>4 DEF Fields, Keepers
<1>6. Typed(s) /\ Held(s) /\ Counted(s)
  BY Zenon, <1>3, <1>4, <1>5, StaticsKept
<1>7. lgSeen' \subseteq Users /\ lgSeen \subseteq lgSeen' /\ Carried(s, r, lgSeen, lgSeen')
  BY Zenon, <1>1, <1>3, <1>5, Taken
<1>8. Known(s, lgSeen) /\ Named(s)
  <2>1. Known(s, lgSeen)
    BY Zenon, <1>3, <1>5, KnownKept
  <2>2. Named(s)
    BY Zenon, <1>3, <1>4, <1>5 DEF Named, Module, auth_uamfind, PamName
  <2> QED
    BY Zenon, <2>1, <2>2
<1>9. Account(s, lgSeen')
  <2>1. s.alive \in {0, 1}
    BY Zenon, <1>3, <1>5 DEF Account
  <2> QED
    BY ZenonT(60), <1>3, <1>5, <1>7, <2>1, AccountKept
<1>10. PICK m \in Keepers : Changed(s, o, lgSeen', m)
  <2>1. s.ch < MaxExchanges /\ s.frame = s.uname
    BY ZenonT(60), <1>1, <1>4, <1>5
  <2> QED
    BY ZenonT(60), <1>2, <1>6, <1>7, <1>8, <2>1, ChangeAnswer
<1> DEFINE p == o.s
<1>11. Moved(s, p, m) /\ Known(p, lgSeen') /\ Named(p)
  BY Zenon, <1>10 DEF Changed
<1> HIDE DEF p
<1>12. /\ Typed(p) /\ DOMAIN p = Fields /\ Account(p, lgSeen') /\ p.uid # None
  <2>1. s.uid # None /\ s.alive \in {0, 1}
    BY ZenonT(60), <1>1, <1>3, <1>5 DEF Account
  <2>2. /\ Typed(p) /\ DOMAIN p = Fields
        /\ p.conf = s.conf /\ p.alive = s.alive /\ p.sw = s.sw /\ p.uid = s.uid /\ p.euid = s.euid
        /\ p.groups = s.groups
    BY Zenon, <1>6, <1>11, Framed
  <2> QED
    BY ZenonT(60), <1>9, <2>1, <2>2, AccountKept
<1>13. Counted(p) /\ Held(p)
  BY ZenonT(60), <1>6, <1>11, TurnHeld DEF Moved
<1>14. Stored(p, lgSeen')
  BY Zenon, <1>11 DEF Stored, Moved, Known
<1>15. CASE lg' = p
  <2>1. Good(p, lgSeen')
    BY ZenonT(60), <1>11, <1>12, <1>13, <1>14, Living DEF Alive
  <2> QED
    BY Zenon, <1>7, <1>15, <2>1 DEF IInv
<1>16. CASE lg' = set_auth_switch(p, 0)
  <2> DEFINE a == set_auth_switch(p, 0)
  <2>1. /\ DOMAIN a = Fields /\ \A f \in Fields \ {"sw"} : a[f] = p[f] /\ a.sw = "post"
    BY Zenon, <1>12 DEF set_auth_switch, Fields
  <2>2. lg' = a
    BY Zenon, <1>16
  <2> HIDE DEF a
  <2>3. /\ \A f \in Fields \ Identity : a[f] = p[f]
        /\ a.conf = p.conf /\ a.alive = p.alive /\ a.uid = p.uid /\ a.euid = p.euid /\ a.groups = p.groups
        /\ a.sw = "post"
    BY <2>1, SMTT(60) DEF Fields, Identity
  <2>4. Alive(a, lgSeen') /\ Counted(a) /\ Stored(a, lgSeen')
    BY ZenonT(60), <1>11, <1>12, <1>13, <1>14, <2>1, <2>3, Alike
  <2>5. Account(a, lgSeen')
    BY Zenon, <1>12, <2>3 DEF Account
  <2>6. Good(a, lgSeen')
    BY Zenon, <2>4, <2>5, Living
  <2> QED
    BY Zenon, <1>7, <2>2, <2>6 DEF IInv
<1> QED
  BY Zenon, <1>2, <1>15, <1>16 DEF p

(* A refused login, a logout and a lost connection end the process
   (afp_login, afp_logout, afp_dsi_close). *)
LEMMA EndStep ==
  ASSUME LoginAssumption, IInv, afp_login_refused \/ afp_logout
  PROVE  IInv'
<1>1. lg' = afp_dsi_close(lg) /\ lgSeen' = lgSeen
  BY Zenon DEF afp_login_refused, afp_logout, send_reply, Out
<1>2. Good(lg', lgSeen)
  BY Zenon, <1>1, Closed DEF IInv, Good
<1> QED
  BY Zenon, <1>1, <1>2 DEF IInv

(* Every command keeps the invariant. *)
LEMMA LoginStepInv ==
  ASSUME LoginAssumption, IInv, [LoginNext]_lgVars
  PROVE  IInv'
<1>1. CASE \E uam \in DOMAIN lg.reg \cap LoginMethods, n \in Names :
             \E r \in FirstMessages(uam) : afp_login(uam, n, r) \/ afp_login_ext(uam, n, r)
  <2>1. PICK uam \in DOMAIN lg.reg \cap LoginMethods, n \in Names :
          \E r \in FirstMessages(uam) : afp_login(uam, n, r) \/ afp_login_ext(uam, n, r)
    BY Zenon, <1>1
  <2>2. PICK r \in FirstMessages(uam) : afp_login(uam, n, r) \/ afp_login_ext(uam, n, r)
    BY Zenon, <2>1
  <2>3. r \in Replies /\ afp_login(uam, n, r)
    BY Zenon, <2>2 DEF afp_login_ext, FirstMessages
  <2> QED
    BY Zenon, <2>3, LoginStep
<1>2. CASE afp_login_refused \/ afp_logout
  BY Zenon, <1>2, EndStep
<1>3. CASE \E r \in Replies : afp_logincont(r)
  BY Zenon, <1>3, LogincontStep
<1>4. CASE \E uam \in DOMAIN lg.reg \ LoginMethods, r \in Replies : afp_changepw(uam, r)
  <2>1. PICK uam \in DOMAIN lg.reg \ LoginMethods, r \in Replies : afp_changepw(uam, r)
    BY Zenon, <1>4
  <2> QED
    BY Zenon, <2>1, ChangepwStep
<1>5. CASE UNCHANGED lgVars
  BY Zenon, <1>5 DEF lgVars, IInv
<1> QED
  BY ZenonT(60), <1>1, <1>2, <1>3, <1>4, <1>5 DEF LoginNext

(* The invariant implies what the runs check. *)
LEMMA SoundFromInv ==
  ASSUME LoginAssumption, IInv
  PROVE  LoginTypeOK /\ LoginProven /\ ChallengeOnce
<1>1. LoginTypeOK /\ LoginProven
  BY Zenon DEF IInv, Good, Account, Stored, Counted, LoginTypeOK, LoginProven
<1>2. ChallengeOnce
  <2>1. lg.judged \in [1..MaxExchanges -> {0, 1}]
    BY Zenon DEF IInv, Good, Counted
  <2>2. \A c \in 1..MaxExchanges : lg.judged[c] = 0 \/ lg.judged[c] = 1
    BY Zenon, <2>1
  <2> QED
    BY <2>2, SMTT(60) DEF ChallengeOnce
<1> QED
  BY Zenon, <1>1, <1>2

(* For any users, any names, any module lists and any number of exchanges: a session
   runs as a user, or has changed a user's password, only after a message carried that
   user's password, and every challenge is compared with one reply at most (login,
   *_logincont, *_changepw). *)
THEOREM LoginsProven ==
  ASSUME LoginAssumption
  PROVE  LoginSpec => [](LoginProven /\ ChallengeOnce)
<1>1. LoginInit => IInv
  BY Zenon, LoginInitInv
<1>2. IInv /\ [LoginNext]_lgVars => IInv'
  BY Zenon, LoginStepInv
<1>3. IInv => LoginProven /\ ChallengeOnce
  BY Zenon, SoundFromInv
<1> QED
  BY <1>1, <1>2, <1>3, PTL DEF LoginSpec
============================================================================
