---------------------------- MODULE LoginAnswers ----------------------------
(***************************************************************************)
(* What one login module's answer promises, for each function of each      *)
(* module (uams/ and the calls in etc/afpd/auth.c): whom it lets in, what  *)
(* it does to the challenge it keeps, and that the other modules' statics  *)
(* stay as they are.                                                       *)
(***************************************************************************)
EXTENDS Login, TLAPS

(* The state of a session process, by field. *)
Fields == {"conf", "alive", "sw", "uam", "uid", "euid", "groups", "logout", "key", "reg", "uname",
           "frame", "db", "judged", "ch", "pam", "rnd", "dhx", "dhxp", "dhx2", "dhx2p", "srp"}

(* The modules that keep a challenge from one message to the next, what their
   static state looks like, and the challenge in it. *)
Keepers == {"rnd", "dhx", "dhxp", "dhx2", "dhx2p", "srp"}
Static(m) ==
  CASE m = "rnd" -> {"pwd", "key", "buf"}
    [] m = "dhx" -> {"K", "pwd", "buf"}
    [] m = "dhxp" -> {"K", "pwd", "buf"}
    [] m = "dhx2" -> {"st", "K", "nonce", "pwd"}
    [] m = "dhx2p" -> {"st", "K", "nonce", "pwd", "pname", "call"}
    [] OTHER -> {"v", "pwd"}
Sound(m, x) ==
  /\ DOMAIN x = Static(m)
  /\ x.pwd \in Users \cup {None}
  /\ m \in {"dhx2", "dhx2p"} => x.st \in {"IDLE", "CONT1", "CONT2"}
  /\ m = "dhx2p" => x.call \in {1, 2, 3}
Challenge(m, x) ==
  IF m \in {"rnd", "dhx", "dhxp"} THEN x.buf ELSE IF m = "srp" THEN x.v ELSE x.nonce

(* A process with all its modules' statics. *)
Typed(s) ==
  /\ DOMAIN s = Fields
  /\ s.db \in [Users -> {0, 1}]
  /\ \A m \in Keepers : Sound(m, s[m])

(* What a call of one module leaves alone. *)
Frame(s, t, m) ==
  /\ DOMAIN t = Fields
  /\ \A f \in Fields \ {m, "uname", "pam", "db", "judged", "ch"} : t[f] = s[f]

(* It may issue a challenge, drop its own or compare it with a reply, which uses
   it up. *)
Turn(s, t, m) ==
  \/ /\ t.judged = s.judged /\ t.ch = s.ch
     /\ Challenge(m, t[m]) = 0 \/ Challenge(m, t[m]) = Challenge(m, s[m])
  \/ /\ t.judged = s.judged /\ t.ch = s.ch + 1 /\ s.ch < MaxExchanges
     /\ \/ Challenge(m, t[m]) = 0 \/ Challenge(m, t[m]) = Challenge(m, s[m])
        \/ Challenge(m, t[m]) = t.ch
  \/ /\ t.judged = [x \in 1..MaxExchanges |-> s.judged[x] + IF x = Challenge(m, s[m]) THEN 1 ELSE 0]
     /\ t.ch = s.ch /\ Challenge(m, t[m]) = 0

(* The password in seskey is the looked-up user's, or has been changed since; a
   password has been changed only by who knew it. *)
Known(s, seen) ==
  /\ \A u, g : s.rnd.key = <<u, g>> => u = s.rnd.pwd /\ u \in Users /\ (g = s.db[u] \/ u \in seen)
  /\ \A u \in Users : s.db[u] # 0 => u \in seen

(* The user PAM is asked about is the one *uam_pwd will name. *)
Module(s) == auth_uamfind(s, s.uam)
Named(s) ==
  /\ Module(s) = "dhxp" => s.dhxp.pwd = s.uname
  /\ Module(s) = "dhx2p" => s.dhx2p.pwd = s.uname /\ PamName(s) = s.uname

(* The users whose password the messages have carried, before and after r. *)
Carried(s, r, seen, now) == seen \subseteq now /\ (Right(s, r, r.user) => r.user \in now)

(* An answer lets in the guest or who has shown a password, and the answers after
   which the process goes on. *)
Proven(o, now) ==
  o.rc \in {"OK", "PWDEXPR"} /\ o.pwd # None => o.pwd \in Users /\ (o.pwd = Guest \/ o.pwd \in now)
Stays(o) == o.rc \in {"OK", "AUTHCONT"} \/ (o.rc = "PWDEXPR" /\ o.pwd # None)

(* What a message does to a module, and what the answer to a login promises. *)
Moved(s, t, m) ==
  Frame(s, t, m) /\ Turn(s, t, m) /\ Sound(m, t[m]) /\ t.db \in [Users -> {0, 1}]
Answer(s, o, now, m) ==
  /\ Moved(s, o.s, m) /\ Proven(o, now) /\ o.s.db = s.db
  /\ Stays(o) => Known(o.s, now) /\ Named(o.s)

(* The answer to FPChangePassword leaves the session alive whatever it is. *)
Changed(s, o, now, m) == Moved(s, o.s, m) /\ Known(o.s, now) /\ Named(o.s)

(* uam_getname looks the name up and writes the database's own name back into the
   session's buffer; it touches nothing else. *)
LEMMA UamName ==
  ASSUME LoginAssumption, NEW s, Typed(s), NEW n \in Names
  PROVE  /\ uam_getname(s, n).pwd = Alias[n] /\ Alias[n] \in Users \cup {None}
         /\ DOMAIN uam_getname(s, n).s = Fields
         /\ \A f \in Fields \ {"uname"} : uam_getname(s, n).s[f] = s[f]
         /\ Alias[n] # None => uam_getname(s, n).s.uname = Alias[n]
BY Zenon DEF LoginAssumption, Typed, uam_getname, Out, Fields

(* A refusal (every early return of a module) changes nothing and lets nobody in. *)
LEMMA Refused ==
  ASSUME NEW s, Typed(s), NEW now, NEW m \in Keepers, NEW o \in Refuse(s)
  PROVE  Answer(s, o, now, m)
BY DEF Typed, Refuse, Out, Answer, Moved, Frame, Turn, Proven, Stays, Keepers, Fields

(* What is known of seskey and of the passwords stays so when neither they nor
   randnum's statics change: the users who have proven themselves only grow. *)
LEMMA KnownKept ==
  ASSUME NEW s, NEW t, NEW seen, NEW now, seen \subseteq now, Known(s, seen), t.db = s.db, t.rnd = s.rnd
  PROVE  Known(t, now)
BY Zenon DEF Known

(* A module call that leaves its challenge and the passwords alone is a sound
   answer if it lets in only who is proven (uams_guest, uams_passwd, uams_gss). *)
LEMMA Unchallenged ==
  ASSUME NEW s, Typed(s), NEW o, NEW now, NEW m \in Keepers, Frame(s, o.s, m),
         o.s[m] = s[m], o.s.db = s.db, o.s.judged = s.judged, o.s.ch = s.ch,
         Proven(o, now), Stays(o) => Known(o.s, now) /\ Named(o.s)
  PROVE  Answer(s, o, now, m)
BY Zenon DEF Answer, Moved, Typed, Turn

(* The name PAM is asked about and the looked-up user still agree when a call
   changes none of uname, dhxpwd, PAM_username (uams_dhx_pam.c, uams_dhx2_pam.c). *)
LEMMA NamedKept ==
  ASSUME NEW s, NEW t, Named(s), t.uam = s.uam, t.reg = s.reg, t.uname = s.uname,
         t.frame = s.frame, t.dhxp.pwd = s.dhxp.pwd, t.dhx2p.pwd = s.dhx2p.pwd,
         t.dhx2p.pname = s.dhx2p.pname
  PROVE  Named(t)
BY Zenon DEF Named, Module, auth_uamfind, PamName

(* Comparing a reply with a challenge is counted, and changes nothing else. *)
LEMMA Judged ==
  ASSUME NEW s, DOMAIN s = Fields, NEW c
  PROVE  /\ DOMAIN Judge(s, c) = Fields /\ \A f \in Fields \ {"judged"} : Judge(s, c)[f] = s[f]
         /\ Judge(s, c).judged = [x \in 1..MaxExchanges |-> s.judged[x] + IF x = c THEN 1 ELSE 0]
BY Zenon DEF Judge, Fields

(* A new challenge has a new number. *)
LEMMA Issued ==
  ASSUME NEW s, DOMAIN s = Fields
  PROVE  /\ DOMAIN Issue(s) = Fields /\ \A f \in Fields \ {"ch"} : Issue(s)[f] = s[f]
         /\ Issue(s).ch = s.ch + 1
BY Zenon DEF Issue, Fields

(* What a call does to the challenge can be told from the state after its name
   lookup, which does not touch it. *)
LEMMA TurnFrom ==
  ASSUME NEW s, NEW t, NEW v, NEW m, t.judged = s.judged, t.ch = s.ch,
         Challenge(m, t[m]) = Challenge(m, s[m]), Turn(t, v, m)
  PROVE  Turn(s, v, m)
BY ZenonT(60) DEF Turn

(* A password changed by who knew it keeps the account of the changed passwords
   (pam_chauthtok, randpass with a new key). *)
LEMMA NewPassword ==
  ASSUME NEW s, DOMAIN s = Fields, s.db \in [Users -> {0, 1}], NEW u \in Users, NEW seen, NEW now,
         seen \subseteq now, u \in now, Known(s, seen), NEW t, t = [s EXCEPT !.db[u] = 1 - @]
  PROVE  /\ DOMAIN t = Fields /\ \A f \in Fields \ {"db"} : t[f] = s[f]
         /\ t.db \in [Users -> {0, 1}] /\ Known(t, now)
<1>1. /\ DOMAIN t = Fields /\ \A f \in Fields \ {"db"} : t[f] = s[f]
      /\ t.db = [s.db EXCEPT ![u] = 1 - s.db[u]]
  BY Zenon DEF Fields
<1>2. t.db \in [Users -> {0, 1}] /\ \A v \in Users \ {u} : t.db[v] = s.db[v]
  BY <1>1
<1>3. t.rnd = s.rnd
  BY Zenon, <1>1 DEF Fields
<1> QED
  BY <1>1, <1>2, <1>3 DEF Known

(* noauth_login lets in the guest and nobody else. *)
LEMMA Guests ==
  ASSUME LoginAssumption, NEW s, Typed(s), NEW seen, NEW now, seen \subseteq now, Known(s, seen), Module(s) = "guest",
         NEW o \in noauth_login(s)
  PROVE  Answer(s, o, now, "srp")
<1>1. Frame(s, o.s, "srp") /\ o.s.srp = s.srp /\ o.s.db = s.db /\ o.s.judged = s.judged /\ o.s.ch = s.ch
  BY DEF noauth_login, Out, Typed, Frame, Fields
<1>2. Proven(o, now)
  BY DEF noauth_login, Out, Proven, LoginAssumption
<1>3. Known(o.s, now)
  BY ZenonT(60), <1>1, KnownKept DEF Frame, Fields
<1>4. Named(o.s)
  BY Zenon, <1>1 DEF Frame, Fields, Named, Module, auth_uamfind
<1> QED
  BY Zenon, <1>1, <1>2, <1>3, <1>4, Unchallenged DEF Keepers

(* passwd_login lets a user in on that user's password. *)
LEMMA Passwd ==
  ASSUME LoginAssumption, NEW s, Typed(s), NEW seen, NEW now, NEW n \in Names, NEW r \in Replies,
         Carried(s, r, seen, now), Known(s, seen), Module(s) = "passwd", NEW o \in passwd_login(s, n, r)
  PROVE  Answer(s, o, now, "srp")
<1> DEFINE g == uam_getname(s, n)
<1>1. o.s = s \/ o.s = g.s
  BY SMTT(30) DEF passwd_login, pwd_login, Refuse, Out
<1>2. Frame(s, o.s, "srp") /\ o.s.srp = s.srp /\ o.s.db = s.db /\ o.s.judged = s.judged /\ o.s.ch = s.ch
  BY SMTT(30), <1>1, UamName DEF Typed, Frame, Fields
<1>3. Proven(o, now)
  BY UamName DEF passwd_login, pwd_login, uam_checkuser, Refuse, Out, Proven, Carried, Right
<1>4. Known(o.s, now)
  BY ZenonT(60), <1>2, KnownKept DEF Frame, Fields, Carried
<1>5. Named(o.s)
  BY Zenon, <1>2 DEF Frame, Fields, Named, Module, auth_uamfind
<1> QED
  BY Zenon, <1>2, <1>3, <1>4, <1>5, Unchallenged DEF Keepers

(* pam_login lets a user in on the password of the user PAM was asked about. *)
LEMMA PamClear ==
  ASSUME LoginAssumption, NEW s, Typed(s), NEW seen, NEW now, NEW n \in Names, NEW r \in Replies,
         Carried(s, r, seen, now), Known(s, seen), Module(s) = "pam", NEW o \in pam_login(s, n, r)
  PROVE  Answer(s, o, now, "srp")
<1> DEFINE g == uam_getname(s, n)
<1>0. /\ DOMAIN g.s = Fields /\ \A f \in Fields \ {"uname"} : g.s[f] = s[f]
      /\ g.pwd \in Users \cup {None}
  BY ZenonT(60), UamName
<1>3. o \in Refuse(g.s) \/ (o \in PamLogin(g.s, "pam", g.pwd, r, 1) /\ g.pwd # None)
  BY Zenon DEF pam_login
<1> HIDE DEF g
<1>1. CASE o \in Refuse(g.s)
  <2>1. Frame(s, o.s, "srp") /\ o.s.srp = s.srp /\ o.s.db = s.db /\ o.s.judged = s.judged /\ o.s.ch = s.ch
    BY SMTT(30), <1>0, <1>1 DEF Frame, Fields, Refuse, Out
  <2>2. Proven(o, now) /\ ~Stays(o)
    BY <1>1 DEF Refuse, Out, Proven, Stays
  <2> QED
    BY Zenon, <2>1, <2>2, Unchallenged DEF Keepers
<1>2. CASE o \in PamLogin(g.s, "pam", g.pwd, r, 1) /\ g.pwd # None
  <2>1. /\ o.s = g.s \/ o.s = [g.s EXCEPT !.pam = @ \cup {"pam"}]
        /\ o.pwd = None \/ (o.pwd = g.pwd /\ Right(g.s, r, g.pwd))
    BY SMTT(30), <1>2 DEF PamLogin, Out
  <2>2. Frame(s, o.s, "srp") /\ o.s.srp = s.srp /\ o.s.db = s.db /\ o.s.judged = s.judged /\ o.s.ch = s.ch
    BY ZenonT(60), <1>0, <2>1 DEF Frame, Fields
  <2>3. Proven(o, now)
    BY ZenonT(60), <1>0, <1>2, <2>1 DEF Proven, Carried, Right, Fields
  <2>4. Known(o.s, now)
    BY <2>2, KnownKept DEF Frame, Fields, Carried
  <2>5. Named(o.s)
    BY Zenon, <2>2 DEF Frame, Fields, Named, Module, auth_uamfind
  <2> QED
    BY Zenon, <2>2, <2>3, <2>4, <2>5, Unchallenged DEF Keepers
<1> QED
  BY Zenon, <1>1, <1>2, <1>3

(* gss_login only asks for a ticket. *)
LEMMA GssFirst ==
  ASSUME NEW s, Typed(s), NEW now, Known(s, now), Module(s) = "gss", NEW o \in gss_login(s)
  PROVE  Answer(s, o, now, "srp")
<1>1. o.s = s /\ Proven(o, now)
  BY DEF gss_login, Out, Proven
<1> QED
  BY Zenon, <1>1, Unchallenged DEF Keepers, Frame, Typed, Named

(* gss_logincont lets in the user the ticket names. *)
LEMMA GssSecond ==
  ASSUME LoginAssumption, NEW s, Typed(s), NEW seen, NEW now, NEW r \in Replies,
         Carried(s, r, seen, now), Known(s, seen), Module(s) = "gss", NEW o \in gss_logincont(s, r)
  PROVE  Answer(s, o, now, "srp")
<1> DEFINE g == uam_getname(s, r.user)
<1>0. r.user \in Users /\ r.user \in Names /\ Alias[r.user] = r.user
  BY Zenon DEF Replies, LoginAssumption
<1>1. /\ DOMAIN g.s = Fields /\ \A f \in Fields \ {"uname"} : g.s[f] = s[f]
      /\ g.pwd = r.user
  BY ZenonT(60), <1>0, UamName
<1>2. \/ o \in Refuse(s)
      \/ o = Out(g.s, "ERR", None)
      \/ Right(s, r, r.user) /\ o = Out(g.s, "OK", g.pwd)
  BY Zenon DEF gss_logincont, do_gss_auth, Refuse
<1> HIDE DEF g
<1>3. CASE o \in Refuse(s)
  BY Zenon, <1>3, Refused DEF Keepers
<1>4. CASE o = Out(g.s, "ERR", None) \/ (Right(s, r, r.user) /\ o = Out(g.s, "OK", g.pwd))
  <2>1. o.s = g.s
    BY <1>4 DEF Out
  <2>2. Frame(s, o.s, "srp") /\ o.s.srp = s.srp /\ o.s.db = s.db /\ o.s.judged = s.judged /\ o.s.ch = s.ch
    BY Zenon, <1>1, <2>1 DEF Frame, Fields
  <2>3. Proven(o, now)
    BY <1>0, <1>1, <1>4 DEF Out, Proven, Carried
  <2>4. Known(o.s, now)
    BY ZenonT(60), <2>2, KnownKept DEF Frame, Fields, Carried
  <2>5. Named(o.s)
    BY Zenon, <2>2 DEF Frame, Fields, Named, Module, auth_uamfind
  <2> QED
    BY Zenon, <2>2, <2>3, <2>4, <2>5, Unchallenged DEF Keepers
<1> QED
  BY Zenon, <1>2, <1>3, <1>4

(* rand_login keeps the looked-up user and that user's key beside its challenge
   (randpwd, seskey, randbuf). *)
LEMMA RandFirst ==
  ASSUME LoginAssumption, NEW s, Typed(s), s.ch < MaxExchanges, NEW seen, NEW now, NEW n \in Names,
         NEW r \in Replies, Carried(s, r, seen, now), Known(s, seen), Module(s) = "randnum",
         NEW o \in randnum_login(s, n, r)
  PROVE  Answer(s, o, now, "rnd")
<1> DEFINE g == uam_getname(s, n)
           u == g.pwd
           t == [g.s EXCEPT !.rnd.pwd = u]
           k == [t EXCEPT !.rnd.key = <<u, s.db[u]>>]
           i == Issue(k)
           b == [i EXCEPT !.rnd.buf = i.ch]
<1>1. \/ o \in Refuse(s) \/ o = Out(t, "ERR", None)
      \/ u # None /\ (o = Out(i, "ERR", None) \/ o = Out(b, "AUTHCONT", None))
  BY Zenon DEF randnum_login, rand_login, Refuse, MayFail, uam_checkuser
<1>2. /\ DOMAIN g.s = Fields /\ \A f \in Fields \ {"uname"} : g.s[f] = s[f]
      /\ u \in Users \cup {None}
  BY Zenon, UamName
<1> HIDE DEF g, u
<1>3. DOMAIN s.rnd = {"pwd", "key", "buf"}
  BY Zenon DEF Typed, Sound, Static, Keepers
<1>4. /\ Frame(s, t, "rnd") /\ t.db = s.db /\ t.ch = s.ch /\ t.judged = s.judged
      /\ DOMAIN t.rnd = {"pwd", "key", "buf"} /\ t.rnd.pwd = u /\ t.rnd.buf = s.rnd.buf
  BY Zenon, <1>2, <1>3 DEF Frame, Fields
<1> HIDE DEF t
<1>5. /\ Frame(s, k, "rnd") /\ k.db = s.db /\ k.ch = s.ch /\ k.judged = s.judged
      /\ DOMAIN k.rnd = {"pwd", "key", "buf"} /\ k.rnd.pwd = u /\ k.rnd.buf = s.rnd.buf
      /\ k.rnd.key = <<u, s.db[u]>>
  BY Zenon, <1>4 DEF Frame, Fields
<1> HIDE DEF k
<1>6. /\ Frame(s, i, "rnd") /\ i.db = s.db /\ i.ch = s.ch + 1 /\ i.judged = s.judged
      /\ DOMAIN i.rnd = {"pwd", "key", "buf"} /\ i.rnd.pwd = u /\ i.rnd.buf = s.rnd.buf
      /\ i.rnd.key = <<u, s.db[u]>>
  BY Zenon, <1>5 DEF Frame, Fields, Issue
<1> HIDE DEF i
<1>7. /\ Frame(s, b, "rnd") /\ b.db = s.db /\ b.ch = s.ch + 1 /\ b.judged = s.judged
      /\ DOMAIN b.rnd = {"pwd", "key", "buf"} /\ b.rnd.pwd = u /\ b.rnd.buf = b.ch
      /\ b.rnd.key = <<u, s.db[u]>>
  BY ZenonT(60), <1>6 DEF Frame, Fields
<1> HIDE DEF b
<1>8. CASE o \in Refuse(s)
  BY Zenon, <1>8, Refused DEF Keepers
<1>9. CASE o = Out(t, "ERR", None) \/ o = Out(i, "ERR", None)
  <2>1. (o.s = t \/ o.s = i) /\ o.rc = "ERR"
    BY <1>9 DEF Out
  <2> QED
    BY SMTT(30), <1>2, <1>4, <1>6, <2>1 DEF Typed, Answer, Moved, Turn, Challenge, Sound, Static, Proven,
       Stays
<1>10. CASE u # None /\ o = Out(b, "AUTHCONT", None)
  <2>1. o.s = b /\ o.rc = "AUTHCONT"
    BY Zenon, <1>10 DEF Out
  <2>2. Known(b, now)
    BY SMTT(30), <1>2, <1>7, <1>10 DEF Known, Carried
  <2>3. Named(b)
    BY Zenon, <1>7 DEF Frame, Fields, Named, Module, auth_uamfind
  <2> QED
    BY Zenon, <1>2, <1>7, <2>1, <2>2, <2>3 DEF Typed, Answer, Moved, Turn, Challenge, Sound, Static,
       Proven, Stays
<1> QED
  BY Zenon, <1>1, <1>8, <1>9, <1>10

(* randnum_logincont lets in randpwd on a reply made with the key of randpwd, and
   uses the challenge up. *)
LEMMA RandSecond ==
  ASSUME LoginAssumption, NEW s, Typed(s), NEW seen, NEW now, NEW r \in Replies,
         Carried(s, r, seen, now), Known(s, seen), Named(s), NEW o \in randnum_logincont(s, r)
  PROVE  Answer(s, o, now, "rnd")
<1> DEFINE j == Judge(s, s.rnd.buf)
           t == [j EXCEPT !.rnd.buf = 0]
<1>1. \/ o \in Refuse(s) \/ o = Out(t, "ERR", None)
      \/ <<r.user, r.gen>> = s.rnd.key /\ o = Out(t, "OK", s.rnd.pwd)
  BY Zenon DEF randnum_logincont, Refuse
<1>2. DOMAIN s.rnd = {"pwd", "key", "buf"} /\ DOMAIN s = Fields /\ s.rnd.pwd \in Users \cup {None}
  BY Zenon DEF Typed, Sound, Static, Keepers
<1>3. /\ DOMAIN j = Fields /\ \A f \in Fields \ {"judged"} : j[f] = s[f]
      /\ j.judged = [x \in 1..MaxExchanges |-> s.judged[x] + IF x = s.rnd.buf THEN 1 ELSE 0]
  BY Zenon, <1>2 DEF Judge, Fields
<1> HIDE DEF j
<1>4. /\ Frame(s, t, "rnd") /\ t.db = s.db /\ t.ch = s.ch /\ t.judged = j.judged /\ t.uname = s.uname
      /\ DOMAIN t.rnd = {"pwd", "key", "buf"} /\ t.rnd.pwd = s.rnd.pwd /\ t.rnd.buf = 0
      /\ t.rnd.key = s.rnd.key
  BY Zenon, <1>2, <1>3 DEF Frame, Fields
<1> HIDE DEF t
<1>5. CASE o \in Refuse(s)
  BY Zenon, <1>5, Refused DEF Keepers
<1>6. CASE o = Out(t, "ERR", None) \/ (<<r.user, r.gen>> = s.rnd.key /\ o = Out(t, "OK", s.rnd.pwd))
  <2>1. o.s = t
    BY SMTT(30), <1>6 DEF Out
  <2>2. Proven(o, now)
    BY SMTT(30), <1>2, <1>6 DEF Out, Proven, Known, Carried, Right
  <2>3. Known(t, now)
    BY SMTT(30), <1>4 DEF Known, Carried
  <2>4. Named(t)
    BY SMTT(30), <1>4 DEF Frame, Fields, Named, Module, auth_uamfind, PamName
  <2>5. Moved(s, t, "rnd")
    BY <1>2, <1>3, <1>4 DEF Typed, Moved, Turn, Challenge, Sound, Static
  <2> QED
    BY ZenonT(60), <1>4, <2>1, <2>2, <2>3, <2>4, <2>5 DEF Answer
<1> QED
  BY Zenon, <1>1, <1>5, <1>6

(* pwd_login of uams_dhx_passwd.c makes a key and a nonce for the looked-up user. *)
LEMMA DhxFirst ==
  ASSUME LoginAssumption, NEW s, Typed(s), s.ch < MaxExchanges, NEW seen, NEW now, NEW n \in Names,
         NEW r \in Replies, Carried(s, r, seen, now), Known(s, seen), Module(s) = "dhx",
         NEW o \in dhx_passwd_login(s, n, r)
  PROVE  Answer(s, o, now, "dhx")
<1> DEFINE z == [s EXCEPT !.dhx.K = 0]
           k == [s EXCEPT !.dhx.K = s.ch + 1]
           g == uam_getname(k, n)
           u == g.pwd
           t == [g.s EXCEPT !.dhx.pwd = u]
           i == Issue(t)
           f == [i EXCEPT !.dhx.K = 0]
           b == [i EXCEPT !.dhx.buf = i.ch]
<1>1. \/ o \in Refuse(s) \/ o = Out(z, "ERR", None) \/ o = Out(t, "ERR", None)
      \/ o = Out(f, "ERR", None) \/ o = Out(b, "AUTHCONT", None)
  BY Zenon DEF dhx_passwd_login, dhx_pwd_login, Refuse
<1>2. DOMAIN s.dhx = {"K", "pwd", "buf"} /\ DOMAIN s = Fields /\ s.dhx.pwd \in Users \cup {None}
  BY Zenon DEF Typed, Sound, Static, Keepers
<1>3. /\ Frame(s, z, "dhx") /\ z.db = s.db /\ z.ch = s.ch /\ z.judged = s.judged
      /\ DOMAIN z.dhx = {"K", "pwd", "buf"} /\ z.dhx.pwd = s.dhx.pwd /\ z.dhx.buf = s.dhx.buf
  BY Zenon, <1>2 DEF Frame, Fields
<1>4. /\ Frame(s, k, "dhx") /\ k.db = s.db /\ k.ch = s.ch /\ k.judged = s.judged
      /\ DOMAIN k.dhx = {"K", "pwd", "buf"} /\ k.dhx.pwd = s.dhx.pwd /\ k.dhx.buf = s.dhx.buf
  BY Zenon, <1>2 DEF Frame, Fields
<1>5. Typed(k)
  BY <1>2, <1>4 DEF Typed, Frame, Fields, Keepers, Sound, Static
<1> HIDE DEF z, k
<1>6. /\ DOMAIN g.s = Fields /\ \A x \in Fields \ {"uname"} : g.s[x] = k[x]
      /\ u \in Users \cup {None}
  BY Zenon, <1>5, UamName
<1> HIDE DEF g, u
<1>7. /\ Frame(s, t, "dhx") /\ t.db = s.db /\ t.ch = s.ch /\ t.judged = s.judged
      /\ DOMAIN t.dhx = {"K", "pwd", "buf"} /\ t.dhx.pwd = u /\ t.dhx.buf = s.dhx.buf
  BY ZenonT(60), <1>4, <1>6 DEF Frame, Fields
<1> HIDE DEF t
<1>8. /\ Frame(s, i, "dhx") /\ i.db = s.db /\ i.ch = s.ch + 1 /\ i.judged = s.judged
      /\ DOMAIN i.dhx = {"K", "pwd", "buf"} /\ i.dhx.pwd = u /\ i.dhx.buf = s.dhx.buf
  BY SMTT(30), <1>7, Issued DEF Frame, Fields
<1> HIDE DEF i
<1>9. /\ Frame(s, f, "dhx") /\ f.db = s.db /\ f.ch = s.ch + 1 /\ f.judged = s.judged
      /\ DOMAIN f.dhx = {"K", "pwd", "buf"} /\ f.dhx.pwd = u /\ f.dhx.buf = s.dhx.buf
  BY Zenon, <1>8 DEF Frame, Fields
<1>10. /\ Frame(s, b, "dhx") /\ b.db = s.db /\ b.ch = s.ch + 1 /\ b.judged = s.judged
       /\ DOMAIN b.dhx = {"K", "pwd", "buf"} /\ b.dhx.pwd = u /\ b.dhx.buf = b.ch
  BY Zenon, <1>8 DEF Frame, Fields
<1> HIDE DEF f, b
<1>11. CASE o \in Refuse(s)
  BY ZenonT(60), <1>11, Refused DEF Keepers
<1>12. CASE o = Out(z, "ERR", None) \/ o = Out(t, "ERR", None) \/ o = Out(f, "ERR", None)
  <2>1. (o.s = z \/ o.s = t \/ o.s = f) /\ o.rc = "ERR"
    BY <1>12 DEF Out
  <2> QED
    BY SMTT(30), <1>2, <1>3, <1>6, <1>7, <1>9, <2>1
    DEF Typed, Answer, Moved, Turn, Challenge, Sound, Static, Proven, Stays
<1>13. CASE o = Out(b, "AUTHCONT", None)
  <2>1. o.s = b /\ o.rc = "AUTHCONT"
    BY Zenon, <1>13 DEF Out
  <2>2. Known(b, now)
    BY ZenonT(60), <1>10, KnownKept DEF Frame, Fields, Carried
  <2>3. Named(b)
    BY Zenon, <1>10 DEF Frame, Fields, Named, Module, auth_uamfind
  <2> QED
    BY Zenon, <1>2, <1>6, <1>10, <2>1, <2>2, <2>3
    DEF Typed, Answer, Moved, Turn, Challenge, Sound, Static, Proven, Stays
<1> QED
  BY Zenon, <1>1, <1>11, <1>12, <1>13

(* passwd_logincont of uams_dhx_passwd.c compares one reply with a nonce, clears it on
   every path that did, and lets in dhxpwd on that user's password. *)
LEMMA DhxSecond ==
  ASSUME LoginAssumption, NEW s, Typed(s), NEW seen, NEW now, NEW r \in Replies,
         Carried(s, r, seen, now), Known(s, seen), Named(s), NEW o \in dhx_passwd_logincont(s, r)
  PROVE  Answer(s, o, now, "dhx")
<1> DEFINE t == [s EXCEPT !.dhx.K = 0]
           z == [t EXCEPT !.dhx.buf = 0]
           h == Judge(t, s.dhx.buf)
           j == [h EXCEPT !.dhx.buf = 0]
<1>1. \/ o \in Refuse(s) \/ o = Out(t, "ERR", None) \/ o = Out(z, "ERR", None)
      \/ o.s = j /\ ((Right(s, r, s.dhx.pwd) /\ o.pwd = s.dhx.pwd) \/ o.pwd = None)
  BY SMTT(30) DEF dhx_passwd_logincont, Refuse, Out
<1>2. DOMAIN s.dhx = {"K", "pwd", "buf"} /\ DOMAIN s = Fields /\ s.dhx.pwd \in Users \cup {None}
  BY Zenon DEF Typed, Sound, Static, Keepers
<1>3. /\ Frame(s, t, "dhx") /\ t.db = s.db /\ t.ch = s.ch /\ t.judged = s.judged /\ t.uname = s.uname
      /\ DOMAIN t.dhx = {"K", "pwd", "buf"} /\ t.dhx.pwd = s.dhx.pwd /\ t.dhx.buf = s.dhx.buf
  BY Zenon, <1>2 DEF Frame, Fields
<1> HIDE DEF t
<1>4. /\ Frame(s, z, "dhx") /\ z.db = s.db /\ z.ch = s.ch /\ z.judged = s.judged
      /\ DOMAIN z.dhx = {"K", "pwd", "buf"} /\ z.dhx.pwd = s.dhx.pwd /\ z.dhx.buf = 0
  BY ZenonT(60), <1>3 DEF Frame, Fields
<1> HIDE DEF z
<1>5. /\ DOMAIN h = Fields /\ \A f \in Fields \ {"judged"} : h[f] = t[f]
      /\ h.judged = [x \in 1..MaxExchanges |-> s.judged[x] + IF x = s.dhx.buf THEN 1 ELSE 0]
  BY SMTT(30), <1>3, Judged DEF Frame
<1> HIDE DEF h
<1>6. /\ Frame(s, j, "dhx") /\ j.db = s.db /\ j.ch = s.ch /\ j.judged = h.judged /\ j.uname = s.uname
      /\ DOMAIN j.dhx = {"K", "pwd", "buf"} /\ j.dhx.pwd = s.dhx.pwd /\ j.dhx.buf = 0
  BY <1>3, <1>5 DEF Frame, Fields
<1> HIDE DEF j
<1>7. CASE o \in Refuse(s)
  BY ZenonT(60), <1>7, Refused DEF Keepers
<1>8. CASE o = Out(t, "ERR", None) \/ o = Out(z, "ERR", None)
  <2>1. (o.s = z \/ o.s = t) /\ o.rc = "ERR"
    BY SMTT(30), <1>8 DEF Out
  <2> QED
    BY SMTT(30), <1>2, <1>3, <1>4, <2>1
    DEF Typed, Answer, Moved, Turn, Challenge, Sound, Static, Proven, Stays
<1>9. CASE o.s = j /\ ((Right(s, r, s.dhx.pwd) /\ o.pwd = s.dhx.pwd) \/ o.pwd = None)
  <2>1. Proven(o, now)
    BY Zenon, <1>2, <1>9 DEF Proven, Carried, Right
  <2>2. Known(j, now)
    BY SMTT(30), <1>6, KnownKept DEF Frame, Fields, Carried
  <2>3. Named(j)
    BY SMTT(30), <1>6, NamedKept DEF Frame, Fields
  <2>4. Moved(s, j, "dhx")
    BY SMTT(30), <1>2, <1>5, <1>6 DEF Typed, Moved, Turn, Challenge, Sound, Static
  <2> QED
    BY Zenon, <1>6, <1>9, <2>1, <2>2, <2>3, <2>4 DEF Answer
<1> QED
  BY Zenon, <1>1, <1>7, <1>8, <1>9

(* dhx_setup of uams_dhx_pam.c makes a key and a nonce, or fails. *)
LEMMA DhxPamSetup ==
  ASSUME NEW s, Typed(s), s.ch < MaxExchanges, NEW o \in dhx_setup(s)
  PROVE  /\ Moved(s, o.s, "dhxp") /\ o.rc \in {"ERR", "AUTHCONT"}
         /\ o.s.db = s.db /\ o.s.uname = s.uname /\ o.s.dhxp.pwd = s.dhxp.pwd
<1> DEFINE z == [s EXCEPT !.dhxp.K = 0, !.dhxp.buf = 0]
           i == Issue(s)
           b == [i EXCEPT !.dhxp.K = i.ch, !.dhxp.buf = i.ch]
<1>1. (o.s = z \/ o.s = b) /\ o.rc \in {"ERR", "AUTHCONT"}
  BY DEF dhx_setup, Out
<1>2. DOMAIN s.dhxp = {"K", "pwd", "buf"} /\ DOMAIN s = Fields /\ s.dhxp.pwd \in Users \cup {None}
  BY Zenon DEF Typed, Sound, Static, Keepers
<1>3. /\ Frame(s, z, "dhxp") /\ z.db = s.db /\ z.ch = s.ch /\ z.judged = s.judged /\ z.uname = s.uname
      /\ DOMAIN z.dhxp = {"K", "pwd", "buf"} /\ z.dhxp.pwd = s.dhxp.pwd /\ z.dhxp.buf = 0
  BY Zenon, <1>2 DEF Frame, Fields
<1> HIDE DEF z
<1>4. /\ Frame(s, i, "dhxp") /\ i.db = s.db /\ i.ch = s.ch + 1 /\ i.judged = s.judged
      /\ i.uname = s.uname /\ i.dhxp = s.dhxp
  BY <1>2, Issued DEF Frame, Fields
<1> HIDE DEF i
<1>5. /\ Frame(s, b, "dhxp") /\ b.db = s.db /\ b.ch = s.ch + 1 /\ b.judged = s.judged
      /\ b.uname = s.uname
      /\ DOMAIN b.dhxp = {"K", "pwd", "buf"} /\ b.dhxp.pwd = s.dhxp.pwd /\ b.dhxp.buf = b.ch
  BY Zenon, <1>2, <1>4 DEF Frame, Fields
<1> HIDE DEF b
<1> QED
  BY SMTT(30), <1>1, <1>2, <1>3, <1>5 DEF Typed, Moved, Turn, Challenge, Sound, Static

(* login of uams_dhx_pam.c keeps the user it looked up, whose name PAM will be given. *)
LEMMA DhxPamFirst ==
  ASSUME LoginAssumption, NEW s, Typed(s), s.ch < MaxExchanges, NEW seen, NEW now, NEW n \in Names,
         NEW r \in Replies, Carried(s, r, seen, now), Known(s, seen), Module(s) = "dhxp",
         NEW o \in dhx_pam_login(s, n, r)
  PROVE  Answer(s, o, now, "dhxp")
<1> DEFINE g == uam_getname(s, n)
           t == [g.s EXCEPT !.dhxp.pwd = g.pwd]
<1>1. o \in Refuse(s) \/ o = Out(t, "ERR", None) \/ (g.pwd # None /\ o \in dhx_setup(t))
  BY Zenon DEF dhx_pam_login, Refuse
<1>2. /\ DOMAIN g.s = Fields /\ \A x \in Fields \ {"uname"} : g.s[x] = s[x]
      /\ g.pwd \in Users \cup {None} /\ (g.pwd # None => g.s.uname = g.pwd)
  BY ZenonT(60), UamName
<1> HIDE DEF g
<1>3. DOMAIN s.dhxp = {"K", "pwd", "buf"} /\ DOMAIN s = Fields
  BY Zenon DEF Typed, Sound, Static, Keepers
<1>4. /\ Frame(s, t, "dhxp") /\ t.db = s.db /\ t.ch = s.ch /\ t.judged = s.judged
      /\ t.uname = g.s.uname
      /\ DOMAIN t.dhxp = {"K", "pwd", "buf"} /\ t.dhxp.pwd = g.pwd /\ t.dhxp.buf = s.dhxp.buf
  BY Zenon, <1>2, <1>3 DEF Frame, Fields
<1> HIDE DEF t
<1>5. Moved(s, t, "dhxp") /\ Typed(t)
  BY SMTT(30), <1>2, <1>4 DEF Typed, Frame, Fields, Keepers, Sound, Static, Moved, Turn, Challenge
<1>6. CASE o \in Refuse(s)
  BY Zenon, <1>6, Refused DEF Keepers
<1>7. CASE o = Out(t, "ERR", None)
  BY Zenon, <1>4, <1>5, <1>7 DEF Out, Answer, Proven, Stays
<1>8. CASE g.pwd # None /\ o \in dhx_setup(t)
  <2>1. /\ Moved(t, o.s, "dhxp") /\ o.rc \in {"ERR", "AUTHCONT"}
        /\ o.s.db = t.db /\ o.s.uname = t.uname /\ o.s.dhxp.pwd = t.dhxp.pwd
    BY Zenon, <1>4, <1>5, <1>8, DhxPamSetup
  <2>2. Frame(s, o.s, "dhxp")
    BY ZenonT(60), <1>4, <2>1 DEF Moved, Frame
  <2>3. Turn(s, o.s, "dhxp")
    <3>1. Challenge("dhxp", t.dhxp) = Challenge("dhxp", s.dhxp)
      BY Zenon, <1>4 DEF Challenge
    <3> QED
      BY Zenon, <1>4, <2>1, <3>1, TurnFrom DEF Moved
  <2>4. Known(o.s, now)
    BY SMTT(30), <1>4, <2>1, <2>2, KnownKept DEF Frame, Fields, Carried
  <2>5. Named(o.s)
    BY SMTT(30), <1>2, <1>4, <1>8, <2>1, <2>2 DEF Frame, Fields, Named, Module, auth_uamfind
  <2> QED
    BY Zenon, <1>4, <2>1, <2>2, <2>3, <2>4, <2>5 DEF Answer, Moved, Proven
<1> QED
  BY Zenon, <1>1, <1>6, <1>7, <1>8

(* pam_logincont of uams_dhx_pam.c asks PAM about the name in the session, which is
   dhxpwd's: the user it lets in is the one whose password was checked. *)
LEMMA DhxPamSecond ==
  ASSUME LoginAssumption, NEW s, Typed(s), NEW seen, NEW now, NEW r \in Replies,
         Carried(s, r, seen, now), Known(s, seen), Named(s), Module(s) = "dhxp",
         NEW o \in dhx_pam_logincont(s, r)
  PROVE  Answer(s, o, now, "dhxp")
<1> DEFINE t == dhx_cleared(s)
           j == Judge(t, s.dhxp.buf)
           a == [j EXCEPT !.pam = @ \cup {"dhxp"}]
<1>1. \/ o = Out(t, "ERR", None) \/ o = Out(j, "ERR", None)
      \/ /\ o.s = j \/ o.s = a
         /\ o.pwd = None \/ (o.pwd = s.dhxp.pwd /\ Right(j, r, s.uname))
  BY SMTT(30) DEF dhx_pam_logincont, PamLogin, Out, Refuse
<1>2. DOMAIN s.dhxp = {"K", "pwd", "buf"} /\ DOMAIN s = Fields /\ s.dhxp.pwd \in Users \cup {None}
  BY Zenon DEF Typed, Sound, Static, Keepers
<1>3. /\ Frame(s, t, "dhxp") /\ t.db = s.db /\ t.ch = s.ch /\ t.judged = s.judged /\ t.uname = s.uname
      /\ DOMAIN t.dhxp = {"K", "pwd", "buf"} /\ t.dhxp.pwd = s.dhxp.pwd /\ t.dhxp.buf = 0
  BY Zenon, <1>2 DEF Frame, Fields, dhx_cleared
<1> HIDE DEF t
<1>4. /\ DOMAIN j = Fields /\ \A f \in Fields \ {"judged"} : j[f] = t[f]
      /\ j.judged = [x \in 1..MaxExchanges |-> s.judged[x] + IF x = s.dhxp.buf THEN 1 ELSE 0]
  BY SMTT(30), <1>3, Judged DEF Frame
<1> HIDE DEF j
<1>5. /\ DOMAIN a = Fields /\ \A f \in Fields \ {"judged", "pam"} : a[f] = t[f]
      /\ a.judged = j.judged
  BY Zenon, <1>4 DEF Fields
<1> HIDE DEF a
<1>6. CASE o = Out(t, "ERR", None)
  BY Zenon, <1>2, <1>3, <1>6 DEF Typed, Out, Answer, Moved, Turn, Challenge, Sound, Static, Proven,
     Stays
<1>7. ASSUME o.s = j \/ o.s = a,
             o.pwd = None \/ (o.pwd = s.dhxp.pwd /\ Right(j, r, s.uname))
      PROVE  Answer(s, o, now, "dhxp")
  <2>1. /\ Frame(s, o.s, "dhxp") /\ o.s.db = s.db /\ o.s.ch = s.ch /\ o.s.judged = j.judged
        /\ o.s.uname = s.uname /\ o.s.dhxp = t.dhxp
    <3>1. CASE o.s = j
      BY SMTT(30), <1>3, <1>4, <3>1 DEF Frame, Fields
    <3>2. CASE o.s = a
      BY ZenonT(60), <1>3, <1>5, <3>2 DEF Frame, Fields
    <3> QED
      BY Zenon, <1>7, <3>1, <3>2
  <2>2. Proven(o, now)
    BY SMTT(30), <1>2, <1>3, <1>4, <1>7 DEF Proven, Carried, Right, Named, Fields
  <2>3. Known(o.s, now)
    BY SMTT(30), <2>1, KnownKept DEF Frame, Fields, Carried
  <2>4. Named(o.s)
    BY SMTT(30), <1>3, <2>1, NamedKept DEF Frame, Fields
  <2>5. Moved(s, o.s, "dhxp")
    BY SMTT(30), <1>2, <1>3, <1>4, <2>1 DEF Typed, Moved, Turn, Challenge, Sound, Static
  <2> QED
    BY Zenon, <2>1, <2>2, <2>3, <2>4, <2>5 DEF Answer
<1> QED
  BY SMTT(30), <1>1, <1>6, <1>7 DEF Out

(* pam_changepw of uams_dhx_pam.c changes a password on the old one, in two calls, and
   uses its nonce up. *)
LEMMA DhxPamChange ==
  ASSUME LoginAssumption, NEW s, Typed(s), s.ch < MaxExchanges, NEW seen, NEW now, NEW r \in Replies,
         Carried(s, r, seen, now), Known(s, seen), Named(s), NEW u, NEW o \in dhx_pam_changepw(s, u, r)
  PROVE  Changed(s, o, now, "dhxp")
<1> DEFINE z == [s EXCEPT !.dhxp.buf = 0]
           t == dhx_cleared(s)
           j == Judge(t, s.dhxp.buf)
           d == [j EXCEPT !.db[u] = 1 - @]
<1>1. \/ o.s = z \/ o \in dhx_setup(s) \/ o.s = t \/ o.s = j
      \/ Right(s, r, u) /\ o.s = d
  BY DEF dhx_pam_changepw, Refuse, Out
<1>2. DOMAIN s.dhxp = {"K", "pwd", "buf"} /\ DOMAIN s = Fields /\ s.dhxp.pwd \in Users \cup {None}
  BY Zenon DEF Typed, Sound, Static, Keepers
<1>3. /\ Frame(s, z, "dhxp") /\ z.db = s.db /\ z.ch = s.ch /\ z.judged = s.judged /\ z.uname = s.uname
      /\ DOMAIN z.dhxp = {"K", "pwd", "buf"} /\ z.dhxp.pwd = s.dhxp.pwd /\ z.dhxp.buf = 0
  BY Zenon, <1>2 DEF Frame, Fields
<1>4. /\ Frame(s, t, "dhxp") /\ t.db = s.db /\ t.ch = s.ch /\ t.judged = s.judged /\ t.uname = s.uname
      /\ DOMAIN t.dhxp = {"K", "pwd", "buf"} /\ t.dhxp.pwd = s.dhxp.pwd /\ t.dhxp.buf = 0
  BY Zenon, <1>2 DEF Frame, Fields, dhx_cleared
<1> HIDE DEF z, t
<1>5. /\ DOMAIN j = Fields /\ \A f \in Fields \ {"judged"} : j[f] = t[f]
      /\ j.judged = [x \in 1..MaxExchanges |-> s.judged[x] + IF x = s.dhxp.buf THEN 1 ELSE 0]
  BY SMTT(30), <1>4, Judged DEF Frame
<1> HIDE DEF j
<1>6. /\ Frame(s, j, "dhxp") /\ j.db = s.db /\ j.ch = s.ch /\ j.uname = s.uname /\ j.dhxp = t.dhxp
  BY SMTT(30), <1>4, <1>5 DEF Frame, Fields
<1>7. CASE o \in dhx_setup(s)
  <2>1. /\ Moved(s, o.s, "dhxp")
        /\ o.s.db = s.db /\ o.s.uname = s.uname /\ o.s.dhxp.pwd = s.dhxp.pwd
    BY Zenon, <1>7, DhxPamSetup
  <2>2. Known(o.s, now) /\ Named(o.s)
    BY ZenonT(60), <2>1, KnownKept, NamedKept DEF Moved, Frame, Fields, Carried
  <2> QED
    BY Zenon, <2>1, <2>2 DEF Changed
<1>8. ASSUME o.s = z \/ o.s = t \/ o.s = j PROVE Changed(s, o, now, "dhxp")
  <2>1. Moved(s, o.s, "dhxp")
    BY SMTT(30), <1>2, <1>3, <1>4, <1>5, <1>6, <1>8 DEF Typed, Moved, Turn, Challenge, Sound, Static
  <2>2. o.s.db = s.db /\ o.s.uname = s.uname /\ o.s.dhxp.pwd = s.dhxp.pwd
    BY Zenon, <1>3, <1>4, <1>6, <1>8
  <2>3. Known(o.s, now) /\ Named(o.s)
    BY ZenonT(60), <2>1, <2>2, KnownKept, NamedKept DEF Moved, Frame, Fields, Carried
  <2> QED
    BY Zenon, <2>1, <2>3 DEF Changed
<1>9. CASE Right(s, r, u) /\ o.s = d
  <2>1. u \in Users /\ u \in now /\ seen \subseteq now
    BY Zenon, <1>9 DEF Right, Carried, Replies
  <2>2. Known(j, seen) /\ j.db \in [Users -> {0, 1}] /\ DOMAIN j = Fields
    BY SMTT(30), <1>6, KnownKept DEF Frame, Fields, Typed
  <2>3. /\ DOMAIN d = Fields /\ \A f \in Fields \ {"db"} : d[f] = j[f]
        /\ d.db \in [Users -> {0, 1}] /\ Known(d, now)
    BY SMTT(30), <2>1, <2>2, NewPassword
  <2> HIDE DEF d
  <2>4. /\ Frame(s, d, "dhxp") /\ d.ch = s.ch /\ d.judged = j.judged /\ d.uname = s.uname
        /\ d.dhxp = t.dhxp
    BY Zenon, <1>6, <2>3 DEF Frame, Fields
  <2>5. Moved(s, d, "dhxp")
    BY ZenonT(60), <1>2, <1>4, <1>5, <2>3, <2>4 DEF Moved, Turn, Challenge, Sound, Static
  <2>6. Named(d)
    BY SMTT(30), <1>4, <2>4, NamedKept DEF Frame, Fields
  <2> QED
    BY Zenon, <1>9, <2>3, <2>5, <2>6 DEF Changed
<1> QED
  BY ZenonT(60), <1>1, <1>7, <1>8, <1>9

(* randnum_changepw replaces a key on the old one. *)
LEMMA RandChange ==
  ASSUME LoginAssumption, NEW s, Typed(s), NEW seen, NEW now, NEW r \in Replies,
         Carried(s, r, seen, now), Known(s, seen), Named(s), NEW u, NEW o \in randnum_changepw(s, u, r)
  PROVE  Changed(s, o, now, "rnd")
<1> DEFINE t == [s EXCEPT !.rnd.key = <<>>]
           d == [t EXCEPT !.db[u] = 1 - @]
<1>1. o.s = s \/ o.s = t \/ (Right(s, r, u) /\ o.s = d)
  BY DEF randnum_changepw, Refuse, Out
<1>2. DOMAIN s.rnd = {"pwd", "key", "buf"} /\ DOMAIN s = Fields /\ s.rnd.pwd \in Users \cup {None}
  BY Zenon DEF Typed, Sound, Static, Keepers
<1>3. /\ Frame(s, t, "rnd") /\ t.db = s.db /\ t.ch = s.ch /\ t.judged = s.judged /\ t.uname = s.uname
      /\ DOMAIN t.rnd = {"pwd", "key", "buf"} /\ t.rnd.pwd = s.rnd.pwd /\ t.rnd.buf = s.rnd.buf
      /\ t.rnd.key = <<>>
  BY Zenon, <1>2 DEF Frame, Fields
<1> HIDE DEF t
<1>4. Known(t, seen) /\ t.db \in [Users -> {0, 1}] /\ DOMAIN t = Fields
  BY <1>3 DEF Known, Frame, Typed
<1>5. CASE o.s = s
  <2>1. Moved(s, s, "rnd")
    BY Zenon DEF Typed, Moved, Frame, Turn, Keepers
  <2>2. Known(s, now)
    BY Zenon, KnownKept DEF Carried
  <2> QED
    BY Zenon, <1>5, <2>1, <2>2 DEF Changed
<1>6. CASE o.s = t
  <2>1. Moved(s, t, "rnd")
    BY Zenon, <1>2, <1>3, <1>4 DEF Moved, Turn, Challenge, Sound, Static
  <2>2. Known(t, now) /\ Named(t)
    BY SMTT(30), <1>3, <1>4, KnownKept, NamedKept DEF Frame, Fields, Carried
  <2> QED
    BY Zenon, <1>6, <2>1, <2>2 DEF Changed
<1>7. CASE Right(s, r, u) /\ o.s = d
  <2>1. u \in Users /\ u \in now /\ seen \subseteq now
    BY Zenon, <1>7 DEF Right, Carried, Replies
  <2>2. /\ DOMAIN d = Fields /\ \A f \in Fields \ {"db"} : d[f] = t[f]
        /\ d.db \in [Users -> {0, 1}] /\ Known(d, now)
    BY SMTT(30), <1>4, <2>1, NewPassword
  <2> HIDE DEF d
  <2>3. /\ Frame(s, d, "rnd") /\ d.ch = s.ch /\ d.judged = s.judged /\ d.uname = s.uname
        /\ d.rnd = t.rnd
    BY ZenonT(60), <1>3, <2>2 DEF Frame, Fields
  <2>4. Moved(s, d, "rnd")
    BY Zenon, <1>2, <1>3, <2>2, <2>3 DEF Moved, Turn, Challenge, Sound, Static
  <2>5. Named(d)
    BY <2>3, NamedKept DEF Frame, Fields
  <2> QED
    BY Zenon, <1>7, <2>2, <2>4, <2>5 DEF Changed
<1> QED
  BY Zenon, <1>1, <1>5, <1>6, <1>7

(* pam_changepw of uams_pam.c changes a password on the old one. *)
LEMMA PamChange ==
  ASSUME LoginAssumption, NEW s, Typed(s), NEW seen, NEW now, NEW r \in Replies,
         Carried(s, r, seen, now), Known(s, seen), Named(s), NEW u, NEW o \in pam_changepw(s, u, r)
  PROVE  Changed(s, o, now, "srp")
<1> DEFINE d == [s EXCEPT !.db[u] = 1 - @]
<1>1. o.s = s \/ (Right(s, r, u) /\ o.s = d)
  BY DEF pam_changepw, Refuse, Out
<1>2. CASE o.s = s
  <2>1. Moved(s, s, "srp")
    BY Zenon DEF Typed, Moved, Frame, Turn, Keepers
  <2>2. Known(s, now)
    BY KnownKept DEF Carried
  <2> QED
    BY Zenon, <1>2, <2>1, <2>2 DEF Changed
<1>3. CASE Right(s, r, u) /\ o.s = d
  <2>1. u \in Users /\ u \in now /\ seen \subseteq now
    BY Zenon, <1>3 DEF Right, Carried, Replies
  <2>2. /\ DOMAIN d = Fields /\ \A f \in Fields \ {"db"} : d[f] = s[f]
        /\ d.db \in [Users -> {0, 1}] /\ Known(d, now)
    BY <2>1, NewPassword DEF Typed
  <2> HIDE DEF d
  <2>3. Frame(s, d, "srp") /\ d.ch = s.ch /\ d.judged = s.judged /\ d.uname = s.uname /\ d.srp = s.srp
    BY Zenon, <2>2 DEF Frame, Fields
  <2>4. Moved(s, d, "srp")
    BY Zenon, <2>2, <2>3 DEF Typed, Moved, Turn, Keepers
  <2>5. Named(d)
    BY ZenonT(60), <2>3, NamedKept DEF Frame, Fields
  <2> QED
    BY Zenon, <1>3, <2>2, <2>4, <2>5 DEF Changed
<1> QED
  BY Zenon, <1>1, <1>2, <1>3

(* dhx2_clear_session of uams_dhx2_passwd.c drops the key and the nonce and keeps the user. *)
LEMMA Dhx2Cleared ==
  ASSUME NEW s, Typed(s), NEW c, c = [s EXCEPT !.dhx2 = dhx2_clear_session(@)]
  PROVE  /\ DOMAIN c = Fields /\ \A f \in Fields \ {"dhx2"} : c[f] = s[f]
         /\ DOMAIN c.dhx2 = DOMAIN s.dhx2 /\ c.dhx2.pwd = s.dhx2.pwd /\ c.dhx2.nonce = 0
         /\ Moved(s, c, "dhx2") /\ c.db = s.db /\ c.uname = s.uname
<1>1. DOMAIN s.dhx2 = {"st", "K", "nonce", "pwd"} /\ DOMAIN s = Fields /\ s.dhx2.pwd \in Users \cup {None}
  BY Zenon DEF Typed, Sound, Static, Keepers
<1>2. /\ DOMAIN c = Fields /\ \A f \in Fields \ {"dhx2"} : c[f] = s[f]
      /\ c.dhx2 = dhx2_clear_session(s.dhx2)
  BY Zenon, <1>1 DEF Fields
<1>3. /\ DOMAIN c.dhx2 = DOMAIN s.dhx2 /\ c.dhx2.pwd = s.dhx2.pwd /\ c.dhx2.nonce = 0
      /\ c.dhx2.st = "IDLE"
  BY <1>1, <1>2, ZenonT(60) DEF dhx2_clear_session
<1>4. Frame(s, c, "dhx2") /\ c.db = s.db /\ c.ch = s.ch /\ c.judged = s.judged /\ c.uname = s.uname
  BY Zenon, <1>2 DEF Frame, Fields
<1> QED
  BY Zenon, <1>1, <1>2, <1>3, <1>4 DEF Typed, Moved, Turn, Challenge, Sound, Static

(* dhx2_passwd_login keeps the looked-up user and expects the first reply (CONT1). *)
LEMMA Dhx2First ==
  ASSUME LoginAssumption, NEW s, Typed(s), s.ch < MaxExchanges, NEW seen, NEW now, NEW n \in Names,
         NEW r \in Replies, Carried(s, r, seen, now), Known(s, seen), Module(s) = "dhx2",
         NEW o \in dhx2_passwd_login(s, n, r)
  PROVE  Answer(s, o, now, "dhx2")
<1> DEFINE g == uam_getname(s, n)
           t == [g.s EXCEPT !.dhx2.pwd = g.pwd]
           c == [t EXCEPT !.dhx2 = dhx2_clear_session(@)]
           i == Issue(c)
           b == [i EXCEPT !.dhx2.st = "CONT1", !.dhx2.K = i.ch]
<1>1. \/ o \in Refuse(s) \/ o = Out(t, "ERR", None) \/ o = Out(c, "ERR", None)
      \/ o = Out(b, "AUTHCONT", None)
  BY Zenon DEF dhx2_passwd_login, dhx2_passwd_setup, Refuse, MayFail
<1>2. /\ DOMAIN g.s = Fields /\ \A x \in Fields \ {"uname"} : g.s[x] = s[x]
      /\ g.pwd \in Users \cup {None}
  BY Zenon, UamName
<1> HIDE DEF g
<1>3. DOMAIN s.dhx2 = {"st", "K", "nonce", "pwd"} /\ DOMAIN s = Fields
  BY Zenon DEF Typed, Sound, Static, Keepers
<1>4. /\ Frame(s, t, "dhx2") /\ t.db = s.db /\ t.ch = s.ch /\ t.judged = s.judged
      /\ DOMAIN t.dhx2 = {"st", "K", "nonce", "pwd"} /\ t.dhx2.pwd = g.pwd
      /\ t.dhx2.nonce = s.dhx2.nonce /\ t.dhx2.st = s.dhx2.st
  BY Zenon, <1>2, <1>3 DEF Frame, Fields
<1> HIDE DEF t
<1>5. Moved(s, t, "dhx2") /\ Typed(t)
  BY <1>2, <1>4 DEF Typed, Frame, Fields, Keepers, Sound, Static, Moved, Turn, Challenge
<1>6. /\ DOMAIN c = Fields /\ \A f \in Fields \ {"dhx2"} : c[f] = t[f]
      /\ DOMAIN c.dhx2 = DOMAIN t.dhx2 /\ c.dhx2.pwd = t.dhx2.pwd /\ c.dhx2.nonce = 0
      /\ Moved(t, c, "dhx2")
  BY ZenonT(60), <1>5, Dhx2Cleared
<1> HIDE DEF c
<1>7. Moved(s, c, "dhx2") /\ c.ch = s.ch /\ c.judged = s.judged /\ c.db = s.db
  <2>1. Frame(s, c, "dhx2") /\ c.ch = s.ch /\ c.judged = s.judged /\ c.db = s.db
    BY Zenon, <1>4, <1>6 DEF Frame, Fields
  <2> QED
    BY Zenon, <1>6, <2>1 DEF Moved, Turn, Challenge
<1>8. /\ DOMAIN i = Fields /\ \A f \in Fields \ {"ch"} : i[f] = c[f]
      /\ i.ch = s.ch + 1
  BY ZenonT(60), <1>6, <1>7, Issued
<1> HIDE DEF i
<1>9. /\ Frame(s, i, "dhx2") /\ i.judged = s.judged /\ i.db = s.db /\ i.dhx2 = c.dhx2
  BY Zenon, <1>7, <1>8 DEF Moved, Frame, Fields
<1>10. /\ Frame(s, b, "dhx2") /\ b.db = s.db /\ b.ch = s.ch + 1 /\ b.judged = s.judged
       /\ DOMAIN b.dhx2 = {"st", "K", "nonce", "pwd"} /\ b.dhx2.pwd = g.pwd /\ b.dhx2.nonce = 0
       /\ b.dhx2.st = "CONT1"
  BY Zenon, <1>4, <1>6, <1>8, <1>9 DEF Frame, Fields
<1> HIDE DEF b
<1>11. CASE o \in Refuse(s)
  BY Zenon, <1>11, Refused DEF Keepers
<1>12. CASE o = Out(t, "ERR", None) \/ o = Out(c, "ERR", None)
  BY SMTT(30), <1>4, <1>5, <1>7, <1>12 DEF Out, Answer, Proven, Stays
<1>13. CASE o = Out(b, "AUTHCONT", None)
  <2>1. o.s = b /\ o.rc = "AUTHCONT"
    BY Zenon, <1>13 DEF Out
  <2>2. Known(b, now)
    BY SMTT(30), <1>10, KnownKept DEF Frame, Fields, Carried
  <2>3. Named(b)
    BY Zenon, <1>10 DEF Frame, Fields, Named, Module, auth_uamfind
  <2> QED
    BY ZenonT(60), <1>2, <1>10, <2>1, <2>2, <2>3
    DEF Typed, Answer, Moved, Turn, Challenge, Sound, Static, Proven, Stays
<1> QED
  BY Zenon, <1>1, <1>11, <1>12, <1>13

(* passwd_logincont of uams_dhx2_passwd.c makes the server nonce in its first call,
   compares it once in its second and lets in dhxpwd on that user's password. *)
LEMMA Dhx2Second ==
  ASSUME LoginAssumption, NEW s, Typed(s), s.ch < MaxExchanges, NEW seen, NEW now, NEW r \in Replies,
         Carried(s, r, seen, now), Known(s, seen), Named(s), NEW o \in dhx2_passwd_logincont(s, r)
  PROVE  Answer(s, o, now, "dhx2")
<1> DEFINE c == [s EXCEPT !.dhx2 = dhx2_clear_session(@)]
           j == Judge(c, s.dhx2.nonce)
           i == Issue(s)
           b == [i EXCEPT !.dhx2.st = "CONT2", !.dhx2.nonce = i.ch]
<1>1. \/ o = Out(c, "ERR", None) \/ o = Out(b, "AUTHCONT", None)
      \/ o.s = j /\ ((Right(s, r, s.dhx2.pwd) /\ o.pwd = s.dhx2.pwd) \/ o.pwd = None)
  BY DEF dhx2_passwd_logincont, dhx2_passwd_logincont1, dhx2_passwd_logincont2, Refuse,
     MayFail, Out
<1>2. DOMAIN s.dhx2 = {"st", "K", "nonce", "pwd"} /\ DOMAIN s = Fields /\ s.dhx2.pwd \in Users \cup {None}
  BY Zenon DEF Typed, Sound, Static, Keepers
<1>3. /\ DOMAIN c = Fields /\ \A f \in Fields \ {"dhx2"} : c[f] = s[f]
      /\ DOMAIN c.dhx2 = DOMAIN s.dhx2 /\ c.dhx2.pwd = s.dhx2.pwd /\ c.dhx2.nonce = 0
      /\ Moved(s, c, "dhx2") /\ c.db = s.db /\ c.uname = s.uname
  BY Zenon, Dhx2Cleared
<1> HIDE DEF c
<1>4. /\ DOMAIN j = Fields /\ \A f \in Fields \ {"judged"} : j[f] = c[f]
      /\ j.judged = [x \in 1..MaxExchanges |-> c.judged[x] + IF x = s.dhx2.nonce THEN 1 ELSE 0]
  BY SMTT(30), <1>3, Judged
<1> HIDE DEF j
<1>5. /\ DOMAIN i = Fields /\ \A f \in Fields \ {"ch"} : i[f] = s[f]
      /\ i.ch = s.ch + 1
  BY Zenon, <1>2, Issued
<1> HIDE DEF i
<1>6. /\ Frame(s, b, "dhx2") /\ b.db = s.db /\ b.ch = s.ch + 1 /\ b.judged = s.judged /\ b.uname = s.uname
      /\ DOMAIN b.dhx2 = {"st", "K", "nonce", "pwd"} /\ b.dhx2.pwd = s.dhx2.pwd /\ b.dhx2.nonce = b.ch
      /\ b.dhx2.st = "CONT2"
  BY Zenon, <1>2, <1>5 DEF Frame, Fields
<1> HIDE DEF b
<1>7. CASE o = Out(c, "ERR", None)
  BY Zenon, <1>3, <1>7 DEF Out, Answer, Proven, Stays
<1>8. CASE o = Out(b, "AUTHCONT", None)
  <2>1. o.s = b /\ o.rc = "AUTHCONT"
    BY Zenon, <1>8 DEF Out
  <2>2. Known(b, now)
    BY SMTT(30), <1>6, KnownKept DEF Frame, Fields, Carried
  <2>3. Named(b)
    BY ZenonT(60), <1>6, NamedKept DEF Frame, Fields
  <2> QED
    BY Zenon, <1>2, <1>6, <2>1, <2>2, <2>3
    DEF Typed, Answer, Moved, Turn, Challenge, Sound, Static, Proven, Stays
<1>9. CASE o.s = j /\ ((Right(s, r, s.dhx2.pwd) /\ o.pwd = s.dhx2.pwd) \/ o.pwd = None)
  <2>1. /\ Frame(s, j, "dhx2") /\ j.db = s.db /\ j.ch = s.ch /\ j.uname = s.uname
        /\ j.judged = [x \in 1..MaxExchanges |-> s.judged[x] + IF x = s.dhx2.nonce THEN 1 ELSE 0]
        /\ j.dhx2 = c.dhx2
    BY SMTT(30), <1>3, <1>4 DEF Frame, Fields
  <2>2. Proven(o, now)
    BY Zenon, <1>2, <1>9 DEF Proven, Carried, Right
  <2>3. Known(j, now)
    BY SMTT(30), <2>1, KnownKept DEF Frame, Fields, Carried
  <2>4. Named(j)
    BY ZenonT(60), <2>1, NamedKept DEF Frame, Fields
  <2>5. Moved(s, j, "dhx2")
    BY ZenonT(60), <1>3, <2>1 DEF Typed, Moved, Turn, Challenge
  <2> QED
    BY Zenon, <1>9, <2>1, <2>2, <2>3, <2>4, <2>5 DEF Answer
<1> QED
  BY Zenon, <1>1, <1>7, <1>8, <1>9
(* uams_dhx2_pam.c: a call that keeps the user, the name and the passwords. *)
(* The fields of uams_dhx2_pam.c that say who is asked about. *)
Same(s, t) ==
  /\ t.db = s.db /\ t.uname = s.uname /\ t.dhx2p.pwd = s.dhx2p.pwd
  /\ t.dhx2p.pname = s.dhx2p.pname /\ t.dhx2p.call = s.dhx2p.call

Dhx2PamFields == {"st", "K", "nonce", "pwd", "pname", "call"}

(* The statics of uams_dhx2_pam.c in a living process. *)
LEMMA Dhx2PamTyped ==
  ASSUME NEW s, Typed(s)
  PROVE  /\ DOMAIN s.dhx2p = Dhx2PamFields /\ DOMAIN s = Fields
         /\ s.dhx2p.pwd \in Users \cup {None} /\ s.dhx2p.call \in {1, 2, 3}
BY Zenon DEF Typed, Sound, Static, Keepers, Dhx2PamFields

(* dhx2_clear_session on those statics. *)
LEMMA Dhx2PamClear ==
  ASSUME NEW x, DOMAIN x = Dhx2PamFields, NEW y, y = dhx2_clear_session(x)
  PROVE  /\ DOMAIN y = Dhx2PamFields /\ y.pwd = x.pwd /\ y.nonce = 0 /\ y.st = "IDLE"
         /\ y.pname = x.pname /\ y.call = x.call
BY Zenon DEF dhx2_clear_session, Dhx2PamFields

(* dhx2_clear_session of uams_dhx2_pam.c drops the key and the nonce; the user and the
   name PAM will be given stay. *)
LEMMA Dhx2PamCleared ==
  ASSUME NEW s, Typed(s), NEW c, c = [s EXCEPT !.dhx2p = dhx2_clear_session(@)]
  PROVE  /\ DOMAIN c = Fields /\ \A f \in Fields \ {"dhx2p"} : c[f] = s[f]
         /\ DOMAIN c.dhx2p = DOMAIN s.dhx2p /\ c.dhx2p.nonce = 0
         /\ Moved(s, c, "dhx2p") /\ Same(s, c)
<1>1. /\ DOMAIN c = Fields /\ \A f \in Fields \ {"dhx2p"} : c[f] = s[f]
      /\ c.dhx2p = dhx2_clear_session(s.dhx2p)
  BY Zenon, Dhx2PamTyped DEF Fields
<1>2. /\ DOMAIN c.dhx2p = DOMAIN s.dhx2p /\ c.dhx2p.pwd = s.dhx2p.pwd /\ c.dhx2p.nonce = 0
      /\ c.dhx2p.st = "IDLE" /\ c.dhx2p.pname = s.dhx2p.pname /\ c.dhx2p.call = s.dhx2p.call
  BY SMTT(30), <1>1, Dhx2PamTyped, Dhx2PamClear
<1>3. Frame(s, c, "dhx2p") /\ c.db = s.db /\ c.ch = s.ch /\ c.judged = s.judged /\ c.uname = s.uname
  BY Zenon, <1>1 DEF Frame, Fields
<1>4. Moved(s, c, "dhx2p")
  BY ZenonT(60), <1>2, <1>3, Dhx2PamTyped DEF Typed, Moved, Turn, Challenge, Sound, Static, Dhx2PamFields
<1> QED
  BY Zenon, <1>1, <1>2, <1>3, <1>4 DEF Same

(* dhx2_setup of uams_dhx2_pam.c makes a key and expects the first reply, or clears
   the session. *)
LEMMA Dhx2PamSetup ==
  ASSUME NEW s, Typed(s), s.ch < MaxExchanges, NEW o \in dhx2_setup(s)
  PROVE  /\ Moved(s, o.s, "dhx2p") /\ Same(s, o.s) /\ o.rc \in {"ERR", "AUTHCONT"}
         /\ DOMAIN o = {"s", "rc", "pwd"}
<1> DEFINE c == [s EXCEPT !.dhx2p = dhx2_clear_session(@)]
           i == Issue(c)
           b == [i EXCEPT !.dhx2p.st = "CONT1", !.dhx2p.K = i.ch]
<1>1. /\ o.s = c \/ o.s = b
      /\ o.rc \in {"ERR", "AUTHCONT"} /\ DOMAIN o = {"s", "rc", "pwd"}
  BY DEF dhx2_setup, MayFail, Refuse, Out
<1>2. /\ DOMAIN c = Fields /\ \A f \in Fields \ {"dhx2p"} : c[f] = s[f]
      /\ DOMAIN c.dhx2p = DOMAIN s.dhx2p /\ c.dhx2p.nonce = 0
      /\ Moved(s, c, "dhx2p") /\ Same(s, c)
  BY Zenon, Dhx2PamCleared
<1> HIDE DEF c
<1>3. DOMAIN i = Fields /\ i.ch = c.ch + 1 /\ \A f \in Fields \ {"ch"} : i[f] = c[f]
  BY Zenon, <1>2, Issued
<1> HIDE DEF i
<1>4. /\ Frame(s, b, "dhx2p") /\ b.db = s.db /\ b.ch = s.ch + 1 /\ b.judged = s.judged
      /\ b.uname = s.uname
  BY Zenon, <1>2, <1>3 DEF Frame, Fields
<1>7. /\ b.dhx2p = [c.dhx2p EXCEPT !.st = "CONT1", !.K = i.ch]
      /\ DOMAIN c.dhx2p = Dhx2PamFields
  BY Zenon, <1>2, <1>3, Dhx2PamTyped DEF Fields
<1> HIDE DEF b
<1>5. /\ DOMAIN b.dhx2p = Dhx2PamFields /\ b.dhx2p.pwd = s.dhx2p.pwd /\ b.dhx2p.nonce = 0
      /\ b.dhx2p.st = "CONT1" /\ b.dhx2p.pname = s.dhx2p.pname /\ b.dhx2p.call = s.dhx2p.call
  BY ZenonT(60), <1>2, <1>7 DEF Same, Dhx2PamFields
<1>6. Moved(s, b, "dhx2p") /\ Same(s, b)
  BY SMTT(30), <1>4, <1>5, Dhx2PamTyped DEF Typed, Same, Moved, Turn, Challenge, Sound, Static,
     Dhx2PamFields
<1> QED
  BY Zenon, <1>1, <1>2, <1>6

(* logincont1 of uams_dhx2_pam.c makes the server nonce, or clears the session. *)
LEMMA Dhx2PamKey ==
  ASSUME NEW s, Typed(s), s.ch < MaxExchanges, NEW r, NEW o \in dhx2_logincont1(s, r)
  PROVE  /\ Moved(s, o.s, "dhx2p") /\ Same(s, o.s) /\ o.rc \in {"ERR", "AUTHCONT"}
         /\ DOMAIN o = {"s", "rc", "pwd"}
<1> DEFINE c == [s EXCEPT !.dhx2p = dhx2_clear_session(@)]
           i == Issue(s)
           b == [i EXCEPT !.dhx2p.st = "CONT2", !.dhx2p.nonce = i.ch]
<1>1. /\ o.s = s \/ o.s = c \/ o.s = b
      /\ o.rc \in {"ERR", "AUTHCONT"} /\ DOMAIN o = {"s", "rc", "pwd"}
  BY DEF dhx2_logincont1, MayFail, Refuse, Out
<1>2. Moved(s, c, "dhx2p") /\ Same(s, c)
  BY Zenon, Dhx2PamCleared
<1> HIDE DEF c
<1>3. Moved(s, s, "dhx2p") /\ Same(s, s)
  BY Zenon DEF Typed, Moved, Frame, Turn, Keepers, Same
<1>4. DOMAIN i = Fields /\ i.ch = s.ch + 1 /\ \A f \in Fields \ {"ch"} : i[f] = s[f]
  BY Zenon, Issued, Dhx2PamTyped
<1> HIDE DEF i
<1>5. /\ Frame(s, b, "dhx2p") /\ b.db = s.db /\ b.ch = s.ch + 1 /\ b.judged = s.judged
      /\ b.uname = s.uname
  BY Zenon, <1>4 DEF Frame, Fields
<1>6. /\ DOMAIN b.dhx2p = Dhx2PamFields /\ b.dhx2p.pwd = s.dhx2p.pwd /\ b.dhx2p.nonce = b.ch
      /\ b.dhx2p.st = "CONT2" /\ b.dhx2p.pname = s.dhx2p.pname /\ b.dhx2p.call = s.dhx2p.call
  BY <1>4, Dhx2PamTyped, ZenonT(60) DEF Fields, Dhx2PamFields
<1> HIDE DEF b
<1>7. Moved(s, b, "dhx2p") /\ Same(s, b)
  BY Zenon, <1>5, <1>6, Dhx2PamTyped DEF Typed, Same, Moved, Turn, Challenge, Sound, Static,
     Dhx2PamFields
<1> QED
  BY Zenon, <1>1, <1>2, <1>3, <1>7

(* Comparing the reply of the second call clears the session of uams_dhx2_pam.c, so
   the nonce is gone. *)
LEMMA Dhx2PamJudged ==
  ASSUME NEW s, Typed(s), NEW c, c = [s EXCEPT !.dhx2p = dhx2_clear_session(@)],
         NEW j, j = Judge(c, s.dhx2p.nonce)
  PROVE  /\ DOMAIN j = Fields /\ \A f \in Fields \ {"judged"} : j[f] = c[f]
         /\ Moved(s, j, "dhx2p") /\ Same(s, j)
<1>1. /\ DOMAIN c = Fields /\ \A f \in Fields \ {"dhx2p"} : c[f] = s[f]
      /\ DOMAIN c.dhx2p = DOMAIN s.dhx2p /\ c.dhx2p.nonce = 0
      /\ Moved(s, c, "dhx2p") /\ Same(s, c)
  BY Zenon, Dhx2PamCleared
<1>2. /\ DOMAIN j = Fields /\ \A f \in Fields \ {"judged"} : j[f] = c[f]
      /\ j.judged = [x \in 1..MaxExchanges |-> c.judged[x] + IF x = s.dhx2p.nonce THEN 1 ELSE 0]
  BY Zenon, <1>1 DEF Judge, Fields
<1>3. /\ Frame(s, j, "dhx2p") /\ j.db = s.db /\ j.ch = s.ch /\ j.uname = s.uname
      /\ j.judged = [x \in 1..MaxExchanges |-> s.judged[x] + IF x = s.dhx2p.nonce THEN 1 ELSE 0]
      /\ j.dhx2p = c.dhx2p
  BY <1>1, <1>2 DEF Frame, Fields
<1>4. Moved(s, j, "dhx2p")
  BY <1>1, <1>3 DEF Typed, Moved, Turn, Challenge
<1> QED
  BY Zenon, <1>1, <1>2, <1>3, <1>4 DEF Same

(* With the same user and the same name, what was known and named stays so. *)
LEMMA Dhx2PamKept ==
  ASSUME NEW s, NEW t, NEW seen, NEW now, seen \subseteq now, Known(s, seen), Named(s),
         Moved(s, t, "dhx2p"), Same(s, t)
  PROVE  Known(t, now) /\ Named(t)
BY Zenon, KnownKept, NamedKept DEF Moved, Frame, Fields, Same

(* pam_login of uams_dhx2_pam.c gives PAM the name of the user it looked up. *)
LEMMA Dhx2PamFirst ==
  ASSUME LoginAssumption, NEW s, Typed(s), s.ch < MaxExchanges, NEW seen, NEW now, NEW n \in Names,
         NEW r \in Replies, Carried(s, r, seen, now), Known(s, seen), Module(s) = "dhx2p",
         NEW o \in dhx2_pam_login(s, n, r)
  PROVE  Answer(s, o, now, "dhx2p")
<1> DEFINE g == uam_getname(s, n)
           t == [g.s EXCEPT !.dhx2p.pwd = g.pwd]
           p == [t EXCEPT !.dhx2p.pname = g.pwd]
<1>1. o \in Refuse(s) \/ o = Out(t, "ERR", None) \/ (g.pwd # None /\ o \in dhx2_setup(p))
  BY Zenon DEF dhx2_pam_login, Refuse
<1>2. /\ DOMAIN g.s = Fields /\ \A x \in Fields \ {"uname"} : g.s[x] = s[x]
      /\ g.pwd \in Users \cup {None} /\ (g.pwd # None => g.s.uname = g.pwd)
  BY UamName
<1> HIDE DEF g
<1>3. /\ DOMAIN s.dhx2p = {"st", "K", "nonce", "pwd", "pname", "call"} /\ DOMAIN s = Fields
      /\ s.dhx2p.call \in {1, 2, 3} /\ s.dhx2p.st \in {"IDLE", "CONT1", "CONT2"}
  BY Zenon DEF Typed, Sound, Static, Keepers
<1>4. /\ Frame(s, t, "dhx2p") /\ t.db = s.db /\ t.ch = s.ch /\ t.judged = s.judged
      /\ t.uname = g.s.uname /\ t.dhx2p = [s.dhx2p EXCEPT !.pwd = g.pwd]
  BY Zenon, <1>2, <1>3 DEF Frame, Fields
<1> HIDE DEF t
<1>5. /\ Frame(s, p, "dhx2p") /\ p.db = s.db /\ p.ch = s.ch /\ p.judged = s.judged
      /\ p.uname = g.s.uname /\ p.dhx2p = [t.dhx2p EXCEPT !.pname = g.pwd]
  BY Zenon, <1>4 DEF Frame, Fields
<1> HIDE DEF p
<1>6. /\ DOMAIN t.dhx2p = {"st", "K", "nonce", "pwd", "pname", "call"} /\ t.dhx2p.pwd = g.pwd
      /\ t.dhx2p.nonce = s.dhx2p.nonce /\ t.dhx2p.st = s.dhx2p.st /\ t.dhx2p.call = s.dhx2p.call
  BY Zenon, <1>3, <1>4
<1>7. /\ DOMAIN p.dhx2p = {"st", "K", "nonce", "pwd", "pname", "call"} /\ p.dhx2p.pwd = g.pwd
      /\ p.dhx2p.pname = g.pwd
      /\ p.dhx2p.nonce = s.dhx2p.nonce /\ p.dhx2p.st = s.dhx2p.st /\ p.dhx2p.call = s.dhx2p.call
  BY Zenon, <1>5, <1>6
<1>8. Moved(s, t, "dhx2p")
  BY Zenon, <1>2, <1>3, <1>4, <1>6 DEF Typed, Sound, Static, Moved, Turn, Challenge
<1>9. Typed(p)
  BY SMTT(30), <1>2, <1>3, <1>5, <1>7 DEF Typed, Frame, Fields, Keepers, Sound, Static
<1>10. CASE o \in Refuse(s)
  BY Zenon, <1>10, Refused DEF Keepers
<1>11. CASE o = Out(t, "ERR", None)
  BY Zenon, <1>4, <1>8, <1>11 DEF Out, Answer, Proven, Stays
<1>12. CASE g.pwd # None /\ o \in dhx2_setup(p)
  <2>1. Moved(p, o.s, "dhx2p") /\ Same(p, o.s) /\ o.rc \in {"ERR", "AUTHCONT"}
    BY Zenon, <1>5, <1>9, <1>12, Dhx2PamSetup
  <2>2. Frame(s, o.s, "dhx2p")
    BY Zenon, <1>5, <2>1 DEF Moved, Frame
  <2>3. Turn(s, o.s, "dhx2p")
    <3>1. Challenge("dhx2p", p.dhx2p) = Challenge("dhx2p", s.dhx2p)
      BY Zenon, <1>7 DEF Challenge
    <3> QED
      BY Zenon, <1>5, <2>1, <3>1, TurnFrom DEF Moved
  <2>4. Known(o.s, now)
    BY SMTT(30), <1>5, <2>1, <2>2, KnownKept DEF Frame, Fields, Carried, Same
  <2>5. Named(o.s)
    <3>1. g.pwd # "frame"
      BY Zenon, <1>2, <1>12 DEF LoginAssumption
    <3> QED
      BY SMTT(30), <1>2, <1>5, <1>7, <1>12, <2>1, <2>2, <3>1
      DEF Frame, Fields, Named, Module, auth_uamfind, PamName, Same
  <2> QED
    BY Zenon, <1>5, <2>1, <2>2, <2>3, <2>4, <2>5 DEF Answer, Moved, Proven, Same
<1> QED
  BY Zenon, <1>1, <1>10, <1>11, <1>12

(* pam_logincont of uams_dhx2_pam.c lets in the user whose password PAM has checked. *)
LEMMA Dhx2PamSecond ==
  ASSUME LoginAssumption, NEW s, Typed(s), s.ch < MaxExchanges, NEW seen, NEW now, NEW r \in Replies,
         Carried(s, r, seen, now), Known(s, seen), Named(s), Module(s) = "dhx2p",
         NEW o \in dhx2_pam_logincont(s, r)
  PROVE  Answer(s, o, now, "dhx2p")
<1> DEFINE c == [s EXCEPT !.dhx2p = dhx2_clear_session(@)]
           j == Judge(c, s.dhx2p.nonce)
           a == [j EXCEPT !.pam = @ \cup {"dhx2p"}]
<1>1. \/ o = Out(c, "ERR", None) \/ o \in dhx2_logincont1(s, r)
      \/ /\ o.s = j \/ o.s = a
         /\ o.pwd = None \/ (o.pwd = s.dhx2p.pwd /\ Right(j, r, PamName(s)))
  BY SMTT(60) DEF dhx2_pam_logincont, dhx2_logincont2, PamLogin, Out, Refuse
<1>2. Moved(s, c, "dhx2p") /\ Same(s, c)
  BY Zenon, Dhx2PamCleared
<1>3. DOMAIN j = Fields /\ Moved(s, j, "dhx2p") /\ Same(s, j)
  BY Zenon, Dhx2PamJudged
<1> HIDE DEF c, j
<1>4. DOMAIN a = Fields /\ \A f \in Fields \ {"pam"} : a[f] = j[f]
  BY Zenon, <1>3 DEF Fields
<1> HIDE DEF a
<1>5. Moved(s, a, "dhx2p") /\ Same(s, a)
  <2>1. Frame(s, a, "dhx2p") /\ a.judged = j.judged /\ a.ch = j.ch /\ a.db = j.db /\ a.dhx2p = j.dhx2p
        /\ a.uname = j.uname
    BY Zenon, <1>3, <1>4 DEF Moved, Frame, Fields
  <2> QED
    BY Zenon, <1>3, <2>1 DEF Moved, Turn, Same
<1>6. CASE o = Out(c, "ERR", None)
  BY Zenon, <1>2, <1>6 DEF Same, Out, Answer, Proven, Stays
<1>7. CASE o \in dhx2_logincont1(s, r)
  <2>1. Moved(s, o.s, "dhx2p") /\ Same(s, o.s) /\ o.rc \in {"ERR", "AUTHCONT"}
    BY Zenon, <1>7, Dhx2PamKey
  <2> QED
    BY Zenon, <2>1, Dhx2PamKept DEF Same, Answer, Proven, Carried
<1>8. ASSUME o.s = j \/ o.s = a,
             o.pwd = None \/ (o.pwd = s.dhx2p.pwd /\ Right(j, r, PamName(s)))
      PROVE  Answer(s, o, now, "dhx2p")
  <2>1. Moved(s, o.s, "dhx2p") /\ Same(s, o.s)
    BY Zenon, <1>3, <1>5, <1>8
  <2>2. Known(o.s, now) /\ Named(o.s)
    BY Zenon, <2>1, Dhx2PamKept DEF Carried
  <2>3. Proven(o, now)
    BY Zenon, <1>3, <1>8, Dhx2PamTyped DEF Proven, Carried, Right, Named, Same
  <2> QED
    BY Zenon, <2>1, <2>2, <2>3 DEF Same, Answer
<1> QED
  BY Zenon, <1>1, <1>6, <1>7, <1>8

(* The static that counts the three calls of dhx2_changepw touches nothing else. *)
LEMMA Recount ==
  ASSUME NEW s, Typed(s), NEW t, Moved(s, t, "dhx2p"), NEW now, Known(t, now), Named(t),
         NEW k \in {1, 2, 3}, NEW o, o.s = [t EXCEPT !.dhx2p.call = k]
  PROVE  Changed(s, o, now, "dhx2p")
<1> DEFINE v == o.s
<1>1. /\ DOMAIN t = Fields /\ DOMAIN t.dhx2p = {"st", "K", "nonce", "pwd", "pname", "call"}
      /\ t.dhx2p.pwd \in Users \cup {None} /\ t.dhx2p.st \in {"IDLE", "CONT1", "CONT2"}
  BY Zenon DEF Moved, Frame, Sound, Static
<1>2. /\ DOMAIN v = Fields /\ \A f \in Fields \ {"dhx2p"} : v[f] = t[f]
      /\ v.dhx2p = [t.dhx2p EXCEPT !.call = k]
  BY <1>1 DEF Fields
<1> HIDE DEF v
<1>3. /\ DOMAIN v.dhx2p = {"st", "K", "nonce", "pwd", "pname", "call"} /\ v.dhx2p.call = k
      /\ v.dhx2p.pwd = t.dhx2p.pwd /\ v.dhx2p.pname = t.dhx2p.pname /\ v.dhx2p.st = t.dhx2p.st
      /\ v.dhx2p.nonce = t.dhx2p.nonce
  BY Zenon, <1>1, <1>2
<1>4. /\ Frame(s, v, "dhx2p") /\ v.db = t.db /\ v.ch = t.ch /\ v.judged = t.judged /\ v.uname = t.uname
      /\ v.rnd = t.rnd /\ v.uam = t.uam /\ v.reg = t.reg /\ v.frame = t.frame /\ v.dhxp = t.dhxp
  BY Zenon, <1>2 DEF Moved, Frame, Fields
<1>5. Known(v, now) /\ Named(v)
  BY Zenon, <1>3, <1>4, KnownKept, NamedKept
<1>6. Challenge("dhx2p", v.dhx2p) = Challenge("dhx2p", t.dhx2p)
  BY Zenon, <1>3 DEF Challenge
<1>7. Turn(s, v, "dhx2p")
  BY Zenon, <1>4, <1>6 DEF Moved, Turn
<1>8. Sound("dhx2p", v.dhx2p)
  BY Zenon, <1>1, <1>3 DEF Sound, Static
<1> QED
  BY Zenon, <1>4, <1>5, <1>7, <1>8 DEF v, Moved, Changed

(* changepw_3 changes the password of the name in PAM_username on the old one and
   clears the session. *)
LEMMA Dhx2PamChanged ==
  ASSUME LoginAssumption, NEW s, Typed(s), NEW seen, NEW now, NEW r \in Replies,
         Carried(s, r, seen, now), Known(s, seen), Named(s), NEW o \in changepw_3(s, r)
  PROVE  /\ Moved(s, o.s, "dhx2p") /\ Known(o.s, now) /\ Named(o.s)
         /\ DOMAIN o = {"s", "rc", "pwd"}
<1> DEFINE c == [s EXCEPT !.dhx2p = dhx2_clear_session(@)]
           j == Judge(c, s.dhx2p.nonce)
           u == PamName(s)
           d == [j EXCEPT !.db[u] = 1 - @]
<1>1. /\ o.s = c \/ o.s = j \/ (Right(s, r, u) /\ o.s = d)
      /\ DOMAIN o = {"s", "rc", "pwd"}
  BY DEF changepw_3, Refuse, Out
<1>2. Moved(s, c, "dhx2p") /\ Same(s, c)
  BY Zenon, Dhx2PamCleared
<1>3. DOMAIN j = Fields /\ Moved(s, j, "dhx2p") /\ Same(s, j)
  BY Zenon, Dhx2PamJudged
<1> HIDE DEF c, j, u
<1>4. CASE o.s = c \/ o.s = j
  BY SMTT(30), <1>1, <1>2, <1>3, <1>4, Dhx2PamKept DEF Carried
<1>5. CASE Right(s, r, u) /\ o.s = d
  <2>1. u \in Users /\ u \in now /\ seen \subseteq now
    BY Zenon, <1>5 DEF Right, Carried, Replies
  <2>2. Known(j, seen) /\ Named(j) /\ j.db \in [Users -> {0, 1}]
    BY Zenon, <1>3, Dhx2PamKept DEF Moved
  <2>3. /\ DOMAIN d = Fields /\ \A f \in Fields \ {"db"} : d[f] = j[f]
        /\ d.db \in [Users -> {0, 1}] /\ Known(d, now)
    BY <1>3, <2>1, <2>2, NewPassword, SMTT(60)
  <2> HIDE DEF d
  <2>4. /\ Frame(s, d, "dhx2p") /\ d.ch = j.ch /\ d.judged = j.judged /\ d.dhx2p = j.dhx2p
        /\ d.uname = j.uname /\ d.uam = j.uam /\ d.reg = j.reg /\ d.frame = j.frame /\ d.dhxp = j.dhxp
    BY Zenon, <1>3, <2>3 DEF Moved, Frame, Fields
  <2>5. Moved(s, d, "dhx2p")
    BY Zenon, <1>3, <2>3, <2>4 DEF Moved, Turn
  <2>6. Named(d)
    BY Zenon, <2>2, <2>4, NamedKept
  <2> QED
    BY Zenon, <1>1, <1>5, <2>3, <2>5, <2>6
<1> QED
  BY Zenon, <1>1, <1>4, <1>5

(* dhx2_changepw: its calls, and a first call that points PAM_username at the caller's
   buffer, keep the name PAM is asked about the session's. *)
LEMMA Dhx2PamChange ==
  ASSUME LoginAssumption, NEW s, Typed(s), s.ch < MaxExchanges, NEW seen, NEW now, NEW r \in Replies,
         Carried(s, r, seen, now), Known(s, seen), Named(s), s.frame = s.uname,
         NEW o \in dhx2_changepw(s, r)
  PROVE  Changed(s, o, now, "dhx2p")
<1> DEFINE q == [s EXCEPT !.dhx2p.pname = "frame"]
<1>1. PICK p \in dhx2_setup(q) \cup dhx2_logincont1(s, r) \cup changepw_3(s, r), k \in {1, 2, 3} :
        o = [p EXCEPT !.s.dhx2p.call = k]
  <2>1. s.dhx2p.call \in {1, 2, 3}
    BY Zenon, Dhx2PamTyped
  <2> QED
    BY Zenon, <2>1 DEF dhx2_changepw
<1>2. CASE p \in changepw_3(s, r)
  <2>1. /\ Moved(s, p.s, "dhx2p") /\ Known(p.s, now) /\ Named(p.s)
        /\ DOMAIN p = {"s", "rc", "pwd"}
    BY Zenon, <1>2, Dhx2PamChanged
  <2>2. o.s = [p.s EXCEPT !.dhx2p.call = k]
    BY Zenon, <1>1, <2>1
  <2> QED
    BY Zenon, <2>1, <2>2, Recount
<1>3. CASE p \in dhx2_logincont1(s, r)
  <2>1. Moved(s, p.s, "dhx2p") /\ Same(s, p.s) /\ DOMAIN p = {"s", "rc", "pwd"}
    BY Zenon, <1>3, Dhx2PamKey
  <2>2. o.s = [p.s EXCEPT !.dhx2p.call = k]
    BY Zenon, <1>1, <2>1
  <2>3. Known(p.s, now) /\ Named(p.s)
    BY Zenon, <2>1, Dhx2PamKept DEF Carried
  <2> QED
    BY Zenon, <2>1, <2>2, <2>3, Recount
<1>4. CASE p \in dhx2_setup(q)
  <2>1. /\ DOMAIN s.dhx2p = {"st", "K", "nonce", "pwd", "pname", "call"} /\ DOMAIN s = Fields
        /\ s.dhx2p.call \in {1, 2, 3} /\ s.dhx2p.st \in {"IDLE", "CONT1", "CONT2"}
        /\ s.dhx2p.pwd \in Users \cup {None}
    BY Zenon DEF Typed, Sound, Static, Keepers
  <2>2. /\ DOMAIN q = Fields /\ \A f \in Fields \ {"dhx2p"} : q[f] = s[f]
        /\ q.dhx2p = [s.dhx2p EXCEPT !.pname = "frame"]
    BY Zenon, <2>1 DEF Fields
  <2>3. p \in dhx2_setup(q)
    BY Zenon, <1>4
  <2> HIDE DEF q
  <2>4. /\ DOMAIN q.dhx2p = {"st", "K", "nonce", "pwd", "pname", "call"} /\ q.dhx2p.call = s.dhx2p.call
        /\ q.dhx2p.pwd = s.dhx2p.pwd /\ q.dhx2p.pname = "frame" /\ q.dhx2p.st = s.dhx2p.st
        /\ q.dhx2p.nonce = s.dhx2p.nonce
    BY Zenon, <2>1, <2>2
  <2>5. /\ Frame(s, q, "dhx2p") /\ q.db = s.db /\ q.ch = s.ch /\ q.judged = s.judged /\ q.uname = s.uname
    BY Zenon, <2>2 DEF Frame, Fields
  <2>6. Typed(q)
    BY SMTT(30), <2>1, <2>4, <2>5 DEF Typed, Frame, Fields, Keepers, Sound, Static
  <2>7. Known(q, seen) /\ Named(q)
    BY SMTT(30), <2>4, <2>5, KnownKept DEF Frame, Fields, Named, Module, auth_uamfind, PamName
  <2>8. Moved(q, p.s, "dhx2p") /\ Same(q, p.s) /\ DOMAIN p = {"s", "rc", "pwd"}
    BY Zenon, <2>3, <2>5, <2>6, Dhx2PamSetup
  <2>9. Known(p.s, now) /\ Named(p.s)
    BY Zenon, <2>7, <2>8, Dhx2PamKept DEF Carried
  <2>10. Moved(s, p.s, "dhx2p")
    <3>1. Frame(s, p.s, "dhx2p")
      BY Zenon, <2>5, <2>8 DEF Moved, Frame
    <3>2. Challenge("dhx2p", q.dhx2p) = Challenge("dhx2p", s.dhx2p)
      BY Zenon, <2>4 DEF Challenge
    <3>3. Turn(s, p.s, "dhx2p")
      BY Zenon, <2>5, <2>8, <3>2, TurnFrom DEF Moved
    <3> QED
      BY Zenon, <2>8, <3>1, <3>3 DEF Moved
  <2>11. o.s = [p.s EXCEPT !.dhx2p.call = k]
    BY Zenon, <1>1, <2>8
  <2> QED
    BY Zenon, <2>9, <2>10, <2>11, Recount
<1> QED
  BY Zenon, <1>1, <1>2, <1>3, <1>4

(* srp_login keeps the looked-up user and makes a challenge, or frees the session. *)
LEMMA SrpFirst ==
  ASSUME LoginAssumption, NEW s, Typed(s), s.ch < MaxExchanges, NEW seen, NEW now, NEW n \in Names,
         NEW r \in Replies, Carried(s, r, seen, now), Known(s, seen), Module(s) = "srp",
         NEW o \in srp_login(s, n, r)
  PROVE  Answer(s, o, now, "srp")
<1> DEFINE f == srp_session_free(s)
           g == uam_getname(f, n)
           t == [g.s EXCEPT !.srp.pwd = g.pwd]
           e == srp_session_free(t)
           i == Issue(t)
           b == [i EXCEPT !.srp.v = i.ch]
<1>1. \/ o = Out(f, "ERR", None) \/ o = Out(t, "ERR", None) \/ o = Out(e, "ERR", None)
      \/ o = Out(b, "AUTHCONT", None)
  BY Zenon DEF srp_login, srp_setup, Refuse, MayFail
<1>2. DOMAIN s = Fields
  BY Zenon DEF Typed
<1>3. /\ Frame(s, f, "srp") /\ f.db = s.db /\ f.ch = s.ch /\ f.judged = s.judged
      /\ f.srp = [v |-> 0, pwd |-> None]
  BY Zenon, <1>2 DEF Frame, Fields, srp_session_free
<1> HIDE DEF f
<1>4. Typed(f)
  BY <1>3, SMTT(60) DEF Typed, Frame, Fields, Keepers, Sound, Static
<1>5. /\ DOMAIN g.s = Fields /\ \A x \in Fields \ {"uname"} : g.s[x] = f[x]
      /\ g.pwd \in Users \cup {None}
  BY Zenon, <1>4, UamName
<1> HIDE DEF g
<1>6. /\ Frame(s, t, "srp") /\ t.db = s.db /\ t.ch = s.ch /\ t.judged = s.judged
      /\ DOMAIN t.srp = {"v", "pwd"} /\ t.srp.v = 0 /\ t.srp.pwd = g.pwd
  BY <1>3, <1>5 DEF Frame, Fields
<1> HIDE DEF t
<1>7. /\ Frame(s, e, "srp") /\ e.db = s.db /\ e.ch = s.ch /\ e.judged = s.judged
      /\ e.srp = [v |-> 0, pwd |-> None]
  BY Zenon, <1>6 DEF Frame, Fields, srp_session_free
<1> HIDE DEF e
<1>8. DOMAIN i = Fields /\ i.ch = t.ch + 1 /\ \A x \in Fields \ {"ch"} : i[x] = t[x]
  BY Zenon, <1>6, Issued DEF Frame
<1> HIDE DEF i
<1>9. /\ Frame(s, b, "srp") /\ b.db = s.db /\ b.ch = s.ch + 1 /\ b.judged = s.judged
      /\ DOMAIN b.srp = {"v", "pwd"} /\ b.srp.v = b.ch /\ b.srp.pwd = g.pwd
  BY ZenonT(60), <1>6, <1>8 DEF Frame, Fields
<1> HIDE DEF b
<1>10. CASE o = Out(f, "ERR", None) \/ o = Out(t, "ERR", None) \/ o = Out(e, "ERR", None)
  <2>1. (o.s = f \/ o.s = t \/ o.s = e) /\ o.rc = "ERR"
    BY SMTT(30), <1>10 DEF Out
  <2> QED
    BY <1>3, <1>5, <1>6, <1>7, <2>1, SMTT(60)
    DEF Typed, Answer, Moved, Turn, Challenge, Sound, Static, Proven, Stays
<1>11. CASE o = Out(b, "AUTHCONT", None)
  <2>1. o.s = b /\ o.rc = "AUTHCONT"
    BY Zenon, <1>11 DEF Out
  <2>2. Known(b, now)
    BY SMTT(30), <1>9, KnownKept DEF Frame, Fields, Carried
  <2>3. Named(b)
    BY Zenon, <1>9 DEF Frame, Fields, Named, Module, auth_uamfind
  <2> QED
    BY Zenon, <1>5, <1>9, <2>1, <2>2, <2>3
    DEF Typed, Answer, Moved, Turn, Challenge, Sound, Static, Proven, Stays
<1> QED
  BY Zenon, <1>1, <1>10, <1>11

(* srp_logincont frees its session before it answers and lets in the user whose
   verifier it compared with. *)
LEMMA SrpSecond ==
  ASSUME LoginAssumption, NEW s, Typed(s), NEW seen, NEW now, NEW r \in Replies,
         Carried(s, r, seen, now), Known(s, seen), Named(s), NEW o \in srp_logincont(s, r)
  PROVE  Answer(s, o, now, "srp")
<1> DEFINE f == srp_session_free(s)
           j == Judge(f, s.srp.v)
<1>1. \/ o = Out(f, "ERR", None) \/ o = Out(j, "ERR", None)
      \/ Right(s, r, s.srp.pwd) /\ o = Out(j, "OK", s.srp.pwd)
  BY Zenon DEF srp_logincont, M1_expected, Refuse, MayFail
<1>2. DOMAIN s = Fields /\ s.srp.pwd \in Users \cup {None}
  BY Zenon DEF Typed, Sound, Keepers
<1>3. /\ Frame(s, f, "srp") /\ f.db = s.db /\ f.ch = s.ch /\ f.judged = s.judged
      /\ f.srp = [v |-> 0, pwd |-> None] /\ f.uname = s.uname
  BY Zenon, <1>2 DEF Frame, Fields, srp_session_free
<1> HIDE DEF f
<1>4. /\ DOMAIN j = Fields /\ \A x \in Fields \ {"judged"} : j[x] = f[x]
      /\ j.judged = [x \in 1..MaxExchanges |-> s.judged[x] + IF x = s.srp.v THEN 1 ELSE 0]
  BY <1>3, Judged, SMTT(60) DEF Frame
<1> HIDE DEF j
<1>5. /\ Frame(s, j, "srp") /\ j.db = s.db /\ j.ch = s.ch /\ j.uname = s.uname /\ j.srp = f.srp
  BY SMTT(30), <1>3, <1>4 DEF Frame, Fields
<1>6. Moved(s, f, "srp") /\ Moved(s, j, "srp")
  BY <1>3, <1>4, <1>5, SMTT(60) DEF Typed, Moved, Turn, Challenge, Sound, Static
<1>7. CASE o = Out(f, "ERR", None)
  BY Zenon, <1>3, <1>6, <1>7 DEF Out, Answer, Proven, Stays
<1>8. CASE o = Out(j, "ERR", None) \/ (Right(s, r, s.srp.pwd) /\ o = Out(j, "OK", s.srp.pwd))
  <2>1. o.s = j
    BY SMTT(30), <1>8 DEF Out
  <2>2. Proven(o, now)
    BY <1>2, <1>8, SMTT(60) DEF Out, Proven, Carried, Right
  <2>3. Known(j, now) /\ Named(j)
    BY <1>5, KnownKept, NamedKept, SMTT(60) DEF Frame, Fields, Carried
  <2> QED
    BY Zenon, <1>5, <1>6, <2>1, <2>2, <2>3 DEF Answer
<1> QED
  BY Zenon, <1>1, <1>7, <1>8
=============================================================================
