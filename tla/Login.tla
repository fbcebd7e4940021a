------------------------------- MODULE Login --------------------------------
(***************************************************************************)
(* Logging in (etc/afpd/auth.c, etc/afpd/uam.c) through the authentication *)
(* modules of etc/uams.  One session process: its command table, the       *)
(* exchange it has begun, the static state of every module, which outlives *)
(* the calls, and PAM's handles.                                           *)
(*                                                                         *)
(* Cryptography is ideal.  A challenge is a number, never issued twice, 0  *)
(* when it has been cleared; a reply names the challenge it answers and    *)
(* the password (a user and a generation of it) it was made with, and      *)
(* decrypts only under the key of that challenge.  Each operator below     *)
(* takes the state and returns the set of [s, rc, pwd] the C function can  *)
(* produce: the new state, the result code and *uam_pwd.                   *)
(***************************************************************************)
EXTENDS Integers, Sequences, FiniteSets

CONSTANTS Users, Root, Guest,  \* the password database; Root and Guest are in it
          None,
          Names,               \* what a client may send as a user name
          Alias,               \* the user getpwnam or the GECOS field gives a name
          LoginConfigs,        \* configurations: the module list, the members of
                               \* the admin group, expired passwords, whether the
                               \* server is full, checks shells, serves one user
                               \* only or forces one (or None)
          MaxExchanges

(* The database has the superuser and the guest; a name stands for a user of it
   or for nobody, a user's own name for that user (getpwnam comes first), and the
   user that "force user" names is in it. *)
LoginAssumption ==
  /\ {Root, Guest} \subseteq Users /\ {None, "frame"} \cap Users = {}
  /\ Users \subseteq Names /\ Alias \in [Names -> Users \cup {None}]
  /\ \A u \in Users : Alias[u] = u
  /\ \A c \in LoginConfigs : c.force \in Users \cup {None}
  /\ MaxExchanges \in Nat

VARIABLES lg,     \* the process
          lgSeen  \* the users whose password a message has carried so far

lgVars == <<lg, lgSeen>>

Out(s, rc, pwd) == [s |-> s, rc |-> rc, pwd |-> pwd]
Refuse(s) == {Out(s, "ERR", None)}
(* A call to libgcrypt, malloc or /dev/urandom that fails. *)
MayFail(s, rest) == Refuse(s) \cup rest

(* A reply: sound framing or not, the challenge and the password used; in a
   password change also the user of the packet, and a new password. *)
Replies == [whole : {0, 1}, sid : {0, 1}, ch : 0..MaxExchanges,
            user : Users, gen : {0, 1}]
(* The first message of a method carries a name, in cleartext a password too. *)
FirstMessages(uam) ==
  {r \in Replies : r.sid = 1 /\ r.ch = 0 /\ (uam # "Cleartxt" => r.gen = 0 /\ r.user = Guest)}
Right(s, r, u) == r.user = u /\ r.gen = s.db[u]
Judge(s, c) ==
  [s EXCEPT !.judged = [x \in 1..MaxExchanges |-> s.judged[x] + IF x = c THEN 1 ELSE 0]]
Issue(s) == [s EXCEPT !.ch = @ + 1]

-----------------------------------------------------------------------------
(* etc/afpd/uam.c *)

(* The name in the session's buffer becomes the one the database uses. *)
uam_getname(s, n) ==
  Out([s EXCEPT !.uname = IF Alias[n] = None THEN n ELSE Alias[n]], "OK", Alias[n])

(* OPTION_VALID_SHELLCHECK: a user without a login shell, here the guest
   account, is refused. *)
uam_checkuser(s, u) == u # None /\ (s.conf.shell = 1 => u # Guest)

(* A name is taken by the module that registers it first; the same module may
   register it again. *)
uam_register(reg, name, mod) ==
  IF name \in DOMAIN reg THEN <<reg, reg[name] = mod>>
  ELSE <<[n \in DOMAIN reg \cup {name} |-> IF n = name THEN mod ELSE reg[n]], TRUE>>

(* What each module's uam_setup registers, in order. *)
Registers == [guest |-> <<"NoAuth">>, passwd |-> <<"Cleartxt">>,
              pam |-> <<"Cleartxt", "Cleartxt-pw">>,
              randnum |-> <<"Randnum", "2-Way", "Randnum-pw">>,
              dhx |-> <<"DHX">>, dhxp |-> <<"DHX", "DHX-pw">>,
              dhx2 |-> <<"DHX2">>, dhx2p |-> <<"DHX2", "DHX2-pw">>,
              srp |-> <<"SRP">>, gss |-> <<"Krb">>]

(* auth_load and uam_load: a module whose first name is taken is unloaded, the
   others stay. *)
auth_load(list) ==
  LET load[i \in 0..Len(list)] ==
        IF i = 0 THEN <<>>
        ELSE LET m == list[i]
                 n == Registers[m]
                 add[k \in 0..Len(n)] ==
                   IF k = 0 THEN load[i - 1] ELSE uam_register(add[k - 1], n[k], m)[1]
             IN IF uam_register(load[i - 1], n[1], m)[2] THEN add[Len(n)]
                ELSE load[i - 1]
  IN load[Len(list)]

auth_uamfind(s, name) == IF name \in DOMAIN s.reg THEN s.reg[name] ELSE None

-----------------------------------------------------------------------------
(* etc/uams: modules with one message *)

noauth_login(s) ==
  {Out([s EXCEPT !.uname = Guest], "OK", Guest), Out([s EXCEPT !.uname = Guest], "ERR", None)}

(* uams_passwd.c: an expired password is reported before *uam_pwd is set, so it
   refuses the login. *)
pwd_login(s, n, r) ==
  LET g == uam_getname(s, n)  u == g.pwd
  IN IF ~uam_checkuser(s, u) THEN Refuse(g.s)
     ELSE IF u \in s.conf.expired THEN {Out(g.s, "PWDEXPR", None)}
     ELSE IF Right(s, r, u) THEN {Out(g.s, "OK", u)} ELSE {Out(g.s, "ERR", u)}

(* Like every passwd_login, pam_login and *_login_ext below: the name is copied
   out of a packet that must be long enough to hold it. *)
passwd_login(s, n, r) == IF r.whole = 0 THEN Refuse(s) ELSE pwd_login(s, n, r)

(* pam_start .. pam_open_session.  Only the right password authenticates; an
   account may still be refused, or be told to change its password, which the
   DHX and the cleartext module let pass and DHX2 does not. *)
PamLogin(s, mod, user, r, lenient) ==
  LET fail == {Out(s, "ERR", None), Out(s, "PWDEXPR", None)}
      open == [s EXCEPT !.pam = @ \cup {mod}]
      change == IF lenient = 1 THEN {Out(open, "PWDEXPR", user)} ELSE {}
  IN fail \cup (IF Right(s, r, user) THEN {Out(open, "OK", user)} \cup change ELSE {})

pam_login(s, n, r) ==
  LET g == uam_getname(s, n)
  IN IF r.whole = 0 \/ g.pwd = None THEN Refuse(g.s)
     ELSE PamLogin(g.s, "pam", g.pwd, r, 1)

(* The old password authenticates, the new one must differ from it. *)
pam_changepw(s, u, r) ==
  IF r.whole = 0 THEN Refuse(s)
  ELSE Refuse(s) \cup
       (IF Right(s, r, u) THEN {Out([s EXCEPT !.db[u] = 1 - @], "OK", u)} ELSE {})

(* Kerberos: the ticket, not the packet, names the user; a reply stands for a
   ticket, good when its password is the user's. *)
gss_login(s) == {Out(s, "AUTHCONT", None)}

(* accept_sec_context, then the client's name, the wrapped key and the reply,
   each of which may fail after a good ticket. *)
do_gss_auth(s, r) == IF Right(s, r, r.user) THEN {r.user, None} ELSE {None}

gss_logincont(s, r) ==
  IF r.whole = 0 \/ s.key = 0 THEN Refuse(s)
  ELSE UNION {IF n = None THEN Refuse(s)
              ELSE LET g == uam_getname(s, n)
                   IN IF uam_checkuser(s, g.pwd) THEN {Out(g.s, "OK", g.pwd)} ELSE Refuse(g.s)
              : n \in do_gss_auth(s, r)}

-----------------------------------------------------------------------------
(* uams_randnum.c: seskey holds the user's password, randbuf the challenge *)

(* afppasswd looks for the user's line; there may be none, and
   afppasswd_open_keyfile and the cipher may fail. *)
afppasswd(u, keyfile) == IF keyfile = "bad" THEN {None} ELSE {u, None}
afppasswd_open_keyfile == {"absent", "good", "bad"}
randpass(u) == UNION {afppasswd(u, k) : k \in afppasswd_open_keyfile}

rand_login(s, n) ==
  LET g == uam_getname(s, n)  u == g.pwd
      t == [g.s EXCEPT !.rnd.pwd = u]
  IN IF ~uam_checkuser(s, u) THEN Refuse(t)
     ELSE UNION {IF k = None THEN Refuse(t)
                 ELSE LET i == Issue([t EXCEPT !.rnd.key = <<u, s.db[u]>>])
                      IN MayFail(i, {Out([i EXCEPT !.rnd.buf = i.ch], "AUTHCONT", None)})
                 : k \in randpass(u)}

randnum_login(s, n, r) == IF r.whole = 0 THEN Refuse(s) ELSE rand_login(s, n)

(* randbuf is encrypted in place and cleared whether or not it matched. *)
randnum_logincont(s, r) ==
  LET t == [Judge(s, s.rnd.buf) EXCEPT !.rnd.buf = 0]
  IN IF r.sid = 0 THEN Refuse(s)
     ELSE IF r.ch = s.rnd.buf /\ <<r.user, r.gen>> = s.rnd.key
     THEN {Out(t, "OK", s.rnd.pwd)} ELSE Refuse(t)

(* The two-way exchange shifts seskey in place before it encrypts, so that a
   further reply has to be made with the password shifted again. *)
rand2num_logincont(s, r) == randnum_logincont(s, r)

(* The old and the new password, each encrypted with the other. *)
randnum_changepw(s, u, r) ==
  LET t == [s EXCEPT !.rnd.key = <<>>]
  IN IF ~uam_checkuser(s, u) THEN Refuse(s)
     ELSE UNION {IF k = None THEN Refuse(s)
                 ELSE Refuse(t) \cup
                      (IF Right(s, r, u) THEN {Out([t EXCEPT !.db[u] = 1 - @], "OK", u)} ELSE {})
                 : k \in randpass(u)}

-----------------------------------------------------------------------------
(* uams_dhx_passwd.c and uams_dhx_pam.c: K is the session key, randbuf the
   challenge *)

dhx_pwd_login(s, n) ==
  LET t0 == [s EXCEPT !.dhx.K = s.ch + 1]
      g == uam_getname(t0, n)  u == g.pwd
      t == [g.s EXCEPT !.dhx.pwd = u]
  IN Refuse([s EXCEPT !.dhx.K = 0]) \cup
     (IF ~uam_checkuser(s, u) THEN Refuse(t)
      ELSE LET i == Issue(t)
           IN Refuse([i EXCEPT !.dhx.K = 0]) \cup
              {Out([i EXCEPT !.dhx.buf = i.ch], "AUTHCONT", None)})

dhx_passwd_login(s, n, r) == IF r.whole = 0 THEN Refuse(s) ELSE dhx_pwd_login(s, n)

(* Mutant: *uam_pwd is set before the password is compared, so an expired
   password is never compared at all. *)
dhx_passwd_logincont_early(s, r) ==
  LET t == [s EXCEPT !.dhx.K = 0]
      j == [Judge(t, s.dhx.buf) EXCEPT !.dhx.buf = 0]
      u == s.dhx.pwd
  IN IF s.dhx.K = 0 THEN Refuse(s)
     ELSE IF r.whole = 0 THEN Refuse([t EXCEPT !.dhx.buf = 0])
     ELSE IF r.sid = 0 THEN Refuse(t)
     ELSE IF r.ch # s.dhx.buf THEN Refuse(j)
     ELSE {Out(j, IF u \in s.conf.expired THEN "PWDEXPR" ELSE IF Right(s, r, u) THEN "OK" ELSE "ERR", u)}

(* The password is compared before its expiry is looked at: expired and wrong
   gives AFPERR_PWDEXPR without *uam_pwd. *)
dhx_passwd_logincont(s, r) ==
  LET t == [s EXCEPT !.dhx.K = 0]
      j == [Judge(t, s.dhx.buf) EXCEPT !.dhx.buf = 0]
      u == s.dhx.pwd
  IN IF s.dhx.K = 0 THEN Refuse(s)
     ELSE IF r.whole = 0 THEN Refuse([t EXCEPT !.dhx.buf = 0])
     ELSE IF r.sid = 0 THEN Refuse(t)
     ELSE IF r.ch # s.dhx.buf THEN Refuse(j)
     ELSE {Out(j, IF u \in s.conf.expired THEN "PWDEXPR" ELSE IF Right(s, r, u) THEN "OK" ELSE "ERR",
                  IF Right(s, r, u) THEN u ELSE None)}

(* A new exchange clears the old challenge first and every failure leaves
   neither key nor challenge. *)
dhx_setup(s) ==
  LET i == Issue(s)
  IN {Out([s EXCEPT !.dhxp.K = 0, !.dhxp.buf = 0], "ERR", None),
      Out([i EXCEPT !.dhxp.K = i.ch, !.dhxp.buf = i.ch], "AUTHCONT", None)}

dhx_pam_login(s, n, r) ==
  LET g == uam_getname(s, n)
      t == [g.s EXCEPT !.dhxp.pwd = g.pwd]
  IN IF r.whole = 0 THEN Refuse(s) ELSE IF g.pwd = None THEN Refuse(t) ELSE dhx_setup(t)

(* The part pam_logincont and pam_changepw share: the key is used once, the
   nonce must be the challenge plus one. *)
dhx_cleared(s) == [s EXCEPT !.dhxp.K = 0, !.dhxp.buf = 0]

(* PAM is asked about the session's user name, and *uam_pwd is what login
   looked up. *)
dhx_pam_logincont(s, r) ==
  LET t == dhx_cleared(s)
      j == Judge(t, s.dhxp.buf)
  IN IF s.dhxp.K = 0 \/ r.whole = 0 \/ r.sid = 0 THEN Refuse(t)
     ELSE IF r.ch # s.dhxp.buf THEN Refuse(j)
     ELSE {[o EXCEPT !.pwd = IF @ = None THEN None ELSE s.dhxp.pwd] :
             o \in PamLogin(j, "dhxp", s.uname, r, 1)}

(* Mutant: the key and the challenge survive a reply that did not match. *)
dhx_pam_changepw_kept(s, u, r) ==
  IF r.sid = 0 THEN dhx_setup(s)
  ELSE IF s.dhxp.K = 0 THEN Refuse(dhx_cleared(s))
  ELSE IF r.ch # s.dhxp.buf THEN Refuse(Judge(s, s.dhxp.buf))
  ELSE LET j == Judge(dhx_cleared(s), s.dhxp.buf)
       IN Refuse(j) \cup
          (IF Right(s, r, u) THEN {Out([j EXCEPT !.db[u] = 1 - @], "OK", u)} ELSE {})

(* Without a session id it begins an exchange, with one it ends it; a packet
   without room for an id only loses the challenge. *)
dhx_pam_changepw(s, u, r) ==
  IF r.sid = 0 /\ r.whole = 0 THEN Refuse([s EXCEPT !.dhxp.buf = 0])
  ELSE IF r.sid = 0 THEN dhx_setup(s)
  ELSE IF s.dhxp.K = 0 \/ r.whole = 0 THEN Refuse(dhx_cleared(s))
  ELSE LET j == Judge(dhx_cleared(s), s.dhxp.buf)
       IN IF r.ch # s.dhxp.buf THEN Refuse(j)
          ELSE Refuse(j) \cup
               (IF Right(s, r, u) THEN {Out([j EXCEPT !.db[u] = 1 - @], "OK", u)} ELSE {})

-----------------------------------------------------------------------------
(* uams_dhx2_passwd.c and uams_dhx2_pam.c: three messages *)

dhx2_clear_session(x) == [x EXCEPT !.st = "IDLE", !.K = 0, !.nonce = 0]

dhx2_passwd_setup(s) ==
  LET c == [s EXCEPT !.dhx2 = dhx2_clear_session(@)]
      i == Issue(c)
  IN MayFail(c, {Out([i EXCEPT !.dhx2.st = "CONT1", !.dhx2.K = i.ch], "AUTHCONT", None)})

(* An unknown user leaves the exchange of before alone. *)
dhx2_passwd_login(s, n, r) ==
  LET g == uam_getname(s, n)
      t == [g.s EXCEPT !.dhx2.pwd = g.pwd]
  IN IF r.whole = 0 THEN Refuse(s)
     ELSE IF g.pwd = None THEN Refuse(t) ELSE dhx2_passwd_setup(t)

dhx2_passwd_logincont1(s, r) ==
  LET c == [s EXCEPT !.dhx2 = dhx2_clear_session(@)]
      i == Issue(s)
  IN IF r.whole = 0 \/ r.ch # s.dhx2.K THEN Refuse(c)
     ELSE MayFail(c, {Out([i EXCEPT !.dhx2.st = "CONT2", !.dhx2.nonce = i.ch], "AUTHCONT", None)})

(* Expired and wrong is AFPERR_PWDEXPR without *uam_pwd; every path clears the
   session. *)
dhx2_passwd_logincont2(s, r) ==
  LET c == [s EXCEPT !.dhx2 = dhx2_clear_session(@)]
      j == Judge(c, s.dhx2.nonce)
      u == s.dhx2.pwd
  IN IF r.whole = 0 THEN Refuse(c)
     ELSE IF r.ch # s.dhx2.nonce THEN Refuse(j)
     ELSE {Out(j, IF u \in s.conf.expired THEN "PWDEXPR" ELSE IF Right(s, r, u) THEN "OK" ELSE "ERR",
                  IF Right(s, r, u) THEN u ELSE None)}

dhx2_passwd_logincont(s, r) ==
  IF r.sid = 1 /\ s.dhx2.st = "CONT1" THEN dhx2_passwd_logincont1(s, r)
  ELSE IF r.sid = 1 /\ s.dhx2.st = "CONT2" THEN dhx2_passwd_logincont2(s, r)
  ELSE Refuse([s EXCEPT !.dhx2 = dhx2_clear_session(@)])

dhx2_setup(s) ==
  LET c == [s EXCEPT !.dhx2p = dhx2_clear_session(@)]
      i == Issue(c)
  IN MayFail(c, {Out([i EXCEPT !.dhx2p.st = "CONT1", !.dhx2p.K = i.ch], "AUTHCONT", None)})

dhx2_pam_login(s, n, r) ==
  LET g == uam_getname(s, n)
      t == [g.s EXCEPT !.dhx2p.pwd = g.pwd]
  IN IF r.whole = 0 THEN Refuse(s) ELSE IF g.pwd = None THEN Refuse(t)
     ELSE dhx2_setup([t EXCEPT !.dhx2p.pname = g.pwd])

(* Called outside CONT1 it changes nothing. *)
dhx2_logincont1(s, r) ==
  LET c == [s EXCEPT !.dhx2p = dhx2_clear_session(@)]
      i == Issue(s)
  IN IF s.dhx2p.st # "CONT1" THEN Refuse(s)
     ELSE IF r.whole = 0 \/ r.ch # s.dhx2p.K THEN Refuse(c)
     ELSE MayFail(c, {Out([i EXCEPT !.dhx2p.st = "CONT2", !.dhx2p.nonce = i.ch], "AUTHCONT", None)})

(* PAM is asked about PAM_username, which a password change points at its own
   stack frame: its content is the name of the last FPChangePassword. *)
PamName(s) == IF s.dhx2p.pname = "frame" THEN s.frame ELSE s.dhx2p.pname

dhx2_logincont2(s, r) ==
  LET c == [s EXCEPT !.dhx2p = dhx2_clear_session(@)]
      j == Judge(c, s.dhx2p.nonce)
  IN IF s.dhx2p.st # "CONT2" \/ r.whole = 0 THEN Refuse(c)
     ELSE IF r.ch # s.dhx2p.nonce THEN Refuse(j)
     ELSE {[o EXCEPT !.pwd = IF @ = None THEN None ELSE s.dhx2p.pwd] :
             o \in PamLogin(j, "dhx2p", PamName(s), r, 0)}

dhx2_pam_logincont(s, r) ==
  IF r.sid = 1 /\ s.dhx2p.st = "CONT1" THEN dhx2_logincont1(s, r)
  ELSE IF r.sid = 1 /\ s.dhx2p.st = "CONT2" THEN dhx2_logincont2(s, r)
  ELSE Refuse([s EXCEPT !.dhx2p = dhx2_clear_session(@)])

changepw_3(s, r) ==
  LET c == [s EXCEPT !.dhx2p = dhx2_clear_session(@)]
      j == Judge(c, s.dhx2p.nonce)
      u == PamName(s)
  IN IF s.dhx2p.st # "CONT2" \/ r.whole = 0 THEN Refuse(c)
     ELSE IF r.ch # s.dhx2p.nonce THEN Refuse(j)
     ELSE Refuse(j) \cup
          (IF Right(s, r, u) THEN {Out([j EXCEPT !.db[u] = 1 - @], "OK", u)} ELSE {})

(* A static counts the three calls; whatever the third returns, the next one
   begins again. *)
dhx2_changepw(s, r) ==
  LET step(outs, to) == {[o EXCEPT !.s.dhx2p.call = IF o.rc = "AUTHCONT" THEN to ELSE 1] :
                           o \in outs}
  IN CASE s.dhx2p.call = 1 -> step(dhx2_setup([s EXCEPT !.dhx2p.pname = "frame"]), 2)
       [] s.dhx2p.call = 2 -> step(dhx2_logincont1(s, r), 3)
       [] s.dhx2p.call = 3 -> step(changepw_3(s, r), 1)

-----------------------------------------------------------------------------
(* uams_srp.c *)

srp_session_free(s) == [s EXCEPT !.srp = [v |-> 0, pwd |-> None]]

(* Any status but SRP_VERIFIER_OK: the file is missing, unsafe, disabled or
   malformed. *)
srp_lookup_verifier(u) == IF u = None THEN {0} ELSE {0, 1}

srp_setup(s) ==
  LET i == Issue(s)
  IN UNION {IF ok = 0 THEN Refuse(srp_session_free(s))
            ELSE MayFail(srp_session_free(s),
                         {Out([i EXCEPT !.srp.v = i.ch], "AUTHCONT", None)})
            : ok \in srp_lookup_verifier(s.srp.pwd)}

srp_login(s, n, r) ==
  LET g == uam_getname(srp_session_free(s), n)
      t == [g.s EXCEPT !.srp.pwd = g.pwd]
  IN IF r.whole = 0 THEN Refuse(srp_session_free(s))
     ELSE IF ~uam_checkuser(s, g.pwd) THEN Refuse(t) ELSE srp_setup(t)

(* M1 is made from both public keys, the salt, the name and the password: only
   the right password and this exchange's keys give it. *)
M1_expected(s, r) == r.ch = s.srp.v /\ Right(s, r, s.srp.pwd)

srp_logincont(s, r) ==
  LET f == srp_session_free(s)
      j == Judge(f, s.srp.v)
  IN IF s.srp.v = 0 \/ r.whole = 0 THEN Refuse(f)
     ELSE IF M1_expected(s, r) THEN MayFail(j, {Out(j, "OK", s.srp.pwd)})
     ELSE Refuse(j)

-----------------------------------------------------------------------------
(* etc/afpd/auth.c *)

(* The login, second-message and password function of a registered method; any
   other name is refused (AFPERR_BADUAM). *)
UamLogin(s, uam, n, r) ==
  LET m == auth_uamfind(s, uam)
  IN CASE m = "guest" -> noauth_login(s)
       [] m = "passwd" -> passwd_login(s, n, r)
       [] m = "pam" -> pam_login(s, n, r)
       [] m = "randnum" -> randnum_login(s, n, r)
       [] m = "dhx" -> dhx_passwd_login(s, n, r)
       [] m = "dhxp" -> dhx_pam_login(s, n, r)
       [] m = "dhx2" -> dhx2_passwd_login(s, n, r)
       [] m = "dhx2p" -> dhx2_pam_login(s, n, r)
       [] m = "srp" -> srp_login(s, n, r)
       [] m = "gss" -> gss_login(s)
       [] OTHER -> Refuse(s)

UamLogincont(s, r) ==
  LET m == auth_uamfind(s, s.uam)
  IN CASE s.uam = "Randnum" -> randnum_logincont(s, r)
       [] s.uam = "2-Way" -> rand2num_logincont(s, r)
       [] m = "dhx" -> dhx_passwd_logincont(s, r)
       [] m = "dhxp" -> dhx_pam_logincont(s, r)
       [] m = "dhx2" -> dhx2_passwd_logincont(s, r)
       [] m = "dhx2p" -> dhx2_pam_logincont(s, r)
       [] m = "srp" -> srp_logincont(s, r)
       [] m = "gss" -> gss_logincont(s, r)
       [] OTHER -> Refuse(s)

UamChangepw(s, uam, u, r) ==
  CASE uam = "Randnum-pw" -> randnum_changepw(s, u, r)
    [] uam = "DHX-pw" -> dhx_pam_changepw(s, u, r)
    [] uam = "DHX2-pw" -> dhx2_changepw(s, r)
    [] uam = "Cleartxt-pw" -> pam_changepw(s, u, r)
    [] OTHER -> Refuse(s)

(* The table of before a login keeps only logout and changepw once a password
   has expired; the table of after a login replaces it for good. *)
set_auth_switch(s, expired) ==
  [s EXCEPT !.sw = IF expired = 0 THEN "post" ELSE IF @ = "pre" THEN "expired" ELSE @]

singleuser_admits_uid(s, u) == s.conf.single \in {None, u}

(* initgroups needs euid 0; when it fails the groups stay those of before. *)
set_groups(s, u) == [s EXCEPT !.groups = IF s.euid = Root THEN u ELSE @]

(* An administrator keeps root; everyone else becomes the user, which a process
   that has already given root away can only do for the user it is. *)
login(s, u, logout, expired) ==
  LET g == set_groups(s, u)
      admin == g.groups \in s.conf.admins
      e == IF admin THEN g.euid ELSE u
      f == IF s.conf.force = None THEN e ELSE s.conf.force
      may(a, b) == a = Root \/ a = b
  IN IF u = Root \/ ~singleuser_admits_uid(s, u) \/ s.conf.full = 1 THEN Out(s, "ERR", None)
     ELSE IF ~may(g.euid, e) \/ ~may(e, f) THEN Out(g, "ERR", None)
     ELSE Out([set_auth_switch(g, expired) EXCEPT
                 !.logout = logout, !.uid = u, !.euid = f], "OK", u)

(* Everything but AFP_OK and AFPERR_AUTHCONT ends the process, and
   afp_dsi_close runs the logout of the module that let the session in; the
   modules' memory goes with the process. *)
Gone == [K |-> 0]
afp_dsi_close(s) ==
  [s EXCEPT !.alive = 0, !.pam = @ \ {s.logout}, !.uam = None, !.uname = None,
            !.frame = None, !.rnd = Gone, !.dhx = Gone, !.dhxp = Gone,
            !.dhx2 = [st |-> "IDLE"], !.dhx2p = [st |-> "IDLE"], !.srp = Gone]
send_reply(o) == IF o.rc \in {"OK", "AUTHCONT"} THEN o.s ELSE afp_dsi_close(o.s)

(* What afp_login, afp_login_ext and afp_logincont do with the module's answer:
   without *uam_pwd there is no login, whatever the code. *)
Answered(o) ==
  IF o.rc = "AUTHCONT" \/ o.pwd = None \/ o.rc \notin {"OK", "PWDEXPR"} THEN o
  ELSE login(o.s, o.pwd, auth_uamfind(o.s, o.s.uam), IF o.rc = "PWDEXPR" THEN 1 ELSE 0)

create_session_key(s) == {[s EXCEPT !.key = 1]}

Dispatches(s, tables) == s.alive = 1 /\ s.sw \in tables
Took(r) == lgSeen' = lgSeen \cup (IF Right(lg, r, r.user) THEN {r.user} ELSE {})

afp_login(uam, n, r) ==
  /\ Dispatches(lg, {"pre", "post"}) /\ lg.ch < MaxExchanges
  /\ \E s \in create_session_key([lg EXCEPT !.uam = uam]) :
     \E o \in UamLogin(s, uam, n, r) : lg' = send_reply(Answered(o))
  /\ Took(r)

afp_login_ext(uam, n, r) == lg.sw = "pre" /\ afp_login(uam, n, r)

(* The version, the framing or the method is not one the server knows, or it
   is going down. *)
afp_login_refused ==
  /\ Dispatches(lg, {"pre", "post"})
  /\ lg' = send_reply(Out(lg, "ERR", None))
  /\ UNCHANGED lgSeen

afp_logincont(r) ==
  /\ Dispatches(lg, {"pre", "post"}) /\ lg.uam # None
  /\ lg.ch < MaxExchanges \/ auth_uamfind(lg, lg.uam) \notin {"dhx2", "dhx2p"}
  /\ \E o \in UamLogincont(lg, r) : lg' = send_reply(Answered(o))
  /\ Took(r)

(* The user is the session's (AFP 3); an error does not end the session. *)
afp_changepw(uam, r) ==
  /\ Dispatches(lg, {"expired", "post"}) /\ lg.ch < MaxExchanges
  /\ \E o \in UamChangepw([lg EXCEPT !.frame = lg.uname], uam, lg.uname, r) :
       lg' = IF o.rc = "OK" THEN set_auth_switch(o.s, 0) ELSE o.s
  /\ Took(r)

(* The client logs out or goes away. *)
afp_logout ==
  /\ lg.alive = 1
  /\ lg' = afp_dsi_close(lg)
  /\ UNCHANGED lgSeen

-----------------------------------------------------------------------------
LoginInit ==
  /\ lgSeen = {}
  /\ \E c \in LoginConfigs :
       lg = [conf |-> c, alive |-> 1, sw |-> "pre", uam |-> None, uid |-> None, euid |-> Root,
             groups |-> Root, logout |-> None, key |-> 0,
             reg |-> auth_load(c.list), uname |-> None, frame |-> None,
             db |-> [u \in Users |-> 0], judged |-> [x \in 1..MaxExchanges |-> 0],
             ch |-> 0, pam |-> {},
             rnd |-> [pwd |-> None, key |-> <<>>, buf |-> 0],
             dhx |-> [K |-> 0, pwd |-> None, buf |-> 0],
             dhxp |-> [K |-> 0, pwd |-> None, buf |-> 0],
             dhx2 |-> [st |-> "IDLE", K |-> 0, nonce |-> 0, pwd |-> None],
             dhx2p |-> [st |-> "IDLE", K |-> 0, nonce |-> 0, pwd |-> None,
                        pname |-> None, call |-> 1],
             srp |-> [v |-> 0, pwd |-> None]]

LoginMethods == {"NoAuth", "Cleartxt", "Randnum", "2-Way", "DHX", "DHX2", "SRP", "Krb"}

LoginNext ==
  \/ \E uam \in DOMAIN lg.reg \cap LoginMethods, n \in Names :
       \E r \in FirstMessages(uam) : afp_login(uam, n, r) \/ afp_login_ext(uam, n, r)
  \/ afp_login_refused
  \/ \E r \in Replies : afp_logincont(r)
  \/ \E uam \in DOMAIN lg.reg \ LoginMethods, r \in Replies : afp_changepw(uam, r)
  \/ afp_logout

LoginSpec == LoginInit /\ [][LoginNext]_lgVars

-----------------------------------------------------------------------------
LoginTypeOK ==
  /\ lg.alive \in {0, 1} /\ lg.sw \in {"pre", "expired", "post"}
  /\ lg.uid \in Users \cup {None} /\ lg.euid \in Users /\ lg.ch \in 0..MaxExchanges
  /\ lg.dhx2.st \in {"IDLE", "CONT1", "CONT2"} /\ lg.dhx2p.st \in {"IDLE", "CONT1", "CONT2"}
  /\ lgSeen \subseteq Users

(* A session runs as a user, or changes a user's password, only after one of its
   messages carried the password (or a ticket) of that user, guests excepted: no
   order of logins, second messages and password changes, over one method or
   several, leaves a module's static state such that *uam_pwd names another user
   than the one PAM, the key file or the verifier was asked about (login,
   *_logincont, *_changepw). *)
LoginProven ==
  /\ lg.uid \in Users \ {Guest} => lg.uid \in lgSeen
  /\ lg.euid # Root => lg.euid \in {lg.uid, lg.conf.force}
  /\ lg.sw = "post" => lg.uid # None
  /\ \A u \in Users : lg.db[u] # 0 => u \in lgSeen

(* Every challenge is compared with one reply at most: a reply, right or wrong,
   uses up the key or the nonce it answered (the session cleanup of every
   *_logincont and *_changepw). *)
ChallengeOnce == \A c \in 1..MaxExchanges : lg.judged[c] <= 1

=============================================================================
