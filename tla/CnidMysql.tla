----------------------------- MODULE CnidMysql -----------------------------
(***************************************************************************)
(* The CNID table of one volume in MySQL (libatalk/cnid/cnid_mysql.c) and  *)
(* the sessions that share it.  Unlike the SQLite backend it uses no       *)
(* transactions around its requests: each statement is one step, and the   *)
(* statements of the sessions interleave.                                  *)
(*                                                                         *)
(* The rows of one folder are modelled.  The server (external) runs a      *)
(* statement or refuses it for a duplicate key, for a lock it could not    *)
(* get (busy), or loses the connection, before or after it ran it.         *)
(***************************************************************************)
EXTENDS Integers, Sequences, FiniteSets, FiniteSetsExt

CONSTANTS MySessions, MyNames, MyInos,
          MyStart, MyMaxHint, MyCeiling,   \* CNID_START, CNID_MYSQL_MAX_HINT, UINT32_MAX
          MyAttempts,                      \* CNID_MYSQL_ADD_ATTEMPTS
          MyReconnects,                    \* CNID_MYSQL_RECONNECT_ATTEMPTS
          MyConfigs

VARIABLE my

myVars == <<my>>

MyIds == MyStart..(MyCeiling + 2 * Cardinality(MySessions))
NoRow == [name |-> "", ino |-> 0]
NoFile == 0

MySpend(s, what) == [s EXCEPT !.cf[what] = @ - 1]

(***************************************************************************)
(* The prepared statements.                                                *)
(***************************************************************************)
\* The order in which they are prepared.
Statements == <<"lookup", "dirlist", "add", "put", "get", "delete", "resolve", "purge">>
init_prepared_stmt == [i \in 1..Len(Statements) |-> "ok"]
close_prepared_stmt == [i \in 1..Len(Statements) |-> "null"]
\* The preparation of statement k failed: its handle exists all the same.
HalfPrepared(k) == [i \in 1..Len(Statements) |-> IF i < k THEN "ok" ELSE IF i = k THEN "bad" ELSE "null"]
Handle(c, stmt) == c.stmts[CHOOSE i \in 1..Len(Statements) : Statements[i] = stmt]

Used(rows) == {i \in MyIds : rows[i] # NoRow}
lookup_stmt(rows, name, ino) == {i \in Used(rows) : rows[i].name = name \/ rows[i].ino = ino}
get_stmt(rows, name) == {i \in Used(rows) : rows[i].name = name}
resolve_stmt(rows, id) == {i \in Used(rows) : i = id}
dirlist_stmt(rows) == Used(rows)
delete_stmt(rows, id) == [rows EXCEPT ![id] = NoRow]
purge_stmt(rows, id, name, ino) ==
    [i \in MyIds |-> IF i = id \/ i \in lookup_stmt(rows, name, ino) THEN NoRow ELSE rows[i]]
put_stmt(s, id, name, ino) ==
    [s EXCEPT !.rows[id] = [name |-> name, ino |-> ino], !.seq = Max({@, id})]
add_stmt(s, name, ino) == put_stmt(s, s.seq + 1, name, ino)
Clashes(rows, id, name, ino) == rows[id] # NoRow \/ lookup_stmt(rows, name, ino) # {}

cnid_mysql_hint_usable(hint) == hint >= MyStart /\ hint <= MyMaxHint

(***************************************************************************)
(* Calls.  at is the statement a session executes next.                    *)
(***************************************************************************)
NoCall == [at |-> "idle", op |-> "none", name |-> "", ino |-> 0, id |-> 0, hint |-> 0, can |-> 0,
           tries |-> 0, lost |-> 0, kill |-> {}, stale |-> 0]

Call(s, p) == s.con[p].call
MyGoes(s, p, at) == [s EXCEPT !.con[p].call.at = at, !.con[p].call.lost = 0]

\* The call of session p returns.  Only a result of a call that saw the folder
\* and its rows as they are, with no call in flight that did not, is kept to
\* compare.
Settled(s) == \A q \in MySessions : Call(s, q).stale = 0
Returns(s, p, rc, id) ==
    LET c == Call(s, p)
        s1 == [s EXCEPT !.con[p].call = NoCall, !.rc = rc]
    IN  IF rc = "ok" /\ c.op \in {"add", "move"} /\ Settled(s)
        THEN [s1 EXCEPT !.got[c.name] = id, !.split = IF s.got[c.name] \notin {0, id} THEN 1 ELSE @]
        ELSE s1

\* cnid_mysql_add tries again, or gives up on a row it cannot find.
TryAgain(s, p, at) ==
    LET n == Call(s, p).tries + 1
    IN  IF n < MyAttempts THEN MyGoes([s EXCEPT !.con[p].call.tries = n], p, at)
        ELSE Returns(s, p, "corrupt", 0)

(***************************************************************************)
(* Statements fail.                                                        *)
(***************************************************************************)
\* The re-preparation after a lost connection, which may fail as well.
Reprepared(s, p) ==
    {[s EXCEPT !.con[p].stmts = init_prepared_stmt]}
        \cup (IF s.cf.preps = 0 THEN {}
              ELSE {Returns([MySpend(s, "preps") EXCEPT !.con[p].stmts = HalfPrepared(k)], p, "db", 0)
                        : k \in 1..Len(Statements)})

\* What can go wrong in place of the step that leads from s to done.
Unlucky(s, done, p) ==
    (IF s.cf.busy > 0 THEN {Returns(MySpend(s, "busy"), p, "busy", 0)} ELSE {})
    \cup (IF s.cf.lost = 0 THEN {}
          ELSE UNION {Reprepared([MySpend([s EXCEPT !.rows = t.rows, !.seq = t.seq], "lost")
                                     EXCEPT !.con[p].call.lost = @ + 1], p) : t \in {s, done}})

\* cnid_mysql_stmt_execute: handles that are missing are prepared first, and a
\* lost connection is tried again until the attempts are used up.
cnid_mysql_stmt_execute(s, p, stmt, done) ==
    LET ready == IF Handle(s.con[p], stmt) = "null" THEN [s EXCEPT !.con[p].stmts = init_prepared_stmt] ELSE s
        lost(t) == Call(t, p).lost
        bad == {IF lost(t) >= MyReconnects THEN Returns(t, p, "db", 0) ELSE t : t \in Unlucky(ready, done, p)}
    IN  IF s.con[p].uuid # s.uuid THEN {Returns(s, p, "db", 0)}
        ELSE IF Handle(ready.con[p], stmt) = "bad" THEN {Returns(s, p, "db", 0)}
        ELSE {[done EXCEPT !.con[p].stmts = ready.con[p].stmts]} \cup bad

\* A statement executed directly: what follows a lost connection is up to the
\* caller.  A handle that is missing ends the session.
mysql_stmt_execute(s, p, stmt, done, lostat) ==
    IF Handle(s.con[p], stmt) = "null" THEN {[s EXCEPT !.con[p].open = 0, !.con[p].call = NoCall]}
    ELSE IF Handle(s.con[p], stmt) = "bad" \/ s.con[p].uuid # s.uuid THEN {Returns(s, p, "db", 0)}
    ELSE {done} \cup {IF Call(t, p).at = "idle" THEN t ELSE TryAgain(t, p, lostat) : t \in Unlucky(s, done, p)}

At(p, at) == my.con[p].open = 1 /\ Call(my, p).at = at

(***************************************************************************)
(* cnid_mysql_lookup, as cnid_mysql_add calls it.                          *)
(***************************************************************************)
\* A lookup that takes a row found by its name for the file, whatever its inode.
Verdict_name(c, id, row) ==
    IF row.name # c.name THEN IF c.hint = id THEN "update" ELSE "delete" ELSE "found"

\* What becomes of the one row that was found.  A row with another name is the
\* file moved when the caller's hint says so, else it is stale.
Verdict(c, id, row) ==
    IF row.name # c.name THEN IF c.hint = id THEN "update" ELSE "delete"
    ELSE IF row.ino # c.ino THEN "delete" ELSE "found"

cnid_mysql_lookup(p) ==
    LET c == Call(my, p)
        hits == lookup_stmt(my.rows, c.name, c.ino)
        id == CHOOSE i \in hits : TRUE
        verdict == Verdict(c, id, my.rows[id])
        done == IF hits = {} THEN MyGoes(my, p, "insert")
                ELSE IF Cardinality(hits) = 2 \/ verdict = "delete"
                THEN [MyGoes(my, p, "delete") EXCEPT !.con[p].call.kill = hits]
                ELSE IF verdict = "update"
                THEN [MyGoes(my, p, "purge") EXCEPT !.con[p].call.id = id, !.con[p].call.tries = 0]
                ELSE Returns(my, p, "ok", id)
    IN  /\ At(p, "select")
        /\ my' \in cnid_mysql_stmt_execute(my, p, "lookup", done)

\* The deletes of mismatched rows, one statement each, then the insert.
cnid_mysql_delete(p) ==
    LET c == Call(my, p)
        id == Min(c.kill)
        gone == [my EXCEPT !.rows = delete_stmt(@, id), !.con[p].call.kill = @ \ {id}]
    IN  /\ At(p, "delete")
        /\ my' \in cnid_mysql_stmt_execute(my, p, "delete",
                       IF c.op = "drop" THEN Returns(gone, p, "ok", 0)
                       ELSE IF c.kill = {id} THEN MyGoes(gone, p, "insert") ELSE gone)

(***************************************************************************)
(* cnid_mysql_add.                                                         *)
(***************************************************************************)
\* The insert, with the hint as the Id when it may be; a duplicate drops the
\* hint and looks again.  An Id past the last one resets the table.
cnid_mysql_add(p) ==
    LET c == Call(my, p)
        hinted == c.hint # 0 /\ c.can = 1 /\ my.con[p].flag = 0
        id == IF hinted THEN c.hint ELSE my.seq + 1
        done == IF Clashes(my.rows, id, c.name, c.ino)
                THEN TryAgain([my EXCEPT !.con[p].call.hint = 0], p, "select")
                ELSE LET in == put_stmt(my, id, c.name, c.ino)
                     IN  IF id > MyCeiling THEN MyGoes(in, p, "reset") ELSE Returns(in, p, "ok", id)
    IN  /\ At(p, "insert")
        /\ my' \in mysql_stmt_execute(my, p, IF hinted THEN "put" ELSE "add", done, "select")

Emptied(s, depleted) ==
    [s EXCEPT !.rows = [i \in MyIds |-> NoRow], !.seq = MyStart - 1, !.dep = depleted,
              !.got = [n \in MyNames |-> 0]]

\* The depleted set is started over.  A failure may leave the mark without the
\* reset; the rows are then still there.
Reset(p) ==
    /\ At(p, "reset")
    /\ my' \in {Returns([Emptied(my, 1) EXCEPT !.con[p].flag = 1], p, "reset", 0)}
               \cup (IF my.cf.busy > 0
                     THEN {Returns([MySpend(my, "busy") EXCEPT !.dep = 1], p, "db", 0)} ELSE {})

(***************************************************************************)
(* cnid_mysql_update: the rows in the way are purged and the row is put    *)
(* back under its Id.                                                      *)
(***************************************************************************)
Purge(p) ==
    LET c == Call(my, p)
    IN  /\ At(p, "purge")
        /\ my' \in cnid_mysql_stmt_execute(my, p, "purge",
                       MyGoes([my EXCEPT !.rows = purge_stmt(@, c.id, c.name, c.ino)], p, "put"))

cnid_mysql_update(p) ==
    LET c == Call(my, p)
        done == IF Clashes(my.rows, c.id, c.name, c.ino) THEN TryAgain(my, p, "purge")
                ELSE Returns(put_stmt(my, c.id, c.name, c.ino), p, "ok", c.id)
    IN  /\ At(p, "put")
        /\ my' \in mysql_stmt_execute(my, p, "put", done, "purge")

(***************************************************************************)
(* Requests.                                                               *)
(***************************************************************************)
MyReady(p) == At(p, "idle") /\ my.cf.reqs > 0
\* A call that begins between a move or delete and the update of its row sees
\* the two disagree.
Begin(s, p, call) ==
    [MySpend(s, "reqs") EXCEPT
        !.con[p].call = [call EXCEPT !.stale = IF \E q \in MySessions : Call(s, q).op \in {"move", "drop"}
                                               THEN 1 ELSE 0]]

\* The folder changed: what the calls in flight know of it is stale, and what
\* was returned before says nothing of it.
FolderIs(s, dir) ==
    [s EXCEPT !.dir = dir, !.got = [n \in MyNames |-> 0],
              !.con = [q \in MySessions |-> IF s.con[q].call.at = "idle" THEN s.con[q]
                                            ELSE [s.con[q] EXCEPT !.call.stale = 1]]]

\* get_id of a file: its header may hold a hint.
Add(p) ==
    \E n \in MyNames :
        /\ MyReady(p) /\ my.dir[n] # NoFile
        /\ LET hint == my.hdr[my.dir[n]]
           IN  my' = Begin(my, p, [NoCall EXCEPT !.at = "select", !.op = "add", !.name = n,
                                       !.ino = my.dir[n], !.hint = hint,
                                       !.can = IF hint # 0 /\ cnid_mysql_hint_usable(hint) THEN 1 ELSE 0])

\* A rename: the file moves, then its row.
Rename(p) ==
    \E n \in MyNames, m \in MyNames :
        /\ MyReady(p) /\ my.dir[n] # NoFile /\ my.dir[m] = NoFile /\ my.got[n] # 0
        /\ my' = Begin(FolderIs(my, [my.dir EXCEPT ![m] = my.dir[n], ![n] = NoFile]), p,
                       [NoCall EXCEPT !.at = "purge", !.op = "move", !.name = m,
                                      !.ino = my.dir[n], !.id = my.got[n]])

\* FPDelete of a file drops its row.
Remove(p) ==
    \E n \in MyNames :
        /\ MyReady(p) /\ my.dir[n] # NoFile /\ my.got[n] # 0
        /\ my' = Begin(FolderIs(my, [my.dir EXCEPT ![n] = NoFile]), p,
                       [NoCall EXCEPT !.at = "delete", !.op = "drop", !.kill = {my.got[n]}])

\* Another program creates, replaces or removes a file.
Outside ==
    \E n \in MyNames, i \in MyInos \cup {NoFile} :
        /\ my.cf.outside > 0 /\ my.dir[n] # i
        /\ i # NoFile => \A m \in MyNames : my.dir[m] # i
        /\ my' = FolderIs(MySpend(my, "outside"), [my.dir EXCEPT ![n] = i])

cnid_mysql_wipe(p) ==
    /\ MyReady(p) /\ my.cf.wipes > 0 /\ my.con[p].uuid = my.uuid
    /\ my' = [Emptied(MySpend(MySpend(my, "reqs"), "wipes"), 0) EXCEPT !.con[p].flag = 0]

\* A volume is opened.  With a UUID of its own in the configuration the tables
\* of the path's other UUIDs are dropped, whoever uses them.
cnid_mysql_open(p) ==
    /\ my.con[p].open = 0 /\ my.cf.opens > 0
    /\ \E new \in {0} \cup (IF my.cf.uuids > 0 THEN {1} ELSE {}) :
         LET s == IF new = 0 THEN my
                  ELSE [Emptied(MySpend(my, "uuids"), 0) EXCEPT !.uuid = @ + 1]
         IN  my' = [MySpend(s, "opens") EXCEPT !.con[p] = [@ EXCEPT !.open = 1, !.flag = s.dep,
                                                     !.uuid = s.uuid, !.stmts = init_prepared_stmt]]

cnid_mysql_close(p) ==
    /\ At(p, "idle")
    /\ my' = [my EXCEPT !.con[p] = [@ EXCEPT !.open = 0, !.flag = 0, !.uuid = 0,
                                              !.stmts = close_prepared_stmt]]

(***************************************************************************)
(* Reads.  A read that failed is never an answer that nothing is there.    *)
(***************************************************************************)
Read(p, stmt, hits) ==
    /\ MyReady(p)
    /\ LET s == Begin(my, p, [NoCall EXCEPT !.at = stmt, !.op = "read"])
           done == Returns([s EXCEPT !.read = hits], p, IF hits = {} THEN "notfound" ELSE "ok", 0)
           some(t) == IF Call(t, p).at = "idle" THEN {t}
                      ELSE IF Call(t, p).lost >= MyReconnects THEN {Returns(t, p, "db", 0)}
                      ELSE {Returns([t EXCEPT !.read = hits], p, IF hits = {} THEN "notfound" ELSE "ok", 0)}
       IN  my' \in UNION {some(t) : t \in cnid_mysql_stmt_execute(s, p, stmt, done)}

cnid_mysql_get(p) == \E n \in MyNames : Read(p, "get", get_stmt(my.rows, n))
cnid_mysql_resolve(p) == \E i \in MyIds : Read(p, "resolve", resolve_stmt(my.rows, i))
cnid_mysql_dirlist(p) == Read(p, "dirlist", dirlist_stmt(my.rows))

MyInit ==
    \E c \in MyConfigs :
        my = [cf |-> c, rows |-> [i \in MyIds |-> NoRow], seq |-> c.seq, dep |-> 0, uuid |-> 1,
              dir |-> c.dir, hdr |-> c.hdr, rc |-> "ok", read |-> {},
              con |-> [p \in MySessions |-> [open |-> 0, flag |-> 0, uuid |-> 0, call |-> NoCall,
                                             stmts |-> close_prepared_stmt]],
              got |-> [n \in MyNames |-> 0], split |-> 0]

MyNext ==
    \/ Outside
    \/ \E p \in MySessions :
          \/ Add(p) \/ Rename(p) \/ Remove(p) \/ cnid_mysql_wipe(p)
          \/ cnid_mysql_lookup(p) \/ cnid_mysql_delete(p) \/ cnid_mysql_add(p) \/ Reset(p)
          \/ Purge(p) \/ cnid_mysql_update(p)
          \/ cnid_mysql_get(p) \/ cnid_mysql_resolve(p) \/ cnid_mysql_dirlist(p)
          \/ cnid_mysql_open(p) \/ cnid_mysql_close(p)

MySpec == MyInit /\ [][MyNext]_myVars

(***************************************************************************)
(* Properties.                                                             *)
(***************************************************************************)
\* Sessions that ask for the CNID of the same unchanged file get the same one,
\* and while nobody is in a call its row has the file's name and inode: the
\* separate statements of two adds, a reply the server lost, a lock it did not
\* give and a reset in between leave neither two CNIDs for a file nor one that
\* names another.
MysqlAgrees ==
    /\ my.split = 0
    /\ \A n \in MyNames :
          (\A p \in MySessions : Call(my, p).at = "idle") /\ my.got[n] # 0
              => my.rows[my.got[n]] = [name |-> n, ino |-> my.dir[n]]

=============================================================================
