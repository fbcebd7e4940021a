----------------------------- MODULE CnidTable ------------------------------
(***************************************************************************)
(* The CNID table of one volume in SQLite (libatalk/cnid/cnid_sqlite.c)    *)
(* and the afpd sessions that share it.  A session runs one AFP request at *)
(* a time; each SQL statement outside a transaction, and each transaction, *)
(* is one atomic step, so the statements of two sessions interleave.       *)
(*                                                                         *)
(* The rows of one parent directory are modelled: a row holds a name and   *)
(* the device and inode of the object.  Beside the sessions, other         *)
(* programs on the server move, create and delete the files.               *)
(***************************************************************************)
EXTENDS Integers, FiniteSets, FiniteSetsExt, Functions, TLC

CONSTANTS Procs, Names, Inos, None,
          Start,       \* CNID_START
          MaxHint,     \* CNID_SQLITE_MAX_HINT
          Ceiling,     \* UINT32_MAX
          Attempts,    \* CNID_SQLITE_ADD_ATTEMPTS
          MaxChanges,  \* bound on the changes of the directory
          QuietOpen    \* no row is added between open's probe and its seed

VARIABLES rows,      \* the table, by CNID
          seq,       \* its row in sqlite_sequence
          depleted,  \* volumes.Depleted
          dir,       \* the directory on disk
          hdr,       \* the CNID in the AppleDouble header of each file, or 0
          flag,      \* CNID_SQLITE_FLAG_DEPLETED of each connection
          told,      \* sessions with an unread CACHE_HINT_VOLUME_RESET
          call,      \* the request each session is in
          known,     \* history: the CNID a settled request returned
          changes

vars == <<rows, seq, depleted, dir, hdr, flag, told, call, known, changes>>
table == <<rows, seq, depleted>>
files == <<dir, hdr, changes>>

Ids == Start..Ceiling + Cardinality(Procs)
Row == [name : Names, ino : Inos]

Steps == {"closed", "seed", "idle",
          "select", "drop", "insert", "reset",   \* cnid_sqlite_add
          "update", "put", "replace",            \* cnid_sqlite_update
          "rename",                              \* moveandrename
          "forget"}                              \* deletefile

(* hint: the hint still in use.  head: what the header held.  fresh: nothing
   changed on disk since this request, and all that overlap it, began.
   due: the CNID that a request which runs alone has to keep, see MoveKeepsId.
   clash: another row holds the name. *)
Rest == [at |-> "idle", op |-> None, name |-> None, from |-> None, ino |-> None, id |-> 0,
         hint |-> 0, head |-> 0, tries |-> 0, fresh |-> 0, due |-> 0, clash |-> 0]
Busy(p) == call[p].at \notin {"closed", "seed", "idle"}

Init ==
  /\ rows = <<>> /\ seq = 0 /\ depleted = 0
  /\ dir \in {d \in [Names -> Inos \cup {None}] : IsInjective(Restrict(d, {n \in Names : d[n] # None}))}
  /\ hdr = [i \in Inos |-> 0]
  /\ flag = [p \in Procs |-> 0] /\ told = {}
  /\ call = [p \in Procs |-> [Rest EXCEPT !.at = "closed"]]
  /\ known = [i \in Inos |-> 0] /\ changes = 0

-----------------------------------------------------------------------------
(* The table *)

(* The rows that share a unique key with an object. *)
Holders(n, i) == {c \in DOMAIN rows : rows[c].name = n \/ rows[c].ino = i}
rowid_ok(c) == c <= Ceiling
NextId == Max({seq} \cup DOMAIN rows) + 1

Put(c, n, i, keep) ==
  /\ rows' = (c :> [name |-> n, ino |-> i]) @@ Restrict(rows, keep)
  /\ seq' = Max({seq, c})
  /\ UNCHANGED depleted

Delete(c) == rows' = Restrict(rows, DOMAIN rows \ {c}) /\ UNCHANGED <<seq, depleted>>

seed_sequence == seq' = Start - 1

cnid_get(n) ==
  LET hit == {c \in DOMAIN rows : rows[c].name = n /\ rowid_ok(c)}
  IN IF hit = {} THEN 0 ELSE CHOOSE c \in hit : TRUE

-----------------------------------------------------------------------------
(* Requests *)

Goto(p, at) == call' = [call EXCEPT ![p].at = at]
Leave(p) == call' = [call EXCEPT ![p] = Rest]

(* cnid_add has returned k: get_id refreshes a header that disagrees,
   afp_createfile writes it in any case. *)
Return(p, k) ==
  LET c == call[p]
      alone == \A q \in Procs \ {p} :
                 Busy(q) /\ call[q].at # "rename"
                   => call[q].name # c.name /\ call[q].ino # c.ino /\ call[q].id # k
      writes == c.ino \in Range(dir) /\ (c.op = "create" \/ c.head \notin {0, k})
  IN /\ Leave(p)
     /\ hdr' = IF writes THEN [hdr EXCEPT ![c.ino] = k] ELSE hdr
     /\ known' = IF c.fresh = 1 /\ alone THEN [known EXCEPT ![c.ino] = k] ELSE known
     /\ UNCHANGED <<dir, flag, told, changes>>

Fail(p) == Leave(p) /\ UNCHANGED <<files, flag, told, known>>

(* The directory changes: no request under way is fresh any more. *)
Change(d, p, c) ==
  /\ changes < MaxChanges
  /\ changes' = changes + 1
  /\ dir' = d
  /\ known' = [i \in Inos |-> 0]
  /\ call' = [q \in Procs |-> IF q = p THEN c ELSE [call[q] EXCEPT !.fresh = 0, !.due = 0]]

cnid_sqlite_open(p) ==
  /\ call[p].at = "closed"
  /\ flag' = [flag EXCEPT ![p] = depleted]
  /\ Goto(p, IF rows = <<>> THEN "seed" ELSE "idle")
  /\ UNCHANGED <<table, files, told, known>>

open_seeds(p) ==
  /\ call[p].at = "seed"
  /\ seed_sequence
  /\ Leave(p)
  /\ UNCHANGED <<rows, depleted, files, flag, told, known>>

cnid_sqlite_close(p) ==
  /\ call[p].at = "idle"
  /\ call' = [call EXCEPT ![p].at = "closed"]
  /\ told' = told \ {p}
  /\ UNCHANGED <<table, files, flag, known>>

(* get_id of a file: with the CNID in its AppleDouble header as the hint, or
   without one, as for FPCreateID. *)
get_id(p, n, h) ==
  LET i == dir[n]
      own == h # 0 /\ h \in DOMAIN rows /\ rows[h].ino = i
  IN /\ call[p].at = "idle"
     /\ i # None
     /\ h \in {0, hdr[i]}
     /\ call' = [q \in Procs |->
          IF q = p
          THEN [Rest EXCEPT !.at = "select", !.op = "get", !.name = n, !.ino = i,
                            !.hint = h, !.head = h,
                            !.fresh = IF \A r \in Procs : Busy(r) => call[r].fresh = 1 THEN 1 ELSE 0,
                            !.due = IF own /\ \A r \in Procs : ~Busy(r) THEN h ELSE 0,
                            !.clash = IF own /\ Holders(n, i) # {h} THEN 1 ELSE 0]
          ELSE [call[q] EXCEPT !.due = 0]]
     /\ UNCHANGED <<table, files, flag, told, known>>

(* Mutant: the inode of the row is not compared. *)
StillSame_name(p, k) == rows[k].name = call[p].name

(* The row found is that of the object asked for. *)
StillSame(p, k) == rows[k] = [name |-> call[p].name, ino |-> call[p].ino]

(* Mutant: a row with another name is removed whatever the hint says. *)
Moved_never(p, k) == FALSE

(* A server-side move that the hint confirms: the row is updated in place. *)
Moved(p, k) == rows[k].name # call[p].name /\ call[p].hint = k

(* The SELECT of cnid_sqlite_lookup and what it decides. *)
cnid_sqlite_lookup(p) ==
  LET c == call[p]
      hit == Holders(c.name, c.ino)
  IN /\ c.at = "select"
     /\ UNCHANGED table
     /\ \/ hit = {} /\ Goto(p, "insert") /\ UNCHANGED <<files, flag, told, known>>
        \/ \E k \in hit :
             \/ /\ Cardinality(hit) > 1 /\ rowid_ok(k)
                /\ call' = [call EXCEPT ![p].at = "drop", ![p].id = k]
                /\ UNCHANGED <<files, flag, told, known>>
             \/ ~rowid_ok(k) /\ Fail(p)
             \/ /\ hit = {k} /\ rowid_ok(k)
                /\ ~StillSame(p, k)
                /\ call' = [call EXCEPT ![p].id = k, ![p].at = IF Moved(p, k) THEN "update" ELSE "drop"]
                /\ UNCHANGED <<files, flag, told, known>>
             \/ hit = {k} /\ rowid_ok(k) /\ StillSame(p, k) /\ Return(p, k)

(* A lookup that removes a row then reports CNID_ERR_NOTFOUND. *)
cnid_sqlite_delete(p) ==
  /\ call[p].at = "drop"
  /\ Delete(call[p].id)
  /\ IF call[p].op = "delete" THEN Leave(p)
     ELSE call' = [call EXCEPT ![p].at = "insert", ![p].id = 0]
  /\ UNCHANGED <<files, flag, told, known>>

(* The insert of cnid_sqlite_add, a transaction. *)
cnid_sqlite_add(p) ==
  LET c == call[p]
      k == IF c.hint # 0 /\ c.hint <= MaxHint /\ flag[p] = 0 THEN c.hint ELSE NextId
      collides == k \in DOMAIN rows \/ Holders(c.name, c.ino) # {}
  IN /\ c.at = "insert"
     /\ \/ /\ collides /\ c.tries + 1 < Attempts
           /\ call' = [call EXCEPT ![p].at = "select", ![p].hint = 0, ![p].tries = @ + 1]
           /\ UNCHANGED <<table, files, flag, told, known>>
        \/ /\ collides /\ c.tries + 1 = Attempts
           /\ Fail(p)
           /\ UNCHANGED table
        \/ /\ ~collides
           /\ QuietOpen => \A q \in Procs : call[q].at # "seed"
           /\ Put(k, c.name, c.ino, DOMAIN rows)
           /\ \/ k >= Ceiling /\ Goto(p, "reset") /\ UNCHANGED <<files, flag, told, known>>
              \/ k < Ceiling /\ Return(p, k)

(* The CNIDs are used up: one transaction empties the table.  The session
   tells the others through the master and ends (cnid_volume_reset). *)
deplete(p) ==
  /\ call[p].at = "reset"
  /\ rows' = <<>> /\ seed_sequence /\ depleted' = 1
  /\ flag' = [flag EXCEPT ![p] = 1]
  /\ told' = (told \cup {q \in Procs : call[q].at # "closed"}) \ {p}
  /\ call' = [call EXCEPT ![p] = [Rest EXCEPT !.at = "closed"]]
  /\ known' = [i \in Inos |-> 0]
  /\ UNCHANGED files

(* process_cache_hints: the session of a reset volume ends. *)
reset_arrives(p) ==
  /\ p \in told /\ call[p].at = "idle"
  /\ told' = told \ {p}
  /\ Goto(p, "closed")
  /\ UNCHANGED <<table, files, flag, known>>

-----------------------------------------------------------------------------
(* cnid_sqlite_update *)

Updated(p) ==
  IF call[p].op = "move"
  THEN Leave(p) /\ UNCHANGED <<files, flag, told, known>>
  ELSE Return(p, call[p].id)

cnid_sqlite_update(p) ==
  LET c == call[p]
  IN /\ c.at = "update"
     /\ \/ /\ c.id \in DOMAIN rows /\ Holders(c.name, c.ino) \subseteq {c.id}
           /\ rows' = [rows EXCEPT ![c.id] = [name |-> c.name, ino |-> c.ino]]
           /\ UNCHANGED <<seq, depleted>>
           /\ Updated(p)
        \/ /\ c.id \in DOMAIN rows /\ ~(Holders(c.name, c.ino) \subseteq {c.id})
           /\ Goto(p, "replace")
           /\ UNCHANGED <<table, files, flag, told, known>>
        \/ /\ c.id \notin DOMAIN rows
           /\ Goto(p, "put")
           /\ UNCHANGED <<table, files, flag, told, known>>

update_puts(p) ==
  LET c == call[p]
      collides == c.id \in DOMAIN rows \/ Holders(c.name, c.ino) # {}
  IN /\ c.at = "put"
     /\ \/ ~collides /\ Put(c.id, c.name, c.ino, DOMAIN rows) /\ Updated(p)
        \/ collides /\ Goto(p, "replace") /\ UNCHANGED <<table, files, flag, told, known>>

(* The second attempt, a transaction. *)
update_replaces(p) ==
  LET c == call[p]
  IN /\ c.at = "replace"
     /\ Put(c.id, c.name, c.ino, DOMAIN rows \ Holders(c.name, c.ino))
     /\ Updated(p)

-----------------------------------------------------------------------------
(* AFP requests that change the directory *)

afp_createfile(p, n, i) ==
  /\ call[p].at = "idle" /\ dir[n] = None /\ i \notin Range(dir)
  /\ Change([dir EXCEPT ![n] = i], p,
            [Rest EXCEPT !.at = "select", !.op = "create", !.name = n, !.ino = i])
  /\ hdr' = [hdr EXCEPT ![i] = 0]
  /\ UNCHANGED <<table, flag, told>>

moveandrename(p, o, n) ==
  /\ call[p].at = "idle" /\ o # n /\ dir[o] # None
  /\ call' = [call EXCEPT ![p] = [Rest EXCEPT !.at = "rename", !.op = "move", !.from = o, !.name = n,
                                              !.id = cnid_get(o)]]
  /\ UNCHANGED <<table, files, flag, told, known>>

(* The rename, the stat that follows it and the header. *)
renamefile(p) ==
  LET c == call[p]
      i == dir[c.from]
  IN /\ c.at = "rename"
     /\ \/ (i = None \/ dir[c.name] # None) /\ Fail(p)
        \/ /\ i # None /\ dir[c.name] = None
           /\ Change([dir EXCEPT ![c.from] = None, ![c.name] = i], p,
                     IF c.id = 0 THEN Rest
                     ELSE [c EXCEPT !.at = "update", !.from = None, !.ino = i,
                                    !.due = IF (\A q \in Procs \ {p} : ~Busy(q)) /\ c.id \in DOMAIN rows
                                            THEN c.id ELSE 0])
           /\ hdr' = IF c.id # 0 /\ hdr[i] # 0 THEN [hdr EXCEPT ![i] = c.id] ELSE hdr
           /\ UNCHANGED <<flag, told>>
     /\ UNCHANGED table

(* The unlink.  The CNID comes from the cached entry, or is looked up next. *)
deletefile(p, n, k) ==
  /\ call[p].at = "idle" /\ dir[n] # None
  /\ k \in {0, known[dir[n]]}
  /\ Change([dir EXCEPT ![n] = None], p,
            IF k = 0 THEN [Rest EXCEPT !.at = "forget", !.op = "delete", !.name = n]
            ELSE [Rest EXCEPT !.at = "drop", !.op = "delete", !.id = k])
  /\ UNCHANGED <<table, hdr, flag, told>>

delete_row(p) ==
  LET k == cnid_get(call[p].name)
  IN /\ call[p].at = "forget"
     /\ IF k = 0 THEN Leave(p)
        ELSE call' = [call EXCEPT ![p].at = "drop", ![p].id = k, ![p].name = None]
     /\ UNCHANGED <<table, files, flag, told, known>>

(* Other programs on the server. *)
server_moves(o, n) ==
  /\ o # n /\ dir[o] # None
  /\ Change([dir EXCEPT ![n] = dir[o], ![o] = None], None, Rest)
  /\ UNCHANGED <<table, hdr, flag, told>>

server_creates(n, i) ==
  /\ dir[n] = None /\ i \notin Range(dir)
  /\ Change([dir EXCEPT ![n] = i], None, Rest)
  /\ hdr' = [hdr EXCEPT ![i] = 0]
  /\ UNCHANGED <<table, flag, told>>

-----------------------------------------------------------------------------
Add(p) == cnid_sqlite_lookup(p) \/ cnid_sqlite_delete(p) \/ cnid_sqlite_add(p) \/ deplete(p)
Update(p) == cnid_sqlite_update(p) \/ update_puts(p) \/ update_replaces(p)
Request(p) ==
  \/ \E n \in Names, h \in {0} \cup Range(hdr) : get_id(p, n, h)
  \/ \E n \in Names, i \in Inos : afp_createfile(p, n, i)
  \/ \E o, n \in Names : moveandrename(p, o, n)
  \/ \E n \in Names, k \in {0} \cup Range(known) : deletefile(p, n, k)

Next ==
  \/ \E p \in Procs : \/ cnid_sqlite_open(p) \/ open_seeds(p) \/ cnid_sqlite_close(p)
                      \/ Request(p) \/ Add(p) \/ Update(p)
                      \/ renamefile(p) \/ delete_row(p) \/ reset_arrives(p)
  \/ \E o, n \in Names : server_moves(o, n)
  \/ \E n \in Names, i \in Inos : server_creates(n, i)

Spec == Init /\ [][Next]_vars

-----------------------------------------------------------------------------
TypeOK ==
  /\ DOMAIN rows \subseteq Ids /\ \A c \in DOMAIN rows : rows[c] \in Row
  /\ seq \in 0..Ceiling + Cardinality(Procs) /\ depleted \in {0, 1}
  /\ dir \in [Names -> Inos \cup {None}] /\ hdr \in [Inos -> Ids \cup {0}]
  /\ \A p \in Procs : call[p].at \in Steps /\ call[p].id \in Ids \cup {0}

(* A CNID that was returned for a file stays the CNID of that file, at its
   name and inode, while nothing changes on disk: no request of any session
   renumbers it or takes its row away (cnid_sqlite_lookup, cnid_sqlite_add). *)
ReturnedResolves ==
  \A n \in Names :
    dir[n] # None /\ known[dir[n]] # 0 =>
      /\ known[dir[n]] \in DOMAIN rows
      /\ rows[known[dir[n]]] = [name |-> n, ino |-> dir[n]]

Kept(p) ==
  /\ call[p].due \in DOMAIN rows'
  /\ rows'[call[p].due] = [name |-> call[p].name, ino |-> call[p].ino]

(* A move keeps the CNID.  An FPMoveAndRename leaves the row of the file at the
   new name (moveandrename, cnid_sqlite_update), and the first request for a
   file that was moved on the server finds the CNID its header holds
   (cnid_sqlite_add: "a server-side move must not renumber them"), if nothing
   else happens meanwhile.  Not promised: a file moved on the server onto a
   name that still has a row of its own is renumbered. *)
MoveKeepsId ==
  [][\A p \in Procs : call[p].due # 0 /\ call[p].clash = 0 /\ call'[p].at = "idle"
                        => Kept(p)]_vars
=============================================================================
