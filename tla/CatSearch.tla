----------------------------- MODULE CatSearch -----------------------------
(***************************************************************************)
(* FPCatSearch (etc/afpd/catsearch.c): a client searches a volume page by  *)
(* page.  A search walks the tree, with a stack of folders and the open    *)
(* folder kept in static variables between the calls, or it asks the CNID  *)
(* database for a name and goes through the answer.                        *)
(*                                                                         *)
(* The tree is fixed in cf.tree: a folder is the sequence of its entries   *)
(* in the order of readdir.  A step of a call looks at one entry.  Between *)
(* two calls a folder or a file can go (gone), and the client can give up  *)
(* a search and start another.                                             *)
(***************************************************************************)
EXTENDS Integers, Sequences, FiniteSets, SequencesExt

CONSTANTS CsRoot,     \* the folder a search starts from
          CsBlock,    \* records that fill a reply (448 bytes)
          CsRounds,   \* NUM_ROUNDS: entries between two looks at the clock
          CsConfigs

VARIABLE cs

csVars == <<cs>>

NoName == ""
NoPos == [dir |-> NoName, i |-> 0]
NoCall == [at |-> "idle", cidx |-> 0, cwd |-> NoName, pos |-> 0, left |-> 0, recs |-> 0, rounds |-> 0]

CsSpend(s, what) == [s EXCEPT !.cf[what] = @ - 1]

(***************************************************************************)
(* The tree.                                                               *)
(***************************************************************************)
Entries(s, d) == SelectSeq(s.cf.tree[d], LAMBDA e : e.id \notin s.gone)
Folders(s) == DOMAIN s.cf.tree
\* Where a folder is, for dirlookup: gone with any folder above it.
Above(s, d) == {p \in Folders(s) : \E e \in Range(s.cf.tree[p]) : e.id = d}
dirlookup(s, d) == d \notin s.gone
\* The stat of a name in the working directory; an entry of another folder
\* that is scanned by mistake is seen as the one of that name here, if any.
of_stat(s, cwd, name) ==
    LET at == SelectInSeq(Entries(s, cwd), LAMBDA e : e.name = name)
    IN  IF at = 0 THEN {} ELSE {Entries(s, cwd)[at]}

(***************************************************************************)
(* The criteria.                                                           *)
(***************************************************************************)
\* An entry of kind "dir" or "file" against the values and ranges of c.
crit_check(c, e) ==
    /\ e.kind \in c.kinds
    /\ e.mdate >= c.from /\ e.mdate <= c.to
    /\ c.name # NoName => IF c.partial = 1 THEN IsPrefix(c.name, e.name) ELSE e.name = c.name
    /\ e.attr \cap c.mask = c.attr

(***************************************************************************)
(* The stack of folders, top last.                                         *)
(***************************************************************************)
clearstack(s) == [s EXCEPT !.save = 0, !.stack = <<>>]
addstack(s, d) == [s EXCEPT !.stack = Append(@, [did |-> d, checked |-> 0])]
\* The index of the folder to look into, 0 for none, and what is above it.
Unchecked(s) == {i \in 1..Len(s.stack) : s.stack[i].checked = 0}
reducestack(s) ==
    IF s.save # 0 THEN [s |-> [s EXCEPT !.save = 0], i |-> s.save]
    ELSE LET last == IF Unchecked(s) = {} THEN 0 ELSE CHOOSE i \in Unchecked(s) : \A j \in Unchecked(s) : j <= i
         IN  [s |-> [s EXCEPT !.stack = SubSeq(@, 1, last)], i |-> last]

(***************************************************************************)
(* The calls.  res is the result a call gives the client.                  *)
(***************************************************************************)
Replied(s, res, pos) ==
    [s EXCEPT !.call = NoCall, !.pos = pos,
              !.client = CASE res = "ok" -> "open" [] res = "eof" -> "whole"
                           [] res = "catchng" -> "changed" [] OTHER -> "failed"]
\* A pause that forgets the folder it stopped in.
catsearch_pause_top(s) == Replied([s EXCEPT !.cur = s.call.pos], "ok", s.call.pos)
catsearch_pause(s) == Replied([s EXCEPT !.cur = s.call.pos, !.save = s.call.cidx], "ok", s.call.pos)

\* The start of a walk.
catsearch_begin(s, rmatches) ==
    LET t == IF s.pos = 0 THEN addstack([clearstack(s) EXCEPT !.dirpos = NoPos], CsRoot) ELSE s
    IN  IF s.pos # 0 /\ s.pos # s.cur THEN Replied(s, "catchng", s.pos)
        ELSE [t EXCEPT !.call = [NoCall EXCEPT !.at = "next", !.pos = s.pos, !.left = rmatches,
                                               !.rounds = CsRounds]]

\* The next folder of the stack.  One the user cannot read, or cannot enter,
\* drops out; one that cannot be entered may have been opened by its path.
catsearch_next(s) ==
    LET r == reducestack(s)
        d == r.s.stack[r.i].did
        mode == s.cf.mode[d]
        opened == IF r.s.dirpos # NoPos \/ mode \notin {"rx", "r"} THEN r.s.dirpos ELSE [dir |-> d, i |-> 0]
    IN  IF r.i = 0 THEN Replied(r.s, "eof", s.call.pos)
        ELSE IF ~dirlookup(s, d) THEN Replied(r.s, "misc", s.call.pos)
        ELSE IF mode \in {"r", "none"} \/ opened = NoPos
        THEN [r.s EXCEPT !.stack[r.i].checked = 1, !.dirpos = opened]
        ELSE [r.s EXCEPT !.dirpos = opened,
                         !.call = [s.call EXCEPT !.at = "entry", !.cidx = r.i, !.cwd = d]]

\* The end of the open folder.
catsearch_close(s) ==
    [s EXCEPT !.dirpos = NoPos, !.stack[s.call.cidx].checked = 1, !.call.at = "next"]

\* A match joins the reply, which may be full then; the rest of the entry.
rslt_add(s, e) == [s EXCEPT !.got = Append(@, e.id), !.call.left = @ - 1, !.call.recs = @ + 1]
Full(s) == s.call.left = 0 \/ s.call.recs >= CsBlock
\* What one entry leads to.  Every CsRounds entries a clock that moved on
\* pauses the search.
catsearch_entry(s) ==
    LET name == Entries(s, s.dirpos.dir)[s.dirpos.i + 1].name
        t == [s EXCEPT !.dirpos.i = @ + 1, !.call.pos = @ + 1]
        found == of_stat(s, s.call.cwd, name)
        e == CHOOSE x \in found : TRUE
        u == IF e.kind = "dir" THEN addstack(t, e.id) ELSE t
        w == IF crit_check(s.crit, e) THEN rslt_add(u, e) ELSE u
    IN  IF found = {} \/ e.kind = "other" THEN {t}
        ELSE IF crit_check(s.crit, e) /\ Full(w) THEN {catsearch_pause(w)}
        ELSE IF s.call.rounds > 1 THEN {[w EXCEPT !.call.rounds = @ - 1]}
        ELSE {[w EXCEPT !.call.rounds = CsRounds], catsearch_pause(w)}

(***************************************************************************)
(* The search of the CNID database.                                        *)
(***************************************************************************)
\* cnid_find: the IDs of a name, in the order of the table.
cnid_find(s, name) == SelectSeq(s.cf.rows, LAMBDA e : e.name = name)

catsearch_db_begin(s, rmatches) ==
    IF s.pos # 0 /\ s.pos # s.dbcur THEN Replied(s, "catchng", s.pos)
    ELSE [s EXCEPT !.hits = IF s.dbcur = 0 \/ s.pos = 0 THEN cnid_find(s, s.crit.name) ELSE @,
                   !.call = [NoCall EXCEPT !.at = "db", !.pos = s.pos, !.left = rmatches]]

\* One ID: its row may no longer lead to a folder, the file may be missing.
catsearch_db_hit(s) ==
    LET e == s.hits[s.dbcur + 1]
        w == rslt_add(s, e)
        next == [s EXCEPT !.dbcur = @ + 1]
    IN  IF s.dbcur >= Len(s.hits) THEN Replied([s EXCEPT !.dbcur = 0], "eof", s.call.pos)
        ELSE IF ~dirlookup(s, e.in) THEN next
        ELSE IF e.id \in s.gone THEN Replied(s, "misc", s.call.pos)
        ELSE IF ~crit_check(s.crit, e) THEN next
        ELSE IF Full(w) THEN Replied(w, "ok", s.dbcur)
        ELSE [w EXCEPT !.dbcur = @ + 1]

(***************************************************************************)
(* Steps.                                                                  *)
(***************************************************************************)
CsInit ==
    \E cf \in CsConfigs :
        cs = [cf |-> cf, stack |-> <<>>, save |-> 0, dirpos |-> NoPos, cur |-> 0, dbcur |-> 0, hits |-> <<>>,
              call |-> NoCall, client |-> "none", db |-> 0, crit |-> cf.crits[1], pos |-> 0, got |-> <<>>,
              gone |-> {}]

\* The client starts a search, also in place of one it has open.
NewSearch ==
    /\ cs.call.at = "idle" /\ cs.cf.searches > 0
    /\ cs.client = "open" => cs.cf.abandon = 1
    /\ \E i \in 1..Len(cs.cf.crits), n \in cs.cf.rmatches :
          LET c == cs.cf.crits[i]
              db == IF cs.cf.searchdb = 1 /\ c.name # NoName /\ c.partial = 0 THEN 1 ELSE 0
              s == [CsSpend(cs, "searches") EXCEPT !.crit = c, !.db = db, !.pos = 0, !.got = <<>>,
                                                   !.client = "open"]
          IN  cs' = IF db = 1 THEN catsearch_db_begin(s, n) ELSE catsearch_begin(s, n)

\* It asks for the next page.
NextPage ==
    /\ cs.call.at = "idle" /\ cs.client = "open"
    /\ \E n \in cs.cf.rmatches :
          cs' = IF cs.db = 1 THEN catsearch_db_begin(cs, n) ELSE catsearch_begin(cs, n)

NextFolder == cs.call.at = "next" /\ cs' = catsearch_next(cs)

NextEntry ==
    /\ cs.call.at = "entry"
    /\ IF cs.dirpos.i < Len(Entries(cs, cs.dirpos.dir))
       THEN cs' \in catsearch_entry(cs) ELSE cs' = catsearch_close(cs)

NextHit == cs.call.at = "db" /\ cs' = catsearch_db_hit(cs)

\* A stat, a full folder cache or the metadata of a match fails the call.
CallFails ==
    /\ cs.call.at \in {"entry", "db"} /\ cs.cf.fails > 0
    /\ cs' = Replied(CsSpend(cs, "fails"), "misc", cs.call.pos)

\* Something is removed from the volume between two calls, with what it holds.
Vanish ==
    /\ cs.call.at = "idle" /\ cs.cf.removals > 0
    /\ \E d \in Folders(cs) : \E e \in Range(Entries(cs, d)) :
          /\ e.kind = "dir" => Entries(cs, e.id) = <<>>
          /\ cs' = [CsSpend(cs, "removals") EXCEPT
                       !.gone = @ \cup {e.id},
                       !.dirpos.i = IF @ > 0 /\ cs.dirpos.dir = d
                                       /\ e.id \in {Entries(cs, d)[k].id : k \in 1..@} THEN @ - 1 ELSE @]

CsNext == NewSearch \/ NextPage \/ NextFolder \/ NextEntry \/ NextHit \/ CallFails \/ Vanish

CsSpec == CsInit /\ [][CsNext]_csVars

(***************************************************************************)
(* Properties.                                                             *)
(***************************************************************************)
CsTypeOK ==
    /\ cs.call.at \in {"idle", "next", "entry", "db"}
    /\ cs.save \in 0..Len(cs.stack)
    /\ cs.client \in {"none", "open", "whole", "changed", "failed"}

\* The folders a walk can get into, down from the root.
Reached(s) ==
    LET step[k \in 0..Cardinality(Folders(s))] ==
            IF k = 0 THEN {CsRoot}
            ELSE step[k - 1] \cup {d \in Folders(s) : \E p \in Above(s, d) : p \in step[k - 1] /\ s.cf.mode[p] = "rx"}
    IN  step[Cardinality(Folders(s))]
Matching(s) ==
    {e.id : e \in {x \in UNION {Range(s.cf.tree[d]) : d \in {p \in Reached(s) : s.cf.mode[p] = "rx"}} :
                      crit_check(s.crit, x)}}

\* A search that came to its end gave the client every match that was there
\* from its start to its end, whatever the pages and the pauses were, and
\* whatever the searches before it left in the static variables of catsearch
\* and catsearch_db.  A walk gives no match twice: its stack and its open
\* folder go on where the page before stopped.
SearchWhole ==
    /\ cs.client = "whole" => Matching(cs) \ cs.gone \subseteq Range(cs.got)
    /\ cs.db = 0 => \A i, j \in 1..Len(cs.got) : cs.got[i] = cs.got[j] => i = j
=============================================================================
