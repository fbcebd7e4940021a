----------------------------- MODULE ExtAttr -----------------------------
(***************************************************************************)
(* The extended attributes of one file: the requests of                    *)
(* etc/afpd/extattrs.c, the attribute names and values a session caches on *)
(* the dircache entry of the file (etc/afpd/ad_cache.c), and the two       *)
(* stores, attributes of the inode (ea = sys, libatalk/vfs/ea_sys.c) and   *)
(* files beside the file (ea = ad, libatalk/vfs/ea_ad.c).                  *)
(*                                                                         *)
(* Two sessions serve the file; a change of one reaches the other as a     *)
(* hint.  A request is one step: its store operations hold the lock of the *)
(* EA header.  A value is a record of its bytes and their length, and the  *)
(* pseudo attributes of the FinderInfo and the resource fork are left out. *)
(***************************************************************************)
EXTENDS Integers, Sequences, FiniteSets

CONSTANTS EaNames,       \* attribute names the clients use
          EaOwn,         \* names of the server's own attributes
          EaValues,      \* values the clients store
          EaCacheNames,  \* names the cache of an entry takes (EA_CACHE_NAMES)
          EaCacheValues, \* bytes of values it takes (EA_CACHE_VALUES)
          EaMaxSize,     \* MAX_EA_SIZE
          EaConfigs

VARIABLE ex

EaSessions == {1, 2}
NoValue == [b |-> "none", len |-> 0]
Broken == [b |-> "short", len |-> 0]
NoList == [known |-> 0, names |-> {}]
NoCache == [ct |-> 0, list |-> NoList, vals |-> [n \in EaNames |-> NoValue]]

\* What a list of the file's attributes shows, and what a get returns.
Stored(s) == {n \in EaNames : s.hdr[n] # NoValue}
Content(s, n) == IF s.file[n].len < s.hdr[n].len THEN Broken
                 ELSE [b |-> s.file[n].b, len |-> s.hdr[n].len]

(***************************************************************************)
(* The stores.  The outcomes of an operation are records of the state of   *)
(* the store and the AFP result.  With ea = sys the two parts of the store *)
(* are the one attribute and change together.                              *)
(***************************************************************************)
Out(s, rc) == [s |-> s, rc |-> rc]
AddBoth(s, n, v) == [s EXCEPT !.hdr[n] = v, !.file[n] = v]

\* Opening the EA header fails on a lock another process holds.
Busy(s, rc) == IF s.busy = 1 THEN {Out(s, rc)} ELSE {}

ea_absent(s) == IF s.ver >= 34 THEN "noitem" ELSE "misc"

\* -2, -3: an exclusive create of what is there, a replace of what is not.
ea_addentry(s, n, flag) ==
    IF s.hdr[n] # NoValue THEN IF flag = "create" THEN "exist" ELSE "ok"
    ELSE IF flag = "replace" THEN ea_absent(s) ELSE "ok"

Did(s, ok) == [s |-> s, ok |-> ok]

\* The file is opened, truncated and written; each may fail.
write_ea(s, n, v) ==
    {Did([s EXCEPT !.file[n] = v], 1)} \cup
    (IF s.fails = 1 THEN {Did(s, 0), Did([s EXCEPT !.file[n] = Broken], 0)} ELSE {})

delete_ea_file(s, n) ==
    {Did([s EXCEPT !.file[n] = NoValue], 1)} \cup
    (IF s.fails = 1 /\ s.file[n] # NoValue THEN {Did(s, 0)} ELSE {})

ea_delentry(s, n) == [s EXCEPT !.hdr[n] = NoValue]

\* An entry this call added goes again when its file could not be written,
\* unless the file made so far cannot go; one that was there keeps the new size.
set_ea(s, n, v, flag) ==
    LET rc == ea_addentry(s, n, flag)
        unwound(t) == {Out(IF d.ok = 1 THEN ea_delentry(d.s, n) ELSE d.s, "misc")
                          : d \in delete_ea_file(t, n)}
        after(w) == IF w.ok = 1 THEN {Out(w.s, "ok")}
                    ELSE IF s.hdr[n] = NoValue THEN unwound(w.s) ELSE {Out(w.s, "misc")}
    IN  Busy(s, "misc") \cup
        (IF rc # "ok" THEN {Out(s, rc)}
         ELSE UNION {after(w) : w \in write_ea([s EXCEPT !.hdr[n] = v], n, v)})

\* The entry goes before its file, and stays gone when the file does not.
remove_ea(s, n) ==
    Busy(s, "misc") \cup
    (IF Stored(s) = {} THEN {Out(s, "misc")}
     ELSE {Out(d.s, IF d.ok = 1 THEN "ok" ELSE "misc")
              : d \in delete_ea_file(ea_delentry(s, n), n)})

\* The server's own attribute is refused by the file system store alone.
sys_ea_protected(n) == n \in EaOwn

sys_set_ea(s, n, v, flag) ==
    IF sys_ea_protected(n) THEN {Out(s, "ok")}
    ELSE IF s.hdr[n] # NoValue /\ flag = "create" THEN {Out(s, "exist")}
    ELSE IF s.hdr[n] = NoValue /\ flag = "replace" THEN {Out(s, ea_absent(s))}
    ELSE {Out(AddBoth(s, n, v), "ok")} \cup (IF s.fails = 1 THEN {Out(s, "misc")} ELSE {})

sys_remove_ea(s, n) ==
    IF sys_ea_protected(n) THEN {Out(s, "access")}
    ELSE IF s.hdr[n] = NoValue THEN {Out(s, "misc")}
    ELSE {Out(AddBoth(s, n, NoValue), "ok")}

vfs_ea_set(s, n, v, flag) ==
    IF s.kind = "ad" THEN set_ea(s, n, v, flag) ELSE sys_set_ea(s, n, v, flag)

vfs_ea_remove(s, n) == IF s.kind = "ad" THEN remove_ea(s, n) ELSE sys_remove_ea(s, n)

\* The results of a get: an attribute of which the client's reply buffer takes
\* less is refused with its size.  A locked header makes it absent.
GetContent(s, n, maxreply) ==
    LET v == Content(s, n)
    IN  IF s.hdr[n] = NoValue THEN [rc |-> ea_absent(s), v |-> NoValue]
        ELSE IF s.hdr[n].len > maxreply \/ s.hdr[n].len > EaMaxSize
        THEN [rc |-> "param", v |-> [b |-> "size", len |-> s.hdr[n].len]]
        ELSE IF v = Broken THEN [rc |-> "misc", v |-> NoValue]
        ELSE [rc |-> "ok", v |-> v]

get_eacontent(s, n, maxreply) ==
    {GetContent(s, n, maxreply)} \cup
    (IF s.busy = 1 THEN {[rc |-> ea_absent(s), v |-> NoValue]} ELSE {})

sys_get_eacontent(s, n, maxreply) ==
    IF sys_ea_protected(n) THEN {[rc |-> "access", v |-> NoValue]}
    ELSE {GetContent(s, n, maxreply)}

vfs_ea_getcontent(s, n, maxreply) ==
    IF s.kind = "ad" THEN get_eacontent(s, n, maxreply)
    ELSE sys_get_eacontent(s, n, maxreply)

\* A size query is answered for an attribute of any size.
vfs_ea_getsize(s, n) ==
    {IF r.rc = "param" THEN [r EXCEPT !.rc = "ok"] ELSE r
        : r \in vfs_ea_getcontent(s, n, 0)}

list_eas(s) == {[rc |-> "ok", names |-> Stored(s)]} \cup
               (IF s.busy = 1 THEN {[rc |-> "misc", names |-> {}]} ELSE {})

sys_list_eas(s) == {[rc |-> "ok", names |-> Stored(s) \ EaOwn]}

vfs_ea_list(s) == IF s.kind = "ad" THEN list_eas(s) ELSE sys_list_eas(s)

(***************************************************************************)
(* The cache of a session.                                                 *)
(***************************************************************************)
ea_cache_free(c) == [NoCache EXCEPT !.ct = c.ct]

\* A shared volume is never served from the cache, nor is a name of the
\* server's own.
Serves(e, n) == e.shared = 0 /\ n \notin EaOwn

\* The entry is brought to the fresh stat of the file: another ctime drops
\* what it caches.
ea_cache_entry(e, c) ==
    IF c.ct = e.ct THEN c ELSE [ea_cache_free(c) EXCEPT !.ct = e.ct]

ea_cache_store_names(c, names) ==
    IF Cardinality(names) > EaCacheNames THEN c
    ELSE [c EXCEPT !.list = [known |-> 1, names |-> names]]

CachedBytes(c) ==
    LET held == {n \in EaNames : c.vals[n] # NoValue}
        Sum[S \in SUBSET EaNames] ==
            IF S = {} THEN 0
            ELSE LET n == CHOOSE x \in S : TRUE IN c.vals[n].len + Sum[S \ {n}]
    IN  Sum[held]

ea_cache_store_value(c, n, v) ==
    IF CachedBytes(c) + v.len > EaCacheValues THEN c ELSE [c EXCEPT !.vals[n] = v]

ea_cache_absent(c, n) == c.list.known = 1 /\ n \notin c.list.names

(***************************************************************************)
(* The requests.                                                           *)
(***************************************************************************)
Store(e) == [hdr |-> e.hdr, file |-> e.file, kind |-> e.kind, ver |-> e.ver,
             busy |-> e.busy, fails |-> IF e.fails > 0 THEN 1 ELSE 0]

afp_listextattr(p) ==
    LET c == IF ex.shared = 1 THEN ex.cache[p] ELSE ea_cache_entry(ex, ex.cache[p])
        kept(r) == IF r.rc = "ok" /\ ex.shared = 0
                   THEN ea_cache_store_names(c, r.names) ELSE c
    IN  /\ ex.reqs > 0
        /\ \E d \in IF c.list.known = 1 /\ ex.shared = 0 THEN {c}
                    ELSE {kept(r) : r \in vfs_ea_list(Store(ex))} :
               ex' = [ex EXCEPT !.cache[p] = d, !.reqs = @ - 1]

\* A cached value or a cached list without the name answers; a probe of an
\* uncached file asks for the size; any other get reads the whole value and
\* keeps it.
afp_getextattr(p, n, maxreply) ==
    LET cached == Serves(ex, n)
        c == IF cached THEN ea_cache_entry(ex, ex.cache[p]) ELSE ex.cache[p]
        read == IF maxreply = 0 /\ ~cached THEN vfs_ea_getsize(Store(ex), n)
                ELSE vfs_ea_getcontent(Store(ex), n, EaMaxSize)
        kept(r) == IF r.rc = "ok" /\ cached THEN ea_cache_store_value(c, n, r.v) ELSE c
    IN  /\ ex.reqs > 0
        /\ \E d \in IF cached /\ (c.vals[n] # NoValue \/ ea_cache_absent(c, n)) THEN {c}
                    ELSE {kept(r) : r \in read} :
               ex' = [ex EXCEPT !.cache[p] = d, !.reqs = @ - 1]

\* An EA write of the inode changes its ctime, where the clock has moved on; a
\* file beside it changes no ctime of the file.
Stamp(e, o) == IF e.kind = "sys" /\ o.rc = "ok" /\ e.coarse = 0 THEN e.ct + 1 ELSE e.ct

\* As ea_written, keeping the cache when the store refused.
ea_written_kept(e, p, o) ==
    LET c == [ea_cache_free(e.cache[p]) EXCEPT !.ct = Stamp(e, o)]
    IN  [e EXCEPT !.hdr = o.s.hdr, !.file = o.s.file, !.ct = Stamp(e, o),
                  !.cache[p] = IF o.rc = "ok" THEN c ELSE @,
                  !.inbox = IF o.rc = "ok" THEN @ \cup (EaSessions \ {p}) ELSE @]

\* What the writer's entry caches goes whatever the result; only a success
\* refreshes its stat and hints the other session.
ea_written(e, p, o) ==
    LET c == ea_cache_free(e.cache[p])
    IN  [e EXCEPT !.hdr = o.s.hdr, !.file = o.s.file, !.ct = Stamp(e, o),
                  !.cache[p] = IF o.rc = "ok" THEN [c EXCEPT !.ct = Stamp(e, o)] ELSE c,
                  !.inbox = IF o.rc = "ok" THEN @ \cup (EaSessions \ {p}) ELSE @]

Spend(e, o) == [e EXCEPT !.reqs = @ - 1,
                         !.fails = IF o.rc = "misc" /\ @ > 0 THEN @ - 1 ELSE @]

afp_setextattr(p, n, v, flag) ==
    /\ ex.reqs > 0 /\ v.len <= EaMaxSize
    /\ \E o \in vfs_ea_set(Store(ex), n, v, flag) :
           ex' = Spend(ea_written(ex, p, o), o)

afp_remextattr(p, n) ==
    /\ ex.reqs > 0
    /\ \E o \in vfs_ea_remove(Store(ex), n) : ex' = Spend(ea_written(ex, p, o), o)

\* The hint of the other session's write.
HintRefresh(p) ==
    /\ p \in ex.inbox
    /\ ex' = [ex EXCEPT !.inbox = @ \ {p},
                        !.cache[p] = [ea_cache_free(@) EXCEPT !.ct = ex.ct]]

\* Another server of a shared volume writes the inode's attribute, and no hint
\* tells of it.
ForeignSet(n, v) ==
    /\ ex.shared = 1 /\ ex.reqs > 0
    /\ ex' = [ex EXCEPT !.hdr[n] = v, !.file[n] = v, !.reqs = @ - 1]

ExInit ==
    \E c \in EaConfigs :
        ex = [hdr |-> [n \in EaNames |-> NoValue], file |-> [n \in EaNames |-> NoValue],
              ct |-> 1, cache |-> [p \in EaSessions |-> NoCache], inbox |-> {},
              kind |-> c.kind, ver |-> c.ver, busy |-> c.busy, fails |-> c.fails,
              shared |-> c.shared, coarse |-> c.coarse, alone |-> c.alone,
              reqs |-> c.reqs]

ExNext ==
    \/ \E p \in EaSessions :
        /\ p = 1 \/ ex.alone = 0
        /\ \/ afp_listextattr(p)
           \/ \E n \in EaNames, m \in {0, 1} : afp_getextattr(p, n, m)
           \/ \E n \in EaNames, v \in EaValues, f \in {"any", "create", "replace"} :
                  afp_setextattr(p, n, v, f)
           \/ \E n \in EaNames : afp_remextattr(p, n)
    \/ \E p \in EaSessions : HintRefresh(p)
    \/ \E n \in EaNames, v \in EaValues : ForeignSet(n, v)

ExSpec == ExInit /\ [][ExNext]_ex

(***************************************************************************)
(* Properties.                                                             *)
(***************************************************************************)
ExTypeOK ==
    /\ \A n \in EaNames : ex.hdr[n] \in EaValues \cup {NoValue}
    /\ \A p \in EaSessions : ex.cache[p].list.names \subseteq EaNames

\* What session p's next request would serve from its cache is what the store
\* holds: with no hint on its way, a cached list is the list and a cached value
\* is the value, although an EA file beside the file changes no ctime a stat
\* could show, a second holds several changes, a store may refuse a write it
\* has half done, and attributes of shared volumes change unseen.  (A refused
\* write sends no hint, so it is followed in the writing session alone.)
EaServed ==
    \A p \in EaSessions :
        LET c == ea_cache_entry(ex, ex.cache[p])
        IN  (p \notin ex.inbox /\ ex.shared = 0) =>
                /\ c.list.known = 1 => [rc |-> "ok", names |-> c.list.names] \in vfs_ea_list(Store(ex))
                /\ \A n \in EaNames : c.vals[n] # NoValue => c.vals[n] = Content(ex, n)
=============================================================================
