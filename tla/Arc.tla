-------------------------------- MODULE Arc --------------------------------
(* The adaptive replacement (ARC) mode of the directory cache of one session:
   etc/afpd/dircache.c with the callers of directory.c that decide when an
   entry leaves the cache and when its memory is freed.

   The live lists t1 and t2 hold cached entries, the ghost lists b1 and b2
   evicted ones, which keep their data and stay in the hash tables.  The first
   element of a list is its least recently used entry.  What an entry caches,
   its names and its path are left out: an entry is a struct dir, told apart
   by its address alone.  A request holds the entries it looked up; removed
   entries wait on the invalid queue until the request ends. *)
EXTENDS Integers, Sequences, FiniteSets, TLC

CONSTANTS
  Entries,   \* struct dir objects
  C,         \* dircache_maxsize
  Root,      \* the volume root or rootParent, neither of which is ever cached
  None       \* the NULL pointer

ASSUME CAssumption == C \in Nat /\ C >= 2
ASSUME NameAssumption == Root \notin Entries /\ None \notin Entries /\ Root # None

VARIABLES
  lists,     \* the four queues
  p,         \* the target size of t1
  curdir,    \* the current directory of the session
  held,      \* the entries the running request holds pointers to
  invalid,   \* invalid_dircache_entries
  doomed     \* what a running scan of the hash table has still to remove

vars == <<lists, p, curdir, held, invalid, doomed>>

Names == {"t1", "t2", "b1", "b2"}
Elems(s) == {s[i] : i \in DOMAIN s}
Cached(l) == UNION {Elems(l[q]) : q \in Names}
Live(l) == Elems(l["t1"]) \cup Elems(l["t2"])
Size(l, q) == Len(l[q])

\* Removal of element i and insertion at the most recently used end.
Out(l, q, i) ==
  [l EXCEPT ![q] = [j \in 1 .. Len(l[q]) - 1 |-> IF j < i THEN l[q][j] ELSE l[q][j + 1]]]
Put(l, q, e) == [l EXCEPT ![q] = Append(l[q], e)]
Drop(l, e) ==
  IF e \notin Cached(l) THEN l
  ELSE LET q == CHOOSE x \in Names : e \in Elems(l[x])
       IN Out(l, q, CHOOSE i \in DOMAIN l[q] : l[q][i] = e)
Move_copies(l, e, q) == Put(l, q, e)
\* queue_move_to_tail_of, which needs the node of e.
Move(l, e, q) == IF e \in Cached(l) THEN Put(Drop(l, e), q, e) ELSE l

(***************************************************************************)
(* Replacement.                                                            *)
(***************************************************************************)

\* arc_find_victim and arc_ghost_trim_candidate: the least recently used
\* element other than skip, 0 for none.
Oldest(s, skip) ==
  IF s = <<>> THEN 0
  ELSE IF s[1] # skip THEN 1
  ELSE IF Len(s) >= 2 THEN 2 ELSE 0

\* A trim that looks at the ghost alone, and would take the promoted one.
trims_promoted(l, b, promoting) ==
  IF Size(l, "b1") + Size(l, "b2") < C \/ l[b] = <<>> THEN l ELSE Out(l, b, 1)

\* The trimming before a ghost is added to b.
arc_ensure_ghost_capacity(l, b, promoting) ==
  LET i == Oldest(l[b], promoting)
  IN IF Size(l, "b1") + Size(l, "b2") < C \/ i = 0 THEN l ELSE Out(l, b, i)

Ghost(t) == IF t = "t1" THEN "b1" ELSE "b2"

arc_evict_to_ghost(l, t, cd, promoting) ==
  LET i == Oldest(l[t], cd)
  IN Put(Out(arc_ensure_ghost_capacity(l, Ghost(t), promoting), t, i), Ghost(t), l[t][i])

TryT1First(l, target, in_b2) ==
  /\ Size(l, "t1") >= 1
  /\ (in_b2 /\ Size(l, "t1") = target) \/ Size(l, "t1") > target

arc_replace(l, target, in_b2, cd, promoting) ==
  LET first == IF TryT1First(l, target, in_b2) THEN "t1" ELSE "t2"
      other == IF first = "t1" THEN "t2" ELSE "t1"
  IN IF Oldest(l[first], cd) # 0 THEN arc_evict_to_ghost(l, first, cd, promoting)
     ELSE IF Oldest(l[other], cd) # 0 THEN arc_evict_to_ghost(l, other, cd, promoting)
     ELSE l

Larger(a, b) == IF a >= b THEN a ELSE b
Ratio(a, b) == IF b > 0 THEN Larger(a \div b, 1) ELSE 1

\* Case II, a hit in b1, raises the target; case III, a hit in b2, lowers it.
Adapted(l, e) ==
  IF e \in Elems(l["b1"])
    THEN LET up == p + Ratio(Size(l, "b2"), Size(l, "b1")) IN IF up > C THEN C ELSE up
  ELSE IF e \in Elems(l["b2"])
    THEN Larger(0, p - Ratio(Size(l, "b1"), Size(l, "b2")))
  ELSE p

\* Case I moves a live entry to the end of t2; cases II and III make room and
\* revive the ghost there.
Hit(l, target, e, cd) ==
  IF e \in Live(l) THEN Move(l, e, "t2")
  ELSE Move(arc_replace(l, target, e \in Elems(l["b2"]), cd, e), e, "t2")

L1(l) == Size(l, "t1") + Size(l, "b1")
L2(l) == Size(l, "t2") + Size(l, "b2")

\* A version that frees nothing when t1 fills the cache.
arc_case_iv_make_room_lax(l, cd) ==
  IF L1(l) = C /\ Size(l, "t1") < C
    THEN arc_replace(Out(l, "b1", 1), p, FALSE, cd, None)
  ELSE IF L1(l) < C /\ L1(l) + L2(l) >= C THEN arc_replace(l, p, FALSE, cd, None)
  ELSE l

arc_case_iv_make_room(l, cd) ==
  IF L1(l) = C /\ Size(l, "t1") < C
    THEN arc_replace(Out(l, "b1", 1), p, FALSE, cd, None)
  ELSE IF L1(l) = C
    THEN LET t == IF Oldest(l["t1"], cd) # 0 THEN "t1" ELSE "t2"
         IN IF Oldest(l[t], cd) # 0 THEN Out(l, t, Oldest(l[t], cd)) ELSE l
  ELSE IF L1(l) < C /\ L1(l) + L2(l) >= C
    THEN arc_replace(IF L1(l) + L2(l) = 2 * C /\ l["b2"] # <<>> THEN Out(l, "b2", 1) ELSE l,
                     p, FALSE, cd, None)
  ELSE l

arc_case_iv_insert(l, e) == Put(l, "t1", e)

Added(l, e, cd) == arc_case_iv_insert(arc_case_iv_make_room(l, cd), e)

\* An object that malloc can return: every other one is cached or waits to be
\* freed.
Fresh(e) == e \in Entries /\ e \notin Cached(lists) /\ e \notin invalid

(***************************************************************************)
(* The operations of a request.                                            *)
(***************************************************************************)

Init ==
  /\ lists = [q \in Names |-> <<>>]
  /\ p = 0
  /\ curdir = Root
  /\ held = {}
  /\ invalid = {}
  /\ doomed = {}

Retire_at_once == invalid' = invalid

\* The entries that left the tables wait on the invalid queue.
Retire == invalid' = invalid \cup (Cached(lists) \ Cached(lists'))

\* dircache_search_by_did, dircache_search_by_name and dircache_promote.
search(e) ==
  /\ doomed = {}
  /\ e \in Cached(lists)
  /\ p' = Adapted(lists, e)
  /\ lists' = Hit(lists, p', e, curdir)
  /\ held' = held \cup {e}
  /\ Retire
  /\ UNCHANGED <<curdir, doomed>>

\* dircache_add retires the entries that hold one of the new entry's keys (the
\* CNID, the name in the parent), and the new entry takes over a retired
\* curdir.  A file cannot, and leaves the volume root.
dircache_add(e, dup1, dup2, file) ==
  LET kept == Drop(Drop(lists, dup1), dup2)
      took == curdir \in {dup1, dup2}
      cd == IF took THEN None ELSE curdir
  IN /\ doomed = {}
     /\ Fresh(e)
     /\ {dup1, dup2} \subseteq Cached(lists) \cup {None}
     /\ dup1 = None => dup2 = None
     /\ lists' = Added(kept, e, cd)
     /\ curdir' = IF ~took THEN curdir ELSE IF file THEN Root ELSE e
     /\ held' = held \cup {e}
     /\ Retire
     /\ UNCHANGED <<p, doomed>>

\* dir_remove of curdir looks it up again: a fresh entry, a cached one (that of
\* its parent) or the volume root.
recovered(l, cd) ==
  \/ lists' = l /\ p' = p /\ cd = Root
  \/ Fresh(cd) /\ lists' = Added(l, cd, None) /\ p' = p
  \/ cd \in Cached(l) /\ p' = Adapted(l, cd) /\ lists' = Hit(l, p', cd, None)

dir_remove(e) ==
  /\ doomed = {}
  /\ e \in Cached(lists)
  /\ IF e = curdir
       THEN \E cd \in (Entries \ {e}) \cup {Root} : recovered(Drop(lists, e), cd) /\ curdir' = cd
       ELSE lists' = Drop(lists, e) /\ UNCHANGED <<p, curdir>>
  /\ Retire
  /\ UNCHANGED <<held, doomed>>

\* movecwd to an entry that was looked up for it.
movecwd(e) ==
  /\ doomed = {}
  /\ e = Root \/ e \in held \cap Live(lists)
  /\ curdir' = e
  /\ UNCHANGED <<lists, p, held, invalid, doomed>>

\* dircache_remove_children and dircache_purge_vol walk the hash table and take
\* out what they find: the entries under a path, those of a volume.
scan_begins(found) ==
  /\ doomed = {}
  /\ found # {} /\ found \subseteq Cached(lists)
  /\ doomed' = found
  /\ UNCHANGED <<lists, p, curdir, held, invalid>>

scan_removes(e) ==
  /\ e \in doomed
  /\ lists' = Drop(lists, e)
  /\ doomed' = doomed \ {e}
  /\ curdir' = IF curdir = e THEN None ELSE curdir
  /\ Retire
  /\ UNCHANGED <<p, held>>

\* A scan over: a curdir it removed is looked up again, or falls back to the
\* root.
scan_recovers ==
  /\ doomed = {} /\ curdir = None
  /\ \E cd \in Entries \cup {Root} : recovered(lists, cd) /\ curdir' = cd
  /\ Retire
  /\ UNCHANGED <<held, doomed>>

\* The end of a request: dir_free_invalid_q.
request_ends ==
  /\ doomed = {} /\ curdir # None
  /\ held # {} \/ invalid # {}
  /\ held' = {}
  /\ invalid' = {}
  /\ UNCHANGED <<lists, p, curdir, doomed>>

\* Between requests the idle worker frees entries at once.
dir_remove_and_free(e) ==
  /\ doomed = {} /\ held = {} /\ invalid = {} /\ curdir # None
  /\ e \in Cached(lists) /\ e # curdir
  /\ lists' = Drop(lists, e)
  /\ UNCHANGED <<p, curdir, held, invalid, doomed>>

Request ==
  /\ curdir # None
  /\ \/ \E e \in Entries : search(e)
     \/ \E e \in Entries, d1, d2 \in Entries \cup {None}, file \in BOOLEAN :
          dircache_add(e, d1, d2, file)
     \/ \E e \in Entries : dir_remove(e)
     \/ \E e \in Entries \cup {Root} : movecwd(e)
     \/ \E found \in SUBSET Cached(lists) : scan_begins(found)

Next ==
  \/ Request
  \/ \E e \in Entries : scan_removes(e)
  \/ scan_recovers
  \/ request_ends
  \/ \E e \in Entries : dir_remove_and_free(e)

Spec == Init /\ [][Next]_vars

(***************************************************************************)
(* What the cache promises.                                                *)
(***************************************************************************)

TypeOK ==
  /\ lists \in [Names -> Seq(Entries)]
  /\ p \in 0 .. C
  /\ curdir \in Entries \cup {Root, None}
  /\ held \subseteq Entries
  /\ invalid \subseteq Entries
  /\ doomed \subseteq Entries

\* No struct dir is linked into two queues, or twice into one: every case moves
\* a node, and no removal path leaves it behind in another list.
OnePlace ==
  \A q, r \in Names : \A i \in DOMAIN lists[q], j \in DOMAIN lists[r] :
    lists[q][i] = lists[r][j] => q = r /\ i = j

\* At most C entries are live, although REPLACE gives up when curdir is all it
\* finds and the caller goes on: the "temporarily over capacity" that five log
\* messages announce does not occur.
LiveBounded == Size(lists, "t1") + Size(lists, "t2") <= C

\* Live entries and ghosts fit the hash tables, which abort the process when an
\* insert meets 2C nodes: arc_case_iv_make_room frees one first whenever they
\* are full.
HashBounded == L1(lists) + L2(lists) <= 2 * C

\* The recency half never outgrows the cache, the condition on which the case
\* distinction of arc_case_iv_make_room rests (it has no case for more).
RecencyBounded == L1(lists) <= C

\* curdir is a live entry or a root at every moment at which a request runs:
\* never a ghost, which the next trim may free, and never a removed entry.
CurdirLive == curdir \in Live(lists) \cup {Root, None}

\* A pointer the running request obtained stays readable to its end, whatever
\* evictions, scans and removals the rest of the request causes.
HeldReadable == held \subseteq Cached(lists) \cup invalid

\* The three bounds together.
WithinBounds == LiveBounded /\ RecencyBounded /\ HashBounded

\* Both kinds of pointer, curdir and those of the running request.
PointersGood == CurdirLive /\ HeldReadable

\* A lookup returns a live entry: REPLACE, which makes room for a ghost while
\* it is still on its ghost list, neither trims nor evicts it.
FoundIsLive == [][\A e \in held' \ held : e \in Live(lists')]_vars

\* Model checking: entries are told apart by nothing but their names.
Symmetry == Permutations(Entries)
=============================================================================
