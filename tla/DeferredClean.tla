---------------------------- MODULE DeferredClean ----------------------------
(***************************************************************************)
(* The deferred child cleanup of the directory cache (etc/afpd/dircache.c) *)
(* A rename or a removal of a directory leaves the cached entries below it *)
(* stale.  The main thread queues the directory's path in a ring; while it *)
(* waits in poll(), the idle worker scans the hash table chain by chain    *)
(* and frees the entries below the queued paths.  The two threads never    *)
(* run at once (see IdleWorker), so one call of the worker and one request *)
(* of the main thread are steps; a revoked grant cuts a call short.        *)
(*                                                                         *)
(* An entry is known by its full path, a sequence of names; volumes do not *)
(* nest, so a path belongs to one volume.                                  *)
(***************************************************************************)
EXTENDS Integers, Sequences, FiniteSets, FiniteSetsExt

CONSTANTS
    Paths,      \* the full paths of the entries that may be cached
    Dirs,       \* the full paths of the directories renamed or removed
    Vols,       \* volumes
    VolOf,      \* the volume of a path
    Hash,       \* hash value of the entry of a path
    Cap,        \* MAX_DEFERRED_CLEANUPS
    Batch,      \* DEFERRED_CHAIN_BATCH
    Chains,     \* chains of the smallest hash table
    MaxChains,  \* chains of the largest table the instance reaches
    SeqMod,     \* 2^32: the width of deferred_seq
    FirstSeq,   \* value of deferred_seq the behaviour starts from
    MaxJobs,    \* bound on the number of jobs queued
    Shrinks     \* whether a removal by the main thread may halve the table

VARIABLES
    cache,      \* paths with an entry in the dircache
    curdir,     \* path of the entry curdir points to, or <<>>
    open,       \* volumes with AFPVOL_OPEN
    nchains,    \* hash_size(dircache)
    q,          \* deferred_queue, head, tail, count and depth watermarks
    seq,        \* deferred_seq
    scan,       \* deferred_active (-1 for none), deferred_scan_started_seq
    cover,      \* the covering-scan memo; path <<>> when unset
    batch,      \* the flat batch in progress
    stale,      \* history: entries below a directory since its cleanup
    silent      \* the client has sent its last request

vars == <<cache, curdir, open, nchains, q, seq, scan, cover, batch, stale, silent>>

Slots == 0..(Cap - 1)
Dead == [path |-> <<>>, idx |-> 0, seq |-> 0]
NoScan == [active |-> -1, started |-> 0]
NoCover == [path |-> <<>>, seq |-> 0]
NoBatch == [on |-> FALSE, members |-> {}, seq |-> 0, depth |-> 0, idx |-> 0]

\* path_is_strict_child
Below(p, parent) ==
    Len(p) > Len(parent) /\ SubSeq(p, 1, Len(parent)) = parent

\* (a - b) >= 0x80000000u in 32-bit arithmetic: a was drawn before b
Precedes(a, b) == (a - b) % SeqMod >= SeqMod \div 2

ChainOf(p) == Hash[p] % nchains
Depth(p) == Len(p)

Live(r, i) == r.slot[i].path # <<>>
Window(r) == {(r.head + k) % Cap : k \in 0..(r.count - 1)}
LiveJobs(r) == {i \in Window(r) : Live(r, i)}

-----------------------------------------------------------------------------
(* The ring *)

\* deferred_job_kill on the slots in dead, then deferred_compact_tail when
\* atTail and deferred_compact_head when atHead.  The depth watermarks are
\* reset only by a tail compaction that empties the ring.
Trim(r, dead, atTail, atHead) ==
    LET live == {k \in 0..(r.count - 1) :
                   LET i == (r.head + k) % Cap IN Live(r, i) /\ i \notin dead}
        to == IF ~atTail THEN r.count ELSE IF live = {} THEN 0 ELSE Max(live) + 1
        from == IF ~atHead \/ to = 0 THEN 0
                ELSE IF live = {} THEN r.count ELSE Min(live)
        reset == atTail /\ to = 0
    IN [slot |-> [i \in Slots |-> IF i \in dead THEN Dead ELSE r.slot[i]],
        head |-> (r.head + from) % Cap,
        tail |-> (r.head + to) % Cap,
        count |-> to - from,
        lo |-> IF reset THEN 0 ELSE r.lo,
        hi |-> IF reset THEN 0 ELSE r.hi]

Compact(r, dead) == Trim(r, dead, TRUE, TRUE)

\* the body of dircache_remove_children_defer once a slot is taken
Enqueue(r, p) ==
    LET d == Depth(p)
    IN [slot |-> [r.slot EXCEPT ![r.tail] = [path |-> p, idx |-> 0, seq |-> seq]],
        head |-> r.head,
        tail |-> (r.tail + 1) % Cap,
        count |-> r.count + 1,
        lo |-> IF r.count = 0 \/ d < r.lo THEN d ELSE r.lo,
        hi |-> IF r.count = 0 \/ d > r.hi THEN d ELSE r.hi]

-----------------------------------------------------------------------------
(* The main thread *)

Init ==
    /\ cache = {}
    /\ curdir = <<>>
    /\ open = Vols
    /\ nchains = Chains
    /\ q = [slot |-> [i \in Slots |-> Dead], head |-> 0, tail |-> 0,
            count |-> 0, lo |-> 0, hi |-> 0]
    /\ seq = FirstSeq
    /\ scan = NoScan
    /\ cover = NoCover
    /\ batch = NoBatch
    /\ stale = {}
    /\ silent = FALSE

\* A lookup caches a directory; hash_insert may double the table.
dircache_add(p) ==
    /\ p \notin cache
    /\ VolOf[p] \in open
    /\ cache' = cache \cup {p}
    /\ nchains' \in {n \in {nchains, 2 * nchains} : n <= MaxChains}
    /\ UNCHANGED <<curdir, open, q, seq, scan, cover, batch, stale>>

\* dir_remove and eviction: hash_delete may halve the table.
dir_remove(p) ==
    /\ p \in cache
    /\ cache' = cache \ {p}
    /\ stale' = stale \ {p}
    /\ curdir' = IF p = curdir THEN <<>> ELSE curdir
    /\ nchains' \in {nchains} \cup
                    {n \in {nchains \div 2} : Shrinks /\ n >= Chains}
    /\ UNCHANGED <<open, q, seq, scan, cover, batch>>

\* A request enters a directory it has just found at its path.
movecwd(p) ==
    /\ p \in cache
    /\ p # curdir
    /\ curdir' = p
    /\ stale' = stale \ {p}
    /\ UNCHANGED <<cache, open, nchains, q, seq, scan, cover, batch>>

\* dircache_remove_children: the synchronous scan; curdir is resolved anew.
RemoveChildrenNow(p) ==
    LET gone == {e \in cache : Below(e, p)}
    IN /\ cache' = cache \ gone
       /\ stale' = stale \ gone
       /\ curdir' = IF curdir \in gone THEN <<>> ELSE curdir
       /\ UNCHANGED <<q, seq>>

\* The directory at p was renamed or removed.  malloc() may fail.
dircache_remove_children_defer(p) ==
    /\ VolOf[p] \in open
    /\ (seq - FirstSeq) % SeqMod < MaxJobs
    /\ \/ RemoveChildrenNow(p)
       \/ /\ q.count < Cap
          /\ q' = Enqueue(q, p)
          /\ seq' = (seq + 1) % SeqMod
          /\ stale' = stale \cup {e \in cache \ {curdir} : Below(e, p)}
          /\ UNCHANGED <<cache, curdir>>
    /\ UNCHANGED <<open, nchains, scan, cover, batch>>

\* dircache_flush_deferred_for_vol: the jobs of v, the entries they free,
\* and the queue without them.
JobsOf(v) == {i \in LiveJobs(q) : VolOf[q.slot[i].path] = v}
Flushed(v) == Trim(q, JobsOf(v), FALSE, TRUE)
FlushScan_keeps(v) == scan

FlushScan(v) ==
    IF scan.active >= 0 /\ scan.active \in JobsOf(v)
    THEN NoScan ELSE scan
FlushCover(v) ==
    IF cover.path # <<>> /\ VolOf[cover.path] = v THEN NoCover ELSE cover

\* afp_closevol: curdir is dropped, the jobs of the volume are finished, and
\* closevol() purges the volume's entries (dircache_purge_vol).
afp_closevol(v) ==
    /\ v \in open
    /\ open' = open \ {v}
    /\ curdir' = <<>>
    /\ q' = Flushed(v)
    /\ scan' = FlushScan(v)
    /\ cover' = FlushCover(v)
    /\ batch' = NoBatch
    /\ cache' = {e \in cache : VolOf[e] # v}
    /\ stale' = {e \in stale : VolOf[e] # v}
    /\ UNCHANGED <<nchains, seq>>

\* close_all_vol, at a logout: the jobs stay in the queue.
close_all_vol ==
    /\ open # {}
    /\ open' = {}
    /\ curdir' = <<>>
    /\ cache' = {}
    /\ stale' = {}
    /\ UNCHANGED <<nchains, q, seq, scan, cover, batch>>

afp_openvol(v) ==
    /\ v \notin open
    /\ open' = open \cup {v}
    /\ UNCHANGED <<cache, curdir, nchains, q, seq, scan, cover, batch, stale>>

-----------------------------------------------------------------------------
(* The idle worker *)

\* What one call frees of the entries that match in a chain: a batch-limited
\* number of them, or fewer when the grant is revoked in between.
Freed(hits, revoked) ==
    LET n == Min({Cardinality(hits), Batch})
    IN {g \in SUBSET hits : IF revoked THEN Cardinality(g) < n
                                       ELSE Cardinality(g) = n}

Free(gone) ==
    /\ cache' = cache \ gone
    /\ stale' = stale \ gone
    /\ UNCHANGED <<curdir, open, nchains, seq>>

Retire(r, a) == Compact(r, {a})
CoverSet(job, s) == [path |-> job.path, seq |-> s]

\* deferred_batch_match: the unique candidate ancestor of p at the batch's
\* depth, looked up among the members.
BatchMatch(b, r, p) ==
    /\ Depth(p) > b.depth
    /\ \E i \in b.members : r.slot[i].path = SubSeq(p, 1, b.depth)

BatchComplete_keep(b, r) == q' = Compact(r, {}) /\ batch' = NoBatch

BatchComplete(b, r) ==
    /\ q' = Compact(r, {i \in b.members :
                          Live(r, i) /\ Precedes(r.slot[i].seq, b.seq)})
    /\ batch' = NoBatch

BatchHits(b, r) ==
    {p \in cache \ {curdir} : ChainOf(p) = b.idx /\ BatchMatch(b, r, p)}

deferred_batch_chain(b, r, revoked) ==
    /\ UNCHANGED <<scan, cover>>
    /\ \/ /\ b.idx >= nchains
          /\ ~revoked
          /\ Free({})
          /\ BatchComplete(b, r)
       \/ /\ b.idx < nchains
          /\ \E hits \in {BatchHits(b, r)} :
             /\ \/ /\ revoked \/ Cardinality(hits) >= Batch
                   /\ q' = r
                   /\ batch' = b
                \/ /\ ~revoked /\ Cardinality(hits) < Batch
                   /\ b.idx + 1 < nchains
                   /\ q' = r
                   /\ batch' = [b EXCEPT !.idx = @ + 1]
                \/ /\ ~revoked /\ Cardinality(hits) < Batch
                   /\ b.idx + 1 >= nchains
                   /\ BatchComplete(b, r)
             /\ \E gone \in Freed(hits, revoked) : Free(gone)

ScanHits(job) ==
    {p \in cache \ {curdir} : ChainOf(p) = job.idx /\ Below(p, job.path)}

\* The single-job scan of job a of the ring r, begun at sequence number s, goes
\* on at chain n, or is done.
ScanOn(a, s, r, n) ==
    /\ q' = [r EXCEPT !.slot[a].idx = n]
    /\ scan' = [active |-> a, started |-> s]
    /\ cover' = cover

ScanDone(a, s, r) ==
    /\ q' = Retire(r, a)
    /\ scan' = NoScan
    /\ cover' = CoverSet(r.slot[a], s)

ScanChain(a, s, r, revoked) ==
    /\ batch' = batch
    /\ \E job \in {r.slot[a]} :
       \/ /\ VolOf[job.path] \notin open
          /\ ~revoked
          /\ Free({})
          /\ q' = Retire(r, a)
          /\ scan' = NoScan
          /\ cover' = cover
       \/ /\ VolOf[job.path] \in open
          /\ job.idx >= nchains
          /\ ~revoked
          /\ Free({})
          /\ ScanDone(a, s, r)
       \/ /\ VolOf[job.path] \in open
          /\ job.idx < nchains
          /\ \E hits \in {ScanHits(job)} :
             /\ \/ /\ revoked \/ Cardinality(hits) >= Batch
                   /\ ScanOn(a, s, r, job.idx)
                \/ /\ ~revoked /\ Cardinality(hits) < Batch
                   /\ IF job.idx + 1 < nchains THEN ScanOn(a, s, r, job.idx + 1)
                      ELSE ScanDone(a, s, r)
             /\ \E gone \in Freed(hits, revoked) : Free(gone)

CoverDrops_any(job) ==
    /\ cover.path # <<>>
    /\ job.path = cover.path \/ Below(job.path, cover.path)

CoverDrops(job) ==
    /\ cover.path # <<>>
    /\ Precedes(job.seq, cover.seq)
    /\ job.path = cover.path \/ Below(job.path, cover.path)

\* dircache_process_deferred_chain with no scan under way: the newest live job,
\* or all of them in a batch when they lie at one depth.
SelectJob(r, revoked) ==
    LET last == (r.tail - 1) % Cap
    IN \/ /\ r.count = 0
          /\ ~revoked
          /\ q' = r
          /\ Free({})
          /\ UNCHANGED <<scan, cover, batch>>
       \/ /\ r.count > 1
          /\ r.lo = r.hi
          /\ deferred_batch_chain([on |-> TRUE, members |-> LiveJobs(r),
                                   seq |-> seq, depth |-> r.lo, idx |-> 0],
                                  r, revoked)
       \/ /\ r.count = 1 \/ (r.count > 1 /\ r.lo # r.hi)
          /\ \/ /\ CoverDrops(r.slot[last])
                /\ ~revoked
                /\ q' = Trim(r, {last}, TRUE, FALSE)
                /\ Free({})
                /\ UNCHANGED <<scan, cover, batch>>
             \/ /\ ~CoverDrops(r.slot[last])
                /\ ScanChain(last, seq, r, revoked)

dircache_process_deferred_chain(revoked) ==
    /\ q.count > 0
    /\ \/ batch.on /\ deferred_batch_chain(batch, q, revoked)
       \/ ~batch.on /\ scan.active < 0
             /\ \E r \in {Compact(q, {})} : SelectJob(r, revoked)
       \/ ~batch.on /\ scan.active >= 0
             /\ ScanChain(scan.active, scan.started, q, revoked)

Main ==
    /\ ~silent
    /\ \/ \E p \in Paths : dircache_add(p) \/ dir_remove(p) \/ movecwd(p)
       \/ \E p \in Dirs : dircache_remove_children_defer(p)
       \/ \E v \in Vols : afp_closevol(v) \/ afp_openvol(v)
       \/ close_all_vol
    /\ silent' = silent

Worker ==
    /\ \E revoked \in BOOLEAN : dircache_process_deferred_chain(revoked)
    /\ silent' = silent

\* The client leaves the main thread in poll() for good.
LastRequest ==
    /\ ~silent
    /\ silent' = TRUE
    /\ UNCHANGED <<cache, curdir, open, nchains, q, seq, scan, cover, batch, stale>>

Next == Main \/ Worker \/ LastRequest

Spec == Init /\ [][Next]_vars

\* A main thread that stays in poll() grants the worker, and revokes no grant,
\* so calls run to their end.
Idle == silent /\ dircache_process_deferred_chain(FALSE) /\ silent' = silent

FairSpec == Spec /\ WF_vars(Idle)

-----------------------------------------------------------------------------
(* Properties *)

Jobs == [path : Dirs, idx : 0..MaxChains, seq : 0..(SeqMod - 1)] \cup {Dead}

TypeOK ==
    /\ cache \subseteq Paths
    /\ curdir \in Paths \cup {<<>>}
    /\ open \subseteq Vols
    /\ nchains \in Chains..MaxChains
    /\ q.slot \in [Slots -> Jobs]
    /\ q.head \in Slots /\ q.tail \in Slots /\ q.count \in 0..Cap
    /\ seq \in 0..(SeqMod - 1)
    /\ scan.active \in Slots \cup {-1}
    /\ batch.members \subseteq Slots
    /\ stale \subseteq cache

\* An entry that a rename or a removal of a directory above it made stale is
\* never forgotten: as long as it is cached, a live job whose scan will still
\* reach its chain lies above it.  Growth of the table in the middle of a
\* scan, revoked grants, batches, full chains, dropped jobs and a closing
\* volume lose none (dircache_process_deferred_chain).
StaleCovered ==
    \A e \in stale :
        \E i \in LiveJobs(q) :
            /\ Below(e, q.slot[i].path)
            /\ IF batch.on /\ i \in batch.members THEN ChainOf(e) >= batch.idx
               ELSE i = scan.active => ChainOf(e) >= q.slot[i].idx

\* What the worker is about to dereference is there: the job of the running
\* scan and the members of the batch are live slots of the ring, the members
\* of one depth, no live job lies outside the window between head and tail,
\* and a scan and a batch never run together.
RingSound ==
    /\ q.tail = (q.head + q.count) % Cap
    /\ \A i \in Slots : Live(q, i) => i \in Window(q)
    /\ scan.active >= 0 => Live(q, scan.active) /\ ~batch.on
    /\ batch.on => \A i \in batch.members :
                     Live(q, i) /\ Depth(q.slot[i].path) = batch.depth

\* Once the client is silent and the main thread stays in poll(), the worker empties the queue: no
\* chain, full batch or dead slot makes it scan for ever.
Drains == silent ~> q.count = 0

=============================================================================
