----------------------------- MODULE ForkCache -----------------------------
(***************************************************************************)
(* The resource fork buffers of one AFP session: the second tier of its    *)
(* AppleDouble cache (etc/afpd/ad_cache.c), the reads of etc/afpd/fork.c   *)
(* that serve and fill it, and the writes of this and of another session   *)
(* that make a buffer stale.                                               *)
(*                                                                         *)
(* A name has a sidecar file with the bytes v of length len and a change   *)
(* time st, which is as coarse as the clock now.  The directory cache has  *)
(* an entry of the name or not; an entry knows the fork's length rlen or   *)
(* not, and holds a buffer with the stamp of its fill or not.  Names that  *)
(* are hard links of one inode share the session's resource descriptor,    *)
(* which is on the sidecar of the name that was opened first.              *)
(*                                                                         *)
(* A fill is two steps: the stamp, then the bytes.  The other session      *)
(* moves in between.  Its hint about a fork's first change is in hints     *)
(* from the change on, and arrives between two requests.                   *)
(***************************************************************************)
EXTENDS Integers, Sequences, FiniteSets, SequencesExt, FiniteSetsExt

CONSTANTS FcNames,     \* the file names
          FcForks,     \* slots of this session's open forks
          FcBytes,     \* values of a fork
          FcMaxLen,    \* the longest fork
          FcEntryMax,  \* rfork_max_entry_size
          FcBudget,    \* rfork_cache_budget
          FcConfigs    \* the situations the runs start from

VARIABLE fc
fcVars == <<fc>>

Unknown == -1
NoName == "none"
NoBuf == [v |-> "none", st |-> -1]
NoEntry == [in |-> 0, rlen |-> Unknown, buf |-> NoBuf]
NoFork == [n |-> NoName, w |-> 0, cached |-> 0, rf |-> 0, mod |-> 0]
NoRead == [n |-> NoName, v |-> "none"]
Idle == [fork |-> 0, st |-> -1]

\* The inode of a name: with link the names are hard links of one file.
Ino(s, n) == IF s.cf.link = 1 THEN "one" ELSE n
Inodes == FcNames \cup {"one"}

FcInit ==
    \E cf \in FcConfigs :
        fc = [cf |-> cf,
              side |-> [n \in FcNames |-> [len |-> 1, v |-> "a", st |-> 0]],
              ent |-> [n \in FcNames |-> NoEntry],
              fork |-> [k \in FcForks |-> NoFork],
              fd |-> [i \in Inodes |-> NoName],
              fdw |-> [i \in Inodes |-> 0],
              lru |-> <<>>, used |-> 0, fill |-> Idle, last |-> NoRead,
              other |-> [i \in Inodes |-> NoName], told |-> [i \in Inodes |-> 0],
              hints |-> {}, now |-> 0]

Spend(s, what) == [s EXCEPT !.cf[what] = @ - 1]

(***************************************************************************)
(* The buffers and their budget (ad_cache.c).                              *)
(***************************************************************************)
rfork_cache_free(s, n) ==
    LET e == s.ent[n]
        rest == SelectSeq(s.lru, LAMBDA m : m # n)
        s1 == [s EXCEPT !.ent[n].buf = NoBuf, !.lru = rest]
    IN  IF e.buf = NoBuf THEN s
        ELSE IF e.rlen < 0 THEN s1
        ELSE [s1 EXCEPT !.used = IF e.rlen > @ THEN 0 ELSE @ - e.rlen]

\* The mutant: the length is forgotten before the buffer is freed.
DCMOD_AD_INV_early(s, n) ==
    rfork_cache_free([s EXCEPT !.ent[n].rlen = Unknown], n)

\* dir_modify with DCMOD_AD_INV: the buffer first, whose length the budget
\* needs, then the metadata.
DCMOD_AD_INV(s, n) ==
    IF s.ent[n].in = 0 THEN s
    ELSE [rfork_cache_free(s, n) EXCEPT !.ent[n].rlen = Unknown]

\* dir_modify with DCMOD_AD, which ends in ad_store_to_cache.
DCMOD_AD(s, n, rlen) ==
    IF s.ent[n].in = 0 THEN s
    ELSE [rfork_cache_free(s, n) EXCEPT !.ent[n].rlen = rlen]

rfork_cache_drop(s, n) == DCMOD_AD_INV(s, n)

\* Freed from the head of the list, the least recently served first, up to
\* the first state that has room.
rfork_cache_evict_to_budget(s, needed) ==
    LET after(i) == FoldLeft(rfork_cache_free, s, SubSeq(s.lru, 1, i))
        i == CHOOSE j \in 0..Len(s.lru) :
                 /\ j = Len(s.lru) \/ after(j).used + needed <= FcBudget
                 /\ \A k \in 0..(j - 1) : after(k).used + needed > FcBudget
    IN  IF i = 0 THEN s ELSE after(i)

(***************************************************************************)
(* Looking at an entry and at a sidecar (fork.c, ofork.c).                 *)
(***************************************************************************)
fork_cached(k) == k.cached = 1 /\ k.rf = 0

\* The entry of the fork's own name, if the cache has it.
of_dircache_entry(s, k) == s.ent[k.n].in = 1

rfork_buf_holds(s, n, len, st) ==
    LET e == s.ent[n]
    IN  e.buf # NoBuf /\ e.rlen > 0 /\ e.rlen = len /\ e.buf.st = st

\* The sidecar under a path is the one the shared descriptor has open.
of_rfork_held(s, n) == s.fd[Ino(s, n)] = n

rfork_cache_serve_from_buf(s, n) ==
    [s EXCEPT !.last = [n |-> n, v |-> s.ent[n].buf.v],
              !.lru = Append(SelectSeq(@, LAMBDA m : m # n), n)]

\* A cached fork gets its descriptor.  A sibling's descriptor on another
\* name's sidecar is refused.
fork_open_rsrc(s, k) ==
    LET n == s.fork[k].n
        i == Ino(s, n)
    IN  IF s.fd[i] # NoName /\ ~of_rfork_held(s, n) THEN [s |-> s, ok |-> 0]
        ELSE [s |-> [s EXCEPT !.fork[k].rf = 1, !.fd[i] = n,
                              !.fdw[i] = IF s.fd[i] = NoName THEN 1 ELSE @],
              ok |-> 1]

(***************************************************************************)
(* Reading.                                                                *)
(***************************************************************************)
\* The mutant: the bands are not looked at.
WriterElsewhere_untested(s, n) == FALSE

\* The band of the data file shows another session's fork open for writing.
WriterElsewhere(s, n) == s.other[Ino(s, n)] # NoName

\* The tests and the eviction of rfork_cache_store_from_fd up to its fstat.
\* The state after an eviction that made no room is kept too.
StoreBegins(s, k) ==
    LET n == s.fork[k].n
        rlen == s.ent[n].rlen
        s1 == rfork_cache_evict_to_budget(s, rlen)
    IN  IF WriterElsewhere(s, n) THEN s
        ELSE IF s1.used + rlen > FcBudget THEN s1
        ELSE [s1 EXCEPT !.fill = [fork |-> k, st |-> s.side[s.fd[Ino(s, n)]].st]]

\* The bytes of the fill.  A short read forgets the metadata; a longer fork
\* gives the prefix the length asked for.
rfork_cache_store_from_fd(s) ==
    LET n == s.fork[s.fill.fork].n
        side == s.side[s.fd[Ino(s, n)]]
        rlen == s.ent[n].rlen
        s1 == [s EXCEPT !.fill = Idle]
    IN  IF side.len < rlen THEN [s1 EXCEPT !.ent[n].rlen = Unknown]
        ELSE rfork_cache_serve_from_buf(
                 [s1 EXCEPT !.ent[n].buf = [v |-> side.v, st |-> s.fill.st],
                            !.used = @ + rlen], n)

\* The part of read_fork after a descriptor is there: the measure, the
\* buffer, the drop of a buffer or a length that no longer fits, the fill.
\* Everything else reads the file and touches no cache.
ReadOpen(s, k) ==
    LET f == s.fork[k]
        i == Ino(s, f.n)
        side == s.side[s.fd[i]]
        e == s.ent[f.n]
    IN  IF s.fd[i] = NoName \/ side.len = 0 THEN s
        ELSE IF f.w = 1 \/ ~of_dircache_entry(s, f) THEN s
        ELSE IF rfork_buf_holds(s, f.n, side.len, side.st)
        THEN rfork_cache_serve_from_buf(s, f.n)
        ELSE IF e.rlen >= 0 /\ (e.rlen # side.len \/ e.buf # NoBuf)
        THEN rfork_cache_drop(s, f.n)
        ELSE IF e.rlen > 0 /\ e.rlen <= FcEntryMax /\ e.buf = NoBuf /\ of_rfork_held(s, f.n)
        THEN StoreBegins(s, k)
        ELSE s

\* A fork opened from the cache serves the buffer while the sidecar under
\* the entry's path has its length and stamp, else it opens the sidecar.
read_fork(s, k) ==
    LET f == s.fork[k]
        side == s.side[f.n]
        tried == s.cf.strict = 0 /\ of_dircache_entry(s, f) /\ s.ent[f.n].buf # NoBuf
        holds == tried /\ rfork_buf_holds(s, f.n, side.len, side.st)
        r == fork_open_rsrc(IF tried THEN rfork_cache_drop(s, f.n) ELSE s, k)
    IN  IF ~fork_cached(f) THEN ReadOpen(s, k)
        ELSE IF holds THEN rfork_cache_serve_from_buf(s, f.n)
        ELSE IF r.ok = 0 THEN r.s ELSE ReadOpen(r.s, k)

(***************************************************************************)
(* Opening, writing and closing the session's own forks.                   *)
(***************************************************************************)
\* A read-only fork of a file with one name, no open fork and a buffer opens
\* from the cache.  A write intent does not join a read-only descriptor.
afp_openfork(s, k, n, w) ==
    LET i == Ino(s, n)
        opened == \E j \in FcForks : s.fork[j].n # NoName /\ Ino(s, s.fork[j].n) = i
        cached == w = 0 /\ s.cf.strict = 0 /\ ~opened /\ s.cf.link = 0
                        /\ s.ent[n].in = 1 /\ s.ent[n].buf # NoBuf /\ s.ent[n].rlen > 0
        f == [NoFork EXCEPT !.n = n, !.w = w]
    IN  IF cached THEN [s EXCEPT !.fork[k] = [f EXCEPT !.cached = 1]]
        ELSE IF w = 1 /\ s.fd[i] # NoName /\ s.fdw[i] = 0 THEN s
        ELSE [s EXCEPT !.fork[k] = [f EXCEPT !.rf = 1],
                       !.fd[i] = IF @ = NoName THEN n ELSE @,
                       !.fdw[i] = IF s.fd[i] = NoName THEN w ELSE @]

\* The entries of every name under which this session has the adouble open.
of_rfork_changed(s, k) ==
    LET i == Ino(s, s.fork[k].n)
        names == {s.fork[j].n : j \in {j \in FcForks : s.fork[j].n # NoName}}
    IN  FoldSet(LAMBDA n, acc : DCMOD_AD_INV(acc, n), s, {n \in names : Ino(s, n) = i})

fork_modified(s, k) == [of_rfork_changed(s, k) EXCEPT !.fork[k].mod = 1]

\* What landed is written to the sidecar the descriptor is on; with nothing
\* landed the fork was not modified.
write_fork(s, k, v, len) ==
    LET side == s.fd[Ino(s, s.fork[k].n)]
    IN  IF len = 0 THEN s
        ELSE fork_modified([s EXCEPT !.side[side] = [len |-> len, v |-> v, st |-> s.now]], k)

\* A change of length by FPSetForkParms.
afp_setforkparams(s, k, len) ==
    LET side == s.fd[Ino(s, s.fork[k].n)]
    IN  IF s.side[side].len = len THEN s
        ELSE fork_modified([s EXCEPT !.side[side].len = len, !.side[side].st = s.now,
                                     !.side[side].v = IF len = 0 THEN "z" ELSE @], k)

\* The close of a modified fork stores what the shared adouble has, or
\* forgets the metadata when the adouble is on another name's sidecar.
of_closefork(s, k) ==
    LET f == s.fork[k]
        i == Ino(s, f.n)
        s1 == IF f.mod = 0 THEN s
              ELSE IF of_rfork_held(s, f.n) THEN DCMOD_AD(s, f.n, s.side[f.n].len)
              ELSE DCMOD_AD_INV(s, f.n)
        kept == \E j \in FcForks \ {k} : /\ s.fork[j].rf = 1
                                         /\ Ino(s, s.fork[j].n) = i
    IN  [s1 EXCEPT !.fork[k] = NoFork,
                   !.fd[i] = IF kept THEN @ ELSE NoName,
                   !.fdw[i] = IF kept THEN @ ELSE 0]

\* A request by name finds or makes the entry and reads the metadata, with
\* the fork's length, unless the entry has it.
ad_metadata_cached(s, n) ==
    LET s1 == IF s.ent[n].in = 1 THEN s ELSE [s EXCEPT !.ent[n] = [NoEntry EXCEPT !.in = 1]]
    IN  IF s1.ent[n].rlen >= 0 THEN s1 ELSE [s1 EXCEPT !.ent[n].rlen = s.side[n].len]

\* The directory cache lets the entry go.
dir_free(s, n) == [rfork_cache_free(s, n) EXCEPT !.ent[n] = NoEntry]

(***************************************************************************)
(* The steps.  A request is one step but for the fill; last is what the    *)
(* step before served from a buffer.                                       *)
(***************************************************************************)
Between == fc.fill = Idle
Fresh(s) == [s EXCEPT !.last = NoRead]

FcOpen ==
    /\ Between
    /\ fc.cf.opens > 0
    /\ \E k \in FcForks, n \in FcNames, w \in {0, 1} :
        /\ fc.fork[k] = NoFork
        /\ fc' = Spend(afp_openfork(Fresh(fc), k, n, w), "opens")

FcRead ==
    /\ Between
    /\ \E k \in FcForks : /\ fc.fork[k].n # NoName
                          /\ fc' = read_fork(Fresh(fc), k)

FcFill ==
    /\ ~Between
    /\ fc' = rfork_cache_store_from_fd(Fresh(fc))

FcWrite ==
    /\ Between
    /\ fc.cf.writes > 0
    /\ \E k \in FcForks, len \in 0..FcMaxLen, v \in FcBytes :
        /\ fc.fork[k].w = 1
        /\ fc' \in {Spend(write_fork(Fresh(fc), k, v, len), "writes"),
                    Spend(afp_setforkparams(Fresh(fc), k, len), "writes")}

FcClose ==
    /\ Between
    /\ \E k \in FcForks : /\ fc.fork[k].n # NoName
                          /\ fc' = of_closefork(Fresh(fc), k)

FcMeta ==
    /\ Between
    /\ \E n \in FcNames : fc' = ad_metadata_cached(Fresh(fc), n)

FcEvict ==
    /\ Between
    /\ fc.cf.evicts > 0
    /\ \E n \in FcNames : /\ fc.ent[n].in = 1
                          /\ fc' = Spend(dir_free(Fresh(fc), n), "evicts")

\* process_cache_hints: a REFRESH of the file.
FcHint ==
    /\ Between
    /\ \E n \in fc.hints : fc' = [DCMOD_AD_INV(Fresh(fc), n) EXCEPT !.hints = @ \ {n}]

(***************************************************************************)
(* Another session, or a program beside netatalk, and the clock.  These    *)
(* move within a fill too.                                                 *)
(***************************************************************************)
OtherOpen ==
    /\ fc.cf.others > 0
    /\ \E n \in FcNames :
        /\ fc.other[Ino(fc, n)] = NoName
        /\ fc' = [Spend(Fresh(fc), "others") EXCEPT !.other[Ino(fc, n)] = n,
                                                    !.told[Ino(fc, n)] = 0]

\* Its first change of an open fork sends the hint.
OtherWrite ==
    /\ fc.cf.others > 0
    /\ \E i \in Inodes, v \in FcBytes, len \in 1..FcMaxLen :
        LET n == fc.other[i]
        IN  /\ n # NoName
            /\ fc' = [Spend(Fresh(fc), "others") EXCEPT
                         !.side[n] = [len |-> len, v |-> v, st |-> fc.now],
                         !.told[i] = 1,
                         !.hints = IF fc.told[i] = 1 THEN @ ELSE @ \cup {n}]

OtherClose ==
    \E i \in Inodes :
        LET n == fc.other[i]
        IN  /\ n # NoName
            /\ fc' = [Fresh(fc) EXCEPT !.other[i] = NoName,
                                       !.hints = IF fc.told[i] = 1 THEN @ \cup {n} ELSE @]

\* A program that keeps no share modes and sends no hints.  Its change has a
\* change time of its own.
ForeignWrite ==
    /\ fc.cf.foreign > 0
    /\ fc.cf.ticks > 0
    /\ \E n \in FcNames, v \in FcBytes, len \in 1..FcMaxLen :
        fc' = [Spend(Spend(Fresh(fc), "foreign"), "ticks") EXCEPT
                  !.side[n] = [len |-> len, v |-> v, st |-> fc.now + 1],
                  !.now = @ + 2]

Tick ==
    /\ fc.cf.ticks > 0
    /\ fc' = [Spend(Fresh(fc), "ticks") EXCEPT !.now = @ + 1]

FcNext ==
    \/ FcOpen \/ FcRead \/ FcFill \/ FcWrite \/ FcClose \/ FcMeta \/ FcEvict \/ FcHint
    \/ OtherOpen \/ OtherWrite \/ OtherClose \/ ForeignWrite \/ Tick

FcSpec == FcInit /\ [][FcNext]_fcVars

(***************************************************************************)
(* Properties.                                                             *)
(***************************************************************************)
\* Entries, forks, descriptors and the list of buffers have their types.
FcTypeOK ==
    /\ \A n \in FcNames : /\ fc.ent[n].in \in {0, 1}
                          /\ fc.ent[n].rlen \in -1..FcMaxLen
                          /\ fc.side[n].len \in 0..FcMaxLen
    /\ \A k \in FcForks : fc.fork[k].n \in FcNames \cup {NoName}
    /\ \A i \in Inodes : {fc.fd[i], fc.other[i]} \subseteq FcNames \cup {NoName}
    /\ fc.hints \subseteq FcNames

\* A read answered from a buffer gives the bytes the name's sidecar holds
\* now, or a hint about that file is on its way (read_fork, the test of the
\* open bands and the stamp before the bytes in rfork_cache_store_from_fd,
\* of_rfork_changed): the stamp catches what a coarse clock lets through
\* only together with the band and the hint.
RforkServed ==
    LET l == fc.last
    IN  l # NoRead => l.v = fc.side[l.n].v \/ l.n \in fc.hints

\* rfork_cache_used is the sum of the lengths of the entries that hold a
\* buffer, stays within rfork_cache_budget, and the list the eviction walks
\* holds exactly those entries, each once: no path forgets a length before
\* it frees the buffer, or a buffer of an entry that is gone.
RforkAccounted ==
    LET held == {n \in FcNames : fc.ent[n].buf # NoBuf}
    IN  /\ fc.used = FoldSet(LAMBDA n, acc : acc + fc.ent[n].rlen, 0, held)
        /\ fc.used <= FcBudget
        /\ ToSet(fc.lru) = held
        /\ Len(fc.lru) = Cardinality(held)
=============================================================================
