------------------------------ MODULE LockArray ------------------------------
(***************************************************************************)
(* The layout of the lock array of a fork descriptor and the searches over *)
(* it (libatalk/adouble/ad_lock.c).  Entries are in order of start, and    *)
(* each carries its reach, the farthest last byte of an entry up to it.  A *)
(* binary search on the reach and one on the start bound the entries a     *)
(* range can meet; the walk over that window finds the bytes no entry      *)
(* covers.  Offsets and lengths are the code's: 0-based indices, a length  *)
(* of 0 for the rest of the file.  Implements RangeLocks.                  *)
(***************************************************************************)
EXTENDS Integers, Sequences

CONSTANTS Procs, Forks, Top, Base

VARIABLES forks, readonly, kernel,
    arr,        \* arr[p]: adf_lock[0..adf_lockcount-1] of p's descriptor
    tmp         \* the walk of adf_lock_gaps under way for a temporary lock

vars == <<forks, readonly, kernel, arr, tmp>>

Bytes == 0..Top
BYTELOCK_MAX == Base - 1
NoTmp == [step |-> 0, fork |-> 0, type |-> 1, start |-> 0, len |-> 0, i |-> 0, hi |-> 0, done |-> 0]

-----------------------------------------------------------------------------
OVERLAP_closed(a, alen, b, blen) ==
    \/ alen = 0 /\ a <= b
    \/ blen = 0 /\ b <= a
    \/ alen >= b - a /\ blen >= a - b

OVERLAP(a, alen, b, blen) ==
    \/ alen = 0 /\ a <= b
    \/ blen = 0 /\ b <= a
    \/ alen > b - a /\ blen > a - b

adf_lock_fits(start, len) == len - 1 <= Top - start

adf_lock_last(start, len) == IF len > 0 THEN start + (len - 1) ELSE Top

\* First index whose key is at or past target, by binary search.
Lower(keys, target) ==
    LET search[lo \in 0..Len(keys), hi \in 0..Len(keys)] ==
            LET mid == lo + (hi - lo) \div 2
            IN  IF lo >= hi THEN lo
                ELSE IF keys[mid + 1] < target THEN search[mid + 1, hi]
                ELSE search[lo, mid]
    IN  search[0, Len(keys)]

Starts(a) == [i \in 1..Len(a) |-> a[i].start]
Reaches(a) == [i \in 1..Len(a) |-> a[i].reach]

\* The entries that can meet the range are those at indices lo to hi - 1.
adf_lock_window(a, off, len) ==
    LET last == adf_lock_last(off, len)
    IN  [lo |-> Lower(Reaches(a), off),
         hi |-> IF last < Top THEN Lower(Starts(a), last + 1) ELSE Len(a)]

\* Recompute the reach of the entries from index from on.
adf_lock_reach_stale(a, from) == a

adf_lock_reach(a, from) ==
    LET reach[i \in 0..Len(a)] ==
            IF i = 0 THEN -1
            ELSE IF i <= from THEN a[i].reach
            ELSE LET last == adf_lock_last(a[i].start, a[i].len)
                 IN  IF last > reach[i - 1] THEN last ELSE reach[i - 1]
    IN  [i \in 1..Len(a) |-> [a[i] EXCEPT !.reach = reach[i]]]

\* Indices in the window of the entries of the wanted forks and types that
\* overlap the range.
Found(a, users, types, off, len) ==
    LET w == adf_lock_window(a, off, len)
    IN  {i \in w.lo + 1 .. w.hi :
            /\ a[i].user \in users /\ a[i].type \in types
            /\ OVERLAP(off, len, a[i].start, a[i].len)}

adf_findlock(a, f, off, len) == Found(a, {f}, {1, 2}, off, len)
adf_findxlock(a, f, type, off, len) ==
    Found(a, Forks \ {f}, IF type = 2 THEN {1, 2} ELSE {2}, off, len)

\* One turn of the walk of adf_lock_gaps at index i with the bytes up to done
\* dealt with: the stretch it meets, and done after it.
Stop(a, w, i, last) == IF i < w.hi THEN a[i + 1].start - 1 ELSE last
Gap(a, w, i, done, last) ==
    LET stop == Stop(a, w, i, last)
        len == IF stop < Top THEN stop - done ELSE 0
    IN  IF stop > done THEN done + 1 .. adf_lock_last(done + 1, len) ELSE {}
Done(a, w, i, done) == IF i < w.hi /\ a[i + 1].reach > done THEN a[i + 1].reach ELSE done

\* The bytes the whole walk visits.
adf_lock_gaps(a, start, len) ==
    LET last == adf_lock_last(start, len)
        w == adf_lock_window(a, start, len)
        walk[i \in w.lo..w.hi + 1, done \in -1..Top] ==
            IF i > w.hi \/ done >= last THEN {}
            ELSE Gap(a, w, i, done, last) \cup walk[i + 1, Done(a, w, i, done)]
    IN  walk[w.lo, start - 1]

-----------------------------------------------------------------------------
Init ==
    /\ forks = [p \in Procs |-> {}]
    /\ readonly = {}
    /\ kernel = [p \in Procs |-> [b \in Bytes |-> 0]]
    /\ arr = [p \in Procs |-> <<>>]
    /\ tmp = [p \in Procs |-> NoTmp]

Idle(p) == tmp[p].step = 0
Effective(p, type) == IF p \in readonly THEN 1 ELSE type

Grants(p, type, bytes) ==
    \A q \in Procs \ {p}, b \in bytes : kernel[q][b] = 0 \/ (type = 1 /\ kernel[q][b] = 1)
SetLock(p, bytes, type) ==
    [kernel EXCEPT ![p] = [b \in Bytes |-> IF b \in bytes THEN type ELSE kernel[p][b]]]

of_alloc(p, f) ==
    /\ Idle(p) /\ f \notin forks[p]
    /\ forks' = [forks EXCEPT ![p] = @ \cup {f}]
    /\ \/ UNCHANGED readonly
       \/ forks[p] = {} /\ readonly' = readonly \cup {p}
    /\ UNCHANGED <<kernel, arr, tmp>>

\* The length of a byte range, where BYTELOCK_MAX runs to the end.
Length(off, len) == IF len = BYTELOCK_MAX THEN len - off ELSE len

Inserted(a, e) ==
    LET i == Lower(Starts(a), e.start)
    IN  adf_lock_reach(SubSeq(a, 1, i) \o <<e>> \o SubSeq(a, i + 1, Len(a)), i)

\* ad_lock with a take.  recorded is whether the array could grow for it.
ad_lock(p, f, type, off, len, recorded) ==
    /\ Idle(p) /\ f \in forks[p]
    /\ len > 0 /\ adf_lock_fits(off, len)
    /\ adf_findxlock(arr[p], f, type, off, len) = {}
    /\ adf_findlock(arr[p], f, off, len) = {}
    /\ Grants(p, type, off..adf_lock_last(off, len))
    /\ IF recorded
       THEN /\ arr' = [arr EXCEPT ![p] = Inserted(@, [start |-> off, len |-> len, type |-> type, user |-> f, reach |-> -1])]
            /\ kernel' = SetLock(p, off..adf_lock_last(off, len), type)
       ELSE /\ kernel' = [kernel EXCEPT ![p] = [b \in Bytes |->
                    IF b \in adf_lock_gaps(arr[p], off, len) THEN 0
                    ELSE IF b \in off..adf_lock_last(off, len) THEN type ELSE @[b]]]
            /\ UNCHANGED arr
    /\ UNCHANGED <<forks, readonly, tmp>>

byte_lock(p, f, off, len, recorded) == ad_lock(p, f, Effective(p, 2), off, Length(off, len), recorded)
fork_setmode(p, f, slot, recorded) == ad_lock(p, f, 1, slot, 1, recorded)

\* adf_freelock on index i: what is left of the array and the released bytes.
Without(a, i) == adf_lock_reach(SubSeq(a, 1, i - 1) \o SubSeq(a, i + 1, Len(a)), i - 1)
Released_in_place(a, i) == adf_lock_gaps(a, a[i].start, a[i].len)
Released(a, i) == adf_lock_gaps(Without(a, i), a[i].start, a[i].len)

byte_unlock(p, f, off, len) ==
    LET l == Length(off, len)
    IN  /\ Idle(p) /\ f \in forks[p]
        /\ l > 0 /\ adf_lock_fits(off, l)
        /\ \E i \in adf_findlock(arr[p], f, off, l) :
              /\ \A j \in adf_findlock(arr[p], f, off, l) : i <= j
              /\ arr[p][i].start = off /\ arr[p][i].len = l
              /\ arr' = [arr EXCEPT ![p] = Without(@, i)]
              /\ kernel' = SetLock(p, Released(arr[p], i), 0)
        /\ UNCHANGED <<forks, readonly, tmp>>

\* adf_unlock: from the top down, every entry of the fork.
Unlocked(a, f) ==
    LET drop[k \in 0..Len(a)] ==    \* after k turns from the top
            IF k = 0 THEN [arr |-> a, freed |-> {}]
            ELSE LET d == drop[k - 1]
                     i == Len(a) - k + 1
                 IN  IF d.arr[i].user # f THEN d
                     ELSE [arr |-> Without(d.arr, i), freed |-> d.freed \cup Released(d.arr, i)]
    IN  drop[Len(a)]

of_closefork(p, f) ==
    /\ Idle(p) /\ f \in forks[p]
    /\ forks' = [forks EXCEPT ![p] = @ \ {f}]
    /\ arr' = [arr EXCEPT ![p] = Unlocked(@, f).arr]
    /\ kernel' = SetLock(p, IF forks[p] = {f} THEN Bytes ELSE Unlocked(arr[p], f).freed, 0)
    /\ readonly' = IF forks[p] = {f} THEN readonly \ {p} ELSE readonly
    /\ UNCHANGED tmp

of_get_locks(p) ==
    /\ Idle(p)
    /\ kernel' = IF forks[p] = {} THEN SetLock(p, Bytes, 0) ELSE kernel
    /\ UNCHANGED <<forks, readonly, arr, tmp>>

-----------------------------------------------------------------------------
ad_tmplock(p, f, want, off, len) ==
    LET type == Effective(p, want)
        w == adf_lock_window(arr[p], off, len)
    IN  /\ Idle(p) /\ f \in forks[p]
        /\ len > 0 => adf_lock_fits(off, len)
        /\ adf_findxlock(arr[p], f, type, off, len) = {}
        /\ tmp' = [tmp EXCEPT ![p] = [step |-> 1, fork |-> f, type |-> type, start |-> off, len |-> len,
                                      i |-> w.lo, hi |-> w.hi, done |-> off - 1]]
        /\ UNCHANGED <<forks, readonly, kernel, arr>>

Last(t) == adf_lock_last(t.start, t.len)
Walking(t) == t.step = 1 /\ t.i <= t.hi /\ t.done < Last(t)
Here(p) == Gap(arr[p], [hi |-> tmp[p].hi], tmp[p].i, tmp[p].done, Last(tmp[p]))

\* One turn of the walk, its stretch granted.
gap_taken(p) ==
    LET t == tmp[p]
    IN  /\ Walking(t)
        /\ Grants(p, t.type, Here(p))
        /\ kernel' = SetLock(p, Here(p), t.type)
        /\ tmp' = [tmp EXCEPT ![p].i = @ + 1, ![p].done = Done(arr[p], [hi |-> t.hi], t.i, @)]
        /\ UNCHANGED <<forks, readonly, arr>>

gap_refused(p) ==
    LET t == tmp[p]
    IN  /\ Walking(t)
        /\ Here(p) # {}
        /\ kernel' = IF t.done >= t.start
                     THEN SetLock(p, adf_lock_gaps(arr[p], t.start, t.done - t.start + 1), 0)
                     ELSE kernel
        /\ tmp' = [tmp EXCEPT ![p] = NoTmp]
        /\ UNCHANGED <<forks, readonly, arr>>

gaps_done(p) ==
    /\ tmp[p].step = 1 /\ ~Walking(tmp[p])
    /\ tmp' = [tmp EXCEPT ![p].step = 2]
    /\ UNCHANGED <<forks, readonly, kernel, arr>>

ad_tmpunlock(p) ==
    /\ tmp[p].step = 2
    /\ kernel' = SetLock(p, adf_lock_gaps(arr[p], tmp[p].start, tmp[p].len), 0)
    /\ tmp' = [tmp EXCEPT ![p] = NoTmp]
    /\ UNCHANGED <<forks, readonly, arr>>

session_ends(p) ==
    /\ forks[p] # {}
    /\ forks' = [forks EXCEPT ![p] = {}]
    /\ readonly' = readonly \ {p}
    /\ arr' = [arr EXCEPT ![p] = <<>>]
    /\ kernel' = SetLock(p, Bytes, 0)
    /\ tmp' = [tmp EXCEPT ![p] = NoTmp]

Lengths == 1..Top + 1

Step(p) ==
    \/ \E f \in Forks : of_alloc(p, f) \/ of_closefork(p, f)
    \/ \E f \in Forks, off \in Bytes, len \in Lengths :
          byte_unlock(p, f, off, len) \/ \E recorded \in BOOLEAN : byte_lock(p, f, off, len, recorded)
    \/ \E f \in Forks, off \in Bytes, len \in Lengths \cup {0}, want \in {1, 2} :
          ad_tmplock(p, f, want, off, len)
    \/ \E f \in Forks, slot \in Base..Top, recorded \in BOOLEAN : fork_setmode(p, f, slot, recorded)
    \/ of_get_locks(p)
    \/ gap_taken(p) \/ gap_refused(p) \/ gaps_done(p) \/ ad_tmpunlock(p)
    \/ session_ends(p)

Next == \E p \in Procs : Step(p)
Spec == Init /\ [][Next]_vars

-----------------------------------------------------------------------------
\* The set of ranges an array records, and what a walk has taken so far.
View(e) == [user |-> e.user, type |-> e.type, lo |-> e.start, hi |-> adf_lock_last(e.start, e.len)]
Recorded(p) == {View(arr[p][i]) : i \in 1..Len(arr[p])}
Bare(p, lo, hi) == {b \in lo..hi : \A e \in Recorded(p) : ~(e.lo <= b /\ b <= e.hi)}

TmpView(p) ==
    LET t == tmp[p]
        upto == IF t.i > t.hi \/ t.done > Last(t) THEN Last(t) ELSE t.done
    IN  IF t.step = 0
        THEN [step |-> 0, fork |-> 0, type |-> 1, lo |-> 0, hi |-> 0, taken |-> {}]
        ELSE [step |-> t.step, fork |-> t.fork, type |-> t.type, lo |-> t.start, hi |-> Last(t),
              taken |-> Bare(p, t.start, upto)]

Abstract == INSTANCE RangeLocks WITH
    entries <- [p \in Procs |-> Recorded(p)],
    tmp <- [p \in Procs |-> TmpView(p)]

\* Every operation on the sorted array does to the file's locks what the
\* operation on the set of recorded ranges does: the searches find a conflict
\* when there is one, a release or an undo frees exactly the bytes no entry
\* covers, and the failed recording of a granted lock leaves no trace.
Implements == Abstract!Spec

\* The array is in order of start and every reach is the farthest last byte up
\* to it, which the two binary searches rely on.
ArrayOrdered ==
    \A p \in Procs : \A i \in 1..Len(arr[p]) :
        /\ \A j \in 1..i : arr[p][j].start <= arr[p][i].start
        /\ \A j \in 1..i : adf_lock_last(arr[p][j].start, arr[p][j].len) <= arr[p][i].reach
        /\ \E j \in 1..i : adf_lock_last(arr[p][j].start, arr[p][j].len) = arr[p][i].reach

\* For every range a request can name, the window search reports exactly the
\* entries that share a byte with it, and the walk exactly the bytes that no
\* entry covers, a range at the largest offset or to the end included.
SearchExact ==
    \A p \in Procs, off \in Bytes, len \in Lengths \cup {0} :
        (len > 0 => adf_lock_fits(off, len)) =>
            LET a == arr[p]
                range == off..adf_lock_last(off, len)
            IN  /\ Found(a, Forks, {1, 2}, off, len) =
                     {i \in 1..Len(a) : range \cap (a[i].start..adf_lock_last(a[i].start, a[i].len)) # {}}
                /\ adf_lock_gaps(a, off, len) = Bare(p, off, adf_lock_last(off, len))

=============================================================================
