------------------------------ MODULE RangeLocks ------------------------------
(***************************************************************************)
(* The locks one file carries (libatalk/adouble/ad_lock.c).  Every afpd    *)
(* session is a process of its own.  POSIX gives a process one lock per    *)
(* byte of a file, shared by all its descriptors and dropped by the close  *)
(* of any of them, while AFP gives every open fork locks of its own.  Each *)
(* process therefore records the ranges of its forks in the array of the   *)
(* one descriptor they share, and keeps the kernel's locks equal to the    *)
(* union of the recorded ranges.  A strict-locking read, write or truncate *)
(* adds a temporary lock over the bytes nobody recorded, stretch by        *)
(* stretch, and other processes run between the stretches.                 *)
(*                                                                         *)
(* Bytes from Base on are the share-mode band.  Lock types are 0 none,     *)
(* 1 read, 2 write.  The array is a set here; LockArray has its layout.    *)
(***************************************************************************)
EXTENDS Integers, FiniteSets

CONSTANTS
    Procs,      \* session processes with the file
    Forks,      \* fork reference numbers a process may use
    Top,        \* LOCK_TOP, the largest offset
    Base        \* AD_FILELOCK_BASE, the first byte of the band

ASSUME Shape == Top \in Nat /\ Base \in 0..Top /\ 0 \notin Forks

VARIABLES
    forks,      \* forks[p]: the forks p has open on the file
    readonly,   \* processes whose shared descriptor was not opened O_RDWR
    entries,    \* entries[p]: the lock array of p's descriptor
    kernel,     \* kernel[p][b]: p's lock on byte b
    tmp         \* tmp[p]: the temporary lock p takes (step 1) or holds (step 2)

vars == <<forks, readonly, entries, kernel, tmp>>

Bytes == 0..Top
NoTmp == [step |-> 0, fork |-> 0, type |-> 1, lo |-> 0, hi |-> 0, taken |-> {}]

\* Whether the range of e meets lo..hi, and whether it holds b.
OVERLAP(e, lo, hi) == e.lo <= hi /\ lo <= e.hi
Holds(e, b) == e.lo <= b /\ b <= e.hi

Covered(es) == {b \in Bytes : \E e \in es : Holds(e, b)}

\* A write lock on a read-only descriptor degrades to a read lock.
Effective(p, type) == IF p \in readonly THEN 1 ELSE type

adf_findxlock_wr(p, f, type, lo, hi) ==
    \E e \in entries[p] : e.user # f /\ OVERLAP(e, lo, hi) /\ e.type = 2

adf_findxlock(p, f, type, lo, hi) ==
    \E e \in entries[p] : e.user # f /\ OVERLAP(e, lo, hi) /\ (e.type = 2 \/ type = 2)

adf_findlock(p, f, lo, hi) == \E e \in entries[p] : e.user = f /\ OVERLAP(e, lo, hi)

\* fcntl(F_SETLK): no other process holds a conflicting lock on the bytes.
Grants(p, type, bytes) ==
    \A q \in Procs \ {p}, b \in bytes : kernel[q][b] = 0 \/ (type = 1 /\ kernel[q][b] = 1)

SetLock(p, bytes, type) ==
    [kernel EXCEPT ![p] = [b \in Bytes |-> IF b \in bytes THEN type ELSE kernel[p][b]]]

\* The bytes of lo..hi no entry of es covers: what adf_lock_gaps works on.
Gaps(es, lo, hi) == {b \in lo..hi : \A e \in es : ~Holds(e, b)}

-----------------------------------------------------------------------------
Init ==
    /\ forks = [p \in Procs |-> {}]
    /\ readonly = {}
    /\ entries = [p \in Procs |-> {}]
    /\ kernel = [p \in Procs |-> [b \in Bytes |-> 0]]
    /\ tmp = [p \in Procs |-> NoTmp]

Idle(p) == tmp[p].step = 0

\* The first fork of the file opens the descriptor, later ones share it.
of_alloc(p, f) ==
    /\ Idle(p) /\ f \notin forks[p]
    /\ forks' = [forks EXCEPT ![p] = @ \cup {f}]
    /\ \/ UNCHANGED readonly
       \/ forks[p] = {} /\ readonly' = readonly \cup {p}
    /\ UNCHANGED <<entries, kernel, tmp>>

\* A take that is granted.  One that conflicts with a sibling fork, meets an
\* entry of its own fork, is refused by the kernel or cannot be recorded
\* leaves everything as it was.
ad_lock(p, f, type, lo, hi) ==
    /\ Idle(p) /\ f \in forks[p]
    /\ ~adf_findxlock(p, f, type, lo, hi)
    /\ ~adf_findlock(p, f, lo, hi)
    /\ Grants(p, type, lo..hi)
    /\ entries' = [entries EXCEPT ![p] = @ \cup {[user |-> f, type |-> type, lo |-> lo, hi |-> hi]}]
    /\ kernel' = SetLock(p, lo..hi, type)
    /\ UNCHANGED <<forks, readonly, tmp>>

\* FPByteRangeLock takes write locks; fork_setmode takes read locks on single
\* bytes of the band.
byte_lock(p, f, lo, hi) == ad_lock(p, f, Effective(p, 2), lo, hi)
fork_setmode(p, f, slot) == ad_lock(p, f, 1, slot, slot)

\* Dropping entries releases the bytes no surviving entry covers.
adf_freelock_bare(p, gone) == SetLock(p, Covered(gone), 0)

adf_freelock(p, gone) == SetLock(p, Covered(gone) \ Covered(entries[p] \ gone), 0)

\* A release names an entry exactly.
byte_unlock(p, e) ==
    /\ Idle(p) /\ e \in entries[p]
    /\ kernel' = adf_freelock(p, {e})
    /\ entries' = [entries EXCEPT ![p] = @ \ {e}]
    /\ UNCHANGED <<forks, readonly, tmp>>

\* of_closefork: ad_unlock drops the fork's entries, and the descriptor is
\* closed with the last fork, which drops every lock of the process.
of_closefork(p, f) ==
    LET mine == {e \in entries[p] : e.user = f}
    IN  /\ Idle(p) /\ f \in forks[p]
        /\ forks' = [forks EXCEPT ![p] = @ \ {f}]
        /\ kernel' = IF forks[p] = {f} THEN SetLock(p, Bytes, 0) ELSE adf_freelock(p, mine)
        /\ entries' = [entries EXCEPT ![p] = @ \ mine]
        /\ readonly' = IF forks[p] = {f} THEN readonly \ {p} ELSE readonly
        /\ UNCHANGED tmp

\* of_get_locks: a probe reads through the descriptor of a fork the process
\* holds; without one it opens the file and closes it again.
of_get_locks(p) ==
    /\ Idle(p)
    /\ kernel' = IF forks[p] = {} THEN SetLock(p, Bytes, 0) ELSE kernel
    /\ UNCHANGED <<forks, readonly, entries, tmp>>

-----------------------------------------------------------------------------
\* Temporary locks.
ad_tmplock_unchecked(p, f, want, lo, hi) ==
    LET type == Effective(p, want)
    IN  /\ Idle(p) /\ f \in forks[p]
        /\ tmp' = [tmp EXCEPT ![p] = [step |-> 1, fork |-> f, type |-> type, lo |-> lo, hi |-> hi, taken |-> {}]]
        /\ UNCHANGED <<forks, readonly, entries, kernel>>

ad_tmplock(p, f, want, lo, hi) ==
    LET type == Effective(p, want)
    IN  /\ Idle(p) /\ f \in forks[p]
        /\ ~adf_findxlock(p, f, type, lo, hi)
        /\ tmp' = [tmp EXCEPT ![p] = [step |-> 1, fork |-> f, type |-> type, lo |-> lo, hi |-> hi, taken |-> {}]]
        /\ UNCHANGED <<forks, readonly, entries, kernel>>

Left(p) == Gaps(entries[p], tmp[p].lo, tmp[p].hi) \ tmp[p].taken

\* The lowest unbroken run of bytes still to take.
Stretch(p) == {b \in Left(p) : \A c \in Left(p) : c < b => c..b \subseteq Left(p)}

gap_taken(p) ==
    /\ tmp[p].step = 1
    /\ Left(p) # {}
    /\ Grants(p, tmp[p].type, Stretch(p))
    /\ kernel' = SetLock(p, Stretch(p), tmp[p].type)
    /\ tmp' = [tmp EXCEPT ![p].taken = @ \cup Stretch(p)]
    /\ UNCHANGED <<forks, readonly, entries>>

\* A refused stretch, by a conflict or for want of kernel memory, releases the
\* stretches before it.
gap_refused(p) ==
    /\ tmp[p].step = 1
    /\ Left(p) # {}
    /\ kernel' = SetLock(p, tmp[p].taken, 0)
    /\ tmp' = [tmp EXCEPT ![p] = NoTmp]
    /\ UNCHANGED <<forks, readonly, entries>>

gaps_done(p) ==
    /\ tmp[p].step = 1
    /\ Left(p) = {}
    /\ tmp' = [tmp EXCEPT ![p].step = 2]
    /\ UNCHANGED <<forks, readonly, entries, kernel>>

\* ADLOCK_CLR after the read, write or truncate.
ad_tmpunlock(p) ==
    /\ tmp[p].step = 2
    /\ kernel' = SetLock(p, Gaps(entries[p], tmp[p].lo, tmp[p].hi), 0)
    /\ tmp' = [tmp EXCEPT ![p] = NoTmp]
    /\ UNCHANGED <<forks, readonly, entries>>

\* The process ends at any point, and the kernel drops its locks.
session_ends(p) ==
    /\ forks[p] # {}
    /\ forks' = [forks EXCEPT ![p] = {}]
    /\ readonly' = readonly \ {p}
    /\ entries' = [entries EXCEPT ![p] = {}]
    /\ kernel' = SetLock(p, Bytes, 0)
    /\ tmp' = [tmp EXCEPT ![p] = NoTmp]

Ranges == {r \in Bytes \X Bytes : r[1] <= r[2]}

Step(p) ==
    \/ \E f \in Forks : of_alloc(p, f) \/ of_closefork(p, f)
    \/ \E f \in Forks, r \in Ranges :
          \/ byte_lock(p, f, r[1], r[2])
          \/ \E want \in {1, 2} : ad_tmplock(p, f, want, r[1], r[2])
    \/ \E f \in Forks, slot \in Base..Top : fork_setmode(p, f, slot)
    \/ \E e \in entries[p] : byte_unlock(p, e)
    \/ of_get_locks(p)
    \/ gap_taken(p) \/ gap_refused(p) \/ gaps_done(p) \/ ad_tmpunlock(p)
    \/ session_ends(p)

Next == \E p \in Procs : Step(p)
Spec == Init /\ [][Next]_vars

-----------------------------------------------------------------------------
Entry == [user : Forks, type : {1, 2}, lo : Bytes, hi : Bytes]
Tmp == [step : {0, 1, 2}, fork : Forks \cup {0}, type : {1, 2}, lo : Bytes, hi : Bytes, taken : SUBSET Bytes]

\* Every record has its fields; a recorded range belongs to an open fork, so
\* that the fork's close can release it.
TypeOK ==
    /\ forks \in [Procs -> SUBSET Forks]
    /\ readonly \subseteq Procs
    /\ entries \in [Procs -> SUBSET Entry]
    /\ kernel \in [Procs -> [Bytes -> {0, 1, 2}]]
    /\ tmp \in [Procs -> Tmp]
    /\ \A p \in Procs : \A e \in entries[p] : e.user \in forks[p]

\* What the kernel should hold on byte b for process p: the strongest recorded
\* lock, else the temporary lock where it has been taken, else nothing.
Expected(p, b) ==
    IF \E e \in entries[p] : Holds(e, b) /\ e.type = 2 THEN 2
    ELSE IF \E e \in entries[p] : Holds(e, b) THEN 1
    ELSE IF b \in tmp[p].taken THEN tmp[p].type
    ELSE 0

\* After every system call the kernel holds exactly the recorded ranges plus
\* the stretches of the temporary lock under way (ad_lock.c:670-682, 867-878):
\* no sibling's release, close, temporary lock or probe has dropped a recorded
\* lock, and nothing is left behind once its entry or its request is gone.
KernelIsRecorded == \A p \in Procs, b \in Bytes : kernel[p][b] = Expected(p, b)

\* A fork that was granted a write lock on a byte is alone on it: no other
\* fork of the same or of another session has a recorded lock there.
ForksExclusive ==
    \A p, q \in Procs : \A e \in entries[p], g \in entries[q] :
        /\ <<p, e.user>> # <<q, g.user>>
        /\ e.type = 2
        => ~OVERLAP(g, e.lo, e.hi)

\* While a strict-locking write or truncate is under way on a writable
\* descriptor, no other fork holds a lock on a byte of its range below the
\* band, and no other session is reading or writing such a byte under a
\* temporary lock of its own.
StrictWrite ==
    \A p \in Procs : tmp[p].step = 2 /\ tmp[p].type = 2 =>
        \A b \in tmp[p].lo..tmp[p].hi : b < Base =>
            /\ \A e \in entries[p] : Holds(e, b) => e.user = tmp[p].fork
            /\ \A q \in Procs \ {p} : kernel[q][b] = 0

\* A fork's entries never overlap, so a release, which must name an entry
\* exactly, can always be answered and frees one entry.
OneEntry ==
    \A p \in Procs : \A e, g \in entries[p] :
        e.user = g.user /\ OVERLAP(g, e.lo, e.hi) => e = g

=============================================================================
