--------------------------- MODULE RangeLocksProofs ---------------------------
(***************************************************************************)
(* RangeLocks for every number of sessions, forks and bytes.  None of the  *)
(* properties is inductive alone: that the kernel holds what is recorded   *)
(* needs that a fork's new range meets no write entry, and that write      *)
(* locks exclude other sessions needs that the kernel holds them.          *)
(***************************************************************************)
EXTENDS RangeLocks, TLAPS

\* A byte write-locked by one process is not locked by another.
KernelExclusive ==
    \A p, q \in Procs : \A b \in Bytes : p # q /\ kernel[p][b] = 2 => kernel[q][b] = 0

\* Write entries of one process meet no entry of a sibling fork.
Siblings ==
    \A p \in Procs : \A e, g \in entries[p] :
        e.user # g.user /\ e.type = 2 => ~OVERLAP(g, e.lo, e.hi)

\* Recorded ranges hold a byte, and read entries lie in the band or belong to
\* a read-only descriptor.
RangesOK ==
    \A p \in Procs : \A e \in entries[p] :
        e.lo <= e.hi /\ (e.type = 1 => p \in readonly \/ e.lo >= Base)

\* A temporary lock has taken only bytes no entry covers, conflicts with no
\* sibling's entry, and holds all those bytes once it is granted.
TmpOK ==
    \A p \in Procs :
        IF tmp[p].step = 0 THEN tmp[p].taken = {}
        ELSE /\ tmp[p].type = 2 => p \notin readonly
             /\ tmp[p].fork \in forks[p]
             /\ tmp[p].taken \subseteq Gaps(entries[p], tmp[p].lo, tmp[p].hi)
             /\ tmp[p].step = 2 => Gaps(entries[p], tmp[p].lo, tmp[p].hi) \subseteq tmp[p].taken
             /\ \A e \in entries[p] : e.user # tmp[p].fork /\ OVERLAP(e, tmp[p].lo, tmp[p].hi)
                    => e.type = 1 /\ tmp[p].type = 1

IInv ==
    /\ TypeOK
    /\ KernelIsRecorded
    /\ KernelExclusive
    /\ Siblings
    /\ OneEntry
    /\ RangesOK
    /\ TmpOK

-----------------------------------------------------------------------------
\* Releasing bytes of one process keeps write locks exclusive.
LEMMA ReleaseExclusive ==
    ASSUME TypeOK, KernelExclusive, NEW p \in Procs, NEW S, kernel' = SetLock(p, S, 0)
    PROVE  KernelExclusive'
BY DEF TypeOK, KernelExclusive, SetLock, Bytes

\* Taking bytes the kernel grants keeps write locks exclusive.
LEMMA TakeExclusive ==
    ASSUME TypeOK, KernelExclusive, NEW p \in Procs, NEW S, NEW t \in {1, 2}, Grants(p, t, S),
           kernel' = SetLock(p, S, t)
    PROVE  KernelExclusive'
BY DEF TypeOK, KernelExclusive, SetLock, Grants, Bytes

LEMMA KernelType ==
    ASSUME TypeOK, NEW p \in Procs, NEW S, NEW t \in {0, 1, 2}, kernel' = SetLock(p, S, t)
    PROVE  kernel' \in [Procs -> [Bytes -> {0, 1, 2}]]
BY Zenon DEF TypeOK, SetLock

\* The first state: no fork is open and nothing is locked.
LEMMA InitIInv == Init => IInv
<1> SUFFICES ASSUME Init PROVE IInv
    BY Zenon
<1> USE Shape
<1>1. TypeOK
    BY DEF Init, TypeOK, Tmp, NoTmp, Entry, Bytes
<1>2. KernelIsRecorded
    BY Zenon DEF Init, KernelIsRecorded, Expected, NoTmp, Bytes
<1>3. KernelExclusive /\ Siblings /\ OneEntry /\ RangesOK /\ TmpOK
    BY Zenon DEF Init, KernelExclusive, Siblings, OneEntry, RangesOK, TmpOK, NoTmp
<1> QED BY Zenon, <1>1, <1>2, <1>3 DEF IInv

\* A step that changes nothing keeps the invariant.
LEMMA Unchanged ==
    ASSUME IInv, UNCHANGED <<forks, readonly, entries, kernel, tmp>>
    PROVE  IInv'
<1>1. TypeOK'
    BY Zenon DEF IInv, TypeOK
<1>2. KernelIsRecorded'
    BY Zenon DEF IInv, KernelIsRecorded, Expected
<1>3. KernelExclusive'
    BY Zenon DEF IInv, KernelExclusive
<1>4. Siblings' /\ RangesOK'
    BY Zenon DEF IInv, Siblings, RangesOK
<1>5. OneEntry'
    BY Zenon DEF IInv, OneEntry
<1>6. TmpOK'
    BY ZenonT(60) DEF IInv, TmpOK
<1> QED BY Zenon, <1>1, <1>2, <1>3, <1>4, <1>5, <1>6 DEF IInv

-----------------------------------------------------------------------------
\* A granted take.
LEMMA LockStep ==
    ASSUME IInv, NEW p \in Procs, NEW f \in Forks, NEW t \in {1, 2}, NEW lo \in Bytes, NEW hi \in Bytes,
           lo <= hi, t = 1 => p \in readonly \/ lo >= Base, ad_lock(p, f, t, lo, hi)
    PROVE  IInv'
<1> DEFINE new == [user |-> f, type |-> t, lo |-> lo, hi |-> hi]
<1> USE Shape
<1>0. new \in Entry /\ new.user = f /\ new.type = t /\ new.lo = lo /\ new.hi = hi
    BY Zenon DEF Entry
<1> HIDE DEF new
<1>a. /\ entries' = [entries EXCEPT ![p] = @ \cup {new}]
      /\ kernel' = SetLock(p, lo..hi, t)
      /\ UNCHANGED <<forks, readonly, tmp>> /\ f \in forks[p] /\ tmp[p].step = 0
    BY Zenon DEF ad_lock, new, Idle
<1>1. TypeOK'
  <2>1. kernel' \in [Procs -> [Bytes -> {0, 1, 2}]]
    BY Zenon, <1>a, KernelType DEF IInv
  <2>2. entries' \in [Procs -> SUBSET Entry]
    BY Zenon, <1>0, <1>a DEF IInv, TypeOK
  <2>3. \A q \in Procs : \A e \in entries'[q] : e.user \in forks'[q]
    BY Zenon, <1>0, <1>a DEF IInv, TypeOK
  <2> QED BY Zenon, <1>a, <2>1, <2>2, <2>3 DEF IInv, TypeOK
<1>b. \A e \in entries[p] : OVERLAP(e, lo, hi) => e.user # f /\ e.type = 1 /\ t = 1
    BY <1>0 DEF ad_lock, adf_findxlock, adf_findlock, IInv, TypeOK, Entry
<1>2. KernelIsRecorded'
  <2> SUFFICES ASSUME NEW q \in Procs, NEW b \in Bytes PROVE kernel'[q][b] = Expected(q, b)'
    BY Zenon DEF KernelIsRecorded, Bytes
  <2>1. CASE q # p
    BY ZenonT(60), <2>1, <1>a DEF Expected, IInv, TypeOK, KernelIsRecorded, SetLock
  <2>2. CASE q = p /\ b \in lo..hi
    <3>1. kernel'[p][b] = t
      BY Zenon, <2>2, <1>a DEF IInv, TypeOK, SetLock
    <3>2. Holds(new, b) /\ new \in entries'[p]
      BY <2>2, <1>a, <1>0 DEF Holds, IInv, TypeOK
    <3>3. \A e \in entries[p] : Holds(e, b) => e.type = 1 /\ t = 1
      BY SMTT(30), <1>b, <2>2 DEF Holds, OVERLAP, IInv, TypeOK, Entry, Bytes
    <3>4. \A e \in entries'[p] : e \in entries[p] \/ e = new
      BY Zenon, <1>a DEF IInv, TypeOK
    <3> QED BY Zenon, <3>1, <3>2, <3>3, <3>4, <2>2, <1>0 DEF Expected
  <2>3. CASE q = p /\ b \notin lo..hi
    <3>1. kernel'[p][b] = kernel[p][b]
      BY Zenon, <2>3, <1>a DEF IInv, TypeOK, SetLock
    <3>2. ~Holds(new, b)
      BY <2>3, <1>0 DEF Holds, Bytes
    <3>3. entries'[p] = entries[p] \cup {new}
      BY Zenon, <1>a DEF IInv, TypeOK
    <3> QED BY <3>1, <3>2, <3>3, <2>3, <1>a DEF Expected, IInv, KernelIsRecorded
  <2> QED BY Zenon, <2>1, <2>2, <2>3
<1>3. KernelExclusive'
    BY <1>a, TakeExclusive DEF ad_lock, IInv
<1>c. \A q \in Procs : \A e \in entries'[q] : e \in entries[q] \/ (q = p /\ e = new)
    BY Zenon, <1>a DEF IInv, TypeOK
<1>4. Siblings'
  <2> SUFFICES ASSUME NEW q \in Procs, NEW e \in entries'[q], NEW g \in entries'[q], e.user # g.user, e.type = 2
               PROVE  ~OVERLAP(g, e.lo, e.hi)
    BY Zenon DEF Siblings
  <2>1. CASE e \in entries[q] /\ g \in entries[q]
    BY Zenon, <2>1 DEF IInv, Siblings
  <2>2. CASE e = new /\ g \in entries[q] /\ q = p
    BY <2>2, <1>b, <1>0 DEF OVERLAP
  <2>3. CASE g = new /\ e \in entries[q] /\ q = p
    BY <2>3, <1>b, <1>0 DEF OVERLAP, IInv, TypeOK, Entry, Bytes
  <2>4. CASE e = new /\ g = new
    BY Zenon, <2>4
  <2> QED BY Zenon, <2>1, <2>2, <2>3, <2>4, <1>c
<1>5. OneEntry'
  <2> SUFFICES ASSUME NEW q \in Procs, NEW e \in entries'[q], NEW g \in entries'[q], e.user = g.user, OVERLAP(g, e.lo, e.hi)
               PROVE  e = g
    BY Zenon DEF OneEntry
  <2>1. CASE e \in entries[q] /\ g \in entries[q]
    BY Zenon, <2>1 DEF IInv, OneEntry
  <2>2. CASE e = new /\ g \in entries[q] /\ q = p
    BY Zenon, <2>2, <1>b, <1>0
  <2>3. CASE g = new /\ e \in entries[q] /\ q = p
    BY Zenon, <2>3, <1>b, <1>0 DEF OVERLAP, IInv, TypeOK, Entry, Bytes
  <2>4. CASE e = new /\ g = new
    BY Zenon, <2>4
  <2> QED BY Zenon, <2>1, <2>2, <2>3, <2>4, <1>c
<1>6. RangesOK'
    BY ZenonT(60), <1>c, <1>0, <1>a DEF IInv, RangesOK
<1>7. TmpOK'
  <2> SUFFICES ASSUME NEW q \in Procs
               PROVE  (IF tmp[q].step = 0 THEN tmp[q].taken = {}
                       ELSE /\ tmp[q].type = 2 => q \notin readonly
                            /\ tmp[q].fork \in forks[q]
                            /\ tmp[q].taken \subseteq Gaps(entries'[q], tmp[q].lo, tmp[q].hi)
                            /\ tmp[q].step = 2 => Gaps(entries'[q], tmp[q].lo, tmp[q].hi) \subseteq tmp[q].taken
                            /\ \A e \in entries'[q] : e.user # tmp[q].fork /\ OVERLAP(e, tmp[q].lo, tmp[q].hi)
                                   => e.type = 1 /\ tmp[q].type = 1)
    BY <1>a DEF TmpOK, Gaps
  <2>1. CASE q = p
    BY Zenon, <2>1, <1>a DEF IInv, TmpOK
  <2>2. CASE q # p
    <3>1. entries'[q] = entries[q]
      BY Zenon, <2>2, <1>a DEF IInv, TypeOK
    <3> QED BY Zenon, <3>1 DEF IInv, TmpOK
  <2> QED BY Zenon, <2>1, <2>2
<1> QED BY Zenon, <1>1, <1>2, <1>3, <1>4, <1>5, <1>6, <1>7 DEF IInv

-----------------------------------------------------------------------------
\* What dropping entries of p keeps, whatever happens to its kernel locks.
LEMMA FewerEntries ==
    ASSUME IInv, NEW p \in Procs, NEW rest \in SUBSET entries[p], tmp[p].step = 0,
           entries' = [entries EXCEPT ![p] = rest],
           readonly' = readonly \/ (rest = {} /\ readonly' = readonly \ {p}),
           \A q \in Procs : q # p => forks'[q] = forks[q],
           tmp' = tmp
    PROVE  Siblings' /\ OneEntry' /\ RangesOK' /\ TmpOK'
<1>1. \A q \in Procs : entries'[q] = IF q = p THEN rest ELSE entries[q]
    BY Zenon DEF IInv, TypeOK
<1>2. \A q \in Procs : \A e \in entries'[q] : e \in entries[q] /\ (q \in readonly => q \in readonly')
    BY ZenonT(60), <1>1
<1>3. Siblings' /\ OneEntry'
    BY <1>2 DEF IInv, Siblings, OneEntry
<1>4. RangesOK'
    BY Zenon, <1>2 DEF IInv, RangesOK
<1>5. TmpOK'
  <2> SUFFICES ASSUME NEW q \in Procs
               PROVE  (IF tmp[q].step = 0 THEN tmp[q].taken = {}
                       ELSE /\ tmp[q].type = 2 => q \notin readonly'
                            /\ tmp[q].fork \in forks'[q]
                            /\ tmp[q].taken \subseteq Gaps(entries'[q], tmp[q].lo, tmp[q].hi)
                            /\ tmp[q].step = 2 => Gaps(entries'[q], tmp[q].lo, tmp[q].hi) \subseteq tmp[q].taken
                            /\ \A e \in entries'[q] : e.user # tmp[q].fork /\ OVERLAP(e, tmp[q].lo, tmp[q].hi)
                                   => e.type = 1 /\ tmp[q].type = 1)
    BY DEF TmpOK, Gaps
  <2>1. CASE q = p
    BY Zenon, <2>1 DEF IInv, TmpOK
  <2>2. CASE q # p
    <3>1. entries'[q] = entries[q] /\ forks'[q] = forks[q]
      BY Zenon, <2>2, <1>1
    <3> QED BY Zenon, <3>1 DEF IInv, TmpOK
  <2> QED BY Zenon, <2>1, <2>2
<1> QED BY Zenon, <1>3, <1>4, <1>5

\* Releasing the bytes only the dropped entries cover leaves the kernel with
\* what the surviving entries record.
LEMMA ReleaseRecorded ==
    ASSUME IInv, NEW p \in Procs, NEW gone \in SUBSET entries[p], tmp[p].step = 0, tmp' = tmp,
           entries' = [entries EXCEPT ![p] = @ \ gone],
           kernel' = adf_freelock(p, gone)
    PROVE  KernelIsRecorded'
<1> SUFFICES ASSUME NEW q \in Procs, NEW b \in Bytes PROVE kernel'[q][b] = Expected(q, b)'
    BY Zenon DEF KernelIsRecorded, Bytes
<1>1. CASE q # p
    BY ZenonT(60), <1>1 DEF adf_freelock, Expected, IInv, TypeOK, KernelIsRecorded, SetLock
<1>2. CASE q = p
  <2>1. entries'[p] = entries[p] \ gone /\ b \notin tmp'[p].taken /\ b \notin tmp[p].taken
    BY Zenon DEF IInv, TypeOK, TmpOK
  <2>2. kernel[p][b] = Expected(p, b)
    BY Zenon DEF IInv, KernelIsRecorded
  <2>3. CASE \E e \in gone : Holds(e, b) /\ \A g \in entries[p] \ gone : ~Holds(g, b)
    <3>1. b \in Covered(gone) \ Covered(entries[p] \ gone)
      BY Zenon, <2>3 DEF Covered
    <3>2. kernel'[p][b] = 0
      BY Zenon, <3>1 DEF adf_freelock, SetLock, IInv, TypeOK
    <3> QED BY Zenon, <3>2, <2>3, <2>1, <1>2 DEF Expected
  <2>4. CASE ~\E e \in gone : Holds(e, b)
    <3>1. b \notin Covered(gone)
      BY Zenon, <2>4 DEF Covered
    <3>2. kernel'[p][b] = kernel[p][b]
      BY Zenon, <3>1 DEF adf_freelock, SetLock, IInv, TypeOK
    <3> QED BY Zenon, <3>2, <2>4, <2>1, <2>2, <1>2 DEF Expected
  <2>5. CASE (\E e \in gone : Holds(e, b)) /\ \E g \in entries[p] \ gone : Holds(g, b)
    <3>1. PICK e \in gone : Holds(e, b)
      BY Zenon, <2>5
    <3>2. PICK g \in entries[p] \ gone : Holds(g, b)
      BY Zenon, <2>5
    <3>3. b \in Covered(entries[p] \ gone)
      BY Zenon, <3>2 DEF Covered
    <3>4. kernel'[p][b] = kernel[p][b]
      BY Zenon, <3>3 DEF adf_freelock, SetLock, IInv, TypeOK
    <3>5. \A d \in gone, h \in entries[p] \ gone : Holds(d, b) /\ Holds(h, b) => d.type = 1 /\ h.type = 1
      <4> SUFFICES ASSUME NEW d \in gone, NEW h \in entries[p] \ gone, Holds(d, b), Holds(h, b)
                   PROVE  d.type = 1 /\ h.type = 1
        BY Zenon
      <4>0. d \in Entry /\ h \in Entry /\ d # h
        BY Zenon DEF IInv, TypeOK
      <4>1. OVERLAP(h, d.lo, d.hi) /\ OVERLAP(d, h.lo, h.hi)
        BY <4>0 DEF Holds, OVERLAP, Entry, Bytes
      <4>2. d.user # h.user
        BY Zenon, <4>0, <4>1 DEF IInv, OneEntry
      <4>3. d.type # 2 /\ h.type # 2
        BY Zenon, <4>1, <4>2 DEF IInv, Siblings
      <4> QED BY Zenon, <4>0, <4>3 DEF Entry
    <3> QED BY Zenon, <3>1, <3>2, <3>4, <3>5, <2>1, <2>2, <1>2 DEF Expected
  <2> QED BY Zenon, <2>3, <2>4, <2>5
<1> QED BY Zenon, <1>1, <1>2

\* A release, which names an entry exactly.
LEMMA UnlockStep ==
    ASSUME IInv, NEW p \in Procs, NEW e \in entries[p], byte_unlock(p, e)
    PROVE  IInv'
<1>1. /\ entries' = [entries EXCEPT ![p] = @ \ {e}] /\ kernel' = adf_freelock(p, {e})
      /\ UNCHANGED <<forks, readonly, tmp>> /\ tmp[p].step = 0
    BY Zenon DEF byte_unlock, Idle
<1>2. TypeOK'
  <2>1. kernel' \in [Procs -> [Bytes -> {0, 1, 2}]]
    BY Zenon, <1>1, KernelType DEF IInv, adf_freelock
  <2> QED BY Zenon, <2>1, <1>1 DEF IInv, TypeOK
<1>3. KernelIsRecorded'
    BY Zenon, <1>1, ReleaseRecorded
<1>4. KernelExclusive'
    BY Zenon, <1>1, ReleaseExclusive DEF adf_freelock, IInv
<1>5. Siblings' /\ OneEntry' /\ RangesOK' /\ TmpOK'
  <2>1. entries' = [entries EXCEPT ![p] = entries[p] \ {e}]
    BY Zenon, <1>1
  <2> QED BY Zenon, <2>1, <1>1, FewerEntries
<1> QED BY Zenon, <1>2, <1>3, <1>4, <1>5 DEF IInv

\* A process that drops all its entries and all its locks.
LEMMA AllGone ==
    ASSUME IInv, NEW p \in Procs,
           entries' = [entries EXCEPT ![p] = {}],
           kernel' = SetLock(p, Bytes, 0),
           readonly' = readonly \/ readonly' = readonly \ {p},
           forks' \in [Procs -> SUBSET Forks], \A q \in Procs : q # p => forks'[q] = forks[q],
           tmp' = [tmp EXCEPT ![p] = NoTmp] \/ (tmp' = tmp /\ tmp[p].step = 0)
    PROVE  IInv'
<1> USE Shape
<1>0. \A q \in Procs : q # p =>
          entries'[q] = entries[q] /\ kernel'[q] = kernel[q] /\ tmp'[q] = tmp[q] /\ (q \in readonly' <=> q \in readonly)
    BY Zenon DEF IInv, TypeOK, SetLock
<1>1. entries'[p] = {} /\ tmp'[p].step = 0 /\ tmp'[p].taken = {} /\ \A b \in Bytes : kernel'[p][b] = 0
    BY DEF IInv, TypeOK, TmpOK, SetLock, NoTmp
<1>2. TypeOK'
  <2>1. kernel' \in [Procs -> [Bytes -> {0, 1, 2}]]
    BY Zenon, KernelType DEF IInv
  <2>2. NoTmp \in Tmp
    BY DEF NoTmp, Tmp, Bytes
  <2>3. tmp' \in [Procs -> Tmp] /\ readonly' \subseteq Procs /\ entries' \in [Procs -> SUBSET Entry]
    BY ZenonT(60), <2>2 DEF IInv, TypeOK
  <2>4. \A q \in Procs : \A e \in entries'[q] : e.user \in forks'[q]
    BY Zenon, <1>0, <1>1 DEF IInv, TypeOK
  <2> QED BY Zenon, <2>1, <2>3, <2>4 DEF TypeOK
<1>3. KernelIsRecorded'
  <2> SUFFICES ASSUME NEW q \in Procs, NEW b \in Bytes PROVE kernel'[q][b] = Expected(q, b)'
    BY Zenon DEF KernelIsRecorded, Bytes
  <2>1. CASE q # p
    BY <2>1, <1>0 DEF Expected, IInv, KernelIsRecorded
  <2>2. CASE q = p
    BY Zenon, <2>2, <1>1 DEF Expected
  <2> QED BY Zenon, <2>1, <2>2
<1>4. KernelExclusive'
    BY Zenon, ReleaseExclusive DEF IInv
<1>5. Siblings' /\ OneEntry'
    BY <1>0, <1>1 DEF IInv, Siblings, OneEntry
<1>6. RangesOK'
    BY Zenon, <1>0, <1>1 DEF IInv, RangesOK
<1>7. TmpOK'
  <2> SUFFICES ASSUME NEW q \in Procs
               PROVE  (IF tmp'[q].step = 0 THEN tmp'[q].taken = {}
                       ELSE /\ tmp'[q].type = 2 => q \notin readonly'
                            /\ tmp'[q].fork \in forks'[q]
                            /\ tmp'[q].taken \subseteq Gaps(entries'[q], tmp'[q].lo, tmp'[q].hi)
                            /\ tmp'[q].step = 2 => Gaps(entries'[q], tmp'[q].lo, tmp'[q].hi) \subseteq tmp'[q].taken
                            /\ \A e \in entries'[q] : e.user # tmp'[q].fork /\ OVERLAP(e, tmp'[q].lo, tmp'[q].hi)
                                   => e.type = 1 /\ tmp'[q].type = 1)
    BY Zenon DEF TmpOK, Gaps
  <2>1. CASE q = p
    BY Zenon, <2>1, <1>1
  <2>2. CASE q # p
    BY <2>2, <1>0 DEF IInv, TmpOK
  <2> QED BY Zenon, <2>1, <2>2
<1> QED BY Zenon, <1>2, <1>3, <1>4, <1>5, <1>6, <1>7 DEF IInv

\* The close of a fork, its last one on the file or not.
LEMMA CloseStep ==
    ASSUME IInv, NEW p \in Procs, NEW f \in Forks, of_closefork(p, f)
    PROVE  IInv'
<1> DEFINE mine == {e \in entries[p] : e.user = f}
<1>0. /\ tmp[p].step = 0 /\ tmp' = tmp
      /\ forks' = [forks EXCEPT ![p] = @ \ {f}]
      /\ entries' = [entries EXCEPT ![p] = @ \ mine]
    BY Zenon DEF of_closefork, Idle
<1>1. CASE forks[p] = {f}
  <2>1. entries[p] \ mine = {}
    BY Zenon, <1>1 DEF IInv, TypeOK
  <2>2. entries' = [entries EXCEPT ![p] = {}]
    BY Zenon, <2>1, <1>0
  <2>3. kernel' = SetLock(p, Bytes, 0) /\ readonly' = readonly \ {p}
    BY Zenon, <1>1 DEF of_closefork
  <2>4. forks' \in [Procs -> SUBSET Forks] /\ \A q \in Procs : q # p => forks'[q] = forks[q]
    BY Zenon, <1>0 DEF IInv, TypeOK
  <2> HIDE DEF mine
  <2> QED BY Zenon, <2>2, <2>3, <2>4, <1>0, AllGone
<1>2. CASE forks[p] # {f}
  <2>1. kernel' = adf_freelock(p, mine) /\ readonly' = readonly /\ mine \in SUBSET entries[p]
    BY Zenon, <1>2 DEF of_closefork
  <2>2. TypeOK'
    <3>1. kernel' \in [Procs -> [Bytes -> {0, 1, 2}]]
      BY Zenon, <2>1, KernelType DEF IInv, adf_freelock
    <3>2. \A q \in Procs : \A e \in entries'[q] : e.user \in forks'[q]
      BY Zenon, <1>0 DEF IInv, TypeOK
    <3> QED BY Zenon, <3>1, <3>2, <1>0, <2>1 DEF IInv, TypeOK
  <2> HIDE DEF mine
  <2>3. KernelIsRecorded'
    BY Zenon, <1>0, <2>1, ReleaseRecorded
  <2>4. KernelExclusive'
    BY Zenon, <2>1, ReleaseExclusive DEF adf_freelock, IInv
  <2>5. Siblings' /\ OneEntry' /\ RangesOK' /\ TmpOK'
    <3>1. entries' = [entries EXCEPT ![p] = entries[p] \ mine] /\ entries[p] \ mine \in SUBSET entries[p]
      BY Zenon, <1>0
    <3>2. \A q \in Procs : q # p => forks'[q] = forks[q]
      BY Zenon, <1>0 DEF IInv, TypeOK
    <3> QED BY Zenon, <3>1, <3>2, <1>0, <2>1, FewerEntries
  <2> QED BY Zenon, <2>2, <2>3, <2>4, <2>5 DEF IInv
<1> QED BY Zenon, <1>1, <1>2

\* The end of a process.
LEMMA EndStep ==
    ASSUME IInv, NEW p \in Procs, session_ends(p)
    PROVE  IInv'
<1>1. forks' \in [Procs -> SUBSET Forks] /\ \A q \in Procs : q # p => forks'[q] = forks[q]
    BY Zenon DEF session_ends, IInv, TypeOK
<1> QED BY Zenon, <1>1, AllGone DEF session_ends

\* A probe: through a held descriptor, or by an open and close of a file on
\* which the process has nothing.
LEMMA ProbeStep ==
    ASSUME IInv, NEW p \in Procs, of_get_locks(p)
    PROVE  IInv'
<1>1. UNCHANGED <<forks, readonly, entries, tmp>> /\ tmp[p].step = 0
    BY Zenon DEF of_get_locks, Idle
<1>2. CASE forks[p] = {}
  <2>1. entries[p] = {}
    BY Zenon, <1>2 DEF IInv, TypeOK
  <2>2. entries' = [entries EXCEPT ![p] = {}]
    BY Zenon, <2>1, <1>1 DEF IInv, TypeOK
  <2>3. kernel' = SetLock(p, Bytes, 0)
    BY Zenon, <1>2 DEF of_get_locks
  <2>4. forks' \in [Procs -> SUBSET Forks] /\ \A q \in Procs : q # p => forks'[q] = forks[q]
    BY Zenon, <1>1 DEF IInv, TypeOK
  <2> QED BY Zenon, <2>2, <2>3, <2>4, <1>1, AllGone
<1>3. CASE forks[p] # {}
  <2>1. kernel' = kernel
    BY Zenon, <1>3 DEF of_get_locks
  <2> QED BY Zenon, <2>1, <1>1, Unchanged
<1> QED BY Zenon, <1>2, <1>3

\* The open of a fork.
LEMMA AllocStep ==
    ASSUME IInv, NEW p \in Procs, NEW f \in Forks, of_alloc(p, f)
    PROVE  IInv'
<1>1. /\ forks' = [forks EXCEPT ![p] = @ \cup {f}] /\ UNCHANGED <<entries, kernel, tmp>> /\ tmp[p].step = 0
      /\ readonly' = readonly \/ (entries[p] = {} /\ readonly' = readonly \cup {p})
    BY Zenon DEF of_alloc, Idle, IInv, TypeOK
<1>2. TypeOK'
  <2>1. \A q \in Procs : forks[q] \subseteq forks'[q]
    BY Zenon, <1>1 DEF IInv, TypeOK
  <2>2. forks' \in [Procs -> SUBSET Forks] /\ readonly' \subseteq Procs
    BY Zenon, <1>1 DEF IInv, TypeOK
  <2> QED BY Zenon, <1>1, <2>1, <2>2 DEF IInv, TypeOK
<1>3. KernelIsRecorded' /\ KernelExclusive' /\ Siblings' /\ OneEntry'
    BY SMTT(30), <1>1 DEF IInv, KernelIsRecorded, Expected, KernelExclusive, Siblings, OneEntry
<1>4. RangesOK'
    BY Zenon, <1>1 DEF IInv, RangesOK
<1>5. TmpOK'
  <2> SUFFICES ASSUME NEW q \in Procs
               PROVE  (IF tmp[q].step = 0 THEN tmp[q].taken = {}
                       ELSE /\ tmp[q].type = 2 => q \notin readonly'
                            /\ tmp[q].fork \in forks'[q]
                            /\ tmp[q].taken \subseteq Gaps(entries[q], tmp[q].lo, tmp[q].hi)
                            /\ tmp[q].step = 2 => Gaps(entries[q], tmp[q].lo, tmp[q].hi) \subseteq tmp[q].taken
                            /\ \A e \in entries[q] : e.user # tmp[q].fork /\ OVERLAP(e, tmp[q].lo, tmp[q].hi)
                                   => e.type = 1 /\ tmp[q].type = 1)
    BY ZenonT(60), <1>1 DEF TmpOK, Gaps
  <2>1. CASE q = p
    BY Zenon, <2>1, <1>1 DEF IInv, TmpOK
  <2>2. CASE q # p
    <3>1. forks'[q] = forks[q] /\ (q \in readonly' <=> q \in readonly)
      BY Zenon, <2>2, <1>1 DEF IInv, TypeOK
    <3> QED BY Zenon, <3>1 DEF IInv, TmpOK
  <2> QED BY Zenon, <2>1, <2>2
<1> QED BY Zenon, <1>2, <1>3, <1>4, <1>5 DEF IInv

-----------------------------------------------------------------------------
\* What a step of p's temporary lock keeps when it leaves the entries alone.
LEMMA TmpSame ==
    ASSUME IInv, NEW p \in Procs, NEW t \in Tmp, tmp' = [tmp EXCEPT ![p] = t],
           UNCHANGED <<forks, readonly, entries>>,
           kernel' \in [Procs -> [Bytes -> {0, 1, 2}]], KernelExclusive',
           \A q \in Procs : q # p => kernel'[q] = kernel[q],
           \A b \in Bytes : kernel'[p][b] =
               IF \E e \in entries[p] : Holds(e, b) THEN kernel[p][b]
               ELSE IF b \in t.taken THEN t.type ELSE 0,
           IF t.step = 0 THEN t.taken = {}
           ELSE /\ t.type = 2 => p \notin readonly
                /\ t.fork \in forks[p]
                /\ t.taken \subseteq Gaps(entries[p], t.lo, t.hi)
                /\ t.step = 2 => Gaps(entries[p], t.lo, t.hi) \subseteq t.taken
                /\ \A e \in entries[p] : e.user # t.fork /\ OVERLAP(e, t.lo, t.hi) => e.type = 1 /\ t.type = 1
    PROVE  IInv'
<1>0. tmp'[p] = t /\ \A q \in Procs : q # p => tmp'[q] = tmp[q]
    BY Zenon DEF IInv, TypeOK
<1>1. TypeOK'
    BY Zenon DEF IInv, TypeOK
<1>2. KernelIsRecorded'
  <2> SUFFICES ASSUME NEW q \in Procs, NEW b \in Bytes PROVE kernel'[q][b] = Expected(q, b)'
    BY Zenon DEF KernelIsRecorded, Bytes
  <2>1. CASE q # p
    BY SMTT(30), <2>1, <1>0 DEF Expected, IInv, KernelIsRecorded
  <2>2. CASE q = p
    <3>1. kernel[p][b] = Expected(p, b)
      BY Zenon DEF IInv, KernelIsRecorded
    <3> QED BY ZenonT(60), <2>2, <3>1, <1>0 DEF Expected
  <2> QED BY Zenon, <2>1, <2>2
<1>3. Siblings' /\ OneEntry' /\ RangesOK'
    BY ZenonT(60) DEF IInv, Siblings, OneEntry, RangesOK
<1>4. TmpOK'
  <2> SUFFICES ASSUME NEW q \in Procs
               PROVE  (IF tmp'[q].step = 0 THEN tmp'[q].taken = {}
                       ELSE /\ tmp'[q].type = 2 => q \notin readonly
                            /\ tmp'[q].fork \in forks[q]
                            /\ tmp'[q].taken \subseteq Gaps(entries[q], tmp'[q].lo, tmp'[q].hi)
                            /\ tmp'[q].step = 2 => Gaps(entries[q], tmp'[q].lo, tmp'[q].hi) \subseteq tmp'[q].taken
                            /\ \A e \in entries[q] : e.user # tmp'[q].fork /\ OVERLAP(e, tmp'[q].lo, tmp'[q].hi)
                                   => e.type = 1 /\ tmp'[q].type = 1)
    BY ZenonT(60) DEF TmpOK, Gaps
  <2>1. CASE q = p
    BY SMTT(30), <2>1, <1>0
  <2>2. CASE q # p
    BY <2>2, <1>0 DEF IInv, TmpOK
  <2> QED BY Zenon, <2>1, <2>2
<1> QED BY Zenon, <1>1, <1>2, <1>3, <1>4 DEF IInv

\* The bytes of a range between two offsets.
LEMMA GapBytes ==
    ASSUME NEW es, NEW lo \in Bytes, NEW hi \in Bytes
    PROVE  Gaps(es, lo, hi) \subseteq Bytes
BY Shape DEF Gaps, Bytes

\* What the kernel holds for p on a byte no entry covers.
LEMMA BareByte ==
    ASSUME IInv, NEW p \in Procs, NEW b \in Bytes, \A e \in entries[p] : ~Holds(e, b)
    PROVE  kernel[p][b] = IF b \in tmp[p].taken THEN tmp[p].type ELSE 0
BY Zenon DEF IInv, KernelIsRecorded, Expected

\* A temporary lock begins.
LEMMA TmpBegins ==
    ASSUME IInv, NEW p \in Procs, NEW f \in Forks, NEW want \in {1, 2}, NEW lo \in Bytes, NEW hi \in Bytes,
           ad_tmplock(p, f, want, lo, hi)
    PROVE  IInv'
<1> DEFINE t == [step |-> 1, fork |-> f, type |-> Effective(p, want), lo |-> lo, hi |-> hi, taken |-> {}]
<1>1. t \in Tmp /\ t.step = 1 /\ t.fork = f /\ t.lo = lo /\ t.hi = hi /\ t.taken = {} /\ t.type = Effective(p, want)
    BY Zenon DEF Tmp, Effective
<1>2. tmp' = [tmp EXCEPT ![p] = t] /\ UNCHANGED <<forks, readonly, entries, kernel>> /\ f \in forks[p] /\ tmp[p].step = 0
    BY Zenon DEF ad_tmplock, Idle
<1>3. ~adf_findxlock(p, f, t.type, lo, hi)
    BY Zenon DEF ad_tmplock
<1> HIDE DEF t
<1>4. \A e \in entries[p] : e.user # t.fork /\ OVERLAP(e, t.lo, t.hi) => e.type = 1 /\ t.type = 1
    BY SMTT(30), <1>1, <1>3 DEF adf_findxlock, IInv, TypeOK, Entry, Tmp
<1>5. t.type = 2 => p \notin readonly
    BY SMTT(30), <1>1 DEF Effective
<1>6. \A b \in Bytes : kernel'[p][b] =
          IF \E e \in entries[p] : Holds(e, b) THEN kernel[p][b]
          ELSE IF b \in t.taken THEN t.type ELSE 0
    BY ZenonT(60), <1>1, <1>2, BareByte DEF IInv, TmpOK
<1>7. kernel' \in [Procs -> [Bytes -> {0, 1, 2}]] /\ KernelExclusive'
    BY ZenonT(60), <1>2 DEF IInv, TypeOK, KernelExclusive
<1>c. IF t.step = 0 THEN t.taken = {}
      ELSE /\ t.type = 2 => p \notin readonly
           /\ t.fork \in forks[p]
           /\ t.taken \subseteq Gaps(entries[p], t.lo, t.hi)
           /\ t.step = 2 => Gaps(entries[p], t.lo, t.hi) \subseteq t.taken
           /\ \A e \in entries[p] : e.user # t.fork /\ OVERLAP(e, t.lo, t.hi) => e.type = 1 /\ t.type = 1
  <2>1. t.step # 0 /\ t.step # 2 /\ t.taken = {} /\ t.fork \in forks[p]
    BY <1>1, <1>2
  <2> QED BY Zenon, <2>1, <1>4, <1>5
<1>d. \A q \in Procs : q # p => kernel'[q] = kernel[q]
    BY Zenon, <1>2
<1> QED BY ZenonT(60), <1>1, <1>2, <1>c, <1>d, <1>6, <1>7, TmpSame

\* A stretch is granted.
LEMMA GapTaken ==
    ASSUME IInv, NEW p \in Procs, gap_taken(p)
    PROVE  IInv'
<1> DEFINE S == Stretch(p)
           t == [tmp[p] EXCEPT !.taken = @ \cup S]
<1>0. tmp[p] \in Tmp /\ tmp[p].step = 1
    BY Zenon DEF IInv, TypeOK, gap_taken
<1>1. /\ tmp' = [tmp EXCEPT ![p] = t]
      /\ kernel' = SetLock(p, S, tmp[p].type) /\ Grants(p, tmp[p].type, S)
      /\ UNCHANGED <<forks, readonly, entries>>
    BY Zenon, <1>0 DEF gap_taken, IInv, TypeOK, Tmp
<1>2. S \subseteq Gaps(entries[p], tmp[p].lo, tmp[p].hi) /\ S \subseteq Bytes
  <2>1. S \subseteq Gaps(entries[p], tmp[p].lo, tmp[p].hi)
    BY Zenon DEF Stretch, Left
  <2>2. tmp[p].lo \in Bytes /\ tmp[p].hi \in Bytes
    BY Zenon, <1>0 DEF Tmp
  <2> QED BY Zenon, <2>1, <2>2, GapBytes
<1>3. /\ t \in Tmp /\ t.step = 1 /\ t.fork = tmp[p].fork /\ t.lo = tmp[p].lo /\ t.hi = tmp[p].hi
      /\ t.type = tmp[p].type /\ t.taken = tmp[p].taken \cup S
    BY Zenon, <1>0, <1>2 DEF Tmp
<1> HIDE DEF S, t
<1>4. tmp[p].type \in {1, 2}
    BY Zenon, <1>0 DEF Tmp
<1>5. KernelExclusive'
    BY Zenon, <1>1, <1>4, TakeExclusive DEF IInv
<1>6. kernel' \in [Procs -> [Bytes -> {0, 1, 2}]]
    BY Zenon, <1>1, <1>4, KernelType DEF IInv
<1>7. ASSUME NEW b \in Bytes
      PROVE  kernel'[p][b] = IF \E e \in entries[p] : Holds(e, b) THEN kernel[p][b]
                             ELSE IF b \in t.taken THEN t.type ELSE 0
  <2>1. kernel'[p][b] = IF b \in S THEN tmp[p].type ELSE kernel[p][b]
    BY Zenon, <1>1 DEF SetLock, IInv, TypeOK
  <2>2. b \in S => \A e \in entries[p] : ~Holds(e, b)
    BY Zenon, <1>2 DEF Gaps
  <2> QED BY Zenon, <2>1, <2>2, <1>3, BareByte
<1>8. \A q \in Procs : q # p => kernel'[q] = kernel[q]
    BY Zenon, <1>1 DEF SetLock, IInv, TypeOK
<1>9. /\ t.type = 2 => p \notin readonly
      /\ t.fork \in forks[p]
      /\ t.taken \subseteq Gaps(entries[p], t.lo, t.hi)
      /\ \A e \in entries[p] : e.user # t.fork /\ OVERLAP(e, t.lo, t.hi) => e.type = 1 /\ t.type = 1
    BY SMTT(30), <1>0, <1>2, <1>3 DEF IInv, TmpOK
<1>c. IF t.step = 0 THEN t.taken = {}
      ELSE /\ t.type = 2 => p \notin readonly
           /\ t.fork \in forks[p]
           /\ t.taken \subseteq Gaps(entries[p], t.lo, t.hi)
           /\ t.step = 2 => Gaps(entries[p], t.lo, t.hi) \subseteq t.taken
           /\ \A e \in entries[p] : e.user # t.fork /\ OVERLAP(e, t.lo, t.hi) => e.type = 1 /\ t.type = 1
    BY SMTT(30), <1>3, <1>9
<1> QED BY Zenon, <1>1, <1>3, <1>5, <1>6, <1>7, <1>8, <1>c, TmpSame

\* A temporary lock ends, refused or released: the bytes it took are bare.
LEMMA TmpEnds ==
    ASSUME IInv, NEW p \in Procs, NEW S \in SUBSET Bytes, tmp[p].taken \subseteq S,
           \A b \in S : \A e \in entries[p] : ~Holds(e, b),
           kernel' = SetLock(p, S, 0), tmp' = [tmp EXCEPT ![p] = NoTmp],
           UNCHANGED <<forks, readonly, entries>>
    PROVE  IInv'
<1> USE Shape
<1>1. NoTmp \in Tmp /\ NoTmp.step = 0 /\ NoTmp.taken = {}
    BY SMTT(30) DEF NoTmp, Tmp, Bytes
<1>2. kernel' \in [Procs -> [Bytes -> {0, 1, 2}]] /\ KernelExclusive'
    BY Zenon, KernelType, ReleaseExclusive DEF IInv
<1>3. ASSUME NEW b \in Bytes
      PROVE  kernel'[p][b] = IF \E e \in entries[p] : Holds(e, b) THEN kernel[p][b]
                             ELSE IF b \in NoTmp.taken THEN NoTmp.type ELSE 0
  <2>1. kernel'[p][b] = IF b \in S THEN 0 ELSE kernel[p][b]
    BY Zenon DEF SetLock, IInv, TypeOK
  <2> QED BY Zenon, <2>1, <1>1, BareByte
<1>4. \A q \in Procs : q # p => kernel'[q] = kernel[q]
    BY Zenon DEF SetLock, IInv, TypeOK
<1> QED BY Zenon, <1>1, <1>2, <1>3, <1>4, TmpSame

LEMMA GapRefused ==
    ASSUME IInv, NEW p \in Procs, gap_refused(p)
    PROVE  IInv'
<1>1. tmp[p].taken \in SUBSET Bytes
    BY Zenon DEF IInv, TypeOK, Tmp
<1>2. \A b \in tmp[p].taken : \A e \in entries[p] : ~Holds(e, b)
    BY Zenon DEF gap_refused, IInv, TmpOK, Gaps
<1> QED BY Zenon, <1>1, <1>2, TmpEnds DEF gap_refused

LEMMA TmpReleased ==
    ASSUME IInv, NEW p \in Procs, ad_tmpunlock(p)
    PROVE  IInv'
<1> DEFINE S == Gaps(entries[p], tmp[p].lo, tmp[p].hi)
<1>1. S \in SUBSET Bytes
  <2>1. tmp[p].lo \in Bytes /\ tmp[p].hi \in Bytes
    BY Zenon DEF IInv, TypeOK, Tmp
  <2> QED BY Zenon, <2>1, GapBytes
<1>2. \A b \in S : \A e \in entries[p] : ~Holds(e, b)
    BY Zenon DEF Gaps
<1>3. tmp[p].taken \subseteq S
    BY Zenon DEF ad_tmpunlock, IInv, TmpOK
<1> QED BY Zenon, <1>1, <1>2, <1>3, TmpEnds DEF ad_tmpunlock

\* All stretches are taken.
LEMMA GapsDone ==
    ASSUME IInv, NEW p \in Procs, gaps_done(p)
    PROVE  IInv'
<1> DEFINE t == [tmp[p] EXCEPT !.step = 2]
<1>0. tmp[p] \in Tmp /\ tmp[p].step = 1
    BY Zenon DEF IInv, TypeOK, gaps_done
<1>1. tmp' = [tmp EXCEPT ![p] = t] /\ UNCHANGED <<forks, readonly, entries, kernel>> /\ Left(p) = {}
    BY Zenon, <1>0 DEF gaps_done, IInv, TypeOK, Tmp
<1>2. /\ t \in Tmp /\ t.step = 2 /\ t.fork = tmp[p].fork /\ t.lo = tmp[p].lo /\ t.hi = tmp[p].hi
      /\ t.type = tmp[p].type /\ t.taken = tmp[p].taken
    BY Zenon, <1>0 DEF Tmp
<1> HIDE DEF t
<1>3. /\ t.type = 2 => p \notin readonly
      /\ t.fork \in forks[p]
      /\ t.taken \subseteq Gaps(entries[p], t.lo, t.hi)
      /\ \A e \in entries[p] : e.user # t.fork /\ OVERLAP(e, t.lo, t.hi) => e.type = 1 /\ t.type = 1
    BY SMTT(30), <1>0, <1>2 DEF IInv, TmpOK
<1>4. Gaps(entries[p], t.lo, t.hi) \subseteq t.taken
    BY Zenon, <1>1, <1>2 DEF Left
<1>5. \A b \in Bytes : kernel'[p][b] =
          IF \E e \in entries[p] : Holds(e, b) THEN kernel[p][b]
          ELSE IF b \in t.taken THEN t.type ELSE 0
    BY Zenon, <1>1, <1>2, BareByte
<1>6. kernel' \in [Procs -> [Bytes -> {0, 1, 2}]] /\ KernelExclusive'
    BY Zenon, <1>1 DEF IInv, TypeOK, KernelExclusive
<1>c. IF t.step = 0 THEN t.taken = {}
      ELSE /\ t.type = 2 => p \notin readonly
           /\ t.fork \in forks[p]
           /\ t.taken \subseteq Gaps(entries[p], t.lo, t.hi)
           /\ t.step = 2 => Gaps(entries[p], t.lo, t.hi) \subseteq t.taken
           /\ \A e \in entries[p] : e.user # t.fork /\ OVERLAP(e, t.lo, t.hi) => e.type = 1 /\ t.type = 1
    BY <1>2, <1>3, <1>4
<1>d. \A q \in Procs : q # p => kernel'[q] = kernel[q]
    BY Zenon, <1>1
<1> QED BY Zenon, <1>1, <1>2, <1>c, <1>d, <1>5, <1>6, TmpSame

-----------------------------------------------------------------------------
\* Every step keeps the invariant.
LEMMA StepIInv == IInv /\ [Next]_vars => IInv'
<1> SUFFICES ASSUME IInv, [Next]_vars PROVE IInv'
    BY Zenon
<1> USE Shape
<1>1. CASE UNCHANGED vars
    BY Zenon, <1>1, Unchanged DEF vars
<1>2. CASE Next
  <2>1. PICK p \in Procs : Step(p)
    BY Zenon, <1>2 DEF Next
  <2>2. CASE \E f \in Forks : of_alloc(p, f)
    BY Zenon, <2>2, AllocStep
  <2>3. CASE \E f \in Forks : of_closefork(p, f)
    BY <2>3, CloseStep
  <2>4. CASE \E f \in Forks, r \in Ranges : byte_lock(p, f, r[1], r[2])
    <3>1. PICK f \in Forks, r \in Ranges : byte_lock(p, f, r[1], r[2])
      BY Zenon, <2>4
    <3>2. r[1] \in Bytes /\ r[2] \in Bytes /\ r[1] <= r[2]
      BY Zenon DEF Ranges
    <3>3. Effective(p, 2) \in {1, 2} /\ (Effective(p, 2) = 1 => p \in readonly)
      BY DEF Effective
    <3>4. ad_lock(p, f, Effective(p, 2), r[1], r[2])
      BY Zenon, <3>1 DEF byte_lock
    <3> QED BY Zenon, <3>2, <3>3, <3>4, LockStep
  <2>5. CASE \E f \in Forks, r \in Ranges, want \in {1, 2} : ad_tmplock(p, f, want, r[1], r[2])
    <3>1. PICK f \in Forks, r \in Ranges, want \in {1, 2} : ad_tmplock(p, f, want, r[1], r[2])
      BY Zenon, <2>5
    <3>2. r[1] \in Bytes /\ r[2] \in Bytes
      BY Zenon DEF Ranges
    <3> QED BY Zenon, <3>1, <3>2, TmpBegins
  <2>6. CASE \E f \in Forks, slot \in Base..Top : fork_setmode(p, f, slot)
    <3>1. PICK f \in Forks, slot \in Base..Top : fork_setmode(p, f, slot)
      BY Zenon, <2>6
    <3>2. slot \in Bytes /\ slot <= slot /\ slot >= Base
      BY DEF Bytes
    <3>3. ad_lock(p, f, 1, slot, slot)
      BY Zenon, <3>1 DEF fork_setmode
    <3> QED BY Zenon, <3>2, <3>3, LockStep
  <2>7. CASE \E e \in entries[p] : byte_unlock(p, e)
    BY Zenon, <2>7, UnlockStep
  <2> QED
    BY Zenon, <2>1, <2>2, <2>3, <2>4, <2>5, <2>6, <2>7, ProbeStep, GapTaken, GapRefused, GapsDone, TmpReleased, EndStep DEF Step
<1> QED BY Zenon, <1>1, <1>2

\* A recorded write entry excludes every other fork's entry, and a granted
\* temporary write lock everybody else below the band.
LEMMA Consequences == IInv => ForksExclusive /\ StrictWrite
<1> SUFFICES ASSUME IInv PROVE ForksExclusive /\ StrictWrite
    BY Zenon
<1> USE Shape
<1>0. ASSUME NEW p \in Procs, NEW e \in entries[p], NEW b \in Bytes, Holds(e, b)
      PROVE  kernel[p][b] # 0 /\ (e.type = 2 => kernel[p][b] = 2)
    BY <1>0 DEF IInv, KernelIsRecorded, Expected
<1>1. ForksExclusive
  <2> SUFFICES ASSUME NEW p \in Procs, NEW q \in Procs, NEW e \in entries[p], NEW g \in entries[q],
                      <<p, e.user>> # <<q, g.user>>, e.type = 2, OVERLAP(g, e.lo, e.hi)
               PROVE  FALSE
    BY Zenon DEF ForksExclusive
  <2>1. CASE p = q
    BY Zenon, <2>1 DEF IInv, Siblings
  <2>2. CASE p # q
    <3>1. e \in Entry /\ g \in Entry /\ e.lo <= e.hi /\ g.lo <= g.hi
      BY Zenon DEF IInv, TypeOK, RangesOK
    <3>2. \E b \in Bytes : Holds(e, b) /\ Holds(g, b)
      <4>1. CASE e.lo <= g.lo
        BY <4>1, <3>1 DEF Holds, OVERLAP, Entry, Bytes
      <4>2. CASE g.lo <= e.lo
        BY <4>2, <3>1 DEF Holds, OVERLAP, Entry, Bytes
      <4> QED BY <4>1, <4>2, <3>1 DEF Entry, Bytes
    <3> QED BY Zenon, <2>2, <3>2, <1>0 DEF IInv, KernelExclusive
  <2> QED BY Zenon, <2>1, <2>2
<1>2. StrictWrite
  <2> SUFFICES ASSUME NEW p \in Procs, tmp[p].step = 2, tmp[p].type = 2, NEW b \in tmp[p].lo..tmp[p].hi, b < Base
               PROVE  /\ \A e \in entries[p] : Holds(e, b) => e.user = tmp[p].fork
                      /\ \A q \in Procs \ {p} : kernel[q][b] = 0
    BY Zenon DEF StrictWrite
  <2>0. b \in Bytes /\ tmp[p].lo \in Bytes /\ tmp[p].hi \in Bytes
    BY DEF IInv, TypeOK, Tmp, Bytes
  <2>1. \A e \in entries[p] : Holds(e, b) => e.user = tmp[p].fork /\ e.type = 2
    <3> SUFFICES ASSUME NEW e \in entries[p], Holds(e, b) PROVE e.user = tmp[p].fork /\ e.type = 2
      BY Zenon
    <3>1. e \in Entry
      BY Zenon DEF IInv, TypeOK
    <3>2. OVERLAP(e, tmp[p].lo, tmp[p].hi)
      BY SMTT(30), <3>1, <2>0 DEF Holds, OVERLAP, Entry, Bytes
    <3>3. e.user = tmp[p].fork /\ p \notin readonly
      BY SMTT(30), <3>2 DEF IInv, TmpOK
    <3>4. e.type # 1
      BY SMTT(30), <3>1, <3>3, <2>0 DEF IInv, RangesOK, Holds, Entry, Bytes
    <3> QED BY Zenon, <3>1, <3>3, <3>4 DEF Entry
  <2>2. kernel[p][b] = 2
    <3>1. CASE \E e \in entries[p] : Holds(e, b)
      BY Zenon, <3>1, <2>0, <2>1, <1>0
    <3>2. CASE \A e \in entries[p] : ~Holds(e, b)
      <4>1. b \in tmp[p].taken
        BY <3>2 DEF IInv, TmpOK, Gaps
      <4> QED BY Zenon, <4>1, <3>2, <2>0, BareByte
    <3> QED BY Zenon, <3>1, <3>2
  <2> QED BY Zenon, <2>0, <2>1, <2>2 DEF IInv, KernelExclusive
<1> QED BY Zenon, <1>1, <1>2

\* For every number of sessions, forks and bytes the kernel holds exactly the
\* recorded ranges and the temporary lock under way, after every system call.
THEOREM Recorded == Spec => [](KernelIsRecorded /\ TypeOK /\ OneEntry)
<1>1. IInv => KernelIsRecorded /\ TypeOK /\ OneEntry
    BY Zenon DEF IInv
<1> QED BY <1>1, InitIInv, StepIInv, PTL DEF Spec

\* For every number of sessions, forks and bytes a write lock granted to one
\* fork excludes the locks of every other fork of every session (ad_lock).
THEOREM Exclusion == Spec => []ForksExclusive
BY InitIInv, StepIInv, Consequences, PTL DEF Spec

\* For every number of sessions, forks and bytes a granted temporary write lock
\* excludes everybody else from its bytes (ad_tmplock).
THEOREM StrictLocks == Spec => []StrictWrite
BY InitIInv, StepIInv, Consequences, PTL DEF Spec

=============================================================================
