----------------------------- MODULE ArcProofs -----------------------------
(* The bounds of the ARC lists for every cache size and every number of
   entries.  The lemmas follow the calls: a queue operation, the choice of a
   victim, an eviction, REPLACE, and the cases that call it. *)
EXTENDS Arc, TLAPS

\* Four duplicate-free, pairwise disjoint queues.
Apart(l) ==
  \A q, r \in Names : \A i \in DOMAIN l[q], j \in DOMAIN l[r] :
    l[q][i] = l[r][j] => q = r /\ i = j
Good(l) == l \in [Names -> Seq(Entries)] /\ Apart(l)
LiveSize(l) == Size(l, "t1") + Size(l, "t2")

\* An entry is cached when a queue holds it.
LEMMA CachedIs ==
  ASSUME NEW l, NEW e
  PROVE  e \in Cached(l) <=> \E q \in Names : e \in Elems(l[q])
BY Zenon DEF Cached

\* Taking the node at a position out of a queue removes its entry and keeps
\* every other (queue_remove).
LEMMA OutFacts ==
  ASSUME NEW l, Good(l), NEW q \in Names, NEW i \in DOMAIN l[q], NEW v, v = l[q][i]
  PROVE  /\ Good(Out(l, q, i))
         /\ Len(Out(l, q, i)[q]) = Len(l[q]) - 1
         /\ \A r \in Names \ {q} : Out(l, q, i)[r] = l[r]
         /\ Elems(Out(l, q, i)[q]) = Elems(l[q]) \ {v}
         /\ Cached(Out(l, q, i)) = Cached(l) \ {v}
<1> DEFINE s == l[q]
           o == [j \in 1 .. Len(s) - 1 |-> IF j < i THEN s[j] ELSE s[j + 1]]
           k == Out(l, q, i)
<1>1. s \in Seq(Entries) /\ DOMAIN s = 1 .. Len(s) /\ Len(s) \in Nat /\ i \in 1 .. Len(s)
  BY DEF Good
<1>2. o \in Seq(Entries) /\ Len(o) = Len(s) - 1 /\ DOMAIN o = 1 .. Len(s) - 1
  BY <1>1
<1>3. k = [l EXCEPT ![q] = o]
  BY Zenon DEF Out
<1>4. k \in [Names -> Seq(Entries)] /\ k[q] = o /\ \A r \in Names \ {q} : k[r] = l[r]
  BY Zenon, <1>2, <1>3 DEF Good
<1>5. \A j \in DOMAIN o : \E m \in DOMAIN s : m # i /\ o[j] = s[m]
  <2> SUFFICES ASSUME NEW j \in DOMAIN o PROVE \E m \in DOMAIN s : m # i /\ o[j] = s[m]
    BY Zenon
  <2>1. CASE j < i
    BY SMTT(30), <2>1, <1>1, <1>2
  <2>2. CASE ~ (j < i)
    <3>1. j + 1 \in DOMAIN s /\ j + 1 # i /\ o[j] = s[j + 1]
      BY SMTT(30), <2>2, <1>1, <1>2
    <3> QED BY Zenon, <3>1
  <2> QED BY Zenon, <2>1, <2>2
<1>6. \A m \in DOMAIN s : m # i => \E j \in DOMAIN o : o[j] = s[m]
  <2> SUFFICES ASSUME NEW m \in DOMAIN s, m # i PROVE \E j \in DOMAIN o : o[j] = s[m]
    BY Zenon
  <2>1. CASE m < i
    BY SMTT(30), <2>1, <1>1, <1>2
  <2>2. CASE ~ (m < i)
    <3>1. m - 1 \in DOMAIN o /\ o[m - 1] = s[m]
      BY SMTT(30), <2>2, <1>1, <1>2
    <3> QED BY Zenon, <3>1
  <2> QED BY Zenon, <2>1, <2>2
<1>7. Apart(k)
  <2> SUFFICES ASSUME NEW a \in Names, NEW b \in Names,
                      NEW x \in DOMAIN k[a], NEW y \in DOMAIN k[b], k[a][x] = k[b][y]
               PROVE  a = b /\ x = y
    BY Zenon DEF Apart
  <2>0. Apart(l)
    BY Zenon DEF Good
  <2>1. CASE a = q /\ b = q
    <3>1. x \in 1 .. Len(s) - 1 /\ y \in 1 .. Len(s) - 1 /\ o[x] = o[y]
      BY Zenon, <2>1, <1>2, <1>4
    <3> DEFINE f(n) == IF n < i THEN n ELSE n + 1
    <3>a. ASSUME NEW n \in 1 .. Len(s) - 1
          PROVE  f(n) \in DOMAIN s /\ o[n] = s[f(n)]
      <4>1. CASE n < i
        BY <4>1, <1>1
      <4>2. CASE ~ (n < i)
        <5>1. f(n) = n + 1 /\ n + 1 \in 1 .. Len(s)
          BY SMTT(30), <4>2, <1>1
        <5> QED BY Zenon, <5>1, <4>2, <1>1
      <4> QED BY Zenon, <4>1, <4>2
    <3>2. f(x) \in DOMAIN s /\ f(y) \in DOMAIN s /\ s[f(x)] = s[f(y)]
      BY Zenon, <3>1, <3>a
    <3>3. f(x) = f(y)
      BY <3>2, <2>0 DEF Apart
    <3> QED BY SMTT(30), <3>1, <3>3, <2>1, <1>1
  <2>2. CASE a = q /\ b # q
    <3>1. PICK m \in DOMAIN s : k[a][x] = s[m]
      BY SMTT(30), <2>2, <1>4, <1>5
    <3>2. y \in DOMAIN l[b] /\ s[m] = l[b][y]
      BY Zenon, <3>1, <2>2, <1>4
    <3>3. q = b
      BY Zenon, <3>2, <2>0 DEF Apart
    <3> QED BY Zenon, <3>3, <2>2
  <2>3. CASE a # q /\ b = q
    <3>1. PICK m \in DOMAIN s : k[b][y] = s[m]
      BY SMTT(30), <2>3, <1>4, <1>5
    <3>2. x \in DOMAIN l[a] /\ s[m] = l[a][x]
      BY Zenon, <3>1, <2>3, <1>4
    <3>3. q = a
      BY Zenon, <3>2, <2>0 DEF Apart
    <3> QED BY Zenon, <3>3, <2>3
  <2>4. CASE a # q /\ b # q
    <3>1. x \in DOMAIN l[a] /\ y \in DOMAIN l[b] /\ l[a][x] = l[b][y]
      BY Zenon, <2>4, <1>4
    <3> QED BY <3>1, <2>0 DEF Apart
  <2> QED BY Zenon, <2>1, <2>2, <2>3, <2>4
<1>8. Elems(k[q]) = Elems(s) \ {v}
  <2>1. ASSUME NEW e \in Elems(k[q]) PROVE e \in Elems(s) \ {v}
    <3>1. PICK j \in DOMAIN o : e = o[j]
      BY <2>1, <1>4 DEF Elems
    <3>2. PICK m \in DOMAIN s : m # i /\ e = s[m]
      BY Zenon, <3>1, <1>5
    <3>3. s[m] # v
      BY Zenon, <3>2, <1>1 DEF Good, Apart
    <3> QED BY Zenon, <3>2, <3>3 DEF Elems
  <2>2. ASSUME NEW e \in Elems(s) \ {v} PROVE e \in Elems(k[q])
    <3>1. PICK m \in DOMAIN s : e = s[m]
      BY Zenon, <2>2 DEF Elems
    <3>2. m # i
      BY Zenon, <2>2, <3>1
    <3>3. PICK j \in DOMAIN o : o[j] = s[m]
      BY Zenon, <3>2, <1>6
    <3>4. e = k[q][j] /\ j \in DOMAIN k[q]
      BY Zenon, <3>1, <3>3, <1>4
    <3> QED BY Zenon, <3>4 DEF Elems
  <2> QED BY Zenon, <2>1, <2>2
<1>9. \A r \in Names \ {q} : v \notin Elems(l[r])
  <2> SUFFICES ASSUME NEW r \in Names, NEW j \in DOMAIN l[r], v = l[r][j] PROVE r = q
    BY Zenon DEF Elems
  <2> QED BY ZenonT(60) DEF Good, Apart
<1>10. Cached(k) = Cached(l) \ {v}
  <2>1. ASSUME NEW e PROVE e \in Cached(k) <=> e \in Cached(l) /\ e # v
    <3>1. e \in Cached(k) <=> e \in Elems(k[q]) \/ \E r \in Names \ {q} : e \in Elems(k[r])
      BY Zenon, CachedIs
    <3>2. e \in Cached(l) <=> e \in Elems(s) \/ \E r \in Names \ {q} : e \in Elems(l[r])
      BY Zenon, CachedIs
    <3> QED BY ZenonT(60), <3>1, <3>2, <1>4, <1>8, <1>9
  <2> QED BY Zenon, <2>1
<1> QED BY Zenon, <1>2, <1>4, <1>7, <1>8, <1>10 DEF Good

\* A queue takes an entry that no queue holds (enqueue).
LEMMA PutFacts ==
  ASSUME NEW l, Good(l), NEW q \in Names, NEW e \in Entries, e \notin Cached(l)
  PROVE  /\ Good(Put(l, q, e))
         /\ Len(Put(l, q, e)[q]) = Len(l[q]) + 1
         /\ \A r \in Names \ {q} : Put(l, q, e)[r] = l[r]
         /\ Elems(Put(l, q, e)[q]) = Elems(l[q]) \cup {e}
         /\ Cached(Put(l, q, e)) = Cached(l) \cup {e}
<1> DEFINE s == l[q]
           o == Append(s, e)
           k == Put(l, q, e)
<1>1. s \in Seq(Entries) /\ DOMAIN s = 1 .. Len(s) /\ Len(s) \in Nat
  BY DEF Good
<1>2. /\ o \in Seq(Entries) /\ Len(o) = Len(s) + 1 /\ DOMAIN o = 1 .. Len(s) + 1
      /\ o[Len(s) + 1] = e /\ \A j \in 1 .. Len(s) : o[j] = s[j]
  BY <1>1
<1>3. k \in [Names -> Seq(Entries)] /\ k[q] = o /\ \A r \in Names \ {q} : k[r] = l[r]
  BY Zenon, <1>2 DEF Good, Put
<1>4. \A r \in Names : \A j \in DOMAIN l[r] : l[r][j] # e
  BY Zenon, CachedIs DEF Elems
<1>5. Apart(k)
  <2> SUFFICES ASSUME NEW a \in Names, NEW b \in Names,
                      NEW x \in DOMAIN k[a], NEW y \in DOMAIN k[b], k[a][x] = k[b][y]
               PROVE  a = b /\ x = y
    BY Zenon DEF Apart
  <2> DEFINE New(r, j) == r = q /\ j = Len(s) + 1
  <2>1. \A r \in Names : \A j \in DOMAIN k[r] :
          IF New(r, j) THEN k[r][j] = e ELSE j \in DOMAIN l[r] /\ k[r][j] = l[r][j]
    <3> SUFFICES ASSUME NEW r \in Names, NEW j \in DOMAIN k[r]
                 PROVE  IF New(r, j) THEN k[r][j] = e ELSE j \in DOMAIN l[r] /\ k[r][j] = l[r][j]
      BY Zenon
    <3>1. CASE r = q
      BY SMTT(30), <3>1, <1>1, <1>2, <1>3
    <3>2. CASE r # q
      BY Zenon, <3>2, <1>3
    <3> QED BY Zenon, <3>1, <3>2
  <2>2. CASE New(a, x)
    <3>1. New(b, y)
      BY <2>1, <2>2, <1>4
    <3> QED BY Zenon, <2>2, <3>1
  <2>3. CASE ~ New(a, x)
    <3>1. ~ New(b, y)
      BY <2>1, <2>3, <1>4
    <3>2. x \in DOMAIN l[a] /\ y \in DOMAIN l[b] /\ l[a][x] = l[b][y]
      BY Zenon, <2>1, <2>3, <3>1
    <3> QED BY <3>2 DEF Good, Apart
  <2> QED BY Zenon, <2>2, <2>3
<1>6. Elems(o) = Elems(s) \cup {e}
  BY <1>1, <1>2 DEF Elems
<1>7. Cached(k) = Cached(l) \cup {e}
  <2>1. ASSUME NEW d PROVE d \in Cached(k) <=> d \in Cached(l) \/ d = e
    <3>1. d \in Cached(k) <=> d \in Elems(k[q]) \/ \E r \in Names \ {q} : d \in Elems(k[r])
      BY Zenon, CachedIs
    <3>2. d \in Cached(l) <=> d \in Elems(s) \/ \E r \in Names \ {q} : d \in Elems(l[r])
      BY Zenon, CachedIs
    <3> QED BY Zenon, <3>1, <3>2, <1>3, <1>6
  <2> QED BY Zenon, <2>1
<1> QED BY Zenon, <1>2, <1>3, <1>5, <1>6, <1>7 DEF Good

\* Removing an entry takes it out of the one queue that holds it
\* (dircache_remove).
LEMMA DropFacts ==
  ASSUME NEW l, Good(l), NEW e
  PROVE  /\ Good(Drop(l, e))
         /\ Cached(Drop(l, e)) = Cached(l) \ {e}
         /\ \A r \in Names : Elems(Drop(l, e)[r]) = Elems(l[r]) \ {e}
         /\ \A r \in Names : Len(Drop(l, e)[r]) = Len(l[r]) - (IF e \in Elems(l[r]) THEN 1 ELSE 0)
<1>0. \A r \in Names : Len(l[r]) \in Nat
  BY DEF Good
<1>1. CASE e \notin Cached(l)
  <2>1. Drop(l, e) = l
    BY Zenon, <1>1 DEF Drop
  <2>2. \A r \in Names : e \notin Elems(l[r])
    BY Zenon, <1>1, CachedIs
  <2>3. Cached(l) = Cached(l) \ {e}
    BY Zenon, <1>1
  <2>4. \A r \in Names : Elems(l[r]) = Elems(l[r]) \ {e}
    BY Zenon, <2>2
  <2>5. \A r \in Names : Len(l[r]) = Len(l[r]) - (IF e \in Elems(l[r]) THEN 1 ELSE 0)
    <3> SUFFICES ASSUME NEW r \in Names
                 PROVE  Len(l[r]) = Len(l[r]) - (IF e \in Elems(l[r]) THEN 1 ELSE 0)
      BY Zenon
    <3>1. (IF e \in Elems(l[r]) THEN 1 ELSE 0) = 0
      BY Zenon, <2>2
    <3>2. Len(l[r]) = Len(l[r]) - 0
      BY <1>0
    <3> QED BY Zenon, <3>1, <3>2
  <2>6. Good(Drop(l, e)) /\ Cached(Drop(l, e)) = Cached(l) \ {e}
    BY Zenon, <2>1, <2>3
  <2>7. \A r \in Names : Elems(Drop(l, e)[r]) = Elems(l[r]) \ {e}
    BY Zenon, <2>1, <2>4
  <2>8. \A r \in Names : Len(Drop(l, e)[r]) = Len(l[r]) - (IF e \in Elems(l[r]) THEN 1 ELSE 0)
    BY Zenon, <2>1, <2>5
  <2> QED BY Zenon, <2>6, <2>7, <2>8
<1>2. CASE e \in Cached(l)
  <2> DEFINE q == CHOOSE x \in Names : e \in Elems(l[x])
             i == CHOOSE j \in DOMAIN l[q] : l[q][j] = e
  <2>1. q \in Names /\ e \in Elems(l[q])
    BY Zenon, <1>2, CachedIs
  <2>2. i \in DOMAIN l[q] /\ l[q][i] = e
    BY Zenon, <2>1 DEF Elems
  <2>3. Drop(l, e) = Out(l, q, i)
    BY Zenon, <1>2 DEF Drop
  <2>4. \A r \in Names \ {q} : e \notin Elems(l[r])
    <3> SUFFICES ASSUME NEW r \in Names, NEW j \in DOMAIN l[r], e = l[r][j] PROVE r = q
      BY Zenon DEF Elems
    <3> QED BY Zenon, <2>1, <2>2 DEF Good, Apart
  <2> HIDE DEF q, i
  <2>5. /\ Good(Out(l, q, i))
        /\ Len(Out(l, q, i)[q]) = Len(l[q]) - 1
        /\ \A r \in Names \ {q} : Out(l, q, i)[r] = l[r]
        /\ Elems(Out(l, q, i)[q]) = Elems(l[q]) \ {e}
        /\ Cached(Out(l, q, i)) = Cached(l) \ {e}
    BY SMTT(30), <2>1, <2>2, OutFacts
  <2>6. ASSUME NEW r \in Names
        PROVE  /\ Elems(Drop(l, e)[r]) = Elems(l[r]) \ {e}
               /\ Len(Drop(l, e)[r]) = Len(l[r]) - (IF e \in Elems(l[r]) THEN 1 ELSE 0)
    <3>1. CASE r = q
      BY Zenon, <3>1, <2>1, <2>3, <2>5
    <3>2. CASE r # q
      <4>1. Drop(l, e)[r] = l[r] /\ e \notin Elems(l[r])
        BY Zenon, <3>2, <2>3, <2>4, <2>5
      <4>2. Elems(l[r]) = Elems(l[r]) \ {e}
        BY Zenon, <4>1
      <4> QED BY <4>1, <4>2, <1>0
    <3> QED BY Zenon, <3>1, <3>2
  <2> QED BY Zenon, <2>3, <2>5, <2>6
<1> QED BY Zenon, <1>1, <1>2

\* The victim of a list is an entry other than the skipped one, and there is
\* none only when the list holds nothing else (arc_find_victim).
LEMMA OldestFacts ==
  ASSUME NEW l, Good(l), NEW q \in Names, NEW skip
  PROVE  LET i == Oldest(l[q], skip)
         IN /\ i # 0 => i \in DOMAIN l[q] /\ l[q][i] # skip
            /\ i = 0 => Len(l[q]) = 0 \/ (Len(l[q]) = 1 /\ l[q][1] = skip)
<1>1. l[q] \in Seq(Entries) /\ DOMAIN l[q] = 1 .. Len(l[q]) /\ Len(l[q]) \in Nat
  BY DEF Good
<1>2. l[q] = <<>> => Len(l[q]) = 0
  OBVIOUS
<1>3. l[q] # <<>> => Len(l[q]) >= 1
  BY <1>1
<1>4. Len(l[q]) >= 2 => l[q][1] # l[q][2]
  BY <1>1 DEF Good, Apart
<1>5. CASE l[q] = <<>>
  BY Zenon, <1>2, <1>5 DEF Oldest
<1>6. CASE l[q] # <<>> /\ l[q][1] # skip
  BY <1>1, <1>3, <1>6 DEF Oldest
<1>7. CASE l[q] # <<>> /\ l[q][1] = skip /\ Len(l[q]) >= 2
  BY <1>1, <1>4, <1>7 DEF Oldest
<1>8. CASE l[q] # <<>> /\ l[q][1] = skip /\ ~(Len(l[q]) >= 2)
  <2>1. Len(l[q]) = 1
    <3>1. \A n \in Nat : n >= 1 /\ ~(n >= 2) => n = 1
      OBVIOUS
    <3>2. Len(l[q]) \in Nat /\ Len(l[q]) >= 1
      BY Zenon, <1>1, <1>3, <1>8
    <3> QED BY Zenon, <3>1, <3>2, <1>8
  <2>2. Oldest(l[q], skip) = 0
    BY Zenon, <1>8 DEF Oldest
  <2> QED BY Zenon, <1>8, <2>1, <2>2
<1> QED BY Zenon, <1>5, <1>6, <1>7, <1>8

\* Trimming touches one ghost list, shortens it by at most one, and spares the
\* ghost being revived (arc_ensure_ghost_capacity).
LEMMA TrimFacts ==
  ASSUME NEW l, Good(l), NEW b \in {"b1", "b2"}, NEW e
  PROVE  LET k == arc_ensure_ghost_capacity(l, b, e)
         IN /\ Good(k)
            /\ \A r \in Names \ {b} : k[r] = l[r]
            /\ Len(k[b]) <= Len(l[b])
            /\ Cached(k) \subseteq Cached(l)
            /\ e \in Cached(l) => e \in Cached(k)
<1> DEFINE i == Oldest(l[b], e)
           k == arc_ensure_ghost_capacity(l, b, e)
<1>0. b \in Names /\ Len(l[b]) \in Nat
  BY DEF Names, Good
<1>1. CASE k = l
  BY <1>1, <1>0
<1>2. CASE k # l
  <2>1. i # 0 /\ k = Out(l, b, i)
    BY Zenon, <1>2 DEF arc_ensure_ghost_capacity
  <2>2. i \in DOMAIN l[b] /\ l[b][i] # e
    BY <2>1, <1>0, OldestFacts
  <2> DEFINE v == l[b][i]
  <2> HIDE DEF i, k
  <2>6. v = l[b][i] /\ v # e
    BY Zenon, <2>2
  <2> HIDE DEF v
  <2>3. /\ Good(k) /\ Len(k[b]) = Len(l[b]) - 1
        /\ \A r \in Names \ {b} : k[r] = l[r]
        /\ Cached(k) = Cached(l) \ {v}
    BY SMTT(30), <2>1, <2>2, <2>6, <1>0, OutFacts
  <2>4. Len(k[b]) <= Len(l[b])
    BY <2>3, <1>0
  <2>5. Cached(k) \subseteq Cached(l) /\ (e \in Cached(l) => e \in Cached(k))
    BY Zenon, <2>6, <2>3
  <2> QED BY Zenon, <2>3, <2>4, <2>5 DEF k
<1> QED BY Zenon, <1>1, <1>2

\* An eviction moves a live entry other than curdir to the ghosts, perhaps at
\* the expense of one of them (arc_evict_to_ghost).
LEMMA EvictFacts ==
  ASSUME NEW l, Good(l), NEW t \in {"t1", "t2"}, NEW cd, NEW e, e \notin Live(l),
         Oldest(l[t], cd) # 0
  PROVE  LET k == arc_evict_to_ghost(l, t, cd, e)
         IN /\ Good(k)
            /\ LiveSize(k) = LiveSize(l) - 1
            /\ L1(k) <= L1(l) /\ L2(k) <= L2(l)
            /\ Cached(k) \subseteq Cached(l)
            /\ e \in Cached(l) => e \in Cached(k)
            /\ cd \in Live(l) => cd \in Live(k)
            /\ Live(k) \subseteq Live(l)
<1> DEFINE i == Oldest(l[t], cd)
           v == l[t][i]
           b == Ghost(t)
           m == arc_ensure_ghost_capacity(l, b, e)
           o == Out(m, t, i)
           k == Put(o, b, v)
<1>0. t \in Names /\ b \in {"b1", "b2"} /\ b \in Names /\ b # t
  BY Zenon DEF Names, Ghost
<1>1. i \in DOMAIN l[t] /\ v # cd /\ v \in Entries
  BY <1>0, OldestFacts DEF Good
<1> HIDE DEF i, b
<1>2. /\ Good(m) /\ \A r \in Names \ {b} : m[r] = l[r]
      /\ Len(m[b]) <= Len(l[b]) /\ Cached(m) \subseteq Cached(l)
      /\ e \in Cached(l) => e \in Cached(m)
  BY ZenonT(60), <1>0, TrimFacts
<1>3. m[t] = l[t]
  BY Zenon, <1>0, <1>2
<1> HIDE DEF m
<1>4. /\ Good(o) /\ Len(o[t]) = Len(l[t]) - 1
      /\ \A r \in Names \ {t} : o[r] = m[r]
      /\ Elems(o[t]) = Elems(l[t]) \ {v}
      /\ Cached(o) = Cached(m) \ {v}
  <2>1. i \in DOMAIN m[t] /\ v = m[t][i]
    BY Zenon, <1>1, <1>3
  <2>3. Good(m) /\ t \in Names
    BY Zenon, <1>0, <1>2
  <2> HIDE DEF v
  <2>2. /\ Good(o) /\ Len(o[t]) = Len(m[t]) - 1
        /\ \A r \in Names \ {t} : o[r] = m[r]
        /\ Elems(o[t]) = Elems(m[t]) \ {v}
        /\ Cached(o) = Cached(m) \ {v}
    <3>1. Good(o) /\ Len(o[t]) = Len(m[t]) - 1
      BY <2>1, <2>3, OutFacts
    <3>2. \A r \in Names \ {t} : o[r] = m[r]
      BY <2>1, <2>3, OutFacts
    <3>3. Elems(o[t]) = Elems(m[t]) \ {v}
      BY SMTT(30), <2>1, <2>3, OutFacts
    <3>4. Cached(o) = Cached(m) \ {v}
      BY SMTT(30), <2>1, <2>3, OutFacts
    <3> QED BY Zenon, <3>1, <3>2, <3>3, <3>4
  <2> QED BY Zenon, <2>1, <2>2, <1>3
<1> HIDE DEF o
<1>5. /\ Good(k) /\ Len(k[b]) = Len(m[b]) + 1
      /\ \A r \in Names \ {b} : k[r] = o[r]
      /\ Cached(k) = Cached(o) \cup {v}
  <2>1. v \notin Cached(o)
    BY Zenon, <1>4
  <2>2. o[b] = m[b]
    BY Zenon, <1>0, <1>4
  <2> QED BY SMTT(30), <2>1, <2>2, <1>0, <1>1, <1>4, PutFacts
<1>6. k = arc_evict_to_ghost(l, t, cd, e)
  BY Zenon DEF arc_evict_to_ghost, i, b, m, o
<1> HIDE DEF k, v
<1>7. v \in Elems(l[t]) /\ v \in Live(l) /\ v \in Cached(l)
  <2>1. v \in Elems(l[t])
    BY Zenon, <1>1 DEF Elems, v
  <2> QED BY Zenon, <2>1, <1>0, CachedIs DEF Live
<1>8. \A r \in Names : Len(l[r]) \in Nat /\ Len(m[r]) \in Nat /\ Len(k[r]) \in Nat
  BY SMTT(30), <1>2, <1>5 DEF Good
<1>11. /\ Len(l["t1"]) \in Nat /\ Len(l["t2"]) \in Nat /\ Len(l["b1"]) \in Nat /\ Len(l["b2"]) \in Nat
      /\ Len(k["t1"]) \in Nat /\ Len(k["t2"]) \in Nat /\ Len(k["b1"]) \in Nat /\ Len(k["b2"]) \in Nat
  BY Zenon, <1>8 DEF Names
<1>9. CASE t = "t1"
  <2>1. b = "b1"
    BY Zenon, <1>9 DEF b, Ghost
  <2>2. Len(k["t1"]) = Len(l["t1"]) - 1 /\ k["t2"] = l["t2"] /\ k["b2"] = l["b2"]
    BY Zenon, <1>9, <2>1, <1>2, <1>4, <1>5 DEF Names
  <2>3. Len(k["b1"]) <= Len(l["b1"]) + 1
    BY <2>1, <1>2, <1>5, <1>8 DEF Names
  <2>4. LiveSize(k) = LiveSize(l) - 1 /\ L1(k) <= L1(l) /\ L2(k) <= L2(l)
    <3>1. LiveSize(k) = LiveSize(l) - 1
      BY <2>2, <1>11 DEF LiveSize, Size
    <3>0. \A x, y, z, w \in Nat : x = y - 1 /\ z <= w + 1 => x + z <= y + w
      OBVIOUS
    <3>2. L1(k) <= L1(l)
      BY Zenon, <3>0, <2>2, <2>3, <1>11 DEF L1, Size
    <3>3. L2(k) <= L2(l)
      BY <3>0, <2>2, <2>3, <1>11 DEF L2, Size
    <3> QED BY Zenon, <3>1, <3>2, <3>3
  <2>5. Elems(k["t1"]) = Elems(l["t1"]) \ {v}
    BY Zenon, <1>9, <2>1, <1>4, <1>5 DEF Names
  <2>6. Live(k) \subseteq Live(l) /\ (cd \in Live(l) => cd \in Live(k))
    BY Zenon, <2>2, <2>5, <1>1 DEF Live
  <2> QED BY Zenon, <2>4, <2>6, <1>2, <1>4, <1>5, <1>6, <1>7
<1>10. CASE t = "t2"
  <2>1. b = "b2"
    BY Zenon, <1>10 DEF b, Ghost
  <2>2. Len(k["t2"]) = Len(l["t2"]) - 1 /\ k["t1"] = l["t1"] /\ k["b1"] = l["b1"]
    BY Zenon, <1>10, <2>1, <1>2, <1>4, <1>5 DEF Names
  <2>3. Len(k["b2"]) <= Len(l["b2"]) + 1
    BY SMTT(30), <2>1, <1>2, <1>5, <1>8 DEF Names
  <2>4. LiveSize(k) = LiveSize(l) - 1 /\ L1(k) <= L1(l) /\ L2(k) <= L2(l)
    <3>1. LiveSize(k) = LiveSize(l) - 1
      BY <2>2, <1>11 DEF LiveSize, Size
    <3>0. \A x, y, z, w \in Nat : x = y - 1 /\ z <= w + 1 => x + z <= y + w
      OBVIOUS
    <3>2. L1(k) <= L1(l)
      BY <3>0, <2>2, <2>3, <1>11 DEF L1, Size
    <3>3. L2(k) <= L2(l)
      BY Zenon, <3>0, <2>2, <2>3, <1>11 DEF L2, Size
    <3> QED BY <3>1, <3>2, <3>3
  <2>5. Elems(k["t2"]) = Elems(l["t2"]) \ {v}
    BY Zenon, <1>10, <2>1, <1>4, <1>5 DEF Names
  <2>6. Live(k) \subseteq Live(l) /\ (cd \in Live(l) => cd \in Live(k))
    BY Zenon, <2>2, <2>5, <1>1 DEF Live
  <2> QED BY SMTT(30), <2>4, <2>6, <1>2, <1>4, <1>5, <1>6, <1>7
<1> QED BY Zenon, <1>9, <1>10

\* The sizes are natural numbers, and count every list once.
LEMMA SizeType ==
  ASSUME NEW l, Good(l)
  PROVE  /\ L1(l) \in Nat /\ L2(l) \in Nat /\ LiveSize(l) \in Nat
         /\ \A q \in Names : Size(l, q) \in Nat
<1>1. l["t1"] \in Seq(Entries) /\ l["t2"] \in Seq(Entries)
      /\ l["b1"] \in Seq(Entries) /\ l["b2"] \in Seq(Entries)
  BY Zenon DEF Good, Names
<1>2. /\ Len(l["t1"]) \in Nat /\ Len(l["t2"]) \in Nat
      /\ Len(l["b1"]) \in Nat /\ Len(l["b2"]) \in Nat
  BY <1>1
<1>3. L1(l) \in Nat /\ L2(l) \in Nat /\ LiveSize(l) \in Nat
  <2>1. \A x, y \in Nat : x + y \in Nat
    OBVIOUS
  <2> QED BY Zenon, <1>2, <2>1 DEF L1, L2, LiveSize, Size
<1>4. \A q \in Names : Size(l, q) \in Nat
  BY Zenon, <1>2 DEF Size, Names
<1> QED BY Zenon, <1>3, <1>4

\* What REPLACE leaves: one live entry fewer, unless curdir was the only one.
Replaced(l, k, cd, e) ==
  /\ Good(k)
  /\ LiveSize(k) = LiveSize(l) - 1 \/ (LiveSize(l) <= 1 /\ LiveSize(k) = LiveSize(l))
  /\ L1(k) <= L1(l) /\ L2(k) <= L2(l)
  /\ Cached(k) \subseteq Cached(l)
  /\ e \in Cached(l) => e \in Cached(k)
  /\ cd \in Live(l) => cd \in Live(k)
  /\ Live(k) \subseteq Live(l)

\* REPLACE evicts one live entry, or curdir is the only one (arc_replace).
LEMMA ReplaceFacts ==
  ASSUME NEW l, Good(l), NEW target, NEW in_b2, NEW cd, NEW e, e \notin Live(l)
  PROVE  Replaced(l, arc_replace(l, target, in_b2, cd, e), cd, e)
<1> DEFINE first == IF TryT1First(l, target, in_b2) THEN "t1" ELSE "t2"
           other == IF first = "t1" THEN "t2" ELSE "t1"
           k == arc_replace(l, target, in_b2, cd, e)
<1>0. first \in {"t1", "t2"} /\ other \in {"t1", "t2"} /\ {first, other} = {"t1", "t2"}
  BY Zenon
<1>1. k = IF Oldest(l[first], cd) # 0 THEN arc_evict_to_ghost(l, first, cd, e)
          ELSE IF Oldest(l[other], cd) # 0 THEN arc_evict_to_ghost(l, other, cd, e)
          ELSE l
  BY Zenon DEF arc_replace
<1> SUFFICES Replaced(l, k, cd, e)
  BY Zenon
<1> HIDE DEF k, first, other
<1>2. ASSUME NEW t \in {"t1", "t2"}, Oldest(l[t], cd) # 0, k = arc_evict_to_ghost(l, t, cd, e)
      PROVE  Replaced(l, k, cd, e)
  BY <1>2, EvictFacts DEF Replaced
<1>3. CASE Oldest(l[first], cd) # 0
  <2>1. k = arc_evict_to_ghost(l, first, cd, e)
    BY Zenon, <1>1, <1>3
  <2> QED BY Zenon, <1>0, <1>2, <1>3, <2>1
<1>4. CASE Oldest(l[first], cd) = 0 /\ Oldest(l[other], cd) # 0
  <2>1. k = arc_evict_to_ghost(l, other, cd, e)
    BY Zenon, <1>1, <1>4
  <2> QED BY Zenon, <1>0, <1>2, <1>4, <2>1
<1>5. CASE Oldest(l[first], cd) = 0 /\ Oldest(l[other], cd) = 0
  <2>1. k = l
    BY Zenon, <1>1, <1>5
  <2>2. Oldest(l["t1"], cd) = 0 /\ Oldest(l["t2"], cd) = 0
    BY Zenon, <1>0, <1>5
  <2>3. Len(l["t1"]) = 0 \/ (Len(l["t1"]) = 1 /\ l["t1"][1] = cd)
    BY <2>2, OldestFacts DEF Names
  <2>4. Len(l["t2"]) = 0 \/ (Len(l["t2"]) = 1 /\ l["t2"][1] = cd)
    BY <2>2, OldestFacts DEF Names
  <2>5. ~(Len(l["t1"]) = 1 /\ Len(l["t2"]) = 1 /\ l["t1"][1] = l["t2"][1])
    <3> SUFFICES ASSUME Len(l["t1"]) = 1, Len(l["t2"]) = 1, l["t1"][1] = l["t2"][1]
                 PROVE  FALSE
      BY Zenon
    <3>1. l["t1"] \in Seq(Entries) /\ l["t2"] \in Seq(Entries) /\ Apart(l)
      BY Zenon DEF Good, Names
    <3>2. 1 \in DOMAIN l["t1"] /\ 1 \in DOMAIN l["t2"]
      BY <3>1
    <3>3. "t1" \in Names /\ "t2" \in Names /\ "t1" # "t2"
      BY Zenon DEF Names
    <3> QED BY Zenon, <3>1, <3>2, <3>3 DEF Apart
  <2>6. LiveSize(l) <= 1
    <3>1. Len(l["t1"]) = 0 \/ Len(l["t2"]) = 0
      BY Zenon, <2>3, <2>4, <2>5
    <3>2. Len(l["t1"]) \in {0, 1} /\ Len(l["t2"]) \in {0, 1}
      BY Zenon, <2>3, <2>4
    <3>3. \A x, y \in {0, 1} : x = 0 \/ y = 0 => x + y <= 1
      OBVIOUS
    <3> QED BY Zenon, <3>1, <3>2, <3>3 DEF LiveSize, Size
  <2>7. L1(l) \in Nat /\ L2(l) \in Nat
    BY Zenon, SizeType
  <2>8. L1(l) <= L1(l) /\ L2(l) <= L2(l)
    BY <2>7
  <2> QED BY Zenon, <2>1, <2>6, <2>8 DEF Replaced
<1> QED BY Zenon, <1>3, <1>4, <1>5

\* Moving an entry to the end of t2 keeps the number of entries, and the
\* recency half does not grow (queue_move_to_tail_of).
LEMMA MoveFacts ==
  ASSUME NEW l, Good(l), NEW e \in Entries, e \in Cached(l)
  PROVE  LET k == Move(l, e, "t2")
         IN /\ Good(k)
            /\ Cached(k) = Cached(l)
            /\ e \in Live(k)
            /\ \A x : x \in Live(l) => x \in Live(k)
            /\ \A x : x \in Live(k) => x = e \/ x \in Live(l)
            /\ L1(k) <= L1(l)
            /\ L1(k) + L2(k) = L1(l) + L2(l)
            /\ LiveSize(k) = LiveSize(l) + (IF e \in Live(l) THEN 0 ELSE 1)
<1> DEFINE d == Drop(l, e)
           k == Put(d, "t2", e)
           in(q) == IF e \in Elems(l[q]) THEN 1 ELSE 0
<1>0. "t1" \in Names /\ "t2" \in Names /\ "b1" \in Names /\ "b2" \in Names
  BY Zenon DEF Names
<1>1. /\ Good(d)
      /\ Cached(d) = Cached(l) \ {e}
      /\ \A r \in Names : Elems(d[r]) = Elems(l[r]) \ {e}
      /\ \A r \in Names : Len(d[r]) = Len(l[r]) - in(r)
  BY Zenon, DropFacts
<1> HIDE DEF d
<1>2. /\ Good(k)
      /\ Len(k["t2"]) = Len(d["t2"]) + 1
      /\ \A r \in Names \ {"t2"} : k[r] = d[r]
      /\ Elems(k["t2"]) = Elems(d["t2"]) \cup {e}
      /\ Cached(k) = Cached(d) \cup {e}
  <2>1. e \notin Cached(d)
    BY Zenon, <1>1
  <2>2. Good(d)
    BY Zenon, <1>1
  <2> QED BY SMTT(30), <2>1, <2>2, <1>0, PutFacts
<1>3. Move(l, e, "t2") = k
  BY Zenon DEF Move, d
<1> SUFFICES /\ Good(k)
             /\ Cached(k) = Cached(l)
             /\ e \in Live(k)
             /\ \A x : x \in Live(l) => x \in Live(k)
             /\ \A x : x \in Live(k) => x = e \/ x \in Live(l)
             /\ L1(k) <= L1(l)
             /\ L1(k) + L2(k) = L1(l) + L2(l)
             /\ LiveSize(k) = LiveSize(l) + (IF e \in Live(l) THEN 0 ELSE 1)
  BY Zenon, <1>3
<1> HIDE DEF k
<1>4. Cached(k) = Cached(l)
  BY Zenon, <1>1, <1>2
<1>5. k["t1"] = d["t1"] /\ k["b1"] = d["b1"] /\ k["b2"] = d["b2"]
  <2>1. "t1" # "t2" /\ "b1" # "t2" /\ "b2" # "t2"
    BY Zenon
  <2> QED BY Zenon, <1>0, <1>2, <2>1
<1>6. /\ Elems(k["t1"]) = Elems(l["t1"]) \ {e}
      /\ Elems(k["t2"]) = (Elems(l["t2"]) \ {e}) \cup {e}
  BY Zenon, <1>0, <1>1, <1>2, <1>5
<1>7. /\ e \in Live(k)
      /\ \A x : x \in Live(l) => x \in Live(k)
      /\ \A x : x \in Live(k) => x = e \/ x \in Live(l)
  BY Zenon, <1>6 DEF Live
<1>8. \A q, r \in Names : e \in Elems(l[q]) /\ e \in Elems(l[r]) => q = r
  <2> SUFFICES ASSUME NEW q \in Names, NEW r \in Names,
                      NEW i \in DOMAIN l[q], NEW j \in DOMAIN l[r], l[q][i] = l[r][j]
               PROVE  q = r
    BY Zenon DEF Elems
  <2> QED BY Zenon DEF Good, Apart
<1>9. \E q \in Names : e \in Elems(l[q])
  BY Zenon, CachedIs
<1> DEFINE x1 == Size(l, "t1")
           x2 == Size(l, "t2")
           y1 == Size(l, "b1")
           y2 == Size(l, "b2")
<1>10. x1 \in Nat /\ x2 \in Nat /\ y1 \in Nat /\ y2 \in Nat
  BY Zenon, <1>0, SizeType
<1>11. /\ Size(k, "t1") = x1 - in("t1") /\ Size(k, "b1") = y1 - in("b1")
       /\ Size(k, "t2") = x2 - in("t2") + 1 /\ Size(k, "b2") = y2 - in("b2")
  <2>1. Size(k, "t1") = x1 - in("t1") /\ Size(k, "b1") = y1 - in("b1")
    BY Zenon, <1>0, <1>1, <1>5 DEF Size
  <2>2. Size(k, "b2") = y2 - in("b2")
    BY Zenon, <1>0, <1>1, <1>5 DEF Size
  <2>3. Len(d["t2"]) = x2 - in("t2")
    BY Zenon, <1>0, <1>1 DEF Size
  <2>4. Size(k, "t2") = x2 - in("t2") + 1
    BY Zenon, <1>2, <2>3 DEF Size
  <2> QED BY Zenon, <2>1, <2>2, <2>4
<1>12. e \in Live(l) <=> in("t1") = 1 \/ in("t2") = 1
  BY DEF Live
<1>13. \/ in("t1") = 1 /\ in("t2") = 0 /\ in("b1") = 0 /\ in("b2") = 0
       \/ in("t1") = 0 /\ in("t2") = 1 /\ in("b1") = 0 /\ in("b2") = 0
       \/ in("t1") = 0 /\ in("t2") = 0 /\ in("b1") = 1 /\ in("b2") = 0
       \/ in("t1") = 0 /\ in("t2") = 0 /\ in("b1") = 0 /\ in("b2") = 1
  <2>1. PICK q \in Names : e \in Elems(l[q])
    BY Zenon, <1>9
  <2>2. \A r \in Names : in(r) = IF r = q THEN 1 ELSE 0
    BY Zenon, <1>8, <2>1
  <2> QED BY Zenon, <1>0, <2>1, <2>2 DEF Names
<1> HIDE DEF x1, x2, y1, y2, in
<1>14. /\ L1(k) = (x1 - in("t1")) + (y1 - in("b1")) /\ L1(l) = x1 + y1
       /\ L2(k) = (x2 - in("t2") + 1) + (y2 - in("b2")) /\ L2(l) = x2 + y2
       /\ LiveSize(k) = (x1 - in("t1")) + (x2 - in("t2") + 1) /\ LiveSize(l) = x1 + x2
  BY Zenon, <1>11 DEF L1, L2, LiveSize, x1, x2, y1, y2
<1>15. L1(k) <= L1(l) /\ L1(k) + L2(k) = L1(l) + L2(l)
  BY <1>10, <1>13, <1>14
<1>16. LiveSize(k) = LiveSize(l) + (IF e \in Live(l) THEN 0 ELSE 1)
  BY SMTT(30), <1>10, <1>12, <1>13, <1>14
<1> QED BY Zenon, <1>2, <1>4, <1>7, <1>15, <1>16

\* The bounds between operations.
Fits(l) == LiveSize(l) <= C /\ L1(l) <= C /\ L1(l) + L2(l) <= 2 * C

\* A lookup returns a live entry, keeps curdir live and the bounds in force
\* (cases I, II and III).
LEMMA HitFacts ==
  ASSUME NEW l, Good(l), Fits(l), NEW e \in Entries, e \in Cached(l), NEW target, NEW cd
  PROVE  LET k == Hit(l, target, e, cd)
         IN /\ Good(k) /\ Fits(k)
            /\ e \in Live(k)
            /\ cd \in Live(l) => cd \in Live(k)
            /\ Cached(k) \subseteq Cached(l)
<1> USE CAssumption
<1>1. CASE e \in Live(l)
  <2> DEFINE k == Move(l, e, "t2")
  <2>1. Hit(l, target, e, cd) = k
    BY Zenon, <1>1 DEF Hit
  <2>2. /\ Good(k) /\ Cached(k) = Cached(l) /\ e \in Live(k)
        /\ \A x : x \in Live(l) => x \in Live(k)
        /\ L1(k) <= L1(l)
        /\ L1(k) + L2(k) = L1(l) + L2(l)
        /\ LiveSize(k) = LiveSize(l) + 0
    BY Zenon, <1>1, MoveFacts
  <2> HIDE DEF k
  <2>3. /\ L1(l) \in Nat /\ L2(l) \in Nat /\ LiveSize(l) \in Nat
        /\ L1(k) \in Nat /\ L2(k) \in Nat /\ LiveSize(k) \in Nat
    BY Zenon, <2>2, SizeType
  <2>4. Fits(k)
    BY <2>2, <2>3 DEF Fits
  <2> QED BY Zenon, <2>1, <2>2, <2>4
<1>2. CASE e \notin Live(l)
  <2> DEFINE m == arc_replace(l, target, e \in Elems(l["b2"]), cd, e)
             k == Move(m, e, "t2")
  <2>1. Hit(l, target, e, cd) = k
    BY Zenon, <1>2 DEF Hit
  <2>2. Replaced(l, m, cd, e)
    BY Zenon, <1>2, ReplaceFacts
  <2> HIDE DEF m
  <2>3. Good(m) /\ e \in Cached(m) /\ e \notin Live(m) /\ Cached(m) \subseteq Cached(l)
        /\ (cd \in Live(l) => cd \in Live(m))
    BY Zenon, <1>2, <2>2 DEF Replaced
  <2>4. /\ Good(k) /\ Cached(k) = Cached(m) /\ e \in Live(k)
        /\ \A x : x \in Live(m) => x \in Live(k)
        /\ L1(k) <= L1(m)
        /\ L1(k) + L2(k) = L1(m) + L2(m)
        /\ LiveSize(k) = LiveSize(m) + 1
    BY Zenon, <2>3, MoveFacts
  <2> HIDE DEF k
  <2>5. /\ L1(l) \in Nat /\ L2(l) \in Nat /\ LiveSize(l) \in Nat
        /\ L1(k) \in Nat /\ L2(k) \in Nat /\ LiveSize(k) \in Nat
        /\ L1(m) \in Nat /\ L2(m) \in Nat /\ LiveSize(m) \in Nat
    BY Zenon, <2>3, <2>4, SizeType
  <2>6. LiveSize(m) + 1 <= C /\ L1(m) <= L1(l) /\ L2(m) <= L2(l)
    BY <2>2, <2>5 DEF Replaced, Fits
  <2>7. Fits(k)
    BY <2>4, <2>5, <2>6 DEF Fits
  <2> QED BY Zenon, <2>1, <2>3, <2>4, <2>7
<1> QED BY Zenon, <1>1, <1>2

\* What taking an entry out of a list does to the sizes.
LEMMA OutSizes ==
  ASSUME NEW l, Good(l), NEW q \in Names, NEW i \in DOMAIN l[q]
  PROVE  LET k == Out(l, q, i)
         IN /\ Good(k)
            /\ q \in {"t1", "b1"} => L1(k) = L1(l) - 1 /\ L2(k) = L2(l)
            /\ q \in {"t2", "b2"} => L2(k) = L2(l) - 1 /\ L1(k) = L1(l)
            /\ q \in {"t1", "t2"} => LiveSize(k) = LiveSize(l) - 1
            /\ q \in {"b1", "b2"} => LiveSize(k) = LiveSize(l) /\ Live(k) = Live(l)
            /\ Cached(k) \subseteq Cached(l)
            /\ \A x : x \in Live(l) /\ x # l[q][i] => x \in Live(k)
<1> DEFINE v == l[q][i]
           k == Out(l, q, i)
<1>0. "t1" \in Names /\ "t2" \in Names /\ "b1" \in Names /\ "b2" \in Names
  BY Zenon DEF Names
<1>1. v = l[q][i]
  BY Zenon
<1> SUFFICES /\ Good(k)
             /\ q \in {"t1", "b1"} => L1(k) = L1(l) - 1 /\ L2(k) = L2(l)
             /\ q \in {"t2", "b2"} => L2(k) = L2(l) - 1 /\ L1(k) = L1(l)
             /\ q \in {"t1", "t2"} => LiveSize(k) = LiveSize(l) - 1
             /\ q \in {"b1", "b2"} => LiveSize(k) = LiveSize(l) /\ Live(k) = Live(l)
             /\ Cached(k) \subseteq Cached(l)
             /\ \A x : x \in Live(l) /\ x # v => x \in Live(k)
  BY Zenon
<1> HIDE DEF v
<1>2. Good(k)
  BY Zenon, <1>1, OutFacts
<1>3. Len(k[q]) = Len(l[q]) - 1
  BY <1>1, OutFacts
<1>4. \A r \in Names \ {q} : k[r] = l[r]
  BY <1>1, OutFacts
<1>5. Elems(k[q]) = Elems(l[q]) \ {v}
  BY SMTT(30), <1>1, OutFacts
<1>6. Cached(k) = Cached(l) \ {v}
  BY <1>1, OutFacts
<1> HIDE DEF k
<1>7. /\ Size(l, "t1") \in Nat /\ Size(l, "t2") \in Nat /\ Size(l, "b1") \in Nat /\ Size(l, "b2") \in Nat
      /\ Size(k, q) = Size(l, q) - 1
      /\ \A r \in Names \ {q} : Size(k, r) = Size(l, r)
  BY Zenon, <1>0, <1>3, <1>4, SizeType DEF Size
<1>8. \A x : x \in Live(l) /\ x # v => x \in Live(k)
  <2>1. \A r \in Names : \A x : x \in Elems(l[r]) /\ x # v => x \in Elems(k[r])
    BY Zenon, <1>4, <1>5
  <2> QED BY Zenon, <2>1, <1>0 DEF Live
<1>9. q \in {"t1", "b1"} => L1(k) = L1(l) - 1 /\ L2(k) = L2(l)
  BY <1>0, <1>7 DEF L1, L2
<1>10. q \in {"t2", "b2"} => L2(k) = L2(l) - 1 /\ L1(k) = L1(l)
  BY <1>0, <1>7 DEF L1, L2
<1>11. q \in {"t1", "t2"} => LiveSize(k) = LiveSize(l) - 1
  BY SMTT(30), <1>0, <1>7 DEF LiveSize
<1>12. q \in {"b1", "b2"} => LiveSize(k) = LiveSize(l) /\ Live(k) = Live(l)
  BY SMTT(30), <1>0, <1>4, <1>7 DEF LiveSize, Live
<1> QED BY Zenon, <1>2, <1>6, <1>8, <1>9, <1>10, <1>11, <1>12

\* There is room for one more entry, and curdir is still live
\* (arc_case_iv_make_room).
LEMMA RoomFacts ==
  ASSUME NEW l, Good(l), Fits(l), NEW cd
  PROVE  LET k == arc_case_iv_make_room(l, cd)
         IN /\ Good(k)
            /\ LiveSize(k) + 1 <= C /\ L1(k) + 1 <= C /\ L1(k) + L2(k) + 1 <= 2 * C
            /\ Cached(k) \subseteq Cached(l)
            /\ cd \in Live(l) => cd \in Live(k)
<1> USE CAssumption
<1> DEFINE k == arc_case_iv_make_room(l, cd)
           Goal(n) == /\ Good(n)
                      /\ LiveSize(n) + 1 <= C /\ L1(n) + 1 <= C /\ L1(n) + L2(n) + 1 <= 2 * C
                      /\ Cached(n) \subseteq Cached(l)
                      /\ cd \in Live(l) => cd \in Live(n)
<1> SUFFICES Goal(k)
  BY Zenon
<1>0. /\ "t1" \in Names /\ "t2" \in Names /\ "b1" \in Names /\ "b2" \in Names
      /\ L1(l) \in Nat /\ L2(l) \in Nat /\ LiveSize(l) \in Nat
      /\ Size(l, "t1") \in Nat /\ Size(l, "t2") \in Nat
      /\ Size(l, "b1") \in Nat /\ Size(l, "b2") \in Nat
      /\ L1(l) = Size(l, "t1") + Size(l, "b1") /\ L2(l) = Size(l, "t2") + Size(l, "b2")
      /\ LiveSize(l) = Size(l, "t1") + Size(l, "t2")
  <2>1. "t1" \in Names /\ "t2" \in Names /\ "b1" \in Names /\ "b2" \in Names
    BY Zenon DEF Names
  <2> QED BY Zenon, <2>1, SizeType DEF L1, L2, LiveSize
<1>1. ASSUME NEW m, Good(m), LiveSize(m) <= C, L1(m) + 1 <= C, L1(m) + L2(m) + 1 <= 2 * C,
             Cached(m) \subseteq Cached(l), Live(m) = Live(l)
      PROVE  Goal(arc_replace(m, p, FALSE, cd, None))
  <2> DEFINE n == arc_replace(m, p, FALSE, cd, None)
  <2>1. None \notin Live(m)
    <3>1. m["t1"] \in Seq(Entries) /\ m["t2"] \in Seq(Entries)
      BY Zenon, <1>1, <1>0 DEF Good
    <3>2. Elems(m["t1"]) \subseteq Entries /\ Elems(m["t2"]) \subseteq Entries
      BY <3>1 DEF Elems
    <3> QED BY Zenon, <3>2, NameAssumption DEF Live
  <2>2. Replaced(m, n, cd, None)
    BY Zenon, <1>1, <2>1, ReplaceFacts
  <2> HIDE DEF n
  <2>3. Good(n)
    BY Zenon, <2>2 DEF Replaced
  <2>4. /\ L1(m) \in Nat /\ L2(m) \in Nat /\ LiveSize(m) \in Nat
        /\ L1(n) \in Nat /\ L2(n) \in Nat /\ LiveSize(n) \in Nat
    BY Zenon, <1>1, <2>3, SizeType
  <2>5. LiveSize(n) + 1 <= C
    BY SMTT(30), <1>1, <2>2, <2>4 DEF Replaced
  <2>6. L1(n) + 1 <= C /\ L1(n) + L2(n) + 1 <= 2 * C
    BY <1>1, <2>2, <2>4 DEF Replaced
  <2>7. Cached(n) \subseteq Cached(l) /\ (cd \in Live(l) => cd \in Live(n))
    BY Zenon, <1>1, <2>2 DEF Replaced
  <2> QED BY Zenon, <2>3, <2>5, <2>6, <2>7 DEF n
<1>2. \A q \in Names : Size(l, q) >= 1 => 1 \in DOMAIN l[q]
  <2> SUFFICES ASSUME NEW q \in Names, Len(l[q]) >= 1 PROVE 1 \in DOMAIN l[q]
    BY Zenon DEF Size
  <2>1. l[q] \in Seq(Entries)
    BY Zenon DEF Good
  <2> QED BY <2>1
<1>3. CASE L1(l) = C /\ Size(l, "t1") < C
  <2> DEFINE m == Out(l, "b1", 1)
  <2>1. k = arc_replace(m, p, FALSE, cd, None)
    BY Zenon, <1>3 DEF arc_case_iv_make_room
  <2>2. 1 \in DOMAIN l["b1"]
    <3>1. Size(l, "b1") >= 1
      BY SMTT(30), <1>0, <1>3
    <3> QED BY Zenon, <3>1, <1>0, <1>2
  <2>3. /\ Good(m) /\ L1(m) = L1(l) - 1 /\ L2(m) = L2(l)
        /\ LiveSize(m) = LiveSize(l) /\ Live(m) = Live(l)
        /\ Cached(m) \subseteq Cached(l)
    BY Zenon, <1>0, <2>2, OutSizes
  <2> HIDE DEF m, k
  <2>4. LiveSize(m) <= C /\ L1(m) + 1 <= C /\ L1(m) + L2(m) + 1 <= 2 * C
    BY <1>0, <2>3 DEF Fits
  <2>5. Goal(arc_replace(m, p, FALSE, cd, None))
    BY Zenon, <1>1, <2>3, <2>4
  <2> QED BY Zenon, <2>1, <2>5
<1>4. CASE L1(l) = C /\ ~(Size(l, "t1") < C)
  <2> DEFINE i == Oldest(l["t1"], cd)
  <2>1. Size(l, "t1") >= 2
    BY SMTT(30), <1>0, <1>4
  <2>2. i # 0 /\ i \in DOMAIN l["t1"] /\ l["t1"][i] # cd
    <3>1. Len(l["t1"]) >= 2 /\ Len(l["t1"]) \in Nat
      BY Zenon, <2>1, <1>0 DEF Size
    <3>2. i = 0 => Len(l["t1"]) = 0 \/ Len(l["t1"]) = 1
      BY SMTT(30), <1>0, OldestFacts
    <3>4. \A n \in Nat : n >= 2 => n # 0 /\ n # 1
      OBVIOUS
    <3>3. i # 0
      BY Zenon, <3>1, <3>2, <3>4
    <3> QED BY SMTT(30), <3>3, <1>0, OldestFacts
  <2>3. k = Out(l, "t1", i)
    BY Zenon, <1>4, <2>2 DEF arc_case_iv_make_room
  <2> HIDE DEF k, i
  <2>4. /\ Good(k) /\ L1(k) = L1(l) - 1 /\ L2(k) = L2(l)
        /\ LiveSize(k) = LiveSize(l) - 1
        /\ Cached(k) \subseteq Cached(l)
        /\ (cd \in Live(l) => cd \in Live(k))
    BY Zenon, <1>0, <2>2, <2>3, OutSizes
  <2>5. LiveSize(k) + 1 <= C /\ L1(k) + 1 <= C /\ L1(k) + L2(k) + 1 <= 2 * C
    BY SMTT(30), <1>0, <2>4 DEF Fits
  <2> QED BY Zenon, <2>4, <2>5
<1>5. CASE L1(l) < C /\ L1(l) + L2(l) >= C
  <2> DEFINE m == IF L1(l) + L2(l) = 2 * C /\ l["b2"] # <<>> THEN Out(l, "b2", 1) ELSE l
  <2>0. L1(l) # C
    BY SMTT(30), <1>5, <1>0
  <2>1. k = arc_replace(m, p, FALSE, cd, None)
    BY Zenon, <1>5, <2>0 DEF arc_case_iv_make_room
  <2>2. CASE L1(l) + L2(l) = 2 * C
    <3>1. Size(l, "b2") >= 1
      BY SMTT(30), <1>0, <1>5, <2>2 DEF Fits
    <3>2. 1 \in DOMAIN l["b2"] /\ l["b2"] # <<>>
      BY SMTT(30), <3>1, <1>0, <1>2 DEF Size
    <3>3. m = Out(l, "b2", 1)
      BY Zenon, <2>2, <3>2
    <3> HIDE DEF m, k
    <3>4. /\ Good(m) /\ L2(m) = L2(l) - 1 /\ L1(m) = L1(l)
          /\ LiveSize(m) = LiveSize(l) /\ Live(m) = Live(l)
          /\ Cached(m) \subseteq Cached(l)
      BY Zenon, <1>0, <3>2, <3>3, OutSizes
    <3>5. LiveSize(m) <= C /\ L1(m) + 1 <= C /\ L1(m) + L2(m) + 1 <= 2 * C
      BY SMTT(30), <1>0, <1>5, <2>2, <3>4 DEF Fits
    <3>6. Goal(arc_replace(m, p, FALSE, cd, None))
      BY Zenon, <1>1, <3>4, <3>5
    <3> QED BY ZenonT(60), <2>1, <3>6
  <2>3. CASE L1(l) + L2(l) # 2 * C
    <3>1. m = l
      BY Zenon, <2>3
    <3> HIDE DEF m, k
    <3>4. LiveSize(l) <= C /\ L1(l) + 1 <= C /\ L1(l) + L2(l) + 1 <= 2 * C
      <4>1. \A x, y \in Nat : x <= y /\ x # y => x + 1 <= y
        OBVIOUS
      <4>2. L1(l) + L2(l) + 1 <= 2 * C
        <5>1. L1(l) + L2(l) \in Nat /\ 2 * C \in Nat /\ L1(l) + L2(l) <= 2 * C
          BY <1>0 DEF Fits
        <5> QED BY Zenon, <4>1, <5>1, <2>3
      <4>3. L1(l) + 1 <= C
        BY <1>0, <1>5
      <4> QED BY Zenon, <4>2, <4>3 DEF Fits
    <3>2. LiveSize(m) <= C /\ L1(m) + 1 <= C /\ L1(m) + L2(m) + 1 <= 2 * C
      BY Zenon, <3>1, <3>4
    <3>3. Goal(arc_replace(m, p, FALSE, cd, None))
      BY Zenon, <1>1, <3>1, <3>2
    <3> QED BY ZenonT(60), <2>1, <3>3
  <2> QED BY Zenon, <2>2, <2>3
<1>6. CASE L1(l) < C /\ L1(l) + L2(l) < C
  <2>0. L1(l) # C /\ ~(L1(l) + L2(l) >= C)
    BY SMTT(30), <1>6, <1>0
  <2>1. k = l
    BY Zenon, <2>0 DEF arc_case_iv_make_room
  <2> HIDE DEF k
  <2>2. LiveSize(l) + 1 <= C /\ L1(l) + 1 <= C /\ L1(l) + L2(l) + 1 <= 2 * C
    BY <1>0, <1>6
  <2> QED BY Zenon, <2>1, <2>2
<1> QED BY SMTT(30), <1>0, <1>3, <1>4, <1>5, <1>6 DEF Fits

\* An addition keeps the bounds and curdir (dircache_add after the duplicates
\* are gone).
LEMMA AddFacts ==
  ASSUME NEW l, Good(l), Fits(l), NEW cd, NEW e \in Entries, e \notin Cached(l)
  PROVE  LET k == Added(l, e, cd)
         IN /\ Good(k) /\ Fits(k)
            /\ e \in Live(k)
            /\ cd \in Live(l) => cd \in Live(k)
            /\ Cached(k) \subseteq Cached(l) \cup {e}
<1> DEFINE m == arc_case_iv_make_room(l, cd)
           k == Put(m, "t1", e)
<1>0. "t1" \in Names /\ "t2" \in Names /\ "b1" \in Names /\ "b2" \in Names
      /\ "t2" # "t1" /\ "b1" # "t1" /\ "b2" # "t1"
  BY Zenon DEF Names
<1>1. /\ Good(m)
      /\ LiveSize(m) + 1 <= C /\ L1(m) + 1 <= C /\ L1(m) + L2(m) + 1 <= 2 * C
      /\ Cached(m) \subseteq Cached(l)
      /\ cd \in Live(l) => cd \in Live(m)
  BY Zenon, RoomFacts
<1>2. Added(l, e, cd) = k
  BY Zenon DEF Added, arc_case_iv_insert
<1> HIDE DEF m
<1>3. Good(m) /\ e \notin Cached(m)
  BY Zenon, <1>1
<1>4. Good(k) /\ Len(k["t1"]) = Len(m["t1"]) + 1
  BY Zenon, <1>0, <1>3, PutFacts
<1>5. \A r \in Names \ {"t1"} : k[r] = m[r]
  BY <1>0, <1>3, PutFacts
<1>6. Elems(k["t1"]) = Elems(m["t1"]) \cup {e}
  BY SMTT(30), <1>0, <1>3, PutFacts
<1>7. Cached(k) = Cached(m) \cup {e}
  BY <1>0, <1>3, PutFacts
<1> HIDE DEF k
<1>8. /\ Size(k, "t1") = Size(m, "t1") + 1 /\ Size(k, "t2") = Size(m, "t2")
      /\ Size(k, "b1") = Size(m, "b1") /\ Size(k, "b2") = Size(m, "b2")
  BY Zenon, <1>0, <1>4, <1>5 DEF Size
<1>9. /\ Size(m, "t1") \in Nat /\ Size(m, "t2") \in Nat
      /\ Size(m, "b1") \in Nat /\ Size(m, "b2") \in Nat
  BY Zenon, <1>0, <1>3, SizeType
<1>10. Fits(k)
  BY <1>1, <1>8, <1>9, CAssumption DEF Fits, L1, L2, LiveSize
<1>11. e \in Live(k) /\ (cd \in Live(m) => cd \in Live(k))
  BY Zenon, <1>0, <1>5, <1>6 DEF Live
<1>12. Cached(k) \subseteq Cached(l) \cup {e}
  BY Zenon, <1>1, <1>7
<1> QED BY Zenon, <1>1, <1>2, <1>4, <1>10, <1>11, <1>12

\* A removal keeps the bounds and every other live entry.
LEMMA DropFits ==
  ASSUME NEW l, Good(l), Fits(l), NEW e
  PROVE  LET k == Drop(l, e)
         IN /\ Good(k) /\ Fits(k)
            /\ Cached(k) \subseteq Cached(l)
            /\ e \notin Cached(k)
            /\ \A x : x \in Live(l) /\ x # e => x \in Live(k)
<1> DEFINE k == Drop(l, e)
<1>0. "t1" \in Names /\ "t2" \in Names /\ "b1" \in Names /\ "b2" \in Names
  BY Zenon DEF Names
<1>1. Good(k)
  BY Zenon, DropFacts
<1>2. Cached(k) = Cached(l) \ {e}
  BY Zenon, DropFacts
<1>3. \A r \in Names : Elems(k[r]) = Elems(l[r]) \ {e}
  BY Zenon, DropFacts
<1>4. \A r \in Names : Len(k[r]) = Len(l[r]) - (IF e \in Elems(l[r]) THEN 1 ELSE 0)
  BY Zenon, DropFacts
<1> HIDE DEF k
<1>5. \A r \in Names : Size(k, r) \in Nat /\ Size(l, r) \in Nat
  BY Zenon, <1>1, SizeType
<1>6. \A r \in Names : Size(k, r) <= Size(l, r)
  <2> SUFFICES ASSUME NEW r \in Names PROVE Size(k, r) <= Size(l, r)
    BY Zenon
  <2>1. \A x, y \in Nat : x = y - 1 \/ x = y - 0 => x <= y
    OBVIOUS
  <2>2. Size(k, r) = Size(l, r) - 1 \/ Size(k, r) = Size(l, r) - 0
    BY Zenon, <1>4 DEF Size
  <2> QED BY Zenon, <2>1, <2>2, <1>5
<1>7. Fits(k)
  BY SMTT(30), <1>0, <1>5, <1>6, CAssumption DEF Fits, L1, L2, LiveSize
<1>8. \A x : x \in Live(l) /\ x # e => x \in Live(k)
  BY Zenon, <1>0, <1>3 DEF Live
<1> QED BY Zenon, <1>1, <1>2, <1>7, <1>8 DEF k

\* The target stays between 0 and C (cases II and III).
LEMMA AdaptFacts ==
  ASSUME NEW l, Good(l), NEW e, p \in 0 .. C
  PROVE  Adapted(l, e) \in 0 .. C
<1>1. \A a, b \in Nat : Ratio(a, b) \in Nat
  BY DEF Ratio, Larger
<1>2. Size(l, "b1") \in Nat /\ Size(l, "b2") \in Nat
  BY Zenon, SizeType DEF Names
<1> DEFINE x == Ratio(Size(l, "b2"), Size(l, "b1"))
           y == Ratio(Size(l, "b1"), Size(l, "b2"))
<1>3. x \in Nat /\ y \in Nat
  BY Zenon, <1>1, <1>2
<1>4. Adapted(l, e) = IF e \in Elems(l["b1"]) THEN IF p + x > C THEN C ELSE p + x
                      ELSE IF e \in Elems(l["b2"]) THEN Larger(0, p - y) ELSE p
  BY Zenon DEF Adapted
<1> HIDE DEF x, y
<1>5. (IF p + x > C THEN C ELSE p + x) \in 0 .. C /\ Larger(0, p - y) \in 0 .. C
  BY <1>3, CAssumption DEF Larger
<1> QED BY Zenon, <1>4, <1>5

(***************************************************************************)
(* The inductive invariant.  TypeOK and the bounds depend on each other:    *)
(* REPLACE keeps the live size because an entry other than curdir exists,   *)
(* which the size of the lists and the place of curdir in them give.        *)
(***************************************************************************)

Core == Good(lists) /\ Fits(lists) /\ p \in 0 .. C
Others ==
  /\ curdir \in Live(lists) \cup {Root, None}
  /\ held \subseteq Entries /\ invalid \subseteq Entries /\ doomed \subseteq Entries
  /\ held \subseteq Cached(lists) \cup invalid
IInv == Core /\ Others

\* Live entries are cached, and cached ones are struct dir objects.
LEMMA LiveCached ==
  ASSUME NEW l, Good(l)
  PROVE  Live(l) \subseteq Cached(l) /\ Cached(l) \subseteq Entries
<1>1. \A q \in Names : Elems(l[q]) \subseteq Entries
  BY DEF Good, Elems
<1>2. "t1" \in Names /\ "t2" \in Names
  BY Zenon DEF Names
<1> QED BY Zenon, <1>1, <1>2, CachedIs DEF Live

\* Both ways of looking curdir up again leave a live entry or the root.
LEMMA RecoveredFacts ==
  ASSUME NEW l, Good(l), Fits(l), p \in 0 .. C, Cached(l) \subseteq Cached(lists),
         NEW cd \in Entries \cup {Root}, recovered(l, cd)
  PROVE  /\ Good(lists') /\ Fits(lists') /\ p' \in 0 .. C
         /\ cd \in Live(lists') \cup {Root}
<1>1. CASE lists' = l /\ p' = p /\ cd = Root
  BY Zenon, <1>1
<1>2. CASE Fresh(cd) /\ lists' = Added(l, cd, None) /\ p' = p
  <2>1. cd \in Entries /\ cd \notin Cached(l)
    BY Zenon, <1>2 DEF Fresh
  <2> QED BY Zenon, <1>2, <2>1, AddFacts
<1>3. CASE cd \in Cached(l) /\ p' = Adapted(l, cd) /\ lists' = Hit(l, p', cd, None)
  <2>1. p' \in 0 .. C
    BY Zenon, <1>3, AdaptFacts
  <2>2. cd \in Entries /\ cd \in Cached(l)
    BY Zenon, <1>3, LiveCached
  <2>3. LET k == Hit(l, p', cd, None) IN Good(k) /\ Fits(k) /\ cd \in Live(k)
    BY Zenon, <2>2, HitFacts
  <2> QED BY Zenon, <1>3, <2>1, <2>3
<1> QED BY Zenon, <1>1, <1>2, <1>3 DEF recovered

\* The structure of Init.
LEMMA InitIInv == Init => IInv
<1> SUFFICES ASSUME Init PROVE IInv
  BY Zenon
<1>1. \A q \in Names : lists[q] = << >> /\ Size(lists, q) = 0
  BY Zenon DEF Init, Size
<1>2. Good(lists)
  BY <1>1 DEF Good, Apart, Init
<1>3. Fits(lists)
  BY <1>1, CAssumption DEF Fits, L1, L2, LiveSize, Names
<1> QED BY <1>2, <1>3, CAssumption DEF IInv, Core, Others, Init

\* Retired entries stay readable, whatever left the tables.
LEMMA RetireFacts ==
  ASSUME IInv, Retire, Good(lists'), NEW new \in SUBSET (Cached(lists) \cup Cached(lists')),
         held' = held \cup new
  PROVE  /\ held' \subseteq Entries /\ invalid' \subseteq Entries
         /\ held' \subseteq Cached(lists') \cup invalid'
<1>1. Cached(lists) \subseteq Entries /\ Cached(lists') \subseteq Entries
  BY Zenon, LiveCached DEF IInv, Core
<1>2. /\ held \subseteq Cached(lists) \cup invalid
      /\ held \subseteq Entries /\ invalid \subseteq Entries
  BY Zenon DEF IInv, Others
<1>3. invalid' = invalid \cup (Cached(lists) \ Cached(lists'))
  BY Zenon DEF Retire
<1> QED BY Zenon, <1>1, <1>2, <1>3

\* Every step keeps the invariant, and a step that hands out a new entry hands
\* out a live one.
LEMMA Step ==
  IInv /\ [Next]_vars => IInv' /\ \A e \in held' \ held : e \in Live(lists')
<1> SUFFICES ASSUME IInv, [Next]_vars
             PROVE  IInv' /\ \A e \in held' \ held : e \in Live(lists')
  BY Zenon
<1>a. Good(lists) /\ Fits(lists) /\ p \in 0 .. C
  BY Zenon DEF IInv, Core
<1>b. /\ curdir \in Live(lists) \cup {Root, None}
      /\ held \subseteq Entries /\ invalid \subseteq Entries /\ doomed \subseteq Entries
      /\ held \subseteq Cached(lists) \cup invalid
  BY Zenon DEF IInv, Others
<1>c. Live(lists) \subseteq Cached(lists) /\ Cached(lists) \subseteq Entries
  BY Zenon, <1>a, LiveCached
<1>1. ASSUME NEW e \in Entries, search(e)
      PROVE  IInv' /\ \A x \in held' \ held : x \in Live(lists')
  <2>1. p' \in 0 .. C
    BY Zenon, <1>1, <1>a, AdaptFacts DEF search
  <2>2. /\ Good(lists') /\ Fits(lists') /\ e \in Live(lists')
        /\ curdir \in Live(lists) => curdir \in Live(lists')
    BY Zenon, <1>1, <1>a, HitFacts DEF search
  <2>3. {e} \in SUBSET (Cached(lists) \cup Cached(lists')) /\ held' = held \cup {e} /\ Retire
        /\ curdir' = curdir /\ doomed' = doomed
    BY Zenon, <1>1 DEF search
  <2>4. /\ held' \subseteq Entries /\ invalid' \subseteq Entries
        /\ held' \subseteq Cached(lists') \cup invalid'
    BY Zenon, <2>2, <2>3, RetireFacts
  <2> QED BY Zenon, <1>b, <2>1, <2>2, <2>3, <2>4 DEF IInv, Core, Others
<1>2. ASSUME NEW e \in Entries, NEW dup1, NEW dup2, NEW file, dircache_add(e, dup1, dup2, file)
      PROVE  IInv' /\ \A x \in held' \ held : x \in Live(lists')
  <2> DEFINE one == Drop(lists, dup1)
             kept == Drop(one, dup2)
             took == curdir \in {dup1, dup2}
             cd == IF took THEN None ELSE curdir
  <2>1. Good(one) /\ Fits(one) /\ Cached(one) \subseteq Cached(lists)
        /\ \A x : x \in Live(lists) /\ x # dup1 => x \in Live(one)
    BY Zenon, <1>a, DropFits
  <2> HIDE DEF one
  <2>2. Good(kept) /\ Fits(kept) /\ Cached(kept) \subseteq Cached(one)
        /\ \A x : x \in Live(one) /\ x # dup2 => x \in Live(kept)
    BY Zenon, <2>1, DropFits
  <2>3. /\ lists' = Added(kept, e, cd) /\ e \notin Cached(lists)
        /\ curdir' = IF ~took THEN curdir ELSE IF file THEN Root ELSE e
        /\ held' = held \cup {e} /\ Retire /\ p' = p /\ doomed' = doomed
    BY Zenon, <1>2 DEF dircache_add, Fresh, one
  <2> HIDE DEF kept, cd
  <2>4. /\ Good(lists') /\ Fits(lists') /\ e \in Live(lists')
        /\ cd \in Live(kept) => cd \in Live(lists')
    BY Zenon, <2>1, <2>2, <2>3, AddFacts
  <2>5. curdir' \in Live(lists') \cup {Root, None}
    BY Zenon, <1>b, <2>1, <2>2, <2>3, <2>4 DEF cd
  <2>6. {e} \in SUBSET (Cached(lists) \cup Cached(lists'))
    BY Zenon, <2>4, LiveCached
  <2>7. /\ held' \subseteq Entries /\ invalid' \subseteq Entries
        /\ held' \subseteq Cached(lists') \cup invalid'
    BY Zenon, <2>3, <2>4, <2>6, RetireFacts
  <2> QED BY Zenon, <1>a, <1>b, <2>3, <2>4, <2>5, <2>7 DEF IInv, Core, Others
<1>3. ASSUME NEW e \in Entries, dir_remove(e)
      PROVE  IInv' /\ \A x \in held' \ held : x \in Live(lists')
  <2> DEFINE k == Drop(lists, e)
  <2>1. Good(k) /\ Fits(k) /\ Cached(k) \subseteq Cached(lists)
        /\ \A x : x \in Live(lists) /\ x # e => x \in Live(k)
    BY Zenon, <1>a, DropFits
  <2>2. /\ IF e = curdir
              THEN \E cd \in (Entries \ {e}) \cup {Root} : recovered(k, cd) /\ curdir' = cd
              ELSE lists' = k /\ p' = p /\ curdir' = curdir
        /\ Retire /\ held' = held /\ doomed' = doomed
    BY Zenon, <1>3 DEF dir_remove
  <2> HIDE DEF k
  <2>3. Good(lists') /\ Fits(lists') /\ p' \in 0 .. C /\ curdir' \in Live(lists') \cup {Root, None}
    <3>1. CASE e = curdir
      <4>1. PICK cd \in (Entries \ {e}) \cup {Root} : recovered(k, cd) /\ curdir' = cd
        BY Zenon, <3>1, <2>2
      <4> QED BY <4>1, <2>1, <1>a, RecoveredFacts
    <3>2. CASE e # curdir
      BY Zenon, <3>2, <1>a, <1>b, <2>1, <2>2
    <3> QED BY Zenon, <3>1, <3>2
  <2>4. /\ held' \subseteq Entries /\ invalid' \subseteq Entries
        /\ held' \subseteq Cached(lists') \cup invalid'
    <3>1. {} \in SUBSET (Cached(lists) \cup Cached(lists')) /\ held' = held \cup {}
      BY Zenon, <2>2
    <3> QED BY Zenon, <3>1, <2>2, <2>3, RetireFacts
  <2> QED BY Zenon, <1>b, <2>2, <2>3, <2>4 DEF IInv, Core, Others
<1>4. ASSUME NEW e, movecwd(e)
      PROVE  IInv' /\ \A x \in held' \ held : x \in Live(lists')
  BY Zenon, <1>4, <1>a, <1>b DEF movecwd, IInv, Core, Others
<1>5. ASSUME NEW found, scan_begins(found)
      PROVE  IInv' /\ \A x \in held' \ held : x \in Live(lists')
  BY Zenon, <1>5, <1>a, <1>b, <1>c DEF scan_begins, IInv, Core, Others
<1>6. ASSUME NEW e \in Entries, scan_removes(e)
      PROVE  IInv' /\ \A x \in held' \ held : x \in Live(lists')
  <2>1. Good(lists') /\ Fits(lists') /\ \A x : x \in Live(lists) /\ x # e => x \in Live(lists')
    BY Zenon, <1>6, <1>a, DropFits DEF scan_removes
  <2>2. /\ doomed' = doomed \ {e} /\ curdir' = (IF curdir = e THEN None ELSE curdir)
        /\ Retire /\ p' = p /\ held' = held
    BY Zenon, <1>6 DEF scan_removes
  <2>3. {} \in SUBSET (Cached(lists) \cup Cached(lists')) /\ held' = held \cup {}
    BY Zenon, <2>2
  <2>4. /\ held' \subseteq Entries /\ invalid' \subseteq Entries
        /\ held' \subseteq Cached(lists') \cup invalid'
    BY Zenon, <2>1, <2>2, <2>3, RetireFacts
  <2> QED BY Zenon, <1>a, <1>b, <2>1, <2>2, <2>4 DEF IInv, Core, Others
<1>7. ASSUME scan_recovers
      PROVE  IInv' /\ \A x \in held' \ held : x \in Live(lists')
  <2>1. PICK cd \in Entries \cup {Root} : recovered(lists, cd) /\ curdir' = cd
    BY Zenon, <1>7 DEF scan_recovers
  <2>2. Good(lists') /\ Fits(lists') /\ p' \in 0 .. C /\ curdir' \in Live(lists') \cup {Root}
    BY Zenon, <2>1, <1>a, RecoveredFacts
  <2>3. Retire /\ held' = held /\ doomed' = doomed
    BY Zenon, <1>7 DEF scan_recovers
  <2>4. {} \in SUBSET (Cached(lists) \cup Cached(lists')) /\ held' = held \cup {}
    BY Zenon, <2>3
  <2>5. /\ held' \subseteq Entries /\ invalid' \subseteq Entries
        /\ held' \subseteq Cached(lists') \cup invalid'
    BY Zenon, <2>2, <2>3, <2>4, RetireFacts
  <2> QED BY Zenon, <1>b, <2>2, <2>3, <2>5 DEF IInv, Core, Others
<1>8. ASSUME request_ends
      PROVE  IInv' /\ \A x \in held' \ held : x \in Live(lists')
  BY Zenon, <1>8, <1>a, <1>b DEF request_ends, IInv, Core, Others
<1>9. ASSUME NEW e \in Entries, dir_remove_and_free(e)
      PROVE  IInv' /\ \A x \in held' \ held : x \in Live(lists')
  <2>1. Good(lists') /\ Fits(lists') /\ \A x : x \in Live(lists) /\ x # e => x \in Live(lists')
    BY Zenon, <1>9, <1>a, DropFits DEF dir_remove_and_free
  <2>2. /\ held = {} /\ e # curdir
        /\ p' = p /\ curdir' = curdir /\ held' = held /\ invalid' = invalid /\ doomed' = doomed
    BY Zenon, <1>9 DEF dir_remove_and_free
  <2> QED BY Zenon, <1>a, <1>b, <2>1, <2>2 DEF IInv, Core, Others
<1>10. CASE UNCHANGED vars
  BY Zenon, <1>10, <1>a, <1>b DEF vars, IInv, Core, Others
<1> QED BY Zenon, <1>1, <1>2, <1>3, <1>4, <1>5, <1>6, <1>7, <1>8, <1>9, <1>10 DEF Next, Request

\* The invariant implies the checked properties.
LEMMA IInvStrong ==
  IInv => TypeOK /\ OnePlace /\ LiveBounded /\ HashBounded /\ RecencyBounded
          /\ CurdirLive /\ HeldReadable
<1> SUFFICES ASSUME IInv
             PROVE  TypeOK /\ OnePlace /\ LiveBounded /\ HashBounded /\ RecencyBounded
                    /\ CurdirLive /\ HeldReadable
  BY Zenon
<1>1. Good(lists) /\ Fits(lists) /\ p \in 0 .. C
  BY Zenon DEF IInv, Core
<1>2. Live(lists) \subseteq Entries
  BY Zenon, <1>1, LiveCached
<1>3. TypeOK
  BY Zenon, <1>1, <1>2 DEF IInv, Others, TypeOK, Good
<1>4. OnePlace
  BY Zenon, <1>1 DEF Good, Apart, OnePlace
<1>5. LiveBounded /\ HashBounded /\ RecencyBounded
  BY Zenon, <1>1 DEF Fits, LiveSize, LiveBounded, HashBounded, RecencyBounded
<1> QED BY Zenon, <1>3, <1>4, <1>5 DEF IInv, Others, CurdirLive, HeldReadable

\* The lists are well formed whatever the size of the cache: the target stays
\* in 0 .. C and no struct dir is linked twice.
THEOREM WellFormed == Spec => [](TypeOK /\ OnePlace)
<1> QED BY InitIInv, Step, IInvStrong, PTL DEF Spec

\* The live lists, the recency half and the whole directory never exceed C, C
\* and 2C, so hash_insert never meets a full table.
THEOREM Bounds == Spec => []WithinBounds
<1>1. IInv => WithinBounds BY Zenon, IInvStrong DEF WithinBounds
<1> QED BY <1>1, InitIInv, Step, PTL DEF Spec

\* curdir is live whenever a request runs, and what a request holds stays
\* readable until it ends.
THEOREM Pointers == Spec => []PointersGood
<1>1. IInv => PointersGood BY Zenon, IInvStrong DEF PointersGood
<1> QED BY <1>1, InitIInv, Step, PTL DEF Spec

\* Every entry a lookup or an addition hands out is live.
THEOREM Found == Spec => FoundIsLive
<1>1. IInv /\ [Next]_vars => [\A e \in held' \ held : e \in Live(lists')]_vars
  BY Zenon, Step
<1> QED BY <1>1, InitIInv, Step, PTL DEF Spec, FoundIsLive
=============================================================================
