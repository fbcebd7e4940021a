--------------------------- MODULE ShareModesProofs ---------------------------
(***************************************************************************)
(* ShareModes for every number of sessions and forks.  The properties rest *)
(* on what an open still has to do: the calls left of fork_setmode will    *)
(* take every slot not yet taken, and will meet the slot of every fork     *)
(* that was open before and conflicts.                                     *)
(***************************************************************************)
EXTENDS ShareModes, TLAPS

Bits == {"rd", "wr", "drd", "dwr", "none"}
Calls == [do : {"test", "check", "lock"}, bit : Bits]
ModeType == [eid : {"data", "rsrc", "none"}, access : SUBSET Bits]
OpType == [kind : {"none", "open", "delete", "unlink"}, fork : Forks \cup {0},
           eid : {"data", "rsrc", "none"}, access : SUBSET Bits, todo : Seq(Calls), seen : SUBSET Bits]

TypeOK ==
    /\ mode \in [Procs -> [Forks -> ModeType]]
    /\ held \in [Procs -> [Forks -> SUBSET (0..9)]]
    /\ op \in [Procs -> OpType]
    /\ before \in [Procs -> [Forks \cup {0} -> SUBSET (Procs \X Forks)]]

\* The slots an access word claims.
Claims(access) == IF access = {} THEN {"none"} ELSE access

\* A call is among those left.
Has(s, do, bit) == \E i \in 1..Len(s) : s[i].do = do /\ s[i].bit = bit

\* Every comparison for x comes after a test of bit.
Guarded(s, x, bit) ==
    \A i \in 1..Len(s) : s[i].do = "check" /\ s[i].bit = x =>
        \E j \in 1..(i - 1) : s[j].do = "test" /\ s[j].bit = bit

\* An access word has bit against x: it has an access the word denies, or the
\* other way round.
Against(access, x, bit) ==
    \/ x \in access /\ bit = DenyOf[x]
    \/ DenyOf[x] \in access /\ bit = x

\* A request under way: an open is of a closed fork, other requests of none.
OpOK ==
    \A p \in Procs :
        IF op[p].kind = "open"
        THEN op[p].fork \in Forks /\ mode[p][op[p].fork] = Closed /\ op[p].eid \in {"data", "rsrc"}
        ELSE op[p].fork = 0

\* Exactly the slots of an access word are recorded.
Claimed_by(eid, access, slots) == slots = {Offset(eid, b) : b \in Claims(access)}

\* An open fork has its slots recorded, a closed one has none.
Slots ==
    \A p \in Procs, f \in Forks :
        IF mode[p][f] # Closed THEN Claimed_by(mode[p][f].eid, mode[p][f].access, held[p][f])
        ELSE op[p].fork # f => held[p][f] = {}

\* The slots an open has taken, with those it will still take, are the ones
\* its access word claims.
OpeningOK(o, slots) ==
    /\ \A off \in slots : \E b \in Claims(o.access) : off = Offset(o.eid, b)
    /\ \A b \in Claims(o.access) : Offset(o.eid, b) \in slots \/ Has(o.todo, "lock", b)
    /\ \A b \in Bits : Has(o.todo, "lock", b) => b \in Claims(o.access)

Opening == \A p \in Procs : op[p].kind = "open" => OpeningOK(op[p], held[p][op[p].fork])

\* Forks open since before are still open, and an open knows all forks of its
\* own session.
BeforeOK ==
    /\ \A p \in Procs, f \in Forks \cup {0} : before[p][f] \subseteq Open
    /\ \A p \in Procs : op[p].kind = "open" =>
           \A g \in Forks : mode[p][g] # Closed => <<p, g>> \in before[p][op[p].fork]

\* An open o that conflicts with a fork of mode m will be refused.
RefusedOK(o, m) ==
    \A x \in {"rd", "wr"}, bit \in Bits :
        m.eid = o.eid /\ bit \in m.access /\ Against(o.access, x, bit) =>
            Has(o.todo, "check", x) /\ (bit \in o.seen \/ Guarded(o.todo, x, bit))

Refused ==
    \A p \in Procs : op[p].kind = "open" =>
        \A a \in before[p][op[p].fork] : RefusedOK(op[p], mode[a[1]][a[2]])

\* A delete has met no deny mode of its own session, nor, once it has probed,
\* of another one.
Deleting ==
    \A p \in Procs : op[p].kind \in {"delete", "unlink"} =>
        \A a \in before[p][0] : a[1] = p \/ op[p].kind = "unlink" =>
            mode[a[1]][a[2]].access \cap {"drd", "dwr"} = {}

IInv ==
    /\ TypeOK
    /\ OpOK
    /\ Slots
    /\ Opening
    /\ BeforeOK
    /\ Refused
    /\ LaterOpensHonour
    /\ Deleting

-----------------------------------------------------------------------------
(* The calls of fork_setmode. *)

\* A sequence of calls joined to another.
LEMMA Joined ==
    ASSUME NEW s \in Seq(Calls), NEW t \in Seq(Calls)
    PROVE  /\ s \o t \in Seq(Calls)
           /\ \A do, bit : Has(s \o t, do, bit) <=> Has(s, do, bit) \/ Has(t, do, bit)
           /\ \A x, bit : Guarded(s, x, bit) /\ (Guarded(t, x, bit) \/ Has(s, "test", bit))
                  => Guarded(s \o t, x, bit)
<1>0. /\ s \o t \in Seq(Calls) /\ Len(s) \in Nat /\ Len(t) \in Nat /\ Len(s \o t) = Len(s) + Len(t)
      /\ \A i \in 1..Len(s) : (s \o t)[i] = s[i]
      /\ \A i \in 1..Len(t) : (s \o t)[Len(s) + i] = t[i]
    OBVIOUS
<1>1. \A i \in 1..Len(s \o t) : i \in 1..Len(s) \/ \E k \in 1..Len(t) : i = Len(s) + k
  <2> SUFFICES ASSUME NEW i \in 1..Len(s \o t), i \notin 1..Len(s) PROVE \E k \in 1..Len(t) : i = Len(s) + k
    BY Zenon
  <2>1. i - Len(s) \in 1..Len(t) /\ i = Len(s) + (i - Len(s))
    BY <1>0
  <2> QED BY Zenon, <2>1
<1>2. ASSUME NEW do, NEW bit PROVE Has(s \o t, do, bit) <=> Has(s, do, bit) \/ Has(t, do, bit)
  <2>1. Has(s, do, bit) => Has(s \o t, do, bit)
    BY <1>0 DEF Has
  <2>2. Has(t, do, bit) => Has(s \o t, do, bit)
    <3> SUFFICES ASSUME NEW k \in 1..Len(t), t[k].do = do, t[k].bit = bit PROVE Has(s \o t, do, bit)
      BY Zenon DEF Has
    <3>1. Len(s) + k \in 1..Len(s \o t) /\ (s \o t)[Len(s) + k] = t[k]
      BY <1>0
    <3> QED BY Zenon, <3>1 DEF Has
  <2>3. Has(s \o t, do, bit) => Has(s, do, bit) \/ Has(t, do, bit)
    BY ZenonT(60), <1>0, <1>1 DEF Has
  <2> QED BY Zenon, <2>1, <2>2, <2>3
<1>3. ASSUME NEW x, NEW bit, Guarded(s, x, bit), Guarded(t, x, bit) \/ Has(s, "test", bit)
      PROVE  Guarded(s \o t, x, bit)
  <2> SUFFICES ASSUME NEW i \in 1..Len(s \o t), (s \o t)[i].do = "check", (s \o t)[i].bit = x
               PROVE  \E j \in 1..(i - 1) : (s \o t)[j].do = "test" /\ (s \o t)[j].bit = bit
    BY Zenon DEF Guarded
  <2>1. CASE i \in 1..Len(s)
    <3>1. PICK j \in 1..(i - 1) : s[j].do = "test" /\ s[j].bit = bit
      BY Zenon, <2>1, <1>0, <1>3 DEF Guarded
    <3>2. j \in 1..Len(s)
      BY <2>1, <1>0
    <3> QED BY Zenon, <3>1, <3>2, <1>0
  <2>2. CASE i \notin 1..Len(s)
    <3>1. PICK k \in 1..Len(t) : i = Len(s) + k
      BY Zenon, <2>2, <1>1
    <3>2. CASE Has(s, "test", bit)
      <4>1. PICK j \in 1..Len(s) : s[j].do = "test" /\ s[j].bit = bit
        BY Zenon, <3>2 DEF Has
      <4>2. j \in 1..(i - 1)
        BY <3>1, <1>0
      <4> QED BY Zenon, <4>1, <4>2, <1>0
    <3>3. CASE Guarded(t, x, bit)
      <4>1. PICK j \in 1..(k - 1) : t[j].do = "test" /\ t[j].bit = bit
        BY Zenon, <3>1, <3>3, <1>0 DEF Guarded
      <4>2. Len(s) + j \in 1..(i - 1) /\ j \in 1..Len(t)
        BY <3>1, <1>0
      <4> QED BY Zenon, <4>1, <4>2, <1>0
    <3> QED BY Zenon, <3>2, <3>3, <1>3
  <2> QED BY Zenon, <2>1, <2>2
<1> QED BY Zenon, <1>0, <1>2, <1>3

\* What is left after a call was made.
LEMMA Shorter ==
    ASSUME NEW s \in Seq(Calls), s # <<>>
    PROVE  /\ Tail(s) \in Seq(Calls) /\ Head(s) \in Calls
           /\ \A do, bit : Has(s, do, bit) <=> Has(Tail(s), do, bit) \/ (Head(s).do = do /\ Head(s).bit = bit)
           /\ \A x, bit : Guarded(s, x, bit) =>
                  /\ ~(Head(s).do = "check" /\ Head(s).bit = x)
                  /\ Guarded(Tail(s), x, bit) \/ (Head(s).do = "test" /\ Head(s).bit = bit)
<1>0. /\ Len(s) \in Nat /\ Len(s) >= 1 /\ Head(s) = s[1] /\ Tail(s) \in Seq(Calls) /\ Head(s) \in Calls
      /\ Len(Tail(s)) = Len(s) - 1 /\ \A i \in 1..Len(Tail(s)) : Tail(s)[i] = s[i + 1]
    OBVIOUS
<1>1. \A i \in 1..Len(s) : i = 1 \/ (i - 1 \in 1..Len(Tail(s)) /\ Tail(s)[i - 1] = s[i])
    BY <1>0
<1>2. \A i \in 1..Len(Tail(s)) : i + 1 \in 1..Len(s) /\ Tail(s)[i] = s[i + 1]
    BY <1>0
<1>3. ASSUME NEW do, NEW bit
      PROVE  Has(s, do, bit) <=> Has(Tail(s), do, bit) \/ (Head(s).do = do /\ Head(s).bit = bit)
    BY <1>0, <1>1, <1>2 DEF Has
<1>4. ASSUME NEW x, NEW bit, Guarded(s, x, bit)
      PROVE  ~(Head(s).do = "check" /\ Head(s).bit = x)
    BY <1>0, <1>4 DEF Guarded
<1>5. ASSUME NEW x, NEW bit, Guarded(s, x, bit), ~(Head(s).do = "test" /\ Head(s).bit = bit)
      PROVE  Guarded(Tail(s), x, bit)
  <2> SUFFICES ASSUME NEW i \in 1..Len(Tail(s)), Tail(s)[i].do = "check", Tail(s)[i].bit = x
               PROVE  \E j \in 1..(i - 1) : Tail(s)[j].do = "test" /\ Tail(s)[j].bit = bit
    BY Zenon DEF Guarded
  <2>1. PICK j \in 1..((i + 1) - 1) : s[j].do = "test" /\ s[j].bit = bit
    BY Zenon, <1>2, <1>5 DEF Guarded
  <2>2. j # 1
    BY Zenon, <2>1, <1>0, <1>5
  <2>3. j - 1 \in 1..(i - 1) /\ Tail(s)[j - 1] = s[j]
    BY <2>1, <2>2, <1>0
  <2> QED BY Zenon, <2>1, <2>3
<1> QED BY Zenon, <1>0, <1>3, <1>4, <1>5

\* One call, or none.
LEMMA OneCall ==
    ASSUME NEW what \in {"test", "check", "lock"}, NEW bits \in SUBSET Bits, NEW b \in Bits, bits \in {{}, {b}}
    PROVE  /\ Call(what, bits) \in Seq(Calls)
           /\ \A do, bit : Has(Call(what, bits), do, bit) <=> do = what /\ bit \in bits
           /\ what # "check" => \A x, bit : Guarded(Call(what, bits), x, bit)
<1>1. CASE bits = {}
  <2>1. Call(what, bits) = <<>>
    BY Zenon, <1>1 DEF Call
  <2> QED BY <2>1, <1>1 DEF Has, Guarded
<1>2. CASE bits = {b}
  <2>1. Call(what, bits) = << [do |-> what, bit |-> b] >>
    <3>1. bits # {} /\ (CHOOSE c \in bits : TRUE) = b
      BY Zenon, <1>2
    <3> QED BY Zenon, <3>1 DEF Call
  <2> DEFINE c == [do |-> what, bit |-> b]
  <2>2. c \in Calls /\ c.do = what /\ c.bit = b
    BY Zenon DEF Calls
  <2>3. Len(<<c>>) = 1 /\ <<c>>[1] = c /\ <<c>> \in Seq(Calls)
    BY <2>2
  <2>4. \A i \in 1..Len(<<c>>) : i = 1
    BY <2>3
  <2> HIDE DEF c
  <2>5. \A do, bit : Has(<<c>>, do, bit) <=> do = what /\ bit = b
    BY <2>2, <2>3, <2>4 DEF Has
  <2>6. what # "check" => \A x, bit : Guarded(<<c>>, x, bit)
    BY Zenon, <2>2, <2>3, <2>4 DEF Guarded
  <2> QED BY <2>1, <2>3, <2>5, <2>6, <1>2 DEF c
<1> QED BY Zenon, <1>1, <1>2

\* The calls for reading, or for writing: both slots are tested before the
\* comparison, and the slots of the access word are locked after it.
LegOK(s, access, open, deny) ==
    /\ s \in Seq(Calls)
    /\ \A b \in Bits : Has(s, "lock", b) <=> b \in access \cap {open, deny}
    /\ \A b \in Bits : Has(s, "check", b) <=> b = open /\ access \cap {open, deny} # {}
    /\ deny \in access => Guarded(s, open, open)
    /\ open \in access => Guarded(s, open, deny)
    /\ \A x, bit \in Bits : x # open => Guarded(s, x, bit)

\* Each leg of fork_setmode makes its calls in that order.
LEMMA LegCalls ==
    ASSUME NEW access \in SUBSET Bits, NEW open \in Bits, NEW deny \in Bits, open # deny
    PROVE  LegOK(Leg(access, open, deny), access, open, deny)
<1>1. CASE access \cap {open, deny} = {}
  <2>1. Leg(access, open, deny) = <<>>
    BY Zenon, <1>1 DEF Leg
  <2>2. <<>> \in Seq(Calls) /\ \A i \in 1..Len(<<>>) : FALSE
    OBVIOUS
  <2>3. \A do, b : ~Has(<<>>, do, b)
    BY Zenon, <2>2 DEF Has
  <2>4. \A x, b : Guarded(<<>>, x, b)
    BY Zenon, <2>2 DEF Guarded
  <2> QED BY Zenon, <1>1, <2>1, <2>2, <2>3, <2>4 DEF LegOK
<1>2. CASE access \cap {open, deny} # {}
  <2> DEFINE A == Call("test", IF deny \in access THEN {open} ELSE {})
             B == Call("test", {deny})
             C == Call("check", {open})
             D == Call("lock", access \cap {open})
             E == Call("lock", access \cap {deny})
  <2>0. Leg(access, open, deny) = A \o B \o C \o D \o E
    BY Zenon, <1>2 DEF Leg
  <2>1. /\ A \in Seq(Calls)
        /\ \A do, bit : Has(A, do, bit) <=> do = "test" /\ bit = open /\ deny \in access
        /\ \A x, bit : Guarded(A, x, bit)
    <3>1. (IF deny \in access THEN {open} ELSE {}) \in {{}, {open}}
      BY Zenon
    <3> QED BY <3>1, OneCall
  <2>2. /\ B \in Seq(Calls)
        /\ \A do, bit : Has(B, do, bit) <=> do = "test" /\ bit = deny
        /\ \A x, bit : Guarded(B, x, bit)
    BY OneCall
  <2>3. /\ C \in Seq(Calls)
        /\ \A do, bit : Has(C, do, bit) <=> do = "check" /\ bit = open
    BY OneCall
  <2>4. /\ D \in Seq(Calls)
        /\ \A do, bit : Has(D, do, bit) <=> do = "lock" /\ bit = open /\ open \in access
        /\ \A x, bit : Guarded(D, x, bit)
    <3>1. access \cap {open} \in {{}, {open}}
      BY Zenon
    <3> QED BY <3>1, OneCall
  <2>5. /\ E \in Seq(Calls)
        /\ \A do, bit : Has(E, do, bit) <=> do = "lock" /\ bit = deny /\ deny \in access
        /\ \A x, bit : Guarded(E, x, bit)
    <3>1. access \cap {deny} \in {{}, {deny}}
      BY Zenon
    <3> QED BY <3>1, OneCall
  <2> HIDE DEF A, B, C, D, E
  <2>6. /\ A \o B \in Seq(Calls)
        /\ \A do, bit : Has(A \o B, do, bit) <=> Has(A, do, bit) \/ Has(B, do, bit)
        /\ \A x, bit : Guarded(A \o B, x, bit)
    BY Zenon, <2>1, <2>2, Joined
  <2>7. /\ A \o B \o C \in Seq(Calls)
        /\ \A do, bit : Has(A \o B \o C, do, bit) <=> Has(A \o B, do, bit) \/ Has(C, do, bit)
        /\ \A x, bit : Has(A \o B, "test", bit) \/ x # open => Guarded(A \o B \o C, x, bit)
    <3>1. \A x, bit : x # open => Guarded(C, x, bit)
      BY Zenon, <2>3 DEF Guarded, Has
    <3> QED BY Zenon, <3>1, <2>3, <2>6, Joined
  <2>8. /\ A \o B \o C \o D \in Seq(Calls)
        /\ \A do, bit : Has(A \o B \o C \o D, do, bit) <=> Has(A \o B \o C, do, bit) \/ Has(D, do, bit)
        /\ \A x, bit : Guarded(A \o B \o C, x, bit) => Guarded(A \o B \o C \o D, x, bit)
    BY Zenon, <2>4, <2>7, Joined
  <2>9. /\ A \o B \o C \o D \o E \in Seq(Calls)
        /\ \A do, bit : Has(A \o B \o C \o D \o E, do, bit) <=> Has(A \o B \o C \o D, do, bit) \/ Has(E, do, bit)
        /\ \A x, bit : Guarded(A \o B \o C \o D, x, bit) => Guarded(A \o B \o C \o D \o E, x, bit)
    BY Zenon, <2>5, <2>8, Joined
  <2>10. \A b : Has(A \o B \o C \o D \o E, "lock", b) <=> b \in access \cap {open, deny}
    <3> TAKE b
    <3>1. ~Has(A, "lock", b) /\ ~Has(B, "lock", b) /\ ~Has(C, "lock", b)
      BY <2>1, <2>2, <2>3
    <3>2. Has(A \o B \o C \o D \o E, "lock", b) <=> Has(D, "lock", b) \/ Has(E, "lock", b)
      BY Zenon, <3>1, <2>6, <2>7, <2>8, <2>9
    <3> QED BY <3>2, <2>4, <2>5
  <2>11. \A b : Has(A \o B \o C \o D \o E, "check", b) <=> b = open
    BY ZenonT(60), <2>1, <2>2, <2>3, <2>4, <2>5, <2>6, <2>7, <2>8, <2>9
  <2>12. deny \in access => Guarded(A \o B \o C \o D \o E, open, open)
    BY Zenon, <2>1, <2>6, <2>7, <2>8, <2>9
  <2>13. Guarded(A \o B \o C \o D \o E, open, deny)
    BY Zenon, <2>2, <2>6, <2>7, <2>8, <2>9
  <2>14. \A x, bit : x # open => Guarded(A \o B \o C \o D \o E, x, bit)
    BY Zenon, <2>7, <2>8, <2>9
  <2> QED BY Zenon, <1>2, <2>0, <2>9, <2>10, <2>11, <2>12, <2>13, <2>14 DEF LegOK
<1> QED BY Zenon, <1>1, <1>2

\* The calls of an open take exactly the slots of its access word, and test
\* every slot that stands against it before they compare.
LEMMA SetmodeCalls ==
    ASSUME NEW access \in SUBSET {"rd", "wr", "drd", "dwr"}
    PROVE  LET s == fork_setmode(access)
           IN  /\ s \in Seq(Calls)
               /\ \A b \in Bits : Has(s, "lock", b) <=> b \in Claims(access)
               /\ \A x \in {"rd", "wr"}, bit \in Bits :
                      Against(access, x, bit) => Has(s, "check", x) /\ Guarded(s, x, bit)
<1>1. CASE access = {}
  <2>1. fork_setmode(access) = Call("lock", {"none"})
    BY Zenon, <1>1 DEF fork_setmode
  <2>2. /\ Call("lock", {"none"}) \in Seq(Calls)
        /\ \A do, bit : Has(Call("lock", {"none"}), do, bit) <=> do = "lock" /\ bit = "none"
    BY OneCall DEF Bits
  <2> QED BY Zenon, <1>1, <2>1, <2>2 DEF Claims, Against
<1>2. CASE access # {}
  <2> DEFINE R == Leg(access, "rd", "drd")
             W == Leg(access, "wr", "dwr")
  <2>0. fork_setmode(access) = R \o W
    BY Zenon, <1>2 DEF fork_setmode
  <2>1. LegOK(R, access, "rd", "drd")
    <3>1. access \in SUBSET Bits /\ "rd" \in Bits /\ "drd" \in Bits /\ "rd" # "drd"
      BY Zenon DEF Bits
    <3> QED BY Zenon, <3>1, LegCalls
  <2>2. LegOK(W, access, "wr", "dwr")
    <3>1. access \in SUBSET Bits /\ "wr" \in Bits /\ "dwr" \in Bits /\ "wr" # "dwr"
      BY Zenon DEF Bits
    <3> QED BY Zenon, <3>1, LegCalls
  <2> HIDE DEF R, W
  <2>3. /\ R \o W \in Seq(Calls)
        /\ \A do, bit : Has(R \o W, do, bit) <=> Has(R, do, bit) \/ Has(W, do, bit)
        /\ \A x, bit : Guarded(R, x, bit) /\ Guarded(W, x, bit) => Guarded(R \o W, x, bit)
    BY Zenon, <2>1, <2>2, Joined DEF LegOK
  <2>4. \A b \in Bits : Has(R \o W, "lock", b) <=> b \in Claims(access)
    BY Zenon, <2>1, <2>2, <2>3, <1>2 DEF Claims, LegOK
  <2>5. ASSUME NEW x \in {"rd", "wr"}, NEW bit \in Bits, Against(access, x, bit)
        PROVE  Has(R \o W, "check", x) /\ Guarded(R \o W, x, bit)
    <3>1. CASE x = "rd"
      <4>1. ("rd" \in access /\ bit = "drd") \/ ("drd" \in access /\ bit = "rd")
        BY Zenon, <2>5, <3>1 DEF Against, DenyOf
      <4> QED BY Zenon, <4>1, <3>1, <2>1, <2>2, <2>3 DEF LegOK, Bits
    <3>2. CASE x = "wr"
      <4>1. ("wr" \in access /\ bit = "dwr") \/ ("dwr" \in access /\ bit = "wr")
        BY Zenon, <2>5, <3>2 DEF Against, DenyOf
      <4> QED BY Zenon, <4>1, <3>2, <2>1, <2>2, <2>3 DEF LegOK, Bits
    <3> QED BY Zenon, <3>1, <3>2
  <2> QED BY Zenon, <2>0, <2>3, <2>4, <2>5
<1> QED BY Zenon, <1>1, <1>2

-----------------------------------------------------------------------------
(* The steps. *)

\* The offsets lie in the band.
LEMMA OffsetType == ASSUME NEW eid, NEW b \in Bits PROVE Offset(eid, b) \in 0..9
BY DEF Offset, Slot, rf2off, Bits

\* A deny mode claims a slot that blocks a delete.
LEMMA DenySlot ==
    ASSUME NEW eid, NEW access, NEW slots, Claimed_by(eid, access, slots), slots \cap DELETE_BLOCKING = {}
    PROVE  access \cap {"drd", "dwr"} = {}
<1>1. Offset(eid, "drd") \in DELETE_BLOCKING /\ Offset(eid, "dwr") \in DELETE_BLOCKING
    BY DEF Offset, Slot, rf2off, DELETE_BLOCKING
<1> QED BY Zenon, <1>1 DEF Claimed_by, Claims

\* A function updated at one point.
LEMMA Updated ==
    ASSUME NEW S, NEW T, NEW g \in [S -> T], NEW x \in S, NEW v \in T
    PROVE  [g EXCEPT ![x] = v] \in [S -> T]
BY Zenon

\* The first state: no fork is open.
LEMMA InitIInv == Init => IInv
<1> SUFFICES ASSUME Init PROVE IInv
    BY Zenon
<1> USE Shape DEF Init
<1>1. TypeOK
  <2>1. Closed \in ModeType /\ NoOp \in OpType
    BY DEF Closed, ModeType, NoOp, OpType
  <2> QED BY Zenon, <2>1 DEF TypeOK
<1>2. OpOK /\ Opening /\ Refused /\ Deleting
    BY Zenon DEF OpOK, Opening, Refused, Deleting, NoOp
<1>3. Slots
    BY Zenon DEF Slots
<1>4. Open = {}
    BY Zenon DEF Open
<1>5. BeforeOK /\ LaterOpensHonour
    BY Zenon, <1>4 DEF BeforeOK, LaterOpensHonour, NoOp
<1> QED BY Zenon, <1>1, <1>2, <1>3, <1>5 DEF IInv

\* A request of p ends and the forks in gone are closed: a refused open, a
\* close, a delete that ends, the end of the session.
LEMMA Ends ==
    ASSUME IInv, NEW p \in Procs, NEW gone \in SUBSET ({p} \X (Forks \cup {0})),
           op' = [op EXCEPT ![p] = NoOp], before' = Forget(gone),
           mode' \in [Procs -> [Forks -> ModeType]], held' \in [Procs -> [Forks -> SUBSET (0..9)]],
           \A q \in Procs : q # p => mode'[q] = mode[q] /\ held'[q] = held[q],
           \A f \in Forks : IF <<p, f>> \in gone
                            THEN mode'[p][f] = Closed /\ held'[p][f] = {}
                            ELSE op[p].fork # f /\ mode'[p][f] = mode[p][f] /\ held'[p][f] = held[p][f]
    PROVE  IInv'
<1> USE Shape
<1>1. TypeOK'
  <2>1. NoOp \in OpType
    BY DEF NoOp, OpType
  <2>2. op' \in [Procs -> OpType]
    BY Zenon, <2>1 DEF IInv, TypeOK
  <2>3. before' \in [Procs -> [Forks \cup {0} -> SUBSET (Procs \X Forks)]]
    BY DEF Forget, IInv, TypeOK
  <2> QED BY Zenon, <2>2, <2>3 DEF TypeOK
<1>2. \A q \in Procs : IF q = p THEN op'[q] = NoOp ELSE op'[q] = op[q]
    BY DEF IInv, TypeOK
<1>3. NoOp.kind = "none" /\ NoOp.fork = 0
    BY Zenon DEF NoOp
<1>4. \A q \in Procs, f \in Forks : IF <<q, f>> \in gone
                            THEN mode'[q][f] = Closed /\ held'[q][f] = {}
                            ELSE mode'[q][f] = mode[q][f] /\ held'[q][f] = held[q][f]
    OBVIOUS
<1>5. \A q \in Procs, f \in Forks \cup {0} :
          /\ <<q, f>> \in gone => before'[q][f] = {}
          /\ <<q, f>> \notin gone => before'[q][f] = before[q][f] \ gone
  <2> TAKE q \in Procs, f \in Forks \cup {0}
  <2>1. Forget(gone)[q][f] = IF <<q, f>> \in gone THEN {} ELSE before[q][f] \ gone
    BY Zenon DEF Forget
  <2>2. before'[q][f] = Forget(gone)[q][f]
    BY Zenon
  <2> QED BY Zenon, <2>1, <2>2
<1>6. OpOK'
    BY SMTT(30), <1>2, <1>3 DEF IInv, OpOK
<1>7. Slots'
  <2> SUFFICES ASSUME NEW q \in Procs, NEW f \in Forks
               PROVE  IF mode'[q][f] # Closed THEN Claimed_by(mode'[q][f].eid, mode'[q][f].access, held'[q][f])
                      ELSE op'[q].fork # f => held'[q][f] = {}
    BY Zenon DEF Slots, Claimed_by
  <2>1. CASE <<q, f>> \in gone
    BY Zenon, <2>1, <1>4
  <2>2. CASE <<q, f>> \notin gone
    <3>1. mode'[q][f] = mode[q][f] /\ held'[q][f] = held[q][f] /\ (op'[q].fork # f => op[q].fork # f)
      BY <2>2, <1>2, <1>4
    <3> QED BY <3>1 DEF IInv, Slots
  <2> QED BY Zenon, <2>1, <2>2
<1>8. \A q \in Procs : op'[q].kind # "none" => q # p /\ op'[q] = op[q] /\ mode'[q] = mode[q] /\ held'[q] = held[q]
    BY Zenon, <1>2, <1>3
<1>9. Opening'
  <2> SUFFICES ASSUME NEW q \in Procs, op'[q].kind = "open" PROVE OpeningOK(op'[q], held'[q][op'[q].fork])
    BY Zenon DEF Opening, OpeningOK, Has
  <2>1. op'[q] = op[q] /\ held'[q] = held[q]
    BY Zenon, <1>8
  <2> QED BY ZenonT(60), <2>1 DEF IInv, Opening
<1>10. \A a \in Open : a \notin gone => a \in Open'
    BY SMTT(30), <1>4 DEF Open
<1>11. \A a \in Open' : a \in Open /\ a \notin gone /\ a[1] \in Procs /\ a[2] \in Forks
                        /\ mode'[a[1]][a[2]] = mode[a[1]][a[2]]
    BY <1>4 DEF Open
<1>12. \A q \in Procs, f \in Forks \cup {0} : \A a \in before'[q][f] : a \in before[q][f] /\ a \in Open'
  <2> TAKE q \in Procs, f \in Forks \cup {0}
  <2> TAKE a \in before'[q][f]
  <2>1. a \in before[q][f] /\ a \notin gone
    <3>1. CASE <<q, f>> \in gone
      BY Zenon, <3>1, <1>5
    <3>2. CASE <<q, f>> \notin gone
      <4>1. before'[q][f] = before[q][f] \ gone
        BY Zenon, <3>2, <1>5
      <4> QED BY Zenon, <4>1
    <3> QED BY Zenon, <3>1, <3>2
  <2>2. before[q][f] \subseteq Open
    BY Zenon DEF IInv, BeforeOK
  <2> QED BY Zenon, <2>1, <2>2, <1>10
<1>13. BeforeOK'
  <2>1. ASSUME NEW q \in Procs, op'[q].kind = "open", NEW g \in Forks, mode'[q][g] # Closed
        PROVE  <<q, g>> \in before'[q][op'[q].fork]
    <3>1. q # p /\ op'[q] = op[q] /\ mode'[q] = mode[q]
      BY Zenon, <2>1, <1>8
    <3>2. <<q, g>> \in before[q][op[q].fork] /\ op[q].fork \in Forks
      BY <2>1, <3>1 DEF IInv, BeforeOK, OpOK
    <3>3. <<q, g>> \notin gone /\ <<q, op[q].fork>> \notin gone
      BY ZenonT(60), <3>1
    <3>4. before'[q][op[q].fork] = before[q][op[q].fork] \ gone
      BY Zenon, <3>2, <3>3, <1>5
    <3> QED BY ZenonT(60), <3>1, <3>2, <3>3, <3>4
  <2> QED BY Zenon, <2>1, <1>12 DEF BeforeOK
<1>14. Refused'
  <2> SUFFICES ASSUME NEW q \in Procs, op'[q].kind = "open", NEW a \in before'[q][op'[q].fork]
               PROVE  RefusedOK(op'[q], mode'[a[1]][a[2]])
    BY Zenon DEF Refused, RefusedOK, Has, Guarded, Against
  <2>1. op'[q] = op[q] /\ op[q].fork \in Forks
    BY SMTT(30), <1>8 DEF IInv, OpOK
  <2>2. a \in before[q][op[q].fork] /\ mode'[a[1]][a[2]] = mode[a[1]][a[2]]
    BY Zenon, <2>1, <1>11, <1>12
  <2> QED BY Zenon, <2>1, <2>2 DEF IInv, Refused
<1>15. LaterOpensHonour'
  <2> SUFFICES ASSUME NEW a \in Open', NEW b \in Open', a # b, Conflict(a, b)'
               PROVE  a[1] # b[1] /\ a \notin before'[b[1]][b[2]] /\ b \notin before'[a[1]][a[2]]
    BY Zenon DEF LaterOpensHonour
  <2>0. mode'[a[1]][a[2]] = mode[a[1]][a[2]] /\ mode'[b[1]][b[2]] = mode[b[1]][b[2]]
    BY Zenon, <1>11
  <2>1. Conflict(a, b)
    BY Zenon, <2>0 DEF Conflict
  <2> QED BY ZenonT(60), <2>1, <1>11, <1>12 DEF IInv, LaterOpensHonour
<1>16. Deleting'
  <2> SUFFICES ASSUME NEW q \in Procs, op'[q].kind \in {"delete", "unlink"}, NEW a \in before'[q][0],
                      a[1] = q \/ op'[q].kind = "unlink"
               PROVE  mode'[a[1]][a[2]].access \cap {"drd", "dwr"} = {}
    BY Zenon DEF Deleting
  <2>1. op'[q] = op[q]
    BY Zenon, <1>8
  <2>2. a \in before[q][0] /\ mode'[a[1]][a[2]] = mode[a[1]][a[2]]
    BY Zenon, <1>11, <1>12
  <2>3. mode[a[1]][a[2]].access \cap {"drd", "dwr"} = {}
    <3>1. op[q].kind \in {"delete", "unlink"} /\ (a[1] = q \/ op[q].kind = "unlink")
      BY Zenon, <2>1
    <3> QED BY Zenon, <3>1, <2>2 DEF IInv, Deleting
  <2> QED BY Zenon, <2>2, <2>3
<1> QED BY Zenon, <1>1, <1>6, <1>7, <1>9, <1>13, <1>14, <1>15, <1>16 DEF IInv

\* Each claimed bit has its slot among the recorded ones.
LEMMA ClaimedSlot ==
    ASSUME NEW eid, NEW access, NEW slots, NEW bit \in Claims(access), Claimed_by(eid, access, slots)
    PROVE  Offset(eid, bit) \in slots
BY DEF Claimed_by

\* What a step keeps that opens, closes and begins nothing.
LEMMA SameForks ==
    ASSUME LaterOpensHonour, mode' = mode, before' = before
    PROVE  LaterOpensHonour'
<1> SUFFICES ASSUME NEW a \in Open', NEW b \in Open', a # b, Conflict(a, b)'
             PROVE  a[1] # b[1] /\ a \notin before'[b[1]][b[2]] /\ b \notin before'[a[1]][a[2]]
    BY Zenon DEF LaterOpensHonour
<1>1. Conflict(a, b)
    BY Zenon DEF Conflict
<1>2. a \in Open /\ b \in Open
    BY Zenon DEF Open
<1> QED BY Zenon, <1>1, <1>2 DEF LaterOpensHonour

\* The recorded slots stay those of the open forks.
LEMMA SameSlots ==
    ASSUME Slots, mode' = mode, held' = held, \A q \in Procs : op'[q].fork = op[q].fork
    PROVE  Slots'
<1> SUFFICES ASSUME NEW q \in Procs, NEW f \in Forks
             PROVE  IF mode'[q][f] # Closed THEN Claimed_by(mode'[q][f].eid, mode'[q][f].access, held'[q][f])
                    ELSE op'[q].fork # f => held'[q][f] = {}
    BY Zenon DEF Slots, Claimed_by
<1>1. op'[q].fork = op[q].fork
    BY Zenon
<1> QED BY Zenon, <1>1 DEF Slots

\* A delete goes on as it was.
LEMMA SameDeletes ==
    ASSUME Deleting, mode' = mode, before' = before, \A q \in Procs : op'[q].kind = op[q].kind
    PROVE  Deleting'
BY Zenon DEF Deleting

\* A call of an open that changes no slot: it tests a slot, or compares and
\* is not refused.
LEMMA CallMade ==
    ASSUME IInv, NEW p \in Procs, op[p].kind = "open", op[p].todo # <<>>,
           NEW seen \in SUBSET Bits, op[p].seen \subseteq seen,
           op' = [op EXCEPT ![p] = [@ EXCEPT !.todo = Tail(op[p].todo), !.seen = seen]],
           Head(op[p].todo).do # "lock",
           Head(op[p].todo).do = "test" =>
               (ad_testlock(Offset(op[p].eid, Head(op[p].todo).bit)) => Head(op[p].todo).bit \in seen),
           Head(op[p].todo).do = "check" => ~Refuses(op[p].access, op[p].seen, Head(op[p].todo).bit),
           UNCHANGED <<mode, held, before>>
    PROVE  IInv'
<1> USE Shape
<1> DEFINE o == op[p]
           n == op'[p]
<1>1. /\ o \in OpType /\ n \in OpType /\ \A q \in Procs : q # p => op'[q] = op[q]
      /\ n.kind = o.kind /\ n.fork = o.fork /\ n.eid = o.eid /\ n.access = o.access
      /\ n.todo = Tail(o.todo) /\ n.seen = seen
  <2>1. o \in OpType /\ o.todo \in Seq(Calls)
    BY Zenon DEF IInv, TypeOK, OpType
  <2>2. Tail(o.todo) \in Seq(Calls)
    BY Zenon, <2>1, Shorter
  <2>3. n = [o EXCEPT !.todo = Tail(o.todo), !.seen = seen]
    BY ZenonT(60) DEF IInv, TypeOK
  <2>4. \A q \in Procs : q # p => op'[q] = op[q]
    BY ZenonT(60) DEF IInv, TypeOK
  <2> HIDE DEF o, n
  <2> QED BY Zenon, <2>1, <2>2, <2>3, <2>4 DEF OpType
<1>2. /\ o.todo \in Seq(Calls)
      /\ \A do, bit : Has(o.todo, do, bit) <=> Has(n.todo, do, bit) \/ (Head(o.todo).do = do /\ Head(o.todo).bit = bit)
      /\ \A x, bit : Guarded(o.todo, x, bit) =>
             /\ ~(Head(o.todo).do = "check" /\ Head(o.todo).bit = x)
             /\ Guarded(n.todo, x, bit) \/ (Head(o.todo).do = "test" /\ Head(o.todo).bit = bit)
    BY SMTT(30), <1>1, Shorter DEF OpType
<1>3. TypeOK'
    BY Zenon, <1>1 DEF IInv, TypeOK
<1>4. \A q \in Procs : op'[q].kind = op[q].kind /\ op'[q].fork = op[q].fork /\ op'[q].eid = op[q].eid
    BY ZenonT(60), <1>1
<1>5. OpOK' /\ BeforeOK' /\ LaterOpensHonour' /\ Deleting'
  <2>1. OpOK'
    BY <1>4 DEF IInv, OpOK
  <2>2. Open' = Open
    BY Zenon DEF Open
  <2>3. BeforeOK'
    BY ZenonT(60), <1>4, <2>2 DEF IInv, BeforeOK
  <2>4. LaterOpensHonour'
    BY Zenon, SameForks DEF IInv
  <2>5. Deleting'
    BY Zenon, <1>4, SameDeletes DEF IInv
  <2> QED BY Zenon, <2>1, <2>3, <2>4, <2>5
<1>6. Slots'
    BY Zenon, <1>4, SameSlots DEF IInv
<1>7. Opening'
  <2> SUFFICES ASSUME NEW q \in Procs, op'[q].kind = "open" PROVE OpeningOK(op'[q], held'[q][op'[q].fork])
    BY Zenon DEF Opening, OpeningOK, Has
  <2>1. OpeningOK(op[q], held[q][op[q].fork])
    BY Zenon, <1>4 DEF IInv, Opening
  <2>2. CASE q # p
    BY Zenon, <2>1, <2>2, <1>1
  <2>3. CASE q = p
    <3> HIDE DEF o, n
    <3>1. OpeningOK(o, held[p][o.fork])
      BY ZenonT(60), <2>1, <2>3 DEF o
    <3>2. OpeningOK(n, held[p][n.fork])
      BY <3>1, <1>1, <1>2 DEF OpeningOK, o
    <3> QED BY Zenon, <3>2, <2>3 DEF n
  <2> QED BY Zenon, <2>2, <2>3
<1>8. Refused'
  <2> SUFFICES ASSUME NEW q \in Procs, op'[q].kind = "open", NEW a \in before'[q][op'[q].fork]
               PROVE  RefusedOK(op'[q], mode'[a[1]][a[2]])
    BY Zenon DEF Refused, RefusedOK, Has, Guarded, Against
  <2>1. a \in before[q][op[q].fork] /\ RefusedOK(op[q], mode[a[1]][a[2]])
    BY Zenon, <1>4 DEF IInv, Refused
  <2>2. CASE q # p
    BY Zenon, <2>1, <2>2, <1>1
  <2>3. CASE q = p
    <3> DEFINE m == mode[a[1]][a[2]]
    <3>0. a \in Open /\ a[1] \in Procs /\ a[2] \in Forks
      BY SMTT(30), <2>1, <1>4 DEF IInv, BeforeOK, OpOK, Open
    <3>1. Claimed_by(m.eid, m.access, held[a[1]][a[2]])
      BY SMTT(30), <3>0 DEF IInv, Slots, Open
    <3> SUFFICES RefusedOK(n, m)
      BY Zenon, <2>3
    <3> SUFFICES ASSUME NEW x \in {"rd", "wr"}, NEW bit \in Bits,
                        m.eid = n.eid, bit \in m.access, Against(n.access, x, bit)
                 PROVE  Has(n.todo, "check", x) /\ (bit \in n.seen \/ Guarded(n.todo, x, bit))
      BY Zenon DEF RefusedOK
    <3>a. m.eid = o.eid /\ Against(o.access, x, bit)
      BY Zenon, <1>1
    <3>2. Has(o.todo, "check", x) /\ (bit \in o.seen \/ Guarded(o.todo, x, bit))
      BY ZenonT(60), <2>1, <2>3, <3>a DEF RefusedOK
    <3>3. ad_testlock(Offset(o.eid, bit))
      <4>1. bit \in Claims(m.access)
        BY SMTT(30) DEF Claims
      <4>2. Offset(o.eid, bit) \in held[a[1]][a[2]]
        <5>1. Offset(m.eid, bit) \in held[a[1]][a[2]]
          BY ZenonT(60), <3>1, <4>1, ClaimedSlot
        <5>2. Offset(m.eid, bit) = Offset(o.eid, bit)
          BY Zenon, <3>a
        <5> QED BY Zenon, <5>1, <5>2
      <4> QED BY ZenonT(60), <3>0, <4>2 DEF ad_testlock
    <3>4. ASSUME bit \in o.seen, Head(o.todo).do = "check", Head(o.todo).bit = x PROVE FALSE
      BY ZenonT(60), <3>4, <3>a DEF Refuses, Against
    <3> HIDE DEF o, n, m
    <3>5. Has(n.todo, "check", x)
      BY SMTT(30), <3>2, <3>4, <1>2
    <3>6. bit \in n.seen \/ Guarded(n.todo, x, bit)
      BY <3>2, <3>3, <1>1, <1>2 DEF o
    <3> QED BY ZenonT(60), <3>5, <3>6
  <2> QED BY Zenon, <2>2, <2>3
<1> QED BY Zenon, <1>3, <1>5, <1>6, <1>7, <1>8 DEF IInv

\* A slot of an open is locked.
LEMMA LockTaken ==
    ASSUME IInv, NEW p \in Procs, op[p].kind = "open", op[p].todo # <<>>,
           Head(op[p].todo).do = "lock",
           held' = [held EXCEPT ![p][op[p].fork] = @ \cup {Offset(op[p].eid, Head(op[p].todo).bit)}],
           op' = [op EXCEPT ![p].todo = Tail(@)],
           UNCHANGED <<mode, before>>
    PROVE  IInv'
<1> USE Shape
<1> DEFINE o == op[p]
           n == op'[p]
           off == Offset(op[p].eid, Head(op[p].todo).bit)
<1>0. o \in OpType /\ o.todo \in Seq(Calls) /\ o.fork \in Forks /\ mode[p][o.fork] = Closed
    BY Zenon DEF IInv, TypeOK, OpType, OpOK
<1>1. /\ n \in OpType /\ \A q \in Procs : q # p => op'[q] = op[q]
      /\ n.kind = o.kind /\ n.fork = o.fork /\ n.eid = o.eid /\ n.access = o.access
      /\ n.todo = Tail(o.todo) /\ n.seen = o.seen
  <2>1. Tail(o.todo) \in Seq(Calls)
    BY Zenon, <1>0, Shorter
  <2>2. n = [o EXCEPT !.todo = Tail(o.todo)]
    BY ZenonT(60) DEF IInv, TypeOK
  <2>3. \A q \in Procs : q # p => op'[q] = op[q]
    BY Zenon DEF IInv, TypeOK
  <2> HIDE DEF o, n
  <2> QED BY Zenon, <2>1, <2>2, <2>3, <1>0 DEF OpType
<1>2. /\ Head(o.todo) \in Calls
      /\ \A do, bit : Has(o.todo, do, bit) <=> Has(n.todo, do, bit) \/ (Head(o.todo).do = do /\ Head(o.todo).bit = bit)
      /\ \A x, bit : Guarded(o.todo, x, bit) =>
             Guarded(n.todo, x, bit) \/ (Head(o.todo).do = "test" /\ Head(o.todo).bit = bit)
  <2>1. o.todo # <<>>
    BY Zenon
  <2> HIDE DEF o, n
  <2> QED BY <2>1, <1>0, <1>1, Shorter
<1>3. /\ held' \in [Procs -> [Forks -> SUBSET (0..9)]]
      /\ held'[p][o.fork] = held[p][o.fork] \cup {off}
      /\ \A q \in Procs, f \in Forks : q # p \/ f # o.fork => held'[q][f] = held[q][f]
  <2>1. off \in 0..9
    BY Zenon, <1>2, OffsetType DEF Calls
  <2> HIDE DEF off
  <2> DEFINE row == [held[p] EXCEPT ![o.fork] = @ \cup {off}]
  <2>2. held' = [held EXCEPT ![p] = row]
    BY Zenon DEF off
  <2>3. held \in [Procs -> [Forks -> SUBSET (0..9)]]
    BY Zenon DEF IInv, TypeOK
  <2> HIDE DEF o
  <2>4. /\ row \in [Forks -> SUBSET (0..9)] /\ row[o.fork] = held[p][o.fork] \cup {off}
        /\ \A f \in Forks : f # o.fork => row[f] = held[p][f]
    BY SMTT(30), <1>0, <2>1, <2>3
  <2> HIDE DEF row
  <2>5. held'[p] = row /\ \A q \in Procs : q # p => held'[q] = held[q]
    BY Zenon, <2>2, <2>3
  <2>6. held' \in [Procs -> [Forks -> SUBSET (0..9)]]
    <3> DEFINE T == [Forks -> SUBSET (0..9)]
    <3>1. row \in T /\ held \in [Procs -> T]
      BY Zenon, <2>3, <2>4
    <3> HIDE DEF T
    <3>2. [held EXCEPT ![p] = row] \in [Procs -> T]
      BY Zenon, <3>1, Updated
    <3> QED BY Zenon, <3>2, <2>2 DEF T
  <2> QED BY ZenonT(60), <2>4, <2>5, <2>6
<1>4. TypeOK'
    BY Zenon, <1>1, <1>3 DEF IInv, TypeOK
<1>5. \A q \in Procs : op'[q].kind = op[q].kind /\ op'[q].fork = op[q].fork /\ op'[q].eid = op[q].eid
    BY Zenon, <1>1
<1>6. OpOK' /\ BeforeOK' /\ LaterOpensHonour' /\ Deleting'
  <2>1. OpOK'
    BY <1>5 DEF IInv, OpOK
  <2>2. Open' = Open
    BY Zenon DEF Open
  <2>3. BeforeOK'
    BY ZenonT(60), <1>5, <2>2 DEF IInv, BeforeOK
  <2>4. LaterOpensHonour'
    BY Zenon, SameForks DEF IInv
  <2>5. Deleting'
    BY Zenon, <1>5, SameDeletes DEF IInv
  <2> QED BY Zenon, <2>1, <2>3, <2>4, <2>5
<1>7. Slots'
  <2> SUFFICES ASSUME NEW q \in Procs, NEW f \in Forks
               PROVE  IF mode'[q][f] # Closed THEN Claimed_by(mode'[q][f].eid, mode'[q][f].access, held'[q][f])
                      ELSE op'[q].fork # f => held'[q][f] = {}
    BY Zenon DEF Slots, Claimed_by
  <2>1. CASE q = p /\ f = o.fork
    BY Zenon, <2>1, <1>0, <1>1
  <2>2. CASE q # p \/ f # o.fork
    <3>1. held'[q][f] = held[q][f] /\ op'[q].fork = op[q].fork /\ mode'[q][f] = mode[q][f]
      BY Zenon, <2>2, <1>3, <1>5
    <3> QED BY ZenonT(60), <3>1 DEF IInv, Slots
  <2> QED BY Zenon, <2>1, <2>2
<1>8. Opening'
  <2> SUFFICES ASSUME NEW q \in Procs, op'[q].kind = "open" PROVE OpeningOK(op'[q], held'[q][op'[q].fork])
    BY Zenon DEF Opening, OpeningOK, Has
  <2>1. OpeningOK(op[q], held[q][op[q].fork]) /\ op[q].fork \in Forks
    BY SMTT(30), <1>5 DEF IInv, Opening, OpOK
  <2>2. CASE q # p
    BY <2>1, <2>2, <1>1, <1>3
  <2>3. CASE q = p
    <3> DEFINE bit == Head(o.todo).bit
               h == held[p][o.fork]
    <3>1. OpeningOK(o, h)
      BY Zenon, <2>1, <2>3
    <3>2. bit \in Bits /\ Has(o.todo, "lock", bit) /\ off = Offset(o.eid, bit)
      BY Zenon, <1>2 DEF Calls
    <3> HIDE DEF o, n, off, bit, h
    <3>3. bit \in Claims(o.access)
      BY Zenon, <3>1, <3>2 DEF OpeningOK
    <3>4. OpeningOK(n, h \cup {off})
      <4>1. \A c \in h \cup {off} : \E b \in Claims(n.access) : c = Offset(n.eid, b)
        BY <3>1, <3>2, <3>3, <1>1 DEF OpeningOK
      <4>2. \A b \in Claims(n.access) : Offset(n.eid, b) \in h \cup {off} \/ Has(n.todo, "lock", b)
        BY ZenonT(60), <3>1, <3>2, <1>1, <1>2 DEF OpeningOK, bit
      <4>3. \A b \in Bits : Has(n.todo, "lock", b) => b \in Claims(n.access)
        BY Zenon, <3>1, <1>1, <1>2 DEF OpeningOK
      <4> QED BY Zenon, <4>1, <4>2, <4>3 DEF OpeningOK
    <3>5. op'[q] = n /\ held'[q][n.fork] = h \cup {off}
      BY Zenon, <2>3, <1>1, <1>3 DEF n, h
    <3> QED BY Zenon, <3>4, <3>5
  <2> QED BY Zenon, <2>2, <2>3
<1>9. Refused'
  <2> SUFFICES ASSUME NEW q \in Procs, op'[q].kind = "open", NEW a \in before'[q][op'[q].fork]
               PROVE  RefusedOK(op'[q], mode'[a[1]][a[2]])
    BY Zenon DEF Refused, RefusedOK, Has, Guarded, Against
  <2>1. RefusedOK(op[q], mode[a[1]][a[2]])
    BY Zenon, <1>5 DEF IInv, Refused
  <2>2. CASE q # p
    BY Zenon, <2>1, <2>2, <1>1
  <2>3. CASE q = p
    <3> DEFINE m == mode[a[1]][a[2]]
    <3>1. RefusedOK(o, m)
      BY ZenonT(60), <2>1, <2>3
    <3> HIDE DEF o, n, m
    <3>2. RefusedOK(n, m)
      BY <3>1, <1>1, <1>2 DEF RefusedOK, o
    <3> QED BY Zenon, <3>2, <2>3 DEF n, m
  <2> QED BY Zenon, <2>2, <2>3
<1> QED BY Zenon, <1>4, <1>6, <1>7, <1>8, <1>9 DEF IInv

\* An open begins: the forks open now are in its list.
LEMMA OpenBegins ==
    ASSUME IInv, NEW p \in Procs, NEW f \in Forks, NEW eid \in Eids, NEW access \in Modes,
           openfork_begins(p, f, eid, access)
    PROVE  IInv'
<1> USE Shape
<1> DEFINE n == [kind |-> "open", fork |-> f, eid |-> eid, access |-> access,
                 todo |-> fork_setmode(access), seen |-> {}]
<1>0. /\ op[p] = NoOp /\ mode[p][f] = Closed /\ UNCHANGED <<mode, held>>
      /\ op' = [op EXCEPT ![p] = n] /\ before' = [before EXCEPT ![p][f] = Open]
    BY Zenon DEF openfork_begins
<1>1. /\ fork_setmode(access) \in Seq(Calls)
      /\ \A b \in Bits : Has(fork_setmode(access), "lock", b) <=> b \in Claims(access)
      /\ \A x \in {"rd", "wr"}, bit \in Bits :
             Against(access, x, bit) => Has(fork_setmode(access), "check", x) /\ Guarded(fork_setmode(access), x, bit)
    BY Zenon, SetmodeCalls
<1>2. /\ n \in OpType /\ n.kind = "open" /\ n.fork = f /\ n.eid = eid /\ n.access = access
      /\ n.todo = fork_setmode(access) /\ n.seen = {} /\ eid \in {"data", "rsrc"}
      /\ access \in SUBSET Bits
  <2>1. access \in SUBSET Bits /\ eid \in {"data", "rsrc"}
    BY Zenon DEF Bits
  <2> QED BY Zenon, <2>1, <1>1 DEF OpType
<1> HIDE DEF n
<1>3. op'[p] = n /\ \A q \in Procs : q # p => op'[q] = op[q]
    BY Zenon, <1>0 DEF IInv, TypeOK
<1>4. Open' = Open /\ Open \subseteq Procs \X Forks
    BY Zenon, <1>0 DEF Open
<1>5. /\ before'[p][f] = Open
      /\ \A q \in Procs, g \in Forks \cup {0} : q # p \/ g # f => before'[q][g] = before[q][g]
      /\ before' \in [Procs -> [Forks \cup {0} -> SUBSET (Procs \X Forks)]]
  <2> DEFINE row == [before[p] EXCEPT ![f] = Open]
  <2>1. before' = [before EXCEPT ![p] = row]
    BY Zenon, <1>0
  <2>2. before \in [Procs -> [Forks \cup {0} -> SUBSET (Procs \X Forks)]]
    BY Zenon DEF IInv, TypeOK
  <2>3. /\ row \in [Forks \cup {0} -> SUBSET (Procs \X Forks)] /\ row[f] = Open
        /\ \A g \in Forks \cup {0} : g # f => row[g] = before[p][g]
    BY <1>4, <2>2
  <2> HIDE DEF row
  <2> QED BY ZenonT(60), <2>1, <2>2, <2>3
<1>6. TypeOK'
    BY Zenon, <1>0, <1>2, <1>5 DEF IInv, TypeOK
<1>7. op[p].kind = "none" /\ op[p].fork = 0
    BY <1>0 DEF NoOp
<1>8. OpOK'
    BY <1>0, <1>2, <1>3 DEF IInv, OpOK
<1>9. Slots'
  <2> SUFFICES ASSUME NEW q \in Procs, NEW g \in Forks
               PROVE  IF mode'[q][g] # Closed THEN Claimed_by(mode'[q][g].eid, mode'[q][g].access, held'[q][g])
                      ELSE op'[q].fork # g => held'[q][g] = {}
    BY Zenon DEF Slots, Claimed_by
  <2>1. op'[q].fork # g => op[q].fork # g
    BY Zenon, <1>3, <1>7
  <2> QED BY Zenon, <2>1, <1>0 DEF IInv, Slots
<1>10. Opening'
  <2> SUFFICES ASSUME NEW q \in Procs, op'[q].kind = "open" PROVE OpeningOK(op'[q], held'[q][op'[q].fork])
    BY Zenon DEF Opening, OpeningOK, Has
  <2>1. CASE q # p
    BY Zenon, <2>1, <1>0, <1>3 DEF IInv, Opening
  <2>2. CASE q = p
    <3>1. held[p][f] = {}
      BY Zenon, <1>0, <1>7 DEF IInv, Slots
    <3>2. Claims(access) \subseteq Bits
      BY Zenon, <1>2 DEF Claims, Bits
    <3>3. OpeningOK(n, {})
      <4>1. \A b \in Bits : Has(n.todo, "lock", b) <=> b \in Claims(n.access)
        BY <1>1, <1>2
      <4>2. Claims(n.access) \subseteq Bits
        BY Zenon, <3>2, <1>2
      <4> QED BY Zenon, <4>1, <4>2 DEF OpeningOK
    <3>4. op'[q] = n /\ held'[q][n.fork] = {}
      BY Zenon, <3>1, <2>2, <1>0, <1>2, <1>3
    <3> QED BY Zenon, <3>3, <3>4
  <2> QED BY Zenon, <2>1, <2>2
<1>11. BeforeOK'
  <2>1. \A q \in Procs, g \in Forks \cup {0} : before'[q][g] \subseteq Open'
    <3> TAKE q \in Procs, g \in Forks \cup {0}
    <3>1. before[q][g] \subseteq Open
      BY Zenon DEF IInv, BeforeOK
    <3> QED BY ZenonT(60), <3>1, <1>4, <1>5
  <2>2. ASSUME NEW q \in Procs, op'[q].kind = "open", NEW g \in Forks, mode'[q][g] # Closed
        PROVE  <<q, g>> \in before'[q][op'[q].fork]
    <3>1. CASE q = p
      <4>1. <<q, g>> \in Open
        BY Zenon, <2>2, <1>0 DEF Open
      <4> QED BY Zenon, <3>1, <4>1, <1>2, <1>3, <1>5
    <3>2. CASE q # p
      <4>1. <<q, g>> \in before[q][op[q].fork] /\ op[q].fork \in Forks /\ op'[q] = op[q]
        BY Zenon, <2>2, <3>2, <1>0, <1>3 DEF IInv, BeforeOK, OpOK
      <4> QED BY SMTT(30), <3>2, <4>1, <1>5
    <3> QED BY Zenon, <3>1, <3>2
  <2> QED BY Zenon, <2>1, <2>2 DEF BeforeOK
<1>12. Refused'
  <2> SUFFICES ASSUME NEW q \in Procs, op'[q].kind = "open", NEW a \in before'[q][op'[q].fork]
               PROVE  RefusedOK(op'[q], mode'[a[1]][a[2]])
    BY Zenon DEF Refused, RefusedOK, Has, Guarded, Against
  <2>1. CASE q # p
    <3>1. op'[q] = op[q] /\ op[q].fork \in Forks
      BY Zenon, <2>1, <1>3 DEF IInv, OpOK
    <3>2. a \in before[q][op[q].fork]
      BY <3>1, <2>1, <1>5
    <3> QED BY Zenon, <3>1, <3>2, <1>0 DEF IInv, Refused
  <2>2. CASE q = p
    <3> DEFINE m == mode[a[1]][a[2]]
    <3> HIDE DEF m
    <3>1. RefusedOK(n, m)
      BY SMTT(30), <1>1, <1>2 DEF RefusedOK
    <3> QED BY Zenon, <3>1, <2>2, <1>0, <1>3 DEF m
  <2> QED BY Zenon, <2>1, <2>2
<1>13. LaterOpensHonour'
  <2> SUFFICES ASSUME NEW a \in Open', NEW b \in Open', a # b, Conflict(a, b)'
               PROVE  a[1] # b[1] /\ a \notin before'[b[1]][b[2]] /\ b \notin before'[a[1]][a[2]]
    BY Zenon DEF LaterOpensHonour
  <2>1. Conflict(a, b) /\ a \in Open /\ b \in Open
    BY Zenon, <1>0, <1>4 DEF Conflict
  <2>2. \A c \in Open : c[1] \in Procs /\ c[2] \in Forks /\ (c[1] # p \/ c[2] # f)
    BY Zenon, <1>0 DEF Open
  <2>3. before'[a[1]][a[2]] = before[a[1]][a[2]] /\ before'[b[1]][b[2]] = before[b[1]][b[2]]
    BY Zenon, <2>1, <2>2, <1>5
  <2> QED BY Zenon, <2>1, <2>3 DEF IInv, LaterOpensHonour
<1>14. Deleting'
  <2> SUFFICES ASSUME NEW q \in Procs, op'[q].kind \in {"delete", "unlink"}, NEW a \in before'[q][0],
                      a[1] = q \/ op'[q].kind = "unlink"
               PROVE  mode'[a[1]][a[2]].access \cap {"drd", "dwr"} = {}
    BY Zenon DEF Deleting
  <2>1. q # p /\ op'[q] = op[q]
    BY Zenon, <1>2, <1>3
  <2>2. a \in before[q][0] /\ mode' = mode
    BY ZenonT(60), <2>1, <1>0, <1>5
  <2>3. op[q].kind \in {"delete", "unlink"} /\ (a[1] = q \/ op[q].kind = "unlink")
    BY Zenon, <2>1
  <2>4. mode[a[1]][a[2]].access \cap {"drd", "dwr"} = {}
    BY Zenon, <2>2, <2>3 DEF IInv, Deleting
  <2> QED BY Zenon, <2>2, <2>4
<1> QED BY Zenon, <1>6, <1>8, <1>9, <1>10, <1>11, <1>12, <1>13, <1>14 DEF IInv

\* An open ends: it conflicts with no fork that was open before it, and no
\* other open fork knew of it.
LEMMA OpenEnds ==
    ASSUME IInv, NEW p \in Procs, openfork_ends(p)
    PROVE  IInv'
<1> USE Shape
<1> DEFINE o == op[p]
           f == op[p].fork
           m == [eid |-> op[p].eid, access |-> op[p].access]
<1>0. /\ o.kind = "open" /\ o.todo = <<>> /\ UNCHANGED <<held, before>>
      /\ mode' = [mode EXCEPT ![p][f] = m] /\ op' = [op EXCEPT ![p] = NoOp]
    BY Zenon DEF openfork_ends
<1>1. /\ o \in OpType /\ f \in Forks /\ mode[p][f] = Closed /\ o.eid \in {"data", "rsrc"}
    BY Zenon, <1>0 DEF IInv, TypeOK, OpOK
<1>2. m \in ModeType /\ m # Closed /\ m.eid = o.eid /\ m.access = o.access
    BY Zenon, <1>1 DEF OpType, ModeType, Closed
<1>3. /\ mode'[p][f] = m
      /\ \A q \in Procs, g \in Forks : q # p \/ g # f => mode'[q][g] = mode[q][g]
      /\ mode' \in [Procs -> [Forks -> ModeType]]
  <2> DEFINE row == [mode[p] EXCEPT ![f] = m]
  <2> HIDE DEF m
  <2>1. mode' = [mode EXCEPT ![p] = row]
    BY Zenon, <1>0
  <2>2. mode \in [Procs -> [Forks -> ModeType]]
    BY Zenon DEF IInv, TypeOK
  <2> HIDE DEF f
  <2>3. /\ row \in [Forks -> ModeType] /\ row[f] = m /\ \A g \in Forks : g # f => row[g] = mode[p][g]
    BY Zenon, <1>1, <1>2, <2>2
  <2> HIDE DEF row
  <2>4. mode'[p] = row /\ \A q \in Procs : q # p => mode'[q] = mode[q]
    BY Zenon, <2>1, <2>2
  <2>5. mode' \in [Procs -> [Forks -> ModeType]]
    BY Zenon, <2>1, <2>2, <2>3, Updated
  <2> QED BY Zenon, <2>3, <2>4, <2>5
<1>4. op'[p] = NoOp /\ NoOp.kind = "none" /\ NoOp.fork = 0 /\ \A q \in Procs : q # p => op'[q] = op[q]
    BY Zenon, <1>0 DEF IInv, TypeOK, NoOp
<1> HIDE DEF m
<1>5. TypeOK'
  <2>1. NoOp \in OpType
    BY DEF NoOp, OpType
  <2> QED BY Zenon, <2>1, <1>0, <1>3 DEF IInv, TypeOK
<1>6. OpOK'
  <2> SUFFICES ASSUME NEW q \in Procs
               PROVE  IF op'[q].kind = "open"
                      THEN op'[q].fork \in Forks /\ mode'[q][op'[q].fork] = Closed /\ op'[q].eid \in {"data", "rsrc"}
                      ELSE op'[q].fork = 0
    BY Zenon DEF OpOK
  <2>1. CASE q = p
    BY Zenon, <2>1, <1>4
  <2>2. CASE q # p
    BY SMTT(30), <2>2, <1>3, <1>4 DEF IInv, OpOK
  <2> QED BY Zenon, <2>1, <2>2
<1>7. Slots'
  <2> SUFFICES ASSUME NEW q \in Procs, NEW g \in Forks
               PROVE  IF mode'[q][g] # Closed THEN Claimed_by(mode'[q][g].eid, mode'[q][g].access, held'[q][g])
                      ELSE op'[q].fork # g => held'[q][g] = {}
    BY ZenonT(60) DEF Slots, Claimed_by
  <2>1. CASE q = p /\ g = f
    <3>1. OpeningOK(o, held[p][f])
      BY Zenon, <1>0 DEF IInv, Opening
    <3>2. \A b : ~Has(o.todo, "lock", b)
      BY SMTT(30), <1>0 DEF Has
    <3>3. held[p][f] = {Offset(o.eid, b) : b \in Claims(o.access)}
      BY SMTT(30), <3>1, <3>2 DEF OpeningOK
    <3> QED BY <3>3, <2>1, <1>0, <1>2, <1>3 DEF Claimed_by
  <2>2. CASE q # p \/ g # f
    <3>1. mode'[q][g] = mode[q][g] /\ held'[q][g] = held[q][g] /\ (op'[q].fork # g => op[q].fork # g)
      BY ZenonT(60), <2>2, <1>0, <1>3, <1>4
    <3> QED BY SMTT(30), <3>1 DEF IInv, Slots
  <2> QED BY Zenon, <2>1, <2>2
<1>8. \A q \in Procs : op'[q].kind # "none" => q # p /\ op'[q] = op[q] /\ mode'[q] = mode[q]
    BY SMTT(30), <1>0, <1>4 DEF IInv, TypeOK
<1>9. Opening'
  <2> SUFFICES ASSUME NEW q \in Procs, op'[q].kind = "open" PROVE OpeningOK(op'[q], held'[q][op'[q].fork])
    BY Zenon DEF Opening, OpeningOK, Has
  <2>1. op'[q] = op[q] /\ held'[q] = held[q]
    BY Zenon, <1>0, <1>8
  <2> QED BY Zenon, <2>1 DEF IInv, Opening
<1>10. /\ Open' = Open \cup {<<p, f>>} /\ <<p, f>> \notin Open
       /\ \A a \in Open : a[1] \in Procs /\ a[2] \in Forks /\ mode'[a[1]][a[2]] = mode[a[1]][a[2]]
  <2>1. <<p, f>> \notin Open
    BY Zenon, <1>1 DEF Open
  <2>2. ASSUME NEW a \in Open
        PROVE  a[1] \in Procs /\ a[2] \in Forks /\ mode'[a[1]][a[2]] = mode[a[1]][a[2]] /\ a \in Open'
    <3>1. a[1] \in Procs /\ a[2] \in Forks /\ a = <<a[1], a[2]>> /\ mode[a[1]][a[2]] # Closed
      BY DEF Open
    <3>2. mode'[a[1]][a[2]] = mode[a[1]][a[2]]
      BY <3>1, <1>1, <1>3
    <3> QED BY Zenon, <3>1, <3>2 DEF Open
  <2>3. ASSUME NEW a \in Open' PROVE a \in Open \/ a = <<p, f>>
    <3>1. a[1] \in Procs /\ a[2] \in Forks /\ a = <<a[1], a[2]>> /\ mode'[a[1]][a[2]] # Closed
      BY DEF Open
    <3> QED BY <3>1, <1>3 DEF Open
  <2>4. <<p, f>> \in Open'
    BY Zenon, <1>1, <1>2, <1>3 DEF Open
  <2> QED BY <2>1, <2>2, <2>3, <2>4
<1>11. \A q \in Procs, g \in Forks \cup {0} : before'[q][g] = before[q][g] /\ before[q][g] \subseteq Open
    BY Zenon, <1>0 DEF IInv, BeforeOK
<1>12. BeforeOK'
  <2>1. \A q \in Procs, g \in Forks \cup {0} : before'[q][g] \subseteq Open'
    BY Zenon, <1>10, <1>11
  <2>2. ASSUME NEW q \in Procs, op'[q].kind = "open", NEW g \in Forks, mode'[q][g] # Closed
        PROVE  <<q, g>> \in before'[q][op'[q].fork]
    BY ZenonT(60), <2>2, <1>0, <1>8 DEF IInv, BeforeOK
  <2> QED BY Zenon, <2>1, <2>2 DEF BeforeOK
<1>13. Refused'
  <2> SUFFICES ASSUME NEW q \in Procs, op'[q].kind = "open", NEW a \in before'[q][op'[q].fork]
               PROVE  RefusedOK(op'[q], mode'[a[1]][a[2]])
    BY Zenon DEF Refused, RefusedOK, Has, Guarded, Against
  <2>1. op'[q] = op[q] /\ op[q].fork \in Forks
    BY Zenon, <1>8 DEF IInv, OpOK
  <2>2. a \in before[q][op[q].fork] /\ mode'[a[1]][a[2]] = mode[a[1]][a[2]]
    BY <2>1, <1>10, <1>11
  <2> QED BY Zenon, <2>1, <2>2 DEF IInv, Refused
<1>14. \A a \in before[p][f], x \in {"rd", "wr"}, bit \in Bits :
           ~(mode[a[1]][a[2]].eid = o.eid /\ bit \in mode[a[1]][a[2]].access /\ Against(o.access, x, bit))
  <2> SUFFICES ASSUME NEW a \in before[p][f] PROVE RefusedOK(o, mode[a[1]][a[2]]) /\ \A x : ~Has(o.todo, "check", x)
    BY Zenon DEF RefusedOK
  <2>1. \A x : ~Has(o.todo, "check", x)
    BY SMTT(30), <1>0 DEF Has
  <2> QED BY Zenon, <2>1, <1>0 DEF IInv, Refused
<1>15. LaterOpensHonour'
  <2> SUFFICES ASSUME NEW a \in Open', NEW b \in Open', a # b, Conflict(a, b)'
               PROVE  a[1] # b[1] /\ a \notin before'[b[1]][b[2]] /\ b \notin before'[a[1]][a[2]]
    BY Zenon DEF LaterOpensHonour
  <2>0. PICK x \in {"rd", "wr"} :
            /\ x \in mode'[a[1]][a[2]].access /\ DenyOf[x] \in mode'[b[1]][b[2]].access
            /\ mode'[a[1]][a[2]].eid = mode'[b[1]][b[2]].eid
    BY Zenon DEF Conflict
  <2>1. x \in Bits /\ DenyOf[x] \in Bits
    BY SMTT(30) DEF Bits, DenyOf
  <2>2. CASE a \in Open /\ b \in Open
    <3>1. Conflict(a, b)
      BY Zenon, <2>0, <2>2, <1>10 DEF Conflict
    <3> QED BY SMTT(30), <3>1, <2>2, <1>10, <1>11 DEF IInv, LaterOpensHonour
  <2>3. CASE a = <<p, f>> /\ b \in Open
    <3>1. x \in o.access /\ DenyOf[x] \in mode[b[1]][b[2]].access /\ mode[b[1]][b[2]].eid = o.eid
      BY ZenonT(60), <2>0, <2>3, <1>2, <1>3, <1>10
    <3>2. b \notin before[p][f]
      BY ZenonT(60), <3>1, <2>1, <1>14 DEF Against
    <3>3. b[1] # p
      <4> SUFFICES ASSUME b[1] = p PROVE FALSE
        BY Zenon
      <4>1. mode[p][b[2]] # Closed /\ b[2] \in Forks /\ b = <<p, b[2]>>
        BY <2>3 DEF Open
      <4>2. <<p, b[2]>> \in before[p][f]
        BY Zenon, <4>1, <1>0 DEF IInv, BeforeOK
      <4> QED BY Zenon, <4>1, <4>2, <3>2
    <3>4. a \notin before[b[1]][b[2]]
      BY Zenon, <2>3, <1>10, <1>11
    <3> QED BY Zenon, <3>2, <3>3, <3>4, <2>3, <1>0
  <2>4. CASE b = <<p, f>> /\ a \in Open
    <3>1. DenyOf[x] \in o.access /\ x \in mode[a[1]][a[2]].access /\ mode[a[1]][a[2]].eid = o.eid
      BY Zenon, <2>0, <2>4, <1>2, <1>3, <1>10
    <3>2. a \notin before[p][f]
      BY Zenon, <3>1, <2>1, <1>14 DEF Against
    <3>3. a[1] # p
      <4> SUFFICES ASSUME a[1] = p PROVE FALSE
        BY Zenon
      <4>1. mode[p][a[2]] # Closed /\ a[2] \in Forks /\ a = <<p, a[2]>>
        BY SMTT(30), <2>4 DEF Open
      <4>2. <<p, a[2]>> \in before[p][f]
        BY Zenon, <4>1, <1>0 DEF IInv, BeforeOK
      <4> QED BY Zenon, <4>1, <4>2, <3>2
    <3>4. b \notin before[a[1]][a[2]]
      BY Zenon, <2>4, <1>10, <1>11
    <3> QED BY Zenon, <3>2, <3>3, <3>4, <2>4, <1>0
  <2> QED BY Zenon, <2>2, <2>3, <2>4, <1>10
<1>16. Deleting'
  <2> SUFFICES ASSUME NEW q \in Procs, op'[q].kind \in {"delete", "unlink"}, NEW a \in before'[q][0],
                      a[1] = q \/ op'[q].kind = "unlink"
               PROVE  mode'[a[1]][a[2]].access \cap {"drd", "dwr"} = {}
    BY Zenon DEF Deleting
  <2>1. op'[q] = op[q]
    BY Zenon, <1>8
  <2>2. a \in before[q][0] /\ mode'[a[1]][a[2]] = mode[a[1]][a[2]]
    BY Zenon, <1>10, <1>11
  <2>3. op[q].kind \in {"delete", "unlink"} /\ (a[1] = q \/ op[q].kind = "unlink")
    BY Zenon, <2>1
  <2>4. mode[a[1]][a[2]].access \cap {"drd", "dwr"} = {}
    BY Zenon, <2>2, <2>3 DEF IInv, Deleting
  <2> QED BY Zenon, <2>2, <2>4
<1> QED BY Zenon, <1>5, <1>6, <1>7, <1>9, <1>12, <1>13, <1>15, <1>16 DEF IInv

\* A delete begins: the session's own forks deny nothing.
LEMMA DeleteBegins ==
    ASSUME IInv, NEW p \in Procs, delete_begins(p)
    PROVE  IInv'
<1> USE Shape
<1> DEFINE n == [NoOp EXCEPT !.kind = "delete"]
<1>0. /\ op[p] = NoOp /\ ~of_delete_blocked(p) /\ UNCHANGED <<mode, held>>
      /\ op' = [op EXCEPT ![p] = n] /\ before' = [before EXCEPT ![p][0] = Open]
    BY Zenon DEF delete_begins
<1>1. n \in OpType /\ n.kind = "delete" /\ n.fork = 0 /\ NoOp.kind = "none" /\ NoOp.fork = 0
  <2>1. NoOp \in OpType /\ NoOp.kind = "none" /\ NoOp.fork = 0
    BY DEF OpType, NoOp
  <2>2. n = [NoOp EXCEPT !.kind = "delete"]
    BY Zenon
  <2> HIDE DEF n
  <2> QED BY Zenon, <2>1, <2>2 DEF OpType
<1> HIDE DEF n
<1>2. op'[p] = n /\ \A q \in Procs : q # p => op'[q] = op[q]
    BY Zenon, <1>0 DEF IInv, TypeOK
<1>3. Open' = Open /\ Open \subseteq Procs \X Forks
    BY Zenon, <1>0 DEF Open
<1>4. /\ before'[p][0] = Open
      /\ \A q \in Procs, g \in Forks \cup {0} : q # p \/ g # 0 => before'[q][g] = before[q][g]
      /\ before' \in [Procs -> [Forks \cup {0} -> SUBSET (Procs \X Forks)]]
  <2> DEFINE row == [before[p] EXCEPT ![0] = Open]
  <2>1. before' = [before EXCEPT ![p] = row]
    BY Zenon, <1>0
  <2>2. before \in [Procs -> [Forks \cup {0} -> SUBSET (Procs \X Forks)]]
    BY Zenon DEF IInv, TypeOK
  <2>3. /\ row \in [Forks \cup {0} -> SUBSET (Procs \X Forks)] /\ row[0] = Open
        /\ \A g \in Forks \cup {0} : g # 0 => row[g] = before[p][g]
    BY <1>3, <2>2
  <2> HIDE DEF row
  <2> QED BY <2>1, <2>2, <2>3
<1>5. TypeOK'
    BY Zenon, <1>0, <1>1, <1>4 DEF IInv, TypeOK
<1>6. OpOK'
    BY <1>0, <1>1, <1>2 DEF IInv, OpOK
<1>7. Slots'
  <2> SUFFICES ASSUME NEW q \in Procs, NEW g \in Forks
               PROVE  IF mode'[q][g] # Closed THEN Claimed_by(mode'[q][g].eid, mode'[q][g].access, held'[q][g])
                      ELSE op'[q].fork # g => held'[q][g] = {}
    BY SMTT(30) DEF Slots, Claimed_by
  <2>1. op'[q].fork # g => op[q].fork # g
    BY SMTT(30), <1>0, <1>1, <1>2
  <2> QED BY Zenon, <2>1, <1>0 DEF IInv, Slots
<1>8. \A q \in Procs : op'[q].kind = "open" => q # p /\ op'[q] = op[q] /\ op[q].fork \in Forks
    BY Zenon, <1>1, <1>2 DEF IInv, OpOK
<1>9. Opening'
  <2> SUFFICES ASSUME NEW q \in Procs, op'[q].kind = "open" PROVE OpeningOK(op'[q], held'[q][op'[q].fork])
    BY ZenonT(60) DEF Opening, OpeningOK, Has
  <2> QED BY Zenon, <1>0, <1>8 DEF IInv, Opening
<1>10. BeforeOK'
  <2>1. \A q \in Procs, g \in Forks \cup {0} : before'[q][g] \subseteq Open'
    <3> TAKE q \in Procs, g \in Forks \cup {0}
    <3>1. before[q][g] \subseteq Open
      BY Zenon DEF IInv, BeforeOK
    <3> QED BY Zenon, <3>1, <1>3, <1>4
  <2>2. ASSUME NEW q \in Procs, op'[q].kind = "open", NEW g \in Forks, mode'[q][g] # Closed
        PROVE  <<q, g>> \in before'[q][op'[q].fork]
    <3>1. <<q, g>> \in before[q][op[q].fork]
      BY Zenon, <2>2, <1>0, <1>8 DEF IInv, BeforeOK
    <3> QED BY SMTT(30), <3>1, <2>2, <1>4, <1>8
  <2> QED BY <2>1, <2>2 DEF BeforeOK
<1>11. Refused'
  <2> SUFFICES ASSUME NEW q \in Procs, op'[q].kind = "open", NEW a \in before'[q][op'[q].fork]
               PROVE  RefusedOK(op'[q], mode'[a[1]][a[2]])
    BY ZenonT(60) DEF Refused, RefusedOK, Has, Guarded, Against
  <2>1. a \in before[q][op[q].fork] /\ op'[q] = op[q]
    BY SMTT(30), <1>4, <1>8
  <2> QED BY Zenon, <2>1, <1>0 DEF IInv, Refused
<1>12. LaterOpensHonour'
  <2> SUFFICES ASSUME NEW a \in Open', NEW b \in Open', a # b, Conflict(a, b)'
               PROVE  a[1] # b[1] /\ a \notin before'[b[1]][b[2]] /\ b \notin before'[a[1]][a[2]]
    BY DEF LaterOpensHonour
  <2>1. Conflict(a, b) /\ a \in Open /\ b \in Open
    BY Zenon, <1>0, <1>3 DEF Conflict
  <2>2. \A c \in Open : c[1] \in Procs /\ c[2] \in Forks /\ c[2] # 0
    BY <1>3
  <2>3. before'[a[1]][a[2]] = before[a[1]][a[2]] /\ before'[b[1]][b[2]] = before[b[1]][b[2]]
    BY Zenon, <2>1, <2>2, <1>4
  <2> QED BY Zenon, <2>1, <2>3 DEF IInv, LaterOpensHonour
<1>13. Deleting'
  <2> SUFFICES ASSUME NEW q \in Procs, op'[q].kind \in {"delete", "unlink"}, NEW a \in before'[q][0],
                      a[1] = q \/ op'[q].kind = "unlink"
               PROVE  mode'[a[1]][a[2]].access \cap {"drd", "dwr"} = {}
    BY SMTT(30) DEF Deleting
  <2>1. CASE q = p
    <3>1. a \in Open /\ a[1] = p
      BY Zenon, <2>1, <1>1, <1>2, <1>4
    <3>2. a[2] \in Forks /\ Claimed_by(mode[p][a[2]].eid, mode[p][a[2]].access, held[p][a[2]])
      BY <3>1 DEF IInv, Slots, Open
    <3>3. held[p][a[2]] \cap DELETE_BLOCKING = {}
      BY Zenon, <3>2, <1>0 DEF of_delete_blocked
    <3> QED BY SMTT(30), <3>1, <3>2, <3>3, <1>0, DenySlot
  <2>2. CASE q # p
    <3>1. op'[q] = op[q] /\ a \in before[q][0] /\ mode' = mode
      BY ZenonT(60), <2>2, <1>0, <1>2, <1>4
    <3>2. op[q].kind \in {"delete", "unlink"} /\ (a[1] = q \/ op[q].kind = "unlink")
      BY Zenon, <3>1
    <3>3. mode[a[1]][a[2]].access \cap {"drd", "dwr"} = {}
      BY Zenon, <3>1, <3>2 DEF IInv, Deleting
    <3> QED BY Zenon, <3>1, <3>3
  <2> QED BY Zenon, <2>1, <2>2
<1> QED BY <1>5, <1>6, <1>7, <1>9, <1>10, <1>11, <1>12, <1>13 DEF IInv

\* A delete has probed the slots of the others and met no deny mode.
LEMMA DeleteProbed ==
    ASSUME IInv, NEW p \in Procs, op[p].kind = "delete", ~Claimed(p),
           op' = [op EXCEPT ![p] = [@ EXCEPT !.kind = "unlink"]],
           UNCHANGED <<mode, held, before>>
    PROVE  IInv'
<1> USE Shape
<1> DEFINE n == [op[p] EXCEPT !.kind = "unlink"]
<1>1. op'[p] = n /\ \A q \in Procs : q # p => op'[q] = op[q]
    BY Zenon DEF IInv, TypeOK
<1>2. n \in OpType /\ n.kind = "unlink" /\ n.fork = op[p].fork /\ op[p].fork = 0
  <2>1. op[p] \in OpType
    BY Zenon DEF IInv, TypeOK
  <2>2. op[p].fork = 0
    BY Zenon DEF IInv, OpOK
  <2> QED BY Zenon, <2>1, <2>2 DEF OpType
<1> HIDE DEF n
<1>3. TypeOK'
    BY Zenon, <1>1, <1>2 DEF IInv, TypeOK
<1>4. \A q \in Procs : op'[q].fork = op[q].fork /\ (op'[q].kind = "open" => op'[q] = op[q])
                       /\ (op'[q].kind = "open" <=> op[q].kind = "open")
    BY Zenon, <1>1, <1>2
<1>5. OpOK'
    BY <1>4 DEF IInv, OpOK
<1>6. Slots'
    BY Zenon, <1>4, SameSlots DEF IInv
<1>7. Opening'
  <2> SUFFICES ASSUME NEW q \in Procs, op'[q].kind = "open" PROVE OpeningOK(op'[q], held'[q][op'[q].fork])
    BY Zenon DEF Opening, OpeningOK, Has
  <2> QED BY Zenon, <1>4 DEF IInv, Opening
<1>8. Open' = Open
    BY Zenon DEF Open
<1>9. BeforeOK'
    BY ZenonT(60), <1>4, <1>8 DEF IInv, BeforeOK
<1>10. Refused'
  <2> SUFFICES ASSUME NEW q \in Procs, op'[q].kind = "open", NEW a \in before'[q][op'[q].fork]
               PROVE  RefusedOK(op'[q], mode'[a[1]][a[2]])
    BY Zenon DEF Refused, RefusedOK, Has, Guarded, Against
  <2> QED BY Zenon, <1>4 DEF IInv, Refused
<1>11. LaterOpensHonour'
    BY Zenon, SameForks DEF IInv
<1>12. Deleting'
  <2> SUFFICES ASSUME NEW q \in Procs, op'[q].kind \in {"delete", "unlink"}, NEW a \in before'[q][0],
                      a[1] = q \/ op'[q].kind = "unlink"
               PROVE  mode'[a[1]][a[2]].access \cap {"drd", "dwr"} = {}
    BY Zenon DEF Deleting
  <2>0. a \in before[q][0] /\ mode' = mode
    BY Zenon
  <2>1. CASE a[1] = q \/ q # p
    <3>1. op[q].kind \in {"delete", "unlink"} /\ (a[1] = q \/ op[q].kind = "unlink")
      BY Zenon, <2>1, <1>1
    <3>2. mode[a[1]][a[2]].access \cap {"drd", "dwr"} = {}
      BY ZenonT(60), <2>0, <3>1 DEF IInv, Deleting
    <3> QED BY Zenon, <2>0, <3>2
  <2>2. CASE q = p /\ a[1] # p
    <3>1. a \in Open
      BY Zenon, <2>0 DEF IInv, BeforeOK
    <3>2. a[1] \in Procs /\ a[2] \in Forks /\ Claimed_by(mode[a[1]][a[2]].eid, mode[a[1]][a[2]].access, held[a[1]][a[2]])
      BY <3>1 DEF IInv, Slots, Open
    <3>3. held[a[1]][a[2]] \cap DELETE_BLOCKING = {}
      BY Zenon, <3>2, <2>2 DEF Claimed
    <3> QED BY SMTT(30), <3>2, <3>3, <2>0, DenySlot
  <2> QED BY Zenon, <2>1, <2>2
<1> QED BY Zenon, <1>3, <1>5, <1>6, <1>7, <1>9, <1>10, <1>11, <1>12 DEF IInv

-----------------------------------------------------------------------------
\* Every step keeps the invariant.
LEMMA StepIInv == IInv /\ [Next]_vars => IInv'
<1> SUFFICES ASSUME IInv, [Next]_vars PROVE IInv'
    BY Zenon
<1> USE Shape
<1>1. CASE UNCHANGED vars
  <2>1. Open' = Open
    BY Zenon, <1>1 DEF vars, Open
  <2>2. TypeOK' /\ OpOK' /\ BeforeOK' /\ Deleting'
    BY ZenonT(60), <1>1, <2>1 DEF vars, IInv, TypeOK, OpOK, BeforeOK, Deleting
  <2>3. LaterOpensHonour'
    BY Zenon, <1>1, SameForks DEF vars, IInv
  <2>4. Slots' /\ Opening'
    <3>1. Slots'
      BY Zenon, <1>1, SameSlots DEF vars, IInv
    <3>2. Opening'
      <4> SUFFICES ASSUME NEW q \in Procs, op'[q].kind = "open" PROVE OpeningOK(op'[q], held'[q][op'[q].fork])
        BY Zenon DEF Opening, OpeningOK, Has
      <4> QED BY Zenon, <1>1 DEF vars, IInv, Opening
    <3> QED BY Zenon, <3>1, <3>2
  <2>5. Refused'
    <3> SUFFICES ASSUME NEW q \in Procs, op'[q].kind = "open", NEW a \in before'[q][op'[q].fork]
                 PROVE  RefusedOK(op'[q], mode'[a[1]][a[2]])
      BY Zenon DEF Refused, RefusedOK, Has, Guarded, Against
    <3> QED BY Zenon, <1>1 DEF vars, IInv, Refused
  <2> QED BY Zenon, <2>2, <2>3, <2>4, <2>5 DEF IInv
<1>2. ASSUME NEW p \in Procs, op[p].kind = "open", openfork_err(p) PROVE IInv'
  <2> DEFINE f == op[p].fork
             gone == {<<p, op[p].fork>>}
  <2>1. f \in Forks /\ mode[p][f] = Closed
    BY Zenon, <1>2 DEF IInv, OpOK
  <2>2. /\ held' = [held EXCEPT ![p][f] = {}] /\ op' = [op EXCEPT ![p] = NoOp]
        /\ before' = Forget(gone) /\ mode' = mode
    BY Zenon, <1>2 DEF openfork_err
  <2> HIDE DEF f
  <2>3. /\ held' \in [Procs -> [Forks -> SUBSET (0..9)]] /\ held'[p][f] = {}
        /\ \A q \in Procs : q # p => held'[q] = held[q]
        /\ \A g \in Forks : g # f => held'[p][g] = held[p][g]
    BY SMTT(30), <2>1, <2>2 DEF IInv, TypeOK
  <2>4. gone \in SUBSET ({p} \X (Forks \cup {0})) /\ \A g \in Forks : <<p, g>> \in gone <=> g = f
    BY <2>1 DEF f
  <2>5. mode' \in [Procs -> [Forks -> ModeType]]
    BY Zenon, <2>2 DEF IInv, TypeOK
  <2>6. \A g \in Forks : IF <<p, g>> \in gone
                         THEN mode'[p][g] = Closed /\ held'[p][g] = {}
                         ELSE op[p].fork # g /\ mode'[p][g] = mode[p][g] /\ held'[p][g] = held[p][g]
    BY Zenon, <2>1, <2>2, <2>3, <2>4 DEF f
  <2> HIDE DEF gone
  <2> QED BY Zenon, <2>2, <2>3, <2>4, <2>5, <2>6, Ends
<1>3. ASSUME NEW p \in Procs, NEW f \in Forks, afp_closefork(p, f) PROVE IInv'
  <2> DEFINE gone == {<<p, f>>}
  <2>1. /\ held' = [held EXCEPT ![p][f] = {}] /\ mode' = [mode EXCEPT ![p][f] = Closed]
        /\ before' = Forget(gone) /\ op' = op /\ op[p] = NoOp
    BY Zenon, <1>3 DEF afp_closefork
  <2>2. op' = [op EXCEPT ![p] = NoOp] /\ op[p].fork = 0
    BY <2>1 DEF IInv, TypeOK, NoOp
  <2>3. /\ held' \in [Procs -> [Forks -> SUBSET (0..9)]] /\ held'[p][f] = {}
        /\ \A q \in Procs : q # p => held'[q] = held[q]
        /\ \A g \in Forks : g # f => held'[p][g] = held[p][g]
    BY <2>1 DEF IInv, TypeOK
  <2>4. /\ mode' \in [Procs -> [Forks -> ModeType]] /\ mode'[p][f] = Closed
        /\ \A q \in Procs : q # p => mode'[q] = mode[q]
        /\ \A g \in Forks : g # f => mode'[p][g] = mode[p][g]
    <3>1. Closed \in ModeType
      BY Zenon DEF Closed, ModeType
    <3> QED BY <3>1, <2>1 DEF IInv, TypeOK
  <2>5. gone \in SUBSET ({p} \X (Forks \cup {0})) /\ \A g \in Forks : <<p, g>> \in gone <=> g = f
    BY SMTT(30)
  <2>6. \A g \in Forks : IF <<p, g>> \in gone
                         THEN mode'[p][g] = Closed /\ held'[p][g] = {}
                         ELSE op[p].fork # g /\ mode'[p][g] = mode[p][g] /\ held'[p][g] = held[p][g]
    BY <2>2, <2>3, <2>4, <2>5
  <2> HIDE DEF gone
  <2> QED BY ZenonT(60), <2>1, <2>2, <2>3, <2>4, <2>5, <2>6, Ends
<1>4. ASSUME NEW p \in Procs, op[p].kind # "open", op' = [op EXCEPT ![p] = NoOp],
             before' = Forget({<<p, 0>>}), mode' = mode, held' = held
      PROVE  IInv'
  <2> DEFINE gone == {<<p, 0>>}
  <2>1. op[p].fork = 0
    BY Zenon, <1>4 DEF IInv, OpOK
  <2>2. mode' \in [Procs -> [Forks -> ModeType]] /\ held' \in [Procs -> [Forks -> SUBSET (0..9)]]
    BY Zenon, <1>4 DEF IInv, TypeOK
  <2>3. gone \in SUBSET ({p} \X (Forks \cup {0})) /\ \A g \in Forks : <<p, g>> \notin gone /\ g # 0
    OBVIOUS
  <2>4. \A g \in Forks : IF <<p, g>> \in gone
                         THEN mode'[p][g] = Closed /\ held'[p][g] = {}
                         ELSE op[p].fork # g /\ mode'[p][g] = mode[p][g] /\ held'[p][g] = held[p][g]
    BY Zenon, <2>1, <2>3, <1>4
  <2>5. before' = Forget(gone)
    BY Zenon, <1>4
  <2> HIDE DEF gone
  <2> QED BY Zenon, <2>2, <2>3, <2>4, <2>5, <1>4, Ends
<1>5. ASSUME NEW p \in Procs, op' = [op EXCEPT ![p] = NoOp],
             mode' = [mode EXCEPT ![p] = [f \in Forks |-> Closed]],
             held' = [held EXCEPT ![p] = [f \in Forks |-> {}]],
             before' = Forget({p} \X (Forks \cup {0}))
      PROVE  IInv'
  <2> DEFINE gone == {p} \X (Forks \cup {0})
  <2>1. /\ mode' \in [Procs -> [Forks -> ModeType]] /\ \A q \in Procs : q # p => mode'[q] = mode[q]
        /\ \A g \in Forks : mode'[p][g] = Closed
    <3>1. Closed \in ModeType
      BY Zenon DEF Closed, ModeType
    <3> QED BY ZenonT(60), <3>1, <1>5 DEF IInv, TypeOK
  <2>2. /\ held' \in [Procs -> [Forks -> SUBSET (0..9)]] /\ \A q \in Procs : q # p => held'[q] = held[q]
        /\ \A g \in Forks : held'[p][g] = {}
    BY Zenon, <1>5 DEF IInv, TypeOK
  <2>3. gone \in SUBSET ({p} \X (Forks \cup {0})) /\ \A g \in Forks : <<p, g>> \in gone
    BY Zenon
  <2>4. before' = Forget(gone)
    BY Zenon, <1>5
  <2> HIDE DEF gone
  <2> QED BY ZenonT(60), <2>1, <2>2, <2>3, <2>4, <1>5, Ends
<1>6. CASE Next
  <2>1. PICK p \in Procs :
            \/ \E f \in Forks, eid \in Eids, access \in Modes : openfork_begins(p, f, eid, access)
            \/ tests(p) \/ checks(p) \/ locks(p) \/ openfork_ends(p)
            \/ \E f \in Forks : afp_closefork(p, f)
            \/ delete_begins(p) \/ deletefile_probes(p) \/ deletefile_unlinks(p)
            \/ session_ends(p)
    BY Zenon, <1>6 DEF Next
  <2>2. CASE tests(p)
    <3> DEFINE bit == Head(op[p].todo).bit
               new == IF ad_testlock(Offset(op[p].eid, bit)) THEN op[p].seen \cup {bit} ELSE op[p].seen
    <3>1. /\ op[p].kind = "open" /\ op[p].todo # <<>> /\ Head(op[p].todo).do = "test"
          /\ op' = [op EXCEPT ![p].todo = Tail(@),
                              ![p].seen = IF ad_testlock(Offset(op[p].eid, bit)) THEN @ \cup {bit} ELSE @]
          /\ UNCHANGED <<mode, held, before>>
      BY Zenon, <2>2 DEF tests, Next_call, Bit
    <3>2. op[p] \in OpType /\ op[p].todo \in Seq(Calls) /\ op[p].seen \in SUBSET Bits
      BY Zenon DEF IInv, TypeOK, OpType
    <3>3. bit \in Bits
      BY Zenon, <3>1, <3>2, Shorter DEF Calls
    <3>4. new \in SUBSET Bits /\ op[p].seen \subseteq new /\ (ad_testlock(Offset(op[p].eid, bit)) => bit \in new)
      BY Zenon, <3>2, <3>3
    <3>5. op' = [op EXCEPT ![p] = [@ EXCEPT !.todo = Tail(op[p].todo), !.seen = new]]
      BY ZenonT(60), <3>1, <3>2 DEF IInv, TypeOK, OpType
    <3> HIDE DEF new
    <3> QED BY Zenon, <3>1, <3>4, <3>5, CallMade
  <2>3. CASE checks(p)
    <3>1. op[p].kind = "open" /\ op[p].todo # <<>> /\ Head(op[p].todo).do = "check"
      BY Zenon, <2>3 DEF checks, Next_call
    <3>2. CASE Refuses(op[p].access, op[p].seen, Bit(p))
      BY Zenon, <3>1, <3>2, <2>3, <1>2 DEF checks
    <3>3. CASE ~Refuses(op[p].access, op[p].seen, Bit(p))
      <4>1. op' = [op EXCEPT ![p].todo = Tail(@)] /\ UNCHANGED <<mode, held, before>>
        BY Zenon, <2>3, <3>3 DEF checks
      <4>2. op[p] \in OpType /\ op[p].seen \in SUBSET Bits
        BY Zenon DEF IInv, TypeOK, OpType
      <4>3. op' = [op EXCEPT ![p] = [@ EXCEPT !.todo = Tail(op[p].todo), !.seen = op[p].seen]]
        BY ZenonT(60), <4>1, <4>2 DEF IInv, TypeOK, OpType
      <4>4. ~Refuses(op[p].access, op[p].seen, Head(op[p].todo).bit)
        BY Zenon, <3>3 DEF Bit
      <4> QED BY ZenonT(60), <3>1, <4>1, <4>2, <4>3, <4>4, CallMade
    <3> QED BY Zenon, <3>2, <3>3
  <2>4. CASE locks(p)
    <3>1. op[p].kind = "open" /\ op[p].todo # <<>> /\ Head(op[p].todo).do = "lock"
      BY Zenon, <2>4 DEF locks, Next_call
    <3>2. CASE openfork_err(p)
      BY Zenon, <3>1, <3>2, <1>2
    <3>3. CASE ~openfork_err(p)
      <4>1. /\ held' = [held EXCEPT ![p][op[p].fork] = @ \cup {Offset(op[p].eid, Head(op[p].todo).bit)}]
            /\ op' = [op EXCEPT ![p].todo = Tail(@)]
            /\ UNCHANGED <<mode, before>>
        BY Zenon, <2>4, <3>3 DEF locks, Bit
      <4> QED BY Zenon, <3>1, <4>1, LockTaken
    <3> QED BY Zenon, <3>2, <3>3
  <2>5. CASE deletefile_probes(p)
    <3>1. CASE Claimed(p)
      BY Zenon, <3>1, <2>5, <1>4 DEF deletefile_probes
    <3>2. CASE ~Claimed(p)
      BY Zenon, <3>2, <2>5, DeleteProbed DEF deletefile_probes
    <3> QED BY <3>1, <3>2
  <2>6. CASE deletefile_unlinks(p)
    <3>1. CASE exists
      BY Zenon, <3>1, <2>6, <1>5 DEF deletefile_unlinks
    <3>2. CASE ~exists
      BY Zenon, <3>2, <2>6, <1>4 DEF deletefile_unlinks
    <3> QED BY Zenon, <3>1, <3>2
  <2>7. CASE session_ends(p)
    BY Zenon, <2>7, <1>5 DEF session_ends
  <2> QED BY Zenon, <2>1, <2>2, <2>3, <2>4, <2>5, <2>6, <2>7, <1>3, OpenBegins, OpenEnds, DeleteBegins
<1> QED BY Zenon, <1>1, <1>6

\* For every number of sessions and forks: an open fork has recorded exactly
\* the slots of its modes and a closed one none (fork_setmode, openfork_err).
THEOREM SlotsExact == Spec => []SlotsMatch
<1>1. IInv => SlotsMatch
    BY Zenon DEF IInv, Slots, SlotsMatch, Claimed_by, Claims
<1> QED BY <1>1, InitIInv, StepIInv, PTL DEF Spec

\* For every number of sessions and forks: a fork never conflicts with one that
\* was open when its own open began (fork_setmode).
THEOREM Honoured == Spec => []LaterOpensHonour
<1>1. IInv => LaterOpensHonour
    BY Zenon DEF IInv
<1> QED BY <1>1, InitIInv, StepIInv, PTL DEF Spec

\* For every number of sessions and forks: a delete never unlinks the file under
\* a deny mode that was there when it began (deletefile, of_delete_blocked).
THEOREM DeletesHonour == Spec => DeleteHonours
<1>1. IInv => \A p \in Procs : deletefile_unlinks(p) /\ exists =>
                  \A a \in before[p][0] : mode[a[1]][a[2]].access \cap {"drd", "dwr"} = {}
    BY Zenon DEF IInv, Deleting, deletefile_unlinks
<1>2. IInv /\ [Next]_vars =>
          [\A p \in Procs : deletefile_unlinks(p) /\ exists =>
              \A a \in before[p][0] : mode[a[1]][a[2]].access \cap {"drd", "dwr"} = {}]_vars
    BY Zenon, <1>1
<1> QED BY <1>2, InitIInv, StepIInv, PTL DEF Spec, DeleteHonours

=============================================================================
