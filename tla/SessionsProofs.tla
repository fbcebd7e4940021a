---------------------------- MODULE SessionsProofs ----------------------------
(***************************************************************************)
(* Sessions for every number of processes, users and clients.  What a      *)
(* session serves after a reconnect depends on messages sent long before,  *)
(* so the invariant speaks of every request and every socket on its way:   *)
(* each belongs to the user of its session, and each connection is in one  *)
(* place.                                                                  *)
(***************************************************************************)
EXTENDS Sessions, FiniteSetTheorems, TLAPS

Elems(s) == {s[i] : i \in 1..Len(s)}

\* Forked and not reaped is in the table, and the table keeps its limit.
Table ==
  /\ \A p \in Pids : slot[p].used = 1 <=> phase[p] \notin {"none", "gone"}
  /\ IsFiniteSet(Children) /\ Cardinality(Children) <= MaxSessions

\* A session has no user before its login and asks for nothing.
BeforeLogin ==
  \A p \in Pids : phase[p] \in {"none", "opened"} =>
    /\ uid[p] = None /\ up[p] = <<>>
    /\ phase[p] = "opened" => sock[p] = p

\* A session serves its own client, or one of its user.
Serves ==
  \A p \in Pids : phase[p] \in {"running", "handoff"} =>
    uid[p] \in Uids /\ sock[p] \in Pids /\ uid[sock[p]] = uid[p]

\* A request on its way is of its session's user, and so is the socket it
\* carries.
Asked ==
  \A p \in Pids : \A m \in Elems(up[p]) :
    /\ m.uid = uid[p]
    /\ m.kind = "DISCOLDSESSION" => uid[m.sock] = uid[p]

\* The user the master has recorded is the session's.
Recorded ==
  \A p \in Pids : slot[p].valid = 1 => slot[p].uid = uid[p] /\ uid[p] \in Uids

\* A socket passed to a session is of its user.
Passed ==
  \A p \in Pids : \A c \in Elems(down[p]) : uid[c] = uid[p] /\ uid[p] \in Uids

IInv ==
  /\ TypeOK
  /\ Table
  /\ BeforeLogin
  /\ Serves
  /\ Asked
  /\ Recorded
  /\ Passed
  /\ SignalHasSocket

-----------------------------------------------------------------------------
(* One claim on each connection, when the master is timely. *)

\* The hand-overs asked for in a queue; at most one; no socket twice.
AsksIn(s) == {m \in Elems(s) : m.kind = "DISCOLDSESSION"}
OneAsk(s) == \A i, j \in 1..Len(s) :
  s[i].kind = "DISCOLDSESSION" /\ s[j].kind = "DISCOLDSESSION" => i = j
Once(s) == \A i, j \in 1..Len(s) : s[i] = s[j] => i = j

\* A session that serves, or that will go on serving because its hand-over was
\* refused.
Holds(p) == phase[p] \in Serving \/ (phase[p] = "handoff" /\ die[p] = 0 /\ AsksIn(up[p]) = {})

Kinds == {"sock", "asked", "sent"}

\* The connections p claims: the one it serves, the one it asks to hand over,
\* and those that were sent to it.
Claim(p, k) ==
  IF k = "sock" THEN IF Holds(p) THEN {sock[p]} ELSE {}
  ELSE IF k = "asked" THEN {m.sock : m \in AsksIn(up[p])}
  ELSE Elems(down[p])

OneClaim ==
  \A p, q \in Pids, k, l \in Kinds : <<p, k>> # <<q, l>> => Claim(p, k) \cap Claim(q, l) = {}

\* A session asks once, for the connection it serves, and waits.
Asking ==
  \A p \in Pids :
    /\ OneAsk(up[p])
    /\ AsksIn(up[p]) # {} => phase[p] \in {"handoff", "exited"}
    /\ phase[p] = "handoff" => \A m \in AsksIn(up[p]) : m.sock = sock[p]

SentOnce == \A p \in Pids : Once(down[p])

OneHome == OneClaim /\ Asking /\ SentOnce

HInv == Timely => OneHome

-----------------------------------------------------------------------------
(* Lemmas on sequences and messages. *)

\* The elements of an empty sequence.
LEMMA NoElems == Elems(<<>>) = {}
BY DEF Elems

\* What a sequence holds after an Append.
LEMMA Appended ==
  ASSUME NEW S, NEW s \in Seq(S), NEW x \in S
  PROVE  /\ Append(s, x) \in Seq(S)
         /\ Append(s, x) # <<>>
         /\ Elems(Append(s, x)) = Elems(s) \cup {x}
<1>1. /\ Append(s, x) \in Seq(S)
      /\ Len(Append(s, x)) = Len(s) + 1
      /\ Append(s, x)[Len(s) + 1] = x
      /\ \A i \in 1..Len(s) : Append(s, x)[i] = s[i]
      /\ Len(s) \in Nat
  OBVIOUS
<1>2. ASSUME NEW e \in Elems(Append(s, x)) PROVE e \in Elems(s) \cup {x}
  <2>1. PICK i \in 1..(Len(s) + 1) : e = Append(s, x)[i]
    BY Zenon, <1>1, <1>2 DEF Elems
  <2>2. i = Len(s) + 1 \/ i \in 1..Len(s)
    BY <1>1
  <2> QED BY Zenon, <1>1, <2>1, <2>2 DEF Elems
<1>3. ASSUME NEW e \in Elems(s) PROVE e \in Elems(Append(s, x))
  <2>1. PICK i \in 1..Len(s) : e = s[i]
    BY Zenon, <1>3 DEF Elems
  <2>2. i \in 1..(Len(s) + 1) /\ e = Append(s, x)[i]
    BY SMTT(30), <1>1, <2>1
  <2> QED BY Zenon, <1>1, <2>2 DEF Elems
<1>4. x \in Elems(Append(s, x))
  <2>1. Len(s) + 1 \in 1..Len(Append(s, x))
    BY SMTT(30), <1>1
  <2> QED BY Zenon, <1>1, <2>1 DEF Elems
<1>5. Append(s, x) # <<>>
  BY <1>1
<1> QED BY Zenon, <1>1, <1>2, <1>3, <1>4, <1>5

\* What a sequence holds after its head was taken.
LEMMA Taken ==
  ASSUME NEW S, NEW s \in Seq(S), s # <<>>
  PROVE  /\ Tail(s) \in Seq(S) /\ Head(s) \in S
         /\ Head(s) \in Elems(s)
         /\ Elems(Tail(s)) \subseteq Elems(s)
         /\ Len(Tail(s)) = Len(s) - 1 /\ Len(s) \in Nat \ {0}
         /\ \A i \in 1..Len(Tail(s)) : Tail(s)[i] = s[i + 1]
         /\ Head(s) = s[1]
<1>1. /\ Tail(s) \in Seq(S) /\ Head(s) \in S
      /\ Len(Tail(s)) = Len(s) - 1 /\ Len(s) \in Nat \ {0}
      /\ \A i \in 1..Len(Tail(s)) : Tail(s)[i] = s[i + 1]
      /\ Head(s) = s[1]
  OBVIOUS
<1>2. Head(s) \in Elems(s)
  BY <1>1 DEF Elems
<1>3. ASSUME NEW e \in Elems(Tail(s)) PROVE e \in Elems(s)
  <2>1. PICK i \in 1..Len(Tail(s)) : e = Tail(s)[i]
    BY Zenon, <1>3 DEF Elems
  <2>2. i + 1 \in 1..Len(s) /\ e = s[i + 1]
    BY SMTT(30), <1>1, <2>1
  <2> QED BY Zenon, <2>2 DEF Elems
<1> QED BY Zenon, <1>1, <1>2, <1>3

\* The requests of a session, by kind.
LEMMA MsgFields ==
  ASSUME NEW m \in Msgs
  PROVE  /\ m.kind \in {"LOGINDONE", "SESSIONTOKEN", "GETSESSION", "DISCOLDSESSION"}
         /\ m.uid \in Uids
         /\ m.kind = "GETSESSION" => m.id \in ClientIds /\ m.boot \in BootTimes
         /\ m.kind = "DISCOLDSESSION" => m.token \in Pids /\ m.sock \in Pids
BY Zenon DEF Msgs

\* An element of a sequence is of its type.
LEMMA ElemType == ASSUME NEW S, NEW s \in Seq(S), NEW e \in Elems(s) PROVE e \in S
BY DEF Elems

\* The first state: no process was forked.
LEMMA InitIInv == Init => IInv /\ HInv
<1> SUFFICES ASSUME Init PROVE IInv /\ HInv
  BY Zenon
<1>1. TypeOK
  BY DEF Init, TypeOK, Phases, EmptySlot, Slots
<1>2. Children = {}
  BY DEF Init, Children, EmptySlot
<1>3. Table
  <2>1. IsFiniteSet(Children) /\ Cardinality(Children) <= MaxSessions
    BY SMTT(30), <1>2, FS_EmptySet, Distinct
  <2> QED BY <2>1 DEF Table, Init, EmptySlot
<1>4. \A p \in Pids : Elems(up[p]) = {} /\ Elems(down[p]) = {} /\ up[p] = <<>> /\ down[p] = <<>>
  BY Zenon, NoElems DEF Init
<1>5. BeforeLogin /\ Serves
  BY Zenon, <1>4 DEF Init, BeforeLogin, Serves
<1>6. Asked /\ Passed
  BY Zenon, <1>4 DEF Asked, Passed
<1>7. Recorded /\ SignalHasSocket
  BY DEF Init, Recorded, SignalHasSocket, EmptySlot
<1>8. \A p \in Pids, k \in Kinds : Claim(p, k) = {}
  BY Zenon, <1>4 DEF Init, Claim, Holds, AsksIn, Serving, Kinds
<1>9. OneClaim
  BY Zenon, <1>8 DEF OneClaim
<1>10. Asking /\ SentOnce
  <2>1. \A p \in Pids : AsksIn(up[p]) = {} /\ 1..Len(up[p]) = {} /\ 1..Len(down[p]) = {}
    BY <1>4 DEF AsksIn
  <2> QED BY Zenon, <2>1 DEF Asking, SentOnce, OneAsk, Once
<1> QED BY ZenonT(60), <1>1, <1>3, <1>5, <1>6, <1>7, <1>9, <1>10 DEF IInv, HInv, OneHome

-----------------------------------------------------------------------------
(* The steps and the users. *)

\* A step that forks and reaps nothing leaves the table exact.
LEMMA SameTable ==
  ASSUME Table,
         \A q \in Pids : /\ slot'[q].used = slot[q].used
                         /\ phase'[q] \in {"none", "gone"} <=> phase[q] \in {"none", "gone"}
  PROVE  Table'
<1>1. Children' = Children
  BY Zenon DEF Children
<1> QED BY Zenon, <1>1 DEF Table

\* A step that sends nothing and logs nobody in.
SendsNone ==
  /\ uid' = uid
  /\ \A q \in Pids :
       /\ Elems(up'[q]) \subseteq Elems(up[q]) /\ (up[q] = <<>> => up'[q] = <<>>)
       /\ Elems(down'[q]) \subseteq Elems(down[q])
       /\ phase'[q] \in {"none", "opened"} => phase'[q] = phase[q] /\ sock'[q] = sock[q]
       /\ phase'[q] \in {"running", "handoff"} =>
            phase[q] \in {"running", "handoff"} /\ sock'[q] = sock[q]

\* Such a step leaves every user as it was.
LEMMA Sends_nothing ==
  ASSUME IInv, SendsNone
  PROVE  BeforeLogin' /\ Serves' /\ Asked' /\ Passed'
<1> USE DEF SendsNone
<1>1. BeforeLogin'
  BY Zenon DEF IInv, BeforeLogin
<1>2. Serves'
  BY Zenon DEF IInv, Serves
<1>3. Asked'
  BY Zenon DEF IInv, Asked
<1>4. Passed'
  BY Zenon DEF IInv, Passed
<1> QED BY Zenon, <1>1, <1>2, <1>3, <1>4

\* A process exits, from any phase between fork and exit.
LEMMA Exits ==
  ASSUME IInv, NEW p \in Pids, phase[p] \notin {"none", "gone"}, Exit(p)
  PROVE  IInv'
<1> USE DEF Exit, channels
<1>1. TypeOK'
  BY Zenon DEF IInv, TypeOK, Phases
<1>2. \A q \in Pids : phase'[q] = IF q = p THEN "exited" ELSE phase[q]
  BY Zenon DEF IInv, TypeOK
<1>3. Table'
  BY SMTT(30), <1>2, SameTable DEF IInv
<1>4. \A q \in Pids : q # p => sock'[q] = sock[q] /\ urg'[q] = urg[q]
  BY Zenon DEF IInv, TypeOK
<1>5. urg'[p] = 0
  BY Zenon DEF IInv, TypeOK
<1>6. BeforeLogin' /\ Serves' /\ Asked' /\ Passed'
  <2>1. SendsNone
    BY SMTT(30), <1>2, <1>4 DEF SendsNone
  <2> QED BY Zenon, <2>1, Sends_nothing
<1>7. Recorded'
  BY Zenon DEF IInv, Recorded
<1>8. SignalHasSocket'
  BY SMTT(30), <1>2, <1>4, <1>5 DEF IInv, SignalHasSocket
<1> QED BY ZenonT(60), <1>1, <1>3, <1>6, <1>7, <1>8 DEF IInv

\* The master forks a session and adds its entry, below the limit.
LEMMA Adds ==
  ASSUME IInv, NEW p \in Pids, phase[p] = "none", Cardinality(Children) < MaxSessions,
         server_child_add(p)
  PROVE  IInv'
<1> USE DEF server_child_add, channels, signals
<1>1. TypeOK'
  <2>1. [EmptySlot EXCEPT !.used = 1] \in Slots
    BY Zenon DEF EmptySlot, Slots
  <2> QED BY Zenon, <2>1 DEF IInv, TypeOK, Phases
<1>2. \A q \in Pids : /\ phase'[q] = IF q = p THEN "opened" ELSE phase[q]
                      /\ sock'[q] = IF q = p THEN p ELSE sock[q]
  BY Zenon DEF IInv, TypeOK
<1>3. \A q \in Pids : q # p => slot'[q] = slot[q]
  BY Zenon DEF IInv, TypeOK
<1>4. slot'[p].used = 1 /\ slot'[p].valid = 0
  BY Zenon DEF IInv, TypeOK, EmptySlot
<1>5. Table'
  <2>1. slot[p].used # 1
    BY Zenon DEF IInv, Table
  <2>2. Children' = Children \cup {p} /\ p \notin Children
    BY ZenonT(60), <1>3, <1>4, <2>1 DEF Children
  <2>3. IsFiniteSet(Children) /\ Cardinality(Children) \in Nat
    BY Zenon, FS_CardinalityType DEF IInv, Table
  <2>4. IsFiniteSet(Children') /\ Cardinality(Children') = Cardinality(Children) + 1
    BY ZenonT(60), <2>2, <2>3, FS_AddElement
  <2>5. Cardinality(Children') <= MaxSessions
    BY SMTT(30), <2>3, <2>4, Distinct
  <2> QED BY SMTT(30), <1>2, <1>3, <1>4, <2>4, <2>5 DEF IInv, Table
<1>6. BeforeLogin'
  BY SMTT(30), <1>2 DEF IInv, BeforeLogin
<1>7. Serves'
  BY SMTT(30), <1>2 DEF IInv, Serves
<1>8. Asked' /\ Passed'
  BY Zenon DEF IInv, Asked, Passed
<1>9. Recorded'
  BY SMTT(30), <1>3, <1>4 DEF IInv, Recorded
<1>10. SignalHasSocket'
  BY Zenon, <1>2 DEF IInv, SignalHasSocket
<1> QED BY ZenonT(60), <1>1, <1>5, <1>6, <1>7, <1>8, <1>9, <1>10 DEF IInv

\* A client is refused.
LEMMA Refuses ==
  ASSUME IInv, NEW p \in Pids, phase[p] = "none", refuse(p)
  PROVE  IInv'
<1> USE DEF refuse, channels, signals
<1>1. TypeOK'
  BY Zenon DEF IInv, TypeOK, Phases
<1>2. \A q \in Pids : phase'[q] = IF q = p THEN "gone" ELSE phase[q]
  BY Zenon DEF IInv, TypeOK
<1>3. Table'
  BY Zenon, <1>2, SameTable DEF IInv
<1>4. BeforeLogin' /\ Serves' /\ Asked' /\ Passed'
  <2>1. SendsNone
    BY SMTT(30), <1>2 DEF SendsNone
  <2> QED BY Zenon, <2>1, Sends_nothing
<1>5. Recorded' /\ SignalHasSocket'
  BY Zenon, <1>2 DEF IInv, Recorded, SignalHasSocket
<1> QED BY ZenonT(60), <1>1, <1>3, <1>4, <1>5 DEF IInv

\* A zombie is reaped: its entry and its IPC sockets go.
LEMMA Reaps ==
  ASSUME IInv, NEW p \in Pids, child_handler(p)
  PROVE  IInv'
<1> USE DEF child_handler
<1>1. TypeOK'
  <2>1. EmptySlot \in Slots
    BY Zenon DEF EmptySlot, Slots
  <2>2. <<>> \in Seq(Msgs) /\ <<>> \in Seq(Pids)
    BY SMTT(30)
  <2> QED BY Zenon, <2>1, <2>2 DEF IInv, TypeOK, Phases
<1>2. \A q \in Pids : /\ phase'[q] = IF q = p THEN "gone" ELSE phase[q]
                      /\ urg'[q] = IF q = p THEN 0 ELSE urg[q]
                      /\ up'[q] = IF q = p THEN <<>> ELSE up[q]
                      /\ down'[q] = IF q = p THEN <<>> ELSE down[q]
  BY Zenon DEF IInv, TypeOK
<1>3. \A q \in Pids : slot'[q] = IF q = p THEN EmptySlot ELSE slot[q]
  BY Zenon DEF IInv, TypeOK
<1>4. EmptySlot.used = 0 /\ EmptySlot.valid = 0
  BY Zenon DEF EmptySlot
<1>5. Table'
  <2>1. Children' \subseteq Children
    BY SMTT(30), <1>3, <1>4 DEF Children
  <2>2. IsFiniteSet(Children) /\ Cardinality(Children) \in Nat
    BY Zenon, FS_CardinalityType DEF IInv, Table
  <2>3. IsFiniteSet(Children') /\ Cardinality(Children') <= Cardinality(Children)
    BY Zenon, <2>1, <2>2, FS_Subset
  <2>4. Cardinality(Children') \in Nat
    BY Zenon, <2>3, FS_CardinalityType
  <2>5. Cardinality(Children') <= MaxSessions
    BY SMTT(30), <2>2, <2>3, <2>4, Distinct DEF IInv, Table
  <2> QED BY SMTT(30), <1>2, <1>3, <1>4, <2>3, <2>5 DEF IInv, Table
<1>6. \A q \in Pids : Elems(up'[q]) \subseteq Elems(up[q]) /\ Elems(down'[q]) \subseteq Elems(down[q])
  BY Zenon, <1>2, NoElems
<1>7. BeforeLogin' /\ Serves' /\ Asked' /\ Passed'
  <2>1. uid' = uid /\ sock' = sock
    BY Zenon
  <2>2. \A q \in Pids : /\ up[q] = <<>> => up'[q] = <<>>
                        /\ phase'[q] # "gone" => phase'[q] = phase[q]
    BY ZenonT(60), <1>2
  <2> HIDE DEF child_handler
  <2>3. SendsNone
    BY Zenon, <1>6, <2>1, <2>2 DEF SendsNone
  <2> QED BY Zenon, <2>3, Sends_nothing
<1>8. Recorded'
  BY SMTT(30), <1>3, <1>4 DEF IInv, Recorded
<1>9. SignalHasSocket'
  BY <1>2 DEF IInv, SignalHasSocket
<1> QED BY ZenonT(60), <1>1, <1>5, <1>7, <1>8, <1>9 DEF IInv

\* The master serves a request that changes only the entry of its sender.
LEMMA Records ==
  ASSUME IInv, NEW p \in Pids, up[p] # <<>>,
         up' = [up EXCEPT ![p] = Tail(@)],
         UNCHANGED <<phase, uid, sock, recon, die, urg, peer, down>>,
         NEW e \in Slots, slot' = [slot EXCEPT ![p] = e],
         e.used = slot[p].used, e.valid = 1 => e.uid = uid[p] /\ uid[p] \in Uids
  PROVE  IInv'
<1>0. up[p] \in Seq(Msgs)
  BY Zenon DEF IInv, TypeOK
<1>1. Tail(up[p]) \in Seq(Msgs) /\ Elems(Tail(up[p])) \subseteq Elems(up[p])
  BY Zenon, <1>0, Taken
<1>2. TypeOK'
  BY Zenon, <1>1 DEF IInv, TypeOK
<1>3. \A q \in Pids : /\ up'[q] = IF q = p THEN Tail(up[p]) ELSE up[q]
                      /\ slot'[q] = IF q = p THEN e ELSE slot[q]
  BY Zenon DEF IInv, TypeOK
<1>4. Table'
  BY Zenon, <1>3, SameTable DEF IInv
<1>5. BeforeLogin' /\ Serves' /\ Asked' /\ Passed'
  <2>1. \A q \in Pids : Elems(up'[q]) \subseteq Elems(up[q]) /\ (up[q] = <<>> => up'[q] = <<>>)
    BY Zenon, <1>1, <1>3
  <2>2. SendsNone
    BY Zenon, <2>1 DEF SendsNone
  <2> QED BY Zenon, <2>2, Sends_nothing
<1>6. Recorded'
  BY SMTT(30), <1>3 DEF IInv, Recorded
<1>7. SignalHasSocket'
  BY Zenon DEF IInv, SignalHasSocket
<1> QED BY ZenonT(60), <1>2, <1>4, <1>5, <1>6, <1>7 DEF IInv

\* The request at the head of a queue is of the session's user.
LEMMA HeadAsked ==
  ASSUME IInv, NEW p \in Pids, up[p] # <<>>
  PROVE  /\ Head(up[p]) \in Msgs /\ Head(up[p]) \in Elems(up[p])
         /\ Head(up[p]).uid = uid[p] /\ uid[p] \in Uids
         /\ Head(up[p]).kind = "DISCOLDSESSION" =>
              /\ Head(up[p]).sock \in Pids /\ Head(up[p]).token \in Pids
              /\ uid[Head(up[p]).sock] = uid[p]
<1>1. up[p] \in Seq(Msgs)
  BY Zenon DEF IInv, TypeOK
<1>2. Head(up[p]) \in Msgs /\ Head(up[p]) \in Elems(up[p])
  BY Zenon, <1>1, Taken
<1> QED BY Zenon, <1>2, MsgFields DEF IInv, Asked

\* IPC_GETSESSION: the client's id is recorded, and the sessions it had before
\* its reboot are killed.
LEMMA Kills ==
  ASSUME IInv, NEW p \in Pids, up[p] # <<>>, slot[p].used = 1,
         up' = [up EXCEPT ![p] = Tail(@)],
         UNCHANGED <<uid, recon, peer>>,
         NEW m, m = Head(up[p]), m.kind = "GETSESSION", server_child_kill_one_by_id(p, m)
  PROVE  IInv'
<1> DEFINE again == {q \in Stale(p, m) : slot[q].killed = 1 /\ phase[q] # "exited"}
           first == {q \in Stale(p, m) : slot[q].killed = 0}
           mine == [slot[p] EXCEPT !.id = m.id, !.boot = m.boot, !.uid = m.uid, !.valid = 1]
<1>1. /\ slot' = [q \in Pids |-> IF q = p THEN [slot[q] EXCEPT !.id = m.id, !.boot = m.boot,
                                                               !.uid = m.uid, !.valid = 1]
                                 ELSE IF q \in first THEN [slot[q] EXCEPT !.killed = 1]
                                 ELSE slot[q]]
      /\ die' = [q \in Pids |-> IF q \in first THEN 1 ELSE die[q]]
      /\ phase' = [q \in Pids |-> IF q \in again THEN "exited" ELSE phase[q]]
      /\ sock' = [q \in Pids |-> IF q \in again THEN None ELSE sock[q]]
      /\ UNCHANGED <<urg, down>>
  BY Zenon DEF server_child_kill_one_by_id
<1>2. \A q \in again : q \in Pids /\ slot[q].used = 1 /\ q # p
  BY Zenon DEF Stale, Children
<1>3. m \in Msgs /\ m.uid = uid[p] /\ uid[p] \in Uids /\ m.id \in ClientIds /\ m.boot \in BootTimes
  BY Zenon, HeadAsked, MsgFields
<1>4. up[p] \in Seq(Msgs)
  BY Zenon DEF IInv, TypeOK
<1>5. Tail(up[p]) \in Seq(Msgs) /\ Elems(Tail(up[p])) \subseteq Elems(up[p])
  BY Zenon, <1>4, Taken
<1> HIDE DEF again, first
<1>6. \A q \in Pids : slot[q] \in Slots
  BY Zenon DEF IInv, TypeOK
<1>7. mine \in Slots /\ mine.used = slot[p].used /\ mine.uid = uid[p] /\ mine.valid = 1
  BY ZenonT(60), <1>3, <1>6 DEF Slots
<1>8. \A q \in Pids : LET e == [slot[q] EXCEPT !.killed = 1]
                      IN e \in Slots /\ e.used = slot[q].used /\ e.uid = slot[q].uid /\ e.valid = slot[q].valid
  BY <1>6 DEF Slots
<1>9. \A q \in Pids : slot'[q] \in Slots
  BY Zenon, <1>1, <1>6, <1>7, <1>8
<1>10. \A q \in Pids : /\ slot'[q].used = slot[q].used
                       /\ q # p => slot'[q].uid = slot[q].uid /\ slot'[q].valid = slot[q].valid
  BY Zenon, <1>1, <1>7, <1>8
<1>11. slot'[p].uid = uid[p]
  BY Zenon, <1>1, <1>7
<1>12. \A q \in Pids : /\ phase'[q] = IF q \in again THEN "exited" ELSE phase[q]
                       /\ sock'[q] = IF q \in again THEN None ELSE sock[q]
                       /\ up'[q] = IF q = p THEN Tail(up[p]) ELSE up[q]
  BY Zenon, <1>1 DEF IInv, TypeOK
<1>13. TypeOK'
  <2>1. slot' \in [Pids -> Slots]
    BY Zenon, <1>1, <1>9
  <2>2. die' \in [Pids -> {0, 1}] /\ phase' \in [Pids -> Phases] /\ sock' \in [Pids -> Pids \cup {None}]
    BY Zenon, <1>1 DEF IInv, TypeOK, Phases
  <2>3. up' \in [Pids -> Seq(Msgs)]
    BY Zenon, <1>5 DEF IInv, TypeOK
  <2> QED BY Zenon, <1>1, <2>1, <2>2, <2>3 DEF IInv, TypeOK
<1>18. \A q \in again : phase[q] \notin {"none", "gone"}
  BY Zenon, <1>2 DEF IInv, Table
<1>14. Table'
  BY Zenon, <1>10, <1>12, <1>18, SameTable DEF IInv
<1>15. BeforeLogin' /\ Serves' /\ Asked' /\ Passed'
  <2>1. \A q \in Pids : Elems(up'[q]) \subseteq Elems(up[q]) /\ (up[q] = <<>> => up'[q] = <<>>)
    BY Zenon, <1>5, <1>12
  <2>2. \A q \in Pids : phase'[q] # "exited" => phase'[q] = phase[q] /\ sock'[q] = sock[q]
    BY Zenon, <1>12
  <2>3. uid' = uid /\ down' = down
    BY Zenon, <1>1
  <2>4. SendsNone
    BY Zenon, <2>1, <2>2, <2>3 DEF SendsNone
  <2> QED BY Zenon, <2>4, Sends_nothing
<1>16. Recorded'
  BY Zenon, <1>3, <1>10, <1>11 DEF IInv, Recorded
<1>17. SignalHasSocket'
  BY Zenon, <1>1, <1>12, <1>18 DEF IInv, SignalHasSocket
<1> QED BY ZenonT(60), <1>13, <1>14, <1>15, <1>16, <1>17 DEF IInv

\* IPC_DISCOLDSESSION: the socket goes to the session of the token, which is of
\* the same user, or nowhere.
LEMMA Transfers ==
  ASSUME IInv, NEW p \in Pids, up[p] # <<>>,
         up' = [up EXCEPT ![p] = Tail(@)],
         UNCHANGED <<uid, recon, peer>>,
         NEW m, m = Head(up[p]), m.kind = "DISCOLDSESSION", server_child_transfer_session(p, m)
  PROVE  IInv'
<1>1. m \in Msgs /\ m.uid = uid[p] /\ uid[p] \in Uids
      /\ m.sock \in Pids /\ m.token \in Pids /\ uid[m.sock] = uid[p]
  BY Zenon, HeadAsked
<1>2. up[p] \in Seq(Msgs)
  BY Zenon DEF IInv, TypeOK
<1>3. Tail(up[p]) \in Seq(Msgs) /\ Elems(Tail(up[p])) \subseteq Elems(up[p])
  BY Zenon, <1>2, Taken
<1>4. up' \in [Pids -> Seq(Msgs)]
      /\ \A q \in Pids : up'[q] = IF q = p THEN Tail(up[p]) ELSE up[q]
  BY Zenon, <1>3 DEF IInv, TypeOK
<1>5. \A q \in Pids : Elems(up'[q]) \subseteq Elems(up[q]) /\ (up[q] = <<>> => up'[q] = <<>>)
  BY Zenon, <1>3, <1>4
<1>6. CASE ~Usable(m)
  <2>1. UNCHANGED <<phase, sock, die, urg, down, slot>>
    BY Zenon, <1>6 DEF server_child_transfer_session, Transfer, signals
  <2>2. TypeOK'
    BY Zenon, <1>4, <2>1 DEF IInv, TypeOK
  <2>3. Table'
    BY Zenon, <2>1, SameTable DEF IInv
  <2>4. BeforeLogin' /\ Serves' /\ Asked' /\ Passed'
    <3>1. SendsNone
      BY Zenon, <1>5, <2>1 DEF SendsNone
    <3> QED BY Zenon, <3>1, Sends_nothing
  <2>5. Recorded' /\ SignalHasSocket'
    BY Zenon, <2>1 DEF IInv, Recorded, SignalHasSocket
  <2> QED BY Zenon, <2>2, <2>3, <2>4, <2>5 DEF IInv
<1>7. CASE Usable(m)
  <2> DEFINE t == m.token
  <2>1. /\ down' = [down EXCEPT ![t] = Append(@, m.sock)]
        /\ urg' = [urg EXCEPT ![t] = 1]
        /\ die' = [die EXCEPT ![p] = 1]
        /\ UNCHANGED <<phase, sock, slot>>
    BY Zenon, <1>7 DEF server_child_transfer_session, Transfer
  <2>2. uid[t] = uid[p]
    BY Zenon, <1>1, <1>7 DEF Usable, IInv, Recorded
  <2>3. down[t] \in Seq(Pids) /\ t \in Pids
    BY ZenonT(60), <1>1 DEF IInv, TypeOK
  <2>4. /\ Append(down[t], m.sock) \in Seq(Pids)
        /\ Append(down[t], m.sock) # <<>>
        /\ Elems(Append(down[t], m.sock)) = Elems(down[t]) \cup {m.sock}
    BY SMTT(30), <1>1, <2>3, Appended
  <2>5. \A q \in Pids : down'[q] = IF q = t THEN Append(down[t], m.sock) ELSE down[q]
    BY Zenon, <2>1, <2>3 DEF IInv, TypeOK
  <2>6. TypeOK'
    <3>1. down' \in [Pids -> Seq(Pids)]
      BY Zenon, <2>1, <2>4 DEF IInv, TypeOK
    <3>2. urg' \in [Pids -> {0, 1}] /\ die' \in [Pids -> {0, 1}]
      BY Zenon, <2>1 DEF IInv, TypeOK
    <3> QED BY Zenon, <1>4, <2>1, <3>1, <3>2 DEF IInv, TypeOK
  <2>7. Table'
    BY Zenon, <2>1, SameTable DEF IInv
  <2>8. BeforeLogin' /\ Serves' /\ Recorded'
    BY Zenon, <1>5, <2>1 DEF IInv, BeforeLogin, Serves, Recorded
  <2>9. Asked'
    BY Zenon, <1>5 DEF IInv, Asked
  <2>10. Passed'
    BY ZenonT(60), <1>1, <2>2, <2>4, <2>5 DEF IInv, Passed
  <2>11. SignalHasSocket'
    <3>1. \A q \in Pids : q # t => urg'[q] = urg[q] /\ down'[q] = down[q]
      BY Zenon, <2>1, <2>5 DEF IInv, TypeOK
    <3>2. down'[t] # <<>>
      BY Zenon, <2>3, <2>4, <2>5
    <3> QED BY ZenonT(60), <2>1, <3>1, <3>2 DEF IInv, SignalHasSocket
  <2> QED BY ZenonT(60), <2>6, <2>7, <2>8, <2>9, <2>10, <2>11 DEF IInv
<1> QED BY Zenon, <1>6, <1>7

\* One request of a session, of any kind.
LEMMA Serves_request ==
  ASSUME IInv, NEW p \in Pids, ipc_server_read(p)
  PROVE  IInv'
<1> DEFINE m == Head(up[p])
<1>1. /\ up[p] # <<>> /\ slot[p].used = 1
      /\ up' = [up EXCEPT ![p] = Tail(@)]
      /\ UNCHANGED <<uid, recon, peer>>
  BY Zenon DEF ipc_server_read
<1>2. m \in Msgs /\ m.uid = uid[p] /\ uid[p] \in Uids
  BY Zenon, <1>1, HeadAsked
<1>3. slot[p] \in Slots
  BY Zenon DEF IInv, TypeOK
<1>4. CASE m.kind = "LOGINDONE" /\ server_child_login_done(p, m)
  <2> DEFINE e == [slot[p] EXCEPT !.uid = m.uid, !.valid = 1]
  <2>1. e \in Slots /\ e.used = slot[p].used /\ e.uid = uid[p]
    BY Zenon, <1>2, <1>3 DEF Slots
  <2>2. slot' = [slot EXCEPT ![p] = e] /\ UNCHANGED <<phase, sock, die, urg, down>>
    BY Zenon, <1>3, <1>4 DEF server_child_login_done, signals, IInv, TypeOK, Slots
  <2> HIDE DEF e, m
  <2> QED BY Zenon, <1>1, <1>2, <2>1, <2>2, Records
<1>5. CASE m.kind = "SESSIONTOKEN" /\ server_child_set_session_token(p, m)
  <2> DEFINE e == [slot[p] EXCEPT !.token = IF m.uid = slot[p].uid THEN 1 ELSE @]
  <2>1. e \in Slots /\ e.used = slot[p].used /\ e.uid = slot[p].uid /\ e.valid = slot[p].valid
    BY ZenonT(60), <1>3 DEF Slots
  <2>2. slot' = [slot EXCEPT ![p] = e] /\ UNCHANGED <<phase, sock, die, urg, down>>
    BY Zenon, <1>3, <1>5 DEF server_child_set_session_token, signals, IInv, TypeOK, Slots
  <2>3. e.valid = 1 => e.uid = uid[p]
    BY Zenon, <2>1 DEF IInv, Recorded
  <2> HIDE DEF e, m
  <2> QED BY ZenonT(60), <1>1, <1>2, <2>1, <2>2, <2>3, Records
<1>6. CASE m.kind = "GETSESSION" /\ server_child_kill_one_by_id(p, m)
  <2> HIDE DEF m
  <2> QED BY Zenon, <1>1, <1>6, Kills DEF m
<1>7. CASE m.kind = "DISCOLDSESSION" /\ server_child_transfer_session(p, m)
  BY Zenon, <1>1, <1>7, Transfers
<1> QED BY Zenon, <1>4, <1>5, <1>6, <1>7 DEF ipc_server_read

\* A client logs in: its session gets a user, and no request or socket that is
\* on its way refers to it yet.
LEMMA LogsIn ==
  ASSUME IInv, NEW p \in Pids, NEW u \in Uids, login(p, u)
  PROVE  IInv'
<1> DEFINE m == [kind |-> "LOGINDONE", uid |-> u]
<1>1. /\ phase[p] = "opened"
      /\ phase' = [phase EXCEPT ![p] = "running"]
      /\ uid' = [uid EXCEPT ![p] = u]
      /\ up' = [up EXCEPT ![p] = Append(@, m)]
      /\ UNCHANGED <<sock, recon, die, urg, peer, down, slot>>
  BY Zenon DEF login, signals
<1>2. m \in Msgs /\ m.kind # "DISCOLDSESSION" /\ m.uid = u
  BY Zenon DEF Msgs
<1>3. up[p] = <<>> /\ uid[p] = None /\ sock[p] = p /\ uid[p] \notin Uids
  BY Zenon, <1>1, Distinct DEF IInv, BeforeLogin
<1>4. up[p] \in Seq(Msgs)
  BY Zenon DEF IInv, TypeOK
<1> HIDE DEF m
<1>5. Append(up[p], m) \in Seq(Msgs) /\ Elems(Append(up[p], m)) = {m}
  <2>1. Append(up[p], m) \in Seq(Msgs) /\ Elems(Append(up[p], m)) = Elems(up[p]) \cup {m}
    BY SMTT(30), <1>2, <1>4, Appended
  <2>2. Elems(up[p]) = {}
    BY Zenon, <1>3, NoElems
  <2> QED BY Zenon, <2>1, <2>2
<1>6. \A q \in Pids : /\ phase'[q] = IF q = p THEN "running" ELSE phase[q]
                      /\ uid'[q] = IF q = p THEN u ELSE uid[q]
                      /\ up'[q] = IF q = p THEN Append(up[p], m) ELSE up[q]
  BY Zenon, <1>1 DEF IInv, TypeOK
<1>7. TypeOK'
  BY Zenon, <1>1, <1>5 DEF IInv, TypeOK, Phases
<1>8. Table'
  BY SMTT(30), <1>1, <1>6, SameTable DEF IInv
<1>9. BeforeLogin'
  BY SMTT(30), <1>1, <1>6 DEF IInv, BeforeLogin
<1>10. \A c \in Pids : uid[c] \in Uids => uid'[c] = uid[c]
  BY Zenon, <1>3, <1>6
<1>11. Serves'
  BY SMTT(30), <1>1, <1>3, <1>6, <1>10 DEF IInv, Serves
<1>12. Asked'
  <2> SUFFICES ASSUME NEW q \in Pids, NEW x \in Elems(up'[q])
               PROVE  x.uid = uid'[q] /\ (x.kind = "DISCOLDSESSION" => uid'[x.sock] = uid'[q])
    BY Zenon DEF Asked
  <2>1. CASE q = p
    BY Zenon, <1>2, <1>5, <1>6, <2>1
  <2>2. CASE q # p
    <3>1. up'[q] = up[q] /\ uid'[q] = uid[q] /\ up[q] \in Seq(Msgs)
      BY Zenon, <1>6, <2>2 DEF IInv, TypeOK
    <3>2. x \in Msgs
      BY Zenon, <3>1, ElemType
    <3>3. x.uid \in Uids /\ (x.kind = "DISCOLDSESSION" => x.sock \in Pids)
      BY Zenon, <3>2, MsgFields
    <3>4. x.uid = uid[q] /\ (x.kind = "DISCOLDSESSION" => uid[x.sock] = uid[q])
      BY Zenon, <3>1 DEF IInv, Asked
    <3> QED BY Zenon, <1>10, <3>1, <3>3, <3>4
  <2> QED BY Zenon, <2>1, <2>2
<1>13. Recorded'
  BY SMTT(30), <1>1, <1>3, <1>6 DEF IInv, Recorded
<1>14. Passed'
  <2> SUFFICES ASSUME NEW q \in Pids, NEW c \in Elems(down[q])
               PROVE  uid'[c] = uid'[q] /\ uid'[q] \in Uids
    BY Zenon, <1>1 DEF Passed
  <2>1. uid[c] = uid[q] /\ uid[q] \in Uids
    BY Zenon DEF IInv, Passed
  <2>2. down[q] \in Seq(Pids)
    BY Zenon DEF IInv, TypeOK
  <2>3. c \in Pids
    BY Zenon, <2>2, ElemType
  <2> QED BY Zenon, <1>10, <2>1, <2>3
<1>15. SignalHasSocket'
  BY Zenon, <1>1, <1>6 DEF IInv, SignalHasSocket
<1> QED BY ZenonT(60), <1>7, <1>8, <1>9, <1>11, <1>12, <1>13, <1>14, <1>15 DEF IInv

\* A session sends requests of its user to the master.
LEMMA Sends ==
  ASSUME IInv, NEW p \in Pids, phase[p] = "running",
         NEW new, \A m \in new : /\ m.uid = uid[p]
                                 /\ m.kind = "DISCOLDSESSION" => uid[m.sock] = uid[p],
         NEW s \in Seq(Msgs), Elems(s) = Elems(up[p]) \cup new, up' = [up EXCEPT ![p] = s],
         NEW ph \in {"running", "handoff"}, phase' = [phase EXCEPT ![p] = ph],
         recon' \in [Pids -> {0, 1}],
         UNCHANGED <<uid, sock, die, urg, peer, down, slot>>
  PROVE  IInv'
<1>1. \A q \in Pids : /\ phase'[q] = IF q = p THEN ph ELSE phase[q]
                      /\ up'[q] = IF q = p THEN s ELSE up[q]
  BY Zenon DEF IInv, TypeOK
<1>2. TypeOK'
  BY Zenon DEF IInv, TypeOK, Phases
<1>3. Table'
  BY Zenon, <1>1, SameTable DEF IInv
<1>4. BeforeLogin' /\ Serves'
  BY SMTT(30), <1>1 DEF IInv, BeforeLogin, Serves
<1>5. Asked'
  BY SMTT(30), <1>1 DEF IInv, Asked
<1>6. Recorded' /\ Passed'
  BY Zenon DEF IInv, Recorded, Passed
<1>7. SignalHasSocket'
  BY Zenon, <1>1 DEF IInv, SignalHasSocket
<1> QED BY Zenon, <1>2, <1>3, <1>4, <1>5, <1>6, <1>7 DEF IInv

\* Two requests sent together.
LEMMA TwoAppended ==
  ASSUME NEW S, NEW s \in Seq(S), NEW a \in S, NEW b \in S
  PROVE  /\ s \o <<a, b>> = Append(Append(s, a), b)
         /\ s \o <<a, b>> \in Seq(S)
         /\ Elems(s \o <<a, b>>) = Elems(s) \cup {a, b}
<1>1. s \o <<a, b>> \in Seq(S) /\ Append(Append(s, a), b) \in Seq(S)
  OBVIOUS
<1>2. s \o <<a, b>> = Append(Append(s, a), b)
  OBVIOUS
<1> DEFINE x == Append(s, a)
<1>3. x \in Seq(S) /\ Elems(x) = Elems(s) \cup {a}
  BY SMTT(30), Appended
<1> HIDE DEF x
<1>4. Elems(Append(x, b)) = Elems(x) \cup {b}
  BY SMTT(30), <1>3, Appended
<1> QED BY Zenon, <1>1, <1>2, <1>3, <1>4 DEF x

\* FPGetSession: the token and the client id go to the master.
LEMMA GetsSession ==
  ASSUME IInv, NEW p \in Pids, NEW id \in ClientIds, NEW boot \in BootTimes,
         afp_getsession(p, id, boot)
  PROVE  IInv'
<1> DEFINE a == [kind |-> "SESSIONTOKEN", uid |-> uid[p]]
           b == [kind |-> "GETSESSION", uid |-> uid[p], id |-> id, boot |-> boot]
           s == up[p] \o <<a, b>>
<1>1. phase[p] = "running" /\ UNCHANGED <<phase, uid, sock, recon, die, urg, peer, down, slot>>
  BY Zenon DEF afp_getsession, signals
<1>2. uid[p] \in Uids /\ up[p] \in Seq(Msgs)
  BY Zenon, <1>1 DEF IInv, Serves, TypeOK
<1>3. a \in Msgs /\ b \in Msgs
  BY Zenon, <1>2 DEF Msgs
<1>4. /\ a.uid = uid[p] /\ a.kind # "DISCOLDSESSION"
      /\ b.uid = uid[p] /\ b.kind # "DISCOLDSESSION"
  BY Zenon
<1>5. up' = [up EXCEPT ![p] = s]
  BY Zenon DEF afp_getsession
<1> HIDE DEF a, b
<1>6. s \in Seq(Msgs) /\ Elems(s) = Elems(up[p]) \cup {a, b}
  BY SMTT(30), <1>2, <1>3, TwoAppended
<1>7. phase' = [phase EXCEPT ![p] = "running"] /\ recon' \in [Pids -> {0, 1}]
  BY Zenon, <1>1 DEF IInv, TypeOK
<1>8. \A m \in {a, b} : m.uid = uid[p] /\ (m.kind = "DISCOLDSESSION" => uid[m.sock] = uid[p])
  BY Zenon, <1>4
<1> HIDE DEF s
<1> QED BY ZenonT(60), <1>1, <1>5, <1>6, <1>7, <1>8, Sends

\* FPDisconnectOldSession: the socket the session serves is offered.
LEMMA Offers ==
  ASSUME IInv, NEW p \in Pids, NEW t \in Pids, afp_disconnect(p, t)
  PROVE  IInv'
<1> DEFINE m == [kind |-> "DISCOLDSESSION", uid |-> uid[p], token |-> t, sock |-> sock[p]]
           s == Append(up[p], m)
<1>1. phase[p] = "running" /\ UNCHANGED <<uid, sock, die, urg, peer, down, slot>>
  BY Zenon DEF afp_disconnect, signals
<1>2. uid[p] \in Uids /\ up[p] \in Seq(Msgs) /\ sock[p] \in Pids /\ uid[sock[p]] = uid[p]
  BY Zenon, <1>1 DEF IInv, Serves, TypeOK
<1>3. m \in Msgs
  BY Zenon, <1>2 DEF Msgs
<1>4. m.uid = uid[p] /\ m.sock = sock[p]
  BY Zenon
<1>5. up' = [up EXCEPT ![p] = s] /\ phase' = [phase EXCEPT ![p] = "handoff"]
  BY Zenon DEF afp_disconnect
<1>6. recon' \in [Pids -> {0, 1}]
  BY Zenon DEF afp_disconnect, IInv, TypeOK
<1> HIDE DEF m
<1>7. s \in Seq(Msgs) /\ Elems(s) = Elems(up[p]) \cup {m}
  BY SMTT(30), <1>2, <1>3, Appended
<1>8. \A x \in {m} : x.uid = uid[p] /\ (x.kind = "DISCOLDSESSION" => uid[x.sock] = uid[p])
  BY Zenon, <1>2, <1>4
<1> HIDE DEF s
<1> QED BY ZenonT(60), <1>1, <1>5, <1>6, <1>7, <1>8, Sends

\* The old session takes the socket, or ends.
LEMMA Takes ==
  ASSUME IInv, NEW p \in Pids, phase[p] \in Serving \cup {"disc"}, handle_transfer_session(p)
  PROVE  IInv'
<1>1. CASE Exit(p)
  BY Zenon, <1>1, Exits DEF Serving
<1>2. CASE /\ down[p] # <<>>
           /\ phase' = [phase EXCEPT ![p] = "running"]
           /\ sock' = [sock EXCEPT ![p] = Head(down[p])]
           /\ down' = [down EXCEPT ![p] = Tail(@)]
           /\ recon' = [recon EXCEPT ![p] = 0]
           /\ urg' = [urg EXCEPT ![p] = 0]
           /\ UNCHANGED <<uid, die, peer, up, slot>>
  <2>1. down[p] \in Seq(Pids)
    BY Zenon DEF IInv, TypeOK
  <2>2. /\ Tail(down[p]) \in Seq(Pids) /\ Head(down[p]) \in Pids
        /\ Head(down[p]) \in Elems(down[p])
        /\ Elems(Tail(down[p])) \subseteq Elems(down[p])
    BY Zenon, <1>2, <2>1, Taken
  <2>3. \A q \in Pids : /\ phase'[q] = IF q = p THEN "running" ELSE phase[q]
                        /\ sock'[q] = IF q = p THEN Head(down[p]) ELSE sock[q]
                        /\ urg'[q] = IF q = p THEN 0 ELSE urg[q]
                        /\ down'[q] = IF q = p THEN Tail(down[p]) ELSE down[q]
    BY Zenon, <1>2 DEF IInv, TypeOK
  <2>4. TypeOK'
    BY Zenon, <1>2, <2>2 DEF IInv, TypeOK, Phases
  <2>5. Table'
    <3>1. \A q \in Pids : slot'[q].used = slot[q].used
      BY Zenon, <1>2
    <3> QED BY Zenon, <2>3, <3>1, SameTable DEF IInv, Serving
  <2>6. uid[Head(down[p])] = uid[p] /\ uid[p] \in Uids
    BY ZenonT(60), <2>2 DEF IInv, Passed
  <2>7. BeforeLogin' /\ Serves'
    BY SMTT(60), <1>2, <2>2, <2>3, <2>6 DEF IInv, BeforeLogin, Serves
  <2>8. Asked' /\ Recorded'
    BY Zenon, <1>2 DEF IInv, Asked, Recorded
  <2>9. Passed'
    BY SMTT(30), <1>2, <2>2, <2>3 DEF IInv, Passed
  <2>10. SignalHasSocket'
    BY <2>3 DEF IInv, SignalHasSocket
  <2> QED BY ZenonT(60), <2>4, <2>5, <2>7, <2>8, <2>9, <2>10 DEF IInv
<1> QED BY Zenon, <1>1, <1>2 DEF handle_transfer_session

\* The connection is lost.
LEMMA Loses ==
  ASSUME IInv, NEW p \in Pids, phase[p] \in Serving, dsi_disconnect(p)
  PROVE  IInv'
<1>1. CASE uid[p] = None
  BY Zenon, <1>1, Exits DEF Serving, dsi_disconnect
<1>2. CASE uid[p] # None
  <2>1. /\ phase' = [phase EXCEPT ![p] = "disc"]
        /\ sock' = [sock EXCEPT ![p] = None]
        /\ UNCHANGED <<uid, recon, die, urg, peer, up, down, slot>>
    BY Zenon, <1>2 DEF dsi_disconnect, signals, channels
  <2>2. \A q \in Pids : /\ phase'[q] = IF q = p THEN "disc" ELSE phase[q]
                        /\ sock'[q] = IF q = p THEN None ELSE sock[q]
    BY Zenon, <2>1 DEF IInv, TypeOK
  <2>3. TypeOK'
    BY Zenon, <2>1 DEF IInv, TypeOK, Phases
  <2>4. Table'
    <3>1. \A q \in Pids : slot'[q].used = slot[q].used
      BY Zenon, <2>1
    <3> QED BY Zenon, <2>2, <3>1, SameTable DEF IInv, Serving
  <2>5. BeforeLogin' /\ Serves' /\ Asked' /\ Passed'
    <3>1. SendsNone
      BY SMTT(30), <2>1, <2>2 DEF SendsNone
    <3> QED BY Zenon, <3>1, Sends_nothing
  <2>6. Recorded' /\ SignalHasSocket'
    BY Zenon, <2>1, <2>2 DEF IInv, Recorded, SignalHasSocket, Serving
  <2> QED BY Zenon, <2>3, <2>4, <2>5, <2>6 DEF IInv
<1> QED BY Zenon, <1>1, <1>2

\* The hand-over was refused, and the session goes on.
LEMMA GoesOn ==
  ASSUME IInv, NEW p \in Pids, handoff_fails(p)
  PROVE  IInv'
<1>1. /\ phase[p] = "handoff" /\ phase' = [phase EXCEPT ![p] = "running"]
      /\ UNCHANGED <<uid, sock, recon, die, urg, peer, up, down, slot>>
  BY Zenon DEF handoff_fails, signals, channels
<1>2. \A q \in Pids : phase'[q] = IF q = p THEN "running" ELSE phase[q]
  BY Zenon, <1>1 DEF IInv, TypeOK
<1>3. TypeOK'
  BY Zenon, <1>1 DEF IInv, TypeOK, Phases
<1>4. Table'
  <2>1. \A q \in Pids : slot'[q].used = slot[q].used
    BY Zenon, <1>1
  <2> QED BY SMTT(30), <1>1, <1>2, <2>1, SameTable DEF IInv
<1>5. BeforeLogin' /\ Serves' /\ Asked' /\ Passed'
  <2>1. SendsNone
    BY SMTT(30), <1>1, <1>2 DEF SendsNone
  <2> QED BY SMTT(30), <2>1, Sends_nothing
<1>6. Recorded' /\ SignalHasSocket'
  BY Zenon, <1>1, <1>2 DEF IInv, Recorded, SignalHasSocket
<1> QED BY Zenon, <1>3, <1>4, <1>5, <1>6 DEF IInv

\* A step that changes nothing but the clients' ends of the connections.
LEMMA Drops ==
  ASSUME IInv, UNCHANGED <<phase, uid, sock, recon, die, urg, up, down, slot>>,
         peer' \in [Pids -> {"open", "shut"}]
  PROVE  IInv'
<1>1. TypeOK'
  BY Zenon DEF IInv, TypeOK
<1>2. Table'
  BY Zenon, SameTable DEF IInv
<1>3. BeforeLogin' /\ Serves' /\ Asked' /\ Passed' /\ Recorded' /\ SignalHasSocket'
  BY DEF IInv, BeforeLogin, Serves, Asked, Passed, Recorded, SignalHasSocket
<1> QED BY Zenon, <1>1, <1>2, <1>3 DEF IInv

\* Every step keeps the invariant.
LEMMA StepIInv == IInv /\ [Next]_vars => IInv'
<1> SUFFICES ASSUME IInv, [Next]_vars PROVE IInv'
  BY Zenon
<1>1. CASE UNCHANGED vars
  <2>1. peer' \in [Pids -> {"open", "shut"}]
    BY Zenon, <1>1 DEF vars, IInv, TypeOK
  <2> QED BY Zenon, <1>1, <2>1, Drops DEF vars
<1>2. CASE Next
  <2> PICK p \in Pids : Master(p) \/ Session(p) \/ client_drops(p)
    BY Zenon, <1>2 DEF Next
  <2>1. CASE dsi_getsession(p)
    BY Zenon, <2>1, Adds, Refuses DEF dsi_getsession
  <2>2. CASE child_handler(p)
    BY Zenon, <2>2, Reaps
  <2>3. CASE ipc_server_read(p)
    BY Zenon, <2>3, Serves_request
  <2>4. CASE \E u \in Uids : login(p, u)
    BY Zenon, <2>4, LogsIn
  <2>5. CASE \E id \in ClientIds, boot \in BootTimes : afp_getsession(p, id, boot)
    BY Zenon, <2>5, GetsSession
  <2>6. CASE \E t \in Pids : afp_disconnect(p, t)
    BY Zenon, <2>6, Offers
  <2>7. CASE handoff_done(p)
    BY Zenon, <2>7, Exits DEF handoff_done
  <2>8. CASE handoff_fails(p)
    BY <2>8, GoesOn
  <2>9. CASE afp_dsi_close(p)
    BY Zenon, <2>9, Exits DEF afp_dsi_close, Serving
  <2>10. CASE process_deferred_signals(p)
    <3>1. CASE Exit(p)
      BY Zenon, <2>10, <3>1, Exits DEF process_deferred_signals, Serving
    <3>2. CASE handle_transfer_session(p)
      BY Zenon, <2>10, <3>2, Takes DEF process_deferred_signals
    <3> QED BY Zenon, <2>10, <3>1, <3>2 DEF process_deferred_signals
  <2>11. CASE receive_error(p)
    <3>0. phase[p] \in Serving
      BY Zenon, <2>11 DEF receive_error
    <3>1. CASE Exit(p)
      BY Zenon, <3>0, <3>1, Exits DEF Serving
    <3>2. CASE handle_transfer_session(p)
      BY Zenon, <3>0, <3>2, Takes
    <3>3. CASE dsi_disconnect(p)
      BY Zenon, <3>0, <3>3, Loses
    <3> QED BY Zenon, <2>11, <3>1, <3>2, <3>3 DEF receive_error
  <2>12. CASE disconnect_expires(p)
    BY Zenon, <2>12, Exits DEF disconnect_expires
  <2>13. CASE client_times_out(p)
    <3>0. phase[p] \in Serving
      BY Zenon, <2>13 DEF client_times_out
    <3>1. CASE Exit(p)
      BY SMTT(30), <3>0, <3>1, Exits DEF Serving
    <3>2. CASE dsi_disconnect(p)
      BY SMTT(30), <3>0, <3>2, Loses
    <3> QED BY Zenon, <2>13, <3>1, <3>2 DEF client_times_out
  <2>14. CASE client_drops(p)
    <3>1. peer' \in [Pids -> {"open", "shut"}]
      BY Zenon, <2>14 DEF client_drops, IInv, TypeOK
    <3> QED BY Zenon, <2>14, <3>1, Drops DEF client_drops, signals, channels
  <2> QED BY SMTT(30), <2>1, <2>2, <2>3, <2>4, <2>5, <2>6, <2>7, <2>8, <2>9, <2>10, <2>11, <2>12,
             <2>13, <2>14 DEF Master, Session
<1> QED BY Zenon, <1>1, <1>2

-----------------------------------------------------------------------------
(* The steps and the claims. *)

\* A queue after a request that asks for no hand-over.
LEMMA AskNot ==
  ASSUME NEW s \in Seq(Msgs), NEW m \in Msgs, m.kind # "DISCOLDSESSION", OneAsk(s)
  PROVE  OneAsk(Append(s, m)) /\ AsksIn(Append(s, m)) = AsksIn(s)
<1>1. Elems(Append(s, m)) = Elems(s) \cup {m}
  BY Appended
<1>2. AsksIn(Append(s, m)) = AsksIn(s)
  BY Zenon, <1>1 DEF AsksIn
<1>3. Len(Append(s, m)) = Len(s) + 1 /\ Len(s) \in Nat /\ Append(s, m)[Len(s) + 1] = m
      /\ \A i \in 1..Len(s) : Append(s, m)[i] = s[i]
  OBVIOUS
<1>4. \A i \in 1..(Len(s) + 1) : i \in 1..Len(s) \/ i = Len(s) + 1
  BY <1>3
<1>5. OneAsk(Append(s, m))
  BY Zenon, <1>3, <1>4 DEF OneAsk
<1> QED BY Zenon, <1>2, <1>5

\* A queue after a request for a hand-over, where there was none.
LEMMA AskFirst ==
  ASSUME NEW s \in Seq(Msgs), NEW m \in Msgs, m.kind = "DISCOLDSESSION", AsksIn(s) = {}
  PROVE  OneAsk(Append(s, m)) /\ AsksIn(Append(s, m)) = {m}
<1>1. Elems(Append(s, m)) = Elems(s) \cup {m}
  BY Appended
<1>2. AsksIn(Append(s, m)) = {m}
  BY Zenon, <1>1 DEF AsksIn
<1>3. Len(Append(s, m)) = Len(s) + 1 /\ Len(s) \in Nat /\ Append(s, m)[Len(s) + 1] = m
      /\ \A i \in 1..Len(s) : Append(s, m)[i] = s[i]
  OBVIOUS
<1>4. \A i \in 1..(Len(s) + 1) : i \in 1..Len(s) \/ i = Len(s) + 1
  BY <1>3
<1>5. \A i \in 1..Len(s) : s[i].kind # "DISCOLDSESSION"
  BY Zenon DEF AsksIn, Elems
<1>6. OneAsk(Append(s, m))
  BY Zenon, <1>3, <1>4, <1>5 DEF OneAsk
<1> QED BY Zenon, <1>2, <1>6

\* A queue after its head was read: a hand-over at the head was the only one.
LEMMA AskServed ==
  ASSUME NEW s \in Seq(Msgs), s # <<>>, OneAsk(s)
  PROVE  /\ OneAsk(Tail(s))
         /\ Head(s).kind # "DISCOLDSESSION" => AsksIn(Tail(s)) = AsksIn(s)
         /\ Head(s).kind = "DISCOLDSESSION" => Head(s) \in AsksIn(s) /\ AsksIn(Tail(s)) = {}
<1>1. /\ Elems(Tail(s)) \subseteq Elems(s) /\ Head(s) \in Elems(s)
      /\ Len(Tail(s)) = Len(s) - 1 /\ Len(s) \in Nat \ {0}
      /\ \A i \in 1..Len(Tail(s)) : Tail(s)[i] = s[i + 1]
      /\ Head(s) = s[1]
  BY Zenon, Taken
<1>2. \A i \in 1..Len(Tail(s)) : i + 1 \in 1..Len(s) /\ i + 1 # 1
  BY SMTT(30), <1>1
<1>3. OneAsk(Tail(s))
  BY <1>1, <1>2 DEF OneAsk
<1>4. ASSUME Head(s).kind # "DISCOLDSESSION" PROVE AsksIn(Tail(s)) = AsksIn(s)
  <2>1. AsksIn(Tail(s)) \subseteq AsksIn(s)
    BY Zenon, <1>1 DEF AsksIn
  <2>2. ASSUME NEW m \in AsksIn(s) PROVE m \in AsksIn(Tail(s))
    <3>1. PICK i \in 1..Len(s) : m = s[i] /\ m.kind = "DISCOLDSESSION"
      BY Zenon, <2>2 DEF AsksIn, Elems
    <3>2. i # 1
      BY Zenon, <1>1, <1>4, <3>1
    <3>3. i - 1 \in 1..Len(Tail(s)) /\ (i - 1) + 1 = i
      BY SMTT(30), <1>1, <3>2
    <3>4. m = Tail(s)[i - 1]
      BY Zenon, <1>1, <3>1, <3>3
    <3> QED BY Zenon, <3>1, <3>3, <3>4 DEF AsksIn, Elems
  <2> QED BY Zenon, <2>1, <2>2
<1>5. ASSUME Head(s).kind = "DISCOLDSESSION" PROVE Head(s) \in AsksIn(s) /\ AsksIn(Tail(s)) = {}
  <2>1. 1 \in 1..Len(s)
    BY SMTT(30), <1>1
  <2>2. \A i \in 1..Len(Tail(s)) : Tail(s)[i].kind # "DISCOLDSESSION"
    BY Zenon, <1>1, <1>2, <1>5, <2>1 DEF OneAsk
  <2>3. AsksIn(Tail(s)) = {}
    BY Zenon, <2>2 DEF AsksIn, Elems
  <2> QED BY Zenon, <1>1, <1>5, <2>3 DEF AsksIn
<1> QED BY Zenon, <1>3, <1>4, <1>5

\* No socket twice, after one more was sent (send_fd).
LEMMA SendOnce ==
  ASSUME NEW S, NEW s \in Seq(S), NEW x \in S, Once(s), x \notin Elems(s)
  PROVE  Once(Append(s, x))
<1>1. Len(Append(s, x)) = Len(s) + 1 /\ Len(s) \in Nat /\ Append(s, x)[Len(s) + 1] = x
      /\ \A i \in 1..Len(s) : Append(s, x)[i] = s[i]
  OBVIOUS
<1>2. \A i \in 1..(Len(s) + 1) : i \in 1..Len(s) \/ i = Len(s) + 1
  BY <1>1
<1>3. \A i \in 1..Len(s) : s[i] # x
  BY Zenon DEF Elems
<1> QED BY Zenon, <1>1, <1>2, <1>3 DEF Once

\* No socket twice, after the first was taken (recv_fd).
LEMMA TakeOnce ==
  ASSUME NEW S, NEW s \in Seq(S), s # <<>>, Once(s)
  PROVE  Once(Tail(s)) /\ Head(s) \notin Elems(Tail(s))
<1>1. /\ Len(Tail(s)) = Len(s) - 1 /\ Len(s) \in Nat \ {0}
      /\ \A i \in 1..Len(Tail(s)) : Tail(s)[i] = s[i + 1]
      /\ Head(s) = s[1]
  BY Zenon, Taken
<1>2. \A i \in 1..Len(Tail(s)) : i + 1 \in 1..Len(s) /\ i + 1 # 1
  BY <1>1
<1>3. Once(Tail(s))
  BY <1>1, <1>2 DEF Once
<1>4. 1 \in 1..Len(s)
  BY <1>1
<1>5. \A i \in 1..Len(Tail(s)) : Tail(s)[i] # Head(s)
  BY Zenon, <1>1, <1>2, <1>4 DEF Once
<1> QED BY Zenon, <1>3, <1>5 DEF Elems

\* A connection moves from one claim to another.
LEMMA OneMoves ==
  ASSUME OneClaim, NEW p0 \in Pids, NEW k0 \in Kinds, NEW p1 \in Pids, NEW k1 \in Kinds,
         NEW c \in Claim(p0, k0), c \notin Claim(p0, k0)',
         \A q \in Pids, k \in Kinds :
           Claim(q, k)' \subseteq Claim(q, k) \cup (IF <<q, k>> = <<p1, k1>> THEN {c} ELSE {})
  PROVE  OneClaim'
<1>1. \A q \in Pids, k \in Kinds : <<q, k>> # <<p1, k1>> => c \notin Claim(q, k)'
  BY SMTT(30) DEF OneClaim
<1> SUFFICES ASSUME NEW p \in Pids, NEW q \in Pids, NEW k \in Kinds, NEW l \in Kinds,
                    <<p, k>> # <<q, l>>, NEW d \in Claim(p, k)', d \in Claim(q, l)'
             PROVE  FALSE
  BY SMTT(30) DEF OneClaim
<1>2. d # c
  BY Zenon, <1>1
<1>3. d \in Claim(p, k) /\ d \in Claim(q, l)
  BY Zenon, <1>2
<1> QED BY SMTT(30), <1>3 DEF OneClaim

\* A new connection, or none.
LEMMA OneNew ==
  ASSUME OneClaim, NEW p1 \in Pids, NEW k1 \in Kinds, NEW new,
         \A q \in Pids, k \in Kinds : Claim(q, k) \cap new = {},
         \A q \in Pids, k \in Kinds :
           Claim(q, k)' \subseteq Claim(q, k) \cup (IF <<q, k>> = <<p1, k1>> THEN new ELSE {})
  PROVE  OneClaim'
<1> SUFFICES ASSUME NEW p \in Pids, NEW q \in Pids, NEW k \in Kinds, NEW l \in Kinds,
                    <<p, k>> # <<q, l>>, NEW d \in Claim(p, k)', d \in Claim(q, l)'
             PROVE  FALSE
  BY Zenon DEF OneClaim
<1>1. CASE d \in new
  BY Zenon, <1>1
<1>2. CASE d \notin new
  <2>1. d \in Claim(p, k) /\ d \in Claim(q, l)
    BY Zenon, <1>2
  <2> QED BY Zenon, <2>1 DEF OneClaim
<1> QED BY Zenon, <1>1, <1>2

\* A step that claims nothing.
ClaimsNone ==
  \A q \in Pids :
    /\ OneAsk(up'[q]) /\ AsksIn(up'[q]) \subseteq AsksIn(up[q])
    /\ AsksIn(up'[q]) # {} => phase'[q] \in {"handoff", "exited"}
    /\ down'[q] = down[q] \/ down'[q] = <<>>
    /\ phase'[q] \in Serving => Holds(q) /\ sock'[q] = sock[q]
    /\ phase'[q] = "handoff" => /\ phase[q] = "handoff" /\ sock'[q] = sock[q]
                                /\ die'[q] = 0 => die[q] = 0
                                /\ AsksIn(up'[q]) = AsksIn(up[q])

\* Such a step leaves each connection in one place.
LEMMA Claims_nothing ==
  ASSUME OneHome, ClaimsNone
  PROVE  OneHome'
<1> USE DEF ClaimsNone, OneHome
<1>1. ASSUME NEW q \in Pids PROVE Holds(q)' => Holds(q) /\ sock'[q] = sock[q]
  BY Zenon DEF Holds
<1>2. ASSUME NEW q \in Pids, NEW k \in Kinds PROVE Claim(q, k)' \subseteq Claim(q, k)
  <2>1. CASE k = "sock"
    BY Zenon, <1>1, <2>1 DEF Claim
  <2>2. CASE k = "asked"
    BY Zenon, <2>2 DEF Claim
  <2>3. CASE k = "sent"
    BY Zenon, <2>3, NoElems DEF Claim
  <2> QED BY Zenon, <2>1, <2>2, <2>3 DEF Kinds
<1>3. OneClaim'
  <2> SUFFICES ASSUME NEW p \in Pids, NEW q \in Pids, NEW k \in Kinds, NEW l \in Kinds,
                      <<p, k>> # <<q, l>>, NEW d \in Claim(p, k)', d \in Claim(q, l)'
               PROVE  FALSE
    BY Zenon DEF OneClaim
  <2>1. d \in Claim(p, k) /\ d \in Claim(q, l)
    BY Zenon, <1>2
  <2> QED BY Zenon, <2>1 DEF OneClaim
<1>4. Asking'
  BY Zenon DEF Asking
<1>5. SentOnce'
  <2>1. Once(<<>>)
    BY DEF Once
  <2> QED BY Zenon, <2>1 DEF SentOnce
<1> QED BY Zenon, <1>3, <1>4, <1>5 DEF OneHome

\* A process exits.
LEMMA ExitsClaim ==
  ASSUME IInv, OneHome, NEW p \in Pids, Exit(p)
  PROVE  OneHome'
<1>1. \A q \in Pids : /\ phase'[q] = IF q = p THEN "exited" ELSE phase[q]
                      /\ q # p => sock'[q] = sock[q] /\ die'[q] = die[q]
                      /\ up'[q] = up[q] /\ down'[q] = down[q]
  BY Zenon DEF Exit, channels, IInv, TypeOK
<1>2. \A q \in Pids : /\ OneAsk(up[q])
                      /\ AsksIn(up[q]) # {} => phase[q] \in {"handoff", "exited"}
  BY Zenon DEF OneHome, Asking
<1>3. \A q \in Pids : phase[q] \in Serving => Holds(q)
  BY Zenon DEF Holds
<1>4. ClaimsNone
  BY Zenon, <1>1, <1>2, <1>3 DEF ClaimsNone, Serving
<1> QED BY Zenon, <1>4, Claims_nothing

\* A client is accepted: nothing refers to its connection yet.
LEMMA AddsClaim ==
  ASSUME IInv, OneHome, NEW p \in Pids, phase[p] = "none", server_child_add(p)
  PROVE  OneHome'
<1>1. \A q \in Pids : /\ phase'[q] = IF q = p THEN "opened" ELSE phase[q]
                      /\ sock'[q] = IF q = p THEN p ELSE sock[q]
  BY Zenon DEF server_child_add, IInv, TypeOK
<1>2. UNCHANGED <<die, up, down>>
  BY Zenon DEF server_child_add, channels, signals
<1>3. uid[p] \notin Uids /\ up[p] = <<>>
  BY Zenon, Distinct DEF IInv, BeforeLogin
<1>4. ASSUME NEW q \in Pids, NEW k \in Kinds PROVE p \notin Claim(q, k)
  <2>1. CASE k = "sock"
    <3> SUFFICES ASSUME Holds(q) PROVE sock[q] # p
      BY Zenon, <2>1 DEF Claim
    <3>1. phase[q] \in {"opened", "running", "handoff"}
      BY Zenon DEF Holds, Serving
    <3>2. CASE phase[q] = "opened"
      BY Zenon, <3>2 DEF IInv, BeforeLogin
    <3>3. CASE phase[q] \in {"running", "handoff"}
      BY Zenon, <1>3, <3>3 DEF IInv, Serves
    <3> QED BY Zenon, <3>1, <3>2, <3>3
  <2>2. CASE k = "asked"
    <3> SUFFICES ASSUME NEW m \in AsksIn(up[q]) PROVE m.sock # p
      BY Zenon, <2>2 DEF Claim
    <3>1. m \in Elems(up[q]) /\ m.kind = "DISCOLDSESSION" /\ up[q] \in Seq(Msgs)
      BY Zenon DEF AsksIn, IInv, TypeOK
    <3>2. m \in Msgs
      BY Zenon, <3>1, ElemType
    <3>3. m.uid = uid[q] /\ uid[m.sock] = uid[q] /\ m.uid \in Uids
      BY Zenon, <3>1, <3>2, MsgFields DEF IInv, Asked
    <3> QED BY Zenon, <1>3, <3>3
  <2>3. CASE k = "sent"
    BY Zenon, <1>3, <2>3 DEF Claim, IInv, Passed
  <2> QED BY Zenon, <2>1, <2>2, <2>3 DEF Kinds
<1>5. ASSUME NEW q \in Pids, NEW k \in Kinds
      PROVE  Claim(q, k)' \subseteq Claim(q, k) \cup (IF <<q, k>> = <<p, "sock">> THEN {p} ELSE {})
  <2>1. CASE k = "sock"
    BY Zenon, <1>1, <1>2, <2>1 DEF Claim, Holds
  <2>2. CASE k = "asked"
    BY Zenon, <1>2, <2>2 DEF Claim
  <2>3. CASE k = "sent"
    BY Zenon, <1>2, <2>3 DEF Claim
  <2> QED BY Zenon, <2>1, <2>2, <2>3 DEF Kinds
<1>6. OneClaim'
  <2> DEFINE new == {p}
             k1 == "sock"
  <2>1. OneClaim /\ k1 \in Kinds
    BY Zenon DEF OneHome, Kinds
  <2>2. \A q \in Pids, k \in Kinds : Claim(q, k) \cap new = {}
    BY Zenon, <1>4
  <2>3. \A q \in Pids, k \in Kinds :
          Claim(q, k)' \subseteq Claim(q, k) \cup (IF <<q, k>> = <<p, k1>> THEN new ELSE {})
    BY Zenon, <1>5
  <2> HIDE DEF new, k1
  <2> QED BY SMTT(30), <2>1, <2>2, <2>3, OneNew
<1>7. Asking'
  <2>1. AsksIn(up[p]) = {}
    BY Zenon, <1>3, NoElems DEF AsksIn
  <2> QED BY Zenon, <1>1, <1>2, <2>1 DEF OneHome, Asking
<1>8. SentOnce'
  BY Zenon, <1>2 DEF OneHome, SentOnce
<1> QED BY Zenon, <1>6, <1>7, <1>8 DEF OneHome

\* A step that leaves the hand-overs, the sockets sent and the phases alone.
LEMMA StillClaim ==
  ASSUME OneHome, UNCHANGED <<phase, sock, die, down>>,
         \A q \in Pids : OneAsk(up'[q]) /\ AsksIn(up'[q]) = AsksIn(up[q])
  PROVE  OneHome'
<1>1. \A q \in Pids : AsksIn(up[q]) # {} => phase[q] \in {"handoff", "exited"}
  BY Zenon DEF OneHome, Asking
<1>2. \A q \in Pids : phase[q] \in Serving => Holds(q)
  BY Zenon DEF Holds
<1>3. ClaimsNone
  BY Zenon, <1>1, <1>2 DEF ClaimsNone
<1> QED BY Zenon, <1>3, Claims_nothing

\* A client is refused.
LEMMA RefusesClaim ==
  ASSUME IInv, OneHome, NEW p \in Pids, phase[p] = "none", refuse(p)
  PROVE  OneHome'
<1>1. \A q \in Pids : phase'[q] = IF q = p THEN "gone" ELSE phase[q]
  BY Zenon DEF refuse, IInv, TypeOK
<1>2. UNCHANGED <<sock, die, up, down>>
  BY Zenon DEF refuse, channels, signals
<1>3. AsksIn(up[p]) = {}
  BY Zenon, NoElems DEF IInv, BeforeLogin, AsksIn
<1>4. \A q \in Pids : /\ OneAsk(up[q])
                      /\ AsksIn(up[q]) # {} => phase[q] \in {"handoff", "exited"}
  BY Zenon DEF OneHome, Asking
<1>5. \A q \in Pids : phase[q] \in Serving => Holds(q)
  BY Zenon DEF Holds
<1>6. ClaimsNone
  BY ZenonT(60), <1>1, <1>2, <1>3, <1>4, <1>5 DEF ClaimsNone, Serving
<1> QED BY Zenon, <1>6, Claims_nothing

\* A zombie is reaped: what it asked for and was sent is lost.
LEMMA ReapsClaim ==
  ASSUME IInv, OneHome, NEW p \in Pids, child_handler(p)
  PROVE  OneHome'
<1>1. \A q \in Pids : /\ phase'[q] = IF q = p THEN "gone" ELSE phase[q]
                      /\ up'[q] = IF q = p THEN <<>> ELSE up[q]
                      /\ down'[q] = IF q = p THEN <<>> ELSE down[q]
                      /\ q # p => die'[q] = die[q]
                      /\ sock'[q] = sock[q]
  BY Zenon DEF child_handler, IInv, TypeOK
<1>2. AsksIn(<<>>) = {} /\ OneAsk(<<>>)
  BY NoElems DEF AsksIn, OneAsk
<1>3. \A q \in Pids : /\ OneAsk(up[q])
                      /\ AsksIn(up[q]) # {} => phase[q] \in {"handoff", "exited"}
  BY DEF OneHome, Asking
<1>4. \A q \in Pids : phase[q] \in Serving => Holds(q)
  BY DEF Holds
<1>5. "gone" \notin Serving
  BY Zenon DEF Serving
<1>6. ClaimsNone
  BY Zenon, <1>1, <1>2, <1>3, <1>4, <1>5 DEF ClaimsNone
<1> QED BY <1>6, Claims_nothing

\* The queues of the sessions while the master reads the head of one.
LEMMA QueueRead ==
  ASSUME IInv, OneHome, NEW p \in Pids, up[p] # <<>>, up' = [up EXCEPT ![p] = Tail(@)]
  PROVE  /\ \A q \in Pids : OneAsk(up'[q])
         /\ \A q \in Pids \ {p} : up'[q] = up[q]
         /\ Head(up[p]).kind # "DISCOLDSESSION" => AsksIn(up'[p]) = AsksIn(up[p])
         /\ Head(up[p]).kind = "DISCOLDSESSION" =>
              /\ Head(up[p]) \in AsksIn(up[p]) /\ AsksIn(up'[p]) = {}
              /\ phase[p] \in {"handoff", "exited"}
              /\ phase[p] = "handoff" => Head(up[p]).sock = sock[p]
<1>1. \A q \in Pids : up'[q] = IF q = p THEN Tail(up[p]) ELSE up[q]
  BY Zenon DEF IInv, TypeOK
<1>2. up[p] \in Seq(Msgs) /\ \A q \in Pids : OneAsk(up[q])
  BY Zenon DEF IInv, TypeOK, OneHome, Asking
<1>3. /\ OneAsk(Tail(up[p]))
      /\ Head(up[p]).kind # "DISCOLDSESSION" => AsksIn(Tail(up[p])) = AsksIn(up[p])
      /\ Head(up[p]).kind = "DISCOLDSESSION" =>
           Head(up[p]) \in AsksIn(up[p]) /\ AsksIn(Tail(up[p])) = {}
  BY Zenon, <1>2, AskServed
<1>4. Head(up[p]) \in AsksIn(up[p]) =>
        /\ phase[p] \in {"handoff", "exited"}
        /\ phase[p] = "handoff" => Head(up[p]).sock = sock[p]
  BY Zenon DEF OneHome, Asking
<1> QED BY Zenon, <1>1, <1>2, <1>3, <1>4

\* IPC_GETSESSION kills sessions; it claims nothing.
LEMMA KillsClaim ==
  ASSUME IInv, OneHome, NEW p \in Pids, up[p] # <<>>, up' = [up EXCEPT ![p] = Tail(@)],
         Head(up[p]).kind = "GETSESSION", server_child_kill_one_by_id(p, Head(up[p]))
  PROVE  OneHome'
<1> DEFINE m == Head(up[p])
           again == {q \in Stale(p, m) : slot[q].killed = 1 /\ phase[q] # "exited"}
           first == {q \in Stale(p, m) : slot[q].killed = 0}
<1>1. /\ die' = [q \in Pids |-> IF q \in first THEN 1 ELSE die[q]]
      /\ phase' = [q \in Pids |-> IF q \in again THEN "exited" ELSE phase[q]]
      /\ sock' = [q \in Pids |-> IF q \in again THEN None ELSE sock[q]]
      /\ down' = down
  BY Zenon DEF server_child_kill_one_by_id
<1> HIDE DEF again, first
<1>2. \A q \in Pids : /\ die'[q] = 0 => die[q] = 0
                      /\ phase'[q] = "exited" \/ (phase'[q] = phase[q] /\ sock'[q] = sock[q])
  BY SMTT(60), <1>1
<1>3. \A q \in Pids : OneAsk(up'[q]) /\ AsksIn(up'[q]) = AsksIn(up[q])
  BY Zenon, QueueRead
<1>4. \A q \in Pids : AsksIn(up[q]) # {} => phase[q] \in {"handoff", "exited"}
  BY Zenon DEF OneHome, Asking
<1>5. \A q \in Pids : phase[q] \in Serving => Holds(q)
  BY Zenon DEF Holds
<1>6. "exited" \notin Serving
  BY Zenon DEF Serving
<1>7. ClaimsNone
  BY Zenon, <1>1, <1>2, <1>3, <1>4, <1>5, <1>6 DEF ClaimsNone
<1> QED BY Zenon, <1>7, Claims_nothing

\* IPC_DISCOLDSESSION is refused: a session that still waits keeps its client.
LEMMA KeepsClaim ==
  ASSUME IInv, OneHome, NEW p \in Pids, up[p] # <<>>, up' = [up EXCEPT ![p] = Tail(@)],
         Head(up[p]).kind = "DISCOLDSESSION", UNCHANGED <<phase, sock, die, down>>
  PROVE  OneHome'
<1> DEFINE c == Head(up[p]).sock
           k0 == "asked"
           k1 == "sock"
<1>1. /\ \A q \in Pids : OneAsk(up'[q])
      /\ \A q \in Pids \ {p} : up'[q] = up[q]
      /\ Head(up[p]) \in AsksIn(up[p]) /\ AsksIn(up'[p]) = {}
      /\ phase[p] \in {"handoff", "exited"}
      /\ phase[p] = "handoff" => c = sock[p]
  BY Zenon, QueueRead
<1>2. OneClaim /\ k0 \in Kinds /\ k1 \in Kinds
  BY Zenon DEF OneHome, Kinds
<1>3. c \in Claim(p, k0) /\ c \notin Claim(p, k0)'
  BY Zenon, <1>1 DEF Claim
<1>4. ASSUME NEW q \in Pids, NEW k \in Kinds
      PROVE  Claim(q, k)' \subseteq Claim(q, k) \cup (IF <<q, k>> = <<p, k1>> THEN {c} ELSE {})
  <2>1. CASE k = "sock"
    <3>1. CASE q = p
      BY Zenon, <1>1, <2>1, <3>1 DEF Claim, Holds, Serving
    <3>2. CASE q # p
      BY Zenon, <1>1, <2>1, <3>2 DEF Claim, Holds
    <3> QED BY Zenon, <3>1, <3>2
  <2>2. CASE k = "asked"
    BY Zenon, <1>1, <2>2 DEF Claim
  <2>3. CASE k = "sent"
    BY Zenon, <2>3 DEF Claim
  <2> QED BY Zenon, <2>1, <2>2, <2>3 DEF Kinds
<1> HIDE DEF c, k0, k1
<1>5. OneClaim'
  BY Zenon, <1>2, <1>3, <1>4, OneMoves
<1>6. Asking'
  BY Zenon, <1>1 DEF OneHome, Asking
<1>7. SentOnce'
  BY Zenon DEF OneHome, SentOnce
<1> QED BY Zenon, <1>5, <1>6, <1>7 DEF OneHome

\* IPC_DISCOLDSESSION is served: the socket is on its way to the old session,
\* and the new one has been told to exit.
LEMMA TransfersClaim ==
  ASSUME IInv, OneHome, NEW p \in Pids, up[p] # <<>>, up' = [up EXCEPT ![p] = Tail(@)],
         Head(up[p]).kind = "DISCOLDSESSION",
         NEW t \in Pids, down' = [down EXCEPT ![t] = Append(@, Head(up[p]).sock)],
         die' = [die EXCEPT ![p] = 1], UNCHANGED <<phase, sock>>
  PROVE  OneHome'
<1> DEFINE c == Head(up[p]).sock
           k0 == "asked"
           k1 == "sent"
<1>1. /\ \A q \in Pids : OneAsk(up'[q])
      /\ \A q \in Pids \ {p} : up'[q] = up[q]
      /\ Head(up[p]) \in AsksIn(up[p]) /\ AsksIn(up'[p]) = {}
      /\ phase[p] \in {"handoff", "exited"}
  BY Zenon, QueueRead
<1>2. OneClaim /\ k0 \in Kinds /\ k1 \in Kinds
  BY Zenon DEF OneHome, Kinds
<1>3. c \in Claim(p, k0) /\ c \notin Claim(p, k0)'
  BY Zenon, <1>1 DEF Claim
<1>4. c \in Pids /\ down[t] \in Seq(Pids)
  BY Zenon, HeadAsked DEF IInv, TypeOK
<1>5. /\ \A q \in Pids : down'[q] = IF q = t THEN Append(down[t], c) ELSE down[q]
      /\ \A q \in Pids : die'[q] = IF q = p THEN 1 ELSE die[q]
  BY Zenon DEF IInv, TypeOK
<1>6. Elems(Append(down[t], c)) = Elems(down[t]) \cup {c}
  BY SMTT(60), <1>4, Appended
<1>7. ASSUME NEW q \in Pids, NEW k \in Kinds
      PROVE  Claim(q, k)' \subseteq Claim(q, k) \cup (IF <<q, k>> = <<t, k1>> THEN {c} ELSE {})
  <2>1. CASE k = "sock"
    <3>1. CASE q = p
      <4>1. ~Holds(q)'
        BY SMTT(60), <1>1, <1>5, <3>1 DEF Holds, Serving
      <4> QED BY Zenon, <2>1, <4>1 DEF Claim
    <3>2. CASE q # p
      <4>1. Holds(q)' <=> Holds(q)
        BY Zenon, <1>1, <1>5, <3>2 DEF Holds
      <4> QED BY Zenon, <2>1, <4>1 DEF Claim
    <3> QED BY Zenon, <3>1, <3>2
  <2>2. CASE k = "asked"
    BY Zenon, <1>1, <2>2 DEF Claim
  <2>3. CASE k = "sent"
    BY Zenon, <1>5, <1>6, <2>3 DEF Claim
  <2> QED BY Zenon, <2>1, <2>2, <2>3 DEF Kinds
<1>8. c \notin Elems(down[t])
  <2>1. Claim(t, k1) = Elems(down[t]) /\ <<p, k0>> # <<t, k1>>
    BY Zenon DEF Claim
  <2> QED BY SMTT(60), <1>2, <1>3, <2>1 DEF OneClaim
<1> HIDE DEF c, k0, k1
<1>9. OneClaim'
  BY Zenon, <1>2, <1>3, <1>7, OneMoves
<1>10. Asking'
  BY Zenon, <1>1 DEF OneHome, Asking
<1>11. SentOnce'
  <2>1. \A q \in Pids : Once(down[q])
    BY Zenon DEF OneHome, SentOnce
  <2>2. Once(Append(down[t], c))
    BY Zenon, <1>4, <1>8, <2>1, SendOnce
  <2> QED BY SMTT(30), <1>5, <2>1, <2>2 DEF SentOnce
<1> QED BY Zenon, <1>9, <1>10, <1>11 DEF OneHome

\* One request of a session, of any kind.
LEMMA RequestClaim ==
  ASSUME IInv, OneHome, NEW p \in Pids, ipc_server_read(p)
  PROVE  OneHome'
<1> DEFINE m == Head(up[p])
<1>1. up[p] # <<>> /\ up' = [up EXCEPT ![p] = Tail(@)]
  BY Zenon DEF ipc_server_read
<1>2. CASE /\ m.kind \in {"LOGINDONE", "SESSIONTOKEN"}
           /\ UNCHANGED <<phase, sock, die, down>>
  <2>1. \A q \in Pids : OneAsk(up'[q]) /\ AsksIn(up'[q]) = AsksIn(up[q])
    BY Zenon, <1>1, <1>2, QueueRead
  <2> QED BY Zenon, <1>2, <2>1, StillClaim
<1>3. CASE m.kind = "GETSESSION" /\ server_child_kill_one_by_id(p, m)
  BY Zenon, <1>1, <1>3, KillsClaim
<1>4. CASE m.kind = "DISCOLDSESSION" /\ server_child_transfer_session(p, m)
  <2>1. CASE Usable(m)
    <3>1. /\ down' = [down EXCEPT ![m.token] = Append(@, m.sock)]
          /\ die' = [die EXCEPT ![p] = 1]
          /\ UNCHANGED <<phase, sock>>
      BY Zenon, <1>4, <2>1 DEF server_child_transfer_session, Transfer
    <3>2. m.token \in Pids
      BY Zenon, <1>1, <1>4, HeadAsked
    <3> QED BY Zenon, <1>1, <1>4, <3>1, <3>2, TransfersClaim
  <2>2. CASE ~Usable(m)
    <3>1. UNCHANGED <<phase, sock, die, down>>
      BY Zenon, <1>4, <2>2 DEF server_child_transfer_session, Transfer, signals
    <3> QED BY Zenon, <1>1, <1>4, <3>1, KeepsClaim
  <2> QED BY Zenon, <2>1, <2>2
<1> QED BY Zenon, <1>2, <1>3, <1>4
        DEF ipc_server_read, server_child_login_done, server_child_set_session_token, signals

\* A client logs in.
LEMMA LogsInClaim ==
  ASSUME IInv, OneHome, NEW p \in Pids, NEW u \in Uids, login(p, u)
  PROVE  OneHome'
<1> DEFINE m == [kind |-> "LOGINDONE", uid |-> u]
<1>1. phase[p] = "opened" /\ UNCHANGED <<sock, die, down>>
  BY Zenon DEF login, signals
<1>2. \A q \in Pids : /\ phase'[q] = IF q = p THEN "running" ELSE phase[q]
                      /\ up'[q] = IF q = p THEN Append(up[p], m) ELSE up[q]
  BY Zenon DEF login, IInv, TypeOK
<1>3. up[p] \in Seq(Msgs) /\ m \in Msgs /\ m.kind # "DISCOLDSESSION"
  BY Zenon DEF IInv, TypeOK, Msgs
<1>4. \A q \in Pids : /\ OneAsk(up[q])
                      /\ AsksIn(up[q]) # {} => phase[q] \in {"handoff", "exited"}
  BY Zenon DEF OneHome, Asking
<1> HIDE DEF m
<1>5. OneAsk(Append(up[p], m)) /\ AsksIn(Append(up[p], m)) = AsksIn(up[p])
  BY Zenon, <1>3, <1>4, AskNot
<1>6. \A q \in Pids : OneAsk(up'[q]) /\ AsksIn(up'[q]) = AsksIn(up[q])
  BY Zenon, <1>2, <1>4, <1>5
<1>7. \A q \in Pids : phase[q] \in Serving => Holds(q)
  BY Zenon DEF Holds
<1>8. phase[p] \in Serving /\ AsksIn(up[p]) = {}
  BY Zenon, <1>1, <1>4 DEF Serving
<1>9. ClaimsNone
  BY Zenon, <1>1, <1>2, <1>4, <1>6, <1>7, <1>8 DEF ClaimsNone
<1> QED BY Zenon, <1>9, Claims_nothing

\* FPGetSession asks for no hand-over.
LEMMA GetsSessionClaim ==
  ASSUME IInv, OneHome, NEW p \in Pids, NEW id \in ClientIds, NEW boot \in BootTimes,
         afp_getsession(p, id, boot)
  PROVE  OneHome'
<1> DEFINE a == [kind |-> "SESSIONTOKEN", uid |-> uid[p]]
           b == [kind |-> "GETSESSION", uid |-> uid[p], id |-> id, boot |-> boot]
           x == Append(up[p], a)
<1>1. phase[p] = "running" /\ UNCHANGED <<phase, sock, die, down>>
  BY Zenon DEF afp_getsession, signals
<1>2. uid[p] \in Uids /\ up[p] \in Seq(Msgs)
  BY Zenon, <1>1 DEF IInv, Serves, TypeOK
<1>3. a \in Msgs /\ b \in Msgs
  BY Zenon, <1>2 DEF Msgs
<1>4. a.kind # "DISCOLDSESSION" /\ b.kind # "DISCOLDSESSION"
  BY Zenon
<1>5. \A q \in Pids : up'[q] = IF q = p THEN up[p] \o <<a, b>> ELSE up[q]
  BY Zenon DEF afp_getsession, IInv, TypeOK
<1> HIDE DEF a, b
<1>6. \A q \in Pids : OneAsk(up[q])
  BY Zenon DEF OneHome, Asking
<1>7. OneAsk(x) /\ AsksIn(x) = AsksIn(up[p]) /\ x \in Seq(Msgs)
  BY Zenon, <1>2, <1>3, <1>4, <1>6, AskNot, Appended
<1>8. up[p] \o <<a, b>> = Append(x, b)
  BY SMTT(30), <1>2, <1>3, TwoAppended
<1> HIDE DEF x
<1>9. OneAsk(Append(x, b)) /\ AsksIn(Append(x, b)) = AsksIn(up[p])
  BY Zenon, <1>3, <1>4, <1>7, AskNot
<1>10. \A q \in Pids : OneAsk(up'[q]) /\ AsksIn(up'[q]) = AsksIn(up[q])
  BY Zenon, <1>5, <1>6, <1>8, <1>9
<1> QED BY Zenon, <1>1, <1>10, StillClaim

\* FPDisconnectOldSession: the session no longer serves, it waits for the answer.
LEMMA OffersClaim ==
  ASSUME IInv, OneHome, NEW p \in Pids, NEW t \in Pids, afp_disconnect(p, t)
  PROVE  OneHome'
<1> DEFINE m == [kind |-> "DISCOLDSESSION", uid |-> uid[p], token |-> t, sock |-> sock[p]]
           c == sock[p]
           k0 == "sock"
           k1 == "asked"
<1>1. phase[p] = "running" /\ UNCHANGED <<sock, die, down>>
  BY Zenon DEF afp_disconnect, signals
<1>2. uid[p] \in Uids /\ up[p] \in Seq(Msgs) /\ sock[p] \in Pids
  BY Zenon, <1>1 DEF IInv, Serves, TypeOK
<1>3. m \in Msgs /\ m.kind = "DISCOLDSESSION" /\ m.sock = c
  BY Zenon, <1>2 DEF Msgs
<1>4. \A q \in Pids : /\ phase'[q] = IF q = p THEN "handoff" ELSE phase[q]
                      /\ up'[q] = IF q = p THEN Append(up[p], m) ELSE up[q]
  BY Zenon DEF afp_disconnect, IInv, TypeOK
<1> HIDE DEF m
<1>5. AsksIn(up[p]) = {} /\ \A q \in Pids : OneAsk(up[q])
  BY Zenon, <1>1 DEF OneHome, Asking
<1>6. OneAsk(Append(up[p], m)) /\ AsksIn(Append(up[p], m)) = {m}
  BY Zenon, <1>2, <1>3, <1>5, AskFirst
<1>7. OneClaim /\ k0 \in Kinds /\ k1 \in Kinds
  BY Zenon DEF OneHome, Kinds
<1>8. Holds(p) /\ ~Holds(p)'
  BY Zenon, <1>1, <1>4, <1>6 DEF Holds, Serving
<1>9. c \in Claim(p, k0) /\ c \notin Claim(p, k0)'
  BY Zenon, <1>8 DEF Claim
<1>10. ASSUME NEW q \in Pids, NEW k \in Kinds
       PROVE  Claim(q, k)' \subseteq Claim(q, k) \cup (IF <<q, k>> = <<p, k1>> THEN {c} ELSE {})
  <2>1. CASE k = "sock"
    <3>1. Holds(q)' => Holds(q)
      BY Zenon, <1>1, <1>4, <1>8 DEF Holds
    <3> QED BY Zenon, <1>1, <2>1, <3>1 DEF Claim
  <2>2. CASE k = "asked"
    <3>1. CASE q = p
      BY SMTT(60), <1>3, <1>4, <1>6, <2>2, <3>1 DEF Claim
    <3>2. CASE q # p
      BY Zenon, <1>4, <2>2, <3>2 DEF Claim
    <3> QED BY Zenon, <3>1, <3>2
  <2>3. CASE k = "sent"
    BY Zenon, <1>1, <2>3 DEF Claim
  <2> QED BY Zenon, <2>1, <2>2, <2>3 DEF Kinds
<1>11. Asking'
  <2> SUFFICES ASSUME NEW q \in Pids
               PROVE  /\ OneAsk(up'[q])
                      /\ AsksIn(up'[q]) # {} => phase'[q] \in {"handoff", "exited"}
                      /\ phase'[q] = "handoff" => \A x \in AsksIn(up'[q]) : x.sock = sock'[q]
    BY Zenon DEF Asking
  <2>1. CASE q = p
    BY Zenon, <1>1, <1>3, <1>4, <1>6, <2>1
  <2>2. CASE q # p
    BY Zenon, <1>1, <1>4, <2>2 DEF OneHome, Asking
  <2> QED BY Zenon, <2>1, <2>2
<1>12. SentOnce'
  BY Zenon, <1>1 DEF OneHome, SentOnce
<1> HIDE DEF c, k0, k1
<1>13. OneClaim'
  BY SMTT(30), <1>7, <1>9, <1>10, OneMoves
<1> QED BY Zenon, <1>11, <1>12, <1>13 DEF OneHome

\* The old session takes the first socket that was sent to it.
LEMMA TakesClaim ==
  ASSUME IInv, OneHome, NEW p \in Pids, phase[p] \in Serving \cup {"disc"},
         handle_transfer_session(p)
  PROVE  OneHome'
<1>1. CASE Exit(p)
  BY Zenon, <1>1, ExitsClaim
<1>2. CASE /\ down[p] # <<>>
           /\ phase' = [phase EXCEPT ![p] = "running"]
           /\ sock' = [sock EXCEPT ![p] = Head(down[p])]
           /\ down' = [down EXCEPT ![p] = Tail(@)]
           /\ UNCHANGED <<die, up>>
  <2> DEFINE c == Head(down[p])
             k0 == "sent"
             k1 == "sock"
  <2>1. down[p] \in Seq(Pids) /\ \A q \in Pids : Once(down[q])
    BY Zenon DEF IInv, TypeOK, OneHome, SentOnce
  <2>2. c \in Elems(down[p]) /\ Elems(Tail(down[p])) \subseteq Elems(down[p])
    BY Zenon, <1>2, <2>1, Taken
  <2>3. Once(Tail(down[p])) /\ c \notin Elems(Tail(down[p]))
    BY Zenon, <1>2, <2>1, TakeOnce
  <2>4. \A q \in Pids : /\ phase'[q] = IF q = p THEN "running" ELSE phase[q]
                        /\ sock'[q] = IF q = p THEN c ELSE sock[q]
                        /\ down'[q] = IF q = p THEN Tail(down[p]) ELSE down[q]
    BY Zenon, <1>2 DEF IInv, TypeOK
  <2>5. OneClaim /\ k0 \in Kinds /\ k1 \in Kinds
    BY Zenon DEF OneHome, Kinds
  <2>6. c \in Claim(p, k0) /\ c \notin Claim(p, k0)'
    BY Zenon, <2>2, <2>3, <2>4 DEF Claim
  <2>7. ASSUME NEW q \in Pids, NEW k \in Kinds
        PROVE  Claim(q, k)' \subseteq Claim(q, k) \cup (IF <<q, k>> = <<p, k1>> THEN {c} ELSE {})
    <3>1. CASE k = "sock"
      <4>1. CASE q = p
        BY Zenon, <2>4, <3>1, <4>1 DEF Claim
      <4>2. CASE q # p
        <5>1. Holds(q)' <=> Holds(q)
          BY Zenon, <1>2, <2>4, <4>2 DEF Holds
        <5> QED BY Zenon, <2>4, <3>1, <4>2, <5>1 DEF Claim
      <4> QED BY Zenon, <4>1, <4>2
    <3>2. CASE k = "asked"
      BY Zenon, <1>2, <3>2 DEF Claim
    <3>3. CASE k = "sent"
      BY Zenon, <2>2, <2>4, <3>3 DEF Claim
    <3> QED BY Zenon, <3>1, <3>2, <3>3 DEF Kinds
  <2>8. Asking'
    <3>1. AsksIn(up[p]) = {}
      BY Zenon DEF OneHome, Asking, Serving
    <3> QED BY Zenon, <1>2, <2>4, <3>1 DEF OneHome, Asking
  <2>9. SentOnce'
    BY Zenon, <2>1, <2>3, <2>4 DEF SentOnce
  <2> HIDE DEF c, k0, k1
  <2>10. OneClaim'
    BY ZenonT(60), <2>5, <2>6, <2>7, OneMoves
  <2> QED BY Zenon, <2>8, <2>9, <2>10 DEF OneHome
<1> QED BY Zenon, <1>1, <1>2 DEF handle_transfer_session

\* The connection is lost.
LEMMA LosesClaim ==
  ASSUME IInv, OneHome, NEW p \in Pids, phase[p] \in Serving, dsi_disconnect(p)
  PROVE  OneHome'
<1>1. CASE Exit(p)
  BY Zenon, <1>1, ExitsClaim
<1>2. CASE /\ phase' = [phase EXCEPT ![p] = "disc"]
           /\ sock' = [sock EXCEPT ![p] = None]
           /\ UNCHANGED <<die, up, down>>
  <2>1. \A q \in Pids : /\ phase'[q] = IF q = p THEN "disc" ELSE phase[q]
                        /\ q # p => sock'[q] = sock[q]
    BY Zenon, <1>2 DEF IInv, TypeOK
  <2>2. \A q \in Pids : /\ OneAsk(up[q])
                        /\ AsksIn(up[q]) # {} => phase[q] \in {"handoff", "exited"}
    BY Zenon DEF OneHome, Asking
  <2>3. \A q \in Pids : phase[q] \in Serving => Holds(q)
    BY Zenon DEF Holds
  <2>4. AsksIn(up[p]) = {} /\ "disc" \notin Serving
    BY Zenon, <2>2 DEF Serving
  <2>5. ClaimsNone
    BY SMTT(30), <1>2, <2>1, <2>2, <2>3, <2>4 DEF ClaimsNone
  <2> QED BY Zenon, <2>5, Claims_nothing
<1> QED BY Zenon, <1>1, <1>2 DEF dsi_disconnect, signals, channels

\* The hand-over was refused.  A timely master has read the request by then.
LEMMA GoesOnClaim ==
  ASSUME IInv, OneHome, Timely, NEW p \in Pids, handoff_fails(p)
  PROVE  OneHome'
<1>1. /\ phase[p] = "handoff" /\ die[p] = 0
      /\ UNCHANGED <<sock, die, up, down>>
  BY Zenon DEF handoff_fails, signals, channels
<1>2. \A q \in Pids : phase'[q] = IF q = p THEN "running" ELSE phase[q]
  BY Zenon DEF handoff_fails, IInv, TypeOK
<1>3. AsksIn(up[p]) = {}
  <2>1. up[p] \in Seq(Msgs)
    BY Zenon DEF IInv, TypeOK
  <2>2. DOMAIN up[p] = 1..Len(up[p])
    BY SMTT(30), <2>1
  <2> QED BY Zenon, <2>2 DEF handoff_fails, AsksIn, Elems
<1>4. \A q \in Pids : /\ OneAsk(up[q])
                      /\ AsksIn(up[q]) # {} => phase[q] \in {"handoff", "exited"}
  BY Zenon DEF OneHome, Asking
<1>5. Holds(p) /\ \A q \in Pids : phase[q] \in Serving => Holds(q)
  BY Zenon, <1>1, <1>3 DEF Holds
<1>6. ClaimsNone
  BY Zenon, <1>1, <1>2, <1>3, <1>4, <1>5 DEF ClaimsNone
<1> QED BY Zenon, <1>6, Claims_nothing

\* Every step keeps each connection in one place, when the master is timely.
LEMMA StepHInv == IInv /\ HInv /\ [Next]_vars => HInv'
<1> SUFFICES ASSUME IInv, OneHome, Timely, [Next]_vars PROVE OneHome'
  BY Zenon DEF HInv
<1>0. \A q \in Pids : OneAsk(up[q])
  BY Zenon DEF OneHome, Asking
<1>1. CASE UNCHANGED <<phase, sock, die, up, down>>
  BY Zenon, <1>0, <1>1, StillClaim
<1>2. CASE Next
  <2> PICK p \in Pids : Master(p) \/ Session(p) \/ client_drops(p)
    BY Zenon, <1>2 DEF Next
  <2>1. CASE dsi_getsession(p)
    BY Zenon, <2>1, AddsClaim, RefusesClaim DEF dsi_getsession
  <2>2. CASE child_handler(p)
    BY Zenon, <2>2, ReapsClaim
  <2>3. CASE ipc_server_read(p)
    BY Zenon, <2>3, RequestClaim
  <2>4. CASE \E u \in Uids : login(p, u)
    BY Zenon, <2>4, LogsInClaim
  <2>5. CASE \E id \in ClientIds, boot \in BootTimes : afp_getsession(p, id, boot)
    BY Zenon, <2>5, GetsSessionClaim
  <2>6. CASE \E t \in Pids : afp_disconnect(p, t)
    BY Zenon, <2>6, OffersClaim
  <2>7. CASE Exit(p)
    BY <2>7, ExitsClaim
  <2>8. CASE handoff_fails(p)
    BY Zenon, <2>8, GoesOnClaim
  <2>9. CASE phase[p] \in Serving \cup {"disc"} /\ handle_transfer_session(p)
    BY Zenon, <2>9, TakesClaim
  <2>10. CASE phase[p] \in Serving /\ dsi_disconnect(p)
    BY Zenon, <2>10, LosesClaim
  <2>11. CASE client_drops(p)
    BY Zenon, <1>1, <2>11 DEF client_drops, signals, channels
  <2>12. CASE process_deferred_signals(p) \/ receive_error(p) \/ client_times_out(p)
    BY Zenon, <2>7, <2>9, <2>10, <2>12 DEF process_deferred_signals, receive_error, client_times_out
  <2>13. CASE handoff_done(p) \/ afp_dsi_close(p) \/ disconnect_expires(p)
    BY Zenon, <2>7, <2>13 DEF handoff_done, afp_dsi_close, disconnect_expires
  <2> QED BY ZenonT(60), <2>1, <2>2, <2>3, <2>4, <2>5, <2>6, <2>8, <2>11, <2>12, <2>13
          DEF Master, Session
<1> QED BY Zenon, <1>1, <1>2 DEF vars

-----------------------------------------------------------------------------
\* For every number of processes and users, and however late the master is: the
\* child table holds exactly the processes forked and not reaped, and never more
\* than the limit dsi_getsession tests (server_child_add, server_child_remove).
THEOREM TableExact == Spec => []TableIsExact
<1>1. IInv => TableIsExact
  <2> SUFFICES ASSUME IInv PROVE TableIsExact
    BY Zenon
  <2>1. Children = {p \in Pids : phase[p] \notin {"none", "gone"}}
    BY Zenon DEF IInv, Table, Children
  <2> QED BY Zenon, <2>1 DEF IInv, Table, TableIsExact
<1>2. Init => IInv
  BY Zenon, InitIInv
<1> QED BY <1>1, <1>2, StepIInv, PTL DEF Spec

\* For every number of processes and users: across any chain of reconnects a
\* session serves only connections whose login was by its own user, and a
\* session signalled to take a connection finds the socket on its channel
\* (server_child_transfer_session, handle_transfer_session).
THEOREM Handover == Spec => []HandoverSound
<1>1. IInv => HandoverSound
  BY Zenon DEF IInv, Serves, HandoverSound, SameUser
<1>2. Init => IInv
  BY InitIInv
<1> QED BY <1>1, <1>2, StepIInv, PTL DEF Spec

\* For every number of processes, when the master reads a request within the
\* five seconds of afp_disconnect: no connection is served by two sessions.
THEOREM SingleServer == ASSUME Timely PROVE Spec => []OneServer
<1>1. HInv => OneServer
  <2> SUFFICES ASSUME OneClaim, NEW p \in Pids, NEW q \in Pids, p # q,
                      phase[p] \in Serving, phase[q] \in Serving
               PROVE  sock[p] # sock[q]
    BY Zenon DEF HInv, OneHome, OneServer
  <2>1. Claim(p, "sock") = {sock[p]} /\ Claim(q, "sock") = {sock[q]} /\ "sock" \in Kinds
    BY Zenon DEF Claim, Holds, Kinds
  <2>2. Claim(p, "sock") \cap Claim(q, "sock") = {}
    BY Zenon, <2>1 DEF OneClaim
  <2> QED BY Zenon, <2>1, <2>2
<1>2. Init => IInv /\ HInv
  BY Zenon, InitIInv
<1>3. IInv /\ HInv /\ [Next]_vars => IInv' /\ HInv'
  BY Zenon, StepIInv, StepHInv
<1> QED BY <1>1, <1>2, <1>3, PTL DEF Spec

=============================================================================
