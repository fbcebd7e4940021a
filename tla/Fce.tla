-------------------------------- MODULE Fce --------------------------------
(***************************************************************************)
(* File change events (etc/afpd/fce_api.c, etc/afpd/fce_util.c): what one  *)
(* session tells the listeners about its changes of a volume.              *)
(*                                                                         *)
(* fx.tree gives the version of what is at each path, 0 for nothing.  A    *)
(* listener keeps a copy: it takes over the version of a path when an      *)
(* event of the path arrives, forgets a deleted path and moves a moved     *)
(* one.  It counts the event IDs, and knows from a hole in them, or from   *)
(* FCE_CONN_BROKEN, that it missed events.  Time is fx.now: a tick is the  *)
(* coalescing window, the hold time of modifications and a unit of the     *)
(* retry delay.                                                            *)
(***************************************************************************)
EXTENDS Integers, Sequences, FiniteSets, FiniteSetsExt, SequencesExt

CONSTANTS FceListeners, \* the listeners
          FceDirs,      \* the paths of folders
          FceFiles,     \* the paths of files
          FceAbove,     \* pairs <<d, p>>: folder d is above p
          FcePrefix,    \* pairs <<p, q>> of different paths: the string p begins q
          FceHistory,   \* FCE_HISTORY_LEN
          FceRetry,     \* FCE_SOCKET_RETRY_DELAY_S
          FceIds,       \* number of event IDs, 2^32
          FceConfigs    \* [tree, listeners, deaf, coalesce, hold, ignore, below, long, ops, reqs,
                        \*  fails, drops, ticks]

VARIABLE fx
fceVars == <<fx>>

Paths == FceDirs \cup FceFiles
NoPath == ""
Unused == [time |-> 0, ev |-> "none", path |-> NoPath]

FceInit ==
    \E c \in FceConfigs :
        fx = [cf |-> c, tree |-> c.tree, now |-> 1, first |-> 1, id |-> 0,
              hist |-> [i \in 1..FceHistory |-> Unused],
              held |-> [time |-> 0, path |-> NoPath],
              sock |-> [l \in FceListeners |-> [open |-> 0, next |-> 0]],
              copy |-> [l \in FceListeners |-> c.tree],
              due |-> [l \in FceListeners |-> 0], hole |-> [l \in FceListeners |-> 0],
              state |-> "login"]

(***************************************************************************)
(* A listener.                                                             *)
(***************************************************************************)
Follow(s, copy, ev, path, old) ==
    CASE ev = "delete" -> [copy EXCEPT ![path] = 0]
      [] ev = "move" -> [copy EXCEPT ![path] = copy[old], ![old] = 0]
      [] ev \in {"create", "modify"} -> [copy EXCEPT ![path] = s.tree[path]]
      [] OTHER -> copy

Deliver(s, l, ev, path, old, id) ==
    IF ev = "broken" THEN [s EXCEPT !.hole[l] = 1]
    ELSE [s EXCEPT !.due[l] = (id + 1) % FceIds,
                   !.hole[l] = IF ev # "start" /\ id # s.due[l] THEN 1 ELSE @,
                   !.copy[l] = Follow(s, @, ev, path, old)]

(***************************************************************************)
(* Sending.                                                                *)
(***************************************************************************)
Fails(s) == s.cf.fails > 0
Spent(s) == [s EXCEPT !.cf.fails = @ - 1]

\* A packet that does not fit is not sent.
build_fce_packet(s, path, old) == {path, old} \cap s.cf.long = {}

fce_init_udp(s) ==
    [s EXCEPT !.sock = [l \in FceListeners |->
        [open |-> IF l \in s.cf.deaf THEN 0 ELSE 1, next |-> 0]]]

\* The datagram arrives, is lost on the way, or the send breaks the socket.
sendto(s, l, ev, path, old, id) ==
    {Deliver(s, l, ev, path, old, id)}
    \cup (IF s.cf.drops > 0 THEN {[s EXCEPT !.cf.drops = @ - 1]} ELSE {})
    \cup (IF Fails(s) THEN {Spent([s EXCEPT !.sock[l] = [open |-> 0, next |-> s.now + FceRetry]])}
          ELSE {})

\* A socket that broke is opened again once the delay is over, and its
\* listener told.  deaf names the listeners whose address did not resolve.
Reopened(s, l) ==
    LET rest == [s EXCEPT !.sock[l].next = s.now + FceRetry]
        again == Deliver([s EXCEPT !.sock[l] = [open |-> 1, next |-> 0]], l, "broken", NoPath, NoPath, 0)
    IN  IF s.sock[l].open = 1 THEN {s}
        ELSE IF s.now < s.sock[l].next THEN {s}
        ELSE IF l \in s.cf.deaf THEN {rest}
        ELSE {again} \cup (IF Fails(s) THEN {Spent(rest)} ELSE {})

SendTo(s, l, ev, path, old) ==
    UNION { IF t.sock[l].open = 0 \/ ~build_fce_packet(t, path, old) THEN {t}
            ELSE sendto(t, l, ev, path, old, t.id) : t \in Reopened(s, l) }

NextId(s) == (s.id + 1) % FceIds

RECURSIVE SendEach(_, _, _, _, _)
SendEach(states, ls, ev, path, old) ==
    IF ls = {} THEN states
    ELSE LET l == CHOOSE x \in ls : TRUE
         IN  SendEach(UNION {SendTo(t, l, ev, path, old) : t \in states}, ls \ {l}, ev, path, old)

SendAll(s, ev, path, old) ==
    {[t EXCEPT !.id = NextId(t)] : t \in SendEach({s}, s.cf.listeners, ev, path, old)}

\* The first event of the session opens the sockets and tells of the start.
send_fce_event(s, ev, path, old) ==
    IF s.first = 0 THEN SendAll(s, ev, path, old)
    ELSE UNION {SendAll(t, ev, path, old) :
                t \in SendAll(fce_init_udp([s EXCEPT !.first = 0]), "start", NoPath, NoPath)}

(***************************************************************************)
(* Coalescing and holding back.                                            *)
(***************************************************************************)
Begins(p, q) == p = q \/ p = NoPath \/ <<p, q>> \in FcePrefix

\* The history is read in its order: an entry too old is dropped on the way,
\* one that covers the event ends the search.  The event that passes takes the
\* last free entry, or else the first of the oldest ones.
fce_handle_coalescation(s, ev, path) ==
    LET stale(h) == h.time = 0 \/ h.time < s.now
        covers(h) == ~stale(h) /\ Begins(h.path, path) /\
            \/ "create" \in s.cf.coalesce /\ h.ev = "dcreate"
            \/ "delete" \in s.cf.coalesce /\ ev = "delete"
        at == {i \in 1..FceHistory : covers(s.hist[i])}
        last == IF at = {} THEN FceHistory ELSE Min(at)
        swept == [i \in 1..FceHistory |-> IF i <= last /\ stale(s.hist[i]) THEN Unused ELSE s.hist[i]]
        free == {i \in 1..FceHistory : swept[i] = Unused}
        slot == IF free # {} THEN Max(free)
                ELSE Min({i \in 1..FceHistory : \A j \in 1..FceHistory : swept[i].time <= swept[j].time})
    IN  IF s.cf.coalesce = {} THEN [s |-> s, drop |-> FALSE]
        ELSE IF ev = "fcreate" /\ "create" \in s.cf.coalesce THEN [s |-> s, drop |-> TRUE]
        ELSE IF at # {} THEN [s |-> [s EXCEPT !.hist = swept], drop |-> TRUE]
        ELSE [s |-> [s EXCEPT !.hist = [swept EXCEPT ![slot] = [time |-> s.now, ev |-> ev, path |-> path]]],
              drop |-> FALSE]

\* Mutant: a modification of another file takes the place of the held one.
save_close_event_over(s, path) == {[s EXCEPT !.held = [time |-> s.now, path |-> path]]}

\* A held modification of another file goes out first.
save_close_event(s, path) ==
    {[t EXCEPT !.held = [time |-> s.now, path |-> path]] :
        t \in IF s.held.time # 0 /\ s.held.path # path
              THEN send_fce_event(s, "modify", s.held.path, NoPath) ELSE {s}}

\* The wire knows one event for the creations of files and folders each.
Wire(ev) == IF ev \in {"fcreate", "dcreate"} THEN "create" ELSE ev

Ignored(s, path) ==
    path \in s.cf.ignore \/ \E d \in s.cf.below : d = path \/ <<d, path>> \in FceAbove

fce_coalesced(c, ev, path, old) ==
    IF c.drop THEN {c.s}
    ELSE IF ev = "modify" /\ c.s.cf.hold = 1 THEN save_close_event(c.s, path)
    ELSE send_fce_event(c.s, Wire(ev), path, old)
fce_register(s, ev, path, old) ==
    IF s.cf.listeners = {} \/ Ignored(s, path) THEN {s}
    ELSE fce_coalesced(fce_handle_coalescation(s, ev, path), ev, path, old)

check_saved_close_events(s) ==
    IF s.held.time = 0 \/ s.held.time >= s.now THEN {s}
    ELSE {[t EXCEPT !.held = [time |-> 0, path |-> NoPath]] :
             t \in send_fce_event(s, "modify", s.held.path, NoPath)}

fce_pending_events(s) == IF s.cf.listeners = {} THEN {s} ELSE check_saved_close_events(s)

(***************************************************************************)
(* The requests that cause events.                                         *)
(***************************************************************************)
Parents(p) == {d \in FceDirs : <<d, p>> \in FceAbove}
Here(s, p) == s.tree[p] # 0 /\ \A d \in Parents(p) : s.tree[d] # 0
CanBe(s, p) == s.tree[p] = 0 /\ \A d \in Parents(p) : s.tree[d] # 0
Newest(s) == Max({s.tree[p] : p \in Paths} \cup {0}) + 1
Put(s, p) == [s EXCEPT !.tree[p] = Newest(s)]

\* moveandrename of a file or of an empty folder.
Moved(s, p, q) == [s EXCEPT !.tree[p] = 0, !.tree[q] = s.tree[p]]

Request(s, op, p, q) ==
    CASE op = "fcreate" /\ p \in FceFiles /\ CanBe(s, p) -> fce_register(Put(s, p), "fcreate", p, NoPath)
      [] op = "dcreate" /\ p \in FceDirs /\ CanBe(s, p) -> fce_register(Put(s, p), "dcreate", p, NoPath)
      [] op = "copy" /\ p \in FceFiles /\ q \in FceFiles /\ Here(s, p) /\ CanBe(s, q) ->
             fce_register(Put(s, q), "fcreate", q, NoPath)
      [] op = "write" /\ p \in FceFiles /\ Here(s, p) -> fce_register(Put(s, p), "modify", p, NoPath)
      [] op = "delete" /\ Here(s, p) /\ (\A x \in Paths : <<p, x>> \in FceAbove => s.tree[x] = 0) ->
             fce_register([s EXCEPT !.tree[p] = 0], "delete", p, NoPath)
      [] op = "move" /\ Here(s, p) /\ CanBe(s, q) /\ (p \in FceDirs <=> q \in FceDirs)
             /\ s.held.path # p /\ (\A x \in Paths : <<p, x>> \in FceAbove => s.tree[x] = 0)
             /\ <<p, q>> \notin FceAbove ->
             fce_register(Moved(s, p, q), "move", q, p)
      [] OTHER -> {}

afp_login ==
    /\ fx.state = "login"
    /\ \E t \in fce_register(fx, "login", NoPath, NoPath) : fx' = [t EXCEPT !.state = "up"]

afp_over_dsi(op, p, q) ==
    /\ fx.state = "up" /\ fx.cf.reqs > 0
    /\ \E t \in Request(fx, op, p, q) :
        \E u \in fce_pending_events(t) : fx' = [u EXCEPT !.cf.reqs = @ - 1]

\* A tickle is a request without an effect of its own.
tickle == fx.state = "up" /\ fx' \in fce_pending_events(fx)

afp_logout ==
    /\ fx.state = "up" /\ "logout" \in fx.cf.ops
    /\ \E t \in fce_register(fx, "logout", NoPath, NoPath) :
        \E u \in fce_pending_events(t) : fx' = [u EXCEPT !.state = "out"]

Tick ==
    /\ fx.cf.ticks > 0 /\ fx.state # "out"
    /\ fx' = [fx EXCEPT !.cf.ticks = @ - 1, !.now = @ + 1]

FceNext ==
    \/ afp_login \/ tickle \/ afp_logout \/ Tick
    \/ \E op \in fx.cf.ops, p \in Paths, q \in Paths :
        (op \notin {"copy", "move"} => p = q) /\ afp_over_dsi(op, p, q)

FceSpec == FceInit /\ [][FceNext]_fceVars

FceTypeOK ==
    /\ fx.id \in 0..(FceIds - 1) /\ fx.first \in {0, 1}
    /\ \A l \in fx.cf.listeners : fx.due[l] \in 0..(FceIds - 1) /\ fx.hole[l] \in {0, 1}
    /\ fx.held.path \in Paths \cup {NoPath}
    /\ \A i \in 1..FceHistory : fx.hist[i].time \in 0..fx.now

(***************************************************************************)
(* Properties.                                                             *)
(***************************************************************************)
\* A listener that was told of the start and has seen every ID up to the last
\* one has a true copy of what the session changed, but for the modification
\* that a session in progress holds back.  A listener that missed an event
\* sees it from the IDs or from FCE_CONN_BROKEN (send_fce_event,
\* save_close_event, fce_pending_events; events are neither coalesced nor
\* ignored nor too long here).
ListenerFollows ==
    \A l \in fx.cf.listeners :
        fx.first = 0 /\ l \notin fx.cf.deaf /\ fx.hole[l] = 0 /\ fx.due[l] = fx.id
        /\ fx.cf.coalesce = {} /\ fx.cf.ignore \cup fx.cf.below = {} =>
            \A p \in Paths : \/ fx.copy[l][p] = fx.tree[p]
                             \/ fx.state = "up" /\ fx.held.time # 0 /\ fx.held.path = p

=============================================================================
