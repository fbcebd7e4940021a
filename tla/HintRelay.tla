------------------------------ MODULE HintRelay -----------------------------
(***************************************************************************)
(* The dircache hints between the sessions of one afpd: sending            *)
(* (ipc_send_cache_hint, cnid_volume_reset), batching, rate limits and     *)
(* relay in the master (libatalk/util/server_ipc.c, main.c), and the       *)
(* receiver (process_cache_hints in etc/afpd/dircache.c).                  *)
(*                                                                         *)
(* Ordinary hints are best effort: a full socket, buffer or pipe drops     *)
(* them.  A volume reset says that every id of a volume is obsolete; the   *)
(* session that receives it ends.                                          *)
(***************************************************************************)
EXTENDS Integers, Sequences, FiniteSets

CONSTANTS Pids,            \* process ids, integers
          Objects,         \* cached files and directories
          Tags,            \* volumes
          IpcCap,          \* hints an IPC socket holds
          PipeCap,         \* hints a hint pipe holds
          BufSize,         \* HINT_BUF_SIZE
          RateLimit,       \* HINT_RATE_LIMIT
          ResetLimit,      \* HINT_RESET_RATE_LIMIT
          TrackSize,       \* RATE_TRACK_SIZE
          SeenSize,        \* RESET_SEEN_SIZE
          WaitBudget,      \* HINT_RESET_WAIT_BUDGET
          MaxSecond, MaxGen   \* bounds of a run: seconds, resets of a volume

VARIABLES state,     \* each session process
          view,      \* the generation of each volume a session has open
          gen,       \* resets of each volume so far
          stale,     \* objects whose cached copy a session would serve is old
          ipc,       \* IPC sockets, to the master
          buf,       \* hint_buf
          track, seen, waits,  \* rate_track, reset_seen, the wait budget
          pipe,      \* hint pipes, to the sessions
          second,    \* time(NULL)
          passed,    \* hints relayed for each session in this second
          dropped,   \* objects of which an ordinary hint was dropped
          missed     \* <<session, volume, how>>: a reset did not reach the session

sessions == <<state, view, gen, stale>>
master == <<buf, track, seen, waits, passed>>
vars == <<sessions, master, ipc, pipe, second, dropped, missed>>

Events == {"REFRESH", "DELETE", "RESET"}
Hints == [event : Events, key : Objects \cup Tags, src : Pids]
NotOpen == -1

(* The ways to miss a reset: the sender's socket was full, the relay's limits
   or a full pipe (all three logged), the reset came in the second of another
   and was taken for a repeat, or it was in the socket of a reaped child. *)
Ways == {"sender", "relay", "repeat", "reap"}

TypeOK ==
  /\ state \in [Pids -> {"absent", "alive", "ending", "exited", "reaped"}]
  /\ view \in [Pids -> [Tags -> NotOpen..MaxGen]]
  /\ gen \in [Tags -> 0..MaxGen]
  /\ stale \in [Pids -> SUBSET Objects]
  /\ \A p \in Pids : ipc[p] \in Seq(Hints) /\ Len(ipc[p]) <= IpcCap
  /\ buf \in Seq(Hints) /\ Len(buf) <= BufSize
  /\ track \in [0..TrackSize-1 -> [pid : Pids \cup {0}, window : 0..MaxSecond,
                                   count : Nat, resets : Nat]]
  /\ seen \in [1..SeenSize -> [tag : Tags \cup {0}, when : 0..MaxSecond]]
  /\ waits \in [window : 0..MaxSecond, left : 0..WaitBudget]
  /\ \A p \in Pids : pipe[p] \in Seq(Hints)
  /\ second \in 1..MaxSecond /\ passed \in [Pids -> Nat]
  /\ dropped \subseteq Objects /\ missed \subseteq Pids \X Tags \X Ways

Init ==
  /\ state = [p \in Pids |-> "absent"]
  /\ view = [p \in Pids |-> [t \in Tags |-> NotOpen]]
  /\ gen = [t \in Tags |-> 0]
  /\ stale = [p \in Pids |-> {}]
  /\ ipc = [p \in Pids |-> <<>>] /\ pipe = [p \in Pids |-> <<>>]
  /\ buf = <<>>
  /\ track = [i \in 0..TrackSize-1 |->
                [pid |-> 0, window |-> 0, count |-> 0, resets |-> 0]]
  /\ seen = [i \in 1..SeenSize |-> [tag |-> 0, when |-> 0]]
  /\ waits = [window |-> 0, left |-> 0]
  /\ second = 1 /\ passed = [p \in Pids |-> 0]
  /\ dropped = {} /\ missed = {}

(* The entries of the child table. *)
Children == {p \in Pids : state[p] \in {"alive", "ending", "exited"}}
Live == {p \in Pids : state[p] \in {"alive", "ending"}}

(* reset_already_broadcast: a tag of this second is a repeat, a new one takes
   the oldest slot.  Mutant: the second is not compared. *)
Repeat_any_time(tag) == \E i \in 1..SeenSize : seen[i].tag = tag
Repeat(tag) == \E i \in 1..SeenSize : seen[i] = [tag |-> tag, when |-> second]
Oldest == CHOOSE i \in 1..SeenSize :
            \A j \in 1..SeenSize : \/ seen[i].when < seen[j].when
                                   \/ seen[i].when = seen[j].when /\ i <= j

Resets(s) == {s[i].key : i \in {j \in DOMAIN s : s[j].event = "RESET"}}

-----------------------------------------------------------------------------
(* The sessions *)

login(p) ==
  /\ state[p] = "absent"
  /\ state' = [state EXCEPT ![p] = "alive"]
  /\ UNCHANGED <<view, gen, stale, master, ipc, pipe, second, dropped, missed>>

openvol(p, t) ==
  /\ state[p] = "alive" /\ view[p][t] = NotOpen
  /\ view' = [view EXCEPT ![p][t] = gen[t]]
  /\ UNCHANGED <<state, gen, stale, master, ipc, pipe, second, dropped, missed>>

(* ipc_send_cache_hint of an ordinary event after the session changed object o:
   a full socket drops the hint. *)
change(p, o, event) ==
  /\ state[p] = "alive"
  /\ stale' = [q \in Pids |-> IF q = p THEN stale[q] \ {o}
                              ELSE IF q \in Live THEN stale[q] \cup {o}
                              ELSE stale[q]]
  /\ \/ /\ Len(ipc[p]) < IpcCap
        /\ ipc' = [ipc EXCEPT ![p] = Append(@, [event |-> event, key |-> o, src |-> p])]
        /\ UNCHANGED dropped
     \/ /\ Len(ipc[p]) = IpcCap
        /\ dropped' = dropped \cup {o} /\ UNCHANGED ipc
  /\ UNCHANGED <<state, view, gen, master, pipe, second, missed>>

(* The sessions that use ids of volume t from before its last reset. *)
Obsolete(t) == {q \in Pids : state[q] = "alive" /\ view[q][t] \in 0..gen[t]-1}

(* cnid_volume_reset: the session that reset the CNID table announces it and
   raises SIGTERM; a socket that stays full is logged. *)
cnid_volume_reset(p, t) ==
  /\ state[p] = "alive" /\ view[p][t] # NotOpen /\ gen[t] < MaxGen
  /\ gen' = [gen EXCEPT ![t] = @ + 1]
  /\ state' = [state EXCEPT ![p] = "ending"]
  /\ \/ /\ Len(ipc[p]) < IpcCap
        /\ ipc' = [ipc EXCEPT ![p] = Append(@, [event |-> "RESET", key |-> t, src |-> p])]
        /\ UNCHANGED missed
     \/ /\ Len(ipc[p]) = IpcCap
        /\ missed' = missed \cup ((Pids \ {p}) \X {t} \X {"sender"}) /\ UNCHANGED ipc
  /\ UNCHANGED <<view, stale, master, pipe, second, dropped>>

(* The pending SIGTERM takes effect between requests. *)
afp_dsi_die(p) ==
  /\ state[p] = "ending"
  /\ state' = [state EXCEPT ![p] = "exited"]
  /\ pipe' = [pipe EXCEPT ![p] = <<>>]
  /\ stale' = [stale EXCEPT ![p] = {}]
  /\ UNCHANGED <<view, gen, master, ipc, second, dropped, missed>>

(* process_cache_hints, one hint: a reset of an open volume raises SIGTERM and
   the rest of the pipe no longer matters; any other hint mends the entry from
   the file system. *)
process_cache_hints(p) ==
  /\ state[p] = "alive" /\ pipe[p] # <<>>
  /\ LET h == Head(pipe[p])
     IN IF h.event = "RESET"
        THEN /\ state' = IF view[p][h.key] # NotOpen
                         THEN [state EXCEPT ![p] = "ending"] ELSE state
             /\ UNCHANGED stale
        ELSE stale' = [stale EXCEPT ![p] = @ \ {h.key}] /\ UNCHANGED state
  /\ pipe' = [pipe EXCEPT ![p] = Tail(@)]
  /\ UNCHANGED <<view, gen, master, ipc, second, dropped, missed>>

-----------------------------------------------------------------------------
(* The master: rate limits and the batch *)

(* rate_slot: a slot held for another pid or an older second starts afresh. *)
rate_slot(p) ==
  LET r == track[p % TrackSize]
  IN IF r.pid = p /\ r.window = second THEN r
     ELSE [pid |-> p, window |-> second, count |-> 0, resets |-> 0]

(* Mutant: the batch is searched for the object alone. *)
Redundant_any_sender(h) ==
  h.event = "REFRESH" /\ \E i \in DOMAIN buf : buf[i].event = "REFRESH" /\ buf[i].key = h.key

(* A sender's second refresh of an object in one batch adds nothing. *)
Redundant(h) == h.event = "REFRESH" /\ \E i \in DOMAIN buf : buf[i] = h

(* Delivery order within a batch. *)
ByPriority(s) == SelectSeq(s, LAMBDA h : h.event = "RESET")
                 \o SelectSeq(s, LAMBDA h : h.event = "REFRESH")
                 \o SelectSeq(s, LAMBDA h : h.event = "DELETE")

(* What a sibling is sent of a batch: all but its own hints. *)
Batch(q, s) == SelectSeq(ByPriority(s), LAMBDA h : h.src # q)

(* Mutant: a sibling that missed a reset stays marked as told. *)
forget_nothing(s, lost) == s

(* reset_broadcast_forget for every reset of a batch that missed a sibling. *)
reset_broadcast_forget(s, lost) ==
  [i \in 1..SeenSize |-> IF s[i].tag \in lost THEN [tag |-> 0, when |-> 0] ELSE s[i]]

(* hint_flush_pending of batch s, with reset_seen r, after the object of hint
   cut was turned away.  A sibling takes its batch
   in one write or not at all; a batch with a reset may wait for room while the
   budget of the second lasts, and the sibling may make room meanwhile.  A
   sibling that has exited takes nothing. *)
Flush(s, r, cut) ==
  LET left == IF waits.window = second THEN waits.left ELSE WaitBudget
      to == {q \in Children : Batch(q, s) # <<>>}
      full == {q \in to : state[q] # "exited" /\ Len(pipe[q]) + Len(Batch(q, s)) > PipeCap}
      stuck == {q \in full : Resets(Batch(q, s)) # {}}
  IN \E waited \in SUBSET stuck :
       /\ Cardinality(waited) = IF Cardinality(stuck) < left THEN Cardinality(stuck) ELSE left
       /\ \E late \in SUBSET waited :
            LET got == {q \in to : state[q] # "exited"} \ (full \ late)
                lost == {q \in to \ got : Resets(Batch(q, s)) # {}}
            IN /\ waits' = [window |-> second, left |-> left - Cardinality(waited)]
               /\ pipe' = [q \in Pids |-> IF q \in got THEN pipe[q] \o Batch(q, s)
                                          ELSE pipe[q]]
               /\ seen' = reset_broadcast_forget(r, IF lost = {} THEN {} ELSE Resets(s))
               /\ missed' = missed \cup (lost \X Resets(s) \X {"relay"})
               /\ dropped' = dropped \cup cut \cup
                    {s[i].key : i \in {j \in DOMAIN s :
                                 s[j].event # "RESET" /\ \E q \in to \ got : s[j].src # q}}

(* Mutant: an accepted hint is not counted. *)
Counted_not(p, isReset) == [track EXCEPT ![p % TrackSize] = rate_slot(p)]

(* check_and_increment_rate and check_and_increment_reset_rate. *)
Counted(p, isReset) ==
  [track EXCEPT ![p % TrackSize] =
     IF isReset THEN [rate_slot(p) EXCEPT !.resets = @ + 1]
                ELSE [rate_slot(p) EXCEPT !.count = @ + 1]]

(* A reset: its own limit, then the repeat test, then the batch, where it takes
   the slot of the last hint if need be, and goes out at once. *)
relay_reset(p, h) ==
  LET room == IF Len(buf) = BufSize THEN SubSeq(buf, 1, BufSize - 1) ELSE buf
      cut == IF Len(buf) = BufSize THEN {buf[BufSize].key} ELSE {}
  IN /\ track' = Counted(p, TRUE)
     /\ \/ /\ track'[p % TrackSize].resets > ResetLimit
           /\ missed' = missed \cup ((Pids \ {p}) \X {h.key} \X {"relay"})
           /\ UNCHANGED <<buf, seen, waits, pipe, passed, dropped>>
        \/ /\ track'[p % TrackSize].resets <= ResetLimit /\ Repeat(h.key)
           /\ missed' = IF \E i \in 1..SeenSize : seen[i] = [tag |-> h.key, when |-> second]
                        THEN missed \cup ((Pids \ {p}) \X {h.key} \X {"repeat"}) ELSE missed
           /\ UNCHANGED <<buf, seen, waits, pipe, passed, dropped>>
        \/ /\ track'[p % TrackSize].resets <= ResetLimit /\ ~Repeat(h.key)
           /\ buf' = <<>>
           /\ Flush(Append(room, h),
                    [seen EXCEPT ![Oldest] = [tag |-> h.key, when |-> second]], cut)
           /\ UNCHANGED passed

(* An ordinary hint: the batch, the rate limit and the buffer may each turn it
   away. *)
relay_ordinary(p, h) ==
  \/ Redundant(h) /\ UNCHANGED <<master, pipe, dropped, missed>>
  \/ /\ ~Redundant(h)
     /\ track' = Counted(p, FALSE)
     /\ IF track'[p % TrackSize].count <= RateLimit /\ Len(buf) < BufSize
        THEN /\ buf' = Append(buf, h)
             /\ passed' = [passed EXCEPT ![p] = @ + 1]
             /\ UNCHANGED dropped
        ELSE dropped' = dropped \cup {h.key} /\ UNCHANGED <<buf, passed>>
     /\ UNCHANGED <<seen, waits, pipe, missed>>

(* ipc_server_read of one hint.  Without siblings there is nothing to relay. *)
ipc_relay_cache_hint(p) ==
  /\ p \in Children /\ ipc[p] # <<>>
  /\ ipc' = [ipc EXCEPT ![p] = Tail(@)]
  /\ LET h == Head(ipc[p])
     IN \/ Cardinality(Children) <= 1 /\ UNCHANGED <<master, pipe, dropped, missed>>
        \/ Cardinality(Children) > 1 /\ h.event = "RESET" /\ relay_reset(p, h)
        \/ Cardinality(Children) > 1 /\ h.event # "RESET" /\ relay_ordinary(p, h)
  /\ UNCHANGED <<sessions, second>>

(* The main loop flushes a batch that is due. *)
hint_flush_pending ==
  /\ buf # <<>> /\ buf' = <<>>
  /\ Flush(buf, seen, {})
  /\ UNCHANGED <<sessions, ipc, second, track, passed>>

(* child_handler: the IPC socket is closed with what is still in it. *)
child_handler(p) ==
  /\ state[p] = "exited"
  /\ state' = [state EXCEPT ![p] = "reaped"]
  /\ ipc' = [ipc EXCEPT ![p] = <<>>]
  /\ missed' = missed \cup ((Pids \ {p}) \X Resets(ipc[p]) \X {"reap"})
  /\ dropped' = dropped \cup {ipc[p][i].key : i \in {j \in DOMAIN ipc[p] :
                                                      ipc[p][j].event # "RESET"}}
  /\ UNCHANGED <<view, gen, stale, master, pipe, second>>

(* External: the clock. *)
Tick ==
  /\ second < MaxSecond /\ second' = second + 1
  /\ passed' = [p \in Pids |-> 0]
  /\ UNCHANGED <<sessions, buf, track, seen, waits, ipc, pipe, dropped, missed>>

Session(p) ==
  \/ login(p) \/ afp_dsi_die(p) \/ process_cache_hints(p)
  \/ \E t \in Tags : openvol(p, t) \/ cnid_volume_reset(p, t)
  \/ \E o \in Objects, e \in {"REFRESH", "DELETE"} : change(p, o, e)

Next ==
  \/ \E p \in Pids : Session(p) \/ ipc_relay_cache_hint(p) \/ child_handler(p)
  \/ hint_flush_pending \/ Tick

Spec == Init /\ [][Next]_vars

-----------------------------------------------------------------------------
(* Properties *)

Carries(s, p, key) == \E i \in DOMAIN s : s[i].key = key /\ s[i].src # p

(* A session whose cached copy of an object is old will be told, unless a hint
   about the object was dropped where the code drops hints: neither the refresh
   a batch already holds (ipc_relay_cache_hint) nor leaving out the sender's own
   hints (hint_flush_pending) loses a change. *)
ToldOrDropped ==
  \A p \in Live, o \in Objects : o \in stale[p] /\ o \notin dropped =>
    \/ Carries(pipe[p], p, o) \/ Carries(buf, p, o)
    \/ \E q \in Children \ {p} : Carries(ipc[q], p, o)

(* A session that uses ids from before a reset is about to be told of it, unless
   the reset was lost in one of the known Ways (doc/developer/caching.md: resets
   have "bounded delivery handling, and logged failures"): relaying, batching and
   the repeat test lose no other. *)
ResetToldOrMissed ==
  \A t \in Tags : \A p \in Obsolete(t) :
    \/ \E how \in Ways : <<p, t, how>> \in missed
    \/ Carries(pipe[p], p, t)
    \/ \E q \in Children \ {p} : Carries(ipc[q], p, t)

(* A reset that a sibling missed is not held back as a repeat: the next session
   that resets the volume in the same second reaches it
   (reset_broadcast_forget). *)
MissedNotRepeat ==
  \A t \in Tags : \A p \in Obsolete(t) :
    <<p, t, "relay">> \in missed /\ Repeat(t) => Carries(pipe[p], p, t)

(* The master relays at most RateLimit ordinary hints of a session a second
   (the "attack guard" of check_and_increment_rate).  Holds while no two
   sessions share a slot of rate_track. *)
RateRespected == \A p \in Pids : passed[p] <= RateLimit
=============================================================================
