------------------------------ MODULE Sessions ------------------------------
(***************************************************************************)
(* The afpd master and its session processes: the child table              *)
(* (libatalk/util/server_child.c), the IPC requests the master serves      *)
(* (libatalk/util/server_ipc.c), accepting and reaping (dsi_getsess.c,     *)
(* main.c), and the primary reconnect, in which a new session hands its    *)
(* client socket to the session that owns the reconnect token (auth.c,     *)
(* afp_dsi.c).                                                             *)
(*                                                                         *)
(* A process id is used once and also names the connection the process was *)
(* forked for and the token it creates.  Writing on an IPC socket, and the *)
(* signal that follows, reach the other side in order; a signal handler    *)
(* only raises a flag that the main loop serves later.                     *)
(***************************************************************************)
EXTENDS Integers, Sequences, FiniteSets

CONSTANTS Pids, Uids,
          ClientIds, BootTimes,  \* what FPGetSessionToken reports
          None,                  \* no user, no socket, no client
          MaxSessions,           \* servch_nsessions
          Reconnects,            \* requests in flight for one token
          Timely                 \* the master serves a request within 5 s

ASSUME Distinct == None \notin Uids \cup Pids /\ MaxSessions \in Nat /\ Timely \in BOOLEAN

VARIABLES phase,      \* what each process is doing
          uid,        \* obj->uid
          sock,       \* dsi->socket, as the connection it belongs to
          recon,      \* DSI_RECONINPROG
          die, urg,   \* die_pending, transfer_pending
          peer,       \* the client's end of each connection
          up, down,   \* the IPC socket, to and from the master
          slot        \* the child table

vars == <<phase, uid, sock, recon, die, urg, peer, up, down, slot>>
signals == <<die, urg>>
channels == <<up, down>>

Phases == {"none",       \* not forked
           "opened",     \* serving a client that has not logged in
           "running",    \* serving a logged-in client
           "handoff",    \* in the five-second wait of afp_disconnect
           "disc",       \* DSI_DISCONNECTED, waiting for a reconnect
           "exited",     \* a zombie
           "gone"}       \* reaped, or refused at once
Serving == {"opened", "running"}

Msgs == [kind : {"LOGINDONE", "SESSIONTOKEN"}, uid : Uids]
        \cup [kind : {"GETSESSION"}, uid : Uids, id : ClientIds, boot : BootTimes]
        \cup [kind : {"DISCOLDSESSION"}, uid : Uids, token : Pids, sock : Pids]

(* afp_child_t *)
Slots == [used : {0, 1}, uid : Uids \cup {None}, valid : {0, 1}, token : {0, 1},
          id : ClientIds \cup {None}, boot : BootTimes \cup {None}, killed : {0, 1}]
EmptySlot == [used |-> 0, uid |-> None, valid |-> 0, token |-> 0,
              id |-> None, boot |-> None, killed |-> 0]

(* servch_count counts these. *)
Children == {p \in Pids : slot[p].used = 1}

TypeOK ==
  /\ phase \in [Pids -> Phases]
  /\ uid \in [Pids -> Uids \cup {None}]
  /\ sock \in [Pids -> Pids \cup {None}]
  /\ recon \in [Pids -> {0, 1}]
  /\ die \in [Pids -> {0, 1}] /\ urg \in [Pids -> {0, 1}]
  /\ peer \in [Pids -> {"open", "shut"}]
  /\ up \in [Pids -> Seq(Msgs)] /\ down \in [Pids -> Seq(Pids)]
  /\ slot \in [Pids -> Slots]

Init ==
  /\ phase = [p \in Pids |-> "none"]
  /\ uid = [p \in Pids |-> None]
  /\ sock = [p \in Pids |-> None]
  /\ recon = [p \in Pids |-> 0]
  /\ die = [p \in Pids |-> 0] /\ urg = [p \in Pids |-> 0]
  /\ peer = [p \in Pids |-> "open"]
  /\ up = [p \in Pids |-> <<>>] /\ down = [p \in Pids |-> <<>>]
  /\ slot = [p \in Pids |-> EmptySlot]

-----------------------------------------------------------------------------
(* The master: accept and reap *)

(* dsi_reject_busy, or a failed socketpair, fork or server_child_add: the
   client is refused and no entry stays in the table. *)
refuse(p) ==
  /\ phase' = [phase EXCEPT ![p] = "gone"]
  /\ peer' = [peer EXCEPT ![p] = "shut"]
  /\ UNCHANGED <<uid, sock, recon, signals, channels, slot>>

(* The child branch serves the socket, the parent branch adds the entry. *)
server_child_add(p) ==
  /\ phase' = [phase EXCEPT ![p] = "opened"]
  /\ sock' = [sock EXCEPT ![p] = p]
  /\ slot' = [slot EXCEPT ![p] = [EmptySlot EXCEPT !.used = 1]]
  /\ UNCHANGED <<uid, recon, signals, peer, channels>>

(* Mutant: the limit is tested after the count has passed it. *)
dsi_getsession_late(p) ==
  /\ phase[p] = "none"
  /\ \/ Cardinality(Children) <= MaxSessions /\ server_child_add(p)
     \/ refuse(p)

(* The table limit is tested before the fork; every failure refuses. *)
dsi_getsession(p) ==
  /\ phase[p] = "none"
  /\ \/ Cardinality(Children) < MaxSessions /\ server_child_add(p)
     \/ refuse(p)

(* child_handler and server_child_remove: waitpid, then the entry and both
   ends of the IPC sockets go. *)
child_handler(p) ==
  /\ phase[p] = "exited"
  /\ phase' = [phase EXCEPT ![p] = "gone"]
  /\ slot' = [slot EXCEPT ![p] = EmptySlot]
  /\ up' = [up EXCEPT ![p] = <<>>]
  /\ down' = [down EXCEPT ![p] = <<>>]
  /\ recon' = [recon EXCEPT ![p] = 0]
  /\ die' = [die EXCEPT ![p] = 0] /\ urg' = [urg EXCEPT ![p] = 0]
  /\ UNCHANGED <<uid, sock, peer>>

-----------------------------------------------------------------------------
(* The master: IPC requests *)

server_child_login_done(p, m) ==
  /\ slot' = [slot EXCEPT ![p].uid = m.uid, ![p].valid = 1]
  /\ UNCHANGED <<phase, sock, signals, down>>

(* Only the user recorded at login may set the token. *)
server_child_set_session_token(p, m) ==
  /\ slot' = [slot EXCEPT ![p].token = IF m.uid = slot[p].uid THEN 1 ELSE @]
  /\ UNCHANGED <<phase, sock, signals, down>>

(* Sessions of the same client and user from before its reboot. *)
Stale(p, m) == {q \in Children \ {p} : /\ slot[q].id = m.id
                                       /\ slot[q].boot # m.boot
                                       /\ slot[q].uid = m.uid}

(* kill_child: SIGTERM the first time, SIGKILL when it was tried before. *)
server_child_kill_one_by_id(p, m) ==
  LET again == {q \in Stale(p, m) : slot[q].killed = 1 /\ phase[q] # "exited"}
      first == {q \in Stale(p, m) : slot[q].killed = 0}
  IN /\ slot' = [q \in Pids |->
                   IF q = p
                   THEN [slot[q] EXCEPT !.id = m.id, !.boot = m.boot,
                                        !.uid = m.uid, !.valid = 1]
                   ELSE IF q \in first THEN [slot[q] EXCEPT !.killed = 1]
                   ELSE slot[q]]
     /\ die' = [q \in Pids |-> IF q \in first THEN 1 ELSE die[q]]
     /\ phase' = [q \in Pids |-> IF q \in again THEN "exited" ELSE phase[q]]
     /\ sock' = [q \in Pids |-> IF q \in again THEN None ELSE sock[q]]
     /\ UNCHANGED <<urg, down>>

(* The session that server_child_transfer_session may pass a socket to: it
   set the token, has logged in, and belongs to the user that asks.  A write
   to a session that has exited fails. *)
Usable(m) == /\ slot[m.token].used = 1 /\ slot[m.token].token = 1
             /\ slot[m.token].valid = 1
             /\ slot[m.token].uid = m.uid
             /\ phase[m.token] # "exited"

Usable_any_user(m) == /\ slot[m.token].used = 1 /\ slot[m.token].token = 1
                      /\ phase[m.token] # "exited"

(* A transfer sends the request id and the socket and signals the old session;
   only then does ipc_server_read end the new one. *)
Transfer(p, m, usable) ==
  IF usable
  THEN /\ down' = [down EXCEPT ![m.token] = Append(@, m.sock)]
       /\ urg' = [urg EXCEPT ![m.token] = 1]
       /\ die' = [die EXCEPT ![p] = 1]
       /\ UNCHANGED <<phase, sock, slot>>
  ELSE UNCHANGED <<phase, sock, signals, down, slot>>

(* Mutant: the user of the old session is not compared. *)
transfer_any_user(p, m) == Transfer(p, m, Usable_any_user(m))

(* Mutant: the new session is not ended after the transfer. *)
transfer_keeps_both(p, m) ==
  IF Usable(m)
  THEN /\ down' = [down EXCEPT ![m.token] = Append(@, m.sock)]
       /\ urg' = [urg EXCEPT ![m.token] = 1]
       /\ UNCHANGED <<phase, sock, die, slot>>
  ELSE UNCHANGED <<phase, sock, signals, down, slot>>

(* Mutant: SIGURG goes out although the socket was not sent. *)
transfer_signals_first(p, m) ==
  IF Usable(m)
  THEN \/ Transfer(p, m, TRUE)
       \/ /\ urg' = [urg EXCEPT ![m.token] = 1]
          /\ UNCHANGED <<phase, sock, die, down, slot>>
  ELSE UNCHANGED <<phase, sock, signals, down, slot>>

server_child_transfer_session(p, m) == Transfer(p, m, Usable(m))

(* ipc_server_read: one request of session p.  A session that has exited is
   readable until it is reaped. *)
ipc_server_read(p) ==
  /\ up[p] # <<>> /\ slot[p].used = 1
  /\ LET m == Head(up[p])
     IN \/ m.kind = "LOGINDONE" /\ server_child_login_done(p, m)
        \/ m.kind = "SESSIONTOKEN" /\ server_child_set_session_token(p, m)
        \/ m.kind = "GETSESSION" /\ server_child_kill_one_by_id(p, m)
        \/ m.kind = "DISCOLDSESSION" /\ server_child_transfer_session(p, m)
  /\ up' = [up EXCEPT ![p] = Tail(@)]
  /\ UNCHANGED <<uid, recon, peer>>

-----------------------------------------------------------------------------
(* A session: commands of its client *)

Commands(p) == sock[p] # None /\ peer[sock[p]] = "open"

(* login: the user id and IPC_LOGINDONE. *)
login(p, u) ==
  /\ phase[p] = "opened" /\ Commands(p)
  /\ phase' = [phase EXCEPT ![p] = "running"]
  /\ uid' = [uid EXCEPT ![p] = u]
  /\ up' = [up EXCEPT ![p] = Append(@, [kind |-> "LOGINDONE", uid |-> u])]
  /\ UNCHANGED <<sock, recon, signals, peer, down, slot>>

(* afp_getsession: the token, then the client id and boot time.  Bound: one
   call per process. *)
afp_getsession(p, id, boot) ==
  /\ phase[p] = "running" /\ Commands(p)
  /\ slot[p].token = 0
  /\ ~\E i \in DOMAIN up[p] : up[p][i].kind = "SESSIONTOKEN"
  /\ up' = [up EXCEPT ![p] = @ \o
       << [kind |-> "SESSIONTOKEN", uid |-> uid[p]],
          [kind |-> "GETSESSION", uid |-> uid[p], id |-> id, boot |-> boot] >>]
  /\ UNCHANGED <<phase, uid, sock, recon, signals, peer, down, slot>>

(* Requests for token t on their way through the master to the old session. *)
InFlight(t) ==
  Len(down[t]) + Cardinality({p \in Pids : \E i \in DOMAIN up[p] :
                    /\ up[p][i].kind = "DISCOLDSESSION" /\ up[p][i].token = t})

(* afp_disconnect, up to sleep(5): the token, the request id and the client
   socket go to the master.  Bound: a session asks once, and Reconnects
   requests for a token are in flight. *)
afp_disconnect(p, t) ==
  /\ phase[p] = "running" /\ Commands(p)
  /\ recon[p] = 0 /\ InFlight(t) < Reconnects
  /\ phase' = [phase EXCEPT ![p] = "handoff"]
  /\ recon' = [recon EXCEPT ![p] = 1]
  /\ up' = [up EXCEPT ![p] = Append(@, [kind |-> "DISCOLDSESSION", uid |-> uid[p],
                                        token |-> t, sock |-> sock[p]])]
  /\ UNCHANGED <<uid, sock, signals, peer, down, slot>>

(* exit(): the kernel closes the sockets of the process and its flags go. *)
Exit(p) ==
  /\ phase' = [phase EXCEPT ![p] = "exited"]
  /\ sock' = [sock EXCEPT ![p] = None]
  /\ recon' = [recon EXCEPT ![p] = 0]
  /\ die' = [die EXCEPT ![p] = 0] /\ urg' = [urg EXCEPT ![p] = 0]
  /\ UNCHANGED <<uid, peer, channels, slot>>

(* afp_disconnect after the wait: SIGTERM means the socket was passed on. *)
handoff_done(p) == phase[p] = "handoff" /\ die[p] = 1 /\ Exit(p)

(* No SIGTERM came: DSI_RECONINPROG stays set and AFPERR_MISC is the reply.
   A timely master has served the request by then. *)
handoff_fails(p) ==
  /\ phase[p] = "handoff" /\ die[p] = 0
  /\ Timely => ~\E i \in DOMAIN up[p] : up[p][i].kind = "DISCOLDSESSION"
  /\ phase' = [phase EXCEPT ![p] = "running"]
  /\ UNCHANGED <<uid, sock, recon, signals, peer, channels, slot>>

(* DSIFUNC_CLOSE *)
afp_dsi_close(p) == phase[p] \in Serving /\ Commands(p) /\ Exit(p)

-----------------------------------------------------------------------------
(* A session: signals, timers and errors *)

(* Mutant: only the first descriptor of the queue is looked at. *)
handle_transfer_session_peeks(p) ==
  \/ /\ down[p] # <<>>
     /\ phase' = [phase EXCEPT ![p] = "running"]
     /\ sock' = [sock EXCEPT ![p] = Head(down[p])]
     /\ recon' = [recon EXCEPT ![p] = 0]
     /\ urg' = [urg EXCEPT ![p] = 0]
     /\ UNCHANGED <<uid, die, peer, channels, slot>>
  \/ (down[p] = <<>> \/ peer[Head(down[p])] = "shut") /\ Exit(p)

(* handle_transfer_session: the request id and the socket are read, the flags
   start afresh and the request is answered; a missing socket or a reply that
   fails ends the session. *)
handle_transfer_session(p) ==
  \/ /\ down[p] # <<>>
     /\ phase' = [phase EXCEPT ![p] = "running"]
     /\ sock' = [sock EXCEPT ![p] = Head(down[p])]
     /\ down' = [down EXCEPT ![p] = Tail(@)]
     /\ recon' = [recon EXCEPT ![p] = 0]
     /\ urg' = [urg EXCEPT ![p] = 0]
     /\ UNCHANGED <<uid, die, peer, up, slot>>
  \/ (down[p] = <<>> \/ peer[Head(down[p])] = "shut") /\ Exit(p)

(* Termination goes first, then the reconnect. *)
process_deferred_signals(p) ==
  /\ phase[p] \in Serving \cup {"disc"}
  /\ \/ die[p] = 1 /\ Exit(p)
     \/ die[p] = 0 /\ urg[p] = 1 /\ handle_transfer_session(p)

(* dsi_disconnect: the socket is closed; a session without a user is not kept. *)
dsi_disconnect(p) ==
  IF uid[p] = None
  THEN Exit(p)
  ELSE /\ phase' = [phase EXCEPT ![p] = "disc"]
       /\ sock' = [sock EXCEPT ![p] = None]
       /\ UNCHANGED <<uid, recon, signals, peer, channels, slot>>

(* The receive-error branch of afp_over_dsi: a reconnect that is waiting, a
   failed hand-over, or the disconnected state. *)
receive_error(p) ==
  /\ phase[p] \in Serving /\ peer[sock[p]] = "shut"
  /\ \/ urg[p] = 1 /\ handle_transfer_session(p)
     \/ urg[p] = 0 /\ recon[p] = 1 /\ Exit(p)
     \/ urg[p] = 0 /\ recon[p] = 0 /\ dsi_disconnect(p)

(* Mutant: the reconnect timer is not looked at. *)
disconnect_expires_never(p) == phase[p] = "disc" /\ UNCHANGED vars

(* handle_alarm: the reconnect timer of a disconnected session runs out. *)
disconnect_expires(p) == phase[p] = "disc" /\ Exit(p)

(* handle_alarm: the client has been silent for timeout ticks.  A session whose
   hand-over failed ends at the receive error that follows. *)
client_times_out(p) ==
  /\ phase[p] \in Serving
  /\ IF recon[p] = 1 /\ urg[p] = 0 THEN Exit(p) ELSE dsi_disconnect(p)

(* External: the client's end of a connection closes. *)
client_drops(c) ==
  /\ peer[c] = "open"
  /\ \E p \in Pids : sock[p] = c \/ \E i \in DOMAIN down[p] : down[p][i] = c
  /\ peer' = [peer EXCEPT ![c] = "shut"]
  /\ UNCHANGED <<phase, uid, sock, recon, signals, channels, slot>>

-----------------------------------------------------------------------------
Master(p) == dsi_getsession(p) \/ child_handler(p) \/ ipc_server_read(p)

Session(p) ==
  \/ \E u \in Uids : login(p, u)
  \/ \E id \in ClientIds, boot \in BootTimes : afp_getsession(p, id, boot)
  \/ \E t \in Pids : afp_disconnect(p, t)
  \/ handoff_done(p) \/ handoff_fails(p) \/ afp_dsi_close(p)
  \/ process_deferred_signals(p) \/ receive_error(p)
  \/ disconnect_expires(p) \/ client_times_out(p)

Next == \E p \in Pids : Master(p) \/ Session(p) \/ client_drops(p)

Spec == Init /\ [][Next]_vars

(* What a session process does without being asked: sleep(5) ends, the main
   loop serves its signals and the interval timer keeps firing. *)
Runs(p) == \/ handoff_done(p) \/ handoff_fails(p)
           \/ process_deferred_signals(p) \/ receive_error(p) \/ disconnect_expires(p)

(* The master polls its children, and every session process runs. *)
Fairness == \A p \in Pids :
  /\ WF_vars(child_handler(p)) /\ WF_vars(ipc_server_read(p))
  /\ WF_vars(Runs(p))

FairSpec == Spec /\ Fairness

-----------------------------------------------------------------------------
(* Properties *)

(* A client connection is served by at most one session: after a hand-over the
   process that accepted it sends nothing more (afp_disconnect waits for the
   master's SIGTERM and exits).  Holds when the master is timely. *)
OneServer ==
  \A p, q \in Pids :
    p # q /\ phase[p] \in Serving /\ phase[q] \in Serving => sock[p] # sock[q]

(* A session only ever serves connections whose own login was by the session's
   user, across any chain of reconnects (server_child_transfer_session). *)
SameUser ==
  \A p \in Pids : phase[p] = "running" => uid[sock[p]] = uid[p]

(* A session told of a reconnect finds the socket on its IPC channel, so
   handle_transfer_session never ends it for want of one. *)
SignalHasSocket ==
  \A p \in Pids : urg[p] = 1 /\ phase[p] # "gone" => down[p] # <<>>

(* The hand-over of a connection is sound: it stays with its user, and the socket
   is there before the signal (server_child_transfer_session). *)
HandoverSound == SameUser /\ SignalHasSocket

(* The table holds exactly the processes that were forked and not yet reaped,
   and never more than the session limit (dsi_getsession, child_handler). *)
TableIsExact ==
  /\ Children = {p \in Pids : phase[p] \notin {"none", "gone"}}
  /\ Cardinality(Children) <= MaxSessions

(* What a session process must not stay in: disconnected, in the hand-over
   wait, a zombie, or with a socket passed to it that it has not taken. *)
Limbo(p) == phase[p] \in {"disc", "handoff", "exited"} \/ down[p] # <<>>
Settled(p) == phase[p] \in Serving \cup {"gone"} /\ down[p] = <<>>

(* Every session gets out of limbo: it serves a client again, its own or the one
   whose socket the old session was passed (afp_disconnect: the old session
   "answers the request"), or it is reaped.  Holds while one request for a token
   is in flight at a time. *)
NoLimbo == \A p \in Pids : Limbo(p) ~> Settled(p)
=============================================================================
