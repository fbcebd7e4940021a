----------------------------- MODULE MCSession -----------------------------
(***************************************************************************)
(* Inside one session process: the handshake with the idle worker, the     *)
(* deferred cleanup that the worker runs, the life of the DSI session with *)
(* its timers and signals, the byte stream of the connection, and the      *)
(* login.  The initial state picks the component that runs; the variables  *)
(* of the others stay in an initial state of theirs.                       *)
(***************************************************************************)
EXTENDS IdleWorker, TLAPS

-----------------------------------------------------------------------------
(***************************************************************************)
(* The idle worker by itself, for queues of every length: the threads      *)
(* exclude each other, no queued work is forgotten, and the handshake      *)
(* implements the one-owner contract.                                      *)
(***************************************************************************)

(* The inductive invariant.  The flag is_working is what the worker's position
   says it is; an open grant means that the main thread is inside the poll
   window it was given for; a worker that passed its second look at can_work
   keeps the main thread in that window, because iw_revoke waits for
   is_working. *)
Handshake ==
  /\ is_working = 1 <=> worker \in Published
  /\ can_work = 1 => started = 1 /\ granted = 1 /\ main \in {"poll", "revoke"}
  /\ worker \in Published \ {"recheck", "abort"} /\ main # "exited"
       => started = 1 /\ granted = 1 /\ main \in PollWindow
  /\ main \in {"grant", "shutdown", "join"} => started = 1
  /\ main = "exited" => worker \notin Published \ {"recheck", "abort"}
  /\ main = "wait" => started = 1 /\ granted = 1
  /\ main = "init" => worker = "none"

(* What the drain leaves: the worker clears has_work only behind two empty
   queues. *)
Drained ==
  /\ worker = "clear" \/ main = "init" => invalid = 0 /\ deferred = 0
  /\ NoLostWork

IInv == TypeOK /\ Handshake /\ Drained

(* The type invariant of the threads' flags, queues and positions holds
   initially and is kept by every step of iw_main and of the main loop. *)
LEMMA TypeInit == Init => TypeOK
  BY SMTT(30), BoundAssumption DEF Init, TypeOK, MainLoc, WorkerLoc

LEMMA TypeStep == TypeOK /\ [Next]_vars => TypeOK'
<1> SUFFICES ASSUME TypeOK, [Next]_vars PROVE TypeOK'
  BY Zenon
<1> USE BoundAssumption DEF TypeOK, MainLoc, WorkerLoc, flags, queues
<1>1. CASE dir_remove
  BY <1>1 DEF dir_remove
<1>2. CASE dircache_remove_children_defer
  BY <1>2 DEF dircache_remove_children_defer
<1>3. CASE iw_init
  BY <1>3 DEF iw_init
<1>4. CASE iw_note_work
  BY <1>4 DEF iw_note_work
<1>5. CASE dir_free_invalid_q
  BY <1>5 DEF dir_free_invalid_q
<1>6. CASE dircache_flush_deferred_for_vol
  BY <1>6 DEF dircache_flush_deferred_for_vol
<1>7. CASE iw_grant
  BY <1>7 DEF iw_grant
<1>8. CASE iw_grant_store
  BY ZenonT(60), <1>8 DEF iw_grant_store
<1>9. CASE poll_return
  BY <1>9 DEF poll_return
<1>10. CASE iw_revoke
  BY <1>10 DEF iw_revoke
<1>11. CASE iw_wait_release
  BY ZenonT(60), <1>11 DEF iw_wait_release
<1>12. CASE iw_shutdown
  BY <1>12 DEF iw_shutdown
<1>13. CASE iw_shutdown_flag
  BY <1>13 DEF iw_shutdown_flag
<1>14. CASE iw_shutdown_join
  BY Zenon, <1>14 DEF iw_shutdown_join
<1>15. CASE iw_revoke_signal_safe
  BY <1>15 DEF iw_revoke_signal_safe
<1>16. CASE iw_main_loop
  BY <1>16 DEF iw_main_loop, Move, Step
<1>17. CASE iw_main_sleep
  BY <1>17 DEF iw_main_sleep, Move, Step
<1>18. CASE iw_main_load
  BY <1>18 DEF iw_main_load, Move, Step
<1>19. CASE iw_main_publish
  BY <1>19 DEF iw_main_publish, Step
<1>20. CASE iw_main_recheck
  BY <1>20 DEF iw_main_recheck, Move, Step
<1>21. CASE iw_main_abort
  BY <1>21 DEF iw_main_abort, Step
<1>22. CASE iw_main_invalid
  BY <1>22 DEF iw_main_invalid, Move, Step
<1>23. CASE iw_main_free
  BY <1>23 DEF iw_main_free, Step
<1>24. CASE iw_main_deferred
  BY <1>24 DEF iw_main_deferred, Move, Step
<1>25. CASE iw_main_chain
  BY <1>25 DEF iw_main_chain, Step
<1>26. CASE iw_main_pending
  BY <1>26 DEF iw_main_pending, Move, Step
<1>27. CASE iw_main_clear
  BY ZenonT(60), <1>27 DEF iw_main_clear, Step
<1>28. CASE iw_main_release
  BY ZenonT(60), <1>28 DEF iw_main_release, Step
<1>29. CASE Ended \/ UNCHANGED vars
  BY <1>29 DEF Ended, vars
<1> QED
  BY ZenonT(60), <1>1, <1>2, <1>3, <1>4, <1>5, <1>6, <1>7, <1>8, <1>9, <1>10, <1>11,
     <1>12, <1>13, <1>14, <1>15, <1>16, <1>17, <1>18, <1>19, <1>20, <1>21,
     <1>22, <1>23, <1>24, <1>25, <1>26, <1>27, <1>28, <1>29
     DEF Next, Produce, Main, Worker

(* Spec keeps the type invariant. *)
THEOREM TypeCorrect == Spec => []TypeOK
  BY TypeInit, TypeStep, PTL DEF Spec

(* Each step keeps the handshake: the worker's and the main thread's reads and
   writes of can_work and is_working fit together. *)
LEMMA HandshakeStep == TypeOK /\ Handshake /\ [Next]_vars => Handshake'
<1> SUFFICES ASSUME TypeOK, Handshake, [Next]_vars PROVE Handshake'
  BY Zenon
<1> USE DEF TypeOK, Handshake, MainLoc, WorkerLoc, Published, Touching, PollWindow,
            flags, queues
<1>1. CASE dir_remove
  BY Zenon, <1>1 DEF dir_remove
<1>2. CASE dircache_remove_children_defer
  BY Zenon, <1>2 DEF dircache_remove_children_defer
<1>3. CASE iw_init
  BY Zenon, <1>3 DEF iw_init
<1>4. CASE iw_note_work
  BY Zenon, <1>4 DEF iw_note_work
<1>5. CASE dir_free_invalid_q
  BY Zenon, <1>5 DEF dir_free_invalid_q
<1>6. CASE dircache_flush_deferred_for_vol
  BY Zenon, <1>6 DEF dircache_flush_deferred_for_vol
<1>7. CASE iw_grant
  BY Zenon, <1>7 DEF iw_grant
<1>8. CASE iw_grant_store
  BY Zenon, <1>8 DEF iw_grant_store
<1>9. CASE poll_return
  BY Zenon, <1>9 DEF poll_return
<1>10. CASE iw_revoke
  BY <1>10 DEF iw_revoke
<1>11. CASE iw_wait_release
  BY Zenon, <1>11 DEF iw_wait_release
<1>12. CASE iw_shutdown
  BY Zenon, <1>12 DEF iw_shutdown
<1>13. CASE iw_shutdown_flag
  BY Zenon, <1>13 DEF iw_shutdown_flag
<1>14. CASE iw_shutdown_join
  BY Zenon, <1>14 DEF iw_shutdown_join
<1>15. CASE iw_revoke_signal_safe
  BY Zenon, <1>15 DEF iw_revoke_signal_safe
<1>16. CASE iw_main_loop
  BY Zenon, <1>16 DEF iw_main_loop, Move, Step
<1>17. CASE iw_main_sleep
  BY Zenon, <1>17 DEF iw_main_sleep, Move, Step
<1>18. CASE iw_main_load
  BY Zenon, <1>18 DEF iw_main_load, Move, Step
<1>19. CASE iw_main_publish
  BY Zenon, <1>19 DEF iw_main_publish, Step
<1>20. CASE iw_main_recheck
  BY Zenon, <1>20 DEF iw_main_recheck, Move, Step
<1>21. CASE iw_main_abort
  BY <1>21 DEF iw_main_abort, Step
<1>22. CASE iw_main_invalid
  BY Zenon, <1>22 DEF iw_main_invalid, Move, Step
<1>23. CASE iw_main_free
  BY Zenon, <1>23 DEF iw_main_free, Step
<1>24. CASE iw_main_deferred
  BY Zenon, <1>24 DEF iw_main_deferred, Move, Step
<1>25. CASE iw_main_chain
  BY Zenon, <1>25 DEF iw_main_chain, Step
<1>26. CASE iw_main_pending
  BY Zenon, <1>26 DEF iw_main_pending, Move, Step
<1>27. CASE iw_main_clear
  BY Zenon, <1>27 DEF iw_main_clear, Step
<1>28. CASE iw_main_release
  BY SMTT(30), <1>28 DEF iw_main_release, Step
<1>29. CASE Ended \/ UNCHANGED vars
  BY SMTT(30), <1>29 DEF Ended, vars
<1> QED
  BY ZenonT(60), <1>1, <1>2, <1>3, <1>4, <1>5, <1>6, <1>7, <1>8, <1>9, <1>10, <1>11,
     <1>12, <1>13, <1>14, <1>15, <1>16, <1>17, <1>18, <1>19, <1>20, <1>21,
     <1>22, <1>23, <1>24, <1>25, <1>26, <1>27, <1>28, <1>29
     DEF Next, Produce, Main, Worker

(* Each step keeps queued work announced: main produces only outside the
   worker's drain, so the clear of has_work finds both queues empty. *)
LEMMA DrainedStep == IInv /\ [Next]_vars => Drained'
<1> SUFFICES ASSUME IInv, [Next]_vars PROVE Drained'
  BY Zenon
<1> USE BoundAssumption DEF IInv, TypeOK, Handshake, Drained, NoLostWork, MainLoc,
        WorkerLoc, Published, Touching, PollWindow, flags, queues
<1>1. CASE dir_remove
  BY Zenon, <1>1 DEF dir_remove
<1>2. CASE dircache_remove_children_defer
  BY Zenon, <1>2 DEF dircache_remove_children_defer
<1>3. CASE iw_init
  BY <1>3 DEF iw_init
<1>4. CASE iw_note_work
  BY Zenon, <1>4 DEF iw_note_work
<1>5. CASE dir_free_invalid_q
  BY Zenon, <1>5 DEF dir_free_invalid_q
<1>6. CASE dircache_flush_deferred_for_vol
  BY <1>6 DEF dircache_flush_deferred_for_vol
<1>7. CASE iw_grant
  BY Zenon, <1>7 DEF iw_grant
<1>8. CASE iw_grant_store
  BY Zenon, <1>8 DEF iw_grant_store
<1>9. CASE poll_return
  BY Zenon, <1>9 DEF poll_return
<1>10. CASE iw_revoke
  BY Zenon, <1>10 DEF iw_revoke
<1>11. CASE iw_wait_release
  BY Zenon, <1>11 DEF iw_wait_release
<1>12. CASE iw_shutdown
  BY Zenon, <1>12 DEF iw_shutdown
<1>13. CASE iw_shutdown_flag
  BY Zenon, <1>13 DEF iw_shutdown_flag
<1>14. CASE iw_shutdown_join
  BY Zenon, <1>14 DEF iw_shutdown_join
<1>15. CASE iw_revoke_signal_safe
  BY Zenon, <1>15 DEF iw_revoke_signal_safe
<1>16. CASE iw_main_loop
  BY Zenon, <1>16 DEF iw_main_loop, Move, Step
<1>17. CASE iw_main_sleep
  BY Zenon, <1>17 DEF iw_main_sleep, Move, Step
<1>18. CASE iw_main_load
  BY Zenon, <1>18 DEF iw_main_load, Move, Step
<1>19. CASE iw_main_publish
  BY Zenon, <1>19 DEF iw_main_publish, Step
<1>20. CASE iw_main_recheck
  BY Zenon, <1>20 DEF iw_main_recheck, Move, Step
<1>21. CASE iw_main_abort
  BY Zenon, <1>21 DEF iw_main_abort, Step
<1>22. CASE iw_main_invalid
  BY Zenon, <1>22 DEF iw_main_invalid, Move, Step
<1>23. CASE iw_main_free
  BY <1>23 DEF iw_main_free, Step
<1>24. CASE iw_main_deferred
  BY Zenon, <1>24 DEF iw_main_deferred, Move, Step
<1>25. CASE iw_main_chain
  BY <1>25 DEF iw_main_chain, Step
<1>26. CASE iw_main_pending
  BY <1>26 DEF iw_main_pending, Move, Step
<1>27. CASE iw_main_clear
  BY <1>27 DEF iw_main_clear, Step
<1>28. CASE iw_main_release
  BY Zenon, <1>28 DEF iw_main_release, Step
<1>29. CASE Ended \/ UNCHANGED vars
  BY <1>29 DEF Ended, vars
<1> QED
  BY ZenonT(60), <1>1, <1>2, <1>3, <1>4, <1>5, <1>6, <1>7, <1>8, <1>9, <1>10, <1>11,
     <1>12, <1>13, <1>14, <1>15, <1>16, <1>17, <1>18, <1>19, <1>20, <1>21,
     <1>22, <1>23, <1>24, <1>25, <1>26, <1>27, <1>28, <1>29
     DEF Next, Produce, Main, Worker

(* The inductive invariant of the handshake holds in every reachable state. *)
THEOREM Invariance == Spec => []IInv
<1>1. Init => IInv
  BY TypeInit DEF Init, IInv, Handshake, Drained, NoLostWork, Published, Touching
<1>2. IInv /\ [Next]_vars => IInv'
  BY Zenon, TypeStep, HandshakeStep, DrainedStep DEF IInv
<1> QED
  BY <1>1, <1>2, PTL DEF Spec

(* The worker and the main thread never use the queues at once, whatever the
   lengths of the queues (MutualExclusion). *)
THEOREM Exclusion == Spec => []MutualExclusion
<1>1. IInv => MutualExclusion
  BY Zenon DEF IInv, Handshake, MutualExclusion, Published, Touching, PollWindow
<1> QED
  BY <1>1, Invariance, PTL

(* Queued work is always announced by has_work (NoLostWork). *)
THEOREM WorkKept == Spec => []NoLostWork
<1>1. IInv => NoLostWork
  BY Zenon DEF IInv, Drained
<1> QED
  BY <1>1, Invariance, PTL

(* Every step of the two threads is a step of the one-owner contract, or leaves
   the owner and the queues alone. *)
LEMMA OwnerStep == IInv /\ IInv' /\ [Next]_vars => [Contract!ANext]_(Contract!avars)
<1> SUFFICES ASSUME IInv, IInv', [Next]_vars
             PROVE  Contract!ANext \/ UNCHANGED Contract!avars
  BY Zenon
<1> USE DEF IInv, TypeOK, Handshake, Published, Touching, PollWindow, Owner,
        flags, queues, Contract!avars, Contract!ANext, Contract!MainUses,
        Contract!MainReleases, Contract!MainTakes, Contract!WorkerTakes,
        Contract!WorkerUses
<1>1. CASE dir_remove
  BY <1>1 DEF dir_remove
<1>2. CASE dircache_remove_children_defer
  BY <1>2 DEF dircache_remove_children_defer
<1>3. CASE iw_init
  BY Zenon, <1>3 DEF iw_init
<1>4. CASE iw_note_work
  BY Zenon, <1>4 DEF iw_note_work
<1>5. CASE dir_free_invalid_q
  BY SMTT(30), <1>5 DEF dir_free_invalid_q
<1>6. CASE dircache_flush_deferred_for_vol
  BY <1>6 DEF dircache_flush_deferred_for_vol
<1>7. CASE iw_grant
  BY Zenon, <1>7 DEF iw_grant
<1>8. CASE iw_grant_store
  BY Zenon, <1>8 DEF iw_grant_store
<1>9. CASE poll_return
  BY Zenon, <1>9 DEF poll_return
<1>10. CASE iw_revoke
  BY Zenon, <1>10 DEF iw_revoke
<1>11. CASE iw_wait_release
  BY Zenon, <1>11 DEF iw_wait_release
<1>12. CASE iw_shutdown
  BY Zenon, <1>12 DEF iw_shutdown
<1>13. CASE iw_shutdown_flag
  BY Zenon, <1>13 DEF iw_shutdown_flag
<1>14. CASE iw_shutdown_join
  BY Zenon, <1>14 DEF iw_shutdown_join
<1>15. CASE iw_revoke_signal_safe
  BY Zenon, <1>15 DEF iw_revoke_signal_safe
<1>16. CASE iw_main_loop
  BY Zenon, <1>16 DEF iw_main_loop, Move, Step
<1>17. CASE iw_main_sleep
  BY Zenon, <1>17 DEF iw_main_sleep, Move, Step
<1>18. CASE iw_main_load
  BY Zenon, <1>18 DEF iw_main_load, Move, Step
<1>19. CASE iw_main_publish
  BY Zenon, <1>19 DEF iw_main_publish, Step
<1>20. CASE iw_main_recheck
  BY Zenon, <1>20 DEF iw_main_recheck, Move, Step
<1>21. CASE iw_main_abort
  BY Zenon, <1>21 DEF iw_main_abort, Step
<1>22. CASE iw_main_invalid
  BY ZenonT(60), <1>22 DEF iw_main_invalid, Move, Step
<1>23. CASE iw_main_free
  BY SMTT(30), <1>23 DEF iw_main_free, Step
<1>24. CASE iw_main_deferred
  BY ZenonT(60), <1>24 DEF iw_main_deferred, Move, Step
<1>25. CASE iw_main_chain
  BY SMTT(30), <1>25 DEF iw_main_chain, Step
<1>26. CASE iw_main_pending
  BY SMTT(30), <1>26 DEF iw_main_pending, Move, Step
<1>27. CASE iw_main_clear
  BY SMTT(30), <1>27 DEF iw_main_clear, Step
<1>28. CASE iw_main_release
  BY Zenon, <1>28 DEF iw_main_release, Step
<1>29. CASE Ended \/ UNCHANGED vars
  BY <1>29 DEF Ended, vars
<1> QED
  BY ZenonT(60), <1>1, <1>2, <1>3, <1>4, <1>5, <1>6, <1>7, <1>8, <1>9, <1>10, <1>11,
     <1>12, <1>13, <1>14, <1>15, <1>16, <1>17, <1>18, <1>19, <1>20, <1>21,
     <1>22, <1>23, <1>24, <1>25, <1>26, <1>27, <1>28, <1>29
     DEF Next, Produce, Main, Worker

(* The handshake implements the one-owner contract of the shared queues
   (OneOwner). *)
THEOREM OwnerRefinement == Spec => OneOwner
<1>1. Init => Contract!AInit
  BY ZenonT(60) DEF Init, Contract!AInit, Owner, Touching, PollWindow
<1> QED
  BY <1>1, OwnerStep, Invariance, PTL DEF Spec, OneOwner, Contract!ASpec

-----------------------------------------------------------------------------
(***************************************************************************)
(* The session process with all its components.                            *)
(***************************************************************************)
CONSTANTS Vols, Cap, Batch, MaxChains, SeqMod, FirstSeq, MaxJobs, Shrinks,
          Timeout, Sleep, Disconnected, Notice, LateLogin,
          Parts,    \* the components that run
          Burst,    \* acts of the client and of signal senders in an interval
          StBuffer, StRecv, StSocket, StQuantum, StSplice,
          Users, Root, Guest, None, Names, Alias, LoginConfigs, MaxExchanges

VARIABLES part,
          cache, curdir, open, nchains, q, seq, scan, cover, batch, stale, quiet,
          loc, waiting, dsiflags, uid, tickle, conn, in_write, pending, timer, fuse,
          handler, usr1, rearmed, msg, down, wait, since, silent, cause, burst,
          st, lg, lgSeen

(***************************************************************************)
(* Two volumes, with the tree a/b/c in the first and e/f in the second;    *)
(* a and a/b are renamed and removed.                                      *)
(***************************************************************************)
A == <<"a">>
AB == <<"a", "b">>
ABC == <<"a", "b", "c">>
EF == <<"e", "f">>
Paths == {AB, ABC, EF}
Dirs == {A, AB}
VolOf == [p \in Paths \cup Dirs |-> IF p[1] = "a" THEN "v1" ELSE "v2"]
Hash == [p \in Paths |-> CASE p = AB -> 0 [] p = ABC -> 3 [] p = EF -> 1]
F == INSTANCE DeferredClean WITH silent <- quiet

(***************************************************************************)
(* Limits of a few intervals.  The client and the senders of signals act   *)
(* at most Burst times in an interval, so that time passes.                *)
(***************************************************************************)
D == INSTANCE DsiSession WITH flags <- dsiflags

(***************************************************************************)
(* Scripts of up to three requests: commands, writes and streamed reads,   *)
(* sent one by one or by a client that reads no reply before it has sent   *)
(* them all, with notices, failing files, stalls and drops between them.   *)
(***************************************************************************)
Cmd == [op |-> "cmd", d |-> 0, r |-> 0, refused |-> 0, bad |-> 0]
W(d) == [Cmd EXCEPT !.op = "write", !.d = d]
R(r) == [Cmd EXCEPT !.op = "read_fork", !.r = r]
K == [Cmd EXCEPT !.r = 1]
One == [script |-> <<K>>, eager |-> 0, splice |-> 0, nosplice |-> 0, signals |-> 0,
        dues |-> 0, terms |-> 0, stalls |-> 0, fails |-> 0, drops |-> 0]
Eager(script) == [One EXCEPT !.script = script, !.eager = 1]
StConfigs ==
  {Eager(<<W(3), R(3)>>),
   [Eager(<<W(3), R(3)>>) EXCEPT !.splice = 1, !.nosplice = 1, !.fails = 1],
   [Eager(<<W(3), R(3)>>) EXCEPT !.fails = 1, !.stalls = 1],
   [Eager(<<R(4), W(2), K>>) EXCEPT !.dues = 1],
   [Eager(<<K, K, K>>) EXCEPT !.dues = 2],
   [Eager(<<Cmd, K>>) EXCEPT !.dues = 1],
   [Eager(<<[W(3) EXCEPT !.refused = 1], K, [K EXCEPT !.bad = 1]>>) EXCEPT !.signals = 1],
   [One EXCEPT !.script = <<W(2), K>>, !.signals = 1, !.drops = 1],
   [One EXCEPT !.script = <<R(3), K>>, !.terms = 1, !.fails = 1]}
T == INSTANCE DsiStream

(***************************************************************************)
(* Logins and password changes under lists of two or three modules, for a  *)
(* user, an administrator, root, the guest and unknown names.              *)
(***************************************************************************)
Aliases == [n \in Names |-> IF n \in Users THEN n ELSE IF n = "Ann A" THEN "ann" ELSE None]
Modules == {<<"guest", "passwd", "randnum">>, <<"dhx", "srp">>, <<"pam", "dhx2p">>, <<"dhxp", "gss">>,
            <<"dhx2", "dhx2p">>}
Server(l) == [list |-> l, admins |-> {}, expired |-> {}, full |-> 0, shell |-> 0, single |-> None,
              force |-> None]
Strict(l) == [Server(l) EXCEPT !.expired = {"ann"}, !.admins = {"ann"}]
Single(l) == [Server(l) EXCEPT !.shell = 1, !.single = "ann", !.force = "nobody"]
Servers ==
  {Server(l) : l \in Modules}
  \cup {Strict(<<"guest", "passwd", "randnum">>), Strict(<<"pam", "dhx2p">>), Strict(<<"dhx", "srp">>)}
  \cup {Single(<<"guest", "passwd", "randnum">>), Single(<<"dhxp", "gss">>)}
  \cup {[Server(<<"guest", "passwd", "randnum">>) EXCEPT !.full = 1]}
G == INSTANCE LoginProofs

(* What the proofs ask of the limits and of the password database. *)
ASSUME SessionAssumption == D!LimitsAssumption /\ G!LoginAssumption

fVars == <<cache, curdir, open, nchains, q, seq, scan, cover, batch, stale, quiet>>
dVars == <<loc, waiting, dsiflags, uid, tickle, conn, in_write, pending, timer, fuse,
           handler, usr1, rearmed, msg, down, wait, since, silent, cause, burst>>
gVars == <<lg, lgSeen>>
allVars == <<part, vars, fVars, dVars, st, gVars>>

MCInit ==
  /\ part \in Parts
  /\ Init /\ F!Init /\ D!Init /\ burst = 0
  /\ IF part = "stream" THEN T!StInit ELSE st = T!Connected(One)
  /\ IF part = "login" THEN G!LoginInit ELSE lg = <<>> /\ lgSeen = {}

WorkerStep == part = "worker" /\ Next /\ UNCHANGED <<part, fVars, dVars, st, gVars>>

CleanupStep == part = "cleanup" /\ F!Next /\ UNCHANGED <<part, vars, dVars, st, gVars>>

DsiStep ==
  /\ part = "dsi"
  /\ \/ D!Main /\ UNCHANGED burst
     \/ D!interval /\ burst' = 0
     \/ (D!Request \/ D!Environment) /\ burst < Burst /\ burst' = burst + 1
  /\ UNCHANGED <<part, vars, fVars, st, gVars>>

StreamStep == part = "stream" /\ T!StNext /\ UNCHANGED <<part, vars, fVars, dVars, gVars>>

LoginStep == part = "login" /\ G!LoginNext /\ UNCHANGED <<part, vars, fVars, dVars, st>>

\* The scripts, the volumes and the session come to an end; the worker's
\* handshake never does without saying so.
Over == part # "worker" /\ UNCHANGED allVars

MCNext == WorkerStep \/ CleanupStep \/ DsiStep \/ StreamStep \/ LoginStep \/ Over

(***************************************************************************)
(* The fairness of each component, for the one that runs.                  *)
(***************************************************************************)
MCFair ==
  /\ WF_vars(part = "worker" /\ Worker) /\ WF_vars(part = "worker" /\ MainRuns)
  /\ WF_fVars(part = "cleanup" /\ F!Idle)
  /\ WF_dVars(part = "dsi" /\ D!Main /\ UNCHANGED burst)
  /\ WF_dVars(part = "dsi" /\ D!interval /\ burst' = 0)
  /\ WF_st(part = "stream" /\ T!Server)
  /\ WF_st(part = "stream" /\ T!Dying)
  /\ WF_st(part = "stream" /\ T!ClientSend)
  /\ WF_st(part = "stream" /\ T!ClientRead)

MCSpec == MCInit /\ [][MCNext]_allVars /\ MCFair

-----------------------------------------------------------------------------
(* Properties, beside those of IdleWorker *)

(* No stale entry of the dircache is forgotten by the deferred cleanup, and what
   the worker dereferences is there (dircache_process_deferred_chain). *)
CleanupSound == part = "cleanup" => F!TypeOK /\ F!StaleCovered /\ F!RingSound

(* "Scans resume via their chain cursors across granted cycles" (the comment of
   dircache_process_deferred_chain): no stale entry is forgotten, also when a
   removal shrinks the hash table under a scan (DeferredClean: StaleCovered, with
   Shrinks = TRUE). *)
NoneForgotten == part = "cleanup" => F!StaleCovered

(* A session that lost its connection is clean (afp_dsi_close and the receive
   errors), one whose client fell silent is given up in time (handle_alarm), and
   a shutdown notice is given its 300 seconds (handle_timedown). *)
LimitsKept ==
  part = "dsi" => D!TypeOK /\ D!LossIsClean /\ D!SilenceBounded /\ D!FullNotice

(* The byte stream keeps in step: the next header read is a header, a file holds
   the writes' bytes in order, and the client reads whole replies in order
   (dsi_stream_receive, dsi_writeinit, dsi_stream_send). *)
StreamSound ==
  part = "stream" => T!StTypeOK /\ T!FramesInStep /\ T!FileIsWrites /\ T!RepliesWhole

(* Nobody is logged in, and no password is changed, without the password of that
   user, and a challenge is judged once (Login: LoginProven, ChallengeOnce; login,
   *_logincont, *_changepw). *)
LoginSound == part = "login" => G!LoginTypeOK /\ G!LoginProven /\ G!ChallengeOnce

(* What waits in the part that runs, and what ends the waiting; a login waits
   for its client. *)
Waits(i) ==
  CASE part = "worker" -> IF i = 1 THEN Revoking ELSE Idling
    [] part = "cleanup" -> quiet
    [] part = "dsi" -> IF i = 1 THEN D!Ending ELSE D!Adrift
    [] part = "stream" -> ~T!Done
    [] part = "login" -> FALSE
Served(i) ==
  CASE part = "worker" -> IF i = 1 THEN Revoked ELSE ~Idling
    [] part = "cleanup" -> q.count = 0
    [] part = "dsi" -> IF i = 1 THEN loc = "exited" ELSE ~D!Adrift
    [] part = "stream" -> T!Done
    [] part = "login" -> TRUE

(* The session gets on.  iw_revoke() comes back to the main loop and
   iw_shutdown() ends, however deep in its drain the worker is, and the worker
   drains the queues of a main thread that stays in poll() (IdleWorker:
   RevokeReturns, DrainedWhenIdle); the queue of deferred cleanups empties once the client is
   silent (DeferredClean: Drains); SIGTERM and a shutdown notice end the session
   whatever the client does, and a disconnected session is taken over or ends
   (DsiSession: ToldEnds, AdriftEnds); every request is answered and the answers
   are read, or the session ends (DsiStream: AllAnswered).  Waits ~> Served, in two
   parts that together say more: no step ends a wait other than by serving it,
   and no wait lasts for ever. *)
SessionGetsOn ==
  /\ [][\A i \in 1..2 : Waits(i) => Waits(i)' \/ Served(i)']_allVars
  /\ \A i \in 1..2 : []<>(Waits(i) => Served(i))

-----------------------------------------------------------------------------
(* Theorems *)

(* The limits of a session hold for all lengths of its timeouts, if no login ends
   after a shutdown notice (handle_alarm, dsi_disconnect, handle_timedown). *)
THEOREM LimitsHold ==
  ASSUME ~LateLogin
  PROVE  MCSpec => []LimitsKept
<1> DEFINE Limits == D!IInv /\ D!NInv
<1>1. MCInit => Limits
  BY ZenonT(60), SessionAssumption, D!InitIInv DEF MCInit
<1>2. Limits /\ [MCNext]_allVars => Limits'
  <2> SUFFICES ASSUME D!IInv, D!NInv, [MCNext]_allVars PROVE D!IInv' /\ D!NInv'
    BY ZenonT(60)
  <2>1. [D!Next]_(D!vars)
    BY ZenonT(60) DEF MCNext, WorkerStep, CleanupStep, DsiStep, StreamStep, LoginStep, Over, allVars, dVars,
       D!Next, D!vars, D!timing, D!clocks, D!requests
  <2> QED
    BY ZenonT(60), <2>1, SessionAssumption, D!StepIInv, D!StepNInv
<1>3. Limits => LimitsKept
  BY ZenonT(60), SessionAssumption, D!BoundFromIInv DEF LimitsKept, D!IInv, D!NInv
<1> QED
  BY <1>1, <1>2, <1>3, PTL DEF MCSpec

(* Whatever users there are, whatever modules a server loads and however a client
   mixes its logins, second messages and password changes, nobody gets in without
   a password of theirs and no challenge is judged twice (afp_login, afp_logincont,
   afp_changepw, login). *)
THEOREM LoginHolds == MCSpec => []LoginSound
<1> DEFINE Sound == part = "login" => G!IInv
<1>1. MCInit => Sound
  BY ZenonT(60), SessionAssumption, G!LoginInitInv DEF MCInit
<1>2. Sound /\ [MCNext]_allVars => Sound'
  <2> SUFFICES ASSUME part = "login" => G!IInv, [MCNext]_allVars, part' = "login" PROVE G!IInv'
    BY ZenonT(60)
  <2>1. part = "login" /\ [G!LoginNext]_(G!lgVars)
    BY ZenonT(60) DEF MCNext, WorkerStep, CleanupStep, DsiStep, StreamStep, LoginStep, Over, allVars, gVars,
       G!lgVars
  <2> QED
    BY ZenonT(60), <2>1, SessionAssumption, G!LoginStepInv
<1>3. Sound => LoginSound
  BY ZenonT(60), SessionAssumption, G!SoundFromInv DEF LoginSound
<1> QED
  BY <1>1, <1>2, <1>3, PTL DEF MCSpec
=============================================================================
