----------------------------- MODULE IdleWorker -----------------------------
(***************************************************************************)
(* The idle worker of an afpd session (etc/afpd/idle_worker.c) and the     *)
(* points of the session's main loop that drive it (etc/afpd/afp_dsi.c).   *)
(*                                                                         *)
(* Two threads share the queue of invalid dircache entries and the queue   *)
(* of deferred child scans without a lock.  The main thread grants the     *)
(* worker the time it blocks in poll() and takes it back with a two-flag   *)
(* handshake: main writes can_work and reads is_working, the worker writes *)
(* is_working and reads can_work.  Each atomic load or store is a step of  *)
(* its own; the code uses sequentially consistent atomics.                 *)
(***************************************************************************)
EXTENDS Integers

CONSTANTS MaxInvalid,   \* bound on the queue of invalid dircache entries
          MaxDeferred,  \* MAX_DEFERRED_CLEANUPS
          Chains        \* hash chains of the dircache

ASSUME BoundAssumption ==
  MaxInvalid \in Nat /\ MaxDeferred \in Nat /\ Chains \in Nat \ {0}

VARIABLES has_work, can_work, is_working, shutdown_flag,  \* the atomics
          started, granted,    \* plain variables of the main thread
          invalid,             \* length of invalid_dircache_entries
          deferred,            \* deferred_count
          cursor,              \* chain_idx of the scan under way
          main, worker         \* where each thread is

flags == <<has_work, can_work, is_working, shutdown_flag>>
queues == <<invalid, deferred, cursor>>
vars == <<flags, started, granted, queues, main, worker>>

MainLoc == {"init", "serve", "note", "grant", "poll", "revoke", "wait",
            "shutdown", "join", "exited"}
WorkerLoc == {"none", "loop", "sleep", "load", "publish", "recheck", "abort",
              "invalid", "free", "deferred", "chain", "pending", "clear", "release",
              "done"}

(* The worker reads or writes the shared queues here. *)
Touching == {"free", "chain", "pending", "clear"}
(* The worker is between its two stores to is_working. *)
Published == Touching \cup {"recheck", "abort", "invalid", "deferred", "release"}
(* The main thread is inside a poll window: from before poll() to the end of
   iw_revoke(). *)
PollWindow == {"poll", "revoke", "wait"}

TypeOK ==
  /\ has_work \in {0, 1} /\ can_work \in {0, 1}
  /\ is_working \in {0, 1} /\ shutdown_flag \in {0, 1}
  /\ started \in {0, 1} /\ granted \in {0, 1}
  /\ invalid \in 0..MaxInvalid /\ deferred \in 0..MaxDeferred
  /\ cursor \in 0..Chains-1
  /\ main \in MainLoc /\ worker \in WorkerLoc

Init ==
  /\ has_work = 0 /\ can_work = 0
  /\ is_working = 0 /\ shutdown_flag = 0
  /\ started = 0 /\ granted = 0
  /\ invalid = 0 /\ deferred = 0 /\ cursor = 0
  /\ main = "init" /\ worker = "none"

-----------------------------------------------------------------------------
(* The main thread *)

(* iw_init: pthread_create may fail, and the session then runs without the
   worker. *)
iw_init ==
  /\ main = "init" /\ main' = "serve"
  /\ \/ started' = 1 /\ worker' = "loop"
     \/ UNCHANGED <<started, worker>>
  /\ UNCHANGED <<flags, granted, queues>>

(* dir_remove: the entry joins invalid_dircache_entries, iw_note_work follows. *)
dir_remove ==
  /\ main = "serve" /\ invalid < MaxInvalid
  /\ invalid' = invalid + 1
  /\ main' = "note"
  /\ UNCHANGED <<flags, started, granted, deferred, cursor, worker>>

(* dircache_remove_children_defer: a job is queued only while the worker runs
   and the queue has room; the code removes the children at once otherwise. *)
dircache_remove_children_defer ==
  /\ main = "serve" /\ started = 1 /\ deferred < MaxDeferred
  /\ deferred' = deferred + 1
  /\ main' = "note"
  /\ UNCHANGED <<flags, started, granted, invalid, cursor, worker>>

(* Mutant: the enqueue is not announced. *)
iw_note_work_silent ==
  /\ main = "note" /\ main' = "serve"
  /\ UNCHANGED <<flags, started, granted, queues, worker>>

(* iw_note_work, after the enqueue. *)
iw_note_work ==
  /\ main = "note" /\ main' = "serve"
  /\ has_work' = IF started = 1 THEN 1 ELSE has_work
  /\ UNCHANGED <<can_work, is_working, shutdown_flag, started, granted, queues, worker>>

(* dir_free_invalid_q: without a worker the main loop frees the queue after
   each command. *)
dir_free_invalid_q ==
  /\ main = "serve" /\ started = 0
  /\ invalid' = 0
  /\ UNCHANGED <<flags, started, granted, deferred, cursor, main, worker>>

(* dircache_flush_deferred_for_vol: closing a volume finishes its jobs on the
   main thread; a scan under way for that volume, or a merged one, is dropped. *)
dircache_flush_deferred_for_vol ==
  /\ main = "serve"
  /\ \E n \in 0..deferred : deferred' = n
  /\ cursor' \in IF deferred' = 0 THEN {0} ELSE {0, cursor}
  /\ UNCHANGED <<flags, started, granted, invalid, main, worker>>

(* iw_grant, up to its load of has_work: no work, no grant. *)
iw_grant ==
  /\ main = "serve"
  /\ main' = IF started = 1 /\ has_work = 1 THEN "grant" ELSE "poll"
  /\ UNCHANGED <<flags, started, granted, queues, worker>>

(* iw_grant: the store that opens the window. *)
iw_grant_store ==
  /\ main = "grant" /\ main' = "poll"
  /\ can_work' = 1
  /\ granted' = 1
  /\ UNCHANGED <<has_work, is_working, shutdown_flag, started, queues, worker>>

(* poll() returns for data, a hint, a signal or its timeout. *)
poll_return ==
  /\ main = "poll" /\ main' = "revoke"
  /\ UNCHANGED <<flags, started, granted, queues, worker>>

(* Mutant: the revoke does not wait for the worker's release. *)
iw_revoke_nowait ==
  /\ main = "revoke" /\ main' = "serve"
  /\ can_work' = 0 /\ granted' = 0
  /\ UNCHANGED <<has_work, is_working, shutdown_flag, started, queues, worker>>

(* iw_revoke: without a grant nothing is stored or awaited. *)
iw_revoke ==
  /\ main = "revoke"
  /\ IF started = 1 /\ granted = 1
       THEN can_work' = 0 /\ main' = "wait"
       ELSE main' = "serve" /\ UNCHANGED can_work
  /\ UNCHANGED <<has_work, is_working, shutdown_flag, started, granted, queues, worker>>

(* iw_wait_release, and the last line of iw_revoke. *)
iw_wait_release ==
  /\ main = "wait" /\ is_working = 0
  /\ granted' = 0
  /\ main' = "serve"
  /\ UNCHANGED <<flags, started, queues, worker>>

(* iw_shutdown: a close request, or the end of a session that logged out. *)
iw_shutdown ==
  /\ main = "serve" /\ started = 1
  /\ can_work' = 0
  /\ main' = "shutdown"
  /\ UNCHANGED <<has_work, is_working, shutdown_flag, started, granted, queues, worker>>

iw_shutdown_flag ==
  /\ main = "shutdown" /\ main' = "join"
  /\ shutdown_flag' = 1
  /\ UNCHANGED <<has_work, can_work, is_working, started, granted, queues, worker>>

(* pthread_join returned; the caller exits, and queued work is abandoned. *)
iw_shutdown_join ==
  /\ main = "join" /\ worker = "done"
  /\ started' = 0
  /\ main' = "exited"
  /\ UNCHANGED <<flags, granted, queues, worker>>

(* afp_dsi_die and afp_dsi_close: no wait for the worker, which ends with the
   process. *)
iw_revoke_signal_safe ==
  /\ main = "serve"
  /\ can_work' = IF started = 1 THEN 0 ELSE can_work
  /\ main' = "exited"
  /\ UNCHANGED <<has_work, is_working, shutdown_flag, started, granted, queues, worker>>

-----------------------------------------------------------------------------
(* The worker thread, iw_main.  It stops with the process. *)

Step(from, to) == worker = from /\ worker' = to /\ main # "exited"

(* A step that only moves the worker: a test of an atomic or a sleep. *)
Move(from, to) == Step(from, to) /\ UNCHANGED <<flags, started, granted, queues, main>>

iw_main_loop == Move("loop", IF shutdown_flag = 1 THEN "done" ELSE "sleep")
iw_main_sleep == Move("sleep", "load")
iw_main_load == Move("load", IF can_work = 1 THEN "publish" ELSE "loop")

iw_main_publish ==
  /\ Step("publish", "recheck")
  /\ is_working' = 1
  /\ UNCHANGED <<has_work, can_work, shutdown_flag, started, granted, queues, main>>

iw_main_recheck == Move("recheck", IF can_work = 1 THEN "invalid" ELSE "abort")

(* Mutant: the abort leaves is_working set. *)
iw_main_abort_keeps == Move("abort", "loop")

iw_main_abort ==
  /\ Step("abort", "loop")
  /\ is_working' = 0
  /\ UNCHANGED <<has_work, can_work, shutdown_flag, started, granted, queues, main>>

(* The first loop frees one entry of the invalid queue per look at can_work. *)
iw_main_invalid == Move("invalid", IF can_work = 1 THEN "free" ELSE "deferred")

iw_main_free ==
  /\ Step("free", IF invalid > 0 THEN "invalid" ELSE "deferred")
  /\ invalid' = IF invalid > 0 THEN invalid - 1 ELSE 0
  /\ UNCHANGED <<flags, started, granted, deferred, cursor, main>>

(* The second loop scans one chain per look at can_work; the count of jobs is
   read after the grant. *)
iw_main_deferred == Move("deferred", IF can_work = 1 THEN "chain" ELSE "pending")

(* dircache_process_deferred_chain scans one chain.  The last chain of a scan
   retires its job, or several when the scan is merged or the newest jobs are
   covered by it; a revoked grant stops it before its next removal and leaves
   the cursor where it is. *)
iw_main_chain ==
  /\ Step("chain", IF deferred > 0 THEN "deferred" ELSE "pending")
  /\ \/ deferred = 0 /\ UNCHANGED <<deferred, cursor>>
     \/ deferred > 0 /\ can_work = 0 /\ UNCHANGED <<deferred, cursor>>
     \/ deferred > 0 /\ cursor + 1 < Chains /\ cursor' = cursor + 1 /\ UNCHANGED deferred
     \/ /\ deferred > 0 /\ cursor + 1 = Chains /\ cursor' = 0
        /\ \E n \in 0..(deferred-1) : deferred' = n
  /\ UNCHANGED <<flags, started, granted, invalid, main>>

(* Mutant: an interrupted drain counts as a full one. *)
iw_main_pending_never == Move("pending", "clear")

(* iw_work_pending: an interrupted drain leaves has_work set. *)
iw_main_pending == Move("pending", IF invalid > 0 \/ deferred > 0 THEN "release" ELSE "clear")

iw_main_clear ==
  /\ Step("clear", "release")
  /\ has_work' = 0
  /\ UNCHANGED <<can_work, is_working, shutdown_flag, started, granted, queues, main>>

iw_main_release ==
  /\ Step("release", "loop")
  /\ is_working' = 0
  /\ UNCHANGED <<has_work, can_work, shutdown_flag, started, granted, queues, main>>

-----------------------------------------------------------------------------
Produce == dir_remove \/ dircache_remove_children_defer
Main ==
  \/ iw_init \/ iw_note_work \/ dir_free_invalid_q \/ dircache_flush_deferred_for_vol
  \/ iw_grant \/ iw_grant_store \/ poll_return \/ iw_revoke \/ iw_wait_release
  \/ iw_shutdown \/ iw_shutdown_flag \/ iw_shutdown_join \/ iw_revoke_signal_safe
Worker ==
  \/ iw_main_loop \/ iw_main_sleep \/ iw_main_load \/ iw_main_publish
  \/ iw_main_recheck \/ iw_main_abort \/ iw_main_invalid \/ iw_main_free
  \/ iw_main_deferred \/ iw_main_chain \/ iw_main_pending \/ iw_main_clear
  \/ iw_main_release

(* The process has ended, or the worker was joined. *)
Ended == main = "exited" /\ UNCHANGED vars

Next == Produce \/ Main \/ Worker \/ Ended
Spec == Init /\ [][Next]_vars

(* What the main loop does of itself: it finishes what it began and comes back
   to poll().  Nothing makes poll() return, a client request or an entry to
   remove arrive. *)
MainRuns == \/ iw_init \/ iw_note_work \/ iw_grant \/ iw_grant_store \/ iw_revoke
            \/ iw_wait_release \/ iw_shutdown_flag \/ iw_shutdown_join

(* Both threads are scheduled. *)
Fairness == WF_vars(Worker) /\ WF_vars(MainRuns)
FairSpec == Spec /\ Fairness

-----------------------------------------------------------------------------
(* The two threads never use the queues at the same time: while the worker
   touches them the main thread stays between its call of poll() and the end
   of the iw_revoke() that follows (idle_worker.c:220, afp_dsi.c:1030-1035). *)
MutualExclusion == worker \in Touching => main \in PollWindow

(* Queued work is never forgotten: while the worker runs and main is not on its
   way from the enqueue to iw_note_work(), a non-empty queue has has_work set,
   so the worker's clear never hides a later enqueue (idle_worker.c:246-249). *)
NoLostWork ==
  started = 1 /\ main # "note" /\ invalid + deferred > 0 => has_work = 1

(* Who owns the queues: the worker where it touches them, nobody during a poll
   window, the main thread otherwise. *)
Owner ==
  IF worker \in Touching THEN "worker"
  ELSE IF main \in PollWindow THEN "none" ELSE "main"
Contract == INSTANCE SharedQueues WITH owner <- Owner

(* The handshake implements the one-owner contract that directory.c:101-116
   states for invalid_dircache_entries. *)
OneOwner == Contract!ASpec

(* iw_revoke() always comes back to the main loop: the worker, however deep in
   its drain, notices the revoked grant and releases (iw_wait_release); and
   iw_shutdown() ends, for the worker leaves its loop and pthread_join returns. *)
Revoking == main \in {"wait", "shutdown", "join"}
Revoked == main \in {"serve", "exited"}
RevokeReturns == Revoking ~> Revoked

(* A session whose client stays silent gets its queues drained: a main thread
   that stays in poll() has granted the worker whatever work there was (iw_grant
   before every poll). *)
Idling == main = "poll" /\ started = 1 /\ invalid + deferred > 0
DrainedWhenIdle == Idling ~> ~Idling
=============================================================================
