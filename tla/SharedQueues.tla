---------------------------- MODULE SharedQueues ----------------------------
(***************************************************************************)
(* What the idle worker's handshake promises (the contract stated above    *)
(* invalid_dircache_entries in etc/afpd/directory.c:101-116): the queues   *)
(* have one owner at a time, only the owner changes them, the worker only  *)
(* removes work, and ownership never passes from one thread to the other   *)
(* without a moment in which neither holds it.                             *)
(***************************************************************************)
EXTENDS Naturals

VARIABLES owner, invalid, deferred

avars == <<owner, invalid, deferred>>

AInit == owner = "main" /\ invalid = 0 /\ deferred = 0

MainUses ==
  /\ owner = "main" /\ owner' = "main"
  /\ invalid' \in Nat /\ deferred' \in Nat

MainReleases == owner = "main" /\ owner' = "none" /\ UNCHANGED <<invalid, deferred>>
MainTakes == owner = "none" /\ owner' = "main" /\ UNCHANGED <<invalid, deferred>>
WorkerTakes == owner = "none" /\ owner' = "worker" /\ UNCHANGED <<invalid, deferred>>

WorkerUses ==
  /\ owner = "worker" /\ owner' \in {"worker", "none"}
  /\ invalid' \in 0..invalid /\ deferred' \in 0..deferred

ANext == MainUses \/ MainReleases \/ MainTakes \/ WorkerTakes \/ WorkerUses
ASpec == AInit /\ [][ANext]_avars
=============================================================================
