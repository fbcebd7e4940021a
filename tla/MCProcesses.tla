---------------------------- MODULE MCProcesses ----------------------------
(***************************************************************************)
(* The processes of the server: the master's table of sessions with the    *)
(* reconnect of a client, and the controller with afpd's main process.     *)
(* The two share no state at this level, so the initial state picks the    *)
(* one that runs; the variables of the other stay in an initial state.     *)
(***************************************************************************)
EXTENDS Sessions, TLC

CONSTANTS CtPids, CtSessions, CtStarved

VARIABLES part, ct

(***************************************************************************)
(* Three processes and room for two sessions: one that has lost its        *)
(* client, one that has just logged in, and one that has not connected.    *)
(***************************************************************************)
(* A reachable state: p1 set its token and client id, then lost its
   connection; p2 has logged in, as the same user or as another. *)
ReconnectInit ==
  \E v \in {"u1", "u2"} :
     /\ phase = ("p1" :> "disc" @@ "p2" :> "running" @@ "p3" :> "none")
     /\ uid = ("p1" :> "u1" @@ "p2" :> v @@ "p3" :> None)
     /\ sock = ("p1" :> None @@ "p2" :> "p2" @@ "p3" :> None)
     /\ recon = [p \in Pids |-> 0]
     /\ die = [p \in Pids |-> 0] /\ urg = [p \in Pids |-> 0]
     /\ peer = ("p1" :> "shut" @@ "p2" :> "open" @@ "p3" :> "open")
     /\ up = [p \in Pids |-> <<>>] /\ down = [p \in Pids |-> <<>>]
     /\ slot = ("p1" :> [EmptySlot EXCEPT !.used = 1, !.uid = "u1", !.valid = 1, !.token = 1,
                                            !.id = "c1", !.boot = "b1"]
                @@ "p2" :> [EmptySlot EXCEPT !.used = 1, !.uid = v, !.valid = 1]
                @@ "p3" :> EmptySlot)

(***************************************************************************)
(* The controller: crashes of one service and of both, a hang, reloads and *)
(* edits of the configuration, descriptor starvation, failing forks, and   *)
(* the starts that are refused.                                            *)
(***************************************************************************)
Plain == [single |-> 0, faults |-> {}, locked |-> 0, good |-> 1, vols |-> {"plain"},
          addrs |-> {}, net |-> {"ipv6", "ddp"}, forkfails |-> 0, dconf |-> 0, TERM |-> 0,
          QUIT |-> 0, HUP |-> 0, crashes |-> 0, hangs |-> 0, edits |-> 0, connects |-> 0,
          ipcs |-> 0, starves |-> 0, ticks |-> 0]
Indexed == [Plain EXCEPT !.vols = {"sl", "slprivate"}, !.dconf = 1]
CtConfigs ==
  {[Indexed EXCEPT !.crashes = 3, !.TERM = 1, !.connects = 1],
   [Indexed EXCEPT !.crashes = 1, !.QUIT = 1, !.TERM = 1, !.hangs = 1, !.connects = 1],
   [Plain EXCEPT !.HUP = 2, !.edits = 1, !.connects = 2, !.TERM = 1, !.ipcs = 1],
   [Plain EXCEPT !.HUP = 1, !.addrs = {"up", "down"}, !.edits = 2, !.connects = 1,
                 !.crashes = 1],
   [Plain EXCEPT !.connects = 4, !.starves = 2, !.ticks = 4, !.TERM = 1],
   [Indexed EXCEPT !.forkfails = 1, !.crashes = 2],
   [Plain EXCEPT !.single = 1, !.HUP = 1, !.TERM = 1],
   [Plain EXCEPT !.single = 1, !.faults = {"homes"}],
   [Plain EXCEPT !.faults = {"not_root"}],
   [Plain EXCEPT !.locked = 1],
   [Plain EXCEPT !.net = {}, !.TERM = 1],
   [Plain EXCEPT !.net = {"ipv4"}, !.addrs = {"down"}, !.TERM = 1]}
C == INSTANCE Controller

all == <<part, vars, ct>>

MCInit ==
  /\ part \in {"sessions", "controller"}
  /\ IF part = "sessions" THEN ReconnectInit ELSE Init
  /\ IF part = "controller" THEN C!CtInit ELSE ct = C!Off(Plain)

SessionsStep == part = "sessions" /\ Next /\ UNCHANGED <<part, ct>>

ControllerStep == part = "controller" /\ C!CtNext /\ UNCHANGED <<part, vars>>

MCNext == SessionsStep \/ ControllerStep

(***************************************************************************)
(* The fairness of each component, for the one that runs.                  *)
(***************************************************************************)
SessionsFair == \A p \in Pids :
  /\ WF_vars(part = "sessions" /\ child_handler(p))
  /\ WF_vars(part = "sessions" /\ ipc_server_read(p))
  /\ WF_vars(part = "sessions" /\ Runs(p))

ControllerFair ==
  /\ WF_ct(part = "controller" /\ C!ControllerStep)
  /\ WF_ct(part = "controller" /\ C!ControllerTimer)
  /\ \A signal \in C!LoopSignals : WF_ct(part = "controller" /\ C!ControllerSignal(signal))
  /\ \A p \in CtPids : /\ WF_ct(part = "controller" /\ C!ProcessStep(p))
                        /\ WF_ct(part = "controller" /\ C!MasterPoll(p))
  /\ \A i \in CtSessions : WF_ct(part = "controller" /\ C!SessionEnds(i))

MCSpec == MCInit /\ [][MCNext]_all /\ SessionsFair /\ ControllerFair

-----------------------------------------------------------------------------
(* Properties *)

(* What waits in the part that runs, and what ends the waiting. *)
Waits(i) ==
  IF part = "sessions" THEN Limbo(<<"p1", "p2", "p3">>[i])
  ELSE IF i = 3 THEN C!Stopping ELSE C!Wanted(<<"afpd", "dbus">>[i])
Served(i) ==
  IF part = "sessions" THEN Settled(<<"p1", "p2", "p3">>[i])
  ELSE IF i = 3 THEN C!Stopped ELSE C!Provided(<<"afpd", "dbus">>[i])

(* Whoever waits is served.  A session in the hand-over or without a client
   serves again or is reaped (Sessions: NoLimbo); a service that ended runs
   again, and SIGTERM to the controller leaves no process and no lock file behind
   (Controller: ServedAgain, ShutdownClean).  Waits ~> Served, in two parts that
   together say more: no step ends a wait other than by serving it, and no wait
   lasts for ever. *)
AllServed ==
  /\ [][\A i \in 1..3 : Waits(i) => Waits(i)' \/ Served(i)']_all
  /\ \A i \in 1..3 : []<>(Waits(i) => Served(i))
=============================================================================
