----------------------------- MODULE Controller -----------------------------
(***************************************************************************)
(* The service controller (etc/netatalk/netatalk.c) and the main process   *)
(* of afpd (etc/afpd/main.c, afp_config.c): starting, restarting after a   *)
(* crash, reloading on SIGHUP, and the shutdown with its grace time.       *)
(*                                                                         *)
(* Two slots hold the process IDs of the services, 0 for one that is not   *)
(* wanted and -1 for one that has to be started.  A process is booting     *)
(* until its signal handlers stand, hung when it answers nothing but       *)
(* SIGKILL, and a zombie until the controller reaps it.  A configuration   *)
(* is a version number, and good says whether afpd can start with the one  *)
(* on disk.  backlog is a connection in the queue of the listening socket, *)
(* ipc a message or due hint batch that wakes the poll.                    *)
(***************************************************************************)
EXTENDS Integers, FiniteSets, FiniteSetsExt

CONSTANTS CtPids,         \* process IDs, positive integers
          CtSessions,     \* slots for session processes
          CtStarved,      \* FDS_STARVED_RESTART, in clock ticks
          CtConfigs       \* the scenarios

VARIABLE ct

ctVars == <<ct>>

NEEDED == -1
OPTIONAL == 0
Services == {"afpd", "dbus"}

NoProc == [what |-> "none", st |-> "free", sig |-> {}, reload |-> 0, conf |-> 0,
           listen |-> {}, since |-> 0, last |-> 0]
NoSession == [st |-> "none", of |-> 0, conf |-> 0, hup |-> 0]

service_running(pid) == pid \notin {NEEDED, OPTIONAL}

Spend(s, what) == [s EXCEPT !.cf[what] = @ - 1]
Has(s, what) == s.cf[what] > 0
Live(s, p) == s.procs[p].st \in {"boot", "run", "hung"}

(***************************************************************************)
(* Processes and signals.                                                  *)
(***************************************************************************)
\* fork and exec.  The outcomes: the state, with the slot set.
run_process(s, what) ==
    LET p == Min({q \in CtPids : s.procs[q].st = "free"})
    IN  {[s EXCEPT !.slot[what] = p,
                   !.procs[p] = [NoProc EXCEPT !.what = what, !.st = "boot"]]}
        \cup {[Spend(s, "forkfails") EXCEPT !.slot[what] = NEEDED] : x \in {1} \cap {s.cf.forkfails}}
run_afpd(s) == run_process(s, "afpd")

\* Slots that hold no process ID get no signal.
kill_childs(s, signal, whats) ==
    LET to == {s.slot[w] : w \in {v \in whats : service_running(s.slot[v])}}
    IN  [s EXCEPT !.procs = [p \in CtPids |->
            IF p \in to /\ Live(s, p)
            THEN [s.procs[p] EXCEPT !.sig = @ \cup {signal}] ELSE s.procs[p]]]

\* Process p ends.  Its sessions run on without a parent unless they were
\* told to end; connections nobody accepted are reset.
Exit(s, p) ==
    [s EXCEPT !.procs[p] = [NoProc EXCEPT !.what = s.procs[p].what, !.st = "zombie"],
              !.sig = @ \cup {"CHLD"},
              !.backlog = IF s.procs[p].what = "afpd" THEN 0 ELSE @,
              !.ses = [i \in CtSessions |->
                  IF s.ses[i].of = p THEN [s.ses[i] EXCEPT !.of = 0] ELSE s.ses[i]]]

(***************************************************************************)
(* The controller starts.                                                  *)
(***************************************************************************)
\* The rules of the single user mode; faults are those the setup breaks.
owned_private_dir(faults) == {"dir_mode", "dir_owner", "dir_link"} \cap faults = {}
dir_is_private(faults) ==
    owned_private_dir(faults) /\ {"file_absent", "file_mode", "file_owner"} \cap faults = {}
srp_verifier_store_is_private(faults) ==
    {"store_private", "verifier_absent", "verifier_mode"} \cap faults = {}
dbpath_is_creatable(faults) == {"dbpath_dots", "dbpath_other", "dbpath_parent"} \cap faults = {}

validate_singleuser_config(faults) ==
    /\ {"ddp", "afpstats", "forced_identity", "other_uam"} \cap faults = {}
    /\ dir_is_private(faults)
    /\ srp_verifier_store_is_private(faults)
    /\ {"homes", "vols_skipped", "no_volumes"} \cap faults = {}
    /\ {"vol_access", "dbpath_nested"} \cap faults = {}
    /\ dbpath_is_creatable(faults)

\* A lock file with the ID of a process that lives refuses the start.
check_lockfile(s) == s.cf.locked = 0
create_lockfile(s) == [s EXCEPT !.lock = 1]
server_unlock(s) == [s EXCEPT !.lock = 0]

netatalk_exit(s) == [server_unlock(s) EXCEPT !.ctl = "gone"]

Refused(s) ==
    \/ s.cf.single = 1 /\ "root" \in s.cf.faults
    \/ s.cf.single = 0 /\ "not_root" \in s.cf.faults
    \/ s.cf.single = 1 /\ {"no_pidfile", "pidfile_place"} \cap s.cf.faults # {}
    \/ ~check_lockfile(s)
    \/ s.good = 0
    \/ s.cf.single = 1 /\ ~validate_singleuser_config(s.cf.faults)

NetatalkStarts ==
    /\ ct.ctl = "off"
    /\ \/ Refused(ct) /\ ct' = [ct EXCEPT !.ctl = "gone"]
       \/ /\ ~Refused(ct)
          /\ \E s \in run_afpd(create_lockfile(ct)) :
                ct' = IF s.slot.afpd = NEEDED THEN netatalk_exit(s)
                      ELSE [s EXCEPT !.ctl = "setup", !.conf = s.disk]

any_volume_uses_localsearch(s) == s.cf.vols \cap {"sl", "slprivate", "slquote"} # {}

\* The volumes a shared index may hold, handed to the indexer through dconf.
\* A file that cannot be written or a failed compile leaves the index as it
\* was; the result is not looked at.
set_sl_volumes(s) ==
    {[s EXCEPT !.indexed = s.cf.vols \cap {"sl"}]}
    \cup {Spend(s, "dconf") : x \in {1} \cap {s.cf.dconf}}

\* The events are set up and the signals let in; then D-Bus, whose failure
\* ends the controller.
NetatalkSetup ==
    /\ ct.ctl = "setup"
    /\ \/ ~any_volume_uses_localsearch(ct) /\ ct' = [ct EXCEPT !.ctl = "loop"]
       \/ /\ any_volume_uses_localsearch(ct)
          /\ \E s \in run_process(ct, "dbus") :
                IF s.slot.dbus = NEEDED THEN ct' = netatalk_exit(s)
                ELSE \E t \in set_sl_volumes(s) : ct' = [t EXCEPT !.ctl = "loop"]

(***************************************************************************)
(* The event loop of the controller.                                       *)
(***************************************************************************)
Taken(s, signal) == [s EXCEPT !.sig = @ \ {signal}]

\* From here on only SIGCHLD and the grace timer are events.
sigterm_impl(s) == kill_childs([s EXCEPT !.ctl = "grace"], "TERM", Services)

sigquit_impl(s) == kill_childs(s, "QUIT", Services)

\* A read of the volumes that fails keeps the ones there are.
sighup_impl(s) ==
    IF s.cf.single = 1 THEN s
    ELSE kill_childs([s EXCEPT !.conf = IF s.good = 1 THEN s.disk ELSE @], "HUP", {"afpd"})

\* One SIGCHLD stands for any number of exits: every zombie is reaped.
sigchld_impl_once(s) ==
    LET z == {p \in CtPids : s.procs[p].st = "zombie"}
        dead == IF z = {} THEN {} ELSE {Min(z)}
        slot == [w \in Services |-> IF s.slot[w] \in dead THEN NEEDED ELSE s.slot[w]]
        over == s.ctl = "grace" /\ \A w \in Services : ~service_running(slot[w])
    IN  [s EXCEPT !.procs = [p \in CtPids |-> IF p \in dead THEN NoProc ELSE s.procs[p]],
                  !.slot = slot, !.ctl = IF over THEN "after" ELSE @]

sigchld_impl(s) ==
    LET dead == {p \in CtPids : s.procs[p].st = "zombie"}
        slot == [w \in Services |-> IF s.slot[w] \in dead THEN NEEDED ELSE s.slot[w]]
        over == s.ctl = "grace" /\ \A w \in Services : ~service_running(slot[w])
    IN  [s EXCEPT !.procs = [p \in CtPids |-> IF p \in dead THEN NoProc ELSE s.procs[p]],
                  !.slot = slot, !.ctl = IF over THEN "after" ELSE @]

\* Every second: what needs a start is started.
timer_impl(s) ==
    UNION {IF t.slot.dbus = NEEDED THEN run_process(t, "dbus") ELSE {t} :
           t \in IF s.slot.afpd = NEEDED THEN run_afpd(s) ELSE {s}}

\* The signals of the loop; sigchld is the one event left in a shutdown.
LoopSignals == {"TERM", "QUIT", "HUP", "CHLD"}
ControllerSignal(signal) ==
    /\ signal \in ct.sig
    /\ ct.ctl = "loop" \/ (ct.ctl = "grace" /\ signal = "CHLD")
    /\ LET s == Taken(ct, signal)
       IN  ct' = CASE signal = "TERM" -> sigterm_impl(s)
                   [] signal = "QUIT" -> sigquit_impl(s)
                   [] signal = "HUP" -> sighup_impl(s)
                   [] signal = "CHLD" -> sigchld_impl(s)

ControllerTimer ==
    /\ ct.ctl = "loop"
    /\ \E w \in Services : ct.slot[w] = NEEDED
    /\ \E s \in timer_impl(ct) : ct' = s

kill_timer ==
    /\ ct.ctl = "grace"
    /\ ct' = [ct EXCEPT !.ctl = "after"]

\* After the loop: what still runs is killed, and the lock file goes.
AfterLoop_nokill(s) == netatalk_exit(s)
AfterLoop(s) == netatalk_exit(kill_childs(s, "KILL", Services))

NetatalkEnds == ct.ctl = "after" /\ ct' = AfterLoop(ct)

(***************************************************************************)
(* The main process of afpd.                                               *)
(***************************************************************************)
\* The first result of the lookup that can be bound and listened on is taken.
dsi_tcp_listen(s, addr, families) ==
    addr = "up" \/ (addr = "any" /\ families \cap s.cf.net # {})

\* The unspecified address is tried with IPv6, and with every family when
\* there is no IPv6 socket to be had.
dsi_tcp_init(s, addr) ==
    \/ dsi_tcp_listen(s, addr, IF addr = "any" THEN {"ipv6"} ELSE {"ipv4", "ipv6"})
    \/ addr = "any" /\ "ipv6" \notin s.cf.net /\ dsi_tcp_listen(s, addr, {"ipv4", "ipv6"})

\* The ASP endpoint, if it opens and atalkd takes the registration of its name.
asp_endpoint(s) == s.cf.net \cap {"ddp"}

\* The sockets of the configuration on disk.  Without one of the configured
\* addresses every address is tried; {} stands for the failure.
configinit(s) ==
    LET named == {a \in s.cf.addrs : dsi_tcp_init(s, a)}
        tcp == IF named # {} THEN named ELSE {a \in {"any"} : dsi_tcp_init(s, a)}
    IN  IF s.good = 0 \/ tcp = {} THEN {} ELSE tcp \cup asp_endpoint(s)

\* Until the handlers stand a signal has its default action, which is to end
\* the process.
Booted(p) ==
    /\ ct.procs[p].st = "boot"
    /\ ct' = IF ct.procs[p].sig # {} THEN Exit(ct, p)
             ELSE IF ct.procs[p].what = "dbus" THEN [ct EXCEPT !.procs[p].st = "run"]
             ELSE IF configinit(ct) = {} THEN Exit(ct, p)
             ELSE [ct EXCEPT !.procs[p].st = "run", !.procs[p].conf = ct.disk,
                             !.procs[p].listen = configinit(ct)]

\* SIGTERM to the sessions the process has in its table.
afp_end_sessions(s, p) ==
    [s EXCEPT !.ses = [i \in CtSessions |->
        IF s.ses[i].of = p THEN [s.ses[i] EXCEPT !.st = "term"] ELSE s.ses[i]]]

\* The handler.  SIGHUP only raises a flag; the poll it interrupts is entered
\* again without a look at the flag.
afp_goaway(s, p, signal) ==
    IF signal \in {"TERM", "QUIT"} THEN Exit(afp_end_sessions(s, p), p)
    ELSE [s EXCEPT !.procs[p].sig = @ \ {"HUP"}, !.procs[p].reload = 1]

Signalled(p) ==
    \/ /\ ct.procs[p].st \in {"run", "hung"} /\ "KILL" \in ct.procs[p].sig
       /\ ct' = Exit(ct, p)
    \/ /\ ct.procs[p].st = "run" /\ "KILL" \notin ct.procs[p].sig
       /\ \E g \in ct.procs[p].sig :
             ct' = IF ct.procs[p].what = "dbus" THEN Exit(ct, p) ELSE afp_goaway(ct, p, g)

\* The reload closes the listening sockets, with the connections nobody has
\* accepted, reads the configuration, opens them again and tells the
\* sessions; a configuration that cannot be used ends the process.
MasterReload(s, p) ==
    IF configinit(s) = {} THEN Exit(s, p)
    ELSE [s EXCEPT !.backlog = 0, !.procs[p].reload = 0, !.procs[p].conf = s.disk,
                   !.procs[p].listen = configinit(s),
                   !.ses = [i \in CtSessions |-> IF s.ses[i].of = p
                            THEN [s.ses[i] EXCEPT !.hup = 1] ELSE s.ses[i]]]

\* No descriptor for a connection.  A time of refusals without a success
\* longer than the limit ends the sessions and the process.
master_out_of_fds(s, p) ==
    LET w == s.procs[p]
        since == IF w.since = 0 \/ s.now - w.last > CtStarved THEN s.now ELSE w.since
    IN  IF s.now - since < CtStarved
        THEN [s EXCEPT !.procs[p].since = since, !.procs[p].last = s.now]
        ELSE Exit(afp_end_sessions(s, p), p)

\* A connection: refused at the session limit, else given to a new process.
dsi_start(s, p) ==
    LET t == [s EXCEPT !.backlog = 0]
        free == {i \in CtSessions : s.ses[i].st = "none"}
    IN  IF s.starved = 1 THEN master_out_of_fds(t, p)
        ELSE IF free = {} THEN t
        ELSE [t EXCEPT !.procs[p].since = 0, !.procs[p].last = 0,
                       !.ses[Min(free)] = [st |-> "up", of |-> p, conf |-> s.procs[p].conf,
                                           hup |-> 0]]

\* The poll returns with ready descriptors or because hints are due.
MasterPoll(p) ==
    /\ ct.procs[p].st = "run" /\ ct.procs[p].what = "afpd" /\ ct.procs[p].sig = {}
    /\ ct.backlog = 1 \/ ct.ipc = 1
    /\ ct' = IF ct.procs[p].reload = 1 THEN MasterReload(ct, p)
             ELSE LET s == [ct EXCEPT !.ipc = 0]
                  IN  IF ct.backlog = 1 THEN dsi_start(s, p) ELSE s

(***************************************************************************)
(* The sessions, as far as their parent touches them.                      *)
(***************************************************************************)
SessionEnds(i) ==
    /\ ct.ses[i].st = "term"
    /\ ct' = [ct EXCEPT !.ses[i] = NoSession]

\* A reload waits for the next request.
SessionRequest(i) ==
    /\ ct.ses[i].st = "up" /\ ct.ses[i].hup = 1
    /\ ct' = [ct EXCEPT !.ses[i].hup = 0, !.ses[i].conf = IF ct.good = 1 THEN ct.disk ELSE @]

(***************************************************************************)
(* The surroundings.                                                       *)
(***************************************************************************)
Environment ==
    \/ \E g \in {"TERM", "QUIT", "HUP"} :
          /\ Has(ct, g) /\ g \notin ct.sig /\ ct.ctl \in {"setup", "loop"}
          /\ ct' = [Spend(ct, g) EXCEPT !.sig = @ \cup {g}]
    \/ \E p \in CtPids : /\ Has(ct, "crashes") /\ ct.procs[p].st \in {"boot", "run"}
                         /\ ct' = Exit(Spend(ct, "crashes"), p)
    \/ \E p \in CtPids : /\ Has(ct, "hangs") /\ ct.procs[p].st = "run"
                         /\ ct' = [Spend(ct, "hangs") EXCEPT !.procs[p].st = "hung"]
    \/ \E ok \in 0..1 : /\ Has(ct, "edits")
                        /\ ct' = [Spend(ct, "edits") EXCEPT !.disk = @ + 1, !.good = ok]
    \/ /\ Has(ct, "connects") /\ ct.backlog = 0
       /\ \E p \in CtPids : ct.procs[p].listen # {}
       /\ ct' = [Spend(ct, "connects") EXCEPT !.backlog = 1]
    \/ Has(ct, "ipcs") /\ ct.ipc = 0 /\ ct' = [Spend(ct, "ipcs") EXCEPT !.ipc = 1]
    \/ \E i \in CtSessions : ct.ses[i].st = "up" /\ ct' = [ct EXCEPT !.ses[i].st = "term"]
    \/ Has(ct, "starves") /\ ct' = [Spend(ct, "starves") EXCEPT !.starved = 1 - @]
    \/ Has(ct, "ticks") /\ ct' = [Spend(ct, "ticks") EXCEPT !.now = @ + 1]

\* Before the controller starts, in the scenario cf.
Off(cf) ==
    [cf |-> cf, ctl |-> "off", lock |-> 0, sig |-> {},
     slot |-> [w \in Services |-> IF w = "afpd" THEN NEEDED ELSE OPTIONAL],
     procs |-> [p \in CtPids |-> NoProc], conf |-> 0, indexed |-> {},
     disk |-> 1, good |-> cf.good, backlog |-> 0, ipc |-> 0,
     starved |-> 0, now |-> 1, ses |-> [i \in CtSessions |-> NoSession]]

CtInit == \E cf \in CtConfigs : ct = Off(cf)

ControllerStep == NetatalkStarts \/ NetatalkSetup \/ kill_timer \/ NetatalkEnds
ProcessStep(p) == Booted(p) \/ Signalled(p)
SessionStep(i) == SessionEnds(i) \/ SessionRequest(i)

CtNext ==
    \/ NetatalkStarts \/ NetatalkSetup \/ ControllerTimer
    \/ \E signal \in LoopSignals : ControllerSignal(signal)
    \/ kill_timer \/ NetatalkEnds
    \/ \E p \in CtPids : Booted(p) \/ Signalled(p) \/ MasterPoll(p)
    \/ \E i \in CtSessions : SessionEnds(i) \/ SessionRequest(i)
    \/ Environment

\* The kernel runs every process that can run, and both timers fire.  What
\* clients, administrators and crashes do is not promised.
CtFair ==
    /\ WF_ctVars(ControllerStep) /\ WF_ctVars(ControllerTimer)
    /\ \A signal \in LoopSignals : WF_ctVars(ControllerSignal(signal))
    /\ \A p \in CtPids : WF_ctVars(ProcessStep(p)) /\ WF_ctVars(MasterPoll(p))
    /\ \A i \in CtSessions : WF_ctVars(SessionEnds(i))

CtSpec == CtInit /\ [][CtNext]_ctVars /\ CtFair

(***************************************************************************)
(* Properties.                                                             *)
(***************************************************************************)
CtTypeOK ==
    /\ ct.ctl \in {"off", "setup", "loop", "grace", "after", "gone"}
    /\ ct.slot \in [Services -> CtPids \cup {NEEDED, OPTIONAL}]
    /\ \A p \in CtPids : ct.procs[p].st \in {"free", "boot", "run", "hung", "zombie"}
    /\ \A i \in CtSessions : ct.ses[i].st \in {"none", "up", "term"}

\* The slots of the controller name its children: a service process that
\* lives, or whose exit is not reaped, is the one its slot names.
SlotsName == ct.ctl # "gone" =>
    \A p \in CtPids : ct.procs[p].st # "free" => ct.slot[ct.procs[p].what] = p

Serving(what) == \E p \in CtPids : ct.procs[p].what = what /\ ct.procs[p].st = "run"
Hung == \E p \in CtPids : ct.procs[p].st = "hung"

\* A service that ended runs again, whatever ended it and however many ended
\* at the same time, as long as the controller is not told to stop and the
\* configuration is one afpd can start with.
Wanted(w) == ct.ctl = "loop" /\ ct.slot[w] # OPTIONAL
Provided(w) == Serving(w) \/ Hung \/ configinit(ct) = {} \/ ct.ctl # "loop"
ServedAgain == \A w \in Services : Wanted(w) ~> Provided(w)

\* SIGTERM to the controller ends it, and with it the lock file, every service
\* process (a hung one too) and every session a live afpd had in its table.
\* The shutdown is under way until the last process SIGKILL was sent to is gone.
Stopping ==
    \/ ct.ctl = "loop" /\ "TERM" \in ct.sig
    \/ ct.ctl \in {"grace", "after"}
    \/ ct.ctl = "gone" /\ \E p \in CtPids : Live(ct, p) /\ "KILL" \in ct.procs[p].sig
Stopped == /\ ct.ctl = "gone" /\ ct.lock = 0
           /\ \A p \in CtPids : ~Live(ct, p)
           /\ \A i \in CtSessions : ct.ses[i].st = "none" \/ ct.ses[i].of = 0
ShutdownClean == Stopping ~> Stopped

=============================================================================
