----------------------------- MODULE DsiSession -----------------------------
(***************************************************************************)
(* The life of one DSI session (afp_over_dsi in etc/afpd/afp_dsi.c): the   *)
(* tickle timer, the sleeping and disconnected states and their limits,    *)
(* the shutdown notice of SIGUSR1, server messages, the take-over of a     *)
(* reconnecting client's connection, and the ways a session ends.  Signal  *)
(* handlers only record; the main loop serves the records, in the order of *)
(* process_deferred_signals, between requests.                             *)
(*                                                                         *)
(* Time is counted in tickle intervals.  A request arrives whole or not at *)
(* all.                                                                    *)
(***************************************************************************)
EXTENDS Integers, TLAPS

CONSTANTS Timeout,       \* options.timeout, intervals without a client
          Sleep,         \* options.sleep, intervals of sleep
          Disconnected,  \* options.disconnected
          Notice,        \* the 300 seconds of handle_timedown, in intervals
          LateLogin      \* a login may end after the shutdown notice

VARIABLES loc,        \* where the main loop is; "exited"
          waiting,    \* 1 in the loop of a disconnected session
          flags,      \* dsi->flags
          uid,        \* 1 after login
          tickle,     \* dsi->tickle
          conn,       \* "open", "shut" by the client, "none"
          in_write,   \* dsi->in_write
          pending,    \* the records of the signal handlers
          timer,      \* ITIMER_REAL: "tick", "notice" or "off"
          fuse,       \* intervals until the notice timer fires
          handler,    \* of SIGALRM: "alarm" or "die"
          usr1,       \* 0: SIGUSR1 is ignored
          rearmed,    \* 1: the tickle timer was armed again under notice
          msg, down,  \* msg_request, down_request
          wait,       \* intervals the receive has waited
          since,      \* intervals since the shutdown notice
          silent,     \* intervals since the last request
          cause       \* why the session ended

(* The limits are numbers of intervals.  A connected session is never given up
   before the first tick, and a notice lasts. *)
LimitsAssumption ==
  /\ Timeout \in Nat \ {0} /\ Notice \in Nat \ {0}
  /\ Sleep \in Nat /\ Disconnected \in Nat

timing == <<timer, fuse, handler, usr1, rearmed>>
clocks == <<wait, since, silent>>
requests == <<msg, down>>
vars == <<loc, waiting, flags, uid, tickle, conn, in_write, pending, timing, clocks,
          requests, cause>>

Flags == {"DATA", "SLEEPING", "EXTSLEEP", "DISCONNECTED", "DIE", "RECONSOCKET",
          "RECONINPROG", "LOGGED_OUT"}
Signals == {"term", "alrm", "transfer", "timedown", "getmesg", "alarm"}
Largest(S) == CHOOSE n \in S : \A m \in S : m <= n
MaxTickle == Largest({Timeout, Sleep, Disconnected}) + 1
MaxSilent == MaxTickle + Timeout + Notice + 1  \* the ghost counter stops here

TypeOK ==
  /\ loc \in {"die", "transfer", "timedown", "arming", "getmesg", "alarm", "poll",
              "recv", "exited"}
  /\ waiting \in {0, 1} /\ flags \subseteq Flags /\ uid \in {0, 1}
  /\ tickle \in 0..MaxTickle /\ conn \in {"open", "shut", "none"}
  /\ in_write \in {0, 1} /\ pending \subseteq Signals
  /\ timer \in {"tick", "notice", "off"} /\ fuse \in 0..Notice
  /\ handler \in {"alarm", "die"} /\ usr1 \in {0, 1} /\ rearmed \in {0, 1}
  /\ msg \in 0..2 /\ down \in {0, 1}
  /\ wait \in 0..Timeout /\ since \in 0..Notice /\ silent \in 0..MaxSilent
  /\ cause \in {"none", "term", "alrm", "rearmed", "limit", "client"}

Init ==
  /\ loc = "die" /\ waiting = 0 /\ flags = {} /\ uid = 0 /\ tickle = 0 /\ conn = "open"
  /\ in_write = 0 /\ pending = {}
  /\ timer = "tick" /\ fuse = 0 /\ handler = "alarm" /\ usr1 = 1 /\ rearmed = 0
  /\ msg = 0 /\ down = 0 /\ wait = 0 /\ since = 0 /\ silent = 0 /\ cause = "none"

(* The end of the process, with what no longer matters cleared. *)
Exit(why) ==
  /\ loc' = "exited" /\ cause' = why /\ waiting' = 0 /\ flags' = {} /\ tickle' = 0
  /\ conn' = "none" /\ in_write' = 0 /\ pending' = {}
  /\ timer' = "off" /\ fuse' = 0 /\ handler' = "alarm" /\ usr1' = 1 /\ rearmed' = 0
  /\ msg' = 0 /\ down' = 0 /\ wait' = 0 /\ silent' = 0
  /\ UNCHANGED <<uid, since>>

(* dsi_attention with the flags fl: its results, and in_write after it.  A
   sleeping session skips it, an unfinished reply or a full or broken socket
   refuses it, and dsi_stream_write leaves in_write raised when the session is
   disconnected. *)
AttentionResults(fl) ==
  IF "SLEEPING" \in fl THEN {1}
  ELSE IF in_write = 1 \/ "DISCONNECTED" \in fl THEN {-1} ELSE {-1, 1}
Raised(fl) == IF fl \cap {"SLEEPING", "DISCONNECTED"} = {"DISCONNECTED"} THEN 1 ELSE in_write

(* dsi_disconnect: what it makes of the flags. *)
Cut(fl) == (fl \ {"SLEEPING", "EXTSLEEP"}) \cup {"DISCONNECTED"}

-----------------------------------------------------------------------------
(* Signals and time *)

(* The handlers of SIGTERM, SIGURG, SIGUSR1 and SIGUSR2. *)
signal(s) ==
  /\ loc # "exited" /\ s \in {"term", "transfer", "timedown", "getmesg"}
  /\ s = "timedown" => usr1 = 1
  /\ s = "transfer" => uid = 1
  /\ s \notin pending /\ pending' = pending \cup {s}
  /\ UNCHANGED <<loc, waiting, flags, uid, tickle, conn, in_write, timing, clocks,
                 requests, cause>>

(* SIGALRM: alarm_handler arms the tickle timer again, afp_dsi_die_handler
   records a termination. *)
SIGALRM ==
  \/ handler = "alarm" /\ pending' = pending \cup {"alarm"} /\ timer' = "tick"
  \/ /\ handler = "die" /\ pending' = pending \cup {"alrm"}
     /\ timer' = IF timer = "notice" THEN "off" ELSE timer

(* An interval passes while the process waits, in poll or for a request; what it
   need not wait for it does within an interval. *)
interval ==
  /\ \/ /\ loc = "poll" /\ pending = {}
        /\ waiting = 1 \/ (conn = "open" /\ flags \cap {"DISCONNECTED", "DIE"} = {})
        /\ UNCHANGED wait
     \/ /\ loc = "recv" /\ conn = "open" /\ "transfer" \notin pending
        /\ wait < Timeout /\ wait' = wait + 1
  /\ since' = IF usr1 = 0 /\ since < Notice THEN since + 1 ELSE since
  /\ silent' = IF silent < MaxSilent THEN silent + 1 ELSE silent
  /\ \/ timer = "tick" /\ SIGALRM /\ UNCHANGED fuse
     \/ timer = "notice" /\ fuse > 1 /\ fuse' = fuse - 1 /\ UNCHANGED <<pending, timer>>
     \/ timer = "notice" /\ fuse = 1 /\ fuse' = 0 /\ SIGALRM
     \/ timer = "off" /\ UNCHANGED <<pending, timer, fuse>>
  /\ UNCHANGED <<loc, waiting, flags, uid, tickle, conn, in_write, handler, usr1, rearmed,
                 requests, cause>>

client_drops ==
  /\ conn = "open" /\ conn' = "shut"
  /\ UNCHANGED <<loc, waiting, flags, uid, tickle, in_write, pending, timing, clocks,
                 requests, cause>>

-----------------------------------------------------------------------------
(* process_deferred_signals *)

After == [die |-> "transfer", transfer |-> "timedown", timedown |-> "getmesg",
          getmesg |-> "alarm", alarm |-> "poll"]
Records == [die |-> {"term", "alrm"}, transfer |-> {"transfer"}, timedown |-> {"timedown"},
            getmesg |-> {"getmesg"}, alarm |-> {"alarm"}]

nothing_recorded ==
  /\ loc \in DOMAIN After /\ pending \cap Records[loc] = {}
  /\ loc' = After[loc]
  /\ UNCHANGED <<waiting, flags, uid, tickle, conn, in_write, pending, timing, clocks,
                 requests, cause>>

afp_dsi_die ==
  /\ loc = "die"
  /\ \E s \in pending \cap {"term", "alrm"} :
       Exit(IF s = "alrm" /\ rearmed = 1 THEN "rearmed" ELSE s)

(* Mutant: an unfinished write stays marked on the new connection. *)
Takeover_writing ==
  \/ /\ conn' = "open" /\ flags' = {"RECONSOCKET"} /\ tickle' = 0
     /\ pending' = pending \ {"transfer", "alarm"}
     /\ loc' = "die" /\ waiting' = 0 /\ wait' = 0 /\ silent' = 0
     /\ UNCHANGED <<uid, in_write, timing, since, requests, cause>>
  \/ Exit("client")

(* handle_transfer_session: the new socket, and flags and counts afresh. *)
Takeover ==
  \/ /\ conn' = "open" /\ flags' = {"RECONSOCKET"} /\ in_write' = 0 /\ tickle' = 0
     /\ pending' = pending \ {"transfer", "alarm"}
     /\ loc' = "die" /\ waiting' = 0 /\ wait' = 0 /\ silent' = 0
     /\ UNCHANGED <<uid, timing, since, requests, cause>>
  \/ Exit("client")

handle_transfer_session == loc = "transfer" /\ "transfer" \in pending /\ Takeover

(* Mutant: the tickle timer keeps running. *)
handle_timedown_ticking ==
  /\ loc = "timedown" /\ "timedown" \in pending /\ loc' = "arming"
  /\ flags' = flags \cup {"DIE"}
  /\ pending' = pending \ {"timedown"}
  /\ \E r \in AttentionResults(flags) : down' = IF r < 0 THEN 1 ELSE down
  /\ in_write' = Raised(flags)
  /\ UNCHANGED <<waiting, uid, tickle, conn, timing, clocks, msg, cause>>

(* handle_timedown, up to setitimer. *)
handle_timedown ==
  /\ loc = "timedown" /\ "timedown" \in pending /\ loc' = "arming"
  /\ flags' = flags \cup {"DIE"}
  /\ pending' = pending \ {"timedown"}
  /\ \E r \in AttentionResults(flags) : down' = IF r < 0 THEN 1 ELSE down
  /\ in_write' = Raised(flags)
  /\ timer' = "notice" /\ fuse' = Notice
  /\ UNCHANGED <<waiting, uid, tickle, conn, handler, usr1, rearmed, clocks, msg,
                 cause>>

(* A SIGALRM of the old timer is delivered before the new handler is in place. *)
late_alarm ==
  /\ loc = "arming" /\ SIGALRM /\ rearmed' = 1
  /\ UNCHANGED <<loc, waiting, flags, uid, tickle, conn, in_write, fuse, handler, usr1,
                 clocks, requests, cause>>

(* Mutant: SIGALRM keeps its handler. *)
timedown_handlers_alarm ==
  /\ loc = "arming" /\ loc' = "getmesg" /\ usr1' = 0 /\ since' = 0
  /\ UNCHANGED <<waiting, flags, uid, tickle, conn, in_write, pending, timer, fuse,
                 handler, rearmed, wait, silent, requests, cause>>

(* handle_timedown, the handlers: SIGALRM now ends the session. *)
timedown_handlers ==
  /\ loc = "arming" /\ loc' = "getmesg" /\ handler' = "die" /\ usr1' = 0 /\ since' = 0
  /\ UNCHANGED <<waiting, flags, uid, tickle, conn, in_write, pending, timer, fuse,
                 rearmed, wait, silent, requests, cause>>

handle_getmesg ==
  /\ loc = "getmesg" /\ "getmesg" \in pending /\ loc' = "alarm"
  /\ pending' = pending \ {"getmesg"}
  /\ \E r \in AttentionResults(flags) : msg' = IF r < 0 THEN 2 ELSE 1
  /\ in_write' = Raised(flags)
  /\ UNCHANGED <<waiting, flags, uid, tickle, conn, timing, clocks, down, cause>>

Alarmed == loc = "alarm" /\ "alarm" \in pending
Count == tickle + 1
Kept == IF "SLEEPING" \in flags THEN Sleep ELSE Disconnected
Idle == flags \cap {"SLEEPING", "DISCONNECTED"} # {}

(* Mutant: an idle session does not count its ticks. *)
alarm_continues_uncounted ==
  /\ Alarmed /\ pending' = pending \ {"alarm"} /\ loc' = "poll"
  /\ \/ "DATA" \in flags /\ flags' = flags \ {"DATA"} /\ UNCHANGED tickle
     \/ /\ "DATA" \notin flags /\ tickle' = (IF Idle THEN tickle ELSE Count) /\ UNCHANGED flags
        /\ IF Idle THEN Count <= Kept ELSE Count < Timeout
  /\ UNCHANGED <<waiting, uid, conn, in_write, timing, clocks, requests, cause>>

(* handle_alarm: there was traffic, or a sleeping or disconnected session is
   within its limit, or the tickle went out. *)
alarm_continues ==
  /\ Alarmed /\ pending' = pending \ {"alarm"} /\ loc' = "poll"
  /\ \/ "DATA" \in flags /\ flags' = flags \ {"DATA"} /\ UNCHANGED tickle
     \/ /\ "DATA" \notin flags /\ tickle' = Count /\ UNCHANGED flags
        /\ IF Idle THEN Count <= Kept ELSE Count < Timeout
  /\ UNCHANGED <<waiting, uid, conn, in_write, timing, clocks, requests, cause>>

(* handle_alarm: sleep or disconnection has lasted too long. *)
alarm_limit == Alarmed /\ "DATA" \notin flags /\ Idle /\ Count > Kept /\ Exit("limit")

(* handle_alarm: the client was silent too long or the tickle failed. *)
alarm_disconnects ==
  /\ Alarmed /\ flags \cap {"DATA", "SLEEPING", "DISCONNECTED"} = {}
  /\ \/ uid = 0 /\ Exit("client")
     \/ /\ uid = 1 /\ flags' = Cut(flags) /\ conn' = "none" /\ tickle' = Count
        /\ pending' = pending \ {"alarm"} /\ loc' = "poll"
        /\ UNCHANGED <<waiting, uid, in_write, timing, clocks, requests, cause>>

-----------------------------------------------------------------------------
(* Waiting and receiving *)

(* poll: a signal; input or the end of the connection; or no wait at all, when
   the session is disconnected or under notice. *)
poll ==
  /\ loc = "poll"
  /\ \/ pending # {} /\ loc' = "die"
     \/ /\ waiting = 0 /\ loc' = "recv"
        /\ conn = "shut" \/ flags \cap {"DISCONNECTED", "DIE"} # {}
  /\ wait' = 0
  /\ UNCHANGED <<waiting, flags, uid, tickle, conn, in_write, pending, timing, since,
                 silent, requests, cause>>

client_sends ==
  /\ loc = "poll" /\ waiting = 0 /\ conn = "open" /\ loc' = "recv" /\ wait' = 0
  /\ UNCHANGED <<waiting, flags, uid, tickle, conn, in_write, pending, timing, since,
                 silent, requests, cause>>

(* dsi_stream_receive returned 0, with the flags fl, quiet intervals after the
   last frame. *)
Unreceived(fl, quiet) ==
  \/ /\ "RECONSOCKET" \in fl /\ flags' = fl \ {"RECONSOCKET"} /\ loc' = "die"
     /\ conn' = IF "DISCONNECTED" \in fl THEN "none" ELSE conn
     /\ wait' = 0 /\ silent' = quiet
     /\ UNCHANGED <<waiting, uid, tickle, in_write, pending, timing, since, requests,
                    cause>>
  \/ "RECONSOCKET" \notin fl /\ "transfer" \in pending /\ Takeover
  \/ /\ "RECONSOCKET" \notin fl /\ "transfer" \notin pending
     /\ IF fl \cap {"LOGGED_OUT", "RECONINPROG"} # {} \/ uid = 0
        THEN Exit("client")
        ELSE /\ flags' = Cut(fl) /\ conn' = "none" /\ waiting' = 1 /\ loc' = "die"
             /\ wait' = 0 /\ silent' = quiet
             /\ UNCHANGED <<uid, tickle, in_write, pending, timing, since, requests,
                            cause>>

(* Mutant: dsi_wait_input waits without a bound. *)
receive_fails_never ==
  /\ loc = "recv"
  /\ \/ ("DISCONNECTED" \in flags \/ conn = "shut") /\ Unreceived(flags, silent)
     \/ /\ "DISCONNECTED" \notin flags /\ "transfer" \in pending
        /\ Unreceived(Cut(flags), silent)

(* The connection is gone or ends, or dsi_wait_input gives the client up after
   the timeout or for a take-over. *)
receive_fails ==
  /\ loc = "recv"
  /\ \/ ("DISCONNECTED" \in flags \/ conn = "shut") /\ Unreceived(flags, silent)
     \/ /\ "DISCONNECTED" \notin flags /\ (wait = Timeout \/ "transfer" \in pending)
        /\ Unreceived(Cut(flags), silent)

(* A frame that dsi_stream_receive refuses. *)
bad_frame == loc = "recv" /\ conn = "open" /\ "DISCONNECTED" \notin flags /\ Unreceived(flags, 0)

-----------------------------------------------------------------------------
(* Requests *)

Receiving == loc = "recv" /\ conn # "none" /\ "DISCONNECTED" \notin flags

(* Any request ends a normal sleep and marks the traffic. *)
Noted == (IF "EXTSLEEP" \in flags THEN flags ELSE flags \ {"SLEEPING"}) \cup {"DATA"}

(* pending_request, with the flags fl. *)
PendingRequest(fl) ==
  /\ in_write' = IF msg = 2 \/ down = 1 THEN Raised(fl) ELSE in_write
  /\ msg' = 0 /\ down' = 0

Served(fl) ==
  /\ flags' = fl /\ tickle' = 0 /\ silent' = 0 /\ wait' = 0 /\ loc' = "die"
  /\ conn' = IF "DISCONNECTED" \in fl THEN "none" ELSE conn
  /\ PendingRequest(fl)
  /\ UNCHANGED <<waiting, pending, since, cause>>

(* A request that leaves the flags fl and sends a reply, which may fail on a
   connection that is gone. *)
Replied(fl, user) ==
  \/ Served(fl)
  \/ /\ conn = "shut"
     /\ IF user = 0 THEN Exit("client") ELSE Served(Cut(fl))

tickle_request ==
  /\ Receiving /\ Served(Noted \ {"DATA"}) /\ UNCHANGED <<uid, timing>>

(* DSICloseSession, or a streamed reply that broke off. *)
close_request == Receiving /\ Exit("client")

(* afp_zzzzz *)
afp_zzzzz(kind) ==
  /\ Receiving /\ uid = 1
  /\ Replied(CASE kind = "sleep" -> Noted \cup {"SLEEPING"}
               [] kind = "ext" -> Noted \cup {"SLEEPING", "EXTSLEEP"}
               [] kind = "wake" -> IF "EXTSLEEP" \in Noted
                                   THEN Noted \ {"SLEEPING", "EXTSLEEP"} ELSE Noted, uid)
  /\ UNCHANGED <<uid, timing>>

afp_logout == /\ Receiving /\ uid = 1 /\ Replied({"LOGGED_OUT"}, uid)
              /\ UNCHANGED <<uid, timing>>

(* A DSIWrite whose payload stops arriving leaves the session disconnected. *)
write_request ==
  /\ Receiving /\ uid = 1 /\ (Replied(Noted, uid) \/ Served(Cut(Noted)))
  /\ UNCHANGED <<uid, timing>>

(* The last step of a login, which installs the signal handlers and the tickle
   timer again (afp_over_dsi_sighandlers). *)
login ==
  /\ Receiving /\ uid = 0 /\ (usr1 = 0 => LateLogin)
  /\ uid' = 1 /\ Served(Noted)
  /\ timer' = "tick" /\ fuse' = 0 /\ handler' = "alarm" /\ usr1' = 1
  /\ rearmed' = 0

(* afp_disconnect that fails, or ends this session for the old one. *)
afp_disconnect ==
  /\ Receiving /\ uid = 1
  /\ \/ /\ pending \cap {"term", "alrm"} = {}
        /\ Served(Noted \cup {"RECONINPROG"}) /\ timer' = "tick" /\ fuse' = 0
        /\ rearmed' = (IF handler = "die" THEN 1 ELSE rearmed)
        /\ UNCHANGED <<uid, handler, usr1>>
     \/ Exit("client")

Main == \/ nothing_recorded \/ afp_dsi_die \/ handle_transfer_session
        \/ handle_timedown \/ timedown_handlers \/ handle_getmesg
        \/ alarm_continues \/ alarm_limit \/ alarm_disconnects
        \/ poll \/ receive_fails

Request == \/ tickle_request \/ close_request \/ afp_logout \/ write_request \/ login
           \/ afp_disconnect
           \/ \E k \in {"sleep", "ext", "wake"} : afp_zzzzz(k)

Environment == \/ \E s \in Signals : signal(s)
               \/ client_drops \/ client_sends \/ bad_frame \/ late_alarm

Next == Main \/ Request \/ interval \/ Environment

Spec == Init /\ [][Next]_vars

(* The process runs and time passes; the client promises nothing. *)
FairSpec == Spec /\ WF_vars(Main) /\ WF_vars(interval)

-----------------------------------------------------------------------------
(* Properties *)

(* What a lost connection leaves behind is clean.  A disconnected session does
   not count as asleep, so handle_alarm applies the disconnected limit to it and
   not the far longer one of a sleeping session; and in_write, which mutes
   tickles and attentions, is never left raised on a live connection, although
   dsi_stream_write leaves it raised on a lost one. *)
LossIsClean ==
  IF "DISCONNECTED" \in flags
  THEN conn = "none" /\ flags \cap {"SLEEPING", "EXTSLEEP"} = {}
  ELSE in_write = 0

(* Before a shutdown notice, a session whose client fell silent is given up: a
   connected one after its timeout in the loop and another in a request; a
   sleeping or disconnected one after the longest limit, the tick that only
   cleared DSI_DATA and those that fell into one wait (handle_alarm,
   dsi_wait_input). *)
SilenceBounded ==
  usr1 = 1 /\ loc # "arming" =>
    silent <= Timeout + (IF Idle THEN MaxTickle ELSE Timeout) + 1

(* handle_timedown: "SIGALRM after 300 seconds then ends the session", and not
   before, unless the tickle timer was armed again: by an old tick due while
   handle_timedown runs, or by a reconnect that failed (afp_disconnect). *)
FullNotice == cause = "alrm" => since = Notice

(* A shutdown notice and SIGTERM end the session, whatever the client and the
   other signals do meanwhile, also from within a request or while the session
   waits disconnected.  Once the notice is taken SIGUSR1 is ignored (usr1 = 0). *)
Ending == pending \cap {"timedown", "term"} # {} \/ loc = "arming" \/ usr1 = 0
ToldEnds == Ending ~> loc = "exited"

(* A disconnected session does not stay: it is taken over or ends. *)
Adrift == "DISCONNECTED" \in flags
AdriftEnds == Adrift ~> ~Adrift

-----------------------------------------------------------------------------
(* Proofs, for all lengths of the timeouts: what a lost connection leaves behind,
   how long a silent client is kept, and the notice before a shutdown. *)

(* A session waits without a connection only when it is marked disconnected,
   and receives nothing meanwhile. *)
WaitsCut == waiting = 1 => "DISCONNECTED" \in flags /\ loc # "recv"

(* Before a notice, the tickle timer runs and its handler counts. *)
Ticking ==
  /\ handler = "alarm" <=> usr1 = 1
  /\ usr1 = 1 /\ loc \notin {"arming", "exited"} => timer = "tick"

(* handle_alarm has not counted past the limit that it compares with. *)
Longest == Largest({Timeout, Sleep, Disconnected})
TicksBounded == tickle <= Longest /\ (~Idle => tickle < Timeout)

(* Where the intervals since the last request went: each was counted in tickle,
   or cleared DSI_DATA, or is a recorded alarm, or fell into the one wait of
   dsi_wait_input, which ends the connection when it reaches the timeout. *)
Cleared == IF "DATA" \in flags THEN 0 ELSE 1
Due == IF "alarm" \in pending THEN 1 ELSE 0
Waited ==
  IF "DISCONNECTED" \in flags \/ conn = "shut" THEN Timeout
  ELSE IF loc = "recv" THEN wait ELSE 0
SilenceSpent == usr1 = 1 => silent <= tickle + Cleared + Due + Waited

IInv == TypeOK /\ LossIsClean /\ WaitsCut /\ Ticking /\ TicksBounded /\ SilenceSpent

(* The notice timer and the count of the intervals under notice agree, and an
   alarm recorded while nothing armed the tickle timer again came at their end. *)
NoticeCounted ==
  /\ timer = "notice" /\ rearmed = 0 =>
       /\ loc = "arming" => fuse = Notice
       /\ loc # "arming" /\ usr1 = 0 => since + fuse = Notice /\ fuse >= 1
  /\ timer = "tick" /\ (usr1 = 0 \/ loc = "arming") => rearmed = 1
  /\ "alrm" \in pending => usr1 = 0
  /\ "alrm" \in pending /\ rearmed = 0 => since = Notice /\ loc \in {"poll", "recv", "die"}
  /\ cause # "none" => loc = "exited"

NInv == NoticeCounted /\ FullNotice
-----------------------------------------------------------------------------
(* MaxTickle is past every limit that handle_alarm compares tickle with. *)
LEMMA LongestIs ==
  ASSUME LimitsAssumption
  PROVE  /\ Longest \in Nat /\ MaxTickle = Longest + 1
         /\ Timeout <= Longest /\ Sleep <= Longest /\ Disconnected <= Longest
<1> DEFINE S == {Timeout, Sleep, Disconnected}
<1>1. \E n \in S : \A m \in S : m <= n
  BY DEF LimitsAssumption
<1>2. Longest \in S /\ \A m \in S : m <= Longest
  BY Zenon, <1>1 DEF Longest, Largest
<1> QED
  BY Zenon, <1>2 DEF LimitsAssumption, MaxTickle, Longest

(* The state of a new session (dsi_getsession) satisfies the invariants. *)
LEMMA InitIInv ==
  ASSUME LimitsAssumption, Init
  PROVE  IInv /\ NInv
<1> USE LongestIs DEF LimitsAssumption, Init
<1>1. TypeOK
  BY DEF TypeOK, MaxSilent, Flags, Signals
<1>2. LossIsClean /\ WaitsCut /\ Ticking
  BY DEF LossIsClean, WaitsCut, Ticking
<1>3. TicksBounded /\ SilenceSpent
  BY DEF TicksBounded, SilenceSpent, Cleared, Due, Waited, Idle
<1>4. NInv
  BY Zenon DEF NInv, NoticeCounted, FullNotice
<1> QED
  BY Zenon, <1>1, <1>2, <1>3, <1>4 DEF IInv

(* The end of the process, whatever its cause, keeps the invariants. *)
LEMMA ExitIInv ==
  ASSUME LimitsAssumption, IInv, NEW why \in {"term", "alrm", "rearmed", "limit", "client"},
         Exit(why)
  PROVE  IInv'
BY LongestIs DEF LimitsAssumption, Exit, IInv, TypeOK, MaxSilent, LossIsClean, WaitsCut,
   Ticking, TicksBounded, Idle, SilenceSpent, Cleared, Due, Waited, Flags, Signals

(* A take-over gives the session a new connection or ends it
   (handle_transfer_session). *)
LEMMA TakeoverIInv ==
  ASSUME LimitsAssumption, IInv, loc \notin {"arming", "exited"}, Takeover
  PROVE  IInv'
<1>1. CASE Exit("client")
  BY Zenon, <1>1, ExitIInv
<1>2. CASE ~Exit("client")
  <2>0. (flags \subseteq Flags /\ pending \subseteq Signals)'
    BY Zenon, <1>2, LongestIs DEF Takeover, timing, requests, LimitsAssumption, IInv, TypeOK, Flags,
       Signals
  <2>1. TypeOK'
    BY SMTT(30), <1>2, LongestIs, <2>0 DEF Takeover, timing, requests, LimitsAssumption, IInv, TypeOK,
       MaxSilent
  <2>2. LossIsClean' /\ WaitsCut' /\ Ticking'
    BY SMTT(30), <1>2, LongestIs DEF Takeover, timing, requests, LimitsAssumption, IInv, TypeOK,
       LossIsClean, WaitsCut, Ticking
  <2>3. TicksBounded'
    BY SMTT(30), <1>2, LongestIs DEF Takeover, timing, requests, LimitsAssumption, IInv, TypeOK,
       LossIsClean, TicksBounded, Idle
  <2>4. SilenceSpent'
    BY <1>2, LongestIs DEF Takeover, timing, requests, LimitsAssumption, IInv, TypeOK,
       LossIsClean, WaitsCut, Ticking, SilenceSpent, Cleared, Due, Waited
  <2> QED
    BY Zenon, <2>1, <2>2, <2>3, <2>4 DEF IInv
<1> QED
  BY Zenon, <1>1, <1>2

(* The signal handlers, the timer and the client's end of the connection. *)
LEMMA OutsideIInv ==
  ASSUME LimitsAssumption, IInv,
         (\E s \in Signals : signal(s)) \/ interval \/ client_drops \/ client_sends \/ late_alarm
  PROVE  IInv'
<1> USE LongestIs DEF LimitsAssumption, timing, clocks, requests
<1>1. ASSUME NEW s \in Signals, signal(s) PROVE IInv'
  BY <1>1 DEF signal, IInv, TypeOK, MaxSilent, LossIsClean, WaitsCut, Ticking, TicksBounded,
     Idle, SilenceSpent, Cleared, Due, Waited, Flags, Signals
<1>2. CASE interval
  <2>0. (flags \subseteq Flags /\ pending \subseteq Signals)'
    BY ZenonT(60), <1>2 DEF interval, SIGALRM, IInv, TypeOK, Flags, Signals
  <2>1. TypeOK'
    BY <1>2, <2>0 DEF interval, SIGALRM, IInv, TypeOK, MaxSilent
  <2>2. LossIsClean' /\ WaitsCut' /\ Ticking'
    BY Zenon, <1>2 DEF interval, SIGALRM, IInv, TypeOK, LossIsClean, WaitsCut, Ticking
  <2>3. TicksBounded'
    BY Zenon, <1>2 DEF interval, SIGALRM, IInv, TypeOK, LossIsClean, TicksBounded, Idle
  <2>4. ASSUME usr1' = 1 PROVE (silent <= tickle + Cleared + Due + Waited)'
    <3>1. usr1 = 1 /\ timer = "tick" /\ handler = "alarm"
      BY ZenonT(60), <1>2, <2>4 DEF interval, IInv, TypeOK, Ticking
    <3>2. /\ "alarm" \in pending' /\ tickle' = tickle /\ Cleared' = Cleared
          /\ silent' <= silent + 1 /\ silent <= tickle + Cleared + Due + Waited
      BY SMTT(30), <1>2, <3>1 DEF interval, SIGALRM, IInv, TypeOK, MaxSilent, SilenceSpent, Cleared
    <3>3. CASE loc = "poll" /\ pending = {} /\ UNCHANGED wait
      BY SMTT(30), <1>2, <3>2, <3>3 DEF interval, IInv, TypeOK, MaxSilent, Due, Waited, Cleared
    <3>4. CASE loc = "recv" /\ conn = "open" /\ wait' = wait + 1
      BY SMTT(30), <1>2, <3>2, <3>4 DEF interval, IInv, TypeOK, MaxSilent, LossIsClean, Due, Waited,
         Cleared
    <3> QED
      BY Zenon, <1>2, <3>3, <3>4 DEF interval
  <2> QED
    BY Zenon, <2>1, <2>2, <2>3, <2>4 DEF IInv, SilenceSpent
<1>3. CASE client_drops
  BY SMTT(30), <1>3 DEF client_drops, IInv, TypeOK, MaxSilent, LossIsClean, WaitsCut, Ticking,
     TicksBounded, Idle, SilenceSpent, Cleared, Due, Waited, Flags, Signals
<1>4. CASE client_sends
  BY <1>4 DEF client_sends, IInv, TypeOK, MaxSilent, LossIsClean, WaitsCut, Ticking,
     TicksBounded, Idle, SilenceSpent, Cleared, Due, Waited, Flags, Signals
<1>5. CASE late_alarm
  <2>0. (flags \subseteq Flags /\ pending \subseteq Signals)'
    BY ZenonT(60), <1>5 DEF late_alarm, SIGALRM, IInv, TypeOK, Flags, Signals
  <2>1. TypeOK'
    BY <1>5, <2>0 DEF late_alarm, SIGALRM, IInv, TypeOK, MaxSilent
  <2>2. LossIsClean' /\ WaitsCut' /\ Ticking'
    BY Zenon, <1>5 DEF late_alarm, SIGALRM, IInv, TypeOK, LossIsClean, WaitsCut, Ticking
  <2>3. TicksBounded'
    BY Zenon, <1>5 DEF late_alarm, SIGALRM, IInv, TypeOK, LossIsClean, TicksBounded, Idle
  <2>4. SilenceSpent'
    BY <1>5 DEF late_alarm, SIGALRM, IInv, TypeOK, LossIsClean, WaitsCut, Ticking,
       SilenceSpent, Cleared, Due, Waited
  <2> QED
    BY Zenon, <2>1, <2>2, <2>3, <2>4 DEF IInv
<1> QED
  BY Zenon, <1>1, <1>2, <1>3, <1>4, <1>5

(* process_deferred_signals, one record after the other. *)
LEMMA DeferredIInv ==
  ASSUME LimitsAssumption, IInv,
         \/ nothing_recorded \/ afp_dsi_die \/ handle_transfer_session
         \/ handle_timedown \/ timedown_handlers \/ handle_getmesg
         \/ alarm_continues \/ alarm_limit \/ alarm_disconnects
  PROVE  IInv'
<1> USE LongestIs DEF LimitsAssumption, timing, clocks, requests
<1>1. CASE nothing_recorded
  BY <1>1 DEF nothing_recorded, After, IInv, TypeOK, MaxSilent, LossIsClean, WaitsCut, Ticking,
     TicksBounded, Idle, SilenceSpent, Cleared, Due, Waited, Flags, Signals
<1>2. CASE afp_dsi_die
  BY Zenon, <1>2, ExitIInv DEF afp_dsi_die
<1>3. CASE handle_transfer_session
  BY ZenonT(60), <1>3, TakeoverIInv DEF handle_transfer_session
<1>4. CASE handle_timedown
  BY SMTT(30), <1>4 DEF handle_timedown, Raised, IInv, TypeOK, MaxSilent, LossIsClean, WaitsCut, Ticking,
     TicksBounded, Idle, SilenceSpent, Cleared, Due, Waited, Flags, Signals
<1>5. CASE timedown_handlers
  BY SMTT(30), <1>5 DEF timedown_handlers, IInv, TypeOK, MaxSilent, LossIsClean, WaitsCut, Ticking,
     TicksBounded, Idle, SilenceSpent, Cleared, Due, Waited, Flags, Signals
<1>6. CASE handle_getmesg
  BY <1>6 DEF handle_getmesg, Raised, IInv, TypeOK, MaxSilent, LossIsClean, WaitsCut, Ticking,
     TicksBounded, Idle, SilenceSpent, Cleared, Due, Waited, Flags, Signals
<1>7. CASE alarm_continues
  <2>0. (flags \subseteq Flags /\ pending \subseteq Signals)'
    BY Zenon, <1>7 DEF alarm_continues, Alarmed, Count, Kept, Idle, IInv, TypeOK, Flags, Signals
  <2>1. TypeOK'
    BY <1>7, <2>0 DEF alarm_continues, Alarmed, Count, Kept, Idle, IInv, TypeOK, MaxSilent
  <2>2. LossIsClean' /\ WaitsCut' /\ Ticking'
    BY Zenon, <1>7 DEF alarm_continues, Alarmed, Count, Kept, Idle, IInv, TypeOK, LossIsClean,
       WaitsCut, Ticking
  <2>3. TicksBounded'
    BY SMTT(30), <1>7 DEF alarm_continues, Alarmed, Count, Kept, Idle, IInv, TypeOK, LossIsClean,
       TicksBounded
  <2>4. SilenceSpent'
    BY <1>7 DEF alarm_continues, Alarmed, Count, Kept, Idle, IInv, TypeOK, LossIsClean,
       WaitsCut, Ticking, SilenceSpent, Cleared, Due, Waited
  <2> QED
    BY Zenon, <2>1, <2>2, <2>3, <2>4 DEF IInv
<1>8. CASE alarm_limit
  BY Zenon, <1>8, ExitIInv DEF alarm_limit
<1>9. CASE alarm_disconnects
  <2> SUFFICES ASSUME ~Exit("client") PROVE IInv'
    BY Zenon, ExitIInv
  <2>0. (flags \subseteq Flags /\ pending \subseteq Signals)'
    BY Zenon, <1>9 DEF alarm_disconnects, Alarmed, Count, Cut, Idle, IInv, TypeOK, Flags, Signals
  <2>1. TypeOK'
    BY <1>9, <2>0 DEF alarm_disconnects, Alarmed, Count, Cut, IInv, TypeOK, MaxSilent,
       TicksBounded
  <2>2. LossIsClean' /\ WaitsCut' /\ Ticking'
    BY ZenonT(60), <1>9 DEF alarm_disconnects, Alarmed, Count, Cut, Idle, IInv, TypeOK, LossIsClean,
       WaitsCut, Ticking
  <2>3. TicksBounded'
    BY SMTT(30), <1>9 DEF alarm_disconnects, Alarmed, Count, Cut, Idle, IInv, TypeOK, LossIsClean,
       TicksBounded
  <2>4. SilenceSpent'
    BY <1>9 DEF alarm_disconnects, Alarmed, Count, Cut, Idle, IInv, TypeOK, LossIsClean,
       WaitsCut, Ticking, SilenceSpent, Cleared, Due, Waited
  <2> QED
    BY Zenon, <2>1, <2>2, <2>3, <2>4 DEF IInv
<1> QED
  BY ZenonT(60), <1>1, <1>2, <1>3, <1>4, <1>5, <1>6, <1>7, <1>8, <1>9

(* dsi_stream_receive returned nothing, after bytes that were no request or
   after the last of them. *)
LEMMA UnreceivedIInv ==
  ASSUME LimitsAssumption, IInv, loc = "recv", NEW fl \in {flags, Cut(flags)},
         NEW quiet \in {silent, 0},
         quiet = 0 \/ "DISCONNECTED" \in fl \/ conn = "shut",
         Unreceived(fl, quiet)
  PROVE  IInv'
<1> USE LongestIs DEF LimitsAssumption, timing, requests
<1>1. CASE "RECONSOCKET" \in fl
  <2>0. (flags \subseteq Flags /\ pending \subseteq Signals)'
    BY Zenon, <1>1 DEF Unreceived, Cut, IInv, TypeOK, Flags, Signals
  <2>1. TypeOK'
    BY <1>1, <2>0 DEF Unreceived, IInv, TypeOK, MaxSilent
  <2>2. LossIsClean' /\ WaitsCut' /\ Ticking'
    BY ZenonT(60), <1>1 DEF Unreceived, Cut, IInv, TypeOK, LossIsClean, WaitsCut, Ticking
  <2>3. TicksBounded'
    BY ZenonT(60), <1>1 DEF Unreceived, Cut, IInv, TypeOK, LossIsClean, TicksBounded, Idle
  <2>4. SilenceSpent'
    BY <1>1 DEF Unreceived, Cut, IInv, TypeOK, SilenceSpent, Cleared, Due, Waited
  <2> QED
    BY Zenon, <2>1, <2>2, <2>3, <2>4 DEF IInv
<1>2. CASE "RECONSOCKET" \notin fl /\ "transfer" \in pending
  BY Zenon, <1>2, TakeoverIInv DEF Unreceived
<1>3. CASE Exit("client")
  BY Zenon, <1>3, ExitIInv
<1>4. CASE "RECONSOCKET" \notin fl /\ "transfer" \notin pending /\ ~Exit("client")
  <2>0. (flags \subseteq Flags /\ pending \subseteq Signals)'
    BY ZenonT(60), <1>4 DEF Unreceived, Cut, IInv, TypeOK, Flags, Signals
  <2>1. TypeOK'
    BY <1>4, <2>0 DEF Unreceived, IInv, TypeOK, MaxSilent
  <2>2. LossIsClean' /\ WaitsCut' /\ Ticking'
    BY ZenonT(60), <1>4 DEF Unreceived, Cut, IInv, TypeOK, LossIsClean, WaitsCut, Ticking
  <2>3. TicksBounded'
    BY ZenonT(60), <1>4 DEF Unreceived, Cut, IInv, TypeOK, LossIsClean, TicksBounded, Idle
  <2>4. SilenceSpent'
    BY <1>4 DEF Unreceived, Cut, IInv, TypeOK, SilenceSpent, Cleared, Due, Waited
  <2> QED
    BY SMTT(30), <2>1, <2>2, <2>3, <2>4 DEF IInv
<1> QED
  BY Zenon, <1>1, <1>2, <1>3, <1>4

(* The main loop waits and receives. *)
LEMMA ReceiveIInv ==
  ASSUME LimitsAssumption, IInv, poll \/ receive_fails \/ bad_frame
  PROVE  IInv'
<1>1. CASE poll
  <2> USE LongestIs DEF LimitsAssumption, timing, requests
  <2>1. TypeOK'
    BY SMTT(30), <1>1 DEF poll, IInv, TypeOK, MaxSilent
  <2>2. LossIsClean' /\ WaitsCut' /\ Ticking' /\ TicksBounded'
    BY SMTT(30), <1>1 DEF poll, IInv, TypeOK, LossIsClean, WaitsCut, Ticking, TicksBounded, Idle
  <2>3. SilenceSpent'
    BY Zenon, <1>1 DEF poll, IInv, TypeOK, SilenceSpent, Cleared, Due, Waited
  <2> QED
    BY ZenonT(60), <2>1, <2>2, <2>3 DEF IInv
<1>2. CASE receive_fails
  <2>1. CASE Unreceived(flags, silent) /\ ("DISCONNECTED" \in flags \/ conn = "shut")
    BY Zenon, <1>2, <2>1, UnreceivedIInv DEF receive_fails
  <2>2. CASE Unreceived(Cut(flags), silent) /\ "DISCONNECTED" \notin flags
    BY Zenon, <1>2, <2>2, UnreceivedIInv DEF receive_fails, Cut
  <2> QED
    BY Zenon, <1>2, <2>1, <2>2 DEF receive_fails
<1>3. CASE bad_frame
  BY Zenon, <1>3, UnreceivedIInv DEF bad_frame
<1> QED
  BY Zenon, <1>1, <1>2, <1>3

(* What a login and a failed reconnect make of the tickle timer. *)
Rearmed ==
  /\ timer' = "tick" /\ fuse' = 0 /\ rearmed' \in {0, 1}
  /\ UNCHANGED <<handler, usr1>> \/ (handler' = "alarm" /\ usr1' = 1)

(* A request was served and leaves the flags fl, among them DISCONNECTED only
   if its reply or its payload found the connection gone. *)
LEMMA ServedIInv ==
  ASSUME LimitsAssumption, IInv, Receiving, NEW fl \in SUBSET Flags, Served(fl),
         "DISCONNECTED" \in fl => fl \cap {"SLEEPING", "EXTSLEEP"} = {},
         uid' \in {0, 1}, UNCHANGED timing \/ Rearmed
  PROVE  IInv'
<1> USE LongestIs DEF LimitsAssumption, timing, requests, Rearmed
<1>1. TypeOK'
  BY SMTT(30) DEF Served, Receiving, PendingRequest, Raised, IInv, TypeOK, MaxSilent
<1>2. LossIsClean'
  BY Zenon DEF Served, Receiving, PendingRequest, Raised, IInv, TypeOK, LossIsClean
<1>3. WaitsCut' /\ Ticking'
  BY ZenonT(60) DEF Served, Receiving, IInv, TypeOK, WaitsCut, Ticking
<1>4. TicksBounded' /\ SilenceSpent'
  BY <1>1 DEF Served, Receiving, IInv, TypeOK, TicksBounded, Idle, SilenceSpent, Cleared, Due,
     Waited
<1> QED
  BY ZenonT(60), <1>1, <1>2, <1>3, <1>4 DEF IInv

(* The flags after a request, and after its reply was lost. *)
LEMMA FlagsServed ==
  ASSUME IInv, Receiving
  PROVE  /\ Noted \in SUBSET Flags /\ "DISCONNECTED" \notin Noted
         /\ \A fl \in SUBSET Flags : Cut(fl) \in SUBSET Flags
                                       /\ Cut(fl) \cap {"SLEEPING", "EXTSLEEP"} = {}
<1>1. Noted \in SUBSET Flags /\ "DISCONNECTED" \notin Noted
  BY Zenon DEF IInv, TypeOK, Receiving, Noted, Flags
<1>2. \A fl \in SUBSET Flags : Cut(fl) \in SUBSET Flags
                                 /\ Cut(fl) \cap {"SLEEPING", "EXTSLEEP"} = {}
  BY Zenon DEF Cut, Flags
<1> QED
  BY Zenon, <1>1, <1>2

(* The same for a request whose reply may be lost. *)
LEMMA RepliedIInv ==
  ASSUME LimitsAssumption, IInv, Receiving, NEW fl \in SUBSET Flags, "DISCONNECTED" \notin fl,
         Replied(fl, uid), UNCHANGED <<uid, timing>>
  PROVE  IInv'
<1>1. uid' \in {0, 1}
  BY Zenon DEF IInv, TypeOK
<1>2. CASE Served(fl)
  BY Zenon, <1>1, <1>2, ServedIInv
<1>3. CASE Served(Cut(fl))
  BY Zenon, <1>1, <1>3, ServedIInv, FlagsServed
<1>4. CASE Exit("client")
  BY Zenon, <1>4, ExitIInv
<1> QED
  BY Zenon, <1>2, <1>3, <1>4 DEF Replied

(* The requests of the client. *)
LEMMA RequestIInv ==
  ASSUME LimitsAssumption, IInv, Request
  PROVE  IInv'
<1>1. CASE tickle_request
  <2>1. Noted \ {"DATA"} \in SUBSET Flags /\ "DISCONNECTED" \notin Noted \ {"DATA"}
    BY Zenon, <1>1, FlagsServed DEF tickle_request
  <2> QED
    BY Zenon, <1>1, <2>1, ServedIInv DEF tickle_request, IInv, TypeOK
<1>2. CASE close_request
  BY Zenon, <1>2, ExitIInv DEF close_request
<1>3. CASE afp_logout
  <2>1. {"LOGGED_OUT"} \in SUBSET Flags /\ "DISCONNECTED" \notin {"LOGGED_OUT"}
    BY Zenon DEF Flags
  <2> QED
    BY Zenon, <1>3, <2>1, RepliedIInv DEF afp_logout
<1>4. CASE write_request
  <2>1. CASE Replied(Noted, uid)
    BY Zenon, <1>4, <2>1, FlagsServed, RepliedIInv DEF write_request
  <2>2. CASE Served(Cut(Noted))
    BY Zenon, <1>4, <2>2, FlagsServed, ServedIInv DEF write_request, IInv, TypeOK
  <2> QED
    BY Zenon, <1>4, <2>1, <2>2 DEF write_request
<1>5. CASE login
  <2>1. Rearmed
    BY Zenon, <1>5 DEF login, Rearmed
  <2> QED
    BY Zenon, <1>5, <2>1, FlagsServed, ServedIInv DEF login
<1>6. CASE afp_disconnect
  <2>1. CASE Exit("client")
    BY Zenon, <2>1, ExitIInv
  <2>2. CASE ~Exit("client")
    <3>1. Rearmed
      BY Zenon, <1>6, <2>2 DEF afp_disconnect, Rearmed, IInv, TypeOK
    <3>2. /\ Noted \cup {"RECONINPROG"} \in SUBSET Flags
          /\ "DISCONNECTED" \notin Noted \cup {"RECONINPROG"}
      BY Zenon, <1>6, FlagsServed DEF afp_disconnect, Flags
    <3> QED
      BY Zenon, <1>6, <2>2, <3>1, <3>2, ServedIInv DEF afp_disconnect, IInv, TypeOK
  <2> QED
    BY Zenon, <2>1, <2>2
<1>7. ASSUME NEW k \in {"sleep", "ext", "wake"}, afp_zzzzz(k) PROVE IInv'
  <2> DEFINE fl == CASE k = "sleep" -> Noted \cup {"SLEEPING"}
                     [] k = "ext" -> Noted \cup {"SLEEPING", "EXTSLEEP"}
                     [] k = "wake" -> IF "EXTSLEEP" \in Noted
                                      THEN Noted \ {"SLEEPING", "EXTSLEEP"} ELSE Noted
  <2>1. Receiving /\ Replied(fl, uid) /\ UNCHANGED <<uid, timing>>
    BY Zenon, <1>7 DEF afp_zzzzz
  <2>2. fl \in SUBSET Flags /\ "DISCONNECTED" \notin fl
    BY Zenon, <1>7, <2>1, FlagsServed DEF Flags
  <2> HIDE DEF fl
  <2> QED
    BY Zenon, <2>1, <2>2, RepliedIInv
<1> QED
  BY Zenon, <1>1, <1>2, <1>3, <1>4, <1>5, <1>6, <1>7 DEF Request

(* Every step of the session keeps the invariant. *)
LEMMA StepIInv ==
  ASSUME LimitsAssumption, IInv, [Next]_vars
  PROVE  IInv'
<1>1. CASE UNCHANGED vars
  BY <1>1, LongestIs DEF vars, timing, clocks, requests, IInv, TypeOK, MaxSilent, LossIsClean,
     WaitsCut, Ticking, TicksBounded, Idle, SilenceSpent, Cleared, Due, Waited
<1>2. CASE Next
  BY Zenon, <1>2, OutsideIInv, DeferredIInv, ReceiveIInv, RequestIInv DEF Next, Main, Environment
<1> QED
  BY Zenon, <1>1, <1>2

(* What handle_alarm counts bounds how long a silent client is kept. *)
LEMMA BoundFromIInv ==
  ASSUME LimitsAssumption, IInv
  PROVE  SilenceBounded
<1> USE LongestIs DEF LimitsAssumption
<1>1. Cleared \in {0, 1} /\ Due \in {0, 1} /\ Waited \in 0..Timeout
  BY DEF Cleared, Due, Waited, IInv, TypeOK
<1> QED
  BY SMTT(30), <1>1 DEF IInv, TypeOK, SilenceSpent, TicksBounded, SilenceBounded

-----------------------------------------------------------------------------
(* The end of the process, when a recorded alarm came after a whole notice. *)
LEMMA ExitNInv ==
  ASSUME NInv, NEW why \in {"term", "alrm", "rearmed", "limit", "client"}, Exit(why),
         why = "alrm" => since = Notice
  PROVE  NInv'
BY Zenon DEF Exit, NInv, NoticeCounted, FullNotice

(* A step that leaves the timer, the count under notice and the recorded alarms
   alone, and moves the main loop only where an alarm is seen. *)
LEMMA QuietNInv ==
  ASSUME NInv, UNCHANGED <<timing, since, cause>>,
         "alrm" \in pending' => "alrm" \in pending,
         loc' \notin {"arming", "exited"}, loc \notin {"arming", "exited"},
         "alrm" \in pending' =>
           loc' \in {"poll", "recv", "die"} \/ loc \notin {"poll", "recv", "die"}
  PROVE  NInv'
BY Zenon DEF timing, NInv, NoticeCounted, FullNotice

(* A served request; afp_disconnect that fails arms the tickle timer. *)
LEMMA ServedNInv ==
  ASSUME IInv, NInv, Receiving, NEW fl, Served(fl), UNCHANGED <<handler, usr1>>,
         \/ UNCHANGED <<timer, fuse, rearmed>>
         \/ timer' = "tick" /\ rearmed' = (IF handler = "die" THEN 1 ELSE rearmed)
  PROVE  NInv'
BY Zenon DEF Served, Receiving, IInv, TypeOK, Ticking, NInv, NoticeCounted, FullNotice

(* A take-over of the session by another process (handle_transfer_session). *)
LEMMA TakeoverNInv ==
  ASSUME NInv, loc \notin {"arming", "exited"}, Takeover
  PROVE  NInv'
<1>1. CASE Exit("client")
  BY Zenon, <1>1, ExitNInv
<1>2. CASE ~Exit("client")
  BY Zenon, <1>2, QuietNInv DEF Takeover
<1> QED
  BY Zenon, <1>1, <1>2

(* A receive that failed (dsi_stream_receive in afp_over_dsi). *)
LEMMA UnreceivedNInv ==
  ASSUME NInv, loc = "recv", NEW fl, NEW quiet, Unreceived(fl, quiet)
  PROVE  NInv'
<1>1. CASE Takeover
  BY Zenon, <1>1, TakeoverNInv
<1>2. CASE Exit("client")
  BY Zenon, <1>2, ExitNInv
<1>3. CASE loc' = "die" /\ UNCHANGED <<pending, timing, since, cause>>
  BY Zenon, <1>3, QuietNInv
<1> QED
  BY Zenon, <1>1, <1>2, <1>3 DEF Unreceived

(* Every step of a session that does not log in under notice keeps the count of
   the notice. *)
LEMMA StepNInv ==
  ASSUME LimitsAssumption, ~LateLogin, IInv, NInv, [Next]_vars
  PROVE  NInv'
<1> USE DEF LimitsAssumption
<1>1. CASE UNCHANGED vars
  BY Zenon, <1>1 DEF vars, timing, clocks, requests, NInv, NoticeCounted, FullNotice
<1>2. ASSUME NEW s \in Signals, signal(s) PROVE NInv'
  BY Zenon, <1>2 DEF signal, timing, clocks, requests, NInv, NoticeCounted, FullNotice
<1>3. CASE client_drops
  BY Zenon, <1>3 DEF client_drops, timing, clocks, requests, NInv, NoticeCounted, FullNotice
<1>4. CASE client_sends \/ poll
  BY Zenon, <1>4, QuietNInv DEF client_sends, poll
<1>5. CASE late_alarm
  BY Zenon, <1>5 DEF late_alarm, SIGALRM, clocks, requests, IInv, TypeOK, Ticking, NInv,
     NoticeCounted, FullNotice
<1>6. CASE interval
  BY SMTT(30), <1>6 DEF interval, SIGALRM, requests, IInv, TypeOK, Ticking, NInv, NoticeCounted,
     FullNotice
<1>7. CASE nothing_recorded
  BY SMTT(30), <1>7 DEF nothing_recorded, After, Records, timing, clocks, requests, NInv, NoticeCounted,
     FullNotice
<1>8. CASE afp_dsi_die
  BY Zenon, <1>8, ExitNInv DEF afp_dsi_die, IInv, TypeOK, NInv, NoticeCounted
<1>9. CASE handle_transfer_session
  BY Zenon, <1>9, TakeoverNInv DEF handle_transfer_session
<1>10. CASE handle_timedown
  BY Zenon, <1>10 DEF handle_timedown, clocks, IInv, TypeOK, Ticking, NInv, NoticeCounted, FullNotice
<1>11. CASE timedown_handlers
  BY <1>11 DEF timedown_handlers, requests, IInv, TypeOK, Ticking, NInv, NoticeCounted,
     FullNotice
<1>12. CASE handle_getmesg
  BY Zenon, <1>12, QuietNInv DEF handle_getmesg, clocks
<1>13. CASE alarm_continues
  BY Zenon, <1>13, QuietNInv DEF alarm_continues, Alarmed, clocks
<1>14. CASE alarm_limit
  BY Zenon, <1>14, ExitNInv DEF alarm_limit
<1>15. CASE alarm_disconnects
  BY Zenon, <1>15, ExitNInv, QuietNInv DEF alarm_disconnects, Alarmed, clocks
<1>16. CASE receive_fails \/ bad_frame
  BY Zenon, <1>16, UnreceivedNInv DEF receive_fails, bad_frame
<1>17. CASE Request
  <2>1. CASE login
    BY Zenon, <2>1 DEF login, Served, Receiving, IInv, TypeOK, Ticking, NInv, NoticeCounted, FullNotice
  <2>2. CASE Exit("client")
    BY Zenon, <2>2, ExitNInv
  <2>3. CASE Receiving /\ \E fl : Served(fl) /\ UNCHANGED timing
    BY Zenon, <2>3, ServedNInv DEF timing
  <2>4. CASE afp_disconnect /\ ~Exit("client")
    BY Zenon, <2>4, ServedNInv DEF afp_disconnect
  <2> QED
    BY Zenon, <1>17, <2>1, <2>2, <2>3, <2>4 DEF Request, tickle_request, close_request, afp_logout,
       write_request, afp_disconnect, afp_zzzzz, Replied
<1> QED
  BY Zenon, <1>1, <1>2, <1>3, <1>4, <1>5, <1>6, <1>7, <1>8, <1>9, <1>10, <1>11, <1>12, <1>13, <1>14,
     <1>15, <1>16, <1>17 DEF Next, Main, Environment

-----------------------------------------------------------------------------
(* A lost connection is left clean, a live one never muted, however signals,
   requests and failures interleave (dsi_disconnect, dsi_stream_write), and every
   variable keeps its range: tickle never runs past the limits of handle_alarm. *)
THEOREM LossClean ==
  ASSUME LimitsAssumption
  PROVE  Spec => [](TypeOK /\ LossIsClean)
<1>1. Init => IInv
  BY Zenon, InitIInv
<1>2. IInv /\ [Next]_vars => IInv'
  BY Zenon, StepIInv
<1>3. IInv => TypeOK /\ LossIsClean
  BY Zenon DEF IInv
<1> QED
  BY <1>1, <1>2, <1>3, PTL DEF Spec

(* A silent client is given up within a bound that the options determine
   (handle_alarm, dsi_wait_input), for all values of them. *)
THEOREM SilentGivenUp ==
  ASSUME LimitsAssumption
  PROVE  Spec => []SilenceBounded
<1>1. Init => IInv
  BY InitIInv
<1>2. IInv /\ [Next]_vars => IInv'
  BY StepIInv
<1>3. IInv => SilenceBounded
  BY Zenon, BoundFromIInv
<1> QED
  BY <1>1, <1>2, <1>3, PTL DEF Spec

(* The notice before a shutdown lasts its 300 seconds (handle_timedown), if no
   login ends after it. *)
THEOREM NoticeFull ==
  ASSUME LimitsAssumption, ~LateLogin
  PROVE  Spec => []FullNotice
<1>1. Init => IInv /\ NInv
  BY Zenon, InitIInv
<1>2. IInv /\ NInv /\ [Next]_vars => IInv' /\ NInv'
  BY Zenon, StepIInv, StepNInv
<1>3. NInv => FullNotice
  BY Zenon DEF NInv
<1> QED
  BY <1>1, <1>2, <1>3, PTL DEF Spec

=============================================================================
