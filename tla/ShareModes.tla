------------------------------ MODULE ShareModes ------------------------------
(***************************************************************************)
(* Access and deny modes of open forks (etc/afpd/fork.c, file.c, ofork.c). *)
(* FPOpenFork names the access a fork wants and the access it denies to    *)
(* others.  The sessions, one process each, publish them as read locks on  *)
(* the bytes of a band past the end of the data file: a session tests the  *)
(* slots of the others and then takes its own.  Tests and takes are        *)
(* separate system calls, and the calls of two sessions interleave.  A     *)
(* delete tests the same slots before it unlinks the file.                 *)
(***************************************************************************)
EXTENDS Integers, Sequences, FiniteSets

CONSTANTS
    Procs,      \* session processes
    Forks,      \* fork reference numbers of a process
    Eids,       \* the forks a client opens, of "data" and "rsrc"
    Modes       \* the access words clients send, sets of "rd" "wr" "drd" "dwr"

ASSUME Shape ==
    /\ 0 \notin Forks
    /\ Eids \subseteq {"data", "rsrc"}
    /\ Modes \subseteq SUBSET {"rd", "wr", "drd", "dwr"}

VARIABLES
    exists,     \* the file has its name
    mode,       \* mode[p][f]: [eid, access] of an open fork, or Closed
    held,       \* held[p][f]: band slots the lock array records for the fork
    op,         \* op[p]: the request under way, or NoOp
    before      \* before[p][f]: forks open since before f's open began; f = 0 for a delete

vars == <<exists, mode, held, op, before>>

Closed == [eid |-> "none", access |-> {}]
NoOp == [kind |-> "none", fork |-> 0, eid |-> "none", access |-> {}, todo |-> <<>>, seen |-> {}]

\* The band (include/atalk/adouble.h): AD_FILELOCK_OPEN_WR is slot 0.
Slot == [wr |-> 0, rd |-> 1, dwr |-> 4, drd |-> 5, none |-> 8]

rf2off(off) == IF off \in {0, 1, 4, 5} THEN off + 2 ELSE IF off = 8 THEN 9 ELSE off

Offset(eid, bit) == IF eid = "data" THEN Slot[bit] ELSE rf2off(Slot[bit])

DELETE_BLOCKING == {4, 5, 6, 7}

\* testlock: a slot recorded by a fork of this process, or locked by another.
ad_testlock(off) == \E q \in Procs, g \in Forks : off \in held[q][g]

-----------------------------------------------------------------------------
\* The system calls of fork_setmode for an access word.
Call(do, bits) == IF bits = {} THEN <<>> ELSE <<[do |-> do, bit |-> CHOOSE b \in bits : TRUE]>>

Leg(access, open, deny) ==
    IF access \cap {open, deny} = {} THEN <<>>
    ELSE Call("test", IF deny \in access THEN {open} ELSE {}) \o Call("test", {deny})
         \o Call("check", {open})
         \o Call("lock", access \cap {open}) \o Call("lock", access \cap {deny})

fork_setmode(access) ==
    IF access = {} THEN Call("lock", {"none"})
    ELSE Leg(access, "rd", "drd") \o Leg(access, "wr", "dwr")

DenyOf == [rd |-> "drd", wr |-> "dwr"]

\* The comparison after the two tests of a leg.
Refuses_access_only(access, seen, open) == open \in access /\ DenyOf[open] \in seen

Refuses(access, seen, open) ==
    \/ open \in access /\ DenyOf[open] \in seen
    \/ DenyOf[open] \in access /\ open \in seen

Open == {pf \in Procs \X Forks : mode[pf[1]][pf[2]] # Closed}

\* The forks of gone have closed.
Forget(gone) ==
    [p \in Procs |-> [f \in Forks \cup {0} |-> IF <<p, f>> \in gone THEN {} ELSE before[p][f] \ gone]]

Init ==
    /\ exists = TRUE
    /\ mode = [p \in Procs |-> [f \in Forks |-> Closed]]
    /\ held = [p \in Procs |-> [f \in Forks |-> {}]]
    /\ op = [p \in Procs |-> NoOp]
    /\ before = [p \in Procs |-> [f \in Forks \cup {0} |-> {}]]

\* afp_openfork up to fork_setmode: the data file is open, its band reachable.
openfork_begins(p, f, eid, access) ==
    /\ exists /\ op[p] = NoOp /\ mode[p][f] = Closed
    /\ op' = [op EXCEPT ![p] = [kind |-> "open", fork |-> f, eid |-> eid, access |-> access,
                                todo |-> fork_setmode(access), seen |-> {}]]
    /\ before' = [before EXCEPT ![p][f] = Open]
    /\ UNCHANGED <<exists, mode, held>>

Next_call(p, do) == op[p].kind = "open" /\ op[p].todo # <<>> /\ Head(op[p].todo).do = do
Bit(p) == Head(op[p].todo).bit

tests(p) ==
    /\ Next_call(p, "test")
    /\ op' = [op EXCEPT ![p].todo = Tail(@),
                        ![p].seen = IF ad_testlock(Offset(op[p].eid, Bit(p))) THEN @ \cup {Bit(p)} ELSE @]
    /\ UNCHANGED <<exists, mode, held, before>>

\* openfork_err: the slots taken so far are released by reference number.
openfork_err_keeps(p) ==
    /\ op' = [op EXCEPT ![p] = NoOp]
    /\ before' = Forget({<<p, op[p].fork>>})
    /\ UNCHANGED <<exists, mode, held>>

openfork_err(p) ==
    /\ held' = [held EXCEPT ![p][op[p].fork] = {}]
    /\ op' = [op EXCEPT ![p] = NoOp]
    /\ before' = Forget({<<p, op[p].fork>>})
    /\ UNCHANGED <<exists, mode>>

checks(p) ==
    /\ Next_call(p, "check")
    /\ IF Refuses(op[p].access, op[p].seen, Bit(p)) THEN openfork_err(p)
       ELSE /\ op' = [op EXCEPT ![p].todo = Tail(@)]
            /\ UNCHANGED <<exists, mode, held, before>>

\* Band locks are read locks: the kernel always grants them, or has no memory.
locks(p) ==
    /\ Next_call(p, "lock")
    /\ \/ /\ held' = [held EXCEPT ![p][op[p].fork] = @ \cup {Offset(op[p].eid, Bit(p))}]
          /\ op' = [op EXCEPT ![p].todo = Tail(@)]
          /\ UNCHANGED <<exists, mode, before>>
       \/ openfork_err(p)

openfork_ends(p) ==
    /\ op[p].kind = "open" /\ op[p].todo = <<>>
    /\ mode' = [mode EXCEPT ![p][op[p].fork] = [eid |-> op[p].eid, access |-> op[p].access]]
    /\ op' = [op EXCEPT ![p] = NoOp]
    /\ UNCHANGED <<exists, held, before>>

afp_closefork(p, f) ==
    /\ op[p] = NoOp /\ mode[p][f] # Closed
    /\ mode' = [mode EXCEPT ![p][f] = Closed]
    /\ held' = [held EXCEPT ![p][f] = {}]
    /\ before' = Forget({<<p, f>>})
    /\ UNCHANGED <<exists, op>>

-----------------------------------------------------------------------------
\* FPDelete: the session's own claims first, then those of the others.
of_delete_blocked(p) == \E f \in Forks : held[p][f] \cap DELETE_BLOCKING # {}

delete_begins(p) ==
    /\ exists /\ op[p] = NoOp /\ ~of_delete_blocked(p)
    /\ op' = [op EXCEPT ![p] = [NoOp EXCEPT !.kind = "delete"]]
    /\ before' = [before EXCEPT ![p][0] = Open]
    /\ UNCHANGED <<exists, mode, held>>

\* of_get_locks: F_GETLK sees only other processes.
Claimed_rsrc(p) == \E q \in Procs \ {p}, g \in Forks : held[q][g] \cap {6, 7} # {}

Claimed(p) == \E q \in Procs \ {p}, g \in Forks : held[q][g] \cap DELETE_BLOCKING # {}

deletefile_probes(p) ==
    /\ op[p].kind = "delete"
    /\ op' = [op EXCEPT ![p] = IF Claimed(p) THEN NoOp ELSE [@ EXCEPT !.kind = "unlink"]]
    /\ before' = IF Claimed(p) THEN Forget({<<p, 0>>}) ELSE before
    /\ UNCHANGED <<exists, mode, held>>

\* The unlink, then of_close_inode_forks closes the session's own forks.
deletefile_unlinks(p) ==
    /\ op[p].kind = "unlink"
    /\ exists' = FALSE
    /\ IF exists
       THEN /\ mode' = [mode EXCEPT ![p] = [f \in Forks |-> Closed]]
            /\ held' = [held EXCEPT ![p] = [f \in Forks |-> {}]]
            /\ before' = Forget({p} \X (Forks \cup {0}))
       ELSE before' = Forget({<<p, 0>>}) /\ UNCHANGED <<mode, held>>
    /\ op' = [op EXCEPT ![p] = NoOp]

session_ends(p) ==
    /\ op[p] # NoOp \/ \E f \in Forks : mode[p][f] # Closed
    /\ mode' = [mode EXCEPT ![p] = [f \in Forks |-> Closed]]
    /\ held' = [held EXCEPT ![p] = [f \in Forks |-> {}]]
    /\ op' = [op EXCEPT ![p] = NoOp]
    /\ before' = Forget({p} \X (Forks \cup {0}))
    /\ UNCHANGED exists

Next == \E p \in Procs :
    \/ \E f \in Forks, eid \in Eids, access \in Modes : openfork_begins(p, f, eid, access)
    \/ tests(p) \/ checks(p) \/ locks(p) \/ openfork_ends(p)
    \/ \E f \in Forks : afp_closefork(p, f)
    \/ delete_begins(p) \/ deletefile_probes(p) \/ deletefile_unlinks(p)
    \/ session_ends(p)

Spec == Init /\ [][Next]_vars

-----------------------------------------------------------------------------
\* An open fork has recorded exactly the slots of its modes, so that later
\* opens can see them, and a fork that is neither open nor being opened has
\* recorded none: a refused open leaves nothing behind for others to meet.
SlotsMatch ==
    \A p \in Procs, f \in Forks :
        IF mode[p][f] # Closed
        THEN held[p][f] = {Offset(mode[p][f].eid, b) :
                 b \in IF mode[p][f].access = {} THEN {"none"} ELSE mode[p][f].access}
        ELSE op[p].fork # f => held[p][f] = {}

\* Two open forks of the same kind: one denies what the other has.
Conflict(a, b) ==
    /\ mode[a[1]][a[2]].eid = mode[b[1]][b[2]].eid
    /\ \E x \in {"rd", "wr"} :
          x \in mode[a[1]][a[2]].access /\ DenyOf[x] \in mode[b[1]][b[2]].access

\* What fork_setmode says of itself: a requested access fails when another
\* fork denies it, and a requested deny when another fork has that access, so
\* no two open forks conflict.
ModesHonoured == \A a, b \in Open : a # b => ~Conflict(a, b)

\* A fork whose open began while another was open never conflicts with it:
\* modes are lost only between opens of two sessions that ran at the same time.
LaterOpensHonour ==
    \A a, b \in Open : a # b /\ Conflict(a, b) =>
        /\ a[1] # b[1]
        /\ a \notin before[b[1]][b[2]]
        /\ b \notin before[a[1]][a[2]]

\* A delete never unlinks a file on which another session's fork had a deny
\* mode from before the delete began (deletefile, of_delete_blocked).
DeleteHonours ==
    [][\A p \in Procs : deletefile_unlinks(p) /\ exists =>
          \A a \in before[p][0] : mode[a[1]][a[2]].access \cap {"drd", "dwr"} = {}]_vars

=============================================================================
