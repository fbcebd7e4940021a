------------------------------ MODULE OpenForks ------------------------------
(***************************************************************************)
(* The forks a session has open on one file, and the AppleDouble handle    *)
(* they share (etc/afpd/fork.c, ofork.c; libatalk/adouble/ad_open.c,       *)
(* ad_flush.c).  The handle has two descriptors, "df" of the data file and *)
(* "rf" of the sidecar, each with a count of the references to it, and     *)
(* three counts of the opens of the data fork, of the metadata and of the  *)
(* resource fork.  On the version 2 layout the metadata is the header of   *)
(* the sidecar, on the ea layout it is an extended attribute reached       *)
(* through the data descriptor.  An open may fail at every step, and gives *)
(* back what it took, while other forks go on using the handle.            *)
(*                                                                         *)
(* A sidecar is absent, empty, malformed, in the layout of macOS, torn by  *)
(* a conversion that failed half way, or good.  The metadata attribute is  *)
(* absent, malformed, or names where its FinderInfo is from: the client    *)
(* ("own"), the sidecar ("mac"), or nowhere yet ("blank").                 *)
(***************************************************************************)
EXTENDS Integers, Sequences, FiniteSets, SequencesExt

CONSTANTS OfSlots,     \* fork reference numbers, 1 .. nforks - 1
          OfConfigs    \* the files and the budgets of a run

VARIABLE of

ofVars == <<of>>

NoFd == [st |-> "closed", acc |-> "ro", ref |-> 0, new |-> 0]
ad_init == [df |-> NoFd, rf |-> NoFd, data |-> 0, meta |-> 0, reso |-> 0, refs |-> 1,
            first |-> "none", bad |-> 0]
NoFork == [eid |-> "none", wr |-> 0, fl |-> {}, cached |-> 0, modified |-> 0]

Mdp(ver) == IF ver = "v2" THEN "rf" ELSE "df"
Isopen(fd) == fd.st = "open"
ad_meta_open(h, ver) == h.meta > 0 /\ Isopen(h[Mdp(ver)])
ad_rsrc_open(h) == h.reso > 0 /\ Isopen(h.rf)

\* What a step of an open leaves: the disk d, the handle h and its errno.
R(d, h, e) == [d |-> d, h |-> h, e |-> e]
Then(rs, F(_)) == UNION {IF r.e = "ok" THEN F(r) ELSE {r} : r \in rs}

(***************************************************************************)
(* Closing.                                                                *)
(***************************************************************************)
\* Drop a reference of a descriptor; the last one closes it.  A drop with no
\* reference left is the assertion of the code.
Drop(h, w) ==
    IF h[w].ref = 0 THEN [h EXCEPT !.bad = 1]
    ELSE IF h[w].ref = 1 THEN [h EXCEPT ![w] = NoFd]
    ELSE [h EXCEPT ![w].ref = @ - 1]

Less(n) == IF n > 0 THEN n - 1 ELSE 0

ad_close_df(h) == IF h.df.st = "closed" THEN h ELSE Drop([h EXCEPT !.data = Less(@)], "df")

ad_close_hf(h, ver) ==
    LET w == Mdp(ver)
    IN  IF h[w].st = "closed" THEN h
        ELSE IF h[w].st = "link" THEN [h EXCEPT !.meta = Less(@)]
        ELSE Drop([h EXCEPT !.meta = Less(@)], w)

\* On version 2 the open of the resource fork took the metadata too.
ad_close_rf(h, ver) ==
    LET h1 == IF ver = "v2" /\ Isopen(h.rf) THEN Drop([h EXCEPT !.meta = Less(@)], "rf") ELSE h
        h2 == [h1 EXCEPT !.reso = Less(@)]
    IN  IF ver = "ea" /\ Isopen(h2.rf) THEN Drop(h2, "rf") ELSE h2

ad_close(h, ver, fl) ==
    LET h1 == IF fl \cap {"SETSHRMD", "CHECK_OF", "DF"} # {} THEN ad_close_df(h) ELSE h
        h2 == IF "HF" \in fl \/ (ver = "v2" /\ "RF" \in fl) THEN ad_close_hf(h1, ver) ELSE h1
    IN  IF "RF" \in fl THEN ad_close_rf(h2, ver) ELSE h2

(***************************************************************************)
(* Opening.                                                                *)
(***************************************************************************)
\* The access mode of a descriptor: a read that takes share modes, and a
\* version 2 header, open for writing, which their locks need.
ad2openflags(what, ver, fl) ==
    IF \/ "RDWR" \in fl
       \/ what \in {"DF", "RF"} /\ "SETSHRMD" \in fl
       \/ what = "HF" /\ ver = "v2"
    THEN "rw" ELSE "ro"

\* open(2) of an existing file with permission perm: what it opened for, or
\* the error.
sys_open(d, perm, acc) ==
    (IF acc = "rw" /\ perm = "ro" THEN {<<d, "EACCES">>} ELSE {<<d, "ok">>})
    \cup (IF d.fails > 0 THEN {<<[d EXCEPT !.fails = @ - 1], "EMFILE">>} ELSE {})

\* A read that is refused write access falls back to reading.
Downgrade(d, perm, acc, retry) ==
    UNION {IF o[2] = "EACCES" /\ retry
           THEN {<<p[1], p[2], "ro">> : p \in sys_open(o[1], perm, "ro")}
           ELSE {<<o[1], o[2], acc>>} : o \in sys_open(d, perm, acc)}

Fd(acc, new) == [st |-> "open", acc |-> acc, ref |-> 1, new |-> new]
Refused(h, w, fl) == "RDWR" \in fl /\ h[w].acc = "ro"
Joined(h, w) == [h EXCEPT ![w].ref = @ + 1, ![w].new = 0]

ad_open_df(d, h, fl) ==
    LET acc == ad2openflags("DF", d.ver, fl)
    IN  IF h.df.st # "closed"
        THEN {IF Refused(h, "df", fl) THEN R(d, h, "EACCES") ELSE R(d, Joined(h, "df"), "ok")}
        ELSE IF d.link = 1
        THEN {R(d, [h EXCEPT !.df = [Fd(acc, 0) EXCEPT !.st = "link"]], "ok")}
        ELSE {R(o[1], IF o[2] = "ok" THEN [h EXCEPT !.df = Fd(o[3], 0)] ELSE h, o[2]) :
                  o \in Downgrade(d, d.perm, acc, {"SETSHRMD", "RDONLY"} \subseteq fl)}

\* Writing the metadata attribute, through a writable data descriptor.  The
\* result of the flush is the caller's to look at.
Flushed(d, h, v) ==
    IF h.df.acc # "rw" THEN {<<d, "EBADF">>}
    ELSE {<<[d EXCEPT !.meta = v], "ok">>}
         \cup (IF d.fails > 0 THEN {<<[d EXCEPT !.fails = @ - 1], "EIO">>} ELSE {})

ad_header_read_v2(d) == IF d.side = "good" THEN "ok" ELSE "EIO"

\* Version 2: the sidecar holds the metadata.  A missing one is created on
\* request, an empty one gets a header; a descriptor whose header cannot be
\* read is closed again.
ad_open_hf_v2(d, h, fl) ==
    LET acc == ad2openflags("HF", "v2", fl)
        new == d.side \in {"none", "empty"}
        read(o) == IF new
                   THEN R([o[1] EXCEPT !.side = IF o[3] = "rw" THEN "good" ELSE @],
                          [h EXCEPT !.rf = Fd(o[3], 1)], "ok")
                   ELSE IF ad_header_read_v2(d) = "ok"
                   THEN R(o[1], [h EXCEPT !.rf = Fd(o[3], 0)], "ok")
                   ELSE R(o[1], h, ad_header_read_v2(d))
    IN  IF h.df.st = "link" THEN {R(d, h, "ok")}
        ELSE IF h.rf.st # "closed"
        THEN {IF Refused(h, "rf", fl) THEN R(d, h, "EACCES") ELSE R(d, Joined(h, "rf"), "ok")}
        ELSE IF d.side = "none" /\ "CREATE" \notin fl THEN {R(d, h, "ENOENT")}
        ELSE {IF o[2] = "ok" THEN read(o) ELSE R(o[1], h, o[2]) :
                  o \in Downgrade(d, IF d.side = "none" THEN "rw" ELSE d.sperm, acc,
                                  {"SETSHRMD", "RDONLY"} \subseteq fl)}

\* The attribute as the read of the header finds it; a malformed one is
\* removed for a handle whose first open asked to create.
ad_header_read_ea(d, creating) ==
    IF d.meta \in {"own", "mac", "blank"} THEN <<d, "ok">>
    ELSE IF d.meta = "none" THEN <<d, "ENOENT">>
    ELSE IF creating THEN <<[d EXCEPT !.meta = "none"], "ENOENT">> ELSE <<d, "EINVAL">>

\* ea: the metadata is read through the data descriptor, which an open for
\* writing opens if need be.  A header that is missing is created on request,
\* whether or not its flush succeeds.
ad_open_hf_ea(d, h, fl, v) ==
    LET meta(d1, h1) ==
            LET hr == ad_header_read_ea(d1, h.first = "create")
                ref(g) == IF Isopen(g.df) THEN [g EXCEPT !.df.ref = @ + 1] ELSE g
            IN  IF hr[2] = "ok" THEN {R(hr[1], ref([h1 EXCEPT !.df.new = 0]), "ok")}
                ELSE IF "CREATE" \notin fl \/ hr[2] # "ENOENT" THEN {R(hr[1], h, hr[2])}
                ELSE IF d.ro = 1 THEN {R(hr[1], h, "EROFS")}
                ELSE {R(f[1], ref([h1 EXCEPT !.df.new = 1]), "ok") : f \in Flushed(hr[1], h1, v)}
    IN  IF h.df.st = "link" THEN {R(d, h, "ok")}
        ELSE IF h.df.st # "closed"
        THEN IF Refused(h, "df", fl) THEN {R(d, h, "EACCES")} ELSE meta(d, h)
        ELSE IF ad2openflags("DF", "ea", fl) = "ro" THEN meta(d, h)
        ELSE UNION {IF o[2] = "ok" THEN meta(o[1], [h EXCEPT !.df = [Fd("rw", 0) EXCEPT !.ref = 0]])
                    ELSE {R(o[1], h, o[2])} : o \in sys_open(d, d.perm, "rw")}

\* A failed open of the metadata: a missing header is no error for a read of
\* the resource fork; otherwise the data fork this call opened is closed.
ad_error(r, ver, fl) ==
    IF {"RDONLY", "RF"} \subseteq fl /\ r.e = "ENOENT" THEN [r EXCEPT !.e = "ok"]
    ELSE IF fl \cap {"DF", "SETSHRMD", "CHECK_OF"} # {}
    THEN [r EXCEPT !.h = ad_close(@, ver, {"DF"})] ELSE r

ad_open_hf(d, h, fl, v) ==
    LET rs == IF d.ver = "v2" THEN ad_open_hf_v2(d, h, fl) ELSE ad_open_hf_ea(d, h, fl, v)
    IN  {IF r.e = "ok" THEN [r EXCEPT !.h.meta = @ + 1] ELSE ad_error(r, d.ver, fl) : r \in rs}

\* Version 2: the metadata open did the work.
ad_open_rf_v2(d, h, fl) ==
    {IF ad_meta_open(h, "v2") THEN R(d, [h EXCEPT !.reso = @ + 1], "ok")
     ELSE IF "RDONLY" \in fl THEN R(d, h, "ok") ELSE R(d, h, "EIO")}

(***************************************************************************)
(* The sidecar macOS wrote: its FinderInfo goes to the metadata attribute  *)
(* of a file that has none, then its resource fork to the place where      *)
(* Netatalk keeps it, then the header is rewritten.                        *)
(***************************************************************************)
Spend(d) == [d EXCEPT !.fails = @ - 1]
MayFail(d, good, bad) == {good} \cup (IF d.fails > 0 THEN {bad} ELSE {})

ad_convert_move_rfork(d, h) ==
    IF h.rf.acc = "ro" THEN {R(d, h, "EBADF")}
    ELSE MayFail(d, R([d EXCEPT !.side = "good"], h, "ok"),
                 R([Spend(d) EXCEPT !.side = "torn"], h, "EIO"))

\* The create of the attribute through the data descriptor of the opening
\* handle.  An attribute that did not get the FinderInfo is removed again.
ConvertMeta_leave(d, h) ==
    LET own == [ad_init EXCEPT !.first = "create", !.df = [h.df EXCEPT !.ref = 1]]
        made == ad_open_hf_ea(d, own, {"HF", "RDWR", "CREATE"}, "blank")
    IN  Then(made, LAMBDA r : {R(f[1], r.h, f[2]) : f \in Flushed(r.d, r.h, "mac")})

ConvertMeta(d, h) ==
    LET own == [ad_init EXCEPT !.first = "create", !.df = [h.df EXCEPT !.ref = 1]]
        made == ad_open_hf_ea(d, own, {"HF", "RDWR", "CREATE"}, "blank")
        gone(f) == IF f[2] = "ok" THEN f ELSE <<[f[1] EXCEPT !.meta = "none"], f[2]>>
    IN  Then(made, LAMBDA r : {R(gone(f)[1], r.h, f[2]) : f \in Flushed(r.d, r.h, "mac")})

ad_convert_osx(d, h) ==
    LET probe == ad_header_read_ea(d, FALSE)[2]
        ea == IF d.link = 1 \/ probe = "ok" THEN {R(d, h, "ok")}
              ELSE IF h.df.acc # "rw" THEN {R(d, h, "EACCES")}
              ELSE {[r EXCEPT !.h = h] : r \in ConvertMeta(d, h)}
    IN  IF d.ro = 1 THEN {R(d, h, "EROFS")}
        ELSE Then(ea, LAMBDA r : ad_convert_move_rfork(r.d, h))
             \cup (IF d.side = "torn" THEN {R(d, h, "EIO")} ELSE {})

ad_header_read_osx(d, h) ==
    IF d.side = "good" THEN {R(d, h, "ok")}
    ELSE IF d.side \in {"osx", "torn"} THEN ad_convert_osx(d, h)
    ELSE {R(d, h, "EIO")}

\* ea: the sidecar is opened, or created for a write open; a read of a file
\* without one opens nothing.  A failure after the open closes the descriptor
\* and the data fork this call opened.
ad_open_rf_ea(d, h, fl) ==
    LET acc == ad2openflags("RF", "ea", fl)
        creates == "CREATE" \in fl
        undo(r) == [r EXCEPT !.h = ad_close([@ EXCEPT !.rf = h.rf, !.reso = h.reso], "ea",
                                            fl \cap {"DF", "HF"})]
        held(o, new) == [h EXCEPT !.rf = Fd(o[3], new), !.reso = @ + 1]
        opened(o) == ad_header_read_osx(o[1], held(o, 0))
        made(o) == MayFail(o[1], R([o[1] EXCEPT !.side = "good"], held(o, 1), "ok"),
                           R([Spend(o[1]) EXCEPT !.side = "empty"], held(o, 1), "ok"))
        rs == IF h.rf.st # "closed"
              THEN {IF Refused(h, "rf", fl) THEN R(d, h, "EACCES")
                    ELSE R(d, [Joined(h, "rf") EXCEPT !.reso = @ + 1], "ok")}
              ELSE IF d.side = "none" /\ ~creates THEN {R(d, h, "ok")}
              ELSE UNION {IF o[2] # "ok" THEN {R(o[1], h, o[2])}
                          ELSE IF d.side = "none" THEN made(o) ELSE opened(o) :
                          o \in Downgrade(d, IF d.side = "none" THEN "rw" ELSE d.sperm, acc,
                                         ~creates /\ "RDONLY" \in fl)}
    IN  {IF r.e = "ok" THEN r ELSE undo(r) : r \in rs}

ad_open_rf(d, h, fl) == IF d.ver = "v2" THEN ad_open_rf_v2(d, h, fl) ELSE ad_open_rf_ea(d, h, fl)

ad_open(d, h, fl0) ==
    LET fl1 == fl0 \cup (IF "CHECK_OF" \in fl0 THEN {"SETSHRMD"} ELSE {})
        fl2 == fl1 \cup (IF "SETSHRMD" \in fl1 THEN {"DF"} ELSE {})
        fl == fl2 \cup (IF d.ver = "v2" /\ "RF" \in fl2 THEN {"HF"} ELSE {})
        h0 == [h EXCEPT !.first = IF @ # "none" THEN @
                                  ELSE IF "CREATE" \in fl THEN "create" ELSE "plain"]
        df == IF "DF" \notin fl THEN {R(d, h0, "ok")}
              ELSE {IF r.e = "ok" THEN [r EXCEPT !.h.data = @ + 1] ELSE r :
                        r \in ad_open_df(d, h0, fl)}
        hf == IF "HF" \notin fl THEN df
              ELSE Then(df, LAMBDA r : ad_open_hf(r.d, r.h, fl, "own"))
    IN  IF "RF" \notin fl THEN hf ELSE Then(hf, LAMBDA r : ad_open_rf(r.d, r.h, fl))

(***************************************************************************)
(* The forks.                                                              *)
(***************************************************************************)
ad_refs_taken(h, was) ==
    (IF h.data > was.data THEN {"DF"} ELSE {}) \cup (IF h.meta > was.meta THEN {"HF"} ELSE {})
    \cup (IF h.reso > was.reso THEN {"RF"} ELSE {})

Open == {s \in OfSlots : of.forks[s] # NoFork}

\* of_alloc: the slot of a new fork, and the handle of the file's other forks.
of_alloc == [h |-> IF Open = {} THEN ad_init ELSE [of.h EXCEPT !.refs = @ + 1],
             slot |-> Head(of.freeq)]

\* of_dealloc: the last fork of the handle frees it.
of_dealloc(h, s) ==
    [of EXCEPT !.forks[s] = NoFork,
               !.freeq = IF of.forks[s] = NoFork THEN Append(Tail(@), s) ELSE Append(@, s),
               !.h = IF h.refs = 1 THEN [ad_init EXCEPT !.bad = h.bad] ELSE [h EXCEPT !.refs = @ - 1]]

\* openfork_err: give back what this open took, and only that.
openfork_err_all(d, h, was, s, fl) ==
    [of_dealloc(ad_close(h, d.ver, fl \cap {"DF", "HF", "RF"}), s) EXCEPT !.d = d]
openfork_err(d, h, was, s, fl) ==
    [of_dealloc(ad_close(h, d.ver, ad_refs_taken(h, was)), s) EXCEPT !.d = d]

\* fork_cache_rlen: a read of a resource fork whose content the directory
\* cache holds, of a regular file nobody here has open.
Cacheable(eid, wr) ==
    eid = "RF" /\ wr = 0 /\ of.d.ver = "ea" /\ of.d.link = 0 /\ of.d.cache = 1 /\ Open = {}

\* FPOpenFork.  The second open adds the metadata, created for a write.  The
\* bitmap, the write inhibit attribute and the deny modes may still refuse.
OpenForkFlags(eid, wr, cached) ==
    {"SETSHRMD"} \cup (IF cached = 1 THEN {} ELSE {eid})
    \cup (IF wr = 0 THEN {"RDONLY"} ELSE IF eid = "RF" THEN {"RDWR", "CREATE"} ELSE {"RDWR"})

OpenFirst(eid, wr, cached) == ad_open(of.d, of_alloc.h, OpenForkFlags(eid, wr, cached))

OpenMeta(d, h, wr) ==
    {IF r.e \in {"EACCES", "ENOENT"} THEN [r EXCEPT !.e = "ok"] ELSE r :
         r \in ad_open(d, h, {"HF"} \cup (IF wr = 1 THEN {"RDWR", "CREATE"} ELSE {"RDONLY"}))}

afp_openfork(eid, wr, cached) ==
    LET a == of_alloc
        fl == OpenForkFlags(eid, wr, cached)
        err(r) == openfork_err(r.d, r.h, a.h, a.slot, fl \cup {"DF", "HF"})
        take(r) == [of EXCEPT !.d = r.d, !.h = r.h, !.freeq = Tail(@),
                              !.forks[a.slot] = [eid |-> eid, wr |-> wr, cached |-> cached,
                                                 modified |-> 0, fl |-> ad_refs_taken(r.h, a.h)]]
        rs == Then(OpenFirst(eid, wr, cached), LAMBDA r : OpenMeta(r.d, r.h, wr))
    IN  /\ of.reqs > 0 /\ of.freeq # <<>> /\ (of.d.ro = 1 => wr = 0)
        /\ cached = 1 => Cacheable(eid, wr)
        /\ \E r \in rs :
             \/ r.e = "ok" /\ of' = [take(r) EXCEPT !.reqs = @ - 1]
             \/ r.e # "ok" /\ of' = [err(r) EXCEPT !.reqs = @ - 1]
             \/ r.e = "ok" /\ of.refusals > 0
                /\ of' = [err(r) EXCEPT !.reqs = @ - 1, !.refusals = @ - 1]

\* A fork opened from the cache takes its sidecar when a request needs it.
fork_cached(s) == of.forks[s].cached = 1 /\ "RF" \notin of.forks[s].fl

fork_open_rsrc(s) ==
    LET fl == {"RF", "RDONLY"} \cup (IF ad_rsrc_open(of.h) THEN {} ELSE {"RDWR"})
    IN  /\ fork_cached(s)
        /\ \E r \in ad_open(of.d, of.h, fl) :
             of' = [of EXCEPT !.d = r.d, !.h = r.h,
                              !.forks[s].fl = IF r.e = "ok" THEN @ \cup ad_refs_taken(r.h, of.h)
                                              ELSE @]

\* Requests by name borrow the handle of the open forks for a moment: one
\* reads the metadata and the open forks, one creates metadata to change it.
BorrowFlags == [read |-> {"HF", "RDONLY", "CHECK_OF"}, write |-> {"HF", "CREATE", "RDWR"}]

\* ad_metadata: a read that is refused is tried again as root.
ad_metadata(d, h) ==
    UNION {IF r.e # "EACCES" THEN {r}
           ELSE {[q EXCEPT !.d.perm = d.perm, !.d.sperm = d.sperm] :
                     q \in ad_open([r.d EXCEPT !.perm = "rw", !.sperm = "rw"], r.h,
                                   BorrowFlags["read"])} :
           r \in ad_open(d, h, BorrowFlags["read"])}

Borrow(how) ==
    LET rs == IF how = "read" THEN ad_metadata(of.d, of.h)
              ELSE ad_open(of.d, of.h, BorrowFlags["write"])
    IN  /\ of.reqs > 0 /\ Open # {} /\ (how = "write" => of.d.ro = 0)
        /\ \E r \in rs :
             of' = [of EXCEPT !.d = r.d, !.reqs = @ - 1,
                              !.h = IF r.e = "ok" THEN ad_close(r.h, r.d.ver, BorrowFlags[how])
                                    ELSE r.h]

\* Writing to the resource fork, and setting its length to nothing.
write_fork(s) ==
    /\ of.forks[s].eid = "RF" /\ of.forks[s].wr = 1 /\ of.d.rlen = 0
    /\ of' = [of EXCEPT !.d.rlen = 1, !.forks[s].modified = 1]

afp_setforkparams(s) ==
    /\ of.forks[s].eid = "RF" /\ of.forks[s].wr = 1 /\ of.d.rlen = 1
    /\ of' = [of EXCEPT !.d.rlen = 0, !.forks[s].modified = 1]

\* of_closefork.  The sidecar of an emptied resource fork goes with the last
\* reference to its descriptor, unless another process has the file open.
Emptied_shared(s, d) == d.ver = "ea" /\ d.ro = 0 /\ d.link = 0 /\ d.rlen = 0
                        /\ "RF" \in of.forks[s].fl /\ of.h.rf.ref = 1
Emptied(s, d) == d.ver = "ea" /\ d.ro = 0 /\ d.link = 0 /\ d.rlen = 0
                 /\ "RF" \in of.forks[s].fl /\ of.h.rf.ref = 1 /\ of.other = "none"

of_closefork(s) ==
    LET gone == [of.d EXCEPT !.side = "none", !.lost = IF of.other = "none" THEN @ ELSE 1]
        kept(d) == [of_dealloc(ad_close(of.h, d.ver, of.forks[s].fl), s) EXCEPT !.d = d]
    IN  /\ s \in Open
        /\ \/ of' = kept(IF Emptied(s, of.d) THEN gone ELSE of.d)
           \/ Emptied(s, of.d) /\ of.d.fails > 0 /\ of' = kept(Spend(of.d))

(***************************************************************************)
(* Another session on the same file, one request at a time.                *)
(***************************************************************************)
OtherOpens ==
    /\ of.others > 0 /\ of.other = "none" /\ of.d.ver = "ea" /\ of.d.ro = 0
    /\ of.d.side \in {"none", "good"}
    /\ of' = [of EXCEPT !.other = "open", !.others = @ - 1, !.d.side = "good",
                        !.d.rlen = IF of.d.side = "none" THEN 0 ELSE @]

OtherWrites == of.other = "open" /\ of.d.rlen = 0 /\ of' = [of EXCEPT !.d.rlen = 1]

OtherCloses ==
    LET goes == of.d.rlen = 0 /\ Open = {}
    IN  /\ of.other = "open"
        /\ of' = [of EXCEPT !.other = "none", !.d.side = IF goes THEN "none" ELSE @]

-----------------------------------------------------------------------------
OfInit ==
    \E c \in OfConfigs :
        of = [d |-> [ver |-> c.ver, link |-> c.link, perm |-> c.perm, sperm |-> c.sperm,
                     side |-> c.side, meta |-> c.meta, ro |-> c.ro, cache |-> c.cache,
                     rlen |-> c.rlen, fails |-> c.fails, lost |-> 0],
              h |-> ad_init, forks |-> [s \in OfSlots |-> NoFork],
              freeq |-> SetToSortSeq(OfSlots, <), other |-> "none",
              reqs |-> c.reqs, refusals |-> c.refusals, others |-> c.others]

OfNext ==
    \/ \E eid \in {"DF", "RF"}, wr, cached \in {0, 1} : afp_openfork(eid, wr, cached)
    \/ \E s \in OfSlots : fork_open_rsrc(s) \/ write_fork(s) \/ afp_setforkparams(s)
    \/ \E s \in OfSlots : of_closefork(s)
    \/ \E how \in {"read", "write"} : Borrow(how)
    \/ OtherOpens \/ OtherWrites \/ OtherCloses

OfSpec == OfInit /\ [][OfNext]_ofVars

OfTypeOK ==
    /\ of.d.side \in {"none", "empty", "bad", "osx", "torn", "good"}
    /\ of.d.meta \in {"none", "bad", "own", "mac", "blank"}
    /\ \A s \in OfSlots : of.forks[s].fl \subseteq {"DF", "HF", "RF"}

Holders(f) == {s \in OfSlots : f \in of.forks[s].fl}

\* The references of the shared handle are exactly those of the open forks,
\* after every refused open and every close: no descriptor is closed under a
\* fork that uses it, none is left open behind the last, none of the
\* assertions of ad_close and of_dealloc fails, and a fork open for writing
\* has a descriptor it can write through.
RefsExact ==
    LET n(f) == Cardinality(Holders(f))
        df == n("DF") + (IF of.d.ver = "ea" /\ of.d.link = 0 THEN n("HF") ELSE 0)
        rf == n("RF") + (IF of.d.ver = "v2" /\ of.d.link = 0 THEN n("HF") ELSE 0)
        w == [DF |-> "df", RF |-> "rf"]
    IN  /\ of.h.bad = 0 /\ (Open # {} => of.h.refs = Cardinality(Open))
        /\ of.h.df.ref = df /\ of.h.rf.ref = rf
        /\ of.h.df.st = "closed" <=> df = 0
        /\ of.h.rf.st = "closed" <=> rf = 0
        /\ \A s \in Open : of.forks[s].wr = 1 /\ of.d.link = 0 =>
               of.h[w[of.forks[s].eid]].st = "open" /\ of.h[w[of.forks[s].eid]].acc = "rw"

\* A sidecar of macOS gives its FinderInfo to the metadata attribute before
\* it is rewritten, and a conversion that fails leaves no attribute with an
\* empty FinderInfo behind, which every later conversion would keep.
FinderInfoMoved == of.d.meta # "blank"

\* The close of an emptied resource fork never unlinks the sidecar of another
\* session that has the file open, whose writes would go nowhere.
SidecarKept == of.d.lost = 0
=============================================================================
