----------------------------- MODULE Spotlight -----------------------------
(***************************************************************************)
(* Searches of one AFP session: the Spotlight calls of etc/afpd/           *)
(* spotlight.c, the query lists of spotlight_queries.c, and the result     *)
(* paging of the three backends under etc/spotlight.                       *)
(*                                                                         *)
(* The cnid and xapian backends collect all matches when a query is opened *)
(* and then hand out pages.  The localsearch backend asks the indexer and  *)
(* gets one row per callback; the callbacks run only while a Spotlight     *)
(* call iterates the GLib main context, so cb says which callback of a     *)
(* query is outstanding and the iteration decides whether its answer is    *)
(* here.  Results are file IDs, small integers; the attributes of a result *)
(* are left out.  want, got, fin and lost are history: the matches the     *)
(* client may see, what replies brought, whether one said the search is    *)
(* complete, and whether the client saw a call fail or the indexer did.    *)
(***************************************************************************)
EXTENDS Integers, Sequences, FiniteSets, SequencesExt, FiniteSetsExt

CONSTANTS SlQueries,      \* query objects, opened once each
          SlContexts,     \* what the client names its queries with
          SlPage,         \* MAX_SL_RESULTS and the page sizes of the backends
          SlMinFind,      \* CNID_FIND_MIN_RESULTS
          SlStart,        \* SL_CNID_START_RESULTS
          SlGrowth,       \* SL_CNID_GROWTH
          SlMaxCap,       \* SL_CNID_MAX_CAP
          SlIdleActive,   \* MAX_SL_QUERY_IDLE_TIME_ACTIVE, in clock ticks
          SlIdleTerminal, \* MAX_SL_QUERY_IDLE_TIME_TERMINAL, in clock ticks
          SlConfigs       \* the scenarios

VARIABLE sl

slVars == <<sl>>

Terminal == {"full", "done", "error"}
NoQuery == [mem |-> "none", st |-> "new", ctx |-> 0, items |-> <<>>, pos |-> 0, cap |-> 0,
            more |-> 0, hasres |-> 0, res |-> <<>>, filter |-> {}, cb |-> "none",
            idle |-> 0, want |-> {}, got |-> <<>>, fin |-> 0, lost |-> 0]

RECURSIVE Ascending(_)
Ascending(S) == IF S = {} THEN <<>> ELSE <<Min(S)>> \o Ascending(S \ {Min(S)})

SlSpend(s, what) == [s EXCEPT !.cf[what] = @ - 1]
SlHas(s, what) == s.cf[what] > 0
SetQ(s, i, q) == [s EXCEPT !.q[i] = q]

(***************************************************************************)
(* The query lists, newest first.                                          *)
(***************************************************************************)
slq_remove(s, i) ==
    [s EXCEPT !.active = SelectSeq(@, LAMBDA j : j # i),
              !.cancelled = SelectSeq(@, LAMBDA j : j # i)]

slq_add(s, i) == [s EXCEPT !.active = <<i>> \o @, !.q[i].mem = "active"]

\* The newest active query of a context, 0 for none.
slq_for_ctx(s, ctx) ==
    LET at == SelectInSeq(s.active, LAMBDA i : s.q[i].ctx = ctx)
    IN  IF at = 0 THEN 0 ELSE s.active[at]

\* The backend drops its part (sbo_close_query) and the memory goes; only
\* the callback still to come, if any, remembers the query.
slq_destroy(s, i) ==
    [slq_remove(s, i) EXCEPT !.q[i] = [NoQuery EXCEPT !.mem = "freed", !.cb = s.q[i].cb]]

slq_cancel(s, i) ==
    [slq_remove(s, i) EXCEPT !.cancelled = <<i>> \o @,
                             !.q[i].st = "cancel_pending", !.q[i].mem = "cancelled"]

\* Closing a query that waits for rows as if it were finished.
slq_close_all(s, i) == slq_destroy(s, i)

slq_close(s, i) ==
    IF s.q[i].st \in Terminal THEN slq_destroy(s, i)
    ELSE IF s.q[i].st \in {"running", "results"} THEN slq_cancel(s, i)
    ELSE s

slq_cancelled_cleanup(s) ==
    FoldSeq(LAMBDA i, t : IF t.q[i].st = "cancelled" THEN slq_destroy(t, i) ELSE t,
            s, s.cancelled)

slq_idle_cleanup(s) ==
    LET limit(q) == IF q.st \in Terminal THEN SlIdleTerminal ELSE SlIdleActive
    IN  FoldSeq(LAMBDA i, t : IF t.q[i].idle < limit(t.q[i]) THEN t ELSE slq_close(t, i),
                s, s.active)

create_result_handle(q) == [q EXCEPT !.hasres = 1, !.res = <<>>]

Passes(s, q, id) == id \notin s.cf.hidden /\ (q.filter = {} \/ id \in q.filter)

(***************************************************************************)
(* The localsearch backend.                                                *)
(***************************************************************************)
\* The indexer, a conversion or the row's metadata failed.
Failed(s, i) ==
    {[SlSpend(s, "errs") EXCEPT !.q[i].st = "error", !.q[i].cb = "none", !.q[i].lost = 1] :
        x \in {y \in {1} : SlHas(s, "errs")}}

tracker_query_cb(s, i) ==
    LET q == s.q[i]
    IN  IF q.st = "cancel_pending"
        THEN {SetQ(s, i, [q EXCEPT !.cb = "none", !.st = "cancelled"])}
        ELSE {SetQ(s, i, [q EXCEPT !.cb = "cursor", !.st = "results"])} \cup Failed(s, i)

\* The lookup of a row's ID found the table of the volume reset: the session
\* will end once the call is answered.
cnid_reset(s, i) ==
    {[SlSpend(s, "resets") EXCEPT !.q[i].st = "error", !.q[i].cb = "none",
                                  !.q[i].lost = 1, !.ending = 1] :
        x \in {y \in {1} : SlHas(s, "resets")}}

\* A row that passes joins the page, and the next row is asked for until the
\* page is full.
tracker_cursor_cb(s, i) ==
    LET q == s.q[i]
        id == q.items[q.pos + 1]
        q1 == [q EXCEPT !.pos = @ + 1,
                        !.res = IF Passes(s, q, id) THEN Append(@, id) ELSE @]
    IN  IF q.st = "cancel_pending"
        THEN {SetQ(s, i, [q EXCEPT !.cb = "none", !.st = "cancelled"])}
        ELSE IF q.hasres = 0
        THEN {SetQ(s, i, [q EXCEPT !.cb = "none", !.st = "error", !.lost = 1])}
        ELSE Failed(s, i) \cup
             IF q.pos = Len(q.items)
             THEN {SetQ(s, i, [q EXCEPT !.cb = "none", !.st = "done"])}
             ELSE {SetQ(s, i, IF Len(q1.res) < SlPage
                              THEN [q1 EXCEPT !.cb = "cursor", !.st = "results"]
                              ELSE [q1 EXCEPT !.cb = "none", !.st = "full"])}
                  \cup cnid_reset(s, i)

Dispatch(s, i) == IF s.q[i].cb = "query" THEN tracker_query_cb(s, i)
                  ELSE tracker_cursor_cb(s, i)
RECURSIVE Rows(_, _, _)
\* The callbacks of query i that an iteration runs: any number of them, as
\* the answers are there or not; a poll of i stops at its first result.
Rows(s, i, poll) ==
    {s} \cup IF s.q[i].cb = "none" \/ (poll = 1 /\ s.q[i].res # <<>>) THEN {}
             ELSE UNION {Rows(t, i, poll) : t \in Dispatch(s, i)}

\* g_main_context_iteration until no answer is there.  The callbacks of two
\* queries touch nothing in common, so their order does not show.
Iterate(s, who) ==
    FoldSeq(LAMBDA i, ts : UNION {Rows(t, i, 0) : t \in ts}, {s},
            SelectSeq(s.active \o s.cancelled, LAMBDA i : i \in who))

sl_localsearch_open_query(s, i) ==
    {SetQ(s, i, [s.q[i] EXCEPT !.cb = "query", !.st = "running"])}

sl_localsearch_fetch_results(s, i) ==
    LET s1 == IF s.q[i].st = "full"
              THEN [s EXCEPT !.q[i].st = "results", !.q[i].cb = "cursor"] ELSE s
        waits == s1.q[i].st \in {"running", "results"} /\ s1.q[i].hasres = 1
                 /\ s1.q[i].res = <<>>
    IN  IF ~waits THEN {s1}
        ELSE UNION {Rows(t, i, 1) : t \in Iterate(s1, (1..SlQueries) \ {i})}

(***************************************************************************)
(* The cnid and xapian backends.                                           *)
(***************************************************************************)
RECURSIVE FillFrom(_, _, _)
\* Matches from pos on join the page until it holds SlPage of them.
FillFrom(s, q, page) ==
    IF q.pos = Len(q.items) \/ page = SlPage THEN q
    ELSE LET id == q.items[q.pos + 1]
         IN  IF Passes(s, q, id)
             THEN FillFrom(s, [q EXCEPT !.pos = @ + 1, !.res = Append(@, id)], page + 1)
             ELSE FillFrom(s, [q EXCEPT !.pos = @ + 1], page)

\* sl_cnid_fill_results and sl_xapian_fill_results.  A failure is an error.
fill_results(s, i) ==
    LET q == FillFrom(s, s.q[i], 0)
    IN  {SetQ(s, i, [q EXCEPT !.st = IF q.pos < Len(q.items) THEN "full" ELSE "done"])}
        \cup Failed(s, i)
        \cup (IF s.cf.backend = "xapian" THEN cnid_reset(s, i) ELSE {})

\* A poll that finds the page filled at the open leaves it alone.
fetch_results(s, i) ==
    IF Len(s.q[i].res) > 0 \/ s.q[i].st = "done" THEN {s} ELSE fill_results(s, i)

sl_cnid_cap_for(want, nterms) == Min({Max({want, nterms * SlMinFind}), SlMaxCap})

\* One search per term into what is left of the buffer, with room held back
\* for each later term.  Several terms may find the same file.
sl_cnid_collect(matches, cap) ==
    LET n == Len(matches)
        step(acc, k) ==
            LET room == cap - Len(acc.ids) - (n - k) * SlMinFind
                found == SubSeq(matches[k], 1, Min({room, Len(matches[k])}))
            IN  IF acc.stop = 1 \/ room < SlMinFind THEN [acc EXCEPT !.more = 1, !.stop = 1]
                ELSE [acc EXCEPT !.ids = @ \o found,
                                 !.more = IF Len(matches[k]) > room THEN 1 ELSE @]
        all == FoldLeft(step, [ids |-> <<>>, more |-> 0, stop |-> 0], [k \in 1..n |-> k])
    IN  [ids |-> IF n > 1 THEN Ascending(ToSet(all.ids)) ELSE all.ids, more |-> all.more]

\* Taking what the first round of an unlimited search found.
Grow_once(matches, limit, cap) == [sl_cnid_collect(matches, cap) @@ [cap |-> cap] EXCEPT !.more = 0]

RECURSIVE Grow(_, _, _)
\* An unlimited search starts small and runs again with a larger buffer while
\* a term had more.
Grow(matches, limit, cap) ==
    LET c == sl_cnid_collect(matches, cap)
    IN  IF limit > 0 \/ c.more = 0 \/ cap >= SlMaxCap THEN c @@ [cap |-> cap]
        ELSE Grow(matches, limit, sl_cnid_cap_for(cap * SlGrowth, Len(matches)))

sl_cnid_open_query(s, i, matches) ==
    LET limit == s.cf.limit
        n == Len(matches)
        c == Grow(matches, limit, sl_cnid_cap_for(IF limit = 0 THEN SlStart ELSE limit, n))
        ids == IF limit > 0 /\ Len(c.ids) > limit THEN SubSeq(c.ids, 1, limit) ELSE c.ids
        q == [s.q[i] EXCEPT !.items = ids, !.cap = c.cap, !.more = c.more]
    IN  IF n = 0 THEN {SetQ(s, i, [s.q[i] EXCEPT !.st = "done"])}
        ELSE fill_results(SetQ(s, i, q), i) \cup Failed(s, i)

\* The index of the xapian backend is asked once, for at most limit matches.
sl_xapian_open_query(s, i) == fill_results(s, i) \cup Failed(s, i)

(***************************************************************************)
(* The calls.                                                              *)
(***************************************************************************)
\* Every Spotlight call first lets the callbacks run and cleans up.
afp_spotlight_rpc(s) ==
    {slq_idle_cleanup(slq_cancelled_cleanup(t)) :
        t \in IF s.cf.backend = "local" THEN Iterate(s, 1..SlQueries) ELSE {s}}

\* What the index of the localsearch and the xapian backend has for the
\* terms: every file once, up to the limit.
IndexRows(s, matches) ==
    LET all == Ascending(UNION {ToSet(matches[k]) : k \in 1..Len(matches)})
    IN  IF s.cf.limit > 0 /\ Len(all) > s.cf.limit THEN SubSeq(all, 1, s.cf.limit) ELSE all

\* A query that cannot be opened leaves nothing behind; bad stands for a call
\* without a query string, attributes, context or with a refused filter.
sl_rpc_openQuery(s, ctx, terms, filter, bad) ==
    LET i == Min({j \in 1..SlQueries : s.q[j].mem = "none"})
        matches == [k \in 1..Len(terms) |-> s.cf.found[terms[k]]]
        want == {x \in UNION {ToSet(matches[k]) : k \in 1..Len(matches)} :
                     x \notin s.cf.hidden /\ (filter = {} \/ x \in filter)}
        q == create_result_handle([NoQuery EXCEPT !.ctx = ctx, !.filter = filter, !.want = want,
                                                  !.items = IndexRows(s, matches)])
        s1 == SetQ(s, i, q)
        outcomes == CASE s.cf.backend = "local" -> sl_localsearch_open_query(s1, i)
                      [] s.cf.backend = "cnid" -> sl_cnid_open_query(s1, i, matches)
                      [] s.cf.backend = "xapian" -> sl_xapian_open_query(s1, i)
    IN  IF bad = 1 THEN {[s EXCEPT !.q[i].mem = "freed"]}
        ELSE {IF t.q[i].st = "error" THEN slq_destroy(t, i) ELSE slq_add(t, i) : t \in outcomes}

\* The status that goes with the results of the page.  The states from done
\* on, error among them, say complete.
AtEnd(q) == q.st \in {"done", "cancel_pending", "cancelled", "error"}

\* The page leaves with the reply and a fresh one takes its place.
add_results(s, i) ==
    LET q == s.q[i]
        sent == [q EXCEPT !.got = @ \o q.res, !.fin = IF AtEnd(q) THEN 1 ELSE @]
    IN  {[s |-> SetQ(s, i, create_result_handle(sent)), ok |-> 1]}
        \cup {[s |-> SetQ(SlSpend(s, "allocs"), i, [sent EXCEPT !.hasres = 0, !.res = <<>>, !.lost = 1]),
               ok |-> 0] : x \in {y \in {1} : SlHas(s, "allocs")}}

\* A reply too large to pack is not sent, and its page is gone.
sl_pack(s, i) ==
    {s} \cup {[SlSpend(s, "packs") EXCEPT !.q[i].lost = 1] : x \in {y \in {1} : SlHas(s, "packs")}}

\* A poll.  A call that fails closes the query.
sl_rpc_fetchQueryResultsForContext(s, ctx) ==
    LET i == slq_for_ctx(s, ctx)
        s1 == [s EXCEPT !.q[i].idle = 0]
        fetched == IF s.cf.backend = "local" THEN sl_localsearch_fetch_results(s1, i)
                   ELSE fetch_results(s1, i)
        refused == IF s.cf.backend = "local" THEN {} ELSE {t \in fetched : t.q[i].st = "error"}
        answers == UNION {add_results(t, i) : t \in fetched \ refused}
    IN  IF i = 0 THEN {s}
        ELSE IF s.q[i].st = "error" THEN {slq_close(s1, i)}
        ELSE {slq_close(t, i) : t \in refused}
             \cup UNION {IF a.ok = 1 THEN sl_pack(a.s, i) ELSE {slq_close(a.s, i)} : a \in answers}

sl_rpc_closeQueryForContext(s, ctx) ==
    LET i == slq_for_ctx(s, ctx) IN IF i = 0 THEN {s} ELSE {slq_close(s, i)}

(***************************************************************************)
(* The session.                                                            *)
(***************************************************************************)
SlInit ==
    \E c \in SlConfigs :
        sl = [cf |-> c, q |-> [i \in 1..SlQueries |-> NoQuery], active |-> <<>>,
              cancelled |-> <<>>, ending |-> 0]

SlOpen ==
    /\ sl.ending = 0
    /\ \E i \in 1..SlQueries : sl.q[i].mem = "none"
    /\ \E ctx \in SlContexts, o \in sl.cf.opens, s \in afp_spotlight_rpc(sl) :
           \E t \in sl_rpc_openQuery(s, ctx, o.terms, o.filter, o.bad) : sl' = t

SlFetch ==
    /\ sl.ending = 0
    /\ \E ctx \in SlContexts, s \in afp_spotlight_rpc(sl) :
           \E t \in sl_rpc_fetchQueryResultsForContext(s, ctx) : sl' = t

SlClose ==
    /\ sl.ending = 0
    /\ \E ctx \in SlContexts, s \in afp_spotlight_rpc(sl) :
           \E t \in sl_rpc_closeQueryForContext(s, ctx) : sl' = t

\* A call about attributes, which touches no query.
SlOther == sl.ending = 0 /\ \E s \in afp_spotlight_rpc(sl) : sl' = s

\* Time passes; a query looks idle for longer.
SlTick ==
    /\ sl.cf.ticks > 0
    /\ sl' = [SlSpend(sl, "ticks") EXCEPT !.q = [i \in 1..SlQueries |->
                  [sl.q[i] EXCEPT !.idle = IF sl.q[i].mem = "active" /\ @ < SlIdleTerminal
                                           THEN @ + 1 ELSE @]]]

SlNext == SlOpen \/ SlFetch \/ SlClose \/ SlOther \/ SlTick

SlSpec == SlInit /\ [][SlNext]_slVars

(***************************************************************************)
(* Properties.                                                             *)
(***************************************************************************)
\* A query is in the list its state calls for, and in no other.
SlTypeOK ==
    /\ \A i \in 1..SlQueries :
           /\ (sl.q[i].mem = "active") <=> (i \in ToSet(sl.active))
           /\ (sl.q[i].mem = "cancelled") <=> (i \in ToSet(sl.cancelled))
    /\ IsInjective(sl.active) /\ IsInjective(sl.cancelled)

\* No query object is freed while the indexer still owes it a callback, which
\* would run with the freed query: whatever mix of closes, failed polls, idle
\* cleanups and shadowed contexts ends a search, slq_close frees only those
\* with no callback outstanding and slq_cancelled_cleanup the rest later.
CallbackHasQuery ==
    \A i \in 1..SlQueries : sl.q[i].mem = "freed" => sl.q[i].cb = "none"

\* When a reply says the search is complete (status 0) and no call failed,
\* the replies together brought every match the user may see exactly once,
\* or, with a results limit, no more than the limit, over the pages of
\* fill_results and tracker_cursor_cb and the growing buffer of
\* sl_cnid_open_query.
AllFound ==
    \A i \in 1..SlQueries :
        LET q == sl.q[i]
        IN  q.fin = 1 /\ q.lost = 0 =>
                /\ IsInjective(q.got)
                /\ ToSet(q.got) \subseteq q.want
                /\ IF sl.cf.limit > 0 THEN Len(q.got) <= sl.cf.limit
                   ELSE ToSet(q.got) = q.want \/ (q.more = 1 /\ q.cap >= SlMaxCap)

-----------------------------------------------------------------------------
(***************************************************************************)
(* The wire form of Spotlight values: sl_pack and sl_unpack of etc/afpd/   *)
(* spotlight_marshalling.c.                                                *)
(*                                                                         *)
(* A message is a sequence of 8 byte words.  A word that is a tag has a    *)
(* type k, a size or count n and a 32 bit value, the first element of v;   *)
(* any other word is raw and v is what it holds.  Offsets count words, and *)
(* only strings are looked at byte by byte.  A value has a type t, plain   *)
(* data v, and the values e inside it.  Complex values (arrays,            *)
(* dictionaries, strings, file metadata, ID sets) have an entry in the     *)
(* table of contents, which follows the data; file metadata is a message   *)
(* of its own.  Dates are whole seconds, and only the little endian form   *)
(* is modelled, the one sl_pack writes.                                    *)
(***************************************************************************)
CONSTANTS MqRooms,     \* sizes of the reply buffer (MAX_SLQ_DAT), in words
          MqToc,       \* MAX_SLQ_TOC, in words
          MqDepth,     \* SUBQ_SAFETY_LIM
          MqDelta,     \* SPOTLIGHT_TIME_DELTA
          MqValues     \* the replies

VARIABLE mq

mqVars == <<mq>>

Value(t, v, e) == [t |-> t, v |-> v, e |-> e]
Word(k, n, v) == [k |-> k, n |-> n, v |-> v]
Raw(v) == Word("raw", 0, v)
sl_pack_tag(type, size, val) == Word(type, size, <<val>>)

(***************************************************************************)
(* Packing.  The accumulator holds the words, the table of contents, the   *)
(* room for words, and whether everything fitted so far.                   *)
(***************************************************************************)
\* slvalc, once per word: a word past the room fails the whole message.
Put(a, words) ==
    IF a.ok = 1 /\ Len(a.buf) + Len(words) <= a.room THEN [a EXCEPT !.buf = @ \o words]
    ELSE [a EXCEPT !.ok = 0]

TocEntry(a, type, at, val) ==
    IF Len(a.toc) < MqToc THEN [a EXCEPT !.toc = Append(@, sl_pack_tag(type, at + 2, val))]
    ELSE [a EXCEPT !.ok = 0]

\* The entry of a complex value in the table, and its tag among the words.
PutComplex(a, type, val) ==
    Put(TocEntry(a, type, Len(a.buf), val), <<sl_pack_tag("complex", 1, Len(a.toc) + 1)>>)

sl_pack_uint64(a, x) == Put(a, <<sl_pack_tag("int64", 2, 1), Raw(x.v)>>)
sl_pack_float(a, x) == Put(a, <<sl_pack_tag("float", 2, 1), Raw(x.v)>>)
sl_pack_date(a, x) == Put(a, <<sl_pack_tag("date", 2, 1), Raw(<<x.v[1] - MqDelta>>)>>)
sl_pack_uuid(a, x) == Put(a, <<sl_pack_tag("uuid", 3, 1), Raw(<<x.v[1]>>), Raw(<<x.v[2]>>)>>)
sl_pack_bool(a, x) == Put(a, <<sl_pack_tag("bool", 1, IF x.v[1] # 0 THEN 1 ELSE 0)>>)
sl_pack_nil(a) == Put(a, <<sl_pack_tag("null", 1, 1)>>)

\* x.v is the context followed by the IDs.  An empty set has no context word.
sl_pack_CNID(a, x) ==
    LET n == Len(x.v) - 1
        ids == [i \in 1..n |-> Raw(<<x.v[i + 1]>>)]
    IN  Put(PutComplex(a, "CNIDS", 0),
            IF n = 0 THEN <<sl_pack_tag("cnids", 1, 8)>>
            ELSE <<sl_pack_tag("cnids", n + 2, 8), sl_pack_tag("0xadd", n, x.v[1])>> \o ids)

Octets(bytes) == (Len(bytes) + 7) \div 8

\* Forgetting that a string of whole words uses all 8 bytes of the last.
used_in_last_octet_mod(bytes) == Len(bytes) % 8

used_in_last_octet(bytes) == IF Len(bytes) % 8 # 0 THEN Len(bytes) % 8 ELSE 8

sl_pack_string(a, x) ==
    LET n == Octets(x.v)
        used == used_in_last_octet(x.v)
        chunk(i) == Raw(SubSeq(x.v, 8 * i - 7, IF i = n THEN Len(x.v) ELSE 8 * i))
    IN  Put(PutComplex(a, "STRING", used),
            <<sl_pack_tag("data", n + 1, used)>> \o [i \in 1..n |-> chunk(i)])

RECURSIVE sl_pack_loop(_, _), sl_pack_len(_, _)

\* sl_pack_array and sl_pack_dict.
sl_pack_array(a, type, x) == sl_pack_loop(PutComplex(a, type, Len(x.e)), x.e)

\* The metadata of files, packed as a message; one of at most 40 bytes has no
\* content and is left out.
sl_pack_filemeta(a, x) ==
    LET at == Len(a.buf)
        inner == sl_pack_len(x.e, a.room - at - 2)
        body == IF Len(inner) > 5 THEN inner ELSE <<>>
        words == <<sl_pack_tag("complex", 1, Len(a.toc) + 1),
                   sl_pack_tag("data", Len(body) + 1, 8)>> \o body
    IN  IF a.room - at - 2 <= 2 \/ inner = <<>> THEN [a EXCEPT !.ok = 0]
        ELSE TocEntry(Put(a, words), "FILEMETA", at, Len(body))

sl_pack_one(a, x) ==
    CASE x.t = "array" -> sl_pack_array(a, "ARRAY", x)
      [] x.t = "dict" -> sl_pack_array(a, "DICT", x)
      [] x.t = "filemeta" -> sl_pack_filemeta(a, x)
      [] x.t = "int" -> sl_pack_uint64(a, x)
      [] x.t = "string" -> sl_pack_string(a, x)
      [] x.t = "bool" -> sl_pack_bool(a, x)
      [] x.t = "float" -> sl_pack_float(a, x)
      [] x.t = "nil" -> sl_pack_nil(a)
      [] x.t = "date" -> sl_pack_date(a, x)
      [] x.t = "uuid" -> sl_pack_uuid(a, x)
      [] x.t = "cnids" -> sl_pack_CNID(a, x)

sl_pack_loop(a, xs) == IF xs = <<>> \/ a.ok = 0 THEN a
                       ELSE sl_pack_loop(sl_pack_one(a, Head(xs)), Tail(xs))

\* The whole message: magic, lengths, words and table; <<>> for a failure.
sl_pack_len(xs, room) ==
    LET a == sl_pack_loop([buf |-> <<>>, toc |-> <<>>, room |-> room - 2, ok |-> 1], xs)
        len == Len(a.buf)
        toc == Len(a.toc) + 1
        head == <<Raw(<<432130>>), Word("raw", 0, <<len + 1 + toc, len + 1>>)>>
    IN  IF room <= 2 \/ a.ok = 0 \/ 2 + len + toc >= room THEN <<>>
        ELSE head \o a.buf \o <<sl_pack_tag("toc", toc, 0)>> \o a.toc

(***************************************************************************)
(* Unpacking.  off counts words from 0 in the part after the head; the     *)
(* result is the values read, the offset behind them, and whether it went  *)
(* well.                                                                   *)
(***************************************************************************)
Bad == [xs |-> <<>>, off |-> 0, ok |-> 0]
Good(xs, off) == [xs |-> xs, off |-> off, ok |-> 1]

sl_unpack_range_valid(m, off, len) == off >= 0 /\ off + len <= Len(m.buf)
At(m, off) == m.buf[off + 1]

\* sl_unpack_ints, sl_unpack_floats, sl_unpack_date and sl_unpack_uuid: the
\* tag at off counts the elements, each of size words.
sl_unpack_count(m, off, size) ==
    LET tag == At(m, off) IN IF tag.v[1] > (tag.n - 1) \div size THEN -1 ELSE tag.v[1]

Elements(m, off, type, size, read(_)) ==
    [i \in 1..sl_unpack_count(m, off, size) |-> Value(type, read(off + 1 + (i - 1) * size), <<>>)]

sl_unpack_CNID(m, off, len) ==
    LET tag == At(m, off)
        ids == [i \in 1..tag.n |-> At(m, off + i).v[1]]
    IN  IF len <= 2 THEN Good(<<Value("cnids", <<0>>, <<>>)>>, off)
        ELSE IF ~sl_unpack_range_valid(m, off, len - 1) \/ tag.n = 0 \/ tag.n > len - 2 THEN Bad
        ELSE Good(<<Value("cnids", <<tag.v[1]>> \o ids, <<>>)>>, off)

UnpackString(m, off) ==
    LET tag == At(m, off)
        len == (tag.n - 2) * 8 + tag.v[1]
        bytes == FlattenSeq([i \in 1..(tag.n - 1) |-> At(m, off + i).v])
    IN  IF tag.v[1] > 8 \/ tag.n <= 1 \/ ~sl_unpack_range_valid(m, off, tag.n)
           \/ len < 0 \/ (off + 1) * 8 + len > m.toc * 8
        THEN Bad
        ELSE Good(<<Value("string", SubSeq(bytes, 1, len), <<>>)>>, off + tag.n)

RECURSIVE sl_unpack_loop(_, _, _, _), sl_unpack_r(_, _)

\* A complex value whose entry in the table is e.
sl_unpack_cpx(m, off, e, depth) ==
    LET inner == sl_unpack_loop(m, off, e.v[1], depth + 1)
        tag == At(m, off)
        ids == sl_unpack_CNID(m, off + 1, tag.n)
        meta == sl_unpack_r(SubSeq(m.buf, off + 2, off + tag.n), depth + 1)
        type == IF e.k = "ARRAY" THEN "array" ELSE "dict"
    IN  IF depth >= MqDepth THEN Bad
        ELSE IF e.k \in {"ARRAY", "DICT"}
        THEN IF inner.ok = 0 THEN Bad ELSE Good(<<Value(type, <<>>, inner.xs)>>, inner.off)
        ELSE IF ~sl_unpack_range_valid(m, off, 1) THEN Bad
        ELSE IF e.k = "STRING" THEN UnpackString(m, off)
        ELSE IF tag.n < 1 \/ ~sl_unpack_range_valid(m, off, tag.n) THEN Bad
        ELSE IF e.k = "CNIDS" THEN IF ids.ok = 0 THEN Bad ELSE Good(ids.xs, off + tag.n)
        ELSE IF e.k # "FILEMETA" THEN Bad
        ELSE IF tag.n = 1 THEN Good(<<Value("filemeta", <<>>, <<>>)>>, off + 1)
        ELSE IF meta.ok = 0 THEN Bad
        ELSE Good(<<Value("filemeta", <<>>, meta.xs)>>, off + tag.n)

\* The values of the one tag at off.
UnpackOne(m, off, depth) ==
    LET tag == At(m, off)
        raw(o) == At(m, o).v
        plain(xs) == Good(xs, off + tag.n)
        many(type, size, read(_)) == IF sl_unpack_count(m, off, size) < 0 THEN Bad
                                     ELSE plain(Elements(m, off, type, size, read))
    IN  IF tag.n = 0 \/ ~sl_unpack_range_valid(m, off, tag.n) THEN Bad
        ELSE CASE tag.k = "complex" ->
                    IF tag.v[1] = 0 \/ tag.v[1] > m.tocs
                       \/ ~sl_unpack_range_valid(m, m.toc + tag.v[1] - 1, 1) THEN Bad
                    ELSE sl_unpack_cpx(m, off + 1, At(m, m.toc + tag.v[1] - 1), depth + 1)
               [] tag.k = "null" ->
                    IF tag.v[1] > 64 THEN Bad
                    ELSE plain([i \in 1..tag.v[1] |-> Value("nil", <<>>, <<>>)])
               [] tag.k = "bool" -> plain(<<Value("bool", tag.v, <<>>)>>)
               [] tag.k = "int64" -> many("int", 1, raw)
               [] tag.k = "float" -> many("float", 1, raw)
               [] tag.k = "date" -> many("date", 1, LAMBDA o : <<raw(o)[1] + MqDelta>>)
               [] tag.k = "uuid" -> many("uuid", 2, LAMBDA o : raw(o) \o raw(o + 1))
               [] OTHER -> Bad

\* count values, or as many as stand before the table of contents.
sl_unpack_loop(m, off, count, depth) ==
    IF depth >= MqDepth THEN Bad
    ELSE IF count = 0 \/ off >= m.toc THEN Good(<<>>, off)
    ELSE LET one == UnpackOne(m, off, depth)
             rest == sl_unpack_loop(m, one.off, count - Len(one.xs), depth)
         IN  IF one.ok = 0 \/ Len(one.xs) > count THEN Bad
             ELSE IF rest.ok = 0 THEN Bad
             ELSE Good(one.xs \o rest.xs, rest.off)

\* A message holds one value.
sl_unpack_r(words, depth) ==
    LET body == SubSeq(words, 3, Len(words))
        toc == words[2].v[2] - 1
        tag == body[toc + 1]
        m == [buf |-> body, toc |-> toc + 1, tocs |-> tag.n - 1]
    IN  IF Len(words) < 2 THEN Bad
        ELSE IF toc + 1 > Len(body) THEN Bad
        ELSE IF tag.k # "toc" \/ tag.n = 0 THEN Bad
        ELSE IF tag.n - 1 > Len(body) - (toc + 1) THEN Bad
        ELSE sl_unpack_loop(m, 0, 1, depth)

(***************************************************************************)
(* A reply on its way: packed by the server, unpacked by the client.       *)
(***************************************************************************)
MqInit == \E x \in MqValues, r \in MqRooms : mq = [at |-> "made", x |-> x, room |-> r, wire |-> <<>>,
                                                   got |-> Bad]
sl_pack_reply == mq.at = "made" /\ mq' = [mq EXCEPT !.at = "packed", !.wire = sl_pack_len(<<mq.x>>, mq.room)]
sl_unpack ==
    /\ mq.at = "packed" /\ mq.wire # <<>>
    /\ mq' = [mq EXCEPT !.at = "read", !.got = sl_unpack_r(mq.wire, 0)]

MqNext == sl_pack_reply \/ sl_unpack
MqSpec == MqInit /\ [][MqNext]_mqVars

RECURSIVE Meant(_)
\* What a value stands for: file metadata without content is empty, and an
\* empty ID set has no context.
Meant(x) ==
    IF x.t = "filemeta" /\ x.e = <<Value("array", <<>>, <<>>)>> THEN Value("filemeta", <<>>, <<>>)
    ELSE IF x.t = "cnids" /\ Len(x.v) = 1 THEN Value("cnids", <<0>>, <<>>)
    ELSE [x EXCEPT !.e = [i \in 1..Len(x.e) |-> Meant(x.e[i])]]

\* A reply that sl_pack could pack is read back by sl_unpack as the value it
\* was made from, whatever values it nests and however tight the buffer: the
\* sizes, the numbers into the table of contents and the nested messages of
\* file metadata agree on both sides.
RoundTrip == mq.at = "read" => mq.got.ok = 1 /\ mq.got.xs = <<Meant(mq.x)>>

-----------------------------------------------------------------------------
(***************************************************************************)
(* The index of the xapian search backend: the file events and the first   *)
(* query of a session (etc/spotlight/xapian/sl_xapian.c) on the database   *)
(* all sessions of a volume share (xapian_wrapper.cc).                     *)
(*                                                                         *)
(* A path is a sequence of names, and the file system maps it to the       *)
(* version of what is there, 0 for nothing.  A document has the version it *)
(* was made from and the generation of the walk that made it.  lock is the *)
(* session that has the database open for writing; libxapian (external)    *)
(* refuses a second writer at once.  A walk of the volume works on a       *)
(* transaction nobody else sees.                                           *)
(***************************************************************************)
CONSTANTS XiSessions,     \* AFP sessions, positive integers
          XiDirs,         \* names of folders in the volume's root
          XiFiles,        \* names of files
          XiConfigs       \* the scenarios

VARIABLE xi

xiVars == <<xi>>

Paths == {<<d>> : d \in XiDirs} \cup {<<f>> : f \in XiFiles}
             \cup {<<d, f>> : d \in XiDirs, f \in XiFiles}
IsDir(p) == Len(p) = 1 /\ p[1] \in XiDirs
Below(p, d) == p = d \/ d = <<>> \/ (Len(p) = 2 /\ Len(d) = 1 /\ p[1] = d[1])
Children(t, d) == {p \in Paths : t[p] # 0 /\ Len(p) = Len(d) + 1 /\ Below(p, d)}

NoDoc == [v |-> 0, g |-> 0]
NoEvent == [kind |-> "none", path |-> <<>>, old |-> <<>>, v |-> 0]
NoWork == [pc |-> "idle", ev |-> NoEvent, tx |-> <<>>, todo |-> {}, gen |-> 0]

XiSpend(s, what) == [s EXCEPT !.cf[what] = @ - 1]

\* Session n is done with its request, or goes on at pc.
Idle(s, n) == [s EXCEPT !.ses[n].w = NoWork]
Goes(s, n, pc) == [s EXCEPT !.ses[n].w.pc = pc]

(***************************************************************************)
(* Documents.                                                              *)
(***************************************************************************)
upsert_document(docs, t, p, gen) == [docs EXCEPT ![p] = [v |-> t[p], g |-> gen]]
delete_prefix_documents(docs, d) == [p \in Paths |-> IF Below(p, d) THEN NoDoc ELSE docs[p]]
delete_stale_documents(docs, gen) == [p \in Paths |-> IF docs[p].g # gen THEN NoDoc ELSE docs[p]]
preserve_existing_documents(docs, d, gen) ==
    [p \in Paths |-> IF Below(p, d) /\ docs[p].v # 0 THEN [docs[p] EXCEPT !.g = gen] ELSE docs[p]]

index_metadata_valid(m) == m.done # 0 /\ m.dirty = 0
set_complete_metadata(gen) == [done |-> gen, dirty |-> 0]
next_generation_id(m) == m.done + 1

\* The database open for writing: another writer or a failure refuses it.
CanWrite(s, n) == s.lock \in {0, n}

(***************************************************************************)
(* The changes that a failed update makes.                                 *)
(***************************************************************************)
\* Forgetting only in this session that the index is stale.
sl_xapian_mark_dirty_not(s, n) == s

sl_xapian_mark_dirty(s, n) == IF CanWrite(s, n) THEN [s EXCEPT !.meta.dirty = 1] ELSE s

\* The update of session n failed: the session forgets that the index was
\* checked and marks it, if it can.
UpdateFailed(s, n) ==
    LET s1 == [Idle(s, n) EXCEPT !.ses[n].seeded = 0, !.ses[n].owe = 1]
    IN  sl_xapian_mark_dirty(s1, n)

(***************************************************************************)
(* Requests of a session: a change, then its event.                        *)
(***************************************************************************)
Live(n) == xi.ses[n].alive = 1
XiAt(n, pc) == Live(n) /\ xi.ses[n].w.pc = pc
Ready(n) == XiAt(n, "idle") /\ xi.cf.reqs > 0

Exists(p) == IF p = <<>> THEN TRUE ELSE xi.tree[p] # 0
Parent(p) == SubSeq(p, 1, Len(p) - 1)

\* The request changed the file system and calls sl_index_event.
Changed(n, tree, kind, p, old) ==
    xi' = [XiSpend(xi, "reqs") EXCEPT !.tree = tree, !.ses[n].w.pc = "event",
               !.ses[n].w.ev = [kind |-> kind, path |-> p, old |-> old, v |-> 0]]

Create(n) ==
    \E p \in Paths : Ready(n) /\ ~Exists(p) /\ Exists(Parent(p))
                     /\ Changed(n, [xi.tree EXCEPT ![p] = 1], "upsert", p, <<>>)

Modify(n) ==
    \E p \in Paths : Ready(n) /\ Exists(p) /\ ~IsDir(p)
                     /\ Changed(n, [xi.tree EXCEPT ![p] = 3 - @], "upsert", p, <<>>)

Delete(n) ==
    \E p \in Paths : Ready(n) /\ Exists(p) /\ Children(xi.tree, p) = {}
                     /\ Changed(n, [xi.tree EXCEPT ![p] = 0],
                                IF IsDir(p) THEN "prefix" ELSE "delete", p, <<>>)

\* A folder takes its files with it.
Move(n) ==
    \E p \in Paths, q \in Paths :
        /\ Ready(n) /\ Exists(p) /\ ~Exists(q) /\ Exists(Parent(q)) /\ IsDir(p) = IsDir(q)
        /\ LET moved == {r \in Paths : Below(r, p)}
               to(r) == q \o SubSeq(r, Len(p) + 1, Len(r))
               tree == [r \in Paths |->
                          IF \E x \in moved : to(x) = r
                          THEN xi.tree[CHOOSE x \in moved : to(x) = r]
                          ELSE IF r \in moved THEN 0 ELSE xi.tree[r]]
           IN  Changed(n, tree, IF IsDir(p) THEN "reindex" ELSE "move", q, p)

(***************************************************************************)
(* The event: sl_xapian_index_event.                                       *)
(***************************************************************************)
\* An update of the documents that needs the database, and may fail.
Update(n, done) ==
    \/ CanWrite(xi, n) /\ xi' = done
    \/ ~CanWrite(xi, n) /\ xi' = UpdateFailed(xi, n)
    \/ xi.cf.fails > 0 /\ xi' = UpdateFailed(XiSpend(xi, "fails"), n)

\* sl_xapian_upsert_path looks at the file before it opens the database.
UpsertLooks(n) ==
    /\ XiAt(n, "event") \/ XiAt(n, "upsert")
    /\ xi.ses[n].w.pc = "event" => xi.ses[n].w.ev.kind = "upsert"
    /\ LET v == xi.tree[xi.ses[n].w.ev.path]
       IN  xi' = [Goes(xi, n, IF v = 0 THEN "drop" ELSE "write") EXCEPT !.ses[n].w.ev.v = v]

sl_xapian_upsert_path(n) ==
    LET ev == xi.ses[n].w.ev
    IN  XiAt(n, "write")
        /\ Update(n, Idle([xi EXCEPT !.docs[ev.path] = [v |-> ev.v, g |-> 0]], n))

\* A file deleted, or gone when the upsert looked.
sl_xapian_delete_path(n) ==
    /\ XiAt(n, "drop") \/ (XiAt(n, "event") /\ xi.ses[n].w.ev.kind = "delete")
    /\ Update(n, Idle([xi EXCEPT !.docs[xi.ses[n].w.ev.path] = NoDoc], n))

\* A file moved: the old path is dropped first.
MoveDrops(n) ==
    /\ XiAt(n, "event") /\ xi.ses[n].w.ev.kind = "move"
    /\ Update(n, Goes([xi EXCEPT !.docs[xi.ses[n].w.ev.old] = NoDoc], n, "upsert"))

sl_xapian_delete_prefix(n) ==
    /\ XiAt(n, "event") /\ xi.ses[n].w.ev.kind = "prefix"
    /\ Update(n, Idle([xi EXCEPT !.docs = delete_prefix_documents(@, xi.ses[n].w.ev.path)], n))

\* A folder moved: in one transaction its documents go and a walk adds them
\* under the new path.
sl_xapian_reindex_subtree(n) ==
    LET ev == xi.ses[n].w.ev
        gone == delete_prefix_documents(xi.docs, ev.old)
        there == xi.tree[ev.path] # 0
    IN  /\ XiAt(n, "event") /\ ev.kind = "reindex"
        /\ IF there
           THEN Update(n, [xi EXCEPT !.lock = n, !.ses[n].w.pc = "reindex",
                               !.ses[n].w.tx = upsert_document(gone, xi.tree, ev.path, xi.meta.done),
                               !.ses[n].w.todo = {ev.path}, !.ses[n].w.gen = xi.meta.done])
           ELSE xi' = UpdateFailed(xi, n)

(***************************************************************************)
(* Walks.                                                                  *)
(***************************************************************************)
\* One folder: its entries become documents and its folders are still to be
\* walked.  walk_volume keeps the documents of a folder it cannot read.
WalkStep(n) ==
    LET w == xi.ses[n].w
        d == CHOOSE x \in w.todo : TRUE
        kids == Children(xi.tree, d)
        tx == [p \in Paths |-> IF p \in kids THEN [v |-> xi.tree[p], g |-> w.gen] ELSE w.tx[p]]
    IN  /\ XiAt(n, "reindex") \/ XiAt(n, "reconcile")
        /\ w.todo # {}
        /\ \/ xi' = [xi EXCEPT !.ses[n].w.tx = tx,
                               !.ses[n].w.todo = (@ \ {d}) \cup {p \in kids : IsDir(p)}]
           \/ /\ xi.cf.blind > 0 /\ w.pc = "reconcile"
              /\ xi' = [XiSpend(xi, "blind") EXCEPT
                            !.ses[n].w.tx = preserve_existing_documents(w.tx, d, w.gen),
                            !.ses[n].w.todo = @ \ {d}, !.hid = @ \cup {d}]
           \/ /\ xi.cf.blind > 0 /\ w.pc = "reindex"
              /\ xi' = [UpdateFailed(XiSpend(xi, "blind"), n) EXCEPT !.lock = 0]

WalkCommits(n) ==
    LET w == xi.ses[n].w
    IN  /\ XiAt(n, "reindex") \/ XiAt(n, "reconcile")
        /\ w.todo = {}
        /\ xi' = IF w.pc = "reindex" THEN [Idle(xi, n) EXCEPT !.docs = w.tx, !.lock = 0]
                 ELSE [Idle(xi, n) EXCEPT !.docs = delete_stale_documents(w.tx, w.gen),
                                          !.meta = set_complete_metadata(w.gen), !.lock = 0,
                                          !.ses[n].seeded = 1, !.ses[n].owe = 0]

\* The walk or its commit throws: the transaction is dropped.
WalkFails(n) ==
    /\ xi.cf.fails > 0
    /\ XiAt(n, "reindex") \/ XiAt(n, "reconcile")
    /\ LET s == [XiSpend(xi, "fails") EXCEPT !.lock = 0]
       IN  xi' = IF xi.ses[n].w.pc = "reindex" THEN UpdateFailed(s, n) ELSE Idle(s, n)

(***************************************************************************)
(* Queries: sl_xapian_ensure_seeded.                                       *)
(***************************************************************************)
\* The first query of a session, and the first after a failed update, checks
\* the index and walks the volume when it is not ready.  While another session
\* writes, the query fails.
sl_xapian_ensure_seeded(n) ==
    /\ Ready(n) /\ xi.ses[n].seeded = 0
    /\ LET s == XiSpend(xi, "reqs")
           gen == next_generation_id(xi.meta)
       IN  IF index_metadata_valid(xi.meta) THEN xi' = [s EXCEPT !.ses[n].seeded = 1]
           ELSE xi' = IF ~CanWrite(xi, n) THEN s
                      ELSE [s EXCEPT !.lock = n,
                              !.ses[n].w = [NoWork EXCEPT !.pc = "reconcile", !.tx = xi.docs,
                                                          !.todo = {<<>>}, !.gen = gen]]

(***************************************************************************)
(* Sessions come and go; one that dies drops its lock and its transaction. *)
(***************************************************************************)
XiLogin(n) ==
    /\ ~Live(n) /\ Cardinality({m \in XiSessions : Live(m)}) < xi.cf.atonce
    /\ xi.cf.logins > 0
    /\ xi' = [XiSpend(xi, "logins") EXCEPT !.ses[n].alive = 1]

XiLogout(n) ==
    /\ XiAt(n, "idle")
    /\ xi' = [xi EXCEPT !.ses[n] = [alive |-> 0, seeded |-> 0, owe |-> 0, w |-> NoWork]]

XiDies(n) ==
    /\ xi.cf.deaths > 0 /\ Live(n) /\ xi.ses[n].w.pc # "idle"
    /\ xi' = [XiSpend(xi, "deaths") EXCEPT
                  !.ses[n] = [alive |-> 0, seeded |-> 0, owe |-> 0, w |-> NoWork],
                  !.lock = IF @ = n THEN 0 ELSE @,
                  !.torn = IF xi.ses[n].w.pc = "reconcile" THEN @ ELSE 1]

XiInit ==
    \E c \in XiConfigs :
        xi = [cf |-> c, tree |-> [p \in Paths |-> IF p \in c.files THEN 1 ELSE 0],
              docs |-> [p \in Paths |-> NoDoc], meta |-> [done |-> 0, dirty |-> 0], lock |-> 0,
              ses |-> [n \in XiSessions |-> [alive |-> 0, seeded |-> 0, owe |-> 0, w |-> NoWork]],
              torn |-> 0, hid |-> {}]

XiNext ==
    \E n \in XiSessions :
        \/ Create(n) \/ Modify(n) \/ Delete(n) \/ Move(n)
        \/ UpsertLooks(n) \/ sl_xapian_upsert_path(n) \/ sl_xapian_delete_path(n)
        \/ MoveDrops(n) \/ sl_xapian_delete_prefix(n) \/ sl_xapian_reindex_subtree(n)
        \/ WalkStep(n) \/ WalkCommits(n) \/ WalkFails(n)
        \/ sl_xapian_ensure_seeded(n) \/ XiLogin(n) \/ XiLogout(n) \/ XiDies(n)

XiSpec == XiInit /\ [][XiNext]_xiVars

(***************************************************************************)
(* Properties.                                                             *)
(***************************************************************************)
Quiet == \A n \in XiSessions : xi.ses[n].w.pc = "idle"
Unknown == ~index_metadata_valid(xi.meta)

\* Between requests, with one session at a time, the index has the current
\* version of every file, or the next query will walk the volume: neither a
\* failed update, of a move half done among them, nor a walk that failed or
\* was cut short leaves an index that is stale and looks complete.  The
\* exceptions are a session that died between its change and its update (torn)
\* and what is in a folder a walk could not read (hid).
IndexKnown ==
    Quiet /\ xi.torn = 0 =>
        \/ \A p \in Paths : \/ xi.tree[p] = 0 \/ xi.docs[p].v = xi.tree[p]
                            \/ \E d \in xi.hid : Below(p, d)
        \/ Unknown /\ \A n \in XiSessions : xi.ses[n].seeded = 0

=============================================================================
