------------------------------ MODULE MCForks ------------------------------
(***************************************************************************)
(* Open files: byte-range locks as a set of ranges and as the sorted array *)
(* of the code, the forks of a file with their shared descriptors and      *)
(* their metadata, the cache of resource forks, the operations that move,  *)
(* copy and exchange whole files, and extended attributes.  The initial    *)
(* state picks the component that runs; the others rest.                   *)
(***************************************************************************)
EXTENDS RangeLocks, Sequences, Functions, TLC

CONSTANTS MaxEntries,              \* bound: recorded ranges of all processes
          LaProcs, LaForks, LaTop, \* the array of one process, with one more byte
          OfSlots, FcNames, FcForks, FcBytes, FcMaxLen, FcEntryMax, FcBudget,
          FoEas, FoTemps, EaNames, EaOwn, EaCacheNames, EaCacheValues, EaMaxSize

VARIABLES part,
          laForks, laReadonly, laKernel, laArr, laTmp,
          of, fc, fo, ex

FewEntries ==
  /\ SumFunction([p \in Procs |-> Cardinality(entries[p])]) <= MaxEntries
  /\ \A p \in LaProcs : Len(laArr[p]) <= MaxEntries
Symmetric == Permutations(Forks) \cup Permutations(Procs)

L == INSTANCE LockArray WITH
       Procs <- LaProcs, Forks <- LaForks, Top <- LaTop, Base <- LaTop,
       forks <- laForks, readonly <- laReadonly, kernel <- laKernel, arr <- laArr, tmp <- laTmp

(***************************************************************************)
(* Four requests on a file of either AppleDouble version, with and without *)
(* a sidecar, readable and writable or not, with one failing call.         *)
(***************************************************************************)
Ea == [ver |-> "ea", link |-> 0, perm |-> "rw", sperm |-> "rw", side |-> "none",
       meta |-> "none", ro |-> 0, cache |-> 0, rlen |-> 0, fails |-> 1, reqs |-> 4,
       refusals |-> 1, others |-> 0]
Osx == [Ea EXCEPT !.side = "osx"]
Cached == [Ea EXCEPT !.cache = 1, !.side = "good", !.rlen = 1]
V2 == [Ea EXCEPT !.ver = "v2"]
OfConfigs ==
  {Ea, [Osx EXCEPT !.rlen = 1], [Ea EXCEPT !.others = 2, !.fails = 0, !.reqs = 3],
   [Cached EXCEPT !.sperm = "ro"], [Cached EXCEPT !.meta = "own"],
   [Osx EXCEPT !.perm = "ro", !.rlen = 1], [Osx EXCEPT !.link = 1],
   [Osx EXCEPT !.meta = "bad"], [Osx EXCEPT !.ro = 1], [Ea EXCEPT !.side = "empty"],
   V2, [V2 EXCEPT !.link = 1], [V2 EXCEPT !.side = "good"], [V2 EXCEPT !.side = "bad"],
   [V2 EXCEPT !.side = "empty"], [V2 EXCEPT !.side = "good", !.sperm = "ro"],
   [V2 EXCEPT !.side = "empty", !.sperm = "ro", !.perm = "ro"]}
K == INSTANCE OpenForks

(***************************************************************************)
(* The session alone with the file, with siblings, and beside a process    *)
(* outside the server; a file of one name and of two.                      *)
(***************************************************************************)
Quiet == [link |-> 0, strict |-> 0, opens |-> 2, writes |-> 0, evicts |-> 0, others |-> 0,
          foreign |-> 0, ticks |-> 0]
FcConfigs ==
  {[Quiet EXCEPT !.writes = 2, !.evicts = 1],
   [Quiet EXCEPT !.opens = 1, !.others = 3, !.ticks = 1],
   [Quiet EXCEPT !.foreign = 2, !.ticks = 1],
   [Quiet EXCEPT !.link = 1, !.others = 2],
   [Quiet EXCEPT !.link = 1, !.writes = 2],
   [Quiet EXCEPT !.strict = 1, !.writes = 1]}
R == INSTANCE ForkCache

(***************************************************************************)
(* An exchange of two files, and the other operations on one file, with a  *)
(* failing call and a crash.                                               *)
(***************************************************************************)
Exchange == [both |-> 1, v2 |-> 1, ea |-> "none", exdev |-> 0, forks |-> 0, bare |-> {},
             addir |-> {"src", "dst"}, ops |-> {"exchange"}, reqs |-> 1, fails |-> 1, crash |-> 1]
One == [Exchange EXCEPT !.both = 0, !.reqs = 2,
                        !.ops = {"move", "copy", "delete", "link"}]
FoConfigs ==
  {Exchange, [Exchange EXCEPT !.ea = "ad"], [Exchange EXCEPT !.v2 = 0, !.ea = "sys"],
   [Exchange EXCEPT !.bare = {"A"}],
   [Exchange EXCEPT !.v2 = 0, !.ea = "sys", !.bare = {"A", "B"}, !.fails = 2],
   One, [One EXCEPT !.ea = "ad"], [One EXCEPT !.ea = "sys", !.v2 = 0], [One EXCEPT !.exdev = 1],
   [One EXCEPT !.exdev = 1, !.ea = "ad"], [One EXCEPT !.exdev = 1, !.forks = 1],
   [One EXCEPT !.ea = "ad", !.bare = {"A"}, !.addir = {"src"}]}
O == INSTANCE FileOps

(***************************************************************************)
(* Attributes of the file system and of AppleDouble files, with short and  *)
(* long values, a coarse clock, failing calls and other writers.           *)
(***************************************************************************)
EaValues == {[b |-> "v", len |-> 1], [b |-> "w", len |-> 2], [b |-> "big", len |-> 3]}
Sys == [kind |-> "sys", ver |-> 34, busy |-> 0, fails |-> 0, shared |-> 0, coarse |-> 0,
        alone |-> 0, reqs |-> 3]
Ad == [Sys EXCEPT !.kind = "ad", !.busy = 1]
EaConfigs == {Sys, [Sys EXCEPT !.coarse = 1, !.reqs = 4], Ad,
              [Ad EXCEPT !.fails = 2, !.alone = 1, !.reqs = 4],
              [Sys EXCEPT !.fails = 1, !.ver = 33], [Sys EXCEPT !.shared = 1]}
X == INSTANCE ExtAttr

laVars == <<laForks, laReadonly, laKernel, laArr, laTmp>>
all == <<part, vars, laVars, of, fc, fo, ex>>

MCInit ==
  /\ part \in {"ranges", "array", "open", "rforks", "files", "attributes"}
  /\ Init /\ L!Init
  /\ IF part = "open" THEN K!OfInit ELSE of = <<>>
  /\ IF part = "rforks" THEN R!FcInit ELSE fc = <<>>
  /\ IF part = "files" THEN O!FoInit ELSE fo = <<>>
  /\ IF part = "attributes" THEN X!ExInit ELSE ex = <<>>

RangesStep == part = "ranges" /\ Next /\ UNCHANGED <<part, laVars, of, fc, fo, ex>>
ArrayStep == part = "array" /\ L!Next /\ UNCHANGED <<part, vars, of, fc, fo, ex>>
OpenStep == part = "open" /\ K!OfNext /\ UNCHANGED <<part, vars, laVars, fc, fo, ex>>
RforksStep == part = "rforks" /\ R!FcNext /\ UNCHANGED <<part, vars, laVars, of, fo, ex>>
FilesStep == part = "files" /\ O!FoNext /\ UNCHANGED <<part, vars, laVars, of, fc, ex>>
AttributesStep == part = "attributes" /\ X!ExNext /\ UNCHANGED <<part, vars, laVars, of, fc, fo>>

\* These end with the requests of their configuration; locks never do.
Over == part \notin {"ranges", "array", "rforks"} /\ UNCHANGED all

MCNext == \/ RangesStep \/ ArrayStep \/ OpenStep \/ RforksStep \/ FilesStep \/ AttributesStep
          \/ Over

MCSpec == MCInit /\ [][MCNext]_all

-----------------------------------------------------------------------------
(* Properties, beside those of RangeLocks *)

(* The sorted array with its two binary searches does what the set of ranges
   does (LockArray: Implements). *)
ArrayImplements ==
  /\ L!Abstract!Init
  /\ [][part = "array" => [L!Abstract!Next]_(L!Abstract!vars)]_laVars

(* The array is in order and a search reports exactly the entries that share a
   byte with the range asked for (LockArray: ArrayOrdered, SearchExact;
   adf_lock_search, adf_lock_gaps). *)
ArraySearches == part = "array" => L!ArrayOrdered /\ L!SearchExact

(* Reference counts match the open forks, neither Finder info nor a sidecar is
   lost by opens, conversions, failures and closes, and what the resource-fork
   cache serves is in the file (OpenForks: RefsExact, FinderInfoMoved, SidecarKept;
   ForkCache: RforkServed, RforkAccounted; openfork_err, ad_convert_osx,
   rfork_cache_load, rfork_cache_free). *)
ForksSound ==
  /\ part = "open" => K!OfTypeOK /\ K!RefsExact /\ K!FinderInfoMoved /\ K!SidecarKept
  /\ part = "rforks" => R!FcTypeOK /\ R!RforkServed /\ R!RforkAccounted

(* No operation on files loses a fork, whatever call fails and wherever the
   process ends, a failed one is undone, and an extended attribute is answered as
   it is stored, through the cache of names and values (FileOps: FilesKept,
   AllOrNothing; ExtAttr: EaServed; exchange_files, renamefile, copyfile,
   ea_written, sys_get_easize). *)
FilesSound ==
  /\ part = "files" => O!FoTypeOK /\ O!FilesKept /\ O!AllOrNothing
  /\ part = "attributes" => X!ExTypeOK /\ X!EaServed
=============================================================================
