SPECIFICATION MCSpec
CONSTANTS
 Procs = {p1, p2}
 Forks = {f1, f2}
 Top = 1
 Base = 1
 MaxEntries = 2
 LaProcs = {"p1"}
 LaForks = {"f1", "f2"}
 LaTop = 3
 OfSlots = {1, 2, 3}
 FcNames = {"f", "g"}
 FcForks = {1, 2}
 FcBytes = {"a", "b"}
 FcMaxLen = 2
 FcEntryMax = 2
 FcBudget = 3
 FoEas = {"x", "y"}
 FoTemps = {"t", "u"}
 EaNames = {"x", "y", "own"}
 EaOwn = {"own"}
 EaCacheNames = 2
 EaCacheValues = 3
 EaMaxSize = 3
CONSTRAINT FewEntries
SYMMETRY Symmetric
INVARIANTS KernelIsRecorded ForksExclusive StrictWrite ArraySearches ForksSound 
PROPERTY ArrayImplements
