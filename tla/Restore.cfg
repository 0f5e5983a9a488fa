SPECIFICATION Spec
CONSTANTS
  Photos = {p1, p2}
  MaxFaults = 1
  MaxCrashes = 2
  None = None
INVARIANTS ServedWhole NothingLeftBehind
PROPERTIES RefinesAtomicRestore JournalIsSettled
