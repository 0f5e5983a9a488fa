SPECIFICATION Spec
CONSTANTS
  Requests = {r1, r2, r3}
  Series = {invoice, proforma}
  MaxAttempts = 3
  MaxSeq = 2
  NoRequest = NoRequest
  NoNumber = NoNumber
SYMMETRY Symmetry
INVARIANTS TypeOK AtMostOneRetry GapsAreDeletedDrafts NotesAreAboutDocuments LogIsLostOnlyBetweenCommits
CHECK_DEADLOCK FALSE \* all numbers up to the bound MaxSeq are issued
