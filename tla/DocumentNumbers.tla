-------------------------- MODULE DocumentNumbers --------------------------
(***************************************************************************)
(* How a document (invoice, proforma, credit note, quote) of one account   *)
(* gets its number.  A handler computes the next number of a series from   *)
(* what is committed, and only later commits the new document under the    *)
(* account's number lock; the UNIQUE column catches two handlers that      *)
(* computed the same number, and the loser rolls back, computes a new      *)
(* number and tries again (invoice_utils.commit_with_number_retry).        *)
(* Deleting a draft takes no lock.  The row of the audit log that records  *)
(* the creation is committed by itself, after the document.                *)
(* The integrity check reports the numbers missing from a series, and the  *)
(* user acknowledges one by one that he looked into them.                  *)
(***************************************************************************)
EXTENDS Naturals, FiniteSets

CONSTANTS
  Requests,     \* handlers that may be creating a document at one time
  Series,       \* number series (prefixes): "RRRR", "ZFRRRR", "DPRRRR", ...
  MaxAttempts,  \* MAX_NUMBER_RETRY_ATTEMPTS
  MaxSeq,       \* bound of the model: no number beyond this one is handed out
  NoRequest,    \* the lock is free
  NoNumber      \* the handler has computed no number yet

ASSUME NumberingAssumption ==
  /\ MaxAttempts \in Nat \ {0, 1}
  /\ MaxSeq \in Nat
  /\ NoRequest \notin Requests
  /\ NoNumber \notin [ser : Series, seq : Nat \ {0}]

VARIABLES
  drafts,    \* numbers of the committed documents in the draft status
  issued,    \* numbers of the other committed documents
  unlogged,  \* committed documents whose creation row is not in the audit log
  lost,      \* history: those of unlogged whose handler ended between its commits
  everUsed,  \* history: every number some document was ever committed with
  noted,     \* numbers with an "integrity.gap_acknowledged" row in the audit log
  checked,   \* the number the acknowledging handler has found missing
  lock,      \* the handler inside _number_lock_for(db)
  pc,        \* where each handler is
  num,       \* the number each handler has put on its new document
  attempt    \* the loop variable of commit_with_number_retry

log == <<unlogged, lost>>
gaps == <<noted, checked>>
vars == <<drafts, issued, log, everUsed, gaps, lock, pc, num, attempt>>

Number == [ser : Series, seq : Nat \ {0}]

Docs == drafts \union issued

(* The handler holds the number lock in these places.                      *)
InLock == {"saving", "rolledBack"}

(* The sequence numbers in use in series s.                                *)
Used(s) == {d.seq : d \in {e \in Docs : e.ser = s}}

(* Mutation of NextSeq: the empty series starts one too high.              *)
NextSeq_StartsAtTwo(s) ==
  {n \in {2} \union {m + 1 : m \in Used(s)} :
     n <= MaxSeq /\ \A m \in Used(s) : m < n}

(* The value of next_*_number: one more than the largest suffix in use, or *)
(* one.  A set of one element, written without a maximum; empty beyond the *)
(* bound of the model.                                                     *)
NextSeq(s) ==
  {n \in {1} \union {m + 1 : m \in Used(s)} :
     n <= MaxSeq /\ \A m \in Used(s) : m < n}

Init ==
  /\ drafts = {}
  /\ issued = {}
  /\ unlogged = {}
  /\ lost = {}
  /\ everUsed = {}
  /\ noted = {}
  /\ checked = NoNumber
  /\ lock = NoRequest
  /\ pc = [r \in Requests |-> "idle"]
  /\ num = [r \in Requests |-> NoNumber]
  /\ attempt = [r \in Requests |-> 0]

(* A creating handler validates its form and numbers the new object; no    *)
(* lock is held yet.                                                       *)
Begin(r, s) ==
  /\ pc[r] = "idle"
  /\ \E n \in NextSeq(s) : num' = [num EXCEPT ![r] = [ser |-> s, seq |-> n]]
  /\ pc' = [pc EXCEPT ![r] = "numbered"]
  /\ attempt' = [attempt EXCEPT ![r] = 0]
  /\ UNCHANGED <<drafts, issued, log, everUsed, gaps, lock>>

(* Mutation of AcquireLock: the handlers save without excluding each other.*)
AcquireLock_Unlocked(r) ==
  /\ pc[r] = "numbered"
  /\ lock' = r
  /\ pc' = [pc EXCEPT ![r] = "saving"]
  /\ UNCHANGED <<drafts, issued, log, everUsed, gaps, num, attempt>>

(* The handler enters commit_with_number_retry.                            *)
AcquireLock(r) ==
  /\ pc[r] = "numbered"
  /\ lock = NoRequest
  /\ lock' = r
  /\ pc' = [pc EXCEPT ![r] = "saving"]
  /\ UNCHANGED <<drafts, issued, log, everUsed, gaps, num, attempt>>

(* Mutation of CommitDocument: the number column is not UNIQUE.            *)
CommitDocument_NotUnique(r) ==
  /\ pc[r] = "saving"
  /\ drafts' = drafts \union {num[r]}
  /\ unlogged' = unlogged \union {num[r]}
  /\ everUsed' = everUsed \union {num[r]}
  /\ lock' = NoRequest
  /\ pc' = [pc EXCEPT ![r] = "saved"]
  /\ UNCHANGED <<issued, lost, gaps, num, attempt>>

(* db.commit() succeeds: the document is stored and the lock released.     *)
CommitDocument(r) ==
  /\ pc[r] = "saving"
  /\ num[r] \notin Docs
  /\ drafts' = drafts \union {num[r]}
  /\ unlogged' = unlogged \union {num[r]}
  /\ everUsed' = everUsed \union {num[r]}
  /\ lock' = NoRequest
  /\ pc' = [pc EXCEPT ![r] = "saved"]
  /\ UNCHANGED <<issued, lost, gaps, num, attempt>>

(* UNIQUE violation: everything is rolled back.  With attempts left the    *)
(* handler goes round the loop; at the last one the exception leaves it.   *)
RollBack(r) ==
  LET last == attempt[r] = MaxAttempts - 1
  IN /\ pc[r] = "saving"
     /\ num[r] \in Docs
     /\ attempt' = IF last THEN attempt ELSE [attempt EXCEPT ![r] = @ + 1]
     /\ pc' = [pc EXCEPT ![r] = IF last THEN "idle" ELSE "rolledBack"]
     /\ lock' = IF last THEN NoRequest ELSE lock
     /\ num' = IF last THEN [num EXCEPT ![r] = NoNumber] ELSE num
     /\ UNCHANGED <<drafts, issued, log, everUsed, gaps>>

(* regenerate_number() and db.add() before the next attempt.               *)
Regenerate(r) ==
  /\ pc[r] = "rolledBack"
  /\ \E n \in NextSeq(num[r].ser) :
       num' = [num EXCEPT ![r] = [ser |-> num[r].ser, seq |-> n]]
  /\ pc' = [pc EXCEPT ![r] = "saving"]
  /\ UNCHANGED <<drafts, issued, log, everUsed, gaps, lock, attempt>>

(* Mutation of LogCreation: the row is added before the first attempt and  *)
(* rolled back with it.                                                    *)
LogCreation_RolledBack(r) ==
  /\ pc[r] = "saved"
  /\ unlogged' = IF attempt[r] = 0 THEN unlogged \ {num[r]} ELSE unlogged
  /\ pc' = [pc EXCEPT ![r] = "idle"]
  /\ num' = [num EXCEPT ![r] = NoNumber]
  /\ UNCHANGED <<drafts, issued, lost, everUsed, gaps, lock, attempt>>

(* db.refresh() and the second commit, of the audit row.                   *)
LogCreation(r) ==
  /\ pc[r] = "saved"
  /\ unlogged' = unlogged \ {num[r]}
  /\ pc' = [pc EXCEPT ![r] = "idle"]
  /\ num' = [num EXCEPT ![r] = NoNumber]
  /\ UNCHANGED <<drafts, issued, lost, everUsed, gaps, lock, attempt>>

(* Either of the two raises (no space, locked for longer than the busy     *)
(* timeout): the user sees an error, and the document is stored.           *)
LogFails(r) ==
  /\ pc[r] = "saved"
  /\ lost' = lost \union {num[r]}
  /\ pc' = [pc EXCEPT ![r] = "idle"]
  /\ num' = [num EXCEPT ![r] = NoNumber]
  /\ UNCHANGED <<drafts, issued, unlogged, everUsed, gaps, lock, attempt>>

(* Deleting a draft, with its own audit row in the same commit.  A handler *)
(* that has just stored this draft is about to refresh a row that is gone: *)
(* it ends with an exception and logs nothing.                             *)
DeleteDraft(d) ==
  LET refreshFails(r) == pc[r] = "saved" /\ num[r] = d
  IN /\ d \in drafts
     /\ drafts' = drafts \ {d}
     /\ unlogged' = unlogged \ {d}
     /\ lost' = lost \ {d}
     /\ pc' = [r \in Requests |-> IF refreshFails(r) THEN "idle" ELSE pc[r]]
     /\ num' = [r \in Requests |-> IF refreshFails(r) THEN NoNumber ELSE num[r]]
     /\ UNCHANGED <<issued, everUsed, gaps, lock, attempt>>

(* A status change takes the document out of the draft status.             *)
Issue(d) ==
  /\ d \in drafts
  /\ drafts' = drafts \ {d}
  /\ issued' = issued \union {d}
  /\ UNCHANGED <<log, everUsed, gaps, lock, pc, num, attempt>>

(* Mutation of Gap: the report goes one number too far.                    *)
Gap_PastTheEnd(d) == d \notin Docs /\ d.seq - 1 \in Used(d.ser)

(* A number find_number_gaps reports: it is missing below the largest one  *)
(* of its series.                                                          *)
Gap(d) == d \notin Docs /\ \E m \in Used(d.ser) : d.seq < m

(* acknowledge_number_gap finds the number among the open gaps ...         *)
CheckGap(d) ==
  /\ checked = NoNumber
  /\ Gap(d)
  /\ d \notin noted
  /\ checked' = d
  /\ UNCHANGED <<drafts, issued, log, everUsed, noted, lock, pc, num, attempt>>

(* ... and commits the note, whatever happened to the series meanwhile.    *)
AcknowledgeGap ==
  /\ checked # NoNumber
  /\ noted' = noted \union {checked}
  /\ checked' = NoNumber
  /\ UNCHANGED <<drafts, issued, log, everUsed, lock, pc, num, attempt>>

(* The process dies and starts again: what is committed stays.             *)
Crash ==
  /\ checked # NoNumber \/ \E r \in Requests : pc[r] # "idle"
  /\ lost' = unlogged
  /\ checked' = NoNumber
  /\ lock' = NoRequest
  /\ pc' = [r \in Requests |-> "idle"]
  /\ num' = [r \in Requests |-> NoNumber]
  /\ attempt' = [r \in Requests |-> 0]
  /\ UNCHANGED <<drafts, issued, unlogged, everUsed, noted>>

Next ==
  \/ \E r \in Requests, s \in Series : Begin(r, s)
  \/ \E r \in Requests :
       \/ AcquireLock(r)
       \/ CommitDocument(r)
       \/ RollBack(r)
       \/ Regenerate(r)
       \/ LogCreation(r)
       \/ LogFails(r)
  \/ \E d \in drafts : DeleteDraft(d) \/ Issue(d)
  \/ \E s \in Series, n \in 1 .. MaxSeq : CheckGap([ser |-> s, seq |-> n])
  \/ AcknowledgeGap
  \/ Crash

Spec == Init /\ [][Next]_vars

-----------------------------------------------------------------------------

(* The variables have their types; a document is a draft or issued, never  *)
(* both, which is what the UNIQUE number column is for.                    *)
TypeOK ==
  /\ drafts \subseteq Number
  /\ issued \subseteq Number
  /\ drafts \intersect issued = {}
  /\ unlogged \subseteq Docs
  /\ lost \subseteq Number
  /\ everUsed \subseteq Number
  /\ noted \subseteq Number
  /\ checked \in Number \union {NoNumber}
  /\ lock \in Requests \union {NoRequest}
  /\ pc \in [Requests -> {"idle", "numbered", "saving", "rolledBack", "saved"}]
  /\ num \in [Requests -> Number \union {NoNumber}]
  /\ attempt \in [Requests -> 0 .. MaxAttempts - 1]

(* "stačí najviac jeden opakovaný pokus" (invoice_utils.py:557): however   *)
(* many handlers computed the same number, and whatever drafts are deleted *)
(* meanwhile, a handler rolls back at most once, so none is refused.       *)
AtMostOneRetry == \A r \in Requests : attempt[r] <= 1

(* The series has no hole that was never a document: below every number    *)
(* ever committed, all were committed too.  A number missing from the      *)
(* series is therefore one whose draft was deleted, which is what the      *)
(* integrity check tells the user (integrity_check.py:55).                 *)
GapsAreDeletedDrafts ==
  \A d \in everUsed : \A n \in 1 .. d.seq - 1 : [ser |-> d.ser, seq |-> n] \in everUsed

(* What the user noted about a missing number is about a document that     *)
(* once was: the report he answers (acknowledge_number_gap) was made before *)
(* the note is stored, and meanwhile the series may shrink and grow again. *)
NotesAreAboutDocuments == noted \subseteq everUsed

(* The creation row of a document is missing from the audit log only while *)
(* its handler is between its two commits, or when the handler ended there,*)
(* with the process or with an exception of its own.  (audit_log.py:4-9    *)
(* promises more: the same transaction.)  Neither the roll back of a retry *)
(* nor a number that is given out again costs a row.                       *)
LogIsLostOnlyBetweenCommits ==
  \A d \in unlogged : d \in lost \/ \E r \in Requests : pc[r] = "saved" /\ num[r] = d
=============================================================================
