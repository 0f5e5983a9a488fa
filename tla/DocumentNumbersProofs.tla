----------------------- MODULE DocumentNumbersProofs -----------------------
(***************************************************************************)
(* Proofs about DocumentNumbers, for every set of handlers and series and  *)
(* every number of attempts from two up.                                   *)
(*                                                                         *)
(* AtMostOneRetry is not inductive: that a handler which rolled back once  *)
(* does not collide again needs to know that the number it regenerated is  *)
(* still free, and it stays free because documents are only added by the   *)
(* holder of the lock.  NumbersInv says both.                              *)
(***************************************************************************)
EXTENDS DocumentNumbers, TLAPS

(* Exactly the holder of the lock is inside commit_with_number_retry.      *)
LockInv == \A r \in Requests : pc[r] \in InLock <=> lock = r

(* A working handler has a number; it starts with no retry behind it; a    *)
(* handler that rolled back did so once, and its new number is free.       *)
RetryInv ==
  \A r \in Requests :
    /\ pc[r] # "idle" => num[r] \in Number
    /\ pc[r] = "numbered" => attempt[r] = 0
    /\ pc[r] = "rolledBack" => attempt[r] = 1
    /\ pc[r] = "saving" /\ attempt[r] # 0 => num[r] \notin Docs
    /\ attempt[r] <= 1

NumbersInv == TypeOK /\ LockInv /\ RetryInv

(* All numbers of the series below d have been used.                       *)
Follows(d) == \A n \in 1 .. d.seq - 1 : [ser |-> d.ser, seq |-> n] \in everUsed

(* What GapsAreDeletedDrafts needs: the numbers still to be committed      *)
(* follow a used one too.                                                  *)
GapInv ==
  /\ Docs \subseteq everUsed
  /\ \A d \in everUsed : Follows(d)
  /\ \A r \in Requests : pc[r] # "idle" => Follows(num[r])
  /\ noted \subseteq everUsed
  /\ checked = NoNumber \/ checked \in everUsed

-----------------------------------------------------------------------------

(* next_*_number (invoice_utils.py:14-36) returns a number of its series   *)
(* that no document has, and whose predecessor, if any, one has.           *)
LEMMA NextSeqIsFree ==
  ASSUME Docs \subseteq Number, NEW s \in Series, NEW n \in NextSeq(s)
  PROVE  /\ [ser |-> s, seq |-> n] \in Number
         /\ [ser |-> s, seq |-> n] \notin Docs
         /\ n = 1 \/ [ser |-> s, seq |-> n - 1] \in Docs
<1>1. \A m \in Used(s) : m \in Nat \ {0} /\ m < n
  BY DEF NextSeq, Used, Number
<1>2. n = 1 \/ \E m \in Used(s) : n = m + 1
  BY DEF NextSeq
<1>3. n \in Nat \ {0}
  BY <1>1, <1>2
<1>4. [ser |-> s, seq |-> n] \notin Docs
  <2>1. SUFFICES ASSUME [ser |-> s, seq |-> n] \in Docs
                 PROVE  FALSE
    OBVIOUS
  <2>2. n \in Used(s)
    BY <2>1 DEF Used
  <2>3. QED
    BY <2>2, <1>1, <1>3
<1>5. ASSUME NEW m \in Used(s), n = m + 1
      PROVE  [ser |-> s, seq |-> n - 1] \in Docs
  <2>1. PICK d \in Docs : d.ser = s /\ d.seq = m
    BY DEF Used
  <2>2. d = [ser |-> s, seq |-> m] /\ m \in Nat
    BY <2>1 DEF Number
  <2>3. n - 1 = m
    BY <2>2, <1>5
  <2>4. QED
    BY <2>2, <2>3
<1>6. QED
  BY <1>2, <1>3, <1>4, <1>5 DEF Number

(* Initially nothing is stored and no handler works.                       *)
LEMMA NumbersInit == Init => NumbersInv
<1> SUFFICES ASSUME Init PROVE NumbersInv
  OBVIOUS
<1> USE NumberingAssumption DEF Init
<1>1. TypeOK
  BY DEF TypeOK, Docs
<1>2. LockInv
  BY DEF LockInv, InLock
<1>3. RetryInv
  BY DEF RetryInv
<1>4. QED
  BY <1>1, <1>2, <1>3 DEF NumbersInv

(* Every step keeps the types, the exclusion and the retry bound.          *)
LEMMA NumbersStep == NumbersInv /\ [Next]_vars => NumbersInv'
<1> SUFFICES ASSUME TypeOK, LockInv, RetryInv, [Next]_vars
             PROVE  TypeOK' /\ LockInv' /\ RetryInv'
  BY DEF NumbersInv
<1> USE NumberingAssumption DEF log, gaps
<1>1. ASSUME NEW r \in Requests, NEW s \in Series, Begin(r, s)
      PROVE  TypeOK' /\ LockInv' /\ RetryInv'
  <2>1. PICK n \in NextSeq(s) : num' = [num EXCEPT ![r] = [ser |-> s, seq |-> n]]
    BY <1>1 DEF Begin
  <2>2. [ser |-> s, seq |-> n] \in Number
    BY NextSeqIsFree DEF TypeOK, Docs
  <2> HIDE DEF Number
  <2>3. TypeOK'
    BY <1>1, <2>1, <2>2 DEF TypeOK, Begin, Docs
  <2>4. LockInv'
    BY <1>1 DEF TypeOK, LockInv, InLock, Begin
  <2>5. RetryInv'
    BY <1>1, <2>1, <2>2 DEF TypeOK, RetryInv, Begin, Docs
  <2>6. QED
    BY <2>3, <2>4, <2>5
<1>2. ASSUME NEW r \in Requests, AcquireLock(r)
      PROVE  TypeOK' /\ LockInv' /\ RetryInv'
  <2> USE <1>2 DEF AcquireLock
  <2>1. TypeOK'
    BY DEF TypeOK, Docs
  <2>2. LockInv'
    BY DEF TypeOK, LockInv, InLock
  <2>3. RetryInv'
    BY DEF TypeOK, RetryInv, Docs
  <2>4. QED
    BY <2>1, <2>2, <2>3
<1>3. ASSUME NEW r \in Requests, CommitDocument(r)
      PROVE  TypeOK' /\ LockInv' /\ RetryInv'
  <2> USE <1>3 DEF CommitDocument
  <2>1. num[r] \in Number /\ lock = r
    BY DEF RetryInv, LockInv, InLock
  <2>2. TypeOK'
    BY <2>1 DEF TypeOK, Docs
  <2>3. LockInv'
    BY <2>1 DEF TypeOK, LockInv, InLock
  <2>4. RetryInv'
    BY <2>1 DEF TypeOK, LockInv, InLock, RetryInv, Docs
  <2>5. QED
    BY <2>2, <2>3, <2>4
<1>4. ASSUME NEW r \in Requests, RollBack(r)
      PROVE  TypeOK' /\ LockInv' /\ RetryInv'
  <2>1. attempt[r] = 0 /\ attempt[r] # MaxAttempts - 1
    BY <1>4 DEF RollBack, RetryInv
  <2>2. /\ pc[r] = "saving"
        /\ attempt' = [attempt EXCEPT ![r] = 1] /\ 1 \in 0 .. MaxAttempts - 1
        /\ pc' = [pc EXCEPT ![r] = "rolledBack"]
        /\ UNCHANGED <<drafts, issued, log, everUsed, gaps, lock, num>>
    BY <1>4, <2>1 DEF RollBack, TypeOK
  <2>3. TypeOK'
    BY <2>2 DEF TypeOK, Docs
  <2>4. LockInv'
    BY <2>2 DEF TypeOK, LockInv, InLock
  <2>5. RetryInv'
    BY <2>2 DEF TypeOK, RetryInv, Docs
  <2>6. QED
    BY <2>3, <2>4, <2>5
<1>5. ASSUME NEW r \in Requests, Regenerate(r)
      PROVE  TypeOK' /\ LockInv' /\ RetryInv'
  <2> USE <1>5 DEF Regenerate
  <2>1. PICK n \in NextSeq(num[r].ser) :
          num' = [num EXCEPT ![r] = [ser |-> num[r].ser, seq |-> n]]
    OBVIOUS
  <2>2. num[r].ser \in Series
    BY DEF RetryInv, Number
  <2> DEFINE new == [ser |-> num[r].ser, seq |-> n]
  <2>3. new \in Number /\ new \notin Docs
    BY <2>2, NextSeqIsFree DEF TypeOK, Docs
  <2>5. num' = [num EXCEPT ![r] = new]
    BY <2>1
  <2> HIDE DEF new, Number
  <2>6. TypeOK'
    BY <2>3, <2>5 DEF TypeOK, Docs
  <2>7. LockInv'
    BY DEF TypeOK, LockInv, InLock
  <2>8. RetryInv'
    BY <2>3, <2>5 DEF TypeOK, RetryInv, Docs
  <2>9. QED
    BY <2>6, <2>7, <2>8
<1>6. ASSUME NEW r \in Requests, LogCreation(r)
      PROVE  TypeOK' /\ LockInv' /\ RetryInv'
  <2> USE <1>6 DEF LogCreation
  <2>1. TypeOK'
    BY DEF TypeOK, Docs
  <2>2. LockInv'
    BY DEF TypeOK, LockInv, InLock
  <2>3. RetryInv'
    BY DEF TypeOK, RetryInv, Docs
  <2>4. QED
    BY <2>1, <2>2, <2>3
<1>14. ASSUME NEW r \in Requests, LogFails(r)
       PROVE  TypeOK' /\ LockInv' /\ RetryInv'
  <2> USE <1>14 DEF LogFails
  <2>1. num[r] \in Number
    BY DEF RetryInv
  <2>2. TypeOK'
    BY <2>1 DEF TypeOK, Docs
  <2>3. LockInv'
    BY DEF TypeOK, LockInv, InLock
  <2>4. RetryInv'
    BY DEF TypeOK, RetryInv, Docs
  <2>5. QED
    BY <2>2, <2>3, <2>4
<1>7. ASSUME NEW d \in drafts, DeleteDraft(d)
      PROVE  TypeOK' /\ LockInv' /\ RetryInv'
  <2> USE <1>7 DEF DeleteDraft
  <2>1. TypeOK'
    BY DEF TypeOK, Docs
  <2>2. LockInv'
    BY DEF TypeOK, LockInv, InLock
  <2>3. RetryInv'
    BY DEF TypeOK, RetryInv, Docs
  <2>4. QED
    BY <2>1, <2>2, <2>3
<1>8. ASSUME NEW d \in drafts, Issue(d)
      PROVE  TypeOK' /\ LockInv' /\ RetryInv'
  <2> USE <1>8 DEF Issue
  <2>1. Docs' = Docs
    BY DEF Docs
  <2>2. TypeOK'
    BY <2>1 DEF TypeOK
  <2>3. LockInv'
    BY DEF LockInv
  <2>4. RetryInv'
    BY <2>1 DEF RetryInv
  <2>5. QED
    BY <2>2, <2>3, <2>4
<1>9. ASSUME NEW s \in Series, NEW n \in 1 .. MaxSeq, CheckGap([ser |-> s, seq |-> n])
      PROVE  TypeOK' /\ LockInv' /\ RetryInv'
  <2>1. [ser |-> s, seq |-> n] \in Number
    BY DEF Number
  <2>2. checked' \in Number
    BY <1>9, <2>1 DEF CheckGap
  <2>3. UNCHANGED <<drafts, issued, log, everUsed, noted, lock, pc, num, attempt>>
    BY <1>9 DEF CheckGap
  <2>4. QED
    BY <2>2, <2>3 DEF TypeOK, LockInv, RetryInv, Docs, log
<1>10. ASSUME AcknowledgeGap
       PROVE  TypeOK' /\ LockInv' /\ RetryInv'
  BY <1>10 DEF AcknowledgeGap, TypeOK, LockInv, RetryInv, Docs, log
<1>11. ASSUME Crash
       PROVE  TypeOK' /\ LockInv' /\ RetryInv'
  BY <1>11 DEF Crash, TypeOK, LockInv, InLock, RetryInv, Docs
<1>12. ASSUME UNCHANGED vars
       PROVE  TypeOK' /\ LockInv' /\ RetryInv'
  BY <1>12 DEF vars, log, gaps, TypeOK, LockInv, RetryInv, Docs
<1>13. QED
  BY <1>1, <1>2, <1>3, <1>4, <1>5, <1>6, <1>7, <1>8, <1>9, <1>10, <1>11, <1>12,
     <1>14 DEF Next

(* The variables have their types, and no number belongs both to a draft   *)
(* and to an issued document (the UNIQUE number columns of models.py).     *)
THEOREM TypeCorrect == Spec => []TypeOK
<1>1. Spec => []NumbersInv
  BY NumbersInit, NumbersStep, PTL DEF Spec
<1>2. NumbersInv => TypeOK
  BY DEF NumbersInv
<1>3. QED
  BY <1>1, <1>2, PTL

(* One retry is always enough (the comment at invoice_utils.py:553-558).   *)
THEOREM OneRetryIsEnough == Spec => []AtMostOneRetry
<1>1. Spec => []NumbersInv
  BY NumbersInit, NumbersStep, PTL DEF Spec
<1>2. NumbersInv => AtMostOneRetry
  BY DEF NumbersInv, RetryInv, AtMostOneRetry
<1>3. QED
  BY <1>1, <1>2, PTL

(* A number computed from the committed documents follows a used one.      *)
LEMMA NextSeqFollows ==
  ASSUME TypeOK, GapInv, NEW s \in Series, NEW n \in NextSeq(s)
  PROVE  Follows([ser |-> s, seq |-> n])
<1>1. n \in Nat \ {0} /\ (n = 1 \/ [ser |-> s, seq |-> n - 1] \in Docs)
  BY NextSeqIsFree DEF TypeOK, Docs, Number
<1>2. CASE n = 1
  BY <1>2 DEF Follows
<1>3. ASSUME [ser |-> s, seq |-> n - 1] \in Docs
      PROVE  Follows([ser |-> s, seq |-> n])
  <2> DEFINE d == [ser |-> s, seq |-> n - 1]
  <2>1. d \in everUsed /\ Follows(d) /\ d.ser = s /\ d.seq = n - 1
    BY <1>3 DEF GapInv
  <2>2. SUFFICES ASSUME NEW q \in 1 .. n - 1
                 PROVE  [ser |-> s, seq |-> q] \in everUsed
    BY DEF Follows
  <2>3. q = n - 1 \/ q \in 1 .. (n - 1) - 1
    BY <1>1
  <2>4. QED
    BY <2>1, <2>3 DEF Follows
<1>4. QED
  BY <1>1, <1>2, <1>3

(* A number the integrity check reports as missing was once used.          *)
LEMMA GapWasUsed ==
  ASSUME TypeOK, GapInv, NEW d \in Number, Gap(d)
  PROVE  d \in everUsed
<1>1. PICK e \in Docs : e.ser = d.ser /\ d.seq < e.seq
  BY DEF Gap, Used
<1>2. e \in everUsed /\ Follows(e) /\ e.seq \in Nat /\ d.seq \in Nat \ {0}
  BY <1>1 DEF GapInv, TypeOK, Number
<1>3. [ser |-> d.ser, seq |-> d.seq] \in everUsed
  BY <1>1, <1>2 DEF Follows
<1>4. QED
  BY <1>3 DEF Number

(* Every step keeps GapInv.                                                *)
LEMMA GapStep == NumbersInv /\ GapInv /\ [Next]_vars => GapInv'
<1> SUFFICES ASSUME TypeOK, RetryInv, GapInv, [Next]_vars
             PROVE  GapInv'
  BY DEF NumbersInv
<1>1. ASSUME NEW r \in Requests, NEW s \in Series, Begin(r, s)
      PROVE  GapInv'
  <2>1. PICK n \in NextSeq(s) : num' = [num EXCEPT ![r] = [ser |-> s, seq |-> n]]
    BY <1>1 DEF Begin
  <2> DEFINE new == [ser |-> s, seq |-> n]
  <2>2. Follows(new)
    BY NextSeqFollows
  <2>3. num' = [num EXCEPT ![r] = new]
    BY <2>1
  <2> HIDE DEF new
  <2>4. QED
    BY <1>1, <2>2, <2>3 DEF Begin, GapInv, Follows, Docs, TypeOK, gaps
<1>2. ASSUME NEW r \in Requests, CommitDocument(r)
      PROVE  GapInv'
  <2> USE <1>2 DEF CommitDocument
  <2>1. Docs' = Docs \union {num[r]} /\ everUsed' = everUsed \union {num[r]}
    BY DEF Docs
  <2>2. Follows(num[r])
    BY DEF GapInv
  <2>3. \A d : Follows(d) => Follows(d)'
    BY <2>1 DEF Follows
  <2>4. num' = num /\ \A q \in Requests : pc'[q] # "idle" => pc[q] # "idle"
    BY DEF TypeOK
  <2>5. (Docs \subseteq everUsed)'
    BY <2>1 DEF GapInv
  <2>6. \A d \in everUsed' : Follows(d)'
    BY <2>1, <2>2, <2>3 DEF GapInv
  <2>7. \A q \in Requests : pc'[q] # "idle" => Follows(num[q])'
    BY <2>3, <2>4 DEF GapInv, Follows
  <2>8. noted' \subseteq everUsed' /\ (checked' = NoNumber \/ checked' \in everUsed')
    BY <2>1 DEF GapInv, gaps
  <2>9. QED
    BY <2>4, <2>5, <2>6, <2>7, <2>8 DEF GapInv, Follows
<1>3. ASSUME NEW r \in Requests, Regenerate(r)
      PROVE  GapInv'
  <2>1. PICK n \in NextSeq(num[r].ser) :
          num' = [num EXCEPT ![r] = [ser |-> num[r].ser, seq |-> n]]
    BY <1>3 DEF Regenerate
  <2>2. num[r].ser \in Series
    BY <1>3 DEF Regenerate, RetryInv, Number
  <2> DEFINE new == [ser |-> num[r].ser, seq |-> n]
  <2>3. Follows(new)
    BY <2>2, NextSeqFollows
  <2>4. num' = [num EXCEPT ![r] = new]
    BY <2>1
  <2> HIDE DEF new
  <2>5. QED
    BY <1>3, <2>3, <2>4 DEF Regenerate, GapInv, Follows, Docs, TypeOK, gaps
<1>4. ASSUME NEW r \in Requests,
             AcquireLock(r) \/ RollBack(r) \/ LogCreation(r) \/ LogFails(r)
      PROVE  GapInv'
  <2>1. UNCHANGED <<drafts, issued, everUsed, noted, checked>>
    BY <1>4 DEF AcquireLock, RollBack, LogCreation, LogFails, gaps
  <2>2. \A q \in Requests : pc'[q] # "idle" => pc[q] # "idle" /\ num'[q] = num[q]
    BY <1>4 DEF AcquireLock, RollBack, LogCreation, LogFails, TypeOK
  <2>3. QED
    BY <2>1, <2>2 DEF GapInv, Follows, Docs
<1>5. ASSUME NEW d \in drafts, DeleteDraft(d) \/ Issue(d)
      PROVE  GapInv'
  <2>1. UNCHANGED <<everUsed, noted, checked>> /\ Docs' \subseteq Docs
    BY <1>5 DEF DeleteDraft, Issue, Docs, gaps
  <2>2. \A q \in Requests : pc'[q] # "idle" => pc[q] # "idle" /\ num'[q] = num[q]
    BY <1>5 DEF DeleteDraft, Issue, TypeOK
  <2>3. QED
    BY <2>1, <2>2 DEF GapInv, Follows
<1>6. ASSUME NEW s \in Series, NEW n \in 1 .. MaxSeq, CheckGap([ser |-> s, seq |-> n])
      PROVE  GapInv'
  <2> DEFINE d == [ser |-> s, seq |-> n]
  <2>1. d \in Number /\ Gap(d)
    BY <1>6, NumberingAssumption DEF CheckGap, Number
  <2>2. checked' \in everUsed
    BY <1>6, <2>1, GapWasUsed DEF CheckGap
  <2>3. UNCHANGED <<drafts, issued, everUsed, noted, pc, num>>
    BY <1>6 DEF CheckGap
  <2>4. QED
    BY <2>2, <2>3 DEF GapInv, Follows, Docs
<1>7. ASSUME AcknowledgeGap
      PROVE  GapInv'
  BY <1>7 DEF AcknowledgeGap, GapInv, Follows, Docs
<1>8. ASSUME Crash
      PROVE  GapInv'
  BY <1>8 DEF Crash, GapInv, Follows, Docs
<1>9. ASSUME UNCHANGED vars
      PROVE  GapInv'
  BY <1>9 DEF vars, gaps, GapInv, Follows, Docs
<1>10. QED
  BY <1>1, <1>2, <1>3, <1>4, <1>5, <1>6, <1>7, <1>8, <1>9 DEF Next

(* NumbersInv and GapInv together are inductive.                           *)
LEMMA NumbersAndGaps == Spec => [](NumbersInv /\ GapInv)
<1>1. Init => NumbersInv /\ GapInv
  BY NumbersInit DEF Init, GapInv, Docs
<1>2. NumbersInv /\ GapInv /\ [Next]_vars => (NumbersInv /\ GapInv)'
  BY NumbersStep, GapStep
<1>3. QED
  BY <1>1, <1>2, PTL DEF Spec

(* A number missing below the last one of a series once was a document     *)
(* that has been deleted: numbering itself never skips one.                *)
THEOREM NumberingSkipsNothing == Spec => []GapsAreDeletedDrafts
<1>1. GapInv => GapsAreDeletedDrafts
  BY DEF GapInv, Follows, GapsAreDeletedDrafts
<1>2. QED
  BY <1>1, NumbersAndGaps, PTL

(* A note about a missing number (acknowledge_number_gap) is about a       *)
(* number that a document once had, whatever happens to the series between *)
(* the report and the note.                                                *)
THEOREM NotesAreSound == Spec => []NotesAreAboutDocuments
<1>1. GapInv => NotesAreAboutDocuments
  BY DEF GapInv, NotesAreAboutDocuments
<1>2. QED
  BY <1>1, NumbersAndGaps, PTL

(* Every step keeps the creation rows where they were.                     *)
LEMMA LogStep ==
  NumbersInv /\ LogIsLostOnlyBetweenCommits /\ [Next]_vars => LogIsLostOnlyBetweenCommits'
<1> SUFFICES ASSUME TypeOK, RetryInv, LogIsLostOnlyBetweenCommits, [Next]_vars, NEW d \in unlogged'
             PROVE  d \in lost' \/ \E r \in Requests : pc'[r] = "saved" /\ num'[r] = d
  BY DEF NumbersInv, LogIsLostOnlyBetweenCommits
<1> DEFINE Explained == d \in lost \/ \E r \in Requests : pc[r] = "saved" /\ num[r] = d
<1>1. ASSUME NEW r \in Requests, NEW s \in Series, Begin(r, s)
      PROVE  Explained'
  BY <1>1 DEF Begin, log, TypeOK, LogIsLostOnlyBetweenCommits
<1>2. ASSUME NEW r \in Requests, AcquireLock(r) \/ RollBack(r) \/ Regenerate(r)
      PROVE  Explained'
  BY <1>2 DEF AcquireLock, RollBack, Regenerate, log, TypeOK, LogIsLostOnlyBetweenCommits
<1>3. ASSUME NEW r \in Requests, CommitDocument(r)
      PROVE  Explained'
  BY <1>3 DEF CommitDocument, TypeOK, LogIsLostOnlyBetweenCommits
<1>4. ASSUME NEW r \in Requests, LogCreation(r)
      PROVE  Explained'
  BY <1>4 DEF LogCreation, TypeOK, LogIsLostOnlyBetweenCommits
<1>11. ASSUME NEW r \in Requests, LogFails(r)
      PROVE  Explained'
  BY <1>11 DEF LogFails, TypeOK, LogIsLostOnlyBetweenCommits
<1>5. ASSUME NEW e \in drafts, DeleteDraft(e)
      PROVE  Explained'
  BY <1>5 DEF DeleteDraft, TypeOK, LogIsLostOnlyBetweenCommits
<1>6. ASSUME NEW e \in drafts, Issue(e)
      PROVE  Explained'
  BY <1>6 DEF Issue, log, LogIsLostOnlyBetweenCommits
<1>7. ASSUME NEW e, CheckGap(e) \/ AcknowledgeGap
      PROVE  Explained'
  BY <1>7 DEF CheckGap, AcknowledgeGap, log, LogIsLostOnlyBetweenCommits
<1>8. CASE Crash
  BY <1>8 DEF Crash
<1>9. CASE UNCHANGED vars
  BY <1>9 DEF vars, log, LogIsLostOnlyBetweenCommits
<1>10. QED
  BY <1>1, <1>2, <1>3, <1>4, <1>5, <1>6, <1>7, <1>8, <1>9, <1>11 DEF Next

(* Only between its two commits a handler loses the creation row of its    *)
(* document, by a crash or by an exception; the roll back of a retry does  *)
(* not cost one.                                                           *)
THEOREM LogSurvivesRetries == Spec => []LogIsLostOnlyBetweenCommits
<1>1. Init => NumbersInv /\ LogIsLostOnlyBetweenCommits
  BY NumbersInit DEF Init, LogIsLostOnlyBetweenCommits
<1>2. NumbersInv /\ LogIsLostOnlyBetweenCommits /\ [Next]_vars
        => (NumbersInv /\ LogIsLostOnlyBetweenCommits)'
  BY NumbersStep, LogStep
<1>3. QED
  BY <1>1, <1>2, PTL DEF Spec
=============================================================================
