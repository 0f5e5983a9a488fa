--------------------------- MODULE RestoreProofs ---------------------------
(***************************************************************************)
(* Restoring is atomic, for any photos and any number of crashes, as long  *)
(* as at most one operation fails:                                         *)
(* RestoreInv says, for every place in the code, what the database and the *)
(* uploads directory hold there.  The journal is what it turns on: while   *)
(* it is there, the safety backup it names is whole; when it is not, the   *)
(* live data are.                                                          *)
(***************************************************************************)
EXTENDS Restore, TLAPS

(* What the proofs assume about the constants.                             *)
OneFault == MaxFaults <= 1

Whole(b) == b \in Backup /\ b.db = b.files

(* The live data are those of backup b.                                    *)
Live(b) == db = b.db /\ files = b.files

(* Nothing is being changed.                                               *)
Quiet ==
  pc \in {"idle", "cleared"} \union Preparing => journal = None /\ db = files

(* save_automatic_backup has stored what is live.                          *)
Saved ==
  /\ pc = "zipping" => safety \in Backup /\ safety.db = db
  /\ pc \in {"saved", "staged"} => Whole(safety) /\ Live(safety)

Journal == journal # None => Whole(journal)

Swap ==
  /\ pc \in Swapping => journal # None
  /\ pc = "journaled" => Live(journal)
  /\ pc \in {"dbSwapped", "movedOut", "movedIn"} => db = upload
  /\ pc = "movedIn" => files = upload

WayBack ==
  /\ pc \in RollingBack => journal # None
  /\ pc \in {"dbBack", "wiped"} => db = journal.db
  /\ pc \in {"filesBack", "cleaned"} => Live(journal)

(* Only at startup may a rollback fail: the one fault there can be has     *)
(* happened before a rollback in a running process.                        *)
Faults ==
  /\ pc \in RollingBack /\ ~booting => faults >= 1
  /\ booting => pc \in RollingBack \union {"cleared", "down"}

Down == pc = "down" /\ journal = None => db = files

Shape ==
  /\ db \in SUBSET Photos /\ files \in SUBSET Photos /\ upload \in SUBSET Photos
  /\ pc \in {"idle", "cleared", "down"} \union Preparing \union Swapping \union RollingBack
  /\ faults \in Nat /\ booting \in BOOLEAN

RestoreInv ==
  Shape /\ Quiet /\ Saved /\ Journal /\ Swap /\ WayBack /\ Faults /\ Down

-----------------------------------------------------------------------------

(* Initially the live data are whole.                                      *)
LEMMA RestoreInit == Init => RestoreInv
<1> SUFFICES ASSUME Init PROVE RestoreInv
  OBVIOUS
<1> USE DEF Init, Preparing, Swapping, RollingBack
<1>1. Shape /\ Quiet
  BY DEF Shape, Quiet
<1>2. Saved /\ Journal /\ Faults /\ Down
  BY DEF Saved, Journal, Faults, Down
<1>3. Swap /\ WayBack
  BY DEF Swap, WayBack
<1>4. QED
  BY <1>1, <1>2, <1>3 DEF RestoreInv

(* The steps of one place: restoring, rolling back, recovering.            *)
LEMMA ForwardStep ==
  ASSUME RestoreInv,
         \/ BeginRestore \/ ZipUploads \/ Stage \/ Refuse \/ WriteJournal
         \/ SwapDatabase \/ MoveOldUploads \/ MoveNewUploads \/ SwapFails
  PROVE  RestoreInv'
<1> USE DEF Goto, Preparing, Swapping, RollingBack, Live, Whole, Backup
<1> USE RestoreAssumption
<1>1. CASE BeginRestore
  BY <1>1 DEF BeginRestore, RestoreInv, Shape, Quiet, Saved, Journal, Swap, WayBack, Faults, Down
<1>2. CASE ZipUploads
  BY <1>2 DEF ZipUploads, RestoreInv, Shape, Quiet, Saved, Journal, Swap, WayBack, Faults, Down
<1>3. CASE Stage
  BY <1>3 DEF Stage, RestoreInv, Shape, Quiet, Saved, Journal, Swap, WayBack, Faults, Down
<1>4. CASE Refuse
  BY <1>4 DEF Refuse, RestoreInv, Shape, Quiet, Saved, Journal, Swap, WayBack, Faults, Down
<1>5. CASE WriteJournal
  BY <1>5 DEF WriteJournal, RestoreInv, Shape, Quiet, Saved, Journal, Swap, WayBack, Faults, Down
<1>6. CASE SwapDatabase
  BY <1>6 DEF SwapDatabase, RestoreInv, Shape, Quiet, Saved, Journal, Swap, WayBack, Faults, Down
<1>7. CASE MoveOldUploads
  BY <1>7 DEF MoveOldUploads, RestoreInv, Shape, Quiet, Saved, Journal, Swap, WayBack, Faults, Down
<1>8. CASE MoveNewUploads
  BY <1>8 DEF MoveNewUploads, RestoreInv, Shape, Quiet, Saved, Journal, Swap, WayBack, Faults, Down
<1>9. CASE SwapFails
  BY <1>9 DEF SwapFails, RestoreInv, Shape, Quiet, Saved, Journal, Swap, WayBack, Faults, Down
<1>10. QED
  BY <1>1, <1>2, <1>3, <1>4, <1>5, <1>6, <1>7, <1>8, <1>9

LEMMA BackwardStep ==
  ASSUME OneFault, RestoreInv,
         \/ RollBackDatabase \/ WipeUploads \/ ExtractUploads \/ CleanUpLeftovers
         \/ ClearJournal \/ Finish \/ RollbackFails \/ Crash \/ Start
  PROVE  RestoreInv'
<1> USE DEF Goto, Preparing, Swapping, RollingBack, Live, Whole, Backup
<1> USE RestoreAssumption
<1>1. CASE RollBackDatabase
  BY <1>1 DEF RollBackDatabase, RestoreInv, Shape, Quiet, Saved, Journal, Swap, WayBack, Faults, Down
<1>2. CASE WipeUploads
  BY <1>2 DEF WipeUploads, RestoreInv, Shape, Quiet, Saved, Journal, Swap, WayBack, Faults, Down
<1>3. CASE ExtractUploads
  BY <1>3 DEF ExtractUploads, RestoreInv, Shape, Quiet, Saved, Journal, Swap, WayBack, Faults, Down
<1>4. CASE CleanUpLeftovers
  BY <1>4 DEF CleanUpLeftovers, RestoreInv, Shape, Quiet, Saved, Journal, Swap, WayBack, Faults, Down
<1>5. CASE ClearJournal
  BY <1>5 DEF ClearJournal, RestoreInv, Shape, Quiet, Saved, Journal, Swap, WayBack, Faults, Down
<1>6. CASE Finish
  BY <1>6 DEF Finish, RestoreInv, Shape, Quiet, Saved, Journal, Swap, WayBack, Faults, Down
<1>7. CASE RollbackFails
  BY <1>7 DEF OneFault, RollbackFails, RestoreInv, Shape, Quiet, Saved, Journal, Swap, WayBack,
              Faults, Down
<1>8. CASE Crash
  BY <1>8 DEF Crash, RestoreInv, Shape, Quiet, Saved, Journal, Swap, WayBack, Faults, Down
<1>9. CASE Start
  BY <1>9 DEF Start, RestoreInv, Shape, Quiet, Saved, Journal, Swap, WayBack, Faults, Down
<1>10. QED
  BY <1>1, <1>2, <1>3, <1>4, <1>5, <1>6, <1>7, <1>8, <1>9

(* Every step keeps the invariant.                                         *)
LEMMA RestoreStep ==
  ASSUME OneFault
  PROVE  RestoreInv /\ [Next]_vars => RestoreInv'
<1> SUFFICES ASSUME RestoreInv, [Next]_vars PROVE RestoreInv'
  OBVIOUS
<1>1. CASE UNCHANGED vars
  BY <1>1 DEF vars, RestoreInv, Shape, Quiet, Saved, Journal, Swap, WayBack, Faults, Down,
              Live
<1>2. CASE Next
  BY <1>2, ForwardStep, BackwardStep DEF Next, Proceed
<1>3. QED
  BY <1>1, <1>2

LEMMA RestoreInvariant ==
  ASSUME OneFault
  PROVE  Spec => []RestoreInv
  BY RestoreInit, RestoreStep, PTL DEF Spec

(* Whenever requests are served, database and uploads are those of one     *)
(* backup and no journal is left (ServedWhole), after any number of        *)
(* crashes of restore_from_upload and recover_interrupted_restore.         *)
THEOREM ServedDataAreWhole ==
  ASSUME OneFault
  PROVE  Spec => []ServedWhole
<1>1. RestoreInv => ServedWhole
  BY DEF RestoreInv, Quiet, ServedWhole
<1>2. QED
  BY <1>1, RestoreInvariant, PTL

-----------------------------------------------------------------------------
(* The refinement.  The two values AtomicRestore sees, named for the steps *)
(* below.                                                                  *)

Account == IF journal # None THEN journal ELSE [db |-> db, files |-> files]

Pending ==
  IF pc \in Preparing \union Swapping THEN [db |-> upload, files |-> upload] ELSE None

Requested ==
  /\ Pending = None /\ Account' = Account
  /\ \E b \in {c \in Backup : c.db = c.files} : Pending' = b

Applied == Pending # None /\ Account' = Pending /\ Pending' = None

Refused == Pending # None /\ Pending' = None /\ Account' = Account

Unnoticed == Account' = Account /\ Pending' = Pending

(* A backup is made of its two parts.                                      *)
LEMMA BackupIsItsParts ==
  \A b \in Backup : b = [db |-> b.db, files |-> b.files]
  BY DEF Backup

(* No backup is None.                                                      *)
LEMMA NoneIsNoBackup ==
  ASSUME NEW d \in SUBSET Photos, NEW f \in SUBSET Photos
  PROVE  [db |-> d, files |-> f] \in Backup /\ [db |-> d, files |-> f] # None
  BY RestoreAssumption DEF Backup

(* A restore begins when none is under way.                                *)
LEMMA BeginIsRequest ==
  ASSUME RestoreInv, RestoreInv', BeginRestore
  PROVE  Requested
<1> USE DEF BeginRestore, RestoreInv, Preparing, Swapping, RollingBack
<1>1. Pending = None
  BY DEF Pending
<1>2. Account' = Account
  BY DEF Account
<1>3. Pending' = [db |-> upload', files |-> upload']
  BY DEF Pending
<1>4. upload' \in SUBSET Photos
  BY DEF Shape
<1>5. QED
  BY <1>1, <1>2, <1>3, <1>4, NoneIsNoBackup DEF Requested

(* What is under way while preparing or swapping.                          *)
LEMMA UnderWay ==
  ASSUME RestoreInv, pc \in Preparing \union Swapping
  PROVE  Pending # None /\ Pending = [db |-> upload, files |-> upload]
  BY NoneIsNoBackup DEF RestoreInv, Shape, Pending

(* Before the journal, giving up changes nothing.                          *)
LEMMA RefuseIsRefused ==
  ASSUME RestoreInv, RestoreInv', Refuse
  PROVE  Refused
<1> USE DEF Refuse, Goto, Preparing, Swapping, RollingBack
<1>1. Pending # None
  BY UnderWay
<1>2. Pending' = None
  BY DEF Pending
<1>3. Account' = Account
  BY DEF Account
<1>4. QED
  BY <1>1, <1>2, <1>3 DEF Refused

(* A failure of the swap: from here on the safety backup comes back.       *)
LEMMA SwapFailsIsRefused ==
  ASSUME RestoreInv, RestoreInv', SwapFails
  PROVE  Refused
<1> USE DEF SwapFails, Preparing, Swapping, RollingBack
<1>1. Pending # None
  BY UnderWay
<1>2. Pending' = None
  BY DEF Pending
<1>3. Account' = Account
  BY DEF Account
<1>4. QED
  BY <1>1, <1>2, <1>3 DEF Refused

(* A crash gives up what was under way.                                    *)
LEMMA CrashIsRefused ==
  ASSUME RestoreInv, RestoreInv', Crash
  PROVE  Refused \/ Unnoticed
<1> USE DEF Crash, Preparing, Swapping, RollingBack
<1>1. Pending' = None
  BY DEF Pending
<1>2. Account' = Account
  BY DEF Account
<1>3. CASE Pending = None
  BY <1>1, <1>2, <1>3 DEF Unnoticed
<1>4. CASE Pending # None
  BY <1>1, <1>2, <1>4 DEF Refused
<1>5. QED
  BY <1>3, <1>4

(* Writing the journal is not noticed: the safety backup is what is live.  *)
LEMMA WriteJournalIsUnnoticed ==
  ASSUME RestoreInv, RestoreInv', WriteJournal
  PROVE  Unnoticed
<1> USE DEF WriteJournal, Goto, RestoreInv, Preparing, Swapping, RollingBack
<1>1. journal = None /\ safety \in Backup /\ db = safety.db /\ files = safety.files
  BY DEF Quiet, Saved, Whole, Live
<1>2. safety # None
  BY <1>1, RestoreAssumption DEF Backup
<1>3. Account' = safety
  BY <1>2 DEF Account
<1>4. Account = safety
  BY <1>1, BackupIsItsParts DEF Account
<1>5. Pending' = Pending
  BY DEF Pending
<1>6. QED
  BY <1>3, <1>4, <1>5 DEF Unnoticed

(* Clearing the journal applies the restore, or ends a rollback.           *)
LEMMA ClearJournalApplies ==
  ASSUME RestoreInv, RestoreInv', ClearJournal
  PROVE  Applied \/ Unnoticed
<1> USE DEF ClearJournal, Goto, RestoreInv, Preparing, Swapping, RollingBack
<1>1. Pending' = None
  BY DEF Pending
<1>2. Account' = [db |-> db, files |-> files]
  BY DEF Account
<1>3. CASE pc = "movedIn"
  <2>1. db = upload /\ files = upload
    BY <1>3 DEF Swap
  <2>2. QED
    BY <1>1, <1>2, <1>3, <2>1, UnderWay DEF Applied
<1>4. CASE pc \in {"filesBack", "cleaned"}
  <2>1. journal \in Backup /\ journal # None /\ db = journal.db /\ files = journal.files
    BY <1>4 DEF WayBack, Journal, Whole, Live
  <2>2. Account = [db |-> db, files |-> files]
    BY <2>1, BackupIsItsParts DEF Account
  <2>3. Pending = None
    BY <1>4 DEF Pending
  <2>4. QED
    BY <1>1, <1>2, <2>2, <2>3 DEF Unnoticed
<1>5. QED
  BY <1>3, <1>4

(* With a journal, it says what the account is, not the live data.         *)
LEMMA OthersAreUnnoticed ==
  ASSUME RestoreInv, RestoreInv',
         \/ ZipUploads \/ Stage \/ SwapDatabase \/ MoveOldUploads \/ MoveNewUploads
         \/ RollBackDatabase \/ WipeUploads \/ ExtractUploads \/ CleanUpLeftovers
         \/ RollbackFails \/ Finish \/ Start
  PROVE  Unnoticed
<1> USE DEF Goto, Preparing, Swapping, RollingBack, ZipUploads, Stage, SwapDatabase,
            MoveOldUploads, MoveNewUploads, RollBackDatabase, WipeUploads,
            ExtractUploads, CleanUpLeftovers, RollbackFails, Finish, Start
<1>1. Pending' = Pending
  BY DEF Pending
<1>2. Account' = Account
  BY DEF Account, RestoreInv, Swap, WayBack
<1>3. QED
  BY <1>1, <1>2 DEF Unnoticed

LEMMA StepRefines ==
  ASSUME RestoreInv, RestoreInv', [Next]_vars
  PROVE  [Atomic!Next]_(Atomic!data)
<1>1. CASE UNCHANGED vars
  BY <1>1 DEF vars, Atomic!data
<1>2. CASE Next
  <2>1. Requested \/ Applied \/ Refused \/ Unnoticed
    BY <1>2, BeginIsRequest, RefuseIsRefused, SwapFailsIsRefused, CrashIsRefused,
       WriteJournalIsUnnoticed, ClearJournalApplies, OthersAreUnnoticed
       DEF Next, Proceed
  <2>2. QED
    BY <2>1 DEF Requested, Applied, Refused, Unnoticed, Account, Pending,
       Atomic!Next, Atomic!data, Atomic!Request, Atomic!Apply, Atomic!Refuse
<1>3. QED
  BY <1>1, <1>2

LEMMA InitRefines ==
  ASSUME Init
  PROVE  Atomic!Init
  BY RestoreAssumption DEF Init, Atomic!Init, Preparing, Swapping, Backup

(* restore_from_upload implements AtomicRestore: the account is, at every  *)
(* moment, what it was before or what the uploaded backup says, and a      *)
(* restore that was given up never takes effect later.                     *)
THEOREM RestoreIsAtomic ==
  ASSUME OneFault
  PROVE  Spec => RefinesAtomicRestore
<1>1. Init => Atomic!Init
  BY InitRefines
<1>2. RestoreInv /\ RestoreInv' /\ [Next]_vars => [Atomic!Next]_(Atomic!data)
  BY StepRefines
<1>3. QED
  BY <1>1, <1>2, RestoreInvariant, PTL DEF Spec, RefinesAtomicRestore, Atomic!Spec

-----------------------------------------------------------------------------
(* What holds for any number of failures.                                  *)

(* NothingLeftBehind is not inductive: a restore begins without a staging  *)
(* directory, and makes one only after the safety backup.                  *)
TidyInv ==
  /\ TypeOK
  /\ pc \in Preparing => safety \in Backup
  /\ pc \in {"idle", "zipping", "saved"} => ~staged

(* Initially there is nothing to tidy up.                                  *)
LEMMA TidyInit == Init => TidyInv
<1> SUFFICES ASSUME Init PROVE TidyInv
  OBVIOUS
<1> USE RestoreAssumption DEF Init, Preparing, Swapping, RollingBack
<1>1. db \subseteq Photos /\ files \subseteq Photos /\ upload \subseteq Photos
  OBVIOUS
<1>2. faults \in 0 .. MaxFaults /\ crashes \in 0 .. MaxCrashes
  OBVIOUS
<1>3. staged = FALSE /\ booting = FALSE /\ pc = "idle" /\ safety = None /\ journal = None
  OBVIOUS
<1> HIDE DEF Init
<1>4. TypeOK
  BY <1>1, <1>2, <1>3 DEF TypeOK
<1>5. QED
  BY <1>3, <1>4 DEF TidyInv

(* Every step keeps the types and the tidiness, however many operations    *)
(* fail.                                                                   *)
LEMMA TidyStep == TidyInv /\ [Next]_vars => TidyInv'
<1> SUFFICES ASSUME TidyInv, [Next]_vars PROVE TidyInv'
  OBVIOUS
<1> USE RestoreAssumption
    DEF Goto, TidyInv, TypeOK, Preparing, Swapping, RollingBack, Backup
<1>1. CASE BeginRestore
  BY <1>1 DEF BeginRestore
<1>2. CASE ZipUploads
  BY <1>2 DEF ZipUploads
<1>3. CASE Stage \/ Refuse
  BY <1>3 DEF Stage, Refuse
<1>4. CASE WriteJournal
  BY <1>4 DEF WriteJournal
<1>5. CASE SwapDatabase \/ MoveOldUploads \/ MoveNewUploads
  BY <1>5 DEF SwapDatabase, MoveOldUploads, MoveNewUploads
<1>6. CASE SwapFails
  BY <1>6 DEF SwapFails
<1>7. CASE RollBackDatabase
  BY <1>7 DEF RollBackDatabase
<1>8. CASE WipeUploads
  BY <1>8 DEF WipeUploads
<1>9. CASE ExtractUploads
  BY <1>9 DEF ExtractUploads
<1>10. CASE CleanUpLeftovers
  BY <1>10 DEF CleanUpLeftovers
<1>11. CASE ClearJournal
  BY <1>11 DEF ClearJournal
<1>12. CASE Finish
  BY <1>12 DEF Finish
<1>13. CASE RollbackFails
  BY <1>13 DEF RollbackFails
<1>14. CASE Crash
  <2>1. crashes' \in 0 .. MaxCrashes
    BY <1>14 DEF Crash
  <2>2. /\ pc' = "down" /\ booting' = FALSE
        /\ UNCHANGED <<db, files, upload, safety, journal, staged, faults>>
    BY <1>14 DEF Crash
  <2> HIDE DEF Backup
  <2>3. QED
    BY <2>1, <2>2
<1>15. CASE Start
  BY <1>15 DEF Start
<1>16. CASE UNCHANGED vars
  BY <1>16 DEF vars
<1>17. QED
  BY <1>1, <1>2, <1>3, <1>4, <1>5, <1>6, <1>7, <1>8, <1>9, <1>10, <1>11, <1>12, <1>13,
     <1>14, <1>15, <1>16 DEF Next, Proceed

LEMMA TidyInvariant == Spec => []TidyInv
  BY TidyInit, TidyStep, PTL DEF Spec

(* The variables have their types, and live data are never being changed   *)
(* without the journal that says what they were.                           *)
THEOREM RestoreTypeCorrect == Spec => []TypeOK
<1>1. TidyInv => TypeOK
  BY DEF TidyInv
<1>2. QED
  BY <1>1, TidyInvariant, PTL

(* Whatever fails and crashes, no temporary copy of the uploads is left    *)
(* when requests are served (_cleanup_restore_leftovers).                  *)
THEOREM RestoreLeavesNothing == Spec => []NothingLeftBehind
<1>1. TidyInv => NothingLeftBehind
  BY DEF TidyInv, NothingLeftBehind
<1>2. QED
  BY <1>1, TidyInvariant, PTL
=============================================================================
