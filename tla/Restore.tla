------------------------------ MODULE Restore ------------------------------
(***************************************************************************)
(* Restoring an account from an uploaded backup (backup_utils.py), with    *)
(* failures and crashes at every step.  The database and the uploads       *)
(* directory are swapped one after the other; a journal, written before    *)
(* the first and deleted after the last change of live data, names the     *)
(* safety backup.  A failure inside the process rolls back from the safety *)
(* backup at once, a crash at the next start, before any request is        *)
(* served; start.sh does not start the application if that fails.          *)
(*                                                                         *)
(* restore_from_upload runs on the event loop and blocks it, so restores   *)
(* exclude each other and no request begins meanwhile; requests that began *)
(* before go on in their threads (module Files).                           *)
(*                                                                         *)
(* The data of an account are its photos: the rows in the database and the *)
(* files in the uploads directory.                                         *)
(***************************************************************************)
EXTENDS Naturals

CONSTANTS
  Photos,
  MaxFaults,   \* bound: failing operations in one restore and its recovery
  MaxCrashes,  \* bound: crashes in one restore and its recovery
  None

ASSUME RestoreAssumption ==
  /\ MaxFaults \in Nat
  /\ MaxCrashes \in Nat
  /\ None \notin [db : SUBSET Photos, files : SUBSET Photos]

VARIABLES
  db,       \* photo rows of the live database
  files,    \* photo files of the live uploads directory
  upload,   \* the photos of the uploaded backup
  safety,   \* the safety backup of this restore
  journal,  \* the safety backup the journal names, None for no journal
  staged,   \* there is a temporary restore-* directory
  pc,       \* where the process is
  booting,  \* it is at startup
  faults, crashes   \* since the last restore began

vars == <<db, files, upload, safety, journal, staged, pc, booting, faults, crashes>>

Backup == [db : SUBSET Photos, files : SUBSET Photos]

(* No live data changed yet; the swap; the way back.                       *)
Preparing == {"zipping", "saved", "staged"}
Swapping == {"journaled", "dbSwapped", "movedOut", "movedIn"}
RollingBack == {"rollback", "dbBack", "wiped", "filesBack", "cleaned"}

Init ==
  /\ db \in SUBSET Photos
  /\ files = db
  /\ upload = {}
  /\ safety = None
  /\ journal = None
  /\ staged = FALSE
  /\ pc = "idle"
  /\ booting = FALSE
  /\ faults = 0
  /\ crashes = 0

(* The process goes from one place to another; nothing else is touched but *)
(* what the action says.                                                   *)
Goto(from, to) == pc = from /\ pc' = to /\ UNCHANGED <<upload, booting, faults, crashes>>

-----------------------------------------------------------------------------
(* restore_from_upload.                                                    *)

(* The uploaded ZIP is valid; the safety backup starts with the database.  *)
BeginRestore ==
  /\ pc = "idle"
  /\ pc' = "zipping"
  /\ upload' \in SUBSET Photos
  /\ safety' = [db |-> db, files |-> {}]
  /\ faults' = 0
  /\ crashes' = 0
  /\ UNCHANGED <<db, files, journal, staged, booting>>

ZipUploads ==
  /\ Goto("zipping", "saved")
  /\ safety' = [db |-> safety.db, files |-> files]
  /\ UNCHANGED <<db, files, journal, staged>>

Stage ==
  /\ Goto("saved", "staged")
  /\ staged' = TRUE
  /\ UNCHANGED <<db, files, safety, journal>>

(* No disk space, a failing migration, a damaged database: nothing live    *)
(* was touched.                                                            *)
Refuse ==
  /\ \E from \in Preparing : Goto(from, "idle")
  /\ staged' = FALSE
  /\ UNCHANGED <<db, files, safety, journal>>

WriteJournal ==
  /\ Goto("staged", "journaled")
  /\ journal' = safety
  /\ UNCHANGED <<db, files, safety, staged>>

SwapDatabase ==
  /\ Goto("journaled", "dbSwapped")
  /\ db' = upload
  /\ UNCHANGED <<files, safety, journal, staged>>

MoveOldUploads ==
  /\ Goto("dbSwapped", "movedOut")
  /\ files' = {}
  /\ UNCHANGED <<db, safety, journal, staged>>

MoveNewUploads ==
  /\ Goto("movedOut", "movedIn")
  /\ files' = upload
  /\ UNCHANGED <<db, safety, journal, staged>>

(* Mutation of ClearJournal: the journal covers the database only.         *)
ClearJournal_Early ==
  /\ \/ Goto("dbSwapped", "cleared")
     \/ ~booting /\ Goto("filesBack", "cleared")
     \/ booting /\ Goto("cleaned", "cleared")
  /\ journal' = None
  /\ UNCHANGED <<db, files, safety, staged>>

(* After the swap, after a rollback, or after a recovery.                  *)
ClearJournal ==
  /\ \/ Goto("movedIn", "cleared")
     \/ ~booting /\ Goto("filesBack", "cleared")
     \/ booting /\ Goto("cleaned", "cleared")
  /\ journal' = None
  /\ UNCHANGED <<db, files, safety, staged>>

(* The temporary directory is removed and requests are served.             *)
Finish ==
  /\ pc = "cleared"
  /\ pc' = "idle"
  /\ staged' = FALSE
  /\ booting' = FALSE
  /\ UNCHANGED <<db, files, upload, safety, journal, faults, crashes>>

(* An exception after the journal was written.                             *)
SwapFails ==
  /\ pc \in Swapping
  /\ faults < MaxFaults
  /\ faults' = faults + 1
  /\ pc' = "rollback"
  /\ UNCHANGED <<db, files, upload, safety, journal, staged, booting, crashes>>

-----------------------------------------------------------------------------
(* _rollback_to_safety_backup, and recover_interrupted_restore around it.  *)

RollBackDatabase ==
  /\ Goto("rollback", "dbBack")
  /\ db' = journal.db
  /\ UNCHANGED <<files, safety, journal, staged>>

WipeUploads ==
  /\ Goto("dbBack", "wiped")
  /\ files' = {}
  /\ UNCHANGED <<db, safety, journal, staged>>

(* Mutation of ExtractUploads: only the database is rolled back.           *)
ExtractUploads_Nothing ==
  /\ Goto("wiped", "filesBack")
  /\ UNCHANGED <<db, files, safety, journal, staged>>

ExtractUploads ==
  /\ Goto("wiped", "filesBack")
  /\ files' = journal.files
  /\ UNCHANGED <<db, safety, journal, staged>>

CleanUpLeftovers ==
  /\ booting
  /\ Goto("filesBack", "cleaned")
  /\ staged' = FALSE
  /\ UNCHANGED <<db, files, safety, journal>>

(* The rollback itself fails; the journal stays.  In a running process the *)
(* request ends with an error and the application goes on; at startup the  *)
(* application does not start.                                             *)
RollbackFails ==
  /\ pc \in RollingBack
  /\ faults < MaxFaults
  /\ faults' = faults + 1
  /\ pc' = IF booting THEN "down" ELSE "idle"
  /\ staged' = (staged /\ booting)
  /\ UNCHANGED <<db, files, upload, safety, journal, booting, crashes>>

(* The process dies, with its threads.                                     *)
Crash ==
  /\ pc # "down"
  /\ crashes < MaxCrashes
  /\ crashes' = crashes + 1
  /\ pc' = "down"
  /\ booting' = FALSE
  /\ UNCHANGED <<db, files, upload, safety, journal, staged, faults>>

(* Mutation of Start: an account without a journal is not cleaned up.      *)
Start_LeavesStaging ==
  /\ pc = "down"
  /\ booting' = (journal # None)
  /\ pc' = IF journal = None THEN "idle" ELSE "rollback"
  /\ UNCHANGED <<db, files, upload, safety, journal, staged, faults, crashes>>

(* Mutation of Start: the journal is not looked at.                        *)
Start_NoRecovery ==
  /\ pc = "down"
  /\ pc' = "idle"
  /\ booting' = FALSE
  /\ staged' = FALSE
  /\ UNCHANGED <<db, files, upload, safety, journal, faults, crashes>>

(* The application starts; recover_interrupted_restore comes first.        *)
Start ==
  /\ pc = "down"
  /\ booting' = (journal # None)
  /\ pc' = IF journal = None THEN "idle" ELSE "rollback"
  /\ staged' = (staged /\ journal # None)
  /\ UNCHANGED <<db, files, upload, safety, journal, faults, crashes>>

-----------------------------------------------------------------------------

(* What the process does by itself once a restore or a startup has begun.  *)
Proceed ==
  \/ ZipUploads
  \/ Stage
  \/ WriteJournal
  \/ SwapDatabase
  \/ MoveOldUploads
  \/ MoveNewUploads
  \/ ClearJournal
  \/ Finish
  \/ RollBackDatabase
  \/ WipeUploads
  \/ ExtractUploads
  \/ CleanUpLeftovers
  \/ Start

Next ==
  \/ BeginRestore
  \/ Refuse
  \/ Proceed
  \/ SwapFails
  \/ RollbackFails
  \/ Crash

(* Restoring is straight-line code on the event loop that waits for no     *)
(* other request, and the container is restarted when the process ends.    *)
Spec == Init /\ [][Next]_vars /\ WF_vars(Proceed)

-----------------------------------------------------------------------------

(* The variables have their types; live data are never being changed       *)
(* without a journal that says what they were.                             *)
TypeOK ==
  /\ db \subseteq Photos
  /\ files \subseteq Photos
  /\ upload \subseteq Photos
  /\ safety \in Backup \union {None}
  /\ journal \in Backup \union {None}
  /\ pc \in Swapping \union RollingBack => journal # None
  /\ staged \in BOOLEAN
  /\ pc \in {"idle", "cleared", "down"} \union Preparing \union Swapping \union RollingBack
  /\ booting \in BOOLEAN
  /\ faults \in 0 .. MaxFaults
  /\ crashes \in 0 .. MaxCrashes

(* "buď sa podarí celá, alebo ostane pôvodný stav" (backup_utils.py:804):  *)
(* with the journal, the account is what the safety backup says; without   *)
(* it, what is live.                                                       *)
Atomic == INSTANCE AtomicRestore WITH
            Backups <- {b \in Backup : b.db = b.files},
            account <- IF journal # None THEN journal ELSE [db |-> db, files |-> files],
            pending <- IF pc \in Preparing \union Swapping
                         THEN [db |-> upload, files |-> upload]
                         ELSE None

RefinesAtomicRestore == Atomic!Spec

(* "konto tak nikdy nezostane v polovične obnovenom stave"                 *)
(* (backup_utils.py:602-603): whenever requests are served, the photos in  *)
(* the database and in the uploads directory are those of one backup, and  *)
(* no journal is left.                                                     *)
ServedWhole == pc = "idle" => db = files /\ journal = None

(* A restore that has begun to change live data is always either completed *)
(* or undone, whatever crashes and fails in between.                       *)
JournalIsSettled == journal # None ~> journal = None

(* Temporary restore-* directories, which hold the whole uploads directory *)
(* of the account, are gone whenever requests are served                   *)
(* (backup_utils.py:665, "upracú vždy").                                   *)
NothingLeftBehind == pc = "idle" => ~staged
=============================================================================
