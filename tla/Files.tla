------------------------------- MODULE Files -------------------------------
(***************************************************************************)
(* The files of one account beside the rows that name them: the photos of  *)
(* jobs, the logo of the company, the cleanup of orphans and the swap of   *)
(* both by a restore.  A file and its row never change in one step.        *)
(*                                                                         *)
(* upload_job_photo, settings_save and upload_restore are async: they      *)
(* leave the event loop only while they wait for the body of the upload,   *)
(* and no request begins while one of them holds it.  The deletion of a    *)
(* photo and the cleanup run in threads beside them.                       *)
(***************************************************************************)
EXTENDS FiniteSets, Naturals

CONSTANTS
  Photos,       \* file names, each drawn once (uuid4)
  Tasks,        \* requests
  Extensions,   \* ALLOWED_EXTENSIONS: the logo is called "logo" and one of them
  MaxFailures,  \* bound: commits that fail
  MaxCrashes,   \* bound: crashes, and files that cannot be written or removed
  None

ASSUME FilesAssumption ==
  /\ MaxFailures \in Nat /\ MaxCrashes \in Nat
  /\ None \notin Extensions \union Tasks

VARIABLES
  rows,      \* job_photos: id and file name
  stored,    \* history: the rows ever committed, which backups hold
  strays,    \* history: the photos whose row was deleted in place of another's
  files,     \* uploads/job_photos
  drawn,     \* the names drawn so far
  logo,      \* company.logo_filename: its extension
  logoFiles, \* uploads/logo.*
  temps,     \* uploads/.tmp-*: by the task that staged it, None after a crash
  task,      \* the requests
  loop,      \* who holds the event loop
  clash,     \* history: a save of the logo has met another, a cleanup, a restore,
             \* a crash or a file that could not be replaced or removed
  torn,      \* history: a restore has met the deletion of a photo
  failures, crashes

photoVars == <<rows, stored, strays, files, drawn, torn>>
logoVars == <<logo, logoFiles, temps, clash>>
vars == <<photoVars, logoVars, task, loop, failures, crashes>>

Named(R) == {x.photo : x \in R}

Logos == Extensions \union {None}
Idle == [at |-> "idle"]
Task ==
  {Idle}
  \union [at : {"written"}, photo : Photos]
  \union [at : {"deleting"}, id : Nat, photo : Photos]
  \union [at : {"deleted"}, photo : Photos, restored : BOOLEAN]
  \union [at : {"checking"}, known : SUBSET Photos, logo : Logos]
  \union [at : {"cleaning"}, known : SUBSET Photos, orphans : SUBSET Photos, stray : SUBSET Extensions,
          temps : SUBSET (Tasks \union {None})]
  \union [at : {"loaded", "staged", "saved", "replaced"}, seen : Logos, want : Logos]
  \union [at : {"swapping"}, photos : SUBSET Photos, logo : Logos]

At(t, p) == task[t].at = p
Goto(t, r) == task' = [task EXCEPT ![t] = r]
Step(t, p) == Goto(t, [at |-> p, seen |-> task[t].seen, want |-> task[t].want])
End(t) == Goto(t, Idle)
Begins(t) == loop = None /\ At(t, "idle")
Saving(t) == task[t].at \in {"loaded", "staged", "saved", "replaced"}
Cleaning(t) == task[t].at \in {"checking", "cleaning"}
Overlap(t) == clash' = (clash \/ \E u \in Tasks \ {t} : Saving(u) \/ Cleaning(u))
CommitFails == failures < MaxFailures /\ failures' = failures + 1
Fault == crashes < MaxCrashes /\ crashes' = crashes + 1
Abandoned(t) == IF t \in temps THEN (temps \ {t}) \union {None} ELSE temps

-----------------------------------------------------------------------------
(* upload_job_photo                                                        *)

(* save_job_photo_upload, once the body is read: the file comes first.     *)
WritePhoto(t, p) ==
  /\ Begins(t) /\ p \notin drawn
  /\ drawn' = drawn \union {p}
  /\ files' = files \union {p}
  /\ loop' = t
  /\ Goto(t, [at |-> "written", photo |-> p])
  /\ UNCHANGED <<rows, stored, strays, torn, logoVars, failures, crashes>>

(* The disk is full: what was written of the file stays.                   *)
WriteFails(t, p) ==
  /\ Begins(t) /\ p \notin drawn /\ Fault
  /\ drawn' = drawn \union {p}
  /\ files' = files \union {p}
  /\ End(t)
  /\ UNCHANGED <<rows, stored, strays, torn, logoVars, loop, failures>>

(* The id SQLite gives a new row: without AUTOINCREMENT the largest one    *)
(* plus 1, which is free again once that row is deleted.                   *)
NextId == {i \in {1} \union {x.id + 1 : x \in rows} : \A x \in rows : x.id < i}

CommitPhoto(t) ==
  /\ At(t, "written")
  /\ \E i \in NextId :
       LET row == [id |-> i, photo |-> task[t].photo]
       IN  rows' = rows \union {row} /\ stored' = stored \union {row}
  /\ loop' = None
  /\ End(t)
  /\ UNCHANGED <<strays, files, drawn, torn, logoVars, failures, crashes>>

(* Mutation of CommitPhotoFails: the file stays.                           *)
CommitPhotoFails_KeepsFile(t) ==
  /\ At(t, "written") /\ CommitFails
  /\ loop' = None
  /\ End(t)
  /\ UNCHANGED <<photoVars, logoVars, crashes>>

(* The transaction is rolled back and the file deleted, which may raise.   *)
CommitPhotoFails(t) ==
  /\ At(t, "written") /\ CommitFails
  /\ \/ files' = files \ {task[t].photo} /\ UNCHANGED crashes
     \/ Fault /\ UNCHANGED files
  /\ loop' = None
  /\ End(t)
  /\ UNCHANGED <<rows, stored, strays, drawn, torn, logoVars>>

-----------------------------------------------------------------------------
(* delete_job_photo_route and the hooks of models.py                       *)

ReadPhoto(t, x) ==
  /\ Begins(t) /\ x \in rows
  /\ Goto(t, [at |-> "deleting", id |-> x.id, photo |-> x.photo])
  /\ UNCHANGED <<photoVars, logoVars, loop, failures, crashes>>

(* The row goes by its id and the file by the name that was read.  Another *)
(* request may have deleted the row by now, and an upload taken its id.    *)
CommitDeletion(t) ==
  /\ At(t, "deleting")
  /\ LET gone == {x \in rows : x.id = task[t].id}
     IN  /\ rows' = rows \ gone
         /\ strays' = strays \union (Named(gone) \ {task[t].photo})
  /\ Goto(t, [at |-> "deleted", photo |-> task[t].photo, restored |-> FALSE])
  /\ UNCHANGED <<stored, files, drawn, torn, logoVars, loop, failures, crashes>>

(* _forget_pending_files_after_rollback                                    *)
DeletionFails(t) ==
  /\ At(t, "deleting") /\ CommitFails
  /\ End(t)
  /\ UNCHANGED <<photoVars, logoVars, loop, crashes>>

(* _delete_pending_files_after_commit; an OSError is only logged.          *)
RemovePhoto(t) ==
  /\ At(t, "deleted")
  /\ \/ files' = files \ {task[t].photo} /\ UNCHANGED crashes
     \/ Fault /\ UNCHANGED files
  /\ End(t)
  /\ UNCHANGED <<rows, stored, strays, drawn, torn, logoVars, loop, failures>>

-----------------------------------------------------------------------------
(* cleanup_orphan_files                                                    *)

(* check_integrity reads the rows,                                         *)
ReadRows(t) ==
  /\ Begins(t)
  /\ Goto(t, [at |-> "checking", known |-> Named(rows), logo |-> logo])
  /\ Overlap(t)
  /\ UNCHANGED <<photoVars, logo, logoFiles, temps, loop, failures, crashes>>

(* Mutation of ListFiles: the rows that were read are not compared with.   *)
ListFiles_All(t) ==
  /\ At(t, "checking")
  /\ Goto(t, [at |-> "cleaning", known |-> task[t].known, orphans |-> files, temps |-> temps,
              stray |-> logoFiles \ {task[t].logo}])
  /\ UNCHANGED <<photoVars, logoVars, loop, failures, crashes>>

(* then lists the directories: a staged file is an orphan, too.            *)
ListFiles(t) ==
  /\ At(t, "checking")
  /\ Goto(t, [at |-> "cleaning", known |-> task[t].known, orphans |-> files \ task[t].known, temps |-> temps,
              stray |-> logoFiles \ {task[t].logo}])
  /\ UNCHANGED <<photoVars, logoVars, loop, failures, crashes>>

(* os.remove of each; the files that cannot be removed are passed over.    *)
RemoveOrphans(t) ==
  /\ At(t, "cleaning")
  /\ \/ /\ files' = files \ task[t].orphans
        /\ logoFiles' = logoFiles \ task[t].stray
        /\ temps' = temps \ task[t].temps
        /\ UNCHANGED crashes
     \/ /\ Fault
        /\ \E o \in SUBSET task[t].orphans : files' = files \ o
        /\ \E s \in SUBSET task[t].stray : logoFiles' = logoFiles \ s
        /\ \E d \in SUBSET task[t].temps : temps' = temps \ d
  /\ End(t)
  /\ UNCHANGED <<rows, stored, strays, drawn, torn, logo, clash, loop, failures>>

-----------------------------------------------------------------------------
(* settings_save: the logo                                                 *)

(* The row is loaded; the bodies of the uploads are still to come.         *)
LoadCompany(t, want) ==
  /\ Begins(t)
  /\ Goto(t, [at |-> "loaded", seen |-> logo, want |-> want])
  /\ Overlap(t)
  /\ UNCHANGED <<photoVars, logo, logoFiles, temps, loop, failures, crashes>>

(* stage_image_upload, or nothing when the logo is removed.                *)
StageLogo(t) ==
  /\ At(t, "loaded") /\ loop = None
  /\ Step(t, "staged")
  /\ temps' = IF task[t].want = None THEN temps ELSE temps \union {t}
  /\ UNCHANGED <<photoVars, logo, logoFiles, clash, loop, failures, crashes>>

(* The disk is full: what was written stays, and nobody knows its name.    *)
StageFails(t) ==
  /\ At(t, "loaded") /\ loop = None /\ task[t].want # None /\ Fault
  /\ temps' = temps \union {None}
  /\ End(t)
  /\ UNCHANGED <<photoVars, logo, logoFiles, clash, loop, failures>>

(* The signature that comes with the logo is no image: nothing is saved,   *)
(* but the staged logo stays.                                              *)
RefuseSignature(t) ==
  /\ At(t, "staged") /\ loop = None
  /\ temps' = Abandoned(t)
  /\ End(t)
  /\ UNCHANGED <<photoVars, logo, logoFiles, clash, loop, failures, crashes>>

(* The session writes the column only if it differs from what was loaded.  *)
SaveCompany(t) ==
  /\ At(t, "staged") /\ loop = None
  /\ loop' = t
  /\ logo' = IF task[t].want = task[t].seen THEN logo ELSE task[t].want
  /\ Step(t, "saved")
  /\ UNCHANGED <<photoVars, logoFiles, temps, clash, failures, crashes>>

(* discard_staged_image, whose os.remove may raise.                        *)
SaveFails(t) ==
  /\ At(t, "staged") /\ loop = None /\ CommitFails
  /\ \/ temps' = temps \ {t} /\ UNCHANGED crashes
     \/ Fault /\ temps' = Abandoned(t)
  /\ End(t)
  /\ UNCHANGED <<photoVars, logo, logoFiles, clash, loop>>

(* Old files of the logo are removed one by one; an os.remove that raises  *)
(* leaves some and ends the request.                                       *)
RemoveLogos(old) ==
  \/ logoFiles' = logoFiles \ old /\ UNCHANGED <<clash, crashes>>
  \/ /\ Fault /\ clash' = TRUE
     /\ \E gone \in SUBSET old : logoFiles' = logoFiles \ gone

(* delete_image                                                            *)
DeleteLogo(t) ==
  /\ At(t, "saved") /\ task[t].want = None
  /\ RemoveLogos(Extensions)
  /\ loop' = None
  /\ End(t)
  /\ UNCHANGED <<photoVars, logo, temps, failures>>

(* finalize_staged_image: os.replace,                                      *)
ReplaceLogo(t) ==
  /\ At(t, "saved") /\ task[t].want # None /\ t \in temps
  /\ logoFiles' = logoFiles \union {task[t].want}
  /\ temps' = temps \ {t}
  /\ Step(t, "replaced")
  /\ UNCHANGED <<photoVars, logo, clash, loop, failures, crashes>>

(* which raises without the staged file, and may raise with it.            *)
ReplaceFails(t) ==
  /\ At(t, "saved") /\ task[t].want # None
  /\ \/ t \notin temps /\ UNCHANGED <<clash, crashes>>
     \/ t \in temps /\ Fault /\ clash' = TRUE
  /\ temps' = Abandoned(t)
  /\ loop' = None
  /\ End(t)
  /\ UNCHANGED <<photoVars, logo, logoFiles, failures>>

(* Mutation of RemoveOldLogo: the old file stays.                          *)
RemoveOldLogo_Keeps(t) ==
  /\ At(t, "replaced")
  /\ loop' = None
  /\ End(t)
  /\ UNCHANGED <<photoVars, logo, logoFiles, temps, clash, failures, crashes>>

RemoveOldLogo(t) ==
  /\ At(t, "replaced")
  /\ RemoveLogos(Extensions \ {task[t].want})
  /\ loop' = None
  /\ End(t)
  /\ UNCHANGED <<photoVars, logo, temps, failures>>

-----------------------------------------------------------------------------
(* restore_from_upload holds the loop from the swap of the database to the *)
(* swap of the uploads; module Restore says what it does when it fails or  *)
(* the process ends.  The backup holds rows that were stored once, and the *)
(* files of these rows.  In flight deletions go on.                        *)
SwapDatabase(t, R, l) ==
  /\ Begins(t)
  /\ \A x, y \in R : x.id = y.id => x = y
  /\ loop' = t
  /\ rows' = R /\ logo' = l
  /\ task' = [u \in Tasks |->
                IF u = t THEN [at |-> "swapping", photos |-> Named(R), logo |-> l]
                ELSE IF At(u, "deleted")
                  THEN [at |-> "deleted", photo |-> task[u].photo, restored |-> TRUE]
                ELSE task[u]]
  /\ Overlap(t)
  /\ torn' = (torn \/ \E u \in Tasks : task[u].at \in {"deleting", "deleted"})
  /\ UNCHANGED <<stored, strays, files, drawn, logoFiles, temps, failures, crashes>>

SwapUploads(t) ==
  /\ At(t, "swapping")
  /\ files' = task[t].photos
  /\ logoFiles' = {task[t].logo} \ {None}
  /\ temps' = {}
  /\ loop' = None
  /\ End(t)
  /\ UNCHANGED <<rows, stored, strays, drawn, torn, logo, clash, failures, crashes>>

(* The process ends; what was staged is nobody's.                          *)
Crash ==
  /\ \A t \in Tasks : ~At(t, "swapping")
  /\ Fault
  /\ temps' = IF temps = {} THEN {} ELSE {None}
  /\ task' = [t \in Tasks |-> Idle]
  /\ loop' = None
  /\ clash' = (clash \/ \E t \in Tasks : Saving(t))
  /\ UNCHANGED <<photoVars, logo, logoFiles, failures>>

-----------------------------------------------------------------------------
Init ==
  /\ rows = {} /\ stored = {} /\ strays = {} /\ files = {} /\ drawn = {}
  /\ logo = None /\ logoFiles = {} /\ temps = {}
  /\ task = [t \in Tasks |-> Idle]
  /\ loop = None
  /\ clash = FALSE /\ torn = FALSE
  /\ failures = 0 /\ crashes = 0

Photograph(t) ==
  \/ \E p \in Photos : WritePhoto(t, p) \/ WriteFails(t, p)
  \/ \E x \in rows : ReadPhoto(t, x)
  \/ CommitPhoto(t) \/ CommitPhotoFails(t)
  \/ CommitDeletion(t) \/ DeletionFails(t) \/ RemovePhoto(t)

CleanUp(t) == ReadRows(t) \/ ListFiles(t) \/ RemoveOrphans(t)

SaveSettings(t) ==
  \/ \E want \in Logos : LoadCompany(t, want)
  \/ StageLogo(t) \/ StageFails(t) \/ RefuseSignature(t)
  \/ SaveCompany(t) \/ SaveFails(t)
  \/ DeleteLogo(t) \/ ReplaceLogo(t) \/ ReplaceFails(t) \/ RemoveOldLogo(t)

Restore(t) ==
  \/ \E R \in SUBSET stored, l \in Logos : SwapDatabase(t, R, l)
  \/ SwapUploads(t)

Next ==
  \/ \E t \in Tasks : Photograph(t) \/ CleanUp(t) \/ SaveSettings(t) \/ Restore(t)
  \/ Crash

Spec == Init /\ [][Next]_vars

-----------------------------------------------------------------------------
(* The variables have their types: above all the live directory holds the  *)
(* files of photos and of the logo and nothing else.                       *)
TypeOK ==
  /\ rows \subseteq stored /\ stored \subseteq [id : Nat, photo : Photos]
  /\ files \subseteq drawn /\ drawn \subseteq Photos /\ strays \subseteq drawn
  /\ logo \in Logos /\ logoFiles \subseteq Extensions /\ temps \subseteq Tasks \union {None}
  /\ task \in [Tasks -> Task]
  /\ loop \in Tasks \union {None}
  /\ clash \in BOOLEAN /\ torn \in BOOLEAN
  /\ failures \in 0..MaxFailures /\ crashes \in 0..MaxCrashes

Quiet == \A t \in Tasks : At(t, "idle")

(* A photo file goes before its row only where two requests have met: a    *)
(* cleanup that read the rows when this one was not committed yet, or a    *)
(* restore between a deletion's commit and the removal of its file.        *)
FilesOutliveRows ==
  [][\A p \in (files \ files') \intersect Named(rows') :
       \E t \in Tasks :
         \/ At(t, "cleaning") /\ p \notin task[t].known
         \/ At(t, "deleted") /\ task[t].photo = p /\ task[t].restored]_vars

(* No photo file is left without a row, whatever commits fail: only a      *)
(* crash, a file that cannot be written or removed, a restore amid a       *)
(* deletion, or two deletions of one photo leave one - the second deletes  *)
(* the row of a photo that was given the id of the first in between.       *)
NoOrphanPhotos == Quiet /\ ~torn /\ crashes = 0 => files \subseteq Named(rows) \union strays

(* Between saves the company's row names the one logo file there is, for   *)
(* saves that met no cleanup, restore, crash, other save, or file that     *)
(* could not be replaced or removed.                                       *)
LogoHasItsFile ==
  ~clash /\ (\A t \in Tasks : ~Saving(t) /\ ~At(t, "swapping")) => logoFiles = {logo} \ {None}
=============================================================================
