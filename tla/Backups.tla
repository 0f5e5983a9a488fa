------------------------------ MODULE Backups ------------------------------
(***************************************************************************)
(* The backups of one account: auto_backup.run_backup under its lock, by   *)
(* the scheduler thread, by the user and by the start of a new version     *)
(* (start.sh), with verification, retention, the copy off site and the     *)
(* status file, beside users who delete photos and a restore that writes   *)
(* its safety backup without that lock.  A backup is kept as what a later  *)
(* restore would find in it; backups of a kind are ordered by age.         *)
(***************************************************************************)
EXTENDS SequencesExt

CONSTANTS
  Keep,         \* how many backups of each kind the retention leaves
  OffsiteKeep,  \* OFFSITE_BACKUP_KEEP
  OffsiteEnabled,  \* offsite_backup.enabled(): a bucket is configured
  BackupsEnabled,  \* backups_enabled(): the scheduler runs
  MaxRemote,    \* bound: objects in the bucket
  MaxFaults,    \* bound: failures, crashes and failed migrations
  MaxChanges    \* bound: photos deleted or added, and restores

Kinds == {"auto", "manual", "pre-upgrade", "pre-restore"}
Actors == {"scheduler", "user", "start"}

ASSUME BackupsAssumption ==
  /\ Keep \in [Kinds -> Nat \ {0}] /\ OffsiteKeep \in Nat \ {0} /\ OffsiteEnabled \in BOOLEAN
  /\ BackupsEnabled \in BOOLEAN /\ MaxRemote \in Nat /\ MaxFaults \in Nat /\ MaxChanges \in Nat

VARIABLES
  zips,     \* backup files on disk by kind, oldest first
  remote,   \* objects in the bucket, oldest first: is the object good
  status,   \* backup-status.json
  fresh,    \* the last automatic success is younger than the interval
  recent,   \* the last attempt failed and is younger than RETRY_AFTER_FAILURE
  lock,     \* _backup_lock
  run,      \* where each caller of run_backup is
  photo,    \* a photo with its row and its file
  restore,  \* restore_from_upload: "none", writing the safety backup, journal written
  phase,    \* start.sh, then uvicorn
  schema,   \* of the account's database: before, amid or after the migration
  starts,   \* starts since the deployment, until it is migrated
  faults, changes,  \* fault and change counters, bounded
  pristine  \* history: a backup from before the migration was verified

runVars == <<lock, run, status, fresh, recent>>
siteVars == <<phase, schema, starts, restore>>
boundVars == <<faults, changes, photo>>
vars == <<zips, remote, runVars, siteVars, boundVars, pristine>>

Archive == [whole : BOOLEAN, lacks : BOOLEAN, before : BOOLEAN]
Status == [good : BOOLEAN, error : BOOLEAN, copy : {"none", "ok", "failed"}]
Places == {"idle", "waiting", "snapshot", "write", "verify", "retain", "upload",
           "save", "inspect"}
Run == [at : Places, kind : Kinds, refers : BOOLEAN, read : Status, blind : BOOLEAN]

Nobody == "nobody"
(* Every file its database refers to is in the archive.                    *)
Complete(z) == ~z.lacks
Good(z) == z.whole /\ Complete(z)
(* The n newest.                                                           *)
Newest(s, n) == IF Len(s) > n THEN SubSeq(s, Len(s) - n + 1, Len(s)) ELSE s

NoStatus == [good |-> FALSE, error |-> FALSE, copy |-> "none"]
Quiet == [at |-> "idle", kind |-> "auto", refers |-> FALSE, read |-> NoStatus, blind |-> FALSE]
At(a, p) == run[a].at = p
Goto(a, p) == run' = [run EXCEPT ![a].at = p]
Mine(a) == Last(zips[run[a].kind])
Sent(a, outcome) ==
  run' = [run EXCEPT ![a].at = "save", ![a].read = [@ EXCEPT !.copy = outcome]]
Fault == faults < MaxFaults /\ faults' = faults + 1

-----------------------------------------------------------------------------
(* Who asks for a backup                                                   *)

(* Mutation of Due: no pause after a failure, and none after a success.    *)
Due_NeverAgain == ~fresh /\ ~status.error

(* backup_due                                                              *)
Due == ~fresh /\ ~(status.error /\ recent)

Ask(a, k) ==
  /\ At(a, "idle")
  /\ run' = [run EXCEPT ![a] = [Quiet EXCEPT !.at = "waiting", !.kind = k]]
  /\ UNCHANGED <<zips, remote, lock, status, fresh, recent, siteVars, boundVars, pristine>>

(* run_due_backups: due is decided before the lock is taken.  A status file*)
(* it cannot read makes an account due early, as IntervalEnds may.         *)
SchedulerAsks == BackupsEnabled /\ phase = "serving" /\ Due /\ Ask("scheduler", "auto")

(* A restore blocks the event loop: no other request begins meanwhile.     *)
Requests == phase = "serving" /\ restore = "none" /\ At("user", "idle")

(* run_backup_now                                                          *)
UserAsks == Requests /\ Ask("user", "manual")

(* Mutation of StartAsks: a kind of backup that does not exist.            *)
StartAsks_OtherKind ==
  /\ phase = "backup" /\ schema # "new"
  /\ phase' = "backing"
  /\ run' = [run EXCEPT !["start"] = [Quiet EXCEPT !.at = "waiting", !.kind = "pre-migration"]]
  /\ UNCHANGED <<zips, remote, lock, status, fresh, recent, schema, starts, restore, boundVars, pristine>>

(* manage_accounts.backup_all --only-if-migration-pending, once a start.   *)
StartAsks ==
  /\ phase = "backup" /\ schema # "new"
  /\ phase' = "backing"
  /\ run' = [run EXCEPT !["start"] = [Quiet EXCEPT !.at = "waiting", !.kind = "pre-upgrade"]]
  /\ UNCHANGED <<zips, remote, lock, status, fresh, recent, schema, starts, restore, boundVars, pristine>>

-----------------------------------------------------------------------------
(* run_backup                                                              *)

(* read_status, which takes a file it cannot read for an empty one: b says *)
(* whether it did.                                                         *)
ReadStatus(b) == IF b THEN NoStatus ELSE status
MayRead(b) == IF b THEN Fault ELSE UNCHANGED faults

(* Mutation of Acquire: the runs do not exclude each other.                *)
Acquire_Unlocked(a) ==
  /\ At(a, "waiting")
  /\ lock' = a
  /\ run' = [run EXCEPT ![a].at = "snapshot", ![a].read = status]
  /\ UNCHANGED <<zips, remote, status, fresh, recent, siteVars, boundVars, pristine>>

(* The lock is taken and the status file read; its copy is written back    *)
(* at the end.                                                             *)
Acquire(a) ==
  /\ At(a, "waiting") /\ lock = Nobody
  /\ lock' = a
  /\ \E b \in BOOLEAN :
       /\ MayRead(b)
       /\ run' = [run EXCEPT ![a].at = "snapshot", ![a].read = ReadStatus(b), ![a].blind = b]
  /\ UNCHANGED <<zips, remote, status, fresh, recent, siteVars, photo, changes, pristine>>

(* _create_db_snapshot_bytes: from here on the photo may go.               *)
Snapshot(a) ==
  /\ At(a, "snapshot")
  /\ run' = [run EXCEPT ![a].at = "write", ![a].refers = photo]
  /\ UNCHANGED <<zips, remote, lock, status, fresh, recent, siteVars, boundVars, pristine>>

(* _write_backup_zip with the uploads there are now, and os.replace.       *)
Written(a) == [whole |-> TRUE, lacks |-> run[a].refers /\ ~photo, before |-> schema = "old"]

(* Mutation of WriteZip: the retention runs before the verification.       *)
WriteZip_Retains(a) ==
  LET k == run[a].kind IN
  /\ At(a, "write")
  /\ zips' = [zips EXCEPT ![k] = Newest(Append(@, Written(a)), Keep[k])]
  /\ Goto(a, "verify")
  /\ UNCHANGED <<remote, lock, status, fresh, recent, siteVars, boundVars, pristine>>

WriteZip(a) ==
  /\ At(a, "write")
  /\ zips' = [zips EXCEPT ![run[a].kind] = Append(@, Written(a))]
  /\ Goto(a, "verify")
  /\ UNCHANGED <<remote, lock, status, fresh, recent, siteVars, boundVars, pristine>>

(* verify_backup_zip finds every file and reads the database.              *)
Verified(a) ==
  /\ At(a, "verify") /\ Good(Mine(a))
  /\ Goto(a, "retain")
  /\ pristine' = (pristine \/ (Mine(a).before /\ run[a].kind = "pre-upgrade"))
  /\ UNCHANGED <<zips, remote, lock, status, fresh, recent, siteVars, boundVars>>

(* The lock is left, with the status as it was                             *)
Leave(a) ==
  /\ lock' = Nobody
  /\ run' = [run EXCEPT ![a] = Quiet]
  /\ UNCHANGED <<status, fresh, recent>>

(* or with s written by _write_status: an empty copy loses the last        *)
(* automatic success as well.                                              *)
WriteStatus(a, s) ==
  /\ status' = s
  /\ recent' = s.error
  /\ fresh' = (fresh /\ ~run[a].blind)
  /\ lock' = Nobody
  /\ run' = [run EXCEPT ![a] = Quiet]

(* _record_failure: the file is removed, and the status may not be written.*)
Unlink(a) ==
  zips' = IF At(a, "verify") THEN [zips EXCEPT ![run[a].kind] = Front(@)] ELSE zips
RecordFailure(a) == WriteStatus(a, [run[a].read EXCEPT !.error = TRUE])

NotVerified(a) ==
  /\ At(a, "verify") /\ ~Good(Mine(a))
  /\ Unlink(a)
  /\ \/ RecordFailure(a) /\ UNCHANGED faults
     \/ Leave(a) /\ Fault
  /\ UNCHANGED <<remote, siteVars, photo, changes, pristine>>

(* No space, or an input/output error, up to the end of the verification.  *)
RunFails(a) ==
  /\ run[a].at \in {"snapshot", "write", "verify"}
  /\ Fault /\ Unlink(a)
  /\ RecordFailure(a) \/ Leave(a)
  /\ UNCHANGED <<remote, siteVars, photo, changes, pristine>>

(* Mutation of Retain: one backup of each kind too few is left.            *)
Retain_OffByOne(a) ==
  /\ At(a, "retain")
  /\ zips' = [k \in Kinds |-> Newest(zips[k], Keep[k] - 1)]
  /\ Goto(a, "upload")
  /\ UNCHANGED <<remote, lock, status, fresh, recent, siteVars, boundVars, pristine>>

(* apply_retention, for every kind.                                        *)
Retain(a) ==
  /\ At(a, "retain")
  /\ zips' = [k \in Kinds |-> Newest(zips[k], Keep[k])]
  /\ Goto(a, "upload")
  /\ UNCHANGED <<remote, lock, status, fresh, recent, siteVars, boundVars, pristine>>

(* The bucket behind a new object: _apply_retention, where a refused       *)
(* deletion is only a warning.                                             *)
Grown(good) == Append(remote, good)
Pruned == {Grown(TRUE), Newest(Grown(TRUE), OffsiteKeep)}

(* Mutation of Upload: the copy is not downloaded and compared.            *)
Upload_NotCompared(a) ==
  /\ OffsiteEnabled /\ At(a, "upload") /\ Len(remote) < MaxRemote
  /\ \/ remote' \in Pruned /\ UNCHANGED faults
     \/ remote' \in {Grown(FALSE), Newest(Grown(FALSE), OffsiteKeep)} /\ Fault
  /\ Sent(a, "ok")
  /\ UNCHANGED <<zips, lock, status, fresh, recent, siteVars, photo, changes, pristine>>

(* upload_backup: the object arrives whole or damaged; its size, hash,     *)
(* decryption and a test of the downloaded copy tell which, unless it      *)
(* cannot be downloaded, and old objects are deleted behind a good one     *)
(* only.                                                                   *)
Upload(a) ==
  /\ OffsiteEnabled /\ At(a, "upload") /\ Len(remote) < MaxRemote
  /\ \/ remote' \in Pruned /\ Sent(a, "ok") /\ UNCHANGED faults
     \/ remote' \in {Grown(FALSE), Grown(TRUE)} /\ Sent(a, "failed") /\ Fault
  /\ UNCHANGED <<zips, lock, status, fresh, recent, siteVars, photo, changes, pristine>>

(* No bucket is set up, or nothing reaches it.                             *)
NoUpload(a) ==
  /\ At(a, "upload")
  /\ Sent(a, IF OffsiteEnabled THEN "failed" ELSE run[a].read.copy)
  /\ UNCHANGED <<zips, remote, lock, status, fresh, recent, siteVars, boundVars, pristine>>

Save(a) ==
  /\ At(a, "save")
  /\ status' = [run[a].read EXCEPT !.good = TRUE, !.error = FALSE]
  /\ recent' = FALSE
  /\ fresh' = ((fresh /\ ~run[a].blind) \/ run[a].kind = "auto")
  /\ lock' = Nobody
  /\ run' = [run EXCEPT ![a] = Quiet]
  /\ UNCHANGED <<zips, remote, siteVars, boundVars, pristine>>

(* The status cannot be written: an exception that nothing here catches.   *)
SaveFails(a) ==
  /\ At(a, "save") /\ Fault
  /\ Leave(a)
  /\ UNCHANGED <<zips, remote, siteVars, photo, changes, pristine>>

-----------------------------------------------------------------------------
(* verify_existing_backup changes what the status says of verification,    *)
(* nothing else: a read and a write of the whole file under the lock.      *)
BeginVerifyExisting ==
  /\ Requests /\ lock = Nobody
  /\ \E k \in Kinds : zips[k] # <<>>
  /\ lock' = "user"
  /\ \E b \in BOOLEAN :
       /\ MayRead(b)
       /\ run' = [run EXCEPT !["user"] =
                    [Quiet EXCEPT !.at = "inspect", !.read = ReadStatus(b), !.blind = b]]
  /\ UNCHANGED <<zips, remote, status, fresh, recent, siteVars, photo, changes, pristine>>

EndVerifyExisting ==
  /\ At("user", "inspect")
  /\ status' = run["user"].read
  /\ fresh' = (fresh /\ ~run["user"].blind)
  /\ lock' = Nobody
  /\ run' = [run EXCEPT !["user"] = Quiet]
  /\ UNCHANGED <<zips, remote, recent, siteVars, boundVars, pristine>>

-----------------------------------------------------------------------------
(* What happens beside                                                     *)

(* A photo is deleted, or added, with its row.                             *)
ChangePhoto ==
  /\ phase = "serving" /\ changes < MaxChanges
  /\ changes' = changes + 1
  /\ photo' = ~photo
  /\ UNCHANGED <<zips, remote, runVars, siteVars, faults, pristine>>

SafetyZip(whole) == [whole |-> whole, lacks |-> FALSE, before |-> FALSE]

(* save_automatic_backup: the file has its name before it has its content. *)
OpenSafety ==
  /\ phase = "serving" /\ restore = "none" /\ changes < MaxChanges
  /\ changes' = changes + 1
  /\ restore' = "open"
  /\ zips' = [zips EXCEPT !["pre-restore"] = Append(@, SafetyZip(FALSE))]
  /\ UNCHANGED <<remote, runVars, phase, schema, starts, faults, photo, pristine>>

(* Mutation of WriteSafety: the journal is written before the backup.      *)
WriteSafety_JournalFirst ==
  /\ restore = "open"
  /\ restore' = "journal"
  /\ UNCHANGED <<zips, remote, runVars, phase, schema, starts, boundVars, pristine>>

(* The content is written, and the journal that names the file.            *)
WriteSafety ==
  /\ restore = "open"
  /\ restore' = "journal"
  /\ zips' = [zips EXCEPT !["pre-restore"] = Append(Front(@), SafetyZip(TRUE))]
  /\ UNCHANGED <<remote, runVars, phase, schema, starts, boundVars, pristine>>

(* The restore succeeded or was rolled back; the journal is cleared.       *)
EndRestore ==
  /\ phase = "serving" /\ restore = "journal"
  /\ restore' = "none"
  /\ photo' \in BOOLEAN
  /\ UNCHANGED <<zips, remote, runVars, phase, schema, starts, faults, changes, pristine>>

(* Time passes.                                                            *)
IntervalEnds ==
  /\ fresh /\ fresh' = FALSE
  /\ UNCHANGED <<zips, remote, lock, run, status, recent, siteVars, boundVars, pristine>>

PauseEnds ==
  /\ recent /\ recent' = FALSE
  /\ UNCHANGED <<zips, remote, lock, run, status, fresh, siteVars, boundVars, pristine>>

-----------------------------------------------------------------------------
(* Who is told                                                             *)

(* Mutation of Warnings: only a missing copy is reported, not a failed one.*)
Warnings_AnyCopy ==
  {w \in {"disabled", "no backup", "error", "copy"} :
     \/ w = "disabled" /\ ~BackupsEnabled
     \/ w = "no backup" /\ BackupsEnabled /\ ~status.good
     \/ w = "error" /\ status.error
     \/ w = "copy" /\ OffsiteEnabled /\ status.copy = "none"}

(* backup_overview, on the settings page.  Its warnings of age, of a failed*)
(* verification and of no bucket come on top.                              *)
Warnings ==
  {w \in {"disabled", "no backup", "error", "copy"} :
     \/ w = "disabled" /\ ~BackupsEnabled
     \/ w = "no backup" /\ BackupsEnabled /\ ~status.good
     \/ w = "error" /\ status.error
     \/ w = "copy" /\ OffsiteEnabled /\ status.copy # "ok"}

(* monitoring.collect, for this account: it does not ask after backups that*)
(* are switched off.                                                       *)
Problems ==
  {p \in {"no backup", "error", "copy", "restore", "migration"} :
     \/ p \in {"no backup", "error"} /\ BackupsEnabled /\ p \in Warnings
     \/ p = "copy" /\ p \in Warnings
     \/ p = "restore" /\ restore = "journal"
     \/ p = "migration" /\ schema # "new"}

-----------------------------------------------------------------------------
(* start.sh                                                                *)

Stopped ==
  /\ phase' = "recover"
  /\ starts' = IF schema = "new" THEN starts ELSE starts + 1
  /\ lock' = Nobody
  /\ run' = [a \in Actors |-> Quiet]

(* The process ends anywhere, and the container is started again.          *)
Crash ==
  /\ Fault /\ Stopped
  /\ restore' = IF restore = "open" THEN "none" ELSE restore
  /\ UNCHANGED <<zips, remote, status, fresh, recent, schema, photo, changes, pristine>>

(* --recover-restores: an interrupted restore is taken back from its       *)
(* safety backup, before anything else.                                    *)
RecoverRestore ==
  /\ phase = "recover"
  /\ phase' = "backup"
  /\ restore' = "none"
  /\ UNCHANGED <<zips, remote, runVars, schema, starts, boundVars, pristine>>

(* --backup-all ended, also with a failure: a warning, and start.sh goes   *)
(* on.                                                                     *)
BackupsEnd ==
  /\ At("start", "idle")
  /\ \/ phase = "backup" /\ schema = "new"
     \/ phase = "backing"
  /\ phase' = "migrate"
  /\ UNCHANGED <<zips, remote, runVars, restore, schema, starts, boundVars, pristine>>

(* --upgrade-all                                                           *)
Migrate ==
  /\ phase = "migrate"
  /\ phase' = "serving"
  /\ schema' = "new"
  /\ UNCHANGED <<zips, remote, runVars, restore, starts, boundVars, pristine>>

(* A migration fails; those before it stay, and set -e ends the start.     *)
MigrateFails ==
  /\ phase = "migrate" /\ schema # "new"
  /\ Fault /\ Stopped
  /\ schema' \in {schema, "mid"}
  /\ UNCHANGED <<zips, remote, status, fresh, recent, restore, photo, changes, pristine>>

-----------------------------------------------------------------------------
(* An earlier restore left its safety backup.                              *)
Earlier == <<SafetyZip(TRUE)>>

Init ==
  /\ zips = [k \in Kinds |-> IF k = "pre-restore" THEN Earlier ELSE <<>>]
  /\ remote = <<>>
  /\ status = NoStatus
  /\ fresh = FALSE /\ recent = FALSE
  /\ lock = Nobody
  /\ run = [a \in Actors |-> Quiet]
  /\ photo = TRUE
  /\ restore = "none"
  /\ phase = "recover"
  /\ schema = "old"
  /\ starts = 1
  /\ faults = 0 /\ changes = 0
  /\ pristine = FALSE

Progress(a) ==
  \/ Acquire(a) \/ Snapshot(a) \/ WriteZip(a) \/ Verified(a) \/ NotVerified(a)
  \/ Retain(a) \/ Upload(a) \/ NoUpload(a) \/ Save(a)

Startup == RecoverRestore \/ BackupsEnd \/ Migrate

Next ==
  \/ SchedulerAsks \/ UserAsks \/ StartAsks
  \/ \E a \in Actors : Progress(a) \/ RunFails(a) \/ SaveFails(a)
  \/ BeginVerifyExisting \/ EndVerifyExisting
  \/ ChangePhoto \/ OpenSafety \/ WriteSafety \/ EndRestore
  \/ IntervalEnds \/ PauseEnds
  \/ Crash \/ Startup \/ MigrateFails

(* Whoever holds the lock goes on, and so does start.sh; time passes; the  *)
(* scheduler asks when it is due and is not passed over for ever when it   *)
(* waits for the lock.  Nothing makes users ask, or faults happen.         *)
Fairness ==
  /\ WF_vars(Startup \/ StartAsks \/ EndVerifyExisting \/ \E a \in Actors : Progress(a))
  /\ WF_vars(SchedulerAsks) /\ SF_vars(Acquire("scheduler"))
  /\ WF_vars(PauseEnds)

Spec == Init /\ [][Next]_vars /\ Fairness

-----------------------------------------------------------------------------
(* The variables have their types: above all whoever holds _backup_lock    *)
(* is a run of this account, with the kind its requester asked for.        *)
TypeOK ==
  /\ zips \in [Kinds -> Seq(Archive)]
  /\ remote \in Seq(BOOLEAN) /\ Len(remote) <= MaxRemote
  /\ status \in Status
  /\ fresh \in BOOLEAN /\ recent \in BOOLEAN /\ photo \in BOOLEAN
  /\ pristine \in BOOLEAN
  /\ lock \in Actors \cup {Nobody}
  /\ run \in [Actors -> Run]
  /\ restore \in {"none", "open", "journal"}
  /\ phase \in {"recover", "backup", "backing", "migrate", "serving"}
  /\ schema \in {"old", "mid", "new"}
  /\ starts \in Nat /\ faults \in 0..MaxFaults /\ changes \in 0..MaxChanges

Has(k, Test(_)) == \E i \in DOMAIN zips[k] : Test(zips[k][i])

(* Once the status says that a backup succeeded there is one on disk that  *)
(* restores completely: run_backup verifies before its retention deletes.  *)
SuccessLeavesGoodBackup == status.good => \E k \in Kinds \ {"pre-restore"} : Has(k, Good)

(* When the settings page, or the monitor of backups that are switched on, *)
(* reports nothing, there is a backup that restores completely, and a good *)
(* copy of one off site if a bucket is configured:                         *)
(* read_status only says what the last runs wrote, with other backups,     *)
(* retention, failures and crashes since.                                  *)
SilenceMeansCopies ==
  phase = "serving" /\ (Warnings = {} \/ (BackupsEnabled /\ Problems = {})) =>
    /\ \E k \in Kinds \ {"pre-restore"} : Has(k, Good)
    /\ OffsiteEnabled => TRUE \in Range(remote)

(* While the journal of a restore names its safety backup, that file is    *)
(* there and whole, whatever the retention of a backup beside it deletes.  *)
SafetyBackupSurvives ==
  restore = "journal" => zips["pre-restore"] # <<>> /\ Last(zips["pre-restore"]).whole

(* A verified backup of the data from before a migration outlives the      *)
(* failed starts that follow, for as many starts as the retention keeps.   *)
PristineCopySurvives ==
  pristine /\ starts <= Keep["pre-upgrade"] =>
    Has("pre-upgrade", LAMBDA z : Good(z) /\ z.before)

(* Once a good copy is off site no step removes the last one: old objects  *)
(* are deleted only behind one that was downloaded and verified.           *)
OffsiteKeepsGood == [][(TRUE \in Range(remote)) => (TRUE \in Range(remote'))]_vars

(* The status file is read at the start of a run and written at its end;   *)
(* no other run's success is lost in between.  Only a run that could not   *)
(* read the file, and takes it for empty, loses what it said.              *)
SuccessIsNotForgotten ==
  [][status.good /\ ~status'.good => \E a \in Actors : run[a].blind]_vars

(* After failures, crashes and failed migrations the scheduler, where it   *)
(* is switched on, always makes an automatic backup again.                 *)
BackedUpAgain == BackupsEnabled => []<>fresh
=============================================================================
