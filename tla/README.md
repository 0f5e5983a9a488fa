# Digitálny zošit: models, model checking and proofs

*Digitálny zošit* is an invoicing application for sole traders: customers,
jobs with photos and costs, quotes, invoices, proformas and credit notes,
payments, backups, several accounts on one server. It is one Python process
(FastAPI, SQLAlchemy, one SQLite database and one uploads directory per
account). This directory holds TLA+ specifications of the parts where the order
of events matters, the TLC configurations that check them, and proofs checked by
TLAPS. Line numbers refer to the sources of the repository.

## How the program runs

What every model here rests on is how the process schedules requests.

* `def` handlers and synchronous dependencies run in worker threads of the anyio
  pool (40 threads). Any two of them interleave at any point.
* `async def` handlers (those that read forms: create and edit an invoice or a
  quote, create a credit note, upload a restore) run on the event loop. After the
  form was read they do not await anything, so two of them never interleave; but
  threads run beside them. The exceptions await the body of an upload: photos and logo
  (`Files`).
* A handler has its own SQLAlchemy session (`database.get_db`, `autoflush=False`).
  It reads and checks first, and everything it writes takes effect at
  `db.commit()`, or not at all. What it read may be stale by then. An UPDATE of a
  row that is gone raises an exception, a DELETE of one does not.
* The database itself enforces UNIQUE document numbers, foreign keys and the
  triggers of `db_guards.py` (issued invoices are not deleted, not made drafts
  again, and their items are not changed).
* Four locks order what requests do: the number lock of an account
  (`invoice_utils._number_lock_for`) around the commit of a new document, and three for all
  accounts: the payment lock (`routers/invoices.py:1540`) around status changes and
  payments, the backup lock (`auto_backup.py:520`) around a backup run, and the creation lock
  (`account_service.py:21`). A restore takes none of them. Further locks only guard caches.
* The process may die at any moment; what was committed stays.

## Inventory

| Component | State | Operations | What is hard | What makes it correct |
|---|---|---|---|---|
| Document numbering (`invoice_utils.py`, `integrity_check.py`) | UNIQUE number columns, number lock, audit log | number, commit, roll back and retry, log, delete a draft, report and acknowledge gaps | equal numbers computed at once, series that shrink during a retry, crash between two commits, a report that is out of date | numbers are unique, one retry is enough, gaps are deleted drafts, notes are about documents |
| Invoices and payments (`routers/invoices.py`, `db_guards.py`) | invoices, items, payments, date of payment, audit log | create, duplicate, edit, delete, change status, pay, delete a payment, set the date of payment | checks on stale reads, two payments of one balance | issued invoices are frozen, payments add up, history is a chain, paid invoices are dated |
| Credit notes (`routers/invoices.py`) | invoices with an original | create, edit, change status, delete | the sum of several documents checked by one handler | creating one keeps the cap; the original stays issued |
| Quotes (`routers/quotes.py`) | quotes, items, `invoices.quote_id` | create, edit, delete, change status, convert | check and commit apart, no lock, retry after a roll back | conversion is atomic, links do not dangle |
| Payment lock and threads | lock, worker pool | take, open session, run, release | waiting threads starve the holder | exclusion, every turn ends |
| Restore (`backup_utils.py`) | database, uploads, journal, safety backup, staging directory | restore, roll back, recover at startup | failures and crashes at each step | all or nothing |
| Automatic backups (`auto_backup.py`) | backup files, `backup-status.json`, backup lock | scheduled, manual and pre-upgrade backup, verify, retention, warn | bad or incomplete backups, retries, a restore beside, what the status file still says | what was called a success is there; backups go on |
| Off-site copies (`offsite_backup.py`, `offsite_restore.py`) | objects in a bucket | upload, test download, retention, fetch | lost or damaged uploads | old copies go only behind a verified new one |
| Photos and logo (`uploads_utils.py`, `routers/jobs.py`, `routers/company.py`, hooks of `models.py`) | files, rows | upload, delete, stage and finalise a logo, clean up orphans | file and row change in two steps | no row without a file, no file without a row |
| Accounts (`auth.py`, `account_service.py`, `routers/auth.py`, `routers/admin.py`, `manage_accounts.py`, `tenancy.py`) | `accounts.db`, directories, cookies, limits in memory | register, create, reattach, log in, change and reset a password, switch off | limit checked at once, compensation of failures, cookies and links that must die | the limit holds, a link works once, a changed password ends logins |
| Integrity check (`integrity_check.py`) | nothing of its own | find gaps and orphans, acknowledge, clean up | what it found is old when it acts | deletes only what nobody needs |
| Totals, VAT, Peppol XML (`invoice_utils.py`, `peppol_xml.py`, `peppol_validation.py`) | none; settings and customers as of today | round, sum, check the regime, export, validate | rounding per line, per rate and once more in the XML; settings that changed | figures agree with each other |
| Jobs, customers, reminders | rows | forms | one commit each | validation |
| Startup, migrations, monitoring (`start.sh`, `main.py`, `manage_accounts.py`, `monitoring.py`) | schema versions | recover, back up, migrate, serve, report | order of the steps, failed starts | recovery first; a copy from before the migration survives |
| PDF, QR, tables, dashboard, search, templates, mail, look-ups | none | format, show, ask others | nothing that changes state | output only |

Components call each other through the database: an invoice made from a quote
(`convert_quote_to_invoice`) goes through document numbering, a credit note reads
invoices, status changes and payments meet at the payment lock, a backup run meets a
restore at the retention, a photo deletion in a thread meets a restore and a clean-up.
Every hazard of these interactions is listed in `PROJECT.json` with its line and the
properties that cover it, or the reason why none does.

## Modules

| Module | Models |
|---|---|
| `DocumentNumbers` | `next_*_number`, `commit_with_number_retry`, the audit commit, draft deletion, number gaps |
| `InvoiceStatuses` | the statuses of invoices and how they follow each other |
| `InvoiceLifecycle` | concurrent handlers on invoices, payments and dates of payment |
| `InvoiceLedger` | abstract: what invoices promise to the bookkeeping |
| `CreditNotes` | the credit notes of an invoice and their cap |
| `Quotes` | concurrent handlers on quotes, and their conversion |
| `PaymentPool` | payment lock and worker threads |
| `Restore` | restore, rollback, recovery |
| `AtomicRestore` | abstract: a restore is one operation |
| `Backups` | scheduler, manual and pre-upgrade backups, off-site copies, start sequence, warnings |
| `Files` | photos, logo, clean-up of orphans, and the swap of a restore |
| `Accounts` | creation of accounts, passwords, cookies, reset links, lockout |
| `Figures` | totals, VAT regimes, Peppol XML and its validation |
| `MC*` | symmetry sets and function-valued constants for TLC; the other constants are in the `.cfg` files |
| `*Proofs` | theorems and their proofs |

`InvoiceStatuses` is used by `InvoiceLifecycle` and `CreditNotes`;
`InvoiceLifecycle` refines `InvoiceLedger`, `Restore` refines `AtomicRestore`. The names in
`CreditNotes`, `PaymentPool` and `Figures` differ from those in `InvoiceLifecycle`
(`CreditSpec`, `PoolSpec`, `FiguresSpec`), so that `InvoicesProofs` can use all four. The other
modules meet at what one assumes of another, which each header says: `CreditNotes` takes
status changes as one step because `InvoiceLifecycle` shows it may, `Files` and `Backups`
take a restore as the few steps `Restore` opens up.

Operators whose names end in an underscore and a word (`AcquireLock_Unlocked`) are
mutations: the definition after them as a plausible bug would have it. They are
used in no specification, only to confirm that a property notices the bug.

### DocumentNumbers

A document is its number, a record of series (prefix with year) and sequence
number. `Begin` is a creating handler up to its commit (`create_invoice`,
`duplicate_invoice`, `create_credit_note`, `create_quote`, `convert_quote_to_invoice`
all have this form): the number is computed from what is committed, and no lock is
held. `AcquireLock`, `CommitDocument`, `RollBack` and `Regenerate` are the loop of
`commit_with_number_retry`; `LogCreation` is the second commit, `LogFails` the exception
that it or the `db.refresh` before it may raise. `NextSeq` is written
as a set with one element, because a maximum of a set that may be empty would be
harder to prove about. `DeleteDraft` takes no lock, as in `delete_invoice` and
`delete_quote`; if it deletes the document a handler has just stored, that handler
fails in `db.refresh` and never logs. `Issue` is every status change out of draft.

`Gap` is what `find_number_gaps` reports. `CheckGap` and `AcknowledgeGap` are the two
halves of `acknowledge_number_gap`: the number is looked for among the open gaps, and the
note is committed later. `everUsed` and `lost` are history variables, `unlogged` the
documents whose creation is not in the audit log; `lost` the documents whose handler ended
between its two commits, with an exception or with the process.

Only documents created in the application take part: a restore may bring back an
older database (`Restore`), which starts this specification anew.

### InvoiceLifecycle and InvoiceLedger

`inv` is the table of invoices, each with the total of its items; `pay` the payment
rows; `date` the dates of payment; `trail` the newest audit row about the status; `req`
what each running handler has read. Each handler is two steps: `ReadFor...`, the read and
all checks, and `Commit...`, everything it writes. `OpenLocked` takes the payment lock
before the read; edits, deletions and the date of payment do not take it.
`TriggerAllows` is the database's last word, `CommitFails` the transaction it
refuses. Handlers that use nothing they read before (create, duplicate) are one step.
A payment handler reads its balance again after the flush of its own row, in its
own transaction, so `CommitPayment` decides with the present balance. `AddRest` is the
payment that marking an invoice paid by hand adds, `DatePaid` the date it sets if there was
none when it read. `cleared` is history: a user removed the date and none came since.

`InvoiceLedger` is the promise: six operations (write, discard and issue a draft,
record payments, mark paid, cancel) without requests, locks or triggers.
`RefinesLedger` is `InvoiceLedger!Spec` under the mapping of statuses, totals, kinds
and the sum of the payments.

### CreditNotes

The document table again, but with the links to originals. The interest is in what
`create_credit_note` adds up (`Credited`) against everything that changes the sum
meanwhile. Event-loop handlers are two steps with `working` between them; status
changes and deletions run in threads and are one step, because `InvoiceLifecycle`
shows that what they decide on is still so when they commit.

### Quotes

As `InvoiceLifecycle`, without triggers. A conversion remembers its items (`content`),
the series of its invoice and whether the number it computed is still free. Other
documents of the series make it not free (`Taken`), which leads to `RollBackConvert` and
`CommitRetry` under the number lock. `MayDelete` is the foreign key.

### PaymentPool

The places a request passes from arrival to the release of the lock, and which of them
occupy a thread. `Tokens` is the size of the pool. Leaving the dependencies uses a
limiter of its own in FastAPI and is never blocked. `Stuck` is the pool that waiting
requests have taken while the holder of the lock needs a thread. `TurnsEndUnlessPoolIsFull`
says that this is the only way a turn does not end, also with fewer threads than requests.

### Restore and AtomicRestore

`db` and `files` are the photos the live database and the live uploads directory know.
One action per step of `restore_from_upload`, of `_rollback_to_safety_backup` and of
`recover_interrupted_restore`, in the order of the code; `SwapFails` and
`RollbackFails` are the exceptions, `Crash` may come between any two steps, `Start` is
the start of the application. `start.sh` runs with `set -e`, so a recovery that fails
keeps the application down until the next start. Extracting the uploads or
copying a directory is one step: a crash in the middle of it leaves the journal, and
recovery starts by wiping the directory, so half a directory is treated like a whole
wrong one.

`AtomicRestore` knows one whole backup as the account, and a request that is applied or
refused. The mapping takes the account from the journal while there is one, and from
the live data when there is none.

### Backups

A backup is what a restore would find in it: is the file whole, does its database name a
photo that its uploads lack, is it from before the migration. `zips` holds them by
kind and age, `remote` whether each object in the bucket is good, `status` the parts of
`backup-status.json` that are judged later.

`run_backup` is `Acquire` (lock, and read the status file), `Snapshot` of the database,
`WriteZip` with the uploads of that later moment, `Verified` or `NotVerified`, `Retain`,
`Upload` or `NoUpload`, `Save`; `RunFails` and `SaveFails` are the exceptions, and a photo
deleted between snapshot and write (`ChangePhoto`) is what makes a backup incomplete.
A status file that cannot be read counts as an empty one (`ReadStatus`; the run is `blind`),
a failure that cannot be written leaves the file as it was (`Leave` beside `RecordFailure`),
and an object in the bucket may be good although its test download failed (`Upload`).
`SchedulerAsks` follows `backup_due`, `UserAsks` is the button, `StartAsks` the backup of
`start.sh` before a pending migration. `OpenSafety`, `WriteSafety` and `EndRestore` are a
restore as far as it touches backup files: it takes no backup lock, and its safety backup
has its name before it has its content. `RecoverRestore`, `BackupsEnd`, `Migrate` and
`MigrateFails` are `start.sh`. `Warnings` is `backup_overview` and `Problems` is
`monitoring.collect`, which asks after backups only when `BackupsEnabled`. Being younger
than the interval or the retry pause are the flags `fresh` and `recent`, which time may end
at any moment.

### Files

`rows` and `files` are the photos in the database and in the directory, a row with its id
and its file's name; `logo`, `logoFiles` and `temps` the same for the logo, with staged files.
An id is the largest one plus 1, as SQLite gives it without AUTOINCREMENT (`NextId`), so the
id of a deleted photo comes back; `CommitDeletion` deletes the row by the id it read and
remembers the file by the name it read. `strays` are the photos whose row went that way in
place of another's. `WritePhoto`,
`CommitPhoto` and `CommitPhotoFails` are `upload_job_photo`; `ReadPhoto`,
`CommitDeletion`, `DeletionFails` and `RemovePhoto` the deletion with the session hooks of
`models.py`. `ReadRows`, `ListFiles` and `RemoveOrphans` are the clean-up, in the order
`check_integrity` reads. `LoadCompany`, `StageLogo`, `SaveCompany`, `ReplaceLogo` and
`RemoveOldLogo` are `settings_save`; it gives the event loop away while the upload comes
in, which is why two saves can meet. `WriteFails`, `StageFails` and `ReplaceFails`, and the second
branches of the actions that remove a file, are the disk that refuses. `SwapDatabase` and
`SwapUploads` are a successful restore of any rows that were once stored, with exactly their
files. `loop` is who holds the event loop.
`clash` and `torn` are history: they record that two requests met or that a file of the logo
could not be replaced or removed, and the invariants say what holds when that did not happen. `FilesOutliveRows` needs no such condition; it names
the two meetings in which a file does go before its row.

### Accounts

`rows`, `hash` and `data` are an account's row, password hash and directory by slug.
Hashes are numbered because a salt makes each new. Registration (`BeginRegister`,
`EnterCreation`, `InsertRow`, `InsertAgain`, `Provision`), the owner's page and the command
line share their actions and differ where the code does: a registration leaves the
creation lock after the INSERT, the owner's page keeps it, the command line is another
process with a lock of its own. `ProvisionFails`, `UndoRow` and `RemoveDirectory` are the
compensation, and `UndoFails` is its commit when that raises, most plausibly on the disk that
was too full for the directory. `broken` are the rows such a creation, or one that died, left
without a directory. A password check is two steps, `Begin...` and `LogIn`, `CommitPassword` and
so on. A cookie is the slug and the number of a hash (the fingerprint); it
is accepted while that is the account's hash, and can be sent again at any time; `sure` tells cookies of the hash that was checked from
those of a hash read again after a commit. `counter` are the limits kept in memory.

### Figures

Pure operators for `calculate_invoice_totals`, the VAT checks, `generate_peppol_xml` and
`validate_peppol_invoice_xml`, in whole cents with the two roundings the code uses, on top of
a small state machine in which settings and customer change before and after the invoice
is made (`SaveInvoice`). The reference is the exact amount in hundredths of a cent. A sum is
taken over a set of positions or rates (`SumOver`), as equal items count twice; the breakdown
and the subtotals of the XML are functions from the rates, because the code groups by rate.

## Runs

| Run | Instance | Properties |
|---|---|---|
| `document_numbers` | 3 handlers, 2 series, numbers up to 2, 3 attempts; 1 028 451 states | `TypeOK` (unique numbers), `AtMostOneRetry`, `GapsAreDeletedDrafts`, `NotesAreAboutDocuments`, `LogIsLostOnlyBetweenCommits` |
| `invoice_lifecycle` | 1 document of any kind, 2 threads and the loop, totals 0, 2 and 3, 3 payment rows, 2 dates; 67 051 states | `TypeOK`, `RefinesLedger`, `IssuedIsFrozen`, `HistoryIsAChain`, `HistoryEndsInStatus`, `PaidHasDate` |
| `quotes` | 1 quote, 2 invoices, 2 contents, 2 series, 3 threads and the loop; 38 658 states | `InvoiceHasItsQuote`, `ConversionIsAtomic` |
| `credit_notes` | 4 documents, totals 1 to 3; 565 242 states | `CreationRespectsCap`, `CorrectsIssued` |
| `restore` | 2 photos, one failing operation, two crashes; 1 948 states | `RefinesAtomicRestore`, `ServedWhole`, `NothingLeftBehind`, `JournalIsSettled` |
| `payment_pool` | 4 requests, 3 threads; 612 states | `TurnsEndUnlessPoolIsFull` |
| `backups` | one backup kept of each kind and two from before an upgrade, one off site, 2 remote objects, 2 faults, 1 change, backups switched on; 457 547 states | `TypeOK`, `SuccessLeavesGoodBackup`, `SilenceMeansCopies`, `SafetyBackupSurvives`, `PristineCopySurvives`, `OffsiteKeepsGood`, `SuccessIsNotForgotten`, `BackedUpAgain` |
| `files` | 2 photos, 2 requests, 2 extensions, one failing commit, one crash or refused file operation; 3 966 387 states | `NoOrphanPhotos`, `LogoHasItsFile`, `FilesOutliveRows` |
| `accounts` | 2 requests, 2 names, 2 passwords, 2 slugs, 1 account, 2 tries, 2 new hashes, a limit of 1 on the address; 670 163 states | `RegistrationsWithinLimit`, `EveryAccountHasData`, `ResetOnce`, `LoginProvesPassword`, `GuessesAreBounded` |
| `figures` | up to 2 items of quantity 0.33, 0.5 or 1, price 0.01, 0.10 or 1.99, rate 0, 5 or 23 %; 120 464 states | `TotalsAreNear`, `NoUnlawfulVat`, `OnlyPartiesAndHalfCents` |
| `one_invoice_per_quote` | 1 quote, 2 invoices, 2 threads | **violated**: `OneInvoicePerQuote` |
| `payment_pool_full` | 3 requests, 2 threads | **violated**: `EveryTurnEnds` |

Why the bounds are enough. Three numbering handlers are one that holds the lock, one
that collides with it and one that computed the same number earlier; sequence numbers
up to 2 give every collision, an empty and a shrinking series, and a gap. One invoice is
enough for `InvoiceLifecycle`: nothing but the lock relates two, and two threads and the
loop exercise the lock and every race between two handlers; a total of 3 with payments of
1 to 3 has partial, exact and refused payments, and 0 the invoice that is settled at once.
Four requests and three threads are a pool that its waiting requests can fill and one that
they leave room in, in the same run. Four documents are an original, two credit notes and one that replaces a deleted one. Two
crashes are one in the restore and one in its recovery. With one backup kept of each kind
every new backup makes the retention delete; two faults are a failed run and a crash or a
failed migration after it, and one change is the photo that goes amid a run or the
restore beside it. Two tasks on files are any two requests that meet, and two photos the one
that two deletions read and the one that gets its id; what three add is proved. In `accounts` two requests race for one place, one slug or
one link, with the command line among them; the safety theorems hold for any number. The
quantities and prices of `figures` produce half cents in lines and in the tax, with one and with two
rates.

`CHECK_DEADLOCK FALSE` appears where the instance runs out of ids or numbers
(`document_numbers`, `invoice_lifecycle`, `credit_notes`). The application itself does not
stop, except in `payment_pool` and `payment_pool_full`, where stopping is the subject.

Fairness. `Restore` has weak fairness of `Proceed`: once it began, a restore or a
recovery is straight-line code that waits for nobody, and the container restarts a process
that ended. Failures and crashes are never forced, and are bounded per restore.
`PaymentPool` has weak fairness for each request: threads run, and anyio hands free
threads out in order of arrival. Nothing is assumed about which waiting thread gets a
`threading.Lock`, which is why no property says that each request is answered, only that
each turn ends. `Backups` has weak fairness of the start sequence and of whoever holds the
backup lock (straight-line code), of the scheduler's question (a loop of its own,
`BackupScheduler`) and of the end of the retry pause (time passes), and strong fairness of
the scheduler's lock, since others, runs for other accounts too, take it only when somebody asks. Nobody is assumed to
ask for a backup, and no fault to happen or not to happen within its bound. The other
specifications have safety properties only.

### What was found

Two statements of the repository are violated by what the code does, each with a run:

1. `OneInvoicePerQuote` (`README.md:214`): two conversions that both read the quote as
   convertible both succeed.
2. `EveryTurnEnds` with a full pool (`README.md:201`): threads that wait for the payment
   lock starve its holder, and no step of a request ever frees such a pool
   (`FullPoolIsForEver`). Nothing else keeps a turn from ending (`payment_pool`).

The models reproduce more such behaviour. The properties are stated around it, and it is
listed here for whoever changes the code:

* The audit row of a new document is a second commit, though `audit_log.py:4-10` promises
  the same transaction: an exception (no space, a lock held beyond the busy timeout) or a
  crash between the two loses it, with the document stored. `LogIsLostOnlyBetweenCommits`
  says that nothing else does.
* Editing the draft of a credit note can exceed the original, which
  `routers/invoices.py:1243` says never happens; `CreationRespectsCap` is about creation.
* `update_quote` (`routers/quotes.py:512`) and `update_quote_status`
  (`routers/quotes.py:675`) commit on a status they read earlier, against the rule of
  `routers/quotes.py:47-49`.
* The date of payment may be removed while the invoice is being marked paid, so a paid
  invoice without a date exists, though `main.py` calls it impossible; `PaidHasDate`
  allows what a user removed.
* A number acknowledged as a gap, handed out again and deleted again is not reported twice.
* A second failure in one restore serves mixed data with the journal left
  (`backup_utils.py:841`); `ServedWhole` is about one failure.
* A success whose status file cannot be written raises, though the docstring of
  `run_backup` says it never does (`SaveFails`).
* A clean-up that read the rows before an upload committed deletes the new photo, against
  `integrity_check.py:274-283`; it can also remove a staged logo, so that finalising raises
  after the commit. A crash or another save between commit and replacement leaves a row
  naming a logo that is not there (`uploads_utils.py:306-316`). A refused signature leaves
  the staged logo behind.
* Photo ids come back (`models.py:266`). Two requests read photo A to delete it, one commits,
  an upload gets A's id for photo B, and the other deletes B's row and A's file: B's photo is
  lost to its job and its file stays for ever, what the hook of `models.py:917-925` is there to
  prevent. `NoOrphanPhotos` excepts exactly these photos (`strays`); the clean-up finds them.
* The compensation of a failed registration runs outside the creation lock and may remove
  the directory of an account that took the same slug meanwhile; and its own commit may fail
  (`routers/auth.py:248-249`, `account_service.py:89-90`), which leaves a row without data
  (`broken`).
* `README.md:121` says that logins on other devices stay valid after a change of the password;
  `README.md:123` and `README.md:129`, `AUDIT.md:65` and `AUDIT.md:85`, the code and its tests say that they end.
  `LoginProvesPassword` states the latter, which is what holds.
* A backup status file that cannot be read is taken for an empty one, and the run that did so
  writes over what it said; a failure that cannot be written is not reported by the settings page
  or the monitor. `SuccessIsNotForgotten` excepts the first; `SilenceMeansCopies` holds with both.
* The XML rounds half cents of a line to even while totals round them up
  (`OnlyPartiesAndHalfCents` allows BR-CO-10 and BR-08 there and nowhere else).

## Proofs

All constants are arbitrary in the theorems, up to the named assumptions of the modules.

| Module | Theorem: property |
|---|---|
| `DocumentNumbersProofs` | `TypeCorrect`: `TypeOK`; `OneRetryIsEnough`: `AtMostOneRetry`; `NumberingSkipsNothing`: `GapsAreDeletedDrafts`; `NotesAreSound`: `NotesAreAboutDocuments`; `LogSurvivesRetries`: `LogIsLostOnlyBetweenCommits` |
| `InvoicesProofs`, invoices | `LifecycleTypeCorrect`: `TypeOK`; `LedgerIsKept`: `RefinesLedger`; `HistoryIsUpToDate`: `HistoryEndsInStatus`; `HistoryChains`: `HistoryIsAChain`; `IssuedStaysFrozen`: `IssuedIsFrozen`; `PaidIsDated`: `PaidHasDate` |
| `InvoicesProofs`, credit notes | `CreditNotesTypeCorrect`: `CreditTypeOK`; `CreditNotesCorrectIssued`: `CorrectsIssued`; `CreationStaysWithinCap`: `CreationRespectsCap` |
| `InvoicesProofs`, threads | `PoolTypeCorrect`: `PoolTypeOK`; `PaymentsExclude`: `OneAtATime`; `FullPoolIsForEver`: a pool full of waiting requests stays so, for any number of requests and threads |
| `QuotesProofs` | `QuotesTypeCorrect`: `TypeOK`; `LinksAreSound`: `InvoiceHasItsQuote`; `ConversionsAreAtomic`: `ConversionIsAtomic` |
| `RestoreProofs` | `RestoreTypeCorrect`: `TypeOK`; `RestoreLeavesNothing`: `NothingLeftBehind`, for any number of failures; `ServedDataAreWhole`: `ServedWhole`, and `RestoreIsAtomic`: every initial state and step is one of `AtomicRestore`, for one failure per restore |
| `FilesProofs` | `FilesTypeCorrect`: `TypeOK`; `FilesStay`: `FilesOutliveRows`; `NoPhotoIsLeft`: `NoOrphanPhotos`; `LogoIsThere`: `LogoHasItsFile` |
| `AccountsProofs` | `AccountsTypeCorrect`: `TypeOK`; `RegistrationsLimited`: `RegistrationsWithinLimit`; `AccountsHaveData`: `EveryAccountHasData`; `LinkWorksOnce`: `ResetOnce`; `CookiesProvePassword`: `LoginProvesPassword`; `GuessesBounded`: `GuessesAreBounded` |
| `BackupsProofs` | `BackupsTypeCorrect`: `TypeOK`; `SuccessIsOnDisk`: `SuccessLeavesGoodBackup`; `SafetyBackupStays`: `SafetyBackupSurvives`; `PristineCopyStays`: `PristineCopySurvives`; `SilenceIsSafe`: `SilenceMeansCopies`; `OffsiteGoodStays`: `OffsiteKeepsGood`; `SuccessStays`: `SuccessIsNotForgotten` |
| `FiguresProofs` | `FiguresAreNear`: `TotalsAreNear`; `VatIsLawful`: `NoUnlawfulVat`; `ExportsAreValid`: `OnlyPartiesAndHalfCents` |

The arguments:

* *Numbering.* `attempt <= 1` is not inductive. The strengthening says that whoever
  holds the lock after a roll back has a number nobody has stored: only the holder of the
  lock stores documents, and deletions only free numbers. So the second commit cannot
  collide, and the code's limit of attempts is never reached. That there are no holes needs that
  every number a handler carries is at most one above a number that was once used; a gap
  that was reported lies below one, so it was used itself.
* *Invoices.* The invariant ties each running request to the invoice it read: a status or
  payment request holds the lock, and as long as it does the status it read changes only
  from draft, by a deletion. The history theorems follow, because every
  status change commits its row with the change. `IssuedIsFrozen` needs the triggers:
  edits and deletions commit only on drafts. `PaidHasDate` needs that a status request which
  saw a date and finds none at its commit does so because a user removed it.
* *The ledger.* `RefinesLedger` is proved in full: initial states, and each action as one of
  the six operations or none. What a payment handler decided on must still be so when it
  writes, so the invariant (`BooksInv`) adds that whoever holds the payment lock for an
  invoice saw the balance and the payment row there still are, that payments never exceed the
  total, and that drafts and credit notes have none. An edit may change the total only of a
  draft, and a draft has no payments.
* *Quotes.* An invoice's quote is present because conversion needs the row to update and
  deletion needs that no invoice refers to it, both at commit time.
* *Credit notes.* The original a running request read is issued, and issued documents
  stay so under every status change. For the cap, `CapInv` says that what the handler on the
  event loop checked still fits: until it commits the others can only take away from the
  sum, since a cancelled document is final, the lines of another draft are rewritten only
  on the same event loop, and a document that is gone corrects nothing.
* *Payment pool.* In a full pool every thread is held by a request that waits for the lock,
  none of which is the holder (`OneAtATime`); so no request can take, open or leave anything, and
  whoever arrives only queues (`StuckMeansNoThread`).
* *Restore.* `RestoreInv` says for each place in the code what the database and the files
  hold there: while the journal exists, the safety backup it names is whole; when there is none
  outside of a swap, the live data are. Each step is then a request, an
  application, a refusal or a stutter of `AtomicRestore`.
* *Backups.* `BackupInv` ties the run that has the lock to the newest file of its kind and to
  the status it read: what it read, if it could, is still there (`ReadInv`), and what it has verified is
  good and the newest (`FileInv`), so the retention never reaches it. The good backup a status speaks of
  is never the one still being verified, which a failed check removes (`GoodInv`). For the
  copy from before a migration the invariant counts: behind it there are fewer files than
  there were starts, those to come included (`PristineInv`). Lemmas about the end of
  a sequence say what the retention keeps.
* *Files.* A photo just written is named by no other request while its own holds the loop; a
  row that was deleted comes back only by a restore; a swap finds the rows it brought, or
  fewer; what a clean-up calls orphans is disjoint from the rows it read. A file without a row
  is a photo some request still has in hand (`Known`), or one whose row another deletion took by
  its id (`strays`), so no step depends on ids being new; and as long as none has met another,
  one request at a time looks at the logo, and each place of it says what it knows (`LogoInv`).
* *Accounts.* Hash numbers are never used again, so whatever a request read, a link or a
  cookie names one password (`Fresh`, `Spent`, `Seen`): a link whose hash is still current was
  not used, and a cookie that is still accepted is of the hash its owner proved. A
  registration that is inserting holds the lock and found a free place (`Limited`). A slug
  that a creation gives up, whether its compensation commits, fails or meets another creation, is
  recorded, which is all the step of `EveryAccountHasData` needs (`ProvidedStep`). The counter and the
  guesses under way together stay below the limit plus the number of requests (`Bounded`).
* *Sums.* Payments, credit notes and totals are folds that take the elements in an order
  `CHOOSE` fixes. `FiguresProofs` first shows that the order does not matter: a fold over a
  finite set loses any element it is asked to (`TotalRemove`), and from that how a sum changes,
  what is summed over a union, and that a sum by key is the sum (`TotalByKey`). The
  induction is over sets, not over a predicate: the family of subsets for which the claim holds
  contains the empty set and grows by one element, so it has them all (`SubsetInduction`).
* *Figures.* The states say little (`FiguresInv`: an invoice has items, and only the rate
  zero if its maker must not charge). The rest holds of every list of items: a rounding is off by
  half a unit, the errors of n lines add up to n halves (`TotalNear`), the two
  roundings differ on half cents only (`RoundingsAgree`), and each rule of the validation is
  kept or is one the property excepts.

Model-checked only: liveness (`JournalIsSettled`, `TurnsEndUnlessPoolIsFull`, `BackedUpAgain`), since
fairness and ENABLED are out of the prover's reach. Every invariant, action property and
refinement of the runs that pass has a theorem. What remains assumed there: `RestoreIsAtomic` and
`ServedDataAreWhole` are about at most one failing operation per restore, because two leave
mixed data (see above).

## What is left out, and what it means

* Texts, wording, images: a document is its total in cents, a photo its name. Dates are
  tokens; that the year of a number follows the date of issue is part of the series.
* Numbers as text: a mistyped year "202" is a prefix of every number of 2026
  (`invoice_utils.py:14`). `DocumentNumbers` takes no prefix to begin another.
* Ids that SQLite gives again are modelled for photos only. An invoice, a quote or an account
  is its number, its own identity or its slug in the other modules.
* A restore in `Files` brings a backup that has exactly the files of its rows; `Backups` says
  when a backup has.
* Failed checks change nothing and have no action unless a property needs them.
* Lifecycle handlers that began before a restore and commit after it: only photos are
  modelled so (`Files`).
* Counters of registrations and of reset mails per address, logout, request checks, the
  e-mail flag; being switched off is a free choice at each login (`SwitchedOff`).
* Warnings of age, of a failed verification and of a missing bucket only add to `Warnings`
  and `Problems`. Encryption of off-site copies is a function of its library;
  `offsite_restore.py` downloads and changes nothing else.
* A development server started without `start.sh` continues after a failed recovery.
* Migrations change schemas: `Backups` knows only before, amid and after.
* Forms of jobs, customers and reminders that write a row of their own in one commit; PDF,
  QR and tables; dashboard, search, templates, mail and look-ups.

## Plan

Done: all components with state that several actors change. What would come next:

1. Numbers as text, with prefixes of which one begins another.
2. The limits of registrations and reset mails by address, on the pattern of `GuessesAreBounded`.
3. Invoice handlers across a restore: a composition of `InvoiceLifecycle` and `Restore`.
