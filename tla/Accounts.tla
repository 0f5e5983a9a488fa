------------------------------ MODULE Accounts ------------------------------
(***************************************************************************)
(* The accounts of the server: how one is made (registration, the owner's  *)
(* page, the command line), how its directory is provisioned and the row   *)
(* taken back when that fails, and how the password, the login cookies and *)
(* the links of a forgotten password go together.  Handlers run in worker  *)
(* threads; checking a password takes a third of a second, so what was     *)
(* read before it is old when it is used.  A cookie is signed and lives in *)
(* the browser: once issued it can always be sent again, and only the      *)
(* fingerprint of the password hash in it can make it worthless.  The      *)
(* command line is a process of its own, with a creation lock of its own.  *)
(***************************************************************************)
EXTENDS Naturals, FiniteSets

CONSTANTS
  Requests,     \* handlers and command line calls at work at one time
  Names,        \* user names; slugify_username gives all of them one base slug
  Passwords,
  MaxSlug,      \* bound: slug 1 is the base, slug n is base-n
  MaxAccounts,  \* max_accounts(); not 0, which means no limit (auth.py:564)
  MaxTries,     \* attempts of register_submit to insert the row
  MaxHash,      \* bound: password hashes ever made
  Address,      \* the address all requests come from
  Keys,         \* the counters kept: of names, and of the address
  Limit,        \* and their limits
  NoName, NoRequest, NoPassword

Slugs == 1..MaxSlug

ASSUME AccountsAssumption ==
  /\ IsFiniteSet(Requests) /\ NoRequest \notin Requests
  /\ NoName \notin Names /\ NoPassword \notin Passwords
  /\ MaxSlug \in Nat \ {0} /\ MaxAccounts \in Nat \ {0}
  /\ MaxTries \in Nat /\ MaxHash \in Nat
  /\ Keys \subseteq Names \union {Address}
  /\ Limit \in [Keys -> Nat \ {0}]

VARIABLES
  rows,     \* accounts.db: the name at each slug
  hash,     \* password_hash of each row
  data,     \* the directory of each slug
  lock,     \* account_service.creation_lock of the server
  cookies,  \* login cookies issued with a hash that was current then
  counter,  \* failed logins by name and address, registrations, reset requests
  made,     \* number of hashes made so far; names the next one
  task,     \* what each request is doing
  broken,   \* history: slugs whose row a creation left without its directory
  owed,     \* history: slugs whose row a registration inserted
  resets    \* history: how often a link for a hash changed the password

accountVars == <<rows, hash, made>>
creationVars == <<data, lock, broken, owed>>
loginVars == <<cookies, counter, resets>>
vars == <<accountVars, creationVars, loginVars, task>>

Ids == 0..MaxHash
Hash == [id : Ids, pw : Passwords \union {NoPassword}, weak : BOOLEAN]
NoHash == [id |-> 0, pw |-> NoPassword, weak |-> FALSE]
Places == {"idle", "queued", "insert", "provision", "undo", "remove",
           "verify", "refresh", "reset"}
Kinds == {"register", "create", "command", "reattach", "login", "change", "email", "reset"}
Outside(r) == task[r].kind \in {"command", "reattach"}  \* manage_accounts.py
Task == [at : Places, kind : Kinds, name : Names \union {NoName}, slug : Slugs,
         seen : Hash, found : BOOLEAN, pw : Passwords \union {NoPassword},
         new : Passwords \union {NoPassword}, tries : Nat]

Taken(n) == \E s \in Slugs : rows[s] = n
Rows == {s \in Slugs : rows[s] # NoName}
LoginKeys(n) == {n, Address} \intersect Keys
Locked(n) == \E k \in LoginKeys(n) : counter[k] >= Limit[k]
Move(r, t) == task' = [task EXCEPT ![r] = t]
Idle == [at |-> "idle", kind |-> "login", name |-> NoName, slug |-> 1, found |-> FALSE,
         seen |-> NoHash, pw |-> NoPassword, new |-> NoPassword, tries |-> 0]
Done(r) == Move(r, Idle)
GoOn(r, p, s, h, n) ==
  Move(r, [at |-> p, kind |-> task[r].kind, name |-> task[r].name, slug |-> s, found |-> task[r].found,
           seen |-> h, pw |-> task[r].pw, new |-> task[r].new, tries |-> n])
Goto(r, p) == GoOn(r, p, task[r].slug, task[r].seen, task[r].tries)
Count(ks) == counter' = [k \in Keys |-> IF k \in ks THEN counter[k] + 1 ELSE counter[k]]
Clear(ks) == counter' = [k \in Keys |-> IF k \in ks THEN 0 ELSE counter[k]]
Unlock(r) == lock' = IF lock = r THEN NoRequest ELSE lock

(* hash_password: a fresh salt makes every hash new, also of one password. *)
NewHash(p) == [id |-> made + 1, pw |-> p, weak |-> FALSE]
Store(s, p) ==
  /\ made < MaxHash
  /\ made' = made + 1
  /\ hash' = [hash EXCEPT ![s] = NewHash(p)]
  /\ cookies' = {c \in cookies : c.slug # s}

(* login_user: the cookie with the fingerprint of a hash.  The history     *)
(* fields say which password its owner typed, and whether the hash is the  *)
(* one that password was checked against.  Cookies of hashes that are gone *)
(* are forgotten: no later hash has their fingerprint.                     *)
Cookie == [slug : Slugs, id : Ids, knew : Passwords \union {NoPassword}, sure : BOOLEAN]
Issue(s, i, p, sure) ==
  cookies' = IF i = hash[s].id
               THEN cookies \union {[slug |-> s, id |-> i, knew |-> p, sure |-> sure]}
               ELSE cookies

(* _session_is_current, of an account that is switched on                  *)
Current(c) == rows[c.slug] # NoName /\ hash[c.slug].id = c.id

-----------------------------------------------------------------------------
(* Making an account                                                       *)

(* ensure_unique_slug: the first free one.                                 *)
FreeSlug == {s \in Slugs \ Rows : \A t \in 1..(s - 1) : t \in Rows}

NewTask(kind, n, p, at, s) ==
  [at |-> at, kind |-> kind, name |-> n, slug |-> s, found |-> TRUE, seen |-> NoHash,
   pw |-> p, new |-> p, tries |-> 1]

(* register_submit up to the lock: the checks that may be out of date.     *)
BeginRegister(r, n, p) ==
  /\ task[r].at = "idle"
  /\ Cardinality(Rows) < MaxAccounts
  /\ ~Taken(n)
  /\ Move(r, NewTask("register", n, p, "queued", 1))
  /\ UNCHANGED <<accountVars, creationVars, loginVars>>

(* account_service.create_account of the owner's page and command line.    *)
BeginCreate(r, kind, n, p) ==
  /\ task[r].at = "idle"
  /\ Move(r, NewTask(kind, n, p, "queued", 1))
  /\ UNCHANGED <<accountVars, creationVars, loginVars>>

(* manage_accounts.reattach: a name for a directory without an account.    *)
BeginReattach(r, n, p, s) ==
  /\ task[r].at = "idle"
  /\ s \notin Rows /\ data[s] # "none" /\ ~Taken(n)
  /\ Move(r, NewTask("reattach", n, p, "insert", s))
  /\ UNCHANGED <<accountVars, creationVars, loginVars>>

Enters(r) == task[r].at = "queued" /\ (Outside(r) \/ lock = NoRequest)

(* Mutation of Admitted: the limit is only looked at outside the lock.     *)
Admitted_NoRecheck(r) == ~Taken(task[r].name)

(* The checks of register_submit and create_account under the lock.        *)
Admitted(r) ==
  /\ ~Taken(task[r].name)
  /\ task[r].kind = "register" => Cardinality(Rows) < MaxAccounts

EnterCreation(r) ==
  /\ Enters(r) /\ Admitted(r)
  /\ \E s \in FreeSlug : GoOn(r, "insert", s, task[r].seen, task[r].tries)
  /\ lock' = IF Outside(r) THEN lock ELSE r
  /\ UNCHANGED <<accountVars, loginVars, data, broken, owed>>

RefuseCreation(r) ==
  /\ Enters(r) /\ ~Admitted(r)
  /\ Done(r)
  /\ UNCHANGED <<accountVars, creationVars, loginVars>>

Unique(r) == rows[task[r].slug] = NoName /\ ~Taken(task[r].name)

(* The INSERT commits.  A registration leaves the lock with it; the others *)
(* keep it over the provisioning.                                          *)
InsertRow(r) ==
  /\ task[r].at = "insert" /\ Unique(r)
  /\ Store(task[r].slug, task[r].pw)
  /\ rows' = [rows EXCEPT ![task[r].slug] = task[r].name]
  /\ owed' = IF task[r].kind = "register" THEN owed \union {task[r].slug} ELSE owed
  /\ GoOn(r, "provision", task[r].slug, NewHash(task[r].pw), task[r].tries)
  /\ IF task[r].kind = "register" THEN Unlock(r) ELSE lock' = lock
  /\ broken' = broken \ {task[r].slug}
  /\ UNCHANGED <<data, counter, resets>>

(* IntegrityError: the command line was faster.  Only register_submit      *)
(* tries again, with the slug that is free now.                            *)
InsertAgain(r) ==
  /\ task[r].at = "insert" /\ ~Unique(r)
  /\ task[r].kind = "register" /\ task[r].tries < MaxTries
  /\ \E s \in FreeSlug : GoOn(r, "insert", s, task[r].seen, task[r].tries + 1)
  /\ UNCHANGED <<accountVars, creationVars, loginVars>>

InsertGivesUp(r) ==
  /\ task[r].at = "insert" /\ ~Unique(r)
  /\ task[r].kind # "register" \/ task[r].tries >= MaxTries
  /\ Done(r) /\ Unlock(r)
  /\ UNCHANGED <<accountVars, loginVars, data, broken, owed>>

(* provision_account, and the end of the handler.  register_submit logs    *)
(* the new user in with the hash the row had when it was read again.       *)
Provision(r) ==
  LET s == task[r].slug IN
  /\ task[r].at = "provision"
  /\ data' = [data EXCEPT ![s] = "ready"]
  /\ IF task[r].kind = "register"
       THEN \E h \in {task[r].seen, hash[s]} :
              Issue(s, h.id, task[r].pw, h = task[r].seen)
       ELSE UNCHANGED cookies
  /\ Done(r) /\ Unlock(r)
  /\ UNCHANGED <<accountVars, counter, broken, owed, resets>>

(* provision_account raises.  reattach has no compensation.                *)
ProvisionFails(r) ==
  LET s == task[r].slug IN
  /\ task[r].at = "provision"
  /\ data' = [data EXCEPT ![s] = IF @ = "none" THEN "partial" ELSE @]
  /\ IF task[r].kind = "reattach"
       THEN Done(r) /\ Unlock(r) /\ broken' = broken \union {s}
       ELSE Goto(r, "undo") /\ UNCHANGED <<lock, broken>>
  /\ UNCHANGED <<accountVars, loginVars, owed>>

(* Mutation of UndoRow: the compensation removes the directory only.       *)
UndoRow_KeepsRow(r) ==
  /\ task[r].at = "undo"
  /\ Goto(r, "remove")
  /\ UNCHANGED <<accountVars, creationVars, loginVars>>

(* The compensation deletes the row.  From here to RemoveDirectory the     *)
(* slug is free for others: always when the creation lock is not held.     *)
UndoRow(r) ==
  LET s == task[r].slug IN
  /\ task[r].at = "undo"
  /\ rows' = [rows EXCEPT ![s] = NoName]
  /\ hash' = [hash EXCEPT ![s] = NoHash]
  /\ owed' = owed \ {s}
  /\ cookies' = {c \in cookies : c.slug # s}
  /\ Goto(r, "remove")
  /\ UNCHANGED <<data, lock, broken, made, counter, resets>>

(* The commit of the compensation raises (the disk that was too full for   *)
(* the directory is too full for it as well): the row stays.               *)
UndoFails(r) ==
  /\ task[r].at = "undo"
  /\ broken' = broken \union {task[r].slug}
  /\ Done(r) /\ Unlock(r)
  /\ UNCHANGED <<accountVars, loginVars, data, owed>>

(* shutil.rmtree(..., ignore_errors=True), of whatever is there by now:    *)
(* another creation may have taken the slug and stored its data there.     *)
RemoveDirectory(r) ==
  LET s == task[r].slug IN
  /\ task[r].at = "remove"
  /\ \E d \in {"none", data[s]} : data' = [data EXCEPT ![s] = d]
  /\ broken' = IF rows[s] # NoName THEN broken \union {s} ELSE broken
  /\ Done(r) /\ Unlock(r)
  /\ UNCHANGED <<accountVars, loginVars, owed>>

-----------------------------------------------------------------------------
(* Passwords                                                               *)

Password(kind, n, s, p, q) ==
  [at |-> IF kind = "reset" THEN "reset" ELSE "verify", kind |-> kind, name |-> n, slug |-> s, seen |-> hash[s],
   found |-> rows[s] = n, pw |-> p, new |-> q, tries |-> 1]

(* Mutation of BeginLogin: the lockout is not looked at.                   *)
BeginLogin_Unlimited(r, n, p) ==
  /\ task[r].at = "idle"
  /\ \E s \in Slugs :
       /\ rows[s] = n \/ (~Taken(n) /\ s = 1)
       /\ Move(r, Password("login", n, s, p, p))
  /\ UNCHANGED <<accountVars, creationVars, loginVars>>

(* login_submit up to the check of the password.  A name without account   *)
(* is checked against the dummy hash and is never known.                   *)
BeginLogin(r, n, p) ==
  /\ task[r].at = "idle"
  /\ ~Locked(n)
  /\ \E s \in Slugs :
       /\ rows[s] = n \/ (~Taken(n) /\ s = 1)
       /\ Move(r, Password("login", n, s, p, p))
  /\ UNCHANGED <<accountVars, creationVars, loginVars>>

(* change_password and set_account_email up to the check of the current    *)
(* password.                                                               *)
BeginChange(r, c, kind, p, q) ==
  /\ task[r].at = "idle"
  /\ Current(c) /\ ~Locked(rows[c.slug])
  /\ p = q <=> kind = "email"
  /\ Move(r, Password(kind, rows[c.slug], c.slug, p, q))
  /\ UNCHANGED <<accountVars, creationVars, loginVars>>

Checks(r) == task[r].at = "verify"
Right(r) == task[r].found /\ task[r].pw = task[r].seen.pw
Present(r) == rows[task[r].slug] = task[r].name

(* register_failed_login                                                   *)
WrongPassword(r) ==
  /\ Checks(r) /\ ~Right(r)
  /\ Count(LoginKeys(task[r].name)) /\ Done(r)
  /\ UNCHANGED <<accountVars, creationVars, cookies, resets>>

(* The password is right and the account is switched off: the owner of the *)
(* server may have done that (set_active), or undone it, at any time.      *)
SwitchedOff(r) ==
  /\ Checks(r) /\ Right(r) /\ task[r].kind = "login"
  /\ Done(r)
  /\ UNCHANGED <<accountVars, creationVars, loginVars>>

(* Mutation of LogIn: the cookie takes the hash the row has by now.        *)
LogIn_ReadsAgain(r) ==
  /\ Checks(r) /\ Right(r) /\ task[r].kind = "login"
  /\ ~task[r].seen.weak
  /\ Clear(LoginKeys(task[r].name))
  /\ Issue(task[r].slug, hash[task[r].slug].id, task[r].pw, TRUE)
  /\ Done(r)
  /\ UNCHANGED <<accountVars, creationVars, resets>>

(* A login whose hash is of today's strength: the cookie is of the hash    *)
(* that was read and checked.                                              *)
LogIn(r) ==
  /\ Checks(r) /\ Right(r) /\ task[r].kind = "login"
  /\ ~task[r].seen.weak
  /\ Clear(LoginKeys(task[r].name))
  /\ Issue(task[r].slug, task[r].seen.id, task[r].pw, TRUE)
  /\ Done(r)
  /\ UNCHANGED <<accountVars, creationVars, resets>>

(* login_submit replaces a weak hash, change_password stores the new       *)
(* password: an UPDATE by primary key, whatever the hash is by now.        *)
CommitPassword(r) ==
  /\ Checks(r) /\ Right(r)
  /\ task[r].kind = "change" \/ (task[r].kind = "login" /\ task[r].seen.weak)
  /\ Present(r)
  /\ Store(task[r].slug, task[r].new)
  /\ Clear(LoginKeys(task[r].name))
  /\ Goto(r, "refresh")
  /\ UNCHANGED <<creationVars, rows, resets>>

(* The commit expired the object: login_user reads the hash again.         *)
LogInAfterCommit(r) ==
  /\ task[r].at = "refresh" /\ Present(r)
  /\ Issue(task[r].slug, hash[task[r].slug].id, task[r].new, FALSE)
  /\ Done(r)
  /\ UNCHANGED <<accountVars, creationVars, counter, resets>>

(* set_account_email: the right password changes no password and clears no *)
(* counter.                                                                *)
KeepPassword(r) ==
  /\ Checks(r) /\ Right(r) /\ task[r].kind = "email"
  /\ Done(r)
  /\ UNCHANGED <<accountVars, creationVars, loginVars>>

(* forgot_password_submit mails links for the hash there is at the time;   *)
(* reset_password_submit accepts one (account_from_reset_token) while the  *)
(* account has that hash, and refuses it without a change otherwise.       *)
BeginReset(r, s, q) ==
  /\ task[r].at = "idle" /\ s \in Rows
  /\ Move(r, Password("reset", rows[s], s, q, q))
  /\ UNCHANGED <<accountVars, creationVars, loginVars>>

(* Mutation of Unchanged: the UPDATE is by primary key only.               *)
Unchanged_Unconditional(r) == TRUE

(* WHERE password_hash == the one the link was made for                    *)
Unchanged(r) == hash[task[r].slug] = task[r].seen

CommitReset(r) ==
  LET s == task[r].slug IN
  /\ task[r].at = "reset" /\ Present(r) /\ Unchanged(r)
  /\ Store(s, task[r].new)
  /\ resets' = [resets EXCEPT ![task[r].seen.id] = @ + 1]
  /\ Clear(LoginKeys(task[r].name))
  /\ Done(r)
  /\ UNCHANGED <<creationVars, rows>>

RefuseReset(r) ==
  /\ task[r].at = "reset" /\ ~(Present(r) /\ Unchanged(r))
  /\ Done(r)
  /\ UNCHANGED <<accountVars, creationVars, loginVars>>

(* The owner of the server: account_service.set_password.                  *)
SetPassword(s, p) ==
  /\ s \in Rows
  /\ Store(s, p)
  /\ UNCHANGED <<creationVars, rows, counter, resets, task>>

(* The row went away in the meantime (a registration was undone): the      *)
(* UPDATE finds nothing and the request fails.                             *)
RowIsGone(r) ==
  /\ task[r].at = "refresh" \/ (Checks(r) /\ Right(r))
  /\ ~Present(r)
  /\ Done(r)
  /\ UNCHANGED <<accountVars, creationVars, loginVars>>

-----------------------------------------------------------------------------
(* Time passes: an attempt leaves its window, a lockout ends.              *)
Forget(k) ==
  /\ counter[k] > 0
  /\ counter' = [counter EXCEPT ![k] = IF @ >= Limit[k] THEN 0 ELSE @ - 1]
  /\ UNCHANGED <<accountVars, creationVars, cookies, task, resets>>

Creating(r) == task[r].at \in {"provision", "undo"}

(* The server dies: its requests and counters are gone, the files are not. *)
Crash ==
  /\ task' = [r \in Requests |-> IF Outside(r) THEN task[r] ELSE Idle]
  /\ broken' = broken \union {task[r].slug : r \in {q \in Requests : Creating(q) /\ ~Outside(q)}}
  /\ lock' = NoRequest
  /\ counter' = [k \in Keys |-> 0]
  /\ UNCHANGED <<accountVars, data, cookies, owed, resets>>

(* A new server, or one with an account from before today's hashes.        *)
Init ==
  /\ rows \in [Slugs -> Names \union {NoName}] /\ Rows \subseteq {1}
  /\ \E p \in Passwords :
       hash = [s \in Slugs |-> IF s \in Rows THEN [id |-> 0, pw |-> p, weak |-> TRUE] ELSE NoHash]
  /\ data = [s \in Slugs |-> IF s \in Rows THEN "ready" ELSE "none"]
  /\ lock = NoRequest
  /\ cookies = {} /\ made = 0
  /\ counter = [k \in Keys |-> 0]
  /\ task = [r \in Requests |-> Idle]
  /\ broken = {} /\ owed = {}
  /\ resets = [i \in Ids |-> 0]

Creation(r) ==
  \/ EnterCreation(r) \/ RefuseCreation(r)
  \/ InsertRow(r) \/ InsertAgain(r) \/ InsertGivesUp(r)
  \/ Provision(r) \/ ProvisionFails(r) \/ UndoRow(r) \/ UndoFails(r) \/ RemoveDirectory(r)
  \/ \E n \in Names, p \in Passwords :
       \/ BeginRegister(r, n, p)
       \/ \E kind \in {"create", "command"} : BeginCreate(r, kind, n, p)
       \/ \E s \in Slugs : BeginReattach(r, n, p, s)

Login(r) ==
  \/ WrongPassword(r) \/ SwitchedOff(r) \/ LogIn(r)
  \/ CommitPassword(r) \/ LogInAfterCommit(r) \/ KeepPassword(r)
  \/ CommitReset(r) \/ RefuseReset(r) \/ RowIsGone(r)
  \/ \E p \in Passwords :
       \/ \E n \in Names : BeginLogin(r, n, p)
       \/ \E c \in cookies, kind \in {"change", "email"}, q \in Passwords :
            BeginChange(r, c, kind, p, q)
       \/ \E s \in Slugs : BeginReset(r, s, p)

Next ==
  \/ \E r \in Requests : Creation(r) \/ Login(r)
  \/ \E s \in Slugs, p \in Passwords : SetPassword(s, p)
  \/ \E k \in Keys : Forget(k)
  \/ Crash

Spec == Init /\ [][Next]_vars

-----------------------------------------------------------------------------
(* The variables have their types: above all a slug given out by           *)
(* ensure_unique_slug and stored in accounts.db is one of the slugs.       *)
TypeOK ==
  /\ rows \in [Slugs -> Names \union {NoName}]
  /\ hash \in [Slugs -> Hash]
  /\ data \in [Slugs -> {"none", "partial", "ready"}]
  /\ lock \in Requests \union {NoRequest}
  /\ cookies \subseteq Cookie
  /\ counter \in [Keys -> Nat]
  /\ made \in Ids
  /\ task \in [Requests -> Task]
  /\ broken \subseteq Slugs /\ owed \subseteq Slugs
  /\ resets \in [Ids -> Nat]

(* MAX_ACCOUNTS: registrations alone never make more accounts than the     *)
(* limit, however many check it at the same moment and whatever the        *)
(* command line adds meanwhile.                                            *)
RegistrationsWithinLimit == Cardinality(owed) <= MaxAccounts

(* An account has its directory, or a request is making it or taking the   *)
(* row back, except when since that row was inserted a crash cut this off, *)
(* reattach (which has no compensation) failed, the commit of the          *)
(* compensation itself raised, or the compensation of an earlier creation  *)
(* removed the directory of the slug it had set free.                      *)
EveryAccountHasData ==
  \A s \in Rows :
    data[s] = "ready" \/ s \in broken \/ \E r \in Requests : Creating(r) /\ task[r].slug = s

(* A reset link changes the password at most once, whoever sends it twice. *)
ResetOnce == \A i \in Ids : resets[i] <= 1

(* A cookie of a login that stored no hash is accepted only while the      *)
(* password its owner typed is the password of the account: every change   *)
(* and reset ends the logins before it, also those under way.  This is     *)
(* what README.md:123 and 129 and the tests say; README.md:121 still says  *)
(* of a change that the logins on other devices stay valid.                *)
LoginProvesPassword ==
  \A c \in cookies : c.sure /\ Current(c) => hash[c.slug].pw = c.knew

(* However many attempts were let in before the limit was reached, the     *)
(* wrong ones stay within it up to the number of requests at work.         *)
GuessesAreBounded ==
  \A k \in Keys : counter[k] < Limit[k] + Cardinality(Requests)
=============================================================================
