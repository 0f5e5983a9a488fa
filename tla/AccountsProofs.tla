--------------------------- MODULE AccountsProofs ---------------------------
(***************************************************************************)
(* Proofs about Accounts, for every set of requests, names and passwords,  *)
(* any limits and any number of slugs, hashes and attempts.                *)
(***************************************************************************)
EXTENDS Accounts, FiniteSetTheorems, TLAPS

(* What a request carries has its type, and what goes on has again.        *)
LEMMA Fields ==
  ASSUME TypeOK, NEW r \in Requests
  PROVE  /\ task[r].at \in Places /\ task[r].kind \in Kinds /\ task[r].name \in Names \union {NoName}
         /\ task[r].slug \in Slugs /\ task[r].seen \in Hash /\ task[r].found \in BOOLEAN
         /\ task[r].pw \in Passwords \union {NoPassword} /\ task[r].new \in Passwords \union {NoPassword}
         /\ task[r].tries \in Nat /\ task[r].seen.id \in Ids
  BY DEF TypeOK, Task, Hash

LEMMA GoOnTyped ==
  ASSUME TypeOK, NEW r \in Requests, NEW p \in Places, NEW s \in Slugs, NEW h \in Hash, NEW n \in Nat,
         GoOn(r, p, s, h, n)
  PROVE  task' \in [Requests -> Task]
<1>1. [at |-> p, kind |-> task[r].kind, name |-> task[r].name, slug |-> s, found |-> task[r].found,
       seen |-> h, pw |-> task[r].pw, new |-> task[r].new, tries |-> n] \in Task
  BY Fields DEF Task
<1>2. QED
  BY <1>1 DEF GoOn, Move, TypeOK

LEMMA GotoTyped ==
  ASSUME TypeOK, NEW r \in Requests, NEW p \in Places, Goto(r, p)
  PROVE  task' \in [Requests -> Task]
  BY Fields, GoOnTyped DEF Goto

LEMMA NoHashTyped == NoHash \in Hash
  BY AccountsAssumption DEF NoHash, Hash, Ids

LEMMA IdleTyped == Idle \in Task
  BY NoHashTyped, AccountsAssumption DEF Idle, Task, Places, Kinds, Slugs

LEMMA DoneTyped ==
  ASSUME TypeOK, NEW r \in Requests, Done(r)
  PROVE  task' \in [Requests -> Task]
  BY IdleTyped DEF Done, Move, TypeOK

LEMMA CountTyped ==
  ASSUME TypeOK, NEW ks, Count(ks) \/ Clear(ks)
  PROVE  counter' \in [Keys -> Nat]
  BY DEF Count, Clear, TypeOK

LEMMA UnlockTyped ==
  ASSUME TypeOK, NEW r, Unlock(r)
  PROVE  lock' \in Requests \union {NoRequest}
  BY DEF Unlock, TypeOK

LEMMA NewHashTyped ==
  ASSUME TypeOK, NEW p \in Passwords \union {NoPassword}, made < MaxHash
  PROVE  NewHash(p) \in Hash /\ made + 1 \in Ids
<1>1. made + 1 \in Ids
  BY AccountsAssumption DEF TypeOK, Ids
<1>2. QED
  BY <1>1 DEF NewHash, Hash

LEMMA StoreTyped ==
  ASSUME TypeOK, NEW s, NEW p \in Passwords \union {NoPassword}, Store(s, p)
  PROVE  hash' \in [Slugs -> Hash] /\ made' \in Ids /\ cookies' \subseteq Cookie
  BY NewHashTyped DEF Store, TypeOK

LEMMA IssueTyped ==
  ASSUME TypeOK, NEW s \in Slugs, NEW i \in Ids, NEW p \in Passwords \union {NoPassword},
         NEW b \in BOOLEAN, Issue(s, i, p, b)
  PROVE  cookies' \subseteq Cookie
<1>1. [slug |-> s, id |-> i, knew |-> p, sure |-> b] \in Cookie
  BY DEF Cookie
<1>2. QED
  BY <1>1 DEF Issue, TypeOK

-----------------------------------------------------------------------------

(* The type invariant.                                                     *)
LEMMA TypeStep == TypeOK /\ [Next]_vars => TypeOK'
<1> SUFFICES ASSUME TypeOK, [Next]_vars PROVE TypeOK'
  OBVIOUS
<1>1. ASSUME NEW r \in Requests, Creation(r) PROVE TypeOK'
  <2>1. ASSUME NEW kind \in Kinds, NEW n \in Names, NEW p \in Passwords, NEW at \in Places, NEW s \in Slugs,
               Move(r, NewTask(kind, n, p, at, s))
        PROVE  task' \in [Requests -> Task]
    <3>1. NewTask(kind, n, p, at, s) \in Task
      BY NoHashTyped DEF NewTask, Task
    <3>2. QED
      BY <2>1, <3>1 DEF Move, TypeOK
  <2>2. 1 \in Slugs
    BY AccountsAssumption DEF Slugs
  <2>3. CASE EnterCreation(r)
    <3>1. PICK s \in FreeSlug : GoOn(r, "insert", s, task[r].seen, task[r].tries)
      BY <2>3 DEF EnterCreation
    <3>2. task' \in [Requests -> Task]
      BY <3>1, Fields, GoOnTyped DEF FreeSlug, Places
    <3>3. QED
      BY <2>3, <3>2 DEF EnterCreation, TypeOK, accountVars, loginVars
  <2>4. CASE RefuseCreation(r)
    BY <2>4, DoneTyped DEF RefuseCreation, TypeOK, accountVars, creationVars, loginVars
  <2>5. CASE InsertRow(r)
    <3>1. GoOn(r, "provision", task[r].slug, NewHash(task[r].pw), task[r].tries) /\ Store(task[r].slug, task[r].pw)
      BY <2>5 DEF InsertRow
    <3>2. task' \in [Requests -> Task]
      BY <3>1, Fields, NewHashTyped, GoOnTyped DEF Store, Places
    <3>3. hash' \in [Slugs -> Hash] /\ made' \in Ids /\ cookies' \subseteq Cookie
      BY <3>1, Fields, StoreTyped
    <3>4. lock' \in Requests \union {NoRequest}
      BY <2>5, UnlockTyped DEF InsertRow, TypeOK
    <3>5. rows' \in [Slugs -> Names \union {NoName}] /\ owed' \subseteq Slugs
      BY <2>5, Fields DEF InsertRow, TypeOK
    <3>6. broken' \subseteq Slugs
      BY <2>5 DEF InsertRow, TypeOK
    <3>7. QED
      BY <2>5, <3>2, <3>3, <3>4, <3>5, <3>6 DEF InsertRow, TypeOK
  <2>6. CASE InsertAgain(r)
    <3>1. PICK s \in FreeSlug : GoOn(r, "insert", s, task[r].seen, task[r].tries + 1)
      BY <2>6 DEF InsertAgain
    <3>2. task[r].tries + 1 \in Nat
      BY Fields
    <3>3. task' \in [Requests -> Task]
      BY <3>1, <3>2, Fields, GoOnTyped DEF FreeSlug, Places
    <3>4. QED
      BY <2>6, <3>3 DEF InsertAgain, TypeOK, accountVars, creationVars, loginVars
  <2>7. CASE InsertGivesUp(r)
    BY <2>7, DoneTyped, UnlockTyped DEF InsertGivesUp, TypeOK, accountVars, loginVars
  <2>8. CASE Provision(r)
    <3>1. cookies' \subseteq Cookie
      <4>1. CASE task[r].kind = "register"
        <5>1. PICK h \in {task[r].seen, hash[task[r].slug]} :
                Issue(task[r].slug, h.id, task[r].pw, h = task[r].seen)
          BY <2>8, <4>1 DEF Provision
        <5>2. h.id \in Ids /\ (h = task[r].seen) \in BOOLEAN
          BY Fields DEF TypeOK, Hash
        <5>3. QED
          BY <5>1, <5>2, Fields, IssueTyped
      <4>2. QED
        BY <2>8, <4>1 DEF Provision, TypeOK
    <3>2. data' \in [Slugs -> {"none", "partial", "ready"}]
      BY <2>8 DEF Provision, TypeOK
    <3>3. QED
      BY <2>8, <3>1, <3>2, DoneTyped, UnlockTyped DEF Provision, TypeOK, accountVars
  <2>9. CASE ProvisionFails(r)
    <3>1. data' \in [Slugs -> {"none", "partial", "ready"}]
      BY <2>9 DEF ProvisionFails, TypeOK
    <3>2. task' \in [Requests -> Task]
      BY <2>9, DoneTyped, GotoTyped DEF ProvisionFails, Places
    <3>3. lock' \in Requests \union {NoRequest} /\ broken' \subseteq Slugs
      BY <2>9, UnlockTyped, Fields DEF ProvisionFails, TypeOK
    <3>4. QED
      BY <2>9, <3>1, <3>2, <3>3 DEF ProvisionFails, TypeOK, accountVars, loginVars
  <2>10. CASE UndoRow(r)
    <3>1. task' \in [Requests -> Task]
      BY <2>10, GotoTyped DEF UndoRow, Places
    <3>2. hash' \in [Slugs -> Hash] /\ rows' \in [Slugs -> Names \union {NoName}]
      BY <2>10, NoHashTyped DEF UndoRow, TypeOK
    <3>3. owed' \subseteq Slugs
      BY <2>10 DEF UndoRow, TypeOK
    <3>4. QED
      BY <2>10, <3>1, <3>2, <3>3 DEF UndoRow, TypeOK
  <2>11. CASE RemoveDirectory(r)
    <3>1. data' \in [Slugs -> {"none", "partial", "ready"}]
      BY <2>11, Fields DEF RemoveDirectory, TypeOK
    <3>2. broken' \subseteq Slugs
      BY <2>11, Fields DEF RemoveDirectory, TypeOK
    <3>3. QED
      BY <2>11, <3>1, <3>2, DoneTyped, UnlockTyped DEF RemoveDirectory, TypeOK, accountVars, loginVars
  <2>14. CASE UndoFails(r)
    <3>1. broken' \subseteq Slugs
      BY <2>14, Fields DEF UndoFails, TypeOK
    <3>2. QED
      BY <2>14, <3>1, DoneTyped, UnlockTyped DEF UndoFails, TypeOK, accountVars, loginVars
  <2>12. ASSUME NEW n \in Names, NEW p \in Passwords,
                \/ BeginRegister(r, n, p)
                \/ \E kind \in {"create", "command"} : BeginCreate(r, kind, n, p)
                \/ \E s \in Slugs : BeginReattach(r, n, p, s)
         PROVE  TypeOK'
    <3>1. task' \in [Requests -> Task]
      BY <2>12, <2>1, <2>2 DEF BeginRegister, BeginCreate, BeginReattach, Kinds, Places
    <3>2. UNCHANGED <<accountVars, creationVars, loginVars>>
      BY <2>12 DEF BeginRegister, BeginCreate, BeginReattach
    <3>3. QED
      BY <3>1, <3>2 DEF TypeOK, accountVars, creationVars, loginVars
  <2>13. QED
    BY <1>1, <2>3, <2>4, <2>5, <2>6, <2>7, <2>8, <2>9, <2>10, <2>11, <2>12, <2>14 DEF Creation
<1>2. ASSUME NEW r \in Requests, Login(r) PROVE TypeOK'
  <2>1. ASSUME NEW kind \in Kinds, NEW n \in Names \union {NoName}, NEW s \in Slugs,
               NEW p \in Passwords, NEW q \in Passwords, Move(r, Password(kind, n, s, p, q))
        PROVE  task' \in [Requests -> Task]
    <3>1. Password(kind, n, s, p, q) \in Task
      BY DEF Password, Task, TypeOK, Places
    <3>2. QED
      BY <2>1, <3>1 DEF Move, TypeOK
  <2>2. CASE WrongPassword(r) \/ SwitchedOff(r) \/ KeepPassword(r) \/ RefuseReset(r) \/ RowIsGone(r)
    <3>1. task' \in [Requests -> Task] /\ counter' \in [Keys -> Nat]
      BY <2>2, DoneTyped, CountTyped
      DEF WrongPassword, SwitchedOff, KeepPassword, RefuseReset, RowIsGone, loginVars, TypeOK
    <3>2. QED
      BY <2>2, <3>1 DEF WrongPassword, SwitchedOff, KeepPassword, RefuseReset, RowIsGone, TypeOK,
                        accountVars, creationVars, loginVars
  <2>3. CASE LogIn(r)
    <3>1. cookies' \subseteq Cookie
      BY <2>3, Fields, IssueTyped DEF LogIn
    <3>2. QED
      BY <2>3, <3>1, DoneTyped, CountTyped DEF LogIn, TypeOK, accountVars, creationVars
  <2>4. CASE CommitPassword(r)
    <3>1. hash' \in [Slugs -> Hash] /\ made' \in Ids /\ cookies' \subseteq Cookie
      BY <2>4, Fields, StoreTyped DEF CommitPassword
    <3>2. task' \in [Requests -> Task]
      BY <2>4, GotoTyped DEF CommitPassword, Places
    <3>3. QED
      BY <2>4, <3>1, <3>2, CountTyped DEF CommitPassword, TypeOK, creationVars
  <2>5. CASE LogInAfterCommit(r)
    <3>1. hash[task[r].slug].id \in Ids
      BY Fields DEF TypeOK, Hash
    <3>2. cookies' \subseteq Cookie
      BY <2>5, <3>1, Fields, IssueTyped DEF LogInAfterCommit
    <3>3. QED
      BY <2>5, <3>2, DoneTyped DEF LogInAfterCommit, TypeOK, accountVars, creationVars
  <2>6. CASE CommitReset(r)
    <3>1. hash' \in [Slugs -> Hash] /\ made' \in Ids /\ cookies' \subseteq Cookie
      BY <2>6, Fields, StoreTyped DEF CommitReset
    <3>2. resets' \in [Ids -> Nat]
      BY <2>6, Fields DEF CommitReset, TypeOK
    <3>3. QED
      BY <2>6, <3>1, <3>2, DoneTyped, CountTyped DEF CommitReset, TypeOK, creationVars
  <2>7. ASSUME NEW p \in Passwords, NEW n \in Names, BeginLogin(r, n, p) PROVE TypeOK'
    <3>1. task' \in [Requests -> Task]
      BY <2>7, <2>1 DEF BeginLogin, Kinds
    <3>2. QED
      BY <2>7, <3>1 DEF BeginLogin, TypeOK, accountVars, creationVars, loginVars
  <2>8. ASSUME NEW p \in Passwords, NEW c \in cookies, NEW kind \in {"change", "email"}, NEW q \in Passwords,
               BeginChange(r, c, kind, p, q)
        PROVE  TypeOK'
    <3>1. c.slug \in Slugs /\ rows[c.slug] \in Names \union {NoName}
      BY DEF TypeOK, Cookie
    <3>2. task' \in [Requests -> Task]
      BY <2>8, <2>1, <3>1 DEF BeginChange, Kinds
    <3>3. QED
      BY <2>8, <3>2 DEF BeginChange, TypeOK, accountVars, creationVars, loginVars
  <2>9. ASSUME NEW p \in Passwords, NEW s \in Slugs, BeginReset(r, s, p) PROVE TypeOK'
    <3>1. task' \in [Requests -> Task]
      BY <2>9, <2>1 DEF BeginReset, Kinds, TypeOK
    <3>2. QED
      BY <2>9, <3>1 DEF BeginReset, TypeOK, accountVars, creationVars, loginVars
  <2>10. QED
    BY <1>2, <2>2, <2>3, <2>4, <2>5, <2>6, <2>7, <2>8, <2>9 DEF Login
<1>3. ASSUME NEW s \in Slugs, NEW p \in Passwords, SetPassword(s, p) PROVE TypeOK'
  BY <1>3, StoreTyped DEF SetPassword, TypeOK, creationVars
<1>4. ASSUME NEW k \in Keys, Forget(k) PROVE TypeOK'
  <2>1. counter' \in [Keys -> Nat]
    BY <1>4 DEF Forget, TypeOK
  <2>2. QED
    BY <1>4, <2>1 DEF Forget, TypeOK, accountVars, creationVars
<1>5. CASE Crash
  <2>1. task' \in [Requests -> Task] /\ broken' \subseteq Slugs
    BY <1>5, IdleTyped, Fields DEF Crash, TypeOK
  <2>2. QED
    BY <1>5, <2>1 DEF Crash, TypeOK, accountVars
<1>6. CASE UNCHANGED vars
  BY <1>6 DEF TypeOK, vars, accountVars, creationVars, loginVars
<1>7. QED
  BY <1>1, <1>2, <1>3, <1>4, <1>5, <1>6 DEF Next

LEMMA TypeInit == Init => TypeOK
<1> SUFFICES ASSUME Init PROVE TypeOK
  OBVIOUS
<1>1. hash \in [Slugs -> Hash]
  <2>1. PICK p \in Passwords :
          hash = [s \in Slugs |-> IF s \in Rows THEN [id |-> 0, pw |-> p, weak |-> TRUE] ELSE NoHash]
    BY DEF Init
  <2>2. [id |-> 0, pw |-> p, weak |-> TRUE] \in Hash
    BY AccountsAssumption DEF Hash, Ids
  <2>3. QED
    BY <2>1, <2>2, NoHashTyped
<1>2. made \in Ids /\ counter \in [Keys -> Nat] /\ resets \in [Ids -> Nat]
  BY AccountsAssumption DEF Init, Ids
<1>3. task \in [Requests -> Task]
  BY IdleTyped DEF Init
<1>4. QED
  BY <1>1, <1>2, <1>3 DEF Init, TypeOK

(* Every slug, hash and directory the handlers compute is one there is.    *)
THEOREM AccountsTypeCorrect == Spec => []TypeOK
  BY TypeInit, TypeStep, PTL DEF Spec
-----------------------------------------------------------------------------

(* Every request that is under way is about a name.                        *)
Named == \A r \in Requests : task[r].at # "idle" => task[r].name \in Names

(* A new task of a request.                                                *)
LEMMA Moved ==
  ASSUME TypeOK, NEW r \in Requests, NEW x, Move(r, x)
  PROVE  task'[r] = x /\ \A q \in Requests \ {r} : task'[q] = task[q]
  BY DEF Move, TypeOK

LEMMA WentOn ==
  ASSUME TypeOK, NEW r \in Requests, NEW p, NEW s, NEW h, NEW n, GoOn(r, p, s, h, n)
  PROVE  /\ \A q \in Requests \ {r} : task'[q] = task[q]
         /\ task'[r].at = p /\ task'[r].slug = s /\ task'[r].seen = h
         /\ task'[r].kind = task[r].kind /\ task'[r].name = task[r].name
         /\ task'[r].found = task[r].found /\ task'[r].pw = task[r].pw /\ task'[r].new = task[r].new
  BY Moved DEF GoOn

LEMMA Finished ==
  ASSUME TypeOK, NEW r \in Requests, Done(r)
  PROVE  task'[r] = Idle /\ task'[r].at = "idle" /\ \A q \in Requests \ {r} : task'[q] = task[q]
  BY Moved DEF Done, Idle

(* The name a request begins with it keeps.                                *)
LEMMA NameStep == TypeOK /\ Named /\ [Next]_vars => Named'
<1> SUFFICES ASSUME TypeOK, Named, [Next]_vars PROVE Named'
  OBVIOUS
<1>1. ASSUME NEW r \in Requests, Done(r) PROVE Named'
  BY <1>1, Finished DEF Named
<1>2. ASSUME NEW r \in Requests, NEW p, NEW s, NEW h, NEW n, GoOn(r, p, s, h, n), task[r].at # "idle"
      PROVE  Named'
  BY <1>2, WentOn DEF Named
<1>3. ASSUME NEW r \in Requests, NEW x, Move(r, x), x.name \in Names PROVE Named'
  BY <1>3, Moved DEF Named
<1>4. ASSUME NEW r \in Requests, Creation(r) PROVE Named'
  <2>1. ASSUME NEW n \in Names, NEW p \in Passwords,
               \/ BeginRegister(r, n, p)
               \/ \E kind \in {"create", "command"} : BeginCreate(r, kind, n, p)
               \/ \E s \in Slugs : BeginReattach(r, n, p, s)
        PROVE  Named'
    <3>1. PICK kind, at, s : Move(r, NewTask(kind, n, p, at, s))
      BY <2>1 DEF BeginRegister, BeginCreate, BeginReattach
    <3>2. NewTask(kind, n, p, at, s).name = n
      BY DEF NewTask
    <3>3. QED
      BY <3>1, <3>2, <1>3
  <2>2. CASE EnterCreation(r)
    BY <2>2, <1>2 DEF EnterCreation, Enters
  <2>3. CASE InsertRow(r) \/ InsertAgain(r)
    BY <2>3, <1>2 DEF InsertRow, InsertAgain
  <2>4. CASE ProvisionFails(r) \/ UndoRow(r)
    BY <2>4, <1>1, <1>2 DEF ProvisionFails, UndoRow, Goto
  <2>5. QED
    BY <1>4, <1>1, <2>1, <2>2, <2>3, <2>4
    DEF Creation, RefuseCreation, InsertGivesUp, Provision, UndoFails, RemoveDirectory
<1>5. ASSUME NEW r \in Requests, Login(r) PROVE Named'
  <2>1. ASSUME NEW kind, NEW n \in Names, NEW s, NEW p, NEW q, Move(r, Password(kind, n, s, p, q))
        PROVE  Named'
    <3>1. Password(kind, n, s, p, q).name = n
      BY DEF Password
    <3>2. QED
      BY <2>1, <3>1, <1>3
  <2>2. ASSUME NEW p \in Passwords, NEW n \in Names, BeginLogin(r, n, p) PROVE Named'
    BY <2>1, <2>2 DEF BeginLogin
  <2>3. ASSUME NEW p \in Passwords, NEW c \in cookies, NEW kind \in {"change", "email"}, NEW q \in Passwords,
               BeginChange(r, c, kind, p, q)
        PROVE  Named'
    <3>1. rows[c.slug] \in Names
      BY <2>3 DEF BeginChange, Current, TypeOK, Cookie
    <3>2. QED
      BY <2>1, <2>3, <3>1 DEF BeginChange
  <2>4. ASSUME NEW p \in Passwords, NEW s \in Slugs, BeginReset(r, s, p) PROVE Named'
    <3>1. rows[s] \in Names
      BY <2>4 DEF BeginReset, Rows, TypeOK
    <3>2. QED
      BY <2>1, <2>4, <3>1 DEF BeginReset
  <2>5. CASE CommitPassword(r)
    BY <2>5, <1>2 DEF CommitPassword, Checks, Goto
  <2>6. QED
    BY <1>5, <1>1, <2>2, <2>3, <2>4, <2>5
    DEF Login, WrongPassword, SwitchedOff, LogIn, LogInAfterCommit, KeepPassword, CommitReset,
        RefuseReset, RowIsGone
<1>6. CASE Crash
  BY <1>6 DEF Crash, Named, Idle
<1>7. CASE UNCHANGED task
  BY <1>7 DEF Named
<1>8. QED
  BY <1>4, <1>5, <1>6, <1>7 DEF Next, SetPassword, Forget, vars

LEMMA AccountsNamed == Spec => [](TypeOK /\ Named)
<1>1. Init => Named
  BY DEF Init, Named, Idle
<1>2. QED
  BY <1>1, NameStep, AccountsTypeCorrect, PTL DEF Spec

-----------------------------------------------------------------------------
(* Hashes are numbered as they are made, and no number comes back: that is *)
(* why what a request read, a link or a cookie names one password.         *)

(* The rows have hashes made already, each its own, and links were used    *)
(* for such hashes only.                                                   *)
Fresh ==
  /\ \A s \in Slugs : hash[s].id <= made
  /\ \A s, t \in Rows : hash[s].id = hash[t].id => s = t
  /\ \A i \in Ids : i > made => resets[i] = 0

(* The hash whose link was used is nobody's any more.                      *)
Spent ==
  \A i \in Ids : resets[i] <= 1 /\ (resets[i] = 1 => \A s \in Rows : hash[s].id # i)

(* While the row has the hash a request read, that hash is as it was read. *)
Honest(x) ==
  /\ x.seen.id <= made
  /\ /\ x.at = "provision" \/ (x.at = "verify" /\ x.found)
     /\ rows[x.slug] # NoName /\ x.seen.id = hash[x.slug].id
     => x.seen.pw = hash[x.slug].pw
  /\ x.at = "provision" => x.seen.pw = x.pw

Seen == \A r \in Requests : Honest(task[r])

HashInv == Fresh /\ Spent /\ Seen /\ LoginProvesPassword

LEMMA HashInit == Init => HashInv
<1> SUFFICES ASSUME Init PROVE HashInv
  OBVIOUS
<1>1. made = 0 /\ cookies = {} /\ \A i \in Ids : resets[i] = 0
  BY DEF Init
<1>2. (\A s \in Slugs : hash[s].id = 0) /\ \A s \in Rows : s = 1
  BY DEF Init, Rows, NoHash
<1>3. Fresh /\ Spent
  BY <1>1, <1>2 DEF Fresh, Spent
<1>4. Seen
  BY <1>1 DEF Init, Seen, Honest, Idle, NoHash
<1>5. QED
  BY <1>1, <1>3, <1>4 DEF HashInv, LoginProvesPassword

(* A step that makes no hash and issues no cookie.                         *)
LEMMA NoHashMade ==
  ASSUME HashInv, UNCHANGED <<accountVars, cookies, resets>>,
         NEW r \in Requests, \A q \in Requests \ {r} : task'[q] = task[q], Honest(task'[r])
  PROVE  HashInv'
<1> USE DEF HashInv, accountVars
<1>1. Rows' = Rows
  BY DEF Rows
<1>2. Fresh' /\ Spent'
  BY <1>1 DEF Fresh, Spent
<1>3. Seen'
  BY DEF Seen, Honest
<1>4. LoginProvesPassword'
  BY DEF LoginProvesPassword, Current
<1>5. QED
  BY <1>2, <1>3, <1>4

(* A step that ends a request and issues a cookie, of which it is sure     *)
(* only if the hash is one that was read for the password typed.           *)
LEMMA CookieIssued ==
  ASSUME TypeOK, HashInv, UNCHANGED <<accountVars, resets>>, NEW r \in Requests, Done(r),
         NEW s, NEW i, NEW p, NEW b \in BOOLEAN, Issue(s, i, p, b),
         b /\ rows[s] # NoName /\ hash[s].id = i => hash[s].pw = p
  PROVE  HashInv'
<1> USE DEF HashInv, accountVars
<1>1. Rows' = Rows
  BY DEF Rows
<1>2. Fresh' /\ Spent'
  BY <1>1 DEF Fresh, Spent
<1>3. Seen'
  <2>1. task'[r] = Idle /\ \A q \in Requests \ {r} : task'[q] = task[q]
    BY Finished
  <2>2. Honest(Idle)'
    BY AccountsAssumption DEF Honest, Idle, NoHash, TypeOK, Ids
  <2>3. \A q \in Requests : Honest(task[q])
    BY DEF Seen
  <2>4. QED
    BY <2>1, <2>2, <2>3 DEF Seen, Honest
<1>4. LoginProvesPassword'
  BY DEF LoginProvesPassword, Current, Issue
<1>5. QED
  BY <1>2, <1>3, <1>4

(* A new hash is stored: for a row that is there or for a new one.         *)
LEMMA HashStored ==
  ASSUME TypeOK, HashInv, NEW s \in Slugs, NEW p \in Passwords \union {NoPassword}, Store(s, p),
         \A t \in Slugs \ {s} : rows'[t] = rows[t]
  PROVE  /\ \A t \in Slugs : hash'[t].id <= made'
         /\ \A t, u \in Rows' : hash'[t].id = hash'[u].id => t = u
         /\ \A i \in Ids : i <= made => hash'[s].id # i
         /\ \A q \in Requests : task'[q] = task[q] => Honest(task[q])'
         /\ LoginProvesPassword'
<1> USE DEF HashInv
<1>1. /\ made \in Nat /\ made' = made + 1
      /\ hash'[s] = NewHash(p) /\ hash'[s].id = made + 1 /\ hash'[s].pw = p
      /\ \A t \in Slugs \ {s} : hash'[t] = hash[t]
  BY AccountsAssumption DEF Store, NewHash, TypeOK, Ids
<1>2. \A t \in Slugs \ {s} : (t \in Rows' <=> t \in Rows)
  BY DEF Rows
<1>3. \A t \in Slugs : hash[t].id \in Nat
  BY AccountsAssumption DEF TypeOK, Hash, Ids
<1>4. \A t \in Rows : t \in Slugs
  BY DEF Rows
<1>5. \A t \in Rows' : t \in Slugs
  BY DEF Rows
<1>6. \A t \in Slugs : hash'[t].id <= made'
  BY <1>1, <1>3 DEF Fresh
<1>7. \A t, u \in Rows' : hash'[t].id = hash'[u].id => t = u
  <2>1. \A t \in Rows' \ {s} : hash'[t].id # made + 1
    BY <1>1, <1>3, <1>5 DEF Fresh
  <2>2. QED
    BY <1>1, <1>2, <1>5, <2>1 DEF Fresh
<1>8. \A i \in Ids : i <= made => hash'[s].id # i
  BY <1>1, AccountsAssumption DEF Ids
<1>9. ASSUME NEW q \in Requests, task'[q] = task[q] PROVE Honest(task[q])'
  <2>1. Honest(task[q]) /\ task[q].seen.id \in Nat /\ task[q].slug \in Slugs
    BY Fields, AccountsAssumption DEF Seen, Ids
  <2>2. task[q].seen.id <= made' /\ task[q].seen.id # made + 1
    BY <2>1, <1>1 DEF Honest
  <2>3. CASE task[q].slug = s
    BY <1>9, <2>1, <2>2, <2>3, <1>1 DEF Honest
  <2>4. CASE task[q].slug # s
    BY <1>9, <2>1, <2>2, <2>4, <1>1 DEF Honest
  <2>5. QED
    BY <2>3, <2>4
<1>10. LoginProvesPassword'
  <2>1. \A c \in cookies' : c \in cookies /\ c.slug \in Slugs \ {s}
    BY DEF Store, TypeOK, Cookie
  <2>2. QED
    BY <2>1, <1>1 DEF LoginProvesPassword, Current
<1>11. QED
  BY <1>6, <1>7, <1>8, <1>9, <1>10

(* The same, of a step that uses no link.                                  *)
LEMMA StoreKeeps ==
  ASSUME TypeOK, HashInv, NEW s \in Slugs, NEW p \in Passwords \union {NoPassword}, Store(s, p),
         \A t \in Slugs \ {s} : rows'[t] = rows[t], resets' = resets,
         \A q \in Requests : task'[q] = task[q] \/ Honest(task[q])'
  PROVE  HashInv'
<1> USE DEF HashInv
<1>1. /\ \A t \in Slugs : hash'[t].id <= made'
      /\ \A t, u \in Rows' : hash'[t].id = hash'[u].id => t = u
      /\ \A i \in Ids : i <= made => hash'[s].id # i
      /\ LoginProvesPassword'
  BY HashStored
<1>2. Seen'
  BY HashStored DEF Seen
<1>3. made \in Nat /\ made' = made + 1 /\ \A i \in Ids : i \in Nat
  BY AccountsAssumption DEF Store, TypeOK, Ids
<1>4. Fresh'
  BY <1>1, <1>3 DEF Fresh
<1>5. Spent'
  <2>1. ASSUME NEW i \in Ids, resets[i] = 1, NEW t \in Rows' PROVE hash'[t].id # i
    <3>1. i <= made
      BY <2>1, <1>3 DEF Fresh
    <3>2. CASE t = s
      BY <3>1, <3>2, <1>1
    <3>3. CASE t # s
      BY <2>1, <3>3 DEF Spent, Rows, Store, TypeOK
    <3>4. QED
      BY <3>2, <3>3
  <2>2. QED
    BY <2>1 DEF Spent
<1>6. QED
  BY <1>1, <1>2, <1>4, <1>5

(* A row is taken back: nothing is left to say about its hash.             *)
LEMMA UndoKeeps ==
  ASSUME TypeOK, HashInv, NEW r \in Requests, UndoRow(r)
  PROVE  HashInv'
<1> DEFINE s == task[r].slug
<1> USE DEF HashInv
<1>1. s \in Slugs
  BY Fields
<1>2. /\ rows'[s] = NoName /\ \A t \in Slugs \ {s} : rows'[t] = rows[t] /\ hash'[t] = hash[t]
      /\ made' = made /\ resets' = resets
      /\ cookies' = {c \in cookies : c.slug # s}
  BY <1>1 DEF UndoRow, TypeOK
<1>3. \A t \in Rows' : t \in Rows /\ t # s /\ t \in Slugs
  BY <1>2 DEF Rows
<1>4. Fresh' /\ Spent'
  <2>1. hash'[s].id <= made'
    BY <1>1, <1>2, AccountsAssumption DEF UndoRow, NoHash, TypeOK, Ids
  <2>2. QED
    BY <2>1, <1>2, <1>3 DEF Fresh, Spent
<1>5. Seen'
  <2>1. Goto(r, "remove")
    BY DEF UndoRow
  <2>2. task'[r].at = "remove" /\ task'[r].seen = task[r].seen /\ \A q \in Requests \ {r} : task'[q] = task[q]
    BY <2>1, WentOn DEF Goto
  <2>3. ASSUME NEW q \in Requests PROVE Honest(task[q])'
    <3>1. Honest(task[q]) /\ task[q].slug \in Slugs
      BY Fields DEF Seen
    <3>2. CASE q = r
      BY <2>2, <3>1, <3>2, <1>2 DEF Honest
    <3>3. CASE q # r
      BY <2>2, <3>1, <3>3, <1>2 DEF Honest
    <3>4. QED
      BY <3>2, <3>3
  <2>4. QED
    BY <2>3 DEF Seen
<1>6. LoginProvesPassword'
  <2>1. \A c \in cookies' : c \in cookies /\ c.slug \in Slugs \ {s}
    BY <1>2 DEF TypeOK, Cookie
  <2>2. QED
    BY <2>1, <1>2 DEF LoginProvesPassword, Current
<1>7. QED
  BY <1>4, <1>5, <1>6

(* A link is used: its hash was the row's and is gone with the step.       *)
LEMMA ResetKeeps ==
  ASSUME TypeOK, Named, HashInv, NEW r \in Requests, CommitReset(r)
  PROVE  HashInv'
<1> DEFINE s == task[r].slug
           i == task[r].seen.id
<1> USE DEF HashInv
<1>1. s \in Slugs /\ i \in Ids /\ task[r].new \in Passwords \union {NoPassword} /\ s \in Rows
  <2>1. task[r].name # NoName
    BY AccountsAssumption DEF CommitReset, Named
  <2>2. QED
    BY <2>1, Fields DEF CommitReset, Present, Rows
<1>2. /\ hash[s].id = i /\ Store(s, task[r].new) /\ rows' = rows
      /\ resets' = [resets EXCEPT ![i] = resets[i] + 1] /\ Done(r)
  BY DEF CommitReset, Unchanged
<1>3. /\ \A t \in Slugs : hash'[t].id <= made'
      /\ \A t, u \in Rows' : hash'[t].id = hash'[u].id => t = u
      /\ \A j \in Ids : j <= made => hash'[s].id # j
      /\ \A q \in Requests : task'[q] = task[q] => Honest(task[q])'
      /\ LoginProvesPassword'
  BY <1>1, <1>2, HashStored
<1>4. made \in Nat /\ made' = made + 1 /\ i <= made /\ \A j \in Ids : j \in Nat
  BY <1>1, <1>2, AccountsAssumption DEF Store, TypeOK, Ids, Fresh
<1>5. Rows' = Rows /\ \A t \in Slugs \ {s} : hash'[t] = hash[t]
  BY <1>2 DEF Rows, Store, TypeOK
<1>6. \A j \in Ids : resets[j] \in Nat
  BY DEF TypeOK
<1>7. resets[i] = 0
  BY <1>1, <1>2, <1>6 DEF Spent
<1>8. resets'[i] = 1 /\ \A j \in Ids \ {i} : resets'[j] = resets[j]
  BY <1>1, <1>2, <1>7 DEF TypeOK
<1>9. Fresh'
  BY <1>1, <1>3, <1>4, <1>8 DEF Fresh
<1>10. Spent'
  <2>1. ASSUME NEW j \in Ids, resets'[j] = 1, NEW t \in Rows PROVE hash'[t].id # j
    <3>1. j <= made
      BY <2>1, <1>4, <1>8 DEF Fresh
    <3>2. CASE t = s
      BY <3>1, <3>2, <1>3
    <3>3. CASE t # s /\ j = i
      BY <3>3, <1>1, <1>2, <1>5 DEF Fresh, Rows
    <3>4. CASE t # s /\ j # i
      BY <2>1, <3>4, <1>5, <1>8 DEF Spent, Rows
    <3>5. QED
      BY <3>2, <3>3, <3>4
  <2>2. \A j \in Ids : resets'[j] <= 1
    BY <1>8 DEF Spent
  <2>3. QED
    BY <2>1, <2>2, <1>5 DEF Spent
<1>11. Seen'
  <2>1. task'[r] = Idle /\ \A q \in Requests \ {r} : task'[q] = task[q]
    BY <1>2, Finished
  <2>2. Idle.seen.id <= made' /\ Idle.at = "idle"
    BY <1>4 DEF Idle, NoHash
  <2>3. QED
    BY <2>1, <2>2, <1>3 DEF Seen, Honest
<1>12. QED
  BY <1>3, <1>9, <1>10, <1>11

(* Every step keeps what is said of hashes.                                *)
LEMMA HashStep == TypeOK /\ Named /\ HashInv /\ [Next]_vars => HashInv'
<1> SUFFICES ASSUME TypeOK, Named, HashInv, [Next]_vars PROVE HashInv'
  OBVIOUS
<1>1. made \in Nat /\ \A r \in Requests : Honest(task[r])
  BY AccountsAssumption DEF TypeOK, Ids, HashInv, Seen
<1>2. ASSUME NEW r \in Requests, Done(r), UNCHANGED <<accountVars, cookies, resets>> PROVE HashInv'
  <2>1. Honest(Idle)
    BY <1>1 DEF Honest, Idle, NoHash
  <2>2. QED
    BY <1>2, <2>1, Finished, NoHashMade
<1>3. ASSUME NEW r \in Requests, NEW p, NEW s, NEW n, GoOn(r, p, s, task[r].seen, n),
             p # "provision" /\ p # "verify", UNCHANGED <<accountVars, cookies, resets>>
      PROVE  HashInv'
  <2>1. Honest(task'[r]) /\ \A q \in Requests \ {r} : task'[q] = task[q]
    BY <1>1, <1>3, WentOn DEF Honest
  <2>2. QED
    BY <1>3, <2>1, NoHashMade
<1>4. ASSUME NEW r \in Requests, NEW x, Move(r, x), Honest(x), UNCHANGED <<accountVars, cookies, resets>>
      PROVE  HashInv'
  BY <1>4, Moved, NoHashMade
<1>5. ASSUME NEW r \in Requests, Creation(r) PROVE HashInv'
  <2>1. ASSUME NEW n \in Names, NEW p \in Passwords,
               \/ BeginRegister(r, n, p)
               \/ \E kind \in {"create", "command"} : BeginCreate(r, kind, n, p)
               \/ \E s \in Slugs : BeginReattach(r, n, p, s)
        PROVE  HashInv'
    <3>1. ASSUME NEW kind, NEW at \in {"queued", "insert"}, NEW s, Move(r, NewTask(kind, n, p, at, s)),
                 UNCHANGED <<accountVars, cookies, resets>>
          PROVE  HashInv'
      <4>1. Honest(NewTask(kind, n, p, at, s))
        BY <1>1, <3>1 DEF NewTask, Honest, NoHash
      <4>2. QED
        BY <3>1, <4>1, <1>4
    <3>2. CASE BeginRegister(r, n, p)
      BY <3>1, <3>2 DEF BeginRegister, loginVars
    <3>3. ASSUME NEW kind \in {"create", "command"}, BeginCreate(r, kind, n, p) PROVE HashInv'
      BY <3>1, <3>3 DEF BeginCreate, loginVars
    <3>4. ASSUME NEW s \in Slugs, BeginReattach(r, n, p, s) PROVE HashInv'
      BY <3>1, <3>4 DEF BeginReattach, loginVars
    <3>5. QED
      BY <2>1, <3>2, <3>3, <3>4
  <2>2. CASE EnterCreation(r) \/ InsertAgain(r)
    BY <2>2, <1>3 DEF EnterCreation, InsertAgain, loginVars
  <2>3. CASE RefuseCreation(r) \/ InsertGivesUp(r) \/ UndoFails(r) \/ RemoveDirectory(r)
    BY <2>3, <1>2 DEF RefuseCreation, InsertGivesUp, UndoFails, RemoveDirectory, loginVars
  <2>4. CASE InsertRow(r)
    <3>1. /\ Store(task[r].slug, task[r].pw) /\ resets' = resets
          /\ GoOn(r, "provision", task[r].slug, NewHash(task[r].pw), task[r].tries)
          /\ \A t \in Slugs \ {task[r].slug} : rows'[t] = rows[t]
      BY <2>4 DEF InsertRow, TypeOK
    <3>2. /\ task[r].slug \in Slugs /\ task[r].pw \in Passwords \union {NoPassword}
          /\ hash'[task[r].slug] = NewHash(task[r].pw) /\ made' = made + 1
      BY <3>1, Fields DEF Store, TypeOK
    <3>3. Honest(task[r])' /\ \A q \in Requests \ {r} : task'[q] = task[q]
      BY <3>1, <3>2, <1>1, WentOn DEF Honest, NewHash
    <3>4. QED
      BY <3>1, <3>2, <3>3, StoreKeeps
  <2>5. CASE Provision(r)
    <3>1. UNCHANGED <<accountVars, resets>> /\ Done(r) /\ task[r].at = "provision"
      BY <2>5 DEF Provision
    <3>2. CASE task[r].kind = "register"
      <4>1. PICK h \in {task[r].seen, hash[task[r].slug]} :
              Issue(task[r].slug, h.id, task[r].pw, h = task[r].seen)
        BY <2>5, <3>2 DEF Provision
      <4>2. h = task[r].seen /\ rows[task[r].slug] # NoName /\ hash[task[r].slug].id = h.id
              => hash[task[r].slug].pw = task[r].pw
        BY <1>1, <3>1 DEF Honest
      <4>3. QED
        BY <3>1, <4>1, <4>2, CookieIssued
    <3>3. CASE task[r].kind # "register"
      BY <2>5, <3>1, <3>3, <1>2 DEF Provision
    <3>4. QED
      BY <3>2, <3>3
  <2>6. CASE ProvisionFails(r)
    <3>1. UNCHANGED <<accountVars, cookies, resets>> /\ (Done(r) \/ Goto(r, "undo"))
      BY <2>6 DEF ProvisionFails, loginVars
    <3>2. QED
      BY <3>1, <1>2, <1>3 DEF Goto
  <2>7. QED
    BY <1>5, <2>1, <2>2, <2>3, <2>4, <2>5, <2>6, UndoKeeps DEF Creation
<1>6. ASSUME NEW r \in Requests, Login(r) PROVE HashInv'
  <2>1. CASE WrongPassword(r) \/ SwitchedOff(r) \/ KeepPassword(r) \/ RefuseReset(r) \/ RowIsGone(r)
    BY <2>1, <1>2 DEF WrongPassword, SwitchedOff, KeepPassword, RefuseReset, RowIsGone, loginVars
  <2>2. CASE LogIn(r)
    <3>1. rows[task[r].slug] # NoName /\ hash[task[r].slug].id = task[r].seen.id
            => hash[task[r].slug].pw = task[r].pw
      BY <2>2, <1>1 DEF LogIn, Checks, Right, Honest
    <3>2. QED
      BY <2>2, <3>1, CookieIssued DEF LogIn
  <2>3. CASE LogInAfterCommit(r)
    BY <2>3, CookieIssued DEF LogInAfterCommit
  <2>4. CASE CommitPassword(r)
    <3>1. Store(task[r].slug, task[r].new) /\ resets' = resets /\ Goto(r, "refresh") /\ rows' = rows
      BY <2>4 DEF CommitPassword
    <3>2. /\ task[r].slug \in Slugs /\ task[r].new \in Passwords \union {NoPassword}
          /\ task[r].seen.id \in Nat /\ made' = made + 1
      BY <3>1, Fields, AccountsAssumption DEF Store, Ids
    <3>3. /\ task'[r].at = "refresh" /\ task'[r].seen = task[r].seen
          /\ \A q \in Requests \ {r} : task'[q] = task[q]
      BY <3>1, WentOn DEF Goto
    <3>4. Honest(task[r])'
      BY <3>2, <3>3, <1>1 DEF Honest
    <3>5. QED
      BY <3>1, <3>2, <3>3, <3>4, StoreKeeps
  <2>5. ASSUME NEW kind, NEW n, NEW s \in Slugs, NEW p, NEW q,
               Move(r, Password(kind, n, s, p, q)), UNCHANGED <<accountVars, cookies, resets>>
        PROVE  HashInv'
    <3>1. hash[s].id <= made
      BY DEF HashInv, Fresh
    <3>2. Honest(Password(kind, n, s, p, q))
      BY <3>1 DEF Honest, Password
    <3>3. QED
      BY <2>5, <3>2, <1>4
  <2>6. ASSUME NEW p \in Passwords, NEW n \in Names, BeginLogin(r, n, p) PROVE HashInv'
    BY <2>5, <2>6 DEF BeginLogin, loginVars
  <2>7. ASSUME NEW p \in Passwords, NEW c \in cookies, NEW kind \in {"change", "email"}, NEW q \in Passwords,
               BeginChange(r, c, kind, p, q)
        PROVE  HashInv'
    <3>1. c.slug \in Slugs
      BY DEF TypeOK, Cookie
    <3>2. QED
      BY <2>5, <2>7, <3>1 DEF BeginChange, loginVars
  <2>8. ASSUME NEW p \in Passwords, NEW s \in Slugs, BeginReset(r, s, p) PROVE HashInv'
    BY <2>5, <2>8 DEF BeginReset, loginVars
  <2>9. QED
    BY <1>6, <2>1, <2>2, <2>3, <2>4, <2>6, <2>7, <2>8, ResetKeeps DEF Login
<1>7. ASSUME NEW s \in Slugs, NEW p \in Passwords, SetPassword(s, p) PROVE HashInv'
  BY <1>7, StoreKeeps DEF SetPassword
<1>8. CASE UNCHANGED <<accountVars, cookies, resets, task>>
  BY <1>8 DEF HashInv, accountVars, Fresh, Spent, Seen, Honest, LoginProvesPassword, Current, Rows
<1>9. CASE Crash
  BY <1>9, <1>1 DEF Crash, HashInv, accountVars, Fresh, Spent, Seen, Honest, LoginProvesPassword, Current,
                    Rows, Idle, NoHash
<1>10. QED
  BY <1>5, <1>6, <1>7, <1>8, <1>9 DEF Next, Forget, vars, loginVars

LEMMA HashInvariant == Spec => []HashInv
  BY HashInit, HashStep, AccountsNamed, PTL DEF Spec

(* A link of a forgotten password changes the password at most once, in    *)
(* however many requests it is sent at the same moment.                    *)
THEOREM LinkWorksOnce == Spec => []ResetOnce
<1>1. HashInv => ResetOnce
  BY DEF HashInv, Spent, ResetOnce
<1>2. QED
  BY <1>1, HashInvariant, PTL

(* A cookie of a login that stored no hash is good only while its owner's  *)
(* password is the account's, also when the login was under way while the  *)
(* password was changed.                                                   *)
THEOREM CookiesProvePassword == Spec => []LoginProvesPassword
<1>1. HashInv => LoginProvesPassword
  BY DEF HashInv
<1>2. QED
  BY <1>1, HashInvariant, PTL

-----------------------------------------------------------------------------
(* The directories.                                                        *)

(* A request that was not creating.                                        *)
LEMMA NotCreating ==
  ASSUME TypeOK, EveryAccountHasData, NEW r \in Requests, ~Creating(r), UNCHANGED <<data, broken>>,
         \A s \in Slugs : rows[s] = NoName => rows'[s] = NoName,
         \A q \in Requests \ {r} : task'[q] = task[q]
  PROVE  EveryAccountHasData'
<1>1. Rows' \subseteq Rows
  BY DEF Rows
<1>2. ASSUME NEW s \in Rows', data[s] # "ready", s \notin broken
      PROVE  \E q \in Requests : Creating(q)' /\ task'[q].slug = s
  <2>1. PICK q \in Requests : Creating(q) /\ task[q].slug = s
    BY <1>1, <1>2 DEF EveryAccountHasData
  <2>2. task'[q] = task[q]
    BY <2>1
  <2>3. QED
    BY <2>1, <2>2 DEF Creating
<1>3. QED
  BY <1>2 DEF EveryAccountHasData

(* The step with the slug it touches: the others stay as they are.         *)
LEMMA OthersKeepData ==
  ASSUME TypeOK, EveryAccountHasData, NEW r \in Requests,
         \A s \in Slugs \ {task[r].slug} : rows'[s] = rows[s] /\ data'[s] = data[s],
         broken \ {task[r].slug} \subseteq broken', \A q \in Requests \ {r} : task'[q] = task[q]
  PROVE  \A s \in Rows' \ {task[r].slug} :
           data'[s] = "ready" \/ s \in broken' \/ \E q \in Requests : Creating(q)' /\ task'[q].slug = s
<1>1. ASSUME NEW s \in Rows' \ {task[r].slug}, data'[s] # "ready", s \notin broken'
      PROVE  \E q \in Requests : Creating(q)' /\ task'[q].slug = s
  <2>1. s \in Rows /\ data[s] # "ready" /\ s \notin broken
    BY <1>1 DEF Rows
  <2>2. PICK q \in Requests : Creating(q) /\ task[q].slug = s
    BY <2>1 DEF EveryAccountHasData
  <2>3. task'[q] = task[q]
    BY <1>1, <2>2
  <2>4. QED
    BY <2>2, <2>3 DEF Creating
<1>2. QED
  BY <1>1

(* Every step keeps it.                                                    *)
LEMMA ProvidedStep == TypeOK /\ EveryAccountHasData /\ [Next]_vars => EveryAccountHasData'
<1> SUFFICES ASSUME TypeOK, EveryAccountHasData, [Next]_vars PROVE EveryAccountHasData'
  OBVIOUS
<1>1. ASSUME NEW r \in Requests, ~Creating(r), UNCHANGED <<rows, data, broken>>,
             \/ Done(r)
             \/ \E p, s, h, n : GoOn(r, p, s, h, n)
             \/ \E x : Move(r, x)
      PROVE  EveryAccountHasData'
  <2>1. \A q \in Requests \ {r} : task'[q] = task[q]
    BY <1>1, Finished, WentOn, Moved
  <2>2. QED
    BY <1>1, <2>1, NotCreating
<1>2. ASSUME NEW r \in Requests, Creation(r) PROVE EveryAccountHasData'
  <2> DEFINE s == task[r].slug
  <2>1. s \in Slugs
    BY Fields
  <2>2. CASE InsertRow(r)
    <3>1. /\ task'[r].at = "provision" /\ task'[r].slug = s /\ \A q \in Requests \ {r} : task'[q] = task[q]
      BY <2>2, WentOn DEF InsertRow
    <3>2. \A t \in Slugs \ {s} : rows'[t] = rows[t] /\ data'[t] = data[t]
      BY <2>2 DEF InsertRow, TypeOK
    <3>3. broken' = broken \ {s}
      BY <2>2 DEF InsertRow
    <3>4. Creating(r)'
      BY <3>1 DEF Creating
    <3>5. QED
      BY <3>1, <3>2, <3>3, <3>4, OthersKeepData DEF EveryAccountHasData
  <2>3. CASE Provision(r)
    <3>1. task'[r].at = "idle" /\ \A q \in Requests \ {r} : task'[q] = task[q]
      BY <2>3, Finished DEF Provision
    <3>2. /\ data'[s] = "ready" /\ broken' = broken
          /\ \A t \in Slugs \ {s} : rows'[t] = rows[t] /\ data'[t] = data[t]
      BY <2>1, <2>3 DEF Provision, accountVars, TypeOK
    <3>3. QED
      BY <3>1, <3>2, OthersKeepData DEF EveryAccountHasData
  <2>4. CASE ProvisionFails(r)
    <3>1. \A t \in Slugs \ {s} : rows'[t] = rows[t] /\ data'[t] = data[t]
      BY <2>4 DEF ProvisionFails, accountVars, TypeOK
    <3>2. CASE task[r].kind = "reattach"
      <4>1. broken' = broken \union {s} /\ Done(r)
        BY <2>4, <3>2 DEF ProvisionFails
      <4>2. task'[r].at = "idle" /\ \A q \in Requests \ {r} : task'[q] = task[q]
        BY <4>1, Finished
      <4>3. QED
        BY <3>1, <4>1, <4>2, OthersKeepData DEF EveryAccountHasData
    <3>3. CASE task[r].kind # "reattach"
      <4>1. broken' = broken /\ Goto(r, "undo")
        BY <2>4, <3>3 DEF ProvisionFails
      <4>2. task'[r].at = "undo" /\ task'[r].slug = s /\ \A q \in Requests \ {r} : task'[q] = task[q]
        BY <4>1, WentOn DEF Goto
      <4>3. Creating(r)'
        BY <4>2 DEF Creating
      <4>4. QED
        BY <3>1, <4>1, <4>2, <4>3, OthersKeepData DEF EveryAccountHasData
    <3>4. QED
      BY <3>2, <3>3
  <2>5. CASE UndoRow(r)
    <3>1. Goto(r, "remove") /\ broken' = broken
      BY <2>5 DEF UndoRow
    <3>2. task'[r].slug = s /\ \A q \in Requests \ {r} : task'[q] = task[q]
      BY <3>1, WentOn DEF Goto
    <3>3. \A t \in Slugs \ {s} : rows'[t] = rows[t] /\ data'[t] = data[t]
      BY <2>5 DEF UndoRow, TypeOK
    <3>4. s \notin Rows'
      BY <2>1, <2>5 DEF UndoRow, Rows, TypeOK
    <3>5. QED
      BY <3>1, <3>2, <3>3, <3>4, OthersKeepData DEF EveryAccountHasData
  <2>6. CASE UndoFails(r)
    <3>1. \A q \in Requests \ {r} : task'[q] = task[q]
      BY <2>6, Finished DEF UndoFails
    <3>2. broken' = broken \union {s} /\ UNCHANGED <<rows, data>>
      BY <2>6 DEF UndoFails, accountVars
    <3>3. QED
      BY <3>1, <3>2, OthersKeepData DEF EveryAccountHasData
  <2>11. CASE RemoveDirectory(r)
    <3>1. \A q \in Requests \ {r} : task'[q] = task[q]
      BY <2>11, Finished DEF RemoveDirectory
    <3>2. \A t \in Slugs \ {s} : rows'[t] = rows[t] /\ data'[t] = data[t]
      BY <2>11 DEF RemoveDirectory, accountVars, TypeOK
    <3>3. /\ rows' = rows /\ broken \subseteq broken'
          /\ s \in Rows => s \in broken'
      BY <2>11 DEF RemoveDirectory, accountVars, Rows
    <3>4. Rows' = Rows
      BY <3>3 DEF Rows
    <3>5. QED
      BY <3>1, <3>2, <3>3, <3>4, OthersKeepData DEF EveryAccountHasData
  <2>7. CASE EnterCreation(r) \/ InsertAgain(r)
    BY <2>7, <1>1 DEF EnterCreation, InsertAgain, Enters, Creating, accountVars, creationVars
  <2>8. CASE RefuseCreation(r) \/ InsertGivesUp(r)
    BY <2>8, <1>1 DEF RefuseCreation, InsertGivesUp, Enters, Creating, accountVars, creationVars
  <2>9. ASSUME NEW n \in Names, NEW p \in Passwords,
               \/ BeginRegister(r, n, p)
               \/ \E kind \in {"create", "command"} : BeginCreate(r, kind, n, p)
               \/ \E t \in Slugs : BeginReattach(r, n, p, t)
        PROVE  EveryAccountHasData'
    <3>1. ASSUME NEW kind, NEW at, NEW t, Move(r, NewTask(kind, n, p, at, t)),
                 task[r].at = "idle", UNCHANGED <<rows, data, broken>>
          PROVE  EveryAccountHasData'
      BY <3>1, <1>1 DEF Creating
    <3>2. CASE BeginRegister(r, n, p)
      BY <3>1, <3>2 DEF BeginRegister, accountVars, creationVars
    <3>3. ASSUME NEW kind \in {"create", "command"}, BeginCreate(r, kind, n, p) PROVE EveryAccountHasData'
      BY <3>1, <3>3 DEF BeginCreate, accountVars, creationVars
    <3>4. ASSUME NEW t \in Slugs, BeginReattach(r, n, p, t) PROVE EveryAccountHasData'
      BY <3>1, <3>4 DEF BeginReattach, accountVars, creationVars
    <3>5. QED
      BY <2>9, <3>2, <3>3, <3>4
  <2>10. QED
    BY <1>2, <2>2, <2>3, <2>4, <2>5, <2>6, <2>7, <2>8, <2>9, <2>11 DEF Creation
<1>3. ASSUME NEW r \in Requests, Login(r) PROVE EveryAccountHasData'
  <2>1. CASE CommitPassword(r)
    BY <2>1, <1>1 DEF CommitPassword, Checks, Creating, Goto, creationVars
  <2>2. CASE \/ WrongPassword(r) \/ SwitchedOff(r) \/ LogIn(r) \/ LogInAfterCommit(r) \/ KeepPassword(r)
             \/ CommitReset(r) \/ RefuseReset(r) \/ RowIsGone(r)
    <3>1. Done(r) /\ ~Creating(r) /\ UNCHANGED <<rows, data, broken>>
      BY <2>2 DEF WrongPassword, SwitchedOff, LogIn, LogInAfterCommit, KeepPassword, CommitReset,
                  RefuseReset, RowIsGone, Checks, Creating, accountVars, creationVars
    <3>2. QED
      BY <3>1, <1>1
  <2>3. ASSUME NEW kind, NEW n, NEW s, NEW p, NEW q, Move(r, Password(kind, n, s, p, q)),
               task[r].at = "idle", UNCHANGED <<rows, data, broken>>
        PROVE  EveryAccountHasData'
    BY <2>3, <1>1 DEF Creating
  <2>4. ASSUME NEW p \in Passwords, NEW n \in Names, BeginLogin(r, n, p) PROVE EveryAccountHasData'
    BY <2>3, <2>4 DEF BeginLogin, accountVars, creationVars
  <2>5. ASSUME NEW p \in Passwords, NEW c \in cookies, NEW kind \in {"change", "email"}, NEW q \in Passwords,
               BeginChange(r, c, kind, p, q)
        PROVE  EveryAccountHasData'
    BY <2>3, <2>5 DEF BeginChange, accountVars, creationVars
  <2>6. ASSUME NEW p \in Passwords, NEW s \in Slugs, BeginReset(r, s, p) PROVE EveryAccountHasData'
    BY <2>3, <2>6 DEF BeginReset, accountVars, creationVars
  <2>7. QED
    BY <1>3, <2>1, <2>2, <2>4, <2>5, <2>6 DEF Login
<1>4. CASE UNCHANGED <<rows, data, broken, task>>
  BY <1>4 DEF EveryAccountHasData, Rows, Creating
<1>5. CASE Crash
  <2>1. /\ UNCHANGED <<rows, data>> /\ broken \subseteq broken'
        /\ \A q \in Requests : task'[q] = IF Outside(q) THEN task[q] ELSE Idle
        /\ \A q \in Requests : Creating(q) /\ ~Outside(q) => task[q].slug \in broken'
    BY <1>5 DEF Crash, accountVars
  <2>2. ASSUME NEW s \in Rows', data'[s] # "ready", s \notin broken'
        PROVE  \E q \in Requests : Creating(q)' /\ task'[q].slug = s
    <3>1. PICK q \in Requests : Creating(q) /\ task[q].slug = s
      BY <2>1, <2>2 DEF EveryAccountHasData, Rows
    <3>2. task'[q] = task[q]
      BY <2>1, <2>2, <3>1
    <3>3. QED
      BY <3>1, <3>2 DEF Creating
  <2>3. QED
    BY <2>2 DEF EveryAccountHasData
<1>6. QED
  BY <1>2, <1>3, <1>4, <1>5 DEF Next, SetPassword, Forget, vars, accountVars, creationVars

(* An account is without its directory only while a request makes it or    *)
(* takes it back, and where a crash, a compensation or a reattachment that *)
(* failed, or the compensation of an earlier creation left it so           *)
(* (EveryAccountHasData), in any number of creations at the same time.     *)
THEOREM AccountsHaveData == Spec => []EveryAccountHasData
<1>1. Init => EveryAccountHasData
  BY DEF Init, EveryAccountHasData, Rows
<1>2. QED
  BY <1>1, ProvidedStep, AccountsTypeCorrect, PTL DEF Spec

-----------------------------------------------------------------------------
(* The limit of registrations.                                             *)

(* Who inserts a row holds the lock, and a registration has found a place  *)
(* that no other registration can take before it.                          *)
Limited ==
  /\ owed \subseteq Rows /\ RegistrationsWithinLimit
  /\ \A r \in Requests : task[r].at = "insert" /\ ~Outside(r) => lock = r
  /\ \A r \in Requests :
       task[r].at = "insert" /\ task[r].kind = "register" => Cardinality(owed) < MaxAccounts

LEMMA RowsAreFinite == IsFiniteSet(Slugs) /\ \A S \in SUBSET Slugs : IsFiniteSet(S) /\ Cardinality(S) \in Nat
<1>1. 1 \in Int /\ MaxSlug \in Int
  BY AccountsAssumption
<1>2. IsFiniteSet(Slugs)
  BY <1>1, FS_Interval DEF Slugs
<1>3. ASSUME NEW S \in SUBSET Slugs PROVE IsFiniteSet(S) /\ Cardinality(S) \in Nat
  BY <1>2, FS_Subset, FS_CardinalityType
<1>4. QED
  BY <1>2, <1>3

(* A step of a request that is not inserting afterwards.                   *)
LEMMA NotInserting ==
  ASSUME Limited, NEW r \in Requests, UNCHANGED <<rows, owed>>,
         lock' = lock \/ lock = r,
         \A q \in Requests \ {r} : task'[q] = task[q], task'[r].at # "insert"
  PROVE  Limited'
<1>1. Rows' = Rows
  BY DEF Rows
<1>2. \A q \in Requests : task'[q].at = "insert" /\ task'[q].kind \notin {"command", "reattach"} => lock' = q
  BY DEF Limited, Outside
<1>3. \A q \in Requests : task'[q].at = "insert" /\ task'[q].kind = "register" => Cardinality(owed) < MaxAccounts
  BY DEF Limited
<1>4. QED
  BY <1>1, <1>2, <1>3 DEF Limited, RegistrationsWithinLimit, Outside

LEMMA LimitedStep == TypeOK /\ Named /\ Limited /\ [Next]_vars => Limited'
<1> SUFFICES ASSUME TypeOK, Named, Limited, [Next]_vars PROVE Limited'
  OBVIOUS
<1> USE AccountsAssumption
<1>1. ASSUME NEW r \in Requests, UNCHANGED <<rows, owed>>, lock' = lock \/ lock = r,
             \/ Done(r)
             \/ \E p, s, h, n : p # "insert" /\ GoOn(r, p, s, h, n)
             \/ \E x : x.at # "insert" /\ Move(r, x)
      PROVE  Limited'
  <2>1. task'[r].at # "insert" /\ \A q \in Requests \ {r} : task'[q] = task[q]
    BY <1>1, Finished, WentOn, Moved
  <2>2. QED
    BY <1>1, <2>1, NotInserting
<1>2. \A r \in Requests : Unlock(r) => lock' = lock \/ lock = r
  BY DEF Unlock
<1>3. ASSUME NEW r \in Requests, Creation(r) PROVE Limited'
  <2> DEFINE s == task[r].slug
  <2>1. s \in Slugs /\ owed \subseteq Slugs
    BY Fields DEF TypeOK
  <2>2. CASE EnterCreation(r)
    <3>1. PICK f \in FreeSlug : GoOn(r, "insert", f, task[r].seen, task[r].tries)
      BY <2>2 DEF EnterCreation
    <3>2. /\ task'[r].at = "insert" /\ task'[r].kind = task[r].kind
          /\ \A q \in Requests \ {r} : task'[q] = task[q]
      BY <3>1, WentOn
    <3>3. /\ UNCHANGED <<rows, owed>> /\ lock' = (IF Outside(r) THEN lock ELSE r)
          /\ Outside(r) \/ lock = NoRequest
          /\ task[r].kind = "register" => Cardinality(Rows) < MaxAccounts
      BY <2>2 DEF EnterCreation, Enters, Admitted, accountVars
    <3>4. Cardinality(owed) <= Cardinality(Rows)
      BY RowsAreFinite, FS_Subset DEF Limited, Rows
    <3>5. \A q \in Requests : task'[q].at = "insert" /\ task'[q].kind \notin {"command", "reattach"} => lock' = q
      BY <3>2, <3>3 DEF Limited, Outside
    <3>6. task[r].kind = "register" => Cardinality(owed) < MaxAccounts
      BY <3>3, <3>4, RowsAreFinite, <2>1 DEF Rows
    <3>7. Rows' = Rows
      BY <3>3 DEF Rows
    <3>8. QED
      BY <3>2, <3>3, <3>5, <3>6, <3>7 DEF Limited, RegistrationsWithinLimit, Outside
  <2>3. CASE InsertAgain(r)
    <3>1. PICK f, n : GoOn(r, "insert", f, task[r].seen, n)
      BY <2>3 DEF InsertAgain
    <3>2. /\ task'[r].at = "insert" /\ task'[r].kind = task[r].kind
          /\ \A q \in Requests \ {r} : task'[q] = task[q]
      BY <3>1, WentOn
    <3>3. task[r].at = "insert" /\ UNCHANGED <<rows, owed, lock>>
      BY <2>3 DEF InsertAgain, accountVars, creationVars
    <3>4. Rows' = Rows
      BY <3>3 DEF Rows
    <3>5. \A q \in Requests : task'[q].at = task[q].at /\ task'[q].kind = task[q].kind
      BY <3>2, <3>3
    <3>6. QED
      BY <3>3, <3>4, <3>5 DEF Limited, RegistrationsWithinLimit, Outside
  <2>4. CASE InsertRow(r)
    <3>1. task'[r].at = "provision" /\ \A q \in Requests \ {r} : task'[q] = task[q]
      BY <2>4, WentOn DEF InsertRow
    <3>2. rows' = [rows EXCEPT ![s] = task[r].name] /\ task[r].name # NoName /\ task[r].at = "insert"
      BY <2>4 DEF InsertRow, Named
    <3>3. Rows \union {s} \subseteq Rows'
      BY <2>1, <3>2 DEF Rows, TypeOK
    <3>4. CASE task[r].kind = "register"
      <4>1. owed' = owed \union {s} /\ lock = r /\ Cardinality(owed) < MaxAccounts
        BY <2>4, <3>2, <3>4 DEF InsertRow, Limited, Outside
      <4>2. Cardinality(owed') <= Cardinality(owed) + 1
        <5>1. IsFiniteSet(owed) /\ Cardinality(owed) \in Nat
          BY <2>1, RowsAreFinite
        <5>2. Cardinality(owed \union {s}) = IF s \in owed THEN Cardinality(owed) ELSE Cardinality(owed) + 1
          BY <5>1, FS_AddElement
        <5>3. QED
          BY <4>1, <5>1, <5>2
      <4>3. Cardinality(owed') <= MaxAccounts
        BY <4>1, <4>2, <2>1, RowsAreFinite
      <4>4. \A q \in Requests : task'[q].at = "insert" => task'[q].kind \in {"command", "reattach"}
        BY <3>1, <4>1 DEF Limited, Outside
      <4>5. QED
        BY <3>3, <4>1, <4>3, <4>4 DEF Limited, RegistrationsWithinLimit, Outside
    <3>5. CASE task[r].kind # "register"
      <4>1. owed' = owed /\ lock' = lock
        BY <2>4, <3>5 DEF InsertRow
      <4>2. QED
        BY <3>1, <3>3, <4>1 DEF Limited, RegistrationsWithinLimit, Outside
    <3>6. QED
      BY <3>4, <3>5
  <2>5. CASE UndoRow(r)
    <3>1. owed' = owed \ {s} /\ lock' = lock /\ rows' = [rows EXCEPT ![s] = NoName] /\ Goto(r, "remove")
      BY <2>5 DEF UndoRow
    <3>2. task'[r].at = "remove" /\ \A q \in Requests \ {r} : task'[q] = task[q]
      BY <3>1, WentOn DEF Goto
    <3>3. owed' \subseteq Rows'
      BY <2>1, <3>1 DEF Limited, Rows, TypeOK
    <3>4. Cardinality(owed') <= Cardinality(owed) /\ Cardinality(owed') \in Nat /\ Cardinality(owed) \in Nat
      <4>1. IsFiniteSet(owed) /\ Cardinality(owed) \in Nat /\ owed' \in SUBSET owed /\ owed' \in SUBSET Slugs
        BY <3>1, <2>1, RowsAreFinite
      <4>2. Cardinality(owed') <= Cardinality(owed)
        BY <4>1, FS_Subset
      <4>3. QED
        BY <4>1, <4>2, RowsAreFinite
    <3>5. Cardinality(owed) <= MaxAccounts /\ Cardinality(owed') <= MaxAccounts
      BY <3>4 DEF Limited, RegistrationsWithinLimit
    <3>6. \A q \in Requests : task'[q].at = "insert" /\ task'[q].kind \notin {"command", "reattach"} => lock' = q
      BY <3>1, <3>2 DEF Limited, Outside
    <3>7. ASSUME NEW q \in Requests, task'[q].at = "insert", task'[q].kind = "register"
          PROVE  Cardinality(owed') < MaxAccounts
      <4>1. task'[q] = task[q]
        BY <3>2, <3>7
      <4>2. Cardinality(owed) < MaxAccounts
        BY <4>1, <3>7 DEF Limited
      <4>3. QED
        BY <3>4, <4>2
    <3>8. QED
      BY <3>3, <3>5, <3>6, <3>7 DEF Limited, RegistrationsWithinLimit, Outside
  <2>6. CASE Provision(r) \/ ProvisionFails(r)
    <3>1. UNCHANGED <<rows, owed>> /\ (lock' = lock \/ lock = r) /\ (Done(r) \/ Goto(r, "undo"))
      BY <2>6, <1>2 DEF Provision, ProvisionFails, accountVars
    <3>2. QED
      BY <3>1, <1>1 DEF Goto
  <2>7. CASE RefuseCreation(r) \/ InsertGivesUp(r) \/ UndoFails(r) \/ RemoveDirectory(r)
    BY <2>7, <1>1, <1>2
    DEF RefuseCreation, InsertGivesUp, UndoFails, RemoveDirectory, accountVars, creationVars
  <2>8. ASSUME NEW n \in Names, NEW p \in Passwords,
               BeginRegister(r, n, p) \/ \E kind \in {"create", "command"} : BeginCreate(r, kind, n, p)
        PROVE  Limited'
    <3>1. ASSUME NEW kind, Move(r, NewTask(kind, n, p, "queued", 1)), UNCHANGED <<rows, owed, lock>>
          PROVE  Limited'
      <4>1. NewTask(kind, n, p, "queued", 1).at # "insert"
        BY DEF NewTask
      <4>2. QED
        BY <3>1, <4>1, <1>1
    <3>2. QED
      BY <2>8, <3>1 DEF BeginRegister, BeginCreate, accountVars, creationVars
  <2>9. ASSUME NEW n \in Names, NEW p \in Passwords, NEW f \in Slugs, BeginReattach(r, n, p, f)
        PROVE  Limited'
    <3>1. task'[r] = NewTask("reattach", n, p, "insert", f) /\ \A q \in Requests \ {r} : task'[q] = task[q]
      BY <2>9, Moved DEF BeginReattach
    <3>2. task'[r].kind = "reattach"
      BY <3>1 DEF NewTask
    <3>3. UNCHANGED <<rows, owed, lock>> /\ Rows' = Rows
      BY <2>9 DEF BeginReattach, accountVars, creationVars, Rows
    <3>4. QED
      BY <3>1, <3>2, <3>3 DEF Limited, RegistrationsWithinLimit, Outside
  <2>10. QED
    BY <1>3, <2>2, <2>3, <2>4, <2>5, <2>6, <2>7, <2>8, <2>9 DEF Creation
<1>4. ASSUME NEW r \in Requests, Login(r) PROVE Limited'
  <2>1. CASE CommitPassword(r)
    BY <2>1, <1>1 DEF CommitPassword, Goto, creationVars
  <2>2. CASE \/ WrongPassword(r) \/ SwitchedOff(r) \/ LogIn(r) \/ LogInAfterCommit(r) \/ KeepPassword(r)
             \/ CommitReset(r) \/ RefuseReset(r) \/ RowIsGone(r)
    <3>1. Done(r) /\ UNCHANGED <<rows, owed, lock>>
      BY <2>2 DEF WrongPassword, SwitchedOff, LogIn, LogInAfterCommit, KeepPassword, CommitReset,
                  RefuseReset, RowIsGone, accountVars, creationVars
    <3>2. QED
      BY <3>1, <1>1
  <2>3. ASSUME NEW kind, NEW n, NEW s, NEW p, NEW q, Move(r, Password(kind, n, s, p, q)),
               UNCHANGED <<rows, owed, lock>>
        PROVE  Limited'
    <3>1. Password(kind, n, s, p, q).at # "insert"
      BY DEF Password
    <3>2. QED
      BY <2>3, <3>1, <1>1
  <2>4. ASSUME NEW p \in Passwords, NEW n \in Names, BeginLogin(r, n, p) PROVE Limited'
    BY <2>3, <2>4 DEF BeginLogin, accountVars, creationVars
  <2>5. ASSUME NEW p \in Passwords, NEW c \in cookies, NEW kind \in {"change", "email"}, NEW q \in Passwords,
               BeginChange(r, c, kind, p, q)
        PROVE  Limited'
    BY <2>3, <2>5 DEF BeginChange, accountVars, creationVars
  <2>6. ASSUME NEW p \in Passwords, NEW s \in Slugs, BeginReset(r, s, p) PROVE Limited'
    BY <2>3, <2>6 DEF BeginReset, accountVars, creationVars
  <2>7. QED
    BY <1>4, <2>1, <2>2, <2>4, <2>5, <2>6 DEF Login
<1>5. CASE UNCHANGED <<rows, owed, lock, task>>
  BY <1>5 DEF Limited, RegistrationsWithinLimit, Rows, Outside
<1>6. CASE Crash
  <2>1. UNCHANGED <<rows, owed>> /\ \A q \in Requests : task'[q] = IF Outside(q) THEN task[q] ELSE Idle
    BY <1>6 DEF Crash, accountVars
  <2>2. \A q \in Requests : task'[q].at = "insert" => task'[q].kind \in {"command", "reattach"}
    BY <2>1 DEF Outside, Idle
  <2>3. Rows' = Rows
    BY <2>1 DEF Rows
  <2>4. QED
    BY <2>1, <2>2, <2>3 DEF Limited, RegistrationsWithinLimit, Outside
<1>7. QED
  BY <1>3, <1>4, <1>5, <1>6 DEF Next, SetPassword, Forget, vars, accountVars, creationVars

(* Registrations alone never exceed MAX_ACCOUNTS, however many of them     *)
(* found the same place free before they waited for the lock.              *)
THEOREM RegistrationsLimited == Spec => []RegistrationsWithinLimit
<1>1. Init => Limited
  <2> SUFFICES ASSUME Init PROVE Limited
    OBVIOUS
  <2>1. owed = {} /\ Cardinality(owed) = 0
    BY FS_EmptySet DEF Init
  <2>2. \A r \in Requests : task[r].at = "idle"
    BY DEF Init, Idle
  <2>3. QED
    BY <2>1, <2>2, AccountsAssumption DEF Limited, RegistrationsWithinLimit
<1>2. Limited => RegistrationsWithinLimit
  BY DEF Limited
<1>3. QED
  BY <1>1, <1>2, LimitedStep, AccountsNamed, PTL DEF Spec

-----------------------------------------------------------------------------
(* The guesses.                                                            *)

Guessing(k) == {r \in Requests : task[r].at = "verify" /\ k \in LoginKeys(task[r].name)}

(* Who was let in when the counter was below the limit still has a guess.  *)
Bounded ==
  \A k \in Keys : counter[k] + Cardinality(Guessing(k)) <= Limit[k] - 1 + Cardinality(Requests)

LEMMA RequestsAreFinite ==
  /\ Cardinality(Requests) \in Nat
  /\ \A S \in SUBSET Requests : IsFiniteSet(S) /\ Cardinality(S) \in Nat /\ Cardinality(S) <= Cardinality(Requests)
  /\ \A S \in SUBSET Requests : \A T \in SUBSET S : Cardinality(T) <= Cardinality(S)
  /\ \A S \in SUBSET Requests : \A r \in S : Cardinality(S \ {r}) = Cardinality(S) - 1
  BY AccountsAssumption, FS_Subset, FS_CardinalityType, FS_RemoveElement

(* A step of one request after which it does not guess, or no more guesses *)
(* than before, keeps the bound if no counter grew.                        *)
LEMMA NoMoreGuesses ==
  ASSUME TypeOK, Bounded, counter' \in [Keys -> Nat], \A k \in Keys : counter'[k] <= counter[k],
         \A q \in Requests : task'[q] = task[q] \/ task'[q].at # "verify"
  PROVE  Bounded'
<1> SUFFICES ASSUME NEW k \in Keys
             PROVE  counter'[k] + Cardinality(Guessing(k)') <= Limit[k] - 1 + Cardinality(Requests)
  BY DEF Bounded
<1>1. Guessing(k)' \subseteq Guessing(k)
  BY DEF Guessing
<1>2. Guessing(k) \in SUBSET Requests /\ Guessing(k)' \in SUBSET Requests
  BY DEF Guessing
<1>3. Cardinality(Guessing(k)') <= Cardinality(Guessing(k))
  BY <1>1, <1>2, RequestsAreFinite
<1>4. /\ Cardinality(Guessing(k)) \in Nat /\ Cardinality(Guessing(k)') \in Nat /\ Cardinality(Requests) \in Nat
      /\ counter[k] \in Nat /\ counter'[k] \in Nat /\ Limit[k] \in Nat
  BY <1>2, RequestsAreFinite, AccountsAssumption DEF TypeOK
<1>5. counter[k] + Cardinality(Guessing(k)) <= Limit[k] - 1 + Cardinality(Requests) /\ counter'[k] <= counter[k]
  BY DEF Bounded
<1>6. QED
  BY <1>3, <1>4, <1>5

(* A check of a password begins, of a name that is not locked.             *)
LEMMA GuessBegins ==
  ASSUME TypeOK, Bounded, counter' = counter, NEW r \in Requests, NEW n, ~Locked(n),
         task'[r].name = n, \A q \in Requests \ {r} : task'[q] = task[q]
  PROVE  Bounded'
<1> SUFFICES ASSUME NEW k \in Keys
             PROVE  counter[k] + Cardinality(Guessing(k)') <= Limit[k] - 1 + Cardinality(Requests)
  BY DEF Bounded
<1>1. Guessing(k) \in SUBSET Requests /\ Guessing(k)' \in SUBSET Requests
  BY DEF Guessing
<1>2. /\ Cardinality(Guessing(k)) \in Nat /\ Cardinality(Guessing(k)') \in Nat /\ Cardinality(Requests) \in Nat
      /\ Cardinality(Guessing(k)') <= Cardinality(Requests)
      /\ counter[k] \in Nat /\ Limit[k] \in Nat
  BY <1>1, RequestsAreFinite, AccountsAssumption DEF TypeOK
<1>3. CASE k \in LoginKeys(n)
  <2>1. counter[k] < Limit[k]
    BY <1>2, <1>3 DEF Locked
  <2>2. QED
    BY <2>1, <1>2
<1>4. CASE k \notin LoginKeys(n)
  <2>1. Guessing(k)' \subseteq Guessing(k)
    BY <1>4 DEF Guessing
  <2>2. Cardinality(Guessing(k)') <= Cardinality(Guessing(k))
    BY <2>1, <1>1, RequestsAreFinite
  <2>3. counter[k] + Cardinality(Guessing(k)) <= Limit[k] - 1 + Cardinality(Requests)
    BY DEF Bounded
  <2>4. QED
    BY <2>2, <2>3, <1>2
<1>5. QED
  BY <1>3, <1>4

(* A wrong password turns a guess into a count.                            *)
LEMMA GuessFails ==
  ASSUME TypeOK, Bounded, NEW r \in Requests, WrongPassword(r)
  PROVE  Bounded'
<1>1. /\ task[r].at = "verify"
      /\ counter' = [k \in Keys |-> IF k \in LoginKeys(task[r].name) THEN counter[k] + 1 ELSE counter[k]]
      /\ task'[r].at = "idle" /\ \A q \in Requests \ {r} : task'[q] = task[q]
  BY Finished DEF WrongPassword, Checks, Count
<1> SUFFICES ASSUME NEW k \in Keys
             PROVE  counter'[k] + Cardinality(Guessing(k)') <= Limit[k] - 1 + Cardinality(Requests)
  BY DEF Bounded
<1>2. Guessing(k)' = Guessing(k) \ {r}
  BY <1>1 DEF Guessing
<1>3. Guessing(k) \in SUBSET Requests /\ Guessing(k)' \in SUBSET Requests
  BY DEF Guessing
<1>4. /\ Cardinality(Guessing(k)) \in Nat /\ Cardinality(Guessing(k)') \in Nat /\ Cardinality(Requests) \in Nat
      /\ Cardinality(Guessing(k)') <= Cardinality(Guessing(k))
      /\ counter[k] \in Nat /\ Limit[k] \in Nat
  BY <1>2, <1>3, RequestsAreFinite, AccountsAssumption DEF TypeOK
<1>5. counter[k] + Cardinality(Guessing(k)) <= Limit[k] - 1 + Cardinality(Requests)
  BY DEF Bounded
<1>6. CASE k \in LoginKeys(task[r].name)
  <2>1. r \in Guessing(k) /\ counter'[k] = counter[k] + 1
    BY <1>1, <1>6 DEF Guessing
  <2>2. Cardinality(Guessing(k)') = Cardinality(Guessing(k)) - 1
    BY <2>1, <1>2, <1>3, RequestsAreFinite
  <2>3. QED
    BY <2>1, <2>2, <1>4, <1>5
<1>7. CASE k \notin LoginKeys(task[r].name)
  <2>1. counter'[k] = counter[k]
    BY <1>1, <1>7
  <2>2. QED
    BY <2>1, <1>4, <1>5
<1>8. QED
  BY <1>6, <1>7

LEMMA BoundedStep == TypeOK /\ Bounded /\ [Next]_vars => Bounded'
<1> SUFFICES ASSUME TypeOK, Bounded, [Next]_vars PROVE Bounded'
  OBVIOUS
<1>1. ASSUME NEW r \in Requests,
             \/ counter' = counter
             \/ \E ks : Clear(ks),
             \/ Done(r)
             \/ \E p, s, h, n : p # "verify" /\ GoOn(r, p, s, h, n)
             \/ \E x : x.at # "verify" /\ Move(r, x)
      PROVE  Bounded'
  <2>1. \A q \in Requests : task'[q] = task[q] \/ task'[q].at # "verify"
    BY <1>1, Finished, WentOn, Moved
  <2>2. counter' \in [Keys -> Nat] /\ \A k \in Keys : counter'[k] <= counter[k]
    BY <1>1 DEF Clear, TypeOK
  <2>3. QED
    BY <2>1, <2>2, NoMoreGuesses
<1>2. ASSUME NEW r \in Requests, Creation(r) PROVE Bounded'
  <2>1. ASSUME NEW n \in Names, NEW p \in Passwords, NEW kind, NEW at \in {"queued", "insert"}, NEW s,
               Move(r, NewTask(kind, n, p, at, s)), counter' = counter
        PROVE  Bounded'
    <3>1. NewTask(kind, n, p, at, s).at # "verify"
      BY <2>1 DEF NewTask
    <3>2. QED
      BY <2>1, <3>1, <1>1
  <2>2. ASSUME NEW n \in Names, NEW p \in Passwords, BeginRegister(r, n, p) PROVE Bounded'
    BY <2>1, <2>2 DEF BeginRegister, loginVars
  <2>3. ASSUME NEW n \in Names, NEW p \in Passwords, NEW kind \in {"create", "command"}, BeginCreate(r, kind, n, p)
        PROVE  Bounded'
    BY <2>1, <2>3 DEF BeginCreate, loginVars
  <2>4. ASSUME NEW n \in Names, NEW p \in Passwords, NEW s \in Slugs, BeginReattach(r, n, p, s) PROVE Bounded'
    BY <2>1, <2>4 DEF BeginReattach, loginVars
  <2>5. CASE EnterCreation(r) \/ InsertAgain(r) \/ InsertRow(r)
    BY <2>5, <1>1 DEF EnterCreation, InsertAgain, InsertRow, loginVars
  <2>6. CASE ProvisionFails(r) \/ UndoRow(r)
    BY <2>6, <1>1 DEF ProvisionFails, UndoRow, Goto, loginVars
  <2>7. CASE RefuseCreation(r) \/ InsertGivesUp(r) \/ Provision(r) \/ UndoFails(r) \/ RemoveDirectory(r)
    BY <2>7, <1>1 DEF RefuseCreation, InsertGivesUp, Provision, UndoFails, RemoveDirectory, loginVars
  <2>8. QED
    BY <1>2, <2>2, <2>3, <2>4, <2>5, <2>6, <2>7 DEF Creation
<1>3. ASSUME NEW r \in Requests, Login(r) PROVE Bounded'
  <2>1. CASE CommitPassword(r)
    BY <2>1, <1>1 DEF CommitPassword, Goto
  <2>2. CASE \/ SwitchedOff(r) \/ LogIn(r) \/ LogInAfterCommit(r) \/ KeepPassword(r)
             \/ CommitReset(r) \/ RefuseReset(r) \/ RowIsGone(r)
    <3>1. Done(r) /\ (counter' = counter \/ \E ks : Clear(ks))
      BY <2>2 DEF SwitchedOff, LogIn, LogInAfterCommit, KeepPassword, CommitReset, RefuseReset, RowIsGone,
                  loginVars
    <3>2. QED
      BY <3>1, <1>1
  <2>3. ASSUME NEW p \in Passwords, NEW n \in Names, BeginLogin(r, n, p) PROVE Bounded'
    <3>1. PICK s \in Slugs : Move(r, Password("login", n, s, p, p))
      BY <2>3 DEF BeginLogin
    <3>2. task'[r].name = n /\ \A q \in Requests \ {r} : task'[q] = task[q]
      BY <3>1, Moved DEF Password
    <3>3. QED
      BY <2>3, <3>2, GuessBegins DEF BeginLogin, loginVars
  <2>4. ASSUME NEW p \in Passwords, NEW c \in cookies, NEW kind \in {"change", "email"}, NEW q \in Passwords,
               BeginChange(r, c, kind, p, q)
        PROVE  Bounded'
    <3>1. Move(r, Password(kind, rows[c.slug], c.slug, p, q)) /\ ~Locked(rows[c.slug]) /\ counter' = counter
      BY <2>4 DEF BeginChange, loginVars
    <3>2. task'[r].name = rows[c.slug] /\ \A u \in Requests \ {r} : task'[u] = task[u]
      BY <3>1, Moved DEF Password
    <3>3. QED
      BY <3>1, <3>2, GuessBegins
  <2>5. ASSUME NEW p \in Passwords, NEW s \in Slugs, BeginReset(r, s, p) PROVE Bounded'
    <3>1. Password("reset", rows[s], s, p, p).at # "verify"
      BY DEF Password
    <3>2. QED
      BY <2>5, <3>1, <1>1 DEF BeginReset, loginVars
  <2>6. QED
    BY <1>3, <2>1, <2>2, <2>3, <2>4, <2>5, GuessFails DEF Login
<1>4. CASE UNCHANGED <<counter, task>>
  BY <1>4 DEF Bounded, Guessing
<1>5. ASSUME NEW k \in Keys, Forget(k) PROVE Bounded'
  <2>1. task' = task /\ counter' \in [Keys -> Nat] /\ \A j \in Keys : counter'[j] <= counter[j]
    BY <1>5 DEF Forget, TypeOK
  <2>2. QED
    BY <2>1, NoMoreGuesses
<1>6. CASE Crash
  <2>1. counter' \in [Keys -> Nat] /\ \A j \in Keys : counter'[j] <= counter[j]
    BY <1>6 DEF Crash, TypeOK
  <2>2. \A q \in Requests : task'[q] = task[q] \/ task'[q].at # "verify"
    BY <1>6 DEF Crash, Idle
  <2>3. QED
    BY <2>1, <2>2, NoMoreGuesses
<1>7. QED
  BY <1>2, <1>3, <1>4, <1>5, <1>6 DEF Next, SetPassword, vars, loginVars

(* The wrong passwords counted for a name or an address stay within the    *)
(* limit, but for those of the requests that were under way.               *)
THEOREM GuessesBounded == Spec => []GuessesAreBounded
<1>1. Init => Bounded
  <2> SUFFICES ASSUME Init, NEW k \in Keys
               PROVE  counter[k] + Cardinality(Guessing(k)) <= Limit[k] - 1 + Cardinality(Requests)
    BY DEF Bounded
  <2>1. counter[k] = 0 /\ Guessing(k) = {}
    BY DEF Init, Guessing, Idle
  <2>2. QED
    BY <2>1, FS_EmptySet, RequestsAreFinite, AccountsAssumption
<1>2. TypeOK /\ Bounded => GuessesAreBounded
  <2> SUFFICES ASSUME TypeOK, Bounded, NEW k \in Keys PROVE counter[k] < Limit[k] + Cardinality(Requests)
    BY DEF GuessesAreBounded
  <2>1. Guessing(k) \in SUBSET Requests
    BY DEF Guessing
  <2>2. /\ Cardinality(Guessing(k)) \in Nat /\ Cardinality(Requests) \in Nat
        /\ counter[k] \in Nat /\ Limit[k] \in Nat
    BY <2>1, RequestsAreFinite, AccountsAssumption DEF TypeOK
  <2>3. QED
    BY <2>2 DEF Bounded
<1>3. QED
  BY <1>1, <1>2, BoundedStep, AccountsTypeCorrect, PTL DEF Spec
=============================================================================
