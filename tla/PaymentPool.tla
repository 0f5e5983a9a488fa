----------------------------- MODULE PaymentPool -----------------------------
(***************************************************************************)
(* How the requests that change payments and statuses get the payment lock *)
(* and the worker threads they need (routers/invoices.py:1535-1546).  The  *)
(* lock is a synchronous dependency: the thread that takes it waits for    *)
(* it, so a waiting request occupies a worker thread.  The request that    *)
(* got the lock gives its thread back, and needs one again to open the     *)
(* database session and one more to run the handler.  Leaving the          *)
(* dependencies does not need a thread of the pool.  There is one lock and *)
(* one pool for all accounts.                                              *)
(***************************************************************************)
EXTENDS Naturals, FiniteSets

CONSTANTS
  Requests,  \* requests that may be under way at one time
  Tokens,    \* size of the pool of worker threads
  Nobody     \* nobody holds the lock

ASSUME PoolAssumption ==
  /\ Tokens \in Nat \ {0}
  /\ IsFiniteSet(Requests)
  /\ Nobody \notin Requests

VARIABLES
  pc,     \* where each request is
  holder  \* who has _payment_lock

poolVars == <<pc, holder>>

(* Places in which a request occupies a worker thread.                     *)
InThread == {"acquiring", "opening", "handling"}

(* Places in which it holds the lock.                                      *)
InLock == {"locked", "opening", "opened", "handling", "handled"}

Busy == {r \in Requests : pc[r] \in InThread}

ThreadIsFree == Cardinality(Busy) < Tokens

PoolInit ==
  /\ pc = [r \in Requests |-> "idle"]
  /\ holder = Nobody

Goto(r, from, to) ==
  /\ pc[r] = from
  /\ pc' = [pc EXCEPT ![r] = to]

Arrive(r) == Goto(r, "idle", "arrived") /\ UNCHANGED holder

(* A thread enters payment_lock() ...                                      *)
EnterDependency(r) == ThreadIsFree /\ Goto(r, "arrived", "acquiring") /\ UNCHANGED holder

(* ... and waits in it for the lock.                                       *)
AcquireLock(r) ==
  /\ holder = Nobody
  /\ Goto(r, "acquiring", "locked")
  /\ holder' = r

(* The dependencies after the lock: get_db, get_accounts_db.               *)
OpenSession(r) == ThreadIsFree /\ Goto(r, "locked", "opening") /\ UNCHANGED holder

SessionOpened(r) == Goto(r, "opening", "opened") /\ UNCHANGED holder

RunHandler(r) == ThreadIsFree /\ Goto(r, "opened", "handling") /\ UNCHANGED holder

HandlerReturns(r) == Goto(r, "handling", "handled") /\ UNCHANGED holder

(* Mutation of LeaveDependencies: the lock is not released.                *)
LeaveDependencies_KeepLock(r) == Goto(r, "handled", "idle") /\ UNCHANGED holder

(* The session is closed and the lock released.                            *)
LeaveDependencies(r) == Goto(r, "handled", "idle") /\ holder' = Nobody

Proceed(r) ==
  \/ EnterDependency(r)
  \/ AcquireLock(r)
  \/ OpenSession(r)
  \/ SessionOpened(r)
  \/ RunHandler(r)
  \/ HandlerReturns(r)
  \/ LeaveDependencies(r)

PoolNext == \E r \in Requests : Arrive(r) \/ Proceed(r)

(* The threads run, and a free thread goes to the request that has waited  *)
(* longest; nothing is assumed about which thread gets the lock.           *)
PoolSpec == PoolInit /\ [][PoolNext]_poolVars /\ \A r \in Requests : WF_poolVars(Proceed(r))

-----------------------------------------------------------------------------

(* The variables have their types; the lock belongs to nobody or to a      *)
(* request that has taken it and has not left its dependencies.            *)
PoolTypeOK ==
  /\ pc \in [Requests -> {"idle", "arrived"} \union InThread \union InLock]
  /\ holder \in {r \in Requests : pc[r] \in InLock} \union {Nobody}

(* "drží sa od začiatku obsluhy po commit" (routers/invoices.py:1538): at  *)
(* most one request is between taking the lock and having committed.       *)
OneAtATime == \A r \in Requests : pc[r] \in InLock => holder = r

(* "zápisy úhrad a zmena stavu sa spracúvajú po jednom" (README.md:201):   *)
(* one after the other, that is, the one whose turn it is is answered and  *)
(* the lock is free for the next.                                          *)
EveryTurnEnds == \A r \in Requests : holder = r ~> holder # r

(* The request with the lock needs a thread, and all of them wait for it.  *)
Stuck(r) ==
  /\ pc[r] \in {"locked", "opened"}
  /\ Cardinality({q \in Requests : pc[q] = "acquiring"}) = Tokens

(* The only way a turn does not end: whatever the threads do and however   *)
(* few there are, the request that got the lock is answered and releases   *)
(* it unless those that wait for it have taken every thread meanwhile.     *)
TurnsEndUnlessPoolIsFull ==
  \A r \in Requests : holder = r ~> (holder # r \/ Stuck(r))
=============================================================================
