---------------------------- MODULE AtomicRestore ----------------------------
(***************************************************************************)
(* What restoring a backup promises: it is one operation, applied whole or *)
(* not at all, and never by itself later on, whatever fails or crashes in  *)
(* the middle.                                                             *)
(***************************************************************************)
CONSTANTS Backups, None

VARIABLES
  account,  \* the data of the account: one whole backup
  pending   \* the backup whose restore is under way, if any

data == <<account, pending>>

Init == account \in Backups /\ pending = None

Request(b) == pending = None /\ pending' = b /\ UNCHANGED account

Apply == pending # None /\ account' = pending /\ pending' = None

Refuse == pending # None /\ pending' = None /\ UNCHANGED account

Next == (\E b \in Backups : Request(b)) \/ Apply \/ Refuse

Spec == Init /\ [][Next]_data
=============================================================================
