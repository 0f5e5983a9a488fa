----------------------------- MODULE MCBackups -----------------------------
(* One backup of each kind is kept, two from before a migration.           *)
EXTENDS Backups

MCKeep == [k \in Kinds |-> IF k = "pre-upgrade" THEN 2 ELSE 1]
=============================================================================
