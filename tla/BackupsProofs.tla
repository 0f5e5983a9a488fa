---------------------------- MODULE BackupsProofs ----------------------------
(***************************************************************************)
(* What the backups of an account promise, for every retention, bucket,    *)
(* number of failures, crashes and restores, and any number of backups.    *)
(*                                                                         *)
(* None of the promises is inductive.  That the status tells the truth     *)
(* rests on the lock: whoever has it alone decides over the newest backup  *)
(* of its kind (FileInv), and knows the status that is on disk (ReadInv).  *)
(* GoodInv and PristineInv speak of a backup that is not the one still to  *)
(* be verified, because that one may be removed; PristineInv counts how    *)
(* many newer ones the starts of the container can have put behind it.     *)
(***************************************************************************)
EXTENDS Backups, SequenceTheorems, TLAPS

Working(a) == run[a].at \notin {"idle", "waiting"}

(* The newest backup of kind k is not verified yet.                        *)
Unverified(k) == \E a \in Actors : At(a, "verify") /\ run[a].kind = k
Settled(k) == {i \in 1 .. Len(zips[k]) : Unverified(k) => i < Len(zips[k])}

(* Whoever is at work has the lock; only start.sh backs up before a        *)
(* migration, and nobody asks for a backup of the kind a restore makes.    *)
LockInv ==
  /\ \A a \in Actors : Working(a) <=> lock = a
  /\ \A a \in Actors : run[a].kind # "pre-restore"
  /\ \A a \in Actors : run[a].kind = "pre-upgrade" => a = "start"
  /\ ~At("start", "idle") => phase = "backing"

(* What was read from the status file, if it could be read, still stands in*)
(* it.                                                                     *)
ReadInv ==
  \A a \in Actors :
    /\ Working(a) /\ ~At(a, "save") => run[a].read = ReadStatus(run[a].blind)
    /\ At(a, "save") /\ ~run[a].blind => run[a].read.good = status.good
    /\ run[a].read.copy = "ok" => TRUE \in Range(remote)

(* The backup a run has written is the newest of its kind, and once it     *)
(* was verified it is good.                                                *)
FileInv ==
  \A a \in Actors :
    /\ At(a, "verify") => zips[run[a].kind] # <<>>
    /\ run[a].at \in {"retain", "upload", "save"} => zips[run[a].kind] # <<>> /\ Good(Mine(a))

GoodInv ==
  status.good => \E k \in Kinds \ {"pre-restore"} : \E i \in Settled(k) : Good(zips[k][i])

CopyInv == status.copy = "ok" => TRUE \in Range(remote)

(* A restore that has begun has its safety backup as the newest.           *)
SafetyInv ==
  /\ restore # "none" => zips["pre-restore"] # <<>>
  /\ restore = "journal" => Last(zips["pre-restore"]).whole

(* Backups from before the migration that the present start may still add. *)
ToCome ==
  IF (phase \in {"recover", "backup"} /\ schema # "new")
       \/ run["start"].at \in {"waiting", "snapshot", "write"}
    THEN 1 ELSE 0

(* Behind a verified backup from before the migration there are fewer      *)
(* than there were starts, those to come included.                         *)
PristineInv ==
  /\ starts > 0
  /\ pristine /\ starts <= Keep["pre-upgrade"] =>
       \E i \in Settled("pre-upgrade") :
         /\ Good(zips["pre-upgrade"][i]) /\ zips["pre-upgrade"][i].before
         /\ Len(zips["pre-upgrade"]) - i + ToCome < starts

BackupInv ==
  /\ TypeOK /\ LockInv /\ ReadInv /\ FileInv /\ GoodInv /\ CopyInv /\ SafetyInv /\ PristineInv

-----------------------------------------------------------------------------
(* Sequences of backups                                                    *)

(* The newest n are the end of the sequence.                               *)
LEMMA NewestIsEnd ==
  ASSUME NEW S, NEW s \in Seq(S), NEW n \in Nat \ {0}
  PROVE  /\ Newest(s, n) \in Seq(S)
         /\ Len(Newest(s, n)) = IF Len(s) > n THEN n ELSE Len(s)
         /\ \A i \in 1 .. Len(Newest(s, n)) :
              Newest(s, n)[i] = s[i + (Len(s) - Len(Newest(s, n)))]
<1>1. Len(s) \in Nat /\ \A i \in 1 .. Len(s) : s[i] \in S
  BY LenProperties
<1>2. CASE Len(s) > n
  <2> DEFINE m == Len(s) - n + 1
             t == SubSeq(s, m, Len(s))
  <2>1. m \in Int /\ Len(s) \in Int /\ \A i \in m .. Len(s) : s[i] \in S
    BY <1>1, <1>2
  <2>2. t \in Seq(S) /\ Len(t) = n /\ \A i \in 1 .. n : t[i] = s[m + i - 1]
    <3>1. /\ t \in Seq(S)
          /\ Len(t) = IF m <= Len(s) THEN Len(s) - m + 1 ELSE 0
          /\ \A i \in 1 .. Len(s) - m + 1 : t[i] = s[m + i - 1]
      BY <2>1, SubSeqProperties
    <3>2. m <= Len(s) /\ Len(s) - m + 1 = n
      BY <1>1, <1>2
    <3>3. QED
      BY <3>1, <3>2
  <2>3. \A i \in 1 .. n : m + i - 1 = i + (Len(s) - n)
    BY <1>1
  <2>4. Newest(s, n) = t
    BY <1>2 DEF Newest
  <2> HIDE DEF m, t
  <2>5. QED
    BY <1>2, <2>2, <2>3, <2>4
<1>3. CASE ~(Len(s) > n)
  <2>1. Newest(s, n) = s
    BY <1>3 DEF Newest
  <2>2. \A i \in 1 .. Len(s) : i + (Len(s) - Len(s)) = i
    BY <1>1
  <2>3. QED
    BY <1>3, <2>1, <2>2
<1>4. QED
  BY <1>2, <1>3

(* The retention leaves the newest backup of a kind there is.              *)
LEMMA NewestKeepsLast ==
  ASSUME NEW S, NEW s \in Seq(S), NEW n \in Nat \ {0}, s # <<>>
  PROVE  Newest(s, n) # <<>> /\ Last(Newest(s, n)) = Last(s)
<1>1. Len(s) \in Nat \ {0}
  BY LenProperties, EmptySeq
<1> DEFINE t == Newest(s, n)
<1>2. /\ t \in Seq(S)
      /\ Len(t) = IF Len(s) > n THEN n ELSE Len(s)
      /\ \A i \in 1 .. Len(t) : t[i] = s[i + (Len(s) - Len(t))]
  BY NewestIsEnd
<1> HIDE DEF t
<1>3. Len(t) \in Nat \ {0} /\ Len(t) + (Len(s) - Len(t)) = Len(s)
  BY <1>1, <1>2
<1>4. t[Len(t)] = s[Len(s)]
  <2>1. Len(t) \in 1 .. Len(t)
    BY <1>3
  <2>2. t[Len(t)] = s[Len(t) + (Len(s) - Len(t))]
    BY <1>2, <2>1
  <2>3. QED
    BY <1>3, <2>2
<1>5. t # <<>>
  BY <1>2, <1>3, EmptySeq
<1>6. QED
  BY <1>4, <1>5 DEF t, Last

(* Removing the newest leaves the others where they are.                   *)
LEMMA FrontKeeps ==
  ASSUME NEW S, NEW s \in Seq(S), s # <<>>
  PROVE  /\ Front(s) \in Seq(S)
         /\ Len(Front(s)) = Len(s) - 1
         /\ \A i \in 1 .. Len(s) - 1 : Front(s)[i] = s[i]
<1>1. Len(s) \in Nat \ {0} /\ \A i \in 1 .. Len(s) : s[i] \in S
  BY LenProperties, EmptySeq
<1>2. /\ SubSeq(s, 1, Len(s) - 1) \in Seq(S)
      /\ Len(SubSeq(s, 1, Len(s) - 1)) = IF 1 <= Len(s) - 1 THEN (Len(s) - 1) - 1 + 1 ELSE 0
      /\ \A i \in 1 .. (Len(s) - 1) - 1 + 1 : SubSeq(s, 1, Len(s) - 1)[i] = s[1 + i - 1]
  <2>1. 1 \in Int /\ Len(s) - 1 \in Int /\ \A i \in 1 .. Len(s) - 1 : s[i] \in S
    BY <1>1
  <2>2. QED
    BY <2>1, SubSeqProperties
<1>3. \A i \in 1 .. Len(s) - 1 : 1 + i - 1 = i
  BY <1>1
<1>4. (Len(s) - 1) - 1 + 1 = Len(s) - 1
  BY <1>1
<1>5. QED
  BY <1>1, <1>2, <1>3, <1>4 DEF Front

(* An addition is the newest, and the others stay where they are.          *)
LEMMA AppendKeeps ==
  ASSUME NEW S, NEW s \in Seq(S), NEW e \in S
  PROVE  /\ Append(s, e) \in Seq(S) /\ Append(s, e) # <<>>
         /\ Len(Append(s, e)) = Len(s) + 1
         /\ \A i \in 1 .. Len(s) : Append(s, e)[i] = s[i]
         /\ Last(Append(s, e)) = e
  BY AppendProperties DEF Last

(* A new object in the bucket does not displace the good ones, and a good  *)
(* one outlives the retention that follows it.                             *)
LEMMA BucketKeepsGood ==
  ASSUME remote \in Seq(BOOLEAN)
  PROVE  /\ \A r \in Pruned : r \in Seq(BOOLEAN) /\ Len(r) <= Len(remote) + 1 /\ TRUE \in Range(r)
         /\ Grown(FALSE) \in Seq(BOOLEAN) /\ Len(Grown(FALSE)) <= Len(remote) + 1
         /\ TRUE \in Range(remote) => TRUE \in Range(Grown(FALSE))
<1> DEFINE T == Grown(TRUE)  F == Grown(FALSE)  N == Newest(T, OffsiteKeep)
<1>1. ASSUME NEW r \in Seq(BOOLEAN), r # <<>>, Last(r) = TRUE PROVE TRUE \in Range(r)
  <2>1. Len(r) \in DOMAIN r
    BY <1>1, LenProperties, EmptySeq
  <2>2. QED
    BY <1>1, <2>1 DEF Last, Range
<1>2. /\ T \in Seq(BOOLEAN) /\ T # <<>> /\ Last(T) = TRUE /\ Len(T) = Len(remote) + 1
      /\ F \in Seq(BOOLEAN) /\ Len(F) = Len(remote) + 1
      /\ \A i \in 1 .. Len(remote) : F[i] = remote[i]
  <2>1. ASSUME NEW b \in BOOLEAN
        PROVE  /\ Grown(b) \in Seq(BOOLEAN) /\ Grown(b) # <<>> /\ Last(Grown(b)) = b
               /\ Len(Grown(b)) = Len(remote) + 1
               /\ \A i \in 1 .. Len(remote) : Grown(b)[i] = remote[i]
    BY AppendKeeps DEF Grown
  <2>2. QED
    BY <2>1, Zenon
<1>3. Pruned = {T, N}
  BY DEF Pruned
<1> HIDE DEF T, F
<1>4. /\ N \in Seq(BOOLEAN) /\ N # <<>> /\ Last(N) = TRUE
      /\ Len(N) = IF Len(T) > OffsiteKeep THEN OffsiteKeep ELSE Len(T)
  BY <1>2, NewestIsEnd, NewestKeepsLast, BackupsAssumption
<1> HIDE DEF N
<1>5. Len(remote) \in Nat
  BY LenProperties
<1>6. Len(N) <= Len(remote) + 1 /\ Len(T) <= Len(remote) + 1
  BY <1>2, <1>4, <1>5, BackupsAssumption
<1>7. ASSUME TRUE \in Range(remote) PROVE TRUE \in Range(F)
  <2>1. PICK i \in 1 .. Len(remote) : remote[i] = TRUE
    BY <1>7, LenProperties DEF Range
  <2>2. DOMAIN F = 1 .. Len(remote) + 1
    BY <1>2, LenProperties
  <2>3. i \in DOMAIN F
    BY <1>5, <2>2
  <2>4. F[i] = TRUE
    BY <1>2, <2>1
  <2>5. QED
    BY <2>3, <2>4 DEF Range
<1>8. \A r \in Pruned : r \in Seq(BOOLEAN) /\ Len(r) <= Len(remote) + 1 /\ TRUE \in Range(r)
  BY <1>1, <1>2, <1>3, <1>4, <1>6
<1>9. Len(F) <= Len(remote) + 1
  BY <1>2, <1>5
<1>10. QED
  BY <1>2, <1>7, <1>8, <1>9 DEF F

-----------------------------------------------------------------------------
(* Steps by what they change                                               *)

(* Initially there is the backup of an earlier restore.                    *)
LEMMA BackupInit == Init => BackupInv
<1> SUFFICES ASSUME Init PROVE BackupInv
  OBVIOUS
<1> USE BackupsAssumption DEF Init
<1>1. Earlier \in Seq(Archive) /\ Earlier # <<>> /\ <<>> \in Seq(Archive)
  BY DEF Earlier, SafetyZip, Archive
<1>2. <<>> \in Seq(BOOLEAN) /\ Len(<<>>) = 0
  BY EmptySeq
<1>3. TypeOK
  <2>1. zips \in [Kinds -> Seq(Archive)]
    BY <1>1
  <2>2. status \in Status /\ Quiet \in Run
    BY DEF Status, Quiet, NoStatus, Run, Places, Kinds
  <2>3. run \in [Actors -> Run]
    BY <2>2
  <2>4. remote \in Seq(BOOLEAN) /\ Len(remote) <= MaxRemote
    BY <1>2
  <2>5. /\ fresh \in BOOLEAN /\ recent \in BOOLEAN /\ photo \in BOOLEAN /\ pristine \in BOOLEAN
        /\ lock \in Actors \cup {Nobody}
    OBVIOUS
  <2>6. /\ restore \in {"none", "open", "journal"}
        /\ phase \in {"recover", "backup", "backing", "migrate", "serving"}
        /\ schema \in {"old", "mid", "new"}
        /\ starts \in Nat /\ faults \in 0 .. MaxFaults /\ changes \in 0 .. MaxChanges
    OBVIOUS
  <2>7. status \in Status
    BY <2>2
  <2> HIDE DEF Init
  <2>8. QED
    BY <2>1, <2>3, <2>4, <2>5, <2>6, <2>7 DEF TypeOK
<1>4. LockInv
  BY DEF LockInv, Working, Actors, Quiet, At, Nobody
<1>5. ReadInv /\ FileInv
  BY DEF ReadInv, FileInv, Working, Quiet, NoStatus, At
<1>6. GoodInv /\ CopyInv /\ SafetyInv /\ PristineInv
  BY <1>1 DEF GoodInv, CopyInv, SafetyInv, PristineInv, NoStatus
<1>7. QED
  BY <1>3, <1>4, <1>5, <1>6 DEF BackupInv

(* Whoever has the lock is alone at work, and what it writes is verified   *)
(* by itself only.                                                         *)
LEMMA Alone ==
  ASSUME LockInv, NEW a \in Actors, Working(a)
  PROVE  /\ lock = a /\ \A b \in Actors \ {a} : ~Working(b) /\ ~At(b, "verify")
         /\ run[a].kind # "pre-restore"
         /\ \A k : Unverified(k) <=> At(a, "verify") /\ run[a].kind = k
  BY DEF LockInv, Working, At, Unverified

(* Until a run is about to save, its copy of the status says no more than  *)
(* the file: it is the file's content, or nothing.                         *)
LEMMA WhatWasRead ==
  ASSUME BackupInv, NEW a \in Actors, Working(a), ~At(a, "save")
  PROVE  /\ run[a].read \in Status /\ run[a].read = ReadStatus(run[a].blind)
         /\ ~run[a].blind => run[a].read = status
         /\ run[a].read.good => status.good
         /\ run[a].read.copy = "ok" => TRUE \in Range(remote)
<1>1. run[a].read = ReadStatus(run[a].blind) /\ run[a].read \in Status
  BY DEF BackupInv, ReadInv, TypeOK, Run
<1>2. run[a].read.copy = "ok" => TRUE \in Range(remote)
  BY DEF BackupInv, ReadInv
<1>3. NoStatus.good = FALSE
  BY DEF NoStatus
<1>4. CASE run[a].blind
  <2>1. run[a].read = NoStatus
    BY <1>1, <1>4, Zenon DEF ReadStatus
  <2>2. QED
    BY <1>1, <1>2, <1>3, <1>4, <2>1
<1>5. CASE ~run[a].blind
  <2>1. run[a].read = status
    BY <1>1, <1>5, Zenon DEF ReadStatus
  <2>2. QED
    BY <1>1, <1>2, <1>5, <2>1
<1>6. QED
  BY <1>4, <1>5

(* No place of a run has changed: the files that count are the same.       *)
LEMMA SettledSame ==
  ASSUME NEW k, zips'[k] = zips[k], Unverified(k)' => Unverified(k)
  PROVE  \A i : i \in Settled(k) => i \in Settled(k)'
  BY DEF Settled

(* Pristine backups are where they were, and no more are to come.          *)
LEMMA PristineSame ==
  ASSUME BackupInv, UNCHANGED <<pristine, starts>>, zips'["pre-upgrade"] = zips["pre-upgrade"],
         Unverified("pre-upgrade")' => Unverified("pre-upgrade"), ToCome' <= ToCome
  PROVE  PristineInv'
<1>1. \A i : i \in Settled("pre-upgrade") => i \in Settled("pre-upgrade")' /\ i \in Int
  BY SettledSame DEF Settled
<1>2. Len(zips["pre-upgrade"]) \in Int
  BY LenProperties DEF BackupInv, TypeOK, Kinds
<1>3. ToCome \in Int /\ ToCome' \in Int /\ starts \in Int
  BY DEF ToCome, BackupInv, TypeOK
<1>4. QED
  BY <1>1, <1>2, <1>3 DEF BackupInv, PristineInv, Good, Complete

(* The backups of every kind but one that a restore makes are the same,    *)
(* and so is what the runs know.                                           *)
LEMMA GoodSame ==
  ASSUME BackupInv, status'.good => status.good,
         \A k \in Kinds \ {"pre-restore"} :
           zips'[k] = zips[k] /\ (Unverified(k)' => Unverified(k))
  PROVE  GoodInv'
  BY SettledSame DEF BackupInv, GoodInv, Good, Complete

(* The run of a is now at p with its kind and with rd in mind.             *)
Moved(a, p, rd) ==
  /\ run' \in [Actors -> Run]
  /\ run'[a].at = p /\ run'[a].kind = run[a].kind /\ run'[a].read = rd
  /\ run'[a].blind = run[a].blind
  /\ \A b \in Actors \ {a} : run'[b] = run[b]

(* A run that only goes to another place.                                  *)
LEMMA GotoMoves ==
  ASSUME run \in [Actors -> Run], NEW a \in Actors, NEW p \in Places, Goto(a, p)
  PROVE  Moved(a, p, run[a].read)
  BY DEF Goto, Run, Moved

(* After the upload the run remembers how it ended, and nothing else new.  *)
LEMMA SentMoves ==
  ASSUME run \in [Actors -> Run], NEW a \in Actors, NEW o \in {"none", "ok", "failed"}, Sent(a, o)
  PROVE  \E rd \in Status : rd.good = run[a].read.good /\ rd.copy = o /\ Moved(a, "save", rd)
<1> DEFINE rd == [run[a].read EXCEPT !.copy = o]
<1>1. rd \in Status /\ rd.good = run[a].read.good /\ rd.copy = o
  BY DEF Run, Status
<1>2. Moved(a, "save", rd)
  <2>1. run' = [run EXCEPT ![a].at = "save", ![a].read = rd]
    BY DEF Sent
  <2> HIDE DEF rd
  <2>2. QED
    BY <1>1, <2>1 DEF Run, Moved, Places
<1>3. QED
  BY <1>1, <1>2

(* Whoever has the lock goes on.                                           *)
LEMMA WorkGoesOn ==
  ASSUME BackupInv, NEW a \in Actors, Working(a),
         NEW p \in Places \ {"idle", "waiting"}, NEW rd \in Status, Moved(a, p, rd),
         UNCHANGED <<lock, phase, status>>,
         TRUE \in Range(remote) => TRUE \in Range(remote'),
         p # "save" => rd = ReadStatus(run[a].blind),
         p = "save" /\ ~run[a].blind => rd.good = status.good,
         rd.copy = "ok" => TRUE \in Range(remote'),
         p = "verify" => zips'[run[a].kind] # <<>>,
         p \in {"retain", "upload", "save"} =>
           zips'[run[a].kind] # <<>> /\ Good(Last(zips'[run[a].kind]))
  PROVE  /\ LockInv' /\ ReadInv' /\ FileInv' /\ CopyInv'
         /\ \A k : Unverified(k)' <=> p = "verify" /\ run[a].kind = k
<1>1. /\ lock = a /\ \A b \in Actors \ {a} : ~Working(b) /\ ~At(b, "verify")
      /\ run[a].kind # "pre-restore"
  BY Alone DEF BackupInv
<1>2. LockInv'
  <2>1. a = "start" => phase = "backing"
    BY DEF BackupInv, LockInv, At, Working
  <2>2. ASSUME NEW b \in Actors
        PROVE  /\ run'[b].at \notin {"idle", "waiting"} <=> lock' = b
               /\ run'[b].kind = run[b].kind
    BY <1>1 DEF Working, Moved, BackupInv, LockInv
  <2>3. run'["start"].at # "idle" => phase' = "backing"
    BY <2>1 DEF Moved, BackupInv, LockInv, At, Actors
  <2>4. QED
    BY <2>2, <2>3 DEF BackupInv, LockInv, Working, At
<1>3. ReadInv'
  <2>1. \A b : ReadStatus(b)' = ReadStatus(b)
    BY DEF ReadStatus
  <2>2. QED
    BY <1>1, <2>1 DEF BackupInv, ReadInv, Working, At, Moved
<1>4. FileInv'
  BY <1>1 DEF FileInv, Working, At, Moved, Mine
<1>5. CopyInv'
  BY DEF BackupInv, CopyInv
<1>6. \A k : Unverified(k)' <=> p = "verify" /\ run[a].kind = k
  BY <1>1 DEF Unverified, At, Working, Moved
<1>7. QED
  BY <1>2, <1>3, <1>4, <1>5, <1>6

(* Whoever has the lock leaves it; nobody is at work then.                 *)
LEMMA WorkEnds ==
  ASSUME BackupInv, NEW a \in Actors, Working(a),
         run' = [run EXCEPT ![a] = Quiet], lock' = Nobody,
         UNCHANGED <<phase, remote>>
  PROVE  /\ LockInv' /\ ReadInv' /\ FileInv' /\ run' \in [Actors -> Run]
         /\ \A k : ~Unverified(k)'
<1>1. /\ lock = a /\ \A b \in Actors \ {a} : ~Working(b) /\ ~At(b, "verify")
  BY Alone DEF BackupInv
<1>2. run'[a] = Quiet /\ \A b \in Actors \ {a} : run'[b] = run[b]
  BY DEF BackupInv, TypeOK
<1>3. Quiet.at = "idle" /\ Quiet.kind = "auto" /\ Quiet.read.copy = "none" /\ Quiet \in Run
  BY DEF Quiet, NoStatus, Run, Places, Kinds, Status
<1>4. \A b \in Actors : run'[b].at \in {"idle", "waiting"}
  BY <1>1, <1>2, <1>3 DEF Working
<1>5. LockInv'
  BY <1>2, <1>3, <1>4 DEF BackupInv, LockInv, Working, At, Actors, Nobody
<1>6. ReadInv'
  BY <1>2, <1>3, <1>4 DEF BackupInv, ReadInv, Working, At
<1>7. FileInv' /\ \A k : ~Unverified(k)'
  BY <1>4 DEF FileInv, Unverified, At
<1>8. run' \in [Actors -> Run]
  BY <1>3 DEF BackupInv, TypeOK
<1>9. QED
  BY <1>5, <1>6, <1>7, <1>8

(* A caller joins the queue before the lock.                               *)
LEMMA Asked ==
  ASSUME BackupInv, NEW a \in Actors, At(a, "idle"), NEW k \in Kinds \ {"pre-restore"},
         k = "pre-upgrade" => a = "start",
         run' = [run EXCEPT ![a] = [Quiet EXCEPT !.at = "waiting", !.kind = k]],
         a = "start" => phase' = "backing", a # "start" => UNCHANGED phase,
         UNCHANGED <<zips, remote, status, lock>>
  PROVE  /\ LockInv' /\ ReadInv' /\ FileInv' /\ GoodInv' /\ CopyInv'
         /\ run' \in [Actors -> Run] /\ run'[a].at = "waiting"
         /\ \A b \in Actors \ {a} : run'[b] = run[b]
         /\ \A j : Unverified(j)' => Unverified(j)
<1> DEFINE r == [Quiet EXCEPT !.at = "waiting", !.kind = k]
<1>1. r.at = "waiting" /\ r.kind = k /\ r.read.copy = "none" /\ r \in Run
  BY DEF Quiet, NoStatus, Run, Places, Kinds, Status
<1> HIDE DEF r
<1>2. run'[a] = r /\ run' \in [Actors -> Run] /\ \A b \in Actors \ {a} : run'[b] = run[b]
  BY <1>1 DEF BackupInv, TypeOK, r
<1>3. LockInv'
  BY <1>1, <1>2 DEF BackupInv, LockInv, Working, At
<1>4. ReadInv'
  BY <1>1, <1>2 DEF BackupInv, ReadInv, ReadStatus, Working, At
<1>5. FileInv'
  BY <1>1, <1>2 DEF BackupInv, FileInv, At, Mine
<1>6. \A j : Unverified(j)' => Unverified(j)
  BY <1>1, <1>2 DEF Unverified, At
<1>7. GoodInv'
  BY <1>6, GoodSame
<1>8. CopyInv'
  BY DEF BackupInv, CopyInv
<1>9. QED
  BY <1>1, <1>2, <1>3, <1>4, <1>5, <1>6, <1>7, <1>8

-----------------------------------------------------------------------------
(* The steps                                                               *)

(* Somebody asks for a backup.                                             *)
LEMMA AskStep ==
  ASSUME BackupInv, SchedulerAsks \/ UserAsks \/ StartAsks
  PROVE  BackupInv'
<1>1. ASSUME NEW a \in {"scheduler", "user"}, NEW k \in {"auto", "manual"}, Ask(a, k)
      PROVE  BackupInv'
  <2>1. /\ LockInv' /\ ReadInv' /\ FileInv' /\ GoodInv' /\ CopyInv'
        /\ run' \in [Actors -> Run] /\ run'["start"] = run["start"]
        /\ \A j : Unverified(j)' => Unverified(j)
    BY <1>1, Asked DEF Ask, Actors, Kinds, siteVars
  <2>2. TypeOK'
    BY <1>1, <2>1 DEF Ask, BackupInv, TypeOK, siteVars, boundVars
  <2>3. PristineInv'
    BY <1>1, <2>1, PristineSame DEF Ask, ToCome, siteVars
  <2>4. SafetyInv'
    BY <1>1 DEF Ask, BackupInv, SafetyInv, siteVars
  <2>5. QED
    BY <2>1, <2>2, <2>3, <2>4 DEF BackupInv
<1>2. ASSUME StartAsks PROVE BackupInv'
  <2>1. At("start", "idle")
    BY <1>2 DEF StartAsks, BackupInv, LockInv
  <2>2. /\ LockInv' /\ ReadInv' /\ FileInv' /\ GoodInv' /\ CopyInv'
        /\ run' \in [Actors -> Run] /\ run'["start"].at = "waiting"
        /\ \A j : Unverified(j)' => Unverified(j)
    <3>1. /\ run' = [run EXCEPT !["start"] = [Quiet EXCEPT !.at = "waiting", !.kind = "pre-upgrade"]]
          /\ phase' = "backing" /\ UNCHANGED <<zips, remote, status, lock>>
      BY <1>2 DEF StartAsks
    <3>2. "start" \in Actors /\ "pre-upgrade" \in Kinds \ {"pre-restore"}
      BY DEF Actors, Kinds
    <3>3. QED
      BY <2>1, <3>1, <3>2, Asked
  <2>3. TypeOK'
    BY <1>2, <2>2 DEF StartAsks, BackupInv, TypeOK, boundVars
  <2>4. PristineInv'
    BY <1>2, <2>2, PristineSame DEF StartAsks, ToCome
  <2>5. SafetyInv'
    BY <1>2 DEF StartAsks, BackupInv, SafetyInv
  <2>6. QED
    BY <2>2, <2>3, <2>4, <2>5 DEF BackupInv
<1>3. QED
  BY <1>1, <1>2 DEF SchedulerAsks, UserAsks

(* The lock is taken, for a backup or to verify one.                       *)
LEMMA TakeLock ==
  ASSUME BackupInv, NEW a \in Actors, lock = Nobody, lock' = a,
         NEW r \in Run, run' = [run EXCEPT ![a] = r],
         r.at \in {"snapshot", "inspect"}, r.kind # "pre-restore",
         r.kind = "pre-upgrade" => a = "start",
         r.read = ReadStatus(r.blind), MayRead(r.blind), a = "start" => ~At(a, "idle"),
         run["start"].at = "waiting" \/ a # "start",
         UNCHANGED <<zips, remote, status, fresh, recent, siteVars, photo, changes, pristine>>
  PROVE  BackupInv'
<1>1. /\ \A b \in Actors : ~Working(b) /\ ~At(b, "verify")
      /\ Nobody \notin Actors
  BY DEF BackupInv, LockInv, Working, At, Nobody, Actors
<1>2. run'[a] = r /\ run' \in [Actors -> Run] /\ \A b \in Actors \ {a} : run'[b] = run[b]
  BY DEF BackupInv, TypeOK
<1>3. TypeOK'
  <2>1. faults' \in 0 .. MaxFaults
    BY BackupsAssumption DEF MayRead, Fault, BackupInv, TypeOK
  <2>2. QED
    BY <1>2, <2>1 DEF BackupInv, TypeOK, siteVars
<1>4. LockInv'
  <2>1. ASSUME NEW b \in Actors
        PROVE  /\ run'[b].at \notin {"idle", "waiting"} <=> lock' = b
               /\ run'[b].kind # "pre-restore"
               /\ run'[b].kind = "pre-upgrade" => b = "start"
    BY <1>1, <1>2 DEF BackupInv, LockInv, Working
  <2>2. run'["start"].at # "idle" => phase' = "backing"
    BY <1>2 DEF BackupInv, LockInv, At, siteVars, Actors
  <2>3. QED
    BY <2>1, <2>2 DEF LockInv, Working, At
<1>5. ReadInv'
  <2>1. \A b : ReadStatus(b)' = ReadStatus(b)
    BY DEF ReadStatus
  <2>2. r.read.copy = "ok" => TRUE \in Range(remote)
    <3>1. NoStatus.copy # "ok"
      BY DEF NoStatus
    <3>2. r.read = NoStatus \/ r.read = status
      BY Zenon DEF ReadStatus
    <3>3. QED
      BY <3>1, <3>2 DEF BackupInv, CopyInv
  <2>3. QED
    BY <1>1, <1>2, <2>1, <2>2 DEF BackupInv, ReadInv, Working, At
<1>6. FileInv' /\ \A k : ~Unverified(k)'
  BY <1>1, <1>2 DEF FileInv, Unverified, Working, At
<1>7. GoodInv'
  BY <1>6, GoodSame
<1>8. PristineInv'
  <2>1. ToCome' <= ToCome
    BY <1>2 DEF ToCome, siteVars, Actors
  <2>2. QED
    BY <1>6, <2>1, PristineSame DEF siteVars
<1>9. CopyInv' /\ SafetyInv'
  BY DEF BackupInv, CopyInv, SafetyInv, siteVars
<1>10. QED
  BY <1>3, <1>4, <1>5, <1>6, <1>7, <1>8, <1>9 DEF BackupInv

(* Whoever gets the lock reads the status that is on disk, or nothing.     *)
LEMMA AcquireStep ==
  ASSUME BackupInv, NEW a \in Actors, Acquire(a)
  PROVE  BackupInv'
<1>0. PICK b \in BOOLEAN :
        /\ MayRead(b)
        /\ run' = [run EXCEPT ![a].at = "snapshot", ![a].read = ReadStatus(b), ![a].blind = b]
  BY DEF Acquire
<1> DEFINE r == [run[a] EXCEPT !.at = "snapshot", !.read = ReadStatus(b), !.blind = b]
<1>1. /\ r \in Run /\ r.at = "snapshot" /\ r.kind = run[a].kind
      /\ r.read = ReadStatus(r.blind) /\ r.blind = b
  <2>1. ReadStatus(b) \in Status
    BY DEF ReadStatus, NoStatus, Status, BackupInv, TypeOK
  <2>2. QED
    BY <2>1 DEF BackupInv, TypeOK, Run, Places
<1>2. run' = [run EXCEPT ![a] = r] /\ MayRead(r.blind)
  BY <1>0, <1>1 DEF BackupInv, TypeOK
<1>3. run[a].kind # "pre-restore" /\ (run[a].kind = "pre-upgrade" => a = "start")
  BY DEF BackupInv, LockInv
<1> HIDE DEF r
<1>4. QED
  BY <1>1, <1>2, <1>3, TakeLock DEF Acquire, At, Actors

(* A check of the backups there are takes the lock and reads the status.   *)
LEMMA BeginVerifyStep == BackupInv /\ BeginVerifyExisting => BackupInv'
<1> SUFFICES ASSUME BackupInv, BeginVerifyExisting PROVE BackupInv'
  OBVIOUS
<1>0. PICK b \in BOOLEAN :
        /\ MayRead(b)
        /\ run' = [run EXCEPT !["user"] =
                     [Quiet EXCEPT !.at = "inspect", !.read = ReadStatus(b), !.blind = b]]
  BY DEF BeginVerifyExisting
<1> DEFINE r == [Quiet EXCEPT !.at = "inspect", !.read = ReadStatus(b), !.blind = b]
<1>1. /\ r \in Run /\ r.at = "inspect" /\ r.kind = "auto"
      /\ r.read = ReadStatus(r.blind) /\ r.blind = b
  <2>1. ReadStatus(b) \in Status
    BY DEF ReadStatus, NoStatus, Status, BackupInv, TypeOK
  <2>2. QED
    BY <2>1 DEF Run, Places, Quiet, Kinds
<1>2. run' = [run EXCEPT !["user"] = r] /\ "user" \in Actors /\ MayRead(r.blind)
  BY <1>0, <1>1 DEF Actors
<1> HIDE DEF r
<1>3. QED
  BY <1>1, <1>2, TakeLock DEF BeginVerifyExisting

(* The snapshot is made.                                                   *)
LEMMA SnapshotStep ==
  ASSUME BackupInv, NEW a \in Actors, Snapshot(a)
  PROVE  BackupInv'
<1> DEFINE rd == run[a].read
<1>1. Working(a) /\ At(a, "snapshot") /\ ~At(a, "save")
  BY DEF Snapshot, Working, At
<1>2. Moved(a, "write", rd)
  BY <1>1 DEF Snapshot, BackupInv, TypeOK, Moved, Run, Places
<1>3. /\ rd \in Status /\ rd = ReadStatus(run[a].blind)
      /\ rd.copy = "ok" => TRUE \in Range(remote)
  BY <1>1, WhatWasRead
<1> HIDE DEF rd
<1>4. /\ LockInv' /\ ReadInv' /\ FileInv' /\ CopyInv' /\ \A k : ~Unverified(k)'
  <2>1. UNCHANGED <<zips, remote, lock, phase, status>>
    BY DEF Snapshot, siteVars
  <2>2. "write" \in Places \ {"idle", "waiting"}
    BY DEF Places
  <2>3. QED
    BY <1>1, <1>2, <1>3, <2>1, <2>2, WorkGoesOn
<1>5. TypeOK'
  BY <1>2 DEF Snapshot, BackupInv, TypeOK, Moved, siteVars, boundVars
<1>6. GoodInv'
  BY <1>4, GoodSame DEF Snapshot
<1>7. PristineInv'
  <2>1. ToCome' <= ToCome
    BY <1>1, <1>2 DEF Snapshot, siteVars, ToCome, Moved, At, Actors
  <2>2. QED
    BY <1>4, <2>1, PristineSame DEF Snapshot, siteVars
<1>8. SafetyInv'
  BY DEF Snapshot, BackupInv, SafetyInv, siteVars
<1>9. QED
  BY <1>4, <1>5, <1>6, <1>7, <1>8 DEF BackupInv

(* The backup is written, behind those there are.                          *)
LEMMA WriteStep ==
  ASSUME BackupInv, NEW a \in Actors, WriteZip(a)
  PROVE  BackupInv'
<1> DEFINE k == run[a].kind  old == zips[k]
<1>1. Working(a) /\ At(a, "write") /\ ~At(a, "save") /\ k \in Kinds \ {"pre-restore"}
  BY DEF WriteZip, Working, At, BackupInv, LockInv, TypeOK, Run
<1>2. Moved(a, "verify", run[a].read)
  BY <1>1, GotoMoves DEF WriteZip, BackupInv, TypeOK, Places
<1>3. /\ run[a].read \in Status /\ run[a].read = ReadStatus(run[a].blind)
      /\ run[a].read.copy = "ok" => TRUE \in Range(remote)
  BY <1>1, WhatWasRead
<1>4. old \in Seq(Archive) /\ Written(a) \in Archive
  BY <1>1 DEF BackupInv, TypeOK, Written, Archive, Run
<1>5. /\ zips' \in [Kinds -> Seq(Archive)]
      /\ zips'[k] = Append(old, Written(a))
      /\ \A j \in Kinds : j # k => zips'[j] = zips[j]
  BY <1>1, <1>4, AppendKeeps DEF WriteZip, BackupInv, TypeOK
<1>6. /\ zips'[k] # <<>> /\ Len(zips'[k]) = Len(old) + 1 /\ Len(old) \in Nat
      /\ \A i \in 1 .. Len(old) : zips'[k][i] = old[i]
  <2>1. Len(old) \in Nat
    BY <1>4, LenProperties
  <2>2. QED
    BY <1>4, <1>5, <2>1, AppendKeeps
<1>7. \A j : ~Unverified(j)
  BY <1>1, Alone DEF BackupInv, At
<1>8. /\ LockInv' /\ ReadInv' /\ FileInv' /\ CopyInv'
      /\ \A j : Unverified(j)' <=> k = j
  BY <1>1, <1>2, <1>3, <1>6, WorkGoesOn DEF WriteZip, siteVars, Places
<1>9. TypeOK'
  BY <1>2, <1>5 DEF WriteZip, BackupInv, TypeOK, Moved, siteVars, boundVars
<1>10. ASSUME NEW j \in Kinds, NEW i \in Settled(j)
       PROVE  i \in Settled(j)' /\ zips'[j][i] = zips[j][i]
  <2>1. CASE j = k
    BY <1>6, <1>10, <2>1 DEF Settled
  <2>2. CASE j # k
    BY <1>5, <1>8, <1>10, <2>2 DEF Settled
  <2>3. QED
    BY <2>1, <2>2
<1>11. GoodInv'
  BY <1>10 DEF WriteZip, BackupInv, GoodInv, Good, Complete
<1>12. PristineInv'
  <2>1. CASE k = "pre-upgrade"
    <3>1. a = "start" /\ phase = "backing"
      BY <1>1, <2>1 DEF BackupInv, LockInv, At
    <3>2. ToCome = 1 /\ ToCome' = 0
      BY <1>1, <1>2, <3>1 DEF ToCome, At, Moved, WriteZip, siteVars
    <3>3. \A i \in Settled("pre-upgrade") :
            Len(zips'["pre-upgrade"]) - i + ToCome' = Len(zips["pre-upgrade"]) - i + ToCome
      BY <1>6, <2>1, <3>2 DEF Settled
    <3>4. QED
      BY <1>10, <3>3 DEF WriteZip, BackupInv, PristineInv, Good, Complete, siteVars, Kinds
  <2>2. CASE k # "pre-upgrade"
    <3>1. ToCome' <= ToCome
      BY <1>2 DEF WriteZip, siteVars, ToCome, Moved, At, Actors
    <3>2. zips'["pre-upgrade"] = zips["pre-upgrade"] /\ ~Unverified("pre-upgrade")'
      BY <1>5, <1>8, <2>2 DEF Kinds
    <3>3. QED
      BY <3>1, <3>2, PristineSame DEF WriteZip, siteVars
  <2>3. QED
    BY <2>1, <2>2
<1>13. SafetyInv'
  BY <1>1, <1>5 DEF WriteZip, BackupInv, SafetyInv, siteVars, Kinds
<1>14. QED
  BY <1>8, <1>9, <1>11, <1>12, <1>13 DEF BackupInv

(* The newest backup was verified, and counts from now on.                 *)
LEMMA VerifiedStep ==
  ASSUME BackupInv, NEW a \in Actors, Verified(a)
  PROVE  BackupInv'
<1> DEFINE k == run[a].kind
<1>1. /\ Working(a) /\ At(a, "verify") /\ ~At(a, "save")
      /\ k \in Kinds \ {"pre-restore"} /\ zips[k] # <<>>
  BY DEF Verified, Working, At, BackupInv, LockInv, FileInv, TypeOK, Run
<1>2. Moved(a, "retain", run[a].read)
  BY <1>1, GotoMoves DEF Verified, BackupInv, TypeOK, Places
<1>3. /\ run[a].read \in Status /\ run[a].read = ReadStatus(run[a].blind)
      /\ run[a].read.copy = "ok" => TRUE \in Range(remote)
  BY <1>1, WhatWasRead
<1>4. /\ LockInv' /\ ReadInv' /\ FileInv' /\ CopyInv' /\ \A j : ~Unverified(j)'
  <2>1. UNCHANGED <<zips, remote, lock, phase, status>> /\ Good(Last(zips[k]))
    BY DEF Verified, siteVars, Mine
  <2>2. "retain" \in Places \ {"idle", "waiting"}
    BY DEF Places
  <2>3. QED
    BY <1>1, <1>2, <1>3, <2>1, <2>2, WorkGoesOn
<1>5. TypeOK'
  BY <1>2 DEF Verified, BackupInv, TypeOK, Moved, siteVars, boundVars, Archive
<1>6. GoodInv'
  BY <1>4, GoodSame DEF Verified
<1>7. PristineInv'
  <2>1. ToCome' <= ToCome
    BY <1>2 DEF Verified, siteVars, ToCome, Moved, At, Actors
  <2>2. CASE Mine(a).before /\ k = "pre-upgrade"
    <3>1. a = "start" /\ phase = "backing"
      BY <1>1, <2>2 DEF BackupInv, LockInv, At
    <3>2. ToCome' = 0
      BY <1>2, <3>1 DEF ToCome, Moved, Verified, siteVars
    <3>3. Len(zips["pre-upgrade"]) \in Nat \ {0} /\ zips' = zips
      BY <1>1, <2>2, EmptySeq DEF BackupInv, TypeOK, Verified
    <3>4. /\ Len(zips["pre-upgrade"]) \in Settled("pre-upgrade")'
          /\ Len(zips["pre-upgrade"]) - Len(zips["pre-upgrade"]) + ToCome' = 0
      BY <1>4, <3>2, <3>3 DEF Settled
    <3>5. LET z == zips["pre-upgrade"][Len(zips["pre-upgrade"])] IN Good(z) /\ z.before
      BY <2>2 DEF Verified, Mine, Last
    <3>6. starts' > 0
      BY DEF Verified, siteVars, BackupInv, PristineInv
    <3>7. QED
      BY <3>3, <3>4, <3>5, <3>6 DEF PristineInv, Good, Complete
  <2>3. CASE ~(Mine(a).before /\ k = "pre-upgrade")
    <3>1. pristine' = pristine
      BY <2>3 DEF Verified, BackupInv, TypeOK
    <3>2. QED
      BY <1>4, <2>1, <3>1, PristineSame DEF Verified, siteVars
  <2>4. QED
    BY <2>2, <2>3
<1>8. SafetyInv'
  BY DEF Verified, BackupInv, SafetyInv, siteVars
<1>9. QED
  BY <1>4, <1>5, <1>6, <1>7, <1>8 DEF BackupInv

(* A run that fails removes what it has written, and nothing else.         *)
LEMMA FailStep ==
  ASSUME BackupInv, NEW a \in Actors, run[a].at \in {"snapshot", "write", "verify"},
         Unlink(a), RecordFailure(a) \/ Leave(a), faults' \in 0 .. MaxFaults,
         UNCHANGED <<remote, siteVars, photo, changes, pristine>>
  PROVE  BackupInv'
<1> DEFINE k == run[a].kind
<1>1. Working(a) /\ ~At(a, "save") /\ k \in Kinds \ {"pre-restore"}
  BY DEF Working, At, BackupInv, LockInv, TypeOK, Run
<1>2. /\ status' \in Status /\ (status'.good => status.good)
      /\ status'.copy = "ok" => TRUE \in Range(remote)
      /\ run' = [run EXCEPT ![a] = Quiet] /\ lock' = Nobody
      /\ recent' \in BOOLEAN /\ fresh' \in BOOLEAN
      /\ UNCHANGED <<remote, siteVars, photo, changes, pristine>>
  <2>1. CASE RecordFailure(a)
    <3> DEFINE rd == run[a].read
    <3>1. rd \in Status /\ (rd.good => status.good) /\ (rd.copy = "ok" => TRUE \in Range(remote))
      BY <1>1, WhatWasRead
    <3>2. /\ status' = [rd EXCEPT !.error = TRUE] /\ recent' = status'.error
          /\ fresh' = (fresh /\ ~run[a].blind)
          /\ run' = [run EXCEPT ![a] = Quiet] /\ lock' = Nobody
      BY <2>1 DEF RecordFailure, WriteStatus
    <3>3. fresh' \in BOOLEAN
      BY <3>2, Zenon
    <3> HIDE DEF rd
    <3>4. status' \in Status /\ status'.good = rd.good /\ status'.copy = rd.copy
      BY <3>1, <3>2 DEF Status
    <3>5. recent' \in BOOLEAN
      BY <3>2, <3>4 DEF Status
    <3>6. QED
      BY <3>1, <3>2, <3>3, <3>4, <3>5
  <2>2. CASE Leave(a)
    BY <2>2 DEF Leave, BackupInv, TypeOK, CopyInv
  <2>3. QED
    BY <2>1, <2>2
<1>3. /\ LockInv' /\ ReadInv' /\ FileInv' /\ run' \in [Actors -> Run] /\ \A j : ~Unverified(j)'
  BY <1>1, <1>2, WorkEnds DEF siteVars
<1>4. CASE ~At(a, "verify")
  <2>1. zips' = zips
    BY <1>4 DEF Unlink
  <2>2. TypeOK'
    BY <1>2, <1>3, <2>1 DEF BackupInv, TypeOK, siteVars
  <2>3. GoodInv'
    BY <1>2, <1>3, <2>1, GoodSame
  <2>4. PristineInv'
    <3>1. ToCome' <= ToCome
      BY <1>2 DEF siteVars, ToCome, Quiet, BackupInv, TypeOK
    <3>2. QED
      BY <1>2, <1>3, <2>1, <3>1, PristineSame DEF siteVars
  <2>5. CopyInv' /\ SafetyInv'
    BY <1>2, <2>1 DEF BackupInv, CopyInv, SafetyInv, siteVars
  <2>6. QED
    BY <1>3, <2>2, <2>3, <2>4, <2>5 DEF BackupInv
<1>5. CASE At(a, "verify")
  <2> DEFINE old == zips[k]
  <2>1. old \in Seq(Archive) /\ old # <<>> /\ Len(old) \in Nat
    BY <1>1, <1>5, LenProperties DEF BackupInv, TypeOK, FileInv
  <2>2. /\ zips'[k] = Front(old) /\ \A j \in Kinds : j # k => zips'[j] = zips[j]
        /\ zips' \in [Kinds -> Seq(Archive)]
    BY <1>1, <1>5, <2>1, FrontKeeps DEF Unlink, BackupInv, TypeOK
  <2>3. /\ Len(zips'[k]) = Len(old) - 1
        /\ \A i \in 1 .. Len(old) - 1 : zips'[k][i] = old[i]
    BY <2>1, <2>2, FrontKeeps
  <2>4. Unverified(k)
    BY <1>5 DEF Unverified
  <2>5. TypeOK'
    BY <1>2, <1>3, <2>2 DEF BackupInv, TypeOK, siteVars
  <2>6. ASSUME NEW j \in Kinds, NEW i \in Settled(j)
        PROVE  i \in Settled(j)' /\ zips'[j][i] = zips[j][i]
    <3>1. CASE j = k
      BY <1>3, <2>1, <2>3, <2>4, <2>6, <3>1 DEF Settled
    <3>2. CASE j # k
      BY <1>3, <2>2, <2>6, <3>2 DEF Settled
    <3>3. QED
      BY <3>1, <3>2
  <2>7. GoodInv'
    BY <1>2, <2>6 DEF BackupInv, GoodInv, Good, Complete
  <2>8. PristineInv'
    <3>1. ToCome' <= ToCome /\ ToCome \in Int /\ ToCome' \in Int
      BY <1>2 DEF siteVars, ToCome, Quiet, BackupInv, TypeOK
    <3>2. Len(zips'["pre-upgrade"]) <= Len(zips["pre-upgrade"])
      BY <2>1, <2>2, <2>3, LenProperties DEF Kinds, BackupInv, TypeOK
    <3>3. Len(zips["pre-upgrade"]) \in Int /\ Len(zips'["pre-upgrade"]) \in Int /\ starts \in Int
      BY <2>5, LenProperties DEF Kinds, BackupInv, TypeOK
    <3>4. \A i \in Settled("pre-upgrade") :
            Len(zips["pre-upgrade"]) - i + ToCome < starts =>
            Len(zips'["pre-upgrade"]) - i + ToCome' < starts
      BY <3>1, <3>2, <3>3 DEF Settled
    <3>5. QED
      BY <1>2, <2>6, <3>4 DEF BackupInv, PristineInv, Good, Complete, siteVars, Kinds
  <2>9. CopyInv' /\ SafetyInv'
    BY <1>1, <1>2, <2>2 DEF BackupInv, CopyInv, SafetyInv, siteVars, Kinds
  <2>10. QED
    BY <1>3, <2>5, <2>7, <2>8, <2>9 DEF BackupInv
<1>6. QED
  BY <1>4, <1>5

(* The retention: the newest of every kind stay, and of the backups from   *)
(* before the migration as many as there were starts to add to them.       *)
LEMMA RetainStep ==
  ASSUME BackupInv, NEW a \in Actors, Retain(a)
  PROVE  BackupInv'
<1> DEFINE k == run[a].kind
<1>1. /\ Working(a) /\ At(a, "retain") /\ ~At(a, "save")
      /\ k \in Kinds \ {"pre-restore"} /\ zips[k] # <<>> /\ Good(Last(zips[k]))
  BY DEF Retain, Working, At, BackupInv, LockInv, FileInv, TypeOK, Run, Mine
<1>2. Moved(a, "upload", run[a].read)
  BY <1>1, GotoMoves DEF Retain, BackupInv, TypeOK, Places
<1>3. /\ run[a].read \in Status /\ run[a].read = ReadStatus(run[a].blind)
      /\ run[a].read.copy = "ok" => TRUE \in Range(remote)
  BY <1>1, WhatWasRead
<1>4. \A j \in Kinds : zips[j] \in Seq(Archive) /\ Keep[j] \in Nat \ {0} /\ zips'[j] = Newest(zips[j], Keep[j])
  BY BackupsAssumption DEF Retain, BackupInv, TypeOK
<1>5. /\ zips' \in [Kinds -> Seq(Archive)]
      /\ \A j \in Kinds : zips[j] # <<>> => zips'[j] # <<>> /\ Last(zips'[j]) = Last(zips[j])
  BY <1>4, NewestIsEnd, NewestKeepsLast DEF Retain
<1>6. /\ LockInv' /\ ReadInv' /\ FileInv' /\ CopyInv' /\ \A j : ~Unverified(j)'
  <2>1. /\ UNCHANGED <<remote, lock, phase, status>>
        /\ zips'[k] # <<>> /\ Good(Last(zips'[k]))
    BY <1>1, <1>5 DEF Retain, siteVars
  <2>2. "upload" \in Places \ {"idle", "waiting"}
    BY DEF Places
  <2>3. QED
    BY <1>1, <1>2, <1>3, <2>1, <2>2, WorkGoesOn
<1>7. TypeOK'
  BY <1>2, <1>5 DEF Retain, BackupInv, TypeOK, Moved, siteVars, boundVars
<1>8. GoodInv'
  <2> SUFFICES \E j \in Kinds \ {"pre-restore"} : \E i \in Settled(j)' : Good(zips'[j][i])
    BY DEF GoodInv, Good, Complete
  <2>1. PICK j \in Kinds \ {"pre-restore"} : j = k
    BY <1>1
  <2>2. zips'[j] # <<>> /\ Good(Last(zips'[j])) /\ zips'[j] \in Seq(Archive)
    BY <1>1, <1>5, <2>1
  <2>3. Len(zips'[j]) \in Nat \ {0}
    BY <2>2, EmptySeq
  <2>4. Len(zips'[j]) \in Settled(j)' /\ Good(zips'[j][Len(zips'[j])])
    BY <1>6, <2>2, <2>3 DEF Settled, Last
  <2>5. QED
    BY <2>4
<1>9. PristineInv'
  <2> DEFINE old == zips["pre-upgrade"]  new == zips'["pre-upgrade"]  n == Keep["pre-upgrade"]
  <2>1. /\ Len(new) = IF Len(old) > n THEN n ELSE Len(old)
        /\ \A i \in 1 .. Len(new) : new[i] = old[i + (Len(old) - Len(new))]
    <3>1. old \in Seq(Archive) /\ n \in Nat \ {0} /\ new = Newest(old, n)
      BY <1>4 DEF Kinds
    <3> HIDE DEF old, new, n
    <3>2. QED
      BY <3>1, NewestIsEnd
  <2>2. Len(old) \in Nat /\ n \in Nat \ {0} /\ starts \in Nat
    BY <1>4, LenProperties DEF Kinds, BackupInv, TypeOK
  <2>3. ToCome' <= ToCome /\ ToCome \in {0, 1} /\ ToCome' \in {0, 1}
    BY <1>2 DEF Retain, siteVars, ToCome, Moved, At, Actors
  <2>4. UNCHANGED <<starts, pristine>> /\ starts > 0
    BY DEF Retain, siteVars, BackupInv, PristineInv
  <2>5. ASSUME pristine, starts <= n
        PROVE  \E i \in Settled("pre-upgrade")' :
                 Good(new[i]) /\ new[i].before /\ Len(new) - i + ToCome' < starts
    <3>1. PICK i \in 1 .. Len(old) : Good(old[i]) /\ old[i].before /\ Len(old) - i + ToCome < starts
      BY <2>5 DEF BackupInv, PristineInv, Settled
    <3> DEFINE d == i - (Len(old) - Len(new))
    <3> HIDE DEF old, new, n
    <3>2. d \in 1 .. Len(new) /\ Len(new) - d = Len(old) - i /\ d + (Len(old) - Len(new)) = i
      BY <2>1, <2>2, <2>3, <2>5, <3>1
    <3> HIDE DEF d
    <3>3. new[d] = old[i]
      BY <2>1, <3>2
    <3>4. d \in Settled("pre-upgrade")'
      BY <1>6, <3>2 DEF Settled, new
    <3>5. Len(new) - d + ToCome' < starts
      BY <2>2, <2>3, <3>1, <3>2
    <3>6. QED
      BY <3>1, <3>3, <3>4, <3>5
  <2>6. QED
    BY <2>4, <2>5 DEF PristineInv, Good, Complete
<1>10. SafetyInv'
  BY <1>5 DEF Retain, BackupInv, SafetyInv, siteVars, Kinds
<1>11. QED
  BY <1>6, <1>7, <1>8, <1>9, <1>10 DEF BackupInv

(* The upload ended one way or another: the run remembers which, and the   *)
(* good copies in the bucket are still there.                              *)
LEMMA SentStep ==
  ASSUME BackupInv, NEW a \in Actors, Upload(a) \/ NoUpload(a)
  PROVE  BackupInv'
<1> DEFINE k == run[a].kind
<1>1. /\ Working(a) /\ At(a, "upload") /\ ~At(a, "save")
      /\ k \in Kinds \ {"pre-restore"} /\ zips[k] # <<>> /\ Good(Last(zips[k]))
  BY DEF Upload, NoUpload, Working, At, BackupInv, LockInv, FileInv, TypeOK, Run, Mine
<1>2. /\ run[a].read \in Status /\ (~run[a].blind => run[a].read = status)
      /\ run[a].read.copy = "ok" => TRUE \in Range(remote)
  BY <1>1, WhatWasRead
<1>3. /\ remote' \in Seq(BOOLEAN) /\ Len(remote') <= MaxRemote /\ faults' \in 0 .. MaxFaults
      /\ TRUE \in Range(remote) => TRUE \in Range(remote')
      /\ UNCHANGED <<zips, lock, status, fresh, recent, siteVars, photo, changes, pristine>>
  <2>1. CASE NoUpload(a)
    BY <2>1 DEF NoUpload, BackupInv, TypeOK, boundVars
  <2>2. CASE Upload(a)
    <3>1. remote \in Seq(BOOLEAN) /\ Len(remote) < MaxRemote /\ Len(remote) \in Nat
      BY <2>2, LenProperties DEF Upload, BackupInv, TypeOK
    <3>2. Len(remote) + 1 <= MaxRemote /\ MaxRemote \in Nat
      BY <3>1, BackupsAssumption
    <3>3. remote' \in Pruned \/ remote' = Grown(FALSE)
      BY <2>2 DEF Upload, Pruned
    <3>4. remote' \in Seq(BOOLEAN) /\ Len(remote') <= Len(remote) + 1
      <4>1. CASE remote' \in Pruned
        BY <3>1, <4>1, BucketKeepsGood
      <4>2. CASE remote' = Grown(FALSE)
        BY <3>1, <4>2, BucketKeepsGood, Zenon
      <4>3. QED
        BY <3>3, <4>1, <4>2
    <3>5. Len(remote') \in Nat
      BY <3>4, LenProperties
    <3>6. TRUE \in Range(remote) => TRUE \in Range(remote')
      BY <3>1, <3>3, BucketKeepsGood
    <3>7. faults' \in 0 .. MaxFaults
      <4>1. faults' = faults \/ (faults < MaxFaults /\ faults' = faults + 1)
        BY <2>2, Zenon DEF Upload, Fault
      <4>2. QED
        BY <4>1, BackupsAssumption DEF BackupInv, TypeOK
    <3>8. UNCHANGED <<zips, lock, status, fresh, recent, siteVars, photo, changes, pristine>>
      BY <2>2, Zenon DEF Upload
    <3>9. Len(remote') <= MaxRemote
      BY <3>1, <3>2, <3>4, <3>5
    <3>10. QED
      BY <3>4, <3>6, <3>7, <3>8, <3>9
  <2>3. QED
    BY <2>1, <2>2
<1>4. PICK rd \in Status :
        /\ ~run[a].blind => rd.good = status.good
        /\ Moved(a, "save", rd)
        /\ rd.copy = "ok" => TRUE \in Range(remote')
  <2>1. CASE NoUpload(a)
    <3>1. PICK o \in {"none", "ok", "failed"} :
            Sent(a, o) /\ (o = "ok" => TRUE \in Range(remote'))
      BY <1>2, <2>1 DEF NoUpload, Status
    <3>2. QED
      BY <1>2, <3>1, SentMoves DEF BackupInv, TypeOK
  <2>2. CASE Upload(a)
    <3>1. remote \in Seq(BOOLEAN)
      BY DEF BackupInv, TypeOK
    <3>2. PICK o \in {"none", "ok", "failed"} :
            Sent(a, o) /\ (o = "ok" => TRUE \in Range(remote'))
      BY <2>2, <3>1, BucketKeepsGood DEF Upload
    <3>3. QED
      BY <1>2, <3>2, SentMoves DEF BackupInv, TypeOK
  <2>3. QED
    BY <2>1, <2>2
<1>5. /\ LockInv' /\ ReadInv' /\ FileInv' /\ CopyInv' /\ \A j : ~Unverified(j)'
  <2>1. /\ UNCHANGED <<lock, phase, status>> /\ zips'[k] # <<>> /\ Good(Last(zips'[k]))
    BY <1>1, <1>3 DEF siteVars
  <2>2. "save" \in Places \ {"idle", "waiting"}
    BY DEF Places
  <2>3. QED
    BY <1>1, <1>3, <1>4, <2>1, <2>2, WorkGoesOn
<1>6. TypeOK'
  BY <1>3, <1>4 DEF BackupInv, TypeOK, Moved, siteVars
<1>7. GoodInv'
  BY <1>3, <1>5, GoodSame
<1>8. PristineInv'
  <2>1. ToCome' <= ToCome
    BY <1>3, <1>4 DEF siteVars, ToCome, Moved, At, Actors
  <2>2. QED
    BY <1>3, <1>5, <2>1, PristineSame DEF siteVars
<1>9. SafetyInv'
  BY <1>3 DEF BackupInv, SafetyInv, siteVars
<1>10. QED
  BY <1>5, <1>6, <1>7, <1>8, <1>9 DEF BackupInv

(* The run is over, with its success in the status file or without.        *)
LEMMA SaveStep ==
  ASSUME BackupInv, NEW a \in Actors, Save(a) \/ SaveFails(a)
  PROVE  BackupInv'
<1> DEFINE k == run[a].kind
<1>1. /\ Working(a) /\ At(a, "save") /\ run[a].read \in Status /\ k \in Kinds \ {"pre-restore"}
      /\ zips[k] # <<>> /\ Good(Last(zips[k])) /\ zips[k] \in Seq(Archive)
  BY DEF Save, SaveFails, Working, At, BackupInv, LockInv, FileInv, TypeOK, Run, Mine
<1>2. run[a].read.copy = "ok" => TRUE \in Range(remote)
  BY DEF BackupInv, ReadInv
<1>3. /\ run' = [run EXCEPT ![a] = Quiet] /\ lock' = Nobody
      /\ fresh' \in BOOLEAN /\ recent' \in BOOLEAN /\ faults' \in 0 .. MaxFaults
      /\ UNCHANGED <<zips, remote, siteVars, photo, changes, pristine>>
  <2>1. CASE Save(a)
    <3>1. recent' \in BOOLEAN
      BY <2>1 DEF Save
    <3>2. fresh' \in BOOLEAN /\ recent' \in BOOLEAN
      BY <2>1, <3>1, Zenon DEF Save
    <3>3. /\ run' = [run EXCEPT ![a] = Quiet] /\ lock' = Nobody
          /\ UNCHANGED <<zips, remote, siteVars, boundVars, pristine>>
      BY <2>1 DEF Save
    <3>4. QED
      BY <3>2, <3>3 DEF boundVars, BackupInv, TypeOK
  <2>2. CASE SaveFails(a)
    <3>1. faults' \in 0 .. MaxFaults
      BY <2>2, BackupsAssumption DEF SaveFails, Fault, BackupInv, TypeOK
    <3>2. QED
      BY <2>2, <3>1 DEF SaveFails, Leave, BackupInv, TypeOK
  <2>3. QED
    BY <2>1, <2>2
<1>4. /\ status' \in Status
      /\ status' = status \/ status'.copy = run[a].read.copy
  BY <1>1 DEF Save, SaveFails, Leave, Status, BackupInv, TypeOK
<1>5. /\ LockInv' /\ ReadInv' /\ FileInv' /\ run' \in [Actors -> Run] /\ \A j : ~Unverified(j)'
  BY <1>1, <1>3, WorkEnds DEF siteVars
<1>6. TypeOK'
  BY <1>3, <1>4, <1>5 DEF BackupInv, TypeOK, siteVars
<1>7. GoodInv'
  <2>1. PICK j \in Kinds \ {"pre-restore"} : j = k
    BY <1>1
  <2>2. Len(zips[j]) \in Nat \ {0} /\ zips' = zips
    BY <1>1, <1>3, <2>1, EmptySeq
  <2>3. Len(zips[j]) \in Settled(j)' /\ Good(zips[j][Len(zips[j])])
    BY <1>1, <1>5, <2>1, <2>2 DEF Settled, Last
  <2>4. QED
    BY <2>2, <2>3 DEF GoodInv, Good, Complete
<1>8. PristineInv'
  <2>1. ToCome' <= ToCome
    BY <1>3 DEF siteVars, ToCome, Quiet, BackupInv, TypeOK
  <2>2. QED
    BY <1>3, <1>5, <2>1, PristineSame DEF siteVars
<1>9. CopyInv' /\ SafetyInv'
  BY <1>2, <1>3, <1>4 DEF BackupInv, CopyInv, SafetyInv, siteVars
<1>10. QED
  BY <1>5, <1>6, <1>7, <1>8, <1>9 DEF BackupInv

(* It writes what it read, which the lock has kept true, and goes.         *)
LEMMA EndVerifyStep == BackupInv /\ EndVerifyExisting => BackupInv'
<1> SUFFICES ASSUME BackupInv, EndVerifyExisting PROVE BackupInv'
  OBVIOUS
<1>1. "user" \in Actors /\ Working("user") /\ ~At("user", "save")
  BY DEF EndVerifyExisting, Actors, Working, At
<1>2. /\ run' = [run EXCEPT !["user"] = Quiet] /\ lock' = Nobody /\ fresh' \in BOOLEAN
      /\ status' \in Status /\ (status'.good => status.good)
      /\ status'.copy = "ok" => TRUE \in Range(remote)
      /\ UNCHANGED <<zips, remote, recent, siteVars, boundVars, pristine>>
  <2>1. fresh' \in BOOLEAN
    BY Zenon DEF EndVerifyExisting
  <2>2. QED
    BY <1>1, <2>1, WhatWasRead DEF EndVerifyExisting
<1>3. /\ LockInv' /\ ReadInv' /\ FileInv' /\ run' \in [Actors -> Run] /\ \A j : ~Unverified(j)'
  BY <1>1, <1>2, WorkEnds DEF siteVars
<1>4. TypeOK'
  BY <1>2, <1>3 DEF BackupInv, TypeOK, siteVars, boundVars
<1>5. GoodInv'
  BY <1>2, <1>3, GoodSame
<1>6. PristineInv'
  <2>1. ToCome' <= ToCome
    BY <1>2 DEF siteVars, ToCome, Quiet, BackupInv, TypeOK
  <2>2. QED
    BY <1>2, <1>3, <2>1, PristineSame DEF siteVars
<1>7. CopyInv' /\ SafetyInv'
  BY <1>2 DEF BackupInv, CopyInv, SafetyInv, siteVars
<1>8. QED
  BY <1>3, <1>4, <1>5, <1>6, <1>7 DEF BackupInv

(* What the runs, the status and the bucket are not touched by.            *)
LEMMA RunsKept ==
  ASSUME BackupInv, UNCHANGED <<lock, run, status, remote>>,
         ~At("start", "idle") => UNCHANGED phase,
         \A k \in Kinds \ {"pre-restore"} : zips'[k] = zips[k]
  PROVE  /\ LockInv' /\ ReadInv' /\ FileInv' /\ CopyInv' /\ GoodInv'
         /\ \A k : Unverified(k)' <=> Unverified(k)
<1>1. LockInv'
  BY DEF BackupInv, LockInv, Working, At
<1>2. ReadInv' /\ CopyInv'
  BY DEF BackupInv, ReadInv, ReadStatus, CopyInv, Working, At
<1>3. \A a \in Actors : run[a].kind \in Kinds \ {"pre-restore"}
  BY DEF BackupInv, LockInv, TypeOK, Run
<1>4. FileInv'
  BY <1>3 DEF BackupInv, FileInv, At, Mine
<1>5. \A k : Unverified(k)' <=> Unverified(k)
  BY DEF Unverified, At
<1>6. GoodInv'
  BY <1>5, GoodSame
<1>7. QED
  BY <1>1, <1>2, <1>4, <1>5, <1>6

(* Photos change, and time passes.                                         *)
LEMMA BesideStep ==
  ASSUME BackupInv, ChangePhoto \/ IntervalEnds \/ PauseEnds \/ UNCHANGED vars
  PROVE  BackupInv'
<1>1. UNCHANGED <<zips, remote, status, lock, run, siteVars, pristine>>
  BY DEF ChangePhoto, IntervalEnds, PauseEnds, vars, runVars
<1>2. TypeOK'
  <2>1. fresh' \in BOOLEAN /\ recent' \in BOOLEAN /\ photo' \in BOOLEAN
    BY DEF ChangePhoto, IntervalEnds, PauseEnds, vars, runVars, boundVars, BackupInv, TypeOK
  <2>2. faults' \in 0 .. MaxFaults /\ changes' \in 0 .. MaxChanges
    BY BackupsAssumption
    DEF ChangePhoto, IntervalEnds, PauseEnds, vars, runVars, boundVars, BackupInv, TypeOK
  <2>3. QED
    BY <1>1, <2>1, <2>2 DEF BackupInv, TypeOK, siteVars
<1>3. /\ LockInv' /\ ReadInv' /\ FileInv' /\ CopyInv' /\ GoodInv'
      /\ \A k : Unverified(k)' <=> Unverified(k)
  BY <1>1, RunsKept DEF siteVars
<1>4. PristineInv'
  BY <1>1, <1>3, PristineSame DEF ToCome, siteVars, BackupInv, TypeOK
<1>5. SafetyInv'
  BY <1>1 DEF BackupInv, SafetyInv, siteVars
<1>6. QED
  BY <1>2, <1>3, <1>4, <1>5 DEF BackupInv

(* A restore adds a backup of its own kind and fills it.                   *)
LEMMA SafetyStep ==
  ASSUME BackupInv, OpenSafety \/ WriteSafety \/ EndRestore
  PROVE  BackupInv'
<1> DEFINE old == zips["pre-restore"]
<1>1. UNCHANGED <<remote, status, fresh, recent, lock, run, phase, schema, starts, pristine>>
  BY DEF OpenSafety, WriteSafety, EndRestore, runVars, boundVars
<1>2. old \in Seq(Archive) /\ SafetyZip(TRUE) \in Archive /\ SafetyZip(FALSE) \in Archive
  BY DEF BackupInv, TypeOK, Kinds, SafetyZip, Archive
<1>3. /\ zips' \in [Kinds -> Seq(Archive)]
      /\ \A k \in Kinds \ {"pre-restore"} : zips'[k] = zips[k]
      /\ SafetyInv'
  <2>1. CASE OpenSafety
    <3>1. zips' = [zips EXCEPT !["pre-restore"] = Append(old, SafetyZip(FALSE))] /\ restore' = "open"
      BY <2>1 DEF OpenSafety
    <3>2. Append(old, SafetyZip(FALSE)) \in Seq(Archive) /\ Append(old, SafetyZip(FALSE)) # <<>>
      BY <1>2, AppendKeeps
    <3>3. QED
      BY <3>1, <3>2 DEF BackupInv, TypeOK, SafetyInv, Kinds
  <2>2. CASE WriteSafety
    <3> DEFINE new == Append(Front(old), SafetyZip(TRUE))
    <3>1. zips' = [zips EXCEPT !["pre-restore"] = new]
      BY <2>2 DEF WriteSafety
    <3>2. old # <<>>
      BY <2>2 DEF WriteSafety, BackupInv, SafetyInv
    <3>3. Front(old) \in Seq(Archive)
      BY <1>2, <3>2, FrontKeeps
    <3>4. new \in Seq(Archive) /\ new # <<>> /\ Last(new) = SafetyZip(TRUE)
      BY <1>2, <3>3, AppendKeeps
    <3> HIDE DEF new
    <3>5. SafetyZip(TRUE).whole
      BY DEF SafetyZip
    <3>6. zips'["pre-restore"] = new
      BY <3>1 DEF BackupInv, TypeOK, Kinds
    <3>7. SafetyInv'
      BY <3>4, <3>5, <3>6 DEF SafetyInv
    <3>8. QED
      BY <3>1, <3>4, <3>7 DEF BackupInv, TypeOK, Kinds
  <2>3. CASE EndRestore
    BY <2>3 DEF EndRestore, BackupInv, TypeOK, SafetyInv
  <2>4. QED
    BY <2>1, <2>2, <2>3
<1>4. TypeOK'
  <2>1. /\ photo' \in BOOLEAN /\ restore' \in {"none", "open", "journal"} /\ faults' = faults
    BY DEF OpenSafety, WriteSafety, EndRestore, boundVars, BackupInv, TypeOK
  <2>2. changes' \in 0 .. MaxChanges
    <3>1. changes' = changes \/ (changes < MaxChanges /\ changes' = changes + 1)
      BY DEF OpenSafety, WriteSafety, EndRestore, boundVars
    <3>2. QED
      BY <3>1, BackupsAssumption DEF BackupInv, TypeOK
  <2>3. QED
    BY <1>1, <1>3, <2>1, <2>2 DEF BackupInv, TypeOK
<1>5. /\ LockInv' /\ ReadInv' /\ FileInv' /\ CopyInv' /\ GoodInv'
      /\ \A k : Unverified(k)' <=> Unverified(k)
  BY <1>1, <1>3, RunsKept
<1>6. PristineInv'
  BY <1>1, <1>3, <1>5, PristineSame DEF ToCome, BackupInv, TypeOK, Kinds
<1>7. QED
  BY <1>3, <1>4, <1>5, <1>6 DEF BackupInv

(* The process ends, and the container starts once more: one more start,   *)
(* with one more backup to come, unless the data are migrated already.     *)
LEMMA StopStep ==
  ASSUME BackupInv, Crash \/ MigrateFails
  PROVE  BackupInv'
<1>1. /\ Stopped /\ UNCHANGED <<zips, remote, status, fresh, recent, photo, changes, pristine>>
      /\ faults < MaxFaults /\ faults' = faults + 1
      /\ schema' \in {schema, "mid"} /\ (schema = "new" => schema' = schema)
      /\ restore' = restore \/ restore' = "none"
  BY DEF Crash, MigrateFails, Fault
<1>2. \A a \in Actors : run'[a] = Quiet
  BY <1>1 DEF Stopped
<1>3. Quiet \in Run /\ Quiet.at = "idle" /\ Quiet.kind = "auto" /\ Quiet.read.copy = "none"
  BY DEF Quiet, NoStatus, Run, Places, Kinds, Status
<1>4. TypeOK'
  <2>1. faults' \in 0 .. MaxFaults
    BY <1>1, BackupsAssumption DEF BackupInv, TypeOK
  <2>2. /\ run' \in [Actors -> Run] /\ lock' = Nobody /\ phase' = "recover" /\ starts' \in Nat
    BY <1>1, <1>3 DEF Stopped, BackupInv, TypeOK
  <2>3. QED
    BY <1>1, <2>1, <2>2 DEF BackupInv, TypeOK
<1>5. LockInv' /\ ReadInv' /\ FileInv' /\ \A k : ~Unverified(k)'
  BY <1>1, <1>2, <1>3
  DEF Stopped, LockInv, ReadInv, FileInv, Unverified, Working, At, Actors, Nobody
<1>6. GoodInv'
  BY <1>1, <1>5, GoodSame
<1>7. CopyInv' /\ SafetyInv'
  BY <1>1 DEF BackupInv, CopyInv, SafetyInv
<1>8. PristineInv'
  <2>1. Len(zips["pre-upgrade"]) \in Int /\ starts \in Nat /\ starts > 0
    BY LenProperties DEF BackupInv, TypeOK, PristineInv, Kinds
  <2>2. run'["start"].at = "idle" /\ phase' = "recover"
    BY <1>1, <1>2, <1>3 DEF Stopped, Actors
  <2>3. CASE schema = "new"
    <3>1. ToCome' = 0 /\ starts' = starts /\ ToCome \in {0, 1}
      BY <1>1, <2>2, <2>3 DEF ToCome, Stopped
    <3>2. QED
      BY <1>1, <1>5, <3>1, PristineSame
  <2>4. CASE schema # "new"
    <3>1. ToCome' <= ToCome + 1 /\ starts' = starts + 1 /\ ToCome \in {0, 1} /\ ToCome' \in {0, 1}
      BY <1>1, <2>4 DEF ToCome, Stopped
    <3>2. \A i : i \in Settled("pre-upgrade") => i \in Settled("pre-upgrade")' /\ i \in Int
      BY <1>1, <1>5 DEF Settled
    <3>3. starts' <= Keep["pre-upgrade"] => starts <= Keep["pre-upgrade"]
      BY <2>1, <3>1, BackupsAssumption DEF Kinds
    <3>4. ASSUME NEW i \in Int, Len(zips["pre-upgrade"]) - i + ToCome < starts
          PROVE  Len(zips'["pre-upgrade"]) - i + ToCome' < starts'
      BY <1>1, <2>1, <3>1, <3>4
    <3>5. starts' > 0
      BY <2>1, <3>1
    <3>6. QED
      BY <1>1, <3>2, <3>3, <3>4, <3>5 DEF BackupInv, PristineInv, Good, Complete
  <2>5. QED
    BY <2>3, <2>4
<1>9. QED
  BY <1>4, <1>5, <1>6, <1>7, <1>8 DEF BackupInv

(* start.sh goes on.                                                       *)
LEMMA StartupStep ==
  ASSUME BackupInv, Startup
  PROVE  BackupInv'
<1>1. /\ UNCHANGED <<zips, remote, runVars, starts, boundVars, pristine>>
      /\ restore' = restore \/ restore' = "none"
      /\ schema' = schema \/ schema' = "new"
      /\ phase' \in {"backup", "migrate", "serving"}
  BY DEF Startup, RecoverRestore, BackupsEnd, Migrate, siteVars
<1>2. At("start", "idle")
  BY DEF Startup, RecoverRestore, BackupsEnd, Migrate, BackupInv, LockInv
<1>3. TypeOK'
  BY <1>1 DEF BackupInv, TypeOK, runVars, boundVars
<1>4. /\ LockInv' /\ ReadInv' /\ FileInv' /\ CopyInv' /\ GoodInv'
      /\ \A k : Unverified(k)' <=> Unverified(k)
  BY <1>1, <1>2, RunsKept DEF runVars
<1>5. PristineInv'
  <2>1. ToCome' <= ToCome
    BY DEF Startup, RecoverRestore, BackupsEnd, Migrate, runVars, ToCome
  <2>2. QED
    BY <1>1, <1>4, <2>1, PristineSame
<1>6. SafetyInv'
  BY <1>1 DEF BackupInv, SafetyInv
<1>7. QED
  BY <1>3, <1>4, <1>5, <1>6 DEF BackupInv

(* Every step keeps the invariant.                                         *)
LEMMA BackupStep == BackupInv /\ [Next]_vars => BackupInv'
<1> SUFFICES ASSUME BackupInv, [Next]_vars PROVE BackupInv'
  OBVIOUS
<1>1. ASSUME NEW a \in Actors, NotVerified(a) \/ RunFails(a) PROVE BackupInv'
  <2>1. /\ run[a].at \in {"snapshot", "write", "verify"} /\ Unlink(a)
        /\ RecordFailure(a) \/ Leave(a)
        /\ UNCHANGED <<remote, siteVars, photo, changes, pristine>>
    BY <1>1 DEF NotVerified, RunFails, At
  <2>2. faults' \in 0 .. MaxFaults
    BY <1>1, BackupsAssumption DEF NotVerified, RunFails, Fault, BackupInv, TypeOK
  <2>3. QED
    BY <2>1, <2>2, FailStep
<1>2. ASSUME NEW a \in Actors, Progress(a) \/ RunFails(a) \/ SaveFails(a) PROVE BackupInv'
  BY <1>1, <1>2, AcquireStep, SnapshotStep, WriteStep, VerifiedStep, RetainStep, SentStep, SaveStep
  DEF Progress
<1>3. CASE SchedulerAsks \/ UserAsks \/ StartAsks
  BY <1>3, AskStep
<1>4. CASE BeginVerifyExisting \/ EndVerifyExisting
  BY <1>4, BeginVerifyStep, EndVerifyStep
<1>5. CASE ChangePhoto \/ IntervalEnds \/ PauseEnds \/ UNCHANGED vars
  BY <1>5, BesideStep
<1>6. CASE OpenSafety \/ WriteSafety \/ EndRestore
  BY <1>6, SafetyStep
<1>7. CASE Crash \/ MigrateFails
  BY <1>7, StopStep
<1>8. CASE Startup
  BY <1>8, StartupStep
<1>9. QED
  BY <1>2, <1>3, <1>4, <1>5, <1>6, <1>7, <1>8 DEF Next

(* BackupInv holds in every reachable state.                               *)
LEMMA BackupInvariant == Spec => []BackupInv
  BY BackupInit, BackupStep, PTL DEF Spec

-----------------------------------------------------------------------------
(* The variables of Backups always have their types (TypeOK): whoever      *)
(* holds _backup_lock is a run for one of the kinds a requester asks for.  *)
THEOREM BackupsTypeCorrect == Spec => []TypeOK
<1>1. BackupInv => TypeOK
  BY DEF BackupInv
<1>2. QED
  BY <1>1, BackupInvariant, PTL

(* Once the status file says that a backup succeeded, there is one on disk *)
(* that restores completely, whatever failed, was pruned or died since.    *)
THEOREM SuccessIsOnDisk == Spec => []SuccessLeavesGoodBackup
<1>1. BackupInv => SuccessLeavesGoodBackup
  <2> SUFFICES ASSUME BackupInv, status.good
               PROVE  \E k \in Kinds \ {"pre-restore"} : Has(k, Good)
    BY DEF SuccessLeavesGoodBackup
  <2>1. PICK k \in Kinds \ {"pre-restore"} : \E i \in 1 .. Len(zips[k]) : Good(zips[k][i])
    BY DEF BackupInv, GoodInv, Settled
  <2>2. DOMAIN zips[k] = 1 .. Len(zips[k])
    BY LenProperties DEF BackupInv, TypeOK
  <2>3. QED
    BY <2>1, <2>2 DEF Has
<1>2. QED
  BY <1>1, BackupInvariant, PTL

(* While a restore has a journal, the safety backup it names is there and  *)
(* whole, although the retention of run_backup takes no notice of it.      *)
THEOREM SafetyBackupStays == Spec => []SafetyBackupSurvives
<1>1. BackupInv => SafetyBackupSurvives
  BY DEF BackupInv, SafetyInv, SafetyBackupSurvives
<1>2. QED
  BY <1>1, BackupInvariant, PTL

(* A verified backup from before a migration is kept for as many starts of *)
(* the container as the retention keeps backups of that kind.              *)
THEOREM PristineCopyStays == Spec => []PristineCopySurvives
<1>1. BackupInv => PristineCopySurvives
  <2> SUFFICES ASSUME BackupInv, pristine, starts <= Keep["pre-upgrade"]
               PROVE  Has("pre-upgrade", LAMBDA z : Good(z) /\ z.before)
    BY DEF PristineCopySurvives
  <2>1. PICK i \in 1 .. Len(zips["pre-upgrade"]) :
               Good(zips["pre-upgrade"][i]) /\ zips["pre-upgrade"][i].before
    BY DEF BackupInv, PristineInv, Settled
  <2>2. DOMAIN zips["pre-upgrade"] = 1 .. Len(zips["pre-upgrade"])
    BY LenProperties DEF BackupInv, TypeOK, Kinds
  <2>3. QED
    BY <2>1, <2>2 DEF Has
<1>2. QED
  BY <1>1, BackupInvariant, PTL

(* When the settings page, or the monitor of backups that are switched on, *)
(* has nothing to report, a backup on disk restores completely, and so does*)
(* a copy off site if a bucket is set up.                                  *)
THEOREM SilenceIsSafe == Spec => []SilenceMeansCopies
<1>1. BackupInv => SilenceMeansCopies
  <2> SUFFICES ASSUME BackupInv, Warnings = {} \/ (BackupsEnabled /\ Problems = {})
               PROVE  /\ \E k \in Kinds \ {"pre-restore"} : Has(k, Good)
                      /\ OffsiteEnabled => TRUE \in Range(remote)
    BY DEF SilenceMeansCopies
  <2>1. BackupsEnabled /\ "no backup" \notin Warnings /\ "copy" \notin Warnings
    BY DEF Problems, Warnings
  <2>2. status.good /\ (OffsiteEnabled => status.copy = "ok")
    BY <2>1 DEF Warnings
  <2>3. PICK k \in Kinds \ {"pre-restore"} : \E i \in 1 .. Len(zips[k]) : Good(zips[k][i])
    BY <2>2 DEF BackupInv, GoodInv, Settled
  <2>4. DOMAIN zips[k] = 1 .. Len(zips[k])
    BY LenProperties DEF BackupInv, TypeOK
  <2>5. QED
    BY <2>2, <2>3, <2>4 DEF Has, BackupInv, CopyInv
<1>2. QED
  BY <1>1, BackupInvariant, PTL

(* What OffsiteKeepsGood says of one step.                                 *)
OffsiteStep == TRUE \in Range(remote) => TRUE \in Range(remote')

(* The retention of the bucket never removes the last good copy: it runs   *)
(* behind an object that was downloaded and verified.                      *)
THEOREM OffsiteGoodStays == Spec => OffsiteKeepsGood
<1>1. BackupInv /\ [Next]_vars => [OffsiteStep]_vars
  <2> SUFFICES ASSUME BackupInv, Next PROVE OffsiteStep
    BY DEF OffsiteStep
  <2>1. CASE UNCHANGED remote
    BY <2>1 DEF OffsiteStep
  <2>2. ASSUME NEW a \in Actors, Upload(a) PROVE OffsiteStep
    <3>1. remote \in Seq(BOOLEAN) /\ (remote' \in Pruned \/ remote' = Grown(FALSE))
      BY <2>2 DEF Upload, Pruned, BackupInv, TypeOK
    <3>2. QED
      BY <3>1, BucketKeepsGood DEF OffsiteStep
  <2>3. QED
    BY <2>1, <2>2
    DEF Next, SchedulerAsks, UserAsks, StartAsks, Ask, Progress, Acquire, Snapshot, WriteZip,
        Verified, NotVerified, RunFails, RecordFailure, Retain, NoUpload, Save, SaveFails,
        BeginVerifyExisting, EndVerifyExisting, ChangePhoto, OpenSafety, WriteSafety, EndRestore,
        IntervalEnds, PauseEnds, Crash, Startup, RecoverRestore, BackupsEnd, Migrate, MigrateFails
<1>2. QED
  BY <1>1, BackupInvariant, PTL DEF Spec, OffsiteKeepsGood, OffsiteStep

(* What SuccessIsNotForgotten says of one step.                            *)
RememberStep == status.good /\ ~status'.good => \E a \in Actors : run[a].blind

(* No run that writes the status file it has read at its start loses the   *)
(* success another one has written since: the lock is held in between, and *)
(* only a run that could not read the file writes over what it said.       *)
THEOREM SuccessStays == Spec => SuccessIsNotForgotten
<1>1. BackupInv /\ [Next]_vars => [RememberStep]_vars
  <2> SUFFICES ASSUME BackupInv, Next PROVE RememberStep
    BY DEF RememberStep
  <2>1. CASE UNCHANGED status
    BY <2>1 DEF RememberStep
  <2>2. ASSUME NEW a \in Actors, NotVerified(a) \/ RunFails(a) PROVE RememberStep
    <3>1. CASE Leave(a)
      BY <3>1 DEF Leave, RememberStep
    <3>2. CASE RecordFailure(a)
      <4>1. Working(a) /\ ~At(a, "save")
        BY <2>2 DEF NotVerified, RunFails, At, Working
      <4>2. run[a].read \in Status /\ (~run[a].blind => run[a].read = status)
        BY <4>1, WhatWasRead
      <4>3. status' = [run[a].read EXCEPT !.error = TRUE]
        BY <3>2 DEF RecordFailure, WriteStatus
      <4>4. QED
        BY <4>2, <4>3 DEF RememberStep, Status
    <3>3. QED
      BY <2>2, <3>1, <3>2 DEF NotVerified, RunFails
  <2>3. ASSUME NEW a \in Actors, Save(a) PROVE RememberStep
    <3>1. run[a].read \in Status
      BY DEF BackupInv, TypeOK, Run
    <3>2. QED
      BY <2>3, <3>1 DEF Save, RememberStep, Status
  <2>4. CASE EndVerifyExisting
    <3>1. "user" \in Actors /\ Working("user") /\ ~At("user", "save")
      BY <2>4 DEF EndVerifyExisting, Actors, Working, At
    <3>2. ~run["user"].blind => run["user"].read = status
      BY <3>1, WhatWasRead
    <3>3. QED
      BY <2>4, <3>1, <3>2 DEF EndVerifyExisting, RememberStep
  <2>5. QED
    BY <2>1, <2>2, <2>3, <2>4
    DEF Next, SchedulerAsks, UserAsks, StartAsks, Ask, Progress, Acquire, Snapshot, WriteZip,
        Verified, Retain, Upload, NoUpload, SaveFails, Leave, BeginVerifyExisting, ChangePhoto,
        OpenSafety, WriteSafety, EndRestore, IntervalEnds, PauseEnds, Crash, Startup,
        RecoverRestore, BackupsEnd, Migrate, MigrateFails, runVars
<1>2. QED
  BY <1>1, BackupInvariant, PTL DEF Spec, SuccessIsNotForgotten, RememberStep
=============================================================================
