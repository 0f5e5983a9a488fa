----------------------------- MODULE FilesProofs -----------------------------
(***************************************************************************)
(* Proofs about Files, for every set of photos, requests and extensions    *)
(* and any number of failing commits and crashes.                          *)
(*                                                                         *)
(* FilesOutliveRows is about one step; that the step is harmless depends   *)
(* on what the request read earlier.  FilesInv says what is left of those  *)
(* readings: a photo just written is named by nobody else while its        *)
(* request holds the event loop, a photo has one row for ever although an  *)
(* id has several, a deleted row does not come back but by a restore, and  *)
(* a swap finds the rows it brought, or fewer.                             *)
(*                                                                         *)
(* Known and LogoInv say, for each place of each request, which files may  *)
(* be without a row and what a save knows of the logo; both only as long   *)
(* as no two of the requests the properties except have met.               *)
(***************************************************************************)
EXTENDS Files, TLAPS

(* A new photo has never had a row, and nothing else begins.               *)
Written ==
  \A t \in Tasks : At(t, "written") =>
    /\ loop = t
    /\ task[t].photo \notin Named(stored) /\ task[t].photo \in drawn

(* Names are drawn once: whatever names a photo names a drawn one, and     *)
(* only one row ever did.                                                  *)
Drawn ==
  /\ rows \subseteq stored /\ Named(stored) \subseteq drawn
  /\ \A x, y \in stored : x.photo = y.photo => x = y
  /\ \A x \in stored : x = [id |-> x.id, photo |-> x.photo]
  /\ \A t \in Tasks : At(t, "deleting") => [id |-> task[t].id, photo |-> task[t].photo] \in stored
  /\ \A t \in Tasks : At(t, "deleted") => task[t].photo \in Named(stored)

Deleted ==
  \A t \in Tasks : At(t, "deleted") /\ task[t].photo \in Named(rows) => task[t].restored

Swapping ==
  \A t \in Tasks : At(t, "swapping") =>
    loop = t /\ Named(rows) \subseteq task[t].photos /\ task[t].photos \subseteq drawn

(* After its commit a save of the settings goes on without a pause.        *)
Saved == \A t \in Tasks : task[t].at \in {"saved", "replaced"} => loop = t

Listed ==
  \A t \in Tasks : At(t, "cleaning") => task[t].orphans \intersect task[t].known = {}

Shape == task = [t \in Tasks |-> task[t]]

FilesInv == Shape /\ Written /\ Drawn /\ Deleted /\ Swapping /\ Saved /\ Listed

-----------------------------------------------------------------------------

(* A new row names one photo more.                                         *)
LEMMA NamedAdds ==
  ASSUME NEW R, NEW x
  PROVE  Named(R \union {x}) = Named(R) \union {x.photo}
  BY DEF Named

(* Nothing is there at first.                                              *)
LEMMA FilesInit == Init => FilesInv
  BY DEF Init, FilesInv, Shape, Written, Drawn, Deleted, Swapping, Saved, Listed, At, Idle, Named

(* A request that takes another place, outside of those FilesInv speaks    *)
(* about, changes nothing for the rest.                                    *)
LEMMA MoveOn ==
  ASSUME FilesInv, NEW t \in Tasks, NEW r, Goto(t, r),
         r.at \notin {"written", "deleting", "deleted", "swapping", "cleaning"},
         rows' \subseteq rows, UNCHANGED <<stored, drawn>>,
         loop' = loop \/ loop \in {None, t},
         r.at \in {"saved", "replaced"} => loop' = t
  PROVE  FilesInv'
<1> USE FilesAssumption DEF FilesInv
<1>1. Shape' /\ task'[t] = r /\ \A u \in Tasks \ {t} : task'[u] = task[u]
  BY DEF Goto, Shape
<1>2. Written'
  BY <1>1 DEF Written, At
<1>3. Named(rows') \subseteq Named(rows)
  BY DEF Named
<1>4. Drawn'
  BY <1>1 DEF Drawn, At
<1>5. Deleted'
  BY <1>1, <1>3 DEF Deleted, At
<1>6. Swapping'
  BY <1>1, <1>3 DEF Swapping, At
<1>7. Listed'
  BY <1>1 DEF Listed, At
<1>8. Saved'
  BY <1>1 DEF Saved
<1>9. QED
  BY <1>1, <1>2, <1>4, <1>5, <1>6, <1>7, <1>8

(* Every step keeps the invariant.                                         *)
LEMMA FilesStep == FilesInv /\ [Next]_vars => FilesInv'
<1> SUFFICES ASSUME FilesInv, [Next]_vars PROVE FilesInv'
  OBVIOUS
<1> USE FilesAssumption
<1>1. ASSUME NEW t \in Tasks, Photograph(t) PROVE FilesInv'
  <2>1. ASSUME NEW p \in Photos, WritePhoto(t, p) PROVE FilesInv'
    <3>1. /\ task'[t] = [at |-> "written", photo |-> p] /\ \A u \in Tasks \ {t} : task'[u] = task[u]
          /\ Shape'
      BY <2>1 DEF WritePhoto, Goto, FilesInv, Shape
    <3>2. /\ p \notin drawn /\ drawn' = drawn \union {p} /\ UNCHANGED <<rows, stored>>
          /\ loop = None /\ loop' = t
      BY <2>1 DEF WritePhoto, Begins
    <3>3. QED
      BY <3>1, <3>2 DEF FilesInv, Written, Drawn, Deleted, Swapping, Saved, Listed, At
  <2>2. ASSUME NEW p \in Photos, WriteFails(t, p) PROVE FilesInv'
    <3>1. /\ task'[t] = Idle /\ \A u \in Tasks \ {t} : task'[u] = task[u]
          /\ Shape'
      BY <2>2 DEF WriteFails, End, Goto, FilesInv, Shape
    <3>2. drawn' = drawn \union {p} /\ UNCHANGED <<rows, stored, loop>>
      BY <2>2 DEF WriteFails
    <3>3. QED
      BY <3>1, <3>2 DEF FilesInv, Written, Drawn, Deleted, Swapping, Saved, Listed, At, Idle
  <2>3. ASSUME NEW x \in rows, ReadPhoto(t, x) PROVE FilesInv'
    <3>1. /\ task'[t] = [at |-> "deleting", id |-> x.id, photo |-> x.photo]
          /\ \A u \in Tasks \ {t} : task'[u] = task[u]
          /\ Shape'
      BY <2>3 DEF ReadPhoto, Goto, FilesInv, Shape
    <3>2. UNCHANGED <<rows, stored, drawn, loop>>
      BY <2>3 DEF ReadPhoto, photoVars
    <3>3. [id |-> x.id, photo |-> x.photo] \in stored
      BY DEF FilesInv, Drawn
    <3>4. QED
      BY <3>1, <3>2, <3>3 DEF FilesInv, Written, Drawn, Deleted, Swapping, Saved, Listed, At
  <2>4. ASSUME CommitPhoto(t) PROVE FilesInv'
    <3>1. /\ task'[t] = Idle /\ \A u \in Tasks \ {t} : task'[u] = task[u]
          /\ Shape'
      BY <2>4 DEF CommitPhoto, End, Goto, FilesInv, Shape
    <3>2. PICK i \in NextId : /\ rows' = rows \union {[id |-> i, photo |-> task[t].photo]}
                              /\ stored' = stored \union {[id |-> i, photo |-> task[t].photo]}
      BY <2>4 DEF CommitPhoto
    <3>3. At(t, "written") /\ drawn' = drawn /\ loop' = None
      BY <2>4 DEF CommitPhoto
    <3>4. task[t].photo \notin Named(stored) /\ task[t].photo \in drawn /\ loop = t
      BY <3>3 DEF FilesInv, Written
    <3>5. \A u \in Tasks \ {t} : task[u].at # "written" /\ task[u].at # "swapping"
      BY <3>4 DEF FilesInv, Written, Swapping, At
    <3>6. \A u \in Tasks \ {t} : task[u].at \notin {"saved", "replaced"}
      BY <3>4 DEF FilesInv, Saved
    <3>7. /\ Named(stored') = Named(stored) \union {task[t].photo}
          /\ Named(rows') = Named(rows) \union {task[t].photo}
      <4>1. [id |-> i, photo |-> task[t].photo].photo = task[t].photo
        OBVIOUS
      <4>2. Named(stored \union {[id |-> i, photo |-> task[t].photo]}) = Named(stored) \union {task[t].photo}
        BY <4>1, NamedAdds, Zenon
      <4>3. Named(rows \union {[id |-> i, photo |-> task[t].photo]}) = Named(rows) \union {task[t].photo}
        BY <4>1, NamedAdds, Zenon
      <4>4. QED
        BY <3>2, <4>2, <4>3
    <3>8. Drawn'
      <4>1. rows' \subseteq stored' /\ Named(stored') \subseteq drawn'
        BY <3>2, <3>3, <3>4, <3>7 DEF FilesInv, Drawn
      <4>2. \A x, y \in stored' : x.photo = y.photo => x = y
        BY <3>2, <3>4 DEF FilesInv, Drawn, Named
      <4>3. \A x \in stored' : x = [id |-> x.id, photo |-> x.photo]
        BY <3>2 DEF FilesInv, Drawn
      <4>4. \A u \in Tasks : At(u, "deleting")' => [id |-> task'[u].id, photo |-> task'[u].photo] \in stored'
        BY <3>1, <3>2 DEF FilesInv, Drawn, At, Idle
      <4>5. \A u \in Tasks : At(u, "deleted")' => task'[u].photo \in Named(stored')
        BY <3>1, <3>7 DEF FilesInv, Drawn, At, Idle
      <4>6. QED
        BY <4>1, <4>2, <4>3, <4>4, <4>5 DEF Drawn
    <3>9. Deleted'
      BY <3>1, <3>4, <3>7 DEF FilesInv, Drawn, Deleted, At, Idle
    <3>10. Written' /\ Swapping' /\ Saved' /\ Listed'
      BY <3>1, <3>5, <3>6 DEF FilesInv, Written, Swapping, Saved, Listed, At, Idle
    <3>11. QED
      BY <3>1, <3>8, <3>9, <3>10 DEF FilesInv
  <2>5. ASSUME CommitPhotoFails(t) \/ DeletionFails(t) \/ RemovePhoto(t) PROVE FilesInv'
    <3>1. Goto(t, Idle) /\ UNCHANGED <<rows, stored, drawn>>
      BY <2>5 DEF CommitPhotoFails, DeletionFails, RemovePhoto, End, photoVars
    <3>2. loop' = loop \/ loop = t
      BY <2>5 DEF CommitPhotoFails, DeletionFails, RemovePhoto, FilesInv, Written
    <3>3. loop' = loop \/ loop' = None
      BY <2>5 DEF CommitPhotoFails, DeletionFails, RemovePhoto
    <3>4. QED
      BY <3>1, <3>2, <3>3, MoveOn DEF Idle
  <2>6. ASSUME CommitDeletion(t) PROVE FilesInv'
    <3>1. /\ task'[t] = [at |-> "deleted", photo |-> task[t].photo, restored |-> FALSE]
          /\ \A u \in Tasks \ {t} : task'[u] = task[u]
          /\ Shape'
      BY <2>6 DEF CommitDeletion, Goto, FilesInv, Shape
    <3>2. /\ At(t, "deleting") /\ rows' = rows \ {x \in rows : x.id = task[t].id}
          /\ UNCHANGED <<stored, drawn, loop>>
      BY <2>6 DEF CommitDeletion
    <3>3. [id |-> task[t].id, photo |-> task[t].photo] \in stored
      BY <3>2 DEF FilesInv, Drawn
    <3>4. task[t].photo \in Named(stored)
      BY <3>3 DEF Named
    <3>5. task[t].photo \notin Named(rows')
      <4>1. SUFFICES ASSUME NEW x \in rows, x.id # task[t].id, x.photo = task[t].photo PROVE FALSE
        BY <3>2 DEF Named
      <4>2. x \in stored
        BY DEF FilesInv, Drawn
      <4>3. x = [id |-> task[t].id, photo |-> task[t].photo]
        BY <3>3, <4>1, <4>2 DEF FilesInv, Drawn
      <4>4. QED
        BY <4>1, <4>3
    <3>6. Named(rows') \subseteq Named(rows)
      BY <3>2 DEF Named
    <3>7. Written' /\ Swapping' /\ Saved' /\ Listed'
      BY <3>1, <3>2, <3>6 DEF FilesInv, Written, Swapping, Saved, Listed, At
    <3>8. Drawn'
      BY <3>1, <3>2, <3>4 DEF FilesInv, Drawn, At
    <3>9. Deleted'
      BY <3>1, <3>5, <3>6 DEF FilesInv, Deleted, At
    <3>10. QED
      BY <3>1, <3>7, <3>8, <3>9 DEF FilesInv
  <2>7. QED
    BY <1>1, <2>1, <2>2, <2>3, <2>4, <2>5, <2>6 DEF Photograph
<1>2. ASSUME NEW t \in Tasks, CleanUp(t) PROVE FilesInv'
  <2>1. CASE ReadRows(t)
    BY <2>1, MoveOn DEF ReadRows, photoVars
  <2>2. CASE ListFiles(t)
    <3>1. /\ task'[t] = [at |-> "cleaning", known |-> task[t].known,
                        orphans |-> files \ task[t].known, temps |-> temps,
                        stray |-> logoFiles \ {task[t].logo}]
          /\ \A u \in Tasks \ {t} : task'[u] = task[u]
          /\ Shape'
      BY <2>2 DEF ListFiles, Goto, FilesInv, Shape
    <3>2. UNCHANGED <<rows, stored, drawn, loop>>
      BY <2>2 DEF ListFiles, photoVars
    <3>3. QED
      BY <3>1, <3>2 DEF FilesInv, Written, Drawn, Deleted, Swapping, Saved, Listed, At
  <2>3. CASE RemoveOrphans(t)
    BY <2>3, MoveOn DEF RemoveOrphans, End, Idle
  <2>4. QED
    BY <1>2, <2>1, <2>2, <2>3 DEF CleanUp
<1>3. ASSUME NEW t \in Tasks, SaveSettings(t) PROVE FilesInv'
  <2>1. CASE \E want \in Logos : LoadCompany(t, want)
    BY <2>1, MoveOn DEF LoadCompany, photoVars
  <2>2. CASE StageLogo(t) \/ StageFails(t) \/ RefuseSignature(t) \/ SaveFails(t)
    <3>1. PICK r : Goto(t, r) /\ r.at \in {"staged", "idle"} /\ UNCHANGED <<rows, stored, drawn, loop>>
      BY <2>2 DEF StageLogo, StageFails, RefuseSignature, SaveFails, Step, End, Idle, photoVars
    <3>2. QED
      BY <3>1, MoveOn
  <2>3. CASE SaveCompany(t)
    BY <2>3, MoveOn DEF SaveCompany, Step, photoVars
  <2>4. CASE DeleteLogo(t) \/ ReplaceLogo(t) \/ ReplaceFails(t) \/ RemoveOldLogo(t)
    <3>1. loop = t
      BY <2>4 DEF DeleteLogo, ReplaceLogo, ReplaceFails, RemoveOldLogo, At, FilesInv, Saved
    <3>2. PICK r : /\ Goto(t, r) /\ r.at \in {"replaced", "idle"}
                   /\ r.at = "replaced" => loop' = loop
                   /\ loop' \in {loop, None}
                   /\ UNCHANGED <<rows, stored, drawn>>
      BY <2>4 DEF DeleteLogo, ReplaceLogo, ReplaceFails, RemoveOldLogo, Step, End, Idle, photoVars
    <3>3. QED
      BY <3>1, <3>2, MoveOn
  <2>5. QED
    BY <1>3, <2>1, <2>2, <2>3, <2>4 DEF SaveSettings
<1>4. ASSUME NEW t \in Tasks, Restore(t) PROVE FilesInv'
  <2>1. ASSUME NEW R \in SUBSET stored, NEW l \in Logos, SwapDatabase(t, R, l) PROVE FilesInv'
    <3>1. Shape' /\ task'[t] = [at |-> "swapping", photos |-> Named(R), logo |-> l]
      BY <2>1 DEF SwapDatabase, Shape
    <3>2. loop = None /\ loop' = t /\ rows' = R /\ UNCHANGED <<stored, drawn>>
      BY <2>1 DEF SwapDatabase, Begins
    <3>3. \A u \in Tasks \ {t} : task[u].at # "deleted" => task'[u] = task[u]
      BY <2>1 DEF SwapDatabase, At
    <3>4. \A u \in Tasks \ {t} : task[u].at = "deleted" =>
            task'[u] = [at |-> "deleted", photo |-> task[u].photo, restored |-> TRUE]
      BY <2>1 DEF SwapDatabase, At
    <3>5. \A u \in Tasks \ {t} :
            /\ task'[u].at = task[u].at
            /\ task[u].at = "deleted" => task'[u].photo = task[u].photo /\ task'[u].restored
      <4> TAKE u \in Tasks \ {t}
      <4>1. CASE task[u].at = "deleted"
        <5>1. task'[u] = [at |-> "deleted", photo |-> task[u].photo, restored |-> TRUE]
          BY <4>1, <3>4
        <5>2. task'[u].at = "deleted" /\ task'[u].photo = task[u].photo /\ task'[u].restored = TRUE
          BY <5>1
        <5>3. QED
          BY <4>1, <5>2
      <4>2. CASE task[u].at # "deleted"
        BY <4>2, <3>3
      <4>3. QED
        BY <4>1, <4>2
    <3>6. /\ \A u \in Tasks : task[u].at # "written" /\ task[u].at # "swapping"
          /\ \A u \in Tasks : task[u].at # "saved" /\ task[u].at # "replaced"
          /\ \A u \in Tasks : task[u].at = "deleting" => [id |-> task[u].id, photo |-> task[u].photo] \in stored
          /\ \A u \in Tasks : task[u].at = "deleted" => task[u].photo \in Named(stored)
          /\ \A u \in Tasks : task[u].at = "cleaning" => task[u].orphans \intersect task[u].known = {}
      BY <3>2 DEF FilesInv, Written, Swapping, Saved, Drawn, Listed, At
    <3>7. Written' /\ Saved'
      <4>1. \A u \in Tasks : task'[u].at # "written"
        BY <3>1, <3>5, <3>6
      <4>2. \A u \in Tasks : task'[u].at # "saved" /\ task'[u].at # "replaced"
        BY <3>1, <3>5, <3>6
      <4>3. QED
        BY <4>1, <4>2 DEF Written, Saved, At
    <3>8. Drawn'
      <4>1. ASSUME NEW u \in Tasks, task'[u].at = "deleting"
            PROVE  [id |-> task'[u].id, photo |-> task'[u].photo] \in stored'
        BY <4>1, <3>1, <3>2, <3>3, <3>5, <3>6
      <4>2. ASSUME NEW u \in Tasks, task'[u].at = "deleted"
            PROVE  task'[u].photo \in Named(stored')
        BY <4>2, <3>1, <3>2, <3>5, <3>6
      <4>3. QED
        BY <4>1, <4>2, <3>2 DEF FilesInv, Drawn, At
    <3>9. Deleted'
      BY <3>1, <3>5 DEF Deleted, At
    <3>10. Swapping'
      <4>1. Named(R) \subseteq drawn
        BY DEF FilesInv, Drawn, Named
      <4>2. QED
        BY <3>1, <3>2, <3>5, <3>6, <4>1 DEF Swapping, At
    <3>11. Listed'
      BY <3>1, <3>3, <3>5, <3>6 DEF Listed, At
    <3>12. QED
      BY <3>1, <3>7, <3>8, <3>9, <3>10, <3>11 DEF FilesInv
  <2>2. CASE SwapUploads(t)
    BY <2>2, MoveOn DEF SwapUploads, End, Idle, FilesInv, Swapping
  <2>3. QED
    BY <1>4, <2>1, <2>2 DEF Restore
<1>5. CASE Crash
  BY <1>5 DEF Crash, FilesInv, Shape, Written, Drawn, Deleted, Swapping, Saved, Listed, At, Idle, photoVars
<1>6. CASE UNCHANGED vars
  BY <1>6 DEF vars, photoVars, FilesInv, Shape, Written, Drawn, Deleted, Swapping, Saved, Listed, At
<1>7. QED
  BY <1>1, <1>2, <1>3, <1>4, <1>5, <1>6 DEF Next

(* FilesInv holds in every reachable state.                                *)
LEMMA FilesInvariant == Spec => []FilesInv
  BY FilesInit, FilesStep, PTL DEF Spec

-----------------------------------------------------------------------------

(* What FilesOutliveRows says of one step.                                 *)
OutliveStep ==
  \A p \in (files \ files') \intersect Named(rows') :
    \E t \in Tasks :
      \/ At(t, "cleaning") /\ p \notin task[t].known
      \/ At(t, "deleted") /\ task[t].photo = p /\ task[t].restored

(* A photo file never goes while its row stays, but in the two meetings of *)
(* requests that FilesOutliveRows names: upload, deletion, clean-up, logo  *)
(* and restore of any number of requests, with any failures and crashes.   *)
THEOREM FilesStay == Spec => FilesOutliveRows
<1>1. FilesInv /\ [Next]_vars => [OutliveStep]_vars
  <2> SUFFICES ASSUME FilesInv, Next PROVE OutliveStep
    OBVIOUS
  <2>1. ASSUME files \subseteq files' PROVE OutliveStep
    BY <2>1 DEF OutliveStep
  <2>2. ASSUME NEW t \in Tasks, Photograph(t) PROVE OutliveStep
    <3>1. CASE CommitPhotoFails(t)
      BY <3>1 DEF CommitPhotoFails, OutliveStep, FilesInv, Written, Drawn, Named
    <3>2. CASE RemovePhoto(t)
      BY <3>2 DEF RemovePhoto, OutliveStep, FilesInv, Deleted, At
    <3>3. QED
      BY <2>1, <2>2, <3>1, <3>2
      DEF Photograph, WritePhoto, WriteFails, ReadPhoto, CommitPhoto, CommitDeletion, DeletionFails,
          photoVars
  <2>3. ASSUME NEW t \in Tasks, CleanUp(t) PROVE OutliveStep
    <3>1. CASE RemoveOrphans(t)
      BY <3>1 DEF RemoveOrphans, OutliveStep, FilesInv, Listed, At
    <3>2. QED
      BY <2>1, <2>3, <3>1 DEF CleanUp, ReadRows, ListFiles, photoVars
  <2>4. ASSUME NEW t \in Tasks, SaveSettings(t) PROVE OutliveStep
    BY <2>1, <2>4 DEF SaveSettings, LoadCompany, StageLogo, StageFails, RefuseSignature, SaveCompany,
                      SaveFails, DeleteLogo, ReplaceLogo, ReplaceFails, RemoveOldLogo, photoVars
  <2>5. ASSUME NEW t \in Tasks, Restore(t) PROVE OutliveStep
    <3>1. CASE SwapUploads(t)
      BY <3>1 DEF SwapUploads, OutliveStep, FilesInv, Swapping
    <3>2. QED
      BY <2>1, <2>5, <3>1 DEF Restore, SwapDatabase
  <2>6. QED
    BY <2>1, <2>2, <2>3, <2>4, <2>5 DEF Next, Crash, photoVars
<1>2. QED
  BY <1>1, FilesInvariant, PTL DEF Spec, FilesOutliveRows, OutliveStep
-----------------------------------------------------------------------------

(* A request takes a place of its own kind.                                *)
LEMMA TaskTyped ==
  ASSUME task \in [Tasks -> Task], NEW t \in Tasks, NEW r \in Task, Goto(t, r)
  PROVE  task' \in [Tasks -> Task]
  BY DEF Goto

(* What a request carries, by its place.                                   *)
LEMMA Carried ==
  ASSUME NEW r \in Task
  PROVE  /\ r.at \in {"written", "deleting", "deleted"} => r.photo \in Photos
         /\ r.at = "deleting" => r.id \in Nat
         /\ r.at \in {"checking", "cleaning"} => r.known \subseteq Photos
         /\ r.at = "checking" => r.logo \in Logos
         /\ r.at \in {"loaded", "staged", "saved", "replaced"} => r.seen \in Logos /\ r.want \in Logos
         /\ r.at = "swapping" => r.photos \subseteq Photos /\ r.logo \in Logos
  BY DEF Task, Idle

(* And the other way: what makes a request of that place.                  *)
LEMMA Makes ==
  /\ Idle \in Task
  /\ \A p \in Photos : [at |-> "written", photo |-> p] \in Task
  /\ \A p \in Photos, i \in Nat : [at |-> "deleting", id |-> i, photo |-> p] \in Task
  /\ \A p \in Photos, b \in BOOLEAN : [at |-> "deleted", photo |-> p, restored |-> b] \in Task
  /\ \A k \in SUBSET Photos, l \in Logos : [at |-> "checking", known |-> k, logo |-> l] \in Task
  /\ \A k, o \in SUBSET Photos, x \in SUBSET Extensions, y \in SUBSET (Tasks \union {None}) :
       [at |-> "cleaning", known |-> k, orphans |-> o, temps |-> y, stray |-> x] \in Task
  /\ \A a \in {"loaded", "staged", "saved", "replaced"}, l, m \in Logos :
       [at |-> a, seen |-> l, want |-> m] \in Task
  /\ \A p \in SUBSET Photos, l \in Logos : [at |-> "swapping", photos |-> p, logo |-> l] \in Task
  BY DEF Task

(* The type invariant, which holds because a restore brings only photos    *)
(* whose names were drawn: the live directory holds what uploads wrote.    *)
THEOREM FilesTypeCorrect == Spec => []TypeOK
<1> USE FilesAssumption
<1>1. Init => TypeOK
  <2> SUFFICES ASSUME Init PROVE TypeOK
    OBVIOUS
  <2>1. task \in [Tasks -> Task]
    BY Makes DEF Init
  <2>2. failures \in 0..MaxFailures /\ crashes \in 0..MaxCrashes
    BY DEF Init, FilesAssumption
  <2>3. clash \in BOOLEAN /\ torn \in BOOLEAN
    BY DEF Init
  <2>4. QED
    BY <2>1, <2>2, <2>3 DEF Init, TypeOK, Logos
<1>2. TypeOK /\ FilesInv /\ [Next]_vars => TypeOK'
  <2> SUFFICES ASSUME TypeOK, FilesInv, [Next]_vars PROVE TypeOK'
    OBVIOUS
  <2> USE DEF TypeOK
  <2>1. ASSUME NEW t \in Tasks, Photograph(t) PROVE TypeOK'
    <3>1. ASSUME NEW p \in Photos, WritePhoto(t, p) PROVE TypeOK'
      BY <3>1, Makes, TaskTyped DEF WritePhoto, logoVars
    <3>2. ASSUME NEW p \in Photos, WriteFails(t, p) PROVE TypeOK'
      BY <3>2, Makes, TaskTyped DEF WriteFails, Fault, End, logoVars
    <3>3. ASSUME NEW x \in rows, ReadPhoto(t, x) PROVE TypeOK'
      <4>1. x.id \in Nat /\ x.photo \in Photos
        OBVIOUS
      <4>2. task' \in [Tasks -> Task]
        BY <3>3, <4>1, Makes, TaskTyped DEF ReadPhoto
      <4>3. QED
        BY <3>3, <4>2 DEF ReadPhoto, logoVars, photoVars
    <3>4. CASE CommitPhoto(t)
      <4>1. PICK i \in NextId : /\ rows' = rows \union {[id |-> i, photo |-> task[t].photo]}
                                /\ stored' = stored \union {[id |-> i, photo |-> task[t].photo]}
        BY <3>4 DEF CommitPhoto
      <4>2. i \in Nat
        BY DEF NextId
      <4>3. task[t].photo \in Photos
        BY <3>4, Carried DEF CommitPhoto, At
      <4>4. task' \in [Tasks -> Task]
        BY <3>4, Makes, TaskTyped DEF CommitPhoto, End
      <4>5. QED
        BY <3>4, <4>1, <4>2, <4>3, <4>4 DEF CommitPhoto, logoVars
    <3>5. CASE CommitPhotoFails(t)
      BY <3>5, Makes, TaskTyped DEF CommitPhotoFails, CommitFails, Fault, End, logoVars
    <3>6. CASE CommitDeletion(t)
      <4>1. Named({x \in rows : x.id = task[t].id}) \subseteq drawn
        BY DEF FilesInv, Drawn, Named
      <4>2. task' \in [Tasks -> Task]
        BY <3>6, Makes, TaskTyped, Carried DEF CommitDeletion, At
      <4>3. QED
        BY <3>6, <4>1, <4>2 DEF CommitDeletion, logoVars
    <3>7. CASE DeletionFails(t)
      BY <3>7, Makes, TaskTyped DEF DeletionFails, CommitFails, End, logoVars, photoVars
    <3>8. CASE RemovePhoto(t)
      BY <3>8, Makes, TaskTyped DEF RemovePhoto, Fault, End, logoVars
    <3>9. QED
      BY <2>1, <3>1, <3>2, <3>3, <3>4, <3>5, <3>6, <3>7, <3>8 DEF Photograph
  <2>2. ASSUME NEW t \in Tasks, CleanUp(t) PROVE TypeOK'
    <3>1. CASE ReadRows(t)
      <4>1. task' \in [Tasks -> Task]
        <5>1. Named(rows) \in SUBSET Photos
          BY DEF Named
        <5>2. QED
          BY <3>1, <5>1, Makes, TaskTyped DEF ReadRows
      <4>2. QED
        BY <3>1, <4>1 DEF ReadRows, Overlap, photoVars
    <3>2. CASE ListFiles(t)
      <4>1. task[t].known \in SUBSET Photos
        BY <3>2, Carried DEF ListFiles, At
      <4>2. files \ task[t].known \in SUBSET Photos /\ logoFiles \ {task[t].logo} \in SUBSET Extensions
        OBVIOUS
      <4>3. task' \in [Tasks -> Task]
        BY <3>2, <4>1, <4>2, Makes, TaskTyped DEF ListFiles
      <4>4. QED
        BY <3>2, <4>3 DEF ListFiles, photoVars, logoVars
    <3>3. CASE RemoveOrphans(t)
      <4>1. task' \in [Tasks -> Task]
        BY <3>3, Makes, TaskTyped DEF RemoveOrphans, End
      <4>2. files' \subseteq files /\ logoFiles' \subseteq logoFiles /\ temps' \subseteq temps
        BY <3>3 DEF RemoveOrphans
      <4>3. crashes' \in 0..MaxCrashes
        BY <3>3 DEF RemoveOrphans, Fault
      <4>4. QED
        BY <3>3, <4>1, <4>2, <4>3 DEF RemoveOrphans
    <3>4. QED
      BY <2>2, <3>1, <3>2, <3>3 DEF CleanUp
  <2>3. ASSUME NEW t \in Tasks, SaveSettings(t) PROVE TypeOK'
    <3>1. ASSUME NEW want \in Logos, LoadCompany(t, want) PROVE TypeOK'
      <4>1. task' \in [Tasks -> Task]
        BY <3>1, Makes, TaskTyped DEF LoadCompany
      <4>2. QED
        BY <3>1, <4>1 DEF LoadCompany, Overlap, photoVars
    <3>2. ASSUME NEW a \in {"staged", "saved", "replaced"}, Saving(t), Step(t, a)
          PROVE  task' \in [Tasks -> Task]
      <4>1. task[t].seen \in Logos /\ task[t].want \in Logos
        BY <3>2, Carried DEF Saving
      <4>2. QED
        BY <3>2, <4>1, Makes, TaskTyped DEF Step
    <3>3. ASSUME End(t) PROVE task' \in [Tasks -> Task]
      BY <3>3, Makes, TaskTyped DEF End
    <3>4. CASE StageLogo(t)
      BY <3>4, <3>2 DEF StageLogo, Saving, At, photoVars
    <3>5. CASE StageFails(t)
      BY <3>5, <3>3 DEF StageFails, Fault, photoVars
    <3>6. CASE RefuseSignature(t)
      BY <3>6, <3>3 DEF RefuseSignature, Abandoned, photoVars
    <3>7. CASE SaveCompany(t)
      <4>1. task[t].want \in Logos
        BY <3>7, Carried DEF SaveCompany, At
      <4>2. QED
        BY <3>7, <3>2, <4>1 DEF SaveCompany, Saving, At, photoVars
    <3>8. CASE SaveFails(t)
      BY <3>8, <3>3 DEF SaveFails, CommitFails, Fault, Abandoned, photoVars
    <3>9. CASE DeleteLogo(t) \/ RemoveOldLogo(t)
      <4>1. logoFiles' \subseteq logoFiles /\ clash' \in BOOLEAN /\ crashes' \in 0..MaxCrashes
        <5>1. PICK old : RemoveLogos(old)
          BY <3>9 DEF DeleteLogo, RemoveOldLogo
        <5>2. logoFiles' \subseteq logoFiles
          BY <5>1 DEF RemoveLogos
        <5>3. clash' \in BOOLEAN
          <6>1. clash' = clash \/ clash' = TRUE
            BY <5>1, Zenon DEF RemoveLogos
          <6>2. QED
            BY <6>1, Zenon
        <5>4. crashes' \in 0..MaxCrashes
          <6>1. crashes' = crashes \/ Fault
            BY <5>1, Zenon DEF RemoveLogos
          <6>2. QED
            BY <6>1 DEF Fault
        <5>5. QED
          BY <5>2, <5>3, <5>4
      <4>2. QED
        BY <3>9, <3>3, <4>1 DEF DeleteLogo, RemoveOldLogo, photoVars
    <3>10. CASE ReplaceLogo(t)
      <4>1. task[t].want \in Extensions
        BY <3>10, Carried DEF ReplaceLogo, At, Logos
      <4>2. task' \in [Tasks -> Task]
        BY <3>10, <3>2 DEF ReplaceLogo, Saving, At
      <4>3. QED
        BY <3>10, <4>1, <4>2 DEF ReplaceLogo, photoVars
    <3>11. CASE ReplaceFails(t)
      <4>1. clash' \in BOOLEAN
        <5>1. clash' = clash \/ clash' = TRUE
          BY <3>11, Zenon DEF ReplaceFails
        <5>2. QED
          BY <5>1, Zenon
      <4>2. crashes' \in 0..MaxCrashes
        <5>1. crashes' = crashes \/ Fault
          BY <3>11, Zenon DEF ReplaceFails
        <5>2. QED
          BY <5>1 DEF Fault
      <4>3. temps' \subseteq Tasks \union {None}
        BY <3>11 DEF ReplaceFails, Abandoned
      <4>4. task' \in [Tasks -> Task] /\ loop' = None /\ UNCHANGED <<photoVars, logo, logoFiles, failures>>
        BY <3>11, <3>3 DEF ReplaceFails
      <4>5. QED
        BY <4>1, <4>2, <4>3, <4>4 DEF photoVars
    <3>12. QED
      BY <2>3, <3>1, <3>4, <3>5, <3>6, <3>7, <3>8, <3>9, <3>10, <3>11 DEF SaveSettings
  <2>4. ASSUME NEW t \in Tasks, Restore(t) PROVE TypeOK'
    <3>1. ASSUME NEW R \in SUBSET stored, NEW l \in Logos, SwapDatabase(t, R, l) PROVE TypeOK'
      <4>1. ASSUME NEW u \in Tasks, At(u, "deleted")
            PROVE  [at |-> "deleted", photo |-> task[u].photo, restored |-> TRUE] \in Task
        BY <4>1, Carried, Makes DEF At
      <4>2. [at |-> "swapping", photos |-> Named(R), logo |-> l] \in Task
        <5>1. Named(R) \in SUBSET Photos
          BY DEF Named
        <5>2. QED
          BY <5>1, Makes
      <4>3. task' \in [Tasks -> Task]
        BY <3>1, <4>1, <4>2 DEF SwapDatabase
      <4>4. QED
        BY <3>1, <4>3 DEF SwapDatabase, Overlap
    <3>2. CASE SwapUploads(t)
      <4>1. task[t].photos \subseteq drawn /\ task[t].logo \in Logos
        BY <3>2, Carried DEF SwapUploads, At, FilesInv, Swapping
      <4>2. task' \in [Tasks -> Task]
        BY <3>2, Makes, TaskTyped DEF SwapUploads, End
      <4>3. QED
        BY <3>2, <4>1, <4>2 DEF SwapUploads, Logos
    <3>3. QED
      BY <2>4, <3>1, <3>2 DEF Restore
  <2>5. CASE Crash
    BY <2>5, Makes DEF Crash, Fault, photoVars
  <2>6. CASE UNCHANGED vars
    BY <2>6 DEF vars, photoVars, logoVars
  <2>7. QED
    BY <2>1, <2>2, <2>3, <2>4, <2>5, <2>6 DEF Next
<1>3. QED
  BY <1>1, <1>2, FilesInvariant, PTL DEF Spec
-----------------------------------------------------------------------------

Pending(t) == task[t].at \in {"written", "deleted"}

(* A file without a row is a photo some request still has in hand, or one  *)
(* whose row was deleted for another's; after the first half of a restore  *)
(* the rows are those the second half brings the files of.                 *)
Known ==
  ~torn /\ crashes = 0 =>
    /\ \A t \in Tasks : At(t, "swapping") =>
         /\ Named(rows) = task[t].photos
         /\ \A u \in Tasks : task[u].at \notin {"deleting", "deleted"}
    /\ (\A t \in Tasks : ~At(t, "swapping")) =>
         \A p \in files \ (Named(rows) \union strays) :
           \E t \in Tasks : Pending(t) /\ task[t].photo = p

(* One of those who look at the logo is alone, as long as none has met     *)
(* another.                                                                *)
Busy(t) == Saving(t) \/ Cleaning(t) \/ At(t, "swapping")
Alone == \A t, u \in Tasks : Busy(t) /\ Busy(u) => t = u

(* What each of them knows of the logo then.                               *)
Knows(t) ==
  /\ task[t].at \in {"loaded", "staged"} => task[t].seen = logo
  /\ task[t].at \in {"staged", "saved"} /\ task[t].want # None => t \in temps
  /\ task[t].at \in {"saved", "replaced"} => task[t].want = logo
  /\ At(t, "replaced") => logo \in logoFiles /\ logo # None
  /\ task[t].at \in {"swapping", "checking"} => task[t].logo = logo
  /\ At(t, "cleaning") => task[t].stray = {}

LogoInv ==
  ~clash =>
    /\ Alone
    /\ \A t \in Tasks : Knows(t)
    /\ (\A t \in Tasks : task[t].at \notin {"saved", "replaced", "swapping"}) =>
         logoFiles = {logo} \ {None}

(* Steps that touch neither photos nor a request that has one in hand.     *)
LEMMA KnownStays ==
  ASSUME Known, FilesInv, NEW t \in Tasks, NEW r, Goto(t, r),
         ~Pending(t), task[t].at # "swapping",
         r.at \notin {"written", "deleted", "swapping"},
         r.at = "deleting" => loop = None,
         UNCHANGED <<rows, strays, torn>>, files' \subseteq files, crashes' = 0 => crashes = 0
  PROVE  Known'
<1> USE FilesAssumption
<1>1. task'[t] = r /\ \A u \in Tasks \ {t} : task'[u] = task[u]
  BY DEF Goto, FilesInv, Shape
<1>2. SUFFICES ASSUME ~torn, crashes' = 0, crashes = 0 PROVE Known'
  BY DEF Known
<1>3. ASSUME NEW s \in Tasks, At(s, "swapping")'
      PROVE  Named(rows') = task'[s].photos /\ \A u \in Tasks : task'[u].at \notin {"deleting", "deleted"}
  <2>1. s # t /\ At(s, "swapping")
    BY <1>1, <1>3 DEF At
  <2>2. loop # None
    BY <2>1 DEF FilesInv, Swapping
  <2>3. QED
    BY <1>1, <1>2, <2>1, <2>2 DEF Known, At
<1>4. ASSUME \A s \in Tasks : ~At(s, "swapping")', NEW p \in files' \ (Named(rows') \union strays')
      PROVE  \E u \in Tasks : Pending(u)' /\ task'[u].photo = p
  <2>1. \A s \in Tasks : ~At(s, "swapping")
    BY <1>1, <1>4 DEF At
  <2>2. PICK u \in Tasks : Pending(u) /\ task[u].photo = p
    BY <1>2, <1>4, <2>1 DEF Known
  <2>3. QED
    BY <1>1, <2>2 DEF Pending
<1>5. QED
  BY <1>3, <1>4 DEF Known

(* A request that lets its photo go has stored its row or removed its file.*)
LEMMA KnownEnds ==
  ASSUME Known, FilesInv, NEW t \in Tasks, End(t), Pending(t), UNCHANGED <<strays, torn>>,
         crashes' = 0 => crashes = 0,
         rows \subseteq rows',
         crashes' = 0 => files' \subseteq (files \ {task[t].photo}) \union Named(rows')
  PROVE  Known'
<1>1. task'[t] = Idle /\ \A u \in Tasks \ {t} : task'[u] = task[u]
  BY DEF End, Goto, FilesInv, Shape
<1>2. SUFFICES ASSUME ~torn, crashes' = 0, crashes = 0 PROVE Known'
  BY DEF Known
<1>3. ASSUME NEW s \in Tasks, At(s, "swapping")' PROVE FALSE
  <2>1. s # t /\ At(s, "swapping")
    BY <1>1, <1>3 DEF At, Idle
  <2>2. task[t].at # "deleted"
    BY <1>2, <2>1 DEF Known
  <2>3. loop = t /\ loop = s
    BY <2>1, <2>2 DEF FilesInv, Swapping, Written, Pending, At
  <2>4. QED
    BY <2>1, <2>3
<1>4. ASSUME NEW p \in files' \ (Named(rows') \union strays')
      PROVE  \E u \in Tasks : Pending(u)' /\ task'[u].photo = p
  <2>1. \A s \in Tasks : ~At(s, "swapping")
    BY <1>1, <1>3 DEF At, Pending
  <2>2. p \in files /\ p # task[t].photo /\ p \notin Named(rows) \union strays
    BY <1>2, <1>4 DEF Named
  <2>3. PICK u \in Tasks : Pending(u) /\ task[u].photo = p
    BY <1>2, <2>1, <2>2 DEF Known
  <2>4. QED
    BY <1>1, <2>2, <2>3 DEF Pending
<1>5. QED
  BY <1>3, <1>4 DEF Known

(* Every step keeps it: a file whose row a deletion takes away stays with   *)
(* the request that will remove it.                                        *)
LEMMA KnownStep == Known /\ TypeOK /\ FilesInv /\ [Next]_vars => Known'
<1> SUFFICES ASSUME Known, TypeOK, FilesInv, [Next]_vars PROVE Known'
  OBVIOUS
<1> USE FilesAssumption
<1>1. crashes \in Nat
  BY DEF TypeOK
<1>2. ASSUME NEW t \in Tasks, Photograph(t) PROVE Known'
  <2>1. ASSUME NEW p \in Photos, WritePhoto(t, p) PROVE Known'
    <3>1. /\ task'[t] = [at |-> "written", photo |-> p] /\ \A u \in Tasks \ {t} : task'[u] = task[u]
      BY <2>1 DEF WritePhoto, Goto, FilesInv, Shape
    <3>2. /\ loop = None /\ At(t, "idle") /\ UNCHANGED <<rows, strays, torn, crashes>>
          /\ files' = files \union {p}
      BY <2>1 DEF WritePhoto, Begins
    <3>3. \A s \in Tasks : ~At(s, "swapping") /\ ~At(s, "swapping")'
      BY <3>1, <3>2 DEF FilesInv, Swapping, At
    <3>4. ASSUME NEW q \in files' \ (Named(rows') \union strays'), ~torn, crashes = 0
          PROVE  \E u \in Tasks : Pending(u)' /\ task'[u].photo = q
      <4>1. CASE q = p
        BY <3>1, <4>1 DEF Pending
      <4>2. CASE q # p
        <5>1. PICK u \in Tasks : Pending(u) /\ task[u].photo = q
          BY <3>2, <3>3, <3>4, <4>2 DEF Known
        <5>2. QED
          BY <3>1, <3>2, <5>1 DEF Pending, At
      <4>3. QED
        BY <4>1, <4>2
    <3>5. QED
      BY <3>2, <3>3, <3>4 DEF Known
  <2>2. CASE \E p \in Photos : WriteFails(t, p)
    BY <1>1, <2>2 DEF WriteFails, Fault, Known
  <2>3. CASE \E x \in rows : ReadPhoto(t, x)
    <3>1. PICK x \in rows : Goto(t, [at |-> "deleting", id |-> x.id, photo |-> x.photo])
      BY <2>3 DEF ReadPhoto
    <3>2. /\ ~Pending(t) /\ task[t].at # "swapping" /\ loop = None
          /\ UNCHANGED <<rows, strays, torn, crashes, files>>
      BY <2>3 DEF ReadPhoto, Begins, Pending, At, photoVars
    <3>3. QED
      BY <3>1, <3>2, KnownStays
  <2>4. CASE CommitPhoto(t)
    <3>1. PICK i \in NextId : rows' = rows \union {[id |-> i, photo |-> task[t].photo]}
      BY <2>4 DEF CommitPhoto
    <3>2. task[t].photo \in Named(rows')
      <4>1. [id |-> i, photo |-> task[t].photo].photo = task[t].photo
        OBVIOUS
      <4>2. [id |-> i, photo |-> task[t].photo] \in rows'
        BY <3>1
      <4>3. QED
        BY <4>1, <4>2, Zenon DEF Named
    <3>3. QED
      BY <2>4, <3>1, <3>2, KnownEnds DEF CommitPhoto, Pending, At
  <2>5. CASE CommitPhotoFails(t)
    <3>1. crashes' = 0 => crashes = 0 /\ files' = files \ {task[t].photo}
      BY <1>1, <2>5 DEF CommitPhotoFails, Fault
    <3>2. QED
      BY <2>5, <3>1, KnownEnds DEF CommitPhotoFails, Pending, At
  <2>6. CASE CommitDeletion(t)
    <3> DEFINE gone == {x \in rows : x.id = task[t].id}
    <3>1. /\ task'[t] = [at |-> "deleted", photo |-> task[t].photo, restored |-> FALSE]
          /\ \A u \in Tasks \ {t} : task'[u] = task[u]
      BY <2>6 DEF CommitDeletion, Goto, FilesInv, Shape
    <3>2. /\ At(t, "deleting") /\ UNCHANGED <<files, torn, crashes>>
          /\ rows' = rows \ gone /\ strays' = strays \union (Named(gone) \ {task[t].photo})
      BY <2>6 DEF CommitDeletion
    <3>3. ASSUME ~torn, crashes = 0 PROVE \A s \in Tasks : ~At(s, "swapping") /\ ~At(s, "swapping")'
      BY <3>1, <3>2, <3>3 DEF Known, At
    <3>4. Named(rows) \subseteq Named(rows') \union Named(gone)
      BY <3>2 DEF Named
    <3>5. ASSUME NEW q \in files' \ (Named(rows') \union strays'), ~torn, crashes = 0
          PROVE  \E u \in Tasks : Pending(u)' /\ task'[u].photo = q
      <4>1. CASE q = task[t].photo
        BY <3>1, <4>1 DEF Pending
      <4>2. CASE q # task[t].photo
        <5>1. q \in files \ (Named(rows) \union strays)
          BY <3>2, <3>4, <3>5, <4>2
        <5>2. PICK u \in Tasks : Pending(u) /\ task[u].photo = q
          BY <3>3, <3>5, <5>1 DEF Known
        <5>3. QED
          BY <3>1, <3>2, <5>2 DEF Pending, At
      <4>3. QED
        BY <4>1, <4>2
    <3>6. QED
      BY <3>2, <3>3, <3>5 DEF Known
  <2>7. CASE DeletionFails(t)
    BY <2>7, KnownStays DEF DeletionFails, End, Idle, Pending, At, photoVars
  <2>8. CASE RemovePhoto(t)
    <3>1. crashes' = 0 => crashes = 0 /\ files' = files \ {task[t].photo}
      BY <1>1, <2>8 DEF RemovePhoto, Fault
    <3>2. QED
      BY <2>8, <3>1, KnownEnds DEF RemovePhoto, Pending, At
  <2>9. QED
    BY <1>2, <2>1, <2>2, <2>3, <2>4, <2>5, <2>6, <2>7, <2>8 DEF Photograph
<1>3. ASSUME NEW t \in Tasks, CleanUp(t) \/ SaveSettings(t) PROVE Known'
  <2>1. /\ UNCHANGED <<rows, strays, torn>> /\ files' \subseteq files
        /\ task[t].at \in {"idle", "checking", "cleaning", "loaded", "staged", "saved", "replaced"}
    <3>1. CASE CleanUp(t)
      BY <3>1 DEF CleanUp, ReadRows, ListFiles, RemoveOrphans, Begins, At, photoVars
    <3>2. CASE SaveSettings(t)
      BY <3>2 DEF SaveSettings, LoadCompany, StageLogo, StageFails, RefuseSignature, SaveCompany,
                  SaveFails, DeleteLogo, ReplaceLogo, ReplaceFails, RemoveOldLogo, Begins, At, photoVars
    <3>3. QED
      BY <1>3, <3>1, <3>2
  <2>2. crashes' = crashes \/ Fault
    BY <1>3, Zenon DEF CleanUp, ReadRows, ListFiles, RemoveOrphans, SaveSettings, LoadCompany, StageLogo,
                       StageFails, RefuseSignature, SaveCompany, SaveFails, DeleteLogo, ReplaceLogo,
                       ReplaceFails, RemoveOldLogo, RemoveLogos
  <2>3. crashes' = 0 => crashes = 0
    BY <1>1, <2>2 DEF Fault
  <2>4. PICK r : /\ Goto(t, r)
                 /\ r.at \in {"idle", "checking", "cleaning", "loaded", "staged", "saved", "replaced"}
    <3>1. CASE CleanUp(t)
      BY <3>1 DEF CleanUp, ReadRows, ListFiles, RemoveOrphans, End, Idle
    <3>2. CASE \E want \in Logos : LoadCompany(t, want)
      <4>1. PICK want \in Logos : Goto(t, [at |-> "loaded", seen |-> logo, want |-> want])
        BY <3>2 DEF LoadCompany
      <4>2. QED
        BY <4>1
    <3>3. CASE StageLogo(t) \/ SaveCompany(t) \/ ReplaceLogo(t)
      BY <3>3 DEF StageLogo, SaveCompany, ReplaceLogo, Step
    <3>4. CASE StageFails(t) \/ RefuseSignature(t) \/ SaveFails(t) \/ DeleteLogo(t)
               \/ ReplaceFails(t) \/ RemoveOldLogo(t)
      BY <3>4 DEF StageFails, RefuseSignature, SaveFails, DeleteLogo, ReplaceFails, RemoveOldLogo, End, Idle
    <3>5. QED
      BY <1>3, <3>1, <3>2, <3>3, <3>4 DEF SaveSettings
  <2>5. QED
    BY <2>1, <2>3, <2>4, KnownStays DEF Pending
<1>4. ASSUME NEW t \in Tasks, Restore(t) PROVE Known'
  <2>1. ASSUME NEW R \in SUBSET stored, NEW l \in Logos, SwapDatabase(t, R, l) PROVE Known'
    <3>1. task'[t] = [at |-> "swapping", photos |-> Named(R), logo |-> l] /\ rows' = R
      BY <2>1 DEF SwapDatabase, FilesInv, Shape
    <3>2. torn' = (torn \/ \E u \in Tasks : task[u].at \in {"deleting", "deleted"})
      BY <2>1 DEF SwapDatabase
    <3>3. \A u \in Tasks \ {t} : task[u].at # "deleted" => task'[u] = task[u]
      BY <2>1 DEF SwapDatabase, At
    <3>4. \A u \in Tasks : task[u].at # "swapping"
      BY <2>1 DEF SwapDatabase, Begins, FilesInv, Swapping, At
    <3>5. ASSUME ~torn' PROVE \A u \in Tasks \ {t} : /\ task'[u].at \notin {"swapping", "deleting", "deleted"}
      BY <3>2, <3>3, <3>4, <3>5
    <3>6. QED
      BY <3>1, <3>5 DEF Known, At
  <2>2. CASE SwapUploads(t)
    <3>1. /\ task'[t] = Idle /\ \A u \in Tasks \ {t} : task'[u] = task[u]
          /\ At(t, "swapping") /\ UNCHANGED <<rows, torn, crashes>> /\ files' = task[t].photos
      BY <2>2 DEF SwapUploads, End, Goto, FilesInv, Shape
    <3>2. \A s \in Tasks : ~At(s, "swapping")'
      BY <3>1 DEF FilesInv, Swapping, At, Idle
    <3>3. QED
      BY <3>1, <3>2 DEF Known
  <2>3. QED
    BY <1>4, <2>1, <2>2 DEF Restore
<1>5. CASE Crash
  BY <1>1, <1>5 DEF Crash, Fault, Known
<1>6. CASE UNCHANGED vars
  BY <1>6 DEF vars, photoVars, Known, Pending, At
<1>7. QED
  BY <1>2, <1>3, <1>4, <1>5, <1>6 DEF Next

(* When no request is at work every photo file has its row: uploads whose  *)
(* commit fails, deletions, clean-ups and restores leave none behind,      *)
(* unless a crash, a file that cannot be written or removed or a restore   *)
(* amid a deletion came between, or a second deletion of one photo deleted *)
(* the row that had been given its id.                                     *)
THEOREM NoPhotoIsLeft == Spec => []NoOrphanPhotos
<1>1. Init => Known
  BY DEF Init, Known, At, Idle
<1>2. Known => NoOrphanPhotos
  BY DEF Known, NoOrphanPhotos, Quiet, Pending, At
<1>3. QED
  BY <1>1, <1>2, KnownStep, FilesInvariant, FilesTypeCorrect, PTL DEF Spec

-----------------------------------------------------------------------------

(* What a step must leave of the request that looks at the logo, when the  *)
(* others do not.                                                          *)
LEMMA LogoByOne ==
  ASSUME NEW t \in Tasks, \A u \in Tasks \ {t} : ~Busy(u)', Knows(t)',
         task'[t].at \notin {"saved", "replaced", "swapping"} => logoFiles' = {logo'} \ {None}
  PROVE  LogoInv'
<1>1. Alone'
  BY DEF Alone
<1>2. \A u \in Tasks : Knows(u)'
  BY DEF Knows, Busy, Saving, Cleaning, At
<1>3. QED
  BY <1>1, <1>2 DEF LogoInv

(* Every step keeps LogoInv: whoever is at the logo is alone with it, and  *)
(* what it reads of the row and the directory stays so until it writes.    *)
LEMMA LogoStep == LogoInv /\ TypeOK /\ FilesInv /\ [Next]_vars => LogoInv'
<1> SUFFICES ASSUME LogoInv, TypeOK, FilesInv, [Next]_vars PROVE LogoInv'
  OBVIOUS
<1> USE FilesAssumption
<1>1. ASSUME NEW t \in Tasks, NEW r, Goto(t, r)
      PROVE  task'[t] = r /\ \A u \in Tasks \ {t} : task'[u] = task[u]
  BY <1>1 DEF Goto, FilesInv, Shape
<1>2. ASSUME NEW t \in Tasks, NEW r, Goto(t, r), Busy(t), ~clash
      PROVE  \A u \in Tasks \ {t} : ~Busy(u)'
  BY <1>1, <1>2 DEF LogoInv, Alone, Busy, Saving, Cleaning, At
<1>3. ASSUME NEW t \in Tasks, Begins(t), Overlap(t), ~clash'
      PROVE  /\ ~clash /\ logoFiles = {logo} \ {None}
             /\ \A u \in Tasks \ {t} : ~Busy(u)
  <2>1. ~clash /\ \A u \in Tasks \ {t} : ~Saving(u) /\ ~Cleaning(u)
    BY <1>3 DEF Overlap
  <2>2. \A u \in Tasks : task[u].at \notin {"saved", "replaced", "swapping"}
    BY <1>3 DEF Begins, FilesInv, Swapping, Saved, At
  <2>3. QED
    BY <2>1, <2>2 DEF LogoInv, Busy, At
<1>4. ASSUME NEW t \in Tasks, Photograph(t) PROVE LogoInv'
  <2>1. PICK r : Goto(t, r) /\ r.at \in {"idle", "written", "deleting", "deleted"}
    <3>1. CASE \E p \in Photos : WritePhoto(t, p)
      <4>1. PICK p \in Photos : Goto(t, [at |-> "written", photo |-> p])
        BY <3>1 DEF WritePhoto
      <4>2. QED
        BY <4>1
    <3>2. CASE \E x \in rows : ReadPhoto(t, x)
      <4>1. PICK x \in rows : Goto(t, [at |-> "deleting", id |-> x.id, photo |-> x.photo])
        BY <3>2 DEF ReadPhoto
      <4>2. QED
        BY <4>1
    <3>3. CASE CommitDeletion(t)
      BY <3>3 DEF CommitDeletion
    <3>4. CASE (\E p \in Photos : WriteFails(t, p)) \/ CommitPhoto(t) \/ CommitPhotoFails(t)
               \/ DeletionFails(t) \/ RemovePhoto(t)
      BY <3>4 DEF WriteFails, CommitPhoto, CommitPhotoFails, DeletionFails, RemovePhoto, End, Idle
    <3>5. QED
      BY <1>4, <3>1, <3>2, <3>3, <3>4 DEF Photograph
  <2>2. UNCHANGED <<logo, logoFiles, temps, clash>> /\ task[t].at \in {"idle", "written", "deleting", "deleted"}
    BY <1>4 DEF Photograph, WritePhoto, WriteFails, ReadPhoto, CommitPhoto, CommitPhotoFails, CommitDeletion,
                DeletionFails, RemovePhoto, Begins, At, logoVars
  <2>3. task'[t] = r /\ \A u \in Tasks \ {t} : task'[u] = task[u]
    BY <1>1, <2>1
  <2>4. QED
    BY <2>1, <2>2, <2>3 DEF LogoInv, Alone, Knows, Busy, Saving, Cleaning, At
<1>5. ASSUME NEW t \in Tasks, CleanUp(t) PROVE LogoInv'
  <2> SUFFICES ASSUME ~clash' PROVE LogoInv'
    BY DEF LogoInv
  <2>1. CASE ReadRows(t)
    <3>1. ~clash /\ logoFiles = {logo} \ {None} /\ \A u \in Tasks \ {t} : ~Busy(u)
      BY <1>3, <2>1 DEF ReadRows
    <3>2. /\ task'[t] = [at |-> "checking", known |-> Named(rows), logo |-> logo]
          /\ \A u \in Tasks \ {t} : task'[u] = task[u]
          /\ UNCHANGED <<logo, logoFiles>>
      BY <1>1, <2>1 DEF ReadRows
    <3>3. QED
      BY <3>1, <3>2, LogoByOne DEF Knows, Busy, Saving, Cleaning, At
  <2>2. CASE ListFiles(t)
    <3>1. ~clash /\ UNCHANGED <<logo, logoFiles>> /\ At(t, "checking") /\ Busy(t)
      BY <2>2 DEF ListFiles, logoVars, Busy, Cleaning, At
    <3>2. task'[t] = [at |-> "cleaning", known |-> task[t].known, orphans |-> files \ task[t].known,
                      temps |-> temps, stray |-> logoFiles \ {task[t].logo}]
      BY <1>1, <2>2 DEF ListFiles
    <3>3. \A u \in Tasks \ {t} : ~Busy(u)'
      BY <1>2, <2>2, <3>1 DEF ListFiles
    <3>4. \A u \in Tasks : task[u].at \notin {"saved", "replaced", "swapping"}
      BY <3>1 DEF LogoInv, Alone, Busy, Saving, At
    <3>5. logoFiles = {logo} \ {None} /\ task[t].logo = logo
      BY <3>1, <3>4 DEF LogoInv, Knows, At
    <3>6. QED
      BY <3>1, <3>2, <3>3, <3>5, LogoByOne DEF Knows, At
  <2>3. CASE RemoveOrphans(t)
    <3>1. /\ ~clash /\ logo' = logo /\ At(t, "cleaning") /\ Busy(t)
          /\ \E o \in SUBSET task[t].stray : logoFiles' = logoFiles \ o
      BY <2>3 DEF RemoveOrphans, Busy, Cleaning, At
    <3>2. task'[t] = Idle
      BY <1>1, <2>3 DEF RemoveOrphans, End
    <3>3. \A u \in Tasks \ {t} : ~Busy(u)'
      BY <1>2, <2>3, <3>1 DEF RemoveOrphans, End
    <3>4. \A u \in Tasks : task[u].at \notin {"saved", "replaced", "swapping"}
      BY <3>1 DEF LogoInv, Alone, Busy, Saving, At
    <3>5. logoFiles = {logo} \ {None} /\ task[t].stray = {}
      BY <3>1, <3>4 DEF LogoInv, Knows
    <3>6. QED
      BY <3>1, <3>2, <3>3, <3>5, LogoByOne DEF Knows, At, Idle
  <2>4. QED
    BY <1>5, <2>1, <2>2, <2>3 DEF CleanUp
<1>6. ASSUME NEW t \in Tasks, SaveSettings(t) PROVE LogoInv'
  <2> SUFFICES ASSUME ~clash' PROVE LogoInv'
    BY DEF LogoInv
  <2>1. ASSUME NEW want \in Logos, LoadCompany(t, want) PROVE LogoInv'
    <3>1. ~clash /\ logoFiles = {logo} \ {None} /\ \A u \in Tasks \ {t} : ~Busy(u)
      BY <1>3, <2>1 DEF LoadCompany
    <3>2. /\ task'[t] = [at |-> "loaded", seen |-> logo, want |-> want]
          /\ \A u \in Tasks \ {t} : task'[u] = task[u]
          /\ UNCHANGED <<logo, logoFiles>>
      BY <1>1, <2>1 DEF LoadCompany
    <3>3. QED
      BY <3>1, <3>2, LogoByOne DEF Knows, Busy, Saving, Cleaning, At
  <2>2. ASSUME Saving(t), NEW r, Goto(t, r), clash' = clash
        PROVE  /\ ~clash /\ Knows(t) /\ task'[t] = r
               /\ \A u \in Tasks \ {t} : ~Busy(u)'
               /\ task[t].at \in {"loaded", "staged"} => logoFiles = {logo} \ {None}
    <3>1. Busy(t) /\ ~clash
      BY <2>2 DEF Busy
    <3>2. \A u \in Tasks \ {t} : task[u].at \notin {"saved", "replaced", "swapping"}
      BY <3>1 DEF LogoInv, Alone, Busy, Saving, At
    <3>3. QED
      BY <1>1, <1>2, <2>2, <3>1, <3>2 DEF LogoInv
  <2>3. CASE StageLogo(t)
    <3>1. task'[t] = [at |-> "staged", seen |-> task[t].seen, want |-> task[t].want]
      BY <2>2, <2>3 DEF StageLogo, Step, Saving, At
    <3>2. Knows(t) /\ logoFiles = {logo} \ {None} /\ \A u \in Tasks \ {t} : ~Busy(u)'
      BY <2>2, <2>3 DEF StageLogo, Step, Saving, At
    <3>3. QED
      BY <2>3, <3>1, <3>2, LogoByOne DEF StageLogo, Knows, At
  <2>4. CASE StageFails(t) \/ RefuseSignature(t) \/ SaveFails(t)
    <3>1. /\ task'[t] = Idle /\ logoFiles = {logo} \ {None}
          /\ \A u \in Tasks \ {t} : ~Busy(u)'
      BY <2>2, <2>4 DEF StageFails, RefuseSignature, SaveFails, End, Saving, At
    <3>2. UNCHANGED <<logo, logoFiles>>
      BY <2>4 DEF StageFails, RefuseSignature, SaveFails
    <3>3. QED
      BY <3>1, <3>2, LogoByOne DEF Knows, At, Idle
  <2>5. CASE SaveCompany(t)
    <3>1. task'[t] = [at |-> "saved", seen |-> task[t].seen, want |-> task[t].want]
      BY <2>2, <2>5 DEF SaveCompany, Step, Saving, At
    <3>2. Knows(t) /\ \A u \in Tasks \ {t} : ~Busy(u)'
      BY <2>2, <2>5 DEF SaveCompany, Step, Saving, At
    <3>3. logo' = task[t].want /\ temps' = temps
      BY <2>5, <3>2 DEF SaveCompany, Knows, At
    <3>4. QED
      BY <2>5, <3>1, <3>2, <3>3, LogoByOne DEF SaveCompany, Knows, At
  <2>6. ASSUME NEW old, RemoveLogos(old) PROVE logoFiles' = logoFiles \ old /\ clash' = clash
    BY <2>6, Zenon DEF RemoveLogos
  <2>7. CASE DeleteLogo(t)
    <3>1. logoFiles' = logoFiles \ Extensions /\ clash' = clash
      BY <2>6, <2>7 DEF DeleteLogo
    <3>2. task'[t] = Idle /\ Knows(t) /\ \A u \in Tasks \ {t} : ~Busy(u)'
      BY <2>2, <2>7, <3>1 DEF DeleteLogo, End, Saving, At
    <3>3. logo' = None /\ logoFiles' = {}
      BY <2>7, <3>1, <3>2 DEF DeleteLogo, Knows, At, TypeOK
    <3>4. QED
      BY <3>2, <3>3, LogoByOne DEF Knows, At, Idle
  <2>8. CASE ReplaceLogo(t)
    <3>1. task'[t] = [at |-> "replaced", seen |-> task[t].seen, want |-> task[t].want]
      BY <2>2, <2>8 DEF ReplaceLogo, Step, Saving, At
    <3>2. Knows(t) /\ \A u \in Tasks \ {t} : ~Busy(u)'
      BY <2>2, <2>8 DEF ReplaceLogo, Step, Saving, At
    <3>3. logo' = logo /\ logo = task[t].want /\ logo # None
      BY <2>8, <3>2 DEF ReplaceLogo, Knows, At
    <3>4. logoFiles' = logoFiles \union {logo}
      BY <2>8, <3>3 DEF ReplaceLogo
    <3>5. QED
      BY <3>1, <3>2, <3>3, <3>4, LogoByOne DEF Knows, At
  <2>9. CASE ReplaceFails(t)
    <3>1. t \notin temps /\ clash' = clash
      BY <2>9, Zenon DEF ReplaceFails
    <3>2. Knows(t)
      BY <2>2, <2>9, <3>1 DEF ReplaceFails, End, Saving, At
    <3>3. QED
      BY <2>9, <3>1, <3>2 DEF ReplaceFails, Knows, At
  <2>10. CASE RemoveOldLogo(t)
    <3>1. logoFiles' = logoFiles \ (Extensions \ {task[t].want}) /\ clash' = clash
      BY <2>6, <2>10 DEF RemoveOldLogo
    <3>2. task'[t] = Idle /\ Knows(t) /\ \A u \in Tasks \ {t} : ~Busy(u)'
      BY <2>2, <2>10, <3>1 DEF RemoveOldLogo, End, Saving, At
    <3>3. logo' = logo /\ logoFiles' = {logo} /\ logo # None
      BY <2>10, <3>1, <3>2 DEF RemoveOldLogo, Knows, At, TypeOK
    <3>4. QED
      BY <3>2, <3>3, LogoByOne DEF Knows, At, Idle
  <2>11. QED
    BY <1>6, <2>1, <2>3, <2>4, <2>5, <2>7, <2>8, <2>9, <2>10 DEF SaveSettings
<1>7. ASSUME NEW t \in Tasks, Restore(t) PROVE LogoInv'
  <2> SUFFICES ASSUME ~clash' PROVE LogoInv'
    BY DEF LogoInv
  <2>1. ASSUME NEW R \in SUBSET stored, NEW l \in Logos, SwapDatabase(t, R, l) PROVE LogoInv'
    <3>1. task'[t] = [at |-> "swapping", photos |-> Named(R), logo |-> l] /\ logo' = l
      BY <2>1 DEF SwapDatabase
    <3>2. \A u \in Tasks \ {t} : ~Busy(u)
      BY <1>3, <2>1 DEF SwapDatabase
    <3>3. \A u \in Tasks \ {t} : task'[u].at = task[u].at
      BY <2>1 DEF SwapDatabase, At
    <3>4. QED
      BY <3>1, <3>2, <3>3, LogoByOne DEF Knows, Busy, Saving, Cleaning, At
  <2>2. CASE SwapUploads(t)
    <3>1. ~clash /\ Busy(t) /\ Knows(t) /\ At(t, "swapping")
      BY <2>2 DEF SwapUploads, Busy, LogoInv
    <3>2. task'[t] = Idle /\ \A u \in Tasks \ {t} : ~Busy(u)'
      BY <1>1, <1>2, <2>2, <3>1 DEF SwapUploads, End
    <3>3. logo' = logo /\ logoFiles' = {logo} \ {None}
      BY <2>2, <3>1 DEF SwapUploads, Knows, At
    <3>4. QED
      BY <3>2, <3>3, LogoByOne DEF Knows, At, Idle
  <2>3. QED
    BY <1>7, <2>1, <2>2 DEF Restore
<1>8. CASE Crash
  <2> SUFFICES ASSUME ~clash' PROVE LogoInv'
    BY DEF LogoInv
  <2>1. ~clash /\ \A t \in Tasks : ~Saving(t) /\ ~At(t, "swapping")
    BY <1>8 DEF Crash
  <2>2. logoFiles = {logo} \ {None}
    BY <2>1 DEF LogoInv, Saving, At
  <2>3. UNCHANGED <<logo, logoFiles>> /\ \A t \in Tasks : task'[t] = Idle
    BY <1>8 DEF Crash
  <2>4. QED
    BY <2>2, <2>3 DEF LogoInv, Alone, Knows, Busy, Saving, Cleaning, At, Idle
<1>9. CASE UNCHANGED vars
  BY <1>9 DEF vars, logoVars, LogoInv, Alone, Knows, Busy, Saving, Cleaning, At
<1>10. QED
  BY <1>4, <1>5, <1>6, <1>7, <1>8, <1>9 DEF Next

(* Between saves the settings name the one logo file there is, however     *)
(* often the logo is replaced, removed or restored, as long as no save has *)
(* met another, a clean-up, a restore, a crash or a file that cannot be    *)
(* replaced or removed.                                                    *)
THEOREM LogoIsThere == Spec => []LogoHasItsFile
<1>1. Init => LogoInv
  BY DEF Init, LogoInv, Alone, Knows, Busy, Saving, Cleaning, At, Idle
<1>2. LogoInv => LogoHasItsFile
  BY DEF LogoInv, LogoHasItsFile, Saving, At
<1>3. QED
  BY <1>1, <1>2, LogoStep, FilesInvariant, FilesTypeCorrect, PTL DEF Spec
=============================================================================
