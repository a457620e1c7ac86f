------------------------- MODULE PlacePhotosProofs --------------------------
(***************************************************************************)
(* Proofs about PlacePhotos, for every number of photos, requests and runs  *)
(* of the cleanup, and for every crash and failure of the storage.          *)
(***************************************************************************)
EXTENDS PlacePhotos, TLAPS

(***************************************************************************)
(* The inductive invariant.                                                 *)
(***************************************************************************)
JobRecord == [step : Step, now : Time, unbound : SUBSET Asset, claimed : SUBSET Asset]

RowOK(r) ==
  /\ r \in RowType
  /\ r.status = "pending" <=> r.token # NoUpload
  /\ r.status = "pending" <=> r.lease # Never
  /\ r.status \in {"pending", "deleting"} => r.expires # Never

\* A token is the token of an upload of this photo.
TokensFit == \A a \in Asset : row[a].token # NoUpload => AssetOf[row[a].token] = a

\* Job j is about to delete the objects of photo a.
Deletes(j, a) == job[j].step = "objects" /\ a \in job[j].claimed

\* A job that has not lost its row has the objects it has put.
PutsKept ==
  \A u \in Upload : StillOwns(u) /\ AssetOf[u] \notin overlapped =>
    /\ job[u].step = "thumbnail" => "full" \in stored[AssetOf[u]]
    /\ job[u].step = "ready" => stored[AssetOf[u]] = Part

\* A photo whose objects a job is about to delete is on its way out, for good,
\* or one that was reserved anew and is known to overlap.
ClaimsAreFinal ==
  \A j \in Job, a \in Asset :
    Deletes(j, a) => row[a].status \in {"deleting", "absent"} \/ a \in overlapped

\* The binding makes a photo permanent.
BindingsArePermanent ==
  \A a \in Asset : bound[a] # {} => row[a].status = "ready" /\ row[a].expires = Never

ReadingsArePast == \A j \in Job : job[j].now <= clock

IInv ==
  /\ TypeOK
  /\ TokensFit
  /\ PutsKept
  /\ ClaimsAreFinal
  /\ BindingsArePermanent
  /\ ReadingsArePast
  /\ ReadyPhotosStored

(***************************************************************************)
(* Rows and jobs.                                                           *)
(***************************************************************************)
\* TypeOK, row by row.
Typed ==
  /\ clock \in Time
  /\ row \in [Asset -> RowType] /\ \A a \in Asset : RowOK(row[a])
  /\ stored \in [Asset -> SUBSET Part]
  /\ shown \in [Place -> (SUBSET Asset) \cup {{NoPlace}}]
  /\ bound \in [Asset -> SUBSET Place]
  /\ job \in [Job -> JobRecord]
  /\ faults \in 0..MaxFaults
  /\ overlapped \subseteq Asset

LEMMA TypeParts == TypeOK <=> Typed
BY DEF TypeOK, Typed, RowOK, JobRecord

LEMMA Constants ==
  /\ Lease \in Nat /\ Ttl \in Nat /\ MaxTime \in Nat /\ MaxFaults \in Nat
  /\ AssetOf \in [Upload -> Asset]
  /\ ActorOf \in [Upload \cup Discard -> Actor]
  /\ NoUpload \notin Upload /\ NoActor \notin Actor
  /\ Upload \subseteq Job
  /\ \A n \in Time : n \in Nat /\ n <= MaxTime
BY JobAssumption, TimeAssumption DEF Job, Time

\* The rows the code writes pass the check of the schema.
LEMMA RowsWritten ==
  /\ RowOK(Absent)
  /\ \A u \in Upload, n \in Time : RowOK(Pending(u, n))
  /\ \A r \in RowType : RowOK(r) => RowOK(Ready(r))
  /\ \A r \in RowType, n \in Time :
       RowOK(r) /\ r.status # "absent" => RowOK(Deleting(r, n))
  /\ \A r \in RowType :
       RowOK(r) /\ r.status = "ready" => RowOK([r EXCEPT !.expires = Never])
<1>1. RowOK(Absent)
  BY DEF RowOK, Absent, RowType, Never
<1>2. \A u \in Upload, n \in Time : RowOK(Pending(u, n))
  BY Constants DEF RowOK, Pending, RowType, Never
<1>3. \A r \in RowType : RowOK(r) => RowOK(Ready(r))
  BY DEF RowOK, Ready, RowType, Never
<1>4. \A r \in RowType, n \in Time :
        RowOK(r) /\ r.status # "absent" => RowOK(Deleting(r, n))
  <2> TAKE r \in RowType, n \in Time
  <2>1. n \in Nat BY Constants
  <2>2. Deleting(r, n) \in RowType BY <2>1 DEF Deleting, RowType
  <2>3. /\ Deleting(r, n).status = "deleting" /\ Deleting(r, n).token = NoUpload
        /\ Deleting(r, n).lease = Never /\ Deleting(r, n).expires = n
    BY DEF Deleting, RowType
  <2> QED BY <2>1, <2>2, <2>3 DEF RowOK, Never
<1>5. \A r \in RowType :
        RowOK(r) /\ r.status = "ready" => RowOK([r EXCEPT !.expires = Never])
  BY DEF RowOK, RowType, Never
<1> QED BY <1>1, <1>2, <1>3, <1>4, <1>5

LEMMA JobsWritten ==
  /\ \A j \in Job : Ended(j) \in JobRecord
  /\ Resting \in JobRecord
  /\ \A S \in SUBSET Asset :
       [Resting EXCEPT !.step = "objects", !.claimed = S] \in JobRecord
  /\ \A j \in JobRecord, s \in Step : [j EXCEPT !.step = s] \in JobRecord
<1>1. 0 \in Time BY Constants DEF Time
<1>2. Resting \in JobRecord BY <1>1 DEF Resting, JobRecord, Step
<1>3. \A j \in JobRecord, s \in Step : [j EXCEPT !.step = s] \in JobRecord
  BY DEF JobRecord
<1>4. \A S \in SUBSET Asset :
        [Resting EXCEPT !.step = "objects", !.claimed = S] \in JobRecord
  BY <1>1 DEF Resting, JobRecord, Step
<1>5. \A j \in Job : Ended(j) \in JobRecord
  BY <1>2, <1>3 DEF Ended, Step
<1> QED BY <1>2, <1>3, <1>4, <1>5

(***************************************************************************)
(* Every step keeps the types.                                              *)
(***************************************************************************)
LEMMA UploadTypes ==
  ASSUME Typed, NEW u \in Upload,
         BeginUpload(u) \/ UploadStep(u) \/ PutFails(u) \/ MarkFails(u)
  PROVE  Typed'
<1>. u \in Job /\ AssetOf[u] \in Asset BY Constants
<1>. USE DEF Typed
<1>1. CASE BeginUpload(u)
  BY <1>1 DEF BeginUpload, JobRecord, Step
<1>2. CASE Reserve(u)
  <2>1. job[u].now \in Time BY DEF JobRecord
  <2>2. RowOK(Pending(u, job[u].now)) BY <2>1, RowsWritten
  <2>3. Pending(u, job[u].now) \in RowType BY <2>2 DEF RowOK
  <2> QED BY <1>2, <2>2, <2>3, JobsWritten DEF Reserve, Go, Step
<1>3. CASE NotReserved(u)
  BY <1>3, JobsWritten DEF NotReserved, End
<1>4. CASE PutFull(u)
  BY <1>4, JobsWritten DEF PutFull, Go, Step, Part
<1>5. CASE PutThumbnail(u)
  BY <1>5, JobsWritten DEF PutThumbnail, Go, Step, Part
<1>6. ASSUME row' = [row EXCEPT ![AssetOf[u]] = Ready(@)]
      PROVE  row' \in [Asset -> RowType] /\ \A a \in Asset : RowOK(row'[a])
  <2>1. RowOK(Ready(row[AssetOf[u]])) BY RowsWritten
  <2>2. Ready(row[AssetOf[u]]) \in RowType BY <2>1 DEF RowOK
  <2> QED BY <1>6, <2>1, <2>2
<1>7. CASE MarkReady(u)
  BY <1>6, <1>7, JobsWritten DEF MarkReady, End
<1>8. CASE Compensate(u)
  <2>1. job' \in [Job -> JobRecord]
    <3>1. [Resting EXCEPT !.step = "objects", !.claimed = {AssetOf[u]}] \in JobRecord
      BY JobsWritten
    <3> QED BY <1>8, <3>1, JobsWritten DEF Compensate, End, HasClaimed
  <2>2. CASE StillOwns(u)
    <3>1. job[u].now \in Time BY DEF JobRecord
    <3>2. RowOK(Deleting(row[AssetOf[u]], job[u].now))
      BY <2>2, <3>1, RowsWritten DEF StillOwns
    <3>3. Deleting(row[AssetOf[u]], job[u].now) \in RowType BY <3>2 DEF RowOK
    <3> QED BY <1>8, <2>1, <2>2, <3>2, <3>3 DEF Compensate
  <2>3. CASE ~StillOwns(u)
    BY <1>8, <2>1, <2>3 DEF Compensate
  <2> QED BY <2>2, <2>3
<1>9. CASE PutFails(u)
  <2>1. faults' \in 0..MaxFaults BY <1>9, Constants DEF PutFails
  <2>2. stored' \in [Asset -> SUBSET Part] BY <1>9 DEF PutFails
  <2> QED BY <1>9, <2>1, <2>2, JobsWritten DEF PutFails, Go, Step
<1>10. CASE MarkFails(u)
  <2>1. faults' \in 0..MaxFaults BY <1>10, Constants DEF MarkFails
  <2> QED BY <1>6, <1>10, <2>1, JobsWritten DEF MarkFails, Go, Step
<1> QED
  BY <1>1, <1>2, <1>3, <1>4, <1>5, <1>7, <1>8, <1>9, <1>10 DEF UploadStep

LEMMA DeletionTypes ==
  ASSUME Typed, NEW j \in Job,
         Look(j) \/ DeletionStep(j) \/ DeletionFails(j) \/ Crash(j)
  PROVE  Typed'
<1>. USE DEF Typed
<1>1. CASE Look(j)
  <2>1. Unbound \in SUBSET Asset BY DEF Unbound
  <2>2. [job[j] EXCEPT !.step = "claim", !.now = clock, !.unbound = Unbound] \in JobRecord
    BY <2>1 DEF JobRecord, Step
  <2>3. job' \in [Job -> JobRecord] BY <1>1, <2>2 DEF Look
  <2> QED BY <1>1, <2>3 DEF Look
<1>2. CASE Claim(j)
  <2>1. PICK S \in IF j \in Discard THEN SUBSET Discardable(j) ELSE Batch(j) :
          IF S = {}
          THEN End(j) /\ UNCHANGED row
          ELSE /\ row' = [a \in Asset |->
                            IF a \in S THEN Deleting(row[a], job[j].now) ELSE row[a]]
               /\ HasClaimed(j, S)
    BY <1>2 DEF Claim
  <2>2. /\ S \subseteq Asset
        /\ \A a \in S : row[a].status # "absent"
    BY DEF Batch, Discardable, Expired, JobRecord
  <2>3. job' \in [Job -> JobRecord]
    <3>1. [Resting EXCEPT !.step = "objects", !.claimed = S] \in JobRecord
      BY <2>2, JobsWritten
    <3> QED BY <2>1, <3>1, JobsWritten DEF End, HasClaimed
  <2>4. \A a \in S : RowOK(Deleting(row[a], job[j].now))
    BY <2>2, RowsWritten DEF JobRecord
  <2>5. row' \in [Asset -> RowType] /\ \A a \in Asset : RowOK(row'[a])
    BY <2>1, <2>2, <2>4 DEF RowOK
  <2> QED BY <1>2, <2>3, <2>5 DEF Claim
<1>3. CASE DeleteObjects(j)
  BY <1>3, JobsWritten DEF DeleteObjects, Go, Step
<1>4. CASE DeleteRows(j)
  <2>1. row' \in [Asset -> RowType] /\ \A a \in Asset : RowOK(row'[a])
    BY <1>4, RowsWritten DEF DeleteRows, RowOK
  <2> QED BY <1>4, <2>1, JobsWritten DEF DeleteRows, End
<1>5. CASE DeletionFails(j)
  <2>1. faults' \in 0..MaxFaults BY <1>5, Constants DEF DeletionFails
  <2> QED BY <1>5, <2>1, JobsWritten DEF DeletionFails, End
<1>6. CASE Crash(j)
  <2>1. faults' \in 0..MaxFaults BY <1>6, Constants DEF Crash
  <2> QED BY <1>6, <2>1, JobsWritten DEF Crash, End
<1> QED
  BY <1>1, <1>2, <1>3, <1>4, <1>5, <1>6 DEF DeletionStep

LEMMA OtherTypes ==
  ASSUME Typed,
         \/ \E who \in Actor, p \in Place, photos \in SUBSET Asset : Publish(who, p, photos)
         \/ Tick
  PROVE  Typed'
<1>. USE DEF Typed
<1>1. CASE Tick
  BY <1>1, Constants DEF Tick, Time
<1>2. ASSUME NEW who \in Actor, NEW p \in Place, NEW photos \in SUBSET Asset,
             Publish(who, p, photos)
      PROVE  Typed'
  <2>1. \A a \in photos : row[a].status = "ready"
    BY <1>2 DEF Publish, Accepted
  <2>2. \A a \in photos : RowOK([row[a] EXCEPT !.expires = Never])
    BY <2>1, RowsWritten
  <2>3. row' \in [Asset -> RowType] /\ \A a \in Asset : RowOK(row'[a])
    BY <1>2, <2>2 DEF Publish, RowOK
  <2> QED BY <1>2, <2>3 DEF Publish
<1> QED BY <1>1, <1>2

LEMMA TypeStep == TypeOK /\ [Next]_vars => TypeOK'
<1> SUFFICES ASSUME TypeOK, [Next]_vars PROVE TypeOK' OBVIOUS
<1>1. Typed BY TypeParts
<1>2. TypeOK' <=> Typed' BY DEF TypeOK, Typed, RowOK, JobRecord
<1>3. CASE UNCHANGED vars
  BY <1>1, <1>2, <1>3 DEF vars, Typed
<1>4. CASE Next
  BY <1>1, <1>2, <1>4, UploadTypes, DeletionTypes, OtherTypes DEF Next, Fault
<1> QED BY <1>3, <1>4

LEMMA TypeInit == Init => TypeOK
<1> SUFFICES ASSUME Init PROVE Typed BY TypeParts
<1>1. Resting \in JobRecord /\ \A j \in Job : Ended(j) \in JobRecord BY JobsWritten
<1>2. job \in [Job -> JobRecord] BY <1>1 DEF Init
<1>3. 0 \in Time /\ 0 \in 0..MaxFaults BY Constants DEF Time
<1>4. Absent \in RowType BY RowsWritten DEF RowOK
<1> QED BY <1>2, <1>3, <1>4, RowsWritten DEF Init, Typed

\* Rows pass the check of the schema at all times.
THEOREM Typing == Spec => []TypeOK
BY TypeInit, TypeStep, PTL DEF Spec

(***************************************************************************)
(* What a step does to the row and the objects of a photo.                  *)
(***************************************************************************)
\* Upload u takes the row over.
Reserves(u, a) ==
  /\ a = AssetOf[u] /\ row[a].status \in {"absent", "pending"}
  /\ row[a].status = "absent" /\ a \in Doomed => a \in overlapped'
  /\ row'[a].status = "pending" /\ row'[a].token = u
  /\ job'[u].step = "full"
  /\ bound' = bound /\ stored' = stored /\ clock' = clock

\* Upload u has put both objects and still owns the row.
Finishes(u, a) ==
  /\ a = AssetOf[u] /\ StillOwns(u) /\ job[u].step = "ready"
  /\ row'[a].status = "ready" /\ row'[a].token = NoUpload
  /\ bound' = bound /\ stored' = stored /\ clock' = clock

\* Job j claims the row.
Takes(j, a) ==
  /\ row[a].status # "absent"
  /\ \/ row[a].status = "pending" /\ job[j].step = "compensate" /\ row[a].token = j
     \/ row[a].status = "ready" /\ row[a].expires # Never
     \/ row[a].expires # Never /\ row[a].expires <= job[j].now
  /\ row'[a].status = "deleting" /\ row'[a].token = NoUpload
  /\ bound' = bound /\ stored' = stored /\ clock' = clock

Drops(a) ==
  /\ row[a].status = "deleting" /\ bound[a] = {}
  /\ row'[a] = Absent
  /\ bound' = bound /\ stored' = stored /\ clock' = clock

Binds(a) ==
  /\ row[a].status = "ready" /\ row'[a].status = "ready"
  /\ row'[a].token = row[a].token /\ row'[a].expires = Never
  /\ stored' = stored /\ job' = job /\ clock' = clock

Changes(a) ==
  \/ Drops(a)
  \/ /\ a \in overlapped => a \in overlapped'
     /\ \/ row'[a] = row[a] /\ bound'[a] = bound[a]
        \/ \E u \in Upload : Reserves(u, a) \/ Finishes(u, a)
        \/ \E j \in Job : Takes(j, a)
        \/ Binds(a)

LEMMA UploadChanges ==
  ASSUME Typed, NEW u \in Upload, NEW a \in Asset,
         BeginUpload(u) \/ UploadStep(u) \/ PutFails(u) \/ MarkFails(u)
  PROVE  Changes(a)
<1>. u \in Job /\ AssetOf[u] \in Asset BY Constants
<1>1. CASE BeginUpload(u) \/ NotReserved(u) \/ PutFull(u) \/ PutThumbnail(u) \/ PutFails(u)
  BY <1>1 DEF BeginUpload, NotReserved, PutFull, PutThumbnail, PutFails, Changes
<1>2. CASE Reserve(u)
  <2>1. CASE a # AssetOf[u]
    BY <1>2, <2>1 DEF Reserve, Changes, Typed
  <2>2. CASE a = AssetOf[u]
    <3>1. row'[a].status = "pending" /\ row'[a].token = u
      BY <1>2, <2>2 DEF Reserve, Pending, Typed
    <3>2. /\ row[a].status \in {"absent", "pending"}
          /\ row[a].status = "absent" /\ a \in Doomed => a \in overlapped'
      BY <1>2, <2>2 DEF Reserve, MayReserve
    <3>3. job'[u].step = "full"
      BY <1>2 DEF Reserve, Go, Typed, JobRecord
    <3> QED BY <1>2, <2>2, <3>1, <3>2, <3>3 DEF Reserve, Reserves, Changes
  <2> QED BY <2>1, <2>2
<1>3. CASE MarkReady(u) \/ MarkFails(u)
  <2>1. CASE row' = row
    BY <1>3, <2>1 DEF MarkReady, MarkFails, Changes
  <2>2. CASE StillOwns(u) /\ row' = [row EXCEPT ![AssetOf[u]] = Ready(@)]
    <3>1. CASE a # AssetOf[u]
      BY <1>3, <2>2, <3>1 DEF MarkReady, MarkFails, Changes, Typed
    <3>2. CASE a = AssetOf[u]
      <4>1. row'[a].status = "ready" /\ row'[a].token = NoUpload
        BY <2>2, <3>2 DEF Ready, Typed, RowType
      <4> QED BY <1>3, <2>2, <3>2, <4>1 DEF MarkReady, MarkFails, Finishes, Changes
    <3> QED BY <3>1, <3>2
  <2> QED BY <1>3, <2>1, <2>2 DEF MarkReady, MarkFails
<1>4. CASE Compensate(u)
  <2>1. CASE ~StillOwns(u) \/ a # AssetOf[u]
    BY <1>4, <2>1 DEF Compensate, Changes, Typed
  <2>2. CASE StillOwns(u) /\ a = AssetOf[u]
    <3>1. row'[a].status = "deleting" /\ row'[a].token = NoUpload
      <4>1. row'[a] = Deleting(row[a], job[u].now) BY <1>4, <2>2 DEF Compensate, Typed
      <4>2. row[a] \in RowType BY DEF Typed
      <4> QED BY <4>1, <4>2 DEF Deleting, RowType
    <3> QED BY <1>4, <2>2, <3>1 DEF Compensate, StillOwns, Takes, Changes
  <2> QED BY <2>1, <2>2
<1> QED BY <1>1, <1>2, <1>3, <1>4 DEF UploadStep

LEMMA DeletionChanges ==
  ASSUME Typed, NEW j \in Job, NEW a \in Asset,
         Look(j) \/ DeletionStep(j) \/ DeletionFails(j) \/ Crash(j)
  PROVE  Changes(a)
<1>1. CASE Look(j) \/ DeleteObjects(j) \/ DeletionFails(j) \/ Crash(j)
  BY <1>1 DEF Look, DeleteObjects, DeletionFails, Crash, Changes
<1>2. CASE Claim(j)
  <2>1. PICK S \in IF j \in Discard THEN SUBSET Discardable(j) ELSE Batch(j) :
          IF S = {}
          THEN End(j) /\ UNCHANGED row
          ELSE /\ row' = [x \in Asset |->
                            IF x \in S THEN Deleting(row[x], job[j].now) ELSE row[x]]
               /\ HasClaimed(j, S)
    BY <1>2 DEF Claim
  <2>2. CASE a \notin S
    BY <1>2, <2>1, <2>2 DEF Claim, Changes
  <2>3. CASE a \in S
    <3>1. row'[a] = Deleting(row[a], job[j].now) BY <2>1, <2>3
    <3>2. row'[a].status = "deleting" /\ row'[a].token = NoUpload
      <4>1. row[a] \in RowType BY DEF Typed
      <4> QED BY <3>1, <4>1 DEF Deleting, RowType
    <3>3. \/ row[a].status = "ready" /\ row[a].expires # Never
          \/ /\ row[a].status # "absent" /\ row[a].expires # Never
             /\ row[a].expires <= job[j].now
      BY <2>1, <2>3 DEF Discardable, Batch, Expired
    <3> QED BY <1>2, <3>2, <3>3 DEF Claim, Takes, Changes
  <2> QED BY <2>2, <2>3
<1>3. CASE DeleteRows(j)
  <2>1. CASE a \notin Deletable(j)
    BY <1>3, <2>1 DEF DeleteRows, Changes, Typed
  <2>2. CASE a \in Deletable(j)
    BY <1>3, <2>2 DEF DeleteRows, Deletable, Drops, Changes
  <2> QED BY <2>1, <2>2
<1> QED BY <1>1, <1>2, <1>3 DEF DeletionStep

LEMMA OtherChanges ==
  ASSUME Typed, NEW a \in Asset,
         \/ \E who \in Actor, p \in Place, photos \in SUBSET Asset : Publish(who, p, photos)
         \/ Tick
  PROVE  Changes(a)
<1>1. CASE Tick
  BY <1>1 DEF Tick, Changes
<1>2. ASSUME NEW who \in Actor, NEW p \in Place, NEW photos \in SUBSET Asset,
             Publish(who, p, photos)
      PROVE  Changes(a)
  <2>1. CASE a \notin photos
    BY <1>2, <2>1 DEF Publish, Changes, Typed
  <2>2. CASE a \in photos
    <3>1. row'[a] = [row[a] EXCEPT !.expires = Never] BY <1>2, <2>2 DEF Publish
    <3>2. /\ row'[a].status = row[a].status /\ row'[a].token = row[a].token
          /\ row'[a].expires = Never
      <4>1. row[a] \in RowType BY DEF Typed
      <4> QED BY <3>1, <4>1 DEF RowType
    <3> QED BY <1>2, <2>2, <3>2 DEF Publish, Accepted, Binds, Changes
  <2> QED BY <2>1, <2>2
<1> QED BY <1>1, <1>2

LEMMA StepChanges ==
  ASSUME Typed, [Next]_vars, NEW a \in Asset PROVE Changes(a)
<1>1. CASE UNCHANGED vars
  BY <1>1 DEF vars, Changes
<1>2. CASE Next
  BY <1>2, UploadChanges, DeletionChanges, OtherChanges DEF Next, Fault
<1> QED BY <1>1, <1>2

(***************************************************************************)
(* The parts of the invariant.                                              *)
(***************************************************************************)
LEMMA TokensStep ==
  ASSUME IInv, [Next]_vars PROVE TokensFit'
<1> SUFFICES ASSUME NEW a \in Asset, row'[a].token # NoUpload
             PROVE  AssetOf[row'[a].token] = a
  BY DEF TokensFit
<1>1. Changes(a) BY StepChanges, TypeParts DEF IInv
<1> QED
  BY <1>1 DEF Changes, Reserves, Finishes, Takes, Drops, Binds, Absent, IInv, TokensFit

LEMMA BindingsStep ==
  ASSUME IInv, [Next]_vars PROVE BindingsArePermanent'
<1> SUFFICES ASSUME NEW a \in Asset, bound'[a] # {}
             PROVE  row'[a].status = "ready" /\ row'[a].expires = Never
  BY DEF BindingsArePermanent
<1>1. Changes(a) BY StepChanges, TypeParts DEF IInv
<1> QED
  BY <1>1 DEF Changes, Reserves, Finishes, StillOwns, Takes, Drops, Binds, IInv,
     BindingsArePermanent

\* What a step newly claims it marks as being deleted.
LEMMA NewClaims ==
  ASSUME Typed, [Next]_vars, NEW j \in Job, NEW a \in Asset,
         Deletes(j, a)', ~Deletes(j, a)
  PROVE  row'[a].status = "deleting"
<1>1. ASSUME NEW k \in Job, NEW s, s # "objects", job' = [job EXCEPT ![k].step = s]
      PROVE  FALSE
  BY <1>1 DEF Deletes, Typed, JobRecord
<1>2. ASSUME NEW k \in Job, job' = [job EXCEPT ![k] = Ended(k)] PROVE FALSE
  BY <1>2 DEF Deletes, Typed, JobRecord, Ended, Resting
<1>3. ASSUME NEW k \in Job, NEW S, HasClaimed(k, S) PROVE k = j /\ a \in S
  BY <1>3 DEF Deletes, HasClaimed, Typed, JobRecord, Resting
<1>4. CASE UNCHANGED vars
  BY <1>4 DEF vars, Deletes
<1>5. ASSUME NEW u \in Upload, BeginUpload(u) PROVE FALSE
  BY <1>5, Constants DEF BeginUpload, Deletes, Typed, JobRecord
<1>6. ASSUME NEW u \in Upload, UploadStep(u) \/ PutFails(u) \/ MarkFails(u)
      PROVE  row'[a].status = "deleting"
  <2>. u \in Job /\ AssetOf[u] \in Asset BY Constants
  <2>1. CASE Compensate(u) /\ StillOwns(u)
    <3>1. a = AssetOf[u] BY <1>3, <2>1 DEF Compensate
    <3>2. row'[a] = Deleting(row[a], job[u].now) BY <2>1, <3>1 DEF Compensate, Typed
    <3>3. row[a] \in RowType BY DEF Typed
    <3> QED BY <3>2, <3>3 DEF Deleting, RowType
  <2>2. CASE ~(Compensate(u) /\ StillOwns(u))
    BY <1>1, <1>2, <1>6, <2>2 DEF UploadStep, Reserve, NotReserved, PutFull, PutThumbnail,
       MarkReady, Compensate, PutFails, MarkFails, Go, End
  <2> QED BY <2>1, <2>2
<1>7. ASSUME NEW k \in Job, Claim(k) PROVE row'[a].status = "deleting"
  <2>1. PICK S \in IF k \in Discard THEN SUBSET Discardable(k) ELSE Batch(k) :
          IF S = {}
          THEN End(k) /\ UNCHANGED row
          ELSE /\ row' = [x \in Asset |->
                            IF x \in S THEN Deleting(row[x], job[k].now) ELSE row[x]]
               /\ HasClaimed(k, S)
    BY <1>7 DEF Claim
  <2>2. S # {} BY <1>2, <2>1 DEF End
  <2>3. a \in S BY <1>3, <2>1, <2>2
  <2>4. row'[a] = Deleting(row[a], job[k].now) BY <2>1, <2>2, <2>3
  <2>5. row[a] \in RowType BY DEF Typed
  <2> QED BY <2>4, <2>5 DEF Deleting, RowType
<1>8. ASSUME NEW k \in Job,
             Look(k) \/ DeleteObjects(k) \/ DeleteRows(k) \/ DeletionFails(k) \/ Crash(k)
      PROVE  FALSE
  <2>1. CASE Look(k)
    BY <2>1 DEF Look, Deletes, Typed, JobRecord
  <2> QED BY <1>1, <1>2, <1>8, <2>1 DEF DeleteObjects, DeleteRows, DeletionFails, Crash, Go, End
<1>9. ASSUME \/ \E who \in Actor, p \in Place, photos \in SUBSET Asset :
                  Publish(who, p, photos)
             \/ Tick
      PROVE  FALSE
  BY <1>9 DEF Publish, Tick, Deletes
<1> QED
  BY <1>4, <1>5, <1>6, <1>7, <1>8, <1>9 DEF Next, Fault, DeletionStep

LEMMA ClaimsStep ==
  ASSUME IInv, [Next]_vars PROVE ClaimsAreFinal'
<1> SUFFICES ASSUME NEW j \in Job, NEW a \in Asset, Deletes(j, a)'
             PROVE  row'[a].status \in {"deleting", "absent"} \/ a \in overlapped'
  BY DEF ClaimsAreFinal
<1>1. Typed BY TypeParts DEF IInv
<1>2. CASE ~Deletes(j, a)
  BY <1>1, <1>2, NewClaims
<1>3. CASE Deletes(j, a)
  <2>1. /\ row[a].status \in {"deleting", "absent"} \/ a \in overlapped
        /\ a \in Doomed
    BY <1>3 DEF IInv, ClaimsAreFinal, Doomed, Deletes
  <2>2. Changes(a) BY <1>1, StepChanges
  <2> QED
    BY <2>1, <2>2 DEF Changes, Reserves, Finishes, StillOwns, Takes, Drops, Binds, Absent
<1> QED BY <1>2, <1>3

\* Objects go only from photos a job is about to delete.
LEMMA ObjectsStay ==
  ASSUME Typed, [Next]_vars, NEW a \in Asset
  PROVE  stored[a] \subseteq stored'[a] \/ \E j \in Job : Deletes(j, a)
<1>1. CASE stored' = stored BY <1>1
<1>2. ASSUME NEW u \in Upload, PutFull(u) \/ PutThumbnail(u) \/ PutFails(u)
      PROVE  stored[a] \subseteq stored'[a]
  BY <1>2, Constants DEF PutFull, PutThumbnail, PutFails, Typed
<1>3. ASSUME NEW j \in Job, DeleteObjects(j) \/ DeletionFails(j)
      PROVE  stored[a] \subseteq stored'[a] \/ Deletes(j, a)
  BY <1>3 DEF DeleteObjects, DeletionFails, Deletes
<1> QED
  BY <1>1, <1>2, <1>3 DEF Next, vars, BeginUpload, UploadStep, Reserve, NotReserved,
     MarkReady, MarkFails, Compensate, Look, DeletionStep, Claim, DeleteRows, Crash,
     Publish, Tick, Fault

\* An upload moves on only by putting its objects.
LEMMA UploadMoves ==
  ASSUME Typed, [Next]_vars, NEW u \in Upload
  PROVE  LET a == AssetOf[u]
         IN  /\ job'[u].step = "thumbnail" =>
                  job[u].step = "thumbnail" \/ "full" \in stored'[a]
             /\ job'[u].step = "ready" =>
                  \/ job[u].step = "ready"
                  \/ job[u].step = "thumbnail" /\ stored'[a] = stored[a] \cup {"thumbnail"}
<1>. u \in Job /\ AssetOf[u] \in Asset BY Constants
<1>1. ASSUME NEW k \in Job, NEW s, job' = [job EXCEPT ![k].step = s],
             s \notin {"thumbnail", "ready"}
      PROVE  job'[u].step = job[u].step \/ job'[u].step \notin {"thumbnail", "ready"}
  BY <1>1 DEF Typed, JobRecord
<1>2. ASSUME NEW k \in Job, job' = [job EXCEPT ![k] = Ended(k)]
      PROVE  job'[u].step = job[u].step \/ job'[u].step \notin {"thumbnail", "ready"}
  BY <1>2 DEF Typed, JobRecord, Ended, Resting
<1>3. ASSUME NEW k \in Job, NEW S, HasClaimed(k, S)
      PROVE  job'[u].step = job[u].step \/ job'[u].step \notin {"thumbnail", "ready"}
  BY <1>3 DEF HasClaimed, Typed, JobRecord, Resting
<1>4. ASSUME NEW v \in Upload, BeginUpload(v)
      PROVE  job'[u].step = job[u].step \/ job'[u].step \notin {"thumbnail", "ready"}
  BY <1>4, Constants DEF BeginUpload, Typed, JobRecord
<1>5. ASSUME NEW k \in Job, Look(k)
      PROVE  job'[u].step = job[u].step \/ job'[u].step \notin {"thumbnail", "ready"}
  BY <1>5 DEF Look, Typed, JobRecord
<1>6. ASSUME NEW v \in Upload, PutFull(v)
      PROVE  \/ job'[u].step = job[u].step
             \/ job'[u].step = "thumbnail" /\ "full" \in stored'[AssetOf[u]]
  <2>. v \in Job BY Constants
  <2>1. CASE v # u
    <3>1. job'[u] = job[u] BY <1>6, <2>1 DEF PutFull, Go, Typed
    <3> QED BY <3>1
  <2>2. CASE v = u
    <3>1. "full" \in stored'[AssetOf[u]] BY <1>6, <2>2 DEF PutFull, Typed
    <3>2. job'[u].step = "thumbnail" BY <1>6, <2>2 DEF PutFull, Go, Typed, JobRecord
    <3> QED BY <3>1, <3>2
  <2> QED BY <2>1, <2>2
<1>7. ASSUME NEW v \in Upload, PutThumbnail(v)
      PROVE  \/ job'[u].step = job[u].step
             \/ /\ job'[u].step = "ready" /\ job[u].step = "thumbnail"
                /\ stored'[AssetOf[u]] = stored[AssetOf[u]] \cup {"thumbnail"}
  BY <1>7, Constants DEF PutThumbnail, Go, Typed, JobRecord
<1>8. CASE job' = job BY <1>8
<1>9. ASSUME NEW v \in Upload,
             Reserve(v) \/ NotReserved(v) \/ MarkReady(v) \/ Compensate(v) \/ PutFails(v)
             \/ MarkFails(v)
      PROVE  job'[u].step = job[u].step \/ job'[u].step \notin {"thumbnail", "ready"}
  <2>. v \in Job BY Constants
  <2> QED
    BY <1>1, <1>2, <1>3, <1>9 DEF Reserve, NotReserved, MarkReady, Compensate, PutFails,
       MarkFails, Go, End
<1>10. ASSUME NEW k \in Job,
              Claim(k) \/ DeleteObjects(k) \/ DeleteRows(k) \/ DeletionFails(k) \/ Crash(k)
      PROVE  job'[u].step = job[u].step \/ job'[u].step \notin {"thumbnail", "ready"}
  BY <1>1, <1>2, <1>3, <1>10 DEF Claim, DeleteObjects, DeleteRows, DeletionFails, Crash,
     Go, End
<1> QED
  BY <1>4, <1>5, <1>6, <1>7, <1>8, <1>9, <1>10 DEF Next, vars, UploadStep, DeletionStep,
     Publish, Tick, Fault

LEMMA PutsStep ==
  ASSUME IInv, [Next]_vars PROVE PutsKept'
<1> SUFFICES ASSUME NEW u \in Upload, StillOwns(u)', AssetOf[u] \notin overlapped'
             PROVE  /\ job'[u].step = "thumbnail" => "full" \in stored'[AssetOf[u]]
                    /\ job'[u].step = "ready" => stored'[AssetOf[u]] = Part
  BY DEF PutsKept
<1>. DEFINE a == AssetOf[u]
<1>. a \in Asset BY Constants
<1>1. Typed /\ Typed'
  BY TypeParts, TypeStep DEF IInv, TypeOK, Typed, RowOK, JobRecord
<1>2. Changes(a) BY <1>1, StepChanges
<1>3. row'[a].status = "pending" /\ row'[a].token = u BY DEF StillOwns
<1>4. \/ StillOwns(u) /\ a \notin overlapped
      \/ job'[u].step = "full"
  BY <1>2, <1>3 DEF Changes, Reserves, Finishes, Takes, Drops, Binds, Absent, StillOwns
<1>5. CASE StillOwns(u) /\ a \notin overlapped
  <2>1. stored[a] \subseteq stored'[a]
    BY <1>1, <1>5, ObjectsStay DEF IInv, ClaimsAreFinal, StillOwns
  <2>2. /\ job[u].step = "thumbnail" => "full" \in stored[a]
        /\ job[u].step = "ready" => stored[a] = Part
    BY <1>5 DEF IInv, PutsKept
  <2>3. stored'[a] \subseteq Part BY <1>1 DEF Typed
  <2> QED BY <1>1, <2>1, <2>2, <2>3, UploadMoves DEF Part
<1> QED BY <1>4, <1>5

LEMMA ReadyStep ==
  ASSUME IInv, [Next]_vars PROVE ReadyPhotosStored'
<1> SUFFICES ASSUME NEW a \in Asset, row'[a].status = "ready", a \notin overlapped'
             PROVE  stored'[a] = Part
  BY DEF ReadyPhotosStored
<1>1. Typed /\ Typed'
  BY TypeParts, TypeStep DEF IInv, TypeOK, Typed, RowOK, JobRecord
<1>2. Changes(a) BY <1>1, StepChanges
<1>3. a \notin overlapped BY <1>2 DEF Changes, Drops, Absent
<1>4. CASE row[a].status = "ready"
  <2>1. stored[a] \subseteq stored'[a]
    BY <1>1, <1>3, <1>4, ObjectsStay DEF IInv, ClaimsAreFinal
  <2>2. stored[a] = Part BY <1>3, <1>4 DEF IInv, ReadyPhotosStored
  <2> QED BY <1>1, <2>1, <2>2 DEF Typed
<1>5. CASE row[a].status # "ready"
  BY <1>2, <1>3, <1>5 DEF Changes, Reserves, Finishes, Takes, Drops, Binds, Absent, IInv,
     PutsKept
<1> QED BY <1>4, <1>5

LEMMA ReadingsStep ==
  ASSUME IInv, [Next]_vars PROVE ReadingsArePast'
<1> SUFFICES ASSUME NEW j \in Job PROVE job'[j].now <= clock'
  BY DEF ReadingsArePast
<1>1. Typed BY TypeParts DEF IInv
<1>2. job[j].now <= clock /\ clock \in Nat /\ job[j].now \in Nat
  BY <1>1, Constants DEF IInv, ReadingsArePast, Typed, JobRecord
<1>3. clock' = clock \/ clock' = clock + 1
  BY DEF Next, vars, BeginUpload, UploadStep, Reserve, NotReserved, PutFull, PutThumbnail,
     MarkReady, Compensate, Look, DeletionStep, Claim, DeleteObjects, DeleteRows, Publish,
     Tick, Fault, PutFails, MarkFails, DeletionFails, Crash
<1>4. job'[j].now \in {job[j].now, clock, 0}
  <2>1. ASSUME NEW k \in Job, NEW s, job' = [job EXCEPT ![k].step = s]
        PROVE  job'[j].now = job[j].now
    BY <1>1, <2>1 DEF Typed, JobRecord
  <2>2. ASSUME NEW k \in Job, job' = [job EXCEPT ![k] = Ended(k)]
        PROVE  job'[j].now \in {job[j].now, 0}
    BY <1>1, <2>2 DEF Typed, JobRecord, Ended, Resting
  <2>3. ASSUME NEW k \in Job, NEW S, HasClaimed(k, S) PROVE job'[j].now \in {job[j].now, 0}
    BY <1>1, <2>3 DEF HasClaimed, Typed, JobRecord, Resting
  <2>4. ASSUME NEW u \in Upload, BeginUpload(u) PROVE job'[j].now \in {job[j].now, clock}
    BY <1>1, <2>4, Constants DEF BeginUpload, Typed, JobRecord
  <2>5. ASSUME NEW k \in Job, Look(k) PROVE job'[j].now \in {job[j].now, clock}
    BY <1>1, <2>5 DEF Look, Typed, JobRecord
  <2>6. CASE job' = job BY <2>6
  <2>7. ASSUME NEW u \in Upload, UploadStep(u) \/ PutFails(u) \/ MarkFails(u)
        PROVE  job'[j].now \in {job[j].now, 0}
    <3>. u \in Job BY Constants
    <3> QED
      BY <2>1, <2>2, <2>3, <2>7 DEF UploadStep, Reserve, NotReserved, PutFull, PutThumbnail,
         MarkReady, Compensate, PutFails, MarkFails, Go, End
  <2>8. ASSUME NEW k \in Job, DeletionStep(k) \/ DeletionFails(k) \/ Crash(k)
        PROVE  job'[j].now \in {job[j].now, 0}
    BY <2>1, <2>2, <2>3, <2>8 DEF DeletionStep, Claim, DeleteObjects, DeleteRows,
       DeletionFails, Crash, Go, End
  <2> QED
    BY <2>4, <2>5, <2>6, <2>7, <2>8 DEF Next, vars, Publish, Tick, Fault
<1> QED BY <1>2, <1>3, <1>4

LEMMA Inductive == IInv /\ [Next]_vars => IInv'
<1> SUFFICES ASSUME IInv, [Next]_vars PROVE IInv' OBVIOUS
<1>1. TypeOK' BY TypeStep DEF IInv
<1> QED
  BY <1>1, TokensStep, BindingsStep, ClaimsStep, PutsStep, ReadyStep, ReadingsStep DEF IInv

LEMMA Initial == Init => IInv
<1> SUFFICES ASSUME Init PROVE IInv OBVIOUS
<1>1. TypeOK BY TypeInit
<1>2. \A a \in Asset : /\ row[a].status = "absent" /\ row[a].token = NoUpload
                        /\ bound[a] = {}
  BY DEF Init, Absent
<1>3. \A j \in Job : job[j].now = 0 /\ job[j].claimed = {}
  BY DEF Init, Ended, Resting
<1>4. TokensFit /\ BindingsArePermanent /\ ReadyPhotosStored
  BY <1>2 DEF TokensFit, BindingsArePermanent, ReadyPhotosStored
<1>5. PutsKept BY <1>2, Constants DEF PutsKept, StillOwns
<1>6. ClaimsAreFinal BY <1>3 DEF ClaimsAreFinal, Deletes
<1>7. ReadingsArePast BY <1>3 DEF ReadingsArePast, Init
<1> QED BY <1>1, <1>4, <1>5, <1>6, <1>7 DEF IInv

LEMMA Invariance == Spec => []IInv
BY Initial, Inductive, PTL DEF Spec

\* No repeated upload, failed put or late deletion leaves a ready photo without
\* its objects, but where its id overlaps with a deletion still under way.
THEOREM Served == Spec => []ReadyPhotosStored
<1>1. IInv => ReadyPhotosStored BY DEF IInv
<1> QED BY <1>1, Invariance, PTL

\* No discard and no cleanup takes a photo that a revision shows.
THEOREM Bound == Spec => []BoundPhotosKept
<1>1. IInv => BoundPhotosKept BY DEF IInv, BindingsArePermanent, BoundPhotosKept
<1> QED BY <1>1, Invariance, PTL

\* An upload under way loses its row to its own failure, or after its hour.
THEOREM Leases == Spec => UploadsKeepTheirRow
<1>1. ASSUME IInv, [Next]_vars, NEW a \in Asset,
             row[a].status = "pending", row'[a].status = "deleting"
      PROVE  job[row[a].token].step = "compensate" \/ row[a].expires <= clock
  <2>1. Typed BY <1>1, TypeParts DEF IInv
  <2>2. Changes(a) BY <1>1, <2>1, StepChanges
  <2>3. PICK j \in Job : Takes(j, a)
    BY <1>1, <2>2 DEF Changes, Reserves, Finishes, Drops, Binds, Absent
  <2>4. job[j].now <= clock /\ clock \in Nat /\ job[j].now \in Nat
    BY <1>1, <2>1, Constants DEF IInv, ReadingsArePast, Typed, JobRecord
  <2>5. row[a].expires \in Nat \cup {Never} BY <2>1 DEF Typed, RowType
  <2> QED BY <1>1, <2>3, <2>4, <2>5 DEF Takes, Never
<1>2. IInv /\ [Next]_vars =>
        [\A a \in Asset :
           (row[a].status = "pending" /\ row'[a].status = "deleting") =>
             \/ job[row[a].token].step = "compensate"
             \/ row[a].expires <= clock]_vars
  BY <1>1
<1> QED BY <1>2, Invariance, PTL DEF Spec, UploadsKeepTheirRow
=============================================================================
