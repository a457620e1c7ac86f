---------------------------- MODULE PlacePhotos -----------------------------
(***************************************************************************)
(* The photos of campus map places (src/lib/campus-map/place-photo-assets.  *)
(* ts) and the publications that show them (publish.ts).                    *)
(*                                                                         *)
(* A photo is a row of campus_map_place_photo_assets and two objects in a   *)
(* storage that takes part in no transaction.  Uploads put the objects      *)
(* under a lease; discards, failed uploads and the daily cleanup claim the  *)
(* row, delete the objects and only then the row; a publication binds the   *)
(* photo to a place for good.  Every one of these is a job here, and a job  *)
(* may stop after each of its steps.                                        *)
(***************************************************************************)
EXTENDS Integers, FiniteSets

CONSTANTS
  Asset,       \* ids of photos
  Actor,
  Place,
  Upload,      \* requests to upload; two of one id are a repeated request
  Discard,     \* requests to discard photos
  Cleanup,     \* runs of the cleanup that may overlap
  AssetOf,     \* [Upload -> Asset]
  ActorOf,     \* [Upload \cup Discard -> Actor]
  Lease, Ttl,  \* UPLOAD_LEASE_MS and PENDING_TTL_MS in ticks of the clock
  Arriving,    \* the requests that arrive together (a bound)
  Limit,       \* how many photos a cleanup claims
  MaxTime,     \* bound: the last instant of the clock
  MaxFaults,   \* bound: crashes and failures of the storage or the database
  NoActor, NoUpload, NoPlace

Job == Upload \cup Discard \cup Cleanup
Part == {"full", "thumbnail"}
Time == 0..MaxTime

ASSUME JobAssumption ==
  /\ Upload \cap Discard = {} /\ Upload \cap Cleanup = {} /\ Discard \cap Cleanup = {}
  /\ AssetOf \in [Upload -> Asset]
  /\ ActorOf \in [Upload \cup Discard -> Actor]
  /\ Arriving \subseteq SUBSET (Upload \cup Discard)
  /\ NoUpload \notin Upload /\ NoActor \notin Actor

ASSUME TimeAssumption ==
  /\ Lease \in Nat \ {0} /\ Ttl \in Nat /\ Lease < Ttl
  /\ MaxTime \in Nat /\ MaxFaults \in Nat /\ Limit \in Nat \ {0}

VARIABLES
  clock,
  row,      \* [Asset -> row of campus_map_place_photo_assets]
  stored,   \* [Asset -> objects of the photo in the storage]
  shown,    \* [Place -> photos of its current revision], NoPlace before the first
  bound,    \* [Asset -> places some revision of which shows it]
  job,      \* [Job -> what it is about to do]
  faults,
  overlapped \* photos reserved under an id whose earlier objects were yet to
             \* be deleted by a job that had claimed the earlier row (history)

vars == <<clock, row, stored, shown, bound, job, faults, overlapped>>

-----------------------------------------------------------------------------
Never == -1

Absent ==
  [status |-> "absent", owner |-> NoActor, token |-> NoUpload, lease |-> Never,
   expires |-> Never]

\* A job: what it does next, its reading of the clock, the photos it saw
\* unbound when its statement began, the photos it has claimed.
Resting == [step |-> "idle", now |-> 0, unbound |-> {}, claimed |-> {}]

\* A request is answered once; the cleanup comes again.
Ended(j) == [Resting EXCEPT !.step = IF j \in Cleanup THEN "idle" ELSE "done"]

Init ==
  /\ clock = 0
  /\ row = [a \in Asset |-> Absent]
  /\ stored = [a \in Asset |-> {}]
  /\ shown = [p \in Place |-> {NoPlace}]
  /\ bound = [a \in Asset |-> {}]
  /\ \E arriving \in Arriving :
       job = [j \in Job |-> IF j \in arriving \cup Cleanup THEN Resting ELSE Ended(j)]
  /\ faults = 0
  /\ overlapped = {}

Go(j, step) == job' = [job EXCEPT ![j].step = step]
End(j) == job' = [job EXCEPT ![j] = Ended(j)]

HasClaimed(j, S) == job' = [job EXCEPT ![j] = [Resting EXCEPT !.step = "objects", !.claimed = S]]

Unbound == {a \in Asset : bound[a] = {}}
\* Photos whose objects somebody is about to delete.
Doomed == UNION {job[j].claimed : j \in {k \in Job : job[k].step = "objects"}}

-----------------------------------------------------------------------------
(* uploadCampusMapPlacePhoto *)

\* The picture is processed before the row is reserved: the clock is older.
BeginUpload(u) ==
  /\ job[u].step = "idle"
  /\ clock + Ttl <= MaxTime
  /\ job' = [job EXCEPT ![u].step = "reserve", ![u].now = clock]
  /\ UNCHANGED <<clock, row, stored, shown, bound, faults, overlapped>>

\* The row of an upload at the instant n.
Pending(u, n) ==
  [status |-> "pending", owner |-> ActorOf[u], token |-> u, lease |-> n + Lease,
   expires |-> n + Ttl]

\* Mutant: a row that is being deleted is taken over like a pending one.
MayReserveDeleting(u, a) ==
  \/ row[a].status = "absent"
  \/ /\ row[a].status \in {"pending", "deleting"}
     /\ row[a].owner = ActorOf[u]
     /\ row[a].lease <= job[u].now

\* An id without a row is free, whoever may yet be deleting what it once named.
MayReserve(u, a) ==
  \/ row[a].status = "absent"
  \/ /\ row[a].status = "pending"
     /\ row[a].owner = ActorOf[u]
     /\ row[a].lease <= job[u].now

Reserve(u) ==
  LET a == AssetOf[u]
  IN  /\ job[u].step = "reserve"
      /\ MayReserve(u, a)
      /\ row' = [row EXCEPT ![a] = Pending(u, job[u].now)]
      /\ overlapped' = IF row[a].status = "absent" /\ a \in Doomed
                       THEN overlapped \cup {a} ELSE overlapped
      /\ Go(u, "full")
      /\ UNCHANGED <<clock, stored, shown, bound, faults>>

\* Ready already, another's, being deleted, or under the lease of another
\* request, whose result this one awaits without changing anything.
NotReserved(u) ==
  /\ job[u].step = "reserve"
  /\ ~MayReserve(u, AssetOf[u])
  /\ End(u)
  /\ UNCHANGED <<clock, row, stored, shown, bound, faults, overlapped>>

PutFull(u) ==
  /\ job[u].step = "full"
  /\ stored' = [stored EXCEPT ![AssetOf[u]] = @ \cup {"full"}]
  /\ Go(u, "thumbnail")
  /\ UNCHANGED <<clock, row, shown, bound, faults, overlapped>>

PutThumbnail(u) ==
  /\ job[u].step = "thumbnail"
  /\ stored' = [stored EXCEPT ![AssetOf[u]] = @ \cup {"thumbnail"}]
  /\ Go(u, "ready")
  /\ UNCHANGED <<clock, row, shown, bound, faults, overlapped>>

\* The storage reports a failure, whether or not it has kept the object.
PutFails(u) ==
  /\ job[u].step \in Part
  /\ faults < MaxFaults
  /\ faults' = faults + 1
  /\ \E kept \in {{}, {job[u].step}} :
       stored' = [stored EXCEPT ![AssetOf[u]] = @ \cup kept]
  /\ Go(u, "compensate")
  /\ UNCHANGED <<clock, row, shown, bound, overlapped>>

\* Mutant: any pending row will do.
StillPending(u) == row[AssetOf[u]].status = "pending"

StillOwns(u) == row[AssetOf[u]].status = "pending" /\ row[AssetOf[u]].token = u

Ready(r) == [r EXCEPT !.status = "ready", !.token = NoUpload, !.lease = Never]

\* An upload that lost its row finds it ready or fails; it changes nothing.
MarkReady(u) ==
  /\ job[u].step = "ready"
  /\ IF StillOwns(u)
     THEN row' = [row EXCEPT ![AssetOf[u]] = Ready(@)]
     ELSE UNCHANGED row
  /\ End(u)
  /\ UNCHANGED <<clock, stored, shown, bound, faults, overlapped>>

\* The database does not answer; it may have done what it was asked to do.
MarkFails(u) ==
  /\ job[u].step = "ready"
  /\ faults < MaxFaults
  /\ faults' = faults + 1
  /\ \/ UNCHANGED row
     \/ StillOwns(u) /\ row' = [row EXCEPT ![AssetOf[u]] = Ready(@)]
  /\ Go(u, "compensate")
  /\ UNCHANGED <<clock, stored, shown, bound, overlapped>>

\* Mutant: the row keeps the token of its upload.
DeletingWithToken(r, n) == [r EXCEPT !.status = "deleting", !.lease = Never, !.expires = n]

Deleting(r, n) ==
  [r EXCEPT !.status = "deleting", !.token = NoUpload, !.lease = Never, !.expires = n]

Compensate(u) ==
  LET a == AssetOf[u]
  IN  /\ job[u].step = "compensate"
      /\ IF StillOwns(u)
         THEN /\ row' = [row EXCEPT ![a] = Deleting(@, job[u].now)]
              /\ HasClaimed(u, {a})
         ELSE End(u) /\ UNCHANGED row
      /\ UNCHANGED <<clock, stored, shown, bound, faults, overlapped>>

-----------------------------------------------------------------------------
(* discardCampusMapPlacePhotoAssets and cleanupCampusMapPlacePhotoAssets *)

\* The statement begins: what it sees of the bindings is as of now, even for
\* a row it has to wait for.
Look(j) ==
  /\ j \in Discard \cup Cleanup
  /\ job[j].step = "idle"
  /\ job' = [job EXCEPT ![j].step = "claim", ![j].now = clock, ![j].unbound = Unbound]
  /\ UNCHANGED <<clock, row, stored, shown, bound, faults, overlapped>>

\* The rows are locked and looked at again, the bindings are not.
Discardable(j) ==
  {a \in job[j].unbound :
     /\ row[a].status = "ready"
     /\ row[a].owner = ActorOf[j]
     /\ row[a].expires # Never}

\* Mutant: the cleanup looks at ready photos only.
ExpiredReady(j) ==
  {a \in job[j].unbound :
     row[a].status = "ready" /\ row[a].expires # Never /\ row[a].expires <= job[j].now}

Expired(j) ==
  {a \in job[j].unbound :
     /\ row[a].status # "absent"
     /\ row[a].expires # Never
     /\ row[a].expires <= job[j].now}

\* The photos a cleanup takes: the ones that expired first, Limit at most.
Batch(j) ==
  {S \in SUBSET Expired(j) :
     /\ Cardinality(S) <= Limit
     /\ Cardinality(S) < Limit => S = Expired(j)
     /\ \A a \in S, b \in Expired(j) \ S : row[a].expires <= row[b].expires}

Claim(j) ==
  /\ job[j].step = "claim"
  /\ \E S \in IF j \in Discard THEN SUBSET Discardable(j) ELSE Batch(j) :
       IF S = {}
       THEN End(j) /\ UNCHANGED row
       ELSE /\ row' = [a \in Asset |->
                         IF a \in S THEN Deleting(row[a], job[j].now) ELSE row[a]]
            /\ HasClaimed(j, S)
  /\ UNCHANGED <<clock, stored, shown, bound, faults, overlapped>>

-----------------------------------------------------------------------------
(* deleteClaimedCampusMapPlacePhotoAssets, for every job that claimed some *)

DeleteObjects(j) ==
  /\ job[j].step = "objects"
  /\ stored' = [a \in Asset |-> IF a \in job[j].claimed THEN {} ELSE stored[a]]
  /\ Go(j, "rows")
  /\ UNCHANGED <<clock, row, shown, bound, faults, overlapped>>

\* The storage deletes some of the objects and reports an error.
DeletionFails(j) ==
  /\ job[j].step = "objects"
  /\ faults < MaxFaults
  /\ faults' = faults + 1
  /\ \E part \in SUBSET Part :
       stored' = [a \in Asset |->
                    IF a \in job[j].claimed THEN stored[a] \ part ELSE stored[a]]
  /\ End(j)
  /\ UNCHANGED <<clock, row, shown, bound, overlapped>>

Deletable(j) == {a \in job[j].claimed : row[a].status = "deleting" /\ bound[a] = {}}

DeleteRows(j) ==
  /\ job[j].step = "rows"
  /\ row' = [a \in Asset |-> IF a \in Deletable(j) THEN Absent ELSE row[a]]
  /\ overlapped' = overlapped \ Deletable(j)
  /\ End(j)
  /\ UNCHANGED <<clock, stored, shown, bound, faults>>

\* The process of a job dies, or its transaction fails.
Crash(j) ==
  /\ job[j].step \notin {"idle", "done"}
  /\ faults < MaxFaults
  /\ faults' = faults + 1
  /\ End(j)
  /\ UNCHANGED <<clock, row, stored, shown, bound, overlapped>>

-----------------------------------------------------------------------------
(* prepareCampusMapPlacePhotos and the binding, one transaction *)

Exists(p) == shown[p] # {NoPlace}
Base(p) == IF Exists(p) THEN shown[p] ELSE {}

\* The photo is ready, shown by no other place, and the actor's own unless
\* the revision before this one shows it.
Accepted(who, p, a) ==
  /\ row[a].status = "ready"
  /\ bound[a] # {} => Exists(p) /\ bound[a] = {p}
  /\ row[a].owner = who \/ a \in Base(p)

\* Mutant: the binding leaves the date of expiry.
PublishExpiring(who, p, photos) ==
  /\ \A a \in photos : Accepted(who, p, a)
  /\ bound' = [a \in Asset |-> IF a \in photos THEN bound[a] \cup {p} ELSE bound[a]]
  /\ shown' = [shown EXCEPT ![p] = photos]
  /\ UNCHANGED <<clock, row, stored, job, faults, overlapped>>

Publish(who, p, photos) ==
  /\ \A a \in photos : Accepted(who, p, a)
  /\ row' = [a \in Asset |-> IF a \in photos THEN [row[a] EXCEPT !.expires = Never]
                                             ELSE row[a]]
  /\ bound' = [a \in Asset |-> IF a \in photos THEN bound[a] \cup {p} ELSE bound[a]]
  /\ shown' = [shown EXCEPT ![p] = photos]
  /\ UNCHANGED <<clock, stored, job, faults, overlapped>>

Tick ==
  /\ clock < MaxTime
  /\ clock' = clock + 1
  /\ UNCHANGED <<row, stored, shown, bound, job, faults, overlapped>>

-----------------------------------------------------------------------------
UploadStep(u) ==
  \/ Reserve(u) \/ NotReserved(u) \/ PutFull(u) \/ PutThumbnail(u)
  \/ MarkReady(u) \/ Compensate(u)

DeletionStep(j) == Claim(j) \/ DeleteObjects(j) \/ DeleteRows(j)

Fault ==
  \/ \E u \in Upload : PutFails(u) \/ MarkFails(u)
  \/ \E j \in Job : DeletionFails(j) \/ Crash(j)

Next ==
  \/ \E u \in Upload : BeginUpload(u) \/ UploadStep(u)
  \/ \E j \in Job : Look(j) \/ DeletionStep(j)
  \/ \E who \in Actor, p \in Place, photos \in SUBSET Asset : Publish(who, p, photos)
  \/ Tick
  \/ Fault

\* Handlers that are not killed go on, the clock goes on, and the cron job
\* calls the cleanup again and again.
Fairness ==
  /\ \A u \in Upload : WF_vars(UploadStep(u))
  /\ \A j \in Job : WF_vars(DeletionStep(j))
  /\ \A c \in Cleanup : WF_vars(Look(c))
  /\ WF_vars(Tick)

Spec == Init /\ [][Next]_vars /\ Fairness

-----------------------------------------------------------------------------
(* Properties *)

RowType ==
  [status : {"absent", "pending", "ready", "deleting"}, owner : Actor \cup {NoActor},
   token : Upload \cup {NoUpload}, lease : Nat \cup {Never}, expires : Nat \cup {Never}]

Step ==
  {"idle", "done", "reserve", "full", "thumbnail", "ready", "compensate", "claim",
   "objects", "rows"}

\* Every variable has its type, and rows pass campus_map_place_photo_status_
\* check: only a pending row has a token and a lease, and only a ready one may
\* have no date of expiry.
TypeOK ==
  /\ clock \in Time
  /\ row \in [Asset -> RowType]
  /\ \A a \in Asset :
       /\ row[a].status = "pending" <=> row[a].token # NoUpload
       /\ row[a].status = "pending" <=> row[a].lease # Never
       /\ row[a].status \in {"pending", "deleting"} => row[a].expires # Never
  /\ stored \in [Asset -> SUBSET Part]
  /\ shown \in [Place -> (SUBSET Asset) \cup {{NoPlace}}]
  /\ bound \in [Asset -> SUBSET Place]
  /\ job \in [Job -> [step : Step, now : Time, unbound : SUBSET Asset,
                      claimed : SUBSET Asset]]
  /\ faults \in 0..MaxFaults
  /\ overlapped \subseteq Asset

\* A photo that is served has both its objects: no repeated upload, failed put,
\* half-done deletion or late deleter leaves a ready row without them
\* (uploadCampusMapPlacePhoto, deleteClaimedCampusMapPlacePhotoAssets).  The one
\* way it may lose them: its id was reserved again, after one deleter removed
\* the row, while another had yet to delete the objects of that row.
ReadyPhotosStored ==
  \A a \in Asset : row[a].status = "ready" /\ a \notin overlapped => stored[a] = Part

\* A photo some revision shows stays ready, so that nobody claims its objects
\* any more: a discard or a cleanup that waited for the publication to commit
\* takes it no more, though it saw the photo unbound (publish.ts: the binding
\* and expiresAt).
BoundPhotosKept == \A a \in Asset : bound[a] # {} => row[a].status = "ready"

\* An upload under way loses its row to nobody but itself and, after the hour
\* of the row, the cleanup: the failure of a request whose lease another one
\* took over takes nothing away from that one (the upload token).
UploadsKeepTheirRow ==
  [][\A a \in Asset :
       (row[a].status = "pending" /\ row'[a].status = "deleting") =>
         \/ job[row[a].token].step = "compensate"
         \/ row[a].expires <= clock]_vars

\* Whatever crashes and fails, a photo that is not published does not stay:
\* the cleanup finds pending and half-deleted rows as well as ready ones
\* (cleanupCampusMapPlacePhotoAssets, "a daily reconciliation pass").
LeftoversReconciled ==
  \A a \in Asset :
    (row[a].status # "absent" /\ bound[a] = {}) ~> (row[a].status = "absent" \/ bound[a] # {})

=============================================================================
