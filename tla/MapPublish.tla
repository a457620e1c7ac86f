----------------------------- MODULE MapPublish -----------------------------
(***************************************************************************)
(* A contributor publishes one draft of the campus map: the edit session of *)
(* a browser tab (src/lib/campus-map/edit-session.ts and its owner,         *)
(* src/components/campus-map/use-campus-map-edit-session-owner.ts), the     *)
(* consumer that finds out what became of a request (publish-receipt-       *)
(* consumer.ts), and the publisher on the server (publish.ts).              *)
(*                                                                         *)
(* Answers come late or never, and a request the browser has given up may   *)
(* still be carried out.  Tabs may be reloaded and duplicated, the          *)
(* contributor may edit, go back or close the form at any moment, and other *)
(* contributors publish in between.                                         *)
(***************************************************************************)
EXTENDS Integers, FiniteSets

CONSTANTS
  Tab,
  Key,          \* idempotency keys, each used for one publish attempt
  Payload,      \* what a draft says about the place
  Precise,      \* payloads at a precise point, which the duplicate check covers
  Other,        \* publications of other contributors
  MaxEdits,     \* bound: changes of the draft
  MaxMoves,     \* bound: closing the form, going back, reloading, duplicating
  MaxFaults,    \* bound: timeouts, refusals and failures
  NoKey

ASSUME KeyAssumption ==
  /\ Precise \subseteq Payload
  /\ Key \cap (Other \cup {NoKey, "task", "away", "closed"}) = {}

ASSUME BoundAssumption == MaxEdits \in Nat /\ MaxMoves \in Nat /\ MaxFaults \in Nat

VARIABLES
  mode,         \* "add" or "edit", of the draft
  session,      \* [Tab -> CampusMapEditSession]
  saved,        \* [Tab -> the snapshot in its sessionStorage]
  scene,        \* [Tab -> "task", "away", or the attempt whose place is open]
  job,          \* [Tab -> the run of the receipt consumer]
  actors,       \* attempts bound to the account in localStorage
  receipts,     \* [Key -> phase of the receipt in localStorage]
  committed,    \* [Key -> command the server has published]
  late,         \* requests nobody waits for that the server may yet carry out
  others,       \* publications of others this place competes with
  used,         \* attempts made so far
  notices,      \* [Key -> how often "published" was announced]
  forked,       \* whether the draft was changed when it was, or might yet be, published
  edits, moves, faults

browser == <<session, saved, scene, job>>
storage == <<actors, receipts>>
server == <<committed, late, others>>
history == <<used, notices, forked>>
bounds == <<edits, moves, faults>>
vars == <<mode, browser, storage, server, history, bounds>>

-----------------------------------------------------------------------------
\* A draft is a command in the making: a key, a payload and what of the map
\* its author has seen: the revision an edit is based on (as the set of the
\* publications it contains), the duplicates an addition has acknowledged.
NoCommand == [key |-> NoKey, payload |-> "none", saw |-> {}]

\* told: what the last answer showed.  back: where a closed form goes back to.
NoSession == [status |-> "none", draft |-> NoCommand, told |-> {}, back |-> "none"]

Idle ==
  [step |-> "idle", draft |-> NoCommand, transport |-> FALSE, bound |-> FALSE,
   moved |-> FALSE, hidden |-> FALSE]

At(status, draft) == [NoSession EXCEPT !.status = status, !.draft = draft]

Pending ==
  {"publishing", "publish-unknown", "identity-unavailable", "identity-mismatch",
   "recovery-unavailable"}

Init ==
  /\ mode \in {"add", "edit"}
  /\ \E t \in Tab, k \in Key, p \in Payload :
       /\ session = [x \in Tab |-> IF x = t
                       THEN At("editing", [key |-> k, payload |-> p, saw |-> {}])
                       ELSE NoSession]
       /\ scene = [x \in Tab |-> IF x = t THEN "task" ELSE "closed"]
       /\ used = {k}
  /\ saved = session
  /\ job = [t \in Tab |-> Idle]
  /\ actors = {}
  /\ receipts = [k \in Key |-> "none"]
  /\ committed = [k \in Key |-> NoCommand]
  /\ late = {}
  /\ others = {}
  /\ notices = [k \in Key |-> 0]
  /\ forked = FALSE
  /\ edits = 0 /\ moves = 0 /\ faults = 0

Fault == faults < MaxFaults /\ faults' = faults + 1

\* The session of tab t becomes s, and the snapshot with it.
Persist(t, s) ==
  /\ session' = [session EXCEPT ![t] = s]
  /\ saved' = [saved EXCEPT ![t] = s]

Drop(t) == Persist(t, NoSession)

-----------------------------------------------------------------------------
(* The publisher: publishCampusMapChangeset, reconcileCampusMapPublishReceipt *)

Published == {k \in Key : committed[k] # NoCommand}

\* Mutant: a place of the contributor's own is no duplicate.
CurrentOfOthers(c) == IF mode = "edit" THEN others \cup Published
                      ELSE IF c.payload \in Precise THEN others ELSE {}

\* What the author of c ought to have seen: the current revision of the place
\* to edit, or the places of the same name next to the place to add.
Current(c) ==
  IF mode = "edit" THEN others \cup Published
  ELSE IF c.payload \in Precise
       THEN others \cup {k \in Published : committed[k].payload = c.payload}
       ELSE {}

Stale(c) ==
  IF mode = "edit" THEN "conflict" ELSE IF c.saw = {} THEN "warning" ELSE "editing"

Commit(c) == committed' = [committed EXCEPT ![c.key] = c]

\* Mutant: a key is enough to replay.
ReplaysByKey(c) == committed[c.key] # NoCommand

Replays(c) == committed[c.key] = c

\* The answer of the server to c: the status it puts the session in.  Key and
\* command are compared first; a key of another command is refused.
Answers(c, answer) ==
  \/ /\ Replays(c)
     /\ answer = "published"
     /\ UNCHANGED <<committed, faults>>
  \/ /\ committed[c.key] # NoCommand /\ ~Replays(c)
     /\ answer = "editing"
     /\ UNCHANGED <<committed, faults>>
  \/ /\ committed[c.key] = NoCommand
     /\ c.saw = Current(c)
     /\ answer = "published"
     /\ Commit(c)
     /\ UNCHANGED faults
  \/ /\ committed[c.key] = NoCommand
     /\ c.saw # Current(c)
     /\ answer = Stale(c)
     /\ UNCHANGED <<committed, faults>>
  \/ /\ ~Replays(c)
     /\ Fault
     /\ answer \in {"rate-limited", "forbidden", "authentication-required"}
     /\ UNCHANGED committed
  \/ /\ Fault
     /\ answer = "temporarily-unavailable"
     /\ \/ UNCHANGED committed
        \/ committed[c.key] = NoCommand /\ c.saw = Current(c) /\ Commit(c)

\* The server carries out a request whose sender has given up.
CarryOutLate(c) ==
  /\ c \in late
  /\ late' = late \ {c}
  /\ \E answer \in {"published", "editing", "warning", "conflict"} : Answers(c, answer)
  /\ UNCHANGED <<mode, browser, storage, others, history, edits, moves>>

\* Another contributor publishes a revision, adds a similar place or removes it.
OthersPublish ==
  /\ others' \in SUBSET Other \ {others}
  /\ mode = "edit" => others \subseteq others'
  /\ UNCHANGED <<mode, browser, storage, committed, late, history, bounds>>

-----------------------------------------------------------------------------
(* The edit session: transitionCampusMapEdit *)

\* Statuses whose form can be typed into.
Editable ==
  {"editing", "warning", "forbidden", "rate-limited", "temporarily-unavailable", "conflict"}

\* Mutant: the form can be typed into while it is published.
InertNever(s) == FALSE

Inert(s) == s.status = "publishing"

\* After an unclear failure a changed payload needs an attempt of its own.
NeedsFreshKey(t) == session[t].status = "temporarily-unavailable"

\* The key of the next attempt: a new one, or the old one.
NextKey(t, k) ==
  IF NeedsFreshKey(t) THEN k \in Key \ used ELSE k = session[t].draft.key

\* The draft as it was has been published, may yet be, or is in another tab:
\* once changed, there are two drafts.
Diverges(t) ==
  Published # {} \/ late # {} \/ \E u \in Tab \ {t} : scene[u] # "closed"

Change(t) ==
  LET s == session[t]
  IN  /\ s.status \in Editable \cup {"publishing"} /\ ~Inert(s)
      /\ edits < MaxEdits
      /\ \E p \in Payload \ {s.draft.payload}, k \in Key :
           /\ NextKey(t, k)
           /\ Persist(t, At("editing",
                [key |-> k, payload |-> p, saw |-> IF mode = "edit" THEN s.draft.saw ELSE {}]))
           /\ used' = used \cup {k}
      /\ forked' = (forked \/ Diverges(t))
      /\ edits' = edits + 1
      /\ UNCHANGED <<mode, scene, job, storage, server, notices, moves, faults>>

\* Publication of draft d begins, or the outcome of an earlier one is looked for.
Begin(t, d, transport) ==
  /\ Persist(t, At("publishing", d))
  /\ job' = [job EXCEPT ![t] =
       [Idle EXCEPT !.step = "identify", !.draft = d, !.transport = transport]]

Unclear ==
  {"temporarily-unavailable", "publish-unknown", "identity-unavailable"}

\* REQUEST_PUBLISH, RETRY_PUBLISH, CHECK_PUBLISH_RESULT and
\* CONTRIBUTOR_SETUP_COMPLETED: the attempt stays the same, and an unclear
\* outcome is looked up before anything is sent.
Publish(t) ==
  LET s == session[t]
  IN  /\ s.status \in {"editing", "rate-limited", "forbidden"} \cup Unclear
      /\ Begin(t, s.draft, s.status \notin Unclear)
      /\ UNCHANGED <<mode, scene, storage, server, history, bounds>>

\* ACKNOWLEDGE_WARNINGS: a new attempt that has seen the duplicates.
Acknowledge(t) ==
  LET s == session[t]
  IN  /\ s.status = "warning"
      /\ \E k \in Key \ used :
           /\ Begin(t, [s.draft EXCEPT !.key = k, !.saw = s.told], TRUE)
           /\ used' = used \cup {k}
      /\ UNCHANGED <<mode, scene, storage, server, notices, forked, bounds>>

\* CONTINUE_FROM_CONFLICT: a new attempt on the revision the answer showed.
Rebase(t) ==
  LET s == session[t]
  IN  /\ s.status = "conflict"
      /\ \E k \in Key \ used :
           /\ Persist(t, At("editing", [s.draft EXCEPT !.key = k, !.saw = s.told]))
           /\ used' = used \cup {k}
      /\ UNCHANGED <<mode, scene, job, storage, server, notices, forked, bounds>>

\* CONTINUE_EDITING where the account may not publish or there is no lock.
ContinueEditing(t) ==
  /\ session[t].status \in {"recovery-unavailable", "forbidden"}
  /\ Persist(t, At("editing", session[t].draft))
  /\ UNCHANGED <<mode, scene, job, storage, server, history, bounds>>

\* Mutant: a form is asked about even while it is published.
ClosableAlways(s) == s.status # "none"

\* While its draft is published, a session takes no event but the outcome.
Closable(s) == s.status \notin {"none", "publishing"}

\* REQUEST_CLOSE: the draft is asked about before it goes.
Asked(s) ==
  [s EXCEPT !.status = "confirm-discard",
            !.back = IF s.status = "confirm-discard" THEN s.back ELSE s.status]

Close(t) ==
  /\ moves < MaxMoves
  /\ moves' = moves + 1
  /\ IF Closable(session[t])
     THEN Persist(t, Asked(session[t]))
     ELSE UNCHANGED <<session, saved>>
  /\ UNCHANGED <<mode, storage, server, history, edits, faults>>

Escape(t) ==
  /\ session[t].status # "confirm-discard" /\ Closable(session[t])
  /\ Close(t)
  /\ UNCHANGED <<scene, job>>

\* The scene changes under a run, which will find that out when it ends.
GoBack(t) ==
  /\ scene[t] = "task"
  /\ scene' = [scene EXCEPT ![t] = "away"]
  /\ job' = [job EXCEPT ![t].moved = job[t] # Idle]
  /\ Close(t)

\* CONTINUE_EDITING in the question: back to where the form was, in its scene.
KeepEditing(t) ==
  /\ session[t].status = "confirm-discard"
  /\ Persist(t, [session[t] EXCEPT !.status = session[t].back, !.back = "none"])
  /\ scene' = [scene EXCEPT ![t] = "task"]
  /\ UNCHANGED <<mode, job, storage, server, history, bounds>>

Leave(t) ==
  /\ session' = [session EXCEPT ![t] = NoSession]
  /\ scene' = [scene EXCEPT ![t] = "away"]
  /\ UNCHANGED <<mode, job, storage, server, history, bounds>>

\* DISCARD
Discard(t) ==
  /\ session[t].status = "confirm-discard"
  /\ saved' = [saved EXCEPT ![t] = NoSession]
  /\ Leave(t)

\* RETURN_LATER
ReturnLater(t) ==
  /\ session[t].status = "identity-mismatch"
  /\ UNCHANGED saved
  /\ Leave(t)

-----------------------------------------------------------------------------
(* The page starts: decodeCampusMapEditSnapshot and the owner's first effect *)

\* A draft whose publication is unclear stays hidden until its outcome is
\* known, unless the address says that the contributor is somewhere else.
Start(t, s, where) ==
  \/ /\ s.status \in Pending /\ where = "task"
     /\ session' = [session EXCEPT ![t] = NoSession]
     /\ saved' = [saved EXCEPT ![t] = s]
     /\ scene' = [scene EXCEPT ![t] = "task"]
     /\ job' = [job EXCEPT ![t] =
          [Idle EXCEPT !.step = "identify", !.draft = s.draft, !.hidden = TRUE]]
  \/ /\ s.status = "none" \/ (s.status \in Pending /\ where # "task")
     /\ Drop(t)
     /\ scene' = [scene EXCEPT ![t] = IF where = "task" THEN "away" ELSE where]
     /\ job' = [job EXCEPT ![t] = Idle]
  \/ /\ s.status \notin Pending \cup {"none"}
     /\ Persist(t, IF s.status = "authentication-required" THEN At("editing", s.draft) ELSE s)
     /\ scene' = [scene EXCEPT ![t] = "task"]
     /\ job' = [job EXCEPT ![t] = Idle]

\* A reload, a crash, or the way to the login and back.
Reload(t) ==
  /\ scene[t] # "closed"
  /\ moves < MaxMoves
  /\ moves' = moves + 1
  /\ Start(t, saved[t], scene[t])
  /\ late' = late \cup IF job[t].step \in {"transport", "retry"} THEN {job[t].draft} ELSE {}
  /\ UNCHANGED <<mode, storage, committed, others, used, notices, forked, edits, faults>>

\* A duplicated tab starts with a copy of the snapshot.
Duplicate(t, from) ==
  /\ scene[t] = "closed" /\ scene[from] # "closed"
  /\ moves < MaxMoves
  /\ moves' = moves + 1
  /\ Start(t, saved[from], scene[from])
  /\ UNCHANGED <<mode, storage, server, used, notices, forked, edits, faults>>

-----------------------------------------------------------------------------
(* The receipt consumer: CampusMapPublishReceiptConsumer.consume *)

Goes(t, step) == job' = [job EXCEPT ![t].step = step]

\* What the owner makes of an outcome that is not a place to open.
Outcome(t, s, outcome, told) ==
  IF s.status \notin Pending THEN UNCHANGED <<session, saved>>
  ELSE IF outcome = "identity-mismatch"
       THEN /\ session' = [session EXCEPT ![t] = At(outcome, s.draft)]
            /\ saved' = [saved EXCEPT ![t] = NoSession]
       ELSE Persist(t, [At(outcome, s.draft) EXCEPT !.told = told])

\* Mutant: a draft goes though the outcome is not known.
ResolveForgetful(t, outcome, told) ==
  LET s == IF job[t].hidden THEN saved[t] ELSE session[t]
  IN  /\ job' = [job EXCEPT ![t] = Idle]
      /\ IF s.status = "none" THEN UNCHANGED <<session, saved>>
         ELSE IF \/ outcome \in {"superseded", "publish-unknown"} \/ job[t].moved
                 \/ outcome = "handed-off" /\ s.status \in Pending
              THEN Drop(t)
         ELSE IF outcome = "handed-off" THEN UNCHANGED <<session, saved>>
         ELSE Outcome(t, s, outcome, told)

\* The run is over: a draft whose author has gone elsewhere goes, unless its
\* place was opened; any other outcome is shown by a session that awaits one.
Resolve(t, outcome, told) ==
  LET s == IF job[t].hidden THEN saved[t] ELSE session[t]
  IN  /\ job' = [job EXCEPT ![t] = Idle]
      /\ IF s.status = "none" THEN UNCHANGED <<session, saved>>
         ELSE IF \/ outcome = "superseded" \/ job[t].moved
                 \/ outcome = "handed-off" /\ s.status \in Pending
              THEN Drop(t)
         ELSE IF outcome = "handed-off" THEN UNCHANGED <<session, saved>>
         ELSE Outcome(t, s, outcome, told)

\* The Web Lock of an attempt is held while its receipt is consumed.
LockFree(t) ==
  \A u \in Tab \ {t} : ~(job[u].step = "refresh" /\ job[u].draft.key = job[t].draft.key)

\* Who am I, and is this attempt mine?  An attempt is bound when it is first sent.
Identify(t) ==
  LET j == job[t]
      bound == j.draft.key \in actors \/ j.transport
  IN  /\ j.step = "identify"
      /\ \/ /\ LockFree(t)
            /\ actors' = IF bound THEN actors \cup {j.draft.key} ELSE actors
            /\ job' = [job EXCEPT ![t].bound = bound,
                                  ![t].step = IF j.transport THEN "transport" ELSE "reconcile"]
            /\ UNCHANGED <<session, saved, faults>>
         \/ /\ Fault
            /\ \E outcome \in {"identity-unavailable", "authentication-required",
                               "recovery-unavailable"} : Resolve(t, outcome, {})
            /\ UNCHANGED actors
      /\ UNCHANGED <<mode, scene, receipts, server, history, edits, moves>>

\* The server answers in time, to the first request or to the retry.
Answered(t) ==
  /\ job[t].step \in {"transport", "retry"}
  /\ \E answer \in Editable \cup {"published", "authentication-required"} :
       /\ Answers(job[t].draft, answer)
       /\ IF answer = "published"
          THEN Goes(t, "receipt") /\ UNCHANGED <<session, saved>>
          ELSE Resolve(t, answer,
                 IF answer \in {"warning", "conflict"} THEN Current(job[t].draft) ELSE {})
  /\ UNCHANGED <<mode, scene, storage, late, others, history, edits, moves>>

\* Nothing comes within timeoutMs; the request goes on.
TimesOut(t) ==
  /\ job[t].step \in {"transport", "retry"}
  /\ Fault
  /\ late' = late \cup {job[t].draft}
  /\ IF job[t].step = "transport"
     THEN Goes(t, "reconcile") /\ UNCHANGED <<session, saved>>
     ELSE Resolve(t, "publish-unknown", {})
  /\ UNCHANGED <<mode, scene, storage, committed, others, history, edits, moves>>

Committed(c) == committed[c.key] = c

\* The server is asked what became of the attempt before it is sent again.
Reconcile(t) ==
  LET j == job[t]
      k == j.draft.key
  IN  /\ j.step = "reconcile"
      /\ \/ /\ Committed(j.draft)
            /\ LockFree(t)
            /\ actors' = actors \cup {k}
            /\ Goes(t, "receipt")
            /\ UNCHANGED <<session, saved, faults>>
         \/ /\ committed[k] # NoCommand /\ ~Committed(j.draft)
            /\ Resolve(t, "identity-mismatch", {})
            /\ UNCHANGED <<actors, faults>>
         \/ /\ committed[k] = NoCommand
            /\ IF j.bound
               THEN Goes(t, "retry") /\ UNCHANGED <<session, saved>>
               ELSE Resolve(t, "identity-unavailable", {})
            /\ UNCHANGED <<actors, faults>>
         \/ /\ Fault
            /\ \E outcome \in {"publish-unknown", "authentication-required"} :
                 Resolve(t, outcome, {})
            /\ UNCHANGED actors
      /\ UNCHANGED <<mode, scene, receipts, server, history, edits, moves>>

\* Whether the place published under k is open in tab t; an edit has one place.
IsOpen(t, k) ==
  scene[t] \in Key /\ (mode = "edit" \/ scene[t] = k)

\* Mutant: a receipt is consumed though another tab has done so.
DoneHere(t, k) == IsOpen(t, k)

\* The receipt has been consumed already, or its place is open.
Done(t, k) == receipts[k] = "completed" \/ IsOpen(t, k)

Consume(t) ==
  LET k == job[t].draft.key
  IN  /\ job[t].step = "receipt"
      /\ \/ /\ LockFree(t)
            /\ IF Done(t, k)
               THEN /\ receipts' = [receipts EXCEPT ![k] = "completed"]
                    /\ Resolve(t, "handed-off", {})
               ELSE /\ receipts' = [receipts EXCEPT ![k] = IF @ = "none" THEN "pending" ELSE @]
                    /\ Goes(t, "refresh") /\ UNCHANGED <<session, saved>>
            /\ UNCHANGED faults
         \/ /\ Fault
            /\ Resolve(t, "recovery-unavailable", {})
            /\ UNCHANGED receipts
      /\ UNCHANGED <<mode, scene, actors, server, history, edits, moves>>

\* The map has been read again: the place opens and "published" is announced,
\* unless the contributor went elsewhere in the meantime.
HandOff(t) ==
  LET k == job[t].draft.key
  IN  /\ job[t].step = "refresh"
      /\ \/ /\ ~job[t].moved
            /\ receipts' = [receipts EXCEPT ![k] = "completed"]
            /\ scene' = [scene EXCEPT ![t] = k]
            /\ notices' = [notices EXCEPT ![k] = @ + 1]
            /\ Resolve(t, "handed-off", {})
            /\ UNCHANGED faults
         \/ /\ job[t].moved
            /\ receipts' = [receipts EXCEPT ![k] = "pending"]
            /\ Resolve(t, "superseded", {})
            /\ UNCHANGED <<scene, notices, faults>>
         \/ /\ Fault
            /\ Resolve(t, "publish-unknown", {})
            /\ UNCHANGED <<scene, notices, receipts>>
      /\ UNCHANGED <<mode, actors, server, used, forked, edits, moves>>

-----------------------------------------------------------------------------
Contributor(t) ==
  \/ Change(t) \/ Publish(t) \/ Acknowledge(t) \/ Rebase(t) \/ ContinueEditing(t)
  \/ Escape(t) \/ GoBack(t) \/ KeepEditing(t) \/ Discard(t) \/ ReturnLater(t)
  \/ Reload(t) \/ \E from \in Tab : Duplicate(t, from)

Consumer(t) ==
  \/ Identify(t) \/ Answered(t) \/ TimesOut(t) \/ Reconcile(t) \/ Consume(t) \/ HandOff(t)

Next ==
  \/ \E t \in Tab : Contributor(t) \/ Consumer(t)
  \/ \E c \in late : CarryOutLate(c)
  \/ OthersPublish

Spec == Init /\ [][Next]_vars

-----------------------------------------------------------------------------
(* Properties *)

Status ==
  {"none", "editing", "confirm-discard", "publishing", "warning", "authentication-required",
   "forbidden", "rate-limited", "temporarily-unavailable", "publish-unknown",
   "identity-unavailable", "identity-mismatch", "recovery-unavailable", "conflict"}

Command == [key : Key, payload : Payload, saw : SUBSET (Other \cup Key)]

SessionType ==
  {NoSession} \cup
  [status : Status \ {"none"}, draft : Command, told : SUBSET (Other \cup Key), back : Status]

\* Every variable has its type; a session that can be published has no run of
\* the consumer under way, so that a tab never has two.
TypeOK ==
  /\ mode \in {"add", "edit"}
  /\ session \in [Tab -> SessionType]
  /\ saved \in [Tab -> SessionType]
  /\ scene \in [Tab -> {"task", "away", "closed"} \cup Key]
  /\ job \in [Tab -> [step : {"idle", "identify", "transport", "reconcile", "retry", "receipt",
                              "refresh"},
                      draft : Command \cup {NoCommand}, transport : BOOLEAN,
                      bound : BOOLEAN, moved : BOOLEAN, hidden : BOOLEAN]]
  /\ \A t \in Tab : session[t].status \in Editable \cup Unclear => job[t] = Idle
  /\ actors \subseteq Key
  /\ receipts \in [Key -> {"none", "pending", "completed"}]
  /\ committed \in [Key -> Command \cup {NoCommand}]
  /\ late \subseteq Command
  /\ others \subseteq Other
  /\ used \subseteq Key
  /\ notices \in [Key -> Nat]
  /\ forked \in BOOLEAN
  /\ edits \in 0..MaxEdits /\ moves \in 0..MaxMoves /\ faults \in 0..MaxFaults

\* One draft adds one place, and a second one only if the contributor was shown
\* the first and asked for it ("double clicks, retries after a timeout and the
\* way back from the login must not add a place again"): late requests, retries,
\* duplicated tabs and acknowledged warnings make no second one.  What is
\* published or on its way when the draft is changed was another draft.
OnePlacePerDraft ==
  mode = "add" /\ ~forked =>
  \A k, l \in Published : k = l \/ k \in committed[l].saw \/ l \in committed[k].saw

\* The form goes away as published only when what is published under its key
\* is what the form says, whatever was typed since the request was sent.
HandOffIsOfThisDraft ==
  [][\A t \in Tab :
       (/\ session[t].status \in Pending \/ job[t].hidden
        /\ session'[t].status = "none" /\ saved'[t].status = "none"
        /\ scene'[t] \in Key) =>
       Committed(IF job[t].hidden THEN saved[t].draft ELSE session[t].draft)]_vars

\* A draft that has not been published goes only with its author's consent:
\* discarded, left for another scene, or shown to belong to another request.
DraftsKept ==
  [][\A t \in Tab :
       (/\ session[t].status # "none" \/ saved[t].status # "none"
        /\ session'[t].status = "none" /\ saved'[t].status = "none") =>
       LET s == IF session[t].status = "none" THEN saved[t] ELSE session[t]
       IN  \/ Committed(s.draft)
           \/ s.status \in {"confirm-discard", "identity-mismatch"}
           \/ job[t].moved \/ scene[t] # "task"]_vars

\* "Published" is announced once, and never again by going back or reloading:
\* over all tabs and reloads a receipt opens its place at most once.
OneNotice == \A k \in Key : notices[k] <= 1

\* A form that says it is publishing has a run of the consumer that will say
\* otherwise: going back, closing, coming back from a question, reloading and
\* duplicating the tab leave none that says so for ever.
PublishingIsUnderWay ==
  \A t \in Tab : session[t].status = "publishing" => job[t] # Idle

=============================================================================
