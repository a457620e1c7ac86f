-------------------------- MODULE MapPublishProofs --------------------------
(***************************************************************************)
(* Proofs about MapPublish, for every number of tabs, attempts, payloads    *)
(* and publications of others, and for every bound.                         *)
(***************************************************************************)
EXTENDS MapPublish, TLAPS

(***************************************************************************)
(* The inductive invariant.                                                 *)
(***************************************************************************)
Scene == {"task", "away", "closed"} \cup Key

JobRecord ==
  [step : {"idle", "identify", "transport", "reconcile", "retry", "receipt", "refresh"},
   draft : Command \cup {NoCommand}, transport : BOOLEAN,
   bound : BOOLEAN, moved : BOOLEAN, hidden : BOOLEAN]

\* The question remembers the form it was asked about, which was not publishing.
SessionOK(s) ==
  /\ s \in SessionType
  /\ s.status = "confirm-discard" => s.back \notin {"none", "confirm-discard", "publishing"}

Typed ==
  /\ mode \in {"add", "edit"}
  /\ session \in [Tab -> SessionType] /\ \A t \in Tab : SessionOK(session[t])
  /\ saved \in [Tab -> SessionType] /\ \A t \in Tab : SessionOK(saved[t])
  /\ scene \in [Tab -> Scene]
  /\ job \in [Tab -> JobRecord]
  /\ actors \subseteq Key
  /\ receipts \in [Key -> {"none", "pending", "completed"}]
  /\ committed \in [Key -> Command \cup {NoCommand}]
  /\ late \subseteq Command
  /\ others \subseteq Other
  /\ used \subseteq Key
  /\ notices \in [Key -> Nat]
  /\ forked \in BOOLEAN
  /\ edits \in 0..MaxEdits /\ moves \in 0..MaxMoves /\ faults \in 0..MaxFaults

\* A tab with session s, snapshot d, scene c and run j.
TabOK(s, d, c, j) ==
  /\ j.step = "idle" => j = Idle
  /\ j.step # "idle" =>
       /\ j.draft \in Command
       /\ c \in {"task", "away"}
       /\ s.status # "none" => ~j.hidden /\ s.draft = j.draft /\ s.status = "publishing"
       /\ s.status = "none" /\ ~j.hidden => d = NoSession
       /\ j.hidden => d.status \in Pending /\ d.draft = j.draft
  /\ c \in Key => {s.status, d.status} \subseteq {"none", "confirm-discard"}
  /\ c = "closed" => s = NoSession /\ d = NoSession /\ j = Idle
  /\ s.status # "none" => d = s \/ (s.status = "identity-mismatch" /\ d = NoSession)

TabsOK == \A t \in Tab : TabOK(session[t], saved[t], scene[t], job[t])

\* A run looks for the place of a draft only once it is published.
ReceiptsAreEarned ==
  \A t \in Tab : job[t].step \in {"receipt", "refresh"} => Committed(job[t].draft)

\* A receipt is completed when its place opens, and its lock admits one run.
ConsumedOnce ==
  /\ \A k \in Key : notices[k] = 0 \/ (notices[k] = 1 /\ receipts[k] = "completed")
  /\ \A t \in Tab : job[t].step = "refresh" => receipts[job[t].draft.key] # "completed"
  /\ \A t, u \in Tab :
       job[t].step = "refresh" /\ job[u].step = "refresh" /\ job[t].draft.key = job[u].draft.key
       => t = u

IInv == Typed /\ TabsOK /\ ReceiptsAreEarned /\ ConsumedOnce /\ PublishingIsUnderWay

(***************************************************************************)
(* Sessions.                                                                *)
(***************************************************************************)
LEMMA Drafts ==
  \A s \in SessionType : s.status # "none" => s.draft \in Command /\ s.status \in Status
BY DEF SessionType, NoSession

LEMMA NoSessions ==
  /\ NoSession \in SessionType /\ NoSession.status = "none" /\ SessionOK(NoSession)
  /\ \A s \in SessionType : s.status = "none" => s = NoSession
BY DEF NoSession, SessionType, SessionOK

LEMMA AtTypes ==
  ASSUME NEW x \in Status \ {"none", "confirm-discard"}, NEW d \in Command
  PROVE  /\ At(x, d) \in SessionType /\ SessionOK(At(x, d))
         /\ At(x, d).status = x /\ At(x, d).draft = d
BY DEF At, NoSession, SessionType, Status, SessionOK

LEMMA AskedTypes ==
  ASSUME NEW s \in SessionType, SessionOK(s), Closable(s)
  PROVE  /\ Asked(s) \in SessionType /\ SessionOK(Asked(s))
         /\ Asked(s).status = "confirm-discard" /\ Asked(s).draft = s.draft
<1>. DEFINE r == Asked(s)
<1>1. s \in [status : Status \ {"none"}, draft : Command, told : SUBSET (Other \cup Key),
             back : Status]
  BY DEF NoSession, SessionType, Closable
<1>2. /\ r.status = "confirm-discard" /\ r.draft = s.draft
      /\ r.back = IF s.status = "confirm-discard" THEN s.back ELSE s.status
  BY <1>1 DEF Asked
<1>3. r \in SessionType
  BY <1>1 DEF Asked, SessionType, Status
<1>4. SessionOK(r) BY <1>2, <1>3 DEF SessionOK, Closable
<1> QED BY <1>2, <1>3, <1>4

LEMMA KeptTypes ==
  ASSUME NEW s \in SessionType, SessionOK(s), s.status = "confirm-discard"
  PROVE  LET r == [s EXCEPT !.status = s.back, !.back = "none"]
         IN  /\ r \in SessionType /\ SessionOK(r)
             /\ r.status = s.back /\ r.status \notin {"none", "confirm-discard", "publishing"}
             /\ r.draft = s.draft
<1>. DEFINE r == [s EXCEPT !.status = s.back, !.back = "none"]
<1>1. s \in [status : Status \ {"none"}, draft : Command, told : SUBSET (Other \cup Key),
             back : Status]
  BY DEF NoSession, SessionType
<1>2. s.back \in Status /\ s.back \notin {"none", "confirm-discard", "publishing"}
  BY <1>1 DEF SessionOK
<1>3. r.status = s.back /\ r.draft = s.draft
  BY <1>1
<1>4. r \in SessionType
  BY <1>1, <1>2 DEF SessionType, Status
<1> QED BY <1>2, <1>3, <1>4 DEF SessionOK

LEMMA ToldTypes ==
  ASSUME NEW x \in Status \ {"none", "confirm-discard"}, NEW d \in Command,
         NEW told \in SUBSET (Other \cup Key)
  PROVE  LET r == [At(x, d) EXCEPT !.told = told]
         IN  r \in SessionType /\ SessionOK(r) /\ r.status = x /\ r.draft = d
BY DEF At, NoSession, SessionType, Status, SessionOK

\* Keys are not what no key is.
LEMMA Commands ==
  /\ NoCommand \notin Command
  /\ \A c \in Command : c.key \in Key /\ c.saw \subseteq Other \cup Key
BY KeyAssumption DEF NoCommand, Command

LEMMA Jobs == Idle \in JobRecord /\ Idle.step = "idle" /\ Idle.moved = FALSE
BY DEF Idle, JobRecord

LEMMA TypeParts == IInv => TypeOK
<1> SUFFICES ASSUME IInv PROVE TypeOK OBVIOUS
<1>1. \A t \in Tab : session[t].status \in Editable \cup Unclear => job[t] = Idle
  <2> SUFFICES ASSUME NEW t \in Tab, session[t].status \in Editable \cup Unclear
               PROVE  job[t] = Idle
    OBVIOUS
  <2>1. session[t].status # "none" /\ session[t].status # "publishing"
    BY DEF Editable, Unclear
  <2> QED BY <2>1 DEF IInv, TabsOK, TabOK
<1> QED BY <1>1 DEF IInv, Typed, TypeOK, JobRecord, Scene

(***************************************************************************)
(* Steps of one tab.                                                        *)
(***************************************************************************)
Rest ==
  /\ mode \in {"add", "edit"}
  /\ actors \subseteq Key
  /\ receipts \in [Key -> {"none", "pending", "completed"}]
  /\ committed \in [Key -> Command \cup {NoCommand}]
  /\ late \subseteq Command
  /\ others \subseteq Other
  /\ used \subseteq Key
  /\ notices \in [Key -> Nat]
  /\ forked \in BOOLEAN
  /\ edits \in 0..MaxEdits /\ moves \in 0..MaxMoves /\ faults \in 0..MaxFaults

\* Nothing but tab t changes, and t stays in order.
Good(t) ==
  /\ session' = [session EXCEPT ![t] = session'[t]]
  /\ saved' = [saved EXCEPT ![t] = saved'[t]]
  /\ scene' = [scene EXCEPT ![t] = scene'[t]]
  /\ job' = [job EXCEPT ![t] = job'[t]]
  /\ session'[t] \in SessionType /\ SessionOK(session'[t])
  /\ saved'[t] \in SessionType /\ SessionOK(saved'[t])
  /\ scene'[t] \in Scene
  /\ job'[t] \in JobRecord
  /\ TabOK(session'[t], saved'[t], scene'[t], job'[t])
  /\ session'[t].status = "publishing" => job'[t] # Idle

\* The same for a step the consumer takes no part in.
Quiet(t) ==
  /\ Good(t)
  /\ job'[t].step \in {"receipt", "refresh"} =>
       job'[t].step = job[t].step /\ job'[t].draft = job[t].draft
  /\ UNCHANGED <<storage, committed, others, notices>>
  /\ Rest'

LEMMA TypedRest == Typed => Rest
BY DEF Typed, Rest

LEMMA Bounds == MaxEdits \in Nat /\ MaxMoves \in Nat /\ MaxFaults \in Nat
BY BoundAssumption

LEMMA TypingSteps ==
  ASSUME Typed, TabsOK, NEW t \in Tab,
         Change(t) \/ Rebase(t) \/ ContinueEditing(t)
  PROVE  Quiet(t)
<1>. DEFINE s == session[t]
<1>0. /\ s \in SessionType /\ saved[t] \in SessionType /\ scene[t] \in Scene
      /\ job[t] \in JobRecord
  BY DEF Typed
<1>1. s.status # "none" /\ s.status # "publishing"
  BY DEF Change, Rebase, ContinueEditing, Editable, Inert
<1>2. job[t] = Idle /\ scene[t] \in {"task", "away"}
  <2>1. TabOK(s, saved[t], scene[t], job[t]) BY DEF TabsOK
  <2>2. job[t] = Idle BY <1>1, <2>1 DEF TabOK
  <2>3. s # NoSession BY <1>1, NoSessions
  <2>4. s.status # "confirm-discard"
    BY DEF Change, Rebase, ContinueEditing, Editable, Inert
  <2> QED BY <1>0, <1>1, <2>1, <2>2, <2>3, <2>4 DEF TabOK, Scene
<1>3. s.draft \in Command BY <1>0, <1>1, Drafts
<1>4. PICK d \in Command : Persist(t, At("editing", d))
  <2>1. CASE ContinueEditing(t)
    BY <1>3, <2>1 DEF ContinueEditing
  <2>2. CASE Rebase(t)
    <3>1. s.told \subseteq Other \cup Key
      BY <1>0, <1>1 DEF SessionType, NoSession
    <3>2. PICK k \in Key : Persist(t, At("editing", [s.draft EXCEPT !.key = k, !.saw = s.told]))
      BY <2>2 DEF Rebase
    <3>3. [s.draft EXCEPT !.key = k, !.saw = s.told] \in Command
      BY <1>3, <3>1 DEF Command
    <3> QED BY <3>2, <3>3
  <2>3. CASE Change(t)
    <3>1. PICK p \in Payload, k \in Key :
            Persist(t, At("editing",
              [key |-> k, payload |-> p, saw |-> IF mode = "edit" THEN s.draft.saw ELSE {}]))
      BY <2>3 DEF Change
    <3>2. [key |-> k, payload |-> p, saw |-> IF mode = "edit" THEN s.draft.saw ELSE {}] \in Command
      BY <1>3 DEF Command
    <3> QED BY <3>1, <3>2
  <2> QED BY <2>1, <2>2, <2>3
<1>5. /\ At("editing", d) \in SessionType /\ SessionOK(At("editing", d))
      /\ At("editing", d).status = "editing"
  BY AtTypes DEF Status
<1>6. session'[t] = At("editing", d) /\ saved'[t] = At("editing", d)
  BY <1>4 DEF Persist, Typed
<1>7. scene' = scene /\ job' = job
  BY DEF Change, Rebase, ContinueEditing
<1>8. Good(t)
  <2>1. TabOK(session'[t], saved'[t], scene'[t], job'[t])
    BY <1>2, <1>5, <1>6, <1>7, Jobs, KeyAssumption DEF TabOK
  <2> QED BY <1>0, <1>4, <1>5, <1>6, <1>7, <2>1 DEF Good, Persist, Typed
<1>9. Rest'
  <2>1. Rest BY TypedRest
  <2>2. CASE Change(t)
    BY <2>1, <2>2, Bounds DEF Change, Rest, storage, server
  <2>3. CASE Rebase(t)
    BY <2>1, <2>3 DEF Rebase, Rest, storage, server, bounds
  <2>4. CASE ContinueEditing(t)
    BY <2>1, <2>4 DEF ContinueEditing, Rest, storage, server, bounds, history
  <2> QED BY <2>2, <2>3, <2>4
<1> QED
  BY <1>2, <1>7, <1>8, <1>9, Jobs DEF Quiet, Change, Rebase, ContinueEditing, history,
     storage, server

LEMMA PublishSteps ==
  ASSUME Typed, TabsOK, NEW t \in Tab, Publish(t) \/ Acknowledge(t)
  PROVE  Quiet(t)
<1>. DEFINE s == session[t]
<1>0. /\ s \in SessionType /\ saved[t] \in SessionType /\ scene[t] \in Scene
      /\ job[t] \in JobRecord
  BY DEF Typed
<1>1. s.status \notin {"none", "confirm-discard"}
  BY DEF Publish, Acknowledge, Unclear
<1>2. scene[t] \in {"task", "away"}
  <2>1. TabOK(s, saved[t], scene[t], job[t]) BY DEF TabsOK
  <2>2. s # NoSession BY <1>1, NoSessions
  <2> QED BY <1>0, <1>1, <2>1, <2>2 DEF TabOK, Scene
<1>3. s.draft \in Command BY <1>0, <1>1, Drafts
<1>4. PICK d \in Command, transport \in BOOLEAN : Begin(t, d, transport)
  <2>1. CASE Publish(t)
    BY <1>3, <2>1 DEF Publish
  <2>2. CASE Acknowledge(t)
    <3>1. s.told \subseteq Other \cup Key
      BY <1>0, <1>1 DEF SessionType, NoSession
    <3>2. PICK k \in Key : Begin(t, [s.draft EXCEPT !.key = k, !.saw = s.told], TRUE)
      BY <2>2 DEF Acknowledge
    <3>3. [s.draft EXCEPT !.key = k, !.saw = s.told] \in Command
      BY <1>3, <3>1 DEF Command
    <3> QED BY <3>2, <3>3
  <2> QED BY <2>1, <2>2
<1>5. /\ At("publishing", d) \in SessionType /\ SessionOK(At("publishing", d))
      /\ At("publishing", d).status = "publishing" /\ At("publishing", d).draft = d
  BY AtTypes DEF Status
<1>6. session'[t] = At("publishing", d) /\ saved'[t] = At("publishing", d) /\ scene' = scene
  BY <1>4 DEF Begin, Persist, Typed, Publish, Acknowledge
<1>7. /\ job'[t] = [Idle EXCEPT !.step = "identify", !.draft = d, !.transport = transport]
      /\ job'[t] \in JobRecord /\ job'[t].step = "identify" /\ job'[t].draft = d
      /\ ~job'[t].hidden
  BY <1>4 DEF Begin, Typed, Idle, JobRecord
<1>8. Good(t)
  <2>1. TabOK(session'[t], saved'[t], scene'[t], job'[t])
    BY <1>2, <1>5, <1>6, <1>7, KeyAssumption DEF TabOK
  <2>2. job'[t] # Idle BY <1>7, Jobs
  <2> QED BY <1>0, <1>4, <1>5, <1>6, <1>7, <2>1, <2>2 DEF Good, Begin, Persist, Typed
<1>9. Rest'
  <2>1. Rest BY TypedRest
  <2>2. CASE Publish(t)
    BY <2>1, <2>2 DEF Publish, Rest, storage, server, bounds, history
  <2>3. CASE Acknowledge(t)
    BY <2>1, <2>3 DEF Acknowledge, Rest, storage, server, bounds
  <2> QED BY <2>2, <2>3
<1> QED
  BY <1>7, <1>8, <1>9 DEF Quiet, Publish, Acknowledge, history, storage, server

\* A run whose contributor goes elsewhere learns of it.
LEMMA MovedJobs ==
  ASSUME NEW j \in JobRecord, NEW m \in BOOLEAN
  PROVE  LET r == [j EXCEPT !.moved = m]
         IN  /\ r \in JobRecord /\ r.step = j.step /\ r.draft = j.draft
             /\ r.hidden = j.hidden
             /\ j.moved = m => r = j
BY DEF JobRecord

\* A change of one record of a function is a change at one place.
LEMMA OneTabChanges ==
  ASSUME NEW S, NEW T, NEW f \in [S -> T], NEW x \in S, NEW m, NEW g,
         g = [f EXCEPT ![x].moved = m] \/ g = [f EXCEPT ![x].step = m] \/ g = f
  PROVE  g = [f EXCEPT ![x] = g[x]]
OBVIOUS

\* Whatever is asked of it, a session stays the session of its run.
LEMMA Closing ==
  ASSUME Typed, TabsOK, NEW t \in Tab, Close(t)
  PROVE  /\ session'[t] \in SessionType /\ SessionOK(session'[t])
         /\ saved'[t] \in SessionType /\ SessionOK(saved'[t])
         /\ session' = [session EXCEPT ![t] = session'[t]]
         /\ saved' = [saved EXCEPT ![t] = saved'[t]]
         /\ \/ UNCHANGED <<session, saved>>
            \/ /\ Closable(session[t]) /\ session'[t].status = "confirm-discard"
               /\ session'[t].draft = session[t].draft /\ saved'[t] = session'[t]
<1>1. session[t] \in SessionType /\ SessionOK(session[t])
  BY DEF Typed
<1>2. CASE Closable(session[t])
  <2>1. /\ Asked(session[t]) \in SessionType /\ SessionOK(Asked(session[t]))
        /\ Asked(session[t]).status = "confirm-discard"
        /\ Asked(session[t]).draft = session[t].draft
    BY <1>1, <1>2, AskedTypes
  <2>2. Persist(t, Asked(session[t])) BY <1>2 DEF Close
  <2>3. session'[t] = Asked(session[t]) /\ saved'[t] = Asked(session[t])
    BY <2>2 DEF Persist, Typed
  <2> QED BY <1>2, <2>1, <2>2, <2>3 DEF Persist
<1>3. CASE ~Closable(session[t])
  BY <1>3 DEF Close, Typed
<1> QED BY <1>2, <1>3

LEMMA CloseSteps ==
  ASSUME Typed, TabsOK, PublishingIsUnderWay, NEW t \in Tab, Escape(t) \/ GoBack(t)
  PROVE  Quiet(t)
<1>0. /\ session[t] \in SessionType /\ saved[t] \in SessionType /\ scene[t] \in Scene
      /\ job[t] \in JobRecord /\ TabOK(session[t], saved[t], scene[t], job[t])
  BY DEF Typed, TabsOK
<1>1. Close(t) BY DEF Escape, GoBack
<1>2. /\ scene' = [scene EXCEPT ![t] = scene'[t]] /\ scene'[t] \in {"task", "away"}
      /\ job' = [job EXCEPT ![t] = job'[t]]
      /\ \E m \in BOOLEAN : /\ job'[t] = [job[t] EXCEPT !.moved = m]
                            /\ job[t] = Idle => m = FALSE
  <2>1. CASE Escape(t)
    <3>1. session[t] # NoSession /\ session[t].status \notin {"none", "confirm-discard"}
      BY <2>1, NoSessions DEF Escape, Closable
    <3>2. scene[t] \in {"task", "away"}
      BY <1>0, <3>1 DEF TabOK, Scene
    <3>3. scene' = scene /\ job' = job BY <2>1 DEF Escape
    <3>4. job[t] = [job[t] EXCEPT !.moved = job[t].moved] /\ job[t].moved \in BOOLEAN
      BY <1>0 DEF JobRecord
    <3> QED BY <3>2, <3>3, <3>4, Jobs DEF Typed
  <2>2. CASE GoBack(t)
    <3>1. /\ scene' = [scene EXCEPT ![t] = "away"]
          /\ job' = [job EXCEPT ![t].moved = (job[t] # Idle)]
      BY <2>2 DEF GoBack
    <3>2. job'[t] = [job[t] EXCEPT !.moved = (job[t] # Idle)]
      BY <3>1 DEF Typed
    <3> QED BY <3>1, <3>2, OneTabChanges DEF Typed
  <2> QED BY <2>1, <2>2
<1>3. /\ job'[t] \in JobRecord /\ job'[t].step = job[t].step /\ job'[t].draft = job[t].draft
      /\ job'[t].hidden = job[t].hidden /\ (job[t] = Idle => job'[t] = Idle)
  <2>1. PICK m \in BOOLEAN : /\ job'[t] = [job[t] EXCEPT !.moved = m]
                             /\ job[t] = Idle => m = FALSE
    BY <1>2
  <2>2. job[t] = Idle => job[t].moved = m BY <2>1, Jobs
  <2> QED BY <1>0, <2>1, <2>2, MovedJobs
<1>4. TabOK(session'[t], saved'[t], scene'[t], job'[t])
  <2>1. CASE UNCHANGED <<session, saved>>
    BY <1>0, <1>2, <1>3, <2>1, KeyAssumption DEF TabOK
  <2>2. CASE /\ Closable(session[t]) /\ session'[t].status = "confirm-discard"
             /\ session'[t].draft = session[t].draft /\ saved'[t] = session'[t]
    <3>1. job[t].step = "idle" /\ job'[t] = Idle
      BY <1>0, <1>3, <2>2 DEF TabOK, Closable
    <3> QED BY <1>2, <2>2, <3>1, Jobs, KeyAssumption DEF TabOK
  <2> QED BY <1>1, <2>1, <2>2, Closing
<1>5. session'[t].status = "publishing" => job'[t] # Idle
  <2>1. ASSUME session'[t].status = "publishing" PROVE job'[t] # Idle
    <3>1. session[t].status = "publishing" BY <1>1, <2>1, Closing
    <3>2. job[t].step # "idle" BY <1>0, <3>1 DEF TabOK, PublishingIsUnderWay
    <3> QED BY <1>3, <3>2, Jobs
  <2> QED BY <2>1
<1>6. Good(t)
  BY <1>1, <1>2, <1>3, <1>4, <1>5, Closing DEF Good, Scene
<1>7. Rest'
  BY <1>1, TypedRest, Bounds DEF Close, Rest, storage, server, history
<1> QED
  BY <1>1, <1>3, <1>6, <1>7 DEF Quiet, Close, history, storage, server

LEMMA KeepStep ==
  ASSUME Typed, TabsOK, NEW t \in Tab, KeepEditing(t)
  PROVE  Quiet(t)
<1>. DEFINE s == session[t]
            r == [s EXCEPT !.status = s.back, !.back = "none"]
<1>0. s \in SessionType /\ SessionOK(s) /\ s.status = "confirm-discard" /\ job[t] \in JobRecord
  BY DEF Typed, KeepEditing
<1>1. TabOK(s, saved[t], scene[t], job[t]) BY DEF TabsOK
<1>2. /\ r \in SessionType /\ SessionOK(r) /\ r.draft = s.draft
      /\ r.status = s.back /\ r.status \notin {"none", "confirm-discard", "publishing"}
  BY <1>0, KeptTypes
<1>3. session'[t] = r /\ saved'[t] = r /\ Persist(t, r) /\ scene'[t] = "task"
  BY DEF KeepEditing, Persist, Typed
<1>4. job' = job /\ job[t] = Idle
  BY <1>0, <1>1 DEF KeepEditing, TabOK
<1>5. TabOK(session'[t], saved'[t], scene'[t], job'[t])
  BY <1>2, <1>3, <1>4, Jobs, KeyAssumption DEF TabOK
<1>6. Good(t)
  BY <1>0, <1>2, <1>3, <1>4, <1>5 DEF Good, Persist, Typed, Scene, KeepEditing
<1>7. Rest'
  BY TypedRest DEF KeepEditing, Rest, storage, server, bounds, history
<1> QED
  BY <1>4, <1>6, <1>7 DEF Quiet, KeepEditing, storage, server, history

LEMMA LeaveSteps ==
  ASSUME Typed, TabsOK, NEW t \in Tab, Discard(t) \/ ReturnLater(t)
  PROVE  Quiet(t)
<1>. DEFINE s == session[t]
<1>0. /\ s \in SessionType /\ SessionOK(s) /\ saved[t] \in SessionType /\ SessionOK(saved[t])
      /\ s.status \in {"confirm-discard", "identity-mismatch"}
  BY DEF Typed, Discard, ReturnLater
<1>1. TabOK(s, saved[t], scene[t], job[t]) BY DEF TabsOK
<1>2. Leave(t) BY DEF Discard, ReturnLater
<1>3. session'[t] = NoSession /\ scene'[t] = "away" /\ "away" \in Scene
  BY <1>2 DEF Leave, Typed, Scene
<1>4. job' = job /\ job[t] = Idle /\ job[t] \in JobRecord
  BY <1>0, <1>1, <1>2 DEF Leave, TabOK, Typed
<1>5. /\ saved' = [saved EXCEPT ![t] = saved'[t]]
      /\ saved'[t] \in SessionType /\ SessionOK(saved'[t])
  BY <1>0, NoSessions DEF Discard, ReturnLater, Typed
<1>6. TabOK(session'[t], saved'[t], scene'[t], job'[t])
  BY <1>0, <1>1, <1>3, <1>4, <1>5, NoSessions, KeyAssumption DEF TabOK
<1>7. Good(t)
  BY <1>2, <1>3, <1>4, <1>5, <1>6, NoSessions DEF Good, Leave, Typed
<1>8. Rest'
  BY <1>2, TypedRest DEF Leave, Rest, storage, server, bounds, history
<1> QED
  BY <1>2, <1>4, <1>7, <1>8 DEF Quiet, Leave, storage, server, history

LEMMA StartStep ==
  ASSUME Typed, TabsOK, NEW t \in Tab, NEW s \in SessionType, SessionOK(s), NEW where \in Scene,
         where # "closed", where \in Key => s.status \in {"none", "confirm-discard"},
         Start(t, s, where)
  PROVE  /\ Good(t)
         /\ job'[t].step \in {"idle", "identify"}
<1>1. ASSUME s.status \in Pending, where = "task",
             session' = [session EXCEPT ![t] = NoSession],
             saved' = [saved EXCEPT ![t] = s],
             scene' = [scene EXCEPT ![t] = "task"],
             job' = [job EXCEPT ![t] =
               [Idle EXCEPT !.step = "identify", !.draft = s.draft, !.hidden = TRUE]]
      PROVE  Good(t) /\ job'[t].step = "identify"
  <2>1. s.draft \in Command BY <1>1, Drafts DEF Pending
  <2>2. /\ job'[t] = [Idle EXCEPT !.step = "identify", !.draft = s.draft, !.hidden = TRUE]
        /\ job'[t] \in JobRecord /\ job'[t].step = "identify" /\ job'[t].draft = s.draft
        /\ job'[t].hidden
    BY <1>1, <2>1 DEF Typed, Idle, JobRecord
  <2>3. session'[t] = NoSession /\ saved'[t] = s /\ scene'[t] = "task"
    BY <1>1 DEF Typed
  <2>4. TabOK(session'[t], saved'[t], scene'[t], job'[t])
    BY <1>1, <2>1, <2>2, <2>3, NoSessions, KeyAssumption DEF TabOK
  <2> QED BY <1>1, <2>2, <2>3, <2>4, NoSessions DEF Good, Scene
<1>2. ASSUME Drop(t),
             scene' = [scene EXCEPT ![t] = IF where = "task" THEN "away" ELSE where],
             job' = [job EXCEPT ![t] = Idle]
      PROVE  Good(t) /\ job'[t].step = "idle"
  <2>1. /\ session'[t] = NoSession /\ saved'[t] = NoSession /\ job'[t] = Idle
        /\ scene'[t] \in Scene
    BY <1>2 DEF Typed, Drop, Persist, Scene
  <2>2. TabOK(session'[t], saved'[t], scene'[t], job'[t])
    BY <2>1, NoSessions, Jobs DEF TabOK
  <2>3. scene' = [scene EXCEPT ![t] = scene'[t]] BY <1>2 DEF Typed
  <2> QED BY <1>2, <2>1, <2>2, <2>3, NoSessions, Jobs DEF Good, Drop, Persist
<1>3. ASSUME s.status \notin Pending \cup {"none"},
             Persist(t, IF s.status = "authentication-required" THEN At("editing", s.draft) ELSE s),
             scene' = [scene EXCEPT ![t] = "task"],
             job' = [job EXCEPT ![t] = Idle]
      PROVE  Good(t) /\ job'[t].step = "idle"
  <2>. DEFINE r == IF s.status = "authentication-required" THEN At("editing", s.draft) ELSE s
  <2>1. s.draft \in Command BY <1>3, Drafts
  <2>2. r \in SessionType /\ SessionOK(r) /\ r.status \notin {"none", "publishing"}
    BY <1>3, <2>1, AtTypes DEF Pending, Status
  <2>3. /\ session'[t] = r /\ saved'[t] = r /\ scene'[t] = "task" /\ job'[t] = Idle
    BY <1>3 DEF Typed, Persist
  <2>4. TabOK(session'[t], saved'[t], scene'[t], job'[t])
    BY <2>2, <2>3, Jobs, KeyAssumption DEF TabOK
  <2> QED BY <1>3, <2>2, <2>3, <2>4, Jobs DEF Good, Persist, Scene
<1> QED BY <1>1, <1>2, <1>3 DEF Start

LEMMA StartSteps ==
  ASSUME Typed, TabsOK, NEW t \in Tab,
         Reload(t) \/ \E from \in Tab : Duplicate(t, from)
  PROVE  /\ Good(t)
         /\ job'[t].step \in {"idle", "identify"}
         /\ UNCHANGED <<storage, committed, others, notices>>
         /\ Rest'
<1>1. ASSUME NEW x \in Tab, scene[x] # "closed", Start(t, saved[x], scene[x])
      PROVE  /\ Good(t)
             /\ job'[t].step \in {"idle", "identify"}
      <2>1. /\ saved[x] \in SessionType /\ SessionOK(saved[x]) /\ scene[x] \in Scene
        /\ session[x] \in SessionType /\ job[x] \in JobRecord
    BY DEF Typed
  <2>2. scene[x] \in Key => saved[x].status \in {"none", "confirm-discard"}
    <3> SUFFICES ASSUME scene[x] \in Key PROVE saved[x].status \in {"none", "confirm-discard"}
      OBVIOUS
    <3>1. TabOK(session[x], saved[x], scene[x], job[x]) BY DEF TabsOK
    <3> QED BY <2>1, <3>1, NoSessions DEF TabOK
  <2> QED BY <1>1, <2>1, <2>2, StartStep
<1>2. CASE Reload(t)
  <2>2. late' \subseteq Command
    <3>1. TabOK(session[t], saved[t], scene[t], job[t]) BY DEF TabsOK
    <3> QED BY <1>2, <3>1 DEF Reload, TabOK, Typed
  <2>3. Rest'
    BY <1>2, <2>2, TypedRest, Bounds DEF Reload, Rest, storage
  <2> QED BY <1>1, <1>2, <2>3 DEF Reload
<1>3. ASSUME NEW from \in Tab, Duplicate(t, from)
      PROVE  /\ Good(t)
             /\ job'[t].step \in {"idle", "identify"}
                 /\ UNCHANGED <<storage, committed, others, notices>>
             /\ Rest'
  <2>2. Rest'
    BY <1>3, TypedRest, Bounds DEF Duplicate, Rest, storage, server
  <2> QED BY <1>1, <1>3, <2>2 DEF Duplicate, server
<1> QED BY <1>2, <1>3

LEMMA ContributorSteps ==
  ASSUME Typed, TabsOK, PublishingIsUnderWay, NEW t \in Tab, Contributor(t)
  PROVE  Quiet(t)
<1>1. CASE Reload(t) \/ \E from \in Tab : Duplicate(t, from)
  BY <1>1, StartSteps DEF Quiet
<1> QED
  BY <1>1, TypingSteps, PublishSteps, CloseSteps, KeepStep, LeaveSteps DEF Contributor

(***************************************************************************)
(* Steps of a run of the consumer.                                          *)
(***************************************************************************)
Outcomes == (Status \ {"none", "confirm-discard", "publishing"}) \cup {"superseded", "handed-off"}

\* A run ends: its tab is in order in any scene, and at the place of the draft
\* if the draft has been handed off.
LEMMA ResolveStep ==
  ASSUME Typed, TabsOK, NEW t \in Tab, job[t].step # "idle",
         NEW outcome \in Outcomes, NEW told \in SUBSET (Other \cup Key),
         Resolve(t, outcome, told),
         NEW c \in Scene, scene' = [scene EXCEPT ![t] = c],
         c \in {"task", "away"} \/ (c \in Key /\ outcome = "handed-off")
  PROVE  Good(t) /\ job'[t] = Idle
<1>. DEFINE s == session[t]
            d == saved[t]
<1>0. /\ s \in SessionType /\ SessionOK(s) /\ d \in SessionType /\ SessionOK(d)
      /\ job[t] \in JobRecord
  BY DEF Typed
<1>1. TabOK(s, d, scene[t], job[t]) BY DEF TabsOK
<1>2. job' = [job EXCEPT ![t] = Idle] /\ job'[t] = Idle /\ scene'[t] = c
  BY DEF Resolve, Typed
<1>3. ASSUME Drop(t) PROVE Good(t)
  <2>1. session'[t] = NoSession /\ saved'[t] = NoSession
    BY <1>3 DEF Drop, Persist, Typed
  <2>2. TabOK(session'[t], saved'[t], scene'[t], job'[t])
    BY <1>2, <2>1, NoSessions, Jobs DEF TabOK
  <2> QED BY <1>2, <1>3, <2>1, <2>2, NoSessions, Jobs DEF Good, Drop, Persist
<1>4. ASSUME UNCHANGED <<session, saved>>, ~job[t].hidden, s.status \notin Pending
      PROVE  Good(t)
  <2>1. s.status \in {"none", "confirm-discard"}
    BY <1>1, <1>4 DEF TabOK, Pending
  <2>2. {s.status, d.status} \subseteq {"none", "confirm-discard"} /\ s.status # "publishing"
    BY <1>1, <1>4, <2>1, NoSessions DEF TabOK
  <2>3. c # "closed" BY KeyAssumption
  <2>4. TabOK(session'[t], saved'[t], scene'[t], job'[t])
    BY <1>1, <1>2, <1>4, <2>2, <2>3, Jobs DEF TabOK
  <2> QED BY <1>0, <1>2, <1>4, <2>2, <2>4, Jobs DEF Good, Typed
<1>5. ASSUME NEW x \in SessionType, x.status \in Pending, x.draft \in Command,
             Outcome(t, x, outcome, told), outcome # "superseded", outcome # "handed-off",
             c \in {"task", "away"}
      PROVE  Good(t)
  <2>0. outcome \in Status \ {"none", "confirm-discard", "publishing"} BY <1>5 DEF Outcomes
  <2>1. CASE outcome = "identity-mismatch"
    <3>1. /\ session' = [session EXCEPT ![t] = At(outcome, x.draft)]
          /\ saved' = [saved EXCEPT ![t] = NoSession]
      BY <1>5, <2>1 DEF Outcome
    <3>2. /\ session'[t] = At(outcome, x.draft) /\ saved'[t] = NoSession
      BY <3>1 DEF Typed
    <3>3. /\ At(outcome, x.draft) \in SessionType /\ SessionOK(At(outcome, x.draft))
          /\ At(outcome, x.draft).status = "identity-mismatch"
      BY <1>5, <2>0, <2>1, AtTypes
    <3>4. TabOK(session'[t], saved'[t], scene'[t], job'[t])
      BY <1>2, <1>5, <3>2, <3>3, Jobs, KeyAssumption DEF TabOK
    <3> QED BY <1>2, <3>1, <3>2, <3>3, <3>4, NoSessions, Jobs DEF Good
  <2>2. CASE outcome # "identity-mismatch"
    <3>. DEFINE r == [At(outcome, x.draft) EXCEPT !.told = told]
    <3>1. Persist(t, r) BY <1>5, <2>2 DEF Outcome
    <3>2. session'[t] = r /\ saved'[t] = r BY <3>1 DEF Typed, Persist
    <3>3. r \in SessionType /\ SessionOK(r) /\ r.status = outcome
      BY <1>5, <2>0, ToldTypes
    <3>4. TabOK(session'[t], saved'[t], scene'[t], job'[t])
      BY <1>2, <1>5, <2>0, <3>2, <3>3, Jobs, KeyAssumption DEF TabOK
    <3> QED BY <1>2, <2>0, <3>1, <3>2, <3>3, <3>4, Jobs DEF Good, Persist
  <2> QED BY <2>1, <2>2
<1>6. CASE job[t].hidden
  <2>1. d.status \in Pending /\ d.draft \in Command /\ d.status # "none"
    BY <1>1, <1>6 DEF TabOK, Pending
  <2>2. \/ Drop(t)
        \/ /\ outcome # "superseded" /\ outcome # "handed-off"
           /\ Outcome(t, d, outcome, told)
    BY <1>6, <2>1 DEF Resolve
  <2> QED BY <1>0, <1>2, <1>3, <1>5, <2>1, <2>2
<1>7. CASE ~job[t].hidden
  <2>1. CASE s.status \notin Pending
    <3>1. Drop(t) \/ UNCHANGED <<session, saved>>
      BY <1>7, <2>1 DEF Resolve, Outcome
    <3> QED BY <1>2, <1>3, <1>4, <1>7, <2>1, <3>1
  <2>2. CASE s.status \in Pending
    <3>1. s.draft \in Command /\ s.status # "none"
      BY <1>0, <2>2, Drafts DEF Pending
    <3>2. \/ Drop(t)
          \/ /\ outcome # "superseded" /\ outcome # "handed-off"
             /\ Outcome(t, s, outcome, told)
      BY <1>7, <2>2, <3>1 DEF Resolve
    <3> QED BY <1>0, <1>2, <1>3, <1>5, <2>2, <3>1, <3>2
  <2> QED BY <2>1, <2>2
<1> QED BY <1>0, <1>6, <1>7 DEF JobRecord

\* A run that goes on leaves its tab in order.
LEMMA GoesStep ==
  ASSUME Typed, TabsOK, NEW t \in Tab, job[t].step # "idle",
         NEW j \in JobRecord, j.step # "idle", j.draft = job[t].draft, j.hidden = job[t].hidden,
         job' = [job EXCEPT ![t] = j], UNCHANGED <<session, saved, scene>>
  PROVE  Good(t) /\ job'[t] = j
<1>1. job'[t] = j BY DEF Typed
<1>2. TabOK(session[t], saved[t], scene[t], job[t]) BY DEF TabsOK
<1>3. TabOK(session'[t], saved'[t], scene'[t], job'[t])
  BY <1>1, <1>2, KeyAssumption DEF TabOK
<1>4. j # Idle BY Jobs
<1> QED BY <1>1, <1>3, <1>4 DEF Good, Typed

LEMMA GoesOn ==
  ASSUME Typed, TabsOK, NEW t \in Tab, job[t].step # "idle",
         NEW x \in {"transport", "reconcile", "retry", "receipt", "refresh"},
         Goes(t, x), UNCHANGED <<session, saved, scene>>
  PROVE  Good(t) /\ job'[t].step = x /\ job'[t].draft = job[t].draft
<1>. DEFINE j == [job[t] EXCEPT !.step = x]
<1>1. job[t] \in JobRecord BY DEF Typed
<1>2. /\ j \in JobRecord /\ j.step = x /\ j.draft = job[t].draft
      /\ j.hidden = job[t].hidden
  BY <1>1 DEF JobRecord
<1>3. job' = [job EXCEPT ![t] = j] BY DEF Goes, Typed
<1> HIDE DEF j
<1> QED BY <1>2, <1>3, GoesStep

(***************************************************************************)
(* The publisher.                                                           *)
(***************************************************************************)
LEMMA Answering ==
  ASSUME Typed, NEW c \in Command, NEW answer, Answers(c, answer)
  PROVE  /\ committed' \in [Key -> Command \cup {NoCommand}]
         /\ faults' \in 0..MaxFaults
         /\ \A d \in Command : Committed(d) => committed'[d.key] = d
         /\ answer = "published" => committed'[c.key] = c
<1>1. c.key \in Key /\ (\A d \in Command : d.key \in Key /\ d # NoCommand)
  BY Commands
<1>2. committed' = committed \/ (committed[c.key] = NoCommand /\ Commit(c))
  BY DEF Answers
<1>3. committed' \in [Key -> Command \cup {NoCommand}]
  BY <1>2 DEF Commit, Typed
<1>4. faults' \in 0..MaxFaults
  BY Bounds DEF Answers, Fault, Typed
<1>5. \A d \in Command : Committed(d) => committed'[d.key] = d
  BY <1>1, <1>2 DEF Committed, Commit, Typed
<1>6. ASSUME answer = "published" PROVE committed'[c.key] = c
  <2>1. Stale(c) # "published" BY DEF Stale
  <2>2. \/ Replays(c) /\ UNCHANGED committed
        \/ Commit(c)
    BY <1>6, <2>1 DEF Answers
  <2> QED BY <1>1, <2>2 DEF Replays, Commit, Typed
<1> QED BY <1>3, <1>4, <1>5, <1>6

\* What an author is told is what competes with the draft.
LEMMA Told ==
  ASSUME Typed, NEW c \in Command PROVE Current(c) \in SUBSET (Other \cup Key)
BY DEF Typed, Current, Published

(***************************************************************************)
(* Every step of a run.                                                     *)
(***************************************************************************)
Run(t) ==
  /\ Good(t)
  /\ Rest'
  /\ \A d \in Command : Committed(d) => committed'[d.key] = d
  /\ job'[t].step \in {"receipt", "refresh"} =>
       job'[t].draft \in Command /\ committed'[job'[t].draft.key] = job'[t].draft

LEMMA IdentifyStep ==
  ASSUME Typed, TabsOK, NEW t \in Tab, Identify(t)
  PROVE  Run(t) /\ job'[t].step # "refresh" /\ UNCHANGED <<receipts, notices>>
<1>. DEFINE j == job[t]
            bound == j.draft.key \in actors \/ j.transport
<1>1. j \in JobRecord /\ j.step = "identify" /\ j.draft \in Command /\ j.draft.key \in Key
  BY Commands DEF Typed, Identify, TabsOK, TabOK
<1>2. UNCHANGED <<mode, scene, receipts, server, history, edits, moves>> BY DEF Identify
<1>3. CASE /\ actors' = IF bound THEN actors \cup {j.draft.key} ELSE actors
           /\ job' = [job EXCEPT ![t].bound = bound,
                                 ![t].step = IF j.transport THEN "transport" ELSE "reconcile"]
           /\ UNCHANGED <<session, saved, faults>>
  <2>. DEFINE r == [j EXCEPT !.bound = bound,
                             !.step = IF j.transport THEN "transport" ELSE "reconcile"]
  <2>1. bound \in BOOLEAN BY <1>1 DEF JobRecord
  <2>2. /\ r \in JobRecord /\ r.draft = j.draft /\ r.hidden = j.hidden
        /\ r.step \in {"transport", "reconcile"}
    <3> HIDE DEF bound
    <3> QED BY <1>1, <2>1 DEF JobRecord
  <2>3. job' = [job EXCEPT ![t] = r]
    BY <1>3, <1>1 DEF Typed
  <2>4. Good(t) /\ job'[t] = r
    <3> HIDE DEF r, bound
    <3> QED BY <1>1, <1>2, <1>3, <2>2, <2>3, GoesStep
  <2>5. Rest'
    BY <1>1, <1>2, <1>3, TypedRest DEF Rest, server, history
  <2>6. \A d \in Command : Committed(d) => committed'[d.key] = d
    BY <1>2 DEF Committed, server
  <2> QED BY <1>2, <2>2, <2>4, <2>5, <2>6 DEF Run, history
<1>4. CASE /\ Fault
           /\ \E outcome \in {"identity-unavailable", "authentication-required",
                              "recovery-unavailable"} : Resolve(t, outcome, {})
           /\ UNCHANGED actors
  <2>1. scene[t] \in {"task", "away"} /\ scene' = [scene EXCEPT ![t] = scene[t]]
    BY <1>1, <1>2 DEF Typed, TabsOK, TabOK
  <2>2. Good(t) /\ job'[t] = Idle
    <3>1. PICK outcome \in {"identity-unavailable", "authentication-required",
                            "recovery-unavailable"} : Resolve(t, outcome, {})
      BY <1>4
    <3>2. outcome \in Outcomes BY DEF Outcomes, Status
    <3> QED BY <1>1, <2>1, <3>1, <3>2, ResolveStep DEF Scene
  <2>3. Rest'
    BY <1>2, <1>4, TypedRest, Bounds DEF Rest, server, history, Fault
  <2>4. \A d \in Command : Committed(d) => committed'[d.key] = d
    BY <1>2 DEF Committed, server
  <2> QED BY <1>2, <2>2, <2>3, <2>4, Jobs DEF Run, history
<1> QED BY <1>3, <1>4 DEF Identify

LEMMA AnsweredStep ==
  ASSUME Typed, TabsOK, NEW t \in Tab, Answered(t)
  PROVE  Run(t) /\ job'[t].step # "refresh" /\ UNCHANGED <<receipts, notices>>
<1>. DEFINE c == job[t].draft
<1>1. /\ job[t] \in JobRecord /\ job[t].step # "idle" /\ c \in Command
      /\ scene[t] \in {"task", "away"} /\ scene' = [scene EXCEPT ![t] = scene[t]]
  BY DEF Typed, Answered, TabsOK, TabOK
<1>2. PICK answer \in Editable \cup {"published", "authentication-required"} :
        /\ Answers(c, answer)
        /\ IF answer = "published"
           THEN Goes(t, "receipt") /\ UNCHANGED <<session, saved>>
           ELSE Resolve(t, answer, IF answer \in {"warning", "conflict"} THEN Current(c) ELSE {})
  BY DEF Answered
<1>3. /\ committed' \in [Key -> Command \cup {NoCommand}]
      /\ faults' \in 0..MaxFaults
      /\ \A d \in Command : Committed(d) => committed'[d.key] = d
      /\ answer = "published" => committed'[c.key] = c
  BY <1>1, <1>2, Answering
<1>4. Rest'
  BY <1>3, TypedRest DEF Answered, Rest, storage, history
<1>5. CASE answer = "published"
  <2>1. Good(t) /\ job'[t].step = "receipt" /\ job'[t].draft = c
    BY <1>1, <1>2, <1>5, GoesOn DEF Answered
  <2> QED BY <1>1, <1>3, <1>4, <1>5, <2>1 DEF Run, Answered, storage, history
<1>6. CASE answer # "published"
  <2>1. answer \in Outcomes
    BY <1>2, <1>6 DEF Outcomes, Status, Editable
  <2>2. (IF answer \in {"warning", "conflict"} THEN Current(c) ELSE {}) \in SUBSET (Other \cup Key)
    BY <1>1, Told
  <2>3. Good(t) /\ job'[t] = Idle
    BY <1>1, <1>2, <1>6, <2>1, <2>2, ResolveStep DEF Scene
  <2> QED BY <1>3, <1>4, <2>3, Jobs DEF Run, Answered, storage, history
<1> QED BY <1>5, <1>6

LEMMA TimesOutStep ==
  ASSUME Typed, TabsOK, NEW t \in Tab, TimesOut(t)
  PROVE  Run(t) /\ job'[t].step # "refresh" /\ UNCHANGED <<receipts, notices>>
<1>1. /\ job[t] \in JobRecord /\ job[t].step # "idle" /\ job[t].draft \in Command
      /\ scene[t] \in {"task", "away"} /\ scene' = [scene EXCEPT ![t] = scene[t]]
  BY DEF Typed, TimesOut, TabsOK, TabOK
<1>2. Rest'
  BY <1>1, TypedRest, Bounds DEF TimesOut, Rest, storage, history, Fault
<1>3. \A d \in Command : Committed(d) => committed'[d.key] = d
  BY DEF Committed, TimesOut
<1>4. CASE job[t].step = "transport"
  <2>1. Good(t) /\ job'[t].step = "reconcile"
    BY <1>1, <1>4, GoesOn DEF TimesOut
  <2> QED BY <1>2, <1>3, <2>1 DEF Run, TimesOut, storage, history
<1>5. CASE job[t].step # "transport"
  <2>1. "publish-unknown" \in Outcomes BY DEF Outcomes, Status
  <2>2. Good(t) /\ job'[t] = Idle
    BY <1>1, <1>5, <2>1, ResolveStep DEF TimesOut, Scene
  <2> QED BY <1>2, <1>3, <2>2, Jobs DEF Run, TimesOut, storage, history
<1> QED BY <1>4, <1>5

LEMMA ReconcileStep ==
  ASSUME Typed, TabsOK, NEW t \in Tab, Reconcile(t)
  PROVE  Run(t) /\ job'[t].step # "refresh" /\ UNCHANGED <<receipts, notices>>
<1>. DEFINE j == job[t]
            k == j.draft.key
<1>1. /\ j \in JobRecord /\ j.step # "idle" /\ j.draft \in Command /\ k \in Key
      /\ scene[t] \in {"task", "away"} /\ scene' = [scene EXCEPT ![t] = scene[t]]
  BY Commands DEF Typed, Reconcile, TabsOK, TabOK
<1>2. /\ "identity-mismatch" \in Outcomes /\ "identity-unavailable" \in Outcomes
      /\ "publish-unknown" \in Outcomes /\ "authentication-required" \in Outcomes
  BY DEF Outcomes, Status
<1>3. UNCHANGED <<mode, scene, receipts, server, history, edits, moves>> BY DEF Reconcile
<1>4. \A d \in Command : Committed(d) => committed'[d.key] = d
  BY <1>3 DEF Committed, server
<1>5. actors' \subseteq Key /\ faults' \in 0..MaxFaults
  BY <1>1, TypedRest, Bounds DEF Reconcile, Fault, Rest
<1>6. Rest'
  BY <1>3, <1>5, TypedRest DEF Rest, server, history
<1>7. ASSUME NEW outcome \in Outcomes, Resolve(t, outcome, {}) PROVE Good(t) /\ job'[t] = Idle
  BY <1>1, <1>7, ResolveStep DEF Scene
<1>8. CASE Committed(j.draft) /\ Goes(t, "receipt") /\ UNCHANGED <<session, saved>>
  <2>1. Good(t) /\ job'[t].step = "receipt" /\ job'[t].draft = j.draft
    BY <1>1, <1>3, <1>8, GoesOn
  <2> QED BY <1>1, <1>3, <1>4, <1>6, <1>8, <2>1 DEF Run, history
<1>9. CASE Goes(t, "retry") /\ UNCHANGED <<session, saved>>
  <2>1. Good(t) /\ job'[t].step = "retry"
    BY <1>1, <1>3, <1>9, GoesOn
  <2> QED BY <1>3, <1>4, <1>6, <2>1 DEF Run, history
<1>10. CASE \E outcome \in Outcomes : Resolve(t, outcome, {})
  BY <1>3, <1>4, <1>6, <1>7, <1>10, Jobs DEF Run, history
<1> QED BY <1>2, <1>8, <1>9, <1>10 DEF Reconcile

LEMMA ConsumeStep ==
  ASSUME Typed, TabsOK, ReceiptsAreEarned, NEW t \in Tab, Consume(t)
  PROVE  Run(t) /\ (job'[t] = Idle \/ job'[t].draft = job[t].draft)
<1>. DEFINE k == job[t].draft.key
<1>1. /\ job[t] \in JobRecord /\ job[t].step = "receipt" /\ job[t].draft \in Command /\ k \in Key
      /\ scene[t] \in {"task", "away"} /\ scene' = [scene EXCEPT ![t] = scene[t]]
  BY Commands DEF Typed, Consume, TabsOK, TabOK
<1>2. "handed-off" \in Outcomes /\ "recovery-unavailable" \in Outcomes
  BY DEF Outcomes, Status
<1>3. UNCHANGED <<mode, scene, actors, server, history, edits, moves>> BY DEF Consume
<1>4. \A d \in Command : Committed(d) => committed'[d.key] = d
  BY <1>3 DEF Committed, server
<1>5. receipts' \in [Key -> {"none", "pending", "completed"}] /\ faults' \in 0..MaxFaults
  BY <1>1, TypedRest, Bounds DEF Consume, Fault, Rest
<1>6. Rest'
  BY <1>3, <1>5, TypedRest DEF Rest, server, history
<1>7. ASSUME NEW outcome \in Outcomes, Resolve(t, outcome, {}) PROVE Good(t) /\ job'[t] = Idle
  BY <1>1, <1>7, ResolveStep DEF Scene
<1>8. CASE Goes(t, "refresh") /\ UNCHANGED <<session, saved>>
  <2>1. Good(t) /\ job'[t].step = "refresh" /\ job'[t].draft = job[t].draft
    BY <1>1, <1>3, <1>8, GoesOn
  <2>2. Committed(job[t].draft) BY <1>1 DEF ReceiptsAreEarned
  <2> QED BY <1>1, <1>3, <1>4, <1>6, <2>1, <2>2 DEF Run, history
<1>9. CASE \E outcome \in Outcomes : Resolve(t, outcome, {})
  BY <1>3, <1>4, <1>6, <1>7, <1>9, Jobs DEF Run, history
<1> QED BY <1>2, <1>8, <1>9 DEF Consume

LEMMA HandOffStep ==
  ASSUME Typed, TabsOK, NEW t \in Tab, HandOff(t)
  PROVE  Run(t) /\ job'[t] = Idle
<1>. DEFINE k == job[t].draft.key
<1>1. /\ job[t] \in JobRecord /\ job[t].step # "idle" /\ job[t].draft \in Command /\ k \in Key
      /\ scene[t] \in {"task", "away"}
  BY Commands DEF Typed, HandOff, TabsOK, TabOK
<1>2. /\ "handed-off" \in Outcomes /\ "superseded" \in Outcomes
      /\ "publish-unknown" \in Outcomes /\ {} \in SUBSET (Other \cup Key)
  BY DEF Outcomes, Status
<1>3. UNCHANGED <<mode, actors, server, used, forked, edits, moves>> BY DEF HandOff
<1>4. \A d \in Command : Committed(d) => committed'[d.key] = d
  BY <1>3 DEF Committed, server
<1>5. /\ receipts' \in [Key -> {"none", "pending", "completed"}]
      /\ notices' \in [Key -> Nat] /\ faults' \in 0..MaxFaults
  BY <1>1, TypedRest, Bounds DEF HandOff, Fault, Rest
<1>6. Rest'
  BY <1>3, <1>5, TypedRest DEF Rest, server
<1>7. CASE scene' = [scene EXCEPT ![t] = k] /\ Resolve(t, "handed-off", {})
  <2>1. Good(t) /\ job'[t] = Idle
    BY <1>1, <1>2, <1>7, ResolveStep DEF Scene
  <2> QED BY <1>3, <1>4, <1>6, <2>1, Jobs DEF Run
<1>8. CASE UNCHANGED scene /\ \E x \in {"superseded", "publish-unknown"} : Resolve(t, x, {})
  <2>1. scene' = [scene EXCEPT ![t] = scene[t]] BY <1>8 DEF Typed
  <2>2. Good(t) /\ job'[t] = Idle
    BY <1>1, <1>2, <1>8, <2>1, ResolveStep DEF Scene
  <2> QED BY <1>3, <1>4, <1>6, <2>2, Jobs DEF Run
<1> QED BY <1>7, <1>8 DEF HandOff

(***************************************************************************)
(* Every step keeps the invariant.                                          *)
(***************************************************************************)
LEMMA TabsStep ==
  ASSUME Typed, TabsOK, PublishingIsUnderWay, NEW t \in Tab, Good(t), Rest'
  PROVE  Typed' /\ TabsOK' /\ PublishingIsUnderWay'
<1>1. \A u \in Tab : u # t => /\ session'[u] = session[u] /\ saved'[u] = saved[u]
                            /\ scene'[u] = scene[u] /\ job'[u] = job[u]
  BY DEF Good, Typed
<1>2. Typed'
  BY DEF Good, Typed, Rest
<1>3. TabsOK'
  BY <1>1 DEF Good, TabsOK
<1>4. PublishingIsUnderWay'
  BY <1>1 DEF Good, PublishingIsUnderWay
<1> QED BY <1>2, <1>3, <1>4

\* Steps that touch no tab.
LEMMA StillTabs ==
  ASSUME Typed, TabsOK, PublishingIsUnderWay, Rest', UNCHANGED browser
  PROVE  Typed' /\ TabsOK' /\ PublishingIsUnderWay'
<1>1. Typed' BY DEF Typed, Rest, browser
<1>2. TabsOK' BY DEF TabsOK, browser
<1>3. PublishingIsUnderWay' BY DEF PublishingIsUnderWay, browser
<1> QED BY <1>1, <1>2, <1>3

LEMMA ReceiptsStep ==
  ASSUME Typed, TabsOK, ReceiptsAreEarned, NEW t \in Tab, Good(t),
         \A d \in Command : Committed(d) => committed'[d.key] = d,
         job'[t].step \in {"receipt", "refresh"} => committed'[job'[t].draft.key] = job'[t].draft
  PROVE  ReceiptsAreEarned'
<1> SUFFICES ASSUME NEW u \in Tab, job'[u].step \in {"receipt", "refresh"}
             PROVE  committed'[job'[u].draft.key] = job'[u].draft
  BY DEF ReceiptsAreEarned, Committed
<1>1. CASE u = t BY <1>1
<1>2. CASE u # t
  <2>1. job'[u] = job[u] BY <1>2 DEF Good, Typed
  <2>2. job[u].draft \in Command BY <2>1 DEF TabsOK, TabOK
  <2> QED BY <2>1, <2>2 DEF ReceiptsAreEarned
<1> QED BY <1>1, <1>2

LEMMA ConsumedStep ==
  ASSUME IInv, NEW t \in Tab, Consumer(t) PROVE ConsumedOnce'
<1>. DEFINE k == job[t].draft.key
<1>0. Typed /\ TabsOK /\ ReceiptsAreEarned /\ ConsumedOnce BY DEF IInv
<1>1. ASSUME Good(t), job'[t].step # "refresh", UNCHANGED <<receipts, notices>>
      PROVE  ConsumedOnce'
  <2>1. \A u \in Tab : u # t => job'[u] = job[u] BY <1>0, <1>1 DEF Good, Typed
  <2> QED BY <1>0, <1>1, <2>1 DEF ConsumedOnce
<1>2. CASE Identify(t) \/ Answered(t) \/ TimesOut(t) \/ Reconcile(t)
  BY <1>0, <1>1, <1>2, IdentifyStep, AnsweredStep, TimesOutStep, ReconcileStep DEF Run
<1>3. CASE Consume(t)
  <2>1. Good(t) /\ (job'[t] = Idle \/ job'[t].draft = job[t].draft)
    BY <1>0, <1>3, ConsumeStep DEF Run
  <2>2. \A u \in Tab : u # t => job'[u] = job[u] BY <1>0, <2>1 DEF Good, Typed
  <2>3. k \in Key /\ notices' = notices
    BY <1>0, <1>3, Commands DEF Consume, TabsOK, TabOK, history
  <2>4. CASE Resolve(t, "recovery-unavailable", {}) /\ UNCHANGED receipts
    <3>1. job'[t] = Idle BY <1>0, <2>4 DEF Resolve, Typed
    <3> QED BY <1>1, <2>1, <2>3, <2>4, <3>1, Jobs
  <2>5. CASE LockFree(t) /\ Done(t, k) /\ receipts' = [receipts EXCEPT ![k] = "completed"]
             /\ Resolve(t, "handed-off", {})
    <3>1. job'[t] = Idle BY <1>0, <2>5 DEF Resolve, Typed
    <3>2. \A u \in Tab : job'[u].step = "refresh" => u # t /\ job[u].draft.key # k
      BY <2>2, <2>5, <3>1, Jobs DEF LockFree
    <3>3. \A x \in Key : receipts'[x] = IF x = k THEN "completed" ELSE receipts[x]
      BY <1>0, <2>3, <2>5 DEF Typed
    <3>4. \A u \in Tab : job'[u].step = "refresh" => job[u].draft.key \in Key
      BY <1>0, <2>2, <3>2, Commands DEF TabsOK, TabOK
    <3> QED BY <1>0, <2>2, <2>3, <3>2, <3>3, <3>4 DEF ConsumedOnce
  <2>6. CASE /\ LockFree(t) /\ ~Done(t, k)
             /\ receipts' = [receipts EXCEPT ![k] = IF @ = "none" THEN "pending" ELSE @]
             /\ Goes(t, "refresh")
    <3>1. receipts[k] # "completed" BY <2>6 DEF Done
    <3>2. \A u \in Tab : job'[u].step = "refresh" /\ u # t => job[u].draft.key # k
      BY <2>2, <2>6 DEF LockFree
    <3>3. /\ receipts'[k] # "completed"
          /\ \A x \in Key : x # k => receipts'[x] = receipts[x]
      BY <1>0, <2>3, <2>6, <3>1 DEF Typed
    <3>4. \A u \in Tab : job'[u].step = "refresh" /\ u # t => job[u].draft.key \in Key
      BY <1>0, <2>2, Commands DEF TabsOK, TabOK
    <3>5. job'[t].step = "refresh" => job'[t].draft.key = k
      BY <2>1, Jobs
    <3>6. notices[k] = 0 BY <1>0, <2>3, <3>1 DEF ConsumedOnce
    <3> QED BY <1>0, <2>2, <2>3, <3>2, <3>3, <3>4, <3>5, <3>6 DEF ConsumedOnce
  <2> QED BY <1>3, <2>4, <2>5, <2>6 DEF Consume
<1>4. CASE HandOff(t)
  <2>1. Good(t) /\ job'[t] = Idle BY <1>0, <1>4, HandOffStep DEF Run
  <2>2. \A u \in Tab : u # t => job'[u] = job[u] BY <1>0, <2>1 DEF Good, Typed
  <2>3. job[t].step = "refresh" /\ k \in Key
    BY <1>0, <1>4, Commands DEF HandOff, TabsOK, TabOK
  <2>4. receipts[k] # "completed" /\ notices[k] = 0
    BY <1>0, <2>3 DEF ConsumedOnce
  <2>5. \A u \in Tab : job'[u].step = "refresh" =>
          u # t /\ job[u].draft.key # k /\ job[u].draft.key \in Key
    BY <1>0, <2>1, <2>2, <2>3, Jobs, Commands DEF ConsumedOnce, TabsOK, TabOK
  <2>6. CASE UNCHANGED <<receipts, notices>>
    BY <1>1, <2>1, <2>6, Jobs
  <2>7. CASE /\ receipts' = [receipts EXCEPT ![k] = "completed"]
             /\ notices' = [notices EXCEPT ![k] = @ + 1]
    <3>1. /\ receipts'[k] = "completed" /\ notices'[k] = 1
          /\ \A x \in Key : x # k => receipts'[x] = receipts[x] /\ notices'[x] = notices[x]
      BY <1>0, <2>3, <2>4, <2>7 DEF Typed
    <3> QED BY <1>0, <2>2, <2>5, <3>1 DEF ConsumedOnce
  <2>8. CASE receipts' = [receipts EXCEPT ![k] = "pending"] /\ UNCHANGED notices
    <3>1. \A x \in Key : x # k => receipts'[x] = receipts[x]
      BY <1>0, <2>8 DEF Typed
    <3> QED BY <1>0, <2>2, <2>4, <2>5, <2>8, <3>1 DEF ConsumedOnce
  <2> QED BY <1>4, <2>6, <2>7, <2>8 DEF HandOff
<1> QED BY <1>2, <1>3, <1>4 DEF Consumer

LEMMA RunSteps ==
  ASSUME IInv, NEW t \in Tab, Consumer(t) PROVE Run(t)
BY IdentifyStep, AnsweredStep, TimesOutStep, ReconcileStep, ConsumeStep, HandOffStep
   DEF IInv, Consumer

LEMMA Inductive == IInv /\ [Next]_vars => IInv'
<1> SUFFICES ASSUME IInv, [Next]_vars PROVE IInv' OBVIOUS
<1>0. Typed /\ TabsOK /\ ReceiptsAreEarned /\ ConsumedOnce /\ PublishingIsUnderWay
  BY DEF IInv
<1>1. ASSUME NEW t \in Tab, Contributor(t) PROVE IInv'
  <2>1. Quiet(t) BY <1>0, <1>1, ContributorSteps
  <2>2. \A u \in Tab : u # t => job'[u] = job[u] BY <1>0, <2>1 DEF Quiet, Good, Typed
  <2>3. \A u \in Tab : job'[u].step \in {"receipt", "refresh"} =>
          job'[u].step = job[u].step /\ job'[u].draft = job[u].draft
    BY <2>1, <2>2 DEF Quiet
  <2>4. committed' = committed /\ receipts' = receipts /\ notices' = notices
    BY <2>1 DEF Quiet, storage
  <2>5. ReceiptsAreEarned' BY <1>0, <2>3, <2>4 DEF ReceiptsAreEarned, Committed
  <2>6. ConsumedOnce' BY <1>0, <2>3, <2>4 DEF ConsumedOnce
  <2>7. Typed' /\ TabsOK' /\ PublishingIsUnderWay'
    BY <1>0, <2>1, TabsStep DEF Quiet
  <2> QED BY <2>5, <2>6, <2>7 DEF IInv
<1>2. ASSUME NEW t \in Tab, Consumer(t) PROVE IInv'
  <2>1. Run(t) BY <1>2, RunSteps
  <2>2. Typed' /\ TabsOK' /\ PublishingIsUnderWay'
    BY <1>0, <2>1, TabsStep DEF Run
  <2>3. ReceiptsAreEarned'
    BY <1>0, <2>1, ReceiptsStep DEF Run
  <2>4. ConsumedOnce' BY <1>2, ConsumedStep
  <2> QED BY <2>2, <2>3, <2>4 DEF IInv
<1>3. ASSUME UNCHANGED <<browser, receipts, notices>>, Rest',
             \A d \in Command : Committed(d) => committed'[d.key] = d
      PROVE  IInv'
  <2>1. Typed' /\ TabsOK' /\ PublishingIsUnderWay'
    BY <1>0, <1>3, StillTabs
  <2>2. job' = job BY <1>3 DEF browser
  <2>3. \A t \in Tab : job[t].step \in {"receipt", "refresh"} => job[t].draft \in Command
    BY <1>0 DEF TabsOK, TabOK
  <2>4. ReceiptsAreEarned' BY <1>0, <1>3, <2>2, <2>3 DEF ReceiptsAreEarned, Committed
  <2>5. ConsumedOnce' BY <1>0, <1>3, <2>2 DEF ConsumedOnce
  <2> QED BY <2>1, <2>4, <2>5 DEF IInv
<1>4. ASSUME NEW c \in late, CarryOutLate(c) PROVE IInv'
  <2>1. c \in Command BY <1>0 DEF Typed
  <2>2. /\ committed' \in [Key -> Command \cup {NoCommand}] /\ faults' \in 0..MaxFaults
        /\ \A d \in Command : Committed(d) => committed'[d.key] = d
    BY <1>0, <1>4, <2>1, Answering DEF CarryOutLate
  <2>3. Rest'
    BY <1>0, <1>4, <2>2, TypedRest DEF CarryOutLate, Rest, storage, history
  <2> QED BY <1>3, <1>4, <2>2, <2>3 DEF CarryOutLate, storage, history
<1>5. CASE OthersPublish
  <2>1. Rest'
    BY <1>0, <1>5, TypedRest DEF OthersPublish, Rest, storage, history, bounds
  <2> QED BY <1>3, <1>5, <2>1 DEF OthersPublish, storage, history, Committed
<1>6. CASE UNCHANGED vars
  <2>1. Rest'
    BY <1>0, <1>6, TypedRest DEF vars, Rest, storage, server, history, bounds
  <2> QED BY <1>3, <1>6, <2>1 DEF vars, storage, server, history, Committed
<1> QED BY <1>1, <1>2, <1>4, <1>5, <1>6 DEF Next

LEMMA Initial == Init => IInv
<1> SUFFICES ASSUME Init PROVE IInv OBVIOUS
<1>1. PICK t \in Tab, k \in Key, p \in Payload :
        /\ session = [x \in Tab |-> IF x = t
                         THEN At("editing", [key |-> k, payload |-> p, saw |-> {}])
                         ELSE NoSession]
        /\ scene = [x \in Tab |-> IF x = t THEN "task" ELSE "closed"]
        /\ used = {k}
  BY DEF Init
<1>2. [key |-> k, payload |-> p, saw |-> {}] \in Command BY DEF Command
<1>3. LET s == At("editing", [key |-> k, payload |-> p, saw |-> {}])
      IN  s \in SessionType /\ SessionOK(s) /\ s.status = "editing"
  BY <1>2, AtTypes DEF Status
<1>4. Typed
  <2>1. session \in [Tab -> SessionType] /\ saved = session
    BY <1>1, <1>3, NoSessions DEF Init
  <2>2. scene \in [Tab -> Scene] BY <1>1 DEF Scene
  <2>3. job \in [Tab -> JobRecord] BY Jobs DEF Init
  <2>4. actors \subseteq Key /\ late \subseteq Command /\ others \subseteq Other
        /\ used \subseteq Key
    BY <1>1 DEF Init
  <2>5. receipts \in [Key -> {"none", "pending", "completed"}] /\ notices \in [Key -> Nat]
        /\ committed \in [Key -> Command \cup {NoCommand}]
    BY DEF Init
  <2>6. edits \in 0..MaxEdits /\ moves \in 0..MaxMoves /\ faults \in 0..MaxFaults
    BY Bounds, BoundAssumption DEF Init
  <2>7. \A x \in Tab : SessionOK(session[x])
    BY <1>1, <1>3, NoSessions DEF Init
  <2>8. mode \in {"add", "edit"} /\ forked \in BOOLEAN
    BY DEF Init
  <2> QED BY <2>1, <2>2, <2>3, <2>4, <2>5, <2>6, <2>7, <2>8 DEF Typed
<1>5. TabsOK
  <2> SUFFICES ASSUME NEW x \in Tab PROVE TabOK(session[x], saved[x], scene[x], job[x])
    BY DEF TabsOK
  <2>1. CASE x = t
    BY <1>1, <1>3, <2>1, Jobs, KeyAssumption DEF Init, TabOK
  <2>2. CASE x # t
    BY <1>1, <2>2, NoSessions, Jobs, KeyAssumption DEF Init, TabOK
  <2> QED BY <2>1, <2>2
<1>6. \A x \in Tab : job[x].step = "idle" /\ session[x].status # "publishing"
  BY <1>1, <1>3, NoSessions, Jobs DEF Init
<1>7. ReceiptsAreEarned /\ PublishingIsUnderWay
  BY <1>6 DEF ReceiptsAreEarned, PublishingIsUnderWay
<1>8. ConsumedOnce BY <1>6 DEF ConsumedOnce, Init
<1> QED BY <1>4, <1>5, <1>7, <1>8 DEF IInv

LEMMA Invariance == Spec => []IInv
BY Initial, Inductive, PTL DEF Spec

\* Every variable has its type, and a tab has at most one run.
THEOREM Typing == Spec => []TypeOK
BY TypeParts, Invariance, PTL

\* "Published" is announced at most once, over all tabs and reloads.
THEOREM Announced == Spec => []OneNotice
<1>1. IInv => OneNotice BY DEF IInv, Typed, ConsumedOnce, OneNotice
<1> QED BY <1>1, Invariance, PTL

\* A form that says it is publishing has a run that will say otherwise.
THEOREM UnderWay == Spec => []PublishingIsUnderWay
<1>1. IInv => PublishingIsUnderWay BY DEF IInv
<1> QED BY <1>1, Invariance, PTL

(***************************************************************************)
(* What may become of a draft.                                              *)
(***************************************************************************)
\* A step of one tab leaves the others alone.
LEMMA OtherTabs ==
  ASSUME Typed, NEW u \in Tab, Good(u), NEW t \in Tab, t # u
  PROVE  /\ session'[t] = session[t] /\ saved'[t] = saved[t]
         /\ scene'[t] = scene[t] /\ job'[t] = job[t]
BY DEF Good, Typed

\* Only the consumer opens a place in a tab that shows none.
LEMMA NothingOpens ==
  ASSUME IInv, NEW t \in Tab, scene[t] \in {"task", "away"}, Contributor(t)
  PROVE  scene'[t] \notin Key
<1>0. Typed /\ {"task", "away"} \cap Key = {}
  BY KeyAssumption DEF IInv
<1>1. CASE Change(t) \/ Publish(t) \/ Acknowledge(t) \/ Rebase(t) \/ ContinueEditing(t)
  BY <1>0, <1>1 DEF Change, Publish, Acknowledge, Rebase, ContinueEditing
<1>2. CASE Escape(t) \/ GoBack(t)
  BY <1>0, <1>2 DEF Escape, GoBack, Close, Typed
<1>3. CASE KeepEditing(t) \/ Discard(t) \/ ReturnLater(t)
  BY <1>0, <1>3 DEF KeepEditing, Discard, ReturnLater, Leave, Typed
<1>4. CASE Reload(t)
  BY <1>0, <1>4 DEF Reload, Start, Typed
<1>5. CASE \E from \in Tab : Duplicate(t, from)
  BY <1>0, <1>5 DEF Duplicate
<1> QED BY <1>1, <1>2, <1>3, <1>4, <1>5 DEF Contributor

LEMMA HandOffKeeps ==
  ASSUME IInv, [Next]_vars, NEW t \in Tab,
         session[t].status \in Pending \/ job[t].hidden,
         scene'[t] \in Key
  PROVE  Committed(IF job[t].hidden THEN saved[t].draft ELSE session[t].draft)
<1>0. /\ Typed /\ TabsOK /\ ReceiptsAreEarned /\ PublishingIsUnderWay
      /\ TabOK(session[t], saved[t], scene[t], job[t]) /\ scene[t] \in Scene
  BY DEF IInv, TabsOK, Typed
<1>1. scene[t] \in {"task", "away"}
  <2>1. CASE job[t].hidden
    BY <1>0, <2>1 DEF TabOK, Idle
  <2>2. CASE session[t].status \in Pending
    BY <1>0, <2>2, NoSessions DEF TabOK, Pending, Scene
  <2> QED BY <2>1, <2>2
<1>2. scene'[t] # scene[t] BY <1>1, KeyAssumption
<1>3. ASSUME NEW u \in Tab, Contributor(u) PROVE FALSE
  <2>1. Good(u) BY <1>0, <1>3, ContributorSteps DEF Quiet
  <2>2. u = t BY <1>0, <1>2, <2>1, OtherTabs
  <2> QED BY <1>1, <1>3, <2>2, NothingOpens
<1>4. ASSUME NEW u \in Tab, Consumer(u) PROVE HandOff(t)
  <2>1. Good(u) BY <1>4, RunSteps DEF Run
  <2>2. u = t BY <1>0, <1>2, <2>1, OtherTabs
  <2> QED
    BY <1>2, <1>4, <2>2 DEF Consumer, Identify, Answered, TimesOut, Reconcile, Consume
<1>5. HandOff(t)
  BY <1>2, <1>3, <1>4 DEF Next, CarryOutLate, OthersPublish, vars, browser
<1>6. job[t].step = "refresh" /\ Committed(job[t].draft)
  BY <1>0, <1>5 DEF HandOff, ReceiptsAreEarned
<1>7. (IF job[t].hidden THEN saved[t].draft ELSE session[t].draft) = job[t].draft
  BY <1>0, <1>6 DEF TabOK, Pending
<1> QED BY <1>6, <1>7

\* The form goes as published only when the server has published what it says.
THEOREM HandOffs == Spec => HandOffIsOfThisDraft
<1>1. IInv /\ [Next]_vars =>
        [\A t \in Tab :
           (/\ session[t].status \in Pending \/ job[t].hidden
            /\ session'[t].status = "none" /\ saved'[t].status = "none"
            /\ scene'[t] \in Key) =>
           Committed(IF job[t].hidden THEN saved[t].draft ELSE session[t].draft)]_vars
  BY HandOffKeeps
<1> QED BY <1>1, Invariance, PTL DEF Spec, HandOffIsOfThisDraft

\* The tab loses its draft.
Loses(t) ==
  /\ session[t].status # "none" \/ saved[t].status # "none"
  /\ session'[t].status = "none" /\ saved'[t].status = "none"

\* The draft a tab is about to lose.
Lost(t) == IF session[t].status = "none" THEN saved[t] ELSE session[t]

LEMMA ContributorKeeps ==
  ASSUME IInv, NEW t \in Tab, Contributor(t), Loses(t), scene[t] = "task"
  PROVE  Lost(t).status \in {"confirm-discard", "identity-mismatch"}
<1>. DEFINE s == session[t]
<1>0. /\ Typed /\ TabOK(s, saved[t], scene[t], job[t])
      /\ s \in SessionType /\ SessionOK(s) /\ saved[t] \in SessionType
  BY DEF IInv, TabsOK, Typed
<1>1. \A x : Persist(t, x) => x.status = "none"
  BY <1>0 DEF Persist, Typed, Loses
<1>2. \A x \in Status \ {"none"} : \A d : ~Persist(t, At(x, d))
  <2> SUFFICES ASSUME NEW x \in Status \ {"none"}, NEW d, Persist(t, At(x, d)) PROVE FALSE
    OBVIOUS
  <2>1. At(x, d).status = x BY DEF At, NoSession
  <2> QED BY <1>1, <2>1
<1>3. CASE Change(t) \/ Publish(t) \/ Acknowledge(t) \/ Rebase(t) \/ ContinueEditing(t)
  BY <1>2, <1>3 DEF Change, Publish, Acknowledge, Rebase, ContinueEditing, Begin, Status
<1>4. CASE Escape(t) \/ GoBack(t)
  <2>1. Close(t) BY <1>4 DEF Escape, GoBack
  <2>2. Closable(s) /\ Persist(t, Asked(s)) BY <2>1 DEF Close, Loses
  <2> QED BY <1>0, <1>1, <2>2, AskedTypes
<1>5. CASE KeepEditing(t) \/ Discard(t)
  BY <1>5 DEF KeepEditing, Discard, Lost
<1>6. CASE ReturnLater(t)
  BY <1>6 DEF ReturnLater, Lost
<1>7. CASE Reload(t)
  <2>1. Start(t, saved[t], "task") BY <1>7 DEF Reload
  <2>2. CASE saved[t].status = "none"
    <3>1. s.status # "none" BY <2>2 DEF Loses
    <3> QED BY <1>0, <2>2, <3>1, NoSessions DEF TabOK, Lost
  <2>3. CASE saved[t].status \in Pending
    BY <1>0, <2>1, <2>3 DEF Start, Loses, Typed, Pending
  <2>4. CASE saved[t].status \notin Pending \cup {"none"}
    BY <1>1, <1>2, <2>1, <2>4 DEF Start, Status
  <2> QED BY <2>2, <2>3, <2>4
<1>8. CASE \E from \in Tab : Duplicate(t, from)
  BY <1>8 DEF Duplicate
<1> QED BY <1>3, <1>4, <1>5, <1>6, <1>7, <1>8 DEF Contributor

\* A run loses a draft only as handed off or superseded, or if its author moved.
LEMMA ResolveKeeps ==
  ASSUME Typed, TabsOK, NEW t \in Tab, Loses(t), job[t].step # "idle", ~job[t].moved,
         NEW outcome \in Outcomes, NEW told \in SUBSET (Other \cup Key),
         Resolve(t, outcome, told)
  PROVE  outcome \in {"handed-off", "superseded"}
<1> SUFFICES ASSUME outcome \in Status \ {"none", "confirm-discard", "publishing"} PROVE FALSE
  BY DEF Outcomes
<1>. DEFINE s == IF job[t].hidden THEN saved[t] ELSE session[t]
<1>0. TabOK(session[t], saved[t], scene[t], job[t]) /\ s \in SessionType
  BY DEF TabsOK, Typed
<1>1. s.status # "none" /\ ~UNCHANGED <<session, saved>>
  BY <1>0 DEF Loses, Resolve
<1>2. Outcome(t, s, outcome, told)
  BY <1>1 DEF Resolve, Status
<1>3. PICK d \in Command : s.draft = d BY <1>0, <1>1, Drafts
<1>4. session'[t].status = outcome
  <2>. DEFINE a == At(outcome, d)
              r == [At(outcome, d) EXCEPT !.told = told]
  <2>1. a.status = outcome BY AtTypes
  <2>2. r.status = outcome BY <2>1 DEF At, NoSession
  <2>3. session' = [session EXCEPT ![t] = a] \/ session' = [session EXCEPT ![t] = r]
    BY <1>1, <1>2, <1>3 DEF Outcome, Persist
  <2> HIDE DEF a, r
  <2> QED BY <2>1, <2>2, <2>3 DEF Typed
<1> QED BY <1>4 DEF Loses

LEMMA ConsumerKeeps ==
  ASSUME IInv, NEW t \in Tab, Consumer(t), Loses(t), ~job[t].moved
  PROVE  Committed(Lost(t).draft)
<1>0. /\ Typed /\ TabsOK /\ ReceiptsAreEarned
      /\ TabOK(session[t], saved[t], scene[t], job[t])
  BY DEF IInv, TabsOK
<1>1. ~UNCHANGED <<session, saved>> BY DEF Loses
<1>2. job[t].step # "idle"
  BY DEF Consumer, Identify, Answered, TimesOut, Reconcile, Consume, HandOff
<1>3. job[t].draft \in Command BY <1>0, <1>2 DEF TabOK
<1>4. ASSUME NEW outcome \in Outcomes, NEW told \in SUBSET (Other \cup Key),
             Resolve(t, outcome, told)
      PROVE  outcome \in {"handed-off", "superseded"}
  BY <1>0, <1>2, <1>4, ResolveKeeps
<1>5. CASE Identify(t)
  BY <1>1, <1>4, <1>5 DEF Identify, Outcomes, Status
<1>6. CASE Answered(t)
  <2>1. PICK answer \in Editable \cup {"published", "authentication-required"} :
          IF answer = "published" THEN UNCHANGED <<session, saved>>
          ELSE Resolve(t, answer,
                 IF answer \in {"warning", "conflict"} THEN Current(job[t].draft) ELSE {})
    BY <1>6 DEF Answered
  <2>2. answer # "published" BY <1>1, <2>1
  <2>3. answer \in Outcomes /\ answer \notin {"handed-off", "superseded"}
    BY <2>2 DEF Editable, Outcomes, Status
  <2>4. Current(job[t].draft) \in SUBSET (Other \cup Key) BY <1>0, <1>3, Told
  <2> QED BY <1>4, <2>1, <2>2, <2>3, <2>4
<1>7. CASE TimesOut(t) \/ Reconcile(t)
  BY <1>1, <1>4, <1>7 DEF TimesOut, Reconcile, Outcomes, Status
<1>8. CASE Consume(t) \/ HandOff(t)
  <2>1. Committed(job[t].draft)
    BY <1>0, <1>8 DEF Consume, HandOff, ReceiptsAreEarned
  <2>2. Lost(t).draft = job[t].draft
    BY <1>0, <1>2 DEF TabOK, Lost, Loses, NoSession
  <2> QED BY <2>1, <2>2
<1> QED BY <1>5, <1>6, <1>7, <1>8 DEF Consumer

LEMMA NoDraftGoes ==
  ASSUME IInv, [Next]_vars, NEW t \in Tab, Loses(t)
  PROVE  \/ Committed(Lost(t).draft)
         \/ Lost(t).status \in {"confirm-discard", "identity-mismatch"}
         \/ job[t].moved \/ scene[t] # "task"
<1>0. Typed /\ TabsOK /\ PublishingIsUnderWay BY DEF IInv
<1>1. ~(session'[t] = session[t] /\ saved'[t] = saved[t]) BY DEF Loses
<1>2. ASSUME NEW u \in Tab, Contributor(u) PROVE u = t
  <2>1. Good(u) BY <1>0, <1>2, ContributorSteps DEF Quiet
  <2> QED BY <1>0, <1>1, <2>1, OtherTabs
<1>3. ASSUME NEW u \in Tab, Consumer(u) PROVE u = t
  <2>1. Good(u) BY <1>3, RunSteps DEF Run
  <2> QED BY <1>0, <1>1, <2>1, OtherTabs
<1>4. Contributor(t) \/ Consumer(t)
  BY <1>1, <1>2, <1>3 DEF Next, CarryOutLate, OthersPublish, vars, browser
<1> QED BY <1>4, ContributorKeeps, ConsumerKeeps

\* No draft goes unpublished without its author's consent.
THEOREM Kept == Spec => DraftsKept
<1>1. IInv /\ [Next]_vars =>
        [\A t \in Tab :
           (/\ session[t].status # "none" \/ saved[t].status # "none"
            /\ session'[t].status = "none" /\ saved'[t].status = "none") =>
           LET s == IF session[t].status = "none" THEN saved[t] ELSE session[t]
           IN  \/ Committed(s.draft)
               \/ s.status \in {"confirm-discard", "identity-mismatch"}
               \/ job[t].moved \/ scene[t] # "task"]_vars
  BY NoDraftGoes DEF Loses, Lost
<1> QED BY <1>1, Invariance, PTL DEF Spec, DraftsKept

(***************************************************************************)
(* One draft makes one place, whatever is lost, late, repeated or copied.   *)
(*                                                                         *)
(* As long as the draft is not changed behind a request that may have been  *)
(* carried out, all commands there are say the same, so that the duplicate  *)
(* check compares the second to be published with the first.  Where it does *)
(* not compare (no precise point), they all have one key.                   *)
(***************************************************************************)
Warning == {"warning", "conflict"}

\* The commands there are: in a tab, on their way, published.
AllCommands ==
  {c \in Command :
     \/ \E t \in Tab : c \in {session[t].draft, saved[t].draft, job[t].draft}
     \/ c \in late
     \/ \E k \in Key : committed[k] = c}

Drafty == AllCommands \cup {NoCommand}

\* Nobody is warned of duplicates of a draft that the check does not cover.
FitCommand(c) == mode = "add" /\ c.payload \notin Precise => c.saw = {}

Fit(s) ==
  mode = "add" /\ s.status # "none" /\ s.draft.payload \notin Precise =>
    s.status \notin Warning /\ s.back \notin Warning

Keyed == \A k \in Published : committed[k].key = k

Fits ==
  /\ \A c \in AllCommands : FitCommand(c)
  /\ \A t \in Tab : Fit(session[t]) /\ Fit(saved[t])

OneDraft ==
  mode = "add" /\ ~forked =>
  \A c, d \in AllCommands : c.payload = d.payload /\ (c.payload \notin Precise => c.key = d.key)

PInv == Keyed /\ Fits /\ OneDraft /\ OnePlacePerDraft

-----------------------------------------------------------------------------
LEMMA Known ==
  ASSUME Typed, NEW t \in Tab
  PROVE  session[t].draft \in Drafty /\ saved[t].draft \in Drafty /\ job[t].draft \in Drafty
<1>1. \A s \in SessionType : s.draft \in Command \cup {NoCommand}
  BY DEF SessionType, NoSession
<1>2. session[t] \in SessionType /\ saved[t] \in SessionType /\ job[t] \in JobRecord
  BY DEF Typed
<1>3. job[t].draft \in Command \cup {NoCommand} BY <1>2 DEF JobRecord
<1> QED BY <1>1, <1>2, <1>3 DEF Drafty, AllCommands

LEMMA Nothing == NoSession.draft = NoCommand /\ Fit(NoSession) /\ Idle.draft = NoCommand
BY DEF NoSession, Fit, Idle

\* A step of tab t that makes no new command.
Derived(t) ==
  /\ Good(t)
  /\ session'[t].draft \in Drafty /\ saved'[t].draft \in Drafty /\ job'[t].draft \in Drafty
  /\ Fit(session'[t]) /\ Fit(saved'[t])

LEMMA FitAt ==
  ASSUME NEW x \in Status \ {"none", "confirm-discard"}, NEW d \in Command,
         x \in Warning => (mode = "add" => d.payload \in Precise),
         NEW told \in SUBSET (Other \cup Key)
  PROVE  /\ Fit(At(x, d)) /\ At(x, d).draft = d
         /\ Fit([At(x, d) EXCEPT !.told = told]) /\ [At(x, d) EXCEPT !.told = told].draft = d
<1>1. /\ At(x, d).status = x /\ At(x, d).back = "none" /\ At(x, d).draft = d
  BY DEF At, NoSession
<1>2. LET r == [At(x, d) EXCEPT !.told = told]
      IN  r.status = x /\ r.back = "none" /\ r.draft = d
  BY DEF At, NoSession
<1> QED BY <1>1, <1>2 DEF Fit, Warning

LEMMA FitAsked ==
  ASSUME NEW s \in SessionType, s.status # "none", Fit(s)
  PROVE  Fit(Asked(s)) /\ Asked(s).draft = s.draft
<1>. DEFINE r == Asked(s)
<1>1. s \in [status : Status \ {"none"}, draft : Command, told : SUBSET (Other \cup Key),
             back : Status]
  BY DEF NoSession, SessionType
<1>2. /\ r.status = "confirm-discard" /\ r.draft = s.draft
      /\ r.back = IF s.status = "confirm-discard" THEN s.back ELSE s.status
  BY <1>1 DEF Asked
<1> QED BY <1>2 DEF Fit, Warning

LEMMA FitKept ==
  ASSUME NEW s \in SessionType, s.status = "confirm-discard", Fit(s)
  PROVE  LET r == [s EXCEPT !.status = s.back, !.back = "none"]
         IN  Fit(r) /\ r.draft = s.draft
<1>. DEFINE r == [s EXCEPT !.status = s.back, !.back = "none"]
<1>1. s \in [status : Status \ {"none"}, draft : Command, told : SUBSET (Other \cup Key),
             back : Status]
  BY DEF NoSession, SessionType
<1>2. r.status = s.back /\ r.back = "none" /\ r.draft = s.draft
  BY <1>1
<1> QED BY <1>2 DEF Fit, Warning

-----------------------------------------------------------------------------
(* Steps of the contributor that make no new command. *)

LEMMA AskingDerives ==
  ASSUME Typed, TabsOK, Fits, NEW t \in Tab, Good(t),
         Publish(t) \/ ContinueEditing(t) \/ Escape(t) \/ GoBack(t)
  PROVE  Derived(t)
<1>. DEFINE s == session[t]
<1>0. /\ s \in SessionType /\ saved[t] \in SessionType /\ job[t] \in JobRecord
      /\ Fit(s) /\ Fit(saved[t])
  BY DEF Typed, Fits
<1>1. s.draft \in Drafty /\ saved[t].draft \in Drafty /\ job[t].draft \in Drafty
  BY Known
<1>2. CASE Publish(t)
  <2>1. s.status # "none" BY <1>2 DEF Publish, Unclear
  <2>2. s.draft \in Command BY <1>0, <2>1, Drafts
  <2>3. PICK b : Begin(t, s.draft, b) BY <1>2 DEF Publish
  <2>4. session'[t] = At("publishing", s.draft) /\ saved'[t] = At("publishing", s.draft)
    BY <2>3 DEF Begin, Persist, Typed
  <2>5. job'[t].draft = s.draft
    BY <2>3 DEF Begin, Typed, Idle
  <2>6. Fit(At("publishing", s.draft)) /\ At("publishing", s.draft).draft = s.draft
    BY <2>2, FitAt DEF Status, Warning
  <2> QED BY <1>1, <2>4, <2>5, <2>6 DEF Derived
<1>3. CASE ContinueEditing(t)
  <2>1. s.status # "none" BY <1>3 DEF ContinueEditing
  <2>2. s.draft \in Command BY <1>0, <2>1, Drafts
  <2>3. /\ session'[t] = At("editing", s.draft) /\ saved'[t] = At("editing", s.draft)
        /\ job' = job
    BY <1>3 DEF ContinueEditing, Persist, Typed
  <2>4. Fit(At("editing", s.draft)) /\ At("editing", s.draft).draft = s.draft
    BY <2>2, FitAt DEF Status, Warning
  <2> QED BY <1>1, <2>3, <2>4 DEF Derived
<1>4. CASE Escape(t) \/ GoBack(t)
  <2>1. Close(t) BY <1>4 DEF Escape, GoBack
  <2>2. job'[t].draft = job[t].draft
    BY <1>0, <1>4 DEF Escape, GoBack, Typed, JobRecord
  <2>3. CASE ~Closable(s)
    BY <1>0, <1>1, <2>1, <2>2, <2>3 DEF Close, Derived
  <2>4. CASE Closable(s)
    <3>1. session'[t] = Asked(s) /\ saved'[t] = Asked(s) /\ s.status # "none"
      BY <2>1, <2>4 DEF Close, Persist, Typed, Closable
    <3> QED BY <1>0, <1>1, <2>2, <3>1, FitAsked DEF Derived
  <2> QED BY <2>3, <2>4
<1> QED BY <1>2, <1>3, <1>4

LEMMA LeavingDerives ==
  ASSUME Typed, TabsOK, Fits, NEW t \in Tab, Good(t),
         KeepEditing(t) \/ Discard(t) \/ ReturnLater(t)
  PROVE  Derived(t)
<1>. DEFINE s == session[t]
<1>0. /\ s \in SessionType /\ saved[t] \in SessionType /\ job[t] \in JobRecord
      /\ Fit(s) /\ Fit(saved[t])
  BY DEF Typed, Fits
<1>1. s.draft \in Drafty /\ saved[t].draft \in Drafty /\ job[t].draft \in Drafty
  BY Known
<1>2. job'[t].draft = job[t].draft
  BY DEF KeepEditing, Discard, ReturnLater, Leave
<1>3. CASE KeepEditing(t)
  <2>. DEFINE r == [s EXCEPT !.status = s.back, !.back = "none"]
  <2>1. session'[t] = r /\ saved'[t] = r
    BY <1>3 DEF KeepEditing, Persist, Typed
  <2>2. Fit(r) /\ r.draft = s.draft
    BY <1>0, <1>3, FitKept DEF KeepEditing
  <2> QED BY <1>1, <1>2, <2>1, <2>2 DEF Derived
<1>4. CASE Discard(t) \/ ReturnLater(t)
  <2>1. session'[t] = NoSession /\ saved'[t] \in {saved[t], NoSession}
    BY <1>4 DEF Discard, ReturnLater, Leave, Typed
  <2> QED BY <1>0, <1>1, <1>2, <2>1, Nothing DEF Derived, Drafty
<1> QED BY <1>3, <1>4

LEMMA StartDerives ==
  ASSUME Typed, Fits, NEW t \in Tab, NEW x \in Tab, Good(t),
         NEW where, Start(t, saved[x], where)
  PROVE  Derived(t)
<1>. DEFINE s == saved[x]
<1>0. s \in SessionType /\ Fit(s) /\ s.draft \in Drafty
  BY Known DEF Typed, Fits
<1>1. ASSUME session'[t] \in {NoSession, s}, saved'[t] \in {NoSession, s},
             job'[t].draft \in {NoCommand, s.draft}
      PROVE  Derived(t)
  BY <1>0, <1>1, Nothing DEF Derived, Drafty
<1>2. CASE job' = [job EXCEPT ![t] =
             [Idle EXCEPT !.step = "identify", !.draft = s.draft, !.hidden = TRUE]]
           /\ session' = [session EXCEPT ![t] = NoSession] /\ saved' = [saved EXCEPT ![t] = s]
  <2>1. job'[t].draft = s.draft BY <1>2 DEF Typed, Idle
  <2> QED BY <1>1, <1>2, <2>1 DEF Typed
<1>3. CASE Drop(t) /\ job' = [job EXCEPT ![t] = Idle]
  BY <1>1, <1>3, Nothing DEF Typed, Drop, Persist
<1>4. CASE /\ s.status \notin Pending \cup {"none"}
           /\ Persist(t, IF s.status = "authentication-required" THEN At("editing", s.draft) ELSE s)
           /\ job' = [job EXCEPT ![t] = Idle]
  <2>1. job'[t].draft = NoCommand BY <1>4, Nothing DEF Typed
  <2>2. CASE s.status = "authentication-required"
    <3>1. s.draft \in Command BY <1>0, <1>4, Drafts
    <3>2. session'[t] = At("editing", s.draft) /\ saved'[t] = At("editing", s.draft)
      BY <1>4, <2>2 DEF Persist, Typed
    <3>3. Fit(At("editing", s.draft)) /\ At("editing", s.draft).draft = s.draft
      BY <3>1, FitAt DEF Status, Warning
    <3> QED BY <1>0, <2>1, <3>2, <3>3 DEF Derived, Drafty
  <2>3. CASE s.status # "authentication-required"
    BY <1>1, <1>4, <2>1, <2>3 DEF Persist, Typed
  <2> QED BY <2>2, <2>3
<1> QED BY <1>2, <1>3, <1>4 DEF Start

-----------------------------------------------------------------------------
(* Steps of a run of the consumer. *)

\* A run ends; a warning concerns a draft that the check covers.
LEMMA ResolveDerives ==
  ASSUME Typed, TabsOK, Fits, NEW t \in Tab, Good(t), job[t].step # "idle",
         NEW outcome \in Outcomes, NEW told \in SUBSET (Other \cup Key),
         Resolve(t, outcome, told),
         outcome \in Warning => (mode = "add" => job[t].draft.payload \in Precise)
  PROVE  Derived(t)
<1>. DEFINE s == IF job[t].hidden THEN saved[t] ELSE session[t]
            d == job[t].draft
<1>0. /\ TabOK(session[t], saved[t], scene[t], job[t])
      /\ session[t] \in SessionType /\ saved[t] \in SessionType
      /\ Fit(session[t]) /\ Fit(saved[t])
  BY DEF Typed, TabsOK, Fits
<1>1. session[t].draft \in Drafty /\ saved[t].draft \in Drafty /\ d \in Drafty
  BY Known
<1>2. job'[t].draft = NoCommand /\ NoCommand \in Drafty
  BY Nothing DEF Resolve, Typed, Drafty
<1>3. ASSUME session'[t] \in {NoSession, session[t]}, saved'[t] \in {NoSession, saved[t]}
      PROVE  Derived(t)
  BY <1>0, <1>1, <1>2, <1>3, Nothing DEF Derived
<1>4. CASE Drop(t)
  BY <1>3, <1>4 DEF Drop, Persist, Typed
<1>5. CASE UNCHANGED <<session, saved>>
  BY <1>3, <1>5
<1>6. CASE s.status \in Pending /\ outcome \notin {"superseded", "handed-off"}
           /\ Outcome(t, s, outcome, told)
  <2>1. s.draft = d /\ d \in Command
    BY <1>0, <1>6 DEF TabOK, Pending
  <2>2. outcome \in Status \ {"none", "confirm-discard"}
    BY <1>6 DEF Outcomes
  <2>3. /\ Fit(At(outcome, d)) /\ At(outcome, d).draft = d
        /\ Fit([At(outcome, d) EXCEPT !.told = told])
        /\ [At(outcome, d) EXCEPT !.told = told].draft = d
    BY <2>1, <2>2, FitAt
  <2>4. CASE outcome = "identity-mismatch"
    <3>1. session'[t] = At(outcome, d) /\ saved'[t] = NoSession
      BY <1>6, <2>1, <2>4 DEF Outcome, Typed
    <3> QED BY <1>1, <1>2, <2>3, <3>1, Nothing DEF Derived
  <2>5. CASE outcome # "identity-mismatch"
    <3>. DEFINE r == [At(outcome, d) EXCEPT !.told = told]
    <3>1. session'[t] = r /\ saved'[t] = r
      BY <1>6, <2>1, <2>5 DEF Outcome, Persist, Typed
    <3> QED BY <1>1, <1>2, <2>3, <3>1 DEF Derived
  <2> QED BY <2>4, <2>5
<1> QED BY <1>4, <1>5, <1>6 DEF Resolve, Outcome

\* A run that goes on keeps its draft.
LEMMA GoesDerives ==
  ASSUME Typed, Fits, NEW t \in Tab, Good(t), UNCHANGED <<session, saved>>,
         job'[t].draft = job[t].draft
  PROVE  Derived(t)
BY Known DEF Derived, Fits, Typed

LEMMA GoingDerives ==
  ASSUME Typed, Fits, NEW t \in Tab, Good(t), UNCHANGED <<session, saved>>, NEW x, Goes(t, x)
  PROVE  Derived(t)
<1>1. job'[t].draft = job[t].draft BY DEF Goes, Typed, JobRecord
<1> QED BY <1>1, GoesDerives

\* The server warns only of what the duplicate check covers.
LEMMA WarnsFit ==
  ASSUME NEW c \in Command, FitCommand(c), NEW answer, Answers(c, answer), answer \in Warning,
         mode = "add"
  PROVE  c.payload \in Precise
<1> SUFFICES ASSUME c.payload \notin Precise PROVE FALSE
  OBVIOUS
<1>1. c.saw = {} BY DEF FitCommand
<1>2. Current(c) = {} BY DEF Current
<1>3. c.saw = Current(c) BY <1>1, <1>2
<1> QED BY <1>3 DEF Answers, Warning

LEMMA Running ==
  ASSUME Typed, TabsOK, NEW t \in Tab, job[t].step # "idle"
  PROVE  job[t].draft \in AllCommands
<1>1. job[t].draft \in Command BY DEF TabsOK, TabOK
<1> QED BY <1>1 DEF AllCommands

LEMMA AnsweredDerives ==
  ASSUME Typed, TabsOK, Fits, NEW t \in Tab, Good(t), Answered(t)
  PROVE  Derived(t)
<1>. DEFINE c == job[t].draft
<1>1. PICK answer \in Editable \cup {"published", "authentication-required"} :
        /\ Answers(c, answer)
        /\ IF answer = "published"
           THEN Goes(t, "receipt") /\ UNCHANGED <<session, saved>>
           ELSE Resolve(t, answer, IF answer \in {"warning", "conflict"} THEN Current(c) ELSE {})
  BY DEF Answered
<1>2. job[t].step # "idle" BY DEF Answered
<1>3. c \in AllCommands /\ c \in Command
  BY <1>2, Running DEF AllCommands
<1>4. FitCommand(c) BY <1>3 DEF Fits
<1>5. CASE answer = "published"
  BY <1>1, <1>5, GoingDerives
<1>6. CASE answer # "published"
  <2>. DEFINE told == IF answer \in {"warning", "conflict"} THEN Current(c) ELSE {}
  <2>1. answer \in Outcomes BY <1>6 DEF Outcomes, Editable, Status
  <2>2. told \in SUBSET (Other \cup Key) BY <1>3, Told
  <2>3. answer \in Warning => (mode = "add" => c.payload \in Precise)
    BY <1>1, <1>3, <1>4, WarnsFit
  <2>4. Resolve(t, answer, told) BY <1>1, <1>6
  <2> HIDE DEF told
  <2> QED BY <1>2, <2>1, <2>2, <2>3, <2>4, ResolveDerives
<1> QED BY <1>5, <1>6

LEMMA ConsumerDerives ==
  ASSUME Typed, TabsOK, Fits, NEW t \in Tab, Good(t), Consumer(t)
  PROVE  Derived(t)
<1>0. job[t].step # "idle"
  BY DEF Consumer, Identify, Answered, TimesOut, Reconcile, Consume, HandOff
<1>1. ASSUME NEW outcome \in Outcomes, outcome \notin Warning, Resolve(t, outcome, {})
      PROVE  Derived(t)
  BY <1>0, <1>1, ResolveDerives
<1>2. CASE Identify(t)
  <2>1. CASE \E outcome \in {"identity-unavailable", "authentication-required",
                             "recovery-unavailable"} : Resolve(t, outcome, {})
    BY <1>1, <2>1 DEF Outcomes, Status, Warning
  <2>2. ASSUME NEW b, NEW x, job' = [job EXCEPT ![t].bound = b, ![t].step = x]
        PROVE  job'[t].draft = job[t].draft
    BY <2>2 DEF Typed, JobRecord
  <2> QED BY <1>2, <2>1, <2>2, GoesDerives DEF Identify
<1>3. CASE Answered(t)
  BY <1>3, AnsweredDerives
<1>4. CASE TimesOut(t)
  BY <1>1, <1>4, GoingDerives DEF TimesOut, Outcomes, Status, Warning
<1>5. CASE Reconcile(t)
  BY <1>1, <1>5, GoingDerives DEF Reconcile, Outcomes, Status, Warning
<1>6. CASE Consume(t)
  BY <1>1, <1>6, GoingDerives DEF Consume, Outcomes, Status, Warning
<1>7. CASE HandOff(t)
  BY <1>1, <1>7 DEF HandOff, Outcomes, Status, Warning
<1> QED BY <1>2, <1>3, <1>4, <1>5, <1>6, <1>7 DEF Consumer

-----------------------------------------------------------------------------
(* What the commands there are have in common. *)

LEMMA Fewer ==
  ASSUME Fits, OneDraft, mode' = mode, forked' = forked,
         AllCommands' \subseteq AllCommands,
         \A u \in Tab : Fit(session'[u]) /\ Fit(saved'[u])
  PROVE  Fits' /\ OneDraft'
<1>1. \A c \in AllCommands' : FitCommand(c)' BY DEF Fits, FitCommand
<1>2. \A u \in Tab : Fit(session[u])' /\ Fit(saved[u])' BY DEF Fit
<1>3. OneDraft' BY DEF OneDraft
<1> QED BY <1>1, <1>2, <1>3 DEF Fits

LEMMA Derives ==
  ASSUME Typed, Fits, OneDraft, NEW t \in Tab, Derived(t), mode' = mode, forked' = forked,
         \A c \in late' : c \in AllCommands, \A k \in Key : committed'[k] \in Drafty
  PROVE  Fits' /\ OneDraft'
<1>1. \A u \in Tab : u # t => /\ session'[u] = session[u] /\ saved'[u] = saved[u]
                            /\ job'[u] = job[u]
  BY OtherTabs DEF Derived
<1>2. \A u \in Tab : /\ session'[u].draft \in Drafty /\ saved'[u].draft \in Drafty
                     /\ job'[u].draft \in Drafty
  BY <1>1, Known DEF Derived
<1>3. AllCommands' \subseteq AllCommands
  <2> SUFFICES ASSUME NEW c \in AllCommands' PROVE c \in AllCommands
    OBVIOUS
  <2>1. c \in Command /\ c # NoCommand BY Commands DEF AllCommands
  <2> QED BY <1>2, <2>1 DEF AllCommands, Drafty
<1>4. \A u \in Tab : Fit(session'[u]) /\ Fit(saved'[u])
  BY <1>1 DEF Derived, Fits
<1> QED BY <1>3, <1>4, Fewer

-----------------------------------------------------------------------------
(* Steps of the contributor that make a command. *)

\* Only tab t has new commands, and only e is one.
LEMMA Joined ==
  ASSUME Typed, NEW t \in Tab, Good(t), NEW e \in Command, UNCHANGED <<late, committed>>,
         session'[t].draft \in Drafty \cup {e}, saved'[t].draft \in Drafty \cup {e},
         job'[t].draft \in Drafty \cup {e}
  PROVE  AllCommands' \subseteq AllCommands \cup {e}
<1> SUFFICES ASSUME NEW c \in AllCommands' PROVE c \in AllCommands \cup {e}
  OBVIOUS
<1>1. \A u \in Tab : u # t => /\ session'[u] = session[u] /\ saved'[u] = saved[u]
                            /\ job'[u] = job[u]
  BY OtherTabs
<1>2. c \in Command /\ c # NoCommand BY Commands DEF AllCommands
<1> QED BY <1>1, <1>2, Known DEF AllCommands, Drafty

\* A new attempt says what the old one did, and may have seen duplicates.
LEMMA Joins ==
  ASSUME Typed, Fits, OneDraft, NEW t \in Tab, Good(t),
         NEW d \in AllCommands, NEW e \in Command, e.payload = d.payload,
         mode = "add" => e.payload \in Precise,
         session'[t].draft \in Drafty \cup {e}, saved'[t].draft \in Drafty \cup {e},
         job'[t].draft \in Drafty \cup {e},
         Fit(session'[t]), Fit(saved'[t]), UNCHANGED <<late, committed, mode, forked>>
  PROVE  Fits' /\ OneDraft'
<1>1. AllCommands' \subseteq AllCommands \cup {e} BY Joined
<1>2. \A u \in Tab : Fit(session'[u]) /\ Fit(saved'[u])
  <2>1. \A u \in Tab : u # t => session'[u] = session[u] /\ saved'[u] = saved[u]
    BY OtherTabs
  <2> QED BY <2>1 DEF Fits
<1>3. \A c \in AllCommands \cup {e} : FitCommand(c)
  BY DEF Fits, FitCommand
<1>4. \A c \in AllCommands' : FitCommand(c)' BY <1>1, <1>3 DEF FitCommand
<1>5. \A u \in Tab : Fit(session[u])' /\ Fit(saved[u])' BY <1>2 DEF Fit
<1>6. OneDraft'
  BY <1>1 DEF OneDraft
<1> QED BY <1>4, <1>5, <1>6 DEF Fits

LEMMA AttemptSteps ==
  ASSUME Typed, TabsOK, Fits, OneDraft, NEW t \in Tab, Good(t), Acknowledge(t) \/ Rebase(t)
  PROVE  Fits' /\ OneDraft'
<1>. DEFINE s == session[t]
<1>0. s \in SessionType /\ saved[t] \in SessionType /\ job[t] \in JobRecord /\ Fit(s)
  BY DEF Typed, Fits
<1>1. s.status \in Warning BY DEF Acknowledge, Rebase, Warning
<1>2. s.draft \in Command /\ s.told \subseteq Other \cup Key
  BY <1>0, <1>1 DEF Warning, SessionType, NoSession
<1>3. s.draft \in AllCommands BY <1>2 DEF AllCommands
<1>4. mode = "add" => s.draft.payload \in Precise
  BY <1>1 DEF Fits, Fit, Warning
<1>5. PICK k \in Key :
        LET e == [s.draft EXCEPT !.key = k, !.saw = s.told]
        IN  Begin(t, e, TRUE) \/ (Persist(t, At("editing", e)) /\ job' = job)
  BY DEF Acknowledge, Rebase
<1>. DEFINE e == [s.draft EXCEPT !.key = k, !.saw = s.told]
<1>6. e \in Command /\ e.payload = s.draft.payload
  BY <1>2 DEF Command
<1>7. \A x \in {"publishing", "editing"} : Fit(At(x, e)) /\ At(x, e).draft = e
  BY <1>6, FitAt DEF Status, Warning
<1>8. job'[t].draft \in Drafty \cup {e}
  <2>1. job[t].draft \in Drafty BY Known
  <2> QED BY <1>5, <2>1 DEF Begin, Typed, Idle
<1>9. PICK x \in {"publishing", "editing"} : session'[t] = At(x, e) /\ saved'[t] = At(x, e)
  BY <1>5 DEF Begin, Persist, Typed
<1>10. UNCHANGED <<late, committed, mode, forked>>
  BY DEF Acknowledge, Rebase, server
<1> HIDE DEF e
<1> QED BY <1>3, <1>4, <1>6, <1>7, <1>8, <1>9, <1>10, Joins

\* A changed draft is the only one there is, or else forked tells.
LEMMA ChangeStep ==
  ASSUME Typed, TabsOK, Fits, OneDraft, NEW t \in Tab, Good(t), Change(t)
  PROVE  Fits' /\ OneDraft'
<1>. DEFINE s == session[t]
<1>0. TabOK(s, saved[t], scene[t], job[t]) BY DEF TabsOK
<1>1. job[t] = Idle
  BY <1>0 DEF Change, Editable, Inert, TabOK
<1>2. s \in SessionType /\ s.status # "none" /\ mode' = mode /\ job' = job
  BY DEF Change, Editable, Typed
<1>3. s.draft \in Command BY <1>2, Drafts
<1>4. PICK p \in Payload, k \in Key :
        Persist(t, At("editing",
          [key |-> k, payload |-> p, saw |-> IF mode = "edit" THEN s.draft.saw ELSE {}]))
  BY DEF Change
<1>. DEFINE e == [key |-> k, payload |-> p, saw |-> IF mode = "edit" THEN s.draft.saw ELSE {}]
<1>5. e \in Command /\ FitCommand(e)
  BY <1>3 DEF Command, FitCommand
<1>. HIDE DEF e
<1>6. session'[t] = At("editing", e) /\ saved'[t] = At("editing", e)
  BY <1>4 DEF e, Persist, Typed
<1>7. Fit(At("editing", e)) /\ At("editing", e).draft = e
  BY <1>5, FitAt DEF Status, Warning
<1>8. job'[t].draft = NoCommand BY <1>1, <1>2, Nothing
<1>9. UNCHANGED <<late, committed>> BY DEF Change, server
<1>10. AllCommands' \subseteq AllCommands \cup {e}
  BY <1>5, <1>6, <1>7, <1>8, <1>9, Joined DEF Drafty
<1>11. Fits'
  <2>1. \A c \in AllCommands' : FitCommand(c)'
    BY <1>2, <1>5, <1>10 DEF Fits, FitCommand
  <2>2. \A u \in Tab : Fit(session'[u]) /\ Fit(saved'[u])
    <3>1. \A u \in Tab : u # t => session'[u] = session[u] /\ saved'[u] = saved[u]
      BY OtherTabs
    <3> QED BY <1>6, <1>7, <3>1 DEF Fits
  <2>3. \A u \in Tab : Fit(session[u])' /\ Fit(saved[u])' BY <1>2, <2>2 DEF Fit
  <2> QED BY <2>1, <2>3 DEF Fits
<1>12. ASSUME ~forked' PROVE AllCommands' \subseteq {e}
  <2> SUFFICES ASSUME NEW c \in AllCommands' PROVE c = e
    OBVIOUS
  <2>1. Published = {} /\ late = {} /\ \A u \in Tab \ {t} : scene[u] = "closed"
    BY <1>12 DEF Change, Diverges
  <2>2. c \in Command /\ c # NoCommand BY Commands DEF AllCommands
  <2>3. \A u \in Tab \ {t} : /\ session'[u].draft = NoCommand /\ saved'[u].draft = NoCommand
                            /\ job'[u].draft = NoCommand
    <3> SUFFICES ASSUME NEW u \in Tab \ {t}
                 PROVE  /\ session'[u].draft = NoCommand /\ saved'[u].draft = NoCommand
                        /\ job'[u].draft = NoCommand
      OBVIOUS
    <3>1. session[u] = NoSession /\ saved[u] = NoSession /\ job[u] = Idle
      BY <2>1 DEF TabsOK, TabOK
    <3>2. session'[u] = session[u] /\ saved'[u] = saved[u] /\ job'[u] = job[u]
      BY OtherTabs
    <3> QED BY <3>1, <3>2, Nothing
  <2>4. \A l \in Key : committed'[l] = NoCommand
    BY <1>9, <2>1 DEF Published
  <2> QED BY <1>6, <1>7, <1>8, <1>9, <2>1, <2>2, <2>3, <2>4 DEF AllCommands
<1>13. OneDraft' BY <1>12 DEF OneDraft
<1> QED BY <1>11, <1>13

-----------------------------------------------------------------------------
(* What the server publishes. *)

\* At most one of the commands there are is published, and with it all that
\* its author ought to have seen is in what the author saw.
Publishes ==
  \/ committed' = committed
  \/ \E c \in AllCommands :
       committed[c.key] = NoCommand /\ c.saw = Current(c) /\ Commit(c)

LEMMA AnswersPublish ==
  ASSUME NEW c \in AllCommands, NEW answer, Answers(c, answer)
  PROVE  Publishes
BY DEF Answers, Publishes

LEMMA OnePlaceStep ==
  ASSUME Typed, PInv, Publishes, mode' = mode, forked => forked'
  PROVE  Keyed' /\ OnePlacePerDraft' /\ \A k \in Key : committed'[k] \in Drafty
<1>0. Keyed /\ OneDraft /\ OnePlacePerDraft BY DEF PInv
<1>1. \A k \in Key : committed[k] \in Drafty /\ (k \in Published => committed[k] \in AllCommands)
  BY DEF Typed, Drafty, AllCommands, Published
<1>2. CASE committed' = committed
  BY <1>0, <1>1, <1>2 DEF Keyed, OnePlacePerDraft, Published
<1>3. CASE \E c \in AllCommands :
             committed[c.key] = NoCommand /\ c.saw = Current(c) /\ Commit(c)
  <2>1. PICK c \in AllCommands :
          committed[c.key] = NoCommand /\ c.saw = Current(c) /\ Commit(c)
    BY <1>3
  <2>2. c.key \in Key /\ c \in Command /\ c # NoCommand
    BY Commands DEF AllCommands
  <2>3. /\ committed'[c.key] = c
        /\ \A k \in Key \ {c.key} : committed'[k] = committed[k]
    BY <2>1, <2>2 DEF Commit, Typed
  <2>4. c.key \notin Published /\ Published' = Published \cup {c.key}
    BY <2>1, <2>2, <2>3 DEF Published
  <2>5. Keyed'
    BY <1>0, <2>3, <2>4 DEF Keyed, Published
  <2>6. \A k \in Key : committed'[k] \in Drafty
    BY <1>1, <2>3 DEF Drafty
  <2>7. ASSUME mode = "add", ~forked, NEW l \in Published
        PROVE  l \in c.saw
    <3>1. committed[l] \in AllCommands /\ committed[l].key = l /\ l # c.key
      BY <1>0, <1>1, <2>4, <2>7 DEF Published, Keyed
    <3>2. committed[l].payload = c.payload /\ c.payload \in Precise
      BY <1>0, <2>7, <3>1 DEF OneDraft
    <3>3. l \in Current(c)
      BY <2>7, <3>2 DEF Current
    <3> QED BY <2>1, <3>3
  <2>8. OnePlacePerDraft'
    <3> SUFFICES ASSUME mode = "add", ~forked, NEW k \in Published', NEW l \in Published'
                 PROVE  k = l \/ k \in committed'[l].saw \/ l \in committed'[k].saw
      BY DEF OnePlacePerDraft
    <3>1. CASE k # c.key /\ l # c.key
      <4>1. k \in Published /\ l \in Published /\ committed'[k] = committed[k]
            /\ committed'[l] = committed[l]
        BY <2>3, <2>4, <3>1 DEF Published
      <4> QED BY <1>0, <4>1 DEF OnePlacePerDraft
    <3>2. CASE k = c.key /\ l # c.key
      BY <2>3, <2>4, <2>7, <3>2
    <3>3. CASE k # c.key /\ l = c.key
      BY <2>3, <2>4, <2>7, <3>3
    <3> QED BY <3>1, <3>2, <3>3
  <2> QED BY <2>5, <2>6, <2>8
<1> QED BY <1>2, <1>3 DEF Publishes

-----------------------------------------------------------------------------
(* Every step. *)

LEMMA ContributorPlaces ==
  ASSUME IInv, PInv, NEW t \in Tab, Contributor(t)
  PROVE  PInv'
<1>0. /\ Typed /\ TabsOK /\ PublishingIsUnderWay /\ Fits /\ OneDraft
  BY DEF IInv, PInv
<1>1. Good(t) /\ committed' = committed
  BY <1>0, ContributorSteps DEF Quiet
<1>2. mode' = mode /\ (forked => forked')
  <2>1. CASE Change(t)
    <3>1. mode' = mode /\ forked' = (forked \/ Diverges(t))
      BY <2>1 DEF Change
    <3> QED BY <3>1
  <2>2. CASE ~Change(t)
    <3>1. mode' = mode /\ forked' = forked
      BY <2>2 DEF Contributor, Publish, Acknowledge, Rebase, ContinueEditing, Escape, GoBack,
         Close, KeepEditing, Discard, ReturnLater, Leave, Reload, Duplicate, history
    <3> QED BY <3>1
  <2> QED BY <2>1, <2>2
<1>3. Keyed' /\ OnePlacePerDraft' /\ \A k \in Key : committed'[k] \in Drafty
  BY <1>0, <1>1, <1>2, OnePlaceStep DEF Publishes
<1>4. CASE Change(t)
  BY <1>0, <1>1, <1>3, <1>4, ChangeStep DEF PInv
<1>5. CASE Acknowledge(t) \/ Rebase(t)
  BY <1>0, <1>1, <1>3, <1>5, AttemptSteps DEF PInv
<1>6. ASSUME Derived(t), forked' = forked, \A c \in late' : c \in AllCommands
      PROVE  PInv'
  BY <1>0, <1>2, <1>3, <1>6, Derives DEF PInv
<1>7. \A c \in late : c \in AllCommands BY <1>0 DEF AllCommands, Typed
<1>8. CASE Publish(t) \/ ContinueEditing(t) \/ Escape(t) \/ GoBack(t)
  <2>1. Derived(t) BY <1>0, <1>1, <1>8, AskingDerives
  <2>2. forked' = forked /\ late' = late
    BY <1>8 DEF Publish, ContinueEditing, Escape, GoBack, Close, history, server
  <2> QED BY <1>6, <1>7, <2>1, <2>2
<1>9. CASE KeepEditing(t) \/ Discard(t) \/ ReturnLater(t)
  <2>1. Derived(t) BY <1>0, <1>1, <1>9, LeavingDerives
  <2>2. forked' = forked /\ late' = late
    BY <1>9 DEF KeepEditing, Discard, ReturnLater, Leave, history, server
  <2> QED BY <1>6, <1>7, <2>1, <2>2
<1>10. CASE Reload(t)
  <2>1. Derived(t) BY <1>0, <1>1, <1>10, StartDerives DEF Reload
  <2>2. \A c \in late' : c \in AllCommands
    BY <1>0, <1>7, <1>10, Running DEF Reload
  <2> QED BY <1>6, <1>10, <2>1, <2>2 DEF Reload
<1>11. CASE \E from \in Tab : Duplicate(t, from)
  <2>1. PICK from \in Tab : Start(t, saved[from], scene[from]) BY <1>11 DEF Duplicate
  <2>2. Derived(t) BY <1>0, <1>1, <2>1, StartDerives
  <2> QED BY <1>6, <1>7, <1>11, <2>2 DEF Duplicate, server
<1> QED BY <1>4, <1>5, <1>8, <1>9, <1>10, <1>11 DEF Contributor

LEMMA ConsumerPlaces ==
  ASSUME IInv, PInv, NEW t \in Tab, Consumer(t)
  PROVE  PInv'
<1>0. /\ Typed /\ TabsOK /\ Fits /\ OneDraft
  BY DEF IInv, PInv
<1>1. Good(t) BY RunSteps DEF Run
<1>2. mode' = mode /\ forked' = forked
  BY DEF Consumer, Identify, Answered, TimesOut, Reconcile, Consume, HandOff, history
<1>3. job[t].step # "idle"
  BY DEF Consumer, Identify, Answered, TimesOut, Reconcile, Consume, HandOff
<1>4. job[t].draft \in AllCommands BY <1>0, <1>3, Running
<1>5. Publishes
  <2>1. CASE Answered(t)
    BY <1>4, <2>1, AnswersPublish DEF Answered
  <2>2. CASE ~Answered(t)
    BY <2>2 DEF Consumer, Identify, TimesOut, Reconcile, Consume, HandOff, server, Publishes
  <2> QED BY <2>1, <2>2
<1>6. Keyed' /\ OnePlacePerDraft' /\ \A k \in Key : committed'[k] \in Drafty
  BY <1>0, <1>2, <1>5, OnePlaceStep
<1>7. \A c \in late' : c \in AllCommands
  <2>1. \A c \in late : c \in AllCommands BY <1>0 DEF AllCommands, Typed
  <2>2. late' \subseteq late \cup {job[t].draft}
    BY DEF Consumer, Identify, Answered, TimesOut, Reconcile, Consume, HandOff, server
  <2> QED BY <1>4, <2>1, <2>2
<1>8. Derived(t) BY <1>0, <1>1, ConsumerDerives
<1> QED BY <1>0, <1>2, <1>6, <1>7, <1>8, Derives DEF PInv

\* Steps that happen elsewhere than in a tab.
LEMMA ElsewherePlaces ==
  ASSUME IInv, PInv, UNCHANGED <<mode, browser, forked>>, Publishes, late' \subseteq late
  PROVE  PInv'
<1>0. /\ Typed /\ Fits /\ OneDraft
  BY DEF IInv, PInv
<1>1. Keyed' /\ OnePlacePerDraft' /\ \A k \in Key : committed'[k] \in Drafty
  BY <1>0, OnePlaceStep
<1>2. AllCommands' \subseteq AllCommands
  <2> SUFFICES ASSUME NEW c \in AllCommands' PROVE c \in AllCommands
    OBVIOUS
  <2>1. c \in Command /\ c # NoCommand BY Commands DEF AllCommands
  <2> QED BY <1>1, <2>1 DEF AllCommands, Drafty, browser
<1>3. \A u \in Tab : Fit(session'[u]) /\ Fit(saved'[u])
  BY <1>0 DEF Fits, browser
<1> QED BY <1>0, <1>1, <1>2, <1>3, Fewer DEF PInv

LEMMA PlacesStep == IInv /\ PInv /\ [Next]_vars => PInv'
<1> SUFFICES ASSUME IInv, PInv, [Next]_vars PROVE PInv' OBVIOUS
<1>1. ASSUME NEW c \in late, CarryOutLate(c) PROVE PInv'
  <2>1. c \in AllCommands BY DEF IInv, Typed, AllCommands
  <2>2. Publishes BY <1>1, <2>1, AnswersPublish DEF CarryOutLate
  <2> QED BY <1>1, <2>2, ElsewherePlaces DEF CarryOutLate, history
<1>2. CASE OthersPublish \/ UNCHANGED vars
  <2>1. UNCHANGED <<mode, browser, forked, committed, late>>
    BY <1>2 DEF OthersPublish, vars, history, server
  <2> QED BY <2>1, ElsewherePlaces DEF Publishes
<1> QED BY <1>1, <1>2, ContributorPlaces, ConsumerPlaces DEF Next

LEMMA PlacesInitial == Init => PInv
<1> SUFFICES ASSUME Init PROVE PInv OBVIOUS
<1>1. PICK t \in Tab, k \in Key, p \in Payload :
        session = [x \in Tab |-> IF x = t
                     THEN At("editing", [key |-> k, payload |-> p, saw |-> {}])
                     ELSE NoSession]
  BY DEF Init
<1>. DEFINE e == [key |-> k, payload |-> p, saw |-> {}]
<1>2. e \in Command /\ FitCommand(e) BY DEF Command, FitCommand
<1>. HIDE DEF e
<1>3. Fit(At("editing", e)) /\ At("editing", e).draft = e
  BY <1>2, FitAt DEF Status, Warning
<1>4. \A x \in Tab : session[x] \in {At("editing", e), NoSession} /\ saved[x] = session[x]
  BY <1>1 DEF Init, e
<1>5. AllCommands \subseteq {e}
  <2> SUFFICES ASSUME NEW c \in AllCommands PROVE c = e
    OBVIOUS
  <2>1. c \in Command /\ c # NoCommand BY Commands DEF AllCommands
  <2> QED BY <1>3, <1>4, <2>1, Nothing DEF AllCommands, Init
<1>6. Fits BY <1>2, <1>3, <1>4, <1>5, Nothing DEF Fits
<1>7. OneDraft BY <1>5 DEF OneDraft
<1>8. Published = {} BY DEF Published, Init
<1> QED BY <1>6, <1>7, <1>8 DEF PInv, Keyed, OnePlacePerDraft

\* One draft adds one place, and a second one only if its author was shown the
\* first: for every number of tabs, late requests, retries and duplicated tabs.
THEOREM OnePlace == Spec => []OnePlacePerDraft
<1>1. Init => IInv /\ PInv BY Initial, PlacesInitial
<1>2. IInv /\ PInv /\ [Next]_vars => (IInv /\ PInv)'
  BY Inductive, PlacesStep
<1>3. IInv /\ PInv => OnePlacePerDraft BY DEF PInv
<1> QED BY <1>1, <1>2, <1>3, PTL DEF Spec

=============================================================================
