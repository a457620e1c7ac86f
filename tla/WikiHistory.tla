----------------------------- MODULE WikiHistory -----------------------------
(***************************************************************************)
(* The history of one wiki page: what its revisions say of the texts the    *)
(* page has had (lib/wiki-actions.ts, lib/wiki-draft-actions.ts and         *)
(* lib/revision-coalescing.ts).                                             *)
(*                                                                         *)
(* A page begins as a private draft, which is saved and published; it is    *)
(* then edited, merged, rolled back, deleted and restored.  The edits of    *)
(* one sitting, by one author without a long pause, share one revision.     *)
(* A new revision is dated by the database when the transaction begins, a   *)
(* continued one by the server when it writes the page, and the newest by   *)
(* that date is the one the next edit may continue.  Every server action    *)
(* runs as a worker under PostgreSQL's READ COMMITTED: from its UPDATE of    *)
(* the page to its commit it holds the row, so that these are one step.     *)
(***************************************************************************)
EXTENDS Integers, FiniteSets

CONSTANTS
  Author,
  Owner,         \* of the private draft
  Worker,        \* server actions running at a time
  Nobody,
  Window,        \* REVISION_COALESCE_WINDOW_MS, in readings of the clock
  MaxClock,      \* bound: nothing begins at or after this time
  MaxTexts       \* bound: texts written, by saves and merges

ASSUME AuthorAssumption == Owner \in Author /\ Nobody \notin Author
ASSUME BoundAssumption == {Window, MaxClock, MaxTexts} \subseteq Nat

VARIABLES
  clock,         \* every reading of it is later than the one before
  page,          \* the row of wiki_pages
  revisions,     \* its rows of wiki_revisions
  draft,         \* the row of wiki_drafts
  worker,        \* the call each worker is running
  texts,         \* texts written so far: the last one's number
  kept,          \* texts whose sitting is over, by the kind of their write
  overtaken      \* whether a rollback began before a write that it undid

vars == <<clock, page, revisions, draft, worker, texts, kept, overtaken>>

Kind == {"create", "edit", "rollback"}

\* A row of version 0 does not exist.  kind is that of the last write.
NoPage == [version |-> 0, generation |-> 0, live |-> FALSE, text |-> 0,
           updatedBy |-> Nobody, updatedAt |-> 0, kind |-> "create"]

NoDraft == [version |-> 0, text |-> 0]

Exists == page.version > 0

Idle == [op |-> "none", step |-> "idle", by |-> Nobody, base |-> 0, generation |-> 0,
         text |-> 0, started |-> 0, retry |-> FALSE]

\* Nothing of this id has been created yet.
Init ==
  /\ clock = 0
  /\ page = NoPage
  /\ revisions = {}
  /\ draft = NoDraft
  /\ worker = [w \in Worker |-> Idle]
  /\ texts = 0
  /\ kept = {}
  /\ overtaken = FALSE

-----------------------------------------------------------------------------
Begin(w, call) ==
  /\ worker[w].step = "idle"
  /\ clock < MaxClock
  /\ worker' = [worker EXCEPT ![w] = call]

End(w) == worker' = [worker EXCEPT ![w] = Idle]

At(w, op, step) == worker[w].op = op /\ worker[w].step = step

NewText == texts < MaxTexts /\ texts' = texts + 1

\* The transaction begins: now() is this moment until it ends.
BeginTransaction(w) ==
  /\ worker[w].step = "begin"
  /\ clock' = clock + 1
  /\ worker' = [worker EXCEPT ![w].started = clock', ![w].step = "write"]
  /\ UNCHANGED <<page, revisions, draft, texts, kept, overtaken>>

\* The process dies or the connection drops before the commit.
Stop(w) ==
  /\ worker[w].step # "idle"
  /\ End(w)
  /\ UNCHANGED <<clock, page, revisions, draft, texts, kept, overtaken>>

\* Nobody does anything for longer than a sitting lasts.
Pause ==
  /\ clock < MaxClock
  /\ clock' = clock + Window + 1
  /\ UNCHANGED <<page, revisions, draft, worker, texts, kept, overtaken>>

-----------------------------------------------------------------------------
(* The history. *)

\* The revision of the latest date.
LatestRevision == CHOOSE r \in revisions : \A q \in revisions : q.at <= r.at

\* Mutant: creations and rollbacks are continued like edits.
CoalescesCheckpoints(r, a, now) ==
  /\ r.by = a
  /\ now - r.at <= Window

\* shouldCoalesceRevision
ShouldCoalesce(r, a, now) ==
  /\ r.kind = "edit"
  /\ r.by = a
  /\ now - r.at <= Window

\* Author a writes text x to the page at time now, in a transaction begun at
\* started.
Revise(a, x, started, now) ==
  revisions' =
    IF ShouldCoalesce(LatestRevision, a, now)
    THEN (revisions \ {LatestRevision}) \cup
         {[LatestRevision EXCEPT !.text = x, !.at = now]}
    ELSE revisions \cup {[text |-> x, by |-> a, at |-> started, kind |-> "edit"]}

\* The text of the page gives way to one that is not of its sitting.
LeavesSitting == kept' = kept \cup {[text |-> page.text, kind |-> page.kind]}

SameSitting(a, now) ==
  /\ page.kind = "edit"
  /\ page.updatedBy = a
  /\ now - page.updatedAt <= Window

-----------------------------------------------------------------------------
(* The private draft: createWikiDraft, updateWikiDraft, deleteWikiDraft, publishWikiDraft *)

\* A request to create it may come late, when the page is public.
CreateDraft ==
  /\ draft.version = 0
  /\ draft' = [version |-> 1, text |-> 0]
  /\ UNCHANGED <<clock, page, revisions, worker, texts, kept, overtaken>>

BeginSaveDraft(w) ==
  /\ draft.version > 0
  /\ NewText
  /\ Begin(w, [Idle EXCEPT !.op = "draft", !.step = "save", !.by = Owner,
                           !.base = draft.version, !.text = texts'])
  /\ UNCHANGED <<clock, page, revisions, draft, kept, overtaken>>

SaveDraft(w) ==
  LET c == worker[w] IN
  /\ At(w, "draft", "save")
  /\ End(w)
  /\ draft' = IF draft.version = c.base
              THEN [version |-> c.base + 1, text |-> c.text] ELSE draft
  /\ UNCHANGED <<clock, page, revisions, texts, kept, overtaken>>

DeleteDraft ==
  /\ draft.version > 0
  /\ draft' = NoDraft
  /\ UNCHANGED <<clock, page, revisions, worker, texts, kept, overtaken>>

\* A page of this id is the answer.
BeginPublish(w) ==
  /\ ~Exists
  /\ Begin(w, [Idle EXCEPT !.op = "publish", !.step = "begin", !.by = Owner])
  /\ UNCHANGED <<clock, page, revisions, draft, texts, kept, overtaken>>

ReadDraft(w) ==
  /\ At(w, "publish", "write")
  /\ IF draft.version = 0 THEN End(w)
     ELSE worker' = [worker EXCEPT ![w].text = draft.text, ![w].step = "insert"]
  /\ UNCHANGED <<clock, page, revisions, draft, texts, kept, overtaken>>

\* Mutant: a page of this id is written over.
InsertAnyway(w) ==
  LET c == worker[w] IN
  /\ At(w, "publish", "insert")
  /\ End(w)
  /\ clock' = clock + 1
  /\ page' = [version |-> 1, generation |-> 0, live |-> TRUE, text |-> c.text,
              updatedBy |-> c.by, updatedAt |-> clock', kind |-> "create"]
  /\ revisions' = revisions \cup
       {[text |-> c.text, by |-> c.by, at |-> c.started, kind |-> "create"]}
  /\ draft' = NoDraft
  /\ UNCHANGED <<texts, kept, overtaken>>

\* The insert waits for another of the same id, and finds it: then that page is
\* the answer, and the transaction has changed nothing.  Otherwise the page and
\* its first revision are there, and the draft goes as it is by now.
InsertPage(w) ==
  LET c == worker[w] IN
  /\ At(w, "publish", "insert")
  /\ End(w)
  /\ IF Exists THEN UNCHANGED <<clock, page, revisions, draft>>
     ELSE /\ clock' = clock + 1
          /\ page' = [version |-> 1, generation |-> 0, live |-> TRUE, text |-> c.text,
                      updatedBy |-> c.by, updatedAt |-> clock', kind |-> "create"]
          /\ revisions' = revisions \cup
               {[text |-> c.text, by |-> c.by, at |-> c.started, kind |-> "create"]}
          /\ draft' = NoDraft
  /\ UNCHANGED <<texts, kept, overtaken>>

-----------------------------------------------------------------------------
(* Edits of the page: updateWikiPage, writeWikiPage *)

\* An editor that has loaded the page saves it.
BeginSave(w, a) ==
  /\ page.live
  /\ NewText
  /\ Begin(w, [Idle EXCEPT !.op = "save", !.step = "begin", !.by = a, !.text = texts',
                           !.base = page.version, !.generation = page.generation])
  /\ UNCHANGED <<clock, page, revisions, draft, kept, overtaken>>

\* Mutant: the text is saved whatever version the editor loaded.
MatchesGeneration(c) ==
  page.live /\ page.generation = c.generation

\* The page is still the one the editor loaded.
Matches(c) ==
  /\ page.live
  /\ page.version = c.base
  /\ page.generation = c.generation

WritePage(w) ==
  LET c == worker[w] IN
  /\ At(w, "save", "write")
  /\ clock' = clock + 1
  /\ IF Matches(c)
     THEN /\ End(w)
          /\ page' = [page EXCEPT !.version = @ + 1, !.text = c.text, !.updatedBy = c.by,
                                  !.updatedAt = clock', !.kind = "edit"]
          /\ Revise(c.by, c.text, c.started, clock')
          /\ IF SameSitting(c.by, clock') THEN UNCHANGED kept ELSE LeavesSitting
     ELSE /\ IF c.retry THEN End(w) ELSE worker' = [worker EXCEPT ![w].step = "reread"]
          /\ UNCHANGED <<page, revisions, kept>>
  /\ UNCHANGED <<draft, texts, overtaken>>

\* A merge with the page of the same generation is saved once; what cannot be
\* merged is shown as a conflict.
Merge(w) ==
  LET c == worker[w] IN
  /\ At(w, "save", "reread")
  /\ \/ /\ End(w)
        /\ UNCHANGED texts
     \/ /\ page.live /\ page.generation = c.generation
        /\ NewText
        /\ worker' = [worker EXCEPT ![w].base = page.version, ![w].text = texts',
                                    ![w].retry = TRUE, ![w].step = "begin"]
  /\ UNCHANGED <<clock, page, revisions, draft, kept, overtaken>>

-----------------------------------------------------------------------------
(* rollbackToRevision, deleteWikiPage, restoreWikiPage *)

BeginRollback(w, a, r) ==
  /\ Begin(w, [Idle EXCEPT !.op = "rollback", !.step = "begin", !.by = a, !.text = r.text])
  /\ UNCHANGED <<clock, page, revisions, draft, texts, kept, overtaken>>

\* The page is replaced whatever it is by now.
Rollback(w) ==
  LET c == worker[w] IN
  /\ At(w, "rollback", "write")
  /\ End(w)
  /\ clock' = clock + 1
  /\ page' = [page EXCEPT !.version = @ + 1, !.generation = @ + 1, !.text = c.text,
                          !.updatedBy = c.by, !.updatedAt = clock', !.kind = "rollback"]
  /\ revisions' = revisions \cup
       {[text |-> c.text, by |-> c.by, at |-> c.started, kind |-> "rollback"]}
  /\ LeavesSitting
  /\ overtaken' = (overtaken \/ \E r \in revisions : r.at > c.started)
  /\ UNCHANGED <<draft, texts>>

DeletePage ==
  /\ page.live
  /\ clock < MaxClock
  /\ page' = [page EXCEPT !.live = FALSE, !.version = @ + 1, !.generation = @ + 1]
  /\ clock' = clock + 1
  /\ UNCHANGED <<revisions, draft, worker, texts, kept, overtaken>>

RestorePage ==
  /\ Exists /\ ~page.live
  /\ page' = [page EXCEPT !.live = TRUE, !.version = @ + 1]
  /\ UNCHANGED <<clock, revisions, draft, worker, texts, kept, overtaken>>

-----------------------------------------------------------------------------
Next ==
  \/ \E w \in Worker, a \in Author :
       BeginSave(w, a) \/ \E r \in revisions : BeginRollback(w, a, r)
  \/ \E w \in Worker :
       \/ BeginSaveDraft(w) \/ BeginPublish(w) \/ BeginTransaction(w) \/ Stop(w) \/ SaveDraft(w)
       \/ ReadDraft(w) \/ InsertPage(w) \/ WritePage(w) \/ Merge(w) \/ Rollback(w)
  \/ CreateDraft \/ DeleteDraft \/ DeletePage \/ RestorePage \/ Pause

Spec == Init /\ [][Next]_vars

-----------------------------------------------------------------------------
(* Properties *)

Call == [op : {"none", "draft", "publish", "save", "rollback"},
         step : {"idle", "save", "begin", "write", "insert", "reread"},
         by : Author \cup {Nobody}, base : Nat, generation : Nat, text : Nat,
         started : Nat, retry : BOOLEAN]

Revision == [text : Nat, by : Author, at : Nat, kind : Kind]

\* The rows of the page, its revisions and its draft, and what calls hold in memory,
\* have the types of their columns and variables.
TypeOK ==
  /\ clock \in Nat
  /\ page \in [version : Nat, generation : Nat, live : BOOLEAN, text : Nat,
               updatedBy : Author \cup {Nobody}, updatedAt : Nat, kind : Kind]
  /\ revisions \subseteq Revision
  /\ draft \in [version : Nat, text : Nat]
  /\ worker \in [Worker -> Call]
  /\ texts \in 0..MaxTexts
  /\ kept \subseteq [text : Nat, kind : Kind]
  /\ overtaken \in BOOLEAN

InHistory(k) == \E r \in revisions : r.text = k.text /\ r.kind = k.kind

\* "Consecutive writes by one author may coalesce; rollback creates a new
\* revision instead of rewriting history": a text that gave way to another
\* author, to a rollback, or after a long pause, and every creation and
\* rollback, stays in the history for ever.
OnlyConsecutiveWritesCoalesce == \A k \in kept : InHistory(k)

\* The same as long as no rollback undid a write of a later date than its own:
\* the code dates a rollback by when it began.
HistoryKeepsEverySitting == ~overtaken => OnlyConsecutiveWritesCoalesce

\* The newest revision is what the page says and by whom, so that a sitting
\* goes on in the revision it began; merges, retries, deletions and lost
\* connections in between do not matter.
NewestRevisionIsThePage ==
  Exists /\ ~overtaken =>
    LatestRevision.text = page.text /\ LatestRevision.by = page.updatedBy

\* "Publishing twice, or after an unclear answer, must end in one public page"
\* (ADR 0019): there is one creation, the oldest revision there is, whatever
\* publications ran at a time.
OneCreation ==
  /\ Exists = (revisions # {})
  /\ Cardinality({r \in revisions : r.kind = "create"}) <= 1
  /\ \A r, q \in revisions : r.kind = "create" => r.at <= q.at

=============================================================================
