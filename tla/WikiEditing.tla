---------------------------- MODULE WikiEditing ----------------------------
(***************************************************************************)
(* Editing one wiki document from several browser tabs: the editor          *)
(* (components/wiki/wiki-editor.tsx), its debounced autosave                *)
(* (hooks/use-autosave.ts) and the server actions that store the document,  *)
(* optimistically locked: a public page is merged three ways when its       *)
(* version moved (lib/wiki-actions.ts), a private draft is not              *)
(* (lib/wiki-draft-actions.ts).  Requests may be lost, or land after the    *)
(* browser gave them up.                                                    *)
(*                                                                          *)
(* A document is one text per field.  Its scalar fields (title, icon,       *)
(* parent) are compared one by one, its blocks as one body.                 *)
(***************************************************************************)
EXTENDS Integers, FiniteSets

CONSTANTS Editor,     \* open tabs
          Stray,      \* the slot of the request a browser gave up
          NoDocument, \* in place of a document where there is none
          Scalar,     \* fields compared one by one: title, icon, parent
          Block,      \* top-level blocks of the body
          Text,       \* values of a field
          Kind,       \* which of "page" and "draft" a run opens
          MaxEdits,   \* bound: keystrokes and adoptions of all editors
          MaxLosses,  \* bound: requests given up
          MaxResets   \* bound: rollbacks and deletions

Field == Scalar \cup Block

ASSUME StrayAssumption == Stray \notin Editor
ASSUME NoDocumentAssumption == NoDocument \notin [Field -> Text]
ASSUME KindAssumption == Kind \subseteq {"page", "draft"}
ASSUME BoundAssumption ==
  MaxEdits \in Nat /\ MaxLosses \in Nat /\ MaxResets \in Nat

VARIABLES
  kind,      \* the table that holds the document
  page,      \* its row
  editor,    \* the refs and the autosave state of each tab
  call,      \* the save each tab awaits, and the stray one
  spent,     \* edits, losses and resets so far
  past       \* history, read by the properties alone

vars == <<kind, page, editor, call, spent, past>>

Slot == Editor \cup {Stray}
Document == [Field -> Text]

Row == [doc : Document, version : Nat, generation : Nat, live : BOOLEAN]

NoConflict == [doc |-> NoDocument, version |-> 0, generation |-> 0]

\* A conflict answer carries the server's document.
Offer == {NoConflict} \cup [doc : Document, version : Nat, generation : Nat]

Tab == [doc : Document, base : Document, saved : Document,
        version : Nat, generation : Nat,
        status : {"idle", "unsaved", "saving", "saved", "error"},
        timer : BOOLEAN, halted : BOOLEAN, draining : BOOLEAN,
        conflict : Offer]

None == [phase |-> "none", next |-> NoDocument, base |-> NoDocument,
         doc |-> NoDocument, version |-> 0, generation |-> 0]

Starting(d) == [None EXCEPT !.phase = "starting", !.next = d]

Phase == {"sent", "reread", "merged", "stored", "conflict", "gone", "acknowledged"}

\* next is what the tab submitted, doc what the server is about to write or answers.
Call == {None} \cup {Starting(d) : d \in Document}
        \cup [phase : Phase, next : Document, base : Document, doc : Document,
              version : Nat, generation : Nat]

TypeOK ==
  /\ kind \in Kind
  /\ page \in Row
  /\ editor \in [Editor -> Tab]
  /\ call \in [Slot -> Call]
  /\ spent \in [edits : 0 .. MaxEdits, losses : 0 .. MaxLosses,
                resets : 0 .. MaxResets]
  /\ past \in [held : SUBSET Document, since : [Field -> SUBSET Text],
               foreign : [Editor -> BOOLEAN]]

-----------------------------------------------------------------------------
(* Merging. *)

\* mergeScalarField, and diff3 on one block: a side that kept the base yields.
MergesCleanly(base, mine, theirs) ==
  \A f \in Field : mine[f] = base[f] \/ theirs[f] = base[f] \/ mine[f] = theirs[f]

Merge(base, mine, theirs) ==
  [f \in Field |-> IF mine[f] = base[f] THEN theirs[f] ELSE mine[f]]

\* The fields that drift together: a scalar alone, the blocks as one body.
Part(f) == IF f \in Block THEN Block ELSE {f}

SamePart(f, d, e) == \A g \in Part(f) : d[g] = e[g]

-----------------------------------------------------------------------------
(* The autosave of a tab. *)

Awaiting(c) == call[c].phase # "none"

Typed(tab, f, t) ==
  [tab EXCEPT !.doc = [@ EXCEPT ![f] = t],
              !.status = IF @ = "saving" \/ tab.halted THEN @ ELSE "unsaved",
              !.timer = @ \/ ~tab.halted]

\* notifyChange, on every keystroke.
Type(c) ==
  /\ spent.edits < MaxEdits
  /\ \E f \in Field : \E t \in Text \ {editor[c].doc[f]} :
       editor' = [editor EXCEPT ![c] = Typed(@, f, t)]
  /\ spent' = [spent EXCEPT !.edits = @ + 1]
  /\ UNCHANGED <<kind, page, call, past>>

\* A document back at the saved one leaves nothing to do.
Converged(tab) ==
  [tab EXCEPT !.timer = FALSE, !.draining = FALSE,
              !.status = IF @ \in {"unsaved", "saving"} THEN "saved" ELSE @]

\* run: the snapshot is taken before the local draft is flushed.
Run(c) ==
  /\ editor' = [editor EXCEPT ![c] = [@ EXCEPT !.timer = FALSE, !.status = "saving"]]
  /\ call' = [call EXCEPT ![c] = Starting(editor[c].doc)]

\* flush, when the debounce fires.  Mid-flight it arms itself again.
Flush(c) ==
  /\ editor[c].timer /\ ~Awaiting(c)
  /\ \/ /\ editor[c].halted
        /\ editor' = [editor EXCEPT ![c] = [@ EXCEPT !.timer = FALSE]]
        /\ UNCHANGED call
     \/ /\ ~editor[c].halted /\ editor[c].doc = editor[c].saved
        /\ editor' = [editor EXCEPT
             ![c] = [Converged(@) EXCEPT !.draining = editor[c].draining]]
        /\ UNCHANGED call
     \/ /\ ~editor[c].halted /\ editor[c].doc # editor[c].saved
        /\ Run(c)
  /\ UNCHANGED <<kind, page, spent, past>>

\* flushLatest, asked for by Ctrl+S, by leaving the page or before publishing.  With
\* nothing to save it does what Flush does.
SaveNow(c) ==
  /\ ~editor[c].draining
  /\ editor[c].doc # editor[c].saved \/ editor[c].status = "error" \/ Awaiting(c)
  /\ editor' = [editor EXCEPT ![c] = [@ EXCEPT !.draining = TRUE, !.timer = FALSE]]
  /\ UNCHANGED <<kind, page, call, spent, past>>

\* The drain goes on until the latest snapshot is the saved one, or a save fails.
Drain(c) ==
  /\ editor[c].draining /\ ~Awaiting(c)
  /\ LET settled == editor[c].doc = editor[c].saved /\ editor[c].status # "error"
     IN  \/ /\ settled
            /\ editor' = [editor EXCEPT ![c] = Converged(@)]
            /\ UNCHANGED call
         \/ ~settled /\ Run(c)
  /\ UNCHANGED <<kind, page, spent, past>>

\* The baselines are read when the request leaves, not when its text was taken.
Send(c) ==
  /\ call[c].phase = "starting"
  /\ call' = [call EXCEPT ![c] =
       [phase |-> "sent", next |-> call[c].next, base |-> editor[c].base,
        doc |-> call[c].next, version |-> editor[c].version,
        generation |-> editor[c].generation]]
  /\ UNCHANGED <<kind, page, editor, spent, past>>

-----------------------------------------------------------------------------
(* The server actions.  A request nobody awaits any more is answered to nobody. *)

Reply(s, answer) ==
  call' = [call EXCEPT ![s] = IF s = Stray THEN None ELSE answer]

Answer(s, phase) ==
  [call[s] EXCEPT !.phase = phase, !.doc = page.doc, !.version = page.version,
                  !.generation = page.generation]

Refuse(s) ==
  /\ Reply(s, Answer(s, IF page.live THEN "conflict" ELSE "gone"))
  /\ UNCHANGED <<page, past>>

\* The compare-and-swap; a draft has no generation.
Current(s) ==
  /\ page.live /\ call[s].version = page.version
  /\ kind = "page" => call[s].generation = page.generation

Store(s) ==
  /\ Current(s)
  /\ page' = [page EXCEPT !.doc = call[s].doc, !.version = @ + 1]
  /\ Reply(s, [call[s] EXCEPT !.phase = "stored", !.version = page.version + 1])
  /\ past' = [held |-> past.held \cup {call[s].doc},
              since |-> [f \in Field |-> past.since[f] \cup {call[s].doc[f]}],
              foreign |-> [c \in Editor |-> past.foreign[c] \/ s # c]]

\* updateWikiDraft: swap, or report the conflict.
UpdateDraft(s) ==
  /\ kind = "draft" /\ call[s].phase = "sent"
  /\ Store(s) \/ (~Current(s) /\ Refuse(s))
  /\ UNCHANGED <<kind, editor, spent>>

\* updateWikiPage: swap, or read the page again.
UpdatePage(s) ==
  /\ kind = "page" /\ call[s].phase = "sent"
  /\ \/ Store(s)
     \/ ~page.live /\ Refuse(s)
     \/ /\ page.live /\ ~Current(s)
        /\ call' = [call EXCEPT ![s] = [@ EXCEPT !.phase = "reread"]]
        /\ UNCHANGED <<page, past>>
  /\ UNCHANGED <<kind, editor, spent>>

Mergeable(s) ==
  /\ page.live /\ call[s].generation = page.generation
  /\ MergesCleanly(call[s].base, call[s].next, page.doc)

Reread(s) ==
  /\ call[s].phase = "reread"
  /\ \/ /\ Mergeable(s)
        /\ call' = [call EXCEPT ![s] = [@ EXCEPT
             !.phase = "merged",
             !.doc = Merge(call[s].base, call[s].next, page.doc),
             !.version = page.version]]
        /\ UNCHANGED <<page, past>>
     \/ ~Mergeable(s) /\ Refuse(s)
  /\ UNCHANGED <<kind, editor, spent>>

\* The second swap; a page that moved again is a conflict.
StoreMerged(s) ==
  /\ call[s].phase = "merged"
  /\ Store(s) \/ (~Current(s) /\ Refuse(s))
  /\ UNCHANGED <<kind, editor, spent>>

Serve(s) == UpdateDraft(s) \/ UpdatePage(s) \/ Reread(s) \/ StoreMerged(s)

-----------------------------------------------------------------------------
(* The answer reaches the tab. *)

Drifted(tab, answer, f) == ~SamePart(f, tab.doc, answer.next)

StoredAsSubmitted(answer, f) == SamePart(f, answer.doc, answer.next)

AdoptWhole(tab, answer) == answer.doc

\* What drifted while the save was in flight stays as it was typed.
DocAfter(tab, answer) ==
  [f \in Field |-> IF Drifted(tab, answer, f) THEN tab.doc[f] ELSE answer.doc[f]]

BaseOfUndrifted(tab, answer) ==
  [f \in Field |-> IF Drifted(tab, answer, f) THEN tab.base[f] ELSE answer.doc[f]]

\* A drifted field's ancestor is what was submitted, when that is what was stored.
BaseAfter(tab, answer) ==
  [f \in Field |-> IF Drifted(tab, answer, f) /\ ~StoredAsSubmitted(answer, f)
                     THEN tab.base[f] ELSE answer.doc[f]]

AnsweredVersion(tab, answer) == answer.version

\* The version stays behind when anything drifted, so that the next save is merged.
VersionAfter(tab, answer) ==
  IF tab.doc = answer.next THEN answer.version ELSE tab.version

\* save, after its request.  A conflict dialog already open stays open.
Acknowledge(c) ==
  /\ call[c].phase = "stored"
  /\ \E dialog \in {editor[c].conflict, NoConflict} :
       editor' = [editor EXCEPT ![c] = [@ EXCEPT
         !.doc = DocAfter(editor[c], call[c]),
         !.base = BaseAfter(editor[c], call[c]),
         !.version = VersionAfter(editor[c], call[c]),
         !.generation = call[c].generation,
         !.conflict = dialog]]
  /\ call' = [call EXCEPT ![c] = [@ EXCEPT !.phase = "acknowledged"]]
  /\ UNCHANGED <<kind, page, spent, past>>

CurrentSnapshot(c) == editor[c].doc

\* The snapshot a resolved save leaves as the saved one: what the server stored.
SavedSnapshot(c) == call[c].doc

Settled(tab, d) ==
  [tab EXCEPT !.saved = d, !.halted = FALSE,
              !.status = IF tab.doc = d THEN "saved" ELSE @,
              !.timer = @ \/ tab.doc # d]

\* run, when its save resolved.
Settle(c) ==
  /\ call[c].phase = "acknowledged"
  /\ editor' = [editor EXCEPT ![c] = Settled(@, SavedSnapshot(c))]
  /\ call' = [call EXCEPT ![c] = None]
  /\ UNCHANGED <<kind, page, spent, past>>

\* The conflict a tab holds after an answer k that is not a success.
ConflictAfter(tab, k) ==
  IF k.phase = "gone" THEN tab.conflict
  ELSE [doc |-> k.doc, version |-> k.version, generation |-> k.generation]

\* EDIT_CONFLICT and "Page not found" stop the autosave.
Rejected(c) ==
  /\ call[c].phase \in {"conflict", "gone"}
  /\ editor' = [editor EXCEPT ![c] = [@ EXCEPT
       !.status = "error", !.halted = TRUE, !.draining = FALSE,
       !.conflict = ConflictAfter(editor[c], call[c])]]
  /\ call' = [call EXCEPT ![c] = None]
  /\ UNCHANGED <<kind, page, spent, past>>

\* The request rejects in the browser.  The server may still be carrying it out.
Lose(c) ==
  /\ spent.losses < MaxLosses /\ call[Stray] = None
  /\ Awaiting(c) /\ call[c].phase # "acknowledged"
  /\ editor' = [editor EXCEPT
       ![c] = [@ EXCEPT !.status = "error", !.draining = FALSE]]
  /\ \E stray \in {None} \cup
       (IF call[c].phase \in {"sent", "reread", "merged"} THEN {call[c]} ELSE {}) :
       call' = [call EXCEPT ![c] = None, ![Stray] = stray]
  /\ spent' = [spent EXCEPT !.losses = @ + 1]
  /\ past' = [past EXCEPT !.foreign[c] = TRUE]
  /\ UNCHANGED <<kind, page>>

ResetStillHalted(tab, d) ==
  [tab EXCEPT !.saved = d, !.status = "idle", !.timer = FALSE]

\* resetBaseline: a clean baseline, and the autosave runs again.
Reset(tab, d) ==
  [tab EXCEPT !.saved = d, !.status = "idle", !.timer = FALSE, !.halted = FALSE]

\* adoptConflictServer: the server's document replaces the tab's, baselines and all.
Adopt(c) ==
  /\ editor[c].conflict # NoConflict /\ spent.edits < MaxEdits
  /\ LET theirs == editor[c].conflict
     IN  editor' = [editor EXCEPT ![c] = [Reset(@, theirs.doc) EXCEPT
           !.doc = theirs.doc, !.base = theirs.doc,
           !.version = theirs.version, !.generation = theirs.generation,
           !.conflict = NoConflict]]
  /\ spent' = [spent EXCEPT !.edits = @ + 1]
  /\ UNCHANGED <<kind, page, call, past>>

-----------------------------------------------------------------------------
(* What else changes the document. *)

Everyone == [c \in Editor |-> TRUE]

RolledBackInPlace(d) == [page EXCEPT !.doc = d, !.version = @ + 1]

\* The row after a rollback: a new generation.
RolledBack(d) ==
  [page EXCEPT !.doc = d, !.version = @ + 1, !.generation = @ + 1]

\* rollbackToRevision: an earlier document returns, even on a deleted page.  Every
\* document the page held is a candidate; coalescing leaves fewer revisions.
Rollback(d) ==
  /\ kind = "page" /\ spent.resets < MaxResets
  /\ page' = RolledBack(d)
  /\ spent' = [spent EXCEPT !.resets = @ + 1]
  /\ past' = [past EXCEPT !.since = [f \in Field |-> {d[f]}], !.foreign = Everyone]
  /\ UNCHANGED <<kind, editor, call>>

DeletePage ==
  /\ kind = "page" /\ page.live /\ spent.resets < MaxResets
  /\ page' = [page EXCEPT !.live = FALSE, !.version = @ + 1, !.generation = @ + 1]
  /\ spent' = [spent EXCEPT !.resets = @ + 1]
  /\ past' = [past EXCEPT !.since = [f \in Field |-> {page.doc[f]}],
                          !.foreign = Everyone]
  /\ UNCHANGED <<kind, editor, call>>

RestorePage ==
  /\ kind = "page" /\ ~page.live
  /\ page' = [page EXCEPT !.live = TRUE, !.version = @ + 1]
  /\ past' = [past EXCEPT !.foreign = Everyone]
  /\ UNCHANGED <<kind, editor, call, spent>>

\* publishWikiDraft and deleteWikiDraft remove the draft's row.
RemoveDraft ==
  /\ kind = "draft" /\ page.live /\ spent.resets < MaxResets
  /\ page' = [page EXCEPT !.live = FALSE]
  /\ spent' = [spent EXCEPT !.resets = @ + 1]
  /\ past' = [past EXCEPT !.foreign = Everyone]
  /\ UNCHANGED <<kind, editor, call>>

-----------------------------------------------------------------------------

Opened(d) ==
  [doc |-> d, base |-> d, saved |-> d, version |-> 1, generation |-> 0,
   status |-> "idle", timer |-> FALSE, halted |-> FALSE, draining |-> FALSE,
   conflict |-> NoConflict]

\* Every tab has just opened the document; an earlier revision exists.
InitWith(opened, earlier) ==
  LET doc == [f \in Field |-> opened]
  IN  /\ kind \in Kind
      /\ page = [doc |-> doc, version |-> 1, generation |-> 0, live |-> TRUE]
      /\ editor = [c \in Editor |-> Opened(doc)]
      /\ call = [s \in Slot |-> None]
      /\ spent = [edits |-> 0, losses |-> 0, resets |-> 0]
      /\ past = [held |-> {doc, [f \in Field |-> earlier]},
                 since |-> [f \in Field |-> {opened}],
                 foreign |-> [c \in Editor |-> FALSE]]

Init == \E opened, earlier \in Text : InitWith(opened, earlier)

Next ==
  \/ \E c \in Editor :
       Type(c) \/ Flush(c) \/ SaveNow(c) \/ Drain(c) \/ Send(c)
       \/ Acknowledge(c) \/ Settle(c) \/ Rejected(c) \/ Lose(c) \/ Adopt(c)
  \/ \E s \in Slot :
       UpdateDraft(s) \/ UpdatePage(s) \/ Reread(s) \/ StoreMerged(s)
  \/ \E d \in past.held : Rollback(d)
  \/ DeletePage
  \/ RestorePage
  \/ RemoveDraft

Spec == Init /\ [][Next]_vars

\* Timers fire, promises resume, and every request is answered or given up.
Fairness ==
  /\ \A c \in Editor :
       /\ WF_vars(Flush(c)) /\ WF_vars(Drain(c)) /\ WF_vars(Send(c))
       /\ WF_vars(Acknowledge(c)) /\ WF_vars(Settle(c)) /\ WF_vars(Rejected(c))
       /\ WF_vars(Serve(c))

FairSpec == Spec /\ Fairness

-----------------------------------------------------------------------------
(* Properties. *)

\* The save that lands in this step, when one does.
Landing(s) == call[s].phase \in {"sent", "merged"} /\ page'.doc # page.doc
              /\ call'[s] # call[s]

\* A save replaces a field only if its author's baseline held the text replaced:
\* what somebody else wrote meanwhile is never overwritten unseen, however the
\* answers, the drift of the document and the merges interleave.
NoSilentLoss ==
  [][\A s \in Slot : Landing(s) =>
       \A f \in Field : page'.doc[f] # page.doc[f] => call[s].base[f] = page.doc[f]]_vars

\* A save lands only on a page whose present generation has held its whole
\* baseline: work begun before a rollback or a deletion is never merged into what
\* replaced it (docs/development/wiki.md, ADR 0017).
NoSaveAcrossGenerations ==
  [][\A s \in Slot : Landing(s) => \A f \in Field : call[s].base[f] \in past.since[f]]_vars

\* An answer replaces a field only where its author has typed nothing that the
\* server did not have: the save left with the baseline's text, and that text is
\* still there when the answer comes.  Neither what was typed before the save, which a
\* merge keeps, nor what was typed while it was in flight, be it back to the baseline,
\* gives way ("never let a delayed response overwrite edits made while its request was
\* in flight", wiki-editor.tsx:568).
AnswersKeepTyping ==
  [][\A c \in Editor : Acknowledge(c) =>
       \A f \in Field : editor'[c].doc[f] # editor[c].doc[f]
                           => /\ editor[c].doc[f] = call[c].next[f]
                              /\ call[c].next[f] = call[c].base[f]]_vars

Quiet(c) == ~editor[c].timer /\ ~editor[c].draining /\ ~Awaiting(c)

\* A tab at rest that shows no error displays a document that the server stored:
\* neither a keystroke during a save, an adopted document nor a late answer leaves
\* text behind that nothing will save.
AtRestMeansPersisted ==
  \A c \in Editor : Quiet(c) /\ editor[c].status # "error" =>
    editor[c].doc = editor[c].saved /\ editor[c].saved \in past.held

\* An editor whose answers all arrived gets a conflict only when somebody else
\* changed the document.
SaveNeverConflictsWithItself ==
  \A c \in Editor : editor[c].conflict # NoConflict => past.foreign[c]

PageSaveNeverConflictsWithItself == kind = "page" => SaveNeverConflictsWithItself

\* Unsaved text is stored, or an error is shown.
Settles ==
  \A c \in Editor : editor[c].doc # editor[c].saved ~>
    editor[c].doc = editor[c].saved \/ editor[c].status = "error"

=============================================================================
