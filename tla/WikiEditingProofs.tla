------------------------- MODULE WikiEditingProofs -------------------------
(***************************************************************************)
(* What WikiEditing promises for every number of tabs, fields and texts:    *)
(* no save overwrites text its author had not seen, none lands on another   *)
(* generation of the page, and no answer replaces what was typed.           *)
(*                                                                          *)
(* The argument is about what a tab has seen.  A document d held with the   *)
(* version v and the generation g is a sight of the page when v and g are   *)
(* not ahead of it, when d is the page's document if v is its version, and  *)
(* when every field of d was once the page's in the generation g if that    *)
(* still is its generation.  The baselines of a tab, the conflict it shows  *)
(* and the answers on their way are all sights.  Two more sections prove     *)
(* that a tab at rest shows what the server stored, and that a page only    *)
(* one tab changes never conflicts with itself.                             *)
(***************************************************************************)
EXTENDS WikiEditing, TLAPS

Held(h, d) == \A f \in Field : d[f] \in h[f]

\* p is the row, h what its fields held in this generation.
Sight(p, h, d, v, g) ==
  /\ v \in Nat /\ v <= p.version /\ g \in Nat /\ g <= p.generation
  /\ v = p.version => d = p.doc
  /\ g = p.generation => Held(h, d)

\* Every field of the page is of its generation; a draft never leaves the first.
PageOK(p, h, k) ==
  /\ Held(h, p.doc)
  /\ k = "draft" => p.generation = 0
  /\ k \in {"page", "draft"}

\* A conflict shown is never older than the generation the tab works on.
TabOK(t, p, h) ==
  /\ Sight(p, h, t.base, t.version, t.generation)
  /\ t.conflict # NoConflict =>
       /\ Sight(p, h, t.conflict.doc, t.conflict.version, t.conflict.generation)
       /\ t.generation <= t.conflict.generation

\* A field stored is the one submitted, unless its author had left it alone.
Keeps(k) == \A f \in Field : k.doc[f] = k.next[f] \/ k.next[f] = k.base[f]

\* What the server holds of a request: the baseline it came with, and, once it is
\* merged, a document that only replaces what its author saw.
CallOK(k, p, h) ==
  /\ k.phase \in {"sent", "reread"} =>
       /\ Sight(p, h, k.base, k.version, k.generation)
       /\ k.doc = k.next
  /\ k.phase = "merged" =>
       /\ k.version <= p.version /\ k.generation <= p.generation
       /\ k.version = p.version =>
            /\ k.doc = Merge(k.base, k.next, p.doc)
            /\ MergesCleanly(k.base, k.next, p.doc)
       /\ k.generation = p.generation => Held(h, k.base)
       /\ Keeps(k)
  /\ k.phase \in {"stored", "conflict"} => Sight(p, h, k.doc, k.version, k.generation)
  /\ k.phase = "stored" => Keeps(k)

\* What a tab holds while it waits: nothing newer than the answer to come.
WaitOK(t, k) ==
  /\ k.phase \in {"sent", "reread", "merged"} => k.generation <= t.generation
  /\ k.phase = "conflict" =>
       /\ t.generation <= k.generation
       /\ t.conflict # NoConflict => t.conflict.generation <= k.generation
  /\ k.phase = "stored" =>
       /\ t.version < k.version
       /\ t.generation = k.generation
       /\ t.conflict # NoConflict =>
            /\ t.conflict.version < k.version
            /\ t.conflict.generation = k.generation

Seen ==
  /\ PageOK(page, past.since, kind)
  /\ \A c \in Editor : TabOK(editor[c], page, past.since) /\ WaitOK(editor[c], call[c])
  /\ \A s \in Slot : CallOK(call[s], page, past.since)

IInv == TypeOK /\ Seen

-----------------------------------------------------------------------------
(* The page only moves forward, and what was a sight of it stays one. *)

Since == [Field -> SUBSET Text]

Advance(p, h, q, i) ==
  /\ p.version <= q.version /\ p.generation <= q.generation
  /\ q.version = p.version => q.doc = p.doc
  /\ q.generation = p.generation => \A f \in Field : h[f] \subseteq i[f]

LEMMA SightStays ==
  ASSUME NEW p \in Row, NEW q \in Row, NEW h \in Since, NEW i \in Since,
         Advance(p, h, q, i),
         NEW d, NEW v, NEW g, Sight(p, h, d, v, g)
  PROVE  Sight(q, i, d, v, g)
<1>1. /\ p.version \in Nat /\ q.version \in Nat
      /\ p.generation \in Nat /\ q.generation \in Nat
  BY DEF Row
<1>2. v \in Nat /\ v <= q.version /\ g \in Nat /\ g <= q.generation
  BY <1>1 DEF Sight, Advance
<1>3. ASSUME v = q.version PROVE d = q.doc
  BY <1>1, <1>3 DEF Sight, Advance
<1>4. ASSUME g = q.generation PROVE Held(i, d)
  BY <1>1, <1>4 DEF Sight, Advance, Held
<1> QED BY <1>2, <1>3, <1>4 DEF Sight

LEMMA TabStays ==
  ASSUME NEW p \in Row, NEW q \in Row, NEW h \in Since, NEW i \in Since,
         Advance(p, h, q, i), NEW t, TabOK(t, p, h)
  PROVE  TabOK(t, q, i)
BY SightStays DEF TabOK

Request == [phase : Phase, next : Document, base : Document, doc : Document,
            version : Nat, generation : Nat]

LEMMA CallFields ==
  ASSUME NEW k \in Call
  PROVE  /\ k.version \in Nat /\ k.generation \in Nat
         /\ k.phase = "none" => k = None
         /\ k.phase = "starting" => k.next \in Document /\ k = Starting(k.next)
         /\ k.phase \notin {"none", "starting"} => k \in Request
<1>1. CASE k = None
  BY <1>1 DEF None
<1>2. ASSUME NEW d \in Document, k = Starting(d)
      PROVE  /\ k.version = 0 /\ k.generation = 0 /\ k.phase = "starting" /\ k.next = d
  BY <1>2 DEF Starting, None
<1>3. CASE k \in Request
  BY <1>3 DEF Request, Phase
<1> QED BY <1>1, <1>2, <1>3 DEF Call, Request

LEMMA CallStays ==
  ASSUME NEW p \in Row, NEW q \in Row, NEW h \in Since, NEW i \in Since,
         Advance(p, h, q, i), NEW k \in Call, CallOK(k, p, h)
  PROVE  CallOK(k, q, i)
<1>1. CASE k.phase = "merged"
  <2>1. /\ p.version \in Nat /\ q.version \in Nat /\ k.version \in Nat
        /\ p.generation \in Nat /\ q.generation \in Nat /\ k.generation \in Nat
    BY CallFields DEF Row
  <2>2. k.version <= q.version /\ k.generation <= q.generation
    BY <1>1, <2>1 DEF CallOK, Advance
  <2>3. k.version = q.version => k.version = p.version /\ q.doc = p.doc
    BY <1>1, <2>1 DEF CallOK, Advance
  <2>4. k.generation = q.generation => Held(i, k.base)
    BY <1>1, <2>1 DEF CallOK, Advance, Held
  <2> QED BY <1>1, <2>2, <2>3, <2>4 DEF CallOK
<1>2. CASE k.phase # "merged"
  BY <1>2, SightStays DEF CallOK
<1> QED BY <1>1, <1>2

-----------------------------------------------------------------------------
(* Types. *)

LEMMA InitTypes == Init => TypeOK
<1> SUFFICES ASSUME NEW opened \in Text, NEW earlier \in Text,
                    InitWith(opened, earlier)
             PROVE  TypeOK
  BY DEF Init
<1> DEFINE doc == [f \in Field |-> opened]
<1>1. doc \in Document /\ [f \in Field |-> earlier] \in Document
  BY DEF Document
<1>2. kind \in Kind /\ page \in Row
  BY <1>1 DEF InitWith, Row
<1>3. editor \in [Editor -> Tab]
  BY <1>1 DEF InitWith, Opened, Tab, Offer
<1>4. call \in [Slot -> Call]
  BY DEF InitWith, Call
<1>5. spent \in [edits : 0 .. MaxEdits, losses : 0 .. MaxLosses, resets : 0 .. MaxResets]
  BY BoundAssumption DEF InitWith
<1>6. past \in [held : SUBSET Document, since : [Field -> SUBSET Text],
               foreign : [Editor -> BOOLEAN]]
  BY <1>1 DEF InitWith
<1> QED BY <1>2, <1>3, <1>4, <1>5, <1>6 DEF TypeOK

LEMMA StoreTypes ==
  ASSUME TypeOK, NEW s \in Slot, call[s] \in Request, Store(s) \/ Refuse(s)
  PROVE  page' \in Row /\ call' \in [Slot -> Call]
         /\ past' \in [held : SUBSET Document, since : [Field -> SUBSET Text],
                       foreign : [Editor -> BOOLEAN]]
<1>1. CASE Store(s)
  <2>a. page \in Row /\ call[s].doc \in Document
    BY DEF TypeOK, Request
  <2>b. page' = [page EXCEPT !.doc = call[s].doc, !.version = @ + 1]
    BY <1>1 DEF Store
  <2>c. ASSUME NEW n \in Nat
        PROVE  [page EXCEPT !.doc = call[s].doc, !.version = n] \in Row
    BY <2>a DEF Row
  <2>1. page' \in Row /\ page.version + 1 \in Nat
    <3>1. page.version + 1 \in Nat
      BY <2>a DEF Row
    <3> QED BY <2>b, <2>c, <3>1
  <2>2. [call[s] EXCEPT !.phase = "stored", !.version = page.version + 1] \in Call
    BY <2>1 DEF Request, Call, Phase
  <2>3. call' \in [Slot -> Call]
    BY <1>1, <2>2 DEF Store, Reply, TypeOK, Call
  <2>4. past' \in [held : SUBSET Document, since : [Field -> SUBSET Text],
                   foreign : [Editor -> BOOLEAN]]
    BY <1>1 DEF Store, TypeOK, Request, Document
  <2> QED BY <2>1, <2>3, <2>4
<1>2. CASE Refuse(s)
  <2>1. Answer(s, IF page.live THEN "conflict" ELSE "gone") \in Call
    BY DEF Answer, Request, Call, Phase, TypeOK, Row
  <2>2. call' \in [Slot -> Call]
    BY <1>2, <2>1 DEF Refuse, Reply, TypeOK, Call
  <2> QED BY <1>2, <2>2 DEF Refuse, TypeOK
<1> QED BY <1>1, <1>2

Status == {"idle", "unsaved", "saving", "saved", "error"}

LEMMA TypedTab ==
  ASSUME NEW t \in Tab, NEW f \in Field, NEW x \in Text
  PROVE  Typed(t, f, x) \in Tab
<1>1. [t.doc EXCEPT ![f] = x] \in Document
  BY DEF Tab, Document
<1>2. (IF t.status = "saving" \/ t.halted THEN t.status ELSE "unsaved") \in Status
  BY DEF Tab, Status
<1>3. (t.timer \/ ~t.halted) \in BOOLEAN
  OBVIOUS
<1>4. ASSUME NEW d \in Document, NEW s \in Status, NEW b \in BOOLEAN
      PROVE  [t EXCEPT !.doc = d, !.status = s, !.timer = b] \in Tab
  BY DEF Tab, Status
<1> QED BY <1>1, <1>2, <1>3, <1>4 DEF Typed

LEMMA ConvergedTab == ASSUME NEW t \in Tab PROVE Converged(t) \in Tab
<1> DEFINE st == IF t.status \in {"unsaved", "saving"} THEN "saved" ELSE t.status
<1>1. st \in Status
  BY DEF Tab, Status
<1>2. ASSUME NEW s \in Status
      PROVE  [t EXCEPT !.timer = FALSE, !.draining = FALSE, !.status = s] \in Tab
  BY DEF Tab, Status
<1> QED BY <1>1, <1>2 DEF Converged

LEMMA AnsweredTab ==
  ASSUME NEW t \in Tab, NEW d \in Document, NEW b \in Document,
         NEW v \in Nat, NEW g \in Nat, NEW o \in Offer
  PROVE  [t EXCEPT !.doc = d, !.base = b, !.version = v, !.generation = g,
                   !.conflict = o] \in Tab
BY DEF Tab

LEMMA SettledTab ==
  ASSUME NEW t \in Tab, NEW d \in Document
  PROVE  Settled(t, d) \in Tab
<1>1. (IF t.doc = d THEN "saved" ELSE t.status) \in Status
  BY DEF Tab, Status
<1>2. (t.timer \/ t.doc # d) \in BOOLEAN
  OBVIOUS
<1>3. ASSUME NEW s \in Status, NEW b \in BOOLEAN
      PROVE  [t EXCEPT !.saved = d, !.halted = FALSE, !.status = s, !.timer = b] \in Tab
  BY DEF Tab, Status
<1> QED BY <1>1, <1>2, <1>3 DEF Settled

LEMMA HaltedTab ==
  ASSUME NEW t \in Tab, NEW o \in Offer
  PROVE  [t EXCEPT !.status = "error", !.halted = TRUE, !.draining = FALSE,
                   !.conflict = o] \in Tab
BY DEF Tab

LEMMA ResetTab == ASSUME NEW t \in Tab, NEW d \in Document PROVE Reset(t, d) \in Tab
BY DEF Tab, Reset

LEMMA AfterTypes ==
  ASSUME NEW t \in Tab, NEW k \in Request
  PROVE  /\ DocAfter(t, k) \in Document /\ BaseAfter(t, k) \in Document
         /\ VersionAfter(t, k) \in Nat
BY DEF DocAfter, BaseAfter, VersionAfter, Tab, Request, Document

LEMMA MergeTypes ==
  ASSUME NEW b \in Document, NEW m \in Document, NEW t \in Document
  PROVE  Merge(b, m, t) \in Document
BY DEF Merge, Document

LEMMA TabTypes ==
  ASSUME TypeOK, NEW c \in Editor
  PROVE  /\ editor[c] \in Tab /\ call[c] \in Call
         /\ \A t \in Tab : [editor EXCEPT ![c] = t] \in [Editor -> Tab]
         /\ \A k \in Call : [call EXCEPT ![c] = k] \in [Slot -> Call]
<1>1. editor \in [Editor -> Tab] /\ call \in [Slot -> Call]
  BY DEF TypeOK
<1> QED BY <1>1 DEF Slot

Spent == [edits : 0 .. MaxEdits, losses : 0 .. MaxLosses, resets : 0 .. MaxResets]

LEMMA SpentTypes ==
  ASSUME TypeOK
  PROVE  /\ spent.edits < MaxEdits => [spent EXCEPT !.edits = @ + 1] \in Spent
         /\ spent.losses < MaxLosses => [spent EXCEPT !.losses = @ + 1] \in Spent
         /\ spent.resets < MaxResets => [spent EXCEPT !.resets = @ + 1] \in Spent
<1>1. spent \in Spent
  BY DEF TypeOK, Spent
<1>2. /\ \A n \in 0 .. MaxEdits : [spent EXCEPT !.edits = n] \in Spent
      /\ \A n \in 0 .. MaxLosses : [spent EXCEPT !.losses = n] \in Spent
      /\ \A n \in 0 .. MaxResets : [spent EXCEPT !.resets = n] \in Spent
  BY <1>1 DEF Spent
<1>3. /\ spent.edits < MaxEdits => spent.edits + 1 \in 0 .. MaxEdits
      /\ spent.losses < MaxLosses => spent.losses + 1 \in 0 .. MaxLosses
      /\ spent.resets < MaxResets => spent.resets + 1 \in 0 .. MaxResets
  BY <1>1, BoundAssumption DEF Spent
<1> QED BY <1>2, <1>3

LEMMA RunTypes ==
  ASSUME TypeOK, NEW c \in Editor, Run(c)
  PROVE  editor' \in [Editor -> Tab] /\ call' \in [Slot -> Call]
<1>1. [editor[c] EXCEPT !.timer = FALSE, !.status = "saving"] \in Tab
  BY TabTypes DEF Tab
<1>2. Starting(editor[c].doc) \in Call
  BY TabTypes DEF Tab, Call
<1> QED BY <1>1, <1>2, TabTypes DEF Run

\* What a tab does by itself.
LEMMA TabStepTypes ==
  ASSUME TypeOK, NEW c \in Editor,
         Type(c) \/ Flush(c) \/ SaveNow(c) \/ Drain(c) \/ Send(c)
  PROVE  TypeOK'
<1> USE TabTypes
<1>1. CASE Type(c)
  <2>1. PICK f \in Field, t \in Text :
          editor' = [editor EXCEPT ![c] = Typed(@, f, t)]
    BY <1>1 DEF Type
  <2>2. editor' \in [Editor -> Tab]
    BY <2>1, TypedTab
  <2>3. spent' \in Spent
    BY <1>1, SpentTypes DEF Type
  <2> QED BY <1>1, <2>2, <2>3 DEF Type, TypeOK, Spent
<1>2. CASE Flush(c)
  <2>1. editor' \in [Editor -> Tab] /\ call' \in [Slot -> Call]
    <3>1. CASE editor' = [editor EXCEPT ![c] = [@ EXCEPT !.timer = FALSE]] /\ UNCHANGED call
      <4>1. [editor[c] EXCEPT !.timer = FALSE] \in Tab
        BY DEF Tab
      <4> QED BY <3>1, <4>1 DEF TypeOK
    <3>2. CASE editor' = [editor EXCEPT
                 ![c] = [Converged(@) EXCEPT !.draining = editor[c].draining]]
               /\ UNCHANGED call
      <4>1. [Converged(editor[c]) EXCEPT !.draining = editor[c].draining] \in Tab
        BY ConvergedTab DEF Tab
      <4> QED BY <3>2, <4>1 DEF TypeOK
    <3>3. CASE Run(c)
      BY <3>3, RunTypes
    <3> QED BY <1>2, <3>1, <3>2, <3>3 DEF Flush
  <2> QED BY <1>2, <2>1 DEF Flush, TypeOK
<1>3. CASE SaveNow(c)
  <2>1. [editor[c] EXCEPT !.draining = TRUE, !.timer = FALSE] \in Tab
    BY DEF Tab
  <2> QED BY <1>3, <2>1 DEF SaveNow, TypeOK
<1>4. CASE Drain(c)
  <2>1. editor' \in [Editor -> Tab] /\ call' \in [Slot -> Call]
    <3>1. CASE editor' = [editor EXCEPT ![c] = Converged(@)] /\ UNCHANGED call
      BY <3>1, ConvergedTab DEF TypeOK
    <3>2. CASE Run(c)
      BY <3>2, RunTypes
    <3> QED BY <1>4, <3>1, <3>2 DEF Drain
  <2> QED BY <1>4, <2>1 DEF Drain, TypeOK
<1>5. CASE Send(c)
  <2>1. call[c].next \in Document
    BY <1>5, CallFields DEF Send
  <2>2. [phase |-> "sent", next |-> call[c].next, base |-> editor[c].base,
         doc |-> call[c].next, version |-> editor[c].version,
         generation |-> editor[c].generation] \in Call
    BY <2>1 DEF Tab, Call, Phase
  <2> QED BY <1>5, <2>2 DEF Send, TypeOK
<1> QED BY <1>1, <1>2, <1>3, <1>4, <1>5

\* What the server does with a request.
LEMMA ServeTypes ==
  ASSUME TypeOK, NEW s \in Slot,
         UpdateDraft(s) \/ UpdatePage(s) \/ Reread(s) \/ StoreMerged(s)
  PROVE  TypeOK'
<1>1. call \in [Slot -> Call] /\ call[s] \in Call /\ page \in Row
  BY DEF TypeOK
<1>2. call[s] \in Request
  BY <1>1, CallFields DEF UpdateDraft, UpdatePage, Reread, StoreMerged
<1>3. CASE Store(s) \/ Refuse(s)
  <2>1. page' \in Row /\ call' \in [Slot -> Call]
        /\ past' \in [held : SUBSET Document, since : [Field -> SUBSET Text],
                      foreign : [Editor -> BOOLEAN]]
    BY <1>2, <1>3, StoreTypes
  <2>2. UNCHANGED <<kind, editor, spent>>
    BY DEF UpdateDraft, UpdatePage, Reread, StoreMerged
  <2> QED BY <2>1, <2>2 DEF TypeOK
<1>4. CASE UpdatePage(s) /\ ~Store(s) /\ ~Refuse(s)
  <2>1. [call[s] EXCEPT !.phase = "reread"] \in Call
    BY <1>2 DEF Request, Call, Phase
  <2>2. call' \in [Slot -> Call]
    BY <1>1, <1>4, <2>1 DEF UpdatePage
  <2> QED BY <1>4, <2>2 DEF UpdatePage, TypeOK
<1>5. CASE Reread(s) /\ ~Store(s) /\ ~Refuse(s)
  <2> DEFINE d == Merge(call[s].base, call[s].next, page.doc)
  <2>1. d \in Document /\ page.version \in Nat
    BY <1>1, <1>2, MergeTypes DEF Request, Row
  <2>2. ASSUME NEW m \in Document, NEW v \in Nat
        PROVE  [call[s] EXCEPT !.phase = "merged", !.doc = m, !.version = v] \in Call
    BY <1>2 DEF Request, Call, Phase
  <2>3. [call[s] EXCEPT !.phase = "merged", !.doc = d, !.version = page.version] \in Call
    BY <2>1, <2>2
  <2>4. call' \in [Slot -> Call]
    BY <1>1, <1>5, <2>3 DEF Reread
  <2> QED BY <1>5, <2>4 DEF Reread, TypeOK
<1> QED BY <1>3, <1>4, <1>5 DEF UpdateDraft, StoreMerged

\* What a tab does with the answer.
LEMMA AnswerTypes ==
  ASSUME TypeOK, NEW c \in Editor,
         Acknowledge(c) \/ Settle(c) \/ Rejected(c) \/ Lose(c) \/ Adopt(c)
  PROVE  TypeOK'
<1> USE TabTypes
<1>0. None \in Call /\ NoConflict \in Offer
  BY DEF Call, Offer
<1>1. CASE Acknowledge(c)
  <2>1. call[c] \in Request
    BY <1>1, CallFields DEF Acknowledge
  <2>2. PICK dialog \in {editor[c].conflict, NoConflict} :
          editor' = [editor EXCEPT ![c] = [@ EXCEPT
            !.doc = DocAfter(editor[c], call[c]),
            !.base = BaseAfter(editor[c], call[c]),
            !.version = VersionAfter(editor[c], call[c]),
            !.generation = call[c].generation,
            !.conflict = dialog]]
    BY <1>1 DEF Acknowledge
  <2>3. dialog \in Offer /\ call[c].generation \in Nat
    BY <1>0, <2>1 DEF Tab, Request
  <2>4. editor' \in [Editor -> Tab]
    BY <2>1, <2>2, <2>3, AfterTypes, AnsweredTab
  <2>5. [call[c] EXCEPT !.phase = "acknowledged"] \in Call
    BY <2>1 DEF Request, Call, Phase
  <2> QED BY <1>1, <2>4, <2>5 DEF Acknowledge, TypeOK
<1>2. CASE Settle(c)
  <2>1. call[c].doc \in Document
    BY <1>2, CallFields DEF Settle, Request
  <2>2. editor' \in [Editor -> Tab]
    BY <1>2, <2>1, SettledTab DEF Settle, SavedSnapshot
  <2> QED BY <1>0, <1>2, <2>2 DEF Settle, TypeOK
<1>3. CASE Rejected(c)
  <2>1. call[c] \in Request
    BY <1>3, CallFields DEF Rejected
  <2>2. ConflictAfter(editor[c], call[c]) \in Offer
    BY <2>1 DEF Request, Offer, Tab, ConflictAfter
  <2>3. editor' \in [Editor -> Tab]
    BY <1>3, <2>2, HaltedTab DEF Rejected
  <2> QED BY <1>0, <1>3, <2>3 DEF Rejected, TypeOK
<1>4. CASE Lose(c)
  <2>1. [editor[c] EXCEPT !.status = "error", !.draining = FALSE] \in Tab
    BY DEF Tab
  <2>2. PICK stray \in Call : call' = [call EXCEPT ![c] = None, ![Stray] = stray]
    BY <1>0, <1>4 DEF Lose
  <2>3. call' \in [Slot -> Call]
    BY <1>0, <2>2 DEF TypeOK
  <2>4. past' \in [held : SUBSET Document, since : [Field -> SUBSET Text],
                   foreign : [Editor -> BOOLEAN]]
    BY <1>4 DEF Lose, TypeOK
  <2>5. spent' \in Spent
    BY <1>4, SpentTypes DEF Lose
  <2> QED BY <1>4, <2>1, <2>3, <2>4, <2>5 DEF Lose, TypeOK, Spent
<1>5. CASE Adopt(c)
  <2> DEFINE theirs == editor[c].conflict
  <2>1. theirs.doc \in Document /\ theirs.version \in Nat /\ theirs.generation \in Nat
    BY <1>5 DEF Adopt, Tab, Offer
  <2>2. Reset(editor[c], theirs.doc) \in Tab
    BY <2>1, ResetTab
  <2>3. [Reset(editor[c], theirs.doc) EXCEPT
           !.doc = theirs.doc, !.base = theirs.doc, !.version = theirs.version,
           !.generation = theirs.generation, !.conflict = NoConflict] \in Tab
    BY <1>0, <2>1, <2>2, AnsweredTab
  <2>4. editor' \in [Editor -> Tab]
    BY <1>5, <2>3 DEF Adopt
  <2>5. spent' \in Spent
    BY <1>5, SpentTypes DEF Adopt
  <2> QED BY <1>5, <2>4, <2>5 DEF Adopt, TypeOK, Spent
<1> QED BY <1>1, <1>2, <1>3, <1>4, <1>5

LEMMA ResetTypes ==
  ASSUME TypeOK,
         (\E d \in past.held : Rollback(d)) \/ DeletePage \/ RestorePage \/ RemoveDraft
  PROVE  TypeOK'
<1>1. page \in Row /\ page.doc \in Document
      /\ page.version + 1 \in Nat /\ page.generation + 1 \in Nat
  BY DEF TypeOK, Row
<1>2. page' \in Row
  <2>1. /\ \A d \in Document, v \in Nat, g \in Nat :
              [page EXCEPT !.doc = d, !.version = v, !.generation = g] \in Row
        /\ \A v \in Nat, g \in Nat :
              [page EXCEPT !.live = FALSE, !.version = v, !.generation = g] \in Row
        /\ \A v \in Nat : [page EXCEPT !.live = TRUE, !.version = v] \in Row
        /\ [page EXCEPT !.live = FALSE] \in Row
    BY <1>1 DEF Row
  <2>2. past.held \subseteq Document
    BY DEF TypeOK
  <2>3. CASE \E d \in past.held : Rollback(d)
    <3>1. PICK d \in Document :
            page' = [page EXCEPT !.doc = d, !.version = page.version + 1,
                                 !.generation = page.generation + 1]
      BY <2>2, <2>3 DEF Rollback, RolledBack
    <3> QED BY <1>1, <2>1, <3>1
  <2>4. CASE DeletePage
    <3>1. page' = [page EXCEPT !.live = FALSE, !.version = page.version + 1,
                               !.generation = page.generation + 1]
      BY <2>4 DEF DeletePage
    <3> QED BY <1>1, <2>1, <3>1
  <2>5. CASE RestorePage
    BY <1>1, <2>1, <2>5 DEF RestorePage
  <2>6. CASE RemoveDraft
    BY <1>1, <2>1, <2>6 DEF RemoveDraft
  <2> QED BY <2>3, <2>4, <2>5, <2>6
<1>3. past' \in [held : SUBSET Document, since : [Field -> SUBSET Text],
                 foreign : [Editor -> BOOLEAN]]
  <2>1. Everyone \in [Editor -> BOOLEAN]
    BY DEF Everyone
  <2>2. \A d \in Document : [f \in Field |-> {d[f]}] \in [Field -> SUBSET Text]
    BY DEF Document
  <2>3. \A i \in [Field -> SUBSET Text] : [past EXCEPT !.since = i, !.foreign = Everyone]
          \in [held : SUBSET Document, since : [Field -> SUBSET Text],
               foreign : [Editor -> BOOLEAN]]
    BY <2>1 DEF TypeOK
  <2>4. [past EXCEPT !.foreign = Everyone]
          \in [held : SUBSET Document, since : [Field -> SUBSET Text],
               foreign : [Editor -> BOOLEAN]]
    BY <2>1 DEF TypeOK
  <2>5. past.held \subseteq Document
    BY DEF TypeOK
  <2> QED BY <1>1, <2>2, <2>3, <2>4, <2>5 DEF Rollback, DeletePage, RestorePage, RemoveDraft
<1>4. spent' \in Spent
  BY SpentTypes DEF Rollback, DeletePage, RestorePage, RemoveDraft, TypeOK, Spent
<1> QED BY <1>2, <1>3, <1>4
      DEF Rollback, DeletePage, RestorePage, RemoveDraft, TypeOK, Spent

-----------------------------------------------------------------------------
(* What was seen. *)

LEMMA SinceTypes == ASSUME TypeOK PROVE past.since \in Since /\ page \in Row
BY DEF TypeOK, Since

\* A tab that keeps its baselines keeps its sights.
LEMMA SameSights ==
  ASSUME NEW t, NEW u, NEW p, NEW h, NEW k,
         u.base = t.base, u.version = t.version, u.generation = t.generation,
         u.conflict = t.conflict
  PROVE  /\ TabOK(t, p, h) => TabOK(u, p, h)
         /\ WaitOK(t, k) => WaitOK(u, k)
BY DEF TabOK, WaitOK

SameBase(t, u) ==
  /\ u.base = t.base /\ u.version = t.version /\ u.generation = t.generation
  /\ u.conflict = t.conflict

LEMMA BaseStays ==
  ASSUME NEW t \in Tab
  PROVE  /\ \A f, x : SameBase(t, Typed(t, f, x))
         /\ SameBase(t, Converged(t))
         /\ SameBase(t, [Converged(t) EXCEPT !.draining = t.draining])
         /\ SameBase(t, [t EXCEPT !.timer = FALSE])
         /\ \A b, s : SameBase(t, [t EXCEPT !.timer = b, !.status = s])
         /\ \A b, d : SameBase(t, [t EXCEPT !.draining = d, !.timer = b])
         /\ \A s, d : SameBase(t, [t EXCEPT !.status = s, !.draining = d])
         /\ \A d : SameBase(t, Settled(t, d))
<1>1. \A f, x : SameBase(t, Typed(t, f, x))
  BY DEF Tab, Typed, SameBase
<1>2. SameBase(t, Converged(t))
      /\ SameBase(t, [Converged(t) EXCEPT !.draining = t.draining])
  BY DEF Tab, Converged, SameBase
<1>3. /\ SameBase(t, [t EXCEPT !.timer = FALSE])
      /\ \A b, s : SameBase(t, [t EXCEPT !.timer = b, !.status = s])
      /\ \A b, d : SameBase(t, [t EXCEPT !.draining = d, !.timer = b])
      /\ \A s, d : SameBase(t, [t EXCEPT !.status = s, !.draining = d])
  BY DEF Tab, SameBase
<1>4. \A d : SameBase(t, Settled(t, d))
  BY DEF Tab, Settled, SameBase
<1> QED BY <1>1, <1>2, <1>3, <1>4

LEMMA NoRequest == None.phase = "none" /\ \A d : Starting(d).phase = "starting"
BY DEF None, Starting

LEMMA NothingSeen ==
  ASSUME NEW t, NEW k, NEW p, NEW h, k.phase \in {"none", "starting", "gone", "acknowledged"}
  PROVE  WaitOK(t, k) /\ CallOK(k, p, h)
BY DEF WaitOK, CallOK

LEMMA NoneSeen ==
  \A t, p, h : WaitOK(t, None) /\ CallOK(None, p, h)
BY NoRequest, NothingSeen

LEMMA OnlyTab ==
  ASSUME IInv, NEW c \in Editor,
         UNCHANGED <<page, kind>>, past'.since = past.since,
         \A e \in Editor \ {c} : editor'[e] = editor[e] /\ call'[e] = call[e],
         CallOK(call'[Stray], page, past.since),
         TabOK(editor'[c], page, past.since),
         WaitOK(editor'[c], call'[c]),
         CallOK(call'[c], page, past.since)
  PROVE  Seen'
<1>1. PageOK(page', past'.since, kind')
  BY DEF IInv, Seen
<1>2. ASSUME NEW e \in Editor
      PROVE  /\ TabOK(editor'[e], page', past'.since)
             /\ WaitOK(editor'[e], call'[e])
             /\ CallOK(call'[e], page', past'.since)
  BY DEF IInv, Seen, Slot
<1> QED BY <1>1, <1>2 DEF Seen, Slot

LEMMA OnlyPage ==
  ASSUME IInv, TypeOK', UNCHANGED <<editor, call>>,
         Advance(page, past.since, page', past'.since),
         PageOK(page', past'.since, kind')
  PROVE  Seen'
<1>1. past.since \in Since /\ past'.since \in Since /\ page \in Row /\ page' \in Row
  BY SinceTypes DEF IInv, TypeOK, Since
<1>2. ASSUME NEW e \in Editor
      PROVE  TabOK(editor[e], page', past'.since) /\ WaitOK(editor[e], call[e])
  BY <1>1, TabStays DEF IInv, Seen
<1>3. ASSUME NEW s \in Slot PROVE CallOK(call[s], page', past'.since)
  BY <1>1, CallStays DEF IInv, Seen, TypeOK
<1> QED BY <1>2, <1>3 DEF Seen

LEMMA OnlySlot ==
  ASSUME IInv, TypeOK', NEW s \in Slot, UNCHANGED <<editor, kind>>,
         Advance(page, past.since, page', past'.since),
         PageOK(page', past'.since, kind'),
         \A r \in Slot \ {s} : call'[r] = call[r],
         CallOK(call'[s], page', past'.since),
         s \in Editor => WaitOK(editor[s], call'[s])
  PROVE  Seen'
<1>1. past.since \in Since /\ past'.since \in Since /\ page \in Row /\ page' \in Row
  BY SinceTypes DEF IInv, TypeOK, Since
<1>2. ASSUME NEW e \in Editor
      PROVE  TabOK(editor[e], page', past'.since) /\ WaitOK(editor[e], call'[e])
  BY <1>1, TabStays DEF IInv, Seen, Slot
<1>3. ASSUME NEW r \in Slot PROVE CallOK(call'[r], page', past'.since)
  BY <1>1, CallStays DEF IInv, Seen, TypeOK
<1> QED BY <1>2, <1>3 DEF Seen

\* What a tab does on its own: it keeps its baselines, and at most starts a save.
LEMMA TabMoves ==
  ASSUME TypeOK, NEW c \in Editor,
         Type(c) \/ Flush(c) \/ SaveNow(c) \/ Drain(c) \/ Settle(c)
  PROVE  /\ UNCHANGED <<page, kind, past>>
         /\ \A e \in Editor \ {c} : editor'[e] = editor[e] /\ call'[e] = call[e]
         /\ call'[Stray] = call[Stray]
         /\ SameBase(editor[c], editor'[c])
         /\ call'[c] = call[c] \/ call'[c] = None \/ call'[c] = Starting(editor[c].doc)
<1>1. /\ UNCHANGED <<page, kind, past>>
      /\ \A e \in Editor \ {c} : editor'[e] = editor[e] /\ call'[e] = call[e]
      /\ call'[Stray] = call[Stray]
  BY StrayAssumption DEF TypeOK, Slot, Type, Flush, SaveNow, Drain, Settle, Run
<1>2. editor \in [Editor -> Tab] /\ call \in [Slot -> Call]
  BY DEF TypeOK
<1>3. SameBase(editor[c], editor'[c])
  <2> USE <1>2, BaseStays
  <2>1. CASE Type(c)
    <3>1. PICK f, x : editor' = [editor EXCEPT ![c] = Typed(@, f, x)]
      BY <2>1 DEF Type
    <3> QED BY <3>1
  <2>a. CASE Run(c)
    BY <2>a DEF Run
  <2>2. CASE Flush(c)
    <3>1. CASE editor' = [editor EXCEPT ![c] = [@ EXCEPT !.timer = FALSE]]
      BY <3>1
    <3>2. CASE editor' = [editor EXCEPT
                 ![c] = [Converged(@) EXCEPT !.draining = editor[c].draining]]
      BY <3>2
    <3> QED BY <2>2, <2>a, <3>1, <3>2 DEF Flush
  <2>3. CASE SaveNow(c)
    BY <2>3 DEF SaveNow
  <2>4. CASE Drain(c)
    BY <2>4, <2>a DEF Drain
  <2>5. CASE Settle(c)
    BY <2>5 DEF Settle
  <2> QED BY <2>1, <2>2, <2>3, <2>4, <2>5
<1>4. call'[c] = call[c] \/ call'[c] = None \/ call'[c] = Starting(editor[c].doc)
  BY <1>2 DEF Type, Flush, SaveNow, Drain, Settle, Run, Slot
<1> QED BY <1>1, <1>3, <1>4

LEMMA TabStep ==
  ASSUME IInv, NEW c \in Editor,
         Type(c) \/ Flush(c) \/ SaveNow(c) \/ Drain(c) \/ Settle(c)
  PROVE  Seen'
<1>1. /\ UNCHANGED <<page, kind, past>>
      /\ \A e \in Editor \ {c} : editor'[e] = editor[e] /\ call'[e] = call[e]
      /\ call'[Stray] = call[Stray]
      /\ SameBase(editor[c], editor'[c])
      /\ call'[c] = call[c] \/ call'[c] = None \/ call'[c] = Starting(editor[c].doc)
  BY TabMoves DEF IInv
<1>5. TabOK(editor'[c], page, past.since)
  BY <1>1, SameSights DEF IInv, Seen, SameBase
<1>6. WaitOK(editor'[c], call'[c]) /\ CallOK(call'[c], page, past.since)
  <2>1. CASE call'[c] = call[c]
    BY <1>1, <2>1, SameSights DEF IInv, Seen, Slot, SameBase
  <2>2. CASE call'[c] # call[c]
    <3>1. call'[c].phase \in {"none", "starting"}
      BY <1>1, <2>2, NoRequest
    <3> QED BY <3>1, NothingSeen
  <2> QED BY <2>1, <2>2
<1>7. CallOK(call'[Stray], page, past.since)
  BY <1>1 DEF IInv, Seen, Slot
<1> QED BY <1>1, <1>5, <1>6, <1>7, OnlyTab

LEMMA SendStep ==
  ASSUME IInv, NEW c \in Editor, Send(c)
  PROVE  Seen'
<1> DEFINE k == [phase |-> "sent", next |-> call[c].next, base |-> editor[c].base,
                 doc |-> call[c].next, version |-> editor[c].version,
                 generation |-> editor[c].generation]
<1>1. call' = [call EXCEPT ![c] = k] /\ UNCHANGED <<kind, page, editor, past>>
  BY DEF Send
<1>2. call \in [Slot -> Call] /\ c \in Slot /\ c # Stray /\ Stray \in Slot
  BY StrayAssumption DEF IInv, TypeOK, Slot
<1>3. call'[c] = k /\ \A e \in Slot \ {c} : call'[e] = call[e]
  BY <1>1, <1>2
<1>4. TabOK(editor[c], page, past.since) /\ editor[c].generation \in Nat
  BY DEF IInv, Seen, TabOK, Sight
<1>5. CallOK(k, page, past.since) /\ WaitOK(editor[c], k)
  BY <1>4 DEF CallOK, WaitOK, TabOK
<1> HIDE DEF k
<1> QED BY <1>1, <1>2, <1>3, <1>4, <1>5, OnlyTab DEF IInv, Seen, Slot

LEMMA AnsweredSight ==
  ASSUME TypeOK, NEW t \in Tab, NEW k \in Request,
         TabOK(t, page, past.since), WaitOK(t, k), CallOK(k, page, past.since),
         k.phase = "stored"
  PROVE  Sight(page, past.since, BaseAfter(t, k), VersionAfter(t, k), k.generation)
<1>1. /\ Sight(page, past.since, k.doc, k.version, k.generation)
      /\ Sight(page, past.since, t.base, t.version, t.generation)
      /\ t.version < k.version /\ t.generation = k.generation
  BY DEF TabOK, WaitOK, CallOK
<1>2. page.version \in Nat /\ page.generation \in Nat
  BY DEF TypeOK, Row
<1>3. CASE t.doc = k.next
  <2>1. k.doc \in Document
    BY DEF Request
  <2>2. BaseAfter(t, k) = k.doc
    BY <1>3, <2>1 DEF BaseAfter, Drifted, SamePart, Document
  <2> QED BY <1>1, <1>3, <2>2 DEF VersionAfter
<1>4. CASE t.doc # k.next
  <2>1. VersionAfter(t, k) = t.version /\ t.version # page.version
    BY <1>1, <1>2, <1>4 DEF VersionAfter, Sight
  <2>2. k.generation = page.generation => Held(past.since, BaseAfter(t, k))
    BY <1>1 DEF Sight, Held, BaseAfter
  <2> QED BY <1>1, <2>1, <2>2 DEF Sight
<1> QED BY <1>3, <1>4

LEMMA AnswerStep ==
  ASSUME IInv, NEW c \in Editor, Acknowledge(c) \/ Rejected(c) \/ Lose(c) \/ Adopt(c)
  PROVE  Seen'
<1>1. /\ editor \in [Editor -> Tab] /\ call \in [Slot -> Call]
      /\ c \in Slot /\ c # Stray /\ Stray \in Slot
      /\ editor[c] \in Tab /\ call[c] \in Call
  BY StrayAssumption DEF IInv, TypeOK, Slot
<1>2. /\ TabOK(editor[c], page, past.since) /\ WaitOK(editor[c], call[c])
      /\ CallOK(call[c], page, past.since) /\ CallOK(call[Stray], page, past.since)
  BY <1>1 DEF IInv, Seen
<1>3. CASE Acknowledge(c)
  <2>1. call[c] \in Request
    BY <1>1, <1>3, CallFields DEF Acknowledge
  <2>2. PICK dialog \in {editor[c].conflict, NoConflict} :
          editor' = [editor EXCEPT ![c] = [@ EXCEPT
            !.doc = DocAfter(editor[c], call[c]),
            !.base = BaseAfter(editor[c], call[c]),
            !.version = VersionAfter(editor[c], call[c]),
            !.generation = call[c].generation,
            !.conflict = dialog]]
    BY <1>3 DEF Acknowledge
  <2>3. /\ editor'[c].base = BaseAfter(editor[c], call[c])
        /\ editor'[c].version = VersionAfter(editor[c], call[c])
        /\ editor'[c].generation = call[c].generation
        /\ editor'[c].conflict = dialog
    BY <1>1, <2>2 DEF Tab
  <2>4. Sight(page, past.since, editor'[c].base, editor'[c].version, editor'[c].generation)
    BY <1>1, <1>2, <1>3, <2>1, <2>3, AnsweredSight DEF Acknowledge, IInv
  <2>5. call[c].generation = editor[c].generation
    BY <1>2, <1>3 DEF Acknowledge, WaitOK
  <2>6. TabOK(editor'[c], page, past.since)
    BY <1>2, <2>3, <2>4, <2>5 DEF TabOK
  <2>7. call'[c].phase = "acknowledged"
    BY <1>1, <1>3, <2>1 DEF Acknowledge, Request
  <2>8. /\ UNCHANGED <<page, kind, past>> /\ call'[Stray] = call[Stray]
        /\ \A e \in Editor \ {c} : editor'[e] = editor[e] /\ call'[e] = call[e]
    BY <1>1, <1>3, <2>2 DEF Acknowledge, Slot
  <2> QED BY <1>2, <2>6, <2>7, <2>8, NothingSeen, OnlyTab
<1>4. CASE Rejected(c)
  <2> DEFINE o == ConflictAfter(editor[c], call[c])
  <2>1. call[c].phase = "conflict" \/ call[c].phase = "gone"
    BY <1>4 DEF Rejected
  <2>2. \A x : LET u == [editor[c] EXCEPT !.status = "error", !.halted = TRUE,
                                          !.draining = FALSE, !.conflict = x]
               IN  /\ u.base = editor[c].base /\ u.version = editor[c].version
                   /\ u.generation = editor[c].generation /\ u.conflict = x
    BY <1>1 DEF Tab
  <2>3. editor'[c] = [editor[c] EXCEPT !.status = "error", !.halted = TRUE,
                                       !.draining = FALSE, !.conflict = o]
    BY <1>1, <1>4 DEF Rejected
  <2>4. /\ editor'[c].base = editor[c].base
        /\ editor'[c].version = editor[c].version
        /\ editor'[c].generation = editor[c].generation
        /\ editor'[c].conflict = o
    <3> HIDE DEF o
    <3> QED BY <2>2, <2>3
  <2>5. TabOK(editor'[c], page, past.since)
    <3>1. CASE call[c].phase = "gone"
      <4>1. o = editor[c].conflict
        BY <3>1 DEF ConflictAfter
      <4> HIDE DEF o
      <4> QED BY <1>2, <2>4, <4>1 DEF TabOK
    <3>2. CASE call[c].phase = "conflict"
      <4>1. /\ Sight(page, past.since, call[c].doc, call[c].version, call[c].generation)
            /\ editor[c].generation <= call[c].generation
        BY <1>2, <3>2 DEF CallOK, WaitOK
      <4>2. o.doc = call[c].doc /\ o.version = call[c].version
            /\ o.generation = call[c].generation
        BY <3>2 DEF ConflictAfter
      <4> HIDE DEF o
      <4> QED BY <1>2, <2>4, <4>1, <4>2 DEF TabOK
    <3> QED BY <2>1, <3>1, <3>2
  <2>6. call'[c] = None /\ call'[Stray] = call[Stray] /\ UNCHANGED <<page, kind, past>>
        /\ \A e \in Editor \ {c} : editor'[e] = editor[e] /\ call'[e] = call[e]
    BY <1>1, <1>4 DEF Rejected, Slot
  <2>7. WaitOK(editor'[c], call'[c]) /\ CallOK(call'[c], page, past.since)
    BY <2>6, NoneSeen
  <2> QED BY <1>2, <2>5, <2>6, <2>7, OnlyTab
<1>5. CASE Lose(c)
  <2>1. SameBase(editor[c], editor'[c])
    BY <1>1, <1>5, BaseStays DEF Lose
  <2>2. TabOK(editor'[c], page, past.since)
    BY <1>2, <2>1, SameSights DEF SameBase
  <2>3. PICK stray \in {None, call[c]} :
          call' = [call EXCEPT ![c] = None, ![Stray] = stray]
    BY <1>5 DEF Lose
  <2>4. call'[c] = None /\ call'[Stray] = stray
        /\ \A e \in Editor \ {c} : editor'[e] = editor[e] /\ call'[e] = call[e]
    BY <1>1, <1>5, <2>3, StrayAssumption DEF Lose, Slot
  <2>5. past'.since = past.since
    BY <1>5 DEF Lose, IInv, TypeOK
  <2>6. CallOK(stray, page, past.since)
    BY <1>2, NoneSeen
  <2>7. UNCHANGED <<page, kind>>
    BY <1>5 DEF Lose
  <2>8. WaitOK(editor'[c], call'[c]) /\ CallOK(call'[c], page, past.since)
    BY <2>4, NoneSeen
  <2> QED BY <2>2, <2>4, <2>5, <2>6, <2>7, <2>8, OnlyTab
<1>6. CASE Adopt(c)
  <2> DEFINE theirs == editor[c].conflict
  <2>1. /\ editor'[c].base = theirs.doc /\ editor'[c].version = theirs.version
        /\ editor'[c].generation = theirs.generation
        /\ editor'[c].conflict = NoConflict
    BY <1>1, <1>6 DEF Adopt, Reset, Tab
  <2>2. theirs # NoConflict
    BY <1>6 DEF Adopt
  <2>3. TabOK(editor'[c], page, past.since)
    BY <1>2, <2>1, <2>2 DEF TabOK
  <2>4. editor[c].generation \in Nat /\ theirs.generation \in Nat
        /\ call[c].generation \in Nat
    BY <1>1, <1>2, <2>2, CallFields DEF TabOK, Sight
  <2>5. editor[c].generation <= theirs.generation
    BY <1>2, <2>2 DEF TabOK
  <2>6. WaitOK(editor'[c], call[c])
    BY <1>2, <2>1, <2>2, <2>4, <2>5 DEF WaitOK
  <2>7. UNCHANGED <<page, kind, past, call>>
        /\ \A e \in Editor \ {c} : editor'[e] = editor[e]
    BY <1>1, <1>6 DEF Adopt
  <2> QED BY <1>2, <2>3, <2>6, <2>7, OnlyTab
<1> QED BY <1>3, <1>4, <1>5, <1>6

\* The store a request ends in.
LEMMA StoreStep ==
  ASSUME IInv, TypeOK', NEW s \in Slot, UNCHANGED <<editor, kind>>, Store(s),
         call[s] \in Request, call[s].phase \in {"sent", "merged"}
  PROVE  Seen'
<1> DEFINE k == call[s]
           k2 == [k EXCEPT !.phase = "stored", !.version = page.version + 1]
<1>1. /\ call \in [Slot -> Call] /\ editor \in [Editor -> Tab]
      /\ page \in Row /\ page' \in Row
      /\ past.since \in Since /\ past'.since \in Since
  BY SinceTypes DEF IInv, TypeOK, Since
<1>2. /\ page.version \in Nat /\ page.generation \in Nat
      /\ page'.doc = k.doc /\ page'.version = page.version + 1
      /\ page'.generation = page.generation
  <2>1. page' = [page EXCEPT !.doc = k.doc, !.version = @ + 1]
    BY DEF Store
  <2>2. \A n : LET q == [page EXCEPT !.doc = k.doc, !.version = n]
               IN  q.doc = k.doc /\ q.version = n /\ q.generation = page.generation
    BY <1>1 DEF Row
  <2>3. page' = [page EXCEPT !.doc = k.doc, !.version = page.version + 1]
    BY <2>1
  <2> QED BY <1>1, <2>2, <2>3 DEF Row
<1>3. past'.since = [f \in Field |-> past.since[f] \cup {k.doc[f]}]
  BY DEF Store
<1>4. Advance(page, past.since, page', past'.since)
  BY <1>1, <1>2, <1>3 DEF Advance
<1>5. Held(past'.since, k.doc)
  BY <1>3 DEF Held
<1>6. PageOK(page', past'.since, kind')
  BY <1>2, <1>5 DEF PageOK, IInv, Seen
<1>7. /\ PageOK(page, past.since, kind) /\ CallOK(k, page, past.since)
      /\ s \in Editor => TabOK(editor[s], page, past.since) /\ WaitOK(editor[s], k)
  BY DEF IInv, Seen
<1>8. k.version = page.version /\ k.generation \in Nat /\ k.generation <= page.generation
  BY <1>7 DEF Store, Current, CallOK, Sight, Request
<1>9. k.generation = page.generation
  BY <1>2, <1>7, <1>8 DEF Store, Current, PageOK
<1>10. /\ k2.phase = "stored" /\ k2.version = page.version + 1
       /\ k2.generation = page.generation
       /\ k2.doc = k.doc /\ k2.next = k.next /\ k2.base = k.base
  BY <1>9 DEF Request
<1>11. Keeps(k)
  BY <1>7 DEF CallOK, Keeps
<1>12. CallOK(k2, page', past'.since)
  <2>1. Sight(page', past'.since, k2.doc, k2.version, k2.generation)
    BY <1>2, <1>5, <1>10 DEF Sight
  <2>2. Keeps(k2)
    BY <1>10, <1>11 DEF Keeps
  <2> HIDE DEF k2
  <2> QED BY <1>10, <2>1, <2>2 DEF CallOK
<1>13. ASSUME s \in Editor PROVE WaitOK(editor[s], k2)
  <2>1. /\ editor[s].version \in Nat /\ editor[s].version <= page.version
        /\ editor[s].generation \in Nat /\ editor[s].generation <= page.generation
        /\ k.generation <= editor[s].generation
    BY <1>7, <1>13 DEF TabOK, Sight, WaitOK
  <2>2. editor[s].generation = page.generation /\ editor[s].version < page.version + 1
    BY <1>2, <1>9, <2>1
  <2>3. ASSUME editor[s].conflict # NoConflict
        PROVE  /\ editor[s].conflict.version < page.version + 1
               /\ editor[s].conflict.generation = page.generation
    <3>1. /\ editor[s].conflict.version \in Nat /\ editor[s].conflict.version <= page.version
          /\ editor[s].conflict.generation \in Nat
          /\ editor[s].conflict.generation <= page.generation
          /\ editor[s].generation <= editor[s].conflict.generation
      BY <1>7, <1>13, <2>3 DEF TabOK, Sight
    <3> QED BY <1>2, <2>2, <3>1
  <2> HIDE DEF k2
  <2> QED BY <1>10, <2>2, <2>3 DEF WaitOK
<1>14. call' = [call EXCEPT ![s] = IF s = Stray THEN None ELSE k2]
  BY DEF Store, Reply
<1> HIDE DEF k, k2
<1>15. /\ call'[s] = IF s = Stray THEN None ELSE k2
       /\ \A r \in Slot \ {s} : call'[r] = call[r]
  BY <1>1, <1>14
<1>16. CallOK(call'[s], page', past'.since) /\ (s \in Editor => WaitOK(editor[s], call'[s]))
  BY <1>12, <1>13, <1>15, NoneSeen
<1> QED BY <1>4, <1>6, <1>15, <1>16, OnlySlot

LEMMA NoAdvance ==
  ASSUME TypeOK, NEW p, p = page, NEW h, h = past.since
  PROVE  Advance(page, past.since, p, h)
BY DEF TypeOK, Row, Advance

\* A request refused: the page as it is.
LEMMA RefuseStep ==
  ASSUME IInv, TypeOK', NEW s \in Slot, UNCHANGED <<editor, kind>>, Refuse(s),
         call[s] \in Request
  PROVE  Seen'
<1> DEFINE phase == IF page.live THEN "conflict" ELSE "gone"
           k2 == Answer(s, phase)
<1>1. UNCHANGED <<page, past>> /\ call' = [call EXCEPT ![s] = IF s = Stray THEN None ELSE k2]
  BY DEF Refuse, Reply
<1>2. /\ k2.phase = phase /\ k2.doc = page.doc /\ k2.version = page.version
      /\ k2.generation = page.generation
  BY DEF Answer, Request
<1>3. page \in Row /\ page.version \in Nat /\ page.generation \in Nat
  BY DEF IInv, TypeOK, Row
<1>4. PageOK(page, past.since, kind)
  BY DEF IInv, Seen
<1>5. CASE phase = "gone"
  <2>1. CallOK(k2, page, past.since) /\ (s \in Editor => WaitOK(editor[s], k2))
    BY <1>2, <1>5, NothingSeen
  <2> HIDE DEF k2, phase
  <2>2. call'[s] = IF s = Stray THEN None ELSE k2
    BY <1>1 DEF IInv, TypeOK
  <2>3. CallOK(call'[s], page, past.since) /\ (s \in Editor => WaitOK(editor[s], call'[s]))
    BY <2>1, <2>2, NoneSeen
  <2>4. \A r \in Slot \ {s} : call'[r] = call[r]
    BY <1>1 DEF IInv, TypeOK
  <2>5. Advance(page, past.since, page', past'.since) /\ PageOK(page', past'.since, kind')
    BY <1>1, <1>4, NoAdvance DEF IInv
  <2> QED BY <1>1, <2>3, <2>4, <2>5, OnlySlot
<1>6. CASE phase = "conflict"
  <2>1. Sight(page, past.since, page.doc, page.version, page.generation)
    BY <1>3, <1>4 DEF Sight, PageOK
  <2>2. CallOK(k2, page, past.since)
    BY <1>2, <1>6, <2>1 DEF CallOK
  <2>3. ASSUME s \in Editor PROVE WaitOK(editor[s], k2)
    <3>1. TabOK(editor[s], page, past.since)
      BY <2>3 DEF IInv, Seen
    <3> HIDE DEF k2
    <3> QED BY <1>2, <1>6, <3>1 DEF TabOK, Sight, WaitOK
  <2> HIDE DEF k2, phase
  <2>4. call'[s] = IF s = Stray THEN None ELSE k2
    BY <1>1 DEF IInv, TypeOK
  <2>5. CallOK(call'[s], page, past.since) /\ (s \in Editor => WaitOK(editor[s], call'[s]))
    BY <2>2, <2>3, <2>4, NoneSeen
  <2>6. \A r \in Slot \ {s} : call'[r] = call[r]
    BY <1>1 DEF IInv, TypeOK
  <2>7. Advance(page, past.since, page', past'.since) /\ PageOK(page', past'.since, kind')
    BY <1>1, <1>4, NoAdvance DEF IInv
  <2> QED BY <1>1, <2>5, <2>6, <2>7, OnlySlot
<1> QED BY <1>5, <1>6

LEMMA MergedKeeps ==
  ASSUME NEW b \in Document, NEW m \in Document, NEW t \in Document
  PROVE  \A f \in Field : Merge(b, m, t)[f] = m[f] \/ m[f] = b[f]
BY DEF Merge

\* The merge of a request with the page it was read against.
LEMMA MergeStep ==
  ASSUME IInv, TypeOK', NEW s \in Slot, UNCHANGED <<editor, kind, page, past>>,
         call[s] \in Request, call[s].phase = "reread", Mergeable(s),
         call' = [call EXCEPT ![s] = [@ EXCEPT
           !.phase = "merged", !.doc = Merge(call[s].base, call[s].next, page.doc),
           !.version = page.version]]
  PROVE  Seen'
<1> DEFINE k == call[s]
           m == Merge(k.base, k.next, page.doc)
           k2 == [k EXCEPT !.phase = "merged", !.doc = m, !.version = page.version]
<1>1. /\ page \in Row /\ k.base \in Document /\ k.next \in Document
      /\ call \in [Slot -> Call]
  BY DEF IInv, TypeOK, Request
<1>2. page.doc \in Document /\ page.version \in Nat /\ page.generation \in Nat
  BY <1>1 DEF Row
<1>3. /\ k2.phase = "merged" /\ k2.doc = m /\ k2.version = page.version
      /\ k2.generation = k.generation /\ k2.next = k.next /\ k2.base = k.base
  BY DEF Request
<1>4. k.generation = page.generation /\ MergesCleanly(k.base, k.next, page.doc)
  BY DEF Mergeable
<1>5. Held(past.since, k.base)
  BY <1>4 DEF IInv, Seen, CallOK, Sight
<1>6. \A f \in Field : m[f] = k.next[f] \/ k.next[f] = k.base[f]
  BY <1>1, <1>2, MergedKeeps
<1>7. s \in Editor => k.generation <= editor[s].generation
  BY DEF IInv, Seen, WaitOK
<1>8. call'[s] = k2 /\ \A r \in Slot \ {s} : call'[r] = call[r]
  BY <1>1
<1>9. CallOK(k2, page, past.since)
  <2>1. Keeps(k2)
    <3> HIDE DEF k2, m
    <3> QED BY <1>3, <1>6 DEF Keeps
  <2>2. k2.doc = Merge(k2.base, k2.next, page.doc)
    BY <1>3
  <2> HIDE DEF k2, m
  <2> QED BY <1>2, <1>3, <1>4, <1>5, <2>1, <2>2 DEF CallOK
<1> HIDE DEF k2, m
<1>10. s \in Editor => WaitOK(editor[s], k2)
  BY <1>3, <1>7 DEF WaitOK
<1>11. Advance(page, past.since, page', past'.since) /\ PageOK(page', past'.since, kind')
  BY NoAdvance DEF IInv, Seen
<1> QED BY <1>8, <1>9, <1>10, <1>11, OnlySlot

LEMMA ServeStep ==
  ASSUME IInv, TypeOK', NEW s \in Slot,
         UpdateDraft(s) \/ UpdatePage(s) \/ Reread(s) \/ StoreMerged(s)
  PROVE  Seen'
<1>1. call \in [Slot -> Call] /\ call[s] \in Call
  BY DEF IInv, TypeOK
<1>2. /\ call[s].phase \in {"sent", "reread", "merged"} /\ call[s] \in Request
      /\ UNCHANGED <<editor, kind>>
  BY <1>1, CallFields DEF UpdateDraft, UpdatePage, Reread, StoreMerged
<1>3. CASE Refuse(s)
  BY <1>2, <1>3, RefuseStep
<1>4. CASE Store(s) /\ call[s].phase \in {"sent", "merged"}
  BY <1>2, <1>4, StoreStep
<1>5. CASE UpdatePage(s) /\ call' = [call EXCEPT ![s] = [@ EXCEPT !.phase = "reread"]]
           /\ UNCHANGED <<page, past>>
  <2> DEFINE k2 == [call[s] EXCEPT !.phase = "reread"]
  <2>1. /\ k2.phase = "reread" /\ k2.doc = call[s].doc /\ k2.version = call[s].version
        /\ k2.generation = call[s].generation /\ k2.next = call[s].next
        /\ k2.base = call[s].base
    BY <1>2 DEF Request
  <2>2. call[s].phase = "sent"
    BY <1>5 DEF UpdatePage
  <2>3. call'[s] = k2 /\ \A r \in Slot \ {s} : call'[r] = call[r]
    BY <1>1, <1>5
  <2> HIDE DEF k2
  <2>4. CallOK(k2, page, past.since) /\ (s \in Editor => WaitOK(editor[s], k2))
    BY <2>1, <2>2 DEF IInv, Seen, CallOK, WaitOK
  <2>5. Advance(page, past.since, page', past'.since) /\ PageOK(page', past'.since, kind')
    BY <1>2, <1>5, NoAdvance DEF IInv, Seen
  <2> QED BY <1>2, <1>5, <2>3, <2>4, <2>5, OnlySlot
<1>6. CASE Reread(s) /\ ~Refuse(s)
  <2>1. /\ call[s].phase = "reread" /\ Mergeable(s) /\ UNCHANGED <<page, past>>
        /\ call' = [call EXCEPT ![s] = [@ EXCEPT
             !.phase = "merged", !.doc = Merge(call[s].base, call[s].next, page.doc),
             !.version = page.version]]
    BY <1>6 DEF Reread
  <2> QED BY <1>2, <2>1, MergeStep
<1> QED BY <1>3, <1>4, <1>5, <1>6 DEF UpdateDraft, UpdatePage, Reread, StoreMerged

\* Rollback, deletion and restoration.
LEMMA ResetStep ==
  ASSUME IInv, TypeOK',
         (\E d \in past.held : Rollback(d)) \/ DeletePage \/ RestorePage \/ RemoveDraft
  PROVE  Seen'
<1>1. /\ page \in Row /\ page.doc \in Document /\ page.version \in Nat
      /\ page.generation \in Nat
      /\ past \in [held : SUBSET Document, since : [Field -> SUBSET Text],
                   foreign : [Editor -> BOOLEAN]]
  BY DEF IInv, TypeOK, Row
<1>2. PageOK(page, past.since, kind)
  BY DEF IInv, Seen
<1>3. UNCHANGED <<editor, call, kind>>
  BY DEF Rollback, DeletePage, RestorePage, RemoveDraft
<1>4. \A d, v, g, l : LET q == [page EXCEPT !.doc = d, !.version = v, !.generation = g]
                          r == [page EXCEPT !.live = l, !.version = v, !.generation = g]
                          u == [page EXCEPT !.live = l, !.version = v]
                          w == [page EXCEPT !.live = l]
                      IN  /\ q.doc = d /\ q.version = v /\ q.generation = g
                          /\ r.doc = page.doc /\ r.version = v /\ r.generation = g
                          /\ u.doc = page.doc /\ u.version = v
                          /\ u.generation = page.generation
                          /\ w.doc = page.doc /\ w.version = page.version
                          /\ w.generation = page.generation
  BY <1>1 DEF Row
<1>5. \A i, e : LET h == [past EXCEPT !.since = i, !.foreign = e] IN h.since = i
  BY <1>1
<1>6. \A e : LET h == [past EXCEPT !.foreign = e] IN h.since = past.since
  BY <1>1
<1>7. CASE \E d \in past.held : Rollback(d)
  <2>1. PICK d \in past.held : Rollback(d)
    BY <1>7
  <2>2. page' = [page EXCEPT !.doc = d, !.version = page.version + 1,
                             !.generation = page.generation + 1]
    BY <2>1 DEF Rollback, RolledBack
  <2>3. page'.doc = d /\ page'.version = page.version + 1
        /\ page'.generation = page.generation + 1
    BY <1>4, <2>2
  <2>4. past'.since = [f \in Field |-> {d[f]}]
    BY <1>5, <2>1 DEF Rollback
  <2>5. Held(past'.since, d)
    BY <2>4 DEF Held
  <2>6. kind = "page"
    BY <2>1 DEF Rollback
  <2> QED BY <1>1, <1>3, <2>3, <2>5, <2>6, OnlyPage DEF Advance, PageOK
<1>8. CASE DeletePage
  <2>1. page' = [page EXCEPT !.live = FALSE, !.version = page.version + 1,
                             !.generation = page.generation + 1]
    BY <1>8 DEF DeletePage
  <2>2. page'.doc = page.doc /\ page'.version = page.version + 1
        /\ page'.generation = page.generation + 1
    BY <1>4, <2>1
  <2>3. past'.since = [f \in Field |-> {page.doc[f]}]
    BY <1>5, <1>8 DEF DeletePage
  <2>4. Held(past'.since, page.doc)
    BY <2>3 DEF Held
  <2>5. kind = "page"
    BY <1>8 DEF DeletePage
  <2> QED BY <1>1, <1>3, <2>2, <2>4, <2>5, OnlyPage DEF Advance, PageOK
<1>9. CASE RestorePage
  <2>1. page' = [page EXCEPT !.live = TRUE, !.version = page.version + 1]
    BY <1>9 DEF RestorePage
  <2>2. page'.doc = page.doc /\ page'.version = page.version + 1
        /\ page'.generation = page.generation
    BY <1>4, <2>1
  <2>3. past'.since = past.since
    BY <1>6, <1>9 DEF RestorePage
  <2> QED BY <1>1, <1>2, <1>3, <2>2, <2>3, OnlyPage DEF Advance, PageOK
<1>10. CASE RemoveDraft
  <2>1. page' = [page EXCEPT !.live = FALSE]
    BY <1>10 DEF RemoveDraft
  <2>2. page'.doc = page.doc /\ page'.version = page.version
        /\ page'.generation = page.generation
    BY <1>4, <2>1
  <2>3. past'.since = past.since
    BY <1>6, <1>10 DEF RemoveDraft
  <2> QED BY <1>1, <1>2, <1>3, <2>2, <2>3, OnlyPage DEF Advance, PageOK
<1> QED BY <1>7, <1>8, <1>9, <1>10

-----------------------------------------------------------------------------
(* The inductive invariant. *)

LEMMA InitSeen == Init => IInv
<1> SUFFICES ASSUME NEW opened \in Text, NEW earlier \in Text, InitWith(opened, earlier),
                    TypeOK
             PROVE  Seen
  BY InitTypes DEF Init, IInv
<1> DEFINE doc == [f \in Field |-> opened]
<1>1. /\ page.doc = doc /\ page.version = 1 /\ page.generation = 0
      /\ past.since = [f \in Field |-> {opened}] /\ kind \in {"page", "draft"}
  BY KindAssumption DEF InitWith
<1>2. Held(past.since, doc)
  BY <1>1 DEF Held
<1>3. \A c \in Editor : editor[c] = Opened(doc)
  BY DEF InitWith
<1>4. \A s \in Slot : call[s] = None
  BY DEF InitWith
<1>5. ASSUME NEW c \in Editor PROVE TabOK(editor[c], page, past.since)
  <2>1. /\ editor[c].base = doc /\ editor[c].version = 1 /\ editor[c].generation = 0
        /\ editor[c].conflict = NoConflict
    BY <1>3 DEF Opened
  <2> HIDE DEF doc
  <2> QED BY <1>1, <1>2, <2>1 DEF TabOK, Sight
<1>6. PageOK(page, past.since, kind)
  BY <1>1, <1>2 DEF PageOK
<1> QED BY <1>4, <1>5, <1>6, NoneSeen DEF Seen, Slot

LEMMA StutterSeen == IInv /\ UNCHANGED vars => IInv'
<1> SUFFICES ASSUME IInv, UNCHANGED vars PROVE IInv'
  OBVIOUS
<1>1. UNCHANGED <<kind, page, editor, call, spent, past>>
  BY DEF vars
<1>2. TypeOK'
  BY <1>1 DEF IInv, TypeOK
<1>3. Seen'
  BY <1>1 DEF IInv, Seen, PageOK
<1> QED BY <1>2, <1>3 DEF IInv

LEMMA NextTypes == TypeOK /\ Next => TypeOK'
<1> SUFFICES ASSUME TypeOK, Next PROVE TypeOK'
  OBVIOUS
<1> QED BY TabStepTypes, ServeTypes, AnswerTypes, ResetTypes DEF Next

LEMMA NextSeen == IInv /\ Next => IInv'
<1> SUFFICES ASSUME IInv, Next PROVE IInv'
  OBVIOUS
<1>1. TypeOK'
  BY NextTypes DEF IInv
<1>2. Seen'
  BY <1>1, TabStep, SendStep, AnswerStep, ServeStep, ResetStep DEF Next
<1> QED BY <1>1, <1>2 DEF IInv

LEMMA Invariance == Spec => []IInv
BY InitSeen, StutterSeen, NextSeen, PTL DEF Spec

-----------------------------------------------------------------------------
(* What follows. *)

\* Every variable keeps its type: in particular no conflict is shown without a
\* document, and no request carries a document the tab never held.
THEOREM Typing == Spec => []TypeOK
<1>1. IInv => TypeOK
  BY DEF IInv
<1> QED BY <1>1, Invariance, PTL

LEMMA LandingStores ==
  ASSUME IInv, Next, NEW s \in Slot, Landing(s)
  PROVE  Store(s)
<1>1. page'.doc # page.doc /\ call'[s] # call[s] /\ call \in [Slot -> Call]
  BY DEF Landing, IInv, TypeOK
<1>2. ASSUME NEW c \in Editor, Type(c) \/ Flush(c) \/ SaveNow(c) \/ Drain(c) \/ Send(c)
             \/ Acknowledge(c) \/ Settle(c) \/ Rejected(c) \/ Lose(c) \/ Adopt(c)
      PROVE  FALSE
  <2>1. page' = page
    BY <1>2 DEF Type, Flush, SaveNow, Drain, Send, Acknowledge, Settle, Rejected, Lose,
                Adopt
  <2> QED BY <1>1, <2>1
<1>3. ASSUME NEW r \in Slot,
             UpdateDraft(r) \/ UpdatePage(r) \/ Reread(r) \/ StoreMerged(r)
      PROVE  Store(s)
  <2>1. Store(r)
    BY <1>1, <1>3 DEF UpdateDraft, UpdatePage, Reread, StoreMerged, Refuse
  <2>2. r # s => call'[s] = call[s]
    BY <1>1, <2>1 DEF Store, Reply
  <2> QED BY <1>1, <2>1, <2>2
<1>4. ASSUME (\E d \in past.held : Rollback(d)) \/ DeletePage \/ RestorePage \/ RemoveDraft
      PROVE  FALSE
  <2>1. call' = call
    BY <1>4 DEF Rollback, DeletePage, RestorePage, RemoveDraft
  <2> QED BY <1>1, <2>1
<1> QED BY <1>2, <1>3, <1>4 DEF Next

LEMMA StoredSaw ==
  ASSUME IInv, NEW s \in Slot, Store(s), call[s].phase \in {"sent", "merged"},
         NEW f \in Field
  PROVE  /\ page'.doc[f] # page.doc[f] => call[s].base[f] = page.doc[f]
         /\ call[s].base[f] \in past.since[f]
<1> DEFINE k == call[s]
<1>1. /\ CallOK(k, page, past.since) /\ PageOK(page, past.since, kind)
      /\ page \in Row /\ k \in Call
  BY DEF IInv, Seen, TypeOK
<1>2. k \in Request /\ page.generation \in Nat /\ k.generation \in Nat
  BY <1>1, CallFields DEF Row
<1>3. page'.doc = k.doc
  BY <1>1 DEF Store, Row
<1>4. k.version = page.version /\ k.generation <= page.generation
  BY <1>1 DEF Store, Current, CallOK, Sight
<1>5. k.generation = page.generation
  BY <1>1, <1>2, <1>4 DEF Store, Current, PageOK
<1>6. k.base[f] \in past.since[f]
  BY <1>1, <1>5 DEF CallOK, Sight, Held
<1>7. CASE k.phase = "sent"
  BY <1>1, <1>4, <1>6, <1>7 DEF CallOK, Sight
<1>8. CASE k.phase = "merged"
  <2>1. k.doc = Merge(k.base, k.next, page.doc)
        /\ MergesCleanly(k.base, k.next, page.doc)
    BY <1>1, <1>4, <1>8 DEF CallOK
  <2> QED BY <1>3, <1>6, <2>1 DEF Merge, MergesCleanly
<1> QED BY <1>7, <1>8

\* No save overwrites text that its author's baseline does not hold, whatever the
\* tabs typed, merged, lost or adopted in the meantime.
THEOREM Unseen == Spec => NoSilentLoss
<1> DEFINE A == \A s \in Slot : Landing(s) =>
                  \A f \in Field : page'.doc[f] # page.doc[f] => call[s].base[f] = page.doc[f]
<1>1. IInv /\ [Next]_vars => [A]_vars
  BY LandingStores, StoredSaw DEF Landing
<1> QED BY <1>1, Invariance, PTL DEF Spec, NoSilentLoss

\* No save lands on a generation of the page that its baseline is not of.
THEOREM Generations == Spec => NoSaveAcrossGenerations
<1> DEFINE A == \A s \in Slot : Landing(s) =>
                  \A f \in Field : call[s].base[f] \in past.since[f]
<1>1. IInv /\ [Next]_vars => [A]_vars
  BY LandingStores, StoredSaw DEF Landing
<1> QED BY <1>1, Invariance, PTL DEF Spec, NoSaveAcrossGenerations

\* No answer replaces what was typed before its save left or while it was in flight.
THEOREM Keystrokes == Spec => AnswersKeepTyping
<1> DEFINE A == \A c \in Editor : Acknowledge(c) =>
                  \A f \in Field : editor'[c].doc[f] # editor[c].doc[f]
                                      => /\ editor[c].doc[f] = call[c].next[f]
                                         /\ call[c].next[f] = call[c].base[f]
<1>1. IInv => [A]_vars
  <2> SUFFICES ASSUME IInv, NEW c \in Editor, Acknowledge(c), NEW f \in Field,
                      editor'[c].doc[f] # editor[c].doc[f]
               PROVE  /\ editor[c].doc[f] = call[c].next[f]
                      /\ call[c].next[f] = call[c].base[f]
    OBVIOUS
  <2>1. /\ editor \in [Editor -> Tab] /\ editor[c] \in Tab
        /\ CallOK(call[c], page, past.since) /\ call[c].phase = "stored"
    BY DEF IInv, TypeOK, Seen, Slot, Acknowledge
  <2>2. editor'[c].doc = DocAfter(editor[c], call[c])
    BY <2>1 DEF Acknowledge, Tab
  <2>3. ~Drifted(editor[c], call[c], f)
    BY <2>2 DEF DocAfter
  <2>4. f \in Part(f)
    BY DEF Part
  <2>5. editor[c].doc[f] = call[c].next[f]
    BY <2>3, <2>4 DEF Drifted, SamePart
  <2>6. call[c].doc[f] # call[c].next[f]
    BY <2>2, <2>3, <2>5 DEF DocAfter
  <2> QED BY <2>1, <2>5, <2>6 DEF CallOK, Keeps
<1> QED BY <1>1, Invariance, PTL DEF AnswersKeepTyping

-----------------------------------------------------------------------------
(* A tab at rest. *)

\* Unsaved text is on its way, or an error is shown; so is a halted autosave.
RestOK(t, k) ==
  /\ t.doc # t.saved =>
       t.timer \/ t.draining \/ k.phase # "none" \/ t.status = "error"
  /\ t.halted => k.phase # "none" \/ t.status = "error"

\* What a tab holds of the server's was once in the row.
HoldsOK(t, held) ==
  /\ t.saved \in held
  /\ t.conflict # NoConflict => t.conflict.doc \in held

AnswersOK(k, held) == k.phase \in {"stored", "conflict", "acknowledged"} => k.doc \in held

Resting ==
  /\ page.doc \in past.held
  /\ \A c \in Editor : RestOK(editor[c], call[c]) /\ HoldsOK(editor[c], past.held)
  /\ \A s \in Slot : AnswersOK(call[s], past.held)

RInv == TypeOK /\ Resting

LEMMA RestTab ==
  ASSUME RInv, NEW c \in Editor,
         UNCHANGED <<page, past>>,
         \A e \in Editor \ {c} : editor'[e] = editor[e] /\ call'[e] = call[e],
         call'[Stray] = call[Stray],
         RestOK(editor'[c], call'[c]), HoldsOK(editor'[c], past.held),
         AnswersOK(call'[c], past.held)
  PROVE  Resting'
BY DEF RInv, Resting, Slot

LEMMA StartsAnswerNothing ==
  \A d, h : AnswersOK(None, h) /\ AnswersOK(Starting(d), h) /\ Starting(d).phase # "none"
BY NoRequest DEF AnswersOK

LEMMA RestRun ==
  ASSUME RInv, NEW c \in Editor, Run(c)
  PROVE  RestOK(editor'[c], call'[c]) /\ HoldsOK(editor'[c], past.held)
         /\ AnswersOK(call'[c], past.held)
<1>1. editor \in [Editor -> Tab] /\ call \in [Slot -> Call] /\ c \in Slot
  BY DEF RInv, TypeOK, Slot
<1>2. call'[c] = Starting(editor[c].doc)
  BY <1>1 DEF Run
<1>3. editor'[c].saved = editor[c].saved /\ editor'[c].conflict = editor[c].conflict
  BY <1>1 DEF Run, Tab
<1> QED BY <1>2, <1>3, StartsAnswerNothing DEF RInv, Resting, RestOK, HoldsOK

LEMMA ConvergedKeeps ==
  ASSUME NEW t \in Tab
  PROVE  LET u == Converged(t)
         IN  /\ u.doc = t.doc /\ u.saved = t.saved /\ u.conflict = t.conflict
             /\ u.halted = t.halted
<1>1. \A s : LET u == [t EXCEPT !.timer = FALSE, !.draining = FALSE, !.status = s]
             IN  /\ u.doc = t.doc /\ u.saved = t.saved /\ u.conflict = t.conflict
                 /\ u.halted = t.halted
  BY DEF Tab
<1> QED BY <1>1 DEF Converged

LEMMA RestTyped ==
  ASSUME NEW t \in Tab, NEW f, NEW x, NEW k, NEW h, RestOK(t, k), HoldsOK(t, h)
  PROVE  RestOK(Typed(t, f, x), k) /\ HoldsOK(Typed(t, f, x), h)
<1> DEFINE u == Typed(t, f, x)
<1>1. /\ u.saved = t.saved /\ u.conflict = t.conflict /\ u.halted = t.halted
      /\ u.timer = (t.timer \/ ~t.halted) /\ u.draining = t.draining
      /\ t.halted => u.status = t.status
  BY DEF Typed, Tab
<1> HIDE DEF u
<1>2. u.halted => k.phase # "none" \/ u.status = "error"
  BY <1>1 DEF RestOK
<1>3. u.timer \/ u.halted
  BY <1>1
<1>4. RestOK(u, k)
  BY <1>2, <1>3, Zenon DEF RestOK
<1>5. HoldsOK(u, h)
  BY <1>1 DEF HoldsOK
<1> QED BY <1>4, <1>5 DEF u

LEMMA RestStep ==
  ASSUME RInv, NEW c \in Editor,
         Type(c) \/ Flush(c) \/ SaveNow(c) \/ Drain(c) \/ Send(c)
  PROVE  Resting'
<1>1. /\ editor \in [Editor -> Tab] /\ call \in [Slot -> Call] /\ c \in Slot
      /\ c # Stray /\ Stray \in Slot
  BY StrayAssumption DEF RInv, TypeOK, Slot
<1>2. /\ UNCHANGED <<page, past>> /\ call'[Stray] = call[Stray]
      /\ \A e \in Editor \ {c} : editor'[e] = editor[e] /\ call'[e] = call[e]
  BY <1>1 DEF Type, Flush, SaveNow, Drain, Send, Run, Slot
<1>3. /\ editor[c] \in Tab /\ RestOK(editor[c], call[c]) /\ HoldsOK(editor[c], past.held)
      /\ AnswersOK(call[c], past.held)
  BY <1>1 DEF RInv, Resting
<1>4. RestOK(editor'[c], call'[c]) /\ HoldsOK(editor'[c], past.held)
      /\ AnswersOK(call'[c], past.held)
  <2>1. CASE Type(c)
    <3>1. PICK f, x : editor' = [editor EXCEPT ![c] = Typed(@, f, x)]
      BY <2>1 DEF Type
    <3>2. editor'[c] = Typed(editor[c], f, x) /\ call'[c] = call[c]
      BY <1>1, <2>1, <3>1 DEF Type
    <3> QED BY <1>3, <3>2, RestTyped
  <2>2. CASE Run(c)
    BY <2>2, RestRun
  <2>3. CASE Flush(c) /\ editor[c].halted
    <3>1. /\ editor'[c].doc = editor[c].doc /\ editor'[c].saved = editor[c].saved
          /\ editor'[c].conflict = editor[c].conflict
          /\ editor'[c].halted = editor[c].halted /\ editor'[c].status = editor[c].status
          /\ call'[c] = call[c]
      BY <1>1, <2>3 DEF Flush, Tab
    <3> QED BY <1>3, <2>3, <3>1 DEF RestOK, HoldsOK, Flush, Awaiting
  <2>4. CASE Flush(c) /\ ~editor[c].halted /\ editor[c].doc = editor[c].saved
    <3>1. /\ editor'[c].doc = editor[c].doc /\ editor'[c].saved = editor[c].saved
          /\ editor'[c].conflict = editor[c].conflict
          /\ editor'[c].halted = editor[c].halted
          /\ call'[c] = call[c]
      <4>1. /\ editor'[c] = [Converged(editor[c]) EXCEPT !.draining = editor[c].draining]
            /\ call' = call
        BY <1>1, <2>4 DEF Flush
      <4> QED BY <1>3, <4>1, ConvergedKeeps, ConvergedTab DEF Tab
    <3> QED BY <1>3, <2>4, <3>1 DEF RestOK, HoldsOK
  <2>5. CASE SaveNow(c)
    <3>1. /\ editor'[c].saved = editor[c].saved /\ editor'[c].conflict = editor[c].conflict
          /\ editor'[c].halted = editor[c].halted /\ editor'[c].status = editor[c].status
          /\ editor'[c].draining /\ call'[c] = call[c]
      BY <1>1, <2>5 DEF SaveNow, Tab
    <3> QED BY <1>3, <3>1 DEF RestOK, HoldsOK
  <2>6. CASE editor' = [editor EXCEPT ![c] = Converged(@)] /\ UNCHANGED call
             /\ Drain(c) /\ editor[c].doc = editor[c].saved /\ editor[c].status # "error"
    <3>1. /\ editor'[c].doc = editor[c].doc /\ editor'[c].saved = editor[c].saved
          /\ editor'[c].conflict = editor[c].conflict
          /\ editor'[c].halted = editor[c].halted
          /\ call'[c] = call[c]
      BY <1>1, <1>3, <2>6, ConvergedKeeps
    <3>2. ~editor[c].halted
      BY <1>3, <2>6 DEF RestOK, Drain, Awaiting
    <3> QED BY <1>3, <2>6, <3>1, <3>2 DEF RestOK, HoldsOK
  <2>7. CASE Send(c)
    <3>1. call'[c].phase = "sent" /\ editor'[c] = editor[c]
      BY <1>1, <2>7 DEF Send
    <3> QED BY <1>3, <3>1 DEF RestOK, HoldsOK, AnswersOK
  <2> QED BY <2>1, <2>2, <2>3, <2>4, <2>5, <2>6, <2>7 DEF Flush, Drain
<1> QED BY <1>2, <1>4, RestTab

LEMMA RestSettled ==
  ASSUME NEW t \in Tab, NEW d, NEW k, NEW h, d \in h, HoldsOK(t, h)
  PROVE  RestOK(Settled(t, d), k) /\ HoldsOK(Settled(t, d), h)
<1> DEFINE u == Settled(t, d)
<1>1. \A s, b : LET w == [t EXCEPT !.saved = d, !.halted = FALSE, !.status = s, !.timer = b]
                IN  /\ w.saved = d /\ w.conflict = t.conflict /\ w.halted = FALSE
                    /\ w.timer = b /\ w.doc = t.doc
  BY DEF Tab
<1>2. /\ u.saved = d /\ u.conflict = t.conflict /\ u.halted = FALSE
      /\ u.timer = (t.timer \/ t.doc # d) /\ u.doc = t.doc
  BY <1>1 DEF Settled
<1> HIDE DEF u
<1>3. HoldsOK(u, h)
  BY <1>2 DEF HoldsOK
<1>4. u.doc # u.saved => u.timer
  BY <1>2, Zenon
<1>5. ~u.halted
  BY <1>2
<1>6. RestOK(u, k)
  BY <1>4, <1>5, Zenon DEF RestOK
<1> QED BY <1>3, <1>6 DEF u

LEMMA RestAnswer ==
  ASSUME RInv, NEW c \in Editor, Acknowledge(c) \/ Settle(c) \/ Rejected(c) \/ Adopt(c)
  PROVE  Resting'
<1>1. /\ editor \in [Editor -> Tab] /\ call \in [Slot -> Call] /\ c \in Slot
      /\ c # Stray /\ Stray \in Slot
  BY StrayAssumption DEF RInv, TypeOK, Slot
<1>2. /\ UNCHANGED <<page, past>> /\ call'[Stray] = call[Stray]
      /\ \A e \in Editor \ {c} : editor'[e] = editor[e] /\ call'[e] = call[e]
  BY <1>1 DEF Acknowledge, Settle, Rejected, Adopt, Slot
<1>3. /\ editor[c] \in Tab /\ RestOK(editor[c], call[c]) /\ HoldsOK(editor[c], past.held)
      /\ AnswersOK(call[c], past.held) /\ call[c] \in Call
  BY <1>1 DEF RInv, Resting
<1>4. RestOK(editor'[c], call'[c]) /\ HoldsOK(editor'[c], past.held)
      /\ AnswersOK(call'[c], past.held)
  <2>1. CASE Acknowledge(c)
    <3>1. call[c] \in Request
      BY <1>3, <2>1, CallFields DEF Acknowledge
    <3>2. call'[c].phase = "acknowledged" /\ call'[c].doc = call[c].doc
      BY <1>1, <2>1, <3>1 DEF Acknowledge, Request
    <3>3. /\ editor'[c].saved = editor[c].saved
          /\ editor'[c].conflict \in {editor[c].conflict, NoConflict}
      BY <1>1, <1>3, <2>1 DEF Acknowledge, Tab
    <3> QED BY <1>3, <2>1, <3>2, <3>3 DEF RestOK, HoldsOK, AnswersOK, Acknowledge
  <2>2. CASE Settle(c)
    <3>1. editor'[c] = Settled(editor[c], call[c].doc) /\ call'[c] = None
      BY <1>1, <2>2 DEF Settle, SavedSnapshot
    <3>2. call[c].doc \in past.held
      BY <1>3, <2>2 DEF Settle, AnswersOK
    <3> QED BY <1>3, <3>1, <3>2, RestSettled, StartsAnswerNothing
  <2>3. CASE Rejected(c)
    <3> DEFINE o == ConflictAfter(editor[c], call[c])
    <3>1. \A x : LET u == [editor[c] EXCEPT !.status = "error", !.halted = TRUE,
                                             !.draining = FALSE, !.conflict = x]
                 IN  u.status = "error" /\ u.saved = editor[c].saved /\ u.conflict = x
      BY <1>3 DEF Tab
    <3>2. editor'[c] = [editor[c] EXCEPT !.status = "error", !.halted = TRUE,
                                         !.draining = FALSE, !.conflict = o]
      BY <1>1, <2>3 DEF Rejected
    <3>3. o # NoConflict => o.doc \in past.held
      BY <1>3, <2>3 DEF ConflictAfter, Rejected, AnswersOK, HoldsOK
    <3>4. call'[c] = None
      BY <1>1, <2>3 DEF Rejected
    <3> HIDE DEF o
    <3> QED BY <1>3, <3>1, <3>2, <3>3, <3>4, StartsAnswerNothing DEF RestOK, HoldsOK
  <2>4. CASE Adopt(c)
    <3> DEFINE theirs == editor[c].conflict
    <3>1. /\ editor'[c].doc = theirs.doc /\ editor'[c].saved = theirs.doc
          /\ editor'[c].halted = FALSE /\ editor'[c].conflict = NoConflict
      BY <1>1, <2>4 DEF Adopt, Reset, Tab
    <3>2. theirs.doc \in past.held /\ call'[c] = call[c]
      BY <1>3, <2>4 DEF Adopt, HoldsOK
    <3> QED BY <1>3, <3>1, <3>2 DEF RestOK, HoldsOK
  <2> QED BY <2>1, <2>2, <2>3, <2>4
<1> QED BY <1>2, <1>4, RestTab

LEMMA RestLose ==
  ASSUME RInv, NEW c \in Editor, Lose(c)
  PROVE  Resting'
<1>1. /\ editor \in [Editor -> Tab] /\ call \in [Slot -> Call] /\ c \in Slot
      /\ c # Stray /\ Stray \in Slot
  BY StrayAssumption DEF RInv, TypeOK, Slot
<1>2. PICK stray \in {None, call[c]} :
        call' = [call EXCEPT ![c] = None, ![Stray] = stray]
  BY DEF Lose
<1>3. /\ call'[c] = None /\ call'[Stray] = stray
      /\ \A e \in Editor \ {c} : editor'[e] = editor[e] /\ call'[e] = call[e]
  BY <1>1, <1>2, StrayAssumption DEF Lose, Slot
<1>4. /\ editor'[c].status = "error" /\ editor'[c].saved = editor[c].saved
      /\ editor'[c].conflict = editor[c].conflict
  BY <1>1 DEF Lose, Tab
<1>5. past'.held = past.held /\ page' = page
  BY DEF Lose, RInv, TypeOK
<1>6. RestOK(editor'[c], call'[c]) /\ HoldsOK(editor'[c], past.held)
  BY <1>4 DEF RestOK, HoldsOK, RInv, Resting
<1>7. AnswersOK(call'[c], past.held) /\ AnswersOK(call'[Stray], past.held)
  BY <1>1, <1>3, StartsAnswerNothing DEF RInv, Resting
<1> QED BY <1>3, <1>5, <1>6, <1>7 DEF RInv, Resting, Slot

LEMMA RestServe ==
  ASSUME RInv, NEW s \in Slot,
         UpdateDraft(s) \/ UpdatePage(s) \/ Reread(s) \/ StoreMerged(s)
  PROVE  Resting'
<1>1. /\ editor \in [Editor -> Tab] /\ call \in [Slot -> Call]
      /\ call[s] \in Call /\ page \in Row
      /\ past \in [held : SUBSET Document, since : [Field -> SUBSET Text],
                   foreign : [Editor -> BOOLEAN]]
  BY DEF RInv, TypeOK
<1>2. /\ call[s].phase \in {"sent", "reread", "merged"} /\ call[s] \in Request
      /\ UNCHANGED editor
  BY <1>1, CallFields DEF UpdateDraft, UpdatePage, Reread, StoreMerged
<1>3. past.held \subseteq past'.held /\ page'.doc \in past'.held
  <2>1. CASE Store(s)
    <3>1. page'.doc = call[s].doc
      BY <1>1, <2>1 DEF Store, Row
    <3>2. past'.held = past.held \cup {call[s].doc}
      BY <2>1 DEF Store
    <3> QED BY <3>1, <3>2
  <2>2. CASE UNCHANGED <<page, past>>
    BY <2>2 DEF RInv, Resting
  <2> QED BY <2>1, <2>2 DEF UpdateDraft, UpdatePage, Reread, StoreMerged, Refuse
<1>4. PICK k : /\ call' = [call EXCEPT ![s] = IF s = Stray THEN None ELSE k]
                  \/ call' = [call EXCEPT ![s] = k]
               /\ k.phase # "none" /\ AnswersOK(k, past'.held)
  <2>1. CASE Store(s)
    <3> DEFINE k == [call[s] EXCEPT !.phase = "stored", !.version = page.version + 1]
    <3>1. k.phase = "stored" /\ k.doc = call[s].doc
      BY <1>2 DEF Request
    <3>2. k.doc \in past'.held /\ call' = [call EXCEPT ![s] = IF s = Stray THEN None ELSE k]
      BY <2>1, <3>1 DEF Store, Reply
    <3> HIDE DEF k
    <3> QED BY <3>1, <3>2 DEF AnswersOK
  <2>2. CASE Refuse(s)
    <3> DEFINE k == Answer(s, IF page.live THEN "conflict" ELSE "gone")
    <3>1. k.phase # "none" /\ k.doc = page.doc
      BY <1>2 DEF Answer, Request
    <3>2. page.doc \in past'.held /\ call' = [call EXCEPT ![s] = IF s = Stray THEN None ELSE k]
      BY <1>3, <2>2 DEF Refuse, Reply
    <3> HIDE DEF k
    <3> QED BY <3>1, <3>2 DEF AnswersOK
  <2>3. CASE call' = [call EXCEPT ![s] = [@ EXCEPT !.phase = "reread"]]
    <3>1. [call[s] EXCEPT !.phase = "reread"].phase = "reread"
      BY <1>2 DEF Request
    <3> QED BY <1>1, <2>3, <3>1 DEF AnswersOK
  <2>4. CASE call' = [call EXCEPT ![s] = [@ EXCEPT
               !.phase = "merged", !.doc = Merge(call[s].base, call[s].next, page.doc),
               !.version = page.version]]
    <3>1. \A d, v : [call[s] EXCEPT !.phase = "merged", !.doc = d, !.version = v].phase
                      = "merged"
      BY <1>2 DEF Request
    <3> QED BY <1>1, <2>4, <3>1 DEF AnswersOK
  <2> QED BY <2>1, <2>2, <2>3, <2>4 DEF UpdateDraft, UpdatePage, Reread, StoreMerged
<1>5. call'[s] = k \/ (s = Stray /\ call'[s] = None)
  BY <1>1, <1>4
<1>6. \A r \in Slot \ {s} : call'[r] = call[r]
  BY <1>1, <1>4
<1>7. ASSUME NEW e \in Editor
      PROVE  RestOK(editor[e], call'[e]) /\ HoldsOK(editor[e], past'.held)
  <2>1. RestOK(editor[e], call[e]) /\ HoldsOK(editor[e], past'.held)
    BY <1>3 DEF RInv, Resting, HoldsOK
  <2>2. e \in Slot /\ e # Stray
    BY StrayAssumption DEF Slot
  <2> QED BY <1>4, <1>5, <1>6, <2>1, <2>2 DEF RestOK
<1>8. \A r \in Slot \ {s} : AnswersOK(call'[r], past'.held)
  BY <1>3, <1>6 DEF RInv, Resting, AnswersOK
<1>9. AnswersOK(call'[s], past'.held)
  BY <1>4, <1>5, StartsAnswerNothing
<1> QED BY <1>2, <1>3, <1>7, <1>8, <1>9 DEF Resting

LEMMA RestReset ==
  ASSUME RInv,
         (\E d \in past.held : Rollback(d)) \/ DeletePage \/ RestorePage \/ RemoveDraft
  PROVE  Resting'
<1>1. page \in Row
      /\ past \in [held : SUBSET Document, since : [Field -> SUBSET Text],
                   foreign : [Editor -> BOOLEAN]]
  BY DEF RInv, TypeOK
<1>2. past'.held = past.held
  BY <1>1 DEF Rollback, DeletePage, RestorePage, RemoveDraft
<1>3. page'.doc \in past.held
  BY <1>1 DEF Rollback, RolledBack, DeletePage, RestorePage, RemoveDraft, Row, RInv, Resting
<1>4. UNCHANGED <<editor, call>>
  BY DEF Rollback, DeletePage, RestorePage, RemoveDraft
<1> QED BY <1>2, <1>3, <1>4 DEF RInv, Resting

LEMMA RestInit == Init => Resting
<1> SUFFICES ASSUME NEW opened \in Text, NEW earlier \in Text, InitWith(opened, earlier)
             PROVE  Resting
  BY DEF Init
<1> DEFINE doc == [f \in Field |-> opened]
<1>1. /\ page.doc = doc /\ doc \in past.held
      /\ \A c \in Editor : editor[c] = Opened(doc)
      /\ \A s \in Slot : call[s] = None
  BY DEF InitWith
<1>2. /\ Opened(doc).doc = doc /\ Opened(doc).saved = doc /\ ~Opened(doc).halted
      /\ Opened(doc).conflict = NoConflict
  BY DEF Opened
<1> HIDE DEF doc
<1> QED BY <1>1, <1>2, StartsAnswerNothing DEF Resting, RestOK, HoldsOK

\* A tab without a pending save and without an error shows what the server stored.
THEOREM Rest == Spec => []AtRestMeansPersisted
<1>1. Init => RInv
  BY InitTypes, RestInit DEF RInv
<1>2. RInv /\ Next => RInv'
  BY NextTypes, RestStep, RestAnswer, RestLose, RestServe, RestReset DEF RInv, Next
<1>3. RInv /\ UNCHANGED vars => RInv'
  <2> SUFFICES ASSUME RInv, UNCHANGED vars PROVE RInv'
    OBVIOUS
  <2>1. UNCHANGED <<kind, page, editor, call, spent, past>>
    BY DEF vars
  <2> QED BY <2>1 DEF RInv, Resting, TypeOK
<1>4. RInv => AtRestMeansPersisted
  BY DEF RInv, Resting, RestOK, HoldsOK, AtRestMeansPersisted, Quiet, Awaiting
<1> QED BY <1>1, <1>2, <1>3, <1>4, PTL DEF Spec

-----------------------------------------------------------------------------
(* A page that only one tab changes. *)

\* The page p is what tab t, whose request is k, last stored on it; a request of the
\* tab never meets a version of somebody else's.
OwnOK(t, k, p) ==
  /\ p.live
  /\ t.conflict = NoConflict
  /\ t.generation = p.generation
  /\ k.phase \notin {"conflict", "gone"}
  /\ k.phase # "stored" => t.base = p.doc
  /\ k.phase \in {"sent", "reread", "merged"} =>
       k.base = p.doc /\ k.generation = p.generation /\ k.doc = k.next
  /\ k.phase = "merged" => k.version = p.version
  /\ k.phase = "stored" =>
       k.doc = p.doc /\ k.doc = k.next /\ k.generation = p.generation

Alone ==
  \A c \in Editor : kind = "page" /\ ~past.foreign[c] => OwnOK(editor[c], call[c], page)

AInv == TypeOK /\ Alone

\* What another tab does to a page makes it a foreign one.
LEMMA AloneTab ==
  ASSUME AInv, NEW c \in Editor, UNCHANGED <<kind, page, past>>,
         \A e \in Editor \ {c} : editor'[e] = editor[e] /\ call'[e] = call[e],
         kind = "page" /\ ~past.foreign[c] => OwnOK(editor'[c], call'[c], page)
  PROVE  Alone'
BY DEF AInv, Alone

LEMMA AloneQuiet ==
  ASSUME NEW t, NEW u, NEW k, NEW p, OwnOK(t, k, p), SameBase(t, u)
  PROVE  /\ OwnOK(u, k, p)
         /\ k.phase # "stored" => OwnOK(u, None, p) /\ \A d : OwnOK(u, Starting(d), p)
BY NoRequest DEF OwnOK, SameBase

LEMMA AloneStep ==
  ASSUME AInv, NEW c \in Editor,
         Type(c) \/ Flush(c) \/ SaveNow(c) \/ Drain(c) \/ Settle(c)
  PROVE  Alone'
<1>1. /\ UNCHANGED <<page, kind, past>>
      /\ \A e \in Editor \ {c} : editor'[e] = editor[e] /\ call'[e] = call[e]
      /\ SameBase(editor[c], editor'[c])
      /\ call'[c] = call[c] \/ call'[c] = None \/ call'[c] = Starting(editor[c].doc)
  BY TabMoves DEF AInv
<1>2. call'[c] # call[c] => call[c].phase # "stored"
  BY <1>1, NoRequest DEF AInv, TypeOK, Slot, Awaiting, Type, Flush, SaveNow, Drain, Settle
<1>3. ASSUME kind = "page" /\ ~past.foreign[c]
      PROVE  OwnOK(editor'[c], call'[c], page)
  <2>1. OwnOK(editor[c], call[c], page)
    BY <1>3 DEF AInv, Alone
  <2> QED BY <1>1, <1>2, <2>1, AloneQuiet
<1> QED BY <1>1, <1>3, AloneTab

LEMMA AloneSend ==
  ASSUME AInv, NEW c \in Editor, Send(c)
  PROVE  Alone'
<1> DEFINE k == [phase |-> "sent", next |-> call[c].next, base |-> editor[c].base,
                 doc |-> call[c].next, version |-> editor[c].version,
                 generation |-> editor[c].generation]
<1>1. /\ call' = [call EXCEPT ![c] = k] /\ UNCHANGED <<kind, page, editor, past>>
      /\ call[c].phase = "starting"
  BY DEF Send
<1>2. call'[c] = k /\ \A e \in Slot \ {c} : call'[e] = call[e]
  BY <1>1 DEF AInv, TypeOK, Slot
<1>3. OwnOK(editor[c], call[c], page) => OwnOK(editor[c], k, page)
  BY <1>1 DEF OwnOK
<1> HIDE DEF k
<1> QED BY <1>1, <1>2, <1>3, AloneTab DEF AInv, Alone, Slot

LEMMA AloneAnswered ==
  ASSUME AInv, NEW c \in Editor, Acknowledge(c)
  PROVE  Alone'
<1>1. /\ UNCHANGED <<kind, page, past>> /\ call[c].phase = "stored"
      /\ editor[c] \in Tab /\ call[c] \in Request
  BY CallFields, TabTypes DEF AInv, Acknowledge
<1>2. PICK dialog \in {editor[c].conflict, NoConflict} :
        editor' = [editor EXCEPT ![c] = [@ EXCEPT
          !.doc = DocAfter(editor[c], call[c]),
          !.base = BaseAfter(editor[c], call[c]),
          !.version = VersionAfter(editor[c], call[c]),
          !.generation = call[c].generation,
          !.conflict = dialog]]
  BY DEF Acknowledge
<1>3. \A e \in Editor \ {c} : editor'[e] = editor[e] /\ call'[e] = call[e]
  BY <1>2 DEF AInv, TypeOK, Slot, Acknowledge
<1>4. /\ editor'[c].base = BaseAfter(editor[c], call[c])
      /\ editor'[c].generation = call[c].generation
      /\ editor'[c].conflict = dialog
      /\ call'[c].phase = "acknowledged"
  <2>1. call'[c] = [call[c] EXCEPT !.phase = "acknowledged"]
    BY DEF AInv, TypeOK, Slot, Acknowledge
  <2>2. call'[c].phase = "acknowledged"
    BY <1>1, <2>1 DEF Request
  <2>3. editor'[c] = [editor[c] EXCEPT
          !.doc = DocAfter(editor[c], call[c]),
          !.base = BaseAfter(editor[c], call[c]),
          !.version = VersionAfter(editor[c], call[c]),
          !.generation = call[c].generation,
          !.conflict = dialog]
    BY <1>2 DEF AInv, TypeOK
  <2> QED BY <1>1, <2>2, <2>3 DEF Tab
<1>5. ASSUME kind = "page" /\ ~past.foreign[c]
      PROVE  OwnOK(editor'[c], call'[c], page)
  <2>1. OwnOK(editor[c], call[c], page)
    BY <1>5 DEF AInv, Alone
  <2>2. BaseAfter(editor[c], call[c]) = page.doc
    <3>1. \A f \in Field : StoredAsSubmitted(call[c], f)
      BY <1>1, <2>1 DEF OwnOK, StoredAsSubmitted, SamePart
    <3>2. BaseAfter(editor[c], call[c]) = [f \in Field |-> call[c].doc[f]]
      BY <3>1 DEF BaseAfter
    <3> QED BY <1>1, <2>1, <3>2 DEF OwnOK, Request, Document
  <2> QED BY <1>1, <1>2, <1>4, <2>1, <2>2 DEF OwnOK
<1> QED BY <1>1, <1>3, <1>5, AloneTab

\* A tab that nobody disturbed is never refused, and has no conflict to adopt.
LEMMA AloneNeverRefused ==
  ASSUME AInv, NEW c \in Editor, Rejected(c) \/ Adopt(c)
  PROVE  Alone'
<1>1. /\ UNCHANGED <<kind, page, past>>
      /\ \A e \in Editor \ {c} : editor'[e] = editor[e] /\ call'[e] = call[e]
      /\ call[c].phase \in {"conflict", "gone"} \/ editor[c].conflict # NoConflict
  BY DEF AInv, TypeOK, Slot, Rejected, Adopt
<1>2. ~(kind = "page" /\ ~past.foreign[c])
  BY <1>1 DEF AInv, Alone, OwnOK
<1> QED BY <1>1, <1>2, AloneTab

LEMMA AloneLose ==
  ASSUME AInv, NEW c \in Editor, Lose(c)
  PROVE  Alone'
<1>1. /\ UNCHANGED <<kind, page>>
      /\ \A e \in Editor \ {c} : /\ editor'[e] = editor[e] /\ call'[e] = call[e]
                                 /\ past'.foreign[e] = past.foreign[e]
      /\ past'.foreign[c]
  BY StrayAssumption DEF AInv, TypeOK, Slot, Lose
<1> QED BY <1>1 DEF AInv, Alone

\* The page as another writer leaves it belongs to no tab.
LEMMA AloneReset ==
  ASSUME AInv, (\E d \in past.held : Rollback(d)) \/ DeletePage \/ RestorePage \/ RemoveDraft
  PROVE  Alone'
<1>1. \A c \in Editor : past'.foreign[c]
  BY DEF AInv, TypeOK, Rollback, DeletePage, RestorePage, RemoveDraft, Everyone
<1> QED BY <1>1 DEF Alone

LEMMA AloneStore ==
  ASSUME AInv, NEW s \in Slot, Store(s), call[s].phase \in {"sent", "merged"},
         UNCHANGED <<kind, editor>>
  PROVE  Alone'
<1>1. \A e \in Editor \ {s} : past'.foreign[e]
  BY DEF Store
<1>2. CASE s = Stray
  BY <1>1, <1>2, StrayAssumption DEF Alone
<1>3. ASSUME s \in Editor, kind = "page" /\ ~past'.foreign[s]
      PROVE  OwnOK(editor[s], call'[s], page')
  <2>1. /\ s # Stray /\ ~past.foreign[s]
        /\ call[s] \in Request /\ page \in Row
    BY <1>3, StrayAssumption, CallFields DEF AInv, TypeOK, Store
  <2>2. OwnOK(editor[s], call[s], page)
    BY <1>3, <2>1 DEF AInv, Alone
  <2>3. /\ call'[s] = [call[s] EXCEPT !.phase = "stored", !.version = page.version + 1]
        /\ page' = [page EXCEPT !.doc = call[s].doc, !.version = @ + 1]
    BY <2>1 DEF AInv, TypeOK, Store, Reply
  <2>4. /\ call'[s].phase = "stored" /\ call'[s].doc = call[s].doc
        /\ call'[s].next = call[s].next /\ call'[s].generation = call[s].generation
        /\ page'.doc = call[s].doc /\ page'.generation = page.generation
        /\ page'.live = page.live
    BY <2>1, <2>3 DEF Request, Row
  <2> QED BY <2>2, <2>4 DEF OwnOK
<1> QED BY <1>1, <1>2, <1>3 DEF Alone, Slot

\* An answer to one request leaves the page and the other requests alone.
LEMMA AloneCall ==
  ASSUME AInv, NEW s \in Slot, UNCHANGED <<kind, editor, page, past>>,
         \A r \in Slot \ {s} : call'[r] = call[r],
         s \in Editor /\ kind = "page" /\ ~past.foreign[s] =>
            OwnOK(editor[s], call'[s], page)
  PROVE  Alone'
BY DEF AInv, Alone, Slot

LEMMA AloneRefuse ==
  ASSUME AInv, NEW s \in Slot, Refuse(s), UNCHANGED <<kind, editor>>,
         s \in Editor /\ kind = "page" => past.foreign[s]
  PROVE  Alone'
<1>1. UNCHANGED <<page, past>> /\ \A r \in Slot \ {s} : call'[r] = call[r]
  BY DEF AInv, TypeOK, Refuse, Reply
<1> QED BY <1>1, AloneCall

LEMMA AloneServe ==
  ASSUME AInv, NEW s \in Slot,
         UpdateDraft(s) \/ UpdatePage(s) \/ Reread(s) \/ StoreMerged(s)
  PROVE  Alone'
<1>0. UNCHANGED <<kind, editor>>
  BY DEF UpdateDraft, UpdatePage, Reread, StoreMerged
<1>1. s \in Editor /\ kind = "page" /\ ~past.foreign[s] => OwnOK(editor[s], call[s], page)
  BY DEF AInv, Alone
<1>2. CASE UpdateDraft(s)
  BY <1>0, <1>2, AloneStore, AloneRefuse DEF UpdateDraft
<1>3. CASE UpdatePage(s)
  <2>1. CASE call' = [call EXCEPT ![s] = [@ EXCEPT !.phase = "reread"]]
             /\ UNCHANGED <<page, past>>
    <3>1. call[s] \in Request /\ call[s].phase = "sent"
      BY <1>3, CallFields DEF AInv, TypeOK, UpdatePage
    <3>2. call'[s] = [call[s] EXCEPT !.phase = "reread"]
          /\ \A r \in Slot \ {s} : call'[r] = call[r]
      BY <2>1 DEF AInv, TypeOK
    <3>3. OwnOK(editor[s], call[s], page) => OwnOK(editor[s], call'[s], page)
      BY <3>1, <3>2 DEF OwnOK, Request
    <3> QED BY <1>0, <1>1, <2>1, <3>2, <3>3, AloneCall
  <2>2. CASE ~page.live /\ Refuse(s)
    BY <1>0, <1>1, <2>2, AloneRefuse DEF OwnOK, AInv, TypeOK
  <2> QED BY <1>0, <1>3, <2>1, <2>2, AloneStore DEF UpdatePage
<1>4. CASE Reread(s)
  <2>0. call[s] \in Request /\ call[s].phase = "reread" /\ page \in Row
    BY <1>4, CallFields DEF AInv, TypeOK, Reread
  <2>1. CASE Mergeable(s)
    <3>1. /\ UNCHANGED <<page, past>>
          /\ call'[s] = [call[s] EXCEPT !.phase = "merged",
                           !.doc = Merge(call[s].base, call[s].next, page.doc),
                           !.version = page.version]
          /\ \A r \in Slot \ {s} : call'[r] = call[r]
      BY <1>4, <2>1 DEF AInv, TypeOK, Reread
    <3>2. OwnOK(editor[s], call[s], page) => OwnOK(editor[s], call'[s], page)
      <4> SUFFICES ASSUME OwnOK(editor[s], call[s], page)
                   PROVE  OwnOK(editor[s], call'[s], page)
        OBVIOUS
      <4>1. Merge(call[s].base, call[s].next, page.doc) = call[s].next
        <5>1. call[s].base = page.doc /\ call[s].next \in Document
          BY <2>0 DEF OwnOK, Request
        <5> QED BY <5>1 DEF Merge, Document
      <4> HIDE DEF Merge
      <4>2. /\ call'[s].phase = "merged" /\ call'[s].doc = call[s].next
            /\ call'[s].next = call[s].next /\ call'[s].base = call[s].base
            /\ call'[s].version = page.version
            /\ call'[s].generation = call[s].generation
        BY <2>0, <3>1, <4>1 DEF Request
      <4> QED BY <2>0, <4>2 DEF OwnOK
    <3> QED BY <1>0, <1>1, <3>1, <3>2, AloneCall
  <2>2. CASE ~Mergeable(s) /\ Refuse(s)
    <3>1. OwnOK(editor[s], call[s], page) => Mergeable(s)
      BY <2>0 DEF OwnOK, Mergeable, MergesCleanly
    <3> QED BY <1>0, <1>1, <2>2, <3>1, AloneRefuse DEF AInv, TypeOK
  <2> QED BY <1>4, <2>1, <2>2 DEF Reread
<1>5. CASE StoreMerged(s)
  <2>1. call[s].phase = "merged"
    BY <1>5 DEF StoreMerged
  <2>2. CASE ~Current(s) /\ Refuse(s)
    <3>1. OwnOK(editor[s], call[s], page) => Current(s)
      BY <2>1 DEF OwnOK, Current
    <3> QED BY <1>0, <1>1, <2>2, <3>1, AloneRefuse DEF AInv, TypeOK
  <2> QED BY <1>0, <1>5, <2>1, <2>2, AloneStore DEF StoreMerged
<1> QED BY <1>2, <1>3, <1>4, <1>5

(* An editor of a page whose answers all arrived, and whose page nobody else   *)
(* changed, is never shown a conflict, although its version stays behind what  *)
(* it stored while it typed (updateWikiPage merges its saves with themselves). *)
THEOREM NoConflictWithItself == Spec => []PageSaveNeverConflictsWithItself
<1>1. Init => AInv
  <2> SUFFICES ASSUME NEW opened \in Text, NEW earlier \in Text, InitWith(opened, earlier),
                      TypeOK
               PROVE  Alone
    BY InitTypes DEF Init, AInv
  <2> DEFINE doc == [f \in Field |-> opened]
  <2>1. \A c \in Editor : editor[c] = Opened(doc) /\ call[c] = None
    BY DEF InitWith, Slot
  <2>2. page = [doc |-> doc, version |-> 1, generation |-> 0, live |-> TRUE]
    BY DEF InitWith
  <2> HIDE DEF doc
  <2> QED BY <2>1, <2>2, NoRequest DEF Alone, OwnOK, Opened
<1>2. AInv /\ Next => AInv'
  BY NextTypes, AloneStep, AloneSend, AloneAnswered, AloneNeverRefused, AloneLose,
     AloneReset, AloneServe DEF AInv, Next
<1>3. AInv /\ UNCHANGED vars => AInv'
  <2> SUFFICES ASSUME AInv, UNCHANGED vars PROVE AInv'
    OBVIOUS
  <2>1. UNCHANGED <<kind, page, editor, call, spent, past>>
    BY DEF vars
  <2> QED BY <2>1 DEF AInv, Alone, TypeOK
<1>4. AInv => PageSaveNeverConflictsWithItself
  BY DEF AInv, Alone, OwnOK, PageSaveNeverConflictsWithItself, SaveNeverConflictsWithItself
<1> QED BY <1>1, <1>2, <1>3, <1>4, PTL DEF Spec

=============================================================================
