-------------------------- MODULE WikiHistoryProofs --------------------------
(***************************************************************************)
(* Proofs about WikiHistory, for every number of authors and calls, every   *)
(* length of a sitting, and every bound.                                    *)
(***************************************************************************)
EXTENDS WikiHistory, FiniteSetTheorems, TLAPS

(***************************************************************************)
(* The inductive invariant.                                                 *)
(***************************************************************************)
IsLatest(r) == r \in revisions /\ \A q \in revisions : q.at <= r.at

Typed ==
  /\ clock \in Nat
  /\ page \in [version : Nat, generation : Nat, live : BOOLEAN, text : Nat,
               updatedBy : Author \cup {Nobody}, updatedAt : Nat, kind : Kind]
  /\ page.updatedAt <= clock
  /\ revisions \subseteq Revision
  /\ draft \in [version : Nat, text : Nat]
  /\ worker \in [Worker -> Call]
  /\ texts \in 0..MaxTexts
  /\ kept \subseteq [text : Nat, kind : Kind]
  /\ overtaken \in BOOLEAN

\* Texts are numbered as they are written; a page has a first revision, and
\* its newest one.
Rows ==
  /\ page.live => Exists
  /\ Exists <=> revisions # {}
  /\ revisions # {} => \E r \in revisions : IsLatest(r)
  /\ page.text <= texts /\ draft.text <= texts
  /\ \A r \in revisions : r.text <= texts
  /\ \A k \in kept : k.text <= texts
  /\ page.kind = "edit" => [text |-> page.text, kind |-> "edit"] \notin kept

Dates ==
  /\ \A r \in revisions : r.at <= clock
  /\ \A r, q \in revisions : q.at = r.at => q = r
  /\ \A r, q \in revisions : r.kind = "create" => r.at <= q.at

\* The newest revision is of the page's sitting, and what gave way is there.
Told ==
  ~overtaken =>
    /\ \A r \in revisions : IsLatest(r) =>
         /\ r.text = page.text /\ r.by = page.updatedBy /\ r.kind = page.kind
         /\ r.at <= page.updatedAt
    /\ \A k \in kept : InHistory(k)

\* A call c that finds page p with revisions R, n texts and kept texts K at
\* time now: its transaction has a date of its own, later than all it may
\* have read, and what it is to write has not been written.
CallOK(c, now, p, R, n, K) ==
  /\ c.step # "idle" => c.by \in Author
  /\ c.started <= now /\ c.text <= n
  /\ c.step \in {"write", "insert"} => \A r \in R : r.at # c.started
  /\ c.op \in {"save", "rollback"} => p.version > 0
  /\ c.op \in {"save", "rollback"} /\ c.step = "write" =>
       \A r \in R : r.kind = "create" => r.at < c.started
  /\ c.op = "save" =>
       /\ c.base <= p.version
       /\ [text |-> c.text, kind |-> "edit"] \notin K
       /\ p.kind = "edit" => p.text # c.text
  /\ c.op = "save" /\ c.step = "write" /\ c.base = p.version =>
       \A r \in R : r.at < c.started

Apart(c, d) ==
  /\ {c.step, d.step} \subseteq {"write", "insert"} => c.started # d.started
  /\ c.op = "save" /\ d.op = "save" => c.text # d.text

Calls ==
  \A w \in Worker :
    /\ CallOK(worker[w], clock, page, revisions, texts, kept)
    /\ \A u \in Worker \ {w} : Apart(worker[w], worker[u])

IInv == Typed /\ Rows /\ Dates /\ Told /\ Calls

-----------------------------------------------------------------------------
LEMMA Idles ==
  /\ Idle \in Call /\ Idle.step = "idle" /\ Idle.op = "none"
  /\ Idle.started = 0 /\ Idle.text = 0
BY DEF Idle, Call

LEMMA Started ==
  ASSUME NEW c \in Call, NEW n \in Nat
  PROVE  LET d == [c EXCEPT !.started = n, !.step = "write"] IN
         /\ d \in Call /\ d.step = "write" /\ d.started = n
         /\ d.op = c.op /\ d.by = c.by /\ d.text = c.text /\ d.base = c.base
BY DEF Call

LEMMA DraftCall ==
  ASSUME NEW v \in Nat, NEW n \in Nat
  PROVE  LET d == [Idle EXCEPT !.op = "draft", !.step = "save", !.by = Owner,
                               !.base = v, !.text = n] IN
         /\ d \in Call /\ d.op = "draft" /\ d.step = "save" /\ d.by = Owner
         /\ d.text = n /\ d.started = 0
<1>1. \A c \in Call : LET d == [c EXCEPT !.op = "draft", !.step = "save"] IN
        d \in Call /\ d.op = "draft" /\ d.step = "save" /\ d.started = c.started
  BY DEF Call
<1>2. \A c \in Call : LET d == [c EXCEPT !.by = Owner, !.base = v, !.text = n] IN
        d \in Call /\ d.op = c.op /\ d.step = c.step /\ d.started = c.started
        /\ d.by = Owner /\ d.text = n
  BY AuthorAssumption DEF Call
<1> QED BY <1>1, <1>2, Idles

LEMMA Bounds == MaxTexts \in Nat /\ MaxClock \in Nat /\ Window \in Nat
BY BoundAssumption

LEMMA Authors == Owner \in Author /\ Nobody \notin Author
BY AuthorAssumption

\* The newest revision is the one that is chosen.
LEMMA Latest ==
  ASSUME Rows, revisions # {}
  PROVE  IsLatest(LatestRevision)
<1>1. \E r \in revisions : \A q \in revisions : q.at <= r.at
  BY DEF Rows, IsLatest
<1> QED BY <1>1 DEF LatestRevision, IsLatest

LEMMA TypeParts == IInv => TypeOK
<1> SUFFICES ASSUME IInv PROVE TypeOK OBVIOUS
<1>1. page \in [version : Nat, generation : Nat, live : BOOLEAN, text : Nat,
                updatedBy : Author \cup {Nobody}, updatedAt : Nat, kind : Kind]
  BY DEF IInv, Typed
<1> QED BY <1>1 DEF IInv, Typed, TypeOK

-----------------------------------------------------------------------------
(* What happens to the calls. *)

\* Worker w goes on as call c, and the page and its history are as before, or
\* the page has another version of the same text.
LEMMA OneCall ==
  ASSUME IInv, NEW w \in Worker, NEW c \in Call, worker' = [worker EXCEPT ![w] = c],
         UNCHANGED <<page, revisions, kept>>,
         clock' \in Nat, clock' >= clock, texts' \in Nat, texts' >= texts,
         CallOK(c, clock', page, revisions, texts', kept),
         \A u \in Worker \ {w} : Apart(c, worker[u])
  PROVE  Calls'
<1>1. ASSUME NEW u \in Worker, u # w
      PROVE  CallOK(worker[u], clock', page, revisions, texts', kept)
  <2>1. worker[u] \in Call /\ CallOK(worker[u], clock, page, revisions, texts, kept)
    BY DEF IInv, Typed, Calls
  <2>2. worker[u].started <= clock' /\ worker[u].text <= texts'
    BY <2>1 DEF IInv, Typed, Call, CallOK
  <2> QED BY <2>1, <2>2 DEF CallOK
<1>2. \A u \in Worker : worker'[u] = IF u = w THEN c ELSE worker[u]
  BY DEF IInv, Typed
<1>3. \A u, v \in Worker : u # v => Apart(worker'[u], worker'[v])
  BY <1>2 DEF IInv, Calls, Apart
<1>4. \A u \in Worker : CallOK(worker'[u], clock', page', revisions', texts', kept')
  BY <1>1, <1>2
<1> QED BY <1>3, <1>4 DEF Calls

\* Nothing but the clock moves, or the version of the page.
LEMMA NoCall ==
  ASSUME IInv, UNCHANGED <<revisions, kept, worker, texts>>,
         clock' \in Nat, clock' >= clock,
         page'.text = page.text, page'.kind = page.kind,
         page'.version = page.version \/ (Exists /\ page'.version = page.version + 1)
  PROVE  Calls'
<1> SUFFICES ASSUME NEW u \in Worker
             PROVE  CallOK(worker[u], clock', page', revisions, texts, kept)
  BY DEF IInv, Calls
<1>1. worker[u] \in Call /\ CallOK(worker[u], clock, page, revisions, texts, kept)
  BY DEF IInv, Typed, Calls
<1>2. worker[u].started <= clock' /\ page.version \in Nat /\ worker[u].base \in Nat
  BY <1>1 DEF IInv, Typed, Call, CallOK
<1> QED BY <1>1, <1>2 DEF CallOK, Exists

LEMMA Ended ==
  ASSUME IInv, NEW w \in Worker, End(w), UNCHANGED <<page, revisions, kept, texts>>,
         clock' \in Nat, clock' >= clock
  PROVE  Calls'
<1>1. CallOK(Idle, clock', page, revisions, texts', kept)
  BY Idles DEF CallOK, IInv, Typed
<1>2. \A u \in Worker \ {w} : Apart(Idle, worker[u])
  BY Idles DEF Apart
<1>3. texts' \in Nat /\ texts' >= texts
  BY Bounds DEF IInv, Typed
<1> HIDE DEF IInv, Calls, Apart, CallOK
<1> QED BY <1>1, <1>2, <1>3, Idles, OneCall DEF End

\* A step that leaves the page and its history as they are.
LEMMA Quiet ==
  ASSUME IInv, UNCHANGED <<page, revisions, kept, overtaken>>, Calls',
         clock' \in Nat, clock' >= clock, texts' \in 0..MaxTexts, texts' >= texts,
         draft' \in [version : Nat, text : Nat], draft'.text <= texts',
         worker' \in [Worker -> Call]
  PROVE  IInv'
<1>1. Typed'
  <2>1. page.updatedAt \in Nat /\ page.updatedAt <= clock /\ clock \in Nat
    BY DEF IInv, Typed
  <2>2. page.updatedAt <= clock'
    BY <2>1
  <2> QED BY <2>2 DEF IInv, Typed
<1>2. Rows'
  <2>1. texts \in Nat /\ texts' \in Nat
    BY Bounds DEF IInv, Typed
  <2>2. page.text \in Nat /\ (\A r \in revisions : r.text \in Nat) /\ \A k \in kept : k.text \in Nat
    BY DEF IInv, Typed, Revision
  <2>3. (\A r \in revisions : r.text <= texts') /\ (\A k \in kept : k.text <= texts')
    BY <2>1, <2>2 DEF IInv, Rows
  <2>4. page.text <= texts'
    BY <2>1, <2>2 DEF IInv, Rows
  <2> QED BY <2>3, <2>4 DEF IInv, Rows, Exists, IsLatest
<1>3. Dates'
  <2>1. \A r \in revisions : r.at \in Nat /\ r.at <= clock
    BY DEF IInv, Typed, Revision, Dates
  <2>2. \A r \in revisions : r.at <= clock'
    BY <2>1 DEF IInv, Typed
  <2> QED BY <2>2 DEF IInv, Dates
<1>4. Told'
  BY DEF IInv, Told, IsLatest, InHistory
<1> QED BY <1>1, <1>2, <1>3, <1>4 DEF IInv

-----------------------------------------------------------------------------
(* The steps that write nothing to the page. *)

\* A call begins, ends or goes on, and the draft stays.
LEMMA CallStep ==
  ASSUME IInv, NEW w \in Worker, NEW c \in Call, worker' = [worker EXCEPT ![w] = c],
         UNCHANGED <<page, revisions, kept, draft, overtaken>>,
         clock' \in Nat, clock' >= clock, texts' \in 0..MaxTexts, texts' >= texts,
         CallOK(c, clock', page, revisions, texts', kept),
         \A u \in Worker \ {w} : Apart(c, worker[u])
  PROVE  IInv'
<1>1. texts \in Nat /\ texts' \in Nat
  BY Bounds DEF IInv, Typed
<1>2. Calls'
  BY <1>1, OneCall
<1>3. draft' \in [version : Nat, text : Nat] /\ draft'.text <= texts'
  <2>1. draft \in [version : Nat, text : Nat] /\ draft.text <= texts
    BY DEF IInv, Typed, Rows
  <2> QED BY <1>1, <2>1
<1>4. worker' \in [Worker -> Call]
  BY DEF IInv, Typed
<1> QED BY <1>2, <1>3, <1>4, Quiet

LEMMA Stops ==
  ASSUME IInv, NEW w \in Worker, End(w),
         UNCHANGED <<page, revisions, kept, draft, texts, overtaken>>,
         clock' \in Nat, clock' >= clock
  PROVE  IInv'
<1>1. CallOK(Idle, clock', page, revisions, texts', kept)
  BY Idles DEF CallOK, IInv, Typed
<1>2. \A u \in Worker \ {w} : Apart(Idle, worker[u])
  BY Idles DEF Apart
<1>3. texts' \in 0..MaxTexts /\ texts' >= texts
  BY Bounds DEF IInv, Typed
<1> HIDE DEF IInv, CallOK, Apart
<1> QED BY <1>1, <1>2, <1>3, Idles, CallStep DEF End

LEMMA BeginTransactionStep ==
  ASSUME IInv, NEW w \in Worker, BeginTransaction(w)
  PROVE  IInv'
<1> DEFINE c == worker[w]
           d == [c EXCEPT !.started = clock + 1, !.step = "write"]
<1>1. c \in Call /\ CallOK(c, clock, page, revisions, texts, kept) /\ clock \in Nat
  BY DEF IInv, Typed, Calls
<1>2. d \in Call /\ d.step = "write" /\ d.started = clock + 1 /\ d.op = c.op /\ d.by = c.by
      /\ d.text = c.text /\ d.base = c.base
  <2>1. clock + 1 \in Nat
    BY <1>1
  <2> HIDE DEF c
  <2> QED BY <1>1, <2>1, Started
<1>3. \A r \in revisions : r.at \in Nat /\ r.at < clock + 1
  BY <1>1 DEF IInv, Dates, Typed, Revision
<1>4. CallOK(d, clock + 1, page, revisions, texts, kept)
  BY <1>1, <1>2, <1>3 DEF CallOK, BeginTransaction
<1>5. \A u \in Worker \ {w} : Apart(d, worker[u])
  <2> SUFFICES ASSUME NEW u \in Worker, u # w PROVE Apart(d, worker[u])
    OBVIOUS
  <2>1. worker[u] \in Call /\ worker[u].started <= clock /\ Apart(c, worker[u])
    BY DEF IInv, Typed, Calls, CallOK
  <2>2. worker[u].started # clock + 1
    BY <1>1, <2>1 DEF Call
  <2> QED BY <1>2, <2>1, <2>2 DEF Apart
<1>6. worker' = [worker EXCEPT ![w] = d] /\ clock' = clock + 1
  BY DEF BeginTransaction, IInv, Typed
<1>7. texts' \in 0..MaxTexts /\ texts' >= texts
  BY Bounds DEF IInv, Typed, BeginTransaction
<1>8. UNCHANGED <<page, revisions, kept, draft, texts, overtaken>>
  BY DEF BeginTransaction
<1> HIDE DEF c, d
<1>9. clock' \in Nat /\ clock' >= clock
  BY <1>1, <1>6
<1> QED BY <1>2, <1>4, <1>5, <1>6, <1>7, <1>8, <1>9, CallStep

LEMMA BeginSaveDraftStep ==
  ASSUME IInv, NEW w \in Worker, BeginSaveDraft(w)
  PROVE  IInv'
<1> DEFINE d == [Idle EXCEPT !.op = "draft", !.step = "save", !.by = Owner,
                             !.base = draft.version, !.text = texts']
<1>1. texts \in Nat /\ texts < MaxTexts /\ texts' = texts + 1 /\ draft.version \in Nat
  BY Bounds DEF IInv, Typed, BeginSaveDraft, NewText
<1>2. /\ d \in Call /\ d.op = "draft" /\ d.step = "save" /\ d.by = Owner
      /\ d.text = texts' /\ d.started = 0
  <2>1. texts' \in Nat
    BY <1>1
  <2> QED BY <1>1, <2>1, DraftCall
<1> HIDE DEF d
<1>3. CallOK(d, clock', page, revisions, texts', kept)
  BY <1>1, <1>2, Authors DEF CallOK, BeginSaveDraft, IInv, Typed
<1>4. \A u \in Worker \ {w} : Apart(d, worker[u])
  BY <1>2 DEF Apart
<1>5. worker' = [worker EXCEPT ![w] = d] /\ UNCHANGED <<page, revisions, kept, draft, overtaken>>
  BY DEF BeginSaveDraft, Begin, d
<1>6. clock' \in Nat /\ clock' >= clock
  BY DEF BeginSaveDraft, IInv, Typed
<1>7. texts' \in 0..MaxTexts /\ texts' >= texts
  BY <1>1, Bounds
<1> QED BY <1>2, <1>3, <1>4, <1>5, <1>6, <1>7, CallStep

LEMMA SaveDraftStep ==
  ASSUME IInv, NEW w \in Worker, SaveDraft(w)
  PROVE  IInv'
<1> DEFINE c == worker[w]
<1>1. c \in Call /\ c.text <= texts /\ texts \in Nat
  <2>1. CallOK(c, clock, page, revisions, texts, kept)
    BY DEF IInv, Calls
  <2> QED BY <2>1, Bounds DEF IInv, Typed, CallOK
<1>2. draft' \in [version : Nat, text : Nat] /\ draft'.text <= texts
  <2>1. draft' = draft \/ draft' = [version |-> c.base + 1, text |-> c.text]
    BY DEF SaveDraft
  <2>2. c.base \in Nat /\ c.text \in Nat
    BY <1>1 DEF Call
  <2> QED BY <1>1, <2>1, <2>2 DEF IInv, Typed, Rows
<1>3. Calls'
  BY Ended DEF SaveDraft, IInv, Typed
<1>4. worker' \in [Worker -> Call]
  BY Idles DEF IInv, Typed, SaveDraft, End
<1> QED BY <1>2, <1>3, <1>4, Quiet, Bounds DEF SaveDraft, IInv, Typed

LEMMA DraftSteps ==
  ASSUME IInv, CreateDraft \/ DeleteDraft
  PROVE  IInv'
<1>1. draft' \in [version : Nat, text : Nat] /\ draft'.text <= texts'
  BY Bounds DEF CreateDraft, DeleteDraft, NoDraft, IInv, Typed
<1>2. Calls'
  BY NoCall DEF CreateDraft, DeleteDraft, IInv, Typed
<1> QED BY <1>1, <1>2, Quiet, Bounds DEF CreateDraft, DeleteDraft, IInv, Typed

LEMMA PauseStep ==
  ASSUME IInv, Pause
  PROVE  IInv'
<1>1. clock' \in Nat /\ clock' >= clock
  BY Bounds DEF Pause, IInv, Typed
<1>2. Calls'
  BY <1>1, NoCall DEF Pause
<1>3. draft' \in [version : Nat, text : Nat] /\ draft'.text <= texts'
  BY DEF Pause, IInv, Typed, Rows
<1> QED BY <1>1, <1>2, <1>3, Quiet, Bounds DEF Pause, IInv, Typed

LEMMA BeginPublishStep ==
  ASSUME IInv, NEW w \in Worker, BeginPublish(w)
  PROVE  IInv'
<1> DEFINE d == [Idle EXCEPT !.op = "publish", !.step = "begin", !.by = Owner]
<1>1. /\ d \in Call /\ d.op = "publish" /\ d.step = "begin" /\ d.by = Owner
      /\ d.text = 0 /\ d.started = 0
  BY Authors DEF Idle, Call
<1> HIDE DEF d
<1>2. CallOK(d, clock', page, revisions, texts', kept)
  BY <1>1, Authors, Bounds DEF CallOK, BeginPublish, IInv, Typed
<1>3. \A u \in Worker \ {w} : Apart(d, worker[u])
  BY <1>1 DEF Apart
<1>4. worker' = [worker EXCEPT ![w] = d] /\ UNCHANGED <<page, revisions, kept, draft, overtaken>>
  BY DEF BeginPublish, Begin, d
<1>5. clock' \in Nat /\ clock' >= clock /\ texts' \in 0..MaxTexts /\ texts' >= texts
  BY Bounds DEF BeginPublish, IInv, Typed
<1> QED BY <1>1, <1>2, <1>3, <1>4, <1>5, CallStep

LEMMA ReadDraftStep ==
  ASSUME IInv, NEW w \in Worker, ReadDraft(w)
  PROVE  IInv'
<1> DEFINE c == worker[w]
           d == [c EXCEPT !.text = draft.text, !.step = "insert"]
<1>1. CASE End(w)
  BY <1>1, Stops DEF ReadDraft, IInv, Typed
<1>2. CASE worker' = [worker EXCEPT ![w].text = draft.text, ![w].step = "insert"]
  <2>1. /\ c \in Call /\ CallOK(c, clock, page, revisions, texts, kept)
        /\ c.op = "publish" /\ c.step = "write"
        /\ draft.text \in Nat /\ draft.text <= texts
    BY DEF IInv, Typed, Calls, ReadDraft, At, Rows
  <2>2. worker' = [worker EXCEPT ![w] = d]
    BY <1>2 DEF IInv, Typed
  <2> HIDE DEF c
  <2>3. d \in Call /\ d.step = "insert" /\ d.started = c.started /\ d.op = c.op /\ d.by = c.by
        /\ d.text = draft.text
    BY <2>1 DEF Call
  <2> HIDE DEF d
  <2>4. CallOK(d, clock, page, revisions, texts, kept)
    BY <2>1, <2>3 DEF CallOK
  <2>5. \A u \in Worker \ {w} : Apart(d, worker[u])
    BY <2>1, <2>3 DEF Apart, IInv, Calls, c
  <2>6. UNCHANGED <<clock, texts, page, revisions, kept, draft, overtaken>>
    BY DEF ReadDraft
  <2>7. clock' \in Nat /\ clock' >= clock /\ texts' \in 0..MaxTexts /\ texts' >= texts
    BY <2>6, Bounds DEF IInv, Typed
  <2> QED BY <2>2, <2>3, <2>4, <2>5, <2>6, <2>7, CallStep
<1> QED BY <1>1, <1>2 DEF ReadDraft

LEMMA BeginSaveStep ==
  ASSUME IInv, NEW w \in Worker, NEW a \in Author, BeginSave(w, a)
  PROVE  IInv'
<1> DEFINE d == [Idle EXCEPT !.op = "save", !.step = "begin", !.by = a, !.text = texts',
                             !.base = page.version, !.generation = page.generation]
<1>1. /\ texts \in Nat /\ texts < MaxTexts /\ texts' = texts + 1
      /\ page.version \in Nat /\ page.generation \in Nat /\ page.text \in Nat
  BY Bounds DEF IInv, Typed, BeginSave, NewText
<1>2. /\ d \in Call /\ d.op = "save" /\ d.step = "begin" /\ d.by = a
      /\ d.text = texts' /\ d.started = 0 /\ d.base = page.version
  <2> DEFINE d1 == [Idle EXCEPT !.op = "save", !.step = "begin"]
             d2 == [d1 EXCEPT !.by = a, !.text = texts']
             d3 == [d2 EXCEPT !.base = page.version, !.generation = page.generation]
  <2>1. d1 \in Call /\ d1.op = "save" /\ d1.step = "begin" /\ d1.started = 0
    BY DEF Idle, Call
  <2> HIDE DEF d1
  <2>2. texts' \in Nat
    BY <1>1
  <2>3. /\ d2 \in Call /\ d2.op = "save" /\ d2.step = "begin" /\ d2.started = 0
        /\ d2.by = a /\ d2.text = texts'
    BY <2>1, <2>2 DEF Call
  <2> HIDE DEF d2
  <2>4. /\ d3 \in Call /\ d3.op = "save" /\ d3.step = "begin" /\ d3.started = 0
        /\ d3.by = a /\ d3.text = texts' /\ d3.base = page.version
    BY <1>1, <2>3 DEF Call
  <2> HIDE DEF d3
  <2>5. d3 = d
    BY Zenon DEF d1, d2, d3
  <2> QED BY <2>4, <2>5, Zenon
<1> HIDE DEF d
<1>3. /\ page.version > 0
      /\ [text |-> d.text, kind |-> "edit"] \notin kept
      /\ page.text # d.text
  BY <1>1, <1>2 DEF IInv, Rows, Exists, BeginSave
<1>4. CallOK(d, clock', page, revisions, texts', kept)
  BY <1>1, <1>2, <1>3 DEF CallOK, BeginSave, IInv, Typed
<1>5. \A u \in Worker \ {w} : Apart(d, worker[u])
  <2> SUFFICES ASSUME NEW u \in Worker, u # w PROVE Apart(d, worker[u])
    OBVIOUS
  <2>1. worker[u] \in Call /\ worker[u].text <= texts
    BY DEF IInv, Typed, Calls, CallOK
  <2>2. worker[u].text # texts'
    BY <1>1, <2>1 DEF Call
  <2> QED BY <1>2, <2>2 DEF Apart
<1>6. worker' = [worker EXCEPT ![w] = d] /\ UNCHANGED <<page, revisions, kept, draft, overtaken>>
  BY DEF BeginSave, Begin, d
<1>7. clock' \in Nat /\ clock' >= clock
  BY DEF BeginSave, IInv, Typed
<1>8. texts' \in 0..MaxTexts /\ texts' >= texts
  BY <1>1, Bounds
<1> QED BY <1>2, <1>4, <1>5, <1>6, <1>7, <1>8, CallStep

LEMMA MergeStep ==
  ASSUME IInv, NEW w \in Worker, Merge(w)
  PROVE  IInv'
<1> DEFINE c == worker[w]
           d1 == [c EXCEPT !.base = page.version, !.text = texts']
           d == [d1 EXCEPT !.retry = TRUE, !.step = "begin"]
<1>1. CASE End(w) /\ UNCHANGED texts
  BY <1>1, Stops DEF Merge, IInv, Typed
<1>2. CASE /\ page.live /\ NewText
           /\ worker' = [worker EXCEPT ![w].base = page.version, ![w].text = texts',
                                       ![w].retry = TRUE, ![w].step = "begin"]
  <2>1. /\ texts \in Nat /\ texts < MaxTexts /\ texts' = texts + 1 /\ texts' \in Nat
        /\ page.version \in Nat /\ page.text \in Nat
    BY <1>2, Bounds DEF IInv, Typed, NewText
  <2>2. c \in Call /\ CallOK(c, clock, page, revisions, texts, kept) /\ c.op = "save"
        /\ c.step = "reread"
    BY DEF IInv, Typed, Calls, Merge, At
  <2>3. worker' = [worker EXCEPT ![w] = d]
    BY <1>2 DEF IInv, Typed
  <2> HIDE DEF c
  <2>4. d1 \in Call /\ d1.op = "save" /\ d1.by = c.by /\ d1.text = texts'
        /\ d1.base = page.version /\ d1.started = c.started
    BY <2>1, <2>2 DEF Call
  <2> HIDE DEF d1
  <2>5. d \in Call /\ d.op = "save" /\ d.by = c.by /\ d.text = texts' /\ d.step = "begin"
        /\ d.base = page.version /\ d.started = c.started
    BY <2>4 DEF Call
  <2> HIDE DEF d
  <2>6. /\ page.version > 0
        /\ [text |-> d.text, kind |-> "edit"] \notin kept
        /\ page.text # d.text
    BY <1>2, <2>1, <2>5 DEF IInv, Rows, Exists
  <2>7. CallOK(d, clock, page, revisions, texts', kept)
    BY <2>1, <2>2, <2>5, <2>6 DEF CallOK
  <2>8. \A u \in Worker \ {w} : Apart(d, worker[u])
    <3> SUFFICES ASSUME NEW u \in Worker, u # w PROVE Apart(d, worker[u])
      OBVIOUS
    <3>1. worker[u] \in Call /\ worker[u].text <= texts
      BY DEF IInv, Typed, Calls, CallOK
    <3>2. worker[u].text # texts'
      BY <2>1, <3>1 DEF Call
    <3> QED BY <2>5, <3>2 DEF Apart
  <2>9. UNCHANGED <<clock, page, revisions, kept, draft, overtaken>>
    BY DEF Merge
  <2>10. clock' \in Nat /\ clock' >= clock /\ texts' \in 0..MaxTexts /\ texts' >= texts
    BY <2>1, <2>9, Bounds DEF IInv, Typed
  <2> QED BY <2>3, <2>5, <2>7, <2>8, <2>9, <2>10, CallStep
<1> QED BY <1>1, <1>2 DEF Merge

LEMMA BeginRollbackStep ==
  ASSUME IInv, NEW w \in Worker, NEW a \in Author, NEW r \in revisions, BeginRollback(w, a, r)
  PROVE  IInv'
<1> DEFINE d1 == [Idle EXCEPT !.op = "rollback", !.step = "begin"]
           d == [d1 EXCEPT !.by = a, !.text = r.text]
<1>1. r.text \in Nat /\ r.text <= texts /\ page.version > 0
  BY DEF IInv, Typed, Revision, Rows, Exists
<1>2. worker' = [worker EXCEPT ![w] = d]
  BY DEF BeginRollback, Begin
<1>3. d1 \in Call /\ d1.op = "rollback" /\ d1.step = "begin" /\ d1.started = 0
  BY DEF Idle, Call
<1> HIDE DEF d1
<1>4. d \in Call /\ d.op = "rollback" /\ d.step = "begin" /\ d.started = 0 /\ d.by = a
      /\ d.text = r.text
  BY <1>1, <1>3 DEF Call
<1> HIDE DEF d
<1>5. UNCHANGED <<clock, texts, page, revisions, kept, draft, overtaken>>
  BY DEF BeginRollback
<1>6. CallOK(d, clock, page, revisions, texts, kept)
  BY <1>1, <1>4 DEF CallOK, IInv, Typed
<1>7. \A u \in Worker \ {w} : Apart(d, worker[u])
  BY <1>4 DEF Apart
<1>8. clock' \in Nat /\ clock' >= clock /\ texts' \in 0..MaxTexts /\ texts' >= texts
  BY <1>5, Bounds DEF IInv, Typed
<1> QED BY <1>2, <1>4, <1>5, <1>6, <1>7, <1>8, CallStep

\* The page is deleted or restored: its text and its history stay.
LEMMA SameText ==
  ASSUME IInv, UNCHANGED <<revisions, kept, worker, texts, draft, overtaken>>,
         clock' \in Nat, clock' >= clock, Exists,
         NEW l \in BOOLEAN, NEW g \in Nat,
         page' = [page EXCEPT !.live = l, !.version = @ + 1, !.generation = g]
  PROVE  IInv'
<1>1. page \in [version : Nat, generation : Nat, live : BOOLEAN, text : Nat,
                updatedBy : Author \cup {Nobody}, updatedAt : Nat, kind : Kind]
      /\ clock \in Nat /\ page.updatedAt <= clock
  BY DEF IInv, Typed
<1>2. /\ page' \in [version : Nat, generation : Nat, live : BOOLEAN, text : Nat,
                     updatedBy : Author \cup {Nobody}, updatedAt : Nat, kind : Kind]
      /\ page'.version = page.version + 1 /\ page'.text = page.text
      /\ page'.kind = page.kind /\ page'.updatedBy = page.updatedBy
      /\ page'.updatedAt = page.updatedAt
  <2> DEFINE p1 == [page EXCEPT !.live = l, !.version = page.version + 1]
             p2 == [p1 EXCEPT !.generation = g]
  <2>1. page.version + 1 \in Nat
    BY <1>1
  <2>2. /\ p1 \in [version : Nat, generation : Nat, live : BOOLEAN, text : Nat,
                    updatedBy : Author \cup {Nobody}, updatedAt : Nat, kind : Kind]
        /\ p1.version = page.version + 1 /\ p1.text = page.text
        /\ p1.kind = page.kind /\ p1.updatedBy = page.updatedBy
        /\ p1.updatedAt = page.updatedAt
    BY <1>1, <2>1
  <2>3. page' = p2
    BY Zenon
  <2> HIDE DEF p1
  <2> QED BY <2>2, <2>3
<1>3. Typed'
  BY <1>1, <1>2 DEF IInv, Typed
<1>4. Rows'
  BY <1>1, <1>2 DEF IInv, Rows, Exists, IsLatest
<1>5. Dates'
  BY <1>1 DEF IInv, Dates, Typed, Revision
<1>6. Told'
  BY <1>2 DEF IInv, Told, IsLatest, InHistory
<1>7. Calls'
  BY <1>2, NoCall
<1> QED BY <1>3, <1>4, <1>5, <1>6, <1>7 DEF IInv

LEMMA PageSteps ==
  ASSUME IInv, DeletePage \/ RestorePage
  PROVE  IInv'
<1>1. page.version \in Nat /\ page.generation \in Nat /\ clock \in Nat
  BY DEF IInv, Typed
<1>2. page \in [version : Nat, generation : Nat, live : BOOLEAN, text : Nat,
                updatedBy : Author \cup {Nobody}, updatedAt : Nat, kind : Kind]
  BY DEF IInv, Typed
<1>3. CASE DeletePage
  <2>1. page' = [page EXCEPT !.live = FALSE, !.version = @ + 1, !.generation = page.generation + 1]
    BY <1>2, <1>3 DEF DeletePage
  <2>2. Exists /\ clock' \in Nat /\ clock' >= clock /\ page.generation + 1 \in Nat
    BY <1>1, <1>3 DEF DeletePage, IInv, Rows
  <2> QED BY <1>3, <2>1, <2>2, SameText DEF DeletePage
<1>4. CASE RestorePage
  <2>1. page' = [page EXCEPT !.live = TRUE, !.version = @ + 1, !.generation = page.generation]
    BY <1>2, <1>4 DEF RestorePage
  <2>2. Exists /\ clock' \in Nat /\ clock' >= clock
    BY <1>1, <1>4 DEF RestorePage
  <2> QED BY <1>1, <1>4, <2>1, <2>2, SameText DEF RestorePage
<1> QED BY <1>3, <1>4

-----------------------------------------------------------------------------
(* The steps that write the page. *)

\* Worker w is done; the other calls are right about what it leaves.
LEMMA Others ==
  ASSUME IInv, NEW w \in Worker, End(w), clock' \in Nat, texts' \in Nat,
         \A u \in Worker \ {w} : CallOK(worker[u], clock', page', revisions', texts', kept')
  PROVE  Calls'
<1>1. CallOK(Idle, clock', page', revisions', texts', kept')
  BY Idles DEF CallOK
<1>2. \A u \in Worker : worker'[u] = IF u = w THEN Idle ELSE worker[u]
  BY DEF IInv, Typed, End
<1>3. \A u, v \in Worker : u # v => Apart(worker'[u], worker'[v])
  BY <1>2, Idles DEF IInv, Calls, Apart
<1>4. \A u \in Worker : CallOK(worker'[u], clock', page', revisions', texts', kept')
  BY <1>1, <1>2
<1> QED BY <1>3, <1>4 DEF Calls

\* The call of w writes its text as revision n, beside the revisions R.
LEMMA Written ==
  ASSUME IInv, NEW w \in Worker, End(w), UNCHANGED <<draft, texts>>, clock' = clock + 1,
         revisions # {}, At(w, "save", "write") \/ At(w, "rollback", "write"),
         page' \in [version : Nat, generation : Nat, live : BOOLEAN, text : Nat,
                    updatedBy : Author \cup {Nobody}, updatedAt : Nat, kind : Kind],
         page'.version = page.version + 1, page'.live = page.live,
         page'.text = worker[w].text, page'.updatedBy = worker[w].by,
         page'.updatedAt = clock',
         page'.kind = IF worker[w].op = "save" THEN "edit" ELSE "rollback",
         NEW R \in SUBSET revisions, NEW n \in Revision, revisions' = R \cup {n},
         n.text = worker[w].text, n.by = worker[w].by, n.kind = page'.kind,
         n.at <= clock',
         \A r \in R : r.at # n.at /\ (r.kind = "create" => r.at < n.at),
         R = revisions \/ \A r \in R : r.at < n.at,
         ~overtaken' => ~overtaken /\ \A r \in R : r.at < n.at,
         \A u \in Worker \ {w} :
           worker[u].step \in {"write", "insert"} => n.at # worker[u].started,
         \/ LeavesSitting
         \/ UNCHANGED kept,
         overtaken' \in BOOLEAN,
         ~overtaken' => \A k \in kept' : InHistory(k)'
  PROVE  IInv'
<1> DEFINE c == worker[w]
<1>1. c \in Call /\ CallOK(c, clock, page, revisions, texts, kept)
  BY DEF IInv, Typed, Calls
<1>2. /\ clock \in Nat /\ clock' \in Nat /\ texts \in Nat /\ page.version \in Nat
      /\ page.text \in Nat /\ page.text <= texts /\ page.kind \in Kind
  BY Bounds DEF IInv, Typed, Rows
<1>3. c.op \in {"save", "rollback"} /\ c.step = "write"
  BY DEF At
<1>4. \A r \in revisions : r.at \in Nat /\ r.at <= clock /\ r.text <= texts
  BY DEF IInv, Typed, Revision, Dates, Rows
<1>5. n.at \in Nat
  BY DEF Revision
<1>6. kept' \subseteq kept \cup {[text |-> page.text, kind |-> page.kind]}
  BY DEF LeavesSitting
<1>7. Typed'
  <2>1. kept' \subseteq [text : Nat, kind : Kind]
    BY <1>2, <1>6 DEF IInv, Typed
  <2>2. revisions' \subseteq Revision
    BY DEF IInv, Typed
  <2>3. worker' \in [Worker -> Call]
    BY Idles DEF IInv, Typed, End
  <2> QED BY <1>2, <2>1, <2>2, <2>3 DEF IInv, Typed
<1>8. Rows'
  <2>1. page'.version > 0
    BY <1>2
  <2>2. \E r \in revisions' : IsLatest(r)'
    <3>1. CASE \A r \in R : r.at < n.at
      BY <1>4, <1>5, <3>1 DEF IsLatest
    <3>2. CASE R = revisions /\ \E r \in R : ~(r.at < n.at)
      <4>1. PICK r \in revisions : IsLatest(r)
        BY <3>2 DEF IInv, Rows
      <4>2. n.at <= r.at
        BY <1>4, <1>5, <3>2, <4>1 DEF IsLatest
      <4> QED BY <3>2, <4>1, <4>2 DEF IsLatest
    <3> QED BY <3>1, <3>2
  <2>3. c.text <= texts
    BY <1>1 DEF CallOK
  <2>4. \A k \in kept' : k.text <= texts
    BY <1>2, <1>6 DEF IInv, Rows
  <2>5. page'.kind = "edit" => [text |-> page'.text, kind |-> "edit"] \notin kept'
    BY <1>1, <1>3, <1>6 DEF CallOK
  <2>6. \A r \in revisions' : r.text <= texts
    BY <1>4, <2>3
  <2>7. draft'.text <= texts
    BY DEF IInv, Rows
  <2> QED BY <2>1, <2>2, <2>3, <2>4, <2>5, <2>6, <2>7 DEF Rows, Exists
<1>9. Dates'
  <2>1. \A r \in revisions' : r.at <= clock'
    BY <1>2, <1>4
  <2>2. \A r, q \in revisions' : q.at = r.at => q = r
    BY <1>4, <1>5 DEF IInv, Dates
  <2>3. n.kind # "create"
    OBVIOUS
  <2>4. \A r, q \in revisions' : r.kind = "create" => r.at <= q.at
    BY <1>4, <1>5, <2>3 DEF IInv, Dates
  <2> QED BY <2>1, <2>2, <2>4 DEF Dates
<1>10. Told'
  <2>1. ASSUME ~overtaken', NEW r \in revisions', IsLatest(r)'
        PROVE  r = n
    BY <1>4, <1>5, <2>1 DEF IsLatest
  <2> QED BY <2>1 DEF Told
<1>11. Calls'
  <2>1. ASSUME NEW u \in Worker \ {w}
        PROVE  CallOK(worker[u], clock', page', revisions', texts', kept')
    <3> DEFINE d == worker[u]
    <3>1. d \in Call /\ CallOK(d, clock, page, revisions, texts, kept) /\ Apart(c, d)
      BY DEF IInv, Typed, Calls
    <3>2. d.base \in Nat /\ d.started \in Nat /\ d.started <= clock'
      BY <1>2, <3>1 DEF Call, CallOK
    <3>3. d.step \in {"write", "insert"} => \A r \in revisions' : r.at # d.started
      BY <3>1 DEF CallOK
    <3>4. d.op \in {"save", "rollback"} /\ d.step = "write" =>
            \A r \in revisions' : r.kind = "create" => r.at < d.started
      BY <3>1 DEF CallOK
    <3>5. d.op = "save" => d.base <= page.version
      BY <3>1 DEF CallOK
    <3>6. d.op = "save" => d.base < page'.version
      BY <1>2, <3>2, <3>5
    <3>7. d.op = "save" => /\ [text |-> d.text, kind |-> "edit"] \notin kept'
                           /\ page'.kind = "edit" => page'.text # d.text
      BY <1>3, <1>6, <3>1 DEF CallOK, Apart
    <3>8. page'.version > 0
      BY <1>2
    <3>9. (d.step # "idle" => d.by \in Author) /\ d.text <= texts'
      BY <3>1 DEF CallOK
    <3>10. d.op = "save" => d.base <= page'.version /\ d.base # page'.version
      BY <1>2, <3>2, <3>6
    <3> HIDE DEF d
    <3>11. ~(d.op = "save" /\ d.step = "write" /\ d.base = page'.version)
      BY <3>10
    <3>12. d.op = "save" =>
             /\ d.base <= page'.version
             /\ [text |-> d.text, kind |-> "edit"] \notin kept'
             /\ page'.kind = "edit" => page'.text # d.text
      BY <3>7, <3>10
    <3>13. CallOK(d, clock', page', revisions', texts', kept')
      BY <3>2, <3>3, <3>4, <3>8, <3>9, <3>11, <3>12 DEF CallOK
    <3> QED BY <3>13 DEF d
  <2> QED BY <1>2, <2>1, Others
<1> QED BY <1>7, <1>8, <1>9, <1>10, <1>11 DEF IInv

LEMMA RollbackStep ==
  ASSUME IInv, NEW w \in Worker, Rollback(w)
  PROVE  IInv'
<1> DEFINE c == worker[w]
           n == [text |-> c.text, by |-> c.by, at |-> c.started, kind |-> "rollback"]
<1>1. c \in Call /\ CallOK(c, clock, page, revisions, texts, kept)
      /\ c.op = "rollback" /\ c.step = "write"
  BY DEF IInv, Typed, Calls, Rollback, At
<1>2. c.by \in Author /\ c.text \in Nat /\ c.started \in Nat /\ clock \in Nat
      /\ c.started <= clock /\ page.version > 0
  BY <1>1 DEF Call, CallOK, IInv, Typed
<1>3. revisions # {}
  BY <1>2 DEF IInv, Rows, Exists
<1>4. n \in Revision /\ n.text = c.text /\ n.by = c.by /\ n.at = c.started /\ n.kind = "rollback"
  BY <1>2 DEF Revision, Kind
<1>5. revisions' = revisions \cup {n}
  BY DEF Rollback
<1>6. \A r \in revisions : r.at # n.at /\ (r.kind = "create" => r.at < n.at)
  BY <1>1, <1>4 DEF CallOK
<1>7. overtaken' = (overtaken \/ \E r \in revisions : r.at > c.started)
  BY DEF Rollback
<1>8. ~overtaken' => ~overtaken /\ \A r \in revisions : r.at < n.at
  <2>1. \A r \in revisions : r.at \in Nat
    BY DEF IInv, Typed, Revision
  <2> HIDE DEF c, n
  <2>2. \A r \in revisions : ~(r.at > c.started) => r.at < n.at
    BY <1>2, <1>4, <1>6, <2>1
  <2> QED BY <1>7, <2>2
<1>9. ~overtaken' => \A k \in kept' : InHistory(k)'
  <2> SUFFICES ASSUME ~overtaken', NEW k \in kept' PROVE InHistory(k)'
    OBVIOUS
  <2>1. ~overtaken
    BY <1>8
  <2>2. CASE k \in kept
    BY <1>5, <2>1, <2>2 DEF IInv, Told, InHistory
  <2>3. CASE k = [text |-> page.text, kind |-> page.kind]
    <3>1. PICK r \in revisions : IsLatest(r)
      BY <1>3 DEF IInv, Rows
    <3>2. r.text = page.text /\ r.kind = page.kind
      BY <2>1, <3>1 DEF IInv, Told
    <3> QED BY <1>5, <2>3, <3>2 DEF InHistory
  <2> QED BY <2>2, <2>3 DEF Rollback, LeavesSitting
<1>10. \A u \in Worker \ {w} : worker[u].step \in {"write", "insert"} => n.at # worker[u].started
  BY <1>1, <1>4 DEF IInv, Calls, Apart
<1>11. /\ page' \in [version : Nat, generation : Nat, live : BOOLEAN, text : Nat,
                      updatedBy : Author \cup {Nobody}, updatedAt : Nat, kind : Kind]
       /\ page'.version = page.version + 1 /\ page'.live = page.live
       /\ page'.text = c.text /\ page'.updatedBy = c.by /\ page'.updatedAt = clock'
       /\ page'.kind = "rollback"
  <2> DEFINE p1 == [page EXCEPT !.version = page.version + 1, !.generation = page.generation + 1,
                                !.text = c.text]
             p2 == [p1 EXCEPT !.updatedBy = c.by, !.updatedAt = clock', !.kind = "rollback"]
  <2>1. /\ page \in [version : Nat, generation : Nat, live : BOOLEAN, text : Nat,
                      updatedBy : Author \cup {Nobody}, updatedAt : Nat, kind : Kind]
        /\ page.version + 1 \in Nat /\ page.generation + 1 \in Nat
    BY DEF IInv, Typed
  <2>2. clock' \in Nat
    BY <1>2 DEF Rollback
  <2> HIDE DEF c
  <2>3. /\ p1 \in [version : Nat, generation : Nat, live : BOOLEAN, text : Nat,
                    updatedBy : Author \cup {Nobody}, updatedAt : Nat, kind : Kind]
        /\ p1.version = page.version + 1 /\ p1.live = page.live /\ p1.text = c.text
    BY <1>2, <2>1
  <2>4. page' = p2
    BY Zenon DEF Rollback, c
  <2> HIDE DEF p1
  <2> QED BY <1>2, <2>2, <2>3, <2>4 DEF Kind
<1>12. /\ End(w) /\ UNCHANGED <<draft, texts>> /\ clock' = clock + 1 /\ LeavesSitting
       /\ At(w, "rollback", "write")
  BY DEF Rollback
<1>13. n.at <= clock'
  BY <1>2, <1>4, <1>12
<1>14. overtaken' \in BOOLEAN
  BY <1>7 DEF IInv, Typed
<1>15. page'.kind = IF worker[w].op = "save" THEN "edit" ELSE "rollback"
  BY <1>1, <1>11
<1>16. revisions \in SUBSET revisions
  OBVIOUS
<1> HIDE DEF n
<1> QED BY <1>3, <1>4, <1>5, <1>6, <1>8, <1>9, <1>10, <1>11, <1>12, <1>13, <1>14, <1>15, <1>16, Written

LEMMA WritePageStep ==
  ASSUME IInv, NEW w \in Worker, WritePage(w)
  PROVE  IInv'
<1> DEFINE c == worker[w]
           L == LatestRevision
<1>1. c \in Call /\ CallOK(c, clock, page, revisions, texts, kept)
      /\ c.op = "save" /\ c.step = "write"
  BY DEF IInv, Typed, Calls, WritePage, At
<1>2. c.by \in Author /\ c.text \in Nat /\ c.started \in Nat /\ clock \in Nat
      /\ c.started <= clock /\ page.version > 0 /\ clock' = clock + 1
  BY <1>1 DEF Call, CallOK, IInv, Typed, WritePage
<1>3. CASE ~Matches(c) /\ End(w)
  <2>1. UNCHANGED <<page, revisions, kept, draft, texts, overtaken>>
    BY <1>3 DEF WritePage
  <2> QED BY <1>2, <1>3, <2>1, Stops
<1>4. CASE ~Matches(c) /\ worker' = [worker EXCEPT ![w].step = "reread"]
  <2> DEFINE d == [c EXCEPT !.step = "reread"]
  <2>1. UNCHANGED <<page, revisions, kept, draft, texts, overtaken>>
    BY <1>4 DEF WritePage
  <2>2. worker' = [worker EXCEPT ![w] = d]
    BY <1>4 DEF IInv, Typed
  <2> HIDE DEF c
  <2>3. d \in Call /\ d.step = "reread" /\ d.op = c.op /\ d.by = c.by /\ d.text = c.text
        /\ d.base = c.base /\ d.started = c.started
    BY <1>1 DEF Call
  <2> HIDE DEF d
  <2>4. d.started <= clock'
    BY <1>2, <2>3
  <2>5. CallOK(d, clock', page, revisions, texts, kept)
    BY <1>1, <2>3, <2>4 DEF CallOK
  <2>6. \A u \in Worker \ {w} : Apart(d, worker[u])
    BY <1>1, <2>3 DEF Apart, IInv, Calls, c
  <2>7. clock' \in Nat /\ clock' >= clock /\ texts' \in 0..MaxTexts /\ texts' >= texts
    BY <1>2, <2>1, Bounds DEF IInv, Typed
  <2> QED BY <2>1, <2>2, <2>3, <2>5, <2>6, <2>7, CallStep
<1>5. CASE Matches(c)
  <2>1. revisions # {} /\ IsLatest(L)
    BY <1>2, Latest DEF IInv, Rows, Exists
  <2>2. /\ L \in Revision /\ L.at \in Nat /\ L.at <= clock
        /\ \A r \in revisions : r.at \in Nat /\ r.at <= L.at /\ (r.at = L.at => r = L)
    BY <2>1 DEF IsLatest, IInv, Typed, Revision, Dates
  <2>3. \A r \in revisions : r.at < c.started
    BY <1>1, <1>5 DEF CallOK, Matches
  <2>4. /\ page' \in [version : Nat, generation : Nat, live : BOOLEAN, text : Nat,
                       updatedBy : Author \cup {Nobody}, updatedAt : Nat, kind : Kind]
        /\ page'.version = page.version + 1 /\ page'.live = page.live
        /\ page'.text = c.text /\ page'.updatedBy = c.by /\ page'.updatedAt = clock'
        /\ page'.kind = "edit"
    <3> DEFINE p1 == [page EXCEPT !.version = page.version + 1, !.text = c.text]
               p2 == [p1 EXCEPT !.updatedBy = c.by, !.updatedAt = clock', !.kind = "edit"]
    <3>1. /\ page \in [version : Nat, generation : Nat, live : BOOLEAN, text : Nat,
                        updatedBy : Author \cup {Nobody}, updatedAt : Nat, kind : Kind]
          /\ page.version + 1 \in Nat
      BY DEF IInv, Typed
    <3>2. clock' \in Nat
      BY <1>2
    <3>3. page' = [page EXCEPT !.version = page.version + 1, !.text = c.text, !.updatedBy = c.by,
                               !.updatedAt = clock', !.kind = "edit"]
      BY <1>5 DEF WritePage
    <3> HIDE DEF c
    <3>4. /\ p1 \in [version : Nat, generation : Nat, live : BOOLEAN, text : Nat,
                      updatedBy : Author \cup {Nobody}, updatedAt : Nat, kind : Kind]
          /\ p1.version = page.version + 1 /\ p1.live = page.live /\ p1.text = c.text
      BY <1>2, <3>1
    <3>5. page' = p2
      BY <3>3, Zenon
    <3> HIDE DEF p1
    <3> QED BY <1>2, <3>2, <3>4, <3>5 DEF Kind
  <2>5. page'.kind = IF worker[w].op = "save" THEN "edit" ELSE "rollback"
    BY <1>1, <2>4
  <2>6. /\ End(w) /\ UNCHANGED <<draft, texts, overtaken>> /\ At(w, "save", "write")
        /\ Revise(c.by, c.text, c.started, clock')
        /\ IF SameSitting(c.by, clock') THEN UNCHANGED kept ELSE LeavesSitting
    BY <1>5 DEF WritePage
  <2>7. overtaken' \in BOOLEAN
    BY <2>6 DEF IInv, Typed
  \* What gave way is in the history when w has not touched it yet.
  <2>8. ASSUME ~overtaken, NEW k \in kept'
        PROVE  \/ k \in kept /\ InHistory(k)
               \/ ~SameSitting(c.by, clock') /\ k.text = L.text /\ k.kind = L.kind
    <3>1. L.text = page.text /\ L.kind = page.kind
      BY <2>1, <2>8 DEF IInv, Told, IsLatest
    <3>2. \A j \in kept : InHistory(j)
      BY <2>8 DEF IInv, Told
    <3> QED BY <2>6, <2>8, <3>1, <3>2 DEF LeavesSitting
  <2>9. CASE ShouldCoalesce(L, c.by, clock')
    <3> DEFINE n == [L EXCEPT !.text = c.text, !.at = clock']
               R == revisions \ {L}
    <3>1. revisions' = R \cup {n}
      BY <2>6, <2>9 DEF Revise
    <3>2. L.kind = "edit" /\ L.by = c.by /\ clock' - L.at <= Window
      BY <2>9 DEF ShouldCoalesce
    <3>3. clock' \in Nat /\ clock' > clock
      BY <1>2
    <3>4. n \in Revision /\ n.text = c.text /\ n.by = c.by /\ n.at = clock' /\ n.kind = "edit"
      <4> HIDE DEF c, L
      <4> QED BY <1>2, <2>2, <3>2, <3>3 DEF Revision
    <3> HIDE DEF n
    <3>5. \A r \in R : r.at < n.at
      BY <1>2, <2>2, <3>4
    <3>6. \A r \in R : r.at # n.at /\ (r.kind = "create" => r.at < n.at)
      BY <2>2, <3>3, <3>4, <3>5
    <3>7. \A u \in Worker \ {w} : worker[u].step \in {"write", "insert"} => n.at # worker[u].started
      <4> SUFFICES ASSUME NEW u \in Worker \ {w} PROVE n.at # worker[u].started
        OBVIOUS
      <4>1. worker[u] \in Call /\ worker[u].started <= clock
        BY DEF IInv, Typed, Calls, CallOK
      <4> QED BY <1>2, <3>3, <3>4, <4>1 DEF Call
    <3>8. ~overtaken' => \A k \in kept' : InHistory(k)'
      <4> SUFFICES ASSUME ~overtaken, NEW k \in kept' PROVE InHistory(k)'
        BY <2>6
      <4>1. L.text = page.text /\ L.kind = page.kind /\ L.by = page.updatedBy
            /\ L.at <= page.updatedAt
        BY <2>1 DEF IInv, Told, IsLatest
      <4>2. SameSitting(c.by, clock')
        <5>1. page.updatedAt \in Nat
          BY DEF IInv, Typed
        <5>2. clock' - page.updatedAt <= Window
          BY <2>2, <3>2, <3>3, <4>1, <5>1, Bounds
        <5> QED BY <3>2, <4>1, <5>2 DEF SameSitting
      <4>3. k \in kept /\ InHistory(k)
        BY <2>8, <4>2
      <4>4. PICK r \in revisions : r.text = k.text /\ r.kind = k.kind
        BY <4>3 DEF InHistory
      <4>5. r # L
        <5> SUFFICES ASSUME r = L PROVE FALSE
          OBVIOUS
        <5>1. k = [text |-> page.text, kind |-> "edit"]
          BY <3>2, <4>1, <4>3, <4>4 DEF IInv, Typed
        <5> QED BY <3>2, <4>1, <4>3, <5>1 DEF IInv, Rows
      <4> QED BY <3>1, <4>4, <4>5 DEF InHistory
    <3>9. R \in SUBSET revisions /\ n.at <= clock' /\ n.kind = page'.kind
      BY <2>4, <3>3, <3>4
    <3>10. LeavesSitting \/ UNCHANGED kept
      BY <2>6
    <3> HIDE DEF R
    <3> QED BY <1>2, <2>1, <2>4, <2>5, <2>6, <2>7, <3>1, <3>4, <3>5, <3>6, <3>7, <3>8, <3>9, <3>10, Written
  <2>10. CASE ~ShouldCoalesce(L, c.by, clock')
    <3> DEFINE n == [text |-> c.text, by |-> c.by, at |-> c.started, kind |-> "edit"]
    <3>1. revisions' = revisions \cup {n}
      BY <2>6, <2>10 DEF Revise
    <3>2. n \in Revision /\ n.text = c.text /\ n.by = c.by /\ n.at = c.started /\ n.kind = "edit"
      BY <1>2 DEF Revision, Kind
    <3> HIDE DEF n
    <3>3. \A r \in revisions : r.at < n.at
      BY <2>3, <3>2
    <3>4. \A r \in revisions : r.at # n.at /\ (r.kind = "create" => r.at < n.at)
      BY <2>2, <3>2, <3>3, <1>2
    <3>5. \A u \in Worker \ {w} : worker[u].step \in {"write", "insert"} => n.at # worker[u].started
      BY <1>1, <3>2 DEF IInv, Calls, Apart
    <3>6. ~overtaken' => \A k \in kept' : InHistory(k)'
      BY <2>1, <2>6, <2>8, <3>1 DEF InHistory, IsLatest
    <3>7. n.at <= clock' /\ n.kind = page'.kind
      BY <1>2, <2>4, <3>2
    <3>8. LeavesSitting \/ UNCHANGED kept
      BY <2>6
    <3>9. revisions \in SUBSET revisions
      OBVIOUS
    <3> QED BY <1>2, <2>1, <2>4, <2>5, <2>6, <2>7, <3>1, <3>2, <3>3, <3>4, <3>5, <3>6, <3>7, <3>8, <3>9, Written
  <2> QED BY <2>9, <2>10
<1> QED BY <1>3, <1>4, <1>5 DEF WritePage

LEMMA InsertPageStep ==
  ASSUME IInv, NEW w \in Worker, InsertPage(w)
  PROVE  IInv'
<1> DEFINE c == worker[w]
           n == [text |-> c.text, by |-> c.by, at |-> c.started, kind |-> "create"]
<1>1. c \in Call /\ CallOK(c, clock, page, revisions, texts, kept) /\ c.step = "insert"
  BY DEF IInv, Typed, Calls, InsertPage, At
<1>2. c.by \in Author /\ c.text \in Nat /\ c.started \in Nat /\ clock \in Nat
      /\ c.started <= clock /\ c.text <= texts
  BY <1>1 DEF Call, CallOK, IInv, Typed
<1>3. CASE Exists
  BY <1>3, <1>2, Stops DEF InsertPage
<1>4. CASE ~Exists
  <2>1. /\ End(w) /\ clock' = clock + 1 /\ revisions' = revisions \cup {n} /\ draft' = NoDraft
        /\ page' = [version |-> 1, generation |-> 0, live |-> TRUE, text |-> c.text,
                    updatedBy |-> c.by, updatedAt |-> clock', kind |-> "create"]
        /\ UNCHANGED <<texts, kept, overtaken>>
    BY <1>4 DEF InsertPage
  <2>2. revisions' = {n}
    BY <1>4, <2>1 DEF IInv, Rows
  <2>3. n \in Revision /\ n.text = c.text /\ n.by = c.by /\ n.at = c.started /\ n.kind = "create"
    BY <1>2 DEF Revision, Kind
  <2>4. /\ page' \in [version : Nat, generation : Nat, live : BOOLEAN, text : Nat,
                       updatedBy : Author \cup {Nobody}, updatedAt : Nat, kind : Kind]
        /\ page'.version = 1 /\ page'.live /\ page'.text = c.text /\ page'.updatedBy = c.by
        /\ page'.updatedAt = clock' /\ page'.kind = "create" /\ clock' \in Nat
    <3>1. clock' \in Nat
      BY <1>2, <2>1
    <3> QED BY <1>2, <2>1, <3>1 DEF Kind
  <2> HIDE DEF n
  <2>5. Typed'
    <3>1. worker' \in [Worker -> Call]
      BY <2>1, Idles DEF IInv, Typed, End
    <3>2. draft' \in [version : Nat, text : Nat]
      BY <2>1 DEF NoDraft
    <3> QED BY <2>1, <2>2, <2>3, <2>4, <3>1, <3>2 DEF IInv, Typed
  <2>6. Rows'
    <3>1. n.at <= n.at
      BY <1>2, <2>3
    <3>2. \E r \in revisions' : IsLatest(r)'
      BY <2>2, <3>1 DEF IsLatest
    <3>3. draft'.text <= texts'
      BY <2>1, Bounds DEF NoDraft, IInv, Typed
    <3> QED BY <1>2, <2>1, <2>2, <2>3, <2>4, <3>2, <3>3 DEF IInv, Rows, Exists
  <2>7. Dates'
    BY <1>2, <2>1, <2>2, <2>3 DEF Dates
  <2>8. Told'
    <3> SUFFICES ASSUME ~overtaken' PROVE (/\ \A r \in revisions : IsLatest(r) =>
                                               /\ r.text = page.text /\ r.by = page.updatedBy
                                               /\ r.kind = page.kind /\ r.at <= page.updatedAt
                                          /\ \A k \in kept : InHistory(k))'
      BY DEF Told
    <3>1. kept = {}
      <4>1. revisions = {}
        BY <1>4 DEF IInv, Rows
      <4> QED BY <2>1, <4>1 DEF IInv, Told, InHistory
    <3> QED BY <1>2, <2>1, <2>2, <2>3, <2>4, <3>1
  <2>9. Calls'
    <3>1. ASSUME NEW u \in Worker \ {w}
          PROVE  CallOK(worker[u], clock', page', revisions', texts', kept')
      <4> DEFINE d == worker[u]
      <4>1. d \in Call /\ CallOK(d, clock, page, revisions, texts, kept) /\ Apart(c, d)
        BY DEF IInv, Typed, Calls
      <4>2. d.op \notin {"save", "rollback"}
        BY <1>4, <4>1 DEF CallOK, Exists
      <4>3. d.started <= clock'
        BY <1>2, <2>1, <4>1 DEF Call, CallOK
      <4>4. d.step \in {"write", "insert"} => \A r \in revisions' : r.at # d.started
        BY <1>1, <2>2, <2>3, <4>1 DEF Apart
      <4> HIDE DEF d
      <4>5. CallOK(d, clock', page', revisions', texts', kept')
        BY <2>1, <4>1, <4>2, <4>3, <4>4 DEF CallOK
      <4> QED BY <4>5 DEF d
    <3>2. texts' \in Nat
      BY <2>1, Bounds DEF IInv, Typed
    <3> QED BY <2>1, <2>4, <3>1, <3>2, Others
  <2> QED BY <2>5, <2>6, <2>7, <2>8, <2>9 DEF IInv
<1> QED BY <1>3, <1>4

-----------------------------------------------------------------------------
LEMMA Initial == Init => IInv
<1> SUFFICES ASSUME Init PROVE IInv
  OBVIOUS
<1>1. Typed
  <2>1. NoPage \in [version : Nat, generation : Nat, live : BOOLEAN, text : Nat,
                    updatedBy : Author \cup {Nobody}, updatedAt : Nat, kind : Kind]
    BY DEF NoPage, Kind
  <2>2. page.updatedAt <= clock
    BY DEF Init, NoPage
  <2>3. draft \in [version : Nat, text : Nat]
    BY DEF Init, NoDraft
  <2>4. worker \in [Worker -> Call]
    BY Idles DEF Init
  <2>5. texts \in 0..MaxTexts
    BY Bounds DEF Init
  <2> QED BY <2>1, <2>2, <2>3, <2>4, <2>5 DEF Init, Typed
<1>2. Rows /\ Dates /\ Told
  BY DEF Init, Rows, Dates, Told, Exists, NoPage, NoDraft
<1>3. Calls
  BY Idles DEF Init, Calls, CallOK, Apart
<1> QED BY <1>1, <1>2, <1>3 DEF IInv

LEMMA Inductive == IInv /\ [Next]_vars => IInv'
<1> SUFFICES ASSUME IInv, [Next]_vars PROVE IInv'
  OBVIOUS
<1>1. CASE UNCHANGED vars
  BY <1>1 DEF vars, IInv, Typed, Rows, Exists, IsLatest, Dates, Told, InHistory, Calls
<1>2. CASE CreateDraft \/ DeleteDraft \/ DeletePage \/ RestorePage \/ Pause
  BY <1>2, DraftSteps, PageSteps, PauseStep
<1>3. ASSUME NEW w \in Worker, NEW a \in Author,
             BeginSave(w, a) \/ \E r \in revisions : BeginRollback(w, a, r)
      PROVE  IInv'
  BY <1>3, BeginSaveStep, BeginRollbackStep
<1>4. ASSUME NEW w \in Worker, Stop(w)
      PROVE  IInv'
  BY <1>4, Stops DEF Stop, IInv, Typed
<1>5. ASSUME NEW w \in Worker,
             BeginSaveDraft(w) \/ BeginPublish(w) \/ BeginTransaction(w) \/ SaveDraft(w)
      PROVE  IInv'
  BY <1>5, BeginSaveDraftStep, BeginPublishStep, BeginTransactionStep, SaveDraftStep
<1>6. ASSUME NEW w \in Worker,
             ReadDraft(w) \/ InsertPage(w) \/ WritePage(w) \/ Merge(w) \/ Rollback(w)
      PROVE  IInv'
  BY <1>6, ReadDraftStep, InsertPageStep, WritePageStep, MergeStep, RollbackStep
<1> QED BY <1>1, <1>2, <1>3, <1>4, <1>5, <1>6 DEF Next

THEOREM Invariance == Spec => []IInv
BY Initial, Inductive, PTL DEF Spec

\* TypeOK: the rows of the page, its revisions and its draft, and what the server
\* actions hold in memory, keep their types, whatever calls overlap.
THEOREM Typing == Spec => []TypeOK
BY Invariance, TypeParts, PTL

\* NewestRevisionIsThePage: unless a rollback was overtaken, the revision the
\* next edit may continue is the one that holds the page's text.
THEOREM Newest == Spec => []NewestRevisionIsThePage
<1>1. IInv => NewestRevisionIsThePage
  BY Latest DEF IInv, Rows, Told, IsLatest, NewestRevisionIsThePage
<1> QED BY <1>1, Invariance, PTL

\* HistoryKeepsEverySitting: unless a rollback was overtaken, no sitting, no
\* creation and no rollback is ever written over in the history.
THEOREM Kept == Spec => []HistoryKeepsEverySitting
<1>1. IInv => HistoryKeepsEverySitting
  BY DEF IInv, Told, HistoryKeepsEverySitting, OnlyConsecutiveWritesCoalesce
<1> QED BY <1>1, Invariance, PTL

\* OneCreation: however many publications run, the page is created once, and
\* its creation is its oldest revision.
THEOREM Once == Spec => []OneCreation
<1>1. IInv => OneCreation
  <2> SUFFICES ASSUME IInv PROVE OneCreation
    OBVIOUS
  <2> DEFINE C == {r \in revisions : r.kind = "create"}
  <2>1. \A r, q \in C : r = q
    <3>1. \A r \in revisions : r.at \in Nat
      BY DEF IInv, Typed, Revision
    <3>2. \A r, q \in C : r.at = q.at
      BY <3>1 DEF IInv, Dates
    <3> QED BY <3>2 DEF IInv, Dates
  <2>2. Cardinality(C) <= 1
    <3>1. CASE C = {}
      BY <3>1, FS_EmptySet
    <3>2. CASE C # {}
      <4>1. PICK r \in C : TRUE
        BY <3>2
      <4>2. C = {r}
        BY <2>1, <4>1
      <4> QED BY <4>2, FS_Singleton
    <3> QED BY <3>1, <3>2
  <2>3. Exists = (revisions # {})
    BY DEF IInv, Rows, Exists
  <2> QED BY <2>2, <2>3 DEF IInv, Dates, OneCreation
<1> QED BY <1>1, Invariance, PTL

=============================================================================
