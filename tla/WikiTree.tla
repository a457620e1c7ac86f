------------------------------ MODULE WikiTree ------------------------------
(***************************************************************************)
(* The tree of wiki pages under concurrent edits (lib/wiki-actions.ts and   *)
(* lib/wiki-draft-actions.ts).  Pages point at their parent; a page is      *)
(* created, moved, deleted with everything below it, restored, rolled back, *)
(* or published from a private draft.  Each server action runs as a worker: *)
(* one step per statement whose answer a later statement depends on, under  *)
(* PostgreSQL's READ COMMITTED.  Create, move, delete and restore hold the  *)
(* transaction-scoped advisory lock of the tree; an edit that keeps the     *)
(* parent, a rollback and a publication do not take it.                     *)
(***************************************************************************)
EXTENDS Integers, FiniteSets

CONSTANTS Page,        \* page ids
          Draft,       \* those that are drafted first and then published
          Worker,      \* server actions running at a time
          Root,        \* the null parent
          NoOne,       \* nobody holds the tree lock
          MaxVersion,  \* bound: no edit, deletion or rollback begins at this version
          MaxEdited,   \* bound: no edit of one page begins once so many others were edited
          MaxSaves,    \* bound: no save begins on a draft of this version
          MaxBeside    \* bound: a draft is used beside at most so many other pages

ASSUME DraftAssumption == Draft \subseteq Page
ASSUME RootAssumption == Root \notin Page
ASSUME NoOneAssumption == NoOne \notin Worker
ASSUME BoundAssumption ==
  {MaxVersion, MaxEdited, MaxSaves, MaxBeside} \subseteq Nat

VARIABLES
  page,        \* rows of wiki_pages
  draft,       \* rows of wiki_drafts
  treeLock,    \* holder of hashtext('cupedia.wiki-tree')
  worker       \* the call each worker is running

vars == <<page, draft, treeLock, worker>>

Parent == Page \cup {Root}

Row == [state : {"absent", "live", "deleted"}, parent : Parent,
        version : Nat, generation : Nat]

\* A draft of version 0 does not exist.
DraftRow == [parent : Parent, version : Nat]

Op == {"none", "create", "move", "delete", "restore", "publish", "save"}
Step == {"idle", "read", "lock", "check", "write", "collect", "mark", "reread"}

Call == [op : Op, step : Step, page : Parent, parent : Parent,
         base : Row, expected : Row, retry : BOOLEAN,
         rows : SUBSET Page, draftVersion : Nat]

NoRow == [state |-> "absent", parent |-> Root, version |-> 0, generation |-> 0]

Idle == [op |-> "none", step |-> "idle", page |-> Root, parent |-> Root,
         base |-> NoRow, expected |-> NoRow, retry |-> FALSE,
         rows |-> {}, draftVersion |-> 0]

TypeOK ==
  /\ page \in [Page -> Row]
  /\ draft \in [Draft -> DraftRow]
  /\ treeLock \in Worker \cup {NoOne}
  /\ worker \in [Worker -> Call]

-----------------------------------------------------------------------------
(* What the recursive queries return: the pages reached from p. *)

Live(p) == p \in Page /\ page[p].state = "live"
Exists(p) == page[p].state # "absent"

Closed(next, S) == \A x \in S : next[x] \subseteq S

Reach(next, p) ==
  {q \in Page : \A S \in SUBSET Page : p \in S /\ Closed(next, S) => q \in S}

Children == [x \in Page |-> {c \in Page : Exists(c) /\ page[c].parent = x}]
LiveChildren == [x \in Page |-> {c \in Page : Live(c) /\ page[c].parent = x}]
Parents == [x \in Page |-> {page[x].parent} \cap Page]

DraftChildren ==
  [x \in Page |-> {d \in Draft : draft[d].version > 0 /\ draft[d].parent = x}]

Descendants(p) == Reach(Children, p)
Ancestors(p) == Reach(Parents, p)
LiveDescendants(p) == IF Live(p) THEN Reach(LiveChildren, p) ELSE {}

-----------------------------------------------------------------------------
(* Any forest of live pages, every draft unsaved or under some page. *)

IsForest(row) ==
  \A S \in SUBSET Page : S # {} => \E p \in S : row[p].parent \notin S

Init ==
  /\ page \in [Page -> {NoRow} \cup [state : {"live"}, parent : Parent,
                                     version : {1}, generation : {0}]]
  /\ \A p \in Page :
       /\ p \in Draft => ~Exists(p)
       /\ Live(p) => page[p].parent = Root \/ Live(page[p].parent)
  /\ IsForest(page)
  /\ draft = [d \in Draft |-> [parent |-> Root, version |-> 0]]
  /\ treeLock = NoOne
  /\ worker = [w \in Worker |-> Idle]

-----------------------------------------------------------------------------
(* Beginning a call, waiting for the lock, and ending it.  Ending commits   *)
(* or rolls back the transaction, which gives the advisory lock back.       *)

Begin(w, call) ==
  /\ worker[w].step = "idle"
  /\ worker' = [worker EXCEPT ![w] = call]
  /\ UNCHANGED <<page, draft, treeLock>>

End(w) ==
  /\ worker' = [worker EXCEPT ![w] = Idle]
  /\ treeLock' = IF treeLock = w THEN NoOne ELSE treeLock

GoTo(w, step) == worker' = [worker EXCEPT ![w].step = step]

At(w, ops, step) == worker[w].op \in ops /\ worker[w].step = step

\* Callers pick pages from lists they were shown: a parent has a row, a page
\* to delete was live, a page to restore was deleted when the call began.
KnownParent == {Root} \cup {q \in Page : Exists(q)}

\* The bounds on edits, deletions and rollbacks.
Editable(p) ==
  /\ page[p].version < MaxVersion
  /\ Cardinality({q \in Page \ {p} : page[q].version > 1}) < MaxEdited

\* The bound on pages beside a draft: one run looks at many pages, and at a
\* draft beside few.
InUse(p) == Exists(p) \/ \E w \in Worker : worker[w].page = p

Drafted == \E d \in Draft : InUse(d) \/ draft[d].version > 0

Beside(n) == Cardinality({p \in Page \ Draft : InUse(p)}) <= n

\* createWikiPage: an id that has a row is answered without a transaction.
BeginCreate(w, p, q) ==
  /\ p \notin Draft /\ ~Exists(p) /\ q \in KnownParent
  /\ Drafted => Beside(MaxBeside - 1)
  /\ Begin(w, [Idle EXCEPT !.op = "create", !.step = "lock",
                           !.page = p, !.parent = q])

\* updateWikiPage, called by an editor that loaded the row as its base and
\* asks for parent q (its own parent when only the text was edited).
BeginMove(w, p, q) ==
  /\ Live(p) /\ q \in KnownParent /\ Editable(p)
  /\ Begin(w, [Idle EXCEPT !.op = "move", !.step = "read",
                           !.page = p, !.parent = q,
                           !.base = page[p], !.expected = page[p]])

BeginDelete(w, p) ==
  /\ Live(p) /\ Editable(p)
  /\ Begin(w, [Idle EXCEPT !.op = "delete", !.step = "lock", !.page = p])

BeginRestore(w, p) ==
  /\ page[p].state = "deleted"
  /\ Begin(w, [Idle EXCEPT !.op = "restore", !.step = "lock", !.page = p])

\* createWikiDraft, and updateWikiDraft with the version its editor loaded.
BeginSaveDraft(w, d, q) ==
  /\ draft[d].version < MaxSaves /\ Beside(MaxBeside)
  /\ Begin(w, [Idle EXCEPT !.op = "save", !.step = "check",
                           !.page = d, !.parent = q,
                           !.draftVersion = draft[d].version])

\* publishWikiDraft: an id that has a page is answered without a transaction.
BeginPublish(w, d) ==
  /\ ~Exists(d) /\ Beside(MaxBeside)
  /\ Begin(w, [Idle EXCEPT !.op = "publish", !.step = "read", !.page = d])

LockWikiTree(w) ==
  /\ worker[w].step = "lock"
  /\ treeLock = NoOne
  /\ treeLock' = w
  /\ GoTo(w, IF worker[w].op \in {"delete", "restore"} THEN "collect" ELSE "check")
  /\ UNCHANGED <<page, draft>>

\* The process dies or the database drops the connection before the commit.
Stop(w) ==
  /\ worker[w].step # "idle"
  /\ End(w)
  /\ UNCHANGED <<page, draft>>

-----------------------------------------------------------------------------
(* Moving a page. *)

\* Mutant: a move is checked without the lock.
MoveUnlocked(w) ==
  LET c == worker[w] IN
  /\ At(w, {"move"}, "read")
  /\ IF Live(c.page)
     THEN /\ GoTo(w, IF c.parent # page[c.page].parent THEN "check" ELSE "write")
          /\ UNCHANGED treeLock
     ELSE End(w)
  /\ UNCHANGED <<page, draft>>

\* The unlocked read that decides whether this is a move at all.
ReadPage(w) ==
  LET c == worker[w] IN
  /\ At(w, {"move"}, "read")
  /\ IF Live(c.page)
     THEN /\ GoTo(w, IF c.parent # page[c.page].parent THEN "lock" ELSE "write")
          /\ UNCHANGED treeLock
     ELSE End(w)
  /\ UNCHANGED <<page, draft>>

\* assertLiveWikiParent, assertValidWikiParent, assertPublicParent and
\* assertDraftParent, by the call that asks.
ValidMove(p, q) == Live(q) /\ q # p /\ q \notin LiveDescendants(p)

ValidDraftParent(d, q) ==
  /\ q # d
  /\ Live(q) \/ (q \in Draft /\ draft[q].version > 0)
  /\ q \notin Reach(DraftChildren, d)

ValidParent(c) ==
  \/ c.parent = Root
  \/ c.op \in {"create", "publish"} /\ Live(c.parent)
  \/ c.op = "move" /\ ValidMove(c.page, c.parent)
  \/ c.op = "save" /\ ValidDraftParent(c.page, c.parent)

CheckParent(w) ==
  /\ worker[w].step = "check"
  /\ IF ValidParent(worker[w])
     THEN GoTo(w, "write") /\ UNCHANGED treeLock
     ELSE End(w)
  /\ UNCHANGED <<page, draft>>

\* writeWikiPage: the compare-and-swap, and its commit.  A first refusal is
\* looked into, a second one is reported as a conflict.
WriteParent(w) ==
  LET c == worker[w]
      row == page[c.page] IN
  /\ At(w, {"move"}, "write")
  /\ UNCHANGED draft
  /\ IF /\ row.state = "live"
        /\ row.version = c.expected.version
        /\ row.generation = c.expected.generation
     THEN /\ page' = [page EXCEPT ![c.page].parent = c.parent,
                                  ![c.page].version = @ + 1]
          /\ End(w)
     ELSE /\ UNCHANGED page
          /\ IF c.retry
             THEN End(w)
             ELSE /\ GoTo(w, "reread")
                  /\ treeLock' = IF treeLock = w THEN NoOne ELSE treeLock

\* mergeScalarField: both sides changed the value differently.
MergeConflict(base, mine, theirs) ==
  mine # base /\ theirs # base /\ mine # theirs

\* Mutant: what is asked for wins even when it only repeats the base.
MineWins(base, mine, theirs) == mine

MergedValue(base, mine, theirs) == IF mine = base THEN theirs ELSE mine

\* The row as it is now, merged with what was asked; the merge of the text
\* may conflict whatever the parents are.
Reread(w) ==
  LET c == worker[w]
      latest == page[c.page]
      merged == MergedValue(c.base.parent, c.parent, latest.parent) IN
  /\ At(w, {"move"}, "reread")
  /\ UNCHANGED <<page, draft>>
  /\ \/ End(w)
     \/ /\ Live(c.page)
        /\ latest.generation = c.base.generation
        /\ ~MergeConflict(c.base.parent, c.parent, latest.parent)
        /\ worker' = [worker EXCEPT ![w].parent = merged,
                                    ![w].expected = latest,
                                    ![w].retry = TRUE,
                                    ![w].step = IF merged # latest.parent
                                                THEN "lock" ELSE "write"]
        /\ UNCHANGED treeLock

-----------------------------------------------------------------------------
(* Creating, publishing, deleting, restoring, rolling back. *)

\* The draft as it is when the transaction reads it.
ReadDraft(w) ==
  LET d == worker[w].page IN
  /\ At(w, {"publish"}, "read")
  /\ IF draft[d].version > 0
     THEN /\ worker' = [worker EXCEPT ![w].parent = draft[d].parent,
                                      ![w].step = "check"]
          /\ UNCHANGED treeLock
     ELSE End(w)
  /\ UNCHANGED <<page, draft>>

\* The insert and its commit; a duplicate key aborts.  A publication deletes
\* the draft in the same transaction, whatever its version is by then.
InsertPage(w) ==
  LET c == worker[w] IN
  /\ At(w, {"create", "publish"}, "write")
  /\ End(w)
  /\ IF Exists(c.page)
     THEN UNCHANGED <<page, draft>>
     ELSE /\ page' = [page EXCEPT ![c.page] =
                        [state |-> "live", parent |-> c.parent,
                         version |-> 1, generation |-> 0]]
          /\ draft' = [d \in Draft |->
                         IF c.op = "publish" /\ d = c.page
                         THEN [parent |-> Root, version |-> 0] ELSE draft[d]]

\* Mutant: a restore forgets the ancestors.
CollectDescendants(w) ==
  /\ At(w, {"delete", "restore"}, "collect")
  /\ worker' = [worker EXCEPT ![w].rows = Descendants(worker[w].page),
                              ![w].step = "mark"]
  /\ UNCHANGED <<page, draft, treeLock>>

\* The pages the delete or the restore is about, as one recursive query.
CollectPages(w) ==
  LET c == worker[w] IN
  /\ At(w, {"delete", "restore"}, "collect")
  /\ worker' = [worker EXCEPT
                  ![w].rows = IF c.op = "delete" THEN Descendants(c.page)
                              ELSE Descendants(c.page) \cup Ancestors(c.page),
                  ![w].step = "mark"]
  /\ UNCHANGED <<page, draft, treeLock>>

\* Deleting ends every edit begun before it: the generation moves on.
MarkDeleted(w) ==
  /\ At(w, {"delete"}, "mark")
  /\ page' = [p \in Page |->
                IF p \in worker[w].rows /\ page[p].state = "live"
                THEN [page[p] EXCEPT !.state = "deleted",
                                     !.version = @ + 1, !.generation = @ + 1]
                ELSE page[p]]
  /\ End(w)
  /\ UNCHANGED draft

MarkRestored(w) ==
  /\ At(w, {"restore"}, "mark")
  /\ page' = [p \in Page |->
                IF p \in worker[w].rows /\ page[p].state = "deleted"
                THEN [page[p] EXCEPT !.state = "live", !.version = @ + 1]
                ELSE page[p]]
  /\ End(w)
  /\ UNCHANGED draft

\* rollbackToRevision: one statement, no lock, deleted pages too.
Rollback(p) ==
  /\ Exists(p) /\ Editable(p)
  /\ page' = [page EXCEPT ![p].version = @ + 1, ![p].generation = @ + 1]
  /\ UNCHANGED <<draft, treeLock, worker>>

\* The insert of a draft that is not there yet, or the compare-and-swap.
WriteDraft(w) ==
  LET c == worker[w] IN
  /\ At(w, {"save"}, "write")
  /\ End(w)
  /\ draft' = IF draft[c.page].version = c.draftVersion
              THEN [draft EXCEPT ![c.page] = [parent |-> c.parent,
                                              version |-> c.draftVersion + 1]]
              ELSE draft
  /\ UNCHANGED page

DeleteDraft(d) ==
  /\ draft[d].version > 0
  /\ draft' = [draft EXCEPT ![d] = [parent |-> Root, version |-> 0]]
  /\ UNCHANGED <<page, treeLock, worker>>

-----------------------------------------------------------------------------
Next ==
  \/ \E w \in Worker, p \in Page, q \in Parent :
       BeginCreate(w, p, q) \/ BeginMove(w, p, q)
  \/ \E w \in Worker, p \in Page : BeginDelete(w, p) \/ BeginRestore(w, p)
  \/ \E w \in Worker, d \in Draft, q \in Parent : BeginSaveDraft(w, d, q)
  \/ \E w \in Worker, d \in Draft : BeginPublish(w, d)
  \/ \E w \in Worker :
       \/ LockWikiTree(w) \/ ReadPage(w) \/ CheckParent(w) \/ WriteParent(w)
       \/ Reread(w) \/ ReadDraft(w) \/ InsertPage(w) \/ CollectPages(w)
       \/ MarkDeleted(w) \/ MarkRestored(w) \/ WriteDraft(w) \/ Stop(w)
  \/ \E p \in Page : Rollback(p)
  \/ \E d \in Draft : DeleteDraft(d)

Spec == Init /\ [][Next]_vars

-----------------------------------------------------------------------------
(* What the tree lock and the versions are for. *)

\* A live page stands under a live page or at the root; the only pages that
\* can be left behind by the deletion of their parent are those published
\* from a draft, because publishWikiDraft checks the parent without the lock
\* that createWikiPage and every move take.
OrphansArePublished ==
  \A p \in Page : Live(p) /\ page[p].parent # Root
                   => Live(page[p].parent) \/ p \in Draft

\* Following parents from any page ends at the root, unless the way round
\* goes through a page published from a draft: pages that were created,
\* moved, deleted and restored under the lock never close a cycle, however
\* the calls interleave with each other and with unlocked edits.
CyclesPassThroughPublished ==
  \A S \in SUBSET (Page \ Draft) :
    S # {} => \E p \in S : page[p].parent \notin S

\* No move undoes what its author has not seen: an edit that changes the
\* parent of a page replaces the parent its author's base had, and belongs
\* to the generation of the base, so it began after the last deletion and
\* the last rollback of the page.
MovesRespectHistory ==
  [][\A p \in Page :
       Exists(p) /\ page'[p].parent # page[p].parent =>
         \E w \in Worker :
           /\ worker[w].op = "move" /\ worker[w].page = p
           /\ worker[w].base.parent = page[p].parent
           /\ worker[w].base.generation = page[p].generation]_vars

\* What the comment on lockWikiTree promises of every page.  It fails: see
\* the run that checks it.
Forest == IsForest(page)
=============================================================================
