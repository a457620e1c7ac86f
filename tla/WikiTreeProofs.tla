--------------------------- MODULE WikiTreeProofs ---------------------------
(***************************************************************************)
(* Proofs about WikiTree, for every number of pages, drafts and workers.    *)
(***************************************************************************)
EXTENDS WikiTree, TLAPS

(***************************************************************************)
(* The inductive invariant.  Its parts are written over a row function, so  *)
(* that a lemma can compare the rows before and after a step.               *)
(***************************************************************************)
LiveIn(r, p) == p \in Page /\ r[p].state = "live"
ExistsIn(r, p) == p \in Page /\ r[p].state # "absent"

\* Parents have rows, and the two properties of the tree.
TreeOK(r) ==
  /\ \A p \in Page : r[p].state = "absent" => r[p].parent = Root
  /\ \A p \in Page : r[p].parent # Root => ExistsIn(r, r[p].parent)
  /\ \A p \in Page : LiveIn(r, p) /\ r[p].parent # Root
                     => LiveIn(r, r[p].parent) \/ p \in Draft
  /\ \A S \in SUBSET (Page \ Draft) : S # {} => \E p \in S : r[p].parent \notin S

\* Above q there is a set of live pages without p that only a published page
\* or the root leads out of: putting p under q closes no cycle of created pages.
SafeUnder(r, p, q) ==
  q = Root \/ \E U \in SUBSET Page :
                /\ q \in U /\ p \notin U
                /\ \A x \in U : /\ LiveIn(r, x)
                                /\ \/ x \in Draft
                                   \/ r[x].parent = Root
                                   \/ r[x].parent \in U

LockOK(c, locked) ==
  /\ c.step \in {"idle", "read", "lock", "reread"} => ~locked
  /\ c.step \in {"collect", "mark"} => locked
  /\ c.op \in {"create", "move"} /\ c.step = "check" => locked
  /\ c.op = "create" /\ c.step = "write" => locked

PageOK(c) ==
  /\ c.step # "idle" => c.op # "none"
  /\ c.op # "none" => c.page \in Page
  /\ c.op \in {"publish", "save"} => c.page \in Draft
  /\ c.op = "create" => c.page \notin Draft

\* What an edit that is going to be compared with the row relies on.
MoveOK(c, r, locked) ==
  c.op = "move" =>
    /\ ExistsIn(r, c.page)
    /\ c.expected.version <= r[c.page].version
    /\ c.expected.version = r[c.page].version => r[c.page].parent = c.expected.parent
    /\ ~c.retry => c.expected = c.base
    /\ c.retry => /\ c.expected.generation = c.base.generation
                  /\ \/ c.parent = c.expected.parent
                     \/ c.base.parent = c.expected.parent
    /\ c.step = "write" /\ ~locked /\ c.expected.version = r[c.page].version
         => r[c.page].parent = c.parent
    /\ c.step = "write" /\ locked
         => /\ c.parent = Root \/ LiveIn(r, c.parent)
            /\ LiveIn(r, c.page) => SafeUnder(r, c.page, c.parent)

InsertOK(c, r) ==
  /\ c.op = "create" /\ c.step = "write" => c.parent = Root \/ LiveIn(r, c.parent)
  /\ c.op = "publish" /\ c.step = "write" => c.parent = Root \/ ExistsIn(r, c.parent)

\* The rows a delete took are closed downwards, but for pages published since;
\* those a restore took are closed upwards.
RowsOK(c, r) ==
  /\ c.op \in {"delete", "restore"} => ExistsIn(r, c.page)
  /\ c.op = "delete" /\ c.step = "mark" =>
       \A x \in Page : r[x].parent \in c.rows => x \in c.rows \/ x \in Draft
  /\ c.op = "restore" /\ c.step = "mark" =>
       \A x \in c.rows : /\ ExistsIn(r, x)
                         /\ r[x].parent # Root => r[x].parent \in c.rows

CallOK(c, r, locked) ==
  LockOK(c, locked) /\ PageOK(c) /\ MoveOK(c, r, locked) /\ InsertOK(c, r) /\ RowsOK(c, r)

IInv ==
  /\ TypeOK
  /\ TreeOK(page)
  /\ \A w \in Worker : CallOK(worker[w], page, treeLock = w)

(***************************************************************************)
(* How rows may change while a call is between two of its statements.       *)
(***************************************************************************)
\* Rows stay, their versions only grow, and with them their parents change.
Advances(r, s) ==
  \A p \in Page : r[p].state # "absent" =>
    /\ s[p].state # "absent"
    /\ r[p].version <= s[p].version
    /\ r[p].version = s[p].version => r[p].parent = s[p].parent

\* All that changes without the lock: a publication inserts its page.
Calm(r, s) ==
  \A p \in Page : \/ r[p].state = s[p].state /\ r[p].parent = s[p].parent
                  \/ p \in Draft /\ r[p].state = "absent"

\* A call that does not hold the lock tolerates any change that advances the
\* versions of the rows it touches.
LEMMA UnlockedStable ==
  ASSUME NEW r \in [Page -> Row], NEW s \in [Page -> Row], NEW c \in Call,
         Advances(r, s), CallOK(c, r, FALSE)
  PROVE  CallOK(c, s, FALSE)
<1>1. LockOK(c, FALSE) /\ PageOK(c) BY DEF CallOK
<1>2. MoveOK(c, s, FALSE)
  <2> SUFFICES ASSUME c.op = "move" PROVE MoveOK(c, s, FALSE)
    BY DEF MoveOK
  <2>1. ExistsIn(r, c.page) /\ c.page \in Page
    BY DEF CallOK, MoveOK, ExistsIn
  <2>2. ExistsIn(s, c.page)
    BY <2>1 DEF Advances, ExistsIn
  <2>3. /\ r[c.page].version <= s[c.page].version
        /\ r[c.page].version = s[c.page].version => r[c.page].parent = s[c.page].parent
    BY <2>1 DEF Advances, ExistsIn
  <2>4. /\ r[c.page].version \in Nat /\ s[c.page].version \in Nat
        /\ c.expected.version \in Nat
    BY <2>1 DEF Row, Call
  <2> QED
    BY <2>2, <2>3, <2>4 DEF CallOK, MoveOK
<1>3. InsertOK(c, s)
  BY DEF CallOK, InsertOK, LockOK, ExistsIn, Advances
<1>4. RowsOK(c, s)
  BY DEF CallOK, RowsOK, LockOK, ExistsIn, Advances
<1> QED BY <1>1, <1>2, <1>3, <1>4 DEF CallOK

\* The holder of the lock tolerates what may change without it.
LEMMA LockedStable ==
  ASSUME NEW r \in [Page -> Row], NEW s \in [Page -> Row], NEW c \in Call,
         NEW locked \in BOOLEAN, Advances(r, s), Calm(r, s), CallOK(c, r, locked)
  PROVE  CallOK(c, s, locked)
<1>1. LockOK(c, locked) /\ PageOK(c) BY DEF CallOK
<1>2. \A p \in Page : LiveIn(r, p) => LiveIn(s, p)
  BY DEF Calm, LiveIn
<1>3. ASSUME NEW p, NEW q, SafeUnder(r, p, q) PROVE SafeUnder(s, p, q)
  BY <1>2, <1>3 DEF SafeUnder, Calm, LiveIn
<1>4. MoveOK(c, s, locked)
  <2> SUFFICES ASSUME c.op = "move" PROVE MoveOK(c, s, locked)
    BY DEF MoveOK
  <2>1. ExistsIn(r, c.page) /\ c.page \in Page
    BY DEF CallOK, MoveOK, ExistsIn
  <2>2. LiveIn(s, c.page) => LiveIn(r, c.page)
    BY <2>1 DEF Calm, LiveIn, ExistsIn
  <2>3. ExistsIn(s, c.page)
    BY <2>1 DEF Advances, ExistsIn
  <2>4. /\ r[c.page].version <= s[c.page].version
        /\ r[c.page].version = s[c.page].version => r[c.page].parent = s[c.page].parent
    BY <2>1 DEF Advances, ExistsIn
  <2>5. /\ r[c.page].version \in Nat /\ s[c.page].version \in Nat
        /\ c.expected.version \in Nat
    BY <2>1 DEF Row, Call
  <2> QED
    BY <1>2, <1>3, <2>1, <2>2, <2>3, <2>4, <2>5 DEF CallOK, MoveOK, LiveIn
<1>5. InsertOK(c, s)
  BY <1>2 DEF CallOK, InsertOK, ExistsIn, Advances, LiveIn
<1>6. RowsOK(c, s)
  <2>1. c.op \in {"delete", "restore"} => ExistsIn(s, c.page)
    BY DEF CallOK, RowsOK, ExistsIn, Advances
  <2>2. c.op = "delete" /\ c.step = "mark" =>
          \A x \in Page : s[x].parent \in c.rows => x \in c.rows \/ x \in Draft
    BY DEF CallOK, RowsOK, Calm
  <2>3. c.op = "restore" /\ c.step = "mark" =>
          \A x \in c.rows : /\ ExistsIn(s, x)
                            /\ s[x].parent # Root => s[x].parent \in c.rows
    BY DEF CallOK, RowsOK, Calm, Advances, ExistsIn
  <2> QED BY <2>1, <2>2, <2>3 DEF RowsOK
<1> QED BY <1>1, <1>4, <1>5, <1>6 DEF CallOK

-----------------------------------------------------------------------------
(* Types. *)

LEMMA IdleType == Idle \in Call
BY DEF Idle, Call, NoRow, Row, Parent, Op, Step

LEMMA InitInv == Init => IInv
<1> SUFFICES ASSUME Init PROVE IInv
  OBVIOUS
<1>1. page \in [Page -> Row]
  BY DEF Init, Row, NoRow, Parent
<1>2. TypeOK
  BY <1>1, IdleType DEF Init, TypeOK, DraftRow, Parent
<1>3. TreeOK(page)
  <2>1. \A p \in Page : page[p].state = "absent" => page[p].parent = Root
    BY DEF Init, NoRow
  <2>2. \A p \in Page : page[p].parent # Root => Live(p) /\ Live(page[p].parent)
    BY <2>1 DEF Init, NoRow, Live
  <2>3. \A S \in SUBSET (Page \ Draft) : S # {} => \E p \in S : page[p].parent \notin S
    BY DEF Init, IsForest
  <2> QED BY <2>1, <2>2, <2>3 DEF TreeOK, Live, LiveIn, ExistsIn
<1>4. ASSUME NEW w \in Worker PROVE CallOK(worker[w], page, treeLock = w)
  <2>1. treeLock # w /\ worker[w] = Idle
    BY NoOneAssumption DEF Init
  <2> QED
    BY <2>1 DEF Idle, CallOK, LockOK, PageOK, MoveOK, InsertOK, RowsOK
<1> QED BY <1>2, <1>3, <1>4 DEF IInv

LEMMA TypeStep == TypeOK /\ (\A w \in Worker : PageOK(worker[w])) /\ [Next]_vars => TypeOK'
<1> SUFFICES ASSUME TypeOK, \A w \in Worker : PageOK(worker[w]), [Next]_vars
             PROVE  TypeOK'
  OBVIOUS
<1> USE IdleType DEF TypeOK
<1>1. \A w \in Worker : worker[w].op # "none" => worker[w].page \in Page
  BY DEF PageOK
<1>2. ASSUME NEW w \in Worker, End(w)
      PROVE  worker' \in [Worker -> Call] /\ treeLock' \in Worker \cup {NoOne}
  BY <1>2 DEF End
<1>3. ASSUME NEW w \in Worker, NEW step \in Step, GoTo(w, step)
      PROVE  worker' \in [Worker -> Call]
  BY <1>3 DEF GoTo, Call
<1>4. ASSUME NEW w \in Worker, NEW c \in Call, Begin(w, c) PROVE TypeOK'
  BY <1>4 DEF Begin
<1>5. ASSUME NEW w \in Worker, NEW p \in Page, NEW q \in Parent,
             BeginCreate(w, p, q) \/ BeginMove(w, p, q)
      PROVE  TypeOK'
  <2>1. [Idle EXCEPT !.op = "create", !.step = "lock", !.page = p, !.parent = q] \in Call
    BY DEF Call, Op, Step, Parent
  <2>2. [Idle EXCEPT !.op = "move", !.step = "read", !.page = p, !.parent = q,
                     !.base = page[p], !.expected = page[p]] \in Call
    BY DEF Call, Op, Step, Parent
  <2> QED BY <1>4, <1>5, <2>1, <2>2 DEF BeginCreate, BeginMove
<1>6. ASSUME NEW w \in Worker, NEW p \in Page, BeginDelete(w, p) \/ BeginRestore(w, p)
      PROVE  TypeOK'
  <2>1. /\ [Idle EXCEPT !.op = "delete", !.step = "lock", !.page = p] \in Call
        /\ [Idle EXCEPT !.op = "restore", !.step = "lock", !.page = p] \in Call
    BY DEF Call, Op, Step, Parent
  <2> QED BY <1>4, <1>6, <2>1 DEF BeginDelete, BeginRestore
<1>7. ASSUME NEW w \in Worker, NEW d \in Draft,
             BeginPublish(w, d) \/ \E q \in Parent : BeginSaveDraft(w, d, q)
      PROVE  TypeOK'
  <2>1. [Idle EXCEPT !.op = "publish", !.step = "read", !.page = d] \in Call
    BY DraftAssumption DEF Call, Op, Step, Parent
  <2>2. \A q \in Parent :
          [Idle EXCEPT !.op = "save", !.step = "check", !.page = d, !.parent = q,
                       !.draftVersion = draft[d].version] \in Call
    BY DraftAssumption DEF Call, Op, Step, Parent, DraftRow
  <2> QED BY <1>4, <1>7, <2>1, <2>2 DEF BeginPublish, BeginSaveDraft
<1>8. ASSUME NEW w \in Worker, LockWikiTree(w) PROVE TypeOK'
  BY <1>3, <1>8 DEF LockWikiTree, Step
<1>9. ASSUME NEW w \in Worker, ReadPage(w) PROVE TypeOK'
  BY <1>2, <1>3, <1>9 DEF ReadPage, Step
<1>10. ASSUME NEW w \in Worker, CheckParent(w) PROVE TypeOK'
  BY <1>2, <1>3, <1>10 DEF CheckParent, Step
<1>11. ASSUME NEW w \in Worker, WriteParent(w) PROVE TypeOK'
  <2>1. worker[w].page \in Page /\ worker[w].parent \in Parent
    BY <1>1, <1>11 DEF WriteParent, At, Call
  <2>2. page' \in [Page -> Row]
    BY <1>11, <2>1 DEF WriteParent, Row
  <2>3. worker' \in [Worker -> Call] /\ treeLock' \in Worker \cup {NoOne}
    BY <1>2, <1>3, <1>11 DEF WriteParent, Step
  <2> QED BY <1>11, <2>2, <2>3 DEF WriteParent
<1>12. ASSUME NEW w \in Worker, Reread(w) PROVE TypeOK'
  <2>1. worker[w].page \in Page /\ worker[w] \in Call
    BY <1>1, <1>12 DEF Reread, At
  <2>2. page[worker[w].page] \in Row
    BY <2>1
  <2>3. MergedValue(worker[w].base.parent, worker[w].parent, page[worker[w].page].parent)
          \in Parent
    BY <2>1, <2>2 DEF MergedValue, Call, Row
  <2>4. CASE End(w)
    BY <1>2, <1>12, <2>4 DEF Reread
  <2>5. CASE ~End(w)
    BY <1>12, <2>1, <2>2, <2>3, <2>5 DEF Reread, Call, Step
  <2> QED BY <2>4, <2>5
<1>13. ASSUME NEW w \in Worker, ReadDraft(w) PROVE TypeOK'
  <2>1. worker[w].page \in Draft
    BY <1>13 DEF ReadDraft, At, PageOK
  <2>2. draft[worker[w].page].parent \in Parent
    BY <2>1 DEF DraftRow
  <2>3. worker' \in [Worker -> Call] /\ treeLock' \in Worker \cup {NoOne}
    BY <1>2, <1>13, <2>2 DEF ReadDraft, Call, Step
  <2> QED BY <1>13, <2>3 DEF ReadDraft
<1>14. ASSUME NEW w \in Worker, InsertPage(w) PROVE TypeOK'
  <2>1. worker[w].page \in Page /\ worker[w].parent \in Parent
    BY <1>1, <1>14 DEF InsertPage, At, Call
  <2>2. page' \in [Page -> Row]
    BY <1>14, <2>1 DEF InsertPage, Row
  <2>3. draft' \in [Draft -> DraftRow]
    BY <1>14 DEF InsertPage, DraftRow, Parent
  <2> QED BY <1>2, <1>14, <2>2, <2>3 DEF InsertPage
<1>15. ASSUME NEW w \in Worker, CollectPages(w) PROVE TypeOK'
  <2>1. \A p : Descendants(p) \subseteq Page /\ Ancestors(p) \subseteq Page
    BY DEF Descendants, Ancestors, Reach
  <2>2. \A rows \in SUBSET Page :
          [worker[w] EXCEPT !.rows = rows, !.step = "mark"] \in Call
    <3>1. worker[w] \in Call
      OBVIOUS
    <3> QED BY <3>1 DEF Call, Step
  <2>3. PICK rows \in SUBSET Page :
          worker' = [worker EXCEPT ![w] = [worker[w] EXCEPT !.rows = rows, !.step = "mark"]]
    <3>1. CASE worker[w].op = "delete"
      BY <1>15, <2>1, <3>1 DEF CollectPages
    <3>2. CASE worker[w].op # "delete"
      BY <1>15, <2>1, <3>2 DEF CollectPages
    <3> QED BY <3>1, <3>2
  <2>4. worker' \in [Worker -> Call]
    BY <2>2, <2>3
  <2> QED BY <1>15, <2>4 DEF CollectPages
<1>16. ASSUME NEW w \in Worker, MarkDeleted(w) \/ MarkRestored(w) PROVE TypeOK'
  <2>1. \A row \in Row :
          /\ [row EXCEPT !.state = "deleted", !.version = @ + 1, !.generation = @ + 1]
               \in Row
          /\ [row EXCEPT !.state = "live", !.version = @ + 1] \in Row
    <3> TAKE row \in Row
    <3>1. row.version + 1 \in Nat /\ row.generation + 1 \in Nat
      BY DEF Row
    <3> QED BY <3>1 DEF Row
  <2>2. page' \in [Page -> Row]
    BY <1>16, <2>1 DEF MarkDeleted, MarkRestored
  <2> QED BY <1>2, <1>16, <2>2 DEF MarkDeleted, MarkRestored
<1>17. ASSUME NEW w \in Worker, WriteDraft(w) PROVE TypeOK'
  <2>1. worker[w].page \in Draft /\ worker[w] \in Call
    BY <1>17 DEF WriteDraft, At, PageOK
  <2>2. draft' \in [Draft -> DraftRow]
    BY <1>17, <2>1 DEF WriteDraft, DraftRow, Call
  <2> QED BY <1>2, <1>17, <2>2 DEF WriteDraft
<1>18. ASSUME NEW w \in Worker, Stop(w) PROVE TypeOK'
  BY <1>2, <1>18 DEF Stop
<1>19. ASSUME NEW p \in Page, Rollback(p) PROVE TypeOK'
  BY <1>19 DEF Rollback, Row
<1>20. ASSUME NEW d \in Draft, DeleteDraft(d) PROVE TypeOK'
  BY <1>20 DEF DeleteDraft, DraftRow, Parent
<1>21. CASE UNCHANGED vars
  BY <1>21 DEF vars
<1> QED
  BY <1>5, <1>6, <1>7, <1>8, <1>9, <1>10, <1>11, <1>12, <1>13, <1>14, <1>15, <1>16,
     <1>17, <1>18, <1>19, <1>20, <1>21 DEF Next

-----------------------------------------------------------------------------
(* The shapes a step can have. *)

LEMMA IdleOK == ASSUME NEW r PROVE CallOK(Idle, r, FALSE)
BY DEF Idle, CallOK, LockOK, PageOK, MoveOK, InsertOK, RowsOK

\* A step of w that leaves the rows alone owes the invariant for w only.
LEMMA OneCall ==
  ASSUME IInv, TypeOK', NEW w \in Worker, page' = page,
         CallOK(worker'[w], page, treeLock' = w),
         \A v \in Worker \ {w} : worker'[v] = worker[v] /\ ((treeLock' = v) <=> (treeLock = v))
  PROVE  IInv'
<1>1. ASSUME NEW v \in Worker PROVE CallOK(worker'[v], page, treeLock' = v)
  <2>1. CASE v = w
    BY <2>1
  <2>2. CASE v # w
    <3>1. (treeLock' = v) = (treeLock = v)
      BY <2>2
    <3> QED BY <2>2, <3>1 DEF IInv
  <2> QED BY <2>1, <2>2
<1>2. TreeOK(page')
  BY DEF IInv
<1> QED BY <1>1, <1>2 DEF IInv

LEMMA EndFacts ==
  ASSUME TypeOK, NEW w \in Worker, End(w)
  PROVE  /\ worker'[w] = Idle /\ treeLock' # w
         /\ \A v \in Worker \ {w} :
              worker'[v] = worker[v] /\ ((treeLock' = v) <=> (treeLock = v))
BY NoOneAssumption DEF End, TypeOK

\* Giving up, or finishing without a write.
LEMMA EndStep ==
  ASSUME IInv, TypeOK', NEW w \in Worker, End(w), page' = page
  PROVE  IInv'
<1>1. (treeLock' = w) = FALSE /\ worker'[w] = Idle
  BY EndFacts DEF IInv
<1>2. CallOK(worker'[w], page, treeLock' = w)
  BY <1>1, IdleOK
<1> QED BY <1>2, EndFacts, OneCall DEF IInv

LEMMA GoToFacts ==
  ASSUME TypeOK, NEW w \in Worker, NEW step, GoTo(w, step)
  PROVE  /\ worker'[w] = [worker[w] EXCEPT !.step = step]
         /\ \A v \in Worker \ {w} : worker'[v] = worker[v]
BY DEF GoTo, TypeOK

\* A committed write: the others tolerate it, whether or not w held the lock.
LEMMA WriteStep ==
  ASSUME IInv, TypeOK', NEW w \in Worker, End(w), TreeOK(page'),
         Advances(page, page'), treeLock = w \/ Calm(page, page')
  PROVE  IInv'
<1>1. \A v \in Worker : worker[v] \in Call /\ CallOK(worker[v], page, treeLock = v)
  BY DEF IInv, TypeOK
<1>2. page \in [Page -> Row] /\ page' \in [Page -> Row]
  BY DEF IInv, TypeOK
<1>3. ASSUME NEW v \in Worker PROVE CallOK(worker'[v], page', treeLock' = v)
  <2>1. CASE v = w
    <3>1. (treeLock' = v) = FALSE /\ worker'[v] = Idle
      BY <2>1, EndFacts DEF IInv
    <3> QED BY <3>1, IdleOK
  <2>2. CASE v # w
    <3>1. worker'[v] = worker[v] /\ (treeLock' = v) = (treeLock = v)
      BY <2>2, EndFacts DEF IInv
    <3>2. CASE treeLock = w
      <4>1. (treeLock = v) = FALSE
        BY <2>2, <3>2
      <4> QED BY <1>1, <1>2, <3>1, <4>1, UnlockedStable
    <3>3. CASE Calm(page, page')
      <4> QED BY <1>1, <1>2, <3>1, <3>3, LockedStable
    <3> QED BY <3>2, <3>3
  <2> QED BY <2>1, <2>2
<1> QED BY <1>3 DEF IInv

-----------------------------------------------------------------------------
(* What the recursive queries are for. *)

LEMMA ReachClosed ==
  ASSUME NEW next, NEW p \in Page
  PROVE  /\ p \in Reach(next, p)
         /\ \A x \in Reach(next, p), y \in Page : y \in next[x] => y \in Reach(next, p)
BY DEF Reach, Closed

\* Nothing is reached but the start and what some reached page leads to.
LEMMA ReachMinimal ==
  ASSUME NEW next, NEW p \in Page, NEW x \in Reach(next, p), x # p,
         \A y \in Reach(next, p) : next[y] \subseteq Page
  PROVE  \E y \in Reach(next, p) : x \in next[y]
<1> SUFFICES ASSUME \A y \in Reach(next, p) : x \notin next[y] PROVE FALSE
  OBVIOUS
<1> DEFINE S == Reach(next, p) \ {x}
<1>1. S \in SUBSET Page /\ p \in S
  BY ReachClosed DEF Reach
<1>2. ASSUME NEW y \in S, NEW z \in next[y] PROVE z \in S
  BY <1>2, ReachClosed
<1>3. Closed(next, S)
  BY <1>2 DEF Closed
<1> HIDE DEF S
<1>4. x \in S
  BY <1>1, <1>3 DEF Reach
<1> QED BY <1>4 DEF S

\* The cycle check of a move: from the new parent upwards, live pages that are
\* not below the moved page lead to live pages that are not below it.
LEMMA ValidMoveIsSafe ==
  ASSUME TypeOK, TreeOK(page), NEW p \in Page, NEW q, Live(p), ValidMove(p, q)
  PROVE  SafeUnder(page, p, q)
<1> DEFINE below == Reach(LiveChildren, p)
           U == {x \in Page : Live(x) /\ x \notin below}
<1>1. p \in below /\ \A x \in below, y \in Page : y \in LiveChildren[x] => y \in below
  BY ReachClosed
<1>2. q \in U /\ p \notin U
  BY <1>1 DEF ValidMove, LiveDescendants, Live
<1>3. ASSUME NEW x \in U, x \notin Draft, page[x].parent # Root
      PROVE  page[x].parent \in U
  <2>1. Live(x) /\ Live(page[x].parent)
    BY <1>3 DEF TreeOK, Live, LiveIn
  <2>2. page[x].parent \notin below
    <3> SUFFICES ASSUME page[x].parent \in below PROVE FALSE
      OBVIOUS
    <3>1. x \in LiveChildren[page[x].parent]
      BY <2>1 DEF LiveChildren, Live
    <3> QED BY <1>1, <3>1
  <2> QED BY <2>1, <2>2 DEF Live
<1>4. \A x \in U : LiveIn(page, x)
  BY DEF LiveIn, Live
<1> HIDE DEF U
<1>5. U \in SUBSET Page
  BY DEF U
<1> QED BY <1>2, <1>3, <1>4, <1>5 DEF SafeUnder

\* A delete takes everything below its page, a restore everything above too.
LEMMA DescendantsClosed ==
  ASSUME NEW p \in Page, NEW x \in Page, page[x].state # "absent",
         page[x].parent \in Descendants(p)
  PROVE  x \in Descendants(p)
<1>1. page[x].parent \in Page
  BY DEF Descendants, Reach
<1>2. x \in Children[page[x].parent]
  BY <1>1 DEF Children, Exists
<1> QED BY <1>2, ReachClosed DEF Descendants

LEMMA RestoredClosed ==
  ASSUME TypeOK, TreeOK(page), NEW p \in Page, Exists(p),
         NEW x \in Descendants(p) \cup Ancestors(p)
  PROVE  /\ ExistsIn(page, x)
         /\ page[x].parent # Root => page[x].parent \in Descendants(p) \cup Ancestors(p)
<1> DEFINE up(y) == page[y].parent
<1>1. \A y \in Page : up(y) # Root => up(y) \in Page
  BY DEF TreeOK, ExistsIn
<1>2. \A y \in Ancestors(p) : y \in Page /\ (up(y) # Root => up(y) \in Ancestors(p))
  <2> TAKE y \in Ancestors(p)
  <2>1. y \in Page
    BY DEF Ancestors, Reach
  <2>2. ASSUME up(y) # Root PROVE up(y) \in Parents[y]
    BY <1>1, <2>1, <2>2 DEF Parents
  <2> QED BY <1>1, <2>1, <2>2, ReachClosed DEF Ancestors
<1>3. CASE x \in Ancestors(p)
  <2>1. x \in Page /\ (up(x) # Root => up(x) \in Ancestors(p))
    BY <1>2, <1>3
  <2>2. ExistsIn(page, x)
    <3>1. CASE x = p
      BY <3>1 DEF Exists, ExistsIn
    <3>2. CASE x # p
      <4>1. \A y \in Ancestors(p) : y \in Page /\ Parents[y] \subseteq Page
        BY DEF Ancestors, Reach, Parents
      <4>2. PICK y \in Ancestors(p) : x \in Parents[y]
        BY <1>3, <3>2, <4>1, ReachMinimal DEF Ancestors
      <4>3. y \in Page /\ x = up(y)
        BY <4>1, <4>2 DEF Parents
      <4> QED BY <4>3, <2>1, RootAssumption DEF TreeOK
    <3> QED BY <3>1, <3>2
  <2> QED BY <2>1, <2>2
<1>4. CASE x \in Descendants(p) /\ x # p
  <2>1. \A y \in Descendants(p) : y \in Page /\ Children[y] \subseteq Page
    BY DEF Descendants, Reach, Children
  <2>2. PICK y \in Descendants(p) : x \in Children[y]
    BY <1>4, <2>1, ReachMinimal DEF Descendants
  <2>3. x \in Page /\ Exists(x) /\ up(x) = y
    BY <2>1, <2>2 DEF Children
  <2> QED BY <2>2, <2>3 DEF ExistsIn, Exists
<1>5. p \in Ancestors(p)
  BY ReachClosed DEF Ancestors
<1> QED BY <1>3, <1>4, <1>5

-----------------------------------------------------------------------------
(* The tree under each kind of write. *)

\* Nothing that the tree is made of changed.
LEMMA SameTree ==
  ASSUME NEW r, NEW s, TreeOK(r),
         \A p \in Page : s[p].state = r[p].state /\ s[p].parent = r[p].parent
  PROVE  TreeOK(s)
BY DEF TreeOK, LiveIn, ExistsIn

\* A page is put under a live page that is safe for it.
LEMMA MovedTree ==
  ASSUME NEW r, NEW s, NEW p \in Page, NEW q, TreeOK(r), LiveIn(r, p),
         q = Root \/ LiveIn(r, q), SafeUnder(r, p, q),
         \A x \in Page : s[x].state = r[x].state,
         \A x \in Page : s[x].parent = IF x = p THEN q ELSE r[x].parent
  PROVE  TreeOK(s)
<1>1. \A x \in Page : s[x].state = "absent" => s[x].parent = Root
  BY DEF TreeOK, LiveIn
<1>2. \A x \in Page : s[x].parent # Root => ExistsIn(s, s[x].parent)
  BY DEF TreeOK, LiveIn, ExistsIn
<1>3. \A x \in Page : LiveIn(s, x) /\ s[x].parent # Root
                     => LiveIn(s, s[x].parent) \/ x \in Draft
  BY DEF TreeOK, LiveIn
<1>4. ASSUME NEW S \in SUBSET (Page \ Draft), S # {}, \A x \in S : s[x].parent \in S
      PROVE  FALSE
  <2>1. CASE p \notin S
    <3>1. \A x \in S : r[x].parent \in S
      BY <1>4, <2>1
    <3> QED BY <1>4, <3>1 DEF TreeOK
  <2>2. CASE p \in S
    <3>1. q \in S /\ q # Root
      BY <1>4, <2>2, RootAssumption
    <3>2. PICK U \in SUBSET Page :
            /\ q \in U /\ p \notin U
            /\ \A x \in U : /\ LiveIn(r, x)
                            /\ x \in Draft \/ r[x].parent = Root \/ r[x].parent \in U
      BY <3>1 DEF SafeUnder
    <3>3. \A x \in S \cap U : r[x].parent \in S \cap U
      BY <1>4, <3>2, RootAssumption
    <3>4. S \cap U \in SUBSET (Page \ Draft) /\ S \cap U # {}
      BY <3>1, <3>2
    <3> QED BY <3>3, <3>4 DEF TreeOK
  <2> QED BY <2>1, <2>2
<1> QED BY <1>1, <1>2, <1>3, <1>4 DEF TreeOK

\* A new page, under a live page unless it is published from a draft.
LEMMA InsertedTree ==
  ASSUME NEW r, NEW s, NEW p \in Page, NEW q, TreeOK(r), r[p].state = "absent",
         q = Root \/ ExistsIn(r, q), q = Root \/ LiveIn(r, q) \/ p \in Draft,
         s[p].state = "live", s[p].parent = q,
         \A x \in Page \ {p} : s[x] = r[x]
  PROVE  TreeOK(s)
<1>1. \A x \in Page : s[x].state = "absent" => s[x].parent = Root
  BY DEF TreeOK
<1>2. \A x \in Page : s[x].parent # Root => ExistsIn(s, s[x].parent)
  BY DEF TreeOK, ExistsIn
<1>3. \A x \in Page : LiveIn(s, x) /\ s[x].parent # Root
                     => LiveIn(s, s[x].parent) \/ x \in Draft
  BY DEF TreeOK, LiveIn
<1>4. ASSUME NEW S \in SUBSET (Page \ Draft), S # {}, \A x \in S : s[x].parent \in S
      PROVE  FALSE
  <2>1. \A x \in S \ {p} : r[x].parent \in S \ {p}
    <3> TAKE x \in S \ {p}
    <3>1. r[x].parent \in S /\ r[x].parent # Root
      BY <1>4, RootAssumption
    <3>2. r[x].parent # p
      BY <3>1 DEF TreeOK, ExistsIn
    <3> QED BY <3>1, <3>2
  <2>2. CASE p \in S
    <3>1. q \in S /\ q # Root /\ q # p
      BY <1>4, <2>2, RootAssumption DEF ExistsIn
    <3> QED BY <2>1, <3>1 DEF TreeOK
  <2>3. CASE p \notin S
    BY <1>4, <2>1, <2>3 DEF TreeOK
  <2> QED BY <2>2, <2>3
<1> QED BY <1>1, <1>2, <1>3, <1>4 DEF TreeOK

\* Pages change between live and deleted, and no live page but a published
\* one is left under a deleted page.
LEMMA MarkedTree ==
  ASSUME NEW r, NEW s, TreeOK(r),
         \A p \in Page : s[p].parent = r[p].parent,
         \A p \in Page : s[p].state = "absent" <=> r[p].state = "absent",
         \A p \in Page : LiveIn(s, p) /\ s[p].parent # Root
                         => LiveIn(s, s[p].parent) \/ p \in Draft
  PROVE  TreeOK(s)
BY DEF TreeOK, ExistsIn

-----------------------------------------------------------------------------
(* One lemma per group of actions. *)

LEMMA BeginStep ==
  ASSUME IInv, TypeOK', NEW w \in Worker, NEW c, Begin(w, c),
         worker[w].step = "idle" => CallOK(c, page, FALSE)
  PROVE  IInv'
<1>1. worker[w].step = "idle" /\ treeLock # w
  BY DEF Begin, IInv, CallOK, LockOK
<1>2. worker'[w] = c /\ (treeLock' = w) = FALSE
  BY <1>1 DEF Begin, IInv, TypeOK
<1>3. CallOK(worker'[w], page, treeLock' = w)
  BY <1>1, <1>2
<1>4. page' = page
      /\ \A v \in Worker \ {w} : worker'[v] = worker[v] /\ ((treeLock' = v) <=> (treeLock = v))
  BY DEF Begin, IInv, TypeOK
<1> QED BY <1>3, <1>4, OneCall

LEMMA BeginsStep ==
  ASSUME IInv, TypeOK', NEW w \in Worker,
         \/ \E p \in Page, q \in Parent : BeginCreate(w, p, q) \/ BeginMove(w, p, q)
         \/ \E p \in Page : BeginDelete(w, p) \/ BeginRestore(w, p)
         \/ \E d \in Draft : BeginPublish(w, d) \/ \E q \in Parent : BeginSaveDraft(w, d, q)
  PROVE  IInv'
<1> USE DEF Idle, CallOK, LockOK, PageOK, MoveOK, InsertOK, RowsOK
<1>1. ASSUME NEW p \in Page, NEW q \in Parent, BeginCreate(w, p, q) PROVE IInv'
  BY <1>1, BeginStep DEF BeginCreate
<1>2. ASSUME NEW p \in Page, NEW q \in Parent, BeginMove(w, p, q) PROVE IInv'
  <2> DEFINE c == [Idle EXCEPT !.op = "move", !.step = "read", !.page = p, !.parent = q,
                               !.base = page[p], !.expected = page[p]]
  <2>1. page[p].version \in Nat
    BY DEF IInv, TypeOK, Row
  <2>2. /\ c.op = "move" /\ c.step = "read" /\ c.page = p /\ c.retry = FALSE
        /\ c.expected = page[p] /\ c.base = page[p]
    OBVIOUS
  <2>3. ExistsIn(page, p)
    BY <1>2 DEF BeginMove, ExistsIn, Live
  <2>4. Begin(w, c)
    BY <1>2 DEF BeginMove
  <2> HIDE DEF c
  <2>5. CallOK(c, page, FALSE)
    BY <2>1, <2>2, <2>3
  <2> QED BY <2>4, <2>5, BeginStep
<1>3. ASSUME NEW p \in Page, BeginDelete(w, p) \/ BeginRestore(w, p) PROVE IInv'
  BY <1>3, BeginStep DEF BeginDelete, BeginRestore, ExistsIn, Live
<1>4. ASSUME NEW d \in Draft, BeginPublish(w, d) PROVE IInv'
  BY <1>4, BeginStep, DraftAssumption DEF BeginPublish
<1>5. ASSUME NEW d \in Draft, NEW q \in Parent, BeginSaveDraft(w, d, q) PROVE IInv'
  BY <1>5, BeginStep, DraftAssumption DEF BeginSaveDraft
<1> QED BY <1>1, <1>2, <1>3, <1>4, <1>5

LEMMA LockStep ==
  ASSUME IInv, TypeOK', NEW w \in Worker, LockWikiTree(w)
  PROVE  IInv'
<1> DEFINE c == worker[w]
<1>1. PICK step \in {"collect", "check"} :
        GoTo(w, step) /\ (step = "collect" <=> c.op \in {"delete", "restore"})
  BY DEF LockWikiTree
<1>2. worker'[w] = [c EXCEPT !.step = step] /\ c \in Call
      /\ \A v \in Worker \ {w} : worker'[v] = worker[v]
  BY <1>1, GoToFacts DEF IInv, TypeOK
<1>3. \A v \in Worker \ {w} : treeLock' # v /\ treeLock # v
  BY NoOneAssumption DEF LockWikiTree
<1>4. c.step = "lock" /\ CallOK(c, page, FALSE)
  <2>1. (treeLock = w) = FALSE
    BY NoOneAssumption DEF LockWikiTree
  <2> QED BY <2>1 DEF LockWikiTree, IInv
<1>5. CallOK([c EXCEPT !.step = step], page, TRUE)
  BY <1>1, <1>2, <1>4 DEF Call, CallOK, LockOK, PageOK, MoveOK, InsertOK, RowsOK
<1>6. (treeLock' = w) = TRUE /\ page' = page
  BY DEF LockWikiTree
<1> QED BY <1>2, <1>3, <1>5, <1>6, OneCall

LEMMA ReadPageStep ==
  ASSUME IInv, TypeOK', NEW w \in Worker, ReadPage(w)
  PROVE  IInv'
<1> DEFINE c == worker[w]
<1>1. page' = page /\ c \in Call /\ c.op = "move" /\ c.step = "read"
  BY DEF ReadPage, At, IInv, TypeOK
<1>2. CASE End(w)
  BY <1>1, <1>2, EndStep
<1>3. CASE ~End(w)
  <2>1. PICK step \in {"lock", "write"} :
          /\ GoTo(w, step) /\ UNCHANGED treeLock
          /\ step = "write" => c.parent = page[c.page].parent
    BY <1>3 DEF ReadPage
  <2>2. worker'[w] = [c EXCEPT !.step = step]
        /\ \A v \in Worker \ {w} : worker'[v] = worker[v]
    BY <2>1, GoToFacts DEF IInv
  <2>3. (treeLock' = w) = FALSE /\ CallOK(c, page, FALSE)
    <3>1. CallOK(c, page, treeLock = w)
      BY DEF IInv
    <3>2. (treeLock = w) = FALSE
      BY <1>1, <3>1 DEF CallOK, LockOK
    <3> QED BY <2>1, <3>1, <3>2
  <2>4. CallOK([c EXCEPT !.step = step], page, FALSE)
    BY <1>1, <2>1, <2>3 DEF Call, CallOK, LockOK, PageOK, MoveOK, InsertOK, RowsOK
  <2> QED BY <1>1, <2>1, <2>2, <2>3, <2>4, OneCall
<1> QED BY <1>2, <1>3

LEMMA CheckStep ==
  ASSUME IInv, TypeOK', NEW w \in Worker, CheckParent(w)
  PROVE  IInv'
<1> DEFINE c == worker[w]
<1>1. page' = page /\ c \in Call /\ c.step = "check" /\ CallOK(c, page, treeLock = w)
  BY DEF CheckParent, IInv, TypeOK
<1>2. CASE End(w)
  BY <1>1, <1>2, EndStep
<1>3. CASE ~End(w)
  <2>1. ValidParent(c) /\ GoTo(w, "write") /\ UNCHANGED treeLock
    BY <1>3 DEF CheckParent
  <2>2. worker'[w] = [c EXCEPT !.step = "write"]
        /\ \A v \in Worker \ {w} : worker'[v] = worker[v]
    BY <2>1, GoToFacts DEF IInv
  <2>3. c.op \in {"create", "publish", "move"} => c.parent = Root \/ LiveIn(page, c.parent)
    BY <2>1 DEF ValidParent, ValidMove, Live, LiveIn
  <2>4. c.op = "move" /\ LiveIn(page, c.page) => SafeUnder(page, c.page, c.parent)
    BY <2>1, ValidMoveIsSafe DEF ValidParent, SafeUnder, IInv, LiveIn, Live
  <2>5. c.op = "move" => treeLock = w
    BY <1>1 DEF CallOK, LockOK
  <2>6. CallOK([c EXCEPT !.step = "write"], page, treeLock = w)
    <3> DEFINE d == [c EXCEPT !.step = "write"]
    <3>1. LockOK(d, treeLock = w) /\ PageOK(d)
      BY <1>1 DEF CallOK, LockOK, PageOK, Call
    <3>2. MoveOK(d, page, treeLock = w)
      BY <1>1, <2>3, <2>4, <2>5 DEF CallOK, MoveOK, Call
    <3>3. InsertOK(d, page)
      BY <1>1, <2>3 DEF InsertOK, Call, LiveIn, ExistsIn
    <3>4. RowsOK(d, page)
      BY <1>1 DEF CallOK, RowsOK, Call
    <3> QED BY <3>1, <3>2, <3>3, <3>4 DEF CallOK
  <2>7. treeLock' = treeLock
    BY <2>1
  <2> QED BY <1>1, <2>2, <2>6, <2>7, OneCall
<1> QED BY <1>2, <1>3

LEMMA RereadStep ==
  ASSUME IInv, TypeOK', NEW w \in Worker, Reread(w)
  PROVE  IInv'
<1> DEFINE c == worker[w]
           d == worker'[w]
           latest == page[c.page]
           merged == MergedValue(c.base.parent, c.parent, latest.parent)
<1>1. page' = page /\ c \in Call /\ c.op = "move" /\ c.step = "reread"
  BY DEF Reread, At, IInv, TypeOK
<1>2. CASE End(w)
  BY <1>1, <1>2, EndStep
<1>3. CASE ~End(w)
  <2>1. CallOK(c, page, FALSE) /\ (treeLock' = w) = FALSE
    <3>1. CallOK(c, page, treeLock = w)
      BY DEF IInv
    <3>2. (treeLock = w) = FALSE
      BY <1>1, <3>1 DEF CallOK, LockOK
    <3> QED BY <1>3, <3>1, <3>2 DEF Reread
  <2>2. /\ d.op = c.op /\ d.page = c.page /\ d.base = c.base
        /\ d.parent = merged /\ d.expected = latest /\ d.retry = TRUE
        /\ d.step = IF merged # latest.parent THEN "lock" ELSE "write"
        /\ \A v \in Worker \ {w} : worker'[v] = worker[v]
    BY <1>1, <1>3 DEF Reread, IInv, TypeOK, Call
  <2>3. ExistsIn(page, c.page) /\ latest.version \in Nat
    BY <1>1, <2>1 DEF CallOK, MoveOK, ExistsIn, IInv, TypeOK, Row
  <2>4. latest.generation = c.base.generation
        /\ ~MergeConflict(c.base.parent, c.parent, latest.parent)
    BY <1>3 DEF Reread
  <2>5. merged = latest.parent \/ c.base.parent = latest.parent
    BY <2>4 DEF MergeConflict, MergedValue
  <2>6. CallOK(d, page, FALSE)
    <3>1. LockOK(d, FALSE) /\ PageOK(d)
      BY <1>1, <2>1, <2>2 DEF CallOK, LockOK, PageOK
    <3>2. MoveOK(d, page, FALSE)
      BY <1>1, <2>2, <2>3, <2>4, <2>5 DEF MoveOK
    <3>3. InsertOK(d, page) /\ RowsOK(d, page)
      BY <1>1, <2>2 DEF InsertOK, RowsOK
    <3> QED BY <3>1, <3>2, <3>3 DEF CallOK
  <2>7. treeLock' = treeLock
    BY <1>3 DEF Reread
  <2> QED BY <1>1, <2>1, <2>2, <2>6, <2>7, OneCall
<1> QED BY <1>2, <1>3

LEMMA WriteParentStep ==
  ASSUME IInv, TypeOK', NEW w \in Worker, WriteParent(w)
  PROVE  IInv'
<1> DEFINE c == worker[w]
           row == page[c.page]
<1>1. c \in Call /\ c.op = "move" /\ c.step = "write" /\ CallOK(c, page, treeLock = w)
  BY DEF WriteParent, At, IInv, TypeOK
<1>2. c.page \in Page /\ page \in [Page -> Row] /\ TreeOK(page)
  BY <1>1 DEF CallOK, PageOK, IInv, TypeOK
<1>3. CASE /\ row.state = "live"
           /\ row.version = c.expected.version
           /\ row.generation = c.expected.generation
  <2>1. End(w) /\ page' = [page EXCEPT ![c.page].parent = c.parent,
                                      ![c.page].version = @ + 1]
    BY <1>3 DEF WriteParent
  <2>2. /\ \A x \in Page : page'[x].state = page[x].state
        /\ \A x \in Page : page'[x].parent = IF x = c.page THEN c.parent ELSE page[x].parent
        /\ \A x \in Page : page'[x].version = IF x = c.page THEN page[x].version + 1
                                             ELSE page[x].version
    BY <1>2, <2>1 DEF Row
  <2>3. \A x \in Page : page[x].version \in Nat
    BY <1>2 DEF Row
  <2>4. Advances(page, page')
    BY <2>2, <2>3 DEF Advances
  <2>5. CASE treeLock = w
    <3>1. /\ c.parent = Root \/ LiveIn(page, c.parent)
          /\ SafeUnder(page, c.page, c.parent)
      BY <1>1, <1>2, <1>3, <2>5 DEF CallOK, MoveOK, LiveIn
    <3>2. LiveIn(page, c.page)
      BY <1>2, <1>3 DEF LiveIn
    <3>3. TreeOK(page')
      BY <1>2, <2>2, <3>1, <3>2, MovedTree
    <3> QED BY <2>1, <2>4, <2>5, <3>3, WriteStep
  <2>6. CASE treeLock # w
    <3>1. row.parent = c.parent
      BY <1>1, <1>3, <2>6 DEF CallOK, MoveOK
    <3>2. \A x \in Page : page'[x].state = page[x].state /\ page'[x].parent = page[x].parent
      BY <2>2, <3>1
    <3>3. Calm(page, page')
      BY <3>2 DEF Calm
    <3>4. TreeOK(page')
      BY <1>2, <3>2, SameTree
    <3> QED BY <2>1, <2>4, <3>3, <3>4, WriteStep
  <2> QED BY <2>5, <2>6
<1>4. CASE ~ /\ row.state = "live"
             /\ row.version = c.expected.version
             /\ row.generation = c.expected.generation
  <2>1. page' = page
    BY <1>4 DEF WriteParent
  <2>2. CASE c.retry
    BY <1>4, <2>1, <2>2, EndStep DEF WriteParent
  <2>3. CASE ~c.retry
    <3>1. GoTo(w, "reread") /\ treeLock' = IF treeLock = w THEN NoOne ELSE treeLock
      BY <1>4, <2>3 DEF WriteParent
    <3>2. worker'[w] = [c EXCEPT !.step = "reread"]
          /\ \A v \in Worker \ {w} : worker'[v] = worker[v]
      BY <3>1, GoToFacts DEF IInv
    <3>3. (treeLock' = w) = FALSE
          /\ \A v \in Worker \ {w} : (treeLock' = v) <=> (treeLock = v)
      BY <3>1, NoOneAssumption
    <3>4. CallOK([c EXCEPT !.step = "reread"], page, FALSE)
      BY <1>1 DEF Call, CallOK, LockOK, PageOK, MoveOK, InsertOK, RowsOK
    <3> QED BY <2>1, <3>2, <3>3, <3>4, OneCall
  <2> QED BY <2>2, <2>3
<1> QED BY <1>3, <1>4

LEMMA ReadDraftStep ==
  ASSUME IInv, TypeOK', NEW w \in Worker, ReadDraft(w)
  PROVE  IInv'
<1> DEFINE c == worker[w]
           d == worker'[w]
<1>1. page' = page /\ c \in Call /\ c.op = "publish" /\ c.step = "read"
      /\ CallOK(c, page, treeLock = w)
  BY DEF ReadDraft, At, IInv, TypeOK
<1>2. CASE End(w)
  BY <1>1, <1>2, EndStep
<1>3. CASE ~End(w)
  <2>1. /\ d.op = c.op /\ d.page = c.page /\ d.step = "check" /\ treeLock' = treeLock
        /\ \A v \in Worker \ {w} : worker'[v] = worker[v]
    BY <1>1, <1>3 DEF ReadDraft, IInv, TypeOK, Call
  <2>2. CallOK(d, page, treeLock = w)
    BY <1>1, <2>1 DEF CallOK, LockOK, PageOK, MoveOK, InsertOK, RowsOK
  <2> QED BY <1>1, <2>1, <2>2, OneCall
<1> QED BY <1>2, <1>3

LEMMA InsertStep ==
  ASSUME IInv, TypeOK', NEW w \in Worker, InsertPage(w)
  PROVE  IInv'
<1> DEFINE c == worker[w]
<1>1. c.op \in {"create", "publish"} /\ c.step = "write" /\ End(w)
      /\ CallOK(c, page, treeLock = w)
  BY DEF InsertPage, At, IInv
<1>2. c.page \in Page /\ page \in [Page -> Row] /\ TreeOK(page)
  BY <1>1 DEF CallOK, PageOK, IInv, TypeOK
<1>3. CASE Exists(c.page)
  BY <1>1, <1>3, EndStep DEF InsertPage
<1>4. CASE ~Exists(c.page)
  <2>1. /\ page[c.page].state = "absent"
        /\ page'[c.page].state = "live" /\ page'[c.page].parent = c.parent
        /\ \A x \in Page \ {c.page} : page'[x] = page[x]
    BY <1>2, <1>4 DEF InsertPage, Exists
  <2>2. c.parent = Root \/ LiveIn(page, c.parent)
        \/ (c.page \in Draft /\ ExistsIn(page, c.parent))
    BY <1>1 DEF CallOK, InsertOK, PageOK
  <2>3. TreeOK(page')
    BY <1>2, <2>1, <2>2, InsertedTree DEF LiveIn, ExistsIn
  <2>4. Advances(page, page')
    <3>1. \A x \in Page : page[x].version \in Nat
      BY <1>2 DEF Row
    <3> QED BY <2>1, <3>1 DEF Advances
  <2>5. treeLock = w \/ Calm(page, page')
    <3>1. CASE c.op = "create"
      BY <1>1, <3>1 DEF CallOK, LockOK
    <3>2. CASE c.op = "publish"
      <4>1. c.page \in Draft
        BY <1>1, <3>2 DEF CallOK, PageOK
      <4> QED BY <2>1, <4>1 DEF Calm
    <3> QED BY <1>1, <3>1, <3>2
  <2> QED BY <1>1, <2>3, <2>4, <2>5, WriteStep
<1> QED BY <1>3, <1>4

LEMMA CollectStep ==
  ASSUME IInv, TypeOK', NEW w \in Worker, CollectPages(w)
  PROVE  IInv'
<1> DEFINE c == worker[w]
           d == worker'[w]
<1>1. page' = page /\ c \in Call /\ c.op \in {"delete", "restore"} /\ c.step = "collect"
      /\ CallOK(c, page, treeLock = w) /\ TreeOK(page) /\ TypeOK
  BY DEF CollectPages, At, IInv, TypeOK
<1>2. /\ d.op = c.op /\ d.page = c.page /\ d.step = "mark" /\ treeLock' = treeLock
      /\ d.rows = IF c.op = "delete" THEN Descendants(c.page)
                  ELSE Descendants(c.page) \cup Ancestors(c.page)
      /\ \A v \in Worker \ {w} : worker'[v] = worker[v]
  BY <1>1 DEF CollectPages, IInv, TypeOK, Call
<1>3. ExistsIn(page, c.page) /\ c.page \in Page /\ Exists(c.page)
  BY <1>1 DEF CallOK, RowsOK, ExistsIn, Exists
<1>4. c.op = "delete" => \A x \in Page : page[x].parent \in d.rows => x \in d.rows
  <2>1. \A x \in Page : page[x].parent \in Descendants(c.page) => page[x].state # "absent"
    BY <1>1, RootAssumption DEF TreeOK, Descendants, Reach
  <2> QED BY <1>2, <1>3, <2>1, DescendantsClosed
<1>5. c.op = "restore" =>
        \A x \in d.rows : /\ ExistsIn(page, x)
                          /\ page[x].parent # Root => page[x].parent \in d.rows
  BY <1>1, <1>2, <1>3, RestoredClosed
<1>6. CallOK(d, page, treeLock = w)
  <2>1. LockOK(d, treeLock = w) /\ PageOK(d)
    BY <1>1, <1>2 DEF CallOK, LockOK, PageOK
  <2>2. MoveOK(d, page, treeLock = w) /\ InsertOK(d, page)
    BY <1>1, <1>2 DEF MoveOK, InsertOK
  <2>3. RowsOK(d, page)
    BY <1>2, <1>3, <1>4, <1>5 DEF RowsOK
  <2> QED BY <2>1, <2>2, <2>3 DEF CallOK
<1> QED BY <1>1, <1>2, <1>6, OneCall

LEMMA MarkDeletedStep ==
  ASSUME IInv, TypeOK', NEW w \in Worker, MarkDeleted(w)
  PROVE  IInv'
<1> DEFINE c == worker[w]
<1>1. c.op = "delete" /\ c.step = "mark" /\ End(w) /\ CallOK(c, page, treeLock = w)
  BY DEF MarkDeleted, At, IInv
<1>2. page \in [Page -> Row] /\ TreeOK(page) /\ treeLock = w
  BY <1>1 DEF CallOK, LockOK, IInv, TypeOK
<1>3. \A x \in Page :
        /\ page'[x].state = IF x \in c.rows /\ page[x].state = "live"
                            THEN "deleted" ELSE page[x].state
        /\ page'[x].parent = page[x].parent
        /\ page'[x].version = IF x \in c.rows /\ page[x].state = "live"
                              THEN page[x].version + 1 ELSE page[x].version
  BY <1>2 DEF MarkDeleted, Row
<1>4. \A x \in Page : page[x].version \in Nat
  BY <1>2 DEF Row
<1>5. Advances(page, page')
  BY <1>3, <1>4 DEF Advances
<1>6. \A x \in Page : page[x].parent \in c.rows => x \in c.rows \/ x \in Draft
  BY <1>1 DEF CallOK, RowsOK
<1>7. \A x \in Page : LiveIn(page', x) /\ page'[x].parent # Root
                     => LiveIn(page', page'[x].parent) \/ x \in Draft
  BY <1>2, <1>3, <1>6 DEF TreeOK, LiveIn
<1>8. TreeOK(page')
  <2>1. \A x \in Page : page'[x].parent = page[x].parent
    BY <1>3
  <2>2. \A x \in Page : page'[x].state = "absent" <=> page[x].state = "absent"
    BY <1>3
  <2> QED BY <1>2, <1>7, <2>1, <2>2, MarkedTree
<1> QED BY <1>1, <1>2, <1>5, <1>8, WriteStep

LEMMA MarkRestoredStep ==
  ASSUME IInv, TypeOK', NEW w \in Worker, MarkRestored(w)
  PROVE  IInv'
<1> DEFINE c == worker[w]
<1>1. c.op = "restore" /\ c.step = "mark" /\ End(w) /\ CallOK(c, page, treeLock = w)
  BY DEF MarkRestored, At, IInv
<1>2. page \in [Page -> Row] /\ TreeOK(page) /\ treeLock = w
  BY <1>1 DEF CallOK, LockOK, IInv, TypeOK
<1>3. \A x \in Page :
        /\ page'[x].state = IF x \in c.rows /\ page[x].state = "deleted"
                            THEN "live" ELSE page[x].state
        /\ page'[x].parent = page[x].parent
        /\ page'[x].version = IF x \in c.rows /\ page[x].state = "deleted"
                              THEN page[x].version + 1 ELSE page[x].version
  BY <1>2 DEF MarkRestored, Row
<1>4. \A x \in Page : page[x].version \in Nat /\ page[x].state \in {"absent", "live", "deleted"}
  BY <1>2 DEF Row
<1>5. Advances(page, page')
  BY <1>3, <1>4 DEF Advances
<1>6. ASSUME NEW x \in c.rows
      PROVE  /\ x \in Page /\ page[x].state # "absent"
             /\ page[x].parent # Root => page[x].parent \in c.rows
  <2>1. RowsOK(c, page)
    BY <1>1 DEF CallOK
  <2> QED BY <1>1, <2>1 DEF RowsOK, ExistsIn
<1>7. ASSUME NEW x \in c.rows PROVE LiveIn(page', x)
  <2>1. x \in Page /\ page[x].state \in {"live", "deleted"}
    BY <1>4, <1>6
  <2>2. page'[x].state = "live"
    BY <1>3, <2>1
  <2> QED BY <2>1, <2>2 DEF LiveIn
<1>8. \A x \in Page : LiveIn(page', x) /\ page'[x].parent # Root
                     => LiveIn(page', page'[x].parent) \/ x \in Draft
  <2> SUFFICES ASSUME NEW x \in Page, LiveIn(page', x), page'[x].parent # Root
               PROVE  LiveIn(page', page'[x].parent) \/ x \in Draft
    OBVIOUS
  <2>1. CASE x \in c.rows
    <3>1. page[x].parent \in c.rows /\ page'[x].parent = page[x].parent
      BY <1>3, <1>6, <2>1
    <3> QED BY <1>7, <3>1
  <2>2. CASE x \notin c.rows
    <3>1. LiveIn(page, page[x].parent) \/ x \in Draft
      BY <1>2, <1>3, <2>2 DEF TreeOK, LiveIn
    <3> QED BY <1>3, <3>1 DEF LiveIn
  <2> QED BY <2>1, <2>2
<1>9. TreeOK(page')
  <2>1. \A x \in Page : page'[x].parent = page[x].parent
    BY <1>3
  <2>2. \A x \in Page : page'[x].state = "absent" <=> page[x].state = "absent"
    BY <1>3
  <2> QED BY <1>2, <1>8, <2>1, <2>2, MarkedTree
<1> QED BY <1>1, <1>2, <1>5, <1>9, WriteStep

LEMMA RollbackStep ==
  ASSUME IInv, TypeOK', NEW p \in Page, Rollback(p)
  PROVE  IInv'
<1>1. page \in [Page -> Row] /\ page' \in [Page -> Row] /\ TreeOK(page)
  BY DEF IInv, TypeOK
<1>2. \A x \in Page : /\ page'[x].state = page[x].state /\ page'[x].parent = page[x].parent
                     /\ page'[x].version \in {page[x].version, page[x].version + 1}
  BY <1>1 DEF Rollback, Row
<1>3. \A x \in Page : page[x].version \in Nat
  BY <1>1 DEF Row
<1>4. Advances(page, page') /\ Calm(page, page')
  BY <1>2, <1>3 DEF Advances, Calm
<1>5. TreeOK(page')
  BY <1>1, <1>2, SameTree
<1>6. ASSUME NEW v \in Worker PROVE CallOK(worker[v], page', treeLock = v)
  <2>1. worker[v] \in Call /\ CallOK(worker[v], page, treeLock = v)
    BY DEF IInv, TypeOK
  <2> QED BY <1>1, <1>4, <2>1, LockedStable
<1>7. worker' = worker /\ treeLock' = treeLock
  BY DEF Rollback
<1> QED BY <1>5, <1>6, <1>7 DEF IInv

LEMMA NextInv == IInv /\ [Next]_vars => IInv'
<1> SUFFICES ASSUME IInv, [Next]_vars PROVE IInv'
  OBVIOUS
<1>1. TypeOK'
  BY TypeStep DEF IInv, CallOK
<1>2. CASE UNCHANGED vars
  BY <1>2 DEF vars, IInv, TypeOK
<1>3. ASSUME NEW w \in Worker, WriteDraft(w) PROVE IInv'
  BY <1>1, <1>3, EndStep DEF WriteDraft
<1>4. ASSUME NEW w \in Worker, Stop(w) PROVE IInv'
  BY <1>1, <1>4, EndStep DEF Stop
<1>5. ASSUME NEW d \in Draft, DeleteDraft(d) PROVE IInv'
  BY <1>1, <1>5 DEF DeleteDraft, IInv
<1> QED
  BY <1>1, <1>2, <1>3, <1>4, <1>5, BeginsStep, LockStep, ReadPageStep, CheckStep,
     RereadStep, WriteParentStep, ReadDraftStep, InsertStep, CollectStep,
     MarkDeletedStep, MarkRestoredStep, RollbackStep DEF Next

-----------------------------------------------------------------------------
(* The theorems. *)

LEMMA Invariance == Spec => []IInv
BY InitInv, NextInv, PTL DEF Spec

\* Rows, drafts, the lock and the calls keep their types.
THEOREM Typing == Spec => []TypeOK
<1>1. IInv => TypeOK
  BY DEF IInv
<1> QED BY <1>1, Invariance, PTL

\* Only a page published from a draft can be live under a page that is not.
THEOREM Orphans == Spec => []OrphansArePublished
<1>1. IInv => OrphansArePublished
  BY DEF IInv, TreeOK, OrphansArePublished, Live, LiveIn
<1> QED BY <1>1, Invariance, PTL

\* Only a page published from a draft can close a cycle of parents.
THEOREM Cycles == Spec => []CyclesPassThroughPublished
<1>1. IInv => CyclesPassThroughPublished
  BY DEF IInv, TreeOK, CyclesPassThroughPublished
<1> QED BY <1>1, Invariance, PTL

\* What the lock was introduced for: where nothing is published from drafts,
\* the pages always are a forest.
THEOREM LockedForest == ASSUME Draft = {} PROVE Spec => []Forest
<1>1. IInv => Forest
  <2> SUFFICES ASSUME IInv PROVE Forest
    OBVIOUS
  <2>1. \A S \in SUBSET Page : S # {} => \E p \in S : page[p].parent \notin S
    BY DEF IInv, TreeOK
  <2> QED BY <2>1 DEF Forest, IsForest
<1> QED BY <1>1, Invariance, PTL

\* A parent is only ever replaced by an edit whose base had it, in the same
\* generation of the page.
THEOREM History == Spec => MovesRespectHistory
<1> DEFINE A == \A p \in Page :
                  Exists(p) /\ page'[p].parent # page[p].parent =>
                    \E w \in Worker :
                      /\ worker[w].op = "move" /\ worker[w].page = p
                      /\ worker[w].base.parent = page[p].parent
                      /\ worker[w].base.generation = page[p].generation
<1>1. IInv /\ [Next]_vars => [A]_vars
  <2> SUFFICES ASSUME IInv, Next, NEW p \in Page, Exists(p),
                      page'[p].parent # page[p].parent
               PROVE  \E w \in Worker :
                        /\ worker[w].op = "move" /\ worker[w].page = p
                        /\ worker[w].base.parent = page[p].parent
                        /\ worker[w].base.generation = page[p].generation
    OBVIOUS
  <2>1. page \in [Page -> Row]
    BY DEF IInv, TypeOK
  <2>2. ASSUME NEW w \in Worker, MarkDeleted(w) \/ MarkRestored(w) PROVE FALSE
    BY <2>1, <2>2 DEF MarkDeleted, MarkRestored, Row
  <2>3. ASSUME NEW w \in Worker, InsertPage(w) PROVE FALSE
    BY <2>1, <2>3 DEF InsertPage
  <2>4. ASSUME NEW q \in Page, Rollback(q) PROVE FALSE
    BY <2>1, <2>4 DEF Rollback, Row
  <2>5. PICK w \in Worker : WriteParent(w)
    BY <2>2, <2>3, <2>4 DEF Next, BeginCreate, BeginMove, BeginDelete, BeginRestore,
       BeginSaveDraft, BeginPublish, Begin, LockWikiTree, ReadPage, CheckParent, Reread,
       ReadDraft, CollectPages, WriteDraft, Stop, DeleteDraft
  <2> DEFINE c == worker[w]
  <2>6. c.op = "move" /\ MoveOK(c, page, treeLock = w) /\ c.page \in Page
    BY <2>5 DEF WriteParent, At, IInv, CallOK, MoveOK, ExistsIn
  <2>7. /\ page[c.page].version = c.expected.version
        /\ page[c.page].generation = c.expected.generation
        /\ page' = [page EXCEPT ![c.page].parent = c.parent,
                                ![c.page].version = @ + 1]
    BY <2>5 DEF WriteParent
  <2>8. p = c.page /\ c.parent # page[p].parent
    BY <2>1, <2>6, <2>7 DEF Row
  <2>9. c.base.parent = page[p].parent /\ c.base.generation = page[p].generation
    BY <2>6, <2>7, <2>8 DEF MoveOK
  <2> QED BY <2>6, <2>8, <2>9
<1> QED BY <1>1, Invariance, PTL DEF Spec, MovesRespectHistory
=============================================================================
