------------------------------ MODULE PagesProofs ------------------------------
(***************************************************************************)
(* For any sets of pages and requests: parents exist, and what is published*)
(* is stamped and announced, however stale the rows are that updates write.*)
(* The invariant adds what is true of the rows that requests hold.         *)
(***************************************************************************)
EXTENDS Pages, TLAPS

Creating == [op : {"create"}, parent : Page \cup {NoPage}]
Updating == [op : {"parent", "walk", "write"}, page : Page, prior : Row,
             parent : Page \cup {NoPage}, status : Status, publishes : BOOLEAN,
             at : Page \cup {NoPage}, misled : BOOLEAN]
RequestState == {Idle} \cup Creating \cup Updating

\* The row an update read: what was public then has been announced, for good; and the
\* update makes nothing public but what it publishes or what was public.
Sound(q) ==
    /\ q.prior.status = "PUBLISHED" => q.prior.stamped /\ q.page \in announced
    /\ q.status = "PUBLISHED" => q.publishes \/ q.prior.status = "PUBLISHED"

RequestsAreSound == /\ req \in [Request -> RequestState]
                    /\ \A r \in Request : req[r] \in Updating => Sound(req[r])

Inv == TypeOK /\ RequestsAreSound /\ ParentsExist /\ PublishedPagesAnnounced

\* Rows are rows, and the states of a request are told apart by their op.
LEMMA Distinct ==
    /\ Absent \notin Row
    /\ \A q \in Creating : q.op = "create" /\ q \notin Updating /\ q # Idle
    /\ \A q \in Updating : q.op \in {"parent", "walk", "write"} /\ q # Idle
    /\ Idle.op = "idle" /\ Idle \notin Updating
BY DEF Absent, Row, Creating, Updating, Idle

LEMMA RowsTyped ==
  ASSUME Inv
  PROVE  \A p \in Existing : p \in Page /\ rows[p] \in Row /\ ParentOf(p) \in Page \cup {NoPage}
BY DEF Inv, TypeOK, Existing, ParentOf, Row

LEMMA InitInv == Init => Inv
BY PagesAssumption, Distinct DEF Init, Inv, TypeOK, RequestsAreSound, RequestState, ParentsExist,
   PublishedPagesAnnounced, Existing

\* A step of one request that writes nothing.
LEMMA RequestStep ==
  ASSUME Inv, NEW r \in Request, NEW q \in RequestState, q \in Updating => Sound(q),
         req' = [req EXCEPT ![r] = q], updates' \in 0 .. MaxUpdates,
         UNCHANGED <<rows, created, announced, moves>>
  PROVE  Inv'
<1>1. RequestsAreSound'
  BY DEF Inv, RequestsAreSound, Sound
<1>2. TypeOK'
  BY <1>1, Distinct DEF Inv, TypeOK, Existing, RequestsAreSound, RequestState, Creating, Updating
<1>3. ParentsExist' /\ PublishedPagesAnnounced'
  BY DEF Inv, ParentsExist, PublishedPagesAnnounced, Existing, ParentOf
<1> QED BY <1>1, <1>2, <1>3 DEF Inv

LEMMA RefuseStep ==
  ASSUME Inv, NEW r \in Request, Refuse(r)
  PROVE  Inv'
BY RequestStep, Distinct DEF Refuse, RequestState, Inv, TypeOK

LEMMA CheckCreateStep ==
  ASSUME Inv, NEW r \in Request, NEW parent \in Page \cup {NoPage}, CheckCreate(r, parent)
  PROVE  Inv'
<1> DEFINE q == [op |-> "create", parent |-> parent]
<1>1. q \in Creating /\ q \notin Updating
  BY Distinct DEF Creating
<1>2. q \in RequestState
  BY <1>1 DEF RequestState
<1>3. req' = [req EXCEPT ![r] = q]
  BY DEF CheckCreate
<1> HIDE DEF q
<1> QED BY <1>1, <1>2, <1>3, RequestStep DEF CheckCreate, Inv, TypeOK

LEMMA ReadRowStep ==
  ASSUME Inv, NEW r \in Request, NEW p \in Page, NEW parent \in Page \cup {NoPage, Keep},
         NEW status \in Status \cup {Keep}, ReadRow(r, p, parent, status)
  PROVE  Inv'
<1> DEFINE q == [op |-> IF parent \in {Keep, NoPage} THEN "write" ELSE "parent",
                 page |-> p, prior |-> rows[p],
                 parent |-> Given(parent, ParentOf(p)),
                 status |-> Given(status, rows[p].status),
                 publishes |-> status = "PUBLISHED",
                 at |-> NoPage, misled |-> FALSE]
<1>1. p \in Existing /\ rows[p] \in Row /\ ParentOf(p) \in Page \cup {NoPage}
  BY RowsTyped DEF ReadRow, Active
<1>2. Given(parent, ParentOf(p)) \in Page \cup {NoPage}
  BY <1>1 DEF Given
<1>3. Given(status, rows[p].status) \in Status
  BY <1>1 DEF Given, Row
<1>4. q \in Updating
  BY <1>1, <1>2, <1>3 DEF Updating
<1>5. Sound(q)
  BY <1>1 DEF Sound, Given, Keep, Inv, PublishedPagesAnnounced, Status
<1>6. req' = [req EXCEPT ![r] = q] /\ updates' \in 0 .. MaxUpdates
  BY PagesAssumption DEF ReadRow, Inv, TypeOK
<1> HIDE DEF q
<1> QED BY <1>4, <1>5, <1>6, RequestStep DEF RequestState, ReadRow

LEMMA AdvanceStep ==
  ASSUME Inv, NEW r \in Request, req[r] \in Updating, NEW op \in {"walk", "write"},
         NEW at \in Page \cup {NoPage}, Advance(r, op, at)
  PROVE  Inv'
<1> DEFINE q == [req[r] EXCEPT !.op = op, !.at = at]
<1>1. q \in Updating
  BY DEF Updating
<1>2. /\ q.prior = req[r].prior /\ q.page = req[r].page
      /\ q.status = req[r].status /\ q.publishes = req[r].publishes
  BY DEF Updating
<1>3. Sound(q)
  BY <1>2 DEF Inv, RequestsAreSound, Sound
<1>4. req' = [req EXCEPT ![r] = q]
  BY DEF Advance, Inv, RequestsAreSound
<1> HIDE DEF q
<1> QED BY <1>1, <1>3, <1>4, RequestStep DEF Advance, RequestState, Inv, TypeOK

LEMMA ReadParentStep ==
  ASSUME Inv, NEW r \in Request, ReadParent(r)
  PROVE  Inv'
<1>1. req[r] \in Updating
  BY Distinct DEF ReadParent, Inv, RequestsAreSound, RequestState
<1>2. ParentAcceptable(req[r].parent) => ParentOf(req[r].parent) \in Page \cup {NoPage}
  BY RowsTyped DEF ParentAcceptable, Active
<1> QED BY <1>1, <1>2, AdvanceStep, RefuseStep DEF ReadParent, Climb

LEMMA WalkUpStep ==
  ASSUME Inv, NEW r \in Request, WalkUp(r)
  PROVE  Inv'
<1>1. req[r] \in Updating
  BY Distinct DEF WalkUp, Inv, RequestsAreSound, RequestState
<1>2. Readable(req[r].at) => ParentOf(req[r].at) \in Page \cup {NoPage}
  BY RowsTyped DEF Readable
<1> QED BY <1>1, <1>2, AdvanceStep, RefuseStep DEF WalkUp, Climb

LEMMA CutShortStep ==
  ASSUME Inv, NEW r \in Request, CutShort(r)
  PROVE  Inv'
<1> DEFINE q == [req[r] EXCEPT !.op = "write", !.at = NoPage, !.misled = TRUE]
<1>1. req[r] \in Updating
  BY Distinct DEF CutShort, Inv, RequestsAreSound, RequestState
<1>2. /\ q \in Updating
      /\ q.prior = req[r].prior /\ q.page = req[r].page
      /\ q.status = req[r].status /\ q.publishes = req[r].publishes
  BY <1>1 DEF Updating
<1>3. Sound(q)
  BY <1>1, <1>2 DEF Inv, RequestsAreSound, Sound
<1>4. req' = [req EXCEPT ![r] = q]
  BY DEF CutShort, Inv, RequestsAreSound
<1> HIDE DEF q
<1> QED BY <1>2, <1>3, <1>4, RequestStep DEF CutShort, RequestState, Inv, TypeOK

LEMMA StoreCreateStep ==
  ASSUME Inv, NEW r \in Request, StoreCreate(r)
  PROVE  Inv'
<1>1. CASE ~Insertable(req[r].parent)
  <2>1. req' = [req EXCEPT ![r] = Idle] /\ UNCHANGED <<rows, created, announced, updates, moves>>
    BY <1>1 DEF StoreCreate
  <2> QED BY <2>1, RefuseStep DEF Refuse
<1>2. CASE Insertable(req[r].parent)
  <2>1. PICK p \in Page \ created, status \in Status :
           /\ rows' = [rows EXCEPT ![p] =
                 [parent |-> req[r].parent, status |-> status,
                  stamped |-> status = "PUBLISHED", trashed |-> FALSE]]
           /\ created' = created \cup {p}
           /\ announced' = IF status = "PUBLISHED" THEN announced \cup {p} ELSE announced
    BY <1>2 DEF StoreCreate
  <2> DEFINE row == [parent |-> req[r].parent, status |-> status,
                     stamped |-> status = "PUBLISHED", trashed |-> FALSE]
  <2>2. req[r].parent \in Existing \cup {NoPage}
    BY <1>2 DEF Insertable
  <2>3. row \in Row /\ row # Absent
    <3>1. (status = "PUBLISHED") \in BOOLEAN /\ req[r].parent \in Page \cup {NoPage}
      BY <2>2 DEF Existing
    <3>2. row \in Row
      BY <3>1 DEF Row
    <3> QED BY <3>2, Distinct
  <2>4. /\ rows' = [rows EXCEPT ![p] = row]
        /\ row.parent = req[r].parent
        /\ row.status = "PUBLISHED" => row.stamped /\ p \in announced'
    BY <2>1
  <2>5. /\ req' = [req EXCEPT ![r] = Idle]
        /\ announced \subseteq announced'
        /\ UNCHANGED <<updates, moves>>
    BY <2>1 DEF StoreCreate
  <2> HIDE DEF row
  <2>6. Existing' = Existing \cup {p} /\ \A o \in Page \ {p} : rows'[o] = rows[o]
    BY <2>3, <2>4 DEF Existing, Inv, TypeOK
  <2>7. rows'[p] = row
    BY <2>4 DEF Inv, TypeOK
  <2>8. RequestsAreSound'
    BY <2>5, Distinct DEF Inv, RequestsAreSound, RequestState, Sound
  <2>9. TypeOK'
    <3>1. rows' \in [Page -> Row \cup {Absent}]
      BY <2>3, <2>4 DEF Inv, TypeOK
    <3>2. /\ created' \subseteq Page /\ Existing' \subseteq created'
          /\ announced' \subseteq created'
      BY <2>1, <2>6 DEF Inv, TypeOK
    <3>3. \A s \in Request : req'[s] = Idle \/ req'[s].op \in {"create", "parent", "walk", "write"}
      BY <2>8, Distinct DEF RequestsAreSound, RequestState
    <3> QED BY <2>5, <3>1, <3>2, <3>3 DEF Inv, TypeOK
  <2>10. ParentsExist'
    BY <2>2, <2>4, <2>6, <2>7 DEF Inv, TypeOK, ParentsExist, ParentOf, Existing
  <2>11. PublishedPagesAnnounced'
    BY <2>4, <2>5, <2>6, <2>7 DEF Inv, PublishedPagesAnnounced, Existing
  <2> QED BY <2>8, <2>9, <2>10, <2>11 DEF Inv
<1> QED BY <1>1, <1>2

LEMMA WriteStep ==
  ASSUME Inv, NEW r \in Request, Write(r)
  PROVE  Inv'
<1> DEFINE q == req[r]
           row == NextRow(q)
<1>1. q \in Updating /\ Sound(q)
  BY Distinct DEF Write, Inv, RequestsAreSound, RequestState
<1>2. CASE q.page \notin Active \/ ~Insertable(q.parent)
  BY <1>2, RefuseStep DEF Write
<1>3. CASE q.page \in Active /\ Insertable(q.parent)
  <2>1. /\ rows' = [rows EXCEPT ![q.page] = row]
        /\ announced' = IF Announces(q) THEN announced \cup {q.page} ELSE announced
        /\ req' = Overlap(r, q.page, q.parent)
        /\ UNCHANGED <<created, updates, moves>>
    BY <1>3 DEF Write
  <2>2. row \in Row /\ row # Absent /\ row.parent = q.parent
    <3>1. q.prior.stamped \in BOOLEAN /\ q.publishes \in BOOLEAN
      BY <1>1 DEF Updating, Row
    <3>2. (q.prior.stamped \/ q.publishes) \in BOOLEAN
      OBVIOUS
    <3>3. q.parent \in Page \cup {NoPage} /\ q.status \in Status
      BY <1>1 DEF Updating
    <3>4. row \in Row
      BY <3>2, <3>3 DEF NextRow, Row
    <3> QED BY <3>4, Distinct DEF NextRow
  <2>3. q.page \in Existing /\ q.page \in Page /\ q.parent \in Existing \cup {NoPage}
    BY <1>3 DEF Active, Existing, Insertable
  <2>4. row.status = "PUBLISHED" => row.stamped /\ q.page \in announced'
    BY <1>1, <2>1 DEF NextRow, Announces, Sound, Updating, Row
  <2>6. announced \subseteq announced' /\ announced' \subseteq created
    BY <2>1, <2>3 DEF Inv, TypeOK
  <2>7. RequestsAreSound'
    <3>1. \A s \in Request : /\ req'[s] \in RequestState
                             /\ req'[s] \in Updating =>
                                  /\ req[s] \in Updating
                                  /\ req'[s].prior = req[s].prior /\ req'[s].page = req[s].page
                                  /\ req'[s].status = req[s].status
                                  /\ req'[s].publishes = req[s].publishes
      <4> SUFFICES ASSUME NEW s \in Request
                   PROVE  /\ req'[s] \in RequestState
                          /\ req'[s] \in Updating =>
                               /\ req[s] \in Updating
                               /\ req'[s].prior = req[s].prior /\ req'[s].page = req[s].page
                               /\ req'[s].status = req[s].status
                               /\ req'[s].publishes = req[s].publishes
        OBVIOUS
      <4>1. CASE req'[s] = Idle
        BY <4>1, Distinct DEF RequestState
      <4>2. CASE req'[s] = req[s]
        BY <4>2 DEF Inv, RequestsAreSound
      <4>3. CASE req[s] \in Updating /\ req'[s] = [req[s] EXCEPT !.misled = TRUE]
        BY <4>3 DEF Updating, RequestState
      <4> QED BY <2>1, <4>1, <4>2, <4>3, Distinct
              DEF Overlap, Inv, RequestsAreSound, RequestState
    <3>2. DOMAIN req' = Request /\ req' = [s \in Request |-> req'[s]]
      BY <2>1 DEF Overlap
    <3> QED BY <2>6, <3>1, <3>2 DEF Inv, RequestsAreSound, Sound
  <2> HIDE DEF q, row
  <2>8. /\ Existing' = Existing /\ rows'[q.page] = row
        /\ \A o \in Page \ {q.page} : rows'[o] = rows[o]
    BY <2>1, <2>2, <2>3 DEF Existing, Inv, TypeOK
  <2>9. TypeOK'
    <3>1. rows' \in [Page -> Row \cup {Absent}] /\ Existing' \subseteq created'
      BY <2>1, <2>2, <2>8 DEF Inv, TypeOK
    <3> QED BY <2>1, <2>6, <2>7, <3>1, Distinct
            DEF Inv, TypeOK, RequestsAreSound, RequestState, Creating, Updating
  <2>10. ParentsExist'
    BY <2>2, <2>3, <2>8 DEF Inv, ParentsExist, ParentOf, Existing
  <2>11. PublishedPagesAnnounced'
    BY <2>4, <2>6, <2>8 DEF Inv, PublishedPagesAnnounced, Existing
  <2> QED BY <2>7, <2>9, <2>10, <2>11 DEF Inv
<1> QED BY <1>2, <1>3

\* What a step in the trash leaves of the table keeps the invariant.
LEMMA MoveStep ==
  ASSUME Inv, Moved, rows' \in [Page -> Row \cup {Absent}], Existing' \subseteq Existing,
         \A p \in Existing' : /\ rows'[p].status = rows[p].status
                              /\ rows'[p].stamped = rows[p].stamped
                              /\ ParentOf(p)' \in Existing' \cup {NoPage}
  PROVE  Inv'
<1>1. moves' \in 0 .. MaxMoves
  BY PagesAssumption DEF Moved, Inv, TypeOK
<1>2. TypeOK'
  BY <1>1 DEF Moved, Inv, TypeOK
<1>3. RequestsAreSound'
  BY DEF Moved, Inv, RequestsAreSound, Sound
<1>4. ParentsExist'
  BY DEF ParentsExist
<1>5. PublishedPagesAnnounced'
  BY DEF Moved, Inv, PublishedPagesAnnounced
<1> QED BY <1>2, <1>3, <1>4, <1>5 DEF Inv

LEMMA TrashStep ==
  ASSUME Inv, NEW p \in Page, Trash(p) \/ Restore(p)
  PROVE  Inv'
<1>1. PICK trashed \in BOOLEAN : rows' = [rows EXCEPT ![p].trashed = trashed]
  BY DEF Trash, Restore
<1>2. p \in Existing /\ rows[p] \in Row /\ Moved
  BY RowsTyped DEF Trash, Restore, Active
<1>3. /\ rows'[p] \in Row /\ rows'[p].status = rows[p].status
      /\ rows'[p].stamped = rows[p].stamped /\ rows'[p].parent = rows[p].parent
      /\ \A o \in Page \ {p} : rows'[o] = rows[o]
  BY <1>1, <1>2 DEF Row, Inv, TypeOK
<1>4. rows' \in [Page -> Row \cup {Absent}]
  BY <1>1, <1>3 DEF Inv, TypeOK
<1>5. Existing' = Existing
  BY <1>2, <1>3, Distinct DEF Existing
<1> QED BY <1>2, <1>3, <1>4, <1>5, MoveStep DEF Inv, ParentsExist, ParentOf, Existing

LEMMA PermanentDeleteStep ==
  ASSUME Inv, NEW p \in Page, PermanentDelete(p)
  PROVE  Inv'
<1>1. \A q \in Page : rows'[q] = IF q = p THEN Absent ELSE DetachedFrom(p, rows[q])
  BY DEF PermanentDelete
<1>2. \A q \in Page : rows[q] \in Row =>
          /\ DetachedFrom(p, rows[q]) \in Row
          /\ DetachedFrom(p, rows[q]).status = rows[q].status
          /\ DetachedFrom(p, rows[q]).stamped = rows[q].stamped
          /\ DetachedFrom(p, rows[q]).parent = IF rows[q].parent = p THEN NoPage
                                               ELSE rows[q].parent
  BY Distinct DEF DetachedFrom, Row
<1>3. \A q \in Page : \/ rows[q] \in Row
                      \/ (rows[q] = Absent /\ DetachedFrom(p, rows[q]) = Absent)
  <2>1. \A q \in Page : rows[q] \in Row \cup {Absent}
    BY DEF Inv, TypeOK
  <2>2. \A q \in Page : rows[q] = Absent => DetachedFrom(p, rows[q]) = Absent
    BY DEF DetachedFrom
  <2> QED BY <2>1, <2>2
<1>4. Existing' = Existing \ {p}
  BY <1>1, <1>2, <1>3, Distinct DEF Existing
<1>5. rows' \in [Page -> Row \cup {Absent}]
  <2>1. \A q \in Page : rows'[q] \in Row \cup {Absent}
    BY <1>1, <1>2, <1>3
  <2> QED BY <2>1 DEF PermanentDelete
<1>6. \A q \in Existing' : /\ q \in Page /\ q # p /\ rows[q] \in Row
                           /\ rows'[q] = DetachedFrom(p, rows[q])
  BY <1>1, <1>4, RowsTyped
<1>7. \A q \in Existing' : ParentOf(q)' \in Existing' \cup {NoPage}
  BY <1>2, <1>4, <1>6 DEF ParentOf, Inv, ParentsExist
<1> QED BY <1>2, <1>4, <1>5, <1>6, <1>7, MoveStep DEF PermanentDelete

LEMMA NextStep == Inv /\ [Next]_vars => Inv'
<1> SUFFICES ASSUME Inv, [Next]_vars PROVE Inv'
  OBVIOUS
<1>1. ASSUME NEW r \in Request, NEW parent \in Page \cup {NoPage}, CheckCreate(r, parent)
      PROVE  Inv'
  BY <1>1, CheckCreateStep
<1>2. ASSUME NEW r \in Request, StoreCreate(r) \/ ReadParent(r) \/ WalkUp(r) \/ CutShort(r)
                             \/ Write(r) \/ Abandon(r)
      PROVE  Inv'
  BY <1>2, StoreCreateStep, ReadParentStep, WalkUpStep, CutShortStep, WriteStep, RefuseStep
     DEF Abandon
<1>3. ASSUME NEW r \in Request, NEW p \in Page, Edit(r, p)
      PROVE  Inv'
  BY <1>3, ReadRowStep DEF Edit
<1>4. ASSUME NEW r \in Request, NEW p \in Page, RestoreRevision(r, p)
      PROVE  Inv'
  BY <1>4, ReadRowStep DEF RestoreRevision, Inv, TypeOK
<1>5. ASSUME NEW p \in Page, Trash(p) \/ Restore(p) \/ PermanentDelete(p)
      PROVE  Inv'
  BY <1>5, TrashStep, PermanentDeleteStep
<1>6. CASE UNCHANGED vars
  BY <1>6 DEF vars, Inv, TypeOK, RequestsAreSound, Sound, ParentsExist, PublishedPagesAnnounced,
     Existing, ParentOf
<1> QED BY <1>1, <1>2, <1>3, <1>4, <1>5, <1>6 DEF Next

-------------------------------------------------------------------------------
(* Cycles.  A walk that nothing has misled leaves behind a set of pages that*)
(* has the new parent, lacks the page itself and leads to nothing but where*)
(* the walk is: at its end there is no way up from the parent to the page. *)

\* The set of the pages a walk has gone past.
Past(q, A) == /\ A \subseteq created
              /\ q.parent \in A /\ q.page \notin A
              /\ \A a \in A \cap Existing : ParentOf(a) \in A \cup {q.at, NoPage}

\* The update writes the parent it has read.
KeepsParent(q) == /\ q.page \in created /\ q.parent \in created \cup {NoPage}
                  /\ {q.page, q.parent} \subseteq Existing => ParentOf(q.page) = q.parent

WalkSound(q) ==
    ~q.misled =>
        /\ q.op = "walk" => \E A \in SUBSET Page : Past(q, A)
        /\ q.op = "write" => \/ q.parent = NoPage
                             \/ KeepsParent(q)
                             \/ q.at = NoPage /\ \E A \in SUBSET Page : Past(q, A)

WalksAreSound == \A r \in Request : req[r] \in Updating => WalkSound(req[r])

\* No page gets a new parent: what there was keeps it, or loses it because it is gone.
NoNewParent ==
    \A p \in Existing' :
        \/ /\ p \in Existing
           /\ \/ ParentOf(p)' = ParentOf(p)
              \/ ParentOf(p)' = NoPage /\ ParentOf(p) \notin Existing'
        \/ p \notin created

\* A walk is not concerned by such a step.
LEMMA WalkKept ==
  ASSUME Inv, created \subseteq created', NoNewParent, NEW q \in Updating, WalkSound(q)
  PROVE  WalkSound(q)'
<1>1. \A A : Past(q, A) => Past(q, A)'
  <2> SUFFICES ASSUME NEW A, Past(q, A)
               PROVE  Past(q, A)'
    OBVIOUS
  <2>1. A \subseteq created /\ \A a \in A \cap Existing : ParentOf(a) \in A \cup {q.at, NoPage}
    BY DEF Past
  <2>2. \A a \in A \cap Existing' : ParentOf(a)' \in A \cup {q.at, NoPage}
    BY <2>1 DEF NoNewParent
  <2> QED BY <2>1, <2>2 DEF Past
<1>2. KeepsParent(q) => KeepsParent(q)'
  <2> SUFFICES ASSUME KeepsParent(q), {q.page, q.parent} \subseteq Existing'
               PROVE  ParentOf(q.page)' = q.parent
    BY DEF KeepsParent
  <2>1. q.parent \in Page /\ q.parent \in created /\ q.page \in created
    BY PagesAssumption DEF KeepsParent, Existing
  <2>2. q.page \in Existing /\ q.parent \in Existing
    BY <2>1 DEF NoNewParent
  <2>3. ParentOf(q.page) = q.parent
    BY <2>2 DEF KeepsParent
  <2> QED BY <2>1, <2>3 DEF NoNewParent
<1> QED BY <1>1, <1>2 DEF WalkSound

\* A step of one request that writes nothing.
LEMMA WalkRequest ==
  ASSUME Inv, WalksAreSound, NEW r \in Request, NEW q, q \in Updating => WalkSound(q),
         req' = [req EXCEPT ![r] = q], UNCHANGED <<rows, created>>
  PROVE  WalksAreSound'
<1>1. NoNewParent /\ created \subseteq created'
  BY DEF NoNewParent, Existing, ParentOf
<1>2. \A s \in Request : req'[s] \in Updating => WalkSound(req'[s])
  BY DEF WalksAreSound, Inv, RequestsAreSound
<1> QED BY <1>1, <1>2, WalkKept DEF WalksAreSound

LEMMA WalkReadRow ==
  ASSUME Inv, WalksAreSound, NEW r \in Request, NEW p \in Page,
         NEW parent \in Page \cup {NoPage, Keep}, NEW status \in Status \cup {Keep},
         ReadRow(r, p, parent, status)
  PROVE  WalksAreSound'
<1> DEFINE q == [op |-> IF parent \in {Keep, NoPage} THEN "write" ELSE "parent",
                 page |-> p, prior |-> rows[p],
                 parent |-> Given(parent, ParentOf(p)),
                 status |-> Given(status, rows[p].status),
                 publishes |-> status = "PUBLISHED",
                 at |-> NoPage, misled |-> FALSE]
<1>1. p \in Existing /\ p \in created /\ ParentOf(p) \in created \cup {NoPage}
  BY DEF ReadRow, Active, Inv, TypeOK, ParentsExist
<1>2. /\ q.op # "walk" /\ q.page = p
      /\ q.op = "write" => q.parent \in {NoPage, ParentOf(p)}
  BY DEF Given
<1>3. q.op = "write" => q.parent = NoPage \/ KeepsParent(q)
  BY <1>1, <1>2 DEF KeepsParent
<1>4. WalkSound(q)
  BY <1>2, <1>3 DEF WalkSound
<1>5. req' = [req EXCEPT ![r] = q] /\ UNCHANGED <<rows, created>>
  BY DEF ReadRow
<1> HIDE DEF q
<1> QED BY <1>4, <1>5, WalkRequest

\* Where the walk goes on, or ends, at the parent of the page it has just read.
LEMMA WalkAdvance ==
  ASSUME Inv, WalksAreSound, NEW r \in Request, req[r] \in Updating,
         NEW A \in SUBSET Page, NEW at \in Page \cup {NoPage}, Climb(r, at),
         ~req[r].misled => /\ A \subseteq created
                           /\ req[r].parent \in A /\ req[r].page \notin A
                           /\ \A a \in A \cap Existing : ParentOf(a) \in A \cup {at, NoPage}
  PROVE  WalksAreSound'
<1>1. PICK op \in {"walk", "write"} : /\ Advance(r, op, at)
                                      /\ op = "write" => at = NoPage
  BY DEF Climb
<1> DEFINE q == [req[r] EXCEPT !.op = op, !.at = at]
<1>2. /\ q.op = op /\ q.at = at
      /\ q.page = req[r].page /\ q.parent = req[r].parent /\ q.misled = req[r].misled
  BY DEF Updating
<1>3. req' = [req EXCEPT ![r] = q] /\ UNCHANGED <<rows, created>>
  BY <1>1 DEF Advance, Inv, RequestsAreSound
<1> HIDE DEF q
<1>4. ~q.misled => Past(q, A)
  BY <1>2 DEF Past
<1>5. WalkSound(q)
  BY <1>1, <1>2, <1>4 DEF WalkSound
<1> QED BY <1>3, <1>5, WalkRequest

LEMMA WalkRefuse ==
  ASSUME Inv, WalksAreSound, NEW r \in Request, Refuse(r)
  PROVE  WalksAreSound'
BY WalkRequest, Distinct DEF Refuse

LEMMA WalkReadParent ==
  ASSUME Inv, WalksAreSound, NEW r \in Request, ReadParent(r)
  PROVE  WalksAreSound'
<1> DEFINE parent == req[r].parent
<1>1. req[r] \in Updating
  BY Distinct DEF ReadParent, Inv, RequestsAreSound, RequestState
<1>2. CASE Refuse(r)
  BY <1>2, WalkRefuse
<1>3. CASE parent # req[r].page /\ ParentAcceptable(parent) /\ Climb(r, ParentOf(parent))
  <2>1. parent \in Existing /\ parent \in created /\ parent \in Page
    BY <1>3 DEF ParentAcceptable, Active, Inv, TypeOK, Existing
  <2>2. ParentOf(parent) \in Page \cup {NoPage}
    BY <2>1, RowsTyped
  <2>3. {parent} \in SUBSET Page /\ \A a \in {parent} : ParentOf(a) = ParentOf(parent)
    BY <2>1
  <2> QED BY <1>1, <1>3, <2>1, <2>2, <2>3, WalkAdvance
<1> QED BY <1>2, <1>3 DEF ReadParent

LEMMA WalkWalkUp ==
  ASSUME Inv, WalksAreSound, NEW r \in Request, WalkUp(r)
  PROVE  WalksAreSound'
<1> DEFINE at == req[r].at
<1>1. req[r] \in Updating /\ req[r].op = "walk"
  BY Distinct DEF WalkUp, Inv, RequestsAreSound, RequestState
<1>2. CASE Refuse(r)
  BY <1>2, WalkRefuse
<1>3. PICK A \in SUBSET Page : ~req[r].misled => Past(req[r], A)
  BY <1>1 DEF WalksAreSound, WalkSound
<1>4. CASE at # req[r].page /\ Readable(at) /\ Climb(r, ParentOf(at))
  <2>1. at \in Existing /\ at \in created /\ at \in Page
    BY <1>4 DEF Readable, Inv, TypeOK, Existing
  <2>2. ParentOf(at) \in Page \cup {NoPage}
    BY <2>1, RowsTyped
  <2>3. A \cup {at} \in SUBSET Page
    BY <2>1
  <2>4. ~req[r].misled =>
          /\ A \cup {at} \subseteq created
          /\ req[r].parent \in A \cup {at} /\ req[r].page \notin A \cup {at}
          /\ \A a \in (A \cup {at}) \cap Existing :
                ParentOf(a) \in (A \cup {at}) \cup {ParentOf(at), NoPage}
    BY <1>3, <1>4, <2>1 DEF Past
  <2> QED BY <1>1, <1>4, <2>2, <2>3, <2>4, WalkAdvance
<1>5. CASE at # req[r].page /\ ~Readable(at) /\ Climb(r, NoPage)
  <2>1. \A a \in Existing : ParentOf(a) \in Existing \cup {NoPage} /\ at \notin Existing
    BY <1>5 DEF Readable, Inv, ParentsExist
  <2>2. ~req[r].misled =>
          /\ A \subseteq created
          /\ req[r].parent \in A /\ req[r].page \notin A
          /\ \A a \in A \cap Existing : ParentOf(a) \in A \cup {NoPage, NoPage}
    BY <1>3, <2>1 DEF Past
  <2> QED BY <1>1, <1>5, <2>2, WalkAdvance
<1> QED BY <1>2, <1>4, <1>5 DEF WalkUp

LEMMA WalkCutShort ==
  ASSUME Inv, WalksAreSound, NEW r \in Request, CutShort(r)
  PROVE  WalksAreSound'
<1> DEFINE q == [req[r] EXCEPT !.op = "write", !.at = NoPage, !.misled = TRUE]
<1>1. req[r] \in Updating
  BY Distinct DEF CutShort, Inv, RequestsAreSound, RequestState
<1>2. q.misled
  BY <1>1 DEF Updating
<1>3. req' = [req EXCEPT ![r] = q] /\ UNCHANGED <<rows, created>>
  BY DEF CutShort, Inv, RequestsAreSound
<1> HIDE DEF q
<1> QED BY <1>2, <1>3, WalkRequest DEF WalkSound

LEMMA WalkCheckCreate ==
  ASSUME Inv, WalksAreSound, NEW r \in Request, NEW parent, CheckCreate(r, parent)
  PROVE  WalksAreSound'
<1>1. [op |-> "create", parent |-> parent] \notin Updating
  BY DEF Updating
<1> QED BY <1>1, WalkRequest DEF CheckCreate

\* What the creation of a page does to the table.
LEMMA Created ==
  ASSUME Inv, NEW r \in Request, StoreCreate(r)
  PROVE  \/ UNCHANGED <<rows, created>>
         \/ \E p \in Page \ created :
               /\ Existing' = Existing \cup {p} /\ created' = created \cup {p}
               /\ \A o \in Existing : ParentOf(o)' = ParentOf(o)
               /\ ParentOf(p)' \in Existing \cup {NoPage}
<1> SUFFICES ASSUME ~UNCHANGED <<rows, created>>
             PROVE  \E p \in Page \ created :
                       /\ Existing' = Existing \cup {p} /\ created' = created \cup {p}
                       /\ \A o \in Existing : ParentOf(o)' = ParentOf(o)
                       /\ ParentOf(p)' \in Existing \cup {NoPage}
  OBVIOUS
<1>1. req[r].parent \in Existing \cup {NoPage}
  BY DEF StoreCreate, Insertable
<1>2. PICK p \in Page \ created, status \in Status :
         /\ rows' = [rows EXCEPT ![p] =
               [parent |-> req[r].parent, status |-> status,
                stamped |-> status = "PUBLISHED", trashed |-> FALSE]]
         /\ created' = created \cup {p}
  BY DEF StoreCreate
<1>3. /\ rows'[p].parent = req[r].parent /\ rows'[p] # Absent
      /\ \A o \in Page \ {p} : rows'[o] = rows[o]
  <2>1. [parent |-> req[r].parent, status |-> status,
         stamped |-> status = "PUBLISHED", trashed |-> FALSE] # Absent
    <3>1. (status = "PUBLISHED") \in BOOLEAN /\ req[r].parent \in Page \cup {NoPage}
      BY <1>1 DEF Existing
    <3>2. [parent |-> req[r].parent, status |-> status,
           stamped |-> status = "PUBLISHED", trashed |-> FALSE] \in Row
      BY <3>1 DEF Row
    <3> QED BY <3>2, Distinct
  <2> QED BY <1>2, <2>1 DEF Inv, TypeOK
<1>4. p \notin Existing
  BY DEF Inv, TypeOK
<1> QED BY <1>1, <1>2, <1>3, <1>4 DEF Existing, ParentOf

LEMMA WalkStoreCreate ==
  ASSUME Inv, WalksAreSound, NEW r \in Request, StoreCreate(r)
  PROVE  WalksAreSound'
<1>1. NoNewParent /\ created \subseteq created'
  <2>1. CASE UNCHANGED <<rows, created>>
    BY <2>1 DEF NoNewParent, Existing, ParentOf
  <2>2. CASE ~UNCHANGED <<rows, created>>
    BY <2>2, Created DEF NoNewParent
  <2> QED BY <2>1, <2>2
<1>2. \A s \in Request : req'[s] \in Updating => WalkSound(req'[s])
  BY Distinct DEF StoreCreate, WalksAreSound, Inv, RequestsAreSound
<1> QED BY <1>1, <1>2, WalkKept DEF WalksAreSound

\* What an update that takes effect does to the tree.
LEMMA Written ==
  ASSUME Inv, NEW r \in Request, Write(r), ~Refuse(r), NEW q, q = req[r]
  PROVE  /\ q \in Updating /\ q.op = "write"
         /\ q.page \in Existing /\ q.parent \in Existing \cup {NoPage}
         /\ Existing' = Existing /\ created' = created
         /\ ParentOf(q.page)' = q.parent
         /\ \A o \in Existing \ {q.page} : ParentOf(o)' = ParentOf(o)
         /\ req' = Overlap(r, q.page, q.parent)
<1>1. /\ q \in Updating /\ q.op = "write"
      /\ q.page \in Active /\ Insertable(q.parent)
      /\ rows' = [rows EXCEPT ![q.page] = NextRow(q)]
      /\ req' = Overlap(r, q.page, q.parent)
      /\ created' = created
  BY Distinct DEF Write, Inv, RequestsAreSound, RequestState
<1>2. NextRow(q).parent = q.parent /\ NextRow(q) # Absent
  <2>1. (q.prior.stamped \/ q.publishes) \in BOOLEAN
    OBVIOUS
  <2>2. NextRow(q) \in Row
    BY <1>1, <2>1 DEF NextRow, Row, Updating
  <2> QED BY <2>2, Distinct DEF NextRow
<1>3. q.page \in Existing /\ q.page \in Page
  BY <1>1 DEF Active, Existing
<1>4. rows'[q.page] = NextRow(q) /\ \A o \in Page \ {q.page} : rows'[o] = rows[o]
  BY <1>1, <1>3 DEF Inv, TypeOK
<1>5. Existing' = Existing
  BY <1>2, <1>3, <1>4 DEF Existing
<1>6. \A o \in Existing \ {q.page} : ParentOf(o)' = ParentOf(o)
  BY <1>4 DEF ParentOf, Existing
<1>7. rows'[q.page].parent = q.parent
  BY <1>2, <1>4
<1> QED BY <1>1, <1>3, <1>5, <1>6, <1>7 DEF ParentOf, Insertable

\* What the write of r does to the update of another request.
LEMMA Overlapped ==
  ASSUME Inv, NEW r \in Request, NEW p, NEW parent, req' = Overlap(r, p, parent),
         NEW s \in Request, req'[s] \in Updating
  PROVE  /\ s # r /\ req[s] \in Updating
         /\ IF parent = ParentOf(p) THEN req'[s] = req[s] ELSE req'[s].misled
<1>1. s # r
  BY Distinct DEF Overlap
<1>2. req[s] \in RequestState
  BY DEF Inv, RequestsAreSound
<1>3. CASE req[s] # Idle /\ req[s].op # "create" /\ parent # ParentOf(p)
  <2>1. req[s] \in Updating
    BY <1>2, <1>3, Distinct DEF RequestState
  <2>2. req'[s] = [req[s] EXCEPT !.misled = TRUE]
    BY <1>1, <1>3 DEF Overlap
  <2>3. req'[s].misled
    BY <2>1, <2>2 DEF Updating
  <2> QED BY <1>1, <1>3, <2>1, <2>3
<1>4. CASE ~(req[s] # Idle /\ req[s].op # "create" /\ parent # ParentOf(p))
  <2>1. req'[s] = req[s]
    BY <1>1, <1>4 DEF Overlap
  <2>2. parent = ParentOf(p)
    BY <1>4, <2>1, Distinct
  <2> QED BY <1>1, <2>1, <2>2
<1> QED BY <1>3, <1>4

LEMMA WalkWrite ==
  ASSUME Inv, WalksAreSound, NEW r \in Request, Write(r)
  PROVE  WalksAreSound'
<1>1. CASE Refuse(r)
  BY <1>1, WalkRefuse
<1>2. CASE ~Refuse(r)
  <2>1. PICK q : q = req[r]
    OBVIOUS
  <2>2. /\ Existing' = Existing /\ created' = created
        /\ q.page \in Existing /\ ParentOf(q.page)' = q.parent
        /\ \A o \in Existing \ {q.page} : ParentOf(o)' = ParentOf(o)
        /\ req' = Overlap(r, q.page, q.parent)
    BY <1>2, <2>1, Written
  <2>3. ASSUME NEW s \in Request, NEW x \in Updating, req'[s] = x
        PROVE  WalkSound(x)'
    <3>1. /\ req[s] \in Updating
          /\ IF q.parent = ParentOf(q.page) THEN req[s] = x ELSE x.misled
      BY <2>2, <2>3, Overlapped
    <3>2. CASE x.misled
      BY <3>2 DEF WalkSound
    <3>3. CASE q.parent = ParentOf(q.page)
      <4>1. \A o \in Existing : ParentOf(o)' = ParentOf(o)
        <5> SUFFICES ASSUME NEW o \in Existing
                     PROVE  ParentOf(o)' = ParentOf(o)
          OBVIOUS
        <5>1. CASE o = q.page
          BY <2>2, <3>3, <5>1
        <5> QED BY <2>2, <5>1
      <4>2. NoNewParent
        BY <2>2, <4>1 DEF NoNewParent
      <4>3. WalkSound(x)
        BY <3>1, <3>3 DEF WalksAreSound
      <4> QED BY <2>2, <4>2, <4>3, WalkKept
    <3> QED BY <3>1, <3>2, <3>3
  <2> QED BY <2>3 DEF WalksAreSound
<1> QED BY <1>1, <1>2

\* What moves in the trash and deletions do to the tree.
LEMMA MovesKeepParents ==
  ASSUME Inv, NEW p \in Page, Trash(p) \/ Restore(p) \/ PermanentDelete(p)
  PROVE  /\ NoNewParent /\ Existing' \subseteq Existing
         /\ UNCHANGED <<created, req>>
<1>1. UNCHANGED <<created, req>>
  BY DEF Trash, Restore, PermanentDelete, Moved
<1>2. CASE Trash(p) \/ Restore(p)
  <2>1. PICK trashed \in BOOLEAN : rows' = [rows EXCEPT ![p].trashed = trashed]
    BY <1>2 DEF Trash, Restore
  <2>2. rows[p] \in Row
    BY <1>2, RowsTyped DEF Trash, Restore, Active
  <2>3. /\ rows'[p] \in Row /\ rows'[p].parent = rows[p].parent
        /\ \A o \in Page \ {p} : rows'[o] = rows[o]
    BY <2>1, <2>2 DEF Row, Inv, TypeOK
  <2>4. Existing' = Existing
    BY <2>2, <2>3, Distinct DEF Existing
  <2> QED BY <1>1, <2>3, <2>4 DEF NoNewParent, ParentOf, Existing
<1>3. CASE PermanentDelete(p)
  <2>1. \A q \in Page : rows'[q] = IF q = p THEN Absent ELSE DetachedFrom(p, rows[q])
    BY <1>3 DEF PermanentDelete
  <2>2. \A q \in Existing : /\ DetachedFrom(p, rows[q]) # Absent
                            /\ DetachedFrom(p, rows[q]).parent =
                                  IF ParentOf(q) = p THEN NoPage ELSE ParentOf(q)
    <3> SUFFICES ASSUME NEW q \in Existing
                 PROVE  /\ DetachedFrom(p, rows[q]) # Absent
                        /\ DetachedFrom(p, rows[q]).parent =
                              IF ParentOf(q) = p THEN NoPage ELSE ParentOf(q)
      OBVIOUS
    <3>1. rows[q] \in Row /\ rows[q] # Absent
      BY RowsTyped, Distinct
    <3>2. [rows[q] EXCEPT !.parent = NoPage] \in Row
      BY <3>1 DEF Row
    <3> QED BY <3>1, <3>2, Distinct DEF DetachedFrom, ParentOf, Row
  <2>3. \A q \in Page \ Existing : DetachedFrom(p, rows[q]) = Absent
    BY DEF Existing, DetachedFrom
  <2>4. Existing' = Existing \ {p}
    BY <2>1, <2>2, <2>3 DEF Existing
  <2>5. \A q \in Existing' : ParentOf(q)' = IF ParentOf(q) = p THEN NoPage ELSE ParentOf(q)
    BY <2>1, <2>2, <2>4 DEF ParentOf, Existing
  <2> QED BY <1>1, <2>4, <2>5 DEF NoNewParent
<1> QED BY <1>2, <1>3

LEMMA WalksStep == Inv /\ WalksAreSound /\ [Next]_vars => WalksAreSound'
<1> SUFFICES ASSUME Inv, WalksAreSound, [Next]_vars PROVE WalksAreSound'
  OBVIOUS
<1>1. ASSUME NEW r \in Request, NEW p \in Page, Edit(r, p) \/ RestoreRevision(r, p)
      PROVE  WalksAreSound'
  BY <1>1, WalkReadRow DEF Edit, RestoreRevision
<1>2. ASSUME NEW p \in Page, Trash(p) \/ Restore(p) \/ PermanentDelete(p)
      PROVE  WalksAreSound'
  <2>1. NoNewParent /\ UNCHANGED <<created, req>>
    BY <1>2, MovesKeepParents
  <2> QED BY <2>1, WalkKept DEF WalksAreSound
<1>3. CASE UNCHANGED vars
  BY <1>3 DEF vars, WalksAreSound, WalkSound, KeepsParent, Past, Existing, ParentOf
<1> QED BY <1>1, <1>2, <1>3, WalkCheckCreate, WalkStoreCreate, WalkReadParent, WalkWalkUp,
           WalkCutShort, WalkWrite, WalkRefuse DEF Next, Abandon

-------------------------------------------------------------------------------
(* Cycles: a set of pages that has the parent of each of its pages.         *)

Closed(C) == C \subseteq Existing /\ \A p \in C : ParentOf(p) \in C

LEMMA AcyclicMeans == Acyclic <=> \A C : Closed(C) => C = {}
<1>1. ASSUME Acyclic, NEW C, Closed(C)
      PROVE  C = {}
  BY <1>1 DEF Acyclic, Endless, Closed
<1>2. ASSUME \A C : Closed(C) => C = {}
      PROVE  Acyclic
  BY <1>2 DEF Acyclic, Endless, Closed
<1> QED BY <1>1, <1>2

\* A set that is closed and whose pages keep their parents was closed before.
LEMMA ClosedBefore ==
  ASSUME Acyclic, NEW C, C \subseteq Existing, C # {},
         \A p \in C : ParentOf(p) \in C
  PROVE  FALSE
BY AcyclicMeans DEF Closed

LEMMA CycleCreate ==
  ASSUME Inv, Acyclic, NEW r \in Request, StoreCreate(r), rows # rows',
         NEW C, C \subseteq Existing', \A p \in C : ParentOf(p)' \in C
  PROVE  C = {}
<1> SUFFICES ASSUME C # {} PROVE FALSE
  OBVIOUS
<1>1. PICK p \in Page \ created :
         /\ Existing' = Existing \cup {p} /\ created' = created \cup {p}
         /\ \A o \in Existing : ParentOf(o)' = ParentOf(o)
         /\ ParentOf(p)' \in Existing \cup {NoPage}
  BY Created
<1>2. p \notin Existing /\ p # NoPage /\ NoPage \notin Existing
  BY PagesAssumption DEF Inv, TypeOK, Existing
<1>3. C \ {p} \subseteq Existing
  BY <1>1
<1>4. C \ {p} # {}
  BY <1>1, <1>2
<1>5. \A o \in C \ {p} : ParentOf(o) \in C \ {p}
  BY <1>1, <1>2, <1>3 DEF Inv, ParentsExist
<1> QED BY <1>3, <1>4, <1>5, ClosedBefore

LEMMA CycleMove ==
  ASSUME Inv, Acyclic, NEW p \in Page, Trash(p) \/ Restore(p) \/ PermanentDelete(p),
         NEW C, C \subseteq Existing', \A o \in C : ParentOf(o)' \in C
  PROVE  C = {}
<1>1. /\ NoNewParent /\ Existing' \subseteq Existing
  BY MovesKeepParents
<1>2. NoPage \notin C /\ C \subseteq Existing /\ C \subseteq created
  BY <1>1, PagesAssumption DEF Inv, TypeOK, Existing
<1>3. \A o \in C : ParentOf(o) = ParentOf(o)'
  BY <1>2, <1>1 DEF NoNewParent
<1>4. \A o \in C : ParentOf(o) \in C
  BY <1>3
<1> QED BY <1>2, <1>4, ClosedBefore

LEMMA CycleWrite ==
  ASSUME Inv, WalksAreSound, Acyclic, NEW r \in Request, Write(r), ~Refuse(r), ~req[r].misled,
         NEW C, C \subseteq Existing', \A o \in C : ParentOf(o)' \in C
  PROVE  C = {}
<1> SUFFICES ASSUME C # {} PROVE FALSE
  OBVIOUS
<1>1. PICK q : q = req[r]
  OBVIOUS
<1>2. /\ q \in Updating /\ q.op = "write" /\ ~q.misled
      /\ q.page \in Existing /\ q.parent \in Existing \cup {NoPage}
      /\ C \subseteq Existing
      /\ ParentOf(q.page)' = q.parent
      /\ \A o \in Existing \ {q.page} : ParentOf(o)' = ParentOf(o)
  BY <1>1, Written
<1>3. NoPage \notin C
  BY <1>2, PagesAssumption DEF Existing
<1>4. \A o \in C \ {q.page} : ParentOf(o) \in C
  <2> SUFFICES ASSUME NEW o \in C \ {q.page}
               PROVE  ParentOf(o) \in C
    OBVIOUS
  <2>1. ParentOf(o)' = ParentOf(o) /\ ParentOf(o)' \in C
    BY <1>2
  <2> QED BY <2>1
<1>5. q.page \in C => q.parent \in C
  BY <1>2
<1>6. WalkSound(q)
  BY <1>1, <1>2 DEF WalksAreSound
<1>7. CASE q.page \notin C
  BY <1>2, <1>4, <1>7, ClosedBefore
<1>8. CASE q.page \in C /\ KeepsParent(q)
  <2>1. ParentOf(q.page) = q.parent
    BY <1>2, <1>3, <1>5, <1>8 DEF KeepsParent
  <2> QED BY <1>2, <1>4, <1>5, <1>8, <2>1, ClosedBefore
<1>9. CASE q.page \in C /\ q.at = NoPage /\ \E A \in SUBSET Page : Past(q, A)
  <2>1. PICK A \in SUBSET Page : Past(q, A)
    BY <1>9
  <2>2. /\ C \cap A \subseteq Existing /\ q.parent \in C \cap A /\ q.page \notin C \cap A
    BY <1>2, <1>5, <1>9, <2>1 DEF Past
  <2>3. \A a \in C \cap A : ParentOf(a) \in C \cap A
    BY <1>3, <1>4, <1>9, <2>1, <2>2 DEF Past
  <2> QED BY <2>2, <2>3, ClosedBefore
<1> QED BY <1>2, <1>3, <1>5, <1>6, <1>7, <1>8, <1>9 DEF WalkSound

\* What CyclesNeedARace says of a step.
OnlyRacesCloseCycles ==
    rows # rows' /\ Acyclic /\ ~Acyclic' =>
        \E r \in Request : req[r] # Idle /\ req'[r] = Idle /\ req[r].misled

LEMMA CycleStep == Inv /\ WalksAreSound /\ [Next]_vars => OnlyRacesCloseCycles
<1> SUFFICES ASSUME Inv, WalksAreSound, [Next]_vars, rows # rows', Acyclic, ~Acyclic'
             PROVE  \E r \in Request : req[r] # Idle /\ req'[r] = Idle /\ req[r].misled
  BY DEF OnlyRacesCloseCycles
<1>1. PICK C : /\ C # {} /\ C \subseteq Existing'
               /\ \A p \in C : ParentOf(p)' \in C
  BY DEF Acyclic, Endless
<1>2. \/ \E r \in Request : StoreCreate(r) \/ (Write(r) /\ ~Refuse(r))
      \/ \E p \in Page : Trash(p) \/ Restore(p) \/ PermanentDelete(p)
  BY DEF Next, vars, CheckCreate, Edit, RestoreRevision, ReadRow, ReadParent, WalkUp, Climb,
         Advance, CutShort, Abandon, Refuse
<1>3. PICK r \in Request : Write(r) /\ ~Refuse(r) /\ req[r].misled
  BY <1>1, <1>2, CycleCreate, CycleMove, CycleWrite
<1>4. req'[r] = Idle
  BY <1>3, Written DEF Overlap
<1>5. req[r] # Idle
  BY <1>3, Distinct DEF Write
<1> QED BY <1>3, <1>4, <1>5

-------------------------------------------------------------------------------
(* The listing: what it leaves out has its parents among what it leaves out.*)

LEMMA LeftOutIsEndless ==
  ASSUME NEW items \in SUBSET Active
  PROVE  items \ Endless \subseteq Listing(items)
<1> DEFINE L == Listing(items)
<1> DEFINE X == items \ L
<1>1. \A p \in X : ParentOf(p) \in X
  <2> SUFFICES ASSUME NEW p \in X
               PROVE  ParentOf(p) \in X
    OBVIOUS
  <2>1. PICK D \in SUBSET items :
           /\ Roots(items) \subseteq D
           /\ \A c \in items : ParentOf(c) \in D => c \in D
           /\ p \notin D
    BY DEF Listing, Reached
  <2>2. ParentOf(p) \in items
    BY <2>1 DEF Roots
  <2>3. ParentOf(p) \notin L
    BY <2>1 DEF Listing, Reached
  <2> QED BY <2>2, <2>3
<1>2. X \in SUBSET Existing
  BY DEF Active
<1>3. X \subseteq Endless
  BY <1>1, <1>2 DEF Endless
<1> QED BY <1>3

-------------------------------------------------------------------------------
\* The invariant holds of every reachable state.
THEOREM InvAlways == Spec => []Inv
BY InitInv, NextStep, PTL DEF Spec

\* The variables keep their types.
THEOREM TypeCorrect == Spec => []TypeOK
<1>1. Inv => TypeOK
  BY DEF Inv
<1> QED BY <1>1, InvAlways, PTL

\* However requests overwrite each other, no page has a parent that is gone.
THEOREM ParentsAlwaysExist == Spec => []ParentsExist
<1>1. Inv => ParentsExist
  BY DEF Inv
<1> QED BY <1>1, InvAlways, PTL

\* However requests overwrite each other, a public page is stamped and announced.
THEOREM PublicPagesAreAnnounced == Spec => []PublishedPagesAnnounced
<1>1. Inv => PublishedPagesAnnounced
  BY DEF Inv
<1> QED BY <1>1, InvAlways, PTL

\* Updates that walk to the end, one after the other, never close a cycle, however many
\* pages there are and however deep: the invariant adds, for each walk, the set of pages
\* it has gone past.
THEOREM CyclesHaveACause == Spec => CyclesNeedARace
<1>1. Init => WalksAreSound
  BY Distinct DEF Init, WalksAreSound
<1>2. Inv /\ WalksAreSound /\ [Next]_vars => WalksAreSound'
  BY WalksStep
<1>3. Inv /\ WalksAreSound /\ [Next]_vars => [OnlyRacesCloseCycles]_vars
  BY CycleStep
<1>4. Spec => [][OnlyRacesCloseCycles]_vars
  BY <1>1, <1>2, <1>3, InvAlways, PTL DEF Spec
<1> QED BY <1>4 DEF CyclesNeedARace, OnlyRacesCloseCycles

\* The admin's table leaves out nothing but cycles and what is below them, for any
\* listing of any number of pages.
THEOREM ListingsAreComplete == Spec => []ListingComplete
<1>1. Inv => ListingComplete
  BY LeftOutIsEndless DEF ListingComplete
<1> QED BY <1>1, InvAlways, PTL
===============================================================================
