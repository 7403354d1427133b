--------------------------------- MODULE Pages ---------------------------------
(***************************************************************************)
(* Pages and their hierarchy (internal/content/pages, the tree and the     *)
(* parent picker of internal/web/pages_admin.go).                          *)
(*                                                                         *)
(* An update reads the row, walks up from the parent it is given, one      *)
(* statement at a time, and only then writes the whole row in a transaction*)
(* with a revision of the row it read.  Nothing locks the ancestors.       *)
(* Title, slug, body, template and SEO fields are left out, and so are the *)
(* revisions, since what one brings back an editor may ask for as well.    *)
(***************************************************************************)
EXTENDS Naturals, FiniteSets

CONSTANTS Page,        \* ids pages may get
          Request,     \* goroutines serving an editor's request
          NoPage,      \* a parent_id that is NULL
          MaxUpdates,  \* bound of the model: updates begun
          MaxMoves     \* bound of the model: moves into the trash, out of it, deletions

ASSUME PagesAssumption == NoPage \notin Page /\ MaxUpdates \in Nat /\ MaxMoves \in Nat

Status == {"DRAFT", "PUBLISHED"}
Keep == "keep"                       \* a nil field of UpdateInput
Row == [parent : Page \cup {NoPage}, status : Status, stamped : BOOLEAN, trashed : BOOLEAN]
Absent == [absent |-> TRUE]
Idle == [op |-> "idle"]

VARIABLES
    rows,       \* rows[p]: table pages
    created,    \* ids given out
    announced,  \* pages with a content.published event in the outbox
    req,        \* req[r]: what a request has read so far
    updates,    \* updates begun (bounds the model)
    moves       \* moves into the trash and the like (bounds the model)

vars == <<rows, created, announced, req, updates, moves>>

Existing == {p \in Page : rows[p] # Absent}
Active == {p \in Existing : ~rows[p].trashed}

Init == /\ rows = [p \in Page |-> Absent]
        /\ created = {}
        /\ announced = {}
        /\ req = [r \in Request |-> Idle]
        /\ updates = 0
        /\ moves = 0

-------------------------------------------------------------------------------
(* The hierarchy.                                                           *)

ParentOf(p) == rows[p].parent

\* The pages S leads to along child links inside items, S included.
Reached(S, items) ==
    {p \in items : \A D \in SUBSET items :
        /\ S \subseteq D
        /\ \A c \in items : ParentOf(c) \in D => c \in D
        => p \in D}

\* Pages on a cycle or below one: going up from them never ends.
Endless == UNION {C \in SUBSET Existing : \A p \in C : ParentOf(p) \in C}
Acyclic == Endless = {}

\* The foreign key: ON DELETE SET NULL.
DetachedFrom(p, row) ==
    IF row # Absent /\ row.parent = p THEN [row EXCEPT !.parent = NoPage] ELSE row

\* Mutant: trashed pages are no parents, so what is below them is no root either.
RootsUnparented(items) == {p \in items : ParentOf(p) = NoPage}

\* The roots of a listing: pages whose parent is not in it.
Roots(items) == {p \in items : ParentOf(p) \notin items}

\* The rows of the admin's table for the pages of one listing.
Listing(items) == Reached(Roots(items), items)

-------------------------------------------------------------------------------
(* Creation.                                                                *)

\* The parent a request asks for is looked up by its id.
ParentAcceptable(p) == p \in Active

\* Create, up to its transaction; begun only when nothing else is under way (a bound
\* of the model).
CheckCreate(r, parent) ==
    /\ \A s \in Request : req[s] = Idle
    /\ parent = NoPage \/ ParentAcceptable(parent)
    /\ req' = [req EXCEPT ![r] = [op |-> "create", parent |-> parent]]
    /\ UNCHANGED <<rows, created, announced, updates, moves>>

\* Mutant: parent_id without its foreign key.
Unconstrained(parent) == TRUE

\* The foreign key on parent_id.
Insertable(parent) == parent \in Existing \cup {NoPage}

\* The row and, when it is born published, its event; or nothing.
StoreCreate(r) ==
    /\ req[r].op = "create"
    /\ \/ /\ Insertable(req[r].parent)
          /\ \E p \in Page \ created, status \in Status :
                /\ rows' = [rows EXCEPT ![p] =
                      [parent |-> req[r].parent, status |-> status,
                       stamped |-> status = "PUBLISHED", trashed |-> FALSE]]
                /\ created' = created \cup {p}
                /\ announced' = IF status = "PUBLISHED" THEN announced \cup {p} ELSE announced
       \/ /\ ~Insertable(req[r].parent)
          /\ UNCHANGED <<rows, created, announced>>
    /\ req' = [req EXCEPT ![r] = Idle]
    /\ UNCHANGED <<updates, moves>>

-------------------------------------------------------------------------------
(* Updates.                                                                 *)

\* Mutant: an unset field is copied as well.
GivenAsIs(value, old) == value

\* A field of UpdateInput, or what the row has.
Given(value, old) == IF value = Keep THEN old ELSE value

\* Update reads the row; parent and status are new values or Keep.
ReadRow(r, p, parent, status) ==
    /\ req[r] = Idle
    /\ updates < MaxUpdates
    /\ updates' = updates + 1
    /\ p \in Active
    /\ req' = [req EXCEPT ![r] =
          [op |-> IF parent \in {Keep, NoPage} THEN "write" ELSE "parent",
           page |-> p, prior |-> rows[p],
           parent |-> Given(parent, ParentOf(p)),
           status |-> Given(status, rows[p].status),
           publishes |-> status = "PUBLISHED",
           at |-> NoPage, misled |-> FALSE]]
    /\ UNCHANGED <<rows, created, announced, moves>>

Edit(r, p) == \E parent \in Page \cup {NoPage, Keep}, status \in Status \cup {Keep} :
                 ReadRow(r, p, parent, status)
\* A revision is applied as an update of its own: the parent and the status of some
\* earlier time.
RestoreRevision(r, p) == \E parent \in Page \cup {NoPage}, status \in Status :
                            ReadRow(r, p, parent, status)

Refuse(r) == /\ req' = [req EXCEPT ![r] = Idle]
             /\ UNCHANGED <<rows, created, announced, updates, moves>>
Advance(r, op, at) == /\ req' = [req EXCEPT ![r].op = op, ![r].at = at]
                      /\ UNCHANGED <<rows, created, announced, updates, moves>>
\* Accepted when the walk has come to the end.
Climb(r, at) == IF at = NoPage THEN Advance(r, "write", NoPage) ELSE Advance(r, "walk", at)

\* validateParent: not itself, there and not trashed.
ReadParent(r) ==
    /\ req[r].op = "parent"
    /\ \/ /\ req[r].parent # req[r].page
          /\ ParentAcceptable(req[r].parent)
          /\ Climb(r, ParentOf(req[r].parent))
       \/ /\ \/ req[r].parent = req[r].page
             \/ ~ParentAcceptable(req[r].parent)
          /\ Refuse(r)

\* Mutant: the walk ends at a page in the trash.
ReadableIfActive(p) == p \in Active

\* The statement of the walk finds trashed pages too.
Readable(p) == p \in Existing

\* validateParent, one ancestor at a time.  A page that is gone ends the walk.
WalkUp(r) ==
    /\ req[r].op = "walk"
    /\ IF req[r].at = req[r].page THEN Refuse(r)
       ELSE \/ Readable(req[r].at) /\ Climb(r, ParentOf(req[r].at))
            \/ ~Readable(req[r].at) /\ Climb(r, NoPage)

\* The parent is accepted before the walk has come to the end: reading an ancestor
\* fails, for whatever reason, or the bound of 1000 steps is reached.
CutShort(r) == /\ req[r].op = "walk"
               /\ req' = [req EXCEPT ![r].op = "write", ![r].at = NoPage, ![r].misled = TRUE]
               /\ UNCHANGED <<rows, created, announced, updates, moves>>

\* Mutant: the status is compared after it was assigned.
AnnouncesAfterAssignment(q) == q.publishes /\ q.status # "PUBLISHED"

\* becamePublished: asked for, and not so in the row that was read.
Announces(q) == q.publishes /\ q.prior.status # "PUBLISHED"

NextRow(q) == [parent |-> q.parent, status |-> q.status, trashed |-> FALSE,
             stamped |-> q.prior.stamped \/ q.publishes]

\* A walk of the others may have gone past what changes now (history only).
Overlap(r, p, parent) ==
    [s \in Request |->
        IF s = r THEN Idle
        ELSE IF req[s] # Idle /\ req[s].op # "create" /\ parent # ParentOf(p)
             THEN [req[s] EXCEPT !.misled = TRUE]
        ELSE req[s]]

\* persistUpdate: row and event (and revision), or nothing: the row is gone or in the
\* trash, or its parent is gone.
Write(r) ==
    LET q == req[r] IN
    /\ q.op = "write"
    /\ \/ /\ q.page \in Active
          /\ Insertable(q.parent)
          /\ rows' = [rows EXCEPT ![q.page] = NextRow(q)]
          /\ announced' = IF Announces(q) THEN announced \cup {q.page} ELSE announced
          /\ req' = Overlap(r, q.page, q.parent)
          /\ UNCHANGED <<created, updates, moves>>
       \/ /\ q.page \notin Active \/ ~Insertable(q.parent)
          /\ Refuse(r)

\* A statement outside the walk fails or the client is gone: nothing is written.
Abandon(r) == req[r] # Idle /\ Refuse(r)

-------------------------------------------------------------------------------
(* The trash.                                                               *)

Moved == /\ moves < MaxMoves
         /\ moves' = moves + 1
         /\ UNCHANGED <<created, announced, req, updates>>

Trash(p) == p \in Active /\ rows' = [rows EXCEPT ![p].trashed = TRUE] /\ Moved

Restore(p) == p \in Existing \ Active /\ rows' = [rows EXCEPT ![p].trashed = FALSE] /\ Moved

\* Any page may be deleted, in the trash or not; its children become roots.
PermanentDelete(p) ==
    /\ p \in Existing
    /\ rows' = [q \in Page |-> IF q = p THEN Absent ELSE DetachedFrom(p, rows[q])]
    /\ Moved

-------------------------------------------------------------------------------
Next ==
    \/ \E r \in Request :
          \/ \E parent \in Page \cup {NoPage} : CheckCreate(r, parent)
          \/ StoreCreate(r)
          \/ \E p \in Page : Edit(r, p) \/ RestoreRevision(r, p)
          \/ ReadParent(r)
          \/ WalkUp(r) \/ CutShort(r)
          \/ Write(r)
          \/ Abandon(r)
    \/ \E p \in Page : Trash(p) \/ Restore(p) \/ PermanentDelete(p)

Spec == Init /\ [][Next]_vars

-------------------------------------------------------------------------------
(* Properties.                                                              *)

TypeOK ==
    /\ rows \in [Page -> Row \cup {Absent}]
    /\ created \subseteq Page /\ Existing \subseteq created
    /\ announced \subseteq created
    /\ updates \in 0 .. MaxUpdates /\ moves \in 0 .. MaxMoves
    /\ \A r \in Request : req[r] = Idle \/ req[r].op \in {"create", "parent", "walk", "write"}

\* Every parent_id names a page that exists, though a request may have looked its
\* parent up before another deleted it, and a whole-row update writes back a parent
\* it read long ago.
ParentsExist == \A p \in Existing : ParentOf(p) \in Existing \cup {NoPage}

\* The step that closes a cycle is the write of an update whose walk was cut short or
\* in whose course another update has moved a page: updates that walk to the end one
\* after the other never close one, whatever was created, trashed, restored, deleted
\* or taken from a revision in between.
CyclesNeedARace ==
    [][rows # rows' /\ Acyclic /\ ~Acyclic' =>
          \E r \in Request : req[r] # Idle /\ req'[r] = Idle /\ req[r].misled]_vars

\* The table of the admin area shows every page of a listing (a status, a page of
\* it) but those that are on a cycle or below one: a parent in the trash or on
\* another page of the listing hides nothing.
ListingComplete ==
    \A items \in SUBSET Active :
        items \ Endless \subseteq Listing(items)

\* A page that is public has its publication stamped and its event in the outbox,
\* also when stale rows were written over newer ones.
PublishedPagesAnnounced ==
    \A p \in Existing : rows[p].status = "PUBLISHED" => rows[p].stamped /\ p \in announced
===============================================================================
