----------------------------- MODULE CommentsProofs -----------------------------
(***************************************************************************)
(* For any comments, posts, users and requests: the public reads approved  *)
(* texts only, replies stay below existing comments of their post, and     *)
(* what waits for moderation is shown to its author alone.  The invariant  *)
(* adds what stays true of what requests have found out: the comment that a*)
(* reply answers may vanish meanwhile, but its id is never another         *)
(* comment's, so what a request knows of an id is not about a stranger.    *)
(***************************************************************************)
EXTENDS Comments, FiniteSetTheorems, TLAPS

Submitting == [op : {"submit"}, row : CommentRow]
Owning == [op : {"edit", "delete"}, id : Comment]
Moderating == [op : {"moderate"}, id : Comment, verdict : Verdict]
Reading == [op : {"thread"}, post : Post, viewer : User \cup {Nobody}, whole : BOOLEAN,
            approved : SUBSET Listed, own : SUBSET Listed]

\* A row about to be inserted is new, and its parent, if there still is one, is on the
\* same post.
Fresh(row) ==
    /\ row.status = "PENDING" /\ row.version = 0
    /\ row.parent # Nobody =>
          /\ row.parent \in announced
          /\ row.parent \in Existing => comments[row.parent].post = row.post

\* What a page lists was approved, or is the viewer's, unless it is gone.
Entitled(q) ==
    /\ \A x \in q.approved :
          /\ x.id \in announced
          /\ x.id \in Existing => <<x.id, x.version>> \in approvals
    /\ \A x \in q.own :
          /\ x.id \in announced
          /\ x.id \in Existing => comments[x.id].author = q.viewer
    /\ q.viewer = Nobody => q.whole /\ q.own = {}

Held(q) == /\ q \in Submitting => Fresh(q.row)
           /\ q \in Reading => Entitled(q)

RequestsHold == \A r \in Request : Held(req[r])

Inv == /\ TypeOK /\ Existing \subseteq announced /\ RequestsHold
       /\ PublicTextApproved /\ ThreadsIntact

-------------------------------------------------------------------------------
\* Rows are rows, and the states of a request are told apart by their op.
LEMMA Distinct ==
    /\ None \notin CommentRow
    /\ None \notin Submitting /\ None \notin Owning /\ None \notin Moderating
    /\ None \notin Reading
    /\ \A q \in Submitting : q.op = "submit" /\ q \notin Reading
    /\ \A q \in Owning : q.op \in {"edit", "delete"} /\ q \notin Reading /\ q \notin Submitting
    /\ \A q \in Moderating : q.op = "moderate" /\ q \notin Reading /\ q \notin Submitting
    /\ \A q \in Reading : q.op = "thread" /\ q \notin Submitting
    /\ RequestState = Submitting \cup Owning \cup Moderating \cup Reading
BY DEF None, CommentRow, Submitting, Owning, Moderating, Reading, RequestState

LEMMA RowsTyped ==
  ASSUME Inv
  PROVE  \A c \in Existing : c \in Comment /\ comments[c] \in CommentRow
BY DEF Inv, TypeOK, Existing

LEMMA RequestsTyped ==
  ASSUME Inv, NEW r \in Request
  PROVE  /\ At(r, "submit") => req[r] \in Submitting /\ Fresh(req[r].row)
         /\ (At(r, "edit") \/ At(r, "delete")) => req[r] \in Owning
         /\ At(r, "moderate") => req[r] \in Moderating
         /\ At(r, "thread") => req[r] \in Reading /\ Entitled(req[r])
BY Distinct DEF Inv, TypeOK, At, RequestsHold, Held

LEMMA InitInv == Init => Inv
<1> SUFFICES ASSUME Init PROVE Inv
  OBVIOUS
<1>1. Existing = {}
  BY DEF Init, Existing
<1>2. TypeOK
  BY CommentsAssumption DEF Init, TypeOK
<1>3. RequestsHold
  BY Distinct DEF Init, RequestsHold, Held
<1> QED BY <1>1, <1>2, <1>3 DEF Inv, PublicTextApproved, ThreadsIntact

\* A step of one request that writes nothing.
LEMMA RequestStep ==
  ASSUME Inv, NEW r \in Request, NEW q \in RequestState \cup {None}, Held(q),
         req' = [req EXCEPT ![r] = q],
         closed' \subseteq Comment,
         UNCHANGED <<comments, posts, announced, approvals>>
  PROVE  Inv'
<1>1. TypeOK'
  BY DEF Inv, TypeOK
<1>2. RequestsHold'
  BY DEF Inv, TypeOK, RequestsHold, Held, Fresh, Entitled, Existing
<1>3. (Existing \subseteq announced)' /\ PublicTextApproved' /\ ThreadsIntact'
  BY DEF Inv, Existing, PublicTextApproved, ThreadsIntact
<1> QED BY <1>1, <1>2, <1>3 DEF Inv

\* A step that writes comments keeps what the requests hold, if the comments that survive
\* keep their post, their author and their approvals, and new ones have new ids.
LEMMA HeldStep ==
  ASSUME Inv, announced \subseteq announced',
         \A s \in Request : req'[s] \in {None, req[s]},
         \A c \in Existing' :
            \/ /\ c \in Existing
               /\ comments'[c].post = comments[c].post
               /\ comments'[c].author = comments[c].author
               /\ \A v \in Version : <<c, v>> \in approvals => <<c, v>> \in approvals'
            \/ c \notin announced
  PROVE  RequestsHold'
<1> SUFFICES ASSUME NEW s \in Request PROVE Held(req[s])'
  BY DEF RequestsHold
<1>1. CASE req'[s] = None
  BY <1>1, Distinct DEF Held
<1>2. CASE req'[s] = req[s] /\ req[s] \in Submitting
  <2>1. Fresh(req[s].row)
    BY <1>2 DEF Inv, RequestsHold, Held
  <2>2. Fresh(req[s].row)'
    BY <1>2, <2>1 DEF Fresh
  <2> QED BY <1>2, <2>2, Distinct DEF Held
<1>3. CASE req'[s] = req[s] /\ req[s] \in Reading
  <2>1. Entitled(req[s])
    BY <1>3 DEF Inv, RequestsHold, Held
  <2>2. \A x \in req[s].approved : x.version \in Version
    BY <1>3 DEF Reading, Listed
  <2>3. Entitled(req[s])'
    BY <1>3, <2>1, <2>2 DEF Entitled
  <2> QED BY <1>3, <2>3, Distinct DEF Held
<1>4. CASE req'[s] = req[s] /\ req[s] \notin Submitting /\ req[s] \notin Reading
  BY <1>4 DEF Held
<1> QED BY <1>1, <1>2, <1>3, <1>4

\* The step ends the request, or none.
LEMMA DoneTyped ==
  ASSUME Inv, NEW r, Done(r) \/ req' = req
  PROVE  /\ req' \in [Request -> RequestState \cup {None}]
         /\ \A s \in Request : req'[s] \in {None, req[s]}
BY DEF Done, Inv, TypeOK

-------------------------------------------------------------------------------
\* A set of comments goes, with every comment that answers one of them.
LEMMA RemoveStep ==
  ASSUME Inv, NEW gone, Remove(gone), NEW r, Done(r) \/ req' = req,
         \A c \in Existing : comments[c].parent \in gone => c \in gone,
         posts' \subseteq posts, announced' = announced
  PROVE  Inv'
<1>1. /\ Existing' = Existing \ gone
      /\ \A c \in Existing' : comments'[c] = comments[c]
  BY DEF Remove, Existing
<1>2. TypeOK'
  <2>1. comments' \in [Comment -> CommentRow \cup {None}]
    BY DEF Remove, Inv, TypeOK
  <2> QED BY <2>1, DoneTyped DEF Remove, Inv, TypeOK
<1>3. RequestsHold'
  BY <1>1, HeldStep, DoneTyped DEF Remove
<1>4. PublicTextApproved'
  BY <1>1 DEF Remove, Inv, PublicTextApproved
<1>5. ThreadsIntact'
  BY <1>1 DEF Inv, ThreadsIntact
<1> QED BY <1>1, <1>2, <1>3, <1>4, <1>5 DEF Inv

\* The answers to what a deletion takes are taken too.
LEMMA SubtreeClosed ==
  ASSUME NEW top
  PROVE  \A c \in Existing : comments[c].parent \in Subtree(top) => c \in Subtree(top)
<1> SUFFICES ASSUME NEW c \in Existing, comments[c].parent \in Subtree(top),
                    NEW D \in SUBSET Comment, top \in D,
                    \A d \in Existing : comments[d].parent \in D => d \in D
             PROVE  c \in D
  BY DEF Subtree
<1>1. comments[c].parent \in D
  BY DEF Subtree
<1> QED BY <1>1

\* One comment is rewritten; its place stays.
LEMMA RewriteStep ==
  ASSUME Inv, NEW c \in Existing, NEW row \in CommentRow, NEW r, Done(r),
         comments' = [comments EXCEPT ![c] = row],
         row.post = comments[c].post, row.parent = comments[c].parent,
         row.author = comments[c].author,
         approvals \subseteq approvals', approvals' \subseteq Comment \X Version,
         row.status = "APPROVED" => <<c, row.version>> \in approvals',
         UNCHANGED <<posts, closed, announced>>
  PROVE  Inv'
<1>1. c \in Comment
  BY DEF Existing
<1>2. /\ comments'[c] = row
      /\ \A d \in Comment : d # c => comments'[d] = comments[d]
  BY <1>1 DEF Inv, TypeOK
<1>3. Existing' = Existing
  BY <1>1, <1>2, Distinct DEF Existing
<1>4. TypeOK'
  BY <1>1, DoneTyped DEF Inv, TypeOK
<1>5. RequestsHold'
  <2>1. \A d \in Existing' : d \in Existing /\ comments'[d].post = comments[d].post
                             /\ comments'[d].author = comments[d].author
    BY <1>2, <1>3, RowsTyped
  <2> QED BY <2>1, HeldStep, DoneTyped
<1>6. PublicTextApproved'
  BY <1>2, <1>3, RowsTyped DEF Inv, PublicTextApproved
<1>7. ThreadsIntact'
  BY <1>2, <1>3, RowsTyped DEF Inv, ThreadsIntact
<1> QED BY <1>3, <1>4, <1>5, <1>6, <1>7 DEF Inv

-------------------------------------------------------------------------------
\* Submission.

LEMMA CheckSubmissionStep ==
  ASSUME Inv, NEW r \in Request, NEW p \in Post, NEW parent \in Comment \cup {Nobody},
         NEW author \in User \cup {Nobody}, CheckSubmission(r, p, parent, author)
  PROVE  Inv'
<1> DEFINE row == Submitted(p, parent, author)
           q == [op |-> "submit", row |-> row]
<1>1. row \in CommentRow
  BY CommentsAssumption DEF Submitted, Row, CommentRow, Status, Version
<1>2. Fresh(row)
  BY DEF CheckSubmission, Submitted, Row, MayReply, Fresh, Inv
<1>3. q \in Submitting /\ q.row = row /\ q \notin Reading
  BY <1>1, Distinct DEF Submitting
<1>4. req' = [req EXCEPT ![r] = q] /\ closed' \subseteq Comment
  BY DEF CheckSubmission, Inv, TypeOK
<1> HIDE DEF q, row
<1>5. Held(q) /\ q \in RequestState
  BY <1>2, <1>3, Distinct DEF Held
<1> QED BY <1>4, <1>5, RequestStep DEF CheckSubmission

LEMMA StoreCommentStep ==
  ASSUME Inv, NEW r \in Request, StoreComment(r)
  PROVE  Inv'
<1> DEFINE row == req[r].row
<1>1. row \in CommentRow /\ Fresh(row) /\ Done(r)
  BY RequestsTyped DEF StoreComment, Submitting
<1>2. CASE UNCHANGED <<comments, announced>>
  <2>1. Held(None) /\ closed' \subseteq Comment
    BY <1>2, Distinct DEF Held, StoreComment, Inv, TypeOK
  <2> QED BY <1>1, <1>2, <2>1, RequestStep DEF StoreComment, Done
<1>3. CASE Insertable(row) /\ \E c \in Comment \ announced :
              /\ comments' = [comments EXCEPT ![c] = row]
              /\ announced' = announced \cup {c}
  <2>1. PICK c \in Comment \ announced : /\ comments' = [comments EXCEPT ![c] = row]
                                         /\ announced' = announced \cup {c}
    BY <1>3
  <2>2. UNCHANGED <<posts, closed, approvals>>
    BY DEF StoreComment
  <2>3. Insertable(row)
    BY <1>3
  <2> HIDE DEF row
  <2>4. /\ comments'[c] = row
        /\ \A d \in Comment : d # c => comments'[d] = comments[d]
        /\ c \notin Existing
    BY <2>1 DEF Inv, TypeOK
  <2>5. Existing' = Existing \cup {c}
    BY <1>1, <2>4, Distinct DEF Existing
  <2>6. TypeOK'
    <3>1. comments' \in [Comment -> CommentRow \cup {None}]
      BY <1>1, <2>1 DEF Inv, TypeOK
    <3> QED BY <1>1, <2>1, <2>2, <3>1, DoneTyped DEF Inv, TypeOK
  <2>7. RequestsHold'
    BY <1>1, <2>1, <2>2, <2>4, <2>5, RowsTyped, HeldStep, DoneTyped
  <2>8. PublicTextApproved'
    BY <1>1, <2>2, <2>4, <2>5, RowsTyped DEF Fresh, Inv, PublicTextApproved
  <2>9. ThreadsIntact'
    <3> SUFFICES ASSUME NEW d \in Existing', comments'[d].parent # Nobody
                 PROVE  /\ comments'[d].parent \in Existing'
                        /\ comments'[comments'[d].parent].post = comments'[d].post
      BY DEF ThreadsIntact
    <3>1. CASE d = c
      <4>1. row.parent \in Existing /\ comments[row.parent].post = row.post
        BY <1>1, <2>3, <2>4, <3>1 DEF Insertable, Fresh
      <4> QED BY <2>4, <2>5, <3>1, <4>1, RowsTyped
    <3>2. CASE d \in Existing
      BY <2>4, <2>5, <3>2, RowsTyped DEF Inv, ThreadsIntact
    <3> QED BY <2>5, <3>1, <3>2
  <2>10. Existing' \subseteq announced'
    BY <2>1, <2>5 DEF Inv
  <2> QED BY <2>6, <2>7, <2>8, <2>9, <2>10 DEF Inv
<1> QED BY <1>2, <1>3 DEF StoreComment

-------------------------------------------------------------------------------
\* Edits and deletions by the author, and moderation.

LEMMA CloseWindowStep ==
  ASSUME Inv, NEW c \in Comment, CloseWindow(c)
  PROVE  Inv'
<1>1. TypeOK'
  BY DEF CloseWindow, Inv, TypeOK
<1>2. RequestsHold'
  BY DEF CloseWindow, Inv, RequestsHold, Held, Fresh, Entitled, Existing
<1> QED BY <1>1, <1>2 DEF CloseWindow, Inv, Existing, PublicTextApproved, ThreadsIntact

LEMMA ReadOwnStep ==
  ASSUME Inv, NEW r \in Request, NEW op \in {"edit", "delete"}, NEW c \in Comment,
         NEW viewer, ReadOwn(r, op, c, viewer)
  PROVE  Inv'
<1> DEFINE q == [op |-> op, id |-> c]
<1>1. q \in Owning
  BY DEF Owning
<1>2. req' = [req EXCEPT ![r] = q] /\ closed' \subseteq Comment
  BY DEF ReadOwn, Inv, TypeOK
<1> HIDE DEF q
<1>3. Held(q) /\ q \in RequestState
  BY <1>1, Distinct DEF Held
<1> QED BY <1>2, <1>3, RequestStep DEF ReadOwn

LEMMA SelfEditStep ==
  ASSUME Inv, NEW r \in Request, SelfEdit(r)
  PROVE  Inv'
<1> DEFINE c == req[r].id
<1>1. CASE c \in Existing /\ comments[c].version < MaxEdits
  <2>1. comments[c] \in CommentRow
    BY <1>1, RowsTyped
  <2>2. comments[c].version + 1 \in Version
    BY <1>1, <2>1, CommentsAssumption DEF CommentRow, Version
  <2>3. /\ Edited(c) \in CommentRow /\ Edited(c).status = "PENDING"
        /\ Edited(c).post = comments[c].post /\ Edited(c).parent = comments[c].parent
        /\ Edited(c).author = comments[c].author
    BY <2>1, <2>2 DEF Edited, CommentRow, Status
  <2>4. comments' = [comments EXCEPT ![c] = Edited(c)] /\ Done(r)
    BY <1>1 DEF SelfEdit
  <2>5. UNCHANGED <<posts, closed, announced, approvals>> /\ approvals' \subseteq Comment \X Version
    BY DEF SelfEdit, Inv, TypeOK
  <2> HIDE DEF c
  <2> QED BY <1>1, <2>3, <2>4, <2>5, RewriteStep
<1>2. CASE ~(c \in Existing /\ comments[c].version < MaxEdits)
  <2>1. Held(None) /\ closed' \subseteq Comment
    BY Distinct DEF Held, SelfEdit, Inv, TypeOK
  <2> QED BY <1>2, <2>1, RequestStep DEF SelfEdit, Done
<1> QED BY <1>1, <1>2

LEMMA SelfDeleteStep ==
  ASSUME Inv, NEW r \in Request, SelfDelete(r)
  PROVE  Inv'
BY SubtreeClosed, RemoveStep DEF SelfDelete

LEMMA ModerateStep ==
  ASSUME Inv, NEW r \in Request, NEW c \in Comment, NEW verdict \in Verdict,
         Moderate(r, c, verdict)
  PROVE  Inv'
<1> DEFINE q == [op |-> "moderate", id |-> c, verdict |-> verdict]
<1>1. q \in Moderating
  BY DEF Moderating
<1>2. req' = [req EXCEPT ![r] = q] /\ closed' \subseteq Comment
  BY DEF Moderate, Inv, TypeOK
<1> HIDE DEF q
<1>3. Held(q) /\ q \in RequestState
  BY <1>1, Distinct DEF Held
<1> QED BY <1>2, <1>3, RequestStep DEF Moderate

LEMMA WriteVerdictStep ==
  ASSUME Inv, NEW r \in Request, WriteVerdict(r)
  PROVE  Inv'
<1> DEFINE c == req[r].id
           verdict == req[r].verdict
<1>1. verdict \in Verdict /\ Done(r) /\ UNCHANGED <<posts, announced>>
  BY RequestsTyped DEF WriteVerdict, Moderating
<1>2. CASE Remove(Subtree(c))
  BY <1>1, <1>2, SubtreeClosed, RemoveStep
<1>3. CASE verdict # "DELETED" /\ c \in Existing /\ SetStatus(c, verdict)
  <2> DEFINE row == [comments[c] EXCEPT !.status = verdict]
  <2>1. comments[c] \in CommentRow /\ verdict \in Status /\ c \in Comment
    BY <1>1, <1>3, RowsTyped DEF Verdict, Status
  <2>2. /\ row \in CommentRow /\ row.status = verdict /\ row.version = comments[c].version
        /\ row.post = comments[c].post /\ row.parent = comments[c].parent
        /\ row.author = comments[c].author
    BY <2>1 DEF CommentRow
  <2>3. comments' = [comments EXCEPT ![c] = row]
    BY <1>3, <2>1 DEF SetStatus, Inv, TypeOK
  <2>4. /\ approvals \subseteq approvals'
        /\ verdict = "APPROVED" => <<c, row.version>> \in approvals'
        /\ closed' = closed
    BY <1>3, <2>2 DEF SetStatus
  <2>5. approvals' \subseteq Comment \X Version
    BY <1>3, <2>1 DEF SetStatus, Inv, TypeOK, CommentRow
  <2> HIDE DEF row, c, verdict
  <2> QED BY <1>1, <1>3, <2>2, <2>3, <2>4, <2>5, RewriteStep
<1>4. CASE UNCHANGED <<comments, closed, approvals>>
  <2>1. Held(None) /\ closed' \subseteq Comment
    BY <1>4, Distinct DEF Held, Inv, TypeOK
  <2> QED BY <1>1, <1>4, <2>1, RequestStep DEF Done
<1> QED BY <1>2, <1>3, <1>4 DEF WriteVerdict

-------------------------------------------------------------------------------
\* The page of a reader, and the rest.

LEMMA PublicTyped ==
  ASSUME Inv, NEW c \in Existing
  PROVE  Public(c) \in Listed /\ Public(c).id = c /\ Public(c).version = comments[c].version
BY RowsTyped DEF Public, Listed, CommentRow

LEMMA ListApprovedStep ==
  ASSUME Inv, NEW r \in Request, NEW p \in Post, NEW viewer \in User \cup {Nobody},
         ListApproved(r, p, viewer)
  PROVE  Inv'
<1> DEFINE approved == {Public(c) : c \in {d \in Existing :
                            comments[d].post = p /\ comments[d].status = "APPROVED"}}
           q == [op |-> "thread", post |-> p, viewer |-> viewer, whole |-> (viewer = Nobody),
                 approved |-> approved, own |-> {}]
<1>1. approved \subseteq Listed
  BY PublicTyped
<1>2. \A x \in approved : x.id \in announced /\ <<x.id, x.version>> \in approvals
  BY PublicTyped DEF Inv, PublicTextApproved
<1>3. req' = [req EXCEPT ![r] = q] /\ closed' \subseteq Comment
  BY DEF ListApproved, Inv, TypeOK
<1> HIDE DEF approved
<1>4. (viewer = Nobody) \in BOOLEAN
  OBVIOUS
<1>5. q \in Reading
  BY <1>1, <1>4 DEF Reading
<1>6. /\ q.approved = approved /\ q.own = {} /\ q.viewer = viewer
      /\ viewer = Nobody => q.whole
  OBVIOUS
<1> HIDE DEF q
<1>7. Held(q) /\ q \in RequestState
  BY <1>2, <1>5, <1>6, Distinct DEF Held, Entitled
<1> QED BY <1>3, <1>7, RequestStep DEF ListApproved

LEMMA ListOwnStep ==
  ASSUME Inv, NEW r \in Request, ListOwn(r)
  PROVE  Inv'
<1>0. PICK newest \in SUBSET Existing :
         req' = [req EXCEPT ![r].whole = TRUE, ![r].own =
                   {Public(c) : c \in {d \in newest \cap Unlisted(req[r]) : OwnOfPost(req[r], d)}}]
  BY DEF ListOwn
<1> DEFINE own ==
             {Public(c) : c \in {d \in newest \cap Unlisted(req[r]) : OwnOfPost(req[r], d)}}
           q == [req[r] EXCEPT !.whole = TRUE, !.own = own]
<1>1. req[r] \in Reading /\ Entitled(req[r]) /\ ~req[r].whole
  BY RequestsTyped DEF ListOwn
<1>2. own \subseteq Listed /\ \A x \in own : /\ x.id \in announced
                                             /\ comments[x.id].author = req[r].viewer
  BY PublicTyped DEF Unlisted, OwnOfPost, Inv
<1>3. req' = [req EXCEPT ![r] = q] /\ closed' \subseteq Comment
  BY <1>0 DEF ListOwn, Inv, TypeOK
<1> HIDE DEF own
<1>4. /\ q \in Reading /\ q.approved = req[r].approved /\ q.own = own
      /\ q.viewer = req[r].viewer
  BY <1>1, <1>2 DEF Reading
<1> HIDE DEF q
<1>5. Held(q) /\ q \in RequestState
  BY <1>1, <1>2, <1>4, Distinct DEF Held, Entitled
<1> QED BY <1>3, <1>5, RequestStep DEF ListOwn

LEMMA EndRequestStep ==
  ASSUME Inv, NEW r \in Request, EndRequest(r)
  PROVE  Inv'
<1>1. Held(None) /\ closed' \subseteq Comment
  BY Distinct DEF Held, EndRequest, Inv, TypeOK
<1> QED BY <1>1, RequestStep DEF EndRequest, Done

LEMMA DeletePostStep ==
  ASSUME Inv, NEW p \in Post, DeletePost(p)
  PROVE  Inv'
<1> DEFINE gone == {c \in Existing : comments[c].post = p}
<1>1. \A c \in Existing : comments[c].parent \in gone => c \in gone
  BY CommentsAssumption DEF Inv, ThreadsIntact, Existing
<1>2. Remove(gone) /\ posts' \subseteq posts /\ announced' = announced /\ req' = req
  BY DEF DeletePost
<1> HIDE DEF gone
<1> QED BY <1>1, <1>2, RemoveStep

LEMMA NextStep == Inv /\ [Next]_vars => Inv'
<1> SUFFICES ASSUME Inv, [Next]_vars PROVE Inv'
  OBVIOUS
<1>1. CASE UNCHANGED vars
  BY <1>1 DEF vars, Inv, TypeOK, RequestsHold, Held, Fresh, Entitled, Existing,
     PublicTextApproved, ThreadsIntact
<1>2. CASE \E c \in Comment : CloseWindow(c)
  BY <1>2, CloseWindowStep
<1>3. CASE \E p \in Post : DeletePost(p)
  BY <1>3, DeletePostStep
<1>4. ASSUME NEW r \in Request, NEW c \in Comment, NEW u \in User,
             StartSelfEdit(r, c, u) \/ StartSelfDelete(r, c, u)
      PROVE  Inv'
  BY <1>4, ReadOwnStep DEF StartSelfEdit, StartSelfDelete
<1> QED BY <1>1, <1>2, <1>3, <1>4, CheckSubmissionStep, StoreCommentStep, SelfEditStep,
           SelfDeleteStep, ModerateStep, WriteVerdictStep, ListApprovedStep, ListOwnStep,
           EndRequestStep DEF Next

-------------------------------------------------------------------------------
(* What a page shows.  A set of comments none of which is the first of its  *)
(* thread: every one answers another of them.                               *)

Headless(E) == \A y \in E : y.parent \in Ids(E)

\* Going up from a comment one comes to the first of its thread.
ThreadsBegin ==
    \A C \in SUBSET Existing : (\A c \in C : comments[c].parent \in C) => C = {}

\* A reader's lists have every comment once and in the place it has; and a comment that
\* is gone has the place it had.
Listing(q) == q.approved \cup q.own
Shown(q) ==
    /\ q.approved \cap q.own = {}
    /\ \A x, y \in Listing(q) : x.id = y.id => x = y
    /\ \A x \in Listing(q) : x.id \in Existing => comments[x.id].parent = x.parent
    /\ \A E \in SUBSET Listing(q) : Headless(E) => E = {}

ListsHold == /\ ThreadsBegin
             /\ IsFiniteSet(announced)
             /\ \A r \in Request : req[r] \in Reading => Shown(req[r])

LEMMA InitLists == Init => ListsHold
<1> SUFFICES ASSUME Init PROVE ListsHold
  OBVIOUS
<1>1. Existing = {} /\ \A r \in Request : req[r] \notin Reading
  BY Distinct DEF Init, Existing
<1> QED BY <1>1, FS_EmptySet DEF Init, ListsHold, ThreadsBegin

\* What is shown stays true if existing comments stay where they are and new ones have
\* new ids.
LEMMA ShownStays ==
  ASSUME Inv, NEW q \in Reading, Shown(q), Entitled(q),
         \A c \in Existing' : \/ c \in Existing /\ comments'[c].parent = comments[c].parent
                              \/ c \notin announced
  PROVE  Shown(q)'
<1>1. \A x \in Listing(q) : x.id \in announced
  BY DEF Entitled, Listing
<1> QED BY <1>1 DEF Shown, Listing

\* A step after which every comment is where it was, or gone.
LEMMA ListsStay ==
  ASSUME Inv, ListsHold, announced' = announced,
         \A c \in Existing' : c \in Existing /\ comments'[c].parent = comments[c].parent,
         \A s \in Request : \/ req'[s] \in {None, req[s]}
                            \/ \A q \in Reading : req'[s] = q => Shown(q)'
  PROVE  ListsHold'
<1>1. ThreadsBegin'
  BY DEF ListsHold, ThreadsBegin
<1>2. ASSUME NEW s \in Request, NEW q \in Reading, req'[s] = q
      PROVE  Shown(q)'
  <2>1. CASE q = req[s]
    <3>1. Shown(q) /\ Entitled(q)
      BY <2>1 DEF ListsHold, Inv, RequestsHold, Held
    <3> QED BY <3>1, ShownStays
  <2> QED BY <1>2, <2>1, Distinct
<1> QED BY <1>1, <1>2 DEF ListsHold

LEMMA ListsRemove ==
  ASSUME Inv, ListsHold, NEW gone, Remove(gone), NEW r, Done(r) \/ req' = req,
         announced' = announced
  PROVE  ListsHold'
<1>1. \A c \in Existing' : c \in Existing /\ comments'[c] = comments[c]
  BY DEF Remove, Existing
<1> QED BY <1>1, DoneTyped, ListsStay

LEMMA ListsStore ==
  ASSUME Inv, ListsHold, NEW r \in Request, StoreComment(r)
  PROVE  ListsHold'
<1> DEFINE row == req[r].row
<1>1. row \in CommentRow /\ Done(r)
  BY RequestsTyped DEF StoreComment, Submitting
<1>2. CASE UNCHANGED <<comments, announced>>
  BY <1>1, <1>2, DoneTyped, ListsStay DEF Existing
<1>3. CASE Insertable(row) /\ \E c \in Comment \ announced :
              /\ comments' = [comments EXCEPT ![c] = row]
              /\ announced' = announced \cup {c}
  <2>1. PICK c \in Comment \ announced : /\ comments' = [comments EXCEPT ![c] = row]
                                         /\ announced' = announced \cup {c}
    BY <1>3
  <2>2. row.parent \in Existing \cup {Nobody}
    BY <1>3 DEF Insertable
  <2> HIDE DEF row
  <2>3. /\ comments'[c] = row
        /\ \A d \in Comment : d # c => comments'[d] = comments[d]
        /\ c \notin Existing
    BY <2>1 DEF Inv, TypeOK
  <2>4. Existing' = Existing \cup {c}
    BY <1>1, <2>3, Distinct DEF Existing
  <2>5. IsFiniteSet(announced')
    BY <2>1, FS_AddElement DEF ListsHold
  <2>6. ThreadsBegin'
    <3> SUFFICES ASSUME NEW C, C \subseteq Existing', \A d \in C : comments'[d].parent \in C
                 PROVE  C = {}
      BY DEF ThreadsBegin
    <3>1. Nobody \notin C /\ c # Nobody
      BY CommentsAssumption DEF Existing
    <3>2. C \ {c} \subseteq Existing
      BY <2>4
    <3>3. \A d \in C \ {c} : comments[d].parent \in C \ {c}
      <4> SUFFICES ASSUME NEW d \in C \ {c}
                   PROVE  comments[d].parent \in C \ {c}
        OBVIOUS
      <4>1. d \in Existing /\ comments'[d] = comments[d]
        BY <2>3, <3>2 DEF Existing
      <4>2. comments[d].parent \in C
        BY <4>1
      <4> QED BY <2>3, <3>1, <4>1, <4>2 DEF Inv, ThreadsIntact
    <3>4. C \ {c} = {}
      BY <3>2, <3>3 DEF ListsHold, ThreadsBegin
    <3>5. c \in C => row.parent \in C
      BY <2>3
    <3> QED BY <2>2, <2>3, <3>1, <3>4, <3>5
  <2>7. ASSUME NEW s \in Request, NEW q \in Reading, req'[s] = q
        PROVE  Shown(q)'
    <3>1. req[s] = q
      BY <1>1, <2>7, DoneTyped, Distinct
    <3>2. Shown(q) /\ Entitled(q)
      BY <3>1 DEF ListsHold, Inv, RequestsHold, Held
    <3>3. \A d \in Existing' : \/ d \in Existing /\ comments'[d].parent = comments[d].parent
                               \/ d \notin announced
      BY <2>1, <2>3, <2>4 DEF Existing
    <3> QED BY <3>2, <3>3, ShownStays
  <2> QED BY <2>5, <2>6, <2>7 DEF ListsHold
<1> QED BY <1>2, <1>3 DEF StoreComment

LEMMA ListsApproved ==
  ASSUME Inv, ListsHold, NEW r \in Request, NEW p \in Post, NEW viewer \in User \cup {Nobody},
         ListApproved(r, p, viewer)
  PROVE  ListsHold'
<1> DEFINE approved == {Public(c) : c \in {d \in Existing :
                            comments[d].post = p /\ comments[d].status = "APPROVED"}}
<1>1. PICK q : /\ q = [op |-> "thread", post |-> p, viewer |-> viewer,
                       whole |-> (viewer = Nobody), approved |-> approved, own |-> {}]
               /\ req' = [req EXCEPT ![r] = q] /\ UNCHANGED <<comments, announced>>
  BY DEF ListApproved
<1>2. \A x \in approved : x = Public(x.id) /\ x.id \in Existing
  BY PublicTyped
<1>3. q.approved = approved /\ q.own = {}
  BY <1>1
<1> HIDE DEF approved
<1>4. Shown(q)
  <2>1. \A x \in approved : comments[x.id].parent = x.parent
    BY <1>2 DEF Public
  <2>2. ASSUME NEW E \in SUBSET approved, Headless(E)
        PROVE  E = {}
    <3>1. Ids(E) \in SUBSET Existing /\ \A c \in Ids(E) : comments[c].parent \in Ids(E)
      BY <1>2, <2>1, <2>2 DEF Ids, Headless
    <3>2. Ids(E) = {}
      BY <3>1 DEF ListsHold, ThreadsBegin
    <3> QED BY <3>2 DEF Ids
  <2> QED BY <1>2, <1>3, <2>1, <2>2 DEF Shown, Listing
<1>5. Shown(q)'
  BY <1>1, <1>4 DEF Shown, Existing
<1>6. \A s \in Request : req'[s] \in {req[s], q}
  BY <1>1 DEF Inv, TypeOK
<1> QED BY <1>1, <1>5, <1>6, ListsStay DEF Existing

LEMMA ListsOwn ==
  ASSUME Inv, ListsHold, NEW r \in Request, ListOwn(r)
  PROVE  ListsHold'
<1>0. PICK newest \in SUBSET Existing :
         req' = [req EXCEPT ![r].whole = TRUE, ![r].own =
                   {Public(c) : c \in {d \in newest \cap Unlisted(req[r]) : OwnOfPost(req[r], d)}}]
  BY DEF ListOwn
<1> DEFINE own ==
             {Public(c) : c \in {d \in newest \cap Unlisted(req[r]) : OwnOfPost(req[r], d)}}
           list == req[r].approved \cup own
<1>1. req[r] \in Reading /\ Entitled(req[r]) /\ Shown(req[r]) /\ ~req[r].whole
  BY RequestsTyped DEF ListOwn, ListsHold
<1>2. PICK q : /\ q = [req[r] EXCEPT !.whole = TRUE, !.own = own]
               /\ req' = [req EXCEPT ![r] = q] /\ UNCHANGED <<comments, announced>>
  BY <1>0 DEF ListOwn, Inv, TypeOK
<1>3. \A x \in own : /\ x = Public(x.id) /\ x.id \in Existing
                     /\ x.id \notin Ids(req[r].approved)
  BY PublicTyped DEF Unlisted
<1> HIDE DEF own
<1>4. q.approved = req[r].approved /\ q.own = own
  BY <1>1, <1>2 DEF Reading
<1>5. \A x \in list : x.id \in Existing => comments[x.id].parent = x.parent
  BY <1>1, <1>3 DEF Shown, Listing, Public
<1>6. \A x \in list : x.id \in Comment
  BY <1>1, <1>3 DEF Reading, Listed, Existing
<1>7. ASSUME NEW E \in SUBSET list, Headless(E)
      PROVE  E = {}
  <2> DEFINE C == Ids(E) \cap Existing
  <2>1. Nobody \notin Ids(E)
    BY <1>6, CommentsAssumption DEF Ids
  <2>2. \A c \in C : comments[c].parent \in C
    <3> SUFFICES ASSUME NEW x \in E, x.id \in Existing
                 PROVE  comments[x.id].parent \in C
      BY DEF Ids
    <3>1. comments[x.id].parent = x.parent /\ x.parent \in Ids(E)
      BY <1>5, <1>7 DEF Headless
    <3>2. x.parent \in Existing
      BY <2>1, <3>1 DEF Inv, ThreadsIntact
    <3> QED BY <3>1, <3>2
  <2>3. C = {}
    BY <2>2 DEF ListsHold, ThreadsBegin
  <2>4. E \subseteq req[r].approved
    BY <1>3, <2>3 DEF Ids
  <2> QED BY <1>1, <1>7, <2>4 DEF Shown, Listing
<1>8. Shown(q)
  <2>1. \A x \in own, y \in req[r].approved : x.id # y.id
    BY <1>3 DEF Ids
  <2>2. \A x, y \in own : x.id = y.id => x = y
    BY <1>3
  <2>3. \A x, y \in req[r].approved : x.id = y.id => x = y
    BY <1>1 DEF Shown, Listing
  <2>4. \A x, y \in list : x.id = y.id => x = y
    BY <2>1, <2>2, <2>3
  <2> QED BY <1>4, <1>5, <1>7, <2>1, <2>4 DEF Shown, Listing
<1>9. Shown(q)'
  BY <1>2, <1>8 DEF Shown, Existing
<1>10. \A s \in Request : req'[s] \in {req[s], q}
  BY <1>2 DEF Inv, TypeOK
<1> QED BY <1>2, <1>9, <1>10, ListsStay DEF Existing

LEMMA ListsNext == Inv /\ ListsHold /\ [Next]_vars => ListsHold'
<1> SUFFICES ASSUME Inv, ListsHold, [Next]_vars PROVE ListsHold'
  OBVIOUS
<1>1. CASE UNCHANGED vars
  BY <1>1, ListsStay DEF vars, Existing
<1>2. CASE \E c \in Comment : CloseWindow(c)
  BY <1>2, ListsStay DEF CloseWindow, Existing
<1>3. CASE \E p \in Post : DeletePost(p)
  BY <1>3, ListsRemove DEF DeletePost
<1>4. ASSUME NEW r \in Request, NEW q, q \notin Reading, req' = [req EXCEPT ![r] = q],
             UNCHANGED <<comments, announced>>
      PROVE  ListsHold'
  <2>1. \A s \in Request : req'[s] = req[s] \/ req'[s] \notin Reading
    BY <1>4 DEF Inv, TypeOK
  <2> QED BY <1>4, <2>1, ListsStay DEF Existing
<1>5. ASSUME NEW r \in Request, NEW p \in Post, NEW parent, NEW author,
             CheckSubmission(r, p, parent, author)
      PROVE  ListsHold'
  <2>1. [op |-> "submit", row |-> Submitted(p, parent, author)] \notin Reading
    BY DEF Reading
  <2> QED BY <1>4, <1>5, <2>1 DEF CheckSubmission
<1>6. ASSUME NEW r \in Request, NEW c \in Comment, NEW u \in User,
             StartSelfEdit(r, c, u) \/ StartSelfDelete(r, c, u)
      PROVE  ListsHold'
  <2>1. PICK op \in {"edit", "delete"} : ReadOwn(r, op, c, u)
    BY <1>6 DEF StartSelfEdit, StartSelfDelete
  <2>2. [op |-> op, id |-> c] \notin Reading
    BY DEF Reading
  <2> QED BY <1>4, <2>1, <2>2 DEF ReadOwn
<1>7. ASSUME NEW r \in Request, NEW c \in Comment, NEW verdict \in Verdict,
             Moderate(r, c, verdict)
      PROVE  ListsHold'
  <2>1. [op |-> "moderate", id |-> c, verdict |-> verdict] \notin Reading
    BY DEF Reading
  <2> QED BY <1>4, <1>7, <2>1 DEF Moderate
<1>8. ASSUME NEW r \in Request, EndRequest(r)
      PROVE  ListsHold'
  BY <1>4, <1>8, Distinct DEF EndRequest, Done
<1>9. ASSUME NEW r \in Request, SelfEdit(r)
      PROVE  ListsHold'
  <2>1. \A c \in Existing : Edited(c).parent = comments[c].parent
    BY RowsTyped DEF Edited, CommentRow
  <2>2. \A c \in Existing' : c \in Existing /\ comments'[c].parent = comments[c].parent
    BY <1>9, <2>1 DEF SelfEdit, Existing, Inv, TypeOK
  <2> QED BY <1>9, <2>2, DoneTyped, ListsStay DEF SelfEdit
<1>10. ASSUME NEW r \in Request, SelfDelete(r)
       PROVE  ListsHold'
  BY <1>10, ListsRemove DEF SelfDelete
<1>11. ASSUME NEW r \in Request, WriteVerdict(r)
       PROVE  ListsHold'
  <2>1. CASE Remove(Subtree(req[r].id))
    BY <1>11, <2>1, ListsRemove DEF WriteVerdict
  <2>2. CASE UNCHANGED comments
    BY <1>11, <2>2, DoneTyped, ListsStay DEF WriteVerdict, Existing
  <2>3. CASE req[r].id \in Existing /\ SetStatus(req[r].id, req[r].verdict)
    <3>1. \A c \in Existing : \A status :
             [comments[c] EXCEPT !.status = status].parent = comments[c].parent
      BY RowsTyped DEF CommentRow
    <3>2. \A c \in Existing' : c \in Existing /\ comments'[c].parent = comments[c].parent
      BY <2>3, <3>1 DEF SetStatus, Existing, Inv, TypeOK
    <3> QED BY <1>11, <3>2, DoneTyped, ListsStay DEF WriteVerdict
  <2> QED BY <1>11, <2>1, <2>2, <2>3 DEF WriteVerdict
<1> QED BY <1>1, <1>2, <1>3, <1>5, <1>6, <1>7, <1>8, <1>9, <1>10, <1>11,
           ListsStore, ListsApproved, ListsOwn DEF Next

\* What buildThread does not place is headless.
LEMMA PlacesAll ==
  ASSUME NEW list, \A E \in SUBSET list : Headless(E) => E = {}
  PROVE  Placed(list) = list
<1> DEFINE E == list \ Placed(list)
<1>1. Headless(E)
  <2> SUFFICES ASSUME NEW y \in E
               PROVE  y.parent \in Ids(E)
    BY DEF Headless
  <2>1. PICK D \in SUBSET list :
           /\ Roots(list) \subseteq D
           /\ \A z \in list : z.parent \in Ids(D) => z \in D
           /\ y \notin D
    BY DEF Placed
  <2>2. PICK x \in list : x.id = y.parent
    BY <2>1 DEF Roots, Ids
  <2>3. x \notin Placed(list)
    <3>1. x \notin D
      BY <2>1, <2>2 DEF Ids
    <3> QED BY <2>1, <3>1 DEF Placed
  <2> QED BY <2>2, <2>3 DEF Ids
<1>2. E = {}
  BY <1>1
<1> QED BY <1>2 DEF Placed

\* Two lists without a common id have as many ids as entries.
LEMMA CountsEach ==
  ASSUME NEW A, NEW B, NEW S, IsFiniteSet(S), Ids(A \cup B) \subseteq S, A \cap B = {},
         \A x, y \in A \cup B : x.id = y.id => x = y
  PROVE  Cardinality(Ids(A \cup B)) = Cardinality(A) + Cardinality(B)
<1> DEFINE L == A \cup B
           f == [x \in L |-> x.id]
<1>1. f \in Injection(L, Ids(L)) /\ f \in Surjection(L, Ids(L))
  <2>1. f \in [L -> Ids(L)]
    BY DEF Ids
  <2>2. \A i \in Ids(L) : \E x \in L : f[x] = i
    BY DEF Ids
  <2> QED BY <2>1, <2>2 DEF Injection, IsInjective, Surjection
<1>2. IsFiniteSet(Ids(L))
  BY FS_Subset
<1>3. IsFiniteSet(L) /\ Cardinality(L) = Cardinality(Ids(L))
  <2> HIDE DEF f, L
  <2> QED BY <1>1, <1>2, FS_Injection
<1>4. IsFiniteSet(A) /\ IsFiniteSet(B)
  BY <1>3, FS_Subset
<1>5. Cardinality(L) = Cardinality(A) + Cardinality(B) - Cardinality(A \cap B)
  BY <1>4, FS_Union
<1>6. Cardinality(A \cap B) = 0 /\ Cardinality(A) \in Nat /\ Cardinality(B) \in Nat
  BY <1>4, FS_EmptySet, FS_CardinalityType
<1> QED BY <1>3, <1>5, <1>6

-------------------------------------------------------------------------------
\* The invariant holds of every reachable state.
THEOREM InvAlways == Spec => []Inv
BY InitInv, NextStep, PTL DEF Spec

\* The variables keep their types.
THEOREM TypeCorrect == Spec => []TypeOK
<1>1. Inv => TypeOK
  BY DEF Inv
<1> QED BY <1>1, InvAlways, PTL

\* The public reads approved texts only, however edits and approvals interleave.
THEOREM PublicReadsApprovedText == Spec => []PublicTextApproved
<1>1. Inv => PublicTextApproved
  BY DEF Inv
<1> QED BY <1>1, InvAlways, PTL

\* Replies stay below existing comments of their own post.
THEOREM ThreadsStayIntact == Spec => []ThreadsIntact
<1>1. Inv => ThreadsIntact
  BY DEF Inv
<1> QED BY <1>1, InvAlways, PTL

\* What waits for moderation is shown to its author alone.
THEOREM PendingIsPrivate == Spec => []PendingStaysPrivate
<1>1. Inv => PendingStaysPrivate
  <2> SUFFICES ASSUME Inv, NEW r \in Request, At(r, "thread"),
                      NEW x \in req[r].approved \cup req[r].own, x.id \in Existing
               PROVE  \/ <<x.id, x.version>> \in approvals
                      \/ /\ req[r].viewer # Nobody
                         /\ comments[x.id].author = req[r].viewer
    BY DEF PendingStaysPrivate, Pages
  <2> QED BY RequestsTyped DEF Entitled
<1> QED BY <1>1, InvAlways, PTL

\* A page shows every comment it lists, and none twice, though its two lists are read at
\* different times: the invariant adds that a set of comments each of which answers
\* another of the set is never listed.
THEOREM PagesAreComplete == Spec => []PageComplete
<1>1. Inv /\ ListsHold => PageComplete
  <2> SUFFICES ASSUME Inv, ListsHold, NEW r \in Request, At(r, "thread"),
                      NEW q, q = req[r]
               PROVE  /\ Cardinality(Ids(Listing(q))) = Cardinality(q.approved) + Cardinality(q.own)
                      /\ Placed(Listing(q)) = Listing(q)
    BY DEF PageComplete, Pages, Listing
  <2>1. q \in Reading /\ Entitled(q) /\ Shown(q)
    BY RequestsTyped DEF ListsHold
  <2>2. Ids(Listing(q)) \subseteq announced
    BY <2>1 DEF Entitled, Ids, Listing
  <2>3. Cardinality(Ids(Listing(q))) = Cardinality(q.approved) + Cardinality(q.own)
    BY <2>1, <2>2, CountsEach DEF Shown, Listing, ListsHold
  <2> QED BY <2>1, <2>3, PlacesAll DEF Shown
<1> QED BY <1>1, InitLists, ListsNext, InvAlways, PTL DEF Spec
===============================================================================
