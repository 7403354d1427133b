-------------------------------- MODULE Comments --------------------------------
(***************************************************************************)
(* Comments on posts (internal/content/comments): submission by guests and *)
(* users, threads, edits and deletions by authors for fifteen minutes,     *)
(* moderation one by one or in bulk, and the page a reader sees.           *)
(*                                                                         *)
(* Every operation checks first and writes in a transaction later; a reader*)
(* lists twice.  What a comment says is its version: each edit makes a new *)
(* one.                                                                    *)
(***************************************************************************)
EXTENDS Naturals, FiniteSets

CONSTANTS Comment,       \* ids comments may get
          Post, User,
          Request,       \* goroutines serving a request
          Nobody,        \* a guest as author or reader, no parent
          Rejected,      \* the statuses SPAM and TRASH, which the code treats alike
          MaxEdits       \* bound of the model: edits of one comment

ASSUME CommentsAssumption ==
    /\ Nobody \notin Comment \cup User
    /\ Rejected \cap {"PENDING", "APPROVED", "DELETED"} = {}
    /\ MaxEdits \in Nat

Status == {"PENDING", "APPROVED"} \cup Rejected
Version == 0 .. MaxEdits
None == [none |-> TRUE]

VARIABLES
    comments,   \* comments[c]: row of c, or None
    posts,      \* the posts there are; what is asked of an unpublished one is refused
    closed,     \* comments older than the window for edits by their authors
    announced,  \* comments whose comment.created is in the outbox
    req,        \* req[r]: what the request has found out so far
    approvals   \* versions moderators approved of the comments there are: pairs of
                \* comment and version (history)

vars == <<comments, posts, closed, announced, req, approvals>>

Existing == {c \in Comment : comments[c] # None}
Row(p, parent, author) == [post |-> p, parent |-> parent, author |-> author,
                           version |-> 0, status |-> "PENDING"]

Init == /\ comments = [c \in Comment |-> None]
        /\ posts = Post
        /\ closed = {}
        /\ announced = {}
        /\ req = [r \in Request |-> None]
        /\ approvals = {}

Idle(r) == req[r] = None
At(r, op) == req[r] # None /\ req[r].op = op
Done(r) == req' = [req EXCEPT ![r] = None]

\* A comment and everything below it: the foreign keys cascade.
Subtree(top) ==
    {c \in Existing :
        \A D \in SUBSET Comment :
            /\ top \in D
            /\ \A d \in Existing : comments[d].parent \in D => d \in D
            => c \in D}

Remove(gone) ==
    /\ comments' = [c \in Comment |-> IF c \in gone THEN None ELSE comments[c]]
    /\ closed' = closed \ gone
    /\ approvals' = {a \in approvals : a[1] \notin gone}

-------------------------------------------------------------------------------
(* Submission.                                                              *)

\* Mutant: a new comment starts without a status.
SubmittedUnset(p, parent, author) == [Row(p, parent, author) EXCEPT !.status = "NEW"]

\* A new comment waits for moderation.
Submitted(p, parent, author) == Row(p, parent, author)

\* Mutant: the parent is looked up by its id alone.
MayReplyToAny(p, parent) ==
    parent = Nobody \/ (parent \in Existing /\ comments[parent].status = "APPROVED")

\* A parent is an approved comment on the same post.
MayReply(p, parent) ==
    \/ parent = Nobody
    \/ /\ parent \in Existing
       /\ comments[parent].post = p
       /\ comments[parent].status = "APPROVED"

\* Submit, up to its transaction.
CheckSubmission(r, p, parent, author) ==
    /\ Idle(r)
    /\ p \in posts
    /\ MayReply(p, parent)
    /\ req' = [req EXCEPT ![r] = [op |-> "submit", row |-> Submitted(p, parent, author)]]
    /\ UNCHANGED <<comments, posts, closed, announced, approvals>>

\* Mutant: rows are inserted without foreign keys.
Accepted(row) == TRUE

\* The foreign keys of the row: its post and its parent still exist.
Insertable(row) == /\ row.post \in posts
                   /\ row.parent = Nobody \/ row.parent \in Existing

\* Row and event are written together, or the request fails.
StoreComment(r) ==
    /\ At(r, "submit")
    /\ \/ /\ Insertable(req[r].row)
          /\ \E c \in Comment \ announced :
                /\ comments' = [comments EXCEPT ![c] = req[r].row]
                /\ announced' = announced \cup {c}
       \/ /\ ~Insertable(req[r].row)
          /\ UNCHANGED <<comments, announced>>
    /\ Done(r)
    /\ UNCHANGED <<posts, closed, approvals>>

-------------------------------------------------------------------------------
(* Edits and deletions by the author.                                       *)

\* Fifteen minutes after its creation; guests have no window.
CloseWindow(c) == /\ c \in Existing \ closed /\ comments[c].author # Nobody
                  /\ closed' = closed \cup {c}
                  /\ UNCHANGED <<comments, posts, announced, req, approvals>>

\* requireOwnedWithinWindow: whatever the status.
ReadOwn(r, op, c, viewer) ==
    /\ Idle(r)
    /\ c \in Existing \ closed
    /\ comments[c].author = viewer
    /\ req' = [req EXCEPT ![r] = [op |-> op, id |-> c]]
    /\ UNCHANGED <<comments, posts, closed, announced, approvals>>

StartSelfEdit(r, c, viewer) ==
    c \in Existing /\ comments[c].version < MaxEdits /\ ReadOwn(r, "edit", c, viewer)

StartSelfDelete(r, c, viewer) == ReadOwn(r, "delete", c, viewer)

\* Mutant: an edit leaves the status alone.
EditedInPlace(c) == [comments[c] EXCEPT !.version = @ + 1]

\* UpdateCommentBody: the text is new, so the status is PENDING again.
Edited(c) == [comments[c] EXCEPT !.version = @ + 1, !.status = "PENDING"]

SelfEdit(r) ==
    LET c == req[r].id IN
    /\ At(r, "edit")
    /\ comments' = IF c \in Existing /\ comments[c].version < MaxEdits
                   THEN [comments EXCEPT ![c] = Edited(c)] ELSE comments
    /\ Done(r)
    /\ UNCHANGED <<posts, closed, announced, approvals>>

SelfDelete(r) ==
    /\ At(r, "delete")
    /\ Remove(Subtree(req[r].id))
    /\ Done(r)
    /\ UNCHANGED <<posts, announced>>

-------------------------------------------------------------------------------
(* Moderation.                                                              *)

Verdict == {"APPROVED", "DELETED"} \cup Rejected

\* setStatus and Delete look the comment up first.  A bulk action (RunBulk) is one
\* of these after the other for the ids it was given, each with a transaction of
\* its own; one that is not found is skipped.
Moderate(r, c, verdict) ==
    /\ Idle(r)
    /\ c \in Existing
    /\ req' = [req EXCEPT ![r] = [op |-> "moderate", id |-> c, verdict |-> verdict]]
    /\ UNCHANGED <<comments, posts, closed, announced, approvals>>

\* UpdateCommentStatus, whatever the comment has become since the moderator saw it.
SetStatus(c, status) ==
    /\ comments' = [comments EXCEPT ![c].status = status]
    /\ approvals' = IF status = "APPROVED"
                    THEN approvals \cup {<<c, comments[c].version>>} ELSE approvals
    /\ closed' = closed

\* The row may be gone by now.
WriteVerdict(r) ==
    LET c == req[r].id
        verdict == req[r].verdict
    IN
    /\ At(r, "moderate")
    /\ \/ verdict = "DELETED" /\ Remove(Subtree(c))
       \/ verdict # "DELETED" /\ c \in Existing /\ SetStatus(c, verdict)
       \/ verdict # "DELETED" /\ c \notin Existing /\ UNCHANGED <<comments, closed, approvals>>
    /\ Done(r)
    /\ UNCHANGED <<posts, announced>>

-------------------------------------------------------------------------------
(* The page of a reader.                                                    *)

\* A comment as the page shows it.
Public(c) == [id |-> c, parent |-> comments[c].parent, version |-> comments[c].version]
Ids(list) == {x.id : x \in list}

ListApproved(r, p, viewer) ==
    /\ Idle(r)
    /\ p \in posts
    /\ req' = [req EXCEPT ![r] =
                 [op |-> "thread", post |-> p, viewer |-> viewer, whole |-> (viewer = Nobody),
                  approved |-> {Public(c) : c \in {d \in Existing :
                                   comments[d].post = p /\ comments[d].status = "APPROVED"}},
                  own |-> {}]]
    /\ UNCHANGED <<comments, posts, closed, announced, approvals>>

\* Mutant: without the map of what is listed already.
Unfiltered(q) == Existing

Unlisted(q) == Existing \ Ids(q.approved)

\* Mutant: the moderation listing is not filtered by author.
OfPost(q, c) == /\ comments[c].post = q.post
                /\ comments[c].status \in {"APPROVED", "PENDING"}

\* Of the moderation listing, what the reader wrote and nobody rejected.
OwnOfPost(q, c) == /\ comments[c].post = q.post
                   /\ comments[c].author = q.viewer
                   /\ comments[c].status \in {"APPROVED", "PENDING"}

\* A user also sees what waits for moderation of her own, if it is among the newest
\* thousand comments of the site; when comments were made is left open.
ListOwn(r) ==
    LET q == req[r] IN
    /\ At(r, "thread") /\ ~q.whole
    /\ \E newest \in SUBSET Existing :
          req' = [req EXCEPT ![r].whole = TRUE,
                    ![r].own = {Public(c) : c \in {d \in newest \cap Unlisted(q) : OwnOfPost(q, d)}}]
    /\ UNCHANGED <<comments, posts, closed, announced, approvals>>

\* Mutant: only comments on the post itself start a thread.
TopLevel(list) == {x \in list : x.parent = Nobody}

\* buildThread: a comment whose parent is not listed starts a thread of its own.
Roots(list) == {x \in list : x.parent \notin Ids(list)}

\* What the threads contain.
Placed(list) ==
    {x \in list : \A D \in SUBSET list :
        /\ Roots(list) \subseteq D
        /\ \A y \in list : y.parent \in Ids(D) => y \in D
        => x \in D}

-------------------------------------------------------------------------------
(* Posts, as far as comments depend on them, and requests that fail.        *)

DeletePost(p) == /\ p \in posts
                 /\ posts' = posts \ {p}
                 /\ Remove({c \in Existing : comments[c].post = p})
                 /\ UNCHANGED <<announced, req>>

\* The request is answered, or fails, or its process dies; what a bulk action has
\* done so far stays.
EndRequest(r) == /\ ~Idle(r)
                 /\ Done(r)
                 /\ UNCHANGED <<comments, posts, closed, announced, approvals>>

Next ==
    \/ \E c \in Comment : CloseWindow(c)
    \/ \E p \in Post : DeletePost(p)
    \/ \E r \in Request :
        \/ \E p \in Post, parent \in Comment \cup {Nobody}, author \in User \cup {Nobody} :
              CheckSubmission(r, p, parent, author)
        \/ StoreComment(r)
        \/ \E c \in Comment, u \in User : StartSelfEdit(r, c, u) \/ StartSelfDelete(r, c, u)
        \/ SelfEdit(r) \/ SelfDelete(r)
        \/ \E c \in Comment, verdict \in Verdict : Moderate(r, c, verdict)
        \/ WriteVerdict(r)
        \/ \E p \in Post, viewer \in User \cup {Nobody} : ListApproved(r, p, viewer)
        \/ ListOwn(r)
        \/ EndRequest(r)

Spec == Init /\ [][Next]_vars
-------------------------------------------------------------------------------
(* Properties.                                                              *)

CommentRow == [post : Post, parent : Comment \cup {Nobody}, author : User \cup {Nobody},
               version : Version, status : Status]
Listed == [id : Comment, parent : Comment \cup {Nobody}, version : Version]
RequestState ==
    [op : {"submit"}, row : CommentRow]
    \cup [op : {"edit", "delete"}, id : Comment]
    \cup [op : {"moderate"}, id : Comment, verdict : Verdict]
    \cup [op : {"thread"}, post : Post, viewer : User \cup {Nobody}, whole : BOOLEAN,
          approved : SUBSET Listed, own : SUBSET Listed]

\* The type of every variable.
TypeOK ==
    /\ comments \in [Comment -> CommentRow \cup {None}]
    /\ posts \subseteq Post
    /\ closed \subseteq Comment /\ announced \subseteq Comment
    /\ req \in [Request -> RequestState \cup {None}]
    /\ approvals \subseteq Comment \X Version

\* A text the public may read is one a moderator approved, however edits,
\* approvals and deletions interleave.
PublicTextApproved ==
    \A c \in Existing : comments[c].status = "APPROVED" => <<c, comments[c].version>> \in approvals

\* A reply hangs below a comment on its own post, and both exist, although the
\* parent is checked before the transaction.
ThreadsIntact ==
    \A c \in Existing : LET parent == comments[c].parent IN
        parent # Nobody => parent \in Existing /\ comments[parent].post = comments[c].post

Pages == {r \in Request : At(r, "thread") /\ req[r].whole}

\* A page shows every comment it lists, and no comment twice, although its two
\* lists are read at different times and parents may be missing from them.
PageComplete ==
    \A r \in Pages : LET list == req[r].approved \cup req[r].own IN
        /\ Cardinality(Ids(list)) = Cardinality(req[r].approved) + Cardinality(req[r].own)
        /\ Placed(list) = list

\* Nobody but its author is shown a text that no moderator approved.
PendingStaysPrivate ==
    \A r \in Pages : \A x \in req[r].approved \cup req[r].own :
        x.id \in Existing => \/ <<x.id, x.version>> \in approvals
                             \/ /\ req[r].viewer # Nobody
                                /\ comments[x.id].author = req[r].viewer
===============================================================================
