--------------------------------- MODULE Posts ---------------------------------
(***************************************************************************)
(* The life of a post (internal/content/posts/service.go,                  *)
(* db/queries/posts.sql) and the scheduled-publishing scan of cmd/worker.  *)
(*                                                                         *)
(* An update reads the row outside any transaction, computes the whole next*)
(* row from what it read, and writes it in a transaction together with a   *)
(* revision of the row it read and, when it publishes, the event           *)
(* content.published.  Requests and workers interleave between the two.    *)
(* Title, slug, excerpt, body and SEO fields are one value, the body.  Only*)
(* requests the ownership gate lets through are modelled: the others have  *)
(* no effect.                                                              *)
(***************************************************************************)
EXTENDS Naturals

CONSTANTS Post,
          Request,     \* goroutines serving an editor's request
          Worker,      \* worker processes
          MaxTime,     \* bound: the clock
          MaxUpdates,  \* bound: updates ever started
          MaxFaults    \* bound: worker passes that fail midway

ASSUME PostsAssumption == MaxTime \in Nat \ {0} /\ MaxUpdates \in Nat /\ MaxFaults \in Nat

Time == 1..MaxTime
Nil == 0                      \* a time column that is NULL
Status == {"DRAFT", "PUBLISHED"}
Body == 1..(MaxUpdates + 1)   \* 1 as created, k + 1 as written by the kth update
Row == [body : Body, status : Status, pub : Time \cup {Nil},
        sched : Time \cup {Nil}, trashed : BOOLEAN]
Absent == [absent |-> TRUE]   \* no such row, yet or any more
Idle == [op |-> "idle"]
Unset == "unset"              \* a nil field of UpdateInput

VARIABLES
    now,        \* the clock
    updates,    \* updates started so far (bounds the model)
    rows,       \* rows[p]: table posts
    created,    \* posts that were inserted, deleted since or not
    revs,       \* revs[p]: snapshots in table revisions
    announced,  \* announced[p]: content.published events committed to the outbox
    req,        \* req[e]: the update a request has read and computed, not written
    scan,       \* scan[w]: the scan of a worker: posts to go, and the one it read
    faults      \* worker passes that failed midway (bounds the model)

vars == <<now, updates, rows, created, revs, announced, req, scan, faults>>

Exists(p) == rows[p] # Absent
Active(p) == Exists(p) /\ ~rows[p].trashed
Snapshot(row) == [body |-> row.body, status |-> row.status]
Resting == [todo |-> {}, at |-> Nil, post |-> Absent, read |-> Absent]

Init == /\ now = 1
        /\ updates = 0
        /\ rows = [p \in Post |-> Absent]
        /\ created = {}
        /\ revs = [p \in Post |-> {}]
        /\ announced = [p \in Post |-> 0]
        /\ req = [e \in Request |-> Idle]
        /\ scan = [w \in Worker |-> Resting]
        /\ faults = 0

Tick == /\ now < MaxTime
        /\ now' = now + 1
        /\ UNCHANGED <<updates, rows, created, revs, announced, req, scan, faults>>

-------------------------------------------------------------------------------
(* Requests.                                                                *)

\* Create: one transaction inserts the row and, when it is born published,
\* its event.
Create(p, status, at) ==
    /\ p \notin created
    /\ created' = created \cup {p}
    /\ rows' = [rows EXCEPT ![p] =
          [body |-> 1, status |-> status, trashed |-> FALSE,
           pub |-> IF status = "PUBLISHED" THEN now ELSE Nil,
           sched |-> IF status = "PUBLISHED" THEN Nil ELSE at]]
    /\ announced' = [announced EXCEPT ![p] = IF status = "PUBLISHED" THEN @ + 1 ELSE @]
    /\ UNCHANGED <<now, updates, revs, req, scan, faults>>

\* Mutant: every publish stamps published_at.
StampEveryPublish(row, status) == IF status = "PUBLISHED" THEN now ELSE row.pub

\* published_at is stamped by the first publish.
Stamp(row, status) == IF status = "PUBLISHED" /\ row.pub = Nil THEN now ELSE row.pub

\* Mutant: an unset status is copied as well.
PatchedUnguarded(row, body, status, at) ==
    [body |-> IF body = Nil THEN row.body ELSE body,
     status |-> status,
     pub |-> Stamp(row, status),
     sched |-> IF status = "PUBLISHED" THEN Nil ELSE row.sched,
     trashed |-> FALSE]

\* The row an update writes: body, status and at as given, or unset.
Patched(row, body, status, at) ==
    LET st == IF status = Unset THEN row.status ELSE status IN
    [body |-> IF body = Nil THEN row.body ELSE body,
     status |-> st,
     pub |-> Stamp(row, status),
     sched |-> IF at # Nil /\ st # "PUBLISHED" THEN at
               ELSE IF status = "PUBLISHED" THEN Nil ELSE row.sched,
     trashed |-> FALSE]

\* Mutants: the event follows the status asked for alone; the status is compared
\* after it was assigned.
AnnounceEveryPublish(row, status) == status = "PUBLISHED"
AnnounceNever(row, status) == FALSE

BecamePublished(row, status) == status = "PUBLISHED" /\ row.status # "PUBLISHED"

\* Update, up to its transaction: the row is read and the next one computed.
ReadForUpdate(e, p, body, status, at) ==
    /\ req[e] = Idle
    /\ updates < MaxUpdates
    /\ updates' = updates + 1
    /\ Active(p)
    /\ req' = [req EXCEPT ![e] =
          [op |-> "update", post |-> p, prior |-> rows[p],
           next |-> Patched(rows[p], body, status, at),
           announce |-> BecamePublished(rows[p], status)]]
    /\ UNCHANGED <<now, rows, created, revs, announced, scan, faults>>

\* The forms and calls that come down to Update.
Edit(e, p) == \E status \in Status \cup {Unset}, at \in Time \cup {Nil} :
                 ReadForUpdate(e, p, updates + 2, status, at)
Publish(e, p) == ReadForUpdate(e, p, Nil, "PUBLISHED", Nil)
Unpublish(e, p) == ReadForUpdate(e, p, Nil, "DRAFT", Nil)
Schedule(e, p, at) == ReadForUpdate(e, p, Nil, "DRAFT", at)
RestoreRevision(e, p) == \E s \in revs[p] : ReadForUpdate(e, p, s.body, s.status, Nil)

\* Mutants: the revision records the row about to be written; the UPDATE lost
\* its deleted_at IS NULL.
SnapshotOfNext(r) == Snapshot(r.next)
WritableIfExists(p) == Exists(p)

SnapshotTaken(r) == Snapshot(r.prior)
Writable(p) == Active(p)

\* persistUpdate: revision, row and event in one transaction; when the row is
\* gone or trashed by now it is ErrNotFound and nothing remains of any of them.
PersistUpdate(e) ==
    LET r == req[e]
        p == r.post IN
    /\ r # Idle
    /\ req' = [req EXCEPT ![e] = Idle]
    /\ \/ /\ Writable(p)
          /\ rows' = [rows EXCEPT ![p] = r.next]
          /\ revs' = [revs EXCEPT ![p] = @ \cup {SnapshotTaken(r)}]
          /\ announced' = [announced EXCEPT ![p] = IF r.announce THEN @ + 1 ELSE @]
       \/ /\ ~Writable(p)
          /\ UNCHANGED <<rows, revs, announced>>
    /\ UNCHANGED <<now, updates, created, scan, faults>>

\* The request fails before its commit, or its process dies.
AbandonUpdate(e) ==
    /\ req[e] # Idle
    /\ req' = [req EXCEPT ![e] = Idle]
    /\ UNCHANGED <<now, updates, rows, created, revs, announced, scan, faults>>

\* Trash, Restore and PermanentDelete check the row first too, but change it by
\* one conditional statement, whose condition is all that counts.
Trash(p) == /\ Active(p)
            /\ rows' = [rows EXCEPT ![p].trashed = TRUE]
            /\ UNCHANGED <<now, updates, created, revs, announced, req, scan, faults>>
Restore(p) == /\ Exists(p) /\ rows[p].trashed
              /\ rows' = [rows EXCEPT ![p].trashed = FALSE]
              /\ UNCHANGED <<now, updates, created, revs, announced, req, scan, faults>>
PermanentDelete(p) ==
    /\ Exists(p)
    /\ rows' = [rows EXCEPT ![p] = Absent]
    /\ UNCHANGED <<now, updates, created, revs, announced, req, scan, faults>>

-------------------------------------------------------------------------------
(* The scheduled-publishing scan, PublishDue.                               *)

\* ListDueScheduledPostIDs at time t.
Due(p, t) == /\ Active(p)
             /\ rows[p].status = "DRAFT"
             /\ rows[p].sched # Nil
             /\ rows[p].sched <= t

StartScan(w) ==
    /\ scan[w] = Resting
    /\ \E p \in Post : Due(p, now)
    /\ scan' = [scan EXCEPT ![w] = [todo |-> {p \in Post : Due(p, now)}, at |-> now,
                                    post |-> Absent, read |-> Absent]]
    /\ UNCHANGED <<now, updates, rows, created, revs, announced, req, faults>>

\* A scan that has gone through its posts rests until the next tick.
Proceed(s) == IF s.todo = {} THEN Resting ELSE s

\* publishScheduled reads the next post of the list (by scheduled_at; the order
\* is left open here), and skips it when it is no longer a scheduled draft.
ReadScheduled(w, p) ==
    LET rest == [scan[w] EXCEPT !.todo = @ \ {p}] IN
    /\ p \in scan[w].todo
    /\ scan[w].read = Absent
    /\ scan' = [scan EXCEPT ![w] =
          IF Active(p) /\ rows[p].status = "DRAFT" /\ rows[p].sched # Nil
          THEN [rest EXCEPT !.post = p, !.read = rows[p]]
          ELSE Proceed(rest)]
    /\ UNCHANGED <<now, updates, rows, created, revs, announced, req, faults>>

Released(row, t, sched) ==
    [body |-> row.body, status |-> "PUBLISHED", sched |-> sched, trashed |-> row.trashed,
     pub |-> IF row.pub = Nil THEN t ELSE row.pub]

\* Mutant: the schedule is not cleared.
ScheduleKept(row, t) == Released(row, t, row.sched)

ScheduledNext(row, t) == Released(row, t, Nil)

\* It writes the whole row as read, published, with its event; a row gone or
\* trashed by now is an error, which ends the scan.
WriteScheduled(w) ==
    LET s == scan[w]
        p == s.post IN
    /\ s.read # Absent
    /\ \/ /\ Writable(p)
          /\ rows' = [rows EXCEPT ![p] = ScheduledNext(s.read, s.at)]
          /\ announced' = [announced EXCEPT ![p] = @ + 1]
          /\ scan' = [scan EXCEPT ![w] = Proceed([s EXCEPT !.post = Absent, !.read = Absent])]
       \/ /\ ~Writable(p)
          /\ scan' = [scan EXCEPT ![w] = Resting]
          /\ UNCHANGED <<rows, announced>>
    /\ UNCHANGED <<now, updates, created, revs, req, faults>>

\* A statement of the scan fails, or the worker dies and is started again.
FailScan(w) == /\ scan[w] # Resting
               /\ faults < MaxFaults
               /\ faults' = faults + 1
               /\ scan' = [scan EXCEPT ![w] = Resting]
               /\ UNCHANGED <<now, updates, rows, created, revs, announced, req>>

-------------------------------------------------------------------------------
\* Mutant: the scan stops for good after its first error.
PublishDueOnce(w) ==
    /\ faults = 0
    /\ StartScan(w) \/ (\E p \in Post : ReadScheduled(w, p)) \/ WriteScheduled(w)

PublishDue(w) == StartScan(w) \/ (\E p \in Post : ReadScheduled(w, p)) \/ WriteScheduled(w)

Next == \/ Tick
        \/ \E p \in Post, status \in Status, at \in Time \cup {Nil} : Create(p, status, at)
        \/ \E p \in Post : Trash(p) \/ Restore(p) \/ PermanentDelete(p)
        \/ \E e \in Request, p \in Post :
              \/ Edit(e, p)
              \/ Publish(e, p)
              \/ Unpublish(e, p)
              \/ RestoreRevision(e, p)
              \/ \E at \in Time : Schedule(e, p, at)
        \/ \E e \in Request : PersistUpdate(e) \/ AbandonUpdate(e)
        \/ \E w \in Worker : PublishDue(w) \/ FailScan(w)

Spec == Init /\ [][Next]_vars

\* The worker's ticker scans for ever.
FairSpec == Spec /\ \A w \in Worker : WF_vars(PublishDue(w))
-------------------------------------------------------------------------------
(* Properties.                                                              *)

Timed(row) == /\ row.pub <= now
              /\ row.status = "PUBLISHED" => row.pub # Nil /\ row.sched = Nil

\* The type of every variable.
TypeOK ==
    /\ now \in Time /\ updates \in 0..MaxUpdates /\ faults \in 0..MaxFaults
    /\ rows \in [Post -> Row \cup {Absent}]
    /\ created \subseteq Post
    /\ revs \in [Post -> SUBSET [body : Body, status : Status]]
    /\ announced \in [Post -> Nat]
    /\ req \in [Request -> {Idle} \cup [op : {"update"}, post : Post, prior : Row,
                                        next : Row, announce : BOOLEAN]]
    /\ scan \in [Worker -> [todo : SUBSET Post, at : Time \cup {Nil},
                            post : Post \cup {Absent}, read : Row \cup {Absent}]]

\* A published row carries its publication date, which is past, and waits for no
\* schedule, in whatever order stale requests and scans overwrite each other.
RowConsistent == \A p \in Post : Exists(p) => Timed(rows[p])

\* A post that was ever published was announced at least once: a lost or stale
\* update may misreport a later publication, never the first (becamePublished
\* is computed from the row read, the row written later).
FirstPublicationAnnounced ==
    \A p \in Post : Exists(p) /\ rows[p].pub # Nil => announced[p] > 0

\* What a request holds between its read and its write: both rows are
\* consistent, the date of the row read is kept, and the event goes with the
\* change from draft to published, which the first publication always is.
SoundUpdate(r) ==
    /\ Timed(r.prior) /\ Timed(r.next)
    /\ r.prior.pub # Nil => r.next.pub = r.prior.pub /\ announced[r.post] > 0
    /\ r.next.pub # Nil => r.announce \/ r.prior.pub # Nil
    /\ r.announce <=> r.prior.status = "DRAFT" /\ r.next.status = "PUBLISHED"
UpdatesAreSound == \A e \in Request : req[e] # Idle => SoundUpdate(req[e])

\* What a scan holds: its time is past, and the row it read is a consistent draft.
SoundScan(s) ==
    /\ s.at <= now
    /\ s.todo # {} => s.at # Nil
    /\ s.read # Absent =>
          s.post \in Post /\ s.at # Nil /\ Timed(s.read) /\ s.read.status = "DRAFT"
ScansAreSound == \A w \in Worker : SoundScan(scan[w])

\* The ids of rows are those that were created.
CreatedFirst == \A p \in Post : Exists(p) => p \in created

\* The inductive invariant.
Inv == /\ TypeOK /\ RowConsistent /\ FirstPublicationAnnounced
       /\ UpdatesAreSound /\ ScansAreSound

\* A trashed post is frozen until it is restored or deleted: a request or a scan
\* that read it before it was trashed neither changes it nor brings it back.
\* (UpdatePost keeps deleted_at IS NULL in its WHERE.)
Frozen(p) == /\ rows'[p] \in {rows[p], [rows[p] EXCEPT !.trashed = FALSE], Absent}
             /\ announced'[p] = announced[p] /\ revs'[p] = revs[p]
TrashedIsFrozen ==
    [][\A p \in Post : Exists(p) /\ rows[p].trashed => Frozen(p)]_vars

\* p is written by a request, or by a scan, that had read the row it replaces.
FreshUpdate(e, p) == /\ req[e] # Idle /\ req'[e] = Idle
                     /\ req[e].post = p /\ req[e].prior = rows[p]
FreshScan(w, p) == /\ scan[w].read # Absent /\ scan'[w].read = Absent
                   /\ scan[w].post = p /\ scan[w].read = rows[p]
FreshWrite(p) == /\ Exists(p) /\ rows'[p] # rows[p]
                 /\ \/ \E e \in Request : FreshUpdate(e, p)
                    \/ \E w \in Worker : FreshScan(w, p)

\* When nobody else wrote the row in between, published_at is stamped once and
\* kept by unpublishing, rescheduling, restoring a revision and republishing.
PublishedAtKept ==
    [][\A p \in Post : FreshWrite(p) /\ rows[p].pub # Nil =>
          rows'[p].pub = rows[p].pub]_vars

\* When nobody else wrote the row in between, content.published is committed
\* with the change that publishes the post, and with no other.
AnnouncedExactly ==
    [][\A p \in Post : FreshWrite(p) =>
          announced'[p] = announced[p] + (IF /\ rows[p].status = "DRAFT"
                                             /\ rows'[p].status = "PUBLISHED"
                                          THEN 1 ELSE 0)]_vars

\* When nobody else wrote the row in between, a body that is replaced is kept as
\* a revision, so that every edit can be undone.
HistoryRecoverable ==
    [][\A p \in Post : FreshWrite(p) /\ rows'[p].body # rows[p].body =>
          Snapshot(rows[p]) \in revs'[p]]_vars

\* What the comment on publishScheduled says of every interleaving: a scan
\* publishes a post only if it is, at that moment, a scheduled draft.
SchedulerRechecks ==
    [][\A w \in Worker, p \in Post :
          scan[w].read # Absent /\ scan'[w].read = Absent /\ announced'[p] # announced[p]
          => rows[p].status = "DRAFT" /\ rows[p].sched # Nil]_vars

\* Once posts are no longer trashed under the scan's feet (that ends a scan with
\* an error, and other posts wait for the next), a post whose time has come does
\* not stay a scheduled draft: errors, crashes and other scans delay it only.
TrashingCeases == <>[](\A p \in Post : Exists(p) => Active(p))
DuePublished == TrashingCeases => \A p \in Post : Due(p, now) ~> ~Due(p, now)
===============================================================================
