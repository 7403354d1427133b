# A verification development for cmstack-go

TLA+ models of the core of cmstack-go (a content management system in Go over
PostgreSQL), TLC configurations that check them on small instances, and TLAPS
proofs of what holds for every instance. `PROJECT.json` lists the runs, the
mutants that show each property can fail, the source lines behind each
definition, the hazards and the findings.

    tlc -config MCOutbox.cfg MCOutbox.tla     # or any other .cfg with its MC module
    tlapm OutboxProofs.tla                   # or any other *Proofs.tla

## 1. Inventory

Two processes share one PostgreSQL database: the server (`cmd/server`: HTML
site, admin, REST API) and any number of workers (`cmd/worker`). A request goes
handler -> service -> repository -> SQL. A service that changes something runs a
unit of work, `db.RunInTx`, and publishes events on a bus inside it:
synchronous listeners run at once in the transaction; asynchronous events become
rows of the table `outbox` in the same transaction, and a worker dispatches them
later. All transactions run at READ COMMITTED, and most services read and check
*before* they open one. That is where the difficult behaviour is.

| Component | State | Operations | Hard behaviour | Correct when |
| --- | --- | --- | --- | --- |
| event bus, outbox, relay (`platform/events`, `platform/db`) | `outbox` rows, listeners | RunInTx, Publish, Enqueue, Drain, Dispatch | concurrent workers, failing handlers, rollbacks, crashes, retries, dead letters | publication is atomic; delivery at least once; redelivery has a cause; attempts are counted; every event settles |
| posts (`content/posts`) | `posts`, `revisions`, `post_likes`, translations | create, update, publish, unpublish, schedule, restore a revision, trash, restore, delete, like | read and check outside the transaction, whole-row writes | a published row is dated; the date is kept; the event goes with the publication; edits can be undone; the trash is final until restored |
| worker loops (`cmd/worker`) | two tickers in one goroutine | Drain, PublishDue | failures in one pass, restarts, several workers | due posts get published, events get handled |
| pages, services (`content/pages`, `content/services`) | as posts; pages have parents | as posts | parent cycles made by two moves | the tree has no cycle |
| categories, tags | rows with parents, join tables | create, update, delete, assign | as pages; slugs race | no cycle, unique slugs |
| comments | `comments` with status and parent | submit, moderate, edit and delete by their author within 15 minutes, thread | a parent rejected meanwhile, an edit racing an approval | only approved text is public |
| accounts | users, roles, permissions, sessions, reset and verification tokens, OAuth links | register, log in (also by OAuth), change, request and reset a password, verify, administer | tokens used twice, racing registrations, demoting the last administrator, sessions after a password change | tokens work once; an administrator remains; old sessions die |
| authorizer | permissions per role, cached with a TTL | Can, Invalidate | a load racing an invalidation | revocation takes effect |
| page, sitemap and menu caches | entries with a TTL | read, fill, clear | filling races clearing; clearing precedes the commit | a stale page lives at most a TTL |
| media | blobs and rows | upload, delete | failures between blob and row | no row without its blob |
| rate limiter | token buckets | Allow, gc | clock read outside the lock | burst and rate are respected |
| content kernel | none | UniqueSlug, RunBulk, snapshots | races on slugs | slugs are unique |
| API tokens, contact, settings, plugins, themes | single rows | single statements | none beyond the above | |
| handlers, templates, REST, MCP, i18n, storage, mail, search, seeds, migrations | none of their own | translate requests, call services | none beyond the above | |

## 2. Plan

In the order of importance, with where each stands:

1. **Outbox**, implementing **AtLeastOnce**: done, safety and refinement proved.
2. **Posts** with the scheduled scan: done, safety proved.
3. **Credentials** (passwords, tokens, sessions): done, proved.
4. **Membership** (registration, OAuth links, roles): done, proved.
5. **Comments**: done, proved.
6. **Pages** (hierarchy, whole-row updates, trash): done, proved.
7. **Taxonomy** (assignment, deletion, row locks, the pool), implementing **Assignments**:
   done, safety and refinement proved.
8. **Caches** (page cache over menu cache): done, proved.

Left for later: the counter of likes and the slugs of posts; refinements of the other
modules by abstract specifications, as Outbox and Taxonomy have.

The modules do not share variables: what they share in the program is the
transaction (each models its own by steps that hold row locks or by one atomic
step) and the outbox, which appears in Posts, Pages and Comments as the history
variable `announced`. The outbox's side of that contract, that what was
published in a committed unit of work is delivered at least once, is Outbox's.

## 3. Modules

Each component has a module, an `MC` module with the sets TLC uses, one or more
`.cfg`, and most have a module of proofs.

### AtLeastOnce, Outbox, MCOutbox, OutboxProofs

`AtLeastOnce` is what a publisher of asynchronous events may rely on: each
event is pending from the commit of its unit of work until it is *handled*
(every handler completed at least once) or *abandoned* (at least MaxAttempts
failed dispatches), and stays so.

`Outbox` is how the code does it.

| Model | Code |
| --- | --- |
| `Begin`, `Commit`, `Rollback` | `db.RunInTx` around a service's unit of work |
| `Publish` | `Bus.Publish`, `OutboxRepository.Enqueue` |
| `Claim` | `FetchUnprocessedOutbox`: oldest first, LIMIT, FOR UPDATE SKIP LOCKED |
| `NextRow`, `HandlerOk`, `HandlerFails`, `MarkProcessed` | the loop of `Relay.Drain`, `Bus.Dispatch`, `handleDispatchFailure` |
| `CommitPass`, `AbortPass` | the end of the pass's transaction, or its rollback: a failed statement, a panic, a cancelled context, a crash |

What a pass writes is in `outcome` until its commit; what its handlers did is in
the history variables `completed` and `failed` at once, because mails are not
undone. `created` is `now()` of the publishing transaction, which is when it
began, so rows become visible out of the order in which they are fetched.
Payloads, event names and listeners' own work are abstracted away: an event is an
element of a set, a synchronous listener is the possibility of `Rollback`.

### Posts, MCPosts, PostsProofs

An update is two steps, as in the code: `ReadForUpdate` (Update, up to
persistUpdate) reads the row and computes the next one and whether the change
publishes; `PersistUpdate` writes both revision and row, and the event, in one
transaction, or nothing when the row is gone or trashed. Edit, Publish,
Unpublish, Schedule and RestoreRevision are calls of it with their arguments.
Trash, Restore and PermanentDelete are single conditional statements. The scan
is `StartScan` (the list of due posts and the time are taken once), then per post
`ReadScheduled` and `WriteScheduled`; a failed write ends the scan.

The body stands for every field that is copied as it is (title, slug, excerpt,
text, SEO). Requests that the ownership gate rejects do nothing and are left out.
`announced` counts the content.published events committed to the outbox; what
becomes of them is Outbox's matter.

### Credentials, MCCredentials, CredentialsProofs

| Model | Code |
| --- | --- |
| `Register`, `RequestPasswordReset` | the transactions that insert a user or a token |
| `ReadToken`, `ReadForChange` | `ResetPassword`, `VerifyEmail`, `ChangePassword` up to their transaction |
| `BeginTx`, `ConsumeToken`, `WriteUser`, `CommitTx` | its statements, each waiting for the row locks of open transactions |
| `FailRequest`, `Restart` | a failed statement or a client that is gone; a restart of the server, which loses sessions and requests |
| `Login`, `MintSession` | `AuthService.Login`; the session made from the row it returned |
| `Accepted`, `DropStale`, `Logout` | `CurrentUser`: a session older than password_changed_at is dropped |

The two token tables are one set of tokens with a kind. A password is the number
of the choice that made it, so "made with the password in force" can be stated.
password_changed_at is now() of the transaction, its beginning; the clock ticks at
the latest when a transaction begins, because timestamps have microseconds.

### Membership, MCMembership, MembershipProofs

Registration and the three branches of LoginWithOAuth are one action per lookup
and one for the final transaction, which the unique constraints (`UserFits`,
`LinkFits`) accept or undo. `UpdateUser` is four steps: the request (from the
users screen, or from a PATCH, which without a role writes back the one it read),
the lookup of the target, the count of administrators, the write.

### Comments, MCComments, CommentsProofs

Submission, the author's edit and deletion, and moderation are each a lookup and
a later transaction; deletions cascade to the replies (`Subtree`). A bulk action is
several moderations by one request, since RunBulk gives each id its own transaction.
The page of a reader is two steps, one per listing (`ListApproved`, `ListOwn`),
the second of which sees the newest thousand comments of the site only (any set of them, as
times of creation are not modelled); `Placed` is what buildThread puts on it. The text of a comment is the number of
its edits. The window of fifteen minutes closes at any time (`CloseWindow`).

### Pages, MCPages, PagesProofs

Create and Update as in Posts, with a parent. `ReadParent` and `WalkUp` are
validateParent, one statement per ancestor; `Write` is persistUpdate and writes
the whole row, the parent included, whatever has happened to it since `ReadRow`.
`CutShort` is a walk that ends early with the parent accepted: the loop leaves off at any
error of a read, or after a thousand steps. RestoreRevision is an update with the parent
and the status of some earlier time; which time does not matter, since an editor may ask
for the same. `Listing` is what the admin's table shows of a listing. The trash, and a
deletion, which sets the children's parents to NULL, are single statements.

### Assignments, Taxonomy, MCTaxonomy, TaxonomyProofs

`Assignments` is what the comment of `AssignTx` promises to an editor: a save replaces the
whole selection of its post at one instant, by what was chosen and exists then, a deletion
takes a term from every post at one instant, or nothing happens. It knows only what each
request has asked for and has not got yet.

In `Taxonomy` a save is the transaction of a post's update with AssignTx of both axes:
`BeginSave` (takes a connection), `UpdatePost` (locks the post), `DetachAll`,
`LookUp` (one per chosen id, on a *second* connection), `Attach`, `Commit`. A deletion is
`CheckTerm`, `BeginDelete`, `DeleteTerm`, its `Cascade` and `CommitDelete`. Row locks are not
variables but follow from what the open transactions have written (`HasPost`,
`HasJoinRow`, `HasDeleted`, `HasCascaded`, `Keeps`); `WaitsFor` says which of them a statement waits for,
and the statement's action has it as its guard. `BreakDeadlock` is PostgreSQL's detector,
which aborts some transaction that waits, in the end, for itself; `Cancel` is the client
going away. A cascade takes all its join rows at once, where PostgreSQL takes
one after the other: a save might then wait for a cascade that waits itself, and a circle
of such waits is broken as every other.

### Caches, MCCaches, CachesProofs

A public request is `Arrive`, `Load` (content), `Resolve` (the menu, from its
cache or the database), `StoreMenu`, `Respond` (stores the page). A publication
is `ClearPages`, by a listener inside the transaction, then `EndPublish`; a
change of a menu is `WriteMenu`, then `ClearMenus`; `SilentWrite` is every change of
content that clears nothing. Clearings may fail, as their errors are swallowed. An empty menu,
shown when none is assigned or the read fails, goes into the page but not into the menu cache.
There is no clock: entries know what is left of their lifetime, and records how
long ago their content was read.

## 4. What the runs check

| Run | Shows |
| --- | --- |
| `outbox` | EventsFollowTheirTransaction (no event without its committed unit of work); ClaimsAreExclusive; AttemptLedger (attempts are real failures, dead letter exactly at the threshold); RedeliveryNeedsACause; ImplementsDelivery (refinement of AtLeastOnce) |
| `outbox_liveness` | EveryEventSettles |
| `posts` | for *every* interleaving RowConsistent, FirstPublicationAnnounced, TrashedIsFrozen; for writes that nobody came in between PublishedAtKept, AnnouncedExactly, HistoryRecoverable |
| `posts_liveness` | DuePublished |
| `posts_scheduler` | violation: SchedulerRechecks |
| `credentials` | TokensWorkOnce; SessionsFollowPassword (unless two changes of the password were open at once) |
| `membership` | IdentifiersUnique; OneUserPerIdentity; NoHalfAccounts; AdminRemainsUnlessRaced |
| `membership_admins` | violation: AdminRemains |
| `comments` | PublicTextApproved; ThreadsIntact; PageComplete (nothing listed is lost or shown twice); PendingStaysPrivate |
| `pages` | ParentsExist; CyclesNeedARace; ListingComplete; PublishedPagesAnnounced |
| `taxonomy` | ImplementsAssignments (refinement of Assignments: what many statements do takes effect at one instant, whole or not at all); NothingDangles; OnlyThePoolStopsAll |
| `caches` | StalenessBounded; OutdatedOnlyByOverlap |

Every passing run of a safety property also checks its module's TypeOK.

Two runs show that the code does not do what a comment says (`findings`):

* `posts_scheduler`: the scan checks the row outside its transaction, contrary to
  the comment (service.go:605-606); a post edited, rescheduled or published
  meanwhile is overwritten and announced.
* `membership_admins`: the guard of the last administrator counts in a statement
  of its own; two demotions that overlap leave none (useradmin.go:79-80).

What modelling showed besides, without a run of its own:

* Outbox: a failed attempt is recorded in the pass's transaction. When the pass rolls
  back it is forgotten, so a row may fail more often than maxAttempts.
* Posts: two updates that read the same draft stamp published_at twice.
* Credentials: the epoch is the time a transaction began, so of two overlapping changes the
  later commit may set it back, and a session made in between stays. Hence
  the exception in SessionsFollowPassword.
* Membership: a PATCH with a name alone writes back the role it read.
* Pages: a read of an ancestor that fails, for whatever reason, ends the walk with the
  parent accepted, where every other error refuses it (service.go:613-616). Overlapping
  moves close cycles, and pages on or below one are missing from the
  table whose comment says that nothing is dropped; the picker of parents offers
  descendants behind a trashed page. Hence the restrictions in CyclesNeedARace and ListingComplete.
* Taxonomy: a category deleted between lookup and attachment fails the whole
  save, where the comment says unknown ids are skipped; saves that hold every
  connection of the pool wait for each other, and only an end from outside
  helps. Hence the shape of OnlyThePoolStopsAll.
* Caches: a page rendered before a publication commits is stored after the
  clearing and lives for its lifetime; a menu taken from the cache into a cached page makes the
  two lifetimes add up.

### Bounds

* Outbox: two events, two units of work, two workers, two handlers, batches of up to two,
  two attempts, two rolled-back passes. Two of each is the least with which
  claims compete, a batch has a sibling to block, one handler has completed when
  another fails, and attempts are lost after having been counted.
  `MaxRollbacks` bounds the model only; everything else is a parameter of the code.
  The liveness run has one handler, one row per batch and one rollback: more do not change
  what it asks, whether a row that keeps failing or keeps being rolled back settles.
* Posts: one post (posts influence each other only in the list of a scan), two
  requests, two workers, two updates in all (`MaxUpdates`), two instants
  (`MaxTime`: now and later), one failed scan (`MaxFaults`). Two updates suffice
  for a lost update and, with Create, for publish, unpublish and republish; the
  restored revision is the one the first update took. The liveness run has two posts,
  so that one can hold up the other, one request and one update.
* Credentials: one user (users share no row), two tokens, two requests, one session, three
  passwords, four instants and a lifetime of two: a registration, a reset and a
  change that overlap, a token that expires under a request, and a session from
  before each.
* Membership: the founder and two more users, two addresses, one name, two
  identities, two requests: a registration and a first login, or two of each, race for an
  address, a name or an identity; two edits are enough to lose the last administrator.
* Comments: two comments (a reply and its parent), two posts, one user beside guests,
  two requests, one edit each. `Rejected` is one status: the code treats SPAM and
  TRASH alike.
* Pages: three pages, two requests, two updates, two moves into or out of the trash or
  deletions. Three pages make a chain whose walk meets a change above; a cycle
  takes two moves. Walks are cut short at any step instead of after a thousand. A creation begins only when nothing else is under way: it
  adds a leaf, which no walk can meet, and its parent may still vanish before the insert.
* Taxonomy: two posts, two categories, one tag, three requests begun, two
  connections: two saves exhaust the pool, or a save meets a deletion on two terms, each
  waiting for the other. Longer circles, as of two saves and two deletions, are the proof's.
* Caches: two public requests, two editors, lifetimes of one and two instants, a loading
  time of one, one version more of content and of menu, two clearings of the pages:
  enough for the longest chain, an old menu kept by one request, taken by
  another and stored with its page. The proofs cover every other value.
* Deadlock checking is off: once the bounds are used up there is nothing to do.
  Where waiting for each other matters, in Taxonomy, OnlyThePoolStopsAll says so.
* Symmetry is used in the safety runs only, over identifiers that the
  specification never tells apart.

### Fairness

`WF(Drain(r))` and `WF(PublishDue(w))` for every worker: the tickers of cmd/worker
fire for ever, an error is logged and the loop goes on, and a dead process is
started again. Nothing is assumed of requests, of failures, or of which handler
succeeds. DuePublished in addition supposes that posts stop being trashed: a
post trashed between its read and its write ends the scan with an error, and the
posts after it wait for the next one. The other modules model requests only, which nothing obliges to
end, so they have no liveness properties.

## 5. What is proved

With TLAPS, for all values of the constants, from the assumption each module
states on them. `InvAlways` in each module of proofs is the inductive
invariant, of which the theorems listed in `PROJECT.json` are consequences. In all of them
the point is the same: a request acts on what it read earlier, so the property
is not inductive until the invariant says what of that is still true.

* `OutboxProofs`. `Inv` adds `PassesAreTruthful`: what a pass has written for a row is what
  happened to it. Without that the step `CommitPass`, which copies the outcome
  into the row, could mark an unhandled event as processed. `ClaimsAreExclusive`
  is needed there too: the attempts compared with the threshold were fetched
  earlier and are current only because the row is locked.
  For RedeliveryNeedsACause, `RunsAccounted`: a handler has completed at most once for each
  failed dispatch of the event or pass rolled back, and once more if the event is processed
  or a dispatch under way has come past it.
  `OutboxImplementsDelivery`: each step maps to a step of AtLeastOnce or a
  stutter; a commit of the pass maps to one `Settle` of the whole batch.
* `PostsProofs`. `UpdatesAreSound` and `ScansAreSound` say what the held rows satisfy: an
  update which writes a dated row either announces it or had read a dated row, whose
  announcement was already committed. `TrashedPostsAreFrozen`,
  `PublishedAtIsKept`, `AnnouncementsAreExact` and `HistoryIsRecoverable` follow, the
  last three from one lemma on what a fresh write does.
* `CredentialsProofs`, in two layers. The first, for TokensWorkOnce, is
  `ConsumptionExclusive`: a token that an open transaction has consumed was
  unconsumed before and is consumed by no other, which is what the row lock
  is for. The second relates times, for SessionsFollowPassword,
  of users whose changes never overlapped: an epoch lies in the past
  (`EpochsPast`); an open change is the only one of its user and began after the epoch
  it will replace (`ChangesOrdered`); and a session, or what a login has read, is never
  newer than the row, and has the row's password when it has the row's epoch
  (`LoggedIn`, `LoggingInCurrent`). A change therefore leaves every earlier session
  with a smaller epoch, and such a session is refused.
* `MembershipProofs`. The unique constraints at the final insert make the stale
  lookups harmless: users never go away, and an identity has one link, which
  all its logins led to. For AdminRemainsUnlessRaced, an edit about to be written
  leaves an administrator (`Spares`), which stays true because no other edit is under way.
* `CommentsProofs`. A parent found at submission may vanish, but ids are
  not given out again, so it is still on the same post if it is there (`Fresh`);
  likewise what a page has listed (`Entitled`). That a deletion takes a closed
  set of replies is `SubtreeClosed`. For PageComplete, `ListsHold`: no set of comments
  is `Headless`, each of them answering another, and no set that a page lists is, although
  part of the list is older than the rest and may have been deleted since.
* `PagesProofs`. `RequestsAreSound` is about the rows that updates hold, as in
  Posts; parents exist because the foreign key is checked at the write and
  applied by the deletion. For CyclesNeedARace, `WalksAreSound`: a walk that no other update
  has moved a page under has gone past a set of pages (`Past`) which holds the new
  parent and not the page, and out of which the parents lead only to where the walk is. When
  it is at the end the set has the parents of all its pages that are still there, so a
  cycle through the page would have had to lie in it before. Creations,
  deletions, the trash and walks of others do not disturb this (`WalkKept`).
* `TaxonomyProofs`. `SavesTracked`: of what was chosen on the axes a save has begun, each
  term is attached, or waits to be, or is gone for good; what is attached exists, since the foreign key's
  lock and the deletion's exclude each other (`DeletionsAlone`). The
  connections are counted in a second step (`Counted`), which gives the types and that
  transactions are finitely many. `SomeCircle`: if all of them waited for locks, one
  with the fewest awaited would wait for another with fewer, unless some wait for themselves.
  `TaxonomyImplementsAssignments`: the beginning of a request maps to `Ask`, `Commit` to one
  `Replace`, which is `SelectionsAreReplaced`, `CommitDelete` to `Delete`, every failure to `Fail`, and
  all between to stutters (`Hidden`). Besides the invariant this needs `DeletionsReal`: a
  deletion whose cascade is under way still finds its term, since no other can have it.
* `CachesProofs`. `Timely` bounds the ages of what a request holds by the time it has taken,
  `PageTimely` and `MenuTimely` those of entries by what is left of
  their lifetimes; `MenuCurrent` follows a menu from the database to the cache.

Trees, walks and circles are stated by closed sets, as in `Reached`, `Placed`, `Endless` and
`AwaitedBy`: what is reachable is what is in every set that holds the start and is closed
under the step. An induction over data, which the prover cannot do, becomes an
argument about one such set.

Only model-checked: the liveness properties EveryEventSettles and DuePublished, which are
beyond the prover. Every safety property of every passing run is a theorem.

## 6. Not modelled

Most lines of the repository are templates, their generated Go code, generated query code,
and handlers that decode a request, call one service and encode the
answer; they hold no state. What is left out besides, and why:

* services content type: a copy of posts with one more field.
* Likes: the counter is one statement that counts in its own snapshot, so two likes at
  once may leave it one short until the next; slugs, settled by the unique index;
  per-locale overlays, an upsert of text; the ownership gate, whose refusals do nothing.
* Creation and renaming of categories, whose walk over ancestors and whole-row write are
  those of Pages.
* Media: blob and row are written one after the other and errors of the cleanup
  ignored; there is no promise to check.
* Rate limiter: arithmetic on floating point times under a mutex; a bucket is dropped only
  after ten minutes, when it is full again.
* Authorizer cache: reloaded when its lifetime is over; nothing in the program
  calls Invalidate, so that it races with nothing.
* The Redis cache, which deletes a prefix in batches, the caches of other server processes,
  and the sitemap.
* Handlers of the outbox that never return, which would stop the worker's single
  goroutine, drain and scan alike; the order of deliveries, which the code does not promise.
* API tokens, contact form, settings, plugins, themes, search: single statements.
