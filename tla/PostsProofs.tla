------------------------------ MODULE PostsProofs ------------------------------
(***************************************************************************)
(* Theorems about Posts, for any sets of posts, requests and workers and    *)
(* any bounds.                                                              *)
(***************************************************************************)
EXTENDS Posts, TLAPS

\* A row is not the absence of one.
LEMMA RowsExist == \A r \in Row : r # Absent
BY DEF Row, Absent

LEMMA UpdatesAreNotIdle ==
  ASSUME NEW r \in [op : {"update"}, post : Post, prior : Row, next : Row,
                    announce : BOOLEAN]
  PROVE  r # Idle
BY DEF Idle

\* The row an update computes: consistent if the row it read was, with the date
\* of a row that had one, and dated anew only by an announced publication.
LEMMA PatchedRow ==
  ASSUME now \in Time, NEW row \in Row, Timed(row), NEW body \in Body \cup {Nil},
         NEW status \in Status \cup {Unset}, NEW at \in Time \cup {Nil}
  PROVE  LET next == Patched(row, body, status, at) IN
         /\ next \in Row
         /\ Timed(next)
         /\ row.pub # Nil => next.pub = row.pub
         /\ next.pub # Nil => BecamePublished(row, status) \/ row.pub # Nil
         /\ BecamePublished(row, status) <=>
              row.status = "DRAFT" /\ next.status = "PUBLISHED"
<1> DEFINE next == Patched(row, body, status, at)
<1> USE PostsAssumption DEF Row, Status, Unset, Nil, Time, Timed, BecamePublished
<1>1. /\ next.pub = Stamp(row, status)
      /\ next.status = IF status = Unset THEN row.status ELSE status
      /\ next.sched = IF at # Nil /\ next.status # "PUBLISHED" THEN at
                      ELSE IF status = "PUBLISHED" THEN Nil ELSE row.sched
  BY DEF Patched
<1>2. Stamp(row, status) \in Time \cup {Nil} /\ Stamp(row, status) <= now
  BY DEF Stamp
<1>3. next \in Row
  BY <1>2 DEF Patched, Body
<1>4. Timed(next)
  BY <1>1, <1>2 DEF Stamp
<1> QED
  BY <1>1, <1>3, <1>4 DEF Stamp

\* The row a scan writes: published, with a date, and the date it had if any.
LEMMA ScheduledRow ==
  ASSUME now \in Time, NEW row \in Row, Timed(row), NEW t \in Time, t <= now
  PROVE  LET next == ScheduledNext(row, t) IN
         /\ next \in Row
         /\ Timed(next)
         /\ next.status = "PUBLISHED"
         /\ row.pub # Nil => next.pub = row.pub
BY PostsAssumption DEF Row, Status, Nil, Time, Timed, ScheduledNext, Released

-------------------------------------------------------------------------------
LEMMA TickStep == Inv /\ Tick => Inv'
<1> SUFFICES ASSUME Inv, Tick PROVE Inv'
  OBVIOUS
<1>1. now \in Nat /\ now' = now + 1 /\ now' \in Time
  BY PostsAssumption DEF Inv, TypeOK, Time, Tick
<1>2. \A r \in Row : Timed(r) => Timed(r)'
  BY <1>1, PostsAssumption DEF Timed, Row, Time, Nil
<1>3. TypeOK'
  BY <1>1 DEF Inv, TypeOK, Tick
<1>4. RowConsistent'
  BY <1>2, RowsExist DEF Inv, TypeOK, RowConsistent, Tick, Exists
<1>5. FirstPublicationAnnounced'
  BY DEF Inv, FirstPublicationAnnounced, Tick, Exists
<1>6. UpdatesAreSound'
  BY <1>2, UpdatesAreNotIdle DEF Inv, TypeOK, UpdatesAreSound, SoundUpdate, Tick
<1>7. ScansAreSound'
  BY <1>1, <1>2, PostsAssumption DEF Inv, TypeOK, ScansAreSound, SoundScan, Tick, Time, Nil
<1> QED
  BY <1>3, <1>4, <1>5, <1>6, <1>7 DEF Inv
\* Writing a consistent row over another, or deleting it, keeps the table
\* consistent, if what the new row publishes has been announced.
LEMMA RowWritten ==
  ASSUME Inv, NEW p \in Post, NEW row \in Row \cup {Absent},
         rows' = [rows EXCEPT ![p] = row], now' = now,
         announced' \in [Post -> Nat], \A q \in Post : announced'[q] >= announced[q],
         row # Absent => Timed(row) /\ (row.pub # Nil => announced'[p] > 0)
  PROVE  /\ rows' \in [Post -> Row \cup {Absent}]
         /\ RowConsistent'
         /\ FirstPublicationAnnounced'
<1>1. rows' \in [Post -> Row \cup {Absent}]
  BY DEF Inv, TypeOK
<1>2. RowConsistent'
  BY DEF Inv, TypeOK, RowConsistent, Exists, Timed
<1>3. FirstPublicationAnnounced'
  <2> SUFFICES ASSUME NEW q \in Post, rows'[q] # Absent, rows'[q].pub # Nil
               PROVE  announced'[q] > 0
    BY DEF FirstPublicationAnnounced, Exists
  <2>1. CASE q = p
    BY <2>1 DEF Inv, TypeOK
  <2>2. CASE q # p
    <3>1. rows'[q] = rows[q]
      BY <2>2 DEF Inv, TypeOK
    <3>2. announced[q] > 0
      BY <3>1 DEF Inv, FirstPublicationAnnounced, Exists
    <3>3. announced[q] \in Nat /\ announced'[q] \in Nat /\ announced'[q] >= announced[q]
      BY DEF Inv, TypeOK
    <3> QED
      BY <3>2, <3>3
  <2> QED
    BY <2>1, <2>2
<1> QED
  BY <1>1, <1>2, <1>3

LEMMA CreateStep ==
  ASSUME Inv, NEW p \in Post, NEW status \in Status, NEW at \in Time \cup {Nil},
         Create(p, status, at)
  PROVE  Inv'
<1> USE PostsAssumption
<1> DEFINE row == [body |-> 1, status |-> status, trashed |-> FALSE,
                   pub |-> IF status = "PUBLISHED" THEN now ELSE Nil,
                   sched |-> IF status = "PUBLISHED" THEN Nil ELSE at]
<1>1. now \in Time /\ now' = now
  BY DEF Inv, TypeOK, Create
<1>2. row \in Row /\ Timed(row) /\ (row.pub # Nil => status = "PUBLISHED")
  BY <1>1 DEF Row, Body, Status, Timed, Time, Nil
<1>3. rows' = [rows EXCEPT ![p] = row]
  BY DEF Create
<1> HIDE DEF row
<1>4. announced' \in [Post -> Nat] /\ \A q \in Post : announced'[q] >= announced[q]
  BY DEF Inv, TypeOK, Create
<1>5. announced'[p] > 0 \/ status # "PUBLISHED"
  BY DEF Inv, TypeOK, Create
<1>6. /\ rows' \in [Post -> Row \cup {Absent}]
      /\ RowConsistent'
      /\ FirstPublicationAnnounced'
  BY <1>1, <1>2, <1>3, <1>4, <1>5, RowWritten
<1>7. TypeOK'
  <2>1. created' \subseteq Post
    BY DEF Inv, TypeOK, Create
  <2> QED
    BY <1>1, <1>4, <1>6, <2>1 DEF Inv, TypeOK, Create
<1>8. UpdatesAreSound'
  BY <1>1, <1>4, UpdatesAreNotIdle
     DEF Inv, TypeOK, UpdatesAreSound, SoundUpdate, Timed, Create
<1>9. ScansAreSound'
  BY <1>1 DEF Inv, ScansAreSound, SoundScan, Timed, Create
<1> QED
  BY <1>6, <1>7, <1>8, <1>9 DEF Inv

LEMMA ReadForUpdateStep ==
  ASSUME Inv, NEW e \in Request, NEW p \in Post, NEW body \in Body \cup {Nil},
         NEW status \in Status \cup {Unset}, NEW at \in Time \cup {Nil},
         ReadForUpdate(e, p, body, status, at)
  PROVE  Inv'
<1> USE PostsAssumption
<1> DEFINE next == Patched(rows[p], body, status, at)
           r == [op |-> "update", post |-> p, prior |-> rows[p], next |-> next,
                 announce |-> BecamePublished(rows[p], status)]
<1>1. now \in Time /\ now' = now /\ rows' = rows /\ announced' = announced
  BY DEF Inv, TypeOK, ReadForUpdate
<1>2. rows[p] \in Row /\ Timed(rows[p]) /\ (rows[p].pub # Nil => announced[p] > 0)
  BY DEF Inv, TypeOK, RowConsistent, FirstPublicationAnnounced, ReadForUpdate, Active,
         Exists
<1>3. /\ next \in Row
      /\ Timed(next)
      /\ rows[p].pub # Nil => next.pub = rows[p].pub
      /\ next.pub # Nil => BecamePublished(rows[p], status) \/ rows[p].pub # Nil
      /\ BecamePublished(rows[p], status) <=>
           rows[p].status = "DRAFT" /\ next.status = "PUBLISHED"
  BY <1>1, <1>2, PatchedRow
<1>4. req' = [req EXCEPT ![e] = r]
  BY DEF ReadForUpdate
<1> HIDE DEF next
<1>5. BecamePublished(rows[p], status) \in BOOLEAN
  BY DEF BecamePublished
<1>6. TypeOK'
  BY <1>1, <1>2, <1>3, <1>4, <1>5 DEF Inv, TypeOK, ReadForUpdate
<1>7. RowConsistent' /\ FirstPublicationAnnounced'
  BY <1>1 DEF Inv, RowConsistent, FirstPublicationAnnounced, Exists, Timed
<1>8. UpdatesAreSound'
  <2>1. SoundUpdate(r)
    BY <1>2, <1>3, <1>5 DEF SoundUpdate
  <2> HIDE DEF r
  <2> QED
    BY <1>1, <1>4, <2>1 DEF Inv, TypeOK, UpdatesAreSound, SoundUpdate, Timed
<1>9. ScansAreSound'
  BY <1>1 DEF Inv, ScansAreSound, SoundScan, Timed, ReadForUpdate
<1> QED
  BY <1>6, <1>7, <1>8, <1>9 DEF Inv
LEMMA PersistUpdateStep ==
  ASSUME Inv, NEW e \in Request, PersistUpdate(e)
  PROVE  Inv'
<1> DEFINE r == req[e]
           p == r.post
<1>1. /\ r \in [op : {"update"}, post : Post, prior : Row, next : Row, announce : BOOLEAN]
      /\ SoundUpdate(r)
  BY DEF Inv, TypeOK, UpdatesAreSound, PersistUpdate
<1>2. now' = now /\ req' = [req EXCEPT ![e] = Idle] /\ scan' = scan
  BY DEF PersistUpdate
<1>3. announced' \in [Post -> Nat] /\ \A q \in Post : announced'[q] >= announced[q]
  BY <1>1 DEF Inv, TypeOK, PersistUpdate
<1>4. /\ rows' \in [Post -> Row \cup {Absent}]
      /\ RowConsistent'
      /\ FirstPublicationAnnounced'
  <2>1. CASE Writable(p)
    <3>1. rows' = [rows EXCEPT ![p] = r.next]
      BY <2>1 DEF PersistUpdate
    <3>2. r.next \in Row /\ Timed(r.next)
      BY <1>1 DEF SoundUpdate
    <3>3. r.next.pub # Nil => announced'[p] > 0
      <4>1. announced[p] \in Nat /\ announced'[p] = IF r.announce THEN announced[p] + 1
                                                    ELSE announced[p]
        BY <1>1, <2>1 DEF Inv, TypeOK, PersistUpdate
      <4> HIDE DEF r, p
      <4> QED
        BY <1>1, <4>1 DEF SoundUpdate, p
    <3> HIDE DEF r
    <3> QED
      BY <1>1, <1>2, <1>3, <3>1, <3>2, <3>3, RowWritten
  <2>2. CASE ~Writable(p)
    BY <1>2, <2>2
       DEF Inv, TypeOK, PersistUpdate, RowConsistent, FirstPublicationAnnounced, Exists,
           Timed
  <2> QED
    BY <2>1, <2>2
<1>5. TypeOK'
  <2>1. revs' \in [Post -> SUBSET [body : Body, status : Status]]
    BY <1>1 DEF Inv, TypeOK, PersistUpdate, SnapshotTaken, Snapshot, Row
  <2> QED
    BY <1>2, <1>3, <1>4, <2>1 DEF Inv, TypeOK, PersistUpdate
<1>6. UpdatesAreSound'
  BY <1>2, <1>3, UpdatesAreNotIdle
     DEF Inv, TypeOK, UpdatesAreSound, SoundUpdate, Timed
<1>7. ScansAreSound'
  BY <1>2 DEF Inv, ScansAreSound, SoundScan, Timed
<1> QED
  BY <1>4, <1>5, <1>6, <1>7 DEF Inv

LEMMA AbandonUpdateStep ==
  ASSUME Inv, NEW e \in Request, AbandonUpdate(e)
  PROVE  Inv'
BY DEF Inv, TypeOK, RowConsistent, FirstPublicationAnnounced, Exists, Timed,
       UpdatesAreSound, SoundUpdate, ScansAreSound, SoundScan, AbandonUpdate

LEMMA TrashRestoreDeleteStep ==
  ASSUME Inv, NEW p \in Post, Trash(p) \/ Restore(p) \/ PermanentDelete(p)
  PROVE  Inv'
<1>1. UNCHANGED <<now, updates, created, revs, announced, req, scan, faults>>
  BY DEF Trash, Restore, PermanentDelete
<1>2. PICK row \in Row \cup {Absent} :
         /\ rows' = [rows EXCEPT ![p] = row]
         /\ row # Absent => /\ Exists(p) /\ row.pub = rows[p].pub
                            /\ row.sched = rows[p].sched /\ row.status = rows[p].status
  <2>1. CASE Trash(p) \/ Restore(p)
    <3>1. rows[p] \in Row /\ Exists(p)
      BY <2>1 DEF Inv, TypeOK, Trash, Restore, Active, Exists
    <3>2. PICK b \in BOOLEAN : rows' = [rows EXCEPT ![p] = [rows[p] EXCEPT !.trashed = b]]
      BY <2>1 DEF Trash, Restore
    <3> DEFINE row == [rows[p] EXCEPT !.trashed = b]
    <3>3. row \in Row
      BY <3>1 DEF Row
    <3>4. row.pub = rows[p].pub /\ row.sched = rows[p].sched /\ row.status = rows[p].status
      BY <3>1 DEF Row
    <3> HIDE DEF row
    <3> QED
      BY <3>1, <3>2, <3>3, <3>4 DEF row
  <2>2. CASE PermanentDelete(p)
    BY <2>2 DEF PermanentDelete
  <2> QED
    BY <2>1, <2>2
<1>3. row # Absent => Timed(row) /\ (row.pub # Nil => announced'[p] > 0)
  BY <1>1, <1>2 DEF Inv, RowConsistent, FirstPublicationAnnounced, Timed
<1>4. /\ rows' \in [Post -> Row \cup {Absent}]
      /\ RowConsistent'
      /\ FirstPublicationAnnounced'
  <2>1. announced' \in [Post -> Nat] /\ \A q \in Post : announced'[q] >= announced[q]
    BY <1>1 DEF Inv, TypeOK
  <2> QED
    BY <1>1, <1>2, <1>3, <2>1, RowWritten
<1> QED
  BY <1>1, <1>4 DEF Inv, TypeOK, UpdatesAreSound, SoundUpdate, ScansAreSound, SoundScan,
                    Timed
\* A step that changes only the list or the place of a scan.
LEMMA ScanMoved ==
  ASSUME Inv, NEW w \in Worker,
         NEW s \in [todo : SUBSET Post, at : Time \cup {Nil}, post : Post \cup {Absent},
                   read : Row \cup {Absent}],
         SoundScan(s), scan' = [scan EXCEPT ![w] = s], faults' \in 0..MaxFaults,
         UNCHANGED <<now, updates, rows, created, revs, announced, req>>
  PROVE  Inv'
<1>1. TypeOK'
  BY DEF Inv, TypeOK
<1>2. RowConsistent' /\ FirstPublicationAnnounced' /\ UpdatesAreSound'
  BY DEF Inv, RowConsistent, FirstPublicationAnnounced, UpdatesAreSound, SoundUpdate, Exists,
         Timed
<1>3. ScansAreSound'
  BY DEF Inv, TypeOK, ScansAreSound, SoundScan, Timed
<1> QED
  BY <1>1, <1>2, <1>3 DEF Inv

LEMMA RestingIsSound ==
  ASSUME now \in Time
  PROVE  /\ Resting \in [todo : SUBSET Post, at : Time \cup {Nil}, post : Post \cup {Absent},
                         read : Row \cup {Absent}]
         /\ SoundScan(Resting)
BY PostsAssumption DEF Resting, SoundScan, Time, Nil

LEMMA StartScanStep ==
  ASSUME Inv, NEW w \in Worker, StartScan(w)
  PROVE  Inv'
<1> DEFINE s == [todo |-> {p \in Post : Due(p, now)}, at |-> now, post |-> Absent,
                 read |-> Absent]
<1>1. now \in Time /\ faults \in 0..MaxFaults
  BY DEF Inv, TypeOK
<1>2. /\ s \in [todo : SUBSET Post, at : Time \cup {Nil}, post : Post \cup {Absent},
                read : Row \cup {Absent}]
      /\ SoundScan(s)
  BY <1>1, PostsAssumption DEF SoundScan, Time, Nil
<1>3. /\ scan' = [scan EXCEPT ![w] = s] /\ faults' = faults
      /\ UNCHANGED <<now, updates, rows, created, revs, announced, req>>
  BY DEF StartScan
<1> HIDE DEF s
<1> QED
  BY <1>1, <1>2, <1>3, ScanMoved

LEMMA ReadScheduledStep ==
  ASSUME Inv, NEW w \in Worker, NEW p \in Post, ReadScheduled(w, p)
  PROVE  Inv'
<1> DEFINE ScanType == [todo : SUBSET Post, at : Time \cup {Nil}, post : Post \cup {Absent},
                        read : Row \cup {Absent}]
           rest == [scan[w] EXCEPT !.todo = @ \ {p}]
           reading == [rest EXCEPT !.post = p, !.read = rows[p]]
           draft == Active(p) /\ rows[p].status = "DRAFT" /\ rows[p].sched # Nil
           s == IF draft THEN reading ELSE Proceed(rest)
<1>1. /\ now \in Time /\ faults \in 0..MaxFaults
      /\ scan[w] \in ScanType /\ SoundScan(scan[w]) /\ scan[w].at # Nil
      /\ scan[w].read = Absent
  BY DEF Inv, TypeOK, ScansAreSound, SoundScan, ReadScheduled
<1>2. rest \in ScanType /\ SoundScan(rest)
  BY <1>1 DEF SoundScan
<1>3. Proceed(rest) \in ScanType /\ SoundScan(Proceed(rest))
  BY <1>1, <1>2, RestingIsSound DEF Proceed
<1>4. ASSUME draft
      PROVE  reading \in ScanType /\ SoundScan(reading)
  <2>1. rows[p] \in Row /\ Timed(rows[p]) /\ rows[p].status = "DRAFT"
    BY <1>4 DEF Inv, TypeOK, RowConsistent, Active, Exists
  <2>2. /\ reading.todo = scan[w].todo \ {p} /\ reading.at = scan[w].at
        /\ reading.post = p /\ reading.read = rows[p]
    BY <1>1
  <2>3. reading \in ScanType
    BY <1>1, <2>1
  <2> QED
    BY <1>1, <2>1, <2>2, <2>3 DEF SoundScan
<1>5. /\ scan' = [scan EXCEPT ![w] = s] /\ faults' = faults
      /\ UNCHANGED <<now, updates, rows, created, revs, announced, req>>
  BY DEF ReadScheduled
<1>6. s \in ScanType /\ SoundScan(s)
  BY <1>3, <1>4
<1> HIDE DEF s
<1> QED
  BY <1>1, <1>5, <1>6, ScanMoved

LEMMA FailScanStep ==
  ASSUME Inv, NEW w \in Worker, FailScan(w)
  PROVE  Inv'
<1>1. now \in Time /\ faults' \in 0..MaxFaults
  BY PostsAssumption DEF Inv, TypeOK, FailScan
<1> QED
  BY <1>1, RestingIsSound, ScanMoved DEF FailScan

LEMMA WriteScheduledStep ==
  ASSUME Inv, NEW w \in Worker, WriteScheduled(w)
  PROVE  Inv'
<1> DEFINE ScanType == [todo : SUBSET Post, at : Time \cup {Nil}, post : Post \cup {Absent},
                        read : Row \cup {Absent}]
           s == scan[w]
           p == s.post
           rest == [s EXCEPT !.post = Absent, !.read = Absent]
           row == ScheduledNext(s.read, s.at)
<1>1. /\ now \in Time /\ now' = now /\ req' = req /\ faults' = faults
      /\ UNCHANGED <<updates, created, revs>>
      /\ s \in ScanType /\ SoundScan(s) /\ s.at \in Time /\ s.at <= now
      /\ p \in Post /\ s.read \in Row /\ Timed(s.read)
  BY DEF Inv, TypeOK, ScansAreSound, SoundScan, WriteScheduled
<1>2. rest \in ScanType /\ SoundScan(rest)
  BY <1>1 DEF SoundScan
<1>3. \E t \in ScanType : SoundScan(t) /\ scan' = [scan EXCEPT ![w] = t]
  BY <1>1, <1>2, RestingIsSound DEF Proceed, WriteScheduled
<1>4. announced' \in [Post -> Nat] /\ \A q \in Post : announced'[q] >= announced[q]
  BY <1>1 DEF Inv, TypeOK, WriteScheduled
<1>5. /\ rows' \in [Post -> Row \cup {Absent}]
      /\ RowConsistent'
      /\ FirstPublicationAnnounced'
  <2>1. CASE Writable(p)
    <3>1. rows' = [rows EXCEPT ![p] = row]
      BY <2>1 DEF WriteScheduled
    <3>2. row \in Row /\ Timed(row)
      BY <1>1, ScheduledRow
    <3>3. announced'[p] > 0
      BY <1>1, <2>1 DEF Inv, TypeOK, WriteScheduled
    <3> HIDE DEF p, row
    <3> QED
      BY <1>1, <1>4, <3>1, <3>2, <3>3, RowWritten
  <2>2. CASE ~Writable(p)
    BY <1>1, <2>2
       DEF Inv, TypeOK, WriteScheduled, RowConsistent, FirstPublicationAnnounced, Exists,
           Timed
  <2> QED
    BY <2>1, <2>2
<1>6. TypeOK'
  BY <1>1, <1>3, <1>4, <1>5 DEF Inv, TypeOK
<1>7. UpdatesAreSound'
  BY <1>1, <1>4, UpdatesAreNotIdle
     DEF Inv, TypeOK, UpdatesAreSound, SoundUpdate, Timed
<1>8. ScansAreSound'
  BY <1>1, <1>3 DEF Inv, TypeOK, ScansAreSound, SoundScan, Timed
<1> QED
  BY <1>5, <1>6, <1>7, <1>8 DEF Inv
-------------------------------------------------------------------------------
\* Inv is inductive.
LEMMA InvInit == Init => Inv
<1> SUFFICES ASSUME Init PROVE Inv
  OBVIOUS
<1>2. now \in Time
  BY PostsAssumption DEF Init, Time
<1>3. TypeOK
  BY <1>2, RestingIsSound, PostsAssumption DEF Init, TypeOK
<1> QED
  BY <1>2, <1>3, RestingIsSound
     DEF Init, Inv, RowConsistent, FirstPublicationAnnounced, Exists, UpdatesAreSound,
         ScansAreSound

LEMMA InvStep == Inv /\ [Next]_vars => Inv'
<1> SUFFICES ASSUME Inv, [Next]_vars
             PROVE  Inv'
  OBVIOUS
<1>1. CASE Tick
  BY <1>1, TickStep
<1>2. ASSUME NEW e \in Request, NEW p \in Post, Edit(e, p)
      PROVE  Inv'
  <2>1. PICK status \in Status \cup {Unset}, at \in Time \cup {Nil} :
           ReadForUpdate(e, p, updates + 2, status, at)
    BY <1>2 DEF Edit
  <2>2. updates + 2 \in Body
    BY <2>1, PostsAssumption DEF Inv, TypeOK, ReadForUpdate, Body
  <2> QED
    BY <2>1, <2>2, ReadForUpdateStep
<1>3. ASSUME NEW e \in Request, NEW p \in Post,
             \/ Publish(e, p) \/ Unpublish(e, p)
             \/ \E at \in Time : Schedule(e, p, at)
      PROVE  Inv'
  BY <1>3, ReadForUpdateStep DEF Publish, Unpublish, Schedule, Status
<1>4. ASSUME NEW e \in Request, NEW p \in Post, RestoreRevision(e, p)
      PROVE  Inv'
  <2>1. PICK s \in revs[p] : ReadForUpdate(e, p, s.body, s.status, Nil)
    BY <1>4 DEF RestoreRevision
  <2>2. s \in [body : Body, status : Status]
    BY <2>1 DEF Inv, TypeOK
  <2> QED
    BY <2>1, <2>2, ReadForUpdateStep
<1>5. CASE UNCHANGED vars
  BY <1>5 DEF vars, Inv, TypeOK, RowConsistent, FirstPublicationAnnounced, Exists, Timed,
              UpdatesAreSound, SoundUpdate, ScansAreSound, SoundScan
<1> QED
  BY <1>1, <1>2, <1>3, <1>4, <1>5, CreateStep, PersistUpdateStep, AbandonUpdateStep,
     TrashRestoreDeleteStep, StartScanStep, ReadScheduledStep, WriteScheduledStep,
     FailScanStep
     DEF Next, PublishDue

\* The inductive invariant holds of every reachable state.
THEOREM InvAlways == Spec => []Inv
BY InvInit, InvStep, PTL DEF Spec

\* The variables always have the types of the columns and of the fields read.
THEOREM TypeCorrect == Spec => []TypeOK
<1>1. Inv => TypeOK
  BY DEF Inv
<1> QED
  BY <1>1, InvAlways, PTL

\* However requests and scans overwrite each other's rows, a published row is
\* dated and unscheduled.
THEOREM PublishedRowsAreDated == Spec => []RowConsistent
<1>1. Inv => RowConsistent
  BY DEF Inv
<1> QED
  BY <1>1, InvAlways, PTL

\* However requests and scans overwrite each other's rows, no post goes public
\* for the first time without its content.published event.
THEOREM FirstPublicationIsAnnounced == Spec => []FirstPublicationAnnounced
<1>1. Inv => FirstPublicationAnnounced
  BY DEF Inv
<1> QED
  BY <1>1, InvAlways, PTL
-------------------------------------------------------------------------------
\* The steps that leave the table, its events and its revisions alone.
LEMMA ReadingSteps ==
  ASSUME [Next]_vars, NEW p \in Post, rows'[p] # rows[p] \/ announced'[p] # announced[p]
                                      \/ revs'[p] # revs[p]
  PROVE  \/ \E q \in Post, status \in Status, at \in Time \cup {Nil} : Create(q, status, at)
         \/ \E q \in Post : Trash(q) \/ Restore(q) \/ PermanentDelete(q)
         \/ \E e \in Request : PersistUpdate(e)
         \/ \E w \in Worker : WriteScheduled(w)
BY DEF Next, vars, Tick, Edit, Publish, Unpublish, Schedule, RestoreRevision, ReadForUpdate,
       AbandonUpdate, PublishDue, StartScan, ReadScheduled, FailScan

LEMMA CreatedFirstAlways == Spec => []CreatedFirst
<1>1. Init => CreatedFirst
  BY DEF Init, CreatedFirst, Exists
<1>2. ASSUME TypeOK, CreatedFirst, [Next]_vars
      PROVE  CreatedFirst'
  <2> SUFFICES ASSUME NEW p \in Post, rows'[p] # Absent
               PROVE  p \in created'
    BY DEF CreatedFirst, Exists
  <2>1. CASE rows[p] # Absent
    BY <1>2, <2>1
       DEF CreatedFirst, Exists, Next, vars, Tick, Create, Edit, Publish, Unpublish, Schedule,
           RestoreRevision, ReadForUpdate, PersistUpdate, AbandonUpdate, Trash, Restore,
           PermanentDelete, PublishDue, StartScan, ReadScheduled, WriteScheduled, FailScan
  <2>2. CASE rows[p] = Absent
    <3>1. ASSUME NEW q \in Post, NEW status \in Status, NEW at \in Time \cup {Nil},
                 Create(q, status, at)
          PROVE  p \in created'
      BY <1>2, <2>2, <3>1 DEF TypeOK, Create
    <3>2. ASSUME NEW q \in Post, Trash(q) \/ Restore(q) \/ PermanentDelete(q)
          PROVE  FALSE
      BY <1>2, <2>2, <3>2 DEF TypeOK, Trash, Restore, PermanentDelete, Active, Exists
    <3>3. ASSUME NEW e \in Request, PersistUpdate(e)
          PROVE  FALSE
      BY <1>2, <2>2, <3>3 DEF TypeOK, PersistUpdate, Writable, Active, Exists
    <3>4. ASSUME NEW w \in Worker, WriteScheduled(w)
          PROVE  FALSE
      BY <1>2, <2>2, <3>4 DEF TypeOK, WriteScheduled, Writable, Active, Exists
    <3> QED
      BY <1>2, <2>2, <3>1, <3>2, <3>3, <3>4, ReadingSteps
  <2> QED
    BY <2>1, <2>2
<1> QED
  BY <1>1, <1>2, TypeCorrect, PTL DEF Spec

\* A post in the trash is changed by nothing but its restoration or deletion,
\* whatever was read before it was trashed.
THEOREM TrashedPostsAreFrozen == Spec => TrashedIsFrozen
<1>1. ASSUME Inv, CreatedFirst, [Next]_vars, NEW p \in Post, Exists(p), rows[p].trashed
      PROVE  Frozen(p)
  <2> USE DEF Frozen
  <2>1. rows[p] \in Row
    BY <1>1 DEF Inv, TypeOK, Exists
  <2>2. CASE rows'[p] = rows[p] /\ announced'[p] = announced[p] /\ revs'[p] = revs[p]
    BY <2>2
  <2>3. ASSUME NEW q \in Post, NEW status \in Status, NEW at \in Time \cup {Nil},
               Create(q, status, at)
        PROVE  Frozen(p)
    BY <1>1, <2>3 DEF Inv, TypeOK, CreatedFirst, Create
  <2>4. ASSUME NEW q \in Post, Trash(q) \/ Restore(q) \/ PermanentDelete(q)
        PROVE  Frozen(p)
    BY <1>1, <2>4 DEF Inv, TypeOK, Trash, Restore, PermanentDelete, Active
  <2>5. ASSUME NEW e \in Request, PersistUpdate(e)
        PROVE  Frozen(p)
    BY <1>1, <2>5 DEF Inv, TypeOK, PersistUpdate, Writable, Active
  <2>6. ASSUME NEW w \in Worker, WriteScheduled(w)
        PROVE  Frozen(p)
    BY <1>1, <2>6 DEF Inv, TypeOK, WriteScheduled, Writable, Active
  <2> QED
    BY <1>1, <2>2, <2>3, <2>4, <2>5, <2>6, ReadingSteps
<1>2. Inv /\ CreatedFirst /\ [Next]_vars =>
        [\A p \in Post : Exists(p) /\ rows[p].trashed => Frozen(p)]_vars
  BY <1>1
<1> QED
  BY <1>2, InvAlways, CreatedFirstAlways, PTL DEF Spec, TrashedIsFrozen
\* What a write that nobody has come in between does.
LEMMA FreshWriteDoes ==
  ASSUME Inv, [Next]_vars, NEW p \in Post, FreshWrite(p)
  PROVE  /\ rows[p].pub # Nil => rows'[p].pub = rows[p].pub
         /\ rows[p].status = "DRAFT" /\ rows'[p].status = "PUBLISHED"
              => announced'[p] = announced[p] + 1
         /\ ~(rows[p].status = "DRAFT" /\ rows'[p].status = "PUBLISHED")
              => announced'[p] = announced[p]
         /\ rows'[p].body # rows[p].body => Snapshot(rows[p]) \in revs'[p]
<1>1. CASE \E e \in Request : FreshUpdate(e, p)
  <2>1. PICK e \in Request : FreshUpdate(e, p)
    BY <1>1
  <2>2. PersistUpdate(e)
    <3>1. ASSUME NEW d \in Request, PersistUpdate(d)
          PROVE  PersistUpdate(e)
      <4>1. d = e
        BY <2>1, <3>1 DEF Inv, TypeOK, FreshUpdate, PersistUpdate
      <4> QED
        BY <3>1, <4>1
    <3>2. req' # req
      BY <2>1 DEF FreshUpdate
    <3> QED
      BY <3>1, <3>2, ReadingSteps
         DEF FreshWrite, Create, Trash, Restore, PermanentDelete, WriteScheduled
  <2>3. SoundUpdate(req[e])
    BY <2>1 DEF Inv, UpdatesAreSound, FreshUpdate
  <2>4. /\ rows'[p] = req[e].next /\ req[e].prior = rows[p]
        /\ announced'[p] = IF req[e].announce THEN announced[p] + 1 ELSE announced[p]
        /\ Snapshot(rows[p]) \in revs'[p]
    BY <2>1, <2>2
       DEF Inv, TypeOK, FreshWrite, FreshUpdate, PersistUpdate, SnapshotTaken
  <2> QED
    BY <2>3, <2>4 DEF SoundUpdate
<1>2. CASE \E w \in Worker : FreshScan(w, p)
  <2>1. PICK w \in Worker : FreshScan(w, p)
    BY <1>2
  <2>2. WriteScheduled(w)
    <3>1. ASSUME NEW v \in Worker, WriteScheduled(v)
          PROVE  WriteScheduled(w)
      <4>1. scan' = [scan EXCEPT ![v] = scan'[v]]
        BY <3>1 DEF Inv, TypeOK, WriteScheduled
      <4>2. v = w
        BY <2>1, <4>1 DEF Inv, TypeOK, FreshScan
      <4> QED
        BY <3>1, <4>2
    <3>2. scan' # scan
      BY <2>1 DEF FreshScan
    <3> QED
      BY <3>1, <3>2, ReadingSteps
         DEF FreshWrite, Create, Trash, Restore, PermanentDelete, PersistUpdate
  <2>3. SoundScan(scan[w]) /\ scan[w].at \in Time
    BY <2>1 DEF Inv, TypeOK, ScansAreSound, SoundScan, FreshScan
  <2>4. /\ rows'[p] = ScheduledNext(rows[p], scan[w].at)
        /\ announced'[p] = announced[p] + 1
        /\ rows[p].status = "DRAFT"
    BY <2>1, <2>2, <2>3
       DEF Inv, TypeOK, FreshWrite, FreshScan, WriteScheduled, SoundScan
  <2> QED
    BY <2>4 DEF ScheduledNext, Released
<1> QED
  BY <1>1, <1>2 DEF FreshWrite

\* Nothing that reads and writes without interference moves a publication date.
THEOREM PublishedAtIsKept == Spec => PublishedAtKept
<1>1. ASSUME Inv, [Next]_vars, NEW p \in Post, FreshWrite(p), rows[p].pub # Nil
      PROVE  rows'[p].pub = rows[p].pub
  BY <1>1, FreshWriteDoes
<1>2. Inv /\ [Next]_vars =>
        [\A p \in Post : FreshWrite(p) /\ rows[p].pub # Nil =>
            rows'[p].pub = rows[p].pub]_vars
  BY <1>1
<1> QED
  BY <1>2, InvAlways, PTL DEF Spec, PublishedAtKept

\* Nothing that reads and writes without interference publishes silently, or
\* announces what it does not publish.
THEOREM AnnouncementsAreExact == Spec => AnnouncedExactly
<1>1. ASSUME Inv, [Next]_vars, NEW p \in Post, FreshWrite(p)
      PROVE  announced'[p] = announced[p] + (IF /\ rows[p].status = "DRAFT"
                                                /\ rows'[p].status = "PUBLISHED"
                                             THEN 1 ELSE 0)
  <2>1. announced[p] \in Nat
    BY <1>1 DEF Inv, TypeOK
  <2> QED
    BY <1>1, <2>1, FreshWriteDoes
<1>2. Inv /\ [Next]_vars =>
        [\A p \in Post : FreshWrite(p) =>
            announced'[p] = announced[p] + (IF /\ rows[p].status = "DRAFT"
                                               /\ rows'[p].status = "PUBLISHED"
                                            THEN 1 ELSE 0)]_vars
  BY <1>1
<1> QED
  BY <1>2, InvAlways, PTL DEF Spec, AnnouncedExactly

\* Nothing that reads and writes without interference loses a body.
THEOREM HistoryIsRecoverable == Spec => HistoryRecoverable
<1>1. ASSUME Inv, [Next]_vars, NEW p \in Post, FreshWrite(p), rows'[p].body # rows[p].body
      PROVE  Snapshot(rows[p]) \in revs'[p]
  BY <1>1, FreshWriteDoes
<1>2. Inv /\ [Next]_vars =>
        [\A p \in Post : FreshWrite(p) /\ rows'[p].body # rows[p].body =>
            Snapshot(rows[p]) \in revs'[p]]_vars
  BY <1>1
<1> QED
  BY <1>2, InvAlways, PTL DEF Spec, HistoryRecoverable
===============================================================================
