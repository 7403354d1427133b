---------------------------- MODULE MembershipProofs ----------------------------
(***************************************************************************)
(* For any users, mail addresses, names, identities and requests: what the *)
(* unique constraints give (one account per address and name, one user per *)
(* identity, no account without its link), and that an administrator       *)
(* remains as long as edits of users come one at a time.  The invariant    *)
(* adds what a request has found out about users, who never go away, and,  *)
(* for the administrators, that an edit about to take the role from one    *)
(* leaves another.                                                         *)
(***************************************************************************)
EXTENDS Membership, FiniteSetTheorems, TLAPS

RequestState == Registering \cup Looking \cup Linking \cup EditState

\* The users that requests are about are there.
Known(q) == q \in Linking \cup EditState => q.user \in Existing

RequestsKnow == \A r \in Request : Known(req[r])

\* An identity has one link, to a user there is, and has led to nobody else.
LinksSound ==
    /\ \A l, k \in links : l[1] = k[1] => l = k
    /\ \A l \in links : l[2] \in Existing
    /\ \A i \in Identity : \A u \in logins[i] : <<i, u>> \in links

\* An edit that is about to be written leaves an administrator.
Spares(q) == q \in EditState /\ q.at = "write" =>
                q.role = Admin \/ \E u \in Admins : u # q.user

AdminSafe ==
    \/ raced
    \/ /\ Admins # {}
       /\ \A r, s \in Request : Editing(r) /\ Editing(s) => r = s
       /\ \A r \in Request : Spares(req[r])

Inv == /\ TypeOK /\ RequestsKnow /\ LinksSound /\ AdminSafe
       /\ IdentifiersUnique /\ NoHalfAccounts

-------------------------------------------------------------------------------
\* Rows are rows, and the states of a request are told apart by their op.
LEMMA Distinct ==
    /\ None \notin UserRow /\ None \notin EditState /\ None \notin Linking
    /\ None \notin Looking /\ None \notin Registering
    /\ \A q \in Registering : q.op = "register" /\ q \notin Linking /\ q \notin EditState
    /\ \A q \in Looking : q.op = "oauth" /\ q.at \in {"unlinked", "create"}
                          /\ q \notin Linking /\ q \notin EditState
    /\ \A q \in Linking : q.op = "oauth" /\ q.at = "link" /\ q \notin EditState
    /\ \A q \in EditState : q.op = "edit" /\ q \notin Linking
<1>1. None \notin UserRow
  BY DEF None, UserRow
<1>2. None \notin EditState /\ None \notin Linking /\ None \notin Looking /\ None \notin Registering
  BY DEF None, EditState, Linking, Looking, Registering
<1>3. \A q \in Registering : q.op = "register" /\ q \notin Linking /\ q \notin EditState
  BY DEF Registering, Linking, EditState
<1>4. \A q \in Looking : q.op = "oauth" /\ q.at \in {"unlinked", "create"}
                         /\ q \notin Linking /\ q \notin EditState
  BY DEF Looking, Linking, EditState
<1>5. \A q \in Linking : q.op = "oauth" /\ q.at = "link" /\ q \notin EditState
  BY DEF Linking, EditState
<1>6. \A q \in EditState : q.op = "edit" /\ q \notin Linking
  BY DEF Linking, EditState
<1> QED BY <1>1, <1>2, <1>3, <1>4, <1>5, <1>6

LEMMA RowsTyped ==
  ASSUME Inv
  PROVE  /\ \A u \in Existing : u \in User /\ users[u] \in UserRow
         /\ \A u \in User : u \in Existing <=> users[u] \in UserRow
BY Distinct DEF Inv, TypeOK, Existing

LEMMA RequestsTyped ==
  ASSUME Inv, NEW r \in Request, req[r] # None
  PROVE  /\ req[r].op = "register" => req[r] \in Registering
         /\ req[r].op = "oauth" /\ req[r].at # "link" => req[r] \in Looking
         /\ req[r].op = "oauth" /\ req[r].at = "link" => req[r] \in Linking
         /\ req[r].op = "edit" => req[r] \in EditState
         /\ Known(req[r])
BY Distinct DEF Inv, TypeOK, RequestsKnow

LEMMA InitInv == Init => Inv
<1> SUFFICES ASSUME Init PROVE Inv
  OBVIOUS
<1> DEFINE founder == Row(FounderEmail, NoName, Admin, "seed")
<1>1. founder \in UserRow /\ founder.role = Admin /\ founder.via = "seed"
  BY MembershipAssumption DEF FounderEmail, Row, UserRow, Role
<1>2. users = [u \in User |-> IF u = Founder THEN founder ELSE None]
  BY DEF Init
<1> HIDE DEF founder
<1>3. Existing = {Founder} /\ users[Founder] = founder
  BY <1>1, <1>2, Distinct, MembershipAssumption DEF Existing
<1>4. Admins = {Founder}
  BY <1>1, <1>3 DEF Admins
<1>5. TypeOK
  BY <1>1, <1>2 DEF Init, TypeOK
<1>6. \A r \in Request : req[r] = None
  BY DEF Init
<1>7. RequestsKnow /\ AdminSafe
  BY <1>4, <1>6, Distinct DEF RequestsKnow, Known, AdminSafe, Spares, Editing
<1>8. LinksSound
  BY DEF Init, LinksSound
<1>9. IdentifiersUnique /\ NoHalfAccounts
  BY <1>1, <1>3 DEF IdentifiersUnique, NoHalfAccounts
<1> QED BY <1>5, <1>7, <1>8, <1>9 DEF Inv

-------------------------------------------------------------------------------
\* A request goes on, or ends, and no edit begins.
LEMMA RequestStep ==
  ASSUME Inv, NEW r \in Request, NEW q \in RequestState \cup {None}, Known(q),
         q \in EditState => Editing(r) /\ (raced \/ Spares(q)),
         req' = [req EXCEPT ![r] = q],
         UNCHANGED <<users, links, raced>>, logins' \in [Identity -> SUBSET User],
         \A i \in Identity : \A u \in logins'[i] : <<i, u>> \in links
  PROVE  Inv'
<1>1. /\ req'[r] = q
      /\ \A s \in Request : s # r => req'[s] = req[s]
  BY DEF Inv, TypeOK
<1>2. Existing' = Existing /\ Admins' = Admins
  BY DEF Existing, Admins
<1>3. TypeOK'
  BY DEF Inv, TypeOK, RequestState
<1>4. RequestsKnow'
  BY <1>1, <1>2 DEF Inv, RequestsKnow, Known
<1>5. LinksSound'
  BY <1>2 DEF Inv, LinksSound
<1>6. AdminSafe'
  <2>1. \A s \in Request : Editing(s)' => Editing(s)
    BY <1>1, Distinct DEF Editing, RequestState
  <2>2. \A s \in Request : raced \/ Spares(req[s])'
    BY <1>1, <1>2 DEF Inv, AdminSafe, Spares
  <2> QED BY <1>2, <2>1, <2>2 DEF Inv, AdminSafe
<1>7. IdentifiersUnique' /\ NoHalfAccounts'
  BY <1>2 DEF Inv, IdentifiersUnique, NoHalfAccounts
<1> QED BY <1>3, <1>4, <1>5, <1>6, <1>7 DEF Inv

LEMMA EndStep ==
  ASSUME Inv, NEW r \in Request, Done(r), UNCHANGED <<users, links, logins, raced>>
  PROVE  Inv'
BY RequestStep, Distinct DEF Done, Known, Inv, TypeOK, LinksSound

-------------------------------------------------------------------------------
\* Accounts and links are added.

\* A new link, to a user there is or will be, leaves one link per identity.
LEMMA NewLink ==
  ASSUME Inv, NEW i \in Identity, LinkFits(i), NEW u \in Existing', Existing \subseteq Existing',
         links' = links \cup {<<i, u>>}, logins' = [logins EXCEPT ![i] = @ \cup {u}]
  PROVE  LinksSound'
<1>1. \A l \in links : l[1] # i /\ l = <<l[1], l[2]>>
  BY DEF LinkFits, Inv, TypeOK
<1>2. \A l, k \in links' : l[1] = k[1] => l = k
  BY <1>1 DEF Inv, LinksSound
<1>3. \A l \in links' : l[2] \in Existing'
  BY DEF Inv, LinksSound
<1>4. \A j \in Identity : \A v \in logins'[j] : <<j, v>> \in links'
  BY DEF Inv, LinksSound, TypeOK
<1> QED BY <1>2, <1>3, <1>4 DEF LinksSound

\* A user is added whose address and name are free.
LEMMA NewUserStep ==
  ASSUME Inv, NEW r \in Request, Done(r), NEW u \in User \ Existing,
         NEW row \in UserRow, UserFits(row.email, row.name), row.role # Admin,
         users' = [users EXCEPT ![u] = row], raced' = raced,
         LinksSound', links' \subseteq Identity \X User, logins' \in [Identity -> SUBSET User],
         links \subseteq links', row.via = "oauth" => \E i \in Identity : <<i, u>> \in links'
  PROVE  Inv'
<1>1. /\ users'[u] = row
      /\ \A v \in User : v # u => users'[v] = users[v]
  BY DEF Inv, TypeOK
<1>2. Existing' = Existing \cup {u}
  BY <1>1, Distinct DEF Existing
<1>3. Admins' = Admins
  BY <1>1, <1>2 DEF Admins, Existing
<1>4. /\ req' \in [Request -> RequestState \cup {None}]
      /\ \A s \in Request : req'[s] \in {None, req[s]}
  BY DEF Done, Inv, TypeOK, RequestState
<1>5. TypeOK'
  BY <1>4 DEF Inv, TypeOK, RequestState
<1>6. RequestsKnow'
  BY <1>2, <1>4, Distinct DEF Inv, RequestsKnow, Known
<1>7. AdminSafe'
  <2>1. \A s \in Request : Editing(s)' => Editing(s)
    BY <1>4 DEF Editing
  <2>2. \A s \in Request : raced \/ Spares(req[s])'
    BY <1>3, <1>4, Distinct DEF Inv, AdminSafe, Spares
  <2> QED BY <1>3, <2>1, <2>2 DEF Inv, AdminSafe
<1>8. IdentifiersUnique'
  <2>1. \A v \in Existing : /\ users[v].email # row.email
                            /\ row.name = NoName \/ users[v].name # row.name
    BY DEF UserFits
  <2>2. \A v \in Existing : users'[v] = users[v] /\ v # u
    BY <1>1 DEF Existing
  <2> QED BY <1>1, <1>2, <2>1, <2>2 DEF Inv, IdentifiersUnique
<1>9. NoHalfAccounts'
  BY <1>1, <1>2, RowsTyped DEF Inv, NoHalfAccounts
<1> QED BY <1>5, <1>6, <1>7, <1>8, <1>9 DEF Inv

LEMMA NewRow ==
  ASSUME NEW e \in Email, NEW n \in Username \cup {NoName}, NEW via \in {"form", "oauth"}
  PROVE  LET row == Row(e, n, DefaultRole, via) IN
         /\ row \in UserRow /\ row.email = e /\ row.name = n
         /\ row.role # Admin /\ row.via = via
BY DEF Row, UserRow, DefaultRole, Role, Admin

LEMMA CheckRegistrationStep ==
  ASSUME Inv, NEW r \in Request, NEW e \in Email, NEW n \in Username \cup {NoName},
         CheckRegistration(r, e, n)
  PROVE  Inv'
<1> DEFINE q == [op |-> "register", email |-> e, name |-> n]
<1>1. q \in Registering
  BY DEF Registering
<1>2. req' = [req EXCEPT ![r] = q] /\ UNCHANGED <<users, links, logins, raced>>
  BY DEF CheckRegistration
<1> HIDE DEF q
<1> QED BY <1>1, <1>2, RequestStep, Distinct DEF RequestState, Known, Inv, TypeOK, LinksSound

LEMMA CreateUserStep ==
  ASSUME Inv, NEW r \in Request, CreateUser(r)
  PROVE  Inv'
<1> DEFINE q == req[r]
<1>1. /\ q \in Registering /\ Done(r) /\ UNCHANGED <<links, logins, raced>>
  BY RequestsTyped DEF CreateUser
<1>2. CASE users' = users
  BY <1>1, <1>2, EndStep
<1>3. CASE /\ UserFits(q.email, q.name)
           /\ \E u \in User \ Existing :
                 users' = [users EXCEPT ![u] = Row(q.email, q.name, DefaultRole, "form")]
  <2>1. PICK u \in User \ Existing :
           users' = [users EXCEPT ![u] = Row(q.email, q.name, DefaultRole, "form")]
    BY <1>3
  <2> DEFINE row == Row(q.email, q.name, DefaultRole, "form")
  <2>2. /\ row \in UserRow /\ row.email = q.email /\ row.name = q.name
        /\ row.role # Admin /\ row.via = "form"
    BY <1>1, NewRow DEF Registering
  <2>3. UserFits(row.email, row.name) /\ users' = [users EXCEPT ![u] = row]
    BY <1>3, <2>1, <2>2
  <2> HIDE DEF row, q
  <2>4. Existing \subseteq Existing'
    BY <2>2, <2>3, Distinct DEF Existing, Inv, TypeOK
  <2>5. LinksSound'
    BY <1>1, <2>4 DEF Inv, LinksSound
  <2> QED BY <1>1, <2>2, <2>3, <2>5, NewUserStep DEF Inv, TypeOK
<1> QED BY <1>2, <1>3 DEF CreateUser

LEMMA FindLinkStep ==
  ASSUME Inv, NEW r \in Request, NEW i \in Identity, NEW e \in Email \cup {NoName},
         FindLink(r, i, e)
  PROVE  Inv'
<1> DEFINE q == [op |-> "oauth", at |-> "unlinked", id |-> i, email |-> e]
<1>1. CASE /\ logins' = [logins EXCEPT ![i] = @ \cup {l[2] : l \in {k \in links : k[1] = i}}]
           /\ req' = req
  <2>1. \A l \in links : l = <<l[1], l[2]>> /\ l[2] \in User
    BY DEF Inv, TypeOK
  <2>2. logins' \in [Identity -> SUBSET User]
    BY <1>1, <2>1 DEF Inv, TypeOK
  <2>3. \A j \in Identity : \A u \in logins'[j] : <<j, u>> \in links
    <3> DEFINE linked == {l[2] : l \in {k \in links : k[1] = i}}
    <3>1. \A u \in linked : <<i, u>> \in links
      BY <2>1
    <3>2. \A j \in Identity : \A u \in logins[j] : <<j, u>> \in links
      BY DEF Inv, LinksSound
    <3>3. \A j \in Identity : logins'[j] = IF j = i THEN logins[j] \cup linked ELSE logins[j]
      BY <1>1 DEF Inv, TypeOK
    <3> HIDE DEF linked
    <3> QED BY <3>1, <3>2, <3>3
  <2>4. req' = [req EXCEPT ![r] = None] /\ req[r] = None
    BY <1>1 DEF FindLink, Inv, TypeOK
  <2> QED BY <2>2, <2>3, <2>4, RequestStep, Distinct DEF FindLink, Known
<1>2. CASE e # NoName /\ req' = [req EXCEPT ![r] = q] /\ logins' = logins
  <2>1. q \in Looking
    BY <1>2 DEF Looking
  <2> HIDE DEF q
  <2> QED BY <1>2, <2>1, RequestStep, Distinct
          DEF FindLink, RequestState, Known, Inv, TypeOK, LinksSound
<1> QED BY <1>1, <1>2 DEF FindLink

LEMMA FindUserStep ==
  ASSUME Inv, NEW r \in Request, FindUser(r)
  PROVE  Inv'
<1>1. req[r] \in Looking /\ UNCHANGED <<users, links, logins, raced>>
  BY RequestsTyped DEF FindUser
<1>2. CASE \E u \in ByEmail(req[r].email) :
              req' = [req EXCEPT ![r] = [op |-> "oauth", at |-> "link", id |-> req[r].id,
                                         user |-> u]]
  <2>1. PICK u \in ByEmail(req[r].email) :
           req' = [req EXCEPT ![r] = [op |-> "oauth", at |-> "link", id |-> req[r].id,
                                      user |-> u]]
    BY <1>2
  <2> DEFINE q == [op |-> "oauth", at |-> "link", id |-> req[r].id, user |-> u]
  <2>2. q \in Linking /\ q.user \in Existing
    BY <1>1 DEF Looking, Linking, ByEmail, Existing
  <2>3. req' = [req EXCEPT ![r] = q]
    BY <2>1
  <2> HIDE DEF q
  <2> QED BY <1>1, <2>2, <2>3, RequestStep, Distinct
          DEF RequestState, Known, Inv, TypeOK, LinksSound
<1>3. CASE req' = [req EXCEPT ![r].at = "create"]
  <2> DEFINE q == [req[r] EXCEPT !.at = "create"]
  <2>1. q \in Looking
    BY <1>1 DEF Looking
  <2>2. req' = [req EXCEPT ![r] = q]
    BY <1>3 DEF Inv, TypeOK
  <2> HIDE DEF q
  <2> QED BY <1>1, <2>1, <2>2, RequestStep, Distinct
          DEF RequestState, Known, Inv, TypeOK, LinksSound
<1>4. CASE Done(r)
  BY <1>1, <1>4, EndStep
<1> QED BY <1>2, <1>3, <1>4 DEF FindUser

LEMMA LinkExistingStep ==
  ASSUME Inv, NEW r \in Request, LinkExisting(r)
  PROVE  Inv'
<1> DEFINE q == req[r]
<1>1. q \in Linking /\ q.user \in Existing /\ Done(r) /\ UNCHANGED <<users, raced>>
  BY RequestsTyped DEF LinkExisting, Known
<1>2. CASE UNCHANGED <<links, logins>>
  BY <1>1, <1>2, EndStep
<1>3. CASE /\ LinkFits(q.id)
           /\ links' = links \cup {<<q.id, q.user>>}
           /\ logins' = [logins EXCEPT ![q.id] = @ \cup {q.user}]
  <2>1. q.id \in Identity /\ q.user \in User
    BY <1>1 DEF Linking
  <2>2. Existing' = Existing /\ Admins' = Admins
    BY <1>1 DEF Existing, Admins
  <2>3. LinksSound'
    BY <1>1, <1>3, <2>1, <2>2, NewLink
  <2>4. /\ req' \in [Request -> RequestState \cup {None}]
        /\ \A s \in Request : req'[s] \in {None, req[s]}
    BY <1>1 DEF Done, Inv, TypeOK, RequestState
  <2> HIDE DEF q
  <2>5. TypeOK'
    BY <1>1, <1>3, <2>1, <2>4 DEF Inv, TypeOK, RequestState
  <2>6. RequestsKnow'
    BY <2>2, <2>4, Distinct DEF Inv, RequestsKnow, Known
  <2>7. AdminSafe'
    <3>1. \A s \in Request : Editing(s)' => Editing(s)
      BY <2>4 DEF Editing
    <3>2. \A s \in Request : raced \/ Spares(req[s])'
      BY <2>2, <2>4, Distinct DEF Inv, AdminSafe, Spares
    <3> QED BY <1>1, <2>2, <3>1, <3>2 DEF Inv, AdminSafe
  <2>8. IdentifiersUnique' /\ NoHalfAccounts'
    BY <1>1, <1>3, <2>2 DEF Inv, IdentifiersUnique, NoHalfAccounts
  <2> QED BY <2>3, <2>5, <2>6, <2>7, <2>8 DEF Inv
<1> QED BY <1>2, <1>3 DEF LinkExisting

LEMMA CreateLinkedStep ==
  ASSUME Inv, NEW r \in Request, CreateLinked(r)
  PROVE  Inv'
<1> DEFINE q == req[r]
<1>1. q \in Looking /\ Done(r) /\ raced' = raced
  BY RequestsTyped DEF CreateLinked
<1>2. CASE UNCHANGED <<users, links, logins>>
  BY <1>1, <1>2, EndStep
<1>3. CASE /\ Creates(q)
           /\ \E u \in User \ Existing :
                /\ users' = [users EXCEPT ![u] = Row(q.email, NoName, DefaultRole, "oauth")]
                /\ links' = IF LinkFits(q.id) THEN links \cup {<<q.id, u>>} ELSE links
                /\ logins' = IF LinkFits(q.id)
                             THEN [logins EXCEPT ![q.id] = @ \cup {u}] ELSE logins
  <2>1. UserFits(q.email, NoName) /\ LinkFits(q.id)
    BY <1>3 DEF Creates
  <2>2. PICK u \in User \ Existing :
           /\ users' = [users EXCEPT ![u] = Row(q.email, NoName, DefaultRole, "oauth")]
           /\ links' = links \cup {<<q.id, u>>}
           /\ logins' = [logins EXCEPT ![q.id] = @ \cup {u}]
    BY <1>3, <2>1
  <2> DEFINE row == Row(q.email, NoName, DefaultRole, "oauth")
  <2>3. /\ row \in UserRow /\ row.email = q.email /\ row.name = NoName
        /\ row.role # Admin /\ row.via = "oauth"
    BY <1>1, NewRow DEF Looking
  <2>4. q.id \in Identity
    BY <1>1 DEF Looking
  <2>5. UserFits(row.email, row.name) /\ users' = [users EXCEPT ![u] = row]
    BY <2>1, <2>2, <2>3
  <2> HIDE DEF row, q
  <2>6. Existing \subseteq Existing' /\ u \in Existing'
    BY <2>3, <2>5, Distinct DEF Existing, Inv, TypeOK
  <2>7. LinksSound'
    BY <2>1, <2>2, <2>4, <2>6, NewLink
  <2>8. links' \subseteq Identity \X User /\ logins' \in [Identity -> SUBSET User]
    BY <2>2, <2>4 DEF Inv, TypeOK
  <2> QED BY <1>1, <2>2, <2>3, <2>4, <2>5, <2>7, <2>8, NewUserStep
<1> QED BY <1>2, <1>3 DEF CreateLinked

-------------------------------------------------------------------------------
\* Editing a user.

LEMMA StartEditStep ==
  ASSUME Inv, NEW r \in Request, NEW u \in User, NEW role \in Role, StartEdit(r, u, role)
  PROVE  Inv'
<1> DEFINE q == [op |-> "edit", at |-> "target", user |-> u, role |-> role]
<1>1. q \in EditState /\ q.user \in Existing /\ q.at = "target"
  BY DEF EditState, StartEdit, Existing
<1>2. req' = [req EXCEPT ![r] = q] /\ UNCHANGED <<users, links, logins>>
  BY DEF StartEdit
<1> HIDE DEF q
<1>3. /\ req'[r] = q
      /\ \A s \in Request : s # r => req'[s] = req[s]
  BY <1>2 DEF Inv, TypeOK
<1>4. Existing' = Existing /\ Admins' = Admins
  BY <1>2 DEF Existing, Admins
<1>5. raced' = (raced \/ \E s \in Request : Editing(s)) /\ raced' \in BOOLEAN
  BY DEF StartEdit
<1>6. TypeOK'
  <2>1. req' \in [Request -> RequestState \cup {None}]
    BY <1>1, <1>2 DEF Inv, TypeOK, RequestState
  <2> QED BY <1>2, <1>5, <2>1 DEF Inv, TypeOK, RequestState
<1>7. RequestsKnow'
  BY <1>1, <1>3, <1>4 DEF Inv, RequestsKnow, Known
<1>8. LinksSound'
  BY <1>2, <1>4 DEF Inv, LinksSound
<1>9. AdminSafe'
  <2>1. CASE raced'
    BY <2>1 DEF AdminSafe
  <2>2. CASE ~raced'
    <3>1. ~raced /\ \A s \in Request : ~Editing(s)
      BY <1>5, <2>2
    <3>2. \A s \in Request : Editing(s)' => s = r
      BY <1>3, <3>1 DEF Editing
    <3>3. \A s \in Request : Spares(req[s])'
      BY <1>1, <1>3, <1>4, <3>1 DEF Inv, AdminSafe, Spares
    <3> QED BY <1>4, <3>1, <3>2, <3>3 DEF Inv, AdminSafe
  <2> QED BY <2>1, <2>2
<1>10. IdentifiersUnique' /\ NoHalfAccounts'
  BY <1>2, <1>4 DEF Inv, IdentifiersUnique, NoHalfAccounts
<1> QED BY <1>6, <1>7, <1>8, <1>9, <1>10 DEF Inv

\* An edit goes on to its next step.
LEMMA EditGoesOn ==
  ASSUME Inv, NEW r \in Request, Editing(r), NEW at \in {"count", "write"},
         req' = [req EXCEPT ![r].at = at], UNCHANGED <<users, links, logins, raced>>,
         at = "write" => \/ raced \/ req[r].role = Admin
                         \/ \E u \in Admins : u # req[r].user
  PROVE  Inv'
<1> DEFINE q == [req[r] EXCEPT !.at = at]
<1>1. req[r] \in EditState /\ req[r].user \in Existing
  BY RequestsTyped DEF Editing, Known
<1>2. q \in EditState /\ q.at = at /\ q.user = req[r].user /\ q.role = req[r].role
  BY <1>1 DEF EditState
<1>3. req' = [req EXCEPT ![r] = q]
  BY DEF Inv, TypeOK
<1> HIDE DEF q
<1>4. raced \/ Spares(q)
  BY <1>2 DEF Spares
<1> QED BY <1>1, <1>2, <1>3, <1>4, RequestStep
        DEF RequestState, Known, Inv, TypeOK, LinksSound

LEMMA LoadTargetStep ==
  ASSUME Inv, NEW r \in Request, LoadTarget(r)
  PROVE  Inv'
<1>1. CASE req[r].role # Admin /\ req[r].user \in Admins
  BY <1>1, EditGoesOn DEF LoadTarget
<1>2. CASE ~(req[r].role # Admin /\ req[r].user \in Admins)
  <2>1. \/ raced \/ req[r].role = Admin
        \/ \E u \in Admins : u # req[r].user
    BY <1>2 DEF Inv, AdminSafe
  <2>2. req' = [req EXCEPT ![r].at = "write"]
    BY <1>2 DEF LoadTarget
  <2> QED BY <2>1, <2>2, EditGoesOn DEF LoadTarget
<1> QED BY <1>1, <1>2

\* Of more than one administrator, one is not the user in question.
LEMMA AnotherAdmin ==
  ASSUME EnoughAdmins, NEW v
  PROVE  \E u \in Admins : u # v
<1> SUFFICES ASSUME \A u \in Admins : u = v PROVE FALSE
  OBVIOUS
<1>1. Admins = {} \/ Admins = {v}
  OBVIOUS
<1>2. Cardinality({}) = 0 /\ Cardinality({v}) = 1
  BY FS_EmptySet, FS_Singleton
<1> QED BY <1>1, <1>2 DEF EnoughAdmins

LEMMA CountAdminsStep ==
  ASSUME Inv, NEW r \in Request, CountAdmins(r)
  PROVE  Inv'
<1>1. CASE EnoughAdmins
  BY <1>1, AnotherAdmin, EditGoesOn DEF CountAdmins
<1>2. CASE ~EnoughAdmins
  BY <1>2, EndStep DEF CountAdmins
<1> QED BY <1>1, <1>2

LEMMA UpdateAdminStep ==
  ASSUME Inv, NEW r \in Request, UpdateAdmin(r)
  PROVE  Inv'
<1> DEFINE u == req[r].user
           row == [users[u] EXCEPT !.role = req[r].role]
<1>1. req[r] \in EditState /\ u \in Existing /\ req[r].at = "write"
  BY RequestsTyped DEF UpdateAdmin, Editing, Known
<1>2. u \in User /\ users[u] \in UserRow
  BY <1>1, RowsTyped
<1>3. /\ row \in UserRow /\ row.role = req[r].role /\ row.email = users[u].email
      /\ row.name = users[u].name /\ row.via = users[u].via
  BY <1>1, <1>2 DEF UserRow, EditState
<1>4. users' = [users EXCEPT ![u] = row] /\ Done(r) /\ UNCHANGED <<links, logins, raced>>
  BY DEF UpdateAdmin, Inv, TypeOK
<1> HIDE DEF row
<1>5. /\ users'[u] = row
      /\ \A v \in User : v # u => users'[v] = users[v]
  BY <1>2, <1>4 DEF Inv, TypeOK
<1>6. Existing' = Existing
  BY <1>1, <1>2, <1>3, <1>5, Distinct DEF Existing
<1>7. /\ req'[r] = None
      /\ \A s \in Request : s # r => req'[s] = req[s]
      /\ req' \in [Request -> RequestState \cup {None}]
  BY <1>4 DEF Done, Inv, TypeOK, RequestState
<1>8. TypeOK'
  BY <1>3, <1>4, <1>7 DEF Inv, TypeOK, RequestState
<1>9. RequestsKnow'
  BY <1>6, <1>7, Distinct DEF Inv, RequestsKnow, Known
<1>10. LinksSound'
  BY <1>4, <1>6 DEF Inv, LinksSound
<1>11. AdminSafe'
  <2>1. CASE raced
    BY <1>4, <2>1 DEF AdminSafe
  <2>2. CASE ~raced
    <3>1. \A s \in Request : Editing(s) => s = r
      BY <2>2 DEF Inv, AdminSafe, UpdateAdmin
    <3>2. \A s \in Request : ~Editing(s)'
      BY <1>7, <3>1 DEF Editing
    <3>3. \A s \in Request : Spares(req[s])'
      BY <3>2, <1>7, Distinct DEF Editing, Spares
    <3>4. Admins' # {}
      <4>1. req[r].role = Admin \/ \E v \in Admins : v # u
        BY <1>1, <2>2 DEF Inv, AdminSafe, Spares
      <4>2. \A v \in Admins : v # u => v \in Admins'
        BY <1>5, <1>6 DEF Admins, Existing
      <4>3. req[r].role = Admin => u \in Admins'
        BY <1>1, <1>3, <1>5, <1>6 DEF Admins
      <4> QED BY <4>1, <4>2, <4>3
    <3> QED BY <3>2, <3>3, <3>4 DEF AdminSafe
  <2> QED BY <2>1, <2>2
<1>12. \A v \in Existing : /\ users'[v].email = users[v].email
                           /\ users'[v].name = users[v].name /\ users'[v].via = users[v].via
  BY <1>3, <1>5 DEF Existing
<1>13. IdentifiersUnique' /\ NoHalfAccounts'
  BY <1>4, <1>6, <1>12 DEF Inv, IdentifiersUnique, NoHalfAccounts
<1> QED BY <1>8, <1>9, <1>10, <1>11, <1>13 DEF Inv

LEMMA NextStep == Inv /\ [Next]_vars => Inv'
<1> SUFFICES ASSUME Inv, [Next]_vars PROVE Inv'
  OBVIOUS
<1>1. CASE UNCHANGED vars
  BY <1>1 DEF vars, Inv, TypeOK, RequestsKnow, Known, LinksSound, AdminSafe, Spares, Admins,
     Editing, Existing, IdentifiersUnique, NoHalfAccounts
<1>2. ASSUME NEW r \in Request, NEW u \in User, ChangeRole(r, u) \/ Rename(r, u)
      PROVE  Inv'
  <2>1. CASE ChangeRole(r, u)
    BY <2>1, StartEditStep DEF ChangeRole
  <2>2. CASE Rename(r, u)
    <3>1. users[u].role \in Role
      BY <2>2, RowsTyped DEF Rename, Existing, UserRow
    <3> QED BY <2>2, <3>1, StartEditStep DEF Rename
  <2> QED BY <1>2, <2>1, <2>2
<1>3. ASSUME NEW r \in Request, Abandon(r) PROVE Inv'
  BY <1>3, EndStep DEF Abandon
<1> QED BY <1>1, <1>2, <1>3, CheckRegistrationStep, CreateUserStep, FindLinkStep, FindUserStep,
           LinkExistingStep, CreateLinkedStep, LoadTargetStep, CountAdminsStep,
           UpdateAdminStep DEF Next

-------------------------------------------------------------------------------
\* The invariant holds of every reachable state.
THEOREM InvAlways == Spec => []Inv
BY InitInv, NextStep, PTL DEF Spec

\* The variables keep their types.
THEOREM TypeCorrect == Spec => []TypeOK
<1>1. Inv => TypeOK
  BY DEF Inv
<1> QED BY <1>1, InvAlways, PTL

\* Mail addresses and user names stay unique.
THEOREM IdentifiersStayUnique == Spec => []IdentifiersUnique
<1>1. Inv => IdentifiersUnique
  BY DEF Inv
<1> QED BY <1>1, InvAlways, PTL

\* Nobody is created through a provider without a link.
THEOREM AccountsAreWhole == Spec => []NoHalfAccounts
<1>1. Inv => NoHalfAccounts
  BY DEF Inv
<1> QED BY <1>1, InvAlways, PTL

\* An identity leads to one user.
THEOREM IdentitiesLeadToOneUser == Spec => []OneUserPerIdentity
<1>1. Inv => OneUserPerIdentity
  <2> SUFFICES ASSUME Inv, NEW i \in Identity
               PROVE  /\ Cardinality(logins[i]) <= 1
                      /\ \A u \in logins[i] : u \in Existing /\ <<i, u>> \in links
    BY DEF OneUserPerIdentity
  <2>1. \A u \in logins[i] : <<i, u>> \in links
    BY DEF Inv, LinksSound
  <2>2. \A u \in logins[i] : u \in Existing
    BY <2>1 DEF Inv, LinksSound
  <2>3. \A u, v \in logins[i] : u = v
    <3> SUFFICES ASSUME NEW u \in logins[i], NEW v \in logins[i] PROVE u = v
      OBVIOUS
    <3>1. <<i, u>> = <<i, v>>
      BY <2>1 DEF Inv, LinksSound
    <3> QED BY <3>1
  <2>4. logins[i] = {} \/ \E u : logins[i] = {u}
    BY <2>3
  <2>5. Cardinality(logins[i]) \in {0, 1}
    BY <2>4, FS_EmptySet, FS_Singleton
  <2> QED BY <2>1, <2>2, <2>5
<1> QED BY <1>1, InvAlways, PTL

\* Somebody remains an administrator as long as edits of users come one at a time.
THEOREM AnAdministratorRemains == Spec => []AdminRemainsUnlessRaced
<1>1. Inv => AdminRemainsUnlessRaced
  BY DEF Inv, AdminSafe, AdminRemainsUnlessRaced
<1> QED BY <1>1, InvAlways, PTL
===============================================================================
