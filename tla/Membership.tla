------------------------------- MODULE Membership -------------------------------
(***************************************************************************)
(* Who has an account and in which role (internal/accounts/service.go:     *)
(* Register and LoginWithOAuth; useradmin.go; the users screens of the     *)
(* admin area and of the REST API).                                        *)
(*                                                                         *)
(* Each operation looks things up in statements of their own and then      *)
(* writes; what keeps the lookups honest when requests interleave are the  *)
(* unique constraints on users and oauth_accounts.  For roles there is none*)
(***************************************************************************)
EXTENDS Naturals, FiniteSets

CONSTANTS User,           \* ids users may get
          Founder,        \* the administrator the seed creates
          Email, Username,
          Identity,       \* accounts at the OAuth providers
          Request,        \* goroutines serving a request
          NoName,         \* no user name, no mail address given
          SignupEnabled   \* setting SIGNUP_ENABLED

ASSUME MembershipAssumption ==
    /\ Founder \in User /\ Email # {}
    /\ NoName \notin Email \cup Username
    /\ SignupEnabled \in BOOLEAN

Admin == "administrator"
Role == {Admin, "member"}      \* the other roles are like member to this code
None == [none |-> TRUE]
FounderEmail == CHOOSE e \in Email : TRUE

VARIABLES
    users,   \* users[u]: row of u, or None
    links,   \* rows of oauth_accounts: pairs of an identity and a user
    req,     \* req[r]: what the request has found out so far
    logins,  \* logins[i]: users that logging in as i led to (history)
    raced    \* two edits of users were under way at once (history)

vars == <<users, links, req, logins, raced>>

Row(email, name, role, via) == [email |-> email, name |-> name, role |-> role, via |-> via]
Existing == {u \in User : users[u] # None}
ByEmail(e) == {u \in Existing : users[u].email = e}
Admins == {u \in Existing : users[u].role = Admin}

Init == /\ users = [u \in User |-> IF u = Founder
                                   THEN Row(FounderEmail, NoName, Admin, "seed") ELSE None]
        /\ links = {}
        /\ req = [r \in Request |-> None]
        /\ logins = [i \in Identity |-> {}]
        /\ raced = FALSE

Done(r) == req' = [req EXCEPT ![r] = None]

\* Mutant: users without unique indexes.
AnyUserFits(email, name) == TRUE

\* The unique indexes on email and username let the row in.
UserFits(email, name) ==
    \A u \in Existing : /\ users[u].email # email
                        /\ name = NoName \/ users[u].name # name

\* Mutant: oauth_accounts without its unique constraint.
AnyLinkFits(i) == TRUE

\* UNIQUE (provider, provider_user_id)
LinkFits(i) == \A l \in links : l[1] # i

\* Mutant: the insert leaves the role out.
NoRole == NoName

\* The role of whoever signs up.
DefaultRole == "member"

-------------------------------------------------------------------------------
(* Registration.                                                            *)

\* Register, up to the transaction.
CheckRegistration(r, e, n) ==
    /\ req[r] = None
    /\ SignupEnabled
    /\ UserFits(e, n)
    /\ req' = [req EXCEPT ![r] = [op |-> "register", email |-> e, name |-> n]]
    /\ UNCHANGED <<users, links, logins, raced>>

\* Its transaction: the insert of the user is accepted, or everything is undone.
CreateUser(r) ==
    /\ req[r] # None /\ req[r].op = "register"
    /\ \/ /\ UserFits(req[r].email, req[r].name)
          /\ \E u \in User \ Existing :
                users' = [users EXCEPT ![u] = Row(req[r].email, req[r].name, DefaultRole, "form")]
       \/ /\ ~UserFits(req[r].email, req[r].name)
          /\ users' = users
    /\ Done(r)
    /\ UNCHANGED <<links, logins, raced>>

-------------------------------------------------------------------------------
(* LoginWithOAuth.                                                          *)

\* Branch 1: an identity that is linked logs its user in; one that is not needs
\* an address.
FindLink(r, i, e) ==
    /\ req[r] = None
    /\ \/ /\ ~LinkFits(i)
          /\ logins' = [logins EXCEPT ![i] = @ \cup {l[2] : l \in {k \in links : k[1] = i}}]
          /\ req' = req
       \/ /\ LinkFits(i) /\ e # NoName
          /\ req' = [req EXCEPT ![r] = [op |-> "oauth", at |-> "unlinked", id |-> i,
                                        email |-> e]]
          /\ logins' = logins
    /\ UNCHANGED <<users, links, raced>>

\* Branch 2 or 3: there is a user with this address, or there will be one.
FindUser(r) ==
    LET q == req[r] IN
    /\ q # None /\ q.op = "oauth" /\ q.at = "unlinked"
    /\ IF ByEmail(q.email) # {}
       THEN \E u \in ByEmail(q.email) :
               req' = [req EXCEPT ![r] = [op |-> "oauth", at |-> "link", id |-> q.id,
                                          user |-> u]]
       ELSE IF SignupEnabled THEN req' = [req EXCEPT ![r].at = "create"]
       ELSE Done(r)
    /\ UNCHANGED <<users, links, logins, raced>>

\* LinkTx for the user that was found.
LinkExisting(r) ==
    LET q == req[r] IN
    /\ q # None /\ q.op = "oauth" /\ q.at = "link"
    /\ \/ /\ LinkFits(q.id)
          /\ links' = links \cup {<<q.id, q.user>>}
          /\ logins' = [logins EXCEPT ![q.id] = @ \cup {q.user}]
       \/ /\ ~LinkFits(q.id)
          /\ UNCHANGED <<links, logins>>
    /\ Done(r)
    /\ UNCHANGED <<users, raced>>

\* Mutant: user and link are two transactions.
CreatedAnyway(q) == UserFits(q.email, NoName)

\* Both inserts are accepted, or both are undone.
Creates(q) == UserFits(q.email, NoName) /\ LinkFits(q.id)

CreateLinked(r) ==
    LET q == req[r] IN
    /\ q # None /\ q.op = "oauth" /\ q.at = "create"
    /\ \/ /\ Creates(q)
          /\ \E u \in User \ Existing :
                /\ users' = [users EXCEPT ![u] = Row(q.email, NoName, DefaultRole, "oauth")]
                /\ links' = IF LinkFits(q.id) THEN links \cup {<<q.id, u>>} ELSE links
                /\ logins' = IF LinkFits(q.id)
                             THEN [logins EXCEPT ![q.id] = @ \cup {u}] ELSE logins
       \/ /\ ~Creates(q)
          /\ UNCHANGED <<users, links, logins>>
    /\ Done(r)
    /\ UNCHANGED raced

-------------------------------------------------------------------------------
(* Editing a user.                                                          *)

Editing(r) == req[r] # None /\ req[r].op = "edit"

StartEdit(r, u, role) ==
    /\ req[r] = None
    /\ users[u] # None
    /\ req' = [req EXCEPT ![r] = [op |-> "edit", at |-> "target", user |-> u, role |-> role]]
    /\ raced' = (raced \/ \E q \in Request : Editing(q))
    /\ UNCHANGED <<users, links, logins>>

\* The users screen, and PATCH with a role.
ChangeRole(r, u) == \E role \in Role : StartEdit(r, u, role)

\* PATCH with a name alone: the role is the one read here.
Rename(r, u) == users[u] # None /\ StartEdit(r, u, users[u].role)

\* UpdateUser: only one who would cease to be an administrator is looked at.
LoadTarget(r) ==
    /\ Editing(r) /\ req[r].at = "target"
    /\ req' = [req EXCEPT ![r].at =
                 IF req[r].role # Admin /\ req[r].user \in Admins THEN "count" ELSE "write"]
    /\ UNCHANGED <<users, links, logins, raced>>

\* Mutant: the last administrator passes.
EnoughAdminsOffByOne == Cardinality(Admins) >= 1

EnoughAdmins == Cardinality(Admins) > 1

\* CountByRole; ErrLastAdmin otherwise.
CountAdmins(r) ==
    /\ Editing(r) /\ req[r].at = "count"
    /\ IF EnoughAdmins THEN req' = [req EXCEPT ![r].at = "write"] ELSE Done(r)
    /\ UNCHANGED <<users, links, logins, raced>>

UpdateAdmin(r) ==
    /\ Editing(r) /\ req[r].at = "write"
    /\ users' = [users EXCEPT ![req[r].user].role = req[r].role]
    /\ Done(r)
    /\ UNCHANGED <<links, logins, raced>>

\* The request ends before its write: an error, or the process dies.
Abandon(r) == /\ req[r] # None
              /\ Done(r)
              /\ UNCHANGED <<users, links, logins, raced>>

-------------------------------------------------------------------------------
Next == \E r \in Request :
           \/ \E e \in Email, n \in Username \cup {NoName} : CheckRegistration(r, e, n)
           \/ CreateUser(r)
           \/ \E i \in Identity, e \in Email \cup {NoName} : FindLink(r, i, e)
           \/ FindUser(r) \/ LinkExisting(r) \/ CreateLinked(r)
           \/ \E u \in User : ChangeRole(r, u) \/ Rename(r, u)
           \/ LoadTarget(r) \/ CountAdmins(r) \/ UpdateAdmin(r)
           \/ Abandon(r)

Spec == Init /\ [][Next]_vars
-------------------------------------------------------------------------------
(* Properties.                                                              *)

UserRow == [email : Email, name : Username \cup {NoName}, role : Role,
            via : {"seed", "form", "oauth"}]
Registering == [op : {"register"}, email : Email, name : Username \cup {NoName}]
Looking == [op : {"oauth"}, at : {"unlinked", "create"}, id : Identity, email : Email]
Linking == [op : {"oauth"}, at : {"link"}, id : Identity, user : User]
EditState == [op : {"edit"}, at : {"target", "count", "write"}, user : User, role : Role]

\* The type of every variable.
TypeOK ==
    /\ users \in [User -> UserRow \cup {None}]
    /\ links \subseteq Identity \X User
    /\ req \in [Request -> Registering \cup Looking \cup Linking \cup EditState \cup {None}]
    /\ logins \in [Identity -> SUBSET User]
    /\ raced \in BOOLEAN

\* No two accounts share a mail address or a user name, although Register looks
\* them up before its transaction.
IdentifiersUnique ==
    \A u, v \in Existing : u # v =>
        /\ users[u].email # users[v].email
        /\ users[u].name # NoName => users[u].name # users[v].name

\* However first logins and registrations race, an identity always leads to one
\* and the same existing user, the one it is linked to.
OneUserPerIdentity ==
    \A i \in Identity :
        /\ Cardinality(logins[i]) <= 1
        /\ \A u \in logins[i] : u \in Existing /\ <<i, u>> \in links

\* LoginWithOAuth creates no user without its link, whom nobody could ever log in
\* as.
NoHalfAccounts ==
    \A u \in Existing : users[u].via = "oauth" => \E i \in Identity : <<i, u>> \in links

\* Somebody remains an administrator as long as edits of users come one at a time.
AdminRemainsUnlessRaced == raced \/ Admins # {}

\* What the comment on UpdateUser says of every interleaving.
AdminRemains == Admins # {}
===============================================================================
