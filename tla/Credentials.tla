------------------------------ MODULE Credentials ------------------------------
(***************************************************************************)
(* Passwords, single-use tokens and sessions (internal/accounts/service.go,*)
(* db/queries/tokens.sql, db/queries/users.sql, internal/web/              *)
(* auth_middleware.go).                                                    *)
(*                                                                         *)
(* A request reads the token or the user outside any transaction; then one *)
(* transaction consumes the token, by an UPDATE that matches it only while *)
(* it is unconsumed, and writes the user.  An UPDATE waits for the open    *)
(* transactions that wrote the same row and sees what they left.  The      *)
(* column password_changed_at, the epoch, is now(), the time at which the  *)
(* transaction BEGAN.  A session carries the epoch of the row its login    *)
(* read, and is dropped at the first visit after the epoch has passed it.  *)
(***************************************************************************)
EXTENDS Naturals

CONSTANTS User, Token,
          Request,               \* goroutines serving a request
          Session,               \* browsers' sessions, in the server's memory
          VerificationRequired,  \* setting EmailVerificationRequired
          TTL,                   \* life time of a token, in ticks of the clock
          MaxTime,               \* bound: the clock
          MaxPasswords           \* bound: passwords ever chosen

ASSUME CredentialsAssumption ==
    /\ VerificationRequired \in BOOLEAN
    /\ TTL \in Nat \ {0} /\ MaxTime \in Nat \ {0} /\ MaxPasswords \in Nat \ {0}

Time == 1..MaxTime
Password == 1..MaxPasswords    \* passwords in the order in which they are chosen
None == [none |-> TRUE]        \* no such user, token or session; no request

VARIABLES
    now,         \* the clock; it ticks at the latest when a transaction begins
    passwords,   \* passwords chosen so far
    users,       \* users[u]: password, epoch (password_changed_at), verified
    tokens,      \* tokens[t]: rows of both token tables
    sessions,    \* sessions[s]: user and epoch, and the password the login was by
    req,         \* req[r]: what the request has read and how far it is
    applied,     \* applied[t]: committed uses of the token (history)
    overlapped   \* users two of whose password changes were open at once (history)

vars == <<now, passwords, users, tokens, sessions, req, applied, overlapped>>

Init == /\ now = 1
        /\ passwords = 0
        /\ users = [u \in User |-> None]
        /\ tokens = [t \in Token |-> None]
        /\ sessions = [s \in Session |-> None]
        /\ req = [r \in Request |-> None]
        /\ applied = [t \in Token |-> 0]
        /\ overlapped = {}

Tick == /\ now < MaxTime
        /\ now' = now + 1
        /\ UNCHANGED <<passwords, users, tokens, sessions, req, applied, overlapped>>

-------------------------------------------------------------------------------
(* Tokens are issued.                                                       *)

IssuedToken(u, kind) == [kind |-> kind, user |-> u, exp |-> now + TTL, consumed |-> FALSE]

\* Mutant: password_changed_at has no default.
UserWithoutEpoch(pass) == [pass |-> pass, epoch |-> 0, verified |-> FALSE]

\* The row of a new user; password_changed_at defaults to now().
NewUser(pass) == [pass |-> pass, epoch |-> now, verified |-> FALSE]

\* Register: user, verification token and the event that mails it, in one
\* transaction.
Register(u, t) ==
    /\ users[u] = None /\ tokens[t] = None /\ passwords < MaxPasswords
    /\ passwords' = passwords + 1
    /\ users' = [users EXCEPT ![u] = NewUser(passwords + 1)]
    /\ tokens' = [tokens EXCEPT ![t] = IssuedToken(u, "verify")]
    /\ UNCHANGED <<now, sessions, req, applied, overlapped>>

\* RequestPasswordReset: any number of tokens may be outstanding.
RequestPasswordReset(u, t) ==
    /\ users[u] # None /\ tokens[t] = None
    /\ tokens' = [tokens EXCEPT ![t] = IssuedToken(u, "reset")]
    /\ UNCHANGED <<now, passwords, users, sessions, req, applied, overlapped>>

-------------------------------------------------------------------------------
(* Requests that change a user.                                             *)

\* Token.Usable
Usable(t) == tokens[t] # None /\ ~tokens[t].consumed /\ now < tokens[t].exp

\* ResetPassword and VerifyEmail, up to the transaction.
ReadToken(r, t) ==
    /\ req[r] = None
    /\ Usable(t)
    /\ tokens[t].kind = "reset" => passwords < MaxPasswords
    /\ passwords' = IF tokens[t].kind = "reset" THEN passwords + 1 ELSE passwords
    /\ req' = [req EXCEPT ![r] = [op |-> tokens[t].kind, user |-> tokens[t].user,
                                  token |-> t, pass |-> passwords', at |-> "read",
                                  began |-> now]]
    /\ UNCHANGED <<now, users, tokens, sessions, applied, overlapped>>

\* ChangePassword, up to the transaction: the current password was right.
ReadForChange(r, u) ==
    /\ req[r] = None
    /\ users[u] # None
    /\ passwords < MaxPasswords
    /\ passwords' = passwords + 1
    /\ req' = [req EXCEPT ![r] = [op |-> "change", user |-> u, token |-> None,
                                  pass |-> passwords', at |-> "read", began |-> now]]
    /\ UNCHANGED <<now, users, tokens, sessions, applied, overlapped>>

InTx(r) == req[r] # None /\ req[r].op # "login" /\ req[r].at # "read"
ChangesPassword(r) == req[r].op \in {"reset", "change"}

BeginTx(r) ==
    /\ req[r] # None /\ req[r].op # "login" /\ req[r].at = "read"
    /\ now < MaxTime
    /\ now' = now + 1
    /\ req' = [req EXCEPT ![r].at = "begun", ![r].began = now + 1]
    /\ overlapped' = IF \E q \in Request \ {r} : InTx(q) /\ ChangesPassword(q)
                           /\ ChangesPassword(r) /\ req[q].user = req[r].user
                     THEN overlapped \cup {req[r].user} ELSE overlapped
    /\ UNCHANGED <<passwords, users, tokens, sessions, applied>>

\* Row locks of the open transactions.
TokenLocked(t) == \E q \in Request : InTx(q) /\ req[q].token = t
                                     /\ req[q].at \in {"consumed", "written"}
UserLocked(u) == \E q \in Request : InTx(q) /\ req[q].user = u /\ req[q].at = "written"

\* Mutant: the UPDATE lost its consumed_at IS NULL.
ConsumesAnyway(t) == TRUE

\* ConsumePasswordResetToken and ConsumeEmailVerificationToken match the row ...
Consumes(t) == ~tokens[t].consumed

\* ... and when they do not, the request ends with ErrInvalidToken.
ConsumeToken(r) ==
    /\ InTx(r) /\ req[r].at = "begun" /\ req[r].op # "change"
    /\ ~TokenLocked(req[r].token)
    /\ req' = IF Consumes(req[r].token) THEN [req EXCEPT ![r].at = "consumed"]
              ELSE [req EXCEPT ![r] = None]
    /\ UNCHANGED <<now, passwords, users, tokens, sessions, applied, overlapped>>

\* SetUserPassword, MarkEmailVerified.
WriteUser(r) ==
    /\ InTx(r)
    /\ req[r].at = IF req[r].op = "change" THEN "begun" ELSE "consumed"
    /\ ~UserLocked(req[r].user)
    /\ req' = [req EXCEPT ![r].at = "written"]
    /\ UNCHANGED <<now, passwords, users, tokens, sessions, applied, overlapped>>

\* The user row as the transaction of request state q leaves it.
Written(row, q) == IF q.op = "verify" THEN [row EXCEPT !.verified = TRUE]
                   ELSE [row EXCEPT !.pass = q.pass, !.epoch = q.began]

CommitTx(r) ==
    LET q == req[r] IN
    /\ InTx(r) /\ q.at = "written"
    /\ users' = [users EXCEPT ![q.user] = Written(@, q)]
    /\ tokens' = IF q.op = "change" THEN tokens
                 ELSE [tokens EXCEPT ![q.token].consumed = TRUE]
    /\ applied' = IF q.op = "change" THEN applied
                  ELSE [applied EXCEPT ![q.token] = @ + 1]
    /\ req' = [req EXCEPT ![r] = None]
    /\ UNCHANGED <<now, passwords, sessions, overlapped>>

\* A statement or the commit fails, or the client is gone: rolled back.
FailRequest(r) ==
    /\ req[r] # None
    /\ req' = [req EXCEPT ![r] = None]
    /\ UNCHANGED <<now, passwords, users, tokens, sessions, applied, overlapped>>

-------------------------------------------------------------------------------
(* Sessions.                                                                *)

\* AuthService.Login: the password is right for the row that was read.
Login(r, u) ==
    /\ req[r] = None
    /\ users[u] # None
    /\ VerificationRequired => users[u].verified
    /\ req' = [req EXCEPT ![r] = [op |-> "login", user |-> u, pass |-> users[u].pass,
                                  epoch |-> users[u].epoch]]
    /\ UNCHANGED <<now, passwords, users, tokens, sessions, applied, overlapped>>

\* Mutant: the epoch is read again when the session is made.
EpochAtMint(q) == users[q.user].epoch

\* SubmitLogin passes on the PasswordChangedAt that Login returned.
MintedEpoch(q) == q.epoch

\* AuthMiddleware.Login
MintSession(r, s) ==
    /\ req[r] # None /\ req[r].op = "login"
    /\ sessions' = [sessions EXCEPT ![s] = [user |-> req[r].user, pass |-> req[r].pass,
                                            epoch |-> MintedEpoch(req[r])]]
    /\ req' = [req EXCEPT ![r] = None]
    /\ UNCHANGED <<now, passwords, users, tokens, applied, overlapped>>

\* CurrentUser takes the session for its user's.
Accepted(s) == /\ sessions[s] # None
               /\ sessions[s].epoch >= users[sessions[s].user].epoch

\* CurrentUser drops a stale session; Logout drops any.
DropStale(s) == /\ sessions[s] # None /\ ~Accepted(s)
                /\ sessions' = [sessions EXCEPT ![s] = None]
                /\ UNCHANGED <<now, passwords, users, tokens, req, applied, overlapped>>
Logout(s) == /\ Accepted(s)
             /\ sessions' = [sessions EXCEPT ![s] = None]
             /\ UNCHANGED <<now, passwords, users, tokens, req, applied, overlapped>>

\* The server dies: sessions are in its memory, transactions roll back.
Restart == /\ sessions' = [s \in Session |-> None]
           /\ req' = [r \in Request |-> None]
           /\ UNCHANGED <<now, passwords, users, tokens, applied, overlapped>>

-------------------------------------------------------------------------------
\* What a request does once it has begun.
Proceed(r) == BeginTx(r) \/ ConsumeToken(r) \/ WriteUser(r) \/ CommitTx(r)
              \/ \E s \in Session : MintSession(r, s)

Next == \/ Tick \/ Restart
        \/ \E u \in User, t \in Token : Register(u, t) \/ RequestPasswordReset(u, t)
        \/ \E r \in Request, t \in Token : ReadToken(r, t)
        \/ \E r \in Request, u \in User : ReadForChange(r, u) \/ Login(r, u)
        \/ \E r \in Request : Proceed(r) \/ FailRequest(r)
        \/ \E s \in Session : DropStale(s) \/ Logout(s)

Spec == Init /\ [][Next]_vars
-------------------------------------------------------------------------------
(* Properties.                                                              *)

UserRow == [pass : Password, epoch : Time, verified : BOOLEAN]
TokenRow == [kind : {"verify", "reset"}, user : User, exp : Nat, consumed : BOOLEAN]
Changing == [op : {"verify", "reset", "change"}, user : User, token : Token \cup {None},
             pass : Password, at : {"read", "begun", "consumed", "written"}, began : Time]
LoggingIn == [op : {"login"}, user : User, pass : Password, epoch : Time]

\* The type of every variable.
TypeOK ==
    /\ now \in Time /\ passwords \in 0..MaxPasswords
    /\ users \in [User -> UserRow \cup {None}]
    /\ tokens \in [Token -> TokenRow \cup {None}]
    /\ sessions \in [Session -> [user : User, pass : Password, epoch : Time] \cup {None}]
    /\ req \in [Request -> Changing \cup LoggingIn \cup {None}]
    /\ applied \in [Token -> Nat]
    /\ overlapped \subseteq User

\* A token works exactly once, however many requests found it usable at the same
\* time (the single-use gate of ResetPassword and VerifyEmail): the effect is
\* committed together with the consumption, and a loser has no effect.
TokensWorkOnce ==
    \A t \in Token :
        applied[t] = IF tokens[t] # None /\ tokens[t].consumed THEN 1 ELSE 0

\* As long as no two changes of a user's password were open at once, a session
\* that is accepted was made with the password that is in force, also when the
\* change came between the login's read and the making of the session.
SessionsFollowPassword ==
    \A s \in Session : Accepted(s) /\ sessions[s].user \notin overlapped =>
        sessions[s].pass = users[sessions[s].user].pass

===============================================================================
