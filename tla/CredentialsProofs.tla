--------------------------- MODULE CredentialsProofs ---------------------------
(***************************************************************************)
(* For any numbers of users, tokens, requests and sessions: a token works  *)
(* exactly once, and no session outlives its password.  The first invariant*)
(* says what row locks keep true while transactions are open: a token that *)
(* one has consumed but not committed is consumed by no other.  The second *)
(* one, which needs the first, relates the times of sessions, rows and     *)
(* open changes.                                                           *)
(***************************************************************************)
EXTENDS Credentials, TLAPS

\* What a request has found out stays true: users and tokens are never deleted.
RequestsAreTruthful ==
    \A r \in Request : req[r] # None =>
        /\ users[req[r].user] # None
        /\ req[r].op \in {"reset", "verify"} => req[r].token \in Token /\ tokens[req[r].token] # None

Consuming(r) == /\ req[r] # None /\ req[r].op \in {"reset", "verify"}
                /\ req[r].at \in {"consumed", "written"}

\* A token consumed by an open transaction was not consumed before, and no other
\* open transaction has consumed it.
ConsumptionExclusive ==
    \A r \in Request : Consuming(r) =>
        /\ ~tokens[req[r].token].consumed
        /\ \A q \in Request : Consuming(q) /\ req[q].token = req[r].token => q = r

\* Tokens and sessions belong to users there are, who have chosen a password.
OwnersExist ==
    /\ \A u \in User : users[u] # None => passwords # 0
    /\ \A t \in Token : tokens[t] # None => users[tokens[t].user] # None
    /\ \A s \in Session : sessions[s] # None => users[sessions[s].user] # None

Inv == TypeOK /\ RequestsAreTruthful /\ OwnersExist /\ ConsumptionExclusive /\ TokensWorkOnce

\* The record for nothing is no row and no request.
LEMMA NoneIsNothing ==
    /\ None \notin UserRow /\ None \notin TokenRow
    /\ None \notin Changing /\ None \notin LoggingIn
    /\ None \notin [user : User, pass : Password, epoch : Time]
  <1>1. None \notin UserRow
    BY DEF None, UserRow
  <1>2. None \notin TokenRow
    BY DEF None, TokenRow
  <1>3. None \notin Changing
    BY DEF None, Changing
  <1>4. None \notin LoggingIn
    BY DEF None, LoggingIn
  <1>5. None \notin [user : User, pass : Password, epoch : Time]
    BY DEF None
  <1> QED BY <1>1, <1>2, <1>3, <1>4, <1>5

LEMMA InitInv == Init => Inv
BY CredentialsAssumption DEF Init, Inv, TypeOK, RequestsAreTruthful, OwnersExist, Consuming,
   ConsumptionExclusive, TokensWorkOnce, Time

LEMMA TickStep == Inv /\ Tick => Inv'
BY CredentialsAssumption DEF Tick, Inv, TypeOK, RequestsAreTruthful, OwnersExist, Consuming,
   ConsumptionExclusive, TokensWorkOnce, Time

LEMMA RestartStep == Inv /\ Restart => Inv'
BY DEF Restart, Inv, TypeOK, RequestsAreTruthful, OwnersExist, Consuming,
   ConsumptionExclusive, TokensWorkOnce

LEMMA RegisterStep ==
  ASSUME Inv, NEW u \in User, NEW t \in Token, Register(u, t)
  PROVE  Inv'
<1> USE CredentialsAssumption, NoneIsNothing DEF Register, NewUser, IssuedToken
<1>1. passwords + 1 \in Password /\ now \in Time /\ now + TTL \in Nat
  BY DEF Inv, TypeOK, Password, Time
<1>2. NewUser(passwords + 1) \in UserRow /\ IssuedToken(u, "verify") \in TokenRow
  BY <1>1 DEF UserRow, TokenRow
<1>3. NewUser(passwords + 1) # None /\ IssuedToken(u, "verify") # None
  BY <1>2
<1>4. TypeOK'
  BY <1>1, <1>2 DEF Inv, TypeOK, Password
<1>5. /\ users' = [users EXCEPT ![u] = NewUser(passwords + 1)]
      /\ tokens' = [tokens EXCEPT ![t] = IssuedToken(u, "verify")]
      /\ users[u] = None /\ tokens[t] = None /\ ~tokens'[t].consumed
      /\ UNCHANGED <<sessions, req, applied>>
  BY DEF Inv, TypeOK
<1>6. /\ \A v \in User : users[v] # None => users'[v] # None
      /\ \A k \in Token : tokens[k] # None => tokens'[k] = tokens[k]
  BY <1>3, <1>5 DEF Inv, TypeOK
<1>7. RequestsAreTruthful'
  BY <1>5, <1>6 DEF Inv, TypeOK, RequestsAreTruthful, Changing, LoggingIn
<1>8. OwnersExist'
  BY <1>3, <1>5, <1>6 DEF Inv, TypeOK, OwnersExist, TokenRow
<1>9. ConsumptionExclusive'
  BY <1>5, <1>6 DEF Inv, RequestsAreTruthful, ConsumptionExclusive, Consuming
<1>10. TokensWorkOnce'
  BY <1>3, <1>5 DEF Inv, TypeOK, TokensWorkOnce
<1> QED BY <1>4, <1>7, <1>8, <1>9, <1>10 DEF Inv

LEMMA ResetRequestStep ==
  ASSUME Inv, NEW u \in User, NEW t \in Token, RequestPasswordReset(u, t)
  PROVE  Inv'
<1> USE CredentialsAssumption, NoneIsNothing DEF RequestPasswordReset, IssuedToken
<1>1. IssuedToken(u, "reset") \in TokenRow
  BY DEF Inv, TypeOK, Time, TokenRow
<1>2. IssuedToken(u, "reset") # None
  BY <1>1
<1>3. TypeOK'
  BY <1>1 DEF Inv, TypeOK
<1>4. /\ tokens' = [tokens EXCEPT ![t] = IssuedToken(u, "reset")]
      /\ users[u] # None /\ tokens[t] = None /\ ~tokens'[t].consumed
      /\ UNCHANGED <<users, sessions, req, applied>>
      /\ \A k \in Token : tokens[k] # None => tokens'[k] = tokens[k]
  BY DEF Inv, TypeOK
<1>5. RequestsAreTruthful'
  BY <1>4 DEF Inv, RequestsAreTruthful
<1>6. OwnersExist'
  BY <1>2, <1>4 DEF Inv, TypeOK, OwnersExist, TokenRow
<1>7. ConsumptionExclusive'
  BY <1>4 DEF Inv, RequestsAreTruthful, ConsumptionExclusive, Consuming
<1>8. TokensWorkOnce'
  BY <1>2, <1>4 DEF Inv, TypeOK, TokensWorkOnce
<1> QED BY <1>3, <1>5, <1>6, <1>7, <1>8 DEF Inv

\* A step that only gives one request a state of its own, not consuming, keeps the
\* invariant if what the new state says is true.
LEMMA RequestStep ==
  ASSUME Inv, NEW r \in Request, NEW q \in Changing \cup LoggingIn \cup {None},
         req' = [req EXCEPT ![r] = q],
         q # None => /\ users[q.user] # None
                     /\ q.op \in {"reset", "verify"} => q.token \in Token /\ tokens[q.token] # None,
         q # None /\ q.op \in {"reset", "verify"} /\ q.at \in {"consumed", "written"} =>
             /\ ~tokens[q.token].consumed
             /\ \A o \in Request : Consuming(o) /\ req[o].token = q.token => o = r,
         now' \in Time, passwords' \in 0..MaxPasswords, passwords # 0 => passwords' # 0, overlapped' \subseteq User,
         UNCHANGED <<users, tokens, sessions, applied>>
  PROVE  Inv'
<1>1. /\ req'[r] = q
      /\ \A o \in Request \ {r} : req'[o] = req[o]
  BY DEF Inv, TypeOK
<1>2. TypeOK'
  BY DEF Inv, TypeOK
<1>3. RequestsAreTruthful'
  BY <1>1 DEF Inv, RequestsAreTruthful
<1>4. ConsumptionExclusive'
  BY <1>1 DEF Inv, ConsumptionExclusive, Consuming
<1>5. OwnersExist'
  BY DEF Inv, TypeOK, OwnersExist
<1> QED BY <1>2, <1>3, <1>4, <1>5 DEF Inv, TokensWorkOnce

LEMMA ReadTokenStep ==
  ASSUME Inv, NEW r \in Request, NEW t \in Token, ReadToken(r, t)
  PROVE  Inv'
<1> USE CredentialsAssumption, NoneIsNothing
<1> DEFINE q == [op |-> tokens[t].kind, user |-> tokens[t].user, token |-> t,
                 pass |-> passwords', at |-> "read", began |-> now]
<1>1. tokens[t] \in TokenRow /\ tokens[t] # None
  BY DEF Inv, TypeOK, ReadToken, Usable
<1>2. passwords' \in Password /\ passwords' \in 0..MaxPasswords /\ passwords' # 0
  BY <1>1 DEF Inv, TypeOK, OwnersExist, ReadToken, Password, TokenRow
<1>3. q \in Changing
  BY <1>1, <1>2 DEF Changing, TokenRow, Inv, TypeOK
<1>4. req' = [req EXCEPT ![r] = q] /\ users[q.user] # None
  BY <1>1 DEF ReadToken, Inv, OwnersExist
<1>5. q.token = t /\ q.at = "read"
  OBVIOUS
<1> HIDE DEF q
<1> QED BY <1>1, <1>2, <1>3, <1>4, <1>5, RequestStep DEF Inv, TypeOK, ReadToken

LEMMA ReadForChangeStep ==
  ASSUME Inv, NEW r \in Request, NEW u \in User, ReadForChange(r, u)
  PROVE  Inv'
<1> USE CredentialsAssumption, NoneIsNothing
<1> DEFINE q == [op |-> "change", user |-> u, token |-> None,
                 pass |-> passwords', at |-> "read", began |-> now]
<1>1. passwords' \in Password /\ passwords' \in 0..MaxPasswords /\ passwords' # 0
  BY DEF Inv, TypeOK, ReadForChange, Password
<1>2. q \in Changing /\ q # None
  BY <1>1 DEF Changing, Inv, TypeOK
<1>3. req' = [req EXCEPT ![r] = q]
  BY DEF ReadForChange
<1> HIDE DEF q
<1>4. q.op = "change" /\ q.user = u
  BY DEF q
<1> QED BY <1>1, <1>2, <1>3, <1>4, RequestStep DEF Inv, TypeOK, ReadForChange, Password

LEMMA LoginStep ==
  ASSUME Inv, NEW r \in Request, NEW u \in User, Login(r, u)
  PROVE  Inv'
<1> DEFINE q == [op |-> "login", user |-> u, pass |-> users[u].pass, epoch |-> users[u].epoch]
<1>1. users[u] \in UserRow
  BY DEF Inv, TypeOK, Login
<1>2. q \in LoggingIn
  BY <1>1 DEF LoggingIn, UserRow
<1>3. req' = [req EXCEPT ![r] = q] /\ users[q.user] # None
  BY DEF Login
<1>4. q.op = "login"
  OBVIOUS
<1> HIDE DEF q
<1> QED BY <1>2, <1>3, <1>4, RequestStep DEF Inv, TypeOK, Login

LEMMA FailRequestStep ==
  ASSUME Inv, NEW r \in Request, FailRequest(r)
  PROVE  Inv'
BY RequestStep DEF Inv, TypeOK, FailRequest

LEMMA BeginTxStep ==
  ASSUME Inv, NEW r \in Request, BeginTx(r)
  PROVE  Inv'
<1> USE NoneIsNothing
<1> DEFINE q == [req[r] EXCEPT !.at = "begun", !.began = now + 1]
<1>1. req[r] \in Changing
  BY DEF Inv, TypeOK, BeginTx, LoggingIn
<1>2. now + 1 \in Time
  BY CredentialsAssumption DEF Inv, TypeOK, BeginTx, Time
<1>3. q \in Changing
  BY <1>1, <1>2 DEF Changing
<1>4. req' = [req EXCEPT ![r] = q]
  BY <1>1 DEF BeginTx, Inv, TypeOK
<1>5. q.at = "begun" /\ q.user = req[r].user /\ q.op = req[r].op /\ q.token = req[r].token
  BY <1>1 DEF Changing
<1>6. overlapped' \subseteq User
  BY <1>1 DEF BeginTx, Inv, TypeOK, Changing
<1>7. /\ users[q.user] # None
      /\ q.op \in {"reset", "verify"} => q.token \in Token /\ tokens[q.token] # None
  BY <1>1, <1>5 DEF Inv, RequestsAreTruthful
<1>8. /\ passwords' \in 0..MaxPasswords /\ now' \in Time
      /\ UNCHANGED <<passwords, users, tokens, sessions, applied>>
  BY <1>2 DEF BeginTx, Inv, TypeOK
<1> HIDE DEF q
<1> QED BY <1>3, <1>4, <1>5, <1>6, <1>7, <1>8, RequestStep

LEMMA ConsumeTokenStep ==
  ASSUME Inv, NEW r \in Request, ConsumeToken(r)
  PROVE  Inv'
<1> USE NoneIsNothing
<1> DEFINE q == [req[r] EXCEPT !.at = "consumed"]
<1>1. req[r] \in Changing /\ req[r].op \in {"reset", "verify"}
  BY DEF Inv, TypeOK, ConsumeToken, InTx, LoggingIn, Changing
<1>2. q \in Changing
  BY <1>1 DEF Changing
<1>3. q.at = "consumed" /\ q.user = req[r].user /\ q.op = req[r].op /\ q.token = req[r].token
  BY <1>1 DEF Changing
<1>4. ~Consumes(req[r].token) => Inv'
  BY RequestStep DEF ConsumeToken, Inv, TypeOK
<1>5. req[r] # None /\ users[req[r].user] # None
      /\ req[r].token \in Token /\ tokens[req[r].token] # None
  BY <1>1 DEF Inv, RequestsAreTruthful
<1>6. \A o \in Request : Consuming(o) => req[o].token # req[r].token
  BY <1>1 DEF ConsumeToken, TokenLocked, InTx, Consuming
<1>7. CASE Consumes(req[r].token)
  <2>1. req' = [req EXCEPT ![r] = q]
    BY <1>7, <1>1 DEF ConsumeToken, Inv, TypeOK
  <2>2. ~tokens[q.token].consumed
    BY <1>7, <1>3 DEF Consumes
  <2>3. /\ users[q.user] # None /\ q.token \in Token /\ tokens[q.token] # None
        /\ \A o \in Request : Consuming(o) => req[o].token # q.token
    BY <1>3, <1>5, <1>6
  <2>4. /\ passwords' \in 0..MaxPasswords /\ now' \in Time /\ overlapped' \subseteq User
        /\ UNCHANGED <<passwords, users, tokens, sessions, applied>>
    BY DEF ConsumeToken, Inv, TypeOK
  <2> HIDE DEF q
  <2> QED BY <1>2, <2>1, <2>2, <2>3, <2>4, RequestStep
<1> QED BY <1>4, <1>7

LEMMA WriteUserStep ==
  ASSUME Inv, NEW r \in Request, WriteUser(r)
  PROVE  Inv'
<1> USE NoneIsNothing
<1> DEFINE q == [req[r] EXCEPT !.at = "written"]
<1>1. req[r] \in Changing
  BY DEF Inv, TypeOK, WriteUser, InTx, LoggingIn
<1>2. q \in Changing
  BY <1>1 DEF Changing
<1>3. q.at = "written" /\ q.user = req[r].user /\ q.op = req[r].op /\ q.token = req[r].token
  BY <1>1 DEF Changing
<1>4. req' = [req EXCEPT ![r] = q]
  BY DEF WriteUser, Inv, TypeOK
<1>5. req[r] # None /\ (req[r].op \in {"reset", "verify"} => Consuming(r))
  BY <1>1 DEF WriteUser, InTx, Consuming
<1>6. /\ users[q.user] # None
      /\ q.op \in {"reset", "verify"} => q.token \in Token /\ tokens[q.token] # None
  BY <1>1, <1>3, <1>5 DEF Inv, RequestsAreTruthful
<1>7. q.op \in {"reset", "verify"} =>
         /\ ~tokens[q.token].consumed
         /\ \A o \in Request : Consuming(o) /\ req[o].token = q.token => o = r
  BY <1>3, <1>5 DEF Inv, ConsumptionExclusive
<1>8. /\ passwords' \in 0..MaxPasswords /\ now' \in Time /\ overlapped' \subseteq User
      /\ UNCHANGED <<passwords, users, tokens, sessions, applied>>
  BY DEF WriteUser, Inv, TypeOK
<1> HIDE DEF q
<1> QED BY <1>2, <1>4, <1>6, <1>7, <1>8, RequestStep

LEMMA CommitTxStep ==
  ASSUME Inv, NEW r \in Request, CommitTx(r)
  PROVE  Inv'
<1> USE NoneIsNothing
<1> DEFINE q == req[r]
           row == Written(users[q.user], q)
<1>1. q \in Changing /\ q.user \in User /\ users[q.user] \in UserRow
  BY DEF Inv, TypeOK, CommitTx, InTx, LoggingIn, RequestsAreTruthful, Changing
<1>2. row \in UserRow
  BY <1>1 DEF Written, Changing, UserRow
<1>3. /\ users' = [users EXCEPT ![q.user] = row]
      /\ req' = [req EXCEPT ![r] = None]
      /\ UNCHANGED <<now, passwords, sessions, overlapped>>
  BY DEF CommitTx
<1>4. /\ users' \in [User -> UserRow \cup {None}]
      /\ \A u \in User : users[u] # None <=> users'[u] # None
  BY <1>1, <1>2, <1>3 DEF Inv, TypeOK
<1>5. CASE q.op = "change"
  <2>1. UNCHANGED <<tokens, applied>>
    BY <1>5 DEF CommitTx
  <2> HIDE DEF q, row
  <2>2. TypeOK'
    BY <1>3, <1>4, <2>1 DEF Inv, TypeOK
  <2>3. RequestsAreTruthful' /\ ConsumptionExclusive'
    BY <1>3, <1>4, <2>1
    DEF Inv, TypeOK, RequestsAreTruthful, ConsumptionExclusive, Consuming, Changing, LoggingIn
  <2>4. OwnersExist'
    BY <1>3, <1>4, <2>1 DEF Inv, TypeOK, OwnersExist, TokenRow
  <2> QED BY <2>1, <2>2, <2>3, <2>4 DEF Inv, TokensWorkOnce
<1>6. CASE q.op # "change"
  <2>1. Consuming(r)
    BY <1>1, <1>6 DEF CommitTx, InTx, Consuming, Changing
  <2>2. /\ q.token \in Token /\ tokens[q.token] \in TokenRow /\ ~tokens[q.token].consumed
        /\ \A o \in Request \ {r} : Consuming(o) => req[o].token # q.token
    BY <2>1 DEF Inv, TypeOK, RequestsAreTruthful, ConsumptionExclusive, Consuming
  <2>3. /\ tokens' = [tokens EXCEPT ![q.token].consumed = TRUE]
        /\ applied' = [applied EXCEPT ![q.token] = @ + 1]
    BY <1>6 DEF CommitTx
  <2>4. /\ tokens'[q.token] \in TokenRow /\ tokens'[q.token].user = tokens[q.token].user
        /\ tokens'[q.token].consumed /\ tokens'[q.token] # None
        /\ \A t \in Token \ {q.token} : tokens'[t] = tokens[t]
    BY <2>2, <2>3 DEF Inv, TypeOK, TokenRow
  <2> HIDE DEF q, row
  <2>5. tokens' \in [Token -> TokenRow \cup {None}] /\ applied' \in [Token -> Nat]
    <3>1. DOMAIN tokens' = Token /\ tokens' = [t \in Token |-> tokens'[t]]
      BY <2>3 DEF Inv, TypeOK
    <3>2. \A t \in Token : tokens'[t] \in TokenRow \cup {None}
      BY <2>4 DEF Inv, TypeOK
    <3>3. applied' \in [Token -> Nat]
      BY <2>2, <2>3 DEF Inv, TypeOK
    <3> QED BY <3>1, <3>2, <3>3
  <2>6. TypeOK'
    BY <1>3, <1>4, <2>5 DEF Inv, TypeOK
  <2>7. RequestsAreTruthful'
    <3>1. \A t \in Token : tokens[t] # None => tokens'[t] # None
      BY <2>4
    <3>2. \A o \in Request : req[o] # None => req[o].user \in User
      BY DEF Inv, TypeOK, Changing, LoggingIn
    <3>3. \A o \in Request : req'[o] # None => req'[o] = req[o]
      BY <1>3 DEF Inv, TypeOK
    <3> QED BY <1>4, <3>1, <3>2, <3>3 DEF Inv, RequestsAreTruthful
  <2>8. ConsumptionExclusive'
    BY <1>3, <2>2, <2>4 DEF q, Inv, TypeOK, RequestsAreTruthful, ConsumptionExclusive, Consuming
  <2>9. OwnersExist'
    BY <1>3, <1>4, <2>2, <2>4 DEF Inv, TypeOK, OwnersExist, TokenRow
  <2>10. TokensWorkOnce'
    BY <2>2, <2>3, <2>4 DEF Inv, TypeOK, TokensWorkOnce
  <2> QED BY <2>6, <2>7, <2>8, <2>9, <2>10 DEF Inv
<1> QED BY <1>5, <1>6

LEMMA MintSessionStep ==
  ASSUME Inv, NEW r \in Request, NEW s \in Session, MintSession(r, s)
  PROVE  Inv'
<1> USE NoneIsNothing
<1> DEFINE new == [user |-> req[r].user, pass |-> req[r].pass, epoch |-> MintedEpoch(req[r])]
<1>1. req[r] \in LoggingIn /\ users[req[r].user] # None
  BY DEF Inv, TypeOK, MintSession, RequestsAreTruthful, Changing
<1>2. new \in [user : User, pass : Password, epoch : Time] /\ users[new.user] # None
  BY <1>1 DEF MintedEpoch, LoggingIn
<1>3. /\ sessions' = [sessions EXCEPT ![s] = new]
      /\ req' = [req EXCEPT ![r] = None]
      /\ UNCHANGED <<now, passwords, users, tokens, applied, overlapped>>
  BY DEF MintSession
<1> HIDE DEF new
<1>4. TypeOK'
  BY <1>2, <1>3 DEF Inv, TypeOK
<1>5. RequestsAreTruthful' /\ ConsumptionExclusive'
  BY <1>3 DEF Inv, TypeOK, RequestsAreTruthful, ConsumptionExclusive, Consuming
<1>6. OwnersExist'
  BY <1>2, <1>3 DEF Inv, TypeOK, OwnersExist
<1> QED BY <1>3, <1>4, <1>5, <1>6 DEF Inv, TokensWorkOnce

LEMMA DropStep ==
  ASSUME Inv, NEW s \in Session, DropStale(s) \/ Logout(s)
  PROVE  Inv'
BY DEF DropStale, Logout, Inv, TypeOK, RequestsAreTruthful, OwnersExist, Consuming,
   ConsumptionExclusive, TokensWorkOnce

LEMMA NextStep == Inv /\ [Next]_vars => Inv'
<1> SUFFICES ASSUME Inv, [Next]_vars PROVE Inv'
  OBVIOUS
<1>1. CASE Tick \/ Restart
  BY <1>1, TickStep, RestartStep
<1>2. CASE \E u \in User, t \in Token : Register(u, t) \/ RequestPasswordReset(u, t)
  BY <1>2, RegisterStep, ResetRequestStep
<1>3. CASE \E r \in Request, t \in Token : ReadToken(r, t)
  BY <1>3, ReadTokenStep
<1>4. CASE \E r \in Request, u \in User : ReadForChange(r, u) \/ Login(r, u)
  BY <1>4, ReadForChangeStep, LoginStep
<1>5. CASE \E r \in Request : Proceed(r) \/ FailRequest(r)
  BY <1>5, BeginTxStep, ConsumeTokenStep, WriteUserStep, CommitTxStep, MintSessionStep,
     FailRequestStep DEF Proceed
<1>6. CASE \E s \in Session : DropStale(s) \/ Logout(s)
  BY <1>6, DropStep
<1>7. CASE UNCHANGED vars
  BY <1>7 DEF vars, Inv, TypeOK, RequestsAreTruthful, OwnersExist, Consuming,
     ConsumptionExclusive, TokensWorkOnce
<1> QED BY <1>1, <1>2, <1>3, <1>4, <1>5, <1>6, <1>7 DEF Next

-------------------------------------------------------------------------------
\* The invariant holds of every reachable state.
THEOREM InvAlways == Spec => []Inv
BY InitInv, NextStep, PTL DEF Spec

\* The variables keep their types.
THEOREM TypeCorrect == Spec => []TypeOK
<1>1. Inv => TypeOK
  BY DEF Inv
<1> QED BY <1>1, InvAlways, PTL

\* A reset or verification token works once, however many requests found it usable.
THEOREM TokensAreSingleUse == Spec => []TokensWorkOnce
<1>1. Inv => TokensWorkOnce
  BY DEF Inv
<1> QED BY <1>1, InvAlways, PTL

-------------------------------------------------------------------------------
(* Sessions and the password epoch.                                         *)

\* A transaction that will change a password.
Changer(r) == InTx(r) /\ ChangesPassword(r)

\* The epoch of a user lies in the past, and so does the begin of a transaction.
EpochsPast ==
    /\ \A u \in User : users[u] # None => users[u].epoch <= now
    /\ \A r \in Request : InTx(r) => req[r].began <= now

\* Users with two open changes are recorded; a single open change began after the
\* epoch it will replace.
ChangesOrdered ==
    \A r \in Request : Changer(r) /\ req[r].user \notin overlapped =>
        /\ users[req[r].user].epoch < req[r].began
        /\ \A q \in Request : Changer(q) /\ req[q].user = req[r].user => q = r

\* What a login read is not newer than its user's row, and is that row if as new.
Current(x) == /\ x.epoch <= users[x.user].epoch
              /\ x.epoch = users[x.user].epoch => x.pass = users[x.user].pass

LoggedIn == \A s \in Session : sessions[s] # None /\ sessions[s].user \notin overlapped =>
                                   Current(sessions[s])
LoggingInCurrent == \A r \in Request : /\ req[r] # None /\ req[r].op = "login"
                                       /\ req[r].user \notin overlapped
                                       => Current(req[r])

EpochInv == EpochsPast /\ ChangesOrdered /\ LoggedIn /\ LoggingInCurrent

LEMMA EpochInit == Init => EpochInv
BY DEF Init, EpochInv, EpochsPast, ChangesOrdered, LoggedIn, LoggingInCurrent, InTx, Changer

\* What requests and sessions are about is a user there is.
LEMMA AboutUsers ==
  ASSUME Inv
  PROVE  /\ \A r \in Request : req[r] # None => /\ req[r].user \in User
                                                /\ users[req[r].user] \in UserRow
         /\ \A s \in Session : sessions[s] # None => /\ sessions[s].user \in User
                                                     /\ users[sessions[s].user] \in UserRow
BY DEF Inv, TypeOK, RequestsAreTruthful, OwnersExist, Changing, LoggingIn

\* A step that changes neither existing users nor sessions, only leaves or drops what
\* requests are at, or starts one outside a transaction.
LEMMA QuietStep ==
  ASSUME Inv, TypeOK', EpochInv, now <= now', UNCHANGED overlapped,
         \A u \in User : users[u] # None => users'[u] = users[u],
         \A u \in User : users[u] = None /\ users'[u] # None => users'[u].epoch <= now,
         \A r \in Request : \/ req'[r] = req[r]
                            \/ req'[r] = None
                            \/ /\ InTx(r)
                               /\ \E at \in {"begun", "consumed", "written"} :
                                     req'[r] = [req[r] EXCEPT !.at = at]
                            \/ req'[r] # None /\ req'[r].op # "login" /\ req'[r].at = "read"
                            \/ /\ req'[r] # None /\ req'[r].op = "login"
                               /\ req'[r].user \in User /\ users[req'[r].user] # None
                               /\ Current(req'[r]),
         \A s \in Session : \/ sessions'[s] = sessions[s]
                            \/ sessions'[s] = None
                            \/ \E r \in Request : /\ req[r] # None /\ req[r].op = "login"
                                                  /\ sessions'[s].user = req[r].user
                                                  /\ sessions'[s].pass = req[r].pass
                                                  /\ sessions'[s].epoch = req[r].epoch
  PROVE  EpochInv'
<1>1. \A r \in Request : InTx(r)' => /\ InTx(r) /\ req'[r].op = req[r].op
                                     /\ req'[r].user = req[r].user
                                     /\ req'[r].began = req[r].began
  <2>1. \A r \in Request : InTx(r) => req[r] \in Changing
    BY DEF Inv, TypeOK, InTx, LoggingIn
  <2> SUFFICES ASSUME NEW r \in Request, InTx(r)'
               PROVE  /\ InTx(r) /\ req'[r].op = req[r].op
                      /\ req'[r].user = req[r].user /\ req'[r].began = req[r].began
    OBVIOUS
  <2>2. CASE req'[r] = req[r]
    BY <2>2 DEF InTx
  <2>3. ASSUME InTx(r), NEW at \in {"begun", "consumed", "written"},
               req'[r] = [req[r] EXCEPT !.at = at]
        PROVE  req'[r].op = req[r].op /\ req'[r].user = req[r].user
               /\ req'[r].began = req[r].began
    BY <2>1, <2>3 DEF Changing
  <2> QED BY <2>2, <2>3 DEF InTx
<1>2. EpochsPast'
  <2>1. /\ now \in Nat
        /\ \A u \in User : users[u] # None => users[u].epoch \in Nat
        /\ \A u \in User : users'[u] # None => users'[u].epoch <= now
    BY DEF Inv, TypeOK, UserRow, Time, EpochInv, EpochsPast
  <2>2. \A u \in User : users'[u] # None => users'[u].epoch \in Nat
    BY DEF Inv, TypeOK, UserRow, Time
  <2>3. \A r \in Request : InTx(r) => req[r] \in Changing
    BY DEF Inv, TypeOK, InTx, LoggingIn
  <2>4. now' \in Nat /\ \A r \in Request : InTx(r) => req[r].began \in Nat /\ req[r].began <= now
    BY <2>3 DEF Inv, TypeOK, Time, Changing, EpochInv, EpochsPast
  <2>5. \A u \in User : users'[u] # None => users'[u].epoch <= now'
    BY <2>1, <2>2, <2>4
  <2>6. \A r \in Request : InTx(r)' => req'[r].began <= now'
    BY <1>1, <2>1, <2>4
  <2> QED BY <2>5, <2>6 DEF EpochsPast
<1>3. ChangesOrdered'
  <2>1. \A r \in Request : Changer(r)' => Changer(r)
    BY <1>1 DEF Changer, ChangesPassword
  <2>2. \A r \in Request : Changer(r) => req[r].user \in User /\ users[req[r].user] # None
    BY AboutUsers, NoneIsNothing DEF Changer, InTx
  <2>3. \A r \in Request : Changer(r)' => /\ req'[r].user = req[r].user
                                          /\ req'[r].began = req[r].began
                                          /\ users'[req[r].user] = users[req[r].user]
    BY <1>1, <2>1, <2>2 DEF Changer
  <2> SUFFICES ASSUME NEW r \in Request, Changer(r)', req'[r].user \notin overlapped
               PROVE  /\ users'[req'[r].user].epoch < req'[r].began
                      /\ \A q \in Request : Changer(q)' /\ req'[q].user = req'[r].user => q = r
    BY DEF ChangesOrdered
  <2>4. Changer(r) /\ req[r].user \notin overlapped
    BY <2>1, <2>3
  <2> QED BY <2>1, <2>3, <2>4 DEF EpochInv, ChangesOrdered
<1>4. LoggedIn'
  <2> SUFFICES ASSUME NEW s \in Session, sessions'[s] # None,
                      sessions'[s].user \notin overlapped
               PROVE  Current(sessions[s])'
    BY DEF LoggedIn
  <2>1. CASE sessions'[s] = sessions[s]
    BY <2>1, AboutUsers, NoneIsNothing DEF EpochInv, LoggedIn, Current
  <2>2. CASE sessions'[s] # sessions[s]
    BY <2>2, AboutUsers, NoneIsNothing DEF EpochInv, LoggingInCurrent, Current
  <2> QED BY <2>1, <2>2
<1>5. LoggingInCurrent'
  <2> SUFFICES ASSUME NEW r \in Request, req'[r] # None, req'[r].op = "login",
                      req'[r].user \notin overlapped
               PROVE  Current(req[r])'
    BY DEF LoggingInCurrent
  <2>1. CASE req'[r] = req[r]
    BY <2>1, AboutUsers, NoneIsNothing DEF EpochInv, LoggingInCurrent, Current
  <2>2. CASE req'[r].user \in User /\ users[req'[r].user] # None /\ Current(req'[r])
    BY <2>2 DEF Current
  <2>3. ~InTx(r)'
    BY DEF InTx
  <2>4. InTx(r) => req[r] \in Changing
    BY DEF Inv, TypeOK, InTx, LoggingIn
  <2>5. ASSUME InTx(r), NEW at \in {"begun", "consumed", "written"},
               req'[r] = [req[r] EXCEPT !.at = at]
        PROVE  FALSE
    BY <2>4, <2>5 DEF InTx, Changing
  <2> QED BY <2>1, <2>2, <2>5
<1> QED BY <1>2, <1>3, <1>4, <1>5 DEF EpochInv

LEMMA EpochRegister ==
  ASSUME Inv, Inv', EpochInv, NEW u \in User, NEW t \in Token, Register(u, t)
  PROVE  EpochInv'
<1>1. \A v \in User : users[v] # None => users'[v] = users[v]
  BY DEF Register, Inv, TypeOK
<1>2. \A v \in User : users[v] = None /\ users'[v] # None => users'[v].epoch <= now
  BY DEF Register, NewUser, Inv, TypeOK, Time
<1> QED BY <1>1, <1>2, QuietStep DEF Register, Inv, TypeOK, Time

LEMMA EpochBegin ==
  ASSUME Inv, Inv', EpochInv, NEW r \in Request, BeginTx(r)
  PROVE  EpochInv'
<1>1. req[r] \in Changing
  BY DEF Inv, TypeOK, BeginTx, LoggingIn
<1>2. /\ req'[r] = [req[r] EXCEPT !.at = "begun", !.began = now + 1]
      /\ \A q \in Request \ {r} : req'[q] = req[q]
      /\ now' = now + 1 /\ now \in Nat
      /\ UNCHANGED <<users, sessions>>
      /\ overlapped \subseteq overlapped'
  BY <1>1 DEF Inv, TypeOK, BeginTx, Time
<1>3. /\ req'[r] \in Changing /\ req'[r].began = now + 1 /\ req'[r].user = req[r].user
      /\ req'[r].op = req[r].op /\ req'[r].op # "login" /\ ~InTx(r)
  BY <1>1, <1>2 DEF Changing, BeginTx, InTx, Inv, TypeOK
<1>4. EpochsPast'
  <2>1. \A q \in Request : InTx(q) => req[q].began \in Nat
    BY DEF Inv, TypeOK, InTx, LoggingIn, Changing, Time
  <2>2. \A v \in User : users[v] # None => users[v].epoch \in Nat
    BY DEF Inv, TypeOK, UserRow, Time
  <2>3. \A v \in User : users'[v] # None => users'[v].epoch <= now'
    BY <1>2, <2>2 DEF EpochInv, EpochsPast
  <2>4. req'[r].began <= now'
    BY <1>2, <1>3
  <2>5. \A q \in Request \ {r} : InTx(q)' => req'[q].began <= now'
    BY <1>2, <2>1 DEF EpochInv, EpochsPast, InTx
  <2> QED BY <2>3, <2>4, <2>5 DEF EpochsPast
<1>5. ChangesOrdered'
  <2> SUFFICES ASSUME NEW q \in Request, Changer(q)', req'[q].user \notin overlapped'
               PROVE  /\ users[req'[q].user].epoch < req'[q].began
                      /\ \A o \in Request : Changer(o)' /\ req'[o].user = req'[q].user => o = q
    BY <1>2 DEF ChangesOrdered
  <2>1. \A o \in Request \ {r} : Changer(o)' => Changer(o)
    BY <1>2 DEF Changer, InTx, ChangesPassword
  <2>2. Changer(r)' => ChangesPassword(r)
    BY <1>3 DEF Changer, ChangesPassword
  <2>3. ChangesPassword(r) => req[r].user \in overlapped' \/
           \A o \in Request \ {r} : Changer(o) => req[o].user # req[r].user
    BY DEF BeginTx, Changer
  <2>4. users[req[r].user].epoch < now + 1
    BY <1>1, <1>2, AboutUsers, NoneIsNothing DEF EpochInv, EpochsPast, UserRow, Time, Inv, TypeOK, BeginTx
  <2> QED BY <1>2, <1>3, <2>1, <2>2, <2>3, <2>4 DEF EpochInv, ChangesOrdered
<1>6. LoggedIn' /\ LoggingInCurrent'
  BY <1>2, <1>3 DEF EpochInv, LoggedIn, LoggingInCurrent, Current
<1> QED BY <1>4, <1>5, <1>6 DEF EpochInv

LEMMA EpochCommit ==
  ASSUME Inv, Inv', EpochInv, NEW r \in Request, CommitTx(r)
  PROVE  EpochInv'
<1> DEFINE u == req[r].user
<1>1. /\ req[r] \in Changing /\ req[r] # None /\ u \in User /\ users[u] \in UserRow
      /\ InTx(r) /\ users[u] # None
  BY NoneIsNothing DEF Inv, TypeOK, CommitTx, InTx, LoggingIn, RequestsAreTruthful, Changing
<1>2. /\ users' = [users EXCEPT ![u] = Written(users[u], req[r])]
      /\ req' = [req EXCEPT ![r] = None]
      /\ UNCHANGED <<now, sessions, overlapped>>
  BY DEF CommitTx
<1>3. /\ req'[r] = None
      /\ \A q \in Request \ {r} : req'[q] = req[q]
      /\ \A v \in User \ {u} : users'[v] = users[v]
      /\ users'[u] = Written(users[u], req[r])
  BY <1>1, <1>2 DEF Inv, TypeOK
<1>4. CASE ~ChangesPassword(r)
  <2>1. users'[u].epoch = users[u].epoch /\ users'[u].pass = users[u].pass
    BY <1>1, <1>3, <1>4 DEF Written, ChangesPassword, Changing, UserRow
  <2> HIDE DEF u
  <2>2. \A v \in User : users'[v] # None => /\ users[v] # None
                                            /\ users'[v].epoch = users[v].epoch
                                            /\ users'[v].pass = users[v].pass
    BY <1>1, <1>3, <2>1
  <2>3. EpochsPast'
    BY <1>2, <1>3, <2>2 DEF EpochInv, EpochsPast, InTx
  <2>4. ChangesOrdered'
    BY <1>2, <1>3, <2>1, AboutUsers DEF EpochInv, ChangesOrdered, Changer, InTx, ChangesPassword
  <2>5. LoggedIn' /\ LoggingInCurrent'
    BY <1>2, <1>3, <2>1, AboutUsers DEF EpochInv, LoggedIn, LoggingInCurrent, Current
  <2> QED BY <2>3, <2>4, <2>5 DEF EpochInv
<1>5. CASE ChangesPassword(r)
  <2>1. users'[u].epoch = req[r].began /\ users'[u].pass = req[r].pass
    BY <1>1, <1>3, <1>5 DEF Written, ChangesPassword, Changing, UserRow
  <2>2. req[r].began \in Nat /\ req[r].began <= now /\ users[u].epoch \in Nat
    BY <1>1 DEF EpochInv, EpochsPast, Changing, UserRow, Time
  <2>3. u \notin overlapped =>
           /\ users[u].epoch < req[r].began
           /\ \A q \in Request : Changer(q) /\ req[q].user = u => q = r
    BY <1>1, <1>5 DEF EpochInv, ChangesOrdered, Changer
  <2> HIDE DEF u
  <2>4. EpochsPast'
    BY <1>2, <1>3, <2>1, <2>2 DEF EpochInv, EpochsPast, InTx
  <2>5. ChangesOrdered'
    BY <1>2, <1>3, <2>3, AboutUsers DEF EpochInv, ChangesOrdered, Changer, InTx, ChangesPassword
  <2>6. /\ \A s \in Session : sessions[s] # None => sessions[s].epoch \in Nat
        /\ \A q \in Request : req[q] # None /\ req[q].op = "login" => req[q].epoch \in Nat
    BY DEF Inv, TypeOK, Time, Changing, LoggingIn
  <2>7. LoggedIn' /\ LoggingInCurrent'
    BY <1>2, <1>3, <2>1, <2>2, <2>3, <2>6, AboutUsers
    DEF EpochInv, LoggedIn, LoggingInCurrent, Current
  <2> QED BY <2>4, <2>5, <2>7 DEF EpochInv
<1> QED BY <1>4, <1>5

LEMMA EpochStep == Inv /\ Inv' /\ EpochInv /\ [Next]_vars => EpochInv'
<1> SUFFICES ASSUME Inv, Inv', EpochInv, [Next]_vars PROVE EpochInv'
  OBVIOUS
<1>1. CASE Tick \/ Restart
  BY <1>1, QuietStep DEF Tick, Restart, Inv, TypeOK, Time
<1>2. ASSUME NEW u \in User, NEW t \in Token, Register(u, t) \/ RequestPasswordReset(u, t)
      PROVE  EpochInv'
  BY <1>2, EpochRegister, QuietStep DEF RequestPasswordReset, Inv, TypeOK, Time
<1>3. ASSUME NEW r \in Request, NEW t \in Token, ReadToken(r, t)
      PROVE  EpochInv'
  <2>1. \A q \in Request : \/ req'[q] = req[q]
                           \/ req'[q].op # "login" /\ req'[q].at = "read" /\ req'[q] # None
    BY <1>3, NoneIsNothing DEF ReadToken, Usable, Inv, TypeOK, TokenRow
  <2> QED BY <1>3, <2>1, QuietStep DEF ReadToken, Inv, TypeOK, Time
<1>4. ASSUME NEW r \in Request, NEW u \in User, ReadForChange(r, u)
      PROVE  EpochInv'
  <2>1. \A q \in Request : \/ req'[q] = req[q]
                           \/ req'[q].op # "login" /\ req'[q].at = "read" /\ req'[q] # None
    BY <1>4 DEF ReadForChange, Inv, TypeOK, None
  <2> QED BY <1>4, <2>1, QuietStep DEF ReadForChange, Inv, TypeOK, Time
<1>5. ASSUME NEW r \in Request, NEW u \in User, Login(r, u)
      PROVE  EpochInv'
  <2>1. \A q \in Request : \/ req'[q] = req[q]
                           \/ /\ req'[q] # None /\ req'[q].op = "login" /\ req'[q].user = u
                              /\ req'[q].epoch = users[u].epoch /\ req'[q].pass = users[u].pass
    BY <1>5 DEF Login, Inv, TypeOK, None
  <2>2. users[u] # None /\ users[u].epoch \in Nat
    BY <1>5 DEF Login, Inv, TypeOK, UserRow, Time
  <2> QED BY <1>5, <2>1, <2>2, QuietStep DEF Login, Current, Inv, TypeOK, Time
<1>6. ASSUME NEW r \in Request, ConsumeToken(r) \/ WriteUser(r) \/ FailRequest(r)
      PROVE  EpochInv'
  BY <1>6, QuietStep DEF ConsumeToken, WriteUser, FailRequest, Inv, TypeOK, Time
<1>7. ASSUME NEW r \in Request, NEW s \in Session, MintSession(r, s)
      PROVE  EpochInv'
  BY <1>7, QuietStep DEF MintSession, MintedEpoch, Inv, TypeOK, Time
<1>8. ASSUME NEW s \in Session, DropStale(s) \/ Logout(s)
      PROVE  EpochInv'
  BY <1>8, QuietStep DEF DropStale, Logout, Inv, TypeOK, Time
<1>9. CASE UNCHANGED vars
  BY <1>9, QuietStep DEF vars, Inv, TypeOK, Time
<1>10. CASE \E r \in Request : Proceed(r) \/ FailRequest(r)
  BY <1>6, <1>7, <1>10, EpochBegin, EpochCommit DEF Proceed
<1> QED BY <1>1, <1>2, <1>3, <1>4, <1>5, <1>8, <1>9, <1>10 DEF Next

\* No session outlives the password it was made with, unless two changes of it were open
\* at once.
THEOREM SessionsEndWithThePassword == Spec => []SessionsFollowPassword
<1>1. Inv /\ EpochInv => SessionsFollowPassword
  <2> SUFFICES ASSUME Inv, EpochInv, NEW s \in Session, Accepted(s),
                      sessions[s].user \notin overlapped
               PROVE  sessions[s].pass = users[sessions[s].user].pass
    BY DEF SessionsFollowPassword
  <2>1. sessions[s].epoch \in Nat /\ users[sessions[s].user].epoch \in Nat
    BY AboutUsers DEF Accepted, Inv, TypeOK, UserRow, Time
  <2> QED BY <2>1 DEF EpochInv, LoggedIn, Current, Accepted
<1> QED BY <1>1, InvAlways, EpochInit, EpochStep, PTL DEF Spec
===============================================================================
