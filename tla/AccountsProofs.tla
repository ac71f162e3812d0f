--------------------------- MODULE AccountsProofs ---------------------------
(***************************************************************************)
(* Theorems about accounts, for any number of users, sessions, tokens,     *)
(* second factors and concurrent requests.                                 *)
(***************************************************************************)
EXTENDS Accounts, FiniteSetTheorems, TLAPS

Labels == {"idle", "insert", "new", "verify", "rehash", "code", "record", "totp",
           "profile", "roles", "bind", "password", "delete"}

Requests ==
  [pc : Labels, user : Users \cup {"none"}, self : BOOLEAN, active : BOOLEAN,
   mustChange : BOOLEAN, unlock : BOOLEAN, mfa : BOOLEAN, weak : BOOLEAN,
   enrolled : BOOLEAN, secret : Secrets \cup {NoSecret}, failures : 0 .. MaxFailed,
   then : {"roles", "done"}, grants : SUBSET Roles, revokes : SUBSET Roles]

\* A request under way is about an account; a worker without one holds nothing.
Served == {r \in Requests : IF r.pc = "idle" THEN r = Idle ELSE r.user \in Users}

SessionRows == [user : Users \cup {"none"}, mfa : BOOLEAN]
TokenRows   == [user : Users \cup {"none"}, perms : SUBSET Permissions]

Typed ==
  /\ accounts \in SUBSET Users /\ deleted \in SUBSET Users /\ ops \in Nat
  /\ row \in [Users -> Account]
  /\ roles \in [Users -> SUBSET Roles]
  /\ session \in [Sessions -> SessionRows] /\ token \in [Tokens -> TokenRows]
  /\ req \in [Workers -> Served]
  /\ issued \in SUBSET Secrets /\ proved \in [Users -> SUBSET Secrets]
  /\ guesses \in [Users -> Nat]

\* ON DELETE CASCADE and the foreign keys: what goes with an account.
Cascade ==
  /\ \A u \in Users \ accounts : roles[u] = {}
  /\ \A s \in Sessions : session[s] = NoSession \/ session[s].user \in accounts
  /\ \A t \in Tokens : token[t] = NoToken \/ token[t].user \in accounts

\* A secret about to be confirmed is one a code was shown for.
EnrolmentInv ==
  /\ \A u \in Users : row[u].enrolled => row[u].secret \in proved[u]
  /\ \A w \in Workers :
       req[w].pc = "totp" /\ req[w].enrolled => req[w].secret \in proved[req[w].user]

\* The requests that may still answer for account u.
Answering(w, u) == req[w].user = u /\ req[w].pc \in {"verify", "rehash", "code"}
InFlight(u) == {w \in Workers : Answering(w, u)}

\* While an account is open, each wrong answer is in its row; once it is locked,
\* only the requests that were let in before can still answer.
LockoutInv(u) ==
  /\ guesses[u] + Cardinality(InFlight(u)) <= MaxFailed + Cardinality(Workers) - 1
  /\ u \in accounts /\ ~row[u].locked =>
       guesses[u] <= row[u].failures /\ guesses[u] < MaxFailed
  /\ u \notin accounts \cup deleted => guesses[u] = 0 /\ InFlight(u) = {}

\* Only edits are overtaken.
Overtaken == overtaken \subseteq {w \in Workers : req[w].pc \in Edits}

IInv ==
  /\ Typed /\ Cascade /\ EnrolmentInv /\ Overtaken
  /\ \A u \in Users : LockoutInv(u)

\* What an edit has checked: it leaves the account switched on and an
\* administrator, or another account is an active administrator.
EditInv(w) ==
  LET u == req[w].user IN
  /\ req[w].pc \in {"password", "profile"} => req[w].active \/ OthersAdminister(u)
  /\ req[w].pc = "bind" /\ Admin \in req[w].revokes => OthersAdminister(u)
  /\ req[w].pc = "delete" => OthersAdminister(u)

\* An edit's check holds until another request takes an administrator away.
AdminInv == \A w \in Workers : w \in overtaken \/ EditInv(w)

-----------------------------------------------------------------------------
(* Types.                                                                  *)

LEMMA MovesType ==
  ASSUME Typed, NEW w \in Workers, NEW r \in Served, Moves(w, r)
  PROVE  req' \in [Workers -> Served]
  BY DEF Typed, Moves

LEMMA IdleIsServed == Idle \in Served /\ Idle \in Requests
  BY AccountsAssumption DEF Idle, Served, Requests, Labels, AccountsAssumption

LEMMA ReturnsType ==
  ASSUME Typed, NEW w \in Workers, Returns(w)
  PROVE  req' \in [Workers -> Served]
  BY IdleIsServed, MovesType DEF Returns

LEMMA ReqTypes ==
  ASSUME Typed, NEW w \in Workers
  PROVE  /\ req[w] \in Requests
         /\ req[w].pc # "idle" => req[w].user \in Users
         /\ \A pc \in Labels \ {"idle"} :
              req[w].pc # "idle" => [req[w] EXCEPT !.pc = pc] \in Served
<1>1. req[w] \in Served
  BY DEF Typed
<1>2. req[w] \in Requests
  BY <1>1 DEF Served
<1>3. ASSUME NEW pc \in Labels \ {"idle"}, req[w].pc # "idle"
      PROVE  [req[w] EXCEPT !.pc = pc] \in Served
  BY <1>1, <1>2, <1>3 DEF Served, Requests
<1> QED BY <1>1, <1>2, <1>3 DEF Served

LEMMA BeginsType ==
  ASSUME Typed, NEW w \in Workers, NEW op, Begins(w, op)
  PROVE  ops' \in Nat
  BY DEF Typed, Begins

LEMMA RowTypes ==
  ASSUME Typed, NEW u \in Users
  PROVE  /\ row[u] \in Account
         /\ Failed(row[u]) \in Account /\ Reopened(row[u]) \in Account
         /\ \A active, mustChange \in BOOLEAN : NewRow(active, mustChange) \in Account
<1>1. row[u] \in Account
  BY DEF Typed
<1>2. row[u].failures \in 0 .. MaxFailed /\ MaxFailed \in Nat
  BY <1>1, AccountsAssumption DEF Account, AccountsAssumption
<1>3. AtLeast(row[u].failures + 1) \in 0 .. MaxFailed
  BY <1>2 DEF AtLeast
<1>4. (row[u].locked \/ row[u].failures + 1 >= MaxFailed) \in BOOLEAN
  BY <1>1 DEF Account
<1>5. Failed(row[u]) \in Account
  BY <1>1, <1>3, <1>4 DEF Failed, Account
<1>6. Reopened(row[u]) \in Account
  <2>1. 0 \in 0 .. MaxFailed
    BY <1>2
  <2> QED BY <1>1, <2>1 DEF Reopened, Account
<1>7. ASSUME NEW active \in BOOLEAN, NEW mustChange \in BOOLEAN
      PROVE  NewRow(active, mustChange) \in Account
  BY <1>2 DEF NewRow, Account
<1> QED BY <1>1, <1>5, <1>6, <1>7


LEMMA HashStoredType ==
  ASSUME Typed, NEW u, HashStored(u)
  PROVE  row' \in [Users -> Account]
<1>1. CASE u \in accounts
  <2>1. u \in Users /\ row[u] \in Account
    BY <1>1, RowTypes DEF Typed
  <2>2. [row[u] EXCEPT !.weak = FALSE, !.mustChange = FALSE] \in Account
    BY <2>1 DEF Account
  <2>3. row' = [row EXCEPT ![u] = [row[u] EXCEPT !.weak = FALSE, !.mustChange = FALSE]]
    BY <1>1, <2>1 DEF HashStored, Typed
  <2> QED BY <2>2, <2>3 DEF Typed
<1> QED BY <1>1 DEF HashStored, Typed

LEMMA SigningInType ==
  ASSUME Typed, NEW w \in Workers, SigningIn(w)
  PROVE  Typed'
<1> USE DEF grantVars, loginVars, ghostVars
<1>1. ASSUME NEW u \in Users, Bootstrap(w, u)
      PROVE  Typed'
  <2>1. [Idle EXCEPT !.pc = "insert", !.user = u, !.active = TRUE,
                     !.mustChange = TRUE, !.grants = {Admin}] \in Served
    BY IdleIsServed DEF Served, Requests, Labels, Roles
  <2>2. req' \in [Workers -> Served] /\ ops' \in Nat
    BY <1>1, <2>1, MovesType, BeginsType DEF Bootstrap
  <2> QED BY <1>1, <2>2 DEF Bootstrap, Typed
<1>2. ASSUME NEW u \in Users, LoginLookup(w, u)
      PROVE  Typed'
  <2>0. row[u] \in Account
    BY RowTypes
  <2>1. [Idle EXCEPT !.pc = "verify", !.user = u, !.weak = row[u].weak,
                     !.secret = row[u].secret, !.enrolled = row[u].enrolled,
                     !.failures = row[u].failures] \in Served
    BY <2>0, IdleIsServed DEF Served, Requests, Labels, Account
  <2>2. req' \in [Workers -> Served] /\ ops' \in Nat
    BY <1>2, <2>1, MovesType, BeginsType DEF LoginLookup
  <2> QED BY <1>2, <2>2 DEF LoginLookup, Typed
<1>3. CASE LoginFails(w)
  <2>1. req[w].user \in Users
    BY <1>3, ReqTypes DEF LoginFails
  <2>2. req' \in [Workers -> Served] /\ row' \in [Users -> Account]
    BY <1>3, <2>1, ReturnsType, RowTypes DEF LoginFails, Counted, Typed
  <2>3. guesses' \in [Users -> Nat]
    BY <1>3, <2>1 DEF LoginFails, Typed
  <2> QED BY <1>3, <2>2, <2>3 DEF LoginFails, Typed
<1>4. CASE LoginPassword(w)
  <2>1. req' \in [Workers -> Served]
    BY <1>4, ReqTypes, MovesType DEF LoginPassword, Labels
  <2> QED BY <1>4, <2>1 DEF LoginPassword, Typed
<1>5. CASE LoginRehash(w)
  <2>1. req' \in [Workers -> Served]
    BY <1>5, ReqTypes, MovesType DEF LoginRehash, Labels
  <2>2. row' \in [Users -> Account]
    BY <1>5, HashStoredType DEF LoginRehash
  <2> QED BY <1>5, <2>1, <2>2 DEF LoginRehash, Typed
<1>6. CASE LoginRecord(w)
  <2>1. req[w].user \in Users
    BY <1>6, ReqTypes DEF LoginRecord
  <2>2. req' \in [Workers -> Served] /\ row' \in [Users -> Account]
    BY <1>6, <2>1, ReturnsType, RowTypes DEF LoginRecord, Typed
  <2>3. guesses' \in [Users -> Nat]
    BY <1>6, <2>1 DEF LoginRecord, Typed
  <2> QED BY <1>6, <2>2, <2>3 DEF LoginRecord, Typed
<1>7. ASSUME NEW s \in Sessions, LoginSession(w, s)
      PROVE  Typed'
  <2>0. req[w] \in Requests /\ req[w].user \in Users
    BY <1>7, ReqTypes DEF LoginSession
  <2>1. req' \in [Workers -> Served]
    BY <1>7, ReqTypes, MovesType, ReturnsType DEF LoginSession, Labels
  <2>2. [user |-> req[w].user, mfa |-> req[w].enrolled] \in SessionRows
    BY <2>0 DEF SessionRows, Requests
  <2>3. session' \in [Sessions -> SessionRows]
    BY <1>7, <2>2 DEF LoginSession, Typed
  <2> QED BY <1>7, <2>1, <2>3 DEF LoginSession, Typed
<1>8. ASSUME NEW s \in Sessions, VerifyStepUp(w, s)
      PROVE  Typed'
  <2>1. session' \in [Sessions -> SessionRows] /\ ops' \in Nat
    BY <1>8, BeginsType DEF VerifyStepUp, Typed, SessionRows
  <2> QED BY <1>8, <2>1 DEF VerifyStepUp, Typed
<1> QED BY <1>1, <1>2, <1>3, <1>4, <1>5, <1>6, <1>7, <1>8 DEF SigningIn

LEMMA RightsArePermissions ==
  ASSUME Typed, NEW u \in Users
  PROVE  Rights(u) \in SUBSET Permissions
<1>1. \A r \in roles[u] : r \in Roles
  BY DEF Typed
<1>2. \A r \in Roles : SystemRoles(r) \in SUBSET Permissions
  BY DEF Roles, SystemRoles, Permissions, Admin
<1> QED BY <1>1, <1>2 DEF Rights

LEMMA MintingType ==
  ASSUME Typed, NEW w \in Workers, Minting(w)
  PROVE  Typed'
<1> USE DEF grantVars, loginVars, ghostVars
<1> PICK a \in accounts, t \in Tokens : CreateToken(w, a, t) \/ TokenEnds(w, a, t)
  BY DEF Minting
<1>1. CASE CreateToken(w, a, t)
  <2> PICK u \in accounts : \E perms \in SUBSET Rights(u) :
        token' = [token EXCEPT ![t] = [user |-> u, perms |-> perms]]
    BY <1>1 DEF CreateToken
  <2> PICK perms \in SUBSET Rights(u) :
        token' = [token EXCEPT ![t] = [user |-> u, perms |-> perms]]
    OBVIOUS
  <2>1. u \in Users /\ perms \in SUBSET Permissions
    BY RightsArePermissions DEF Typed
  <2>2. token' \in [Tokens -> TokenRows] /\ ops' \in Nat
    BY <1>1, <2>1, BeginsType DEF CreateToken, Typed, TokenRows
  <2> QED BY <1>1, <2>2 DEF CreateToken, Typed
<1>2. CASE TokenEnds(w, a, t)
  <2>1. token' \in [Tokens -> TokenRows] /\ ops' \in Nat
    BY <1>2, BeginsType DEF TokenEnds, Typed, TokenRows, NoToken
  <2> QED BY <1>2, <2>1 DEF TokenEnds, Typed
<1> QED BY <1>1, <1>2

LEMMA WillSetType ==
  ASSUME Typed, NEW w \in Workers, NEW u \in Users, NEW k \in Secrets \cup {NoSecret},
         NEW enrolled \in BOOLEAN, WillSet(w, u, k, enrolled)
  PROVE  req' \in [Workers -> Served]
<1>1. [Idle EXCEPT !.pc = "totp", !.user = u, !.secret = k, !.enrolled = enrolled] \in Served
  BY IdleIsServed DEF Served, Requests, Labels
<1> QED BY <1>1, MovesType DEF WillSet

LEMMA SecondFactorType ==
  ASSUME Typed, NEW w \in Workers, SecondFactor(w)
  PROVE  Typed'
<1> USE DEF grantVars, loginVars, ghostVars
<1>0. accounts \subseteq Users /\ \A u \in accounts : row[u] \in Account
  BY RowTypes DEF Typed
<1>1. ASSUME NEW a \in accounts, NEW k \in Secrets, EnrolTOTP(w, a, k)
      PROVE  Typed'
  <2>1. req' \in [Workers -> Served] /\ ops' \in Nat
    BY <1>0, <1>1, WillSetType, BeginsType DEF EnrolTOTP
  <2>2. issued' \in SUBSET Secrets
    BY <1>1 DEF EnrolTOTP, Typed
  <2> QED BY <1>1, <2>1, <2>2 DEF EnrolTOTP, Typed
<1>2. ASSUME NEW a \in accounts, ConfirmTOTP(w, a)
      PROVE  Typed'
  <2>1. row[a].secret \in Secrets
    BY <1>0, <1>2 DEF ConfirmTOTP, ShowsCode, Account
  <2>2. req' \in [Workers -> Served] /\ ops' \in Nat
    BY <1>0, <1>2, <2>1, WillSetType, BeginsType DEF ConfirmTOTP
  <2>3. proved' \in [Users -> SUBSET Secrets]
    BY <1>2, <2>1 DEF ConfirmTOTP, ShowsCode, Typed
  <2> QED BY <1>2, <2>2, <2>3 DEF ConfirmTOTP, Typed
<1>3. ASSUME NEW a \in accounts, DisableTOTP(w, a)
      PROVE  Typed'
  <2>1. row[a].secret \in Secrets
    BY <1>0, <1>3 DEF DisableTOTP, ShowsCode, Account
  <2>2. req' \in [Workers -> Served] /\ ops' \in Nat
    BY <1>0, <1>3, WillSetType, BeginsType DEF DisableTOTP
  <2>3. proved' \in [Users -> SUBSET Secrets]
    BY <1>3, <2>1 DEF DisableTOTP, ShowsCode, Typed
  <2> QED BY <1>3, <2>2, <2>3 DEF DisableTOTP, Typed
<1>4. ASSUME NEW a \in accounts, NEW u \in accounts, ResetTOTP(w, a, u)
      PROVE  Typed'
  <2>1. req' \in [Workers -> Served] /\ ops' \in Nat
    BY <1>0, <1>4, WillSetType, BeginsType DEF ResetTOTP
  <2> QED BY <1>4, <2>1 DEF ResetTOTP, Typed
<1>5. CASE SetTOTP(w)
  <2>1. req' \in [Workers -> Served] /\ req[w] \in Requests
    BY <1>5, ReturnsType, ReqTypes DEF SetTOTP
  <2>2. row' \in [Users -> Account]
    BY <1>5, <2>1 DEF SetTOTP, Typed, Account, Requests
  <2> QED BY <1>5, <2>1, <2>2 DEF SetTOTP, Typed
<1> QED BY <1>1, <1>2, <1>3, <1>4, <1>5 DEF SecondFactor

\* The requests an account edit goes through.
LEMMA ProfileRequest ==
  ASSUME NEW u \in Users, NEW active \in BOOLEAN, NEW mustChange \in BOOLEAN,
         NEW unlock \in BOOLEAN, NEW self \in BOOLEAN, NEW then \in {"roles", "done"}
  PROVE  [Idle EXCEPT !.pc = "profile", !.user = u, !.self = self, !.active = active,
                 !.mustChange = mustChange, !.unlock = unlock, !.then = then] \in Served
<1>1. [Idle EXCEPT !.pc = "profile", !.user = u, !.self = self, !.active = active] \in Requests
  BY IdleIsServed DEF Requests, Labels
<1>2. \A r \in Requests :
        [r EXCEPT !.mustChange = mustChange, !.unlock = unlock, !.then = then] \in Requests
  BY DEF Requests
<1>3. [Idle EXCEPT !.pc = "profile", !.user = u, !.self = self, !.active = active,
         !.mustChange = mustChange, !.unlock = unlock, !.then = then]
      = [[Idle EXCEPT !.pc = "profile", !.user = u, !.self = self, !.active = active]
           EXCEPT !.mustChange = mustChange, !.unlock = unlock, !.then = then]
  OBVIOUS
<1>4. [Idle EXCEPT !.pc = "profile", !.user = u, !.self = self, !.active = active,
         !.mustChange = mustChange, !.unlock = unlock, !.then = then].pc = "profile"
      /\ [Idle EXCEPT !.pc = "profile", !.user = u, !.self = self, !.active = active,
            !.mustChange = mustChange, !.unlock = unlock, !.then = then].user = u
  BY DEF Idle
<1> QED BY <1>1, <1>2, <1>3, <1>4 DEF Served

LEMMA EditRequests ==
  ASSUME NEW u \in Users
  PROVE  /\ \A self \in BOOLEAN :
              [Idle EXCEPT !.pc = "roles", !.user = u, !.self = self] \in Served
         /\ \A grants \in SUBSET Roles :
              [Idle EXCEPT !.pc = "new", !.user = u, !.grants = grants] \in Served
         /\ \A grants, revokes \in SUBSET Roles :
              [Idle EXCEPT !.pc = "bind", !.user = u, !.grants = grants,
                           !.revokes = revokes] \in Served
<1>1. ASSUME NEW self \in BOOLEAN
      PROVE  [Idle EXCEPT !.pc = "roles", !.user = u, !.self = self] \in Served
  BY IdleIsServed DEF Served, Requests, Labels
<1>2. ASSUME NEW grants \in SUBSET Roles
      PROVE  [Idle EXCEPT !.pc = "new", !.user = u, !.grants = grants] \in Served
  BY IdleIsServed DEF Served, Requests, Labels
<1>3. ASSUME NEW grants \in SUBSET Roles, NEW revokes \in SUBSET Roles
      PROVE  [Idle EXCEPT !.pc = "bind", !.user = u, !.grants = grants,
                          !.revokes = revokes] \in Served
  BY IdleIsServed DEF Served, Requests, Labels
<1> QED BY <1>1, <1>2, <1>3

LEMMA RequestingType ==
  ASSUME Typed, NEW w \in Workers, NEW a \in accounts, NEW u \in Users,
         CreateUser(w, a, u) \/ UpdateUser(w, a, u) \/ SetPassword(w, a, u) \/ DeleteUser(w, a, u)
  PROVE  Typed'
<1> USE DEF grantVars, loginVars, ghostVars
<1>0. row[u] \in Account
  BY RowTypes
<1>1. CASE CreateUser(w, a, u)
  <2> PICK active \in BOOLEAN, mustChange \in BOOLEAN, wanted \in SUBSET Roles :
        Moves(w, [Idle EXCEPT !.pc = "insert", !.user = u, !.active = active,
                              !.mustChange = mustChange, !.grants = wanted])
    BY <1>1 DEF CreateUser
  <2>1. [Idle EXCEPT !.pc = "insert", !.user = u, !.active = active,
                     !.mustChange = mustChange, !.grants = wanted] \in Served
    BY IdleIsServed DEF Served, Requests, Labels
  <2>2. req' \in [Workers -> Served] /\ ops' \in Nat
    BY <1>1, <2>1, MovesType, BeginsType DEF CreateUser
  <2> QED BY <1>1, <2>2 DEF CreateUser, Typed
<1>2. CASE UpdateUser(w, a, u)
  <2> PICK active \in BOOLEAN, mustChange \in BOOLEAN, unlock \in BOOLEAN,
           then \in {"roles", "done"} :
        Moves(w, [Idle EXCEPT !.pc = "profile", !.user = u, !.self = a = u,
                    !.active = active, !.mustChange = mustChange,
                    !.unlock = unlock, !.then = then])
    BY <1>2 DEF UpdateUser
  <2>1. [Idle EXCEPT !.pc = "profile", !.user = u, !.self = a = u,
           !.active = active, !.mustChange = mustChange,
           !.unlock = unlock, !.then = then] \in Served
    <3>1. CASE a = u
      <4>1. (a = u) = TRUE
        BY <3>1
      <4>2. [Idle EXCEPT !.pc = "profile", !.user = u, !.self = TRUE,
               !.active = active, !.mustChange = mustChange,
               !.unlock = unlock, !.then = then] \in Served
        BY ProfileRequest
      <4> QED BY <4>1, <4>2
    <3>2. CASE a # u
      <4>1. (a = u) = FALSE
        BY <3>2
      <4>2. [Idle EXCEPT !.pc = "profile", !.user = u, !.self = FALSE,
               !.active = active, !.mustChange = mustChange,
               !.unlock = unlock, !.then = then] \in Served
        BY ProfileRequest
      <4> QED BY <4>1, <4>2
    <3> QED BY <3>1, <3>2
  <2>2. req' \in [Workers -> Served] /\ ops' \in Nat
    BY <1>2, <2>1, MovesType, BeginsType DEF UpdateUser
  <2> QED BY <1>2, <2>2 DEF UpdateUser, Typed
<1>3. CASE SetPassword(w, a, u)
  <2> PICK mustChange \in BOOLEAN :
        Moves(w, [Idle EXCEPT !.pc = "password", !.user = u, !.unlock = TRUE,
                    !.active = row[u].active, !.mustChange = mustChange])
    BY <1>3 DEF SetPassword
  <2>1. [Idle EXCEPT !.pc = "password", !.user = u, !.unlock = TRUE,
           !.active = row[u].active, !.mustChange = mustChange] \in Served
    BY <1>0, IdleIsServed DEF Served, Requests, Labels, Account
  <2>2. req' \in [Workers -> Served] /\ ops' \in Nat
    BY <1>3, <2>1, MovesType, BeginsType DEF SetPassword
  <2> QED BY <1>3, <2>2 DEF SetPassword, Typed
<1>4. CASE DeleteUser(w, a, u)
  <2>1. [Idle EXCEPT !.pc = "delete", !.user = u] \in Served
    BY IdleIsServed DEF Served, Requests, Labels
  <2>2. req' \in [Workers -> Served] /\ ops' \in Nat
    BY <1>4, <2>1, MovesType, BeginsType DEF DeleteUser
  <2> QED BY <1>4, <2>2 DEF DeleteUser, Typed
<1> QED BY <1>1, <1>2, <1>3, <1>4

LEMMA BindsType ==
  ASSUME Typed, NEW w \in Workers, NEW r \in Served, Binds(w, r)
  PROVE  req' \in [Workers -> Served]
  BY IdleIsServed, MovesType DEF Binds

LEMMA BindingType ==
  ASSUME Typed, NEW w \in Workers, GrantRole(w) \/ RevokeRole(w) \/ ChooseRoles(w)
  PROVE  Typed'
<1> USE DEF grantVars, loginVars, ghostVars
<1> DEFINE u == req[w].user
<1>0. req[w] \in Requests /\ u \in Users /\ req[w].pc # "idle"
  BY ReqTypes DEF GrantRole, RevokeRole, ChooseRoles
<1>1. CASE GrantRole(w)
  <2> PICK r \in req[w].grants :
        IF u \in accounts
        THEN /\ roles' = [roles EXCEPT ![u] = @ \cup {r}]
             /\ Binds(w, [req[w] EXCEPT !.grants = @ \ {r}])
        ELSE Returns(w) /\ UNCHANGED roles
    BY <1>1 DEF GrantRole
  <2>1. r \in Roles /\ [req[w] EXCEPT !.grants = @ \ {r}] \in Served
    BY <1>0 DEF Served, Requests
  <2>2. req' \in [Workers -> Served] /\ roles' \in [Users -> SUBSET Roles]
    BY <2>1, BindsType, ReturnsType DEF Typed
  <2> QED BY <1>1, <2>2 DEF GrantRole, Typed
<1>2. CASE RevokeRole(w)
  <2> PICK r \in req[w].revokes :
        /\ roles' = [roles EXCEPT ![u] = @ \ {r}]
        /\ Binds(w, [req[w] EXCEPT !.revokes = @ \ {r}])
    BY <1>2 DEF RevokeRole
  <2>1. [req[w] EXCEPT !.revokes = @ \ {r}] \in Served
    BY <1>0 DEF Served, Requests
  <2>2. req' \in [Workers -> Served] /\ roles' \in [Users -> SUBSET Roles]
    BY <2>1, BindsType DEF Typed
  <2> QED BY <1>2, <2>2 DEF RevokeRole, Typed
<1>3. CASE ChooseRoles(w)
  <2> PICK wanted \in SUBSET Roles :
        \/ Returns(w)
        \/ Binds(w, [Idle EXCEPT !.pc = "bind", !.user = u,
                       !.grants = wanted \ roles[u], !.revokes = roles[u] \ wanted])
    BY <1>3 DEF ChooseRoles
  <2>1. roles[u] \in SUBSET Roles
    BY <1>0 DEF Typed
  <2>2. [Idle EXCEPT !.pc = "bind", !.user = u,
           !.grants = wanted \ roles[u], !.revokes = roles[u] \ wanted] \in Served
    <3>1. wanted \ roles[u] \in SUBSET Roles /\ roles[u] \ wanted \in SUBSET Roles
      BY <2>1
    <3> QED BY <1>0, <3>1, EditRequests
  <2>3. req' \in [Workers -> Served]
    BY <2>2, BindsType, ReturnsType
  <2> QED BY <1>3, <2>3 DEF ChooseRoles, Typed
<1> QED BY <1>1, <1>2, <1>3

LEMMA WritingType ==
  ASSUME Typed, NEW w \in Workers,
         Insert(w) \/ WriteProfile(w) \/ WritePassword(w) \/ Remove(w)
  PROVE  Typed'
<1> USE DEF grantVars, loginVars, ghostVars
<1> DEFINE u == req[w].user
<1>0. /\ req[w] \in Requests /\ u \in Users /\ req[w].pc # "idle"
      /\ row[u] \in Account /\ Reopened(row[u]) \in Account
  BY ReqTypes, RowTypes DEF Insert, WriteProfile, WritePassword, Remove
<1>1. CASE Insert(w)
  <2>1. /\ [Idle EXCEPT !.pc = "new", !.user = u, !.grants = req[w].grants] \in Served
        /\ NewRow(req[w].active, req[w].mustChange) \in Account
    <3>1. /\ req[w].grants \in SUBSET Roles
          /\ req[w].active \in BOOLEAN /\ req[w].mustChange \in BOOLEAN
      BY <1>0 DEF Requests
    <3> QED BY <1>0, <3>1, EditRequests, RowTypes
  <2>2. /\ req' \in [Workers -> Served] /\ accounts' \in SUBSET Users
        /\ row' \in [Users -> Account]
    BY <1>0, <1>1, <2>1, BindsType, ReturnsType DEF Insert, Typed
  <2> QED BY <1>1, <2>2 DEF Insert, Typed
<1>2. CASE WriteProfile(w)
  <2> DEFINE r == IF req[w].unlock THEN Reopened(row[u]) ELSE row[u]
  <2>1. [r EXCEPT !.active = req[w].active, !.mustChange = req[w].mustChange] \in Account
    <3>1. r \in Account /\ req[w].active \in BOOLEAN /\ req[w].mustChange \in BOOLEAN
      BY <1>0 DEF Requests
    <3> HIDE DEF r
    <3> QED BY <3>1 DEF Account
  <2>2. [Idle EXCEPT !.pc = "roles", !.user = u, !.self = req[w].self] \in Served
    <3>1. req[w].self \in BOOLEAN
      BY <1>0 DEF Requests
    <3> QED BY <1>0, <3>1, EditRequests
  <2>3. req' \in [Workers -> Served]
    BY <1>2, <2>2, IdleIsServed, MovesType, ReturnsType DEF WriteProfile
  <2>4. row' \in [Users -> Account] /\ guesses' \in [Users -> Nat]
    BY <1>0, <1>2, <2>1 DEF WriteProfile, Typed
  <2> QED BY <1>2, <2>3, <2>4 DEF WriteProfile, Typed
<1>3. CASE WritePassword(w)
  <2>1. req' \in [Workers -> Served] /\ row' \in [Users -> Account]
    BY <1>3, ReqTypes, MovesType, HashStoredType DEF WritePassword, Labels
  <2> QED BY <1>3, <2>1 DEF WritePassword, Typed
<1>4. CASE Remove(w)
  <2>1. NewRow(FALSE, FALSE) \in Account /\ NoSession \in SessionRows /\ NoToken \in TokenRows
    BY <1>0, RowTypes DEF NoSession, NoToken, SessionRows, TokenRows
  <2>2. /\ accounts' \in SUBSET Users /\ deleted' \in SUBSET Users
        /\ row' \in [Users -> Account] /\ roles' \in [Users -> SUBSET Roles]
        /\ session' \in [Sessions -> SessionRows] /\ token' \in [Tokens -> TokenRows]
    BY <1>0, <1>4, <2>1 DEF Remove, Typed
  <2>3. req' \in [Workers -> Served]
    BY <1>4, ReturnsType DEF Remove
  <2> QED BY <1>4, <2>2, <2>3 DEF Remove, Typed
<1> QED BY <1>1, <1>2, <1>3, <1>4

LEMMA ClockType ==
  ASSUME Typed, Clock
  PROVE  Typed'
<1> USE DEF grantVars, loginVars, ghostVars
<1>1. ASSUME NEW u \in Users, LockExpires(u)
      PROVE  Typed'
  <2>1. row' \in [Users -> Account] /\ guesses' \in [Users -> Nat]
    BY <1>1 DEF LockExpires, Typed, Account
  <2> QED BY <1>1, <2>1 DEF LockExpires, Typed
<1>2. ASSUME NEW s \in Sessions, SessionEnds(s)
      PROVE  Typed'
  <2>1. session' \in [Sessions -> SessionRows]
    BY <1>2 DEF SessionEnds, Typed, SessionRows, NoSession
  <2> QED BY <1>2, <2>1 DEF SessionEnds, Typed
<1> QED BY <1>1, <1>2 DEF Clock

LEMMA TypeStep == Typed /\ [Next]_vars => Typed'
<1> SUFFICES ASSUME Typed, [Next]_vars
             PROVE  Typed'
  OBVIOUS
<1>1. CASE UNCHANGED vars
  BY <1>1 DEF Typed, vars, grantVars, loginVars, ghostVars
<1>2. ASSUME NEW w \in Workers, SigningIn(w) \/ Minting(w) \/ SecondFactor(w)
      PROVE  Typed'
  BY <1>2, SigningInType, MintingType, SecondFactorType
<1>3. ASSUME NEW w \in Workers, Administering(w)
      PROVE  Typed'
  BY <1>3, RequestingType, BindingType, WritingType DEF Administering
<1>4. ASSUME NEW w \in Workers, Abandon(w)
      PROVE  Typed'
  BY <1>4, ReturnsType DEF Abandon, Typed, grantVars, loginVars, ghostVars
<1>5. CASE Clock
  BY <1>5, ClockType
<1> QED BY <1>1, <1>2, <1>3, <1>4, <1>5 DEF Next

-----------------------------------------------------------------------------
(* How a request goes on, for the invariants that count or follow requests. *)

\* What a step of worker w does to the requests: no other is touched, and w is
\* at a label that matters only by the step that puts it there.
Advances(w) ==
  /\ \A v \in Workers \ {w} : req'[v] = req[v]
  /\ req'[w].pc = "totp" => req'[w] = req[w] \/ SecondFactor(w)
  /\ \A u \in Users : Answering(w, u)' => Answering(w, u) \/ LoginLookup(w, u)

LEMMA MovesStay ==
  ASSUME Typed, NEW w \in Workers, NEW r \in Served, Moves(w, r)
  PROVE  req'[w] = r /\ \A v \in Workers \ {w} : req'[v] = req[v]
  BY DEF Typed, Moves

LEMMA UnchangedAdvances ==
  ASSUME UNCHANGED req, NEW w \in Workers
  PROVE  Advances(w)
  BY DEF Advances, Answering

\* A step to a label nobody follows.
LEMMA AsideAdvances ==
  ASSUME Typed, NEW w \in Workers, NEW r \in Served, Moves(w, r),
         r.pc \notin {"verify", "rehash", "code", "totp"}
  PROVE  Advances(w)
<1>1. req'[w] = r /\ \A v \in Workers \ {w} : req'[v] = req[v]
  BY MovesStay
<1> QED BY <1>1 DEF Advances, Answering

LEMMA ReturnsAdvances ==
  ASSUME Typed, NEW w \in Workers, Returns(w)
  PROVE  Advances(w)
<1>1. Idle.pc \notin {"verify", "rehash", "code", "totp"}
  BY DEF Idle
<1> QED BY <1>1, IdleIsServed, AsideAdvances DEF Returns

\* A step from one label of a login to another.
LEMMA LoginAdvances ==
  ASSUME Typed, NEW w \in Workers, NEW pc \in {"rehash", "code", "record"},
         req[w].pc \in {"verify", "rehash", "code"},
         Moves(w, [req[w] EXCEPT !.pc = pc])
  PROVE  Advances(w)
<1>1. req[w] \in Requests /\ [req[w] EXCEPT !.pc = pc] \in Served
  BY ReqTypes DEF Labels
<1>2. /\ req'[w] = [req[w] EXCEPT !.pc = pc]
      /\ \A v \in Workers \ {w} : req'[v] = req[v]
  BY <1>1, MovesStay
<1>3. req'[w].pc = pc /\ req'[w].user = req[w].user
  BY <1>1, <1>2 DEF Requests
<1> QED BY <1>2, <1>3 DEF Advances, Answering

LEMMA SigningInAdvances ==
  ASSUME Typed, NEW w \in Workers, SigningIn(w)
  PROVE  Advances(w)
<1>1. ASSUME NEW u \in Users, Bootstrap(w, u)
      PROVE  Advances(w)
  <2> DEFINE r == [Idle EXCEPT !.pc = "insert", !.user = u, !.active = TRUE,
                               !.mustChange = TRUE, !.grants = {Admin}]
  <2>1. r \in Served
    BY IdleIsServed DEF Served, Requests, Labels, Roles
  <2>2. r.pc = "insert"
    BY DEF Idle
  <2>3. Moves(w, r)
    BY <1>1 DEF Bootstrap
  <2> HIDE DEF r
  <2> QED BY <2>1, <2>2, <2>3, AsideAdvances
<1>2. ASSUME NEW u \in Users, LoginLookup(w, u)
      PROVE  Advances(w)
  <2> DEFINE r == [Idle EXCEPT !.pc = "verify", !.user = u, !.weak = row[u].weak,
                     !.secret = row[u].secret, !.enrolled = row[u].enrolled,
                     !.failures = row[u].failures]
  <2>0. row[u] \in Account
    BY RowTypes
  <2>1. r \in Served
    BY <2>0, IdleIsServed DEF Served, Requests, Labels, Account
  <2>2. r.pc = "verify" /\ r.user = u
    BY DEF Idle
  <2>3. Moves(w, r)
    BY <1>2 DEF LoginLookup
  <2> HIDE DEF r
  <2>4. req'[w] = r /\ \A v \in Workers \ {w} : req'[v] = req[v]
    BY <2>1, <2>3, MovesStay
  <2> QED BY <1>2, <2>2, <2>4 DEF Advances, Answering
<1>3. CASE LoginFails(w)
  BY <1>3, ReturnsAdvances DEF LoginFails
<1>4. CASE LoginPassword(w)
  BY <1>4, LoginAdvances DEF LoginPassword
<1>5. CASE LoginRehash(w)
  BY <1>5, LoginAdvances DEF LoginRehash
<1>6. CASE LoginRecord(w)
  BY <1>6, ReturnsAdvances DEF LoginRecord
<1>7. ASSUME NEW s \in Sessions, LoginSession(w, s)
      PROVE  Advances(w)
  BY <1>7, LoginAdvances, ReturnsAdvances DEF LoginSession
<1>8. ASSUME NEW s \in Sessions, VerifyStepUp(w, s)
      PROVE  Advances(w)
  BY <1>8, UnchangedAdvances DEF VerifyStepUp
<1> QED BY <1>1, <1>2, <1>3, <1>4, <1>5, <1>6, <1>7, <1>8 DEF SigningIn

LEMMA SecondFactorAdvances ==
  ASSUME Typed, NEW w \in Workers, SecondFactor(w)
  PROVE  Advances(w)
<1>1. ASSUME NEW r \in Served, Moves(w, r), r.pc = "totp"
      PROVE  Advances(w)
  <2>1. req'[w] = r /\ \A v \in Workers \ {w} : req'[v] = req[v]
    BY <1>1, MovesStay
  <2> QED BY <1>1, <2>1 DEF Advances, Answering
<1>2. ASSUME NEW u \in Users, NEW k \in Secrets \cup {NoSecret}, NEW enrolled \in BOOLEAN,
             WillSet(w, u, k, enrolled)
      PROVE  Advances(w)
  <2> DEFINE r == [Idle EXCEPT !.pc = "totp", !.user = u, !.secret = k,
                               !.enrolled = enrolled]
  <2>1. r \in Served
    BY IdleIsServed DEF Served, Requests, Labels
  <2>2. r.pc = "totp"
    BY DEF Idle
  <2>3. Moves(w, r)
    BY <1>2 DEF WillSet
  <2> HIDE DEF r
  <2> QED BY <1>1, <2>1, <2>2, <2>3
<1>3. accounts \subseteq Users /\ \A u \in accounts : row[u] \in Account
  BY RowTypes DEF Typed
<1>4. CASE SetTOTP(w)
  BY <1>4, ReturnsAdvances DEF SetTOTP
<1>5. ASSUME NEW a \in accounts, NEW k \in Secrets, EnrolTOTP(w, a, k)
      PROVE  Advances(w)
  BY <1>2, <1>3, <1>5 DEF EnrolTOTP
<1>6. ASSUME NEW a \in accounts, ConfirmTOTP(w, a)
      PROVE  Advances(w)
  <2>1. row[a].secret \in Secrets
    BY <1>3, <1>6 DEF ConfirmTOTP, ShowsCode, Account
  <2> QED BY <1>2, <1>3, <1>6, <2>1 DEF ConfirmTOTP
<1>7. ASSUME NEW a \in accounts, DisableTOTP(w, a)
      PROVE  Advances(w)
  BY <1>2, <1>3, <1>7 DEF DisableTOTP
<1>8. ASSUME NEW a \in accounts, NEW u \in accounts, ResetTOTP(w, a, u)
      PROVE  Advances(w)
  BY <1>2, <1>3, <1>8 DEF ResetTOTP
<1> QED BY <1>4, <1>5, <1>6, <1>7, <1>8 DEF SecondFactor

LEMMA RequestingAdvances ==
  ASSUME Typed, NEW w \in Workers, NEW a \in accounts, NEW u \in Users,
         CreateUser(w, a, u) \/ UpdateUser(w, a, u) \/ SetPassword(w, a, u) \/ DeleteUser(w, a, u)
  PROVE  Advances(w)
<1>0. req' \in [Workers -> Served]
  BY RequestingType DEF Typed
<1> DEFINE r == req'[w]
<1>1. \A v \in Workers \ {w} : req'[v] = req[v]
  BY DEF CreateUser, UpdateUser, SetPassword, DeleteUser, Moves, Typed
<1>2. CASE CreateUser(w, a, u)
  <2>1. req'[w].pc = "insert"
    BY <1>2 DEF CreateUser, Moves, Typed, Idle
  <2> QED BY <1>1, <2>1 DEF Advances, Answering
<1>3. CASE UpdateUser(w, a, u) \/ SetPassword(w, a, u) \/ DeleteUser(w, a, u)
  <2>2. req'[w].pc \in {"profile", "password", "delete"}
    <3>1. CASE UpdateUser(w, a, u)
      <4> PICK active \in BOOLEAN, mustChange \in BOOLEAN, unlock \in BOOLEAN,
               then \in {"roles", "done"} :
            Moves(w, [Idle EXCEPT !.pc = "profile", !.user = u, !.self = a = u,
                        !.active = active, !.mustChange = mustChange,
                        !.unlock = unlock, !.then = then])
        BY <3>1 DEF UpdateUser
      <4> QED BY DEF Moves, Typed, Idle
    <3>2. CASE SetPassword(w, a, u)
      BY <3>2 DEF SetPassword, Moves, Typed, Idle
    <3>3. CASE DeleteUser(w, a, u)
      BY <3>3 DEF DeleteUser, Moves, Typed, Idle
    <3> QED BY <1>3, <3>1, <3>2, <3>3
  <2> QED BY <1>1, <2>2 DEF Advances, Answering
<1> QED BY <1>2, <1>3

LEMMA BindsAdvances ==
  ASSUME Typed, NEW w \in Workers, NEW r \in Served, Binds(w, r), r.pc \in {"new", "bind"}
  PROVE  Advances(w)
<1>1. CASE Returns(w)
  BY <1>1, ReturnsAdvances
<1>2. CASE Moves(w, r)
  <2>1. req'[w] = r /\ \A v \in Workers \ {w} : req'[v] = req[v]
    BY <1>2, MovesStay
  <2> QED BY <2>1 DEF Advances, Answering
<1> QED BY <1>1, <1>2 DEF Binds, Returns

LEMMA EditingAdvances ==
  ASSUME Typed, NEW w \in Workers,
         \/ Insert(w) \/ GrantRole(w) \/ RevokeRole(w)
         \/ WriteProfile(w) \/ ChooseRoles(w) \/ WritePassword(w) \/ Remove(w)
  PROVE  Advances(w)
<1> DEFINE u == req[w].user
<1>0. req[w] \in Requests /\ u \in Users /\ req[w].pc # "idle"
  BY ReqTypes
  DEF Insert, GrantRole, RevokeRole, WriteProfile, ChooseRoles, WritePassword, Remove
<1>1. CASE Insert(w)
  <2> DEFINE r == [Idle EXCEPT !.pc = "new", !.user = u, !.grants = req[w].grants]
  <2>1. Returns(w) \/ Binds(w, r)
    BY <1>1 DEF Insert
  <2>2. r \in Served /\ r.pc = "new"
    <3>1. req[w].grants \in SUBSET Roles
      BY <1>0 DEF Requests
    <3> QED BY <1>0, <3>1, EditRequests DEF Idle
  <2> HIDE DEF r
  <2> QED BY <2>1, <2>2, ReturnsAdvances, BindsAdvances
<1>2. CASE GrantRole(w)
  <2> PICK g \in req[w].grants :
        \/ Binds(w, [req[w] EXCEPT !.grants = @ \ {g}])
        \/ Returns(w)
    BY <1>2 DEF GrantRole
  <2> DEFINE r == [req[w] EXCEPT !.grants = @ \ {g}]
  <2>1. r \in Served /\ r.pc = req[w].pc /\ r.user = u
    BY <1>0 DEF Served, Requests
  <2>2. req[w].pc \in {"new", "bind"} /\ (Binds(w, r) \/ Returns(w))
    BY <1>2 DEF GrantRole
  <2> HIDE DEF r
  <2> QED BY <2>1, <2>2, ReturnsAdvances, BindsAdvances
<1>3. CASE RevokeRole(w)
  <2> PICK g \in req[w].revokes : Binds(w, [req[w] EXCEPT !.revokes = @ \ {g}])
    BY <1>3 DEF RevokeRole
  <2> DEFINE r == [req[w] EXCEPT !.revokes = @ \ {g}]
  <2>1. r \in Served /\ r.pc = req[w].pc /\ r.user = u
    BY <1>0 DEF Served, Requests
  <2>2. req[w].pc = "bind" /\ Binds(w, r)
    BY <1>3 DEF RevokeRole
  <2> HIDE DEF r
  <2> QED BY <2>1, <2>2, BindsAdvances
<1>4. CASE WriteProfile(w)
  <2> DEFINE r == [Idle EXCEPT !.pc = "roles", !.user = u, !.self = req[w].self]
  <2>1. req[w].pc = "profile" /\ (Returns(w) \/ Moves(w, r))
    BY <1>4 DEF WriteProfile, Returns
  <2>2. r \in Served /\ r.pc = "roles" /\ r.user = u
    <3>1. req[w].self \in BOOLEAN
      BY <1>0 DEF Requests
    <3> QED BY <1>0, <3>1, EditRequests DEF Idle
  <2> HIDE DEF r
  <2> QED BY <2>1, <2>2, ReturnsAdvances, AsideAdvances
<1>5. CASE ChooseRoles(w)
  <2> PICK wanted \in SUBSET Roles :
        \/ Returns(w)
        \/ Binds(w, [Idle EXCEPT !.pc = "bind", !.user = u,
                       !.grants = wanted \ roles[u], !.revokes = roles[u] \ wanted])
    BY <1>5 DEF ChooseRoles
  <2> DEFINE r == [Idle EXCEPT !.pc = "bind", !.user = u,
                     !.grants = wanted \ roles[u], !.revokes = roles[u] \ wanted]
  <2>1. r \in Served /\ r.pc = "bind" /\ r.user = u
    <3>1. wanted \ roles[u] \in SUBSET Roles /\ roles[u] \ wanted \in SUBSET Roles
      BY <1>0 DEF Typed
    <3> QED BY <1>0, <3>1, EditRequests DEF Idle
  <2>2. req[w].pc = "roles" /\ (Returns(w) \/ Binds(w, r))
    BY <1>5 DEF ChooseRoles
  <2> HIDE DEF r
  <2> QED BY <2>1, <2>2, ReturnsAdvances, BindsAdvances
<1>6. CASE WritePassword(w)
  <2> DEFINE r == [req[w] EXCEPT !.pc = "profile"]
  <2>1. req[w].pc = "password" /\ Moves(w, r)
    BY <1>6 DEF WritePassword
  <2>2. r \in Served /\ r.pc = "profile" /\ r.user = u
    BY <1>0, ReqTypes DEF Requests, Labels
  <2> HIDE DEF r
  <2> QED BY <2>1, <2>2, AsideAdvances
<1>7. CASE Remove(w)
  BY <1>7, ReturnsAdvances DEF Remove
<1> QED BY <1>1, <1>2, <1>3, <1>4, <1>5, <1>6, <1>7

LEMMA WorkerAdvances ==
  ASSUME Typed, NEW w \in Workers,
         SigningIn(w) \/ Minting(w) \/ SecondFactor(w) \/ Administering(w) \/ Abandon(w)
  PROVE  Advances(w)
<1>1. CASE Minting(w)
  BY <1>1, UnchangedAdvances DEF Minting, CreateToken, TokenEnds
<1>2. CASE Abandon(w)
  BY <1>2, ReturnsAdvances DEF Abandon
<1>3. CASE Administering(w)
  BY <1>3, RequestingAdvances, EditingAdvances DEF Administering
<1> QED BY <1>1, <1>2, <1>3, SigningInAdvances, SecondFactorAdvances

-----------------------------------------------------------------------------
(* What goes with an account.                                              *)

LEMMA CascadeStep == Typed /\ Cascade /\ [Next]_vars => Cascade'
<1> SUFFICES ASSUME Typed, Cascade, [Next]_vars
             PROVE  Cascade'
  OBVIOUS
<1> USE DEF grantVars, loginVars
<1>1. ASSUME UNCHANGED <<accounts, roles, session, token>>
      PROVE  Cascade'
  BY <1>1 DEF Cascade
<1>2. CASE UNCHANGED vars
  BY <1>1, <1>2 DEF vars
<1>3. ASSUME NEW w \in Workers, SigningIn(w)
      PROVE  Cascade'
  <2>1. ASSUME NEW s \in Sessions, LoginSession(w, s)
        PROVE  Cascade'
    BY <2>1 DEF LoginSession, Cascade, Typed
  <2>2. ASSUME NEW s \in Sessions, VerifyStepUp(w, s)
        PROVE  Cascade'
    <3>1. session[s].user \in accounts /\ session[s] \in SessionRows
      BY <2>2 DEF VerifyStepUp, BySession, Typed
    <3>2. [session[s] EXCEPT !.mfa = TRUE].user \in accounts
      BY <3>1 DEF SessionRows
    <3>3. session' = [session EXCEPT ![s] = [session[s] EXCEPT !.mfa = TRUE]]
      BY <2>2 DEF VerifyStepUp
    <3> QED BY <2>2, <3>2, <3>3 DEF VerifyStepUp, Cascade, Typed
  <2> QED BY <1>1, <1>3, <2>1, <2>2
      DEF SigningIn, Bootstrap, LoginLookup, LoginFails, LoginPassword, LoginRehash, LoginRecord
<1>4. ASSUME NEW w \in Workers, Minting(w)
      PROVE  Cascade'
  <2> PICK a \in accounts, t \in Tokens : CreateToken(w, a, t) \/ TokenEnds(w, a, t)
    BY <1>4 DEF Minting
  <2>1. CASE CreateToken(w, a, t)
    <3> PICK u \in accounts : \E perms \in SUBSET Rights(u) :
          token' = [token EXCEPT ![t] = [user |-> u, perms |-> perms]]
      BY <2>1 DEF CreateToken
    <3> QED BY <2>1 DEF CreateToken, Cascade, Typed
  <2>2. CASE TokenEnds(w, a, t)
    BY <2>2 DEF TokenEnds, Cascade, Typed
  <2> QED BY <2>1, <2>2
<1>5. ASSUME NEW w \in Workers, SecondFactor(w)
      PROVE  Cascade'
  BY <1>1, <1>5 DEF SecondFactor, EnrolTOTP, ConfirmTOTP, DisableTOTP, ResetTOTP, SetTOTP
<1>6. ASSUME NEW w \in Workers, Administering(w)
      PROVE  Cascade'
  <2>1. CASE Insert(w)
    BY <2>1 DEF Insert, Cascade
  <2>2. CASE GrantRole(w)
    BY <2>2 DEF GrantRole, Cascade, Typed
  <2>3. CASE RevokeRole(w)
    BY <2>3 DEF RevokeRole, Cascade, Typed
  <2>4. CASE Remove(w)
    BY <2>4 DEF Remove, Cascade, Typed
  <2> QED BY <1>1, <1>6, <2>1, <2>2, <2>3, <2>4
      DEF Administering, CreateUser, UpdateUser, SetPassword, DeleteUser, WriteProfile,
          ChooseRoles, WritePassword
<1>7. ASSUME NEW w \in Workers, Abandon(w)
      PROVE  Cascade'
  BY <1>1, <1>7 DEF Abandon
<1>8. CASE Clock
  BY <1>1, <1>8 DEF Clock, LockExpires, SessionEnds, Cascade, Typed
<1> QED BY <1>2, <1>3, <1>4, <1>5, <1>6, <1>7, <1>8 DEF Next

-----------------------------------------------------------------------------
(* The second factor.                                                      *)

\* No step but SetTOTP switches codes on or changes the secret they are for.
Alike(u) == row'[u].enrolled => row[u].enrolled /\ row'[u].secret = row[u].secret

LEMMA FieldsKept ==
  ASSUME Typed, NEW u \in Users
  PROVE  \A r \in {Failed(row[u]), Reopened(row[u])} :
           /\ r.enrolled = row[u].enrolled /\ r.secret = row[u].secret
           /\ r.active = row[u].active
<1>1. row[u] \in Account
  BY DEF Typed
<1> QED BY <1>1 DEF Failed, Reopened, Account

LEMMA HashStoredKeeps ==
  ASSUME Typed, NEW v, HashStored(v)
  PROVE  \A u \in Users : /\ row'[u].enrolled = row[u].enrolled
                          /\ row'[u].secret = row[u].secret
                          /\ row'[u].active = row[u].active
                          /\ row'[u].locked = row[u].locked
                          /\ row'[u].failures = row[u].failures
<1>1. CASE v \in accounts
  <2>1. v \in Users
    BY <1>1 DEF Typed
  <2>2. row' = [row EXCEPT ![v] = [row[v] EXCEPT !.weak = FALSE, !.mustChange = FALSE]]
    BY <1>1, <2>1 DEF HashStored, Typed
  <2> QED BY <2>1, <2>2 DEF Typed, Account
<1> QED BY <1>1 DEF HashStored

LEMMA RowsAlike ==
  ASSUME Typed, NEW w \in Workers,
         \/ SigningIn(w) \/ Minting(w) \/ Administering(w) \/ Abandon(w)
         \/ SecondFactor(w) /\ ~SetTOTP(w)
  PROVE  \A u \in Users : Alike(u)
<1>1. CASE UNCHANGED row
  BY <1>1 DEF Alike
<1>2. ASSUME NEW v, HashStored(v)
      PROVE  \A u \in Users : Alike(u)
  BY <1>2, HashStoredKeeps DEF Alike
<1>3. ASSUME NEW v \in Users, NEW r, r.enrolled => row[v].enrolled /\ r.secret = row[v].secret,
             row' = [row EXCEPT ![v] = r]
      PROVE  \A u \in Users : Alike(u)
  BY <1>3 DEF Alike, Typed
<1>4. CASE LoginFails(w) \/ LoginRecord(w)
  <2>1. req[w].user \in Users
    BY <1>4, ReqTypes DEF LoginFails, LoginRecord
  <2>2. \/ UNCHANGED row
        \/ row' = [row EXCEPT ![req[w].user] = Failed(row[req[w].user])]
        \/ row' = [row EXCEPT ![req[w].user] = Reopened(row[req[w].user])]
    BY <1>4 DEF LoginFails, LoginRecord, Counted
  <2> QED BY <1>1, <2>1, <2>2, FieldsKept DEF Alike, Typed
<1>5. CASE SigningIn(w) /\ ~LoginFails(w) /\ ~LoginRecord(w)
  BY <1>1, <1>2, <1>5
  DEF SigningIn, Bootstrap, LoginLookup, LoginPassword, LoginRehash, LoginSession, VerifyStepUp
<1>6. CASE Insert(w) \/ Remove(w)
  <2>1. req[w].user \in Users
    BY <1>6, ReqTypes DEF Insert, Remove
  <2>2. \/ UNCHANGED row
        \/ \E active, mustChange \in BOOLEAN :
             row' = [row EXCEPT ![req[w].user] = NewRow(active, mustChange)]
    <3>1. req[w].active \in BOOLEAN /\ req[w].mustChange \in BOOLEAN
      BY ReqTypes DEF Requests
    <3> QED BY <1>6, <3>1 DEF Insert, Remove
  <2>3. \A active, mustChange \in BOOLEAN : ~NewRow(active, mustChange).enrolled
    BY DEF NewRow
  <2> QED BY <1>1, <2>1, <2>2, <2>3 DEF Alike, Typed
<1>7. CASE WriteProfile(w)
  <2> DEFINE u == req[w].user
             r == IF req[w].unlock THEN Reopened(row[u]) ELSE row[u]
             s == [r EXCEPT !.active = req[w].active, !.mustChange = req[w].mustChange]
  <2>1. u \in Users
    BY <1>7, ReqTypes DEF WriteProfile
  <2>2. UNCHANGED row \/ row' = [row EXCEPT ![u] = s]
    BY <1>7 DEF WriteProfile
  <2>3. r \in Account /\ r.enrolled = row[u].enrolled /\ r.secret = row[u].secret
    BY <2>1, RowTypes, FieldsKept
  <2>4. s.enrolled = row[u].enrolled /\ s.secret = row[u].secret
    <3> HIDE DEF r, u
    <3> QED BY <2>3 DEF Account
  <2> HIDE DEF s, u
  <2> QED BY <1>1, <2>1, <2>2, <2>4 DEF Alike, Typed
<1>8. CASE Administering(w) /\ ~Insert(w) /\ ~Remove(w) /\ ~WriteProfile(w)
  BY <1>1, <1>2, <1>8
  DEF Administering, CreateUser, UpdateUser, SetPassword, DeleteUser, GrantRole, RevokeRole,
      ChooseRoles, WritePassword
<1>9. CASE Minting(w) \/ Abandon(w) \/ (SecondFactor(w) /\ ~SetTOTP(w))
  BY <1>1, <1>9
  DEF Minting, CreateToken, TokenEnds, Abandon, SecondFactor, EnrolTOTP, ConfirmTOTP,
      DisableTOTP, ResetTOTP
<1> QED BY <1>4, <1>5, <1>6, <1>7, <1>8, <1>9

\* A code is shown for a secret and never unshown.
LEMMA ProvedGrows ==
  ASSUME Typed, [Next]_vars
  PROVE  \A u \in Users : proved[u] \subseteq proved'[u]
<1> USE DEF ghostVars
<1>1. CASE UNCHANGED proved
  BY <1>1
<1>2. ASSUME NEW a \in accounts, ShowsCode(a)
      PROVE  \A u \in Users : proved[u] \subseteq proved'[u]
  BY <1>2 DEF ShowsCode, Typed
<1>3. CASE UNCHANGED vars
  BY <1>1, <1>3 DEF vars
<1>4. ASSUME NEW w \in Workers, SecondFactor(w)
      PROVE  \A u \in Users : proved[u] \subseteq proved'[u]
  BY <1>1, <1>2, <1>4
  DEF SecondFactor, EnrolTOTP, ConfirmTOTP, DisableTOTP, ResetTOTP, SetTOTP
<1>5. ASSUME NEW w \in Workers, SigningIn(w)
      PROVE  UNCHANGED proved
  BY <1>5 DEF SigningIn, Bootstrap, LoginLookup, LoginFails, LoginPassword, LoginRehash,
                    LoginRecord, LoginSession, VerifyStepUp
<1>6. ASSUME NEW w \in Workers, Minting(w) \/ Abandon(w)
      PROVE  UNCHANGED proved
  BY <1>6 DEF Minting, CreateToken, TokenEnds, Abandon
<1>7. ASSUME NEW w \in Workers, Administering(w)
      PROVE  UNCHANGED proved
  BY <1>7 DEF Administering, CreateUser, UpdateUser, SetPassword, DeleteUser, Insert, GrantRole,
                    RevokeRole, WriteProfile, ChooseRoles, WritePassword, Remove
<1>8. CASE Clock
  BY <1>1, <1>8 DEF Clock, LockExpires, SessionEnds
<1> QED BY <1>1, <1>3, <1>4, <1>5, <1>6, <1>7, <1>8 DEF Next

\* The request a step begins confirms a secret only when it is shown.
LEMMA WillSetProven ==
  ASSUME Typed, NEW w \in Workers, SecondFactor(w), ~SetTOTP(w)
  PROVE  req'[w].enrolled => req'[w].secret \in proved'[req'[w].user]
<1>1. ASSUME NEW u \in Users, NEW k \in Secrets \cup {NoSecret}, NEW enrolled \in BOOLEAN,
             WillSet(w, u, k, enrolled)
      PROVE  /\ req'[w].enrolled = enrolled /\ req'[w].secret = k
             /\ req'[w].user = u
  BY <1>1 DEF WillSet, Moves, Typed, Idle
<1>2. accounts \subseteq Users /\ \A u \in accounts : row[u] \in Account
  BY RowTypes DEF Typed
<1>3. ASSUME NEW a \in accounts, NEW k \in Secrets, EnrolTOTP(w, a, k)
      PROVE  ~req'[w].enrolled
  BY <1>1, <1>2, <1>3 DEF EnrolTOTP
<1>4. ASSUME NEW a \in accounts, ConfirmTOTP(w, a)
      PROVE  req'[w].secret \in proved'[req'[w].user]
  <2>1. row[a].secret \in Secrets /\ a \in Users
    BY <1>2, <1>4 DEF ConfirmTOTP, ShowsCode, Account
  <2>2. req'[w].secret = row[a].secret /\ req'[w].user = a
    BY <1>1, <1>4, <2>1 DEF ConfirmTOTP
  <2>3. row[a].secret \in proved'[a]
    BY <1>4, <2>1 DEF ConfirmTOTP, ShowsCode, Typed
  <2> QED BY <2>2, <2>3
<1>5. ASSUME NEW a \in accounts, DisableTOTP(w, a)
      PROVE  ~req'[w].enrolled
  BY <1>1, <1>2, <1>5 DEF DisableTOTP
<1>6. ASSUME NEW a \in accounts, NEW u \in accounts, ResetTOTP(w, a, u)
      PROVE  ~req'[w].enrolled
  BY <1>1, <1>2, <1>6 DEF ResetTOTP
<1> QED BY <1>3, <1>4, <1>5, <1>6 DEF SecondFactor

LEMMA EnrolmentStep == Typed /\ EnrolmentInv /\ [Next]_vars => EnrolmentInv'
<1> SUFFICES ASSUME Typed, EnrolmentInv, [Next]_vars
             PROVE  EnrolmentInv'
  OBVIOUS
<1>0. /\ \A u \in Users : proved[u] \subseteq proved'[u]
      /\ \A w \in Workers : req[w].pc = "totp" => req[w].user \in Users
  BY ProvedGrows, ReqTypes
<1>1. CASE UNCHANGED vars
  BY <1>1 DEF vars, ghostVars, EnrolmentInv
<1>2. ASSUME NEW w \in Workers,
             SigningIn(w) \/ Minting(w) \/ SecondFactor(w) \/ Administering(w) \/ Abandon(w)
      PROVE  EnrolmentInv'
  <2>0. Advances(w)
    BY <1>2, WorkerAdvances
  <2>1. CASE SetTOTP(w)
    <3>1. req[w] \in Requests /\ req[w].user \in Users /\ req[w].pc = "totp"
      BY <2>1, ReqTypes DEF SetTOTP
    <3>2. \A u \in Users : row'[u].enrolled =>
            \/ row[u].enrolled /\ row'[u].secret = row[u].secret
            \/ u = req[w].user /\ req[w].enrolled /\ row'[u].secret = req[w].secret
      BY <2>1, <3>1 DEF SetTOTP, Typed, Account
    <3>3. \A v \in Workers : req'[v] = req[v] \/ req'[v] = Idle
      BY <2>1 DEF SetTOTP, Returns, Moves, Typed
    <3>4. Idle.pc = "idle"
      BY DEF Idle
    <3> QED BY <1>0, <3>1, <3>2, <3>3, <3>4 DEF EnrolmentInv
  <2>2. CASE ~SetTOTP(w)
    <3>1. \A u \in Users : Alike(u)
      BY <1>2, <2>2, RowsAlike
    <3>2. req'[w].pc = "totp" /\ req'[w].enrolled =>
            req'[w] = req[w] \/ req'[w].secret \in proved'[req'[w].user]
      BY <2>0, <2>2, WillSetProven DEF Advances
    <3>3. \A v \in Workers : req'[v].pc = "totp" /\ req'[v].enrolled =>
            req'[v] = req[v] \/ req'[v].secret \in proved'[req'[v].user]
      BY <2>0, <3>2 DEF Advances
    <3> QED BY <1>0, <3>1, <3>3 DEF EnrolmentInv, Alike
  <2> QED BY <2>1, <2>2
<1>3. CASE Clock
  <2>1. UNCHANGED <<req, proved>>
    BY <1>3 DEF Clock, LockExpires, SessionEnds, ghostVars
  <2>2. \A u \in Users : Alike(u)
    BY <1>3 DEF Clock, LockExpires, SessionEnds, Alike, Typed, Account
  <2> QED BY <2>1, <2>2 DEF EnrolmentInv, Alike
<1> QED BY <1>1, <1>2, <1>3 DEF Next

-----------------------------------------------------------------------------
(* The lockout.                                                            *)

LEMMA Counting ==
  ASSUME NEW S \in SUBSET Workers, NEW T \in SUBSET Workers
  PROVE  /\ Cardinality(S) \in Nat /\ Cardinality(T) \in Nat /\ Cardinality(Workers) \in Nat
         /\ Cardinality(S) <= Cardinality(Workers)
         /\ T \subseteq S => Cardinality(T) <= Cardinality(S)
         /\ \A w \in S : T \subseteq S \ {w} => Cardinality(T) <= Cardinality(S) - 1
<1>1. IsFiniteSet(S) /\ IsFiniteSet(T) /\ IsFiniteSet(Workers)
  BY AccountsAssumption, FS_Subset DEF AccountsAssumption
<1>2. /\ Cardinality(S) \in Nat /\ Cardinality(T) \in Nat /\ Cardinality(Workers) \in Nat
      /\ Cardinality(S) <= Cardinality(Workers)
  BY <1>1, FS_CardinalityType, FS_Subset
<1>3. T \subseteq S => Cardinality(T) <= Cardinality(S)
  BY <1>1, FS_Subset
<1>4. ASSUME NEW w \in S, T \subseteq S \ {w}
      PROVE  Cardinality(T) <= Cardinality(S) - 1
  <2>1. /\ IsFiniteSet(S \ {w})
        /\ Cardinality(S \ {w}) = IF w \in S THEN Cardinality(S) - 1 ELSE Cardinality(S)
    BY <1>1, FS_RemoveElement
  <2>2. Cardinality(T) <= Cardinality(S \ {w})
    BY <1>4, <2>1, FS_Subset
  <2> QED BY <1>2, <1>4, <2>1, <2>2
<1> QED BY <1>2, <1>3, <1>4

LEMMA ChargeTypes ==
  ASSUME Typed, NEW u \in Users
  PROVE  /\ guesses[u] \in Nat /\ row[u] \in Account
         /\ row[u].failures \in 0 .. MaxFailed /\ row[u].locked \in BOOLEAN
         /\ InFlight(u) \in SUBSET Workers
         /\ MaxFailed \in Nat /\ MaxFailed > 0
  BY AccountsAssumption DEF Typed, Account, InFlight, AccountsAssumption

\* What a step owes account u when it lets nobody in to guess and nobody guesses.
Quiet(u) ==
  /\ guesses'[u] = guesses[u] \/ guesses'[u] = 0
  /\ u \in accounts' /\ ~row'[u].locked =>
       \/ guesses'[u] = 0
       \/ u \in accounts /\ ~row[u].locked /\ row'[u].failures = row[u].failures
  /\ u \notin accounts' \cup deleted' => u \notin accounts \cup deleted

LEMMA LockoutQuiet ==
  ASSUME Typed, Typed', NEW u \in Users, LockoutInv(u), Quiet(u),
         InFlight(u)' \subseteq InFlight(u)
  PROVE  LockoutInv(u)'
<1>1. InFlight(u) \in SUBSET Workers /\ InFlight(u)' \in SUBSET Workers
  BY DEF InFlight
<1>2. /\ Cardinality(InFlight(u)') <= Cardinality(InFlight(u))
      /\ Cardinality(InFlight(u)') \in Nat /\ Cardinality(InFlight(u)) \in Nat
      /\ Cardinality(InFlight(u)) <= Cardinality(Workers) /\ Cardinality(Workers) \in Nat
  BY <1>1, Counting
<1>3. /\ guesses[u] \in Nat /\ guesses'[u] \in Nat /\ MaxFailed \in Nat /\ MaxFailed > 0
      /\ row'[u].failures \in Nat
  <2>1. row'[u] \in Account /\ guesses'[u] \in Nat
    BY DEF Typed
  <2> QED BY <2>1, ChargeTypes DEF Account
<1>4. guesses'[u] + Cardinality(InFlight(u)') <= MaxFailed + Cardinality(Workers) - 1
  BY <1>2, <1>3 DEF LockoutInv, Quiet
<1>5. u \in accounts' /\ ~row'[u].locked =>
        guesses'[u] <= row'[u].failures /\ guesses'[u] < MaxFailed
  BY <1>3 DEF LockoutInv, Quiet
<1>6. u \notin accounts' \cup deleted' => guesses'[u] = 0 /\ InFlight(u)' = {}
  BY DEF LockoutInv, Quiet
<1> QED BY <1>4, <1>5, <1>6 DEF LockoutInv

\* The two steps that are not quiet: a login let in, and one that fails.
LEMMA LockoutLookup ==
  ASSUME Typed, Typed', NEW u \in Users, LockoutInv(u), NEW w \in Workers, LoginLookup(w, u)
  PROVE  LockoutInv(u)'
<1>1. /\ u \in accounts /\ ~row[u].locked
      /\ UNCHANGED <<accounts, row, guesses, deleted>>
  BY DEF LoginLookup, grantVars, ghostVars
<1>2. InFlight(u)' \in SUBSET Workers
  BY DEF InFlight
<1>3. /\ Cardinality(InFlight(u)') \in Nat /\ Cardinality(Workers) \in Nat
      /\ Cardinality(InFlight(u)') <= Cardinality(Workers)
  BY <1>2, Counting
<1>4. guesses[u] + Cardinality(InFlight(u)') <= MaxFailed + Cardinality(Workers) - 1
  BY <1>1, <1>3, ChargeTypes DEF LockoutInv
<1> QED BY <1>1, <1>4 DEF LockoutInv

LEMMA LockoutFails ==
  ASSUME Typed, Typed', NEW w \in Workers, LoginFails(w),
         NEW u \in Users, u = req[w].user, LockoutInv(u)
  PROVE  LockoutInv(u)'
<1>0. w \in InFlight(u)
  BY DEF LoginFails, InFlight, Answering
<1>1. /\ UNCHANGED <<accounts, deleted>> /\ Returns(w)
      /\ guesses' = [guesses EXCEPT ![u] = @ + 1] /\ Counted(u)
  BY DEF LoginFails, grantVars
<1>2. u \in accounts \cup deleted
  BY <1>0 DEF LockoutInv
<1>3. guesses'[u] = guesses[u] + 1
  BY <1>0, <1>1 DEF Typed
<1>4. \A v \in Workers : req'[v] = IF v = w THEN Idle ELSE req[v]
  BY <1>1 DEF Returns, Moves, Typed
<1>5. InFlight(u)' \subseteq InFlight(u) \ {w}
  <2>1. ~(Idle.pc \in {"verify", "rehash", "code"})
    BY DEF Idle
  <2>2. \A v \in Workers : (Answering(v, u))' => v # w /\ Answering(v, u)
    BY <1>4, <2>1 DEF Answering
  <2> QED BY <2>2 DEF InFlight
<1>6. InFlight(u) \in SUBSET Workers /\ InFlight(u)' \in SUBSET Workers
  BY DEF InFlight
<1>7. /\ Cardinality(InFlight(u)') <= Cardinality(InFlight(u)) - 1
      /\ Cardinality(InFlight(u)') \in Nat /\ Cardinality(InFlight(u)) \in Nat
      /\ Cardinality(Workers) \in Nat
  BY <1>0, <1>5, <1>6, Counting
<1>8. guesses'[u] + Cardinality(InFlight(u)') <= MaxFailed + Cardinality(Workers) - 1
  BY <1>0, <1>3, <1>7, ChargeTypes DEF LockoutInv
<1>9. ASSUME u \in accounts, ~row'[u].locked
      PROVE  guesses'[u] <= row'[u].failures /\ guesses'[u] < MaxFailed
  <2>1. row'[u] = Failed(row[u])
    BY <1>0, <1>1, <1>9 DEF Counted, Typed
  <2>2. /\ row'[u].failures = AtLeast(row[u].failures + 1)
        /\ row'[u].locked = (row[u].locked \/ row[u].failures + 1 >= MaxFailed)
    BY <1>0, <2>1, ChargeTypes DEF Failed, Account
  <2>3. ~row[u].locked /\ ~(row[u].failures + 1 >= MaxFailed)
    BY <1>9, <2>2
  <2>4. row'[u].failures = row[u].failures + 1
    BY <2>2, <2>3 DEF AtLeast
  <2>5. guesses[u] <= row[u].failures
    BY <1>9, <2>3 DEF LockoutInv
  <2> QED BY <1>0, <1>3, <2>3, <2>4, <2>5, ChargeTypes
<1> QED BY <1>1, <1>2, <1>8, <1>9 DEF LockoutInv

LEMMA QuietRow ==
  ASSUME UNCHANGED <<accounts, deleted, guesses>>, NEW u \in Users,
         \/ row'[u] = row[u]
         \/ row'[u].locked = row[u].locked /\ row'[u].failures = row[u].failures
  PROVE  Quiet(u)
  BY DEF Quiet

LEMMA SigningInQuiet ==
  ASSUME Typed, NEW w \in Workers, SigningIn(w), ~LoginFails(w)
  PROVE  \A u \in Users : Quiet(u)
<1> USE DEF grantVars, ghostVars
<1>1. CASE LoginRehash(w)
  <2>1. UNCHANGED <<accounts, deleted, guesses>> /\ HashStored(req[w].user)
    BY <1>1 DEF LoginRehash
  <2> QED BY <2>1, HashStoredKeeps, QuietRow
<1>2. CASE LoginRecord(w)
  <2>1. req[w].user \in Users
    BY <1>2, ReqTypes DEF LoginRecord
  <2>2. /\ guesses' = [guesses EXCEPT ![req[w].user] = 0] /\ UNCHANGED <<accounts, deleted>>
        /\ \A u \in Users \ {req[w].user} : row'[u] = row[u]
    BY <1>2, <2>1 DEF LoginRecord, Typed
  <2> QED BY <2>1, <2>2 DEF Quiet, Typed
<1>3. CASE UNCHANGED <<accounts, deleted, guesses, row>>
  BY <1>3, QuietRow
<1> QED BY <1>1, <1>2, <1>3
    DEF SigningIn, Bootstrap, LoginLookup, LoginPassword, LoginSession, VerifyStepUp

LEMMA SecondFactorQuiet ==
  ASSUME Typed, NEW w \in Workers, SecondFactor(w)
  PROVE  \A u \in Users : Quiet(u)
<1> USE DEF grantVars, ghostVars
<1>1. CASE SetTOTP(w)
  <2>1. UNCHANGED <<accounts, deleted, guesses>>
    BY <1>1 DEF SetTOTP
  <2>2. \A u \in Users : row'[u].locked = row[u].locked /\ row'[u].failures = row[u].failures
    BY <1>1 DEF SetTOTP, Typed, Account
  <2> QED BY <2>1, <2>2, QuietRow
<1>2. CASE UNCHANGED <<accounts, deleted, guesses, row>>
  BY <1>2, QuietRow
<1> QED BY <1>1, <1>2 DEF SecondFactor, EnrolTOTP, ConfirmTOTP, DisableTOTP, ResetTOTP

LEMMA AdministeringQuiet ==
  ASSUME Typed, \A u \in Users : LockoutInv(u), NEW w \in Workers, Administering(w)
  PROVE  \A u \in Users : Quiet(u)
<1> USE DEF grantVars, ghostVars
<1>1. CASE Insert(w)
  <2>1. req[w].user \in Users
    BY <1>1, ReqTypes DEF Insert
  <2>2. UNCHANGED <<deleted, guesses>>
    BY <1>1 DEF Insert
  <2>3. CASE UNCHANGED <<accounts, row>>
    BY <2>2, <2>3, QuietRow
  <2>4. CASE ~UNCHANGED <<accounts, row>>
    <3>1. /\ req[w].user \notin accounts \cup deleted
          /\ accounts' = accounts \cup {req[w].user}
          /\ \A u \in Users \ {req[w].user} : row'[u] = row[u]
      BY <1>1, <2>1, <2>4 DEF Insert, Typed
    <3>2. guesses'[req[w].user] = 0
      BY <2>1, <2>2, <3>1 DEF LockoutInv
    <3> QED BY <2>1, <2>2, <3>1, <3>2 DEF Quiet
  <2> QED BY <2>3, <2>4
<1>2. CASE Remove(w)
  <2>1. req[w].user \in Users
    BY <1>2, ReqTypes DEF Remove
  <2>2. /\ UNCHANGED guesses /\ accounts' = accounts \ {req[w].user}
        /\ deleted' = deleted \cup {req[w].user}
        /\ \A u \in Users \ {req[w].user} : row'[u] = row[u]
    BY <1>2, <2>1 DEF Remove, Typed
  <2> QED BY <2>1, <2>2 DEF Quiet
<1>3. CASE WriteProfile(w)
  <2> DEFINE v == req[w].user
             r == IF req[w].unlock THEN Reopened(row[v]) ELSE row[v]
  <2>1. v \in Users /\ row[v] \in Account /\ Reopened(row[v]) \in Account
    BY <1>3, ReqTypes, RowTypes DEF WriteProfile
  <2>2. UNCHANGED <<accounts, deleted>>
    BY <1>3 DEF WriteProfile
  <2>3. CASE UNCHANGED <<row, guesses>>
    BY <2>2, <2>3, QuietRow
  <2>4. CASE ~UNCHANGED <<row, guesses>>
    <3>1. /\ row' = [row EXCEPT ![v] = [r EXCEPT !.active = req[w].active,
                                                 !.mustChange = req[w].mustChange]]
          /\ guesses' = IF req[w].unlock THEN [guesses EXCEPT ![v] = 0] ELSE guesses
          /\ v \in accounts
      BY <1>3, <2>4 DEF WriteProfile
    <3>2. \A u \in Users \ {v} : row'[u] = row[u] /\ guesses'[u] = guesses[u]
      BY <2>1, <3>1 DEF Typed
    <3>3. CASE req[w].unlock
      <4>1. guesses'[v] = 0
        BY <2>1, <3>1, <3>3 DEF Typed
      <4> QED BY <2>2, <3>2, <4>1 DEF Quiet
    <3>4. CASE ~req[w].unlock
      <4>1. row'[v] = [row[v] EXCEPT !.active = req[w].active,
                                     !.mustChange = req[w].mustChange]
        BY <2>1, <3>1, <3>4 DEF Typed
      <4>2. row'[v].locked = row[v].locked /\ row'[v].failures = row[v].failures
        BY <2>1, <4>1 DEF Account
      <4>3. UNCHANGED <<accounts, deleted, guesses>>
        BY <2>2, <3>1, <3>4
      <4> QED BY <3>2, <4>2, <4>3, QuietRow
    <3> QED BY <3>3, <3>4
  <2> QED BY <2>3, <2>4
<1>4. CASE WritePassword(w)
  <2>1. UNCHANGED <<accounts, deleted, guesses>> /\ HashStored(req[w].user)
    BY <1>4 DEF WritePassword
  <2> QED BY <2>1, HashStoredKeeps, QuietRow
<1>5. CASE UNCHANGED <<accounts, deleted, guesses, row>>
  BY <1>5, QuietRow
<1> QED BY <1>1, <1>2, <1>3, <1>4, <1>5
    DEF Administering, CreateUser, UpdateUser, SetPassword, DeleteUser, GrantRole, RevokeRole,
        ChooseRoles

LEMMA LockoutStep ==
  Typed /\ (\A u \in Users : LockoutInv(u)) /\ [Next]_vars =>
    \A u \in Users : LockoutInv(u)'
<1> SUFFICES ASSUME Typed, \A v \in Users : LockoutInv(v), [Next]_vars, NEW u \in Users
             PROVE  LockoutInv(u)'
  OBVIOUS
<1> USE DEF grantVars, ghostVars
<1>0. Typed'
  BY TypeStep
<1>1. ASSUME UNCHANGED req
      PROVE  InFlight(u)' = InFlight(u)
  BY <1>1 DEF InFlight, Answering
<1>2. CASE UNCHANGED vars
  BY <1>0, <1>1, <1>2, LockoutQuiet, QuietRow DEF vars
<1>3. ASSUME NEW w \in Workers,
             SigningIn(w) \/ Minting(w) \/ SecondFactor(w) \/ Administering(w) \/ Abandon(w)
      PROVE  LockoutInv(u)'
  <2>1. Advances(w)
    BY <1>3, WorkerAdvances
  <2>2. CASE LoginLookup(w, u)
    BY <1>0, <2>2, LockoutLookup
  <2>3. CASE ~LoginLookup(w, u)
    <3>1. InFlight(u)' \subseteq InFlight(u)
      <4>1. \A v \in Workers : (Answering(v, u))' => Answering(v, u)
        BY <2>1, <2>3 DEF Advances, Answering
      <4> QED BY <4>1 DEF InFlight
    <3>2. CASE LoginFails(w)
      <4>1. CASE u = req[w].user
        BY <1>0, <3>2, <4>1, LockoutFails
      <4>2. CASE u # req[w].user
        <5>1. UNCHANGED <<accounts, deleted>> /\ guesses'[u] = guesses[u] /\ row'[u] = row[u]
          BY <3>2, <4>2 DEF LoginFails, Counted, Typed
        <5>2. Quiet(u)
          BY <5>1 DEF Quiet
        <5> QED BY <1>0, <3>1, <5>2, LockoutQuiet
      <4> QED BY <4>1, <4>2
    <3>3. CASE ~LoginFails(w)
      <4>1. CASE Minting(w) \/ Abandon(w)
        BY <4>1, QuietRow, <1>0, <3>1, LockoutQuiet
        DEF Minting, CreateToken, TokenEnds, Abandon
      <4>2. Quiet(u) \/ Minting(w) \/ Abandon(w)
        BY <1>3, <3>3, SigningInQuiet, SecondFactorQuiet, AdministeringQuiet
      <4> QED BY <1>0, <3>1, <4>1, <4>2, LockoutQuiet
    <3> QED BY <3>2, <3>3
  <2> QED BY <2>2, <2>3
<1>4. CASE Clock
  <2>1. UNCHANGED <<req, accounts, deleted>>
    BY <1>4 DEF Clock, LockExpires, SessionEnds
  <2>2. Quiet(u)
    BY <1>4 DEF Clock, LockExpires, SessionEnds, Quiet, Typed, Account
  <2> QED BY <1>0, <1>1, <2>1, <2>2, LockoutQuiet
<1> QED BY <1>2, <1>3, <1>4 DEF Next

-----------------------------------------------------------------------------
(* The last administrator.                                                 *)

\* A step that takes an administrator away is an edit of that account, and there
\* is another one.
AdminsStay(w) ==
  \A u \in Users : IsAdmin(u) =>
    IsAdmin(u)' \/ (u = req[w].user /\ OthersAdminister(u))

LEMMA AdminsUnchanged ==
  ASSUME UNCHANGED <<accounts, roles>>, NEW w \in Workers,
         \A u \in accounts : row'[u].active = row[u].active
  PROVE  AdminsStay(w)
  BY DEF AdminsStay, IsAdmin

LEMMA SigningInAdmins ==
  ASSUME Typed, NEW w \in Workers,
         SigningIn(w) \/ Minting(w) \/ SecondFactor(w) \/ Abandon(w)
  PROVE  AdminsStay(w)
<1> USE DEF grantVars
<1>1. UNCHANGED <<accounts, roles>>
  BY DEF SigningIn, Bootstrap, LoginLookup, LoginFails, LoginPassword, LoginRehash, LoginRecord,
         LoginSession, VerifyStepUp, Minting, CreateToken, TokenEnds, SecondFactor, EnrolTOTP,
         ConfirmTOTP, DisableTOTP, ResetTOTP, SetTOTP, Abandon
<1>2. accounts \subseteq Users
  BY DEF Typed
<1>3. CASE LoginFails(w) \/ LoginRecord(w)
  <2>1. \/ UNCHANGED row
        \/ row' = [row EXCEPT ![req[w].user] = Failed(row[req[w].user])]
        \/ row' = [row EXCEPT ![req[w].user] = Reopened(row[req[w].user])]
    BY <1>3 DEF LoginFails, LoginRecord, Counted
  <2> QED BY <1>1, <1>2, <2>1, FieldsKept, AdminsUnchanged DEF Typed
<1>4. CASE LoginRehash(w)
  BY <1>1, <1>2, <1>4, HashStoredKeeps, AdminsUnchanged DEF LoginRehash
<1>5. CASE SetTOTP(w)
  BY <1>1, <1>2, <1>5, AdminsUnchanged DEF SetTOTP, Typed, Account
<1>6. CASE UNCHANGED row
  BY <1>1, <1>6, AdminsUnchanged
<1> QED BY <1>3, <1>4, <1>5, <1>6
    DEF SigningIn, Bootstrap, LoginLookup, LoginPassword, LoginSession, VerifyStepUp, Minting,
        CreateToken, TokenEnds, SecondFactor, EnrolTOTP, ConfirmTOTP, DisableTOTP, ResetTOTP,
        Abandon

LEMMA AdministeringAdmins ==
  ASSUME Typed, NEW w \in Workers, Administering(w),
         EditInv(w) \/ ~(RevokeRole(w) \/ WriteProfile(w) \/ Remove(w))
  PROVE  AdminsStay(w)
<1> USE DEF grantVars
<1>0. accounts \subseteq Users
  BY DEF Typed
<1>1. CASE Insert(w)
  <2>1. UNCHANGED roles
    BY <1>1 DEF Insert
  <2>2. \A u \in accounts : u \in accounts' /\ row'[u] = row[u]
    BY <1>0, <1>1 DEF Insert, Typed
  <2> QED BY <2>1, <2>2 DEF AdminsStay, IsAdmin
<1>2. CASE GrantRole(w)
  <2>1. UNCHANGED <<accounts, row>> /\ \A u \in Users : roles[u] \subseteq roles'[u]
    BY <1>2 DEF GrantRole, Typed
  <2> QED BY <2>1 DEF AdminsStay, IsAdmin
<1>3. CASE RevokeRole(w)
  <2> PICK r \in req[w].revokes : roles' = [roles EXCEPT ![req[w].user] = @ \ {r}]
    BY <1>3 DEF RevokeRole
  <2>1. UNCHANGED <<accounts, row>> /\ req[w].pc = "bind"
    BY <1>3 DEF RevokeRole
  <2>2. CASE r = Admin
    <3>1. OthersAdminister(req[w].user)
      BY <1>3, <2>1, <2>2 DEF EditInv
    <3>2. \A u \in Users \ {req[w].user} : roles'[u] = roles[u]
      BY DEF Typed
    <3> QED BY <2>1, <3>1, <3>2 DEF AdminsStay, IsAdmin
  <2>3. CASE r # Admin
    <3>1. \A u \in Users : Admin \in roles[u] => Admin \in roles'[u]
      BY <2>3 DEF Typed
    <3> QED BY <2>1, <3>1 DEF AdminsStay, IsAdmin
  <2> QED BY <2>2, <2>3
<1>4. CASE WriteProfile(w)
  <2> DEFINE v == req[w].user
             r == IF req[w].unlock THEN Reopened(row[v]) ELSE row[v]
  <2>1. req[w].pc = "profile" /\ UNCHANGED <<accounts, roles>>
    BY <1>4 DEF WriteProfile
  <2>2. CASE UNCHANGED row
    BY <2>1, <2>2, AdminsUnchanged
  <2>3. CASE row' = [row EXCEPT ![v] = [r EXCEPT !.active = req[w].active,
                                                 !.mustChange = req[w].mustChange]]
    <3>1. v \in Users /\ row[v] \in Account /\ r \in Account /\ req[w] \in Requests
      BY <2>1, ReqTypes, RowTypes
    <3>2. \A u \in Users \ {v} : row'[u] = row[u]
      BY <2>3 DEF Typed
    <3>3. row'[v].active = req[w].active
      <4> HIDE DEF r, v
      <4> QED BY <2>3, <3>1 DEF Typed, Account
    <3>4. req[w].active \/ OthersAdminister(v)
      BY <1>4, <2>1 DEF EditInv
    <3> QED BY <2>1, <3>2, <3>3, <3>4 DEF AdminsStay, IsAdmin
  <2> QED BY <1>4, <2>2, <2>3 DEF WriteProfile
<1>5. CASE WritePassword(w)
  <2>1. UNCHANGED <<accounts, roles>> /\ HashStored(req[w].user)
    BY <1>5 DEF WritePassword
  <2> QED BY <1>0, <2>1, HashStoredKeeps, AdminsUnchanged
<1>6. CASE Remove(w)
  <2>1. OthersAdminister(req[w].user)
    BY <1>6 DEF Remove, EditInv
  <2>2. /\ accounts' = accounts \ {req[w].user}
        /\ \A u \in Users \ {req[w].user} : row'[u] = row[u] /\ roles'[u] = roles[u]
    BY <1>6 DEF Remove, Typed
  <2> QED BY <1>0, <2>1, <2>2 DEF AdminsStay, IsAdmin
<1>7. CASE UNCHANGED <<accounts, roles, row>>
  BY <1>7, AdminsUnchanged
<1> QED BY <1>1, <1>2, <1>3, <1>4, <1>5, <1>6, <1>7
    DEF Administering, CreateUser, UpdateUser, SetPassword, DeleteUser, ChooseRoles

LEMMA WorkerAdmins ==
  ASSUME Typed, NEW w \in Workers,
         EditInv(w) \/ ~(RevokeRole(w) \/ WriteProfile(w) \/ Remove(w)),
         SigningIn(w) \/ Minting(w) \/ SecondFactor(w) \/ Administering(w) \/ Abandon(w)
  PROVE  AdminsStay(w)
  BY SigningInAdmins, AdministeringAdmins

\* Another administrator than the account being edited stays one.
LEMMA OthersStay ==
  ASSUME NEW w \in Workers, AdminsStay(w), NEW u \in Users, OthersAdminister(u),
         u = req[w].user
  PROVE  OthersAdminister(u)'
<1> PICK v \in Users \ {u} : IsAdmin(v)
  BY DEF OthersAdminister
<1>1. IsAdmin(v)'
  BY DEF AdminsStay
<1> QED BY <1>1 DEF OthersAdminister

\* So an administrator remains.
LEMMA AdministratorStays ==
  ASSUME NEW w \in Workers, AdminsStay(w)
  PROVE  HasAdministrator => HasAdministrator'
<1> SUFFICES ASSUME NEW u \in Users, IsAdmin(u)
             PROVE  HasAdministrator'
  BY DEF HasAdministrator
<1>1. CASE IsAdmin(u)'
  BY <1>1 DEF HasAdministrator
<1>2. CASE ~IsAdmin(u)'
  <2>1. u = req[w].user /\ OthersAdminister(u)
    BY <1>2 DEF AdminsStay
  <2>2. OthersAdminister(u)'
    BY <2>1, OthersStay
  <2> QED BY <2>2 DEF OthersAdminister, HasAdministrator
<1> QED BY <1>1, <1>2

\* Whoever may write accounts is an active administrator.
LEMMA CallerAdministers ==
  ASSUME Typed, NEW a \in accounts, Holds(a, "user.write")
  PROVE  IsAdmin(a)
<1>1. a \in accounts /\ row[a].active
  BY DEF Holds, BySession, ByToken
<1>2. PICK r \in roles[a] : "user.write" \in SystemRoles(r)
  BY DEF Holds, Rights
<1>3. r \in Roles
  BY <1>2 DEF Typed
<1>4. r = Admin
  BY <1>2, <1>3 DEF Roles, SystemRoles, Admin
<1> QED BY <1>1, <1>2, <1>4 DEF IsAdmin

\* The three writes that can take an administrator away move their request on.
LEMMA LosingMoves ==
  ASSUME Typed, NEW w \in Workers, RevokeRole(w) \/ WriteProfile(w) \/ Remove(w)
  PROVE  req'[w] # req[w]
<1>1. CASE RevokeRole(w)
  <2> PICK g \in req[w].revokes : Binds(w, [req[w] EXCEPT !.revokes = @ \ {g}])
    BY <1>1 DEF RevokeRole
  <2>1. req[w] \in Requests /\ req[w].pc = "bind"
    BY <1>1, ReqTypes DEF RevokeRole
  <2>2. CASE Moves(w, [req[w] EXCEPT !.revokes = @ \ {g}])
    <3>1. req'[w].revokes = req[w].revokes \ {g}
      BY <2>1, <2>2 DEF Moves, Typed, Requests
    <3> QED BY <3>1
  <2>3. CASE Moves(w, Idle)
    BY <2>1, <2>3 DEF Moves, Typed, Idle
  <2> QED BY <2>2, <2>3 DEF Binds
<1>2. CASE WriteProfile(w)
  <2>1. req'[w].pc \in {"idle", "roles"}
    <3>1. CASE Returns(w)
      BY <3>1 DEF Returns, Moves, Typed, Idle
    <3>2. CASE Moves(w, [Idle EXCEPT !.pc = "roles", !.user = req[w].user, !.self = req[w].self])
      BY <3>2 DEF Moves, Typed, Idle
    <3> QED BY <1>2, <3>1, <3>2 DEF WriteProfile, Returns
  <2> QED BY <1>2, <2>1 DEF WriteProfile
<1>3. CASE Remove(w)
  BY <1>3 DEF Remove, Returns, Moves, Typed, Idle
<1> QED BY <1>1, <1>2, <1>3

\* What an edit has checked, said of the account by name.
LEMMA EditHolds ==
  ASSUME NEW w \in Workers, NEW u \in Users, req'[w].user = u,
         req'[w].pc \in {"password", "profile"} => req'[w].active \/ OthersAdminister(u)',
         req'[w].pc = "bind" /\ Admin \in req'[w].revokes => OthersAdminister(u)',
         req'[w].pc = "delete" => OthersAdminister(u)'
  PROVE  EditInv(w)'
  BY DEF EditInv, OthersAdminister

LEMMA AsideEdits ==
  ASSUME NEW w \in Workers, req'[w].pc \notin Edits
  PROVE  EditInv(w)'
  BY DEF EditInv, Edits

LEMMA SigningInEdits ==
  ASSUME Typed, NEW w \in Workers, EditInv(w),
         SigningIn(w) \/ Minting(w) \/ SecondFactor(w) \/ Abandon(w)
  PROVE  EditInv(w)'
<1> USE DEF grantVars
<1>1. ASSUME UNCHANGED <<accounts, roles, row, req>>
      PROVE  EditInv(w)'
  BY <1>1 DEF EditInv, OthersAdminister, IsAdmin
<1>2. ASSUME Returns(w)
      PROVE  EditInv(w)'
  <2>1. req'[w].pc = "idle"
    BY <1>2 DEF Returns, Moves, Typed, Idle
  <2> QED BY <2>1, AsideEdits DEF Edits
<1>3. ASSUME NEW pc \in {"rehash", "code", "record"}, Moves(w, [req[w] EXCEPT !.pc = pc])
      PROVE  EditInv(w)'
  <2>1. req[w] \in Requests
    BY ReqTypes
  <2>2. req'[w].pc = pc
    BY <1>3, <2>1 DEF Moves, Typed, Requests
  <2> QED BY <2>2, AsideEdits DEF Edits
<1>4. ASSUME NEW u, Bootstrap(w, u) \/ LoginLookup(w, u)
      PROVE  EditInv(w)'
  <2>1. req'[w].pc \in {"insert", "verify"}
    BY <1>4 DEF Bootstrap, LoginLookup, Moves, Typed, Idle
  <2> QED BY <2>1, AsideEdits DEF Edits
<1>5. ASSUME NEW u, NEW k, NEW enrolled, WillSet(w, u, k, enrolled)
      PROVE  EditInv(w)'
  <2>1. req'[w].pc = "totp"
    BY <1>5 DEF WillSet, Moves, Typed, Idle
  <2> QED BY <2>1, AsideEdits DEF Edits
<1>6. CASE SigningIn(w)
  <2>1. ASSUME NEW s \in Sessions, LoginSession(w, s) \/ VerifyStepUp(w, s)
        PROVE  EditInv(w)'
    BY <1>1, <1>2, <1>3, <2>1 DEF LoginSession, VerifyStepUp
  <2>2. CASE LoginFails(w) \/ LoginRecord(w)
    BY <1>2, <2>2 DEF LoginFails, LoginRecord
  <2>3. CASE LoginPassword(w) \/ LoginRehash(w)
    BY <1>3, <2>3 DEF LoginPassword, LoginRehash
  <2> QED BY <1>4, <1>6, <2>1, <2>2, <2>3 DEF SigningIn
<1>7. CASE Minting(w)
  BY <1>1, <1>7 DEF Minting, CreateToken, TokenEnds
<1>8. CASE SecondFactor(w)
  BY <1>2, <1>5, <1>8
  DEF SecondFactor, EnrolTOTP, ConfirmTOTP, DisableTOTP, ResetTOTP, SetTOTP
<1>9. CASE Abandon(w)
  BY <1>2, <1>9 DEF Abandon
<1> QED BY <1>6, <1>7, <1>8, <1>9

LEMMA RequestingEdits ==
  ASSUME Typed, NEW w \in Workers, NEW a \in accounts, NEW u \in Users,
         CreateUser(w, a, u) \/ UpdateUser(w, a, u) \/ SetPassword(w, a, u) \/ DeleteUser(w, a, u)
  PROVE  EditInv(w)'
<1> USE DEF grantVars
<1>0. /\ UNCHANGED <<accounts, roles, row>>
      /\ OthersAdminister(u) => OthersAdminister(u)'
  BY DEF CreateUser, UpdateUser, SetPassword, DeleteUser, OthersAdminister, IsAdmin
<1>1. CASE CreateUser(w, a, u)
  <2>1. req'[w].pc = "insert"
    BY <1>1 DEF CreateUser, Moves, Typed, Idle
  <2> QED BY <2>1, AsideEdits DEF Edits
<1>2. CASE UpdateUser(w, a, u)
  <2> PICK active \in BOOLEAN, mustChange \in BOOLEAN, unlock \in BOOLEAN,
           then \in {"roles", "done"} :
        /\ row[u].active /\ ~active => u # a /\ OthersAdminister(u)
        /\ Moves(w, [Idle EXCEPT !.pc = "profile", !.user = u, !.self = a = u,
                       !.active = active, !.mustChange = mustChange,
                       !.unlock = unlock, !.then = then])
    BY <1>2 DEF UpdateUser
  <2>1. req'[w].pc = "profile" /\ req'[w].user = u /\ req'[w].active = active
    BY DEF Moves, Typed, Idle
  <2>2. ~row[u].active => OthersAdminister(u)
    <3>1. IsAdmin(a) /\ a \in Users
      BY <1>2, CallerAdministers DEF UpdateUser, Typed
    <3> QED BY <3>1 DEF OthersAdminister, IsAdmin
  <2> QED BY <1>0, <2>1, <2>2, EditHolds
<1>3. CASE SetPassword(w, a, u)
  <2>1. req'[w].pc = "password" /\ req'[w].user = u /\ req'[w].active = row[u].active
    BY <1>3 DEF SetPassword, Moves, Typed, Idle
  <2>2. ~row[u].active => OthersAdminister(u)
    <3>1. CASE a = u
      BY <1>3, <3>1 DEF SetPassword, BySession, ByToken
    <3>2. CASE a # u
      <4>1. IsAdmin(a) /\ a \in Users
        BY <1>3, <3>2, CallerAdministers DEF SetPassword, Typed
      <4> QED BY <3>2, <4>1 DEF OthersAdminister
    <3> QED BY <3>1, <3>2
  <2> QED BY <1>0, <2>1, <2>2, EditHolds
<1>4. CASE DeleteUser(w, a, u)
  <2>1. req'[w].pc = "delete" /\ req'[w].user = u
    BY <1>4 DEF DeleteUser, Moves, Typed, Idle
  <2>2. OthersAdminister(u)
    BY <1>4 DEF DeleteUser
  <2> QED BY <1>0, <2>1, <2>2, EditHolds
<1> QED BY <1>1, <1>2, <1>3, <1>4

LEMMA EditingEdits ==
  ASSUME Typed, NEW w \in Workers, EditInv(w), AdminsStay(w),
         \/ Insert(w) \/ GrantRole(w) \/ RevokeRole(w)
         \/ WriteProfile(w) \/ ChooseRoles(w) \/ WritePassword(w) \/ Remove(w)
  PROVE  EditInv(w)'
<1> USE DEF grantVars
<1> PICK u \in Users : u = req[w].user
  BY ReqTypes
  DEF Insert, GrantRole, RevokeRole, WriteProfile, ChooseRoles, WritePassword, Remove
<1>0. req[w] \in Requests /\ (OthersAdminister(u) => OthersAdminister(u)')
  BY ReqTypes, OthersStay
<1>1. ASSUME Returns(w)
      PROVE  EditInv(w)'
  <2>1. req'[w].pc = "idle"
    BY <1>1 DEF Returns, Moves, Typed, Idle
  <2> QED BY <2>1, AsideEdits DEF Edits
<1>2. ASSUME NEW g, \/ Moves(w, [req[w] EXCEPT !.grants = g])
                    \/ Moves(w, [req[w] EXCEPT !.revokes = g]) /\ g \subseteq req[w].revokes,
             req[w].pc \in {"new", "bind"}
      PROVE  EditInv(w)'
  <2>1. /\ req'[w].pc = req[w].pc /\ req'[w].user = u
        /\ req'[w].revokes \subseteq req[w].revokes
    BY <1>0, <1>2 DEF Moves, Typed, Requests
  <2>2. req[w].pc = "bind" /\ Admin \in req[w].revokes => OthersAdminister(u)
    BY DEF EditInv
  <2> QED BY <1>0, <1>2, <2>1, <2>2, EditHolds
<1>3. CASE Insert(w)
  <2>1. Returns(w) \/ Moves(w, [Idle EXCEPT !.pc = "new", !.user = u, !.grants = req[w].grants])
    BY <1>3 DEF Insert, Binds, Returns
  <2>2. ASSUME Moves(w, [Idle EXCEPT !.pc = "new", !.user = u, !.grants = req[w].grants])
        PROVE  req'[w].pc = "new"
    BY <2>2 DEF Moves, Typed, Idle
  <2> QED BY <1>1, <2>1, <2>2, AsideEdits DEF Edits
<1>4. CASE GrantRole(w)
  <2> PICK r \in req[w].grants :
        Returns(w) \/ Binds(w, [req[w] EXCEPT !.grants = @ \ {r}])
    BY <1>4 DEF GrantRole
  <2>1. Returns(w) \/ Moves(w, [req[w] EXCEPT !.grants = req[w].grants \ {r}])
    BY DEF Binds, Returns
  <2>2. req[w].pc \in {"new", "bind"}
    BY <1>4 DEF GrantRole
  <2> QED BY <1>1, <1>2, <2>1, <2>2
<1>5. CASE RevokeRole(w)
  <2> PICK r \in req[w].revokes : Binds(w, [req[w] EXCEPT !.revokes = @ \ {r}])
    BY <1>5 DEF RevokeRole
  <2>1. Returns(w) \/ Moves(w, [req[w] EXCEPT !.revokes = req[w].revokes \ {r}])
    BY DEF Binds, Returns
  <2>2. req[w].pc \in {"new", "bind"} /\ req[w].revokes \ {r} \subseteq req[w].revokes
    BY <1>5 DEF RevokeRole
  <2> QED BY <1>1, <1>2, <2>1, <2>2
<1>6. CASE WriteProfile(w)
  <2>1. Returns(w) \/ Moves(w, [Idle EXCEPT !.pc = "roles", !.user = u, !.self = req[w].self])
    BY <1>6 DEF WriteProfile, Returns
  <2>2. ASSUME Moves(w, [Idle EXCEPT !.pc = "roles", !.user = u, !.self = req[w].self])
        PROVE  req'[w].pc = "roles" /\ req'[w].user = u
    BY <2>2 DEF Moves, Typed, Idle
  <2> QED BY <1>1, <2>1, <2>2, EditHolds
<1>7. CASE ChooseRoles(w)
  <2> PICK wanted \in SUBSET Roles :
        IF Admin \notin wanted /\ (req[w].self \/ ~OthersAdminister(u))
        THEN Returns(w)
        ELSE Binds(w, [Idle EXCEPT !.pc = "bind", !.user = u,
               !.grants = wanted \ roles[u], !.revokes = roles[u] \ wanted])
    BY <1>7 DEF ChooseRoles
  <2>1. \/ Returns(w)
        \/ /\ Admin \in wanted \/ OthersAdminister(u)
           /\ Moves(w, [Idle EXCEPT !.pc = "bind", !.user = u,
                !.grants = wanted \ roles[u], !.revokes = roles[u] \ wanted])
    BY DEF Binds, Returns
  <2>2. ASSUME Moves(w, [Idle EXCEPT !.pc = "bind", !.user = u,
                 !.grants = wanted \ roles[u], !.revokes = roles[u] \ wanted])
        PROVE  req'[w].pc = "bind" /\ req'[w].user = u /\ req'[w].revokes = roles[u] \ wanted
    BY <2>2 DEF Moves, Typed, Idle
  <2> QED BY <1>0, <1>1, <2>1, <2>2, EditHolds
<1>8. CASE WritePassword(w)
  <2>1. /\ req'[w].pc = "profile" /\ req'[w].user = u /\ req'[w].active = req[w].active
        /\ req[w].pc = "password"
    BY <1>0, <1>8 DEF WritePassword, Moves, Typed, Requests
  <2>2. req[w].active \/ OthersAdminister(u)
    BY <2>1 DEF EditInv
  <2> QED BY <1>0, <2>1, <2>2, EditHolds
<1>9. CASE Remove(w)
  BY <1>1, <1>9 DEF Remove
<1> QED BY <1>3, <1>4, <1>5, <1>6, <1>7, <1>8, <1>9

LEMMA WorkerEdits ==
  ASSUME Typed, NEW w \in Workers, EditInv(w), AdminsStay(w),
         SigningIn(w) \/ Minting(w) \/ SecondFactor(w) \/ Administering(w) \/ Abandon(w)
  PROVE  EditInv(w)'
  BY SigningInEdits, RequestingEdits, EditingEdits DEF Administering

LEMMA ClockAdmins ==
  ASSUME Typed, Clock
  PROVE  /\ UNCHANGED <<req, accounts, roles>>
         /\ \A u \in Users : row'[u].active = row[u].active
<1>1. UNCHANGED <<req, accounts, roles>>
  BY DEF Clock, LockExpires, SessionEnds, grantVars
<1>2. \A u \in Users : row'[u].active = row[u].active
  BY DEF Clock, LockExpires, SessionEnds, Typed, Account
<1> QED BY <1>1, <1>2

\* What the edit of v has checked survives the step of another worker that takes
\* no administrator away.
LEMMA OtherEdits ==
  ASSUME Typed, NEW v \in Workers, EditInv(v), req'[v] = req[v], ~AdministratorLost
  PROVE  EditInv(v)'
<1>1. CASE req[v].pc = "idle"
  BY <1>1, AsideEdits DEF Edits
<1>2. CASE req[v].pc # "idle"
  <2> PICK u \in Users : u = req[v].user
    BY <1>2, ReqTypes
  <2>1. OthersAdminister(u) => OthersAdminister(u)'
    BY DEF AdministratorLost, OthersAdminister
  <2> QED BY <2>1, EditHolds DEF EditInv
<1> QED BY <1>1, <1>2

LEMMA AdminStep ==
  Typed /\ AdminInv /\ [Next]_vars =>
    AdminInv' /\ [HasAdministrator /\ ~HasAdministrator' =>
                    \E w \in overtaken : req'[w] # req[w]]_vars
<1> SUFFICES ASSUME Typed, AdminInv, [Next]_vars
             PROVE  AdminInv' /\ [HasAdministrator /\ ~HasAdministrator' =>
                                    \E w \in overtaken : req'[w] # req[w]]_vars
  OBVIOUS
<1> USE DEF grantVars
<1>1. CASE UNCHANGED vars
  BY <1>1 DEF vars, AdminInv, EditInv, OthersAdminister, IsAdmin
<1>2. ASSUME NEW w \in Workers, Overtakes(w),
             SigningIn(w) \/ Minting(w) \/ SecondFactor(w) \/ Administering(w) \/ Abandon(w)
      PROVE  AdminInv' /\ (HasAdministrator /\ ~HasAdministrator' =>
                             \E v \in overtaken : req'[v] # req[v])
  <2>0. Advances(w) /\ (w \in overtaken \/ EditInv(w))
    BY <1>2, WorkerAdvances DEF AdminInv
  <2>1. ASSUME NEW v \in Workers
        PROVE  v \in overtaken' \/ EditInv(v)'
    <3>1. CASE req'[v].pc \notin Edits
      BY <3>1, AsideEdits
    <3>2. CASE v = w /\ req'[w].pc \in Edits
      <4>1. CASE EditInv(w)
        <5>1. AdminsStay(w)
          BY <1>2, <4>1, WorkerAdmins
        <5> QED BY <1>2, <3>2, <4>1, <5>1, WorkerEdits
      <4>2. CASE w \in overtaken /\ ~EditInv(w)
        <5>1. req[w].pc # "roles"
          BY <4>2 DEF EditInv
        <5> QED BY <1>2, <3>2, <4>2, <5>1 DEF Overtakes
      <4> QED BY <2>0, <4>1, <4>2
    <3>3. CASE v # w /\ req'[v].pc \in Edits
      <4>1. req'[v] = req[v] /\ (v \in overtaken \/ EditInv(v))
        BY <2>0, <3>3 DEF Advances, AdminInv
      <4>2. CASE v \in overtaken \/ AdministratorLost
        BY <1>2, <3>3, <4>2 DEF Overtakes
      <4>3. CASE EditInv(v) /\ ~AdministratorLost
        BY <4>1, <4>3, OtherEdits
      <4> QED BY <4>1, <4>2, <4>3
    <3> QED BY <3>1, <3>2, <3>3
  <2>2. CASE EditInv(w) \/ ~(RevokeRole(w) \/ WriteProfile(w) \/ Remove(w))
    <3>1. AdminsStay(w)
      BY <1>2, <2>2, WorkerAdmins
    <3> QED BY <2>1, <3>1, AdministratorStays DEF AdminInv
  <2>3. CASE ~EditInv(w) /\ (RevokeRole(w) \/ WriteProfile(w) \/ Remove(w))
    <3>1. w \in overtaken /\ req'[w] # req[w]
      BY <2>0, <2>3, LosingMoves
    <3> QED BY <2>1, <3>1 DEF AdminInv
  <2> QED BY <2>2, <2>3
<1>3. CASE Clock /\ UNCHANGED overtaken
  <2>1. /\ UNCHANGED <<req, accounts, roles, overtaken>>
        /\ \A u \in Users : row'[u].active = row[u].active
    BY <1>3, ClockAdmins
  <2>2. \A u \in Users : IsAdmin(u) <=> IsAdmin(u)'
    BY <2>1 DEF IsAdmin
  <2>3. HasAdministrator => HasAdministrator'
    BY <2>2 DEF HasAdministrator
  <2>4. ~AdministratorLost
    BY <2>2 DEF AdministratorLost
  <2> QED BY <2>1, <2>3, <2>4, OtherEdits DEF AdminInv
<1> QED BY <1>1, <1>2, <1>3 DEF Next

-----------------------------------------------------------------------------
(* The invariants and the theorems.                                        *)

LEMMA AccountsInit == Init => IInv /\ AdminInv
<1> SUFFICES ASSUME Init
             PROVE  IInv /\ AdminInv
  OBVIOUS
<1>0. \A active \in BOOLEAN : NewRow(active, FALSE) \in Account
  BY AccountsAssumption DEF NewRow, Account, AccountsAssumption
<1>1. \A u \in Users : /\ row[u] \in Account
                       /\ ~row[u].enrolled /\ ~row[u].locked /\ row[u].failures = 0
  <2> PICK weak : row = [u \in Users |-> [NewRow(u \in accounts, FALSE) EXCEPT !.weak = u \in weak]]
    BY DEF Init
  <2> SUFFICES ASSUME NEW u \in Users
               PROVE  /\ row[u] \in Account
                      /\ ~row[u].enrolled /\ ~row[u].locked /\ row[u].failures = 0
    OBVIOUS
  <2>1. ASSUME NEW active \in BOOLEAN, NEW w \in BOOLEAN,
               row[u] = [NewRow(active, FALSE) EXCEPT !.weak = w]
        PROVE  /\ row[u] \in Account
               /\ ~row[u].enrolled /\ ~row[u].locked /\ row[u].failures = 0
    BY <1>0, <2>1 DEF NewRow, Account
  <2>2. row[u] = [NewRow(u \in accounts, FALSE) EXCEPT !.weak = u \in weak]
    OBVIOUS
  <2>3. (u \in accounts) = TRUE \/ (u \in accounts) = FALSE
    OBVIOUS
  <2>4. (u \in weak) = TRUE \/ (u \in weak) = FALSE
    OBVIOUS
  <2>5. \E active, w \in BOOLEAN : row[u] = [NewRow(active, FALSE) EXCEPT !.weak = w]
    BY <2>2, <2>3, <2>4
  <2> QED BY <2>1, <2>5
<1>2. Typed
  <2>1. session \in [Sessions -> SessionRows] /\ token \in [Tokens -> TokenRows]
    <3>1. NoSession \in SessionRows /\ NoToken \in TokenRows
      BY DEF NoSession, NoToken, SessionRows, TokenRows
    <3>2. [user : accounts, mfa : {FALSE}] \subseteq SessionRows
      BY DEF Init, SessionRows
    <3> QED BY <3>1, <3>2 DEF Init
  <2>2. row \in [Users -> Account]
    <3>1. row = [u \in Users |-> row[u]]
      BY DEF Init
    <3> QED BY <1>1, <3>1
  <2>3. roles \in [Users -> SUBSET Roles]
    BY DEF Init, Roles
  <2> QED BY <2>1, <2>2, <2>3, IdleIsServed DEF Init, Typed
<1>3. Cascade
  BY DEF Init, Cascade
<1>4. \A w \in Workers : req[w].pc = "idle"
  BY DEF Init, Idle
<1>5. EnrolmentInv
  BY <1>1, <1>4 DEF EnrolmentInv
<1>6. ASSUME NEW u \in Users
      PROVE  LockoutInv(u)
  <2>1. InFlight(u) = {}
    BY <1>4 DEF InFlight, Answering
  <2>2. guesses[u] = 0 /\ Cardinality(InFlight(u)) = 0
    BY <2>1, FS_EmptySet DEF Init
  <2>3. Cardinality(Workers) \in Nat
    BY AccountsAssumption, FS_CardinalityType DEF AccountsAssumption
  <2> QED BY <1>1, <1>2, <2>1, <2>2, <2>3, ChargeTypes DEF LockoutInv
<1>7. AdminInv /\ Overtaken
  BY <1>4 DEF Init, AdminInv, EditInv, Overtaken
<1> QED BY <1>2, <1>3, <1>5, <1>6, <1>7 DEF IInv

LEMMA OvertakenStep == Typed /\ Overtaken /\ [Next]_vars => Overtaken'
<1> SUFFICES ASSUME Overtaken, [Next]_vars
             PROVE  Overtaken'
  OBVIOUS
<1>1. CASE UNCHANGED <<req, overtaken>>
  BY <1>1 DEF Overtaken
<1>2. ASSUME NEW w \in Workers, Overtakes(w)
      PROVE  Overtaken'
  BY <1>2 DEF Overtakes, Overtaken
<1>3. Clock => UNCHANGED req
  BY DEF Clock, LockExpires, SessionEnds
<1> QED BY <1>1, <1>2, <1>3 DEF Next, vars

LEMMA AccountsInvariant == Spec => []IInv
<1>1. IInv /\ [Next]_vars => IInv'
  BY TypeStep, CascadeStep, EnrolmentStep, LockoutStep, OvertakenStep DEF IInv
<1> QED BY AccountsInit, <1>1, PTL DEF Spec

\* The types of Accounts, whatever the constants: in particular no role, session
\* or token outlives its account.
THEOREM AccountsTyped == Spec => []TypeOK
<1>1. IInv => TypeOK
  <2> SUFFICES ASSUME IInv
               PROVE  TypeOK
    OBVIOUS
  <2>0. Typed /\ Cascade /\ Overtaken
    BY DEF IInv
  <2>1. \A t \in Tokens : token[t].perms \subseteq Permissions
    BY <2>0 DEF Typed, TokenRows
  <2>2. \A w \in Workers : req[w].pc = "idle" => req[w] = Idle
    BY <2>0 DEF Typed, Served
  <2> QED BY <2>0, <2>1, <2>2 DEF TypeOK, Typed, Cascade, Overtaken
<1> QED BY AccountsInvariant, <1>1, PTL

\* Wrong answers exceed MaxFailedLogins by at most the logins that were let in
\* before the account locked, for any number of requests at a time.
THEOREM LockoutIsKept == Spec => []LockoutHolds
<1>1. IInv => LockoutHolds
  <2> SUFFICES ASSUME IInv, NEW u \in Users
               PROVE  guesses[u] <= MaxFailed + Cardinality(Workers) - 1
    BY DEF LockoutHolds
  <2>0. Typed /\ LockoutInv(u)
    BY DEF IInv
  <2>1. InFlight(u) \in SUBSET Workers
    BY DEF InFlight
  <2> QED BY <2>0, <2>1, Counting, ChargeTypes DEF LockoutInv
<1> QED BY AccountsInvariant, <1>1, PTL

\* An account asks for the codes of a secret its owner has shown one for.
THEOREM EnrolmentsAreProved == Spec => []EnrolmentIsProved
<1>1. IInv => EnrolmentIsProved
  BY DEF IInv, EnrolmentInv, EnrolmentIsProved, Typed
<1> QED BY AccountsInvariant, <1>1, PTL

\* The last active administrator goes only by a request whose check another one
\* has overtaken, for any number of accounts and of requests at a time.
THEOREM AnAdministratorRemains == Spec => AdministratorRemains
<1>1. Init => AdminInv
  BY AccountsInit
<1>2. IInv => Typed
  BY DEF IInv
<1>3. Typed /\ AdminInv /\ [Next]_vars =>
        AdminInv' /\ [HasAdministrator /\ ~HasAdministrator' =>
                        \E w \in overtaken : req'[w] # req[w]]_vars
  BY AdminStep
<1> QED BY AccountsInvariant, <1>1, <1>2, <1>3, PTL DEF Spec, AdministratorRemains

=============================================================================
