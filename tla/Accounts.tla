------------------------------ MODULE Accounts ------------------------------
(***************************************************************************)
(* Accounts, roles, sessions and API tokens: service/users.go and          *)
(* service/auth.go over store/users.go and store/tokens.go.                *)
(*                                                                         *)
(* A worker serves one request; each SQL statement that writes is an       *)
(* action, and the reads before it belong to the step that acts on them.   *)
(* Between two steps of a request other requests run on what it has read.  *)
(* Passwords and codes are right or wrong; a second factor is known by its *)
(* secret. Names, addresses and recovery codes are left out.               *)
(***************************************************************************)
EXTENDS Naturals, FiniteSets

CONSTANTS
  Users,       \* ids of rows ever inserted into users
  Sessions, Tokens,
  Secrets,     \* TOTP secrets ever generated
  NoSecret,    \* totp_secret = ''
  Workers,
  MaxFailed,   \* MaxFailedLogins
  Ops,         \* the requests made
  MaxOps,      \* how many
  MaxLogins    \* and how many when the last are logins

ASSUME AccountsAssumption ==
  /\ MaxFailed \in Nat \ {0} /\ MaxOps \in Nat /\ MaxLogins \in Nat
  /\ NoSecret \notin Secrets /\ IsFiniteSet(Workers)

VARIABLES
  accounts,  \* ids with a row in users
  row,       \* that row
  roles,     \* user_roles
  session,   \* sessions
  token,     \* api_tokens
  req,       \* the request each worker serves
  ops,
  deleted,   \* history: ids whose row was deleted
  issued,    \* history: secrets generated
  guesses,   \* history: wrong answers given since the account last reopened
  proved,    \* history: secrets a code was shown for, by account
  overtaken  \* history: edits under way when another took an administrator away

grantVars == <<accounts, roles, deleted>>
loginVars == <<session, token>>
ghostVars == <<issued, guesses, proved>>
vars == <<grantVars, row, loginVars, req, ops, ghostVars, overtaken>>

Admin == "admin"
Roles == {Admin, "engineer"}
Permissions == {"user.write", "api_token.write"}
SystemRoles(r) == CASE r = Admin -> Permissions
                    [] r = "engineer" -> {"api_token.write"}

Account == [active: BOOLEAN, mustChange: BOOLEAN, weak: BOOLEAN,
            failures: 0 .. MaxFailed, locked: BOOLEAN,
            secret: Secrets \cup {NoSecret}, enrolled: BOOLEAN]
NewRow(active, mustChange) ==
  [active |-> active, mustChange |-> mustChange, weak |-> FALSE,
   failures |-> 0, locked |-> FALSE, secret |-> NoSecret, enrolled |-> FALSE]

NoSession == [user |-> "none", mfa |-> FALSE]
NoToken   == [user |-> "none", perms |-> {}]

Idle == [pc |-> "idle", user |-> "none", self |-> FALSE, active |-> FALSE,
         mustChange |-> FALSE, unlock |-> FALSE, mfa |-> FALSE, weak |-> FALSE,
         enrolled |-> FALSE, secret |-> NoSecret, failures |-> 0, then |-> "done",
         grants |-> {}, revokes |-> {}]

\* An empty install, or one whose accounts are signed in; a lone account may
\* have its hash from an earlier release, with weaker parameters.
Init ==
  /\ accounts \in SUBSET Users
  /\ \E weak \in {{}} \cup {s \in SUBSET accounts : Cardinality(accounts) = 1} :
       row = [u \in Users |-> [NewRow(u \in accounts, FALSE) EXCEPT !.weak = u \in weak]]
  /\ roles \in {r \in [Users -> {{}, {Admin}}] :
       /\ \A u \in Users \ accounts : r[u] = {}
       /\ accounts # {} => \E u \in accounts : Admin \in r[u]}
  /\ session \in {f \in [Sessions -> {NoSession} \cup
         [user: accounts, mfa: {FALSE}]] :
       \A u \in accounts : \E s \in Sessions : f[s].user = u}
  /\ token = [t \in Tokens |-> NoToken]
  /\ req = [w \in Workers |-> Idle]
  /\ ops = 0 /\ deleted = {} /\ issued = {}
  /\ guesses = [u \in Users |-> 0]
  /\ proved = [u \in Users |-> {}]
  /\ overtaken = {}

-----------------------------------------------------------------------------
Moves(w, r) == req' = [req EXCEPT ![w] = r]
Returns(w) == Moves(w, Idle)

Begins(w, op) ==
  /\ op \in Ops /\ ops < IF op = "login" THEN MaxLogins ELSE MaxOps
  /\ req[w].pc = "idle"
  /\ ops' = ops + 1

\* Authenticate: a live session of an active account, which the flag
\* must_change_pw confines, or a live token of one.
BySession(a, confined) ==
  /\ a \in accounts /\ row[a].active
  /\ row[a].mustChange => confined
  /\ \E s \in Sessions : session[s].user = a

Rights(a) == UNION {SystemRoles(r) : r \in roles[a]}

ByToken(a) == {t \in Tokens : a \in accounts /\ row[a].active /\ token[t].user = a}

SignedIn(a) == BySession(a, FALSE) \/ ByToken(a) # {}

\* Require: a token holds no more than its list and its owner's rights.
Holds(a, p) ==
  /\ p \in Rights(a)
  /\ BySession(a, FALSE) \/ \E t \in ByToken(a) : p \in token[t].perms

IsAdmin(u) == u \in accounts /\ row[u].active /\ Admin \in roles[u]

\* assertNotLastAdmin
OthersAdminister(u) == \E v \in Users \ {u} : IsAdmin(v)

-----------------------------------------------------------------------------
\* Signing in.

\* Bootstrap finds no account; its insert is a statement of its own.
Bootstrap(w, u) ==
  /\ Begins(w, "bootstrap")
  /\ accounts = {} /\ u \notin deleted
  /\ Moves(w, [Idle EXCEPT !.pc = "insert", !.user = u, !.active = TRUE,
                           !.mustChange = TRUE, !.grants = {Admin}])
  /\ UNCHANGED <<grantVars, row, loginVars, ghostVars>>

\* Login reads the account and turns away the unknown, disabled and locked.
LoginLookup(w, u) ==
  /\ Begins(w, "login")
  /\ u \in accounts /\ row[u].active /\ ~row[u].locked
  /\ Moves(w, [Idle EXCEPT !.pc = "verify", !.user = u, !.weak = row[u].weak,
                           !.secret = row[u].secret, !.enrolled = row[u].enrolled,
                           !.failures = row[u].failures])
  /\ UNCHANGED <<grantVars, row, loginVars, ghostVars>>

AtLeast(n) == IF n >= MaxFailed THEN MaxFailed ELSE n

\* RecordFailedLogin counts in the UPDATE itself, whatever was read before.
Failed(r) == [r EXCEPT !.failures = AtLeast(r.failures + 1),
                       !.locked = r.locked \/ r.failures + 1 >= MaxFailed]

Counted(u) ==
  row' = IF u \in accounts THEN [row EXCEPT ![u] = Failed(row[u])] ELSE row

\* Mutant: the counter is written from the row Login read.
CountsWhatWasRead(w) ==
  LET u == req[w].user
      n == AtLeast(req[w].failures + 1) IN
  /\ req[w].pc = "verify" \/ (req[w].pc = "code" /\ req[w].enrolled)
  /\ row' = IF u \in accounts
            THEN [row EXCEPT ![u].failures = n, ![u].locked = @ \/ n = MaxFailed]
            ELSE row
  /\ guesses' = [guesses EXCEPT ![u] = @ + 1]
  /\ Returns(w)
  /\ UNCHANGED <<grantVars, loginVars, ops, issued, proved>>

\* A wrong password, or a wrong code of an enrolled account.
LoginFails(w) ==
  LET u == req[w].user IN
  /\ req[w].pc = "verify" \/ (req[w].pc = "code" /\ req[w].enrolled)
  /\ Counted(u)
  /\ guesses' = [guesses EXCEPT ![u] = @ + 1]
  /\ Returns(w)
  /\ UNCHANGED <<grantVars, loginVars, ops, issued, proved>>

\* The right password; one hashed under weaker parameters is hashed again.
LoginPassword(w) ==
  /\ req[w].pc = "verify"
  /\ Moves(w, [req[w] EXCEPT !.pc = IF req[w].weak THEN "rehash" ELSE "code"])
  /\ UNCHANGED <<grantVars, row, loginVars, ops, ghostVars>>

\* Users.SetPassword
HashStored(u) ==
  row' = IF u \in accounts
         THEN [row EXCEPT ![u].weak = FALSE, ![u].mustChange = FALSE] ELSE row

LoginRehash(w) ==
  /\ req[w].pc = "rehash"
  /\ HashStored(req[w].user)
  /\ Moves(w, [req[w] EXCEPT !.pc = "code"])
  /\ UNCHANGED <<grantVars, loginVars, ops, ghostVars>>

\* Mutant: sessions has no foreign key.
StoresOrphans(w, s) ==
  /\ req[w].pc = "code"
  /\ session[s] = NoSession
  /\ session' = [session EXCEPT ![s] = [user |-> req[w].user, mfa |-> req[w].enrolled]]
  /\ Moves(w, [req[w] EXCEPT !.pc = "record"])
  /\ UNCHANGED <<grantVars, row, token, ops, ghostVars>>

\* createSession, once an enrolled account has shown a code; without an account
\* the insert breaks its foreign key.
LoginSession(w, s) ==
  LET u == req[w].user IN
  /\ req[w].pc = "code"
  /\ session[s] = NoSession
  /\ IF u \in accounts
     THEN /\ session' = [session EXCEPT ![s] =
               [user |-> u, mfa |-> req[w].enrolled]]
          /\ Moves(w, [req[w] EXCEPT !.pc = "record"])
     ELSE Returns(w) /\ UNCHANGED session
  /\ UNCHANGED <<grantVars, row, token, ops, ghostVars>>

Reopened(r) == [r EXCEPT !.failures = 0, !.locked = FALSE]

\* RecordLogin
LoginRecord(w) ==
  LET u == req[w].user IN
  /\ req[w].pc = "record"
  /\ row' = IF u \in accounts THEN [row EXCEPT ![u] = Reopened(row[u])] ELSE row
  /\ guesses' = [guesses EXCEPT ![u] = 0]
  /\ Returns(w)
  /\ UNCHANGED <<grantVars, loginVars, ops, issued, proved>>

\* locked_until passes; failed_logins stays.
LockExpires(u) ==
  /\ row[u].locked
  /\ row' = [row EXCEPT ![u].locked = FALSE]
  /\ guesses' = [guesses EXCEPT ![u] = 0]
  /\ UNCHANGED <<grantVars, loginVars, req, ops, issued, proved>>

-----------------------------------------------------------------------------
\* Sessions and tokens.

\* Logout, or expires_at passes. Nothing reads the row again, which stays until
\* PurgeExpiredSessions.
SessionEnds(s) ==
  /\ session[s] # NoSession
  /\ session' = [session EXCEPT ![s] = NoSession]
  /\ UNCHANGED <<grantVars, row, token, req, ops, ghostVars>>

\* VerifyStepUp, with the right code.
VerifyStepUp(w, s) ==
  LET u == session[s].user IN
  /\ Begins(w, "stepup")
  /\ BySession(u, FALSE) /\ row[u].enrolled
  /\ session' = [session EXCEPT ![s].mfa = TRUE]
  /\ UNCHANGED <<grantVars, row, token, req, ghostVars>>

\* CreateToken: for oneself, or for another with user.write.
CreateToken(w, a, t) ==
  /\ Begins(w, "token")
  /\ Holds(a, "api_token.write")
  /\ token[t] = NoToken
  /\ \E u \in accounts : \E perms \in SUBSET Rights(u) :
       /\ u # a => Holds(a, "user.write")
       /\ token' = [token EXCEPT ![t] = [user |-> u, perms |-> perms]]
  /\ UNCHANGED <<grantVars, row, session, req, ghostVars>>

\* RevokeToken and DeleteToken; ByHash finds a revoked row only to refuse it.
TokenEnds(w, a, t) ==
  /\ Begins(w, "token")
  /\ Holds(a, "api_token.write") /\ token[t] # NoToken
  /\ token' = [token EXCEPT ![t] = NoToken]
  /\ UNCHANGED <<grantVars, row, session, req, ghostVars>>

-----------------------------------------------------------------------------
\* The second factor. Every request ends in SetTOTP with a secret and a flag.

WillSet(w, u, secret, enrolled) ==
  Moves(w, [Idle EXCEPT !.pc = "totp", !.user = u, !.secret = secret,
                        !.enrolled = enrolled])

EnrolTOTP(w, a, k) ==
  /\ Begins(w, "totp")
  /\ SignedIn(a) /\ k \notin issued
  /\ issued' = issued \cup {k}
  /\ WillSet(w, a, k, FALSE)
  /\ UNCHANGED <<grantVars, row, loginVars, guesses, proved>>

\* A code that verifies against the secret just read.
ShowsCode(a) ==
  /\ SignedIn(a) /\ row[a].secret # NoSecret
  /\ proved' = [proved EXCEPT ![a] = @ \cup {row[a].secret}]

\* ConfirmTOTP, and RegenerateRecoveryCodes of an enrolled account: both write
\* the secret they read.
ConfirmTOTP(w, a) ==
  /\ Begins(w, "totp")
  /\ ShowsCode(a)
  /\ WillSet(w, a, row[a].secret, TRUE)
  /\ UNCHANGED <<grantVars, row, loginVars, issued, guesses>>

DisableTOTP(w, a) ==
  /\ Begins(w, "totp")
  /\ row[a].enrolled /\ ShowsCode(a)
  /\ WillSet(w, a, NoSecret, FALSE)
  /\ UNCHANGED <<grantVars, row, loginVars, issued, guesses>>

\* ResetTOTP is never of one's own.
ResetTOTP(w, a, u) ==
  /\ Begins(w, "totp")
  /\ Holds(a, "user.write") /\ u \in accounts \ {a}
  /\ WillSet(w, u, NoSecret, FALSE)
  /\ UNCHANGED <<grantVars, row, loginVars, ghostVars>>

\* Mutant: an enrolment is confirmed by its flag alone.
FlagsOnly(w) ==
  /\ req[w].pc = "totp"
  /\ row' = [row EXCEPT
       ![req[w].user].enrolled = req[w].enrolled,
       ![req[w].user].secret = IF req[w].enrolled THEN @ ELSE req[w].secret]
  /\ Returns(w)
  /\ UNCHANGED <<grantVars, loginVars, ops, ghostVars>>

SetTOTP(w) ==
  LET u == req[w].user IN
  /\ req[w].pc = "totp"
  /\ row' = IF u \in accounts
            THEN [row EXCEPT ![u].secret = req[w].secret, ![u].enrolled = req[w].enrolled]
            ELSE row
  /\ Returns(w)
  /\ UNCHANGED <<grantVars, loginVars, ops, ghostVars>>

-----------------------------------------------------------------------------
\* Accounts and their roles.

\* Create resolves the roles before the account exists.
CreateUser(w, a, u) ==
  /\ Begins(w, "create")
  /\ Holds(a, "user.write") /\ u \notin accounts \cup deleted
  /\ \E active, mustChange \in BOOLEAN, wanted \in SUBSET Roles :
       Moves(w, [Idle EXCEPT !.pc = "insert", !.user = u, !.active = active,
                             !.mustChange = mustChange, !.grants = wanted])
  /\ UNCHANGED <<grantVars, row, loginVars, ghostVars>>

\* Granting goes before revoking; with neither left the request is over.
Binds(w, r) == Moves(w, IF r.grants = {} /\ r.revokes = {} THEN Idle ELSE r)

\* Users.Create; a second account of the name is a conflict, and an id is not
\* used again.
Insert(w) ==
  LET u == req[w].user IN
  /\ req[w].pc = "insert"
  /\ IF u \in accounts \cup deleted
     THEN Returns(w) /\ UNCHANGED <<accounts, row>>
     ELSE /\ accounts' = accounts \cup {u}
          /\ row' = [row EXCEPT ![u] = NewRow(req[w].active, req[w].mustChange)]
          /\ Binds(w, [Idle EXCEPT !.pc = "new", !.user = u, !.grants = req[w].grants])
  /\ UNCHANGED <<roles, deleted, loginVars, ops, ghostVars>>

GrantRole(w) ==
  LET u == req[w].user IN
  /\ req[w].pc \in {"new", "bind"}
  /\ \E r \in req[w].grants :
       IF u \in accounts
       THEN /\ roles' = [roles EXCEPT ![u] = @ \cup {r}]
            /\ Binds(w, [req[w] EXCEPT !.grants = @ \ {r}])
       ELSE Returns(w) /\ UNCHANGED roles
  /\ UNCHANGED <<accounts, deleted, row, loginVars, ops, ghostVars>>

RevokeRole(w) ==
  LET u == req[w].user IN
  /\ req[w].pc = "bind" /\ req[w].grants = {}
  /\ \E r \in req[w].revokes :
       /\ roles' = [roles EXCEPT ![u] = @ \ {r}]
       /\ Binds(w, [req[w] EXCEPT !.revokes = @ \ {r}])
  /\ UNCHANGED <<accounts, deleted, row, loginVars, ops, ghostVars>>

\* Update reads the row, refuses to switch off the caller or the last
\* administrator, and writes the row back with what the request changes.
UpdateUser(w, a, u) ==
  /\ Begins(w, "update")
  /\ Holds(a, "user.write") /\ u \in accounts
  /\ \E active, mustChange, unlock \in BOOLEAN, then \in {"roles", "done"} :
       /\ row[u].active /\ ~active => u # a /\ OthersAdminister(u)
       /\ Moves(w, [Idle EXCEPT !.pc = "profile", !.user = u, !.self = a = u,
                      !.active = active, !.mustChange = mustChange,
                      !.unlock = unlock, !.then = then])
  /\ UNCHANGED <<grantVars, row, loginVars, ghostVars>>

\* UpdateProfile
WriteProfile(w) ==
  LET u == req[w].user
      r == IF req[w].unlock THEN Reopened(row[u]) ELSE row[u] IN
  /\ req[w].pc = "profile"
  /\ IF u \in accounts
     THEN /\ row' = [row EXCEPT ![u] = [r EXCEPT !.active = req[w].active,
                                                 !.mustChange = req[w].mustChange]]
          /\ guesses' = IF req[w].unlock THEN [guesses EXCEPT ![u] = 0] ELSE guesses
          /\ Moves(w, IF req[w].then = "roles"
                      THEN [Idle EXCEPT !.pc = "roles", !.user = u, !.self = req[w].self]
                      ELSE Idle)
     ELSE Returns(w) /\ UNCHANGED <<row, guesses>>
  /\ UNCHANGED <<grantVars, loginVars, ops, issued, proved>>

\* Mutant: the roles are cleared, then granted anew.
ClearsFirst(w) ==
  LET u == req[w].user IN
  /\ req[w].pc = "roles"
  /\ \E wanted \in SUBSET Roles :
       IF Admin \notin wanted /\ (req[w].self \/ ~OthersAdminister(u))
       THEN Returns(w) /\ UNCHANGED roles
       ELSE /\ roles' = [roles EXCEPT ![u] = {}]
            /\ Binds(w, [Idle EXCEPT !.pc = "bind", !.user = u, !.grants = wanted])
  /\ UNCHANGED <<accounts, deleted, row, loginVars, ops, ghostVars>>

\* assertRoleChangeIsSafe, then setRoles works out the difference.
ChooseRoles(w) ==
  LET u == req[w].user IN
  /\ req[w].pc = "roles"
  /\ \E wanted \in SUBSET Roles :
       IF Admin \notin wanted /\ (req[w].self \/ ~OthersAdminister(u))
       THEN Returns(w)
       ELSE Binds(w, [Idle EXCEPT !.pc = "bind", !.user = u,
              !.grants = wanted \ roles[u], !.revokes = roles[u] \ wanted])
  /\ UNCHANGED <<grantVars, row, loginVars, ops, ghostVars>>

\* SetPassword by an administrator, or by oneself with the current password,
\* which the flag must_change_pw does not prevent.
SetPassword(w, a, u) ==
  /\ Begins(w, "password")
  /\ u \in accounts
  /\ IF a = u THEN BySession(a, TRUE) \/ ByToken(a) # {} ELSE Holds(a, "user.write")
  /\ \E mustChange \in BOOLEAN :
       /\ a = u => ~mustChange
       /\ Moves(w, [Idle EXCEPT !.pc = "password", !.user = u, !.unlock = TRUE,
                      !.active = row[u].active, !.mustChange = mustChange])
  /\ UNCHANGED <<grantVars, row, loginVars, ghostVars>>

WritePassword(w) ==
  /\ req[w].pc = "password"
  /\ HashStored(req[w].user)
  /\ Moves(w, [req[w] EXCEPT !.pc = "profile"])
  /\ UNCHANGED <<grantVars, loginVars, ops, ghostVars>>

DeleteUser(w, a, u) ==
  /\ Begins(w, "delete")
  /\ Holds(a, "user.write") /\ u \in accounts \ {a} /\ OthersAdminister(u)
  /\ Moves(w, [Idle EXCEPT !.pc = "delete", !.user = u])
  /\ UNCHANGED <<grantVars, row, loginVars, ghostVars>>

\* Users.Delete; the schema takes roles, sessions and tokens with the row.
Remove(w) ==
  LET u == req[w].user IN
  /\ req[w].pc = "delete"
  /\ accounts' = accounts \ {u}
  /\ deleted' = deleted \cup {u}
  /\ row' = [row EXCEPT ![u] = NewRow(FALSE, FALSE)]
  /\ roles' = [roles EXCEPT ![u] = {}]
  /\ session' = [s \in Sessions |-> IF session[s].user = u THEN NoSession ELSE session[s]]
  /\ token' = [t \in Tokens |-> IF token[t].user = u THEN NoToken ELSE token[t]]
  /\ Returns(w)
  /\ UNCHANGED <<ops, ghostVars>>

\* The process dies, or the client goes and the context with it.
Abandon(w) ==
  /\ req[w].pc # "idle"
  /\ Returns(w)
  /\ UNCHANGED <<grantVars, row, loginVars, ops, ghostVars>>

-----------------------------------------------------------------------------
SigningIn(w) ==
  \/ \E u \in Users : Bootstrap(w, u) \/ LoginLookup(w, u)
  \/ LoginFails(w) \/ LoginPassword(w) \/ LoginRehash(w) \/ LoginRecord(w)
  \/ \E s \in Sessions : LoginSession(w, s) \/ VerifyStepUp(w, s)

Minting(w) == \E a \in accounts, t \in Tokens : CreateToken(w, a, t) \/ TokenEnds(w, a, t)

SecondFactor(w) ==
  \/ \E a \in accounts : \/ \E k \in Secrets : EnrolTOTP(w, a, k)
                         \/ ConfirmTOTP(w, a) \/ DisableTOTP(w, a)
                         \/ \E u \in accounts : ResetTOTP(w, a, u)
  \/ SetTOTP(w)

Administering(w) ==
  \/ \E a \in accounts, u \in Users :
       \/ CreateUser(w, a, u) \/ UpdateUser(w, a, u)
       \/ SetPassword(w, a, u) \/ DeleteUser(w, a, u)
  \/ Insert(w) \/ GrantRole(w) \/ RevokeRole(w)
  \/ WriteProfile(w) \/ ChooseRoles(w) \/ WritePassword(w) \/ Remove(w)

Clock == (\E u \in Users : LockExpires(u)) \/ (\E s \in Sessions : SessionEnds(s))

\* An edit that is under way when another request takes an administrator away
\* acts on a check that is out of date, until it checks again.
Edits == {"password", "profile", "roles", "bind", "delete"}
AdministratorLost == \E u \in Users : IsAdmin(u) /\ ~IsAdmin(u)'

Overtakes(w) ==
  overtaken' = {v \in Workers :
    /\ req'[v].pc \in Edits
    /\ IF v = w THEN v \in overtaken /\ req[v].pc # "roles"
       ELSE v \in overtaken \/ AdministratorLost}

Next ==
  \/ \E w \in Workers : /\ \/ SigningIn(w) \/ Minting(w) \/ SecondFactor(w)
                           \/ Administering(w) \/ Abandon(w)
                        /\ Overtakes(w)
  \/ Clock /\ UNCHANGED overtaken

Spec == Init /\ [][Next]_vars

-----------------------------------------------------------------------------
\* Every variable has its type; a request without a pc holds nothing, and an
\* account without a row has no roles, sessions or tokens (ON DELETE CASCADE,
\* and Users.GrantRole and createSession under their foreign keys).
TypeOK ==
  /\ accounts \subseteq Users /\ deleted \subseteq Users /\ ops \in Nat
  /\ row \in [Users -> Account]
  /\ roles \in [Users -> SUBSET Roles]
  /\ \A u \in Users \ accounts : roles[u] = {}
  /\ \A s \in Sessions : session[s] = NoSession \/ session[s].user \in accounts
  /\ \A t \in Tokens : token[t] # NoToken =>
       token[t].user \in accounts /\ token[t].perms \subseteq Permissions
  /\ \A w \in Workers : req[w].pc = "idle" => req[w] = Idle
  /\ issued \subseteq Secrets /\ proved \in [Users -> SUBSET Secrets]
  /\ guesses \in [Users -> Nat]
  /\ overtaken \subseteq {w \in Workers : req[w].pc \in Edits}

\* However many logins of one account are under way when it locks, the wrong
\* answers given before it opens again exceed MaxFailedLogins by at most the
\* others then in flight: RecordFailedLogin counts in the database, not from
\* the row Login read.
LockoutHolds ==
  \A u \in Users : guesses[u] <= MaxFailed + Cardinality(Workers) - 1

\* An account asks for the codes of a secret only once its owner has shown one
\* for that very secret: whatever enrolments, confirmations, resets and
\* regenerations overlap, nobody is left with a second factor they never held.
EnrolmentIsProved ==
  \A u \in accounts : row[u].enrolled => row[u].secret \in proved[u]

HasAdministrator == \E u \in Users : IsAdmin(u)

\* The last active administrator goes only by the hand of a request whose check
\* another demotion or deletion has overtaken (users.go:611 reads, and nothing
\* holds what it read): not by one cut off between two statements, nor by one
\* that switches an account off and changes its roles in one go, nor by one that
\* writes back an account somebody switched on meanwhile, however many edits
\* overlap.
AdministratorRemains ==
  [][HasAdministrator /\ ~HasAdministrator' =>
       \E w \in overtaken : req'[w] # req[w]]_vars

=============================================================================
