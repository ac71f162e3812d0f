-------------------------------- MODULE Api ---------------------------------
(***************************************************************************)
(* One request on its way through the server: requireAuth resolves the     *)
(* bearer token into a subject (backend/internal/api/server.go), the       *)
(* subject's permissions are fixed there (backend/internal/authz,          *)
(* authenticateAPIToken in backend/internal/service/auth.go), and the      *)
(* handler takes its steps in order, answering early with the status       *)
(* writeError gives the error (backend/internal/api/response.go).          *)
(***************************************************************************)
EXTENDS Handlers, Naturals, FiniteSets

CONSTANTS
  Narrowings,    \* permission lists API tokens may carry ({}: everything)
  TwoStep,       \* routes that may refuse after they have already written
  Divergent      \* routes whose gate is not the one the table declares

VARIABLE req     \* the request being served

vars == <<req>>

Anonymous == [rights |-> {}, token |-> FALSE, mustChange |-> FALSE, mfa |-> "never"]

Idle == [route |-> "none", path |-> <<>>, at |-> 0, subject |-> Anonymous,
         passed |-> {}, proved |-> FALSE, done |-> 0, status |-> "ok"]

Init == req = Idle

\* writeError: the HTTP status of each error a step can end with.
StatusCode ==
  [ok |-> 200,
   bad_request |-> 400, invalid_request |-> 400,
   unauthenticated |-> 401,
   permission_denied |-> 403, mfa_required |-> 403, out_of_scope |-> 403,
   password_change_required |-> 403,
   not_found |-> 404, conflict |-> 409, vault_sealed |-> 503,
   internal_error |-> 500]

Serving == req.status = "serving"

Answer(status) == req' = [req EXCEPT !.status = status]

\* The error a step ends with, as the handler answers it.
Refuse(status) ==
  Answer(IF AnswersErrors(req.route, req.at) THEN "ok" ELSE status)

(***************************************************************************)
(* requireAuth.                                                            *)
(***************************************************************************)
Receive(r) ==
  /\ req.status \notin {"serving", "received"}
  /\ \E path \in Handlers[r] :
       req' = [Idle EXCEPT !.route = r, !.path = path, !.status = "received"]

\* Restrict: an empty list leaves the owner's permissions alone.
Restrict(rights, allowed) == IF allowed = {} THEN rights ELSE rights \cap allowed

SessionSubjects(role) ==
  [rights : {SystemRoles[role]}, token : {FALSE}, mustChange : BOOLEAN,
   mfa : {"never", "fresh", "stale"}]

\* A token never carries a second factor.
TokenSubjects(role) ==
  [rights : {Restrict(SystemRoles[role], n) : n \in Narrowings}, token : {TRUE},
   mustChange : BOOLEAN, mfa : {"never"}]

Subjects ==
  UNION {SessionSubjects(role) \cup TokenSubjects(role) : role \in DOMAIN SystemRoles}

AllowedBeforePasswordChange ==
  {"GET auth/me", "POST auth/logout", "POST auth/password"}

Authenticate ==
  /\ req.status = "received"
  /\ \/ Answer("unauthenticated")
     \/ \E s \in Subjects :
          IF ~s.token /\ s.mustChange /\ req.route \notin AllowedBeforePasswordChange
            THEN req' = [req EXCEPT !.subject = s, !.status = "password_change_required"]
            ELSE req' = [req EXCEPT !.subject = s, !.status = "serving"]

\* The window of a second factor closes while the request is being served.
WindowCloses ==
  /\ Serving
  /\ req.subject.mfa = "fresh"
  /\ req' = [req EXCEPT !.subject.mfa = "stale"]

(***************************************************************************)
(* The steps of a handler.                                                 *)
(***************************************************************************)
Upcoming == req.path[req.at + 1]

At(d) == Serving /\ req.at < Len(req.path) /\ Upcoming.does = d

Pass == req' = [req EXCEPT !.at = @ + 1]

Require ==
  /\ At("need")
  /\ IF Upcoming.perm \in req.subject.rights
       THEN req' = [req EXCEPT !.at = @ + 1, !.passed = @ \cup {Upcoming.perm}]
       ELSE Refuse("permission_denied")

RequireFresh ==
  /\ At("fresh")
  /\ IF Upcoming.perm \notin req.subject.rights THEN Refuse("permission_denied")
     ELSE IF Upcoming.perm \in Sensitive /\ req.subject.mfa # "fresh"
       THEN Refuse("mfa_required")
       ELSE req' = [req EXCEPT !.at = @ + 1, !.proved = TRUE,
                               !.passed = @ \cup {Upcoming.perm}]

DecodeBody == At("parse") /\ (Pass \/ Refuse("bad_request"))

LookUp == At("find") /\ (Pass \/ Refuse("not_found"))

CheckRule == At("guard") /\ (Pass \/ Refuse("invalid_request"))

CheckScope == At("scope") /\ (Pass \/ Refuse("out_of_scope"))

UseVault == At("seal") /\ (Pass \/ Refuse("vault_sealed"))

Query == (At("read") \/ At("log")) /\ (Pass \/ Refuse("internal_error"))

\* What a failed call answers, its outcome being noted already.
Failed ==
  /\ At("fail")
  /\ \E status \in {"invalid_request", "not_found", "conflict", "vault_sealed",
                    "internal_error"} : Refuse(status)

NoteOutcome ==
  /\ At("note")
  /\ Pass \/ req' = [req EXCEPT !.at = @ + 1, !.done = @ + 1]

Write ==
  /\ At("save")
  /\ \/ req' = [req EXCEPT !.at = @ + 1, !.done = @ + 1]
     \/ \E status \in {"not_found", "conflict", "internal_error"} : Refuse(status)

Finish == Serving /\ req.at = Len(req.path) /\ Answer("ok")

Next ==
  \/ \E r \in Names : Receive(r)
  \/ Authenticate \/ WindowCloses
  \/ Require \/ RequireFresh \/ DecodeBody \/ LookUp \/ CheckRule
  \/ CheckScope \/ UseVault \/ Query \/ NoteOutcome
  \/ Failed \/ Write \/ Finish

Spec == Init /\ [][Next]_vars

(***************************************************************************)
(* Properties.                                                             *)
(***************************************************************************)
Answered == req.status \in DOMAIN StatusCode

\* A request told that it is invalid, unauthenticated or not allowed (400, 401
\* or 403) has changed nothing.  Handlers gate before they write, and a service
\* that asks for a second permission half way breaks it: the routes of TwoStep
\* are the ones that do (POST rotations plans before it may start, PATCH and
\* POST users write before they read the account back under user.read, POST
\* deploy stores its snapshot, or its failure, before the refusal is answered,
\* and a consumer's row keeps the error a delivery is then refused with).
RefusedChangesNothing ==
  Answered /\ StatusCode[req.status] \in {400, 401, 403} /\ req.done > 0
    => req.route \in TwoStep

\* The reference is the route table: outside Divergent, a request that changed
\* something or was answered passed the permission its route declares, and a
\* fresh second factor where the route declares one, whatever path its fields
\* selected; and nobody who holds that permission is denied for lack of it,
\* except on the routes that need more than one, or asked for a second factor
\* the table does not mention.
DeclaredIsEnforced ==
  req.route \in Names \ Divergent =>
    /\ req.done > 0 \/ (Answered /\ req.status = "ok")
         => /\ Declared[req.route].permission \in req.passed \cup {""}
            /\ Declared[req.route].stepUp => req.proved
    /\ req.status = "permission_denied" /\ req.passed = {}
         => Declared[req.route].permission \notin req.subject.rights
    /\ req.status = "mfa_required" => Declared[req.route].stepUp

=============================================================================
