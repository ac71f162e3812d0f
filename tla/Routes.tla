------------------------------- MODULE Routes -------------------------------
(***************************************************************************)
(* The HTTP surface as data: what the route table declares of each route   *)
(* (backend/internal/api/routetable.go), what each handler does, in order, *)
(* with the gates of the service it calls (backend/internal/api and        *)
(* backend/internal/service), and the permissions of the built-in roles    *)
(* (backend/internal/authz/permissions.go).  Paths are written without the *)
(* leading /api/v1/.  Bodies, queries and response shapes are left out: a  *)
(* handler is the sequence of its gates, lookups and writes.               *)
(***************************************************************************)
EXTENDS Sequences, TLC

(***************************************************************************)
(* The steps a handler is made of.                                         *)
(***************************************************************************)
Need(p)  == [does |-> "need", perm |-> p]     \* Subject.Require
Fresh(p) == [does |-> "fresh", perm |-> p]    \* Subject.RequireFresh
Step(d)  == [does |-> d, perm |-> "none"]

Parse == Step("parse")     \* decodeJSON, pathUUID and the required fields
Find  == Step("find")      \* a record is looked up by its identifier
Guard == Step("guard")     \* a rule of the service may refuse the request
Scope == Step("scope")     \* Subject.InScope on the record's tags
Seal  == Step("seal")      \* the vault encrypts or decrypts
Save  == Step("save")      \* a write that other requests can see
Note  == Step("note")      \* a write whose own failure is only logged
Fail  == Step("fail")      \* the error of a call that has noted its outcome
Log   == Step("log")      \* an audit record without which nothing follows
Read  == Step("read")      \* a query whose result is the answer

(***************************************************************************)
(* Permissions.                                                            *)
(***************************************************************************)
Permissions ==
  {"key.read", "key.write", "key.delete", "key.rotate", "key.revoke",
   "key.import", "key.adopt", "key.reveal", "key.reveal_break_glass",
   "target.read", "target.write", "target.delete",
   "deploy.execute", "deploy.dry_run", "reconcile.run",
   "credential.read", "credential.write", "credential.reveal",
   "rotation.read", "rotation.write", "rotation.execute",
   "rotation.approve", "rotation.abort",
   "backup.read", "backup.create", "backup.restore", "changeset.rollback",
   "job.read", "job.write", "job.cancel",
   "audit.read", "audit.verify", "audit.export",
   "vault.status", "vault.seal", "vault.unseal", "vault.rotate_kek",
   "user.read", "user.write", "role.read", "role.write",
   "api_token.read", "api_token.write", "webhook.read", "webhook.write",
   "settings.read", "settings.write"}

\* Permission.Sensitive: the ones RequireFresh asks a second factor for.
Sensitive ==
  {"key.reveal", "key.reveal_break_glass", "credential.reveal", "key.delete",
   "backup.restore", "changeset.rollback",
   "vault.seal", "vault.unseal", "vault.rotate_kek"}

SystemRoles ==
  [admin |-> Permissions,
   engineer |->
     {"key.read", "key.write", "key.rotate", "key.revoke", "key.import",
      "key.adopt", "key.reveal", "target.read", "target.write",
      "deploy.execute", "deploy.dry_run", "reconcile.run", "credential.read",
      "credential.write", "rotation.read", "rotation.write",
      "rotation.execute", "rotation.abort", "backup.read", "backup.create",
      "changeset.rollback", "job.read", "job.write", "job.cancel",
      "audit.read", "vault.status", "api_token.read", "api_token.write",
      "webhook.read"},
   operator |->
     {"key.read", "target.read", "deploy.execute", "deploy.dry_run",
      "reconcile.run", "rotation.read", "rotation.execute", "rotation.abort",
      "job.read", "job.write", "job.cancel", "backup.read", "audit.read",
      "vault.status"},
   auditor |->
     {"key.read", "target.read", "rotation.read", "job.read", "backup.read",
      "credential.read", "audit.read", "audit.verify", "audit.export",
      "vault.status", "user.read", "role.read", "api_token.read",
      "webhook.read", "settings.read"},
   viewer |->
     {"key.read", "target.read", "rotation.read", "job.read", "vault.status"}]

(***************************************************************************)
(* The route table: the permission a route declares ("" for a self-service *)
(* or public one) and whether it declares a recent second factor.          *)
(***************************************************************************)
Route(p)  == [permission |-> p, stepUp |-> FALSE]
StepUp(p) == [permission |-> p, stepUp |-> TRUE]

DeclaredAccount ==
     "GET status"                   :> Route("job.read")
  @@ "GET connectors"               :> Route("target.read")
  @@ "GET dashboard"                :> Route("key.read")
  @@ "POST auth/logout"             :> Route("")
  @@ "GET auth/me"                  :> Route("")
  @@ "POST auth/step-up"            :> Route("")
  @@ "POST auth/totp/enrol"         :> Route("")
  @@ "POST auth/totp/confirm"       :> Route("")
  @@ "POST auth/totp/recovery-codes" :> Route("")
  @@ "DELETE auth/totp"             :> Route("")
  @@ "POST auth/password"           :> Route("")

DeclaredUsers ==
     "GET users"                    :> Route("user.read")
  @@ "POST users"                   :> Route("user.write")
  @@ "GET users/{id}"               :> Route("user.read")
  @@ "PATCH users/{id}"             :> Route("user.write")
  @@ "DELETE users/{id}"            :> Route("user.write")
  @@ "POST users/{id}/password"     :> Route("user.write")
  @@ "POST users/{id}/reset-totp"   :> Route("user.write")
  @@ "GET roles"                    :> Route("role.read")
  @@ "GET permissions"              :> Route("")
  @@ "GET api-tokens"               :> Route("api_token.read")
  @@ "POST api-tokens"              :> Route("api_token.write")
  @@ "POST api-tokens/{id}/revoke"  :> Route("api_token.write")
  @@ "DELETE api-tokens/{id}"       :> Route("api_token.write")

DeclaredKeys ==
     "GET keys"                     :> Route("key.read")
  @@ "POST keys"                    :> Route("key.write")
  @@ "POST keys/import"             :> Route("key.import")
  @@ "GET keys/{id}"                :> Route("key.read")
  @@ "PATCH keys/{id}"              :> Route("key.write")
  @@ "DELETE keys/{id}"             :> Route("key.delete")
  @@ "POST keys/{id}/reveal"        :> StepUp("key.reveal")
  @@ "POST keys/{id}/revoke"        :> Route("key.revoke")
  @@ "POST keys/{id}/status"        :> Route("key.write")

DeclaredTargets ==
     "GET targets"                  :> Route("target.read")
  @@ "POST targets"                 :> Route("target.write")
  @@ "GET targets/{id}"             :> Route("target.read")
  @@ "PATCH targets/{id}"           :> Route("target.write")
  @@ "DELETE targets/{id}"          :> Route("target.delete")
  @@ "POST targets/{id}/probe"      :> Route("target.read")
  @@ "GET principals"               :> Route("target.read")
  @@ "POST principals"              :> Route("target.write")
  @@ "PATCH principals/{id}"        :> Route("target.write")
  @@ "DELETE principals/{id}"       :> Route("target.write")
  @@ "GET snapshots"                :> Route("target.read")
  @@ "GET authorized-keys"          :> Route("target.read")

DeclaredPlacement ==
     "GET credentials"              :> Route("credential.read")
  @@ "POST credentials"             :> Route("credential.write")
  @@ "DELETE credentials/{id}"      :> Route("credential.write")
  @@ "GET assignments"              :> Route("key.read")
  @@ "POST assignments"             :> Route("key.write")
  @@ "DELETE assignments/{id}"      :> Route("key.write")
  @@ "POST deploy"                  :> Route("deploy.execute")
  @@ "POST rollback/{id}"           :> Route("changeset.rollback")

DeclaredRotations ==
     "GET rotations"                :> Route("rotation.read")
  @@ "POST rotations"               :> Route("rotation.write")
  @@ "GET rotations/{id}"           :> Route("rotation.read")
  @@ "POST rotations/{id}/start"    :> Route("rotation.execute")
  @@ "POST rotations/{id}/approve"  :> Route("rotation.approve")
  @@ "POST rotations/{id}/abort"    :> Route("rotation.abort")
  @@ "GET rotation-policies"        :> Route("rotation.read")
  @@ "POST rotation-policies"       :> Route("rotation.write")
  @@ "DELETE rotation-policies/{id}" :> Route("rotation.write")
  @@ "GET rotation-policies/preview" :> Route("rotation.read")

DeclaredJobs ==
     "GET jobs"                     :> Route("job.read")
  @@ "GET jobs/{id}"                :> Route("job.read")
  @@ "GET jobs/{id}/logs"           :> Route("job.read")
  @@ "POST jobs/{id}/cancel"        :> Route("job.cancel")
  @@ "POST reconcile"               :> Route("reconcile.run")
  @@ "GET discovered-keys"          :> Route("target.read")
  @@ "POST discovered-keys/{id}/adopt"  :> Route("key.adopt")
  @@ "POST discovered-keys/{id}/ignore" :> Route("target.write")

DeclaredBackups ==
     "GET backups"                  :> Route("backup.read")
  @@ "POST backups"                 :> StepUp("backup.create")
  @@ "POST backups/{id}/verify"     :> Route("backup.read")
  @@ "DELETE backups/{id}"          :> Route("backup.create")
  @@ "POST restore"                 :> StepUp("backup.restore")
  @@ "GET consumers"                :> Route("key.read")
  @@ "POST consumers"               :> Route("key.write")
  @@ "POST consumers/{id}/deliver"  :> Route("key.write")
  @@ "POST consumers/{id}/rebind"   :> Route("key.write")
  @@ "DELETE consumers/{id}"        :> Route("key.write")

DeclaredEvents ==
     "GET webhooks"                 :> Route("webhook.read")
  @@ "POST webhooks"                :> Route("webhook.write")
  @@ "PATCH webhooks/{id}"          :> Route("webhook.write")
  @@ "DELETE webhooks/{id}"         :> Route("webhook.write")
  @@ "GET webhooks/deliveries"      :> Route("webhook.read")
  @@ "POST deliveries/{id}/replay"  :> Route("webhook.write")
  @@ "GET events/types"             :> Route("webhook.read")
  @@ "GET events/stream"            :> Route("job.read")
  @@ "GET inventory/ansible"        :> Route("target.read")
  @@ "GET inventory/nornir"         :> Route("target.read")
  @@ "GET audit"                    :> Route("audit.read")
  @@ "GET audit/verify"             :> Route("audit.verify")
  @@ "GET vault/status"             :> Route("vault.status")
  @@ "POST vault/rotate-kek"        :> StepUp("vault.rotate_kek")

Declared ==
  DeclaredAccount @@ DeclaredUsers @@ DeclaredKeys @@ DeclaredTargets
    @@ DeclaredPlacement @@ DeclaredRotations @@ DeclaredJobs
    @@ DeclaredBackups @@ DeclaredEvents

Names == DOMAIN Declared

=============================================================================
