------------------------------ MODULE Handlers ------------------------------
(***************************************************************************)
(* What each handler does, in the order the code does it, its service call *)
(* unfolded: a set of paths, one for each way the request's own fields     *)
(* select.  A path ends when the handler answers; a step that fails ends   *)
(* it early (see Api).                                                     *)
(***************************************************************************)
EXTENDS Routes

\* The second-factor and password routes of the account itself:
\* none asks for a permission; Guard is the proof of a code or a password.
AccountHandlers ==
     "POST auth/logout"         :> {<<Save>>}
  @@ "GET auth/me"              :> {<<Find, Read>>}
  @@ "POST auth/step-up"        :> {<<Parse, Find, Guard, Save>>}
  @@ "POST auth/totp/enrol"     :> {<<Find, Save>>}
  @@ "POST auth/totp/confirm"   :> {<<Parse, Find, Guard, Save>>}

CredentialHandlers ==
     "POST auth/totp/recovery-codes" :> {<<Parse, Find, Guard, Save>>}
  @@ "DELETE auth/totp"         :> {<<Parse, Find, Guard, Save>>}
  @@ "POST auth/password"       :> {<<Parse, Find, Guard, Save, Save>>}

KeyHandlers ==
     "GET keys"             :> {<<Need("key.read"), Read>>}
  @@ "POST keys"            :> {<<Parse, Need("key.write"), Guard, Seal, Save>>}
  @@ "POST keys/import"     :> {<<Parse, Need("key.import"), Guard, Seal, Save>>}
  @@ "GET keys/{id}"        :> {<<Parse, Need("key.read"), Find>>}
  @@ "PATCH keys/{id}"      :> {<<Parse, Need("key.write"), Save>>}

\* A break-glass key asks for its own permission; the record decides which.
SecretHandlers ==
     "POST keys/{id}/reveal" :>
       {<<Parse, Find, Fresh(p), Guard, Log, Seal>> :
          p \in {"key.reveal", "key.reveal_break_glass"}}
  @@ "POST keys/{id}/revoke" :> {<<Parse, Need("key.revoke"), Find, Save>>}
  @@ "POST keys/{id}/status" :> {<<Parse, Need("key.write"), Save>>}

TargetHandlers ==
     "GET targets"             :> {<<Need("target.read"), Read>>}
  @@ "POST targets"            :> {<<Need("target.write"), Parse, Guard, Save>>}
  @@ "GET targets/{id}"        :> {<<Need("target.read"), Parse, Find, Scope>>}
  @@ "DELETE targets/{id}"     :> {<<Need("target.delete"), Parse, Save>>}
  @@ "POST targets/{id}/probe" :>
       {<<Parse, Need("target.read"), Find, Guard, Seal, Note, Note>>}

\* handleProbeTarget answers 200 {reachable: false} to whatever error the
\* service returns, a refusal included; only its own parsing is refused.
AnswersErrors(route, at) == route = "POST targets/{id}/probe" /\ at # 0

PrincipalHandlers ==
     "GET principals"  :> {<<Need("target.read"), Parse, Read>>}
  @@ "POST principals" :> {<<Need("target.write"), Parse, Save>>}
  @@ "GET snapshots"   :> {<<Need("target.read"), Parse, Read>>}

AssignmentHandlers ==
     "GET assignments"         :> {<<Need("key.read"), Parse, Read>>}
  @@ "POST assignments"        :> {<<Need("key.write"), Parse, Save>>}
  @@ "DELETE assignments/{id}" :> {<<Need("key.write"), Parse, Save>>}

\* A dry run asks for the weaker permission; a real one stores the snapshot
\* before the connector may refuse the change.  Either, refused by the
\* connector, marks every assignment with the error (recordFailure).
DeployHandlers ==
     "POST deploy" :>
       {<<Parse, Need("deploy.execute"), Find, Seal, Scope, Save, Guard, Save>>,
        <<Parse, Need("deploy.execute"), Find, Seal, Scope, Save, Note, Fail>>,
        <<Parse, Need("deploy.dry_run"), Find, Seal, Scope, Guard, Read>>,
        <<Parse, Need("deploy.dry_run"), Find, Seal, Scope, Note, Fail>>}
  @@ "POST rollback/{id}" :>
       {<<Parse, Fresh("changeset.rollback"), Find, Guard, Seal, Save, Save>>}

SealedHandlers ==
     "GET credentials"  :> {<<Need("credential.read"), Read>>}
  @@ "POST credentials" :>
       {<<Need("credential.write"), Parse, Seal, Save>>,
        <<Need("credential.write"), Parse, Save>>}

AuditHandlers ==
     "GET audit"        :> {<<Need("audit.read"), Read>>}
  @@ "GET audit/verify" :> {<<Need("audit.verify"), Read>>}
  @@ "GET vault/status" :> {<<Need("vault.status"), Read>>}
  @@ "POST vault/rotate-kek" :> {<<Fresh("vault.rotate_kek"), Seal, Save>>}
  @@ "GET connectors"   :> {<<Read>>}

DashboardHandler ==
  "GET dashboard" :> {<<Need("key.read"), Need("key.read"), Read>>}

TargetEditHandlers ==
  "PATCH targets/{id}" :>
    {<<Parse, Find, Need("target.write"), Scope, Guard, Save>> \o pin :
       pin \in {<<>>, <<Save>>}}

PrincipalEditHandlers ==
     "PATCH principals/{id}"  :> {<<Need("target.write"), Parse, Find, Find, Save>>}
  @@ "DELETE principals/{id}" :> {<<Need("target.write"), Parse, Find, Find, Save>>}

\* Mutant: the key's material is destroyed before its scope is checked.
DestroyBeforeScope ==
     "DELETE keys/{id}" :>
       {<<Parse, Need("key.delete"), Find, Save, Need("key.delete"), Scope,
          Guard, Save>>}
  @@ "DELETE credentials/{id}" :> {<<Need("credential.write"), Parse, Guard, Save>>}
  @@ "PATCH webhooks/{id}" :> {<<Need("webhook.write"), Parse, Save, Find>>}

RemovalHandlers ==
     "DELETE keys/{id}" :>
       {<<Parse, Need("key.delete"), Find, Need("key.delete"), Scope, Guard,
          Save, Save>>}
  @@ "DELETE credentials/{id}" :> {<<Need("credential.write"), Parse, Guard, Save>>}
  @@ "PATCH webhooks/{id}" :> {<<Need("webhook.write"), Parse, Save, Find>>}

\* Mutant: cancelling a job asks only for the permission to see it.
CancelByReaders ==
     "GET jobs"              :> {<<Need("job.read"), Parse, Read>>}
  @@ "GET jobs/{id}"         :> {<<Need("job.read"), Parse, Find>>}
  @@ "GET jobs/{id}/logs"    :> {<<Need("job.read"), Parse, Read>>}
  @@ "POST jobs/{id}/cancel" :> {<<Need("job.read"), Parse, Save>>}

JobHandlers ==
     "GET jobs"              :> {<<Need("job.read"), Parse, Read>>}
  @@ "GET jobs/{id}"         :> {<<Need("job.read"), Parse, Find>>}
  @@ "GET jobs/{id}/logs"    :> {<<Need("job.read"), Parse, Read>>}
  @@ "POST jobs/{id}/cancel" :> {<<Need("job.cancel"), Parse, Save>>}

\* A fleet sweep only queues a job; the job asks for the permission when it
\* runs, not the request.
ReconcileHandlers ==
     "POST reconcile" :>
       {<<Parse, Save>>,
        <<Parse, Need("reconcile.run"), Find, Scope, Guard, Save>>}
  @@ "GET discovered-keys" :> {<<Parse, Need("target.read"), Read>>}
  @@ "POST discovered-keys/{id}/adopt" :>
       {<<Parse, Need("key.adopt"), Find, Guard, Save, Save, Save>>}
  @@ "POST discovered-keys/{id}/ignore" :> {<<Parse, Need("key.adopt"), Save>>}

BackupHandlers ==
     "GET backups"  :> {<<Need("backup.read"), Read>>}
  @@ "POST backups" :>
       {<<Parse, Need("backup.create"), Fresh("key.reveal"), Guard, Save, Seal, Save>>,
        <<Parse, Need("backup.create"), Guard, Save, Save>>}
  @@ "POST backups/{id}/verify" :>
       {<<Parse, Need("backup.read"), Find, Guard, Save>>}
  @@ "POST restore" :>
       {from \o <<Need("backup.restore"), Fresh("key.reveal"), Guard, Seal, Save>> :
          from \in {<<Parse, Find>>, <<Parse>>}}
  @@ "DELETE backups/{id}" :> {<<Parse, Need("backup.create"), Find, Save, Save>>}

\* Whatever makes a delivery fail - the kind, the key, the vault, the sink's own
\* settings - is written to the consumer's row before it is answered.
ConsumerHandlers ==
     "GET consumers"  :> {<<Parse, Need("key.read"), Read>>}
  @@ "POST consumers" :> {<<Parse, Need("key.reveal"), Guard, Find, Scope, Save>>}
  @@ "POST consumers/{id}/deliver" :>
       {<<Parse, Need("key.reveal"), Find, Guard, Find, Seal, Note>>,
        <<Parse, Need("key.reveal"), Find, Note, Fail>>}
  @@ "POST consumers/{id}/rebind" :>
       {<<Parse, Find, Guard, Find, Seal, Save, Save>>,
        <<Parse, Find, Note, Fail>>}
  @@ "DELETE consumers/{id}" :> {<<Parse, Need("key.reveal"), Save>>}

WebhookHandlers ==
     "GET webhooks"            :> {<<Need("webhook.read"), Read>>}
  @@ "POST webhooks"           :> {<<Need("webhook.write"), Parse, Seal, Save>>}
  @@ "DELETE webhooks/{id}"    :> {<<Need("webhook.write"), Parse, Save>>}
  @@ "GET webhooks/deliveries" :> {<<Need("webhook.read"), Parse, Read>>}
  @@ "POST deliveries/{id}/replay" :> {<<Need("webhook.write"), Parse, Save>>}

StreamHandlers ==
     "GET events/types"  :> {<<Read>>}
  @@ "GET events/stream" :> {<<Need("key.read"), Read>>}

InventoryHandlers ==
     "GET inventory/ansible" :> {<<Need("target.read"), Read>>}
  @@ "GET inventory/nornir"  :> {<<Need("target.read"), Read>>}

\* The key of each line is read with the caller's own key.read; without it the
\* line is left out, the file is not refused.
KeyFileHandlers ==
     "GET authorized-keys" :>
       {<<Need("target.read"), Parse, Find, Scope, Guard, Read>>}
  @@ "GET status" :> {<<Need("settings.read"), Read>>}

\* Create and Update answer through Get, which asks for user.read itself.
UserHandlers ==
     "GET users"         :> {<<Need("user.read"), Read>>}
  @@ "GET users/{id}"    :> {<<Parse, Need("user.read"), Find, Read>>}
  @@ "POST users"        :>
       {<<Parse, Need("user.write"), Guard, Save, Save, Need("user.read"), Find>>}
  @@ "PATCH users/{id}"  :>
       {<<Parse, Need("user.write"), Find, Guard, Save>> \o roles
          \o <<Need("user.read"), Find>> : roles \in {<<>>, <<Guard, Save>>}}
  @@ "DELETE users/{id}" :> {<<Parse, Need("user.write"), Guard, Find, Guard, Save>>}
  @@ "POST users/{id}/password" :>
       {<<Parse, Need("user.write"), Find, Guard, Save, Save>>,
        <<Parse, Find, Guard, Save, Save>>}
  @@ "POST users/{id}/reset-totp" :>
       {<<Parse, Need("user.write"), Guard, Find, Save>>}
  @@ "GET roles"         :> {<<Need("role.read"), Read>>}
  @@ "GET permissions"   :> {<<Read>>}

\* A token for somebody else also takes user.write.
TokenHandlers ==
     "GET api-tokens"  :> {<<Need("api_token.read"), Read>>}
  @@ "POST api-tokens" :>
       {<<Parse, Need("api_token.write"), Guard>> \o owner \o <<Find, Guard, Save>> :
          owner \in {<<>>, <<Need("user.write")>>}}
  @@ "POST api-tokens/{id}/revoke" :> {<<Parse, Need("api_token.write"), Find, Save>>}
  @@ "DELETE api-tokens/{id}" :> {<<Parse, Need("api_token.write"), Find, Save>>}

RotationHandlers ==
     "GET rotations"      :> {<<Need("rotation.read"), Read>>}
  @@ "GET rotations/{id}" :> {<<Parse, Need("rotation.read"), Find, Read>>}
  @@ "POST rotations"     :>
       {<<Parse, Need("rotation.write"), Find, Scope, Guard, Save>> \o start :
          start \in {<<>>, <<Need("rotation.execute"), Find, Guard, Save>>}}
  @@ "POST rotations/{id}/start" :>
       {<<Parse, Need("rotation.execute"), Find, Guard, Save>>}
  @@ "POST rotations/{id}/approve" :>
       {<<Parse, Need("rotation.approve"), Save, Save>>}
  @@ "POST rotations/{id}/abort" :>
       {<<Parse, Need("rotation.abort"), Find, Guard, Save>>}

PolicyHandlers ==
     "GET rotation-policies"         :> {<<Need("rotation.read"), Read>>}
  @@ "POST rotation-policies"        :> {<<Need("rotation.write"), Parse, Guard, Save>>}
  @@ "DELETE rotation-policies/{id}" :> {<<Need("rotation.write"), Parse, Save>>}
  @@ "GET rotation-policies/preview" :> {<<Parse, Guard, Read>>}

Handlers ==
  AccountHandlers @@ CredentialHandlers @@ KeyHandlers @@ SecretHandlers
    @@ TargetHandlers @@ PrincipalHandlers @@ AssignmentHandlers
    @@ DeployHandlers @@ SealedHandlers @@ AuditHandlers @@ DashboardHandler
    @@ TargetEditHandlers @@ PrincipalEditHandlers @@ RemovalHandlers
    @@ JobHandlers @@ ReconcileHandlers @@ BackupHandlers @@ ConsumerHandlers
    @@ WebhookHandlers @@ StreamHandlers @@ InventoryHandlers
    @@ KeyFileHandlers @@ UserHandlers @@ TokenHandlers @@ RotationHandlers
    @@ PolicyHandlers

ASSUME EveryRouteHasAHandler == DOMAIN Handlers = Names
=============================================================================
