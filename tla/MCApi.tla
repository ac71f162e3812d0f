------------------------------- MODULE MCApi --------------------------------
(***************************************************************************)
(* Every route, every built-in role, tokens narrowed to nothing and to one *)
(* permission of each kind that a handler asks for half way.               *)
(***************************************************************************)
EXTENDS Api

MCNarrowings == {{}, {"user.write"}, {"rotation.write"}, {"key.reveal"}}

MCTwoStep ==
  {"POST rotations", "POST users", "PATCH users/{id}", "POST deploy",
   "POST consumers/{id}/deliver", "POST consumers/{id}/rebind"}

\* GET status asks for settings.read and the event stream for key.read; the
\* connector and event lists and the schedule preview ask for nothing; a dry
\* run asks for deploy.dry_run; a queued sweep leaves the check to its job; a
\* consumer asks for key.reveal, its rebinding for nothing; ignoring a
\* discovered key asks for key.adopt; a metadata backup needs no second
\* factor; one's own password and a break-glass key have gates of their own; a
\* rollback asks for a second factor; a probe answers 200 to a denial too.
MCDivergent ==
  {"GET status", "GET events/stream", "GET connectors", "GET events/types",
   "GET rotation-policies/preview", "POST deploy", "POST reconcile",
   "POST consumers", "POST consumers/{id}/deliver", "POST consumers/{id}/rebind",
   "DELETE consumers/{id}", "POST discovered-keys/{id}/ignore", "POST backups",
   "POST users/{id}/password", "POST keys/{id}/reveal", "POST rollback/{id}",
   "POST targets/{id}/probe"}

=============================================================================
