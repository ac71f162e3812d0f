----------------------------- MODULE MCAccounts -----------------------------
(* Two accounts and two requests at a time.                                *)
EXTENDS Accounts, TLC

AccountsSymmetry == Permutations(Workers) \cup Permutations(Sessions)
                    \cup Permutations(Secrets) \cup Permutations(Users)

Editing == {w \in Workers : req[w].pc \in Edits}
NoTokens == \A t \in Tokens : token[t] = NoToken

\* The fourth request is a login, with no factor, token, deletion or edit beside it;
\* two edits overlap where there is no factor, no token and no wrong answer.
Crowd ==
  /\ ops > MaxOps => Editing = {} /\ issued \cup deleted = {} /\ NoTokens
  /\ Cardinality(Editing) > 1 =>
       /\ issued = {} /\ NoTokens
       /\ \A u \in Users : guesses[u] = 0 /\ \A s \in Sessions : ~session[s].mfa

=============================================================================
