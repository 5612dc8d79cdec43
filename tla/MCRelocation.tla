---------------------------- MODULE MCRelocation ----------------------------
(***************************************************************************)
(* Two submissions: one fills both pairs in with a token; the other clears *)
(* the repository and the token, changes the target and leaves a workflow  *)
(* that nobody checked.                                                    *)
(***************************************************************************)
EXTENDS Relocation, TLC

CONSTANTS a, b, bad, t1

Form(owner, repo, workflow, ref, registry, namespace, token, password) ==
  [fields |-> [owner |-> owner, repo |-> repo, workflow |-> workflow, ref |-> ref,
               registry |-> registry, namespace |-> namespace],
   creds |-> [github_token |-> token, acr_password |-> password]]

MCForms ==
  { Form(a, b, Blank, b, a, b, t1, Blank),
    Form(Blank, Blank, bad, Blank, b, a, Clear, t1) }

Symmetry == Permutations(Savers)
=============================================================================
