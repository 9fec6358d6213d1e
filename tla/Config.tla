------------------------------- MODULE Config -------------------------------
(***************************************************************************)
(* internal/config: what main gets from the configuration file and the     *)
(* environment, and how the webhook handler finds the entry of a repo.     *)
(*                                                                         *)
(* A configuration is a record: set, the fields among Secrets that are not *)
(* empty; verifyHMAC; repos, a sequence of entries.  An entry has a name,  *)
(* complete (name, repo_url and runner_labels are there), match (its       *)
(* match_labels), label (the old single field, or NoLabel) and cap.        *)
(***************************************************************************)
EXTENDS Integers, Sequences

CONSTANT NoLabel

Secrets == {"SMEE_URL", "WEBHOOK_SECRET", "GH_PAT", "PORTAL_TOKEN"}

\* The environment fills in what the file leaves empty.
WithEnv(c, env) == [c EXCEPT !.set = @ \cup (env \cap Secrets)]

EntryInvalid(r) == ~r.complete \/ (r.match = {} /\ r.label = NoLabel)

Invalid(c) ==
  \/ ~({"SMEE_URL", "GH_PAT"} \subseteq c.set)
  \/ c.verifyHMAC /\ "WEBHOOK_SECRET" \notin c.set
  \/ c.repos = <<>>
  \/ \E i \in DOMAIN c.repos : EntryInvalid(c.repos[i])

Defaults(r) == [r EXCEPT !.match = IF @ = {} THEN {r.label} ELSE @,
                         !.cap   = IF @ <= 0 THEN 4 ELSE @]

\* What Load returns for a file and an environment it takes.
Loaded(c, env) ==
  [WithEnv(c, env) EXCEPT !.repos = [i \in DOMAIN c.repos |-> Defaults(c.repos[i])]]

\* The entries RepoByName may return: the first of that name, if there is any.
RepoByName(c, name) ==
  {i \in DOMAIN c.repos : /\ c.repos[i].name = name
                          /\ \A k \in 1..(i - 1) : c.repos[k].name # name}
=============================================================================
