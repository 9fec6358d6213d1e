------------------------------ MODULE Webhook -------------------------------
(***************************************************************************)
(* internal/webhook: which events make Dispatch call Spawn, and for which  *)
(* entry of the configuration.                                             *)
(*                                                                         *)
(* A message is a record: signed (its signature is that of its body),      *)
(* event, parses (its body is the JSON of an event), action, repo, labels. *)
(***************************************************************************)
EXTENDS Config

CONSTANT Lower  \* strings.ToLower on labels

LabelMatches(labels, want) ==
  \E l \in labels, w \in want : Lower[l] = Lower[w]

\* The entries (one or none) Spawn is called for.
Dispatch(c, m) ==
  {i \in RepoByName(c, m.repo) :
     /\ c.verifyHMAC => m.signed
     /\ m.event = "workflow_job"
     /\ m.parses
     /\ m.action = "queued"
     /\ LabelMatches(m.labels, c.repos[i].match)}
=============================================================================
