------------------------------- MODULE MCSmee -------------------------------
(* A small instance of Smee: two repos, one of them with the defaults.     *)
EXTENDS Smee, TLC

TheFile ==
  [set |-> {"SMEE_URL", "WEBHOOK_SECRET"}, verifyHMAC |-> TRUE,
   repos |-> << [name |-> "a", complete |-> TRUE, match |-> {}, label |-> "GPU", cap |-> 0],
                [name |-> "b", complete |-> TRUE, match |-> {"cpu", "arm"}, label |-> NoLabel,
                 cap |-> 2] >>]
TheEnv == {"GH_PAT"}

TheLower == [l \in {"GPU", "gpu", "cpu", "arm", "big"} |-> IF l = "GPU" THEN "gpu" ELSE l]

Queued(repo, labels) ==
  [signed |-> TRUE, event |-> "workflow_job", parses |-> TRUE, action |-> "queued",
   repo |-> repo, labels |-> labels]

TheContent ==
  <<"a">> :> Queued("a", {"gpu", "big"}) @@
  <<"b1", "b2">> :> Queued("b", {"arm"}) @@
  <<"other">> :> Queued("a", {"cpu"}) @@
  <<"unsigned">> :> [Queued("b", {"cpu"}) EXCEPT !.signed = FALSE] @@
  <<"done">> :> [Queued("b", {"cpu"}) EXCEPT !.action = "completed"]

D(v) == [field |-> "data", value |-> v]
Ev(v) == [field |-> "event", value |-> v]
Id == [field |-> "other", value |-> ""]

TheFrames ==
  { [lines |-> <<Id, Blank>>, asks |-> NoCall],
    [lines |-> <<Ev("ready"), D("a"), Blank>>, asks |-> NoCall],
    [lines |-> <<Id, D("a"), Blank>>, asks |-> <<"a", 4>>],
    [lines |-> <<Ev("message"), D("b1"), D("b2"), Blank>>, asks |-> <<"b", 2>>],
    [lines |-> <<D(""), D("b2"), Blank>>, asks |-> NoCall] }
  \cup { [lines |-> <<D(v), Blank>>, asks |-> NoCall] : v \in {"other", "unsigned", "done"} }
=============================================================================
