----------------------------- MODULE EventFeed ------------------------------
(***************************************************************************)
(* What the smee client and the webhook handler promise together: the      *)
(* events of a connection are handled one at a time, in their order, whole *)
(* and at most once, and each makes the call it asks for, or none.  Those  *)
(* of a connection that breaks are lost from some event on.                *)
(***************************************************************************)
EXTENDS Sequences

CONSTANTS Events,   \* the calls an event may ask for, Nothing included
          Nothing   \* no call

VARIABLES feed,     \* what the events sent and not handled yet ask for
          serving   \* the call that is being made

Init == feed = <<>> /\ serving = Nothing

Send == \E e \in Events : feed' = Append(feed, e) /\ UNCHANGED serving

Handle ==
  /\ feed # <<>> /\ serving = Nothing
  /\ serving' = Head(feed)
  /\ feed' = Tail(feed)

Return == serving # Nothing /\ serving' = Nothing /\ UNCHANGED feed

Break == serving = Nothing /\ feed' = <<>> /\ UNCHANGED serving

Next == Send \/ Handle \/ Return \/ Break

Spec == Init /\ [][Next]_<<feed, serving>>
=============================================================================
