---------------------------- MODULE MCLifecycle -----------------------------
(* A small instance of Lifecycle: a good and a bad configuration file.     *)
EXTENDS Lifecycle

Good == [set |-> {"SMEE_URL"}, verifyHMAC |-> FALSE,
         repos |-> << [name |-> "a", complete |-> TRUE, match |-> {}, label |-> "gpu",
                       cap |-> 0] >>]

TheFiles == {Good, [Good EXCEPT !.verifyHMAC = TRUE]}
TheEnv   == {"GH_PAT"}
=============================================================================
