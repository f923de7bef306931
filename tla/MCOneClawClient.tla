---------------------------- MODULE MCOneClawClient ----------------------------
(* A small instance of OneClawClient.                                      *)
EXTENDS OneClawClient, TLC

\* A path for every way 1Claw answers.
MCVault ==
    [p \in {"key", "other_text", "blank", "malformed", "missing", "forbidden"} |->
        CASE p = "key"       -> "value"
          [] p = "missing"   -> "absent"
          [] OTHER           -> p]

\* The threads are interchangeable.
ReaderSymmetry == Permutations(Readers)

=============================================================================
