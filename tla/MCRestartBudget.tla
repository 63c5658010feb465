-------------------------- MODULE MCRestartBudget --------------------------
(* Instances of RestartBudget. *)
EXTENDS RestartBudget

OneRestart == {1}
NoRestart  == {0}
UpToOneRestart == {0, 1}

=============================================================================
