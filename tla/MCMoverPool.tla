---------------------------- MODULE MCMoverPool ----------------------------
(* MoverPool on a small instance: two backups, a replication and a restore of
   one repository. *)
EXTENDS MoverPool

CONSTANTS backup1, backup2, replication1, restore1, repo1

TwoBackups == {backup1, backup2}
OneReplication == {replication1}
OneRestore == {restore1}
MCPools == {Global, repo1}
OneRepo == [r \in Runs |-> repo1]
MCCap == [x \in MCPools |-> IF x = repo1 THEN 1 ELSE 2]
=============================================================================
