----------------------------- MODULE MCMigrator -----------------------------
(* Migrator with three builds: an old one, a new one that adds a version,   *)
(* and one whose files were edited.                                         *)
EXTENDS Migrator, TLC

BuildSet == {"old", "new", "edited"}
KnownBy  == [b \in BuildSet |-> IF b = "old" THEN 1 ELSE 2]
Files    == [b \in BuildSet |->
               [v \in 1..2 |-> IF b = "edited" THEN "e" ELSE "o"]]
Rebuilds == {1}
=============================================================================
