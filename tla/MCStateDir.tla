----------------------------- MODULE MCStateDir -----------------------------
(* StateDir for TLC.  Processes and inodes are interchangeable.             *)
EXTENDS StateDir, TLC

Interchangeable == Permutations(Proc) \union Permutations(Inode)
=============================================================================
