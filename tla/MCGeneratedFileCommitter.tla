---------------------- MODULE MCGeneratedFileCommitter ----------------------
(***************************************************************************)
(* An instance of GeneratedFileCommitter for TLC: runs of two versions of  *)
(* one schema.                                                             *)
(***************************************************************************)
EXTENDS GeneratedFileCommitter, TLC

OneFile == {<<[file |-> "a", version |-> v]>> : v \in Version}

Symmetry == Permutations(Inode) \union Permutations(Process)
=============================================================================
