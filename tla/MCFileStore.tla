---------------------------- MODULE MCFileStore ----------------------------
(* Small instances of FileStore.                                           *)
EXTENDS FileStore, TLC

OpSymmetry == Permutations(Ops)
=============================================================================
