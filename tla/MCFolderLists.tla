--------------------------- MODULE MCFolderLists ---------------------------
(* Small instances of FolderLists: a class with a shared folder that has a *)
(* subfolder, and one TA.                                                  *)
EXTENDS FolderLists, TLC

CONSTANTS a, b, n, d, ta

shared == <<a>>
notes == <<a, n>>
other == <<b>>
fresh == <<d>>

Mkdir(h, f) == [kind |-> "mkdir", who |-> h, folder |-> f, to |-> <<>>]
Delete(f) == [kind |-> "delete", who |-> Class, folder |-> f, to |-> <<>>]
Rename(h, f, g) == [kind |-> "rename", who |-> h, folder |-> f, to |-> g]

MCOrder == <<Class, ta>>
MCStart == [h \in Holders |-> IF h = Class THEN <<shared, notes>> ELSE <<shared>>]

\* Folders come and go, and one is renamed.
MCJobs == {Mkdir(Class, other), Delete(shared), Rename(ta, shared, fresh)}

RequestSymmetry == Permutations(Requests)
=============================================================================
