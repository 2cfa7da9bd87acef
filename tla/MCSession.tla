----------------------------- MODULE MCSession -----------------------------
(* A small instance of Session: one college, one class, one folder in it.  *)
EXTENDS Session, TLC

CONSTANTS khoury, cs101, bob

MCDirs == {<<khoury>>, <<khoury, cs101>>, <<khoury, cs101, bob>>}

\* Single components, and the full path of the class, which is refused.
MCDownArgs == {<<khoury>>, <<cs101>>, <<bob>>, <<khoury, cs101>>}

RequestSymmetry == Permutations(Requests)
=============================================================================
