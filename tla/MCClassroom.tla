---------------------------- MODULE MCClassroom ----------------------------
(* A small instance of Classroom: two students, each with a root folder,   *)
(* of whom one is at work, a professor at work, a TA who looks on, and a   *)
(* shared folder that is also on the lists of the staff.                   *)
EXTENDS Classroom

CONSTANTS khoury, cs101, info, bob, alice, ann, x, y, b, a, prof, ta

MCNames == {khoury, cs101, info, bob, alice, ann, x, y}
MCEmailName == [s \in Students |-> IF s = b THEN bob ELSE alice]
MCOrder == <<Class, a, b, ta, prof>>

MCStartRows == {InfoKey, Folder(<<bob>>), Folder(<<alice>>), Folder(<<ann>>)}
MCStartLists == [h \in Holders |-> CASE h = b -> {<<bob>>}
                                     [] h = a -> {<<alice>>}
                                     [] OTHER -> {<<ann>>}]

Request(k, p, n) == [kind |-> k, arg |-> p, to |-> n]
MCRequests ==
    [u \in Users |->
        CASE u = b    -> {Request("mkdir", <<x>>, x), Request("upload", <<x>>, x),
                          Request("delete", <<x>>, x), Request("rename", <<x>>, y),
                          Request("renamefile", <<x>>, y)}
          [] u = prof -> {Request("mkdir", <<ann>>, x), Request("delete", <<ann>>, x),
                          Request("rename", <<x>>, y)}
          [] OTHER    -> {}]

(* The professor makes a folder at the class's root with a student's name. *)
MCSharedRequests ==
    [u \in Users |-> CASE u = b    -> {Request("mkdir", <<x>>, x)}
                       [] u = prof -> {Request("mkdir", <<bob>>, x)}
                       [] OTHER    -> {}]
=============================================================================
