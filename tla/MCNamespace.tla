---------------------------- MODULE MCNamespace ----------------------------
(* Small instances of Namespace: two folders, one named like the beginning *)
(* of the other, each with an entry.                                       *)
EXTENDS Namespace, TLC

CONSTANTS fo, ba, x, s1, s2, s3, s4

foo == <<fo>>
foobar == <<fo, ba>>
bar == <<ba>>
barbar == <<ba, ba>>

MCNames == {foo, foobar, bar, barbar}
Key(n, r) == [folder |-> n, rest |-> r]
MCOrder == <<Key(bar, Self), Key(bar, x), Key(barbar, Self), Key(barbar, x),
             Key(foo, Self), Key(foo, x), Key(foobar, Self), Key(foobar, x)>>

MCStart == [k \in [folder: MCNames, rest: {x, Self}] |->
               CASE k = Key(foo, Self)    -> s1
                 [] k = Key(foo, x)       -> s2
                 [] k = Key(foobar, Self) -> s3
                 [] k = Key(foobar, x)    -> s4
                 [] OTHER                 -> None]

PutJob(n, e) == [kind |-> "put", name |-> n, rest |-> e, slash |-> TRUE, to |-> n]
RenameJob(n, m, s) == [kind |-> "rename", name |-> n, rest |-> Self, slash |-> s, to |-> m]
DeleteJob(n) == [kind |-> "delete", name |-> n, rest |-> Self, slash |-> TRUE, to |-> n]

MCJobs == {PutJob(foo, x), DeleteJob(foo),
           RenameJob(foo, bar, TRUE), RenameJob(foo, bar, FALSE), RenameJob(bar, foo, TRUE)}

\* An upload meets a rename of its folder.
UploadJobs == {PutJob(foo, x), RenameJob(foo, bar, TRUE)}

RequestSymmetry == Permutations(Requests)
=============================================================================
