----------------------------- MODULE MCReceiver -----------------------------
(* Instances of Receiver: who sends which version under which id.          *)
EXTENDS ReceiverInvariant, TLC

CONSTANTS t1, t2, s1, s2, n1, m1, m2

\* s1 has two chunks; s2 has none (an empty file), or two.
TwoAndNone == (s1 :> 2) @@ (s2 :> 0)
TwoAndTwo == (s1 :> 2) @@ (s2 :> 2)
OneAndOne == [s \in Sig |-> 1]
JustTwo == (s1 :> 2)
JustOne == (s1 :> 1)

OneName == [s \in Sig |-> n1]

OwnMtime == (s1 :> m1) @@ (s2 :> m2)
SameMtime == [s \in Sig |-> m1]

\* One id per version.
Distinct == {<<t1, s1>>, <<t2, s2>>}
\* A sender that was started again: the same version under two ids.
Resent == {<<t1, s1>>, <<t2, s1>>}
\* A revisit after the source changed: two versions under one id.
Reused == {<<t1, s1>>, <<t1, s2>>}
\* Both: version s1 was resent under t2, and t1 came back with version s2.
Tangled == {<<t1, s1>>, <<t2, s1>>, <<t1, s2>>}
Single == {<<t1, s1>>}

Symmetric == Permutations(Obj) \cup Permutations(Inode)
=============================================================================
