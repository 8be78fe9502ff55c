--------------------------- MODULE MCOperatorTools ---------------------------
(* Small instances of OperatorTools for TLC. *)
EXTENDS OperatorTools

CONSTANTS r1, r2, a1, v2, p1, p2, A, B, C, s1

OneWallet == [r \in Runs |-> a1]

\* A list without the wallet, beside the one write-voter-list makes.
OthersOnly == {{v2}}
OneOrOther == {{a1}, {v2}}

OptionsAB == <<A, B>>
AnyOptionList == {<<A, B>>}
NoDeadline == {}

\* Flags that fit each other, and a pair that is refused.
CommitThenReveal == {<<1, 3>>, <<2, 2>>}
==============================================================================
