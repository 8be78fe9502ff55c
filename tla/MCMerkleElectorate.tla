-------------------------- MODULE MCMerkleElectorate --------------------------
(* Small instances of MerkleElectorate for TLC. *)
EXTENDS MerkleElectorate

CONSTANTS v1, v2, v3, v4, v5

\* One collation: the tools run where localeCompare agrees.
OneOrder == {[v \in Voters |-> CHOOSE i \in 1..5 : <<v2, v1, v3, v5, v4>>[i] = v]}

\* Every file of up to three lines over two voters, and lists of every length, in
\* two orders.
ShortFiles == UNION {[1..n -> {v1, v2, BLANK, INVALID}] : n \in 0..3}

LongFiles ==
  {<<v3, v1, v2>>, <<v2, v1, v3>>, <<v1, v4, v2, v5>>, <<v5, v4, v2, v1>>,
   <<v5, v3, v1, v4, v2>>, <<v1, v2, v3, v4, v5>>, <<v5>>, <<v2, v3>>, <<v1, v2, v4>>}

AllFiles == ShortFiles \cup LongFiles

\* The node of another list.
OtherNode == {PairHash(Leaf(v3), Leaf(v5))}
==============================================================================
