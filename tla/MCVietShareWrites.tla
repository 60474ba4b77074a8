--------------------------- MODULE MCVietShareWrites ---------------------------
(* The gate with two tests, an intent that reuses the first test's id and one its key; *)
(* the journal with two operations and a request with the id of one, the key of the    *)
(* other.                                                                              *)
EXTENDS VietShareWrites, TLC

CONSTANTS t1, t2, k1, k2, wallet, ann, bob, p1, p2, b1, b2

first    == [test |-> t1, key |-> k1, spend |-> 2, cap |-> 2, wallet |-> wallet, operator |-> ann]
second   == [test |-> t2, key |-> k2, spend |-> 1, cap |-> 2, wallet |-> wallet, operator |-> ann]
stolen   == [test |-> t2, key |-> k1, spend |-> 1, cap |-> 2, wallet |-> wallet, operator |-> ann]
reworded == [test |-> t1, key |-> k2, spend |-> 1, cap |-> 1, wallet |-> wallet, operator |-> bob]

ConflictingTests == {first, second, stolen, reworded}

ConflictingRequests ==
    { [op |-> p1, key |-> k1, body |-> b1], [op |-> p2, key |-> k2, body |-> b1],
      [op |-> p2, key |-> k1, body |-> b2] }

\* Callers and their nonces have the names of executors and theirs.
Interchangeable == Permutations(Executors) \cup Permutations(Nonces) \cup Permutations(Stamps)
=============================================================================
