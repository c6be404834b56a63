-------------------------- MODULE MCDnbd1Requests --------------------------
EXTENDS Dnbd1Requests, TLC

Reads == {<<0, 1>>}

Symmetry == Permutations(Reqs)
=============================================================================
