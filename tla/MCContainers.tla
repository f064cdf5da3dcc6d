---------------------------- MODULE MCContainers ----------------------------
EXTENDS Containers

VectorSymmetry == Permutations(Vectors)

\* Shorter than a chunk, and as long as one.
MCNames == {<<"a">>, <<"b">>, <<"c", "c">>}
=============================================================================
