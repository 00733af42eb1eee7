-------------------------- MODULE MCSubnetRecords --------------------------
(* SubnetRecords for TLC. *)
EXTENDS SubnetRecords, TLC

\* A proportion between two numbers; negative ones, the second of which cannot be
\* encoded.
SomeWeights == {<<1, 4>>, <<-1, -1>>, <<-1, 2>>}

T(bytes, x) == [bytes |-> bytes, x |-> x]

SomeData == {T(1, FALSE), T(129, FALSE)}

\* At the limits of the prefixes' lengths and of UTF-8, and the x that could be
\* taken for the beginning of 0x.
SomeTexts == {T(12, TRUE), T(32, TRUE), T(MaxText, FALSE)}

Alike == Permutations(Hotkeys)

=============================================================================
