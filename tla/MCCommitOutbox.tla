--------------------------- MODULE MCCommitOutbox ---------------------------
EXTENDS CommitOutbox

CONSTANTS a1, a2, b1, b2, A, B

MCRoomOf == [k \in Keys |-> IF k \in {a1, a2} THEN A ELSE B]
MCSize == [k \in Keys |-> IF k = a1 THEN 2 ELSE 1]

Plain(keys) == {[key |-> k, print |-> "x"] : k \in keys}
MCPlain == Plain(Keys)

\* One commit published with two different contents.
MCContested == MCPlain \cup {[key |-> a1, print |-> "y"]}

=============================================================================
