--------------------------- MODULE MCFullySharded ---------------------------
EXTENDS FullySharded

MCSize == [l \in 0 .. 3 |-> IF l = 1 THEN 2 ELSE 3]
MCPaths == {<<1, 2, 3>>, <<1, 2>>, <<1, 3>>}
Booleans == BOOLEAN
=============================================================================
