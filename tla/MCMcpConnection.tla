--------------------------- MODULE MCMcpConnection ---------------------------
(* McpConnection with the values of its configurations.                    *)
EXTENDS McpConnection, TLC

CONSTANTS c1, c2

OneCall == {c1}
TwoCalls == {c1, c2}

(* The dispatches are interchangeable; used with safety properties only.   *)
CallSymmetry == Permutations(TwoCalls)

=============================================================================
