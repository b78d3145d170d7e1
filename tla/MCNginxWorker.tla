--------------------------- MODULE MCNginxWorker ---------------------------
(***************************************************************************)
(* Three requests in one worker; a body is filtered when it contains an    *)
(* attack and malformed when it contains garbage.                          *)
(***************************************************************************)
EXTENDS NginxWorker

CONSTANTS r1, r2, r3

MCRequest == {r1, r2, r3}
MCPiece == {"plain", "attack", "garbage"}
MCFilter == [b \in SUBSET MCPiece |-> CASE "attack" \in b -> 1
                                        [] "garbage" \in b -> -1
                                        [] OTHER -> 0]
=============================================================================
