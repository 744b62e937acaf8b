--------------------------- MODULE MCConfigReload ---------------------------
(* Three PUTs, the second shorter than the others, of the rules (read back *)
(* after the save), the sellers (swapped from the request) and the         *)
(* snippets (only saved).                                                  *)
EXTENDS ConfigReload

CONSTANTS p1, p2, p3

MCPuts == {p1, p2, p3}
MCDocuments == {"rules", "sellers", "snippets"}
MCSize == [p \in MCPuts |-> IF p = p2 THEN 1 ELSE 2]
=============================================================================
