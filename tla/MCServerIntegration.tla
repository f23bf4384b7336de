------------------------ MODULE MCServerIntegration -------------------------
(* Instances of ServerIntegration for TLC.                                 *)
EXTENDS ServerIntegration, TLC

CONSTANTS single, multi

(* One command is a line, the other the same with a line break.            *)
MCCommands == {single, multi}
MCOneLine == [c \in MCCommands |-> single]

Symmetry == Permutations(Requests)
=============================================================================
