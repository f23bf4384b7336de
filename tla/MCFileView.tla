----------------------------- MODULE MCFileView -----------------------------
(* Instances of FileView for TLC.                                          *)
EXTENDS FileView, TLC

CONSTANTS config, client, fa, fb

MCFiles == {fa, fb}
MCHomeOf == (fa :> config) @@ (fb :> client)
=============================================================================
