----------------------------- MODULE MCModsView -----------------------------
(* Instances of ModsView for TLC.                                          *)
EXTENDS ModsView, TLC

CONSTANTS a, x, b, x1, v1, modrinth, curseforge

(* Two pages of two rows, and the last page may have one row or none.      *)
MCOrder == << a, x, b >>
Most == [i \in Items |-> IF i = a THEN "client" ELSE "both"]
MCPacks == {Most, [Most EXCEPT ![x] = Absent]}

(* What a provider calls x1 is x; what the other one calls x1 is b.        *)
MCItemOf == [h \in Hits |-> IF h[1] = modrinth THEN x ELSE b]
=============================================================================
