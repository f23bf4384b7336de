----------------------------- MODULE MCInventory -----------------------------
(* Instances of Inventory for TLC.                                         *)
EXTENDS Inventory, TLC

Symmetry == Permutations(Names) \cup Permutations(Readers)

(* An archive has the given files, for every name the same.                *)
Content(root, mod, jar, resource) ==
  [p \in Paths |->
     IF p.dir = "root" /\ p.meta THEN root
     ELSE IF p.dir = "mods" THEN IF p.meta THEN mod ELSE jar
     ELSE IF p.dir = "resourcepacks" /\ ~p.meta THEN resource
     ELSE Absent]

Jar == [form |-> "plain", side |-> "both", update |-> FALSE]

(* Metadata at the root that is for clients, servers or both, from a       *)
(* provider or not; a jar with and without metadata that refers to it.     *)
MCArchives ==
  { Content(Metadata("both", TRUE), Absent, Jar, Absent),
    Content(Metadata("client", FALSE), Metadata("server", TRUE), Jar, Absent),
    Content(Metadata("server", FALSE), Absent, Absent, Jar) }
=============================================================================
