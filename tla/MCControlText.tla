---------------------------- MODULE MCControlText ---------------------------
(* Fields of up to two atoms, with separators and keys among them. *)
EXTENDS ControlText

Atoms == {"x", "|", "name=", "rel=", "part=", "filter=", "count="}

UpToOne == {<<>>} \cup {<<a>> : a \in Atoms}
UpToTwo == UpToOne \cup {<<a, b>> : a, b \in Atoms}
=============================================================================
