----------------------------- MODULE MCObjects -----------------------------
(***************************************************************************)
(* Three classes: the middle one has no private field of its own, and each *)
(* has a field without an initialiser.  Of the two fields of external types*)
(* one has an initialiser.  The parameters are of every width, and two     *)
(* defaults are earlier parameters.                                        *)
(***************************************************************************)
EXTENDS Objects

MCPublic == << <<"a">>, <<"b", "b2">>, <<"c">> >>
MCPrivate == << <<"pa">>, <<>>, <<"pc">> >>
MCInitialised == {"a", "b2", "pc"}
MCExternal == {"b", "pc"}

Param(type, earlier, default) ==
  [type |-> type, earlier |-> earlier, default |-> default]

MCParams ==
  << <<Param("int", 0, 2), Param("int", 1, 0)>>,
     <<Param("char", 0, 1), Param("reference", 0, 6)>>,
     <<Param("byte", 0, 1), Param("bool", 1, 0)>> >>

=============================================================================
