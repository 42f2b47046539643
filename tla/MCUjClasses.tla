----------------------------- MODULE MCUjClasses -----------------------------
(* Packages of two classes and two interfaces for UjClasses: all hierarchies,
   with missing superclasses and interfaces, in several orders. *)
EXTENDS UjClasses

MCNatives == <<
  [name |-> "Object", instDatSz |-> 0, clsDatSz |-> 0, fields |-> <<>>, ifaces |-> <<>>,
   methods |-> {"hashCode"}, names |-> <<>>],
  [name |-> "MiniString", instDatSz |-> 2, clsDatSz |-> 0, fields |-> <<>>, ifaces |-> <<>>,
   methods |-> {"length"}, names |-> <<>>]>>

Field(n, static, type) == [name |-> n, static |-> static, type |-> type]

File(name, super, iface, ifaces, fields, methods, names) ==
  [name |-> name, super |-> super, iface |-> iface, ifaces |-> ifaces, fields |-> fields,
   methods |-> methods, names |-> names, instDatSz |-> 0, clsDatSz |-> 0]

A(super, ifaces) ==
  File("A", super, FALSE, ifaces,
       <<Field(1, FALSE, "int"), Field(2, TRUE, "byte"), Field(3, FALSE, "long")>>,
       {"run", "hashCode"}, <<"x", "s", "y">>)
B(super, ifaces) ==
  File("B", super, FALSE, ifaces,
       <<Field(2, TRUE, "short"), Field(1, FALSE, "byte"), Field(3, TRUE, "obj")>>,
       {"run"}, <<"y", "x", "s">>)
I(ifaces) == File("I", "Object", TRUE, ifaces, <<>>, {}, <<>>)
J(ifaces) == File("J", "Object", TRUE, ifaces, <<>>, {}, <<>>)

Some(s) == {<<>>} \cup {<<x>> : x \in s}

MCPackages ==
  {<<f[o[1]], f[o[2]], f[o[3]], f[o[4]]>> :
     f \in {<<A(sa, ia), B(sb, ib), I(ii), J(<<>>)>> :
              sa \in {"Object", "MiniString", "B"}, ia \in {<<>>, <<"I">>, <<"J", "I">>},
              sb \in {"Object", "A", "Missing"}, ib \in {<<>>, <<"J">>},
              ii \in {<<>>, <<"J">>, <<"Missing", "J">>}},
     o \in {<<1, 2, 3, 4>>, <<4, 3, 1, 2>>, <<3, 1, 4, 2>>}}

MCNames == {"Object", "MiniString", "A", "B", "I", "J", "Absent"}

MCDescriptors == {<<>>, <<"[", "[", "int">>, <<"[", "obj", "long">>, <<"long", "[", "obj">>}
MCFewDescriptors == {<<>>, <<"long", "[", "int", "obj">>}
=============================================================================
