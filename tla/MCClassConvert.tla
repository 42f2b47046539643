---------------------------- MODULE MCClassConvert ----------------------------
(* Classes for ClassConvert: two fields, a method of four instructions with a
   jump among them and one exception entry, a method to call, and constants in
   two orders, some of them unused. *)
EXTENDS ClassConvert

K(key, type, refs, val, size) ==
  [key |-> key, type |-> type, refs |-> refs, val |-> val, size |-> size]

Str(key, val, size) == K(key, "string", <<>>, val, size)

Early == <<
  K("str", "str_ref", <<"x">>, "", 0), K("int", "int", <<>>, "7", 4),
  Str("m", "m", 1), K("mm", "methodref", <<"A", "ntm">>, "", 0),
  K("fe", "fieldref", <<"E", "ntx">>, "", 0), K("A", "class", <<"sA">>, "", 0),
  Str("sA", "A", 1), K("long", "long", <<>>, "9", 8), K("inv", "invalid", <<>>, "", 0)>>
Late == <<
  K("fx", "fieldref", <<"A", "ntx">>, "", 0), K("fy", "fieldref", <<"A", "nty">>, "", 0),
  K("ntx", "nti", <<"x", "I">>, "", 0), K("nty", "nti", <<"y", "J">>, "", 0),
  K("ntm", "nti", <<"m", "V">>, "", 0), Str("x", "x", 1), Str("y", "y", 1), Str("I", "I", 1),
  Str("J", "J", 1), Str("V", "()V", 3), K("E", "class", <<"sE">>, "", 0), Str("sE", "Ext", 3),
  K("SB", "class", <<"sSB">>, "", 0), Str("sSB", "StringBuilder", 13), Str("Code", "Code", 4),
  K("other", "int", <<>>, "8", 4), K("Z", "class", <<"sZ">>, "", 0), Str("sZ", "Z", 1),
  K("im", "interfaceref", <<"Z", "ntm">>, "", 0), K("fi", "fieldref", <<"A", "ntm">>, "", 0)>>

Orders == {Early \o Late, <<Late[15], Late[6]>> \o Early \o Reverse(SubSeq(Late, 16, 20))
                            \o SubSeq(Late, 7, 14) \o SubSeq(Late, 1, 5)}

MCByte == 14

\* A branch back over an instruction of three bytes is in reach, and no longer when
\* that has five; the class files have no branch that is not (Far).
MCReach == 4

\* (op, key of the constant, numbers of the instructions it goes to)
Ins(op, key, to) == [op |-> op, key |-> key, to |-> to]
Simple == {Ins("none", "", <<>>), Ins("ldc", "int", <<>>), Ins("ldc", "str", <<>>),
           Ins("field", "fx", <<>>), Ins("static", "fy", <<>>), Ins("field", "fe", <<>>),
           Ins("invoke", "mm", <<>>), Ins("ldc2_w", "long", <<>>), Ins("new", "SB", <<>>),
           Ins("invokeinterface", "im", <<>>)}
Second == {Ins("none", "", <<>>), Ins("field", "fx", <<>>), Ins("static", "fy", <<>>),
           Ins("ldc", "other", <<>>), Ins("ref", "E", <<>>), Ins("new", "E", <<>>)}
Jumps == {Ins("branch", "", <<1>>), Ins("branch", "", <<3>>), Ins("branch_w", "", <<4>>),
          Ins("tableswitch", "", <<3, 1, 4>>), Ins("lookupswitch", "", <<1, 4>>),
          Ins("tableswitch", "", <<2>>)}
Far(p) == p[1].op = "invokeinterface" /\ p[2] = Ins("branch", "", <<1>>)
Programs == {p \in {<<a, j, b, Ins("none", "", <<>>)>> : a \in Simple, j \in Jumps, b \in Second}
               : ~Far(p)}
              \cup {<<j, a, b, j>> : j \in {Ins("tableswitch", "", <<3, 4>>)},
                                     a \in Simple, b \in Second}

Excs == {<<>>, <<<<1, 3, 4, "E">>>>, <<<<2, 5, 1, "">>, <<1, 2, 3, "Z">>>>}

Index(pool, key) == IF key = "" THEN 0 ELSE CHOOSE n \in DOMAIN pool : pool[n].key = key

Code(pool, prog) ==
  LET op(p) == IF p.op = "ldc" /\ Index(pool, p.key) >= MCByte THEN "ldc_w" ELSE p.op
      raw == [n \in DOMAIN prog |->
                LET i == [op |-> op(prog[n]), wide |-> FALSE, idx |-> Index(pool, prog[n].key),
                          val |-> <<>>, dests |-> prog[n].to]
                IN  i @@ [numBytes |-> IF i.op \in Switches \cup Branches THEN 0 ELSE ExtraSz(i)]]
      at == Place(raw, 0)
  IN  [len |-> End(raw, 0),
       at |-> [pc \in {at[n] : n \in DOMAIN raw} |->
                 LET i == raw[CHOOSE n \in DOMAIN raw : at[n] = pc]
                 IN  [op |-> i.op, wide |-> FALSE, idx |-> i.idx, val |-> <<>>,
                      dests |-> [j \in DOMAIN i.dests |-> at[i.dests[j]] - pc]]],
       start |-> at]

Class(pool, prog, excs, slots) ==
  LET code == Code(pool, prog)
      plain(cd) == [len |-> cd.len, at |-> cd.at]
      ix(key) == Index(pool, key)
  IN  [pool |-> [n \in DOMAIN pool |->
                   [type |-> pool[n].type, refs |-> [r \in DOMAIN pool[n].refs |-> ix(pool[n].refs[r])],
                    val |-> pool[n].val, size |-> pool[n].size, used |-> FALSE, direct |-> FALSE]],
       this |-> ix("A"), super |-> ix("E"), ifaces |-> <<ix("Z")>>, attrs |-> <<ix("Code")>>,
       fields |-> <<[name |-> ix("x"), descr |-> ix("I"), static |-> FALSE],
                    [name |-> ix("y"), descr |-> ix("J"), static |-> TRUE]>>,
       methods |-> <<[name |-> ix("y"), descr |-> ix("V"), slots |-> 0, code |-> plain(code),
                      excs |-> [e \in DOMAIN excs |->
                                  [start |-> code.start[excs[e][1]], end |-> code.start[excs[e][2]],
                                   handler |-> code.start[excs[e][3]], type |-> ix(excs[e][4])]]],
                     [name |-> ix("m"), descr |-> ix("V"), slots |-> slots, code |-> NoCode,
                      excs |-> <<>>]>>,
       addressable |-> 0, placed |-> 0]

Short(key, op) == <<Ins(op, key, <<>>), Ins("none", "", <<>>)>>

\* the last three: a call with too many slots, a field of a superclass, and a class
\* without methods
MCClasses ==
  {Class(o, p, e, 1) : o \in Orders, p \in Programs, e \in Excs}
    \cup {Class(o, Short("mm", "invoke"), <<>>, MCByte) : o \in Orders}
    \cup {Class(o, Short("fi", "field"), <<>>, 1) : o \in Orders}
    \cup {[Class(o, Short("fi", "field"), <<>>, 1) EXCEPT !.methods = <<>>] : o \in Orders}
=============================================================================
