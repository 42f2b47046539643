------------------------------ MODULE ClassConvert ------------------------------
(***************************************************************************)
(* The class converter (classCvt): classOptimize makes the code of a class *)
(* cheaper to run, marks the constants that are still needed, moves those  *)
(* to the front of the pool and corrects every reference to them, and      *)
(* classExport writes the UJC file in which references are addresses.      *)
(*                                                                         *)
(* A constant has a type, the indices of the constants it refers to, a     *)
(* value and the bytes that takes.  Attributes other than code are kept as *)
(* the list of the indices of their names.                                 *)
(***************************************************************************)
EXTENDS BasicBlocks

CONSTANTS
  Classes,  \* classes that have been read
  Byte      \* 256 in the code: the index of an ldc and the slots of a call fit in a byte

VARIABLES
  c,      \* the class
  orig,   \* the class as it was read
  phase,  \* where in classOptimize
  m,      \* the method in work
  k,      \* how many of its exceptions have been added
  pass,   \* 1: optimize and mark, 2: correct the constants
  fmap,   \* constantFMap: old index to new index
  file    \* what classExport has written

vars == <<c, orig, phase, m, k, pass, fmap, file, bbVars>>

NoCode == [len |-> 0, at |-> <<>>]

\* A method's exception entries are about its code, whose end may end one.
Method(md) ==
  /\ {"code", "excs"} \subseteq DOMAIN md
  /\ Len(md.excs) \in Nat /\ DOMAIN md.excs = 1..Len(md.excs)
  /\ IF md.code = NoCode THEN Len(md.excs) = 0
     ELSE /\ WellFormed(md.code)
          /\ \A e \in DOMAIN md.excs :
               /\ {md.excs[e].start, md.excs[e].handler} \subseteq DOMAIN md.code.at
               /\ md.excs[e].end \in DOMAIN md.code.at \cup {md.code.len}

OneRef == {"class", "str_ref"}
Members == {"fieldref", "methodref", "interfaceref"}
Numbers == {"int", "long"}

Const(cls, idx) == cls.pool[idx]
IsConst(cls, idx, types) == idx \in DOMAIN cls.pool /\ Const(cls, idx).type \in types

\* What a class file has as constants: references have constants of the right types.
Constant(cls, con) ==
  /\ {"type", "refs", "val", "size", "used", "direct"} \subseteq DOMAIN con
  /\ con.used = FALSE /\ con.direct = FALSE /\ con.size \in Nat
  /\ con.type \in OneRef => DOMAIN con.refs = {1} /\ IsConst(cls, con.refs[1], {"string"})
  /\ con.type \in Members \cup {"nti"} => DOMAIN con.refs = {1, 2}
  /\ con.type \in Members =>
       IsConst(cls, con.refs[1], {"class"}) /\ IsConst(cls, con.refs[2], {"nti"})
  /\ con.type = "nti" => \A r \in {1, 2} : IsConst(cls, con.refs[r], {"string"})

\* a member reference of this class, and the field or method that it means
IsLocal(cls, ref) == ref.refs[1] = cls.this
Local(cls, ref, members) ==
  FirstOf({n \in DOMAIN members :
             <<members[n].name, members[n].descr>> = Const(cls, ref.refs[2]).refs})

Access == {"field", "static"}
Accesses == Access \cup {"invoke"}

\* the constants that an instruction may name
Operands(op) ==
  CASE op \in {"ldc", "ldc_w"} -> {"int", "str_ref"}
    [] op = "ldc2_w" -> {"long"}
    [] op \in Access -> {"fieldref"}
    [] op = "invoke" -> {"methodref"}
    [] op = "invokeinterface" -> {"interfaceref"}
    [] op = "ref" -> {"class", "methodref"}
    [] op \in {"new", "multinewarray"} -> {"class"}
    [] OTHER -> {}

\* An instruction of a class file has its operand, and an access to a field of the
\* class is static if the field is.
Instruction(cls, i) ==
  /\ i.idx = 0 \/ IsConst(cls, i.idx, Operands(i.op))
  /\ i.op \in {"ldc", "ldc_w"} \cup Accesses => i.idx # 0 /\ ~i.wide
  /\ i.op = "ldc" => i.idx < Byte
  /\ i.op # "push_raw"
  /\ i.op \in Access /\ IsLocal(cls, Const(cls, i.idx)) =>
       LET f == Local(cls, Const(cls, i.idx), cls.fields)
       IN  f # 0 => cls.fields[f].static = (i.op = "static")

List(s) == Len(s) \in Nat /\ DOMAIN s = 1..Len(s)

ASSUME ByteAssumption == Byte \in Nat

\* The converter does not verify the classes it reads: a compiler has made them.
ASSUME ClassesAssumption ==
  \A cls \in Classes :
    /\ {"pool", "this", "super", "ifaces", "attrs", "fields", "methods", "addressable", "placed"}
         \subseteq DOMAIN cls
    /\ List(cls.pool) /\ List(cls.ifaces) /\ List(cls.fields) /\ List(cls.methods)
    /\ \A n \in DOMAIN cls.pool : Constant(cls, Const(cls, n))
    /\ IsConst(cls, cls.this, {"class"}) /\ (cls.super = 0 \/ IsConst(cls, cls.super, {"class"}))
    /\ \A n \in DOMAIN cls.ifaces : IsConst(cls, cls.ifaces[n], {"class"})
    /\ \A member \in Range(cls.fields) \cup Range(cls.methods) :
         /\ {"name", "descr"} \subseteq DOMAIN member
         /\ \A idx \in {member.name, member.descr} : IsConst(cls, idx, {"string"})
    /\ \A n \in DOMAIN cls.fields : "static" \in DOMAIN cls.fields[n] /\ cls.fields[n].static \in BOOLEAN
    /\ \A n \in DOMAIN cls.methods :
         LET md == cls.methods[n]
         IN  /\ Method(md)
             /\ \A a \in DOMAIN md.code.at : Instruction(cls, md.code.at[a])
             /\ \A e \in DOMAIN md.excs :
                  /\ "type" \in DOMAIN md.excs[e]
                  /\ md.excs[e].type = 0 \/ IsConst(cls, md.excs[e].type, {"class"})

NoFile == [items |-> <<>>]

Init ==
  /\ c \in Classes /\ orig = c
  /\ phase = "load" /\ m = 1 /\ k = 0 /\ pass = 1 /\ fmap = <<>> /\ file = NoFile
  /\ gCode = NoCode /\ bbList = <<>> /\ excList = <<>> /\ Q = <<>> /\ exit = "no"

Going == exit = "no" /\ Q = <<>>

-----------------------------------------------------------------------------
(* The code of the methods. *)

NextMethod ==
  IF m < Len(c.methods) THEN m' = m + 1 /\ phase' = "load"
  ELSE m' = 1 /\ phase' = IF pass = 1 THEN "mark" ELSE "fix"

\* bbInit for a method that has code
LoadCode ==
  /\ Going /\ phase = "load" /\ m \in DOMAIN c.methods /\ c.methods[m].code # NoCode
  /\ bbInit(c.methods[m].code)
  /\ phase' = "exc" /\ k' = 0
  /\ UNCHANGED <<c, orig, m, pass, fmap, file, exit>>

\* a method without code, or none at all
SkipMethod ==
  /\ Going /\ phase = "load" /\ (m \in DOMAIN c.methods => c.methods[m].code = NoCode)
  /\ NextMethod
  /\ UNCHANGED <<c, orig, k, pass, fmap, file, bbVars>>

AllowedNew == {"String", "StringBuilder"}

\* bbVerifyNewType ends the converter
IllegalNew ==
  {n \in DOMAIN c.pool : /\ Const(c, n).type = "class"
                         /\ Const(c, Const(c, n).refs[1]).val \notin AllowedNew}

Disassemble ==
  /\ bbPrvRun(IllegalNew)
  /\ UNCHANGED <<c, orig, phase, m, k, pass, fmap, file>>

AddException ==
  /\ Going /\ phase = "exc" /\ k < Len(c.methods[m].excs)
  /\ bbAddExc(c.methods[m].excs[k + 1])
  /\ k' = k + 1
  /\ UNCHANGED <<c, orig, phase, m, pass, fmap, file, exit>>

FinishLoading ==
  /\ Going /\ phase = "exc" /\ k = Len(c.methods[m].excs)
  /\ bbFinishLoading
  /\ phase' = "rewrite"
  /\ UNCHANGED <<c, orig, m, k, pass, fmap, file, gCode, Q>>

-----------------------------------------------------------------------------
(* The passes over the code. *)

JavaTypeSz(type) ==
  CASE type \in {"B", "Z"} -> 1
    [] type \in {"C", "S"} -> 2
    [] type \in {"D", "J"} -> 8
    [] OTHER -> 4

Descr(cls, f) == Const(cls, f.descr).val

\* the first n of some sizes together
Total(sizes, n) ==
  LET to[x \in 0..n] == IF x = 0 THEN 0 ELSE to[x - 1] + sizes[x]
  IN  to[n]

\* the offset that classOptimize gives to field n: the fields of its kind before it
Offset(cls, n) ==
  LET size(f) == IF f.static = cls.fields[n].static THEN JavaTypeSz(Descr(cls, f)) ELSE 0
  IN  Total([x \in DOMAIN cls.fields |-> size(cls.fields[x])], n - 1)

OfKind(cls, i) == IF i.op = "invoke" THEN cls.methods ELSE cls.fields

\* classOptimizerPrvHandleLocals: what the wide form holds; none if it cannot be used
HandleLocals(i) ==
  LET ref == Const(c, i.idx)
      n == Local(c, ref, OfKind(c, i))
      slots == c.methods[n].slots
  IN  CASE ~IsLocal(c, ref) -> <<>>
        [] IsLocal(c, ref) /\ i.op # "invoke" -> <<Descr(c, c.fields[n]), Offset(c, n)>>
        [] OTHER -> IF slots >= Byte - 1 THEN <<>> ELSE <<"call", n - 1, slots + 1>>

\* bbOptimizationPassF
Optimize(i) ==
  CASE i.op \in {"ldc", "ldc_w"} ->
         IF Const(c, i.idx).type = "str_ref" THEN i
         ELSE [i EXCEPT !.op = "push_raw", !.numBytes = 4, !.idx = 0,
                        !.val = <<Const(c, i.idx).val>>]
    [] i.op \in Accesses /\ ~i.wide ->
         IF HandleLocals(i) = <<>> THEN i
         ELSE [i EXCEPT !.wide = TRUE, !.numBytes = 3, !.idx = 0, !.val = HandleLocals(i)]
    [] OTHER -> i

\* failed to find field in local class
LocalMissing ==
  \E i \in Range(InstrsOf(bbList)) :
    /\ i.op \in Accesses /\ ~i.wide
    /\ IsLocal(c, Const(c, i.idx)) /\ Local(c, Const(c, i.idx), OfKind(c, i)) = 0

\* bbFixConstantsPassF: the index of an ldc is a byte
FixConstants(i) ==
  LET new == fmap[i.idx]
  IN  IF i.idx = 0 THEN i ELSE [i EXCEPT !.idx = IF i.op = "ldc" THEN new % Byte ELSE new]

\* (Mutant: the types of caught exceptions are not marked.)
MarkConstants_NotCaught(instrs, excs) == {i.idx : i \in Range(instrs)} \ {0}

\* bbMarkConstantsPassF, and the types of caught exceptions
MarkConstants(instrs, excs) ==
  ({i.idx : i \in Range(instrs)} \cup {e.type : e \in Range(excs)}) \ {0}

Marked(pool, direct) ==
  [n \in DOMAIN pool |-> IF n \in direct THEN [pool[n] EXCEPT !.used = TRUE, !.direct = TRUE]
                         ELSE pool[n]]

\* A pass over a method and the export of its code, its exceptions included.
Rewrite ==
  /\ Going /\ phase = "rewrite"
  /\ LET blocks == bbPass([i \in Range(InstrsOf(bbList)) |->
                            IF pass = 1 THEN Optimize(i) ELSE FixConstants(i)])
         excs == c.methods[m].excs
         newExcs == [n \in DOMAIN excs |->
                       [start |-> bbGetExc(blocks, n).start, end |-> bbGetExc(blocks, n).end,
                        handler |-> bbGetExc(blocks, n).handler,
                        type |-> IF pass = 1 THEN excs[n].type ELSE fmap[excs[n].type]]]
     IN  IF pass = 1 /\ LocalMissing
         THEN exit' = "local" /\ UNCHANGED <<c, phase, m, bbList, excList>>
         ELSE IF OutOfReach(blocks)
         THEN exit' = "offset" /\ UNCHANGED <<c, phase, m, bbList, excList>>
         ELSE /\ c' = [c EXCEPT
                         !.methods[m].code = bbExport(blocks),
                         !.methods[m].excs = newExcs,
                         !.pool = IF pass = 1
                                  THEN Marked(@, MarkConstants(InstrsOf(blocks), excs)) ELSE @]
              /\ bbDestroy /\ NextMethod /\ UNCHANGED exit
  /\ UNCHANGED <<orig, k, pass, fmap, file, gCode, Q>>
-----------------------------------------------------------------------------
(* The order of the constants. *)

\* constants that the class names itself: as strings for itself and its superclass
Named(cls) ==
  {Const(cls, cls.this).refs[1]}
    \cup (IF cls.super = 0 THEN {} ELSE {Const(cls, cls.super).refs[1]})
    \cup Range(cls.ifaces)
    \cup UNION {{f.name, f.descr} : f \in Range(cls.fields) \cup Range(cls.methods)}

\* the strings that a constant needs: its own, or a member's class, name and type
Needs(pool, con) ==
  CASE con.type \in OneRef -> {con.refs[1]}
    [] con.type \in Members -> {pool[con.refs[1]].refs[1]} \cup Range(pool[con.refs[2]].refs)
    [] OTHER -> {}

MarkOthers ==
  /\ Going /\ phase = "mark"
  /\ LET pool == Marked(c.pool, Named(c))
         needed == UNION {Needs(pool, con) : con \in {d \in Range(pool) : d.direct}}
     IN  c' = [c EXCEPT !.pool = [n \in DOMAIN pool |->
                  IF n \in needed THEN [pool[n] EXCEPT !.used = TRUE] ELSE pool[n]]]
  /\ phase' = "reorder"
  /\ UNCHANGED <<orig, m, k, pass, fmap, file, bbVars>>

\* constants with addresses, constants that are just placed, and the rest
Kind(con) == IF con.direct THEN 1 ELSE IF con.used THEN 2 ELSE 3

\* Constants come by kind, those of a kind in the order they had.
NewIndex(pool, n) ==
  LET first(x) == \/ Kind(pool[x]) < Kind(pool[n])
                  \/ Kind(pool[x]) = Kind(pool[n]) /\ x <= n
  IN  Cardinality({x \in DOMAIN pool : first(x)})

Reorder ==
  /\ Going /\ phase = "reorder"
  /\ fmap' = [n \in {0} \cup DOMAIN c.pool |-> IF n = 0 THEN 0 ELSE NewIndex(c.pool, n)]
  /\ phase' = "load" /\ pass' = 2
  /\ UNCHANGED <<c, orig, m, k, file, bbVars>>

\* The class's own references and those between constants, and the move itself.
FixOthers ==
  /\ Going /\ phase = "fix"
  /\ LET renamed(members) ==
           [n \in DOMAIN members |-> [members[n] EXCEPT !.name = fmap[@], !.descr = fmap[@]]]
         moved(con) == [con EXCEPT !.refs = [r \in DOMAIN @ |-> fmap[@[r]]]]
         string(idx) == IF idx = 0 THEN 0 ELSE fmap[Const(c, idx).refs[1]]
         direct == {n \in DOMAIN c.pool : c.pool[n].direct}
         constantRMap(p) == CHOOSE n \in DOMAIN c.pool : fmap[n] = p
     IN  c' = [c EXCEPT
                 !.this = string(@), !.super = string(@),
                 !.ifaces = [n \in DOMAIN @ |-> fmap[@[n]]],
                 !.attrs = [n \in DOMAIN @ |-> fmap[@[n]]],
                 !.fields = renamed(@), !.methods = renamed(@),
                 !.addressable = Cardinality(direct) + 1,
                 !.placed = Cardinality({n \in DOMAIN c.pool : c.pool[n].used}) + 1,
                 !.pool = [p \in DOMAIN @ |-> moved(@[constantRMap(p)])]]
  /\ phase' = "export"
  /\ UNCHANGED <<orig, m, k, pass, fmap, file, bbVars>>

-----------------------------------------------------------------------------
(* The UJC file. *)

NotReady == -1
Header == 18
Crefs == 2 + 3 * (c.addressable - 1)

PlacedStrings == {n \in 1..(c.placed - 1) : c.pool[n].used /\ c.pool[n].type = "string"}
Addressed(types) == {n \in 1..(c.placed - 1) : c.pool[n].direct /\ c.pool[n].type \in types}

\* the precalculated size of a constant
ConstSz(con) ==
  IF ~con.used THEN 0
  ELSE 1 + CASE con.type = "string" -> 2 + con.size
             [] con.type \in Numbers /\ con.direct -> con.size
             [] con.type \in Members /\ con.direct -> 9
             [] OTHER -> -1

Consts == Total([n \in 1..(c.placed - 1) |-> ConstSz(c.pool[n])], c.placed - 1)
Interfaces == 2 + 3 * Len(c.ifaces)
Methods == 2 + 13 * Len(c.methods)
Fields == 2 + 10 * Len(c.fields)

\* by how much the address grows with a constant, in the loop over strings and after it
StringSz == [n \in 1..(c.placed - 1) |-> IF n \in PlacedStrings THEN 3 + c.pool[n].size ELSE 0]
OtherSz ==
  [n \in 1..(c.placed - 1) |->
     IF n \notin Addressed(Numbers \cup Members) THEN 0
     ELSE 1 + IF c.pool[n].type \in Members THEN 9 ELSE c.pool[n].size]

\* where a string will be: only placed ones get an address
StringAddr(n) ==
  IF n \in PlacedStrings THEN Header + Crefs + Total(StringSz, n - 1) ELSE NotReady

\* an entry of the table of references
CrefAddr(n) ==
  LET con == c.pool[n]
  IN  CASE ~con.direct -> 0
        [] con.direct /\ con.type = "string" -> StringAddr(n)
        [] con.direct /\ con.type \in OneRef -> StringAddr(con.refs[1])
        [] OTHER -> Header + Crefs + Total(StringSz, c.placed - 1) + Total(OtherSz, n - 1)

\* what is written for a constant, and how many bytes that is
Item(n) ==
  LET con == c.pool[n]
      cls == c.pool[con.refs[1]]
      nameType == c.pool[con.refs[2]]
  IN  CASE con.type = "string" -> [val |-> <<con.val>>, size |-> 1 + 2 + con.size]
        [] con.type \in Numbers -> [val |-> <<con.val>>, size |-> 1 + con.size]
        [] con.type \in Members ->
             [val |-> <<StringAddr(cls.refs[1]) + 1, StringAddr(nameType.refs[1]) + 1,
                        StringAddr(nameType.refs[2]) + 1>>, size |-> 1 + 3 + 3 + 3]

\* The two loops that write, over strings and over all others: what their n-th turn writes.
Items ==
  LET turns == c.placed - 1
      nothing == [val |-> <<>>, size |-> 0]
  IN  [n \in 1..(turns + turns) |->
         IF n <= turns THEN IF n \in PlacedStrings THEN Item(n) ELSE nothing
         ELSE IF n - turns \in Addressed(Numbers \cup Members) THEN Item(n - turns) ELSE nothing]

CodeSz(md) == IF md.code = NoCode THEN 0 ELSE 8 * Len(md.excs) + 6 + md.code.len

\* the address of a method's code: 0 for none
CodeAddr(n) ==
  LET md == c.methods[n]
  IN  IF md.code = NoCode THEN 0
      ELSE Header + Crefs + Interfaces + Methods + Fields + Consts
             + FoldLeft(LAMBDA s, x : s + CodeSz(x), 0, SubSeq(c.methods, 1, n - 1))
             + 6 + 8 * Len(md.excs)

\* the address at which the n-th turn begins to write, and what is found at an address
Position(items, n) == Header + Crefs + Total([x \in DOMAIN items |-> items[x].size], n - 1)
Written(items) ==
  LET wrote == {n \in DOMAIN items : items[n].size # 0}
  IN  [a \in {Position(items, n) : n \in wrote} |->
         items[CHOOSE n \in wrote : Position(items, n) = a].val]

UJC ==
  LET member(f) == [name |-> StringAddr(f.name), descr |-> StringAddr(f.descr)]
      consts == Header + Crefs
      items == Items
  IN  [this |-> c.this, super |-> c.super,
       interfaces |-> consts + Consts + 2,
       methods |-> consts + Consts + Interfaces,
       fields |-> consts + Consts + Interfaces + Methods + 2,
       crefs |-> [n \in 1..(c.addressable - 1) |-> CrefAddr(n)],
       items |-> Written(items),
       ifaceList |-> [n \in DOMAIN c.ifaces |-> StringAddr(c.pool[c.ifaces[n]].refs[1])],
       methodList |-> [n \in DOMAIN c.methods |-> member(c.methods[n])],
       fieldList |-> [n \in DOMAIN c.fields |-> member(c.fields[n])],
       code |-> [n \in DOMAIN c.methods |-> CodeAddr(n)],
       end |-> Position(items, 2 * c.placed - 1)]

classExport ==
  /\ Going /\ phase = "export"
  /\ file' = UJC
  /\ phase' = "done"
  /\ UNCHANGED <<c, orig, m, k, pass, fmap, bbVars>>

Next ==
  \/ LoadCode \/ SkipMethod \/ Disassemble \/ AddException \/ FinishLoading \/ Rewrite
  \/ MarkOthers \/ Reorder \/ FixOthers \/ classExport

Spec == Init /\ [][Next]_vars

-----------------------------------------------------------------------------
(* Properties. *)

\* The number of the instruction at an address in the order of the addresses, and
\* the address of the one with a number; the end of the code counts as one.
Number(code, a) == Cardinality({b \in DOMAIN code.at : b < a}) + 1
Address(code, n) == CHOOSE a \in DOMAIN code.at \cup {code.len} : Number(code, a) = n
TargetsOf(code, n) ==
  LET a == Address(code, n) IN
  [j \in DOMAIN code.at[a].dests |-> Number(code, a + code.at[a].dests[j])]

\* However the instructions of a method change their length, each branch, each case
\* of a switch and each exception entry still means the same instruction, and no
\* method is refused unless a target is out of reach, a local member is missing or
\* an object of a strange class is made.  An entry that ends with the code is the
\* exception: its block has been put in front of all others, and its end becomes 0.
TargetsKept ==
  /\ exit \in {"no", "offset", "local", "new"}
  /\ phase = "done" =>
       \A n \in DOMAIN c.methods :
         LET old == orig.methods[n].code
             new == c.methods[n].code
             label(a) == IF a = old.len THEN {1} ELSE {Number(old, a)}
         IN  /\ Cardinality(DOMAIN new.at) = Cardinality(DOMAIN old.at)
             /\ \A i \in 1..Cardinality(DOMAIN old.at) : TargetsOf(new, i) = TargetsOf(old, i)
             /\ \A e \in DOMAIN orig.methods[n].excs :
                  LET was == orig.methods[n].excs[e]
                      is == c.methods[n].excs[e]
                  IN  /\ Number(new, is.start) = Number(old, was.start)
                      /\ Number(new, is.handler) = Number(old, was.handler)
                      /\ Number(new, is.end) \in label(was.end)

\* What a constant means: a string, a number, or a member's class, name and type.
Meaning(cls, idx) ==
  LET con == cls.pool[idx]
  IN  CASE con.type \in OneRef -> <<cls.pool[con.refs[1]].val>>
        [] con.type \in Members ->
             <<cls.pool[cls.pool[con.refs[1]].refs[1]].val,
               cls.pool[cls.pool[con.refs[2]].refs[1]].val,
               cls.pool[cls.pool[con.refs[2]].refs[2]].val>>
        [] OTHER -> <<con.val>>

\* What the virtual machine finds at an address of a file, and by an index.
Read(ujc, a) == IF a \in DOMAIN ujc.items THEN ujc.items[a] ELSE <<>>
Text(ujc, a) == IF Read(ujc, a) = <<>> THEN "nothing" ELSE Read(ujc, a)[1]
Found(ujc, idx) ==
  IF idx \notin DOMAIN ujc.crefs THEN <<>>
  ELSE LET there == Read(ujc, ujc.crefs[idx])
       IN  IF Len(there) = 3 THEN [j \in 1..3 |-> Text(ujc, there[j] - 1)] ELSE there

\* A local member by its wide form.
FoundLocal(cls, i) ==
  IF i.op = "invoke" THEN LET md == cls.methods[i.val[2] + 1] IN
       <<cls.pool[md.name].val, cls.pool[md.descr].val>>
  ELSE LET f == CHOOSE n \in DOMAIN cls.fields :
                  Offset(cls, n) = i.val[2] /\ cls.fields[n].static = (i.op = "static")
       IN  <<cls.pool[cls.fields[f].name].val, i.val[1]>>

SameReference(ujc, old, new) ==
  IF new.idx # 0 THEN new.op = old.op /\ Found(ujc, new.idx) = Meaning(orig, old.idx)
  ELSE CASE new.op = "push_raw" /\ old.op # "push_raw" -> new.val = Meaning(orig, old.idx)
         [] new.op \in Accesses ->
              orig.pool[old.idx].refs[1] = orig.this /\ FoundLocal(orig, new) = Tail(Meaning(orig, old.idx))
         [] OTHER -> old.idx = 0 /\ new.op = old.op

\* Every reference of the class, looked up in the file, is what it was.
KeptIn(ujc) ==
  /\ \A n \in DOMAIN c.methods :
       LET old == orig.methods[n]
           new == c.methods[n]
       IN  /\ \A j \in 1..Cardinality(DOMAIN old.code.at) :
                SameReference(ujc, old.code.at[Address(old.code, j)],
                              new.code.at[Address(new.code, j)])
           /\ \A e \in DOMAIN old.excs :
                IF old.excs[e].type = 0 THEN new.excs[e].type = 0
                ELSE Found(ujc, new.excs[e].type) = Meaning(orig, old.excs[e].type)
           /\ Read(ujc, ujc.methodList[n].name) = Meaning(orig, old.name)
           /\ Read(ujc, ujc.methodList[n].descr) = Meaning(orig, old.descr)
  /\ Found(ujc, ujc.this) = Meaning(orig, orig.this)
  /\ IF orig.super = 0 THEN ujc.super = 0 ELSE Found(ujc, ujc.super) = Meaning(orig, orig.super)
  /\ \A n \in DOMAIN orig.ifaces : Read(ujc, ujc.ifaceList[n]) = Meaning(orig, orig.ifaces[n])
  /\ \A n \in DOMAIN orig.fields :
       /\ Read(ujc, ujc.fieldList[n].name) = Meaning(orig, orig.fields[n].name)
       /\ Read(ujc, ujc.fieldList[n].descr) = Meaning(orig, orig.fields[n].descr)
  /\ ujc.interfaces = ujc.end + 2
  /\ ujc.methods = ujc.end + Interfaces

\* Whatever constants a class has in whatever order: every reference of the class
\* file, in instructions (for an ldc within its byte), exception entries and the
\* class's own tables, means the same when it is looked up in the UJC file through
\* the table of references and the addresses there; and the sections are where the
\* header says.
ReferencesKept == phase = "done" => KeptIn(file)
=============================================================================
