------------------------------- MODULE UjClasses -------------------------------
(***************************************************************************)
(* Classes of the uJ virtual machine: native classes are registered, the   *)
(* classes of a package are loaded in rounds until their superclasses are  *)
(* there (riot/nat_uj.c, and the same loop in uJ/main.c), and the program  *)
(* looks up methods and fields, asks whether an object is an instance of a *)
(* class, and counts what a call takes off the stack (uJ/uj.c).            *)
(*                                                                         *)
(* A class file is a record; names stands for its table of strings, and a  *)
(* field's name is the address of one of them.  A class is its position in *)
(* classes, in the order in which they came: gFirstClass is the last, and  *)
(* nextClass goes down.  0 is NULL.  The UJC format is modelled, with the  *)
(* name hashes of UJ_OPT_CLASS_SEARCH taken to tell all names apart.       *)
(***************************************************************************)
EXTENDS Integers, Sequences, FiniteSets, SequencesExt, FiniteSetsExt

CONSTANTS
  Natives,     \* UjNativeClass records in the order of registration
  Packages,    \* packages: sequences of class files, the first has main
  Descriptors, \* parameter lists: sequences of "int", "long", "obj" and "["
  Names        \* names of classes the program asks instanceof about

NativeClasses ==
  [name : STRING, instDatSz : Nat, clsDatSz : Nat, fields : {<<>>}, ifaces : {<<>>},
   methods : SUBSET STRING, names : {<<>>}]

\* Object is registered first, has no class data, and no other class has its name.
ASSUME NativesAssumption ==
  /\ Natives \in Seq(NativeClasses) /\ Natives # <<>> /\ Natives[1].clsDatSz = 0
  /\ \A k \in DOMAIN Natives : Natives[k].name = Natives[1].name => k = 1

ClassFiles ==
  [name : STRING, super : STRING \ {""}, iface : BOOLEAN, ifaces : Seq(STRING),
   fields : Seq([name : Nat, static : BOOLEAN, type : STRING]), methods : SUBSET STRING,
   names : Seq(STRING), instDatSz : {0}, clsDatSz : {0}]

\* What a Java compiler sees to: a package has no class Object; what a class implements
\* is not native and, where the package has it, an interface; an interface extends
\* Object; and no two fields of a class have the same name.
ASSUME PackagesAssumption ==
  \A p \in Packages :
    /\ p \in Seq(ClassFiles)
    /\ \A f \in Range(p) :
         /\ f.name # Natives[1].name
         /\ \A n \in Range(Natives) : n.name \notin Range(f.ifaces)
         /\ \A g \in Range(p) :
              g.name \in Range(f.ifaces) => g.iface /\ g.super = Natives[1].name
         /\ \A k, l \in DOMAIN f.fields :
              /\ f.fields[k].name \in DOMAIN f.names
              /\ f.fields[k].static = f.fields[l].static
                 /\ f.names[f.fields[k].name] = f.names[f.fields[l].name] => k = l

VARIABLES
  classes,  \* the loaded classes, the oldest first
  pak,      \* the package
  phase,    \* natives, load, run, or why the start failed
  i,        \* the class whose turn it is
  done,     \* a class has been loaded in this round
  loaded,   \* class_loaded
  mark,     \* the marks of instanceof
  q,        \* the instanceof in progress
  call      \* the last call: its parameters and the slots they were taken to be

vars == <<classes, pak, phase, i, done, loaded, mark, q, call>>

NoQuery == [obj |-> 0, wanted |-> 0, at |-> 0, answer |-> "none"]
NoCall == [params |-> <<>>, static |-> TRUE, slots |-> 0]

Init ==
  /\ classes = <<>> /\ pak \in Packages /\ phase = "natives"
  /\ i = 1 /\ done = FALSE /\ loaded = {}
  /\ mark = <<>> /\ q = NoQuery /\ call = NoCall

-----------------------------------------------------------------------------
(* The list of classes and the layout of objects. *)

\* ujThreadPrvFindClass: the newest class of that name
FindClass(name) == Max({0} \cup {k \in DOMAIN classes : classes[k].name = name})

JavaTypeToSize(type) ==
  CASE type \in {"byte", "boolean"} -> 1
    [] type \in {"char", "short"} -> 2
    [] type \in {"double", "long"} -> 8
    [] OTHER -> 4

Bytes(field, static) == IF field.static = static THEN JavaTypeToSize(field.type) ELSE 0

DataSize(fields, static) ==
  LET sum[k \in 0..Len(fields)] == IF k = 0 THEN 0 ELSE sum[k - 1] + Bytes(fields[k], static)
  IN  sum[Len(fields)]

\* (Mutant: the data of a class starts where that of its superclass does.)
After_SameStart(supr, ofst, size) == IF supr = 0 THEN 0 ELSE classes[supr][ofst]

\* where the data of a class starts: behind that of its superclass.  The first
\* class finds zeros in the fields it does not set.
After(supr, ofst, size) == IF supr = 0 THEN 0 ELSE classes[supr][ofst] + classes[supr][size]

\* data: the bytes of class data allocated behind the UjClass
Class(file, supr, inst, cls, native, data) ==
  [name |-> file.name, file |-> file, supr |-> supr, native |-> native,
   instDataOfst |-> After(supr, "instDataOfst", "instDataSize"), instDataSize |-> inst,
   clsDataOfst |-> After(supr, "clsDataOfst", "clsDataSize"), clsDataSize |-> cls,
   data |-> data]

\* ujRegisterNativeClass; the allocation counts the offset of the superclass's
\* data and not its size
RegisterNativeClass ==
  /\ phase = "natives" /\ Len(classes) < Len(Natives)
  /\ LET n == Natives[Len(classes) + 1]
         supr == IF classes = <<>> THEN 0 ELSE 1
     IN  classes' = Append(classes, Class(n, supr, n.instDatSz, n.clsDatSz, TRUE,
                        (IF supr = 0 THEN 0 ELSE classes[supr].clsDataOfst) + n.clsDatSz))
  /\ UNCHANGED <<pak, phase, i, done, loaded, mark, q, call>>

NativesDone ==
  /\ phase = "natives" /\ Len(classes) = Len(Natives)
  /\ phase' = "load"
  /\ UNCHANGED <<classes, pak, i, done, loaded, mark, q, call>>

-----------------------------------------------------------------------------
(* Loading a package. *)

Supr(file) == IF file.super = "" THEN 0 ELSE FindClass(file.super)
DependencyMissing(file) == file.super # "" /\ Supr(file) = 0

\* ujLoadClass when it succeeds
Loaded(file) ==
  LET supr == Supr(file)
      cls == DataSize(file.fields, TRUE)
  IN  Append(classes, Class(file, supr, DataSize(file.fields, FALSE), cls, FALSE,
                            cls + After(supr, "clsDataOfst", "clsDataSize")))

\* The turn of a class that has not been loaded: done when its superclass is there.
LoadClass ==
  /\ phase = "load" /\ i <= Len(pak) /\ i \notin loaded
  /\ i' = i + 1
  /\ IF DependencyMissing(pak[i])
     THEN UNCHANGED <<classes, done, loaded>>
     ELSE classes' = Loaded(pak[i]) /\ done' = TRUE /\ loaded' = loaded \cup {i}
  /\ UNCHANGED <<pak, phase, mark, q, call>>

Skip ==
  /\ phase = "load" /\ i <= Len(pak) /\ i \in loaded
  /\ i' = i + 1
  /\ UNCHANGED <<classes, pak, phase, done, loaded, mark, q, call>>

\* (Mutant: one round more than there are levels is not made.)
NextRound_OnlyTwo ==
  /\ phase = "load" /\ i > Len(pak)
  /\ done' = FALSE
  /\ IF done /\ Cardinality(loaded) < 2
     THEN i' = 1 /\ UNCHANGED phase
     ELSE /\ phase' = IF loaded = DOMAIN pak THEN "run" ELSE "unresolved"
          /\ UNCHANGED i
  /\ UNCHANGED <<classes, pak, loaded, mark, q, call>>

\* Another round if this one has loaded something.
NextRound ==
  /\ phase = "load" /\ i > Len(pak)
  /\ done' = FALSE
  /\ IF done
     THEN i' = 1 /\ UNCHANGED phase
     ELSE /\ phase' = IF loaded = DOMAIN pak THEN "run" ELSE "unresolved"
          /\ UNCHANGED i
  /\ UNCHANGED <<classes, pak, loaded, mark, q, call>>

\* UJ_ERR_OUT_OF_MEMORY ends the start.
OutOfMemory ==
  /\ \/ phase = "natives" /\ Len(classes) < Len(Natives)
     \/ phase = "load" /\ i <= Len(pak) /\ i \notin loaded /\ ~DependencyMissing(pak[i])
  /\ phase' = "memory"
  /\ UNCHANGED <<classes, pak, i, done, loaded, mark, q, call>>

-----------------------------------------------------------------------------
(* Methods and fields. *)

Declares(c, m) == m \in classes[c].file.methods

\* (Mutant: the search goes on after it has found something.)
GetMethodAddr_Last(cls, m, own) ==
  LET found[c \in 0..Len(classes)] ==
        IF c = 0 THEN 0
        ELSE LET up == IF own THEN 0 ELSE found[classes[c].supr]
             IN  IF up # 0 THEN up ELSE IF Declares(c, m) THEN c ELSE 0
  IN  found[cls]

\* ujThreadPrvGetMethodAddr: the class in which the method is found; own stands
\* for FLAG_DONT_SEARCH_SUBCLASSES
GetMethodAddr(cls, m, own) ==
  LET found[c \in 0..Len(classes)] ==
        IF c = 0 THEN 0
        ELSE IF Declares(c, m) THEN c
        ELSE IF own THEN 0
        ELSE found[classes[c].supr]
  IN  found[cls]

\* The string that a class file has at an address: another file has something
\* else there.
StringAt(c, adr) ==
  IF adr \in DOMAIN classes[c].file.names THEN classes[c].file.names[adr] ELSE "garbage"

\* The fields in ujThreadPrvAccessClass that match when code of class t accesses a
\* field of class cls by name: the hash is read from cls, the name from t.
Matches(t, cls, name, static) ==
  {k \in DOMAIN classes[cls].file.fields :
     LET f == classes[cls].file.fields[k] IN
       f.static = static /\ StringAt(cls, f.name) = name /\ StringAt(t, f.name) = name}

NotFound == -1

\* ujThreadPrvAccessClass: the offset of a field
FieldOffset(t, cls, name, static) ==
  LET found == Matches(t, cls, name, static)
      before == SubSeq(classes[cls].file.fields, 1, Min(found) - 1)
  IN  IF found = {} THEN NotFound
      ELSE (IF static THEN classes[cls].clsDataOfst ELSE classes[cls].instDataOfst)
             + DataSize(before, static)

-----------------------------------------------------------------------------
(* ujThreadPrvInstanceof. *)

Chain(cls) ==
  LET up[c \in 0..Len(classes)] == IF c = 0 THEN {} ELSE {c} \cup up[classes[c].supr]
  IN  up[cls]

Answer(a) == q' = [q EXCEPT !.answer = a, !.at = 0]

\* The walk from the object's class to Object; for an interface it leaves marks
\* and goes on.  What a native class has in the place of its access flags is not
\* defined, so it is taken for an interface or not.
Instanceof(obj, name) ==
  /\ phase = "run" /\ q.answer # "marking"
  /\ ~(~classes[obj].native /\ classes[obj].file.iface)
  /\ \E isIface \in IF FindClass(name) = 0 THEN {FALSE}
                    ELSE IF classes[FindClass(name)].native THEN BOOLEAN
                    ELSE {classes[FindClass(name)].file.iface} :
       LET wanted == FindClass(name)
           answer == CASE wanted = 0 -> "missing"
                       [] wanted \in Chain(obj) -> "yes"
                       [] wanted \notin Chain(obj) /\ wanted # 0 /\ isIface -> "marking"
                       [] OTHER -> "no"
       IN  /\ q' = [obj |-> obj, wanted |-> wanted, answer |-> answer,
                    at |-> IF answer = "marking" THEN Len(classes) ELSE 0]
           /\ mark' = IF answer = "marking"
                      THEN [c \in DOMAIN classes |-> IF c \in Chain(obj) THEN 1 ELSE 0]
                      ELSE <<>>
  /\ UNCHANGED <<classes, pak, phase, i, done, loaded, call>>

\* The names of a class's interfaces up to the one that ends the search.
Ends(name) == FindClass(name) \in {0, q.wanted}
Visited(names) ==
  LET stop == {k \in DOMAIN names : Ends(names[k])}
  IN  IF stop = {} THEN names ELSE SubSeq(names, 1, Min(stop))

\* (Mutant: the class that has been visited keeps its mark.)
MarkInterfaces_NotDone ==
  /\ q.answer = "marking" /\ q.at # 0
  /\ mark[q.at] = 1 /\ ~classes[q.at].native
  /\ LET names == Visited(classes[q.at].file.ifaces)
         found == {FindClass(n) : n \in Range(names)}
     IN  /\ mark' = [c \in DOMAIN mark |-> IF c \in found THEN 1 ELSE mark[c]]
         /\ IF q.wanted \in found THEN Answer("yes")
            ELSE IF 0 \in found THEN Answer("missing")
            ELSE q' = [q EXCEPT !.at = Len(classes)]
  /\ UNCHANGED <<classes, pak, phase, i, done, loaded, call>>

\* (Mutant: the search does not start again, so an interface that is older
\* than its user is seen and a newer one is not.)
MarkInterfaces_GoesOn ==
  /\ q.answer = "marking" /\ q.at # 0
  /\ mark[q.at] = 1 /\ ~classes[q.at].native
  /\ LET names == Visited(classes[q.at].file.ifaces)
         found == {FindClass(n) : n \in Range(names)}
     IN  /\ mark' = [c \in DOMAIN mark |->
                       IF c \in found THEN 1 ELSE IF c = q.at THEN 2 ELSE mark[c]]
         /\ IF q.wanted \in found THEN Answer("yes")
            ELSE IF 0 \in found THEN Answer("missing")
            ELSE q' = [q EXCEPT !.at = @ - 1]
  /\ UNCHANGED <<classes, pak, phase, i, done, loaded, call>>

\* A marked class: its interfaces get marks, and the search starts again.
MarkInterfaces ==
  /\ q.answer = "marking" /\ q.at # 0
  /\ mark[q.at] = 1 /\ ~classes[q.at].native
  /\ LET names == Visited(classes[q.at].file.ifaces)
         found == {FindClass(n) : n \in Range(names)}
     IN  /\ mark' = [c \in DOMAIN mark |->
                       IF c \in found THEN 1 ELSE IF c = q.at THEN 2 ELSE mark[c]]
         /\ IF q.wanted \in found THEN Answer("yes")
            ELSE IF 0 \in found THEN Answer("missing")
            ELSE q' = [q EXCEPT !.at = Len(classes)]
  /\ UNCHANGED <<classes, pak, phase, i, done, loaded, call>>

NextClass ==
  /\ q.answer = "marking" /\ q.at # 0
  /\ mark[q.at] # 1 \/ classes[q.at].native
  /\ q' = [q EXCEPT !.at = @ - 1]
  /\ UNCHANGED <<classes, pak, phase, i, done, loaded, mark, call>>

NoneLeft ==
  /\ q.answer = "marking" /\ q.at = 0
  /\ Answer("no")
  /\ UNCHANGED <<classes, pak, phase, i, done, loaded, mark, call>>

-----------------------------------------------------------------------------
(* The slots of a call. *)

\* The characters of a descriptor in ujThreadPrvInvoke: ret is set if we are
\* counting; an object's name is skipped and leaves it as it was.
InvokeSlots(params, static) ==
  LET step(s, p) ==
        CASE p = "long" -> [n |-> IF s.ret THEN s.n + 2 ELSE s.n, ret |-> TRUE]
          [] p = "int" -> [n |-> IF s.ret THEN s.n + 1 ELSE s.n, ret |-> TRUE]
          [] p = "[" -> [n |-> IF s.ret THEN s.n + 1 ELSE s.n, ret |-> FALSE]
          [] p = "obj" -> [n |-> IF s.ret THEN s.n + 1 ELSE s.n, ret |-> s.ret]
  IN  FoldLeft(step, [n |-> IF static THEN 0 ELSE 1, ret |-> TRUE], params).n

\* classOptimizerPrvHandleLocals, for the wide form that calls a method of the
\* same class: the count is a byte of the instruction.
WideSlots(params, static) ==
  LET step(s, p) ==
        CASE p = "long" -> [n |-> IF s.inArray THEN s.n ELSE s.n + 2, inArray |-> FALSE]
          [] p = "[" -> [n |-> s.n + 1, inArray |-> TRUE]
          [] p \in {"int", "obj"} ->
               [n |-> IF s.inArray THEN s.n ELSE s.n + 1, inArray |-> FALSE]
  IN  FoldLeft(step, [n |-> IF static THEN 0 ELSE 1, inArray |-> FALSE], params).n

\* ujThreadPrvInvoke, by name or in the wide form
Invoke(params, static, wide) ==
  /\ phase = "run" /\ q.answer # "marking"
  /\ call' = [params |-> params, static |-> static,
              slots |-> IF wide THEN WideSlots(params, static) ELSE InvokeSlots(params, static)]
  /\ UNCHANGED <<classes, pak, phase, i, done, loaded, mark, q>>

Start == RegisterNativeClass \/ NativesDone \/ LoadClass \/ Skip \/ NextRound \/ OutOfMemory
Search == MarkInterfaces \/ NextClass \/ NoneLeft

Next ==
  \/ Start
  \/ \E c \in DOMAIN classes, n \in Names : Instanceof(c, n)
  \/ Search
  \/ \E p \in Descriptors, static, wide \in BOOLEAN : Invoke(p, static, wide)

Spec == Init /\ [][Next]_vars

\* One thread does all of it and goes on.
FairSpec == Spec /\ WF_vars(Start) /\ WF_vars(Search)

-----------------------------------------------------------------------------
(* Properties. *)

\* Classes that can be loaded: their superclass is native or can be loaded.
Resolvable ==
  LET step(S) == {k \in DOMAIN pak :
                    \/ pak[k].super \in {""} \cup {n.name : n \in Range(Natives)}
                    \/ \E l \in S : pak[l].name = pak[k].super}
      set[n \in 0..Len(pak)] == IF n = 0 THEN {} ELSE step(set[n - 1])
  IN  set[Len(pak)]

\* In whatever order a package has its classes, the rounds load exactly those
\* whose superclasses are all there, and each one once and after its superclass;
\* the program starts if and only if that is all of them.
LoaderResolves ==
  /\ phase = "run" => Resolvable = DOMAIN pak
  /\ phase = "unresolved" => Resolvable # DOMAIN pak /\ loaded = Resolvable
  /\ phase \in {"load", "run"} => Len(classes) = Len(Natives) + Cardinality(loaded)
  /\ \A c \in DOMAIN classes : classes[c].supr < c

\* The bytes of a class's own fields, in objects and in the class's data.
Own(c, static) ==
  {[from |-> (IF static THEN classes[c].clsDataOfst ELSE classes[c].instDataOfst)
                + DataSize(SubSeq(classes[c].file.fields, 1, k - 1), static),
    size |-> JavaTypeToSize(classes[c].file.fields[k].type), cls |-> c, k |-> k]
     : k \in {l \in DOMAIN classes[c].file.fields : classes[c].file.fields[l].static = static}}
  \cup {[from |-> IF static THEN classes[c].clsDataOfst ELSE classes[c].instDataOfst,
         size |-> IF static THEN classes[c].file.clsDatSz ELSE classes[c].file.instDatSz,
         cls |-> c, k |-> 0]}

\* No two fields of an object share a byte, whichever of its classes declare them
\* and whether they are Java's or native; all lie inside of the memory that
\* ujThreadPrvNewInstance asks for; and a class's own fields lie inside of its
\* class data.
LayoutSound ==
  \A c \in DOMAIN classes :
    LET inst == UNION {Own(d, FALSE) : d \in Chain(c)}
        cls == Own(c, TRUE)
    IN  /\ \A f, h \in inst :
             f # h => f.from + f.size <= h.from \/ h.from + h.size <= f.from
                      \/ f.size = 0 \/ h.size = 0
        /\ \A f \in inst : f.from + f.size <= classes[c].instDataOfst + classes[c].instDataSize
        /\ \A f, h \in cls :
             f # h => f.from + f.size <= h.from \/ h.from + h.size <= f.from
                      \/ f.size = 0 \/ h.size = 0
        /\ \A f \in cls : f.from + f.size <= classes[c].data

Methods == UNION {classes[c].file.methods : c \in DOMAIN classes}

\* A call of a method reaches the nearest class upwards that declares it, so a
\* method that is overridden twice is found where it was overridden last.  An
\* access to a field by name finds a class's own field where LayoutSound has it;
\* from another class, whose strings are elsewhere, it finds that one or nothing.
MembersFound ==
  \A c \in DOMAIN classes :
    /\ \A m \in Methods :
         LET declaring == {d \in Chain(c) : Declares(d, m)}
         IN  IF declaring = {} THEN GetMethodAddr(c, m, FALSE) = 0
             ELSE /\ GetMethodAddr(c, m, FALSE) \in declaring
                  /\ declaring \subseteq Chain(GetMethodAddr(c, m, FALSE))
    /\ ~classes[c].native =>
       \A static \in BOOLEAN : \A f \in Own(c, static) :
         f.k # 0 =>
           \A t \in {t \in DOMAIN classes : ~classes[t].native} :
             LET name == StringAt(c, classes[c].file.fields[f.k].name)
             IN  FieldOffset(t, c, name, static) \in
                   {f.from} \cup (IF t = c THEN {} ELSE {NotFound})

\* All types of an object: superclasses, interfaces, and theirs in turn.
Supertypes(cls) ==
  LET up(S) == S \cup UNION {({classes[c].supr} \ {0}) \cup
                             {FindClass(classes[c].file.ifaces[k]) :
                                k \in DOMAIN classes[c].file.ifaces} : c \in S \ {0}}
      set[n \in 0..Len(classes)] == IF n = 0 THEN {cls} ELSE up(set[n - 1])
  IN  set[Len(classes)]

\* instanceof says yes exactly for the object's types, also through interfaces
\* of interfaces in any order of loading; it may fail only if a class is missing.
InstanceofAnswers ==
  /\ q.answer = "yes" => q.wanted \in Supertypes(q.obj)
  /\ q.answer = "no" => q.wanted \notin Supertypes(q.obj)
  /\ q.answer = "missing" => q.wanted = 0 \/ 0 \in Supertypes(q.obj)

\* The search starts again at each mark and still ends.
InstanceofEnds == (q.answer = "marking") ~> (q.answer # "marking")

\* What a list of parameters takes: arrays of any depth one slot, longs two.
Starts(params, k) == k = 1 \/ params[k - 1] # "["
ParamSlots(params) ==
  LET begins == {k \in DOMAIN params : Starts(params, k)}
  IN  Cardinality(begins) + Cardinality({k \in begins : params[k] = "long"})

\* nameIdx is the "number of slots params take", for calls by name and for calls
\* in the wide form.
SlotsCounted == call.slots = ParamSlots(call.params) + (IF call.static THEN 0 ELSE 1)
=============================================================================
