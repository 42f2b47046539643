---------------------------- MODULE UjClasses_proofs ----------------------------
(***************************************************************************)
(* Proofs about UjClasses, for any native classes, packages and names: the *)
(* rounds of the loader load what can be loaded, objects are laid out      *)
(* without overlap, calls and accesses reach the members they mean, and    *)
(* instanceof answers with the types of the object.                        *)
(***************************************************************************)
EXTENDS UjClasses, Recursion, SequenceTheorems, TLAPS

Record ==
  [name : STRING, file : NativeClasses \cup ClassFiles, supr : Nat, native : BOOLEAN,
   instDataOfst : Nat, instDataSize : Nat, clsDataOfst : Nat, clsDataSize : Nat, data : Nat]

Phases == {"natives", "load", "run", "unresolved", "memory"}

\* The values of the variables of the start.
Typed ==
  /\ classes \in Seq(Record) /\ pak \in Packages /\ phase \in Phases
  /\ i \in 1..(Len(pak) + 1) /\ done \in BOOLEAN /\ loaded \in SUBSET DOMAIN pak

\* A class's record comes from what is registered or from a file that has been loaded;
\* its superclass is older.
FromFile(k) ==
  LET c == classes[k] IN
  /\ c.name = c.file.name
  /\ c.supr < k /\ (c.supr = 0 <=> k = 1)
  /\ (c.native <=> k <= Len(Natives))
  /\ c.native => c.file = Natives[k] /\ (k # 1 => c.supr = 1)
  /\ ~c.native => /\ \E l \in loaded : c.file = pak[l]
                  /\ c.file.super = Natives[1].name => c.supr = 1

\* Its data follow those of its superclass.
LaidOut(k) ==
  LET c == classes[k] IN
  /\ c.instDataOfst = After(c.supr, "instDataOfst", "instDataSize")
  /\ c.clsDataOfst = After(c.supr, "clsDataOfst", "clsDataSize")
  /\ c.native => /\ c.instDataSize = c.file.instDatSz /\ c.clsDataSize = c.file.clsDatSz
                 /\ c.data = c.clsDataSize + (IF k = 1 THEN 0 ELSE classes[1].clsDataOfst)
  /\ ~c.native => /\ c.instDataSize = DataSize(c.file.fields, FALSE)
                  /\ c.clsDataSize = DataSize(c.file.fields, TRUE)
                  /\ c.data = c.clsDataSize + c.clsDataOfst

\* How far the start has come.  In a round that has loaded nothing, all classes before i
\* wait for a superclass.
Progress ==
  /\ phase = "natives" => Len(classes) <= Len(Natives) /\ loaded = {} /\ ~done /\ i = 1
  /\ phase \in {"load", "run", "unresolved"} =>
       /\ Len(classes) = Len(Natives) + Cardinality(loaded)
       /\ \A l \in loaded : \E k \in DOMAIN classes : classes[k].name = pak[l].name
  /\ phase \in {"load", "unresolved"} /\ ~done =>
       \A k \in DOMAIN pak : k < i => k \in loaded \/ DependencyMissing(pak[k])
  /\ phase = "run" => loaded = DOMAIN pak
  /\ phase = "unresolved" => loaded # DOMAIN pak /\ i = Len(pak) + 1 /\ ~done

Marked(marks) == {c \in DOMAIN classes : marks[c] # 0}

\* The marks are those of types of the object, closed but for the interfaces of classes
\* that are not done; the search has passed only classes that are done or unmarked.
Marking(obj, wanted, at, marks) ==
  /\ wanted # 0 /\ at \in 0..Len(classes)
  /\ marks \in [DOMAIN classes -> 0..2]
  /\ Chain(obj) \subseteq Marked(marks) /\ Marked(marks) \subseteq Supertypes(obj)
  /\ wanted \notin Marked(marks)
  /\ \A c \in Marked(marks) : classes[c].supr \in {0} \cup Marked(marks)
  /\ \A c \in Marked(marks) : marks[c] = 2 =>
       \A n \in Range(classes[c].file.ifaces) : FindClass(n) \in Marked(marks)
  /\ \A c \in Marked(marks) : c > at => marks[c] = 2 \/ classes[c].native

Query == [obj : Nat, wanted : Nat, at : Nat,
          answer : {"none", "missing", "yes", "no", "marking"}]

Asked ==
  /\ q \in Query
  /\ q.answer # "none" =>
       /\ phase = "run" /\ q.obj \in DOMAIN classes /\ q.wanted \in 0..Len(classes)
       /\ q.answer = "marking" => Marking(q.obj, q.wanted, q.at, mark)

IInv ==
  /\ Typed /\ Progress /\ Asked /\ InstanceofAnswers
  /\ \A k \in DOMAIN classes : FromFile(k) /\ LaidOut(k)
  /\ loaded \subseteq Resolvable

-----------------------------------------------------------------------------
(* Sizes of fields. *)

Fields == Seq([name : Nat, static : BOOLEAN, type : STRING])

\* f gives the bytes of the first fields, for each number of them.
Sums(f, fields, static) ==
  \A k \in 0..Len(fields) :
    f[k] = IF k = 0 THEN 0 ELSE f[k - 1] + Bytes(fields[k], static)

LEMMA BytesTyped == ASSUME NEW f, NEW static PROVE Bytes(f, static) \in Nat
BY DEF Bytes, JavaTypeToSize

LEMMA FieldsLen == ASSUME NEW fields \in Fields PROVE Len(fields) \in Nat
BY DEF Fields

LEMMA SumsTyped ==
  ASSUME NEW fields \in Fields, NEW static, NEW f, Sums(f, fields, static)
  PROVE  \A k \in 0..Len(fields) : f[k] \in Nat
<1> DEFINE P == {k \in Nat : k <= Len(fields) => f[k] \in Nat}
<1>1. Len(fields) \in Nat
  BY DEF Fields
<1>2. 0 \in P
  BY <1>1 DEF Sums
<1>3. ASSUME NEW k \in Nat, k \in P PROVE k + 1 \in P
  <2>1. SUFFICES ASSUME k + 1 <= Len(fields) PROVE f[k + 1] \in Nat
    OBVIOUS
  <2>2. f[k] \in Nat /\ f[k + 1] = f[k] + Bytes(fields[k + 1], static)
    BY <1>1, <1>3, <2>1 DEF Sums
  <2> QED BY <2>2, BytesTyped
<1>4. Nat \subseteq P
  <2> HIDE DEF P
  <2> QED BY <1>2, <1>3, SetInduction
<1> QED BY <1>1, <1>4

LEMMA SumsUnique ==
  ASSUME NEW fields \in Fields, NEW static, NEW m \in 0..Len(fields),
         NEW f, Sums(f, fields, static), NEW g, Sums(g, SubSeq(fields, 1, m), static)
  PROVE  g[m] = f[m]
<1> DEFINE P == {k \in Nat : k <= m => f[k] = g[k]}
           h == SubSeq(fields, 1, m)
<1>1. Len(fields) \in Nat /\ m \in Nat /\ m <= Len(fields)
  BY DEF Fields
<1>2. Len(h) = m /\ \A k \in 1..m : h[k] = fields[k]
  BY <1>1 DEF Fields
<1> HIDE DEF h
<1>3. Sums(g, h, static)
  BY DEF h
<1>4. 0 \in P
  BY <1>1, <1>2, <1>3 DEF Sums
<1>5. ASSUME NEW k \in Nat, k \in P PROVE k + 1 \in P
  <2>1. SUFFICES ASSUME k + 1 <= m PROVE f[k + 1] = g[k + 1]
    OBVIOUS
  <2>2. k + 1 \in 1..m /\ k + 1 \in 0..Len(fields) /\ k + 1 # 0 /\ (k + 1) - 1 = k /\ k <= m
    BY <1>1, <2>1
  <2>3. f[k + 1] = f[k] + Bytes(fields[k + 1], static)
    BY <2>2 DEF Sums
  <2>4. g[k + 1] = g[k] + Bytes(fields[k + 1], static)
    BY <1>2, <1>3, <2>2 DEF Sums
  <2> QED BY <1>5, <2>2, <2>3, <2>4
<1>6. Nat \subseteq P
  <2> HIDE DEF P
  <2> QED BY <1>4, <1>5, SetInduction
<1> QED BY <1>1, <1>6

LEMMA SumExists ==
  ASSUME NEW fields \in Fields, NEW static
  PROVE  \E f : Sums(f, fields, static) /\ DataSize(fields, static) = f[Len(fields)]
<1> DEFINE n == Len(fields)
           F(k, f) == IF k = 0 THEN 0 ELSE f[k - 1] + Bytes(fields[k], static)
           p == [k \in 1..n |-> k - 1]
           H == [k \in 1..n |-> [x \in Nat |-> x + Bytes(fields[k], static)]]
           U == CHOOSE f : f = [k \in 0..n |-> F(k, f)]
<1>1. n \in Nat
  BY DEF Fields
<1>2. p \in [1..n -> 0..n] /\ \A k \in 1..n : p[k] < k
  BY <1>1
<1>3. H \in [1..n -> [Nat -> Nat]]
  BY BytesTyped
<1>4. \A k \in 1..n : \A x \in Nat : p[k] = k - 1 /\ H[k][x] = x + Bytes(fields[k], static)
  OBVIOUS
<1> HIDE DEF p, H
<1>5. PICK f : f \in [0..n -> Nat] /\ StepsOf(f, n, 0, p, H)
  <2>1. FromOneBelow(n, Nat, 0, p, H)
    BY <1>1, <1>2, <1>3 DEF FromOneBelow
  <2> HIDE DEF n
  <2> QED BY <2>1, StepFunction
<1>6. f = [k \in 0..n |-> F(k, f)]
  <2>1. \A k \in 0..n : f[k] = F(k, f)
    <3> SUFFICES ASSUME NEW k \in 0..n, k # 0 PROVE f[k] = F(k, f)
      BY <1>5 DEF StepsOf
    <3>1. k \in 1..n /\ k - 1 \in 0..n
      BY <1>1
    <3>2. f[k] = H[k][f[p[k]]]
      BY <1>5 DEF StepsOf
    <3>3. p[k] = k - 1
      BY <3>1 DEF p
    <3>4. f[k - 1] \in Nat
      BY <1>5, <3>1
    <3>5. H[k][f[k - 1]] = f[k - 1] + Bytes(fields[k], static)
      BY <1>4, <3>1, <3>4
    <3> QED BY <3>2, <3>3, <3>5
  <2>2. f \in [0..n -> Nat]
    BY <1>5
  <2> HIDE DEF F, n
  <2> QED BY <2>1, <2>2
<1> HIDE DEF F
<1>7. U = [k \in 0..n |-> F(k, U)]
  BY <1>6
<1>8. \A k \in 0..n : U[k] = F(k, U)
  BY <1>7
<1>9. Sums(U, fields, static)
  BY <1>8 DEF Sums, F
<1>10. DataSize(fields, static) = U[n]
  BY DEF DataSize, F
<1> QED BY <1>9, <1>10

\* DataSize adds up the bytes of the fields, and of the first ones alike.
LEMMA DataSizes ==
  ASSUME NEW fields \in Fields, NEW static
  PROVE  \E f : /\ Sums(f, fields, static)
                /\ \A m \in 0..Len(fields) : DataSize(SubSeq(fields, 1, m), static) = f[m]
                /\ DataSize(fields, static) = f[Len(fields)]
<1>1. PICK f : Sums(f, fields, static) /\ DataSize(fields, static) = f[Len(fields)]
  BY SumExists
<1>2. ASSUME NEW m \in 0..Len(fields) PROVE DataSize(SubSeq(fields, 1, m), static) = f[m]
  <2>1. SubSeq(fields, 1, m) \in Fields /\ Len(SubSeq(fields, 1, m)) = m
    <3>1. Len(fields) \in Nat /\ m \in Nat /\ m <= Len(fields)
      BY DEF Fields
    <3>2. \A k \in 1..m : k \in 1..Len(fields)
      BY <3>1
    <3> DEFINE A == [name : Nat, static : BOOLEAN, type : STRING]
    <3>3. fields \in Seq(A)
      BY DEF Fields
    <3> HIDE DEF A
    <3>4. \A k \in 1..m : fields[k] \in A
      BY <3>2, <3>3
    <3>5. SubSeq(fields, 1, m) \in Seq(A) /\ Len(SubSeq(fields, 1, m)) = m
      BY <3>1, <3>4, SubSeqProperties
    <3> QED BY <3>5 DEF A, Fields
  <2>2. PICK g : /\ Sums(g, SubSeq(fields, 1, m), static)
                 /\ DataSize(SubSeq(fields, 1, m), static) = g[Len(SubSeq(fields, 1, m))]
    BY <2>1, SumExists
  <2> QED BY <1>1, <2>1, <2>2, SumsUnique
<1> QED BY <1>1, <1>2

\* The first fields are in front of the others.
LEMMA SizesOrdered ==
  ASSUME NEW fields \in Fields, NEW static, NEW f, Sums(f, fields, static),
         NEW j \in 0..Len(fields), NEW k \in 0..Len(fields), j <= k
  PROVE  f[j] <= f[k]
<1> DEFINE P == {m \in Nat : j + m <= Len(fields) => f[j] <= f[j + m]}
<1>1. Len(fields) \in Nat /\ j \in Nat /\ k \in Nat /\ \A m \in 0..Len(fields) : f[m] \in Nat
  BY SumsTyped DEF Fields
<1>2. 0 \in P
  BY <1>1
<1>3. ASSUME NEW m \in Nat, m \in P PROVE m + 1 \in P
  <2>1. SUFFICES ASSUME j + (m + 1) <= Len(fields) PROVE f[j] <= f[j + (m + 1)]
    OBVIOUS
  <2> DEFINE l == j + (m + 1)
  <2>2. l \in 0..Len(fields) /\ l # 0 /\ l - 1 = j + m /\ l - 1 \in 0..Len(fields)
    BY <1>1, <2>1
  <2>3. f[j] <= f[j + m]
    BY <1>1, <1>3, <2>2
  <2> HIDE DEF l
  <2>4. f[l] = f[l - 1] + Bytes(fields[l], static)
    BY <2>2 DEF Sums
  <2>5. f[l] >= f[l - 1]
    BY <1>1, <2>2, <2>4, BytesTyped
  <2>6. f[j] <= f[l]
    BY <1>1, <2>2, <2>3, <2>5
  <2> QED BY <2>6 DEF l
<1>4. Nat \subseteq P
  <2> HIDE DEF P
  <2> QED BY <1>2, <1>3, SetInduction
<1>5. k - j \in P /\ j + (k - j) = k
  BY <1>1, <1>4
<1> QED BY <1>1, <1>5

-----------------------------------------------------------------------------
(* The tree of classes. *)

\* A class comes after its superclass.
Tree == classes \in Seq(Record) /\ \A k \in DOMAIN classes : classes[k].supr < k

LEMMA TreeTyped ==
  ASSUME Tree
  PROVE  /\ Len(classes) \in Nat /\ DOMAIN classes = 1..Len(classes)
         /\ \A k \in 1..Len(classes) : /\ classes[k] \in Record
                                       /\ classes[k].supr \in 0..Len(classes)
                                       /\ classes[k].supr \in Nat /\ classes[k].supr < k
<1>1. Len(classes) \in Nat /\ DOMAIN classes = 1..Len(classes)
  BY DEF Tree
<1>2. \A k \in 1..Len(classes) : classes[k] \in Record
  BY DEF Tree
<1>3. \A k \in 1..Len(classes) : classes[k].supr \in Nat
  BY <1>2 DEF Record
<1> QED BY <1>1, <1>2, <1>3 DEF Tree

\* A value that a class has from its superclass is well-defined.
LEMMA AlongTree ==
  ASSUME Tree, NEW S, NEW base \in S, NEW H \in [1..Len(classes) -> [S -> S]]
  PROVE  FromOneBelow(Len(classes), S, base, [k \in 1..Len(classes) |-> classes[k].supr], H)
BY TreeTyped DEF FromOneBelow

\* The chain of a class is itself and its superclass's.
LEMMA ChainIs ==
  ASSUME Tree
  PROVE  /\ Chain(0) = {}
         /\ \A c \in 1..Len(classes) : Chain(c) = {c} \cup Chain(classes[c].supr)
         /\ \A c \in 0..Len(classes) : Chain(c) \subseteq 1..Len(classes)
<1> DEFINE n == Len(classes)
           S == SUBSET (1..n)
           F(c, f) == IF c = 0 THEN {} ELSE {c} \cup f[classes[c].supr]
           p == [k \in 1..n |-> classes[k].supr]
           H == [k \in 1..n |-> [x \in S |-> {k} \cup x]]
           U == CHOOSE f : f = [c \in 0..n |-> F(c, f)]
<1>1. n \in Nat /\ {} \in S /\ \A k \in 1..n : p[k] = classes[k].supr /\ p[k] \in 0..n
  BY TreeTyped
<1>2. H \in [1..n -> [S -> S]]
  OBVIOUS
<1>3. \A k \in 1..n : \A x \in S : H[k][x] = {k} \cup x
  OBVIOUS
<1>4. FromOneBelow(n, S, {}, p, H)
  <2> HIDE DEF S, H
  <2> QED BY <1>1, <1>2, AlongTree
<1> HIDE DEF n, S, p, H
<1>5. PICK f : f \in [0..n -> S] /\ StepsOf(f, n, {}, p, H)
  BY <1>4, StepFunction
<1>6. \A c \in 0..n : f[c] = F(c, f)
  <2> SUFFICES ASSUME NEW c \in 0..n, c # 0 PROVE f[c] = F(c, f)
    BY <1>5 DEF StepsOf
  <2>1. c \in 1..n
    BY <1>1
  <2>2. f[c] = H[c][f[p[c]]] /\ f[p[c]] \in S
    BY <1>1, <1>5, <2>1 DEF StepsOf
  <2> QED BY <1>1, <1>3, <2>1, <2>2
<1>7. f = [c \in 0..n |-> F(c, f)]
  <2>1. f \in [0..n -> S]
    BY <1>5
  <2> HIDE DEF F
  <2> QED BY <1>6, <2>1
<1> HIDE DEF F
<1>8. U = [c \in 0..n |-> F(c, U)]
  BY <1>7
<1>9. \A c \in 0..n : U[c] = F(c, U)
  BY <1>8
<1>10. \A c : Chain(c) = U[c]
  BY DEF Chain, F, n
<1> HIDE DEF U
<1>11. \A c \in 1..n : c \in 0..n /\ c # 0 /\ 0 \in 0..n
  BY <1>1
<1>12. U[0] = {} /\ \A c \in 1..n : U[c] = {c} \cup U[classes[c].supr]
  <2>1. U[0] = F(0, U) /\ \A c \in 1..n : U[c] = F(c, U)
    BY <1>1, <1>9, <1>11
  <2>2. \A c : F(0, U) = {} /\ (c # 0 => F(c, U) = {c} \cup U[classes[c].supr])
    BY DEF F
  <2> QED BY <1>11, <2>1, <2>2
<1> DEFINE P == {c \in Nat : c \in 0..n => U[c] \in S}
<1>13. ASSUME NEW c \in Nat, \A b \in Nat : b < c => b \in P PROVE c \in P
  <2> SUFFICES ASSUME c \in 0..n, c # 0 PROVE U[c] \in S
    BY <1>1, <1>12
  <2>1. c \in 1..n
    BY <1>1
  <2>2. classes[c].supr \in 0..n /\ classes[c].supr \in Nat /\ classes[c].supr < c
    BY <2>1, TreeTyped DEF n
  <2>3. U[classes[c].supr] \in S
    BY <1>13, <2>2
  <2> QED BY <1>12, <2>1, <2>3 DEF S
<1>14. Nat \subseteq P
  <2> HIDE DEF P
  <2> QED BY <1>13, StrongInduction
<1>15. \A c \in 0..n : U[c] \in S
  BY <1>1, <1>14
<1> QED BY <1>10, <1>12, <1>15 DEF n, S

\* What is upwards of a class upwards is upwards; a chain has the class itself, and
\* older ones.
LEMMA ChainUp ==
  ASSUME Tree, NEW c \in 1..Len(classes)
  PROVE  /\ c \in Chain(c)
         /\ classes[c].supr # 0 => classes[c].supr \in Chain(c)
         /\ \A d \in Chain(c) : d <= c /\ Chain(d) \subseteq Chain(c)
<1> DEFINE Ok(k) == /\ k \in Chain(k)
                    /\ classes[k].supr # 0 => classes[k].supr \in Chain(k)
                    /\ \A d \in Chain(k) : d <= k /\ Chain(d) \subseteq Chain(k)
           P == {k \in Nat : k \in 1..Len(classes) => Ok(k)}
<1>1. ASSUME NEW k \in Nat, \A b \in Nat : b < k => b \in P PROVE k \in P
  <2> SUFFICES ASSUME k \in 1..Len(classes) PROVE Ok(k)
    OBVIOUS
  <2> DEFINE s == classes[k].supr
  <2>1. s \in Nat /\ s < k /\ s \in 0..Len(classes) /\ Chain(k) = {k} \cup Chain(s)
        /\ Len(classes) \in Nat
    BY TreeTyped, ChainIs
  <2>2. CASE s = 0
    BY <2>1, <2>2, ChainIs
  <2>3. CASE s # 0
    <3>1. s \in 1..Len(classes)
      BY <2>1, <2>3
    <3>2. Ok(s)
      <4> HIDE DEF Ok, s
      <4> QED BY <1>1, <2>1, <3>1
    <3>3. Chain(s) \subseteq Nat
      BY <2>1, ChainIs
    <3> QED BY <2>1, <3>2, <3>3
  <2> QED BY <2>2, <2>3
<1>2. Nat \subseteq P
  <2> HIDE DEF P
  <2> QED BY <1>1, StrongInduction
<1>3. c \in Nat
  BY TreeTyped
<1> HIDE DEF Ok
<1>4. Ok(c)
  BY <1>2, <1>3
<1> QED BY <1>4 DEF Ok

\* Of two classes upwards of a class one is upwards of the other.
LEMMA ChainLinear ==
  ASSUME Tree, NEW c \in 1..Len(classes), NEW d \in Chain(c), NEW e \in Chain(c)
  PROVE  d \in Chain(e) \/ e \in Chain(d)
<1> DEFINE Ok(k) == \A x, y \in Chain(k) : x \in Chain(y) \/ y \in Chain(x)
           P == {k \in Nat : k \in 1..Len(classes) => Ok(k)}
<1>1. ASSUME NEW k \in Nat, \A b \in Nat : b < k => b \in P PROVE k \in P
  <2> SUFFICES ASSUME k \in 1..Len(classes) PROVE Ok(k)
    OBVIOUS
  <2> DEFINE s == classes[k].supr
  <2>1. s \in Nat /\ s < k /\ s \in 0..Len(classes) /\ Chain(k) = {k} \cup Chain(s)
        /\ Len(classes) \in Nat
    BY TreeTyped, ChainIs
  <2>2. Ok(s)
    <3>1. CASE s = 0
      BY <3>1, ChainIs
    <3>2. CASE s # 0
      <4>1. s \in 1..Len(classes)
        BY <2>1, <3>2
      <4> HIDE DEF Ok, s
      <4> QED BY <1>1, <2>1, <4>1
    <3> QED BY <3>1, <3>2
  <2> HIDE DEF s
  <2> QED BY <2>1, <2>2
<1>2. Nat \subseteq P
  <2> HIDE DEF P
  <2> QED BY <1>1, StrongInduction
<1>3. c \in Nat
  BY TreeTyped
<1>4. Ok(c)
  <2> HIDE DEF Ok
  <2> QED BY <1>2, <1>3
<1> QED BY <1>4

\* A method is searched upwards.
LEMMA MethodIs ==
  ASSUME Tree, NEW m
  PROVE  /\ GetMethodAddr(0, m, FALSE) = 0
         /\ \A c \in 1..Len(classes) :
              GetMethodAddr(c, m, FALSE) =
                IF Declares(c, m) THEN c ELSE GetMethodAddr(classes[c].supr, m, FALSE)
<1> DEFINE n == Len(classes)
           S == 0..n
           F(c, f) == IF c = 0 THEN 0 ELSE IF Declares(c, m) THEN c ELSE f[classes[c].supr]
           p == [k \in 1..n |-> classes[k].supr]
           H == [k \in 1..n |-> [x \in S |-> IF Declares(k, m) THEN k ELSE x]]
           U == CHOOSE f : f = [c \in 0..n |-> F(c, f)]
<1>1. n \in Nat /\ 0 \in S /\ \A k \in 1..n : p[k] = classes[k].supr /\ p[k] \in 0..n
  BY TreeTyped
<1>2. H \in [1..n -> [S -> S]]
  BY <1>1
<1>3. \A k \in 1..n : \A x \in S : H[k][x] = IF Declares(k, m) THEN k ELSE x
  OBVIOUS
<1>4. FromOneBelow(n, S, 0, p, H)
  <2> HIDE DEF S, H
  <2> QED BY <1>1, <1>2, AlongTree
<1> HIDE DEF n, S, p, H
<1>5. PICK f : f \in [0..n -> S] /\ StepsOf(f, n, 0, p, H)
  BY <1>4, StepFunction
<1>6. \A c \in 0..n : f[c] = F(c, f)
  <2> SUFFICES ASSUME NEW c \in 0..n, c # 0 PROVE f[c] = F(c, f)
    BY <1>5 DEF StepsOf
  <2>1. c \in 1..n
    BY <1>1
  <2>2. f[c] = H[c][f[p[c]]] /\ f[p[c]] \in S
    BY <1>1, <1>5, <2>1 DEF StepsOf
  <2> QED BY <1>1, <1>3, <2>1, <2>2
<1>7. f = [c \in 0..n |-> F(c, f)]
  <2>1. f \in [0..n -> S]
    BY <1>5
  <2> HIDE DEF F
  <2> QED BY <1>6, <2>1
<1> HIDE DEF F
<1>8. U = [c \in 0..n |-> F(c, U)]
  BY <1>7
<1>9. \A c \in 0..n : U[c] = F(c, U)
  BY <1>8
<1>10. \A c : GetMethodAddr(c, m, FALSE) = U[c]
  <2> DEFINE V == CHOOSE g : g = [c \in 0..n |-> IF c = 0 THEN 0
                                               ELSE IF Declares(c, m) THEN c
                                               ELSE IF FALSE THEN 0
                                               ELSE g[classes[c].supr]]
  <2>1. \A c : GetMethodAddr(c, m, FALSE) = V[c]
    BY DEF GetMethodAddr, n
  <2>2. V = U
    BY DEF F
  <2> QED BY <2>1, <2>2
<1> HIDE DEF U
<1>11. \A c \in 1..n : c \in 0..n /\ c # 0 /\ 0 \in 0..n
  BY <1>1
<1>12. U[0] = F(0, U) /\ \A c \in 1..n : U[c] = F(c, U)
  BY <1>1, <1>9, <1>11
<1>13. \A c : F(0, U) = 0 /\ (c # 0 => F(c, U) = IF Declares(c, m) THEN c ELSE U[classes[c].supr])
  BY DEF F
<1> QED BY <1>10, <1>11, <1>12, <1>13 DEF n

\* It is found in the nearest class that declares it.
LEMMA NearestMethod ==
  ASSUME Tree, NEW m, NEW c \in 1..Len(classes)
  PROVE  LET declaring == {d \in Chain(c) : Declares(d, m)}
         IN  IF declaring = {} THEN GetMethodAddr(c, m, FALSE) = 0
             ELSE /\ GetMethodAddr(c, m, FALSE) \in declaring
                  /\ declaring \subseteq Chain(GetMethodAddr(c, m, FALSE))
<1> DEFINE D(k) == {d \in Chain(k) : Declares(d, m)}
           A(k) == GetMethodAddr(k, m, FALSE)
           Ok(k) == IF D(k) = {} THEN A(k) = 0 ELSE A(k) \in D(k) /\ D(k) \subseteq Chain(A(k))
           P == {k \in Nat : k \in 1..Len(classes) => Ok(k)}
<1>1. ASSUME NEW k \in Nat, \A b \in Nat : b < k => b \in P PROVE k \in P
  <2> SUFFICES ASSUME k \in 1..Len(classes) PROVE Ok(k)
    OBVIOUS
  <2> DEFINE s == classes[k].supr
  <2>1. s \in Nat /\ s < k /\ s \in 0..Len(classes) /\ Chain(k) = {k} \cup Chain(s)
        /\ Len(classes) \in Nat
    BY TreeTyped, ChainIs
  <2>2. A(k) = IF Declares(k, m) THEN k ELSE A(s)
    BY MethodIs
  <2>3. CASE Declares(k, m)
    BY <2>1, <2>2, <2>3
  <2>4. CASE ~Declares(k, m)
    <3>1. D(k) = D(s) /\ A(k) = A(s)
      BY <2>1, <2>2, <2>4
    <3>2. CASE s = 0
      <4>1. Chain(s) = {} /\ A(s) = 0
        BY <3>2, ChainIs, MethodIs
      <4> QED BY <3>1, <4>1
    <3>3. CASE s # 0
      <4>1. s \in 1..Len(classes)
        BY <2>1, <3>3
      <4>2. Ok(s)
        <5> HIDE DEF Ok, s
        <5> QED BY <1>1, <2>1, <4>1
      <4> HIDE DEF s, A, D
      <4> QED BY <3>1, <4>2
    <3> QED BY <3>2, <3>3
  <2> QED BY <2>3, <2>4
<1>2. Nat \subseteq P
  <2> HIDE DEF P
  <2> QED BY <1>1, StrongInduction
<1>3. c \in Nat
  BY TreeTyped
<1>4. Ok(c)
  <2> HIDE DEF Ok
  <2> QED BY <1>2, <1>3
<1> QED BY <1>4

LEMMA MaxIs ==
  ASSUME NEW n \in Nat, NEW T \in SUBSET (0..n), T # {}
  PROVE  Max(T) \in T /\ \A y \in T : Max(T) >= y
<1> DEFINE R == {n - x : x \in T}
<1>1. R \in SUBSET Nat /\ R # {}
  <2>1. \A x \in T : n - x \in Nat
    OBVIOUS
  <2>2. PICK x : x \in T
    OBVIOUS
  <2>3. n - x \in R
    BY <2>2
  <2> QED BY <2>1, <2>3
<1>2. PICK r \in R : \A y \in R : r <= y
  <2> HIDE DEF R
  <2> QED BY <1>1, LeastNat
<1>3. PICK x \in T : r = n - x
  BY <1>2
<1>4. ASSUME NEW y \in T PROVE x >= y
  <2>1. n - y \in R
    OBVIOUS
  <2>2. n - x <= n - y
    BY <1>2, <1>3, <2>1
  <2> QED BY <2>2
<1> QED BY <1>4 DEF Max

\* FindClass finds a class of that name, if there is one.
LEMMA FindClassIs ==
  ASSUME Tree, NEW name
  PROVE  /\ FindClass(name) \in 0..Len(classes)
         /\ FindClass(name) # 0 => FindClass(name) \in DOMAIN classes
                                   /\ classes[FindClass(name)].name = name
         /\ FindClass(name) = 0 => \A k \in DOMAIN classes : classes[k].name # name
<1> DEFINE T == {0} \cup {k \in DOMAIN classes : classes[k].name = name}
<1>1. Len(classes) \in Nat /\ DOMAIN classes = 1..Len(classes)
  BY TreeTyped
<1>2. T \in SUBSET (0..Len(classes)) /\ T # {}
  BY <1>1
<1>3. Max(T) \in T /\ \A y \in T : Max(T) >= y
  <2> HIDE DEF T
  <2> QED BY <1>1, <1>2, MaxIs
<1>4. FindClass(name) = Max(T)
  BY DEF FindClass
<1>5. FindClass(name) \in T /\ \A y \in T : FindClass(name) >= y
  BY <1>3, <1>4
<1> QED BY <1>1, <1>5

-----------------------------------------------------------------------------
(* Fields. *)

\* A class that the interpreter may meet: a native one, or one of a file of the package.
Sound(c) ==
  /\ c \in 1..Len(classes) /\ classes[c] \in Record
  /\ classes[c].native => classes[c].file \in NativeClasses
  /\ ~classes[c].native => classes[c].file \in Range(pak)
  /\ LaidOut(c)

LEMMA FilesAre ==
  ASSUME pak \in Packages, NEW f \in Range(pak)
  PROVE  /\ f \in ClassFiles /\ f.fields \in Fields /\ f.instDatSz = 0 /\ f.clsDatSz = 0
         /\ \A k, l \in DOMAIN f.fields :
              /\ f.fields[k].name \in DOMAIN f.names
              /\ f.fields[k].static = f.fields[l].static
                 /\ f.names[f.fields[k].name] = f.names[f.fields[l].name] => k = l
<1>1. pak \in Seq(ClassFiles)
  BY PackagesAssumption
<1>2. f \in ClassFiles
  BY <1>1 DEF Range
<1>3. f.fields \in Fields /\ f.instDatSz = 0 /\ f.clsDatSz = 0
  BY <1>2 DEF ClassFiles, Fields
<1> QED BY <1>2, <1>3, PackagesAssumption

Base(c, static) == IF static THEN classes[c].clsDataOfst ELSE classes[c].instDataOfst
Extent(c, static) == IF static THEN classes[c].clsDataSize ELSE classes[c].instDataSize

\* The bytes that a class adds, one after the other: those of a native class are one
\* block, those of a file its fields.
LEMMA OwnBytes ==
  ASSUME pak \in Packages, NEW c, Sound(c), NEW static \in BOOLEAN
  PROVE  /\ Base(c, static) \in Nat /\ Extent(c, static) \in Nat
         /\ \A f \in Own(c, static) :
              /\ f.from \in Nat /\ f.size \in Nat /\ f.from + f.size \in Nat
              /\ Base(c, static) <= f.from
              /\ f.from + f.size <= Base(c, static) + Extent(c, static)
         /\ \A f, h \in Own(c, static) :
              f # h => f.from + f.size <= h.from \/ h.from + h.size <= f.from
                       \/ f.size = 0 \/ h.size = 0
<1> DEFINE file == classes[c].file
           F == file.fields
           b == Base(c, static)
           e == Extent(c, static)
           Block == [from |-> b, size |-> IF static THEN file.clsDatSz ELSE file.instDatSz,
                     cls |-> c, k |-> 0]
           Mine == {l \in DOMAIN F : F[l].static = static}
           Part(k) == [from |-> b + DataSize(SubSeq(F, 1, k - 1), static),
                       size |-> JavaTypeToSize(F[k].type), cls |-> c, k |-> k]
<1>1. b \in Nat /\ e \in Nat
  BY DEF Sound, Record, Base, Extent
<1>2. Own(c, static) = {Part(k) : k \in Mine} \cup {Block}
  BY DEF Own, Base
<1>3. CASE classes[c].native
  <2>1. file \in NativeClasses /\ F = <<>>
    BY <1>3 DEF Sound, NativeClasses
  <2>2. Mine = {}
    BY <2>1
  <2>3. Own(c, static) = {Block}
    <3> HIDE DEF Mine, Block, Part
    <3> QED BY <1>2, <2>2
  <2>4. Block.from = b /\ Block.size = e
    BY <1>3 DEF Sound, LaidOut, Extent
  <2> HIDE DEF Block, b, e
  <2>5. Block.from + Block.size \in Nat
    BY <1>1, <2>4
  <2> QED BY <1>1, <2>3, <2>4, <2>5 DEF b, e
<1>4. CASE ~classes[c].native
  <2>1. file \in Range(pak) /\ F \in Fields /\ file.clsDatSz = 0 /\ file.instDatSz = 0
    BY <1>4, FilesAre DEF Sound
  <2>2. PICK s : /\ Sums(s, F, static)
                 /\ \A m \in 0..Len(F) : DataSize(SubSeq(F, 1, m), static) = s[m]
                 /\ DataSize(F, static) = s[Len(F)]
    <3> HIDE DEF F
    <3> QED BY <2>1, DataSizes
  <2>3. e = s[Len(F)]
    BY <1>4, <2>2 DEF Sound, LaidOut, Extent
  <2>4. Len(F) \in Nat /\ DOMAIN F = 1..Len(F)
    BY <2>1 DEF Fields
  <2>5. \A m \in 0..Len(F) : s[m] \in Nat
    <3> HIDE DEF F
    <3> QED BY <2>1, <2>2, SumsTyped
  <2>6. ASSUME NEW k \in Mine
        PROVE  /\ k \in 1..Len(F) /\ k - 1 \in 0..Len(F) /\ k \in 0..Len(F)
               /\ Part(k).from = b + s[k - 1] /\ Part(k).k = k
               /\ Part(k).from + Part(k).size = b + s[k] /\ Part(k).size \in Nat
    <3>1. k \in 1..Len(F) /\ k - 1 \in 0..Len(F) /\ k \in 0..Len(F) /\ k # 0
      BY <2>4
    <3>2. Part(k).from = b + s[k - 1] /\ Part(k).k = k
      BY <2>2, <3>1
    <3>3. s[k] = s[k - 1] + Bytes(F[k], static)
      BY <2>2, <3>1 DEF Sums
    <3>4. Part(k).size = Bytes(F[k], static) /\ Part(k).size \in Nat
      BY BytesTyped DEF Bytes
    <3>5. s[k] \in Nat /\ s[k - 1] \in Nat
      BY <2>5, <3>1
    <3> DEFINE x == Part(k).from
               y == Part(k).size
    <3>6. x = b + s[k - 1] /\ y = Bytes(F[k], static) /\ y \in Nat
      BY <3>2, <3>4
    <3> HIDE DEF x, y, b
    <3>7. x + y = b + s[k]
      BY <1>1, <3>3, <3>5, <3>6 DEF b
    <3> QED BY <3>1, <3>2, <3>4, <3>7 DEF x, y
  <2>7. \A j, k \in 0..Len(F) : j <= k => s[j] <= s[k]
    <3> HIDE DEF F
    <3> QED BY <2>1, <2>2, SizesOrdered
  <2>8. Block.from = b /\ Block.size = 0
    BY <2>1
  <2> HIDE DEF Block, Part, F, Mine, b, e
  <2>9. ASSUME NEW f \in Own(c, static)
        PROVE  /\ f.from \in Nat /\ f.size \in Nat /\ f.from + f.size \in Nat
               /\ b <= f.from /\ f.from + f.size <= b + e
    <3>1. CASE f = Block
      <4>1. s[Len(F)] \in Nat
        BY <2>4, <2>5
      <4> QED BY <1>1, <2>3, <2>8, <3>1, <4>1
    <3>2. CASE f # Block
      <4>1. PICK k \in Mine : f = Part(k)
        BY <1>2, <3>2
      <4>2. s[k - 1] \in Nat /\ s[k] \in Nat /\ s[k] <= s[Len(F)] /\ s[Len(F)] \in Nat
        BY <2>4, <2>5, <2>6, <2>7
      <4>3. f.from = b + s[k - 1] /\ f.from + f.size = b + s[k] /\ f.size \in Nat
        BY <2>6, <4>1
      <4>4. f.from \in Nat /\ b <= f.from
        BY <1>1, <4>2, <4>3
      <4>5. f.from + f.size <= b + e
        BY <1>1, <2>3, <4>2, <4>3
      <4>6. f.from + f.size \in Nat
        BY <1>1, <4>2, <4>3
      <4> QED BY <4>3, <4>4, <4>5, <4>6
    <3> QED BY <3>1, <3>2
  <2>10. ASSUME NEW k \in Mine, NEW l \in Mine, k < l
         PROVE  Part(k).from + Part(k).size <= Part(l).from
    <3>1. k <= l - 1 /\ k \in 0..Len(F) /\ l - 1 \in 0..Len(F)
      BY <2>4, <2>6, <2>10
    <3>2. s[k] <= s[l - 1] /\ s[k] \in Nat /\ s[l - 1] \in Nat
      BY <2>5, <2>7, <3>1
    <3>3. Part(k).from + Part(k).size = b + s[k] /\ Part(l).from = b + s[l - 1]
      BY <2>6
    <3> QED BY <1>1, <3>2, <3>3
  <2>11. ASSUME NEW f \in Own(c, static), NEW h \in Own(c, static), f # h
         PROVE  f.from + f.size <= h.from \/ h.from + h.size <= f.from \/ f.size = 0 \/ h.size = 0
    <3>1. CASE f = Block \/ h = Block
      BY <2>8, <3>1
    <3>2. CASE f # Block /\ h # Block
      <4>1. PICK k \in Mine : f = Part(k)
        BY <1>2, <3>2
      <4>2. PICK l \in Mine : h = Part(l)
        BY <1>2, <3>2
      <4>3. k < l \/ l < k
        BY <2>4, <2>6, <2>11, <4>1, <4>2
      <4> QED BY <2>10, <4>1, <4>2, <4>3
    <3> QED BY <3>1, <3>2
  <2> QED BY <1>1, <2>9, <2>11 DEF b, e
<1> QED BY <1>3, <1>4

\* The bytes of a class upwards are below those of the class.
LEMMA ChainBelow ==
  ASSUME Tree, pak \in Packages, \A k \in 1..Len(classes) : Sound(k),
         NEW c \in 1..Len(classes), NEW d \in Chain(c), d # c
  PROVE  Base(d, FALSE) + Extent(d, FALSE) <= Base(c, FALSE)
<1> DEFINE B(k) == Base(k, FALSE)
           E(k) == Extent(k, FALSE)
           Ok(k) == \A x \in Chain(k) : x # k => B(x) + E(x) <= B(k)
           P == {k \in Nat : k \in 1..Len(classes) => Ok(k)}
<1>0. \A k \in 1..Len(classes) : B(k) \in Nat /\ E(k) \in Nat
  BY OwnBytes
<1>1. ASSUME NEW k \in Nat, \A b \in Nat : b < k => b \in P PROVE k \in P
  <2> SUFFICES ASSUME k \in 1..Len(classes), NEW x \in Chain(k), x # k PROVE B(x) + E(x) <= B(k)
    OBVIOUS
  <2> DEFINE s == classes[k].supr
  <2>1. s \in Nat /\ s < k /\ s \in 0..Len(classes) /\ Chain(k) = {k} \cup Chain(s)
        /\ Len(classes) \in Nat
    BY TreeTyped, ChainIs
  <2>2. x \in Chain(s) /\ s # 0
    BY <2>1, ChainIs
  <2>3. s \in 1..Len(classes)
    BY <2>1, <2>2
  <2>4. B(k) = B(s) + E(s)
    BY <2>2 DEF Sound, LaidOut, After, Base, Extent
  <2>5. Ok(s)
    <3> HIDE DEF Ok, s
    <3> QED BY <1>1, <2>1, <2>3
  <2>6. x \in 1..Len(classes)
    BY <2>1, <2>2, ChainIs
  <2>7. x = s \/ B(x) + E(x) <= B(s)
    BY <2>2, <2>5
  <2> HIDE DEF B, E, s
  <2>8. CASE x = s
    BY <1>0, <2>3, <2>4, <2>8
  <2>9. CASE x # s
    BY <1>0, <2>3, <2>4, <2>6, <2>7, <2>9
  <2> QED BY <2>8, <2>9
<1>2. Nat \subseteq P
  <2> HIDE DEF P
  <2> QED BY <1>1, StrongInduction
<1>3. c \in Nat
  BY TreeTyped
<1>4. Ok(c)
  <2> HIDE DEF Ok
  <2> QED BY <1>2, <1>3
<1> QED BY <1>4

\* The layout of a class whose tree is sound.
Layout(c) ==
  LET inst == UNION {Own(d, FALSE) : d \in Chain(c)}
      cls == Own(c, TRUE)
  IN  /\ \A f, h \in inst :
           f # h => f.from + f.size <= h.from \/ h.from + h.size <= f.from
                    \/ f.size = 0 \/ h.size = 0
      /\ \A f \in inst : f.from + f.size <= classes[c].instDataOfst + classes[c].instDataSize
      /\ \A f, h \in cls :
           f # h => f.from + f.size <= h.from \/ h.from + h.size <= f.from
                    \/ f.size = 0 \/ h.size = 0
      /\ \A f \in cls : f.from + f.size <= classes[c].data

LEMMA LayoutHolds ==
  ASSUME Tree, pak \in Packages, \A k \in 1..Len(classes) : Sound(k), Natives[1].clsDatSz = 0,
         \A k \in 1..Len(classes) :
           classes[k].native => /\ classes[k].file = Natives[k]
                                /\ classes[1].native /\ classes[1].supr = 0
                                /\ classes[k].supr = (IF k = 1 THEN 0 ELSE 1),
         NEW c \in 1..Len(classes)
  PROVE  Layout(c)
<1> DEFINE inst == UNION {Own(d, FALSE) : d \in Chain(c)}
           B(k) == Base(k, FALSE)
           E(k) == Extent(k, FALSE)
<1>1. Chain(c) \subseteq 1..Len(classes) /\ c \in Chain(c)
  BY ChainIs, ChainUp, TreeTyped
<1>2. \A d \in 1..Len(classes) : B(d) \in Nat /\ E(d) \in Nat
  BY OwnBytes
<1>3. ASSUME NEW d \in Chain(c), NEW f \in Own(d, FALSE)
      PROVE  /\ f.from \in Nat /\ f.size \in Nat /\ f.from + f.size \in Nat
             /\ B(d) <= f.from
             /\ f.from + f.size <= B(d) + E(d)
  BY <1>1, OwnBytes
<1>4. ASSUME NEW d \in Chain(c), NEW e \in Chain(c), d # e, d \in Chain(e),
             NEW f \in Own(d, FALSE), NEW h \in Own(e, FALSE)
      PROVE  f.from + f.size <= h.from
  <2>1. B(d) + E(d) <= B(e)
    BY <1>1, <1>4, ChainBelow
  <2>2. f.from \in Nat /\ f.size \in Nat /\ f.from + f.size <= B(d) + E(d)
    BY <1>3
  <2>3. h.from \in Nat /\ B(e) <= h.from
    BY <1>3
  <2>4. B(d) \in Nat /\ E(d) \in Nat /\ B(e) \in Nat
    BY <1>1, <1>2
  <2> DEFINE x == f.from
             y == f.size
             z == h.from
  <2>5. x \in Nat /\ y \in Nat /\ z \in Nat /\ x + y <= B(d) + E(d) /\ B(e) <= z
    BY <2>2, <2>3
  <2> HIDE DEF x, y, z, B, E
  <2>6. x + y <= z
    BY <2>1, <2>4, <2>5
  <2> QED BY <2>6 DEF x, y, z
<1>5. ASSUME NEW f \in inst, NEW h \in inst, f # h
      PROVE  f.from + f.size <= h.from \/ h.from + h.size <= f.from \/ f.size = 0 \/ h.size = 0
  <2>1. PICK d \in Chain(c) : f \in Own(d, FALSE)
    OBVIOUS
  <2>2. PICK e \in Chain(c) : h \in Own(e, FALSE)
    OBVIOUS
  <2>3. CASE d = e
    BY <1>1, <1>5, <2>1, <2>2, <2>3, OwnBytes
  <2>4. CASE d # e
    <3>1. d \in Chain(e) \/ e \in Chain(d)
      BY ChainLinear
    <3> QED BY <1>4, <2>1, <2>2, <2>4, <3>1
  <2> QED BY <2>3, <2>4
<1>6. ASSUME NEW f \in inst PROVE f.from + f.size <= B(c) + E(c)
  <2>1. PICK d \in Chain(c) : f \in Own(d, FALSE)
    OBVIOUS
  <2>2. f.from + f.size \in Nat /\ f.from + f.size <= B(d) + E(d)
    BY <1>3, <2>1
  <2>3. d = c \/ B(d) + E(d) <= B(c)
    BY <2>1, ChainBelow
  <2>4. B(d) \in Nat /\ E(d) \in Nat /\ B(c) \in Nat /\ E(c) \in Nat
    BY <1>1, <1>2
  <2> DEFINE x == f.from + f.size
  <2>5. x \in Nat /\ x <= B(d) + E(d)
    BY <2>2
  <2> HIDE DEF x, B, E
  <2>6. x <= B(c) + E(c)
    BY <2>3, <2>4, <2>5
  <2> QED BY <2>6 DEF x
<1>7. Base(c, TRUE) + Extent(c, TRUE) <= classes[c].data
  <2> DEFINE o == classes[c].clsDataOfst
             z == classes[c].clsDataSize
             all == classes[c].data
  <2>1. o \in Nat /\ z \in Nat /\ all \in Nat
    BY DEF Sound, Record
  <2>2. Base(c, TRUE) = o /\ Extent(c, TRUE) = z
    BY DEF Base, Extent
  <2>3. all = z + o
    <3>1. CASE ~classes[c].native
      BY <3>1 DEF Sound, LaidOut
    <3>2. CASE classes[c].native /\ c = 1
      <4>1. classes[c].supr = 0
        BY <3>2
      <4>2. o = 0 /\ all = z + 0
        BY <3>2, <4>1 DEF Sound, LaidOut, After
      <4> QED BY <4>2
    <3>3. CASE classes[c].native /\ c # 1
      <4>1. classes[c].supr = 1 /\ classes[1].native /\ 1 \in 1..Len(classes)
        BY <3>3, TreeTyped
      <4>2. o = After(classes[c].supr, "clsDataOfst", "clsDataSize")
        BY DEF Sound, LaidOut
      <4>3. o = classes[1].clsDataOfst + classes[1].clsDataSize
        <5>1. After(1, "clsDataOfst", "clsDataSize")
                = classes[1].clsDataOfst + classes[1].clsDataSize
          BY DEF After
        <5> QED BY <4>1, <4>2, <5>1
      <4>4. classes[1].clsDataSize = 0
        BY <4>1 DEF Sound, LaidOut
      <4>5. all = z + classes[1].clsDataOfst
        BY <3>3 DEF Sound, LaidOut
      <4>6. classes[1].clsDataOfst \in Nat
        BY <4>1 DEF Sound, Record
      <4> DEFINE first == classes[1].clsDataOfst
      <4>7. o = first + 0 /\ all = z + first /\ first \in Nat
        BY <4>3, <4>4, <4>5, <4>6
      <4> HIDE DEF first, o, z, all
      <4> QED BY <4>7
    <3> QED BY <3>1, <3>2, <3>3
  <2> HIDE DEF o, z, all
  <2>4. o + z <= all
    BY <2>1, <2>3
  <2> QED BY <2>2, <2>4 DEF all
<1>8. classes[c].data \in Nat
  BY DEF Sound, Record
<1>9. ASSUME NEW f \in Own(c, TRUE) PROVE f.from + f.size <= classes[c].data
  <2> DEFINE x == f.from + f.size
  <2>1. x \in Nat /\ x <= Base(c, TRUE) + Extent(c, TRUE)
    BY OwnBytes
  <2>2. Base(c, TRUE) \in Nat /\ Extent(c, TRUE) \in Nat
    BY OwnBytes
  <2> DEFINE y == Base(c, TRUE) + Extent(c, TRUE)
             all == classes[c].data
  <2>3. y \in Nat /\ all \in Nat /\ x <= y /\ y <= all
    <3>1. \A a, b \in Nat : a + b \in Nat
      OBVIOUS
    <3>2. y \in Nat
      BY <2>2, <3>1
    <3>3. x <= y
      BY <2>1
    <3>4. y <= all
      BY <1>7
    <3> QED BY <1>8, <3>2, <3>3, <3>4
  <2> HIDE DEF x, y, all
  <2>4. x <= all
    BY <2>1, <2>3
  <2> QED BY <2>4 DEF x, all
<1>10. \A f, h \in Own(c, TRUE) :
         f # h => f.from + f.size <= h.from \/ h.from + h.size <= f.from
                  \/ f.size = 0 \/ h.size = 0
  BY OwnBytes
<1>11. B(c) = classes[c].instDataOfst /\ E(c) = classes[c].instDataSize
  BY DEF Base, Extent
<1> HIDE DEF inst, B, E
<1>12. \A f \in inst : f.from + f.size <= classes[c].instDataOfst + classes[c].instDataSize
  BY <1>6, <1>11
<1> QED BY <1>5, <1>9, <1>10, <1>12 DEF Layout, inst

LEMMA MinOfOne == ASSUME NEW k \in Nat PROVE Min({k}) = k
BY DEF Min

\* A field is found by its name where it is; from other code, there or not at all.
LEMMA FieldFound ==
  ASSUME pak \in Packages, NEW c, Sound(c), ~classes[c].native,
         NEW static \in BOOLEAN, NEW f \in Own(c, static), f.k # 0, NEW t
  PROVE  LET name == StringAt(c, classes[c].file.fields[f.k].name)
         IN  FieldOffset(t, c, name, static) \in {f.from} \cup (IF t = c THEN {} ELSE {NotFound})
<1> DEFINE file == classes[c].file
           F == file.fields
           k == f.k
           name == StringAt(c, F[k].name)
           found == Matches(t, c, name, static)
<1>1. /\ F \in Fields
      /\ \A a, b \in DOMAIN F :
           /\ F[a].name \in DOMAIN file.names
           /\ F[a].static = F[b].static /\ file.names[F[a].name] = file.names[F[b].name] => a = b
  BY FilesAre DEF Sound
<1>2. /\ k \in DOMAIN F /\ F[k].static = static
      /\ f.from = Base(c, static) + DataSize(SubSeq(F, 1, k - 1), static)
  BY DEF Own, Base
<1>3. k \in Nat
  BY <1>1, <1>2 DEF Fields
<1>4. \A a \in DOMAIN F : StringAt(c, F[a].name) = file.names[F[a].name]
  BY <1>1 DEF StringAt
<1>5. found \subseteq {k}
  BY <1>1, <1>2, <1>4 DEF Matches
<1>6. t = c => found = {k}
  BY <1>2, <1>5 DEF Matches
<1>7. FieldOffset(t, c, name, static) =
        IF found = {} THEN NotFound
        ELSE Base(c, static) + DataSize(SubSeq(F, 1, Min(found) - 1), static)
  BY DEF FieldOffset, Base
<1> HIDE DEF found, name, F, k
<1>8. CASE found = {}
  BY <1>6, <1>7, <1>8 DEF name, F, k
<1>9. CASE found = {k}
  <2>1. Min(found) = k
    BY <1>3, <1>9, MinOfOne
  <2> QED BY <1>2, <1>7, <1>9, <2>1 DEF name, F, k
<1> QED BY <1>5, <1>8, <1>9

-----------------------------------------------------------------------------
(* Classes that can be loaded, and types of an object. *)

\* The classes that can be loaded when those of T can.
Step(T) == {k \in DOMAIN pak :
              \/ pak[k].super \in {""} \cup {n.name : n \in Range(Natives)}
              \/ \E l \in T : pak[l].name = pak[k].super}

LEMMA ResolvableIs ==
  ASSUME pak \in Packages
  PROVE  /\ Resolvable \subseteq DOMAIN pak /\ Step(Resolvable) = Resolvable
         /\ \A T \in SUBSET DOMAIN pak : Step(T) \subseteq T => Resolvable \subseteq T
<1> DEFINE n == Len(pak)
           D == DOMAIN pak
           F(k, f) == IF k = 0 THEN {} ELSE Step(f[k - 1])
           G == [T \in SUBSET D |-> Step(T)]
           V == CHOOSE f : f = [k \in 0..n |-> F(k, f)]
<1>1. n \in Nat /\ D = 1..n
  BY PackagesAssumption
<1>2. IsFiniteSet(D) /\ Cardinality(D) = n
  <2>1. IsFiniteSet(1..n) /\ Cardinality(1..n) = IF 1 > n THEN 0 ELSE n - 1 + 1
    BY <1>1, FS_Interval
  <2> HIDE DEF n
  <2>2. (IF 1 > n THEN 0 ELSE n - 1 + 1) = n
    BY <1>1
  <2> QED BY <1>1, <2>1, <2>2
<1>3. G \in [SUBSET D -> SUBSET D] /\ \A T \in SUBSET D : G[T] = Step(T)
  BY DEF Step
<1>4. \A A, B \in SUBSET D : A \subseteq B => Step(A) \subseteq Step(B)
  BY DEF Step
<1> HIDE DEF G
<1>5. Grows(n, D, {}, G)
  <2>1. Cardinality(D) <= n + Cardinality({})
    BY <1>1, <1>2, FS_EmptySet
  <2> QED BY <1>1, <1>2, <1>3, <1>4, <2>1 DEF Grows
<1>6. PICK f : f \in [0..n -> SUBSET D] /\ Iterates(f, n, {}, G)
  <2> HIDE DEF n, D
  <2> QED BY <1>5, IterationExists
<1>7. f = [k \in 0..n |-> F(k, f)]
  <2>1. \A k \in 0..n : f[k] = F(k, f)
    <3> SUFFICES ASSUME NEW k \in 0..n, k # 0 PROVE f[k] = F(k, f)
      BY <1>6 DEF Iterates
    <3>1. k - 1 \in 0..n
      BY <1>1
    <3> QED BY <1>3, <1>6, <3>1 DEF Iterates
  <2>2. f \in [0..n -> SUBSET D]
    BY <1>6
  <2> HIDE DEF F, n
  <2> QED BY <2>1, <2>2
<1> HIDE DEF F
<1>8. V = [k \in 0..n |-> F(k, V)]
  BY <1>7
<1>9. \A k \in 0..n : V[k] = F(k, V)
  BY <1>8
<1>10. Resolvable = V[n]
  BY DEF Resolvable, Step, F
<1> HIDE DEF V
<1>11. Iterates(V, n, {}, G)
  <2> DEFINE P == {k \in Nat : k \in 0..n => V[k] \in SUBSET D}
  <2>1. ASSUME NEW k \in 1..n PROVE V[k] = Step(V[k - 1])
    <3>1. k \in 0..n /\ k # 0
      BY <1>1
    <3> QED BY <1>9, <3>1 DEF F
  <2>2. V[0] = {}
    <3>1. 0 \in 0..n
      BY <1>1
    <3> QED BY <1>9, <3>1 DEF F
  <2>3. ASSUME NEW k \in 0..n PROVE V[k] \in SUBSET D
    <3>1. k = 0 \/ k \in 1..n
      BY <1>1
    <3> QED BY <2>1, <2>2, <3>1 DEF Step
  <2>4. \A k \in 0..n : k # 0 => k \in 1..n /\ k - 1 \in 0..n
    BY <1>1
  <2> QED BY <1>3, <2>1, <2>2, <2>3, <2>4 DEF Iterates
<1>12. /\ V[n] \in SUBSET D /\ G[V[n]] = V[n]
       /\ \A T \in SUBSET D : {} \subseteq T /\ G[T] \subseteq T => V[n] \subseteq T
  <2> HIDE DEF n, D
  <2> QED BY <1>5, <1>11, LeastFixpoint
<1> QED BY <1>3, <1>10, <1>12

\* The types next to those of T.
Near(c) == ({classes[c].supr} \ {0}) \cup
             {FindClass(classes[c].file.ifaces[k]) : k \in DOMAIN classes[c].file.ifaces}
Next1(T) == UNION {Near(c) : c \in T \ {0}}

\* The types of an object are the least set that has its class in it and the types next
\* to its own, 0 for a class that is missing.
LEMMA SupertypesAre ==
  ASSUME Tree, NEW o \in 1..Len(classes)
  PROVE  /\ Supertypes(o) \subseteq 0..Len(classes) /\ o \in Supertypes(o)
         /\ Next1(Supertypes(o)) \subseteq Supertypes(o)
         /\ \A T \in SUBSET (0..Len(classes)) :
              o \in T /\ Next1(T) \subseteq T => Supertypes(o) \subseteq T
<1> DEFINE n == Len(classes)
           D == 0..n
           Up(T) == T \cup Next1(T)
           F(k, f) == IF k = 0 THEN {o} ELSE Up(f[k - 1])
           G == [T \in SUBSET D |-> Up(T)]
           V == CHOOSE f : f = [k \in 0..n |-> F(k, f)]
<1>1. n \in Nat /\ o \in D
  BY TreeTyped
<1>2. IsFiniteSet(D) /\ Cardinality(D) = n + 1
  <2>1. IsFiniteSet(D) /\ Cardinality(D) = IF 0 > n THEN 0 ELSE n - 0 + 1
    BY <1>1, FS_Interval
  <2> HIDE DEF n, D
  <2> QED BY <1>1, <2>1
<1>3. \A T \in SUBSET D : Up(T) \in SUBSET D
  <2> SUFFICES ASSUME NEW T \in SUBSET D, NEW x \in Next1(T) PROVE x \in D
    OBVIOUS
  <2>1. PICK c \in T \ {0} : x \in Near(c)
    BY DEF Next1
  <2>2. c \in 1..n
    BY <1>1
  <2>3. classes[c].supr \in D /\ \A name : FindClass(name) \in D
    BY <2>2, TreeTyped, FindClassIs
  <2> QED BY <2>1, <2>3 DEF Near
<1>4. \A A, B \in SUBSET D : A \subseteq B => Up(A) \subseteq Up(B)
  <2> SUFFICES ASSUME NEW A \in SUBSET D, NEW B \in SUBSET D, A \subseteq B, NEW x \in Next1(A)
               PROVE  x \in Next1(B)
    OBVIOUS
  <2>1. PICK c \in A \ {0} : x \in Near(c)
    BY DEF Next1
  <2>2. c \in B \ {0}
    OBVIOUS
  <2> QED BY <2>1, <2>2 DEF Next1
<1> HIDE DEF Up
<1>5. G \in [SUBSET D -> SUBSET D] /\ \A T \in SUBSET D : G[T] = Up(T)
  BY <1>3
<1> HIDE DEF G
<1>6. Grows(n, D, {o}, G)
  <2>1. Cardinality(D) <= n + Cardinality({o})
    <3>1. Cardinality({o}) = 1
      BY FS_Singleton
    <3> HIDE DEF n, D
    <3> QED BY <1>1, <1>2, <3>1
  <2>2. {o} \in SUBSET D /\ {o} \subseteq G[{o}]
    BY <1>1, <1>5 DEF Up
  <2> QED BY <1>1, <1>2, <1>4, <1>5, <2>1, <2>2 DEF Grows
<1>7. PICK f : f \in [0..n -> SUBSET D] /\ Iterates(f, n, {o}, G)
  <2> HIDE DEF n, D
  <2> QED BY <1>6, IterationExists
<1>8. f = [k \in 0..n |-> F(k, f)]
  <2>1. \A k \in 0..n : f[k] = F(k, f)
    <3> SUFFICES ASSUME NEW k \in 0..n, k # 0 PROVE f[k] = F(k, f)
      BY <1>7 DEF Iterates
    <3>1. k - 1 \in 0..n
      BY <1>1
    <3> QED BY <1>5, <1>7, <3>1 DEF Iterates
  <2>2. f \in [0..n -> SUBSET D]
    BY <1>7
  <2> HIDE DEF F, n
  <2> QED BY <2>1, <2>2
<1> HIDE DEF F
<1>9. V = [k \in 0..n |-> F(k, V)]
  BY <1>8
<1>10. \A k \in 0..n : V[k] = F(k, V)
  BY <1>9
<1>11. Supertypes(o) = V[n]
  BY DEF Supertypes, Next1, Near, F, Up
<1> HIDE DEF V
<1>12. V[0] = {o}
  <2>1. 0 \in 0..n
    BY <1>1
  <2> QED BY <1>10, <2>1 DEF F
<1>13. ASSUME NEW k \in 1..n PROVE V[k] = Up(V[k - 1])
  <2>1. k \in 0..n /\ k # 0
    BY <1>1
  <2> QED BY <1>10, <2>1 DEF F
<1>14. \A k \in 0..n : V[k] \in SUBSET D
  <2> DEFINE P == {k \in Nat : k <= n => V[k] \in SUBSET D}
  <2>1. 0 \in P
    BY <1>1, <1>12
  <2>2. ASSUME NEW k \in Nat, k \in P PROVE k + 1 \in P
    <3> SUFFICES ASSUME k + 1 <= n PROVE V[k + 1] \in SUBSET D
      OBVIOUS
    <3>1. k + 1 \in 1..n /\ (k + 1) - 1 = k /\ V[k] \in SUBSET D
      BY <1>1, <2>2
    <3>2. V[k + 1] = Up(V[k])
      BY <1>13, <3>1
    <3> QED BY <1>3, <3>1, <3>2
  <2>3. Nat \subseteq P
    <3> HIDE DEF P
    <3> QED BY <2>1, <2>2, SetInduction
  <2> QED BY <1>1, <2>3
<1>15. Iterates(V, n, {o}, G)
  <2>1. \A k \in 0..n : k # 0 => k \in 1..n /\ k - 1 \in 0..n
    BY <1>1
  <2> QED BY <1>5, <1>12, <1>13, <1>14, <2>1 DEF Iterates
<1>16. /\ V[n] \in SUBSET D /\ {o} \subseteq V[n] /\ G[V[n]] = V[n]
       /\ \A T \in SUBSET D : {o} \subseteq T /\ G[T] \subseteq T => V[n] \subseteq T
  <2> HIDE DEF n, D
  <2> QED BY <1>6, <1>15, LeastFixpoint
<1> QED BY <1>5, <1>11, <1>16 DEF Up

-----------------------------------------------------------------------------
(* What the invariant says of a state. *)

LEMMA NativesAre ==
  /\ Len(Natives) \in Nat /\ Len(Natives) >= 1 /\ DOMAIN Natives = 1..Len(Natives)
  /\ \A k \in 1..Len(Natives) :
       /\ Natives[k] \in NativeClasses /\ Natives[k].name \in STRING
       /\ Natives[k].name = Natives[1].name => k = 1
<1>1. Natives \in Seq(NativeClasses) /\ Natives # <<>>
  BY NativesAssumption
<1>2. Len(Natives) \in Nat /\ Len(Natives) # 0 /\ DOMAIN Natives = 1..Len(Natives)
  BY <1>1, EmptySeq
<1>3. \A k \in 1..Len(Natives) : Natives[k] \in NativeClasses
  BY <1>1, <1>2
<1>4. \A k \in 1..Len(Natives) : Natives[k].name \in STRING
  BY <1>3 DEF NativeClasses
<1>5. \A k \in 1..Len(Natives) : Natives[k].name = Natives[1].name => k = 1
  BY <1>2, NativesAssumption
<1>6. Len(Natives) >= 1
  BY <1>2
<1> QED BY <1>2, <1>3, <1>4, <1>5, <1>6

LEMMA PakIs ==
  ASSUME pak \in Packages
  PROVE  /\ Len(pak) \in Nat /\ DOMAIN pak = 1..Len(pak)
         /\ \A l \in DOMAIN pak :
              /\ pak[l] \in Range(pak) /\ pak[l] \in ClassFiles
              /\ pak[l].name \in STRING /\ pak[l].super \in STRING /\ pak[l].super # ""
              /\ pak[l].name # Natives[1].name /\ pak[l].iface \in BOOLEAN
              /\ pak[l].ifaces \in Seq(STRING)
<1>1. pak \in Seq(ClassFiles)
  BY PackagesAssumption
<1>2. Len(pak) \in Nat /\ DOMAIN pak = 1..Len(pak)
  BY <1>1
<1>3. \A l \in DOMAIN pak : pak[l] \in ClassFiles /\ pak[l] \in Range(pak)
  BY <1>1, <1>2 DEF Range
<1>4. \A l \in DOMAIN pak : pak[l].name # Natives[1].name
  BY <1>3, PackagesAssumption
<1> QED BY <1>2, <1>3, <1>4 DEF ClassFiles

LEMMA InvTree ==
  ASSUME Typed, \A k \in DOMAIN classes : FromFile(k)
  PROVE  Tree /\ Len(classes) \in Nat /\ DOMAIN classes = 1..Len(classes)
<1>1. classes \in Seq(Record)
  BY DEF Typed
<1>2. \A k \in DOMAIN classes : classes[k].supr < k
  BY DEF FromFile
<1> QED BY <1>1, <1>2 DEF Tree

LEMMA InvSound ==
  ASSUME Typed, \A k \in DOMAIN classes : FromFile(k) /\ LaidOut(k)
  PROVE  \A k \in 1..Len(classes) : Sound(k)
<1> SUFFICES ASSUME NEW k \in 1..Len(classes) PROVE Sound(k)
  OBVIOUS
<1>1. Tree /\ k \in DOMAIN classes /\ classes[k] \in Record /\ k \in Nat /\ 1 <= k
  BY InvTree, TreeTyped
<1>2. FromFile(k) /\ LaidOut(k)
  BY <1>1
<1>3. ASSUME classes[k].native PROVE classes[k].file \in NativeClasses
  <2>1. k <= Len(Natives) /\ classes[k].file = Natives[k]
    BY <1>2, <1>3 DEF FromFile
  <2>2. k \in 1..Len(Natives)
    BY <1>1, <2>1, NativesAre
  <2> QED BY <2>1, <2>2, NativesAre
<1>4. ASSUME ~classes[k].native PROVE classes[k].file \in Range(pak)
  <2>1. PICK l \in loaded : classes[k].file = pak[l]
    BY <1>2, <1>4 DEF FromFile
  <2> QED BY <2>1, PakIs DEF Typed
<1> QED BY <1>1, <1>2, <1>3, <1>4 DEF Sound

LEMMA InvLayout ==
  ASSUME Typed, \A k \in DOMAIN classes : FromFile(k) /\ LaidOut(k)
  PROVE  LayoutSound
<1>1. Tree /\ DOMAIN classes = 1..Len(classes) /\ Len(classes) \in Nat
  BY InvTree
<1>2. pak \in Packages /\ Natives[1].clsDatSz = 0
  BY NativesAssumption DEF Typed
<1>3. \A k \in 1..Len(classes) : Sound(k)
  BY InvSound
<1>4. ASSUME NEW k \in 1..Len(classes), classes[k].native
      PROVE  /\ classes[k].file = Natives[k]
             /\ classes[1].native /\ classes[1].supr = 0
             /\ classes[k].supr = IF k = 1 THEN 0 ELSE 1
  <2>1. 1 \in 1..Len(classes) /\ 1 <= Len(Natives)
    BY <1>1, NativesAre
  <2>2. FromFile(k) /\ FromFile(1)
    BY <1>1, <2>1
  <2>3. (classes[1].native <=> 1 <= Len(Natives)) /\ (classes[1].supr = 0 <=> 1 = 1)
    BY <2>2 DEF FromFile
  <2>4. classes[1].native /\ classes[1].supr = 0
    BY <2>1, <2>3
  <2>5. classes[k].file = Natives[k] /\ (k # 1 => classes[k].supr = 1)
    BY <1>4, <2>2 DEF FromFile
  <2> QED BY <2>4, <2>5
<1>5. \A c \in 1..Len(classes) : Layout(c)
  BY <1>1, <1>2, <1>3, <1>4, LayoutHolds
<1> QED BY <1>1, <1>5 DEF LayoutSound, Layout

LEMMA InvMembers ==
  ASSUME Typed, \A k \in DOMAIN classes : FromFile(k) /\ LaidOut(k)
  PROVE  MembersFound
<1>1. Tree /\ DOMAIN classes = 1..Len(classes) /\ pak \in Packages
  BY InvTree DEF Typed
<1>2. \A k \in 1..Len(classes) : Sound(k)
  BY InvSound
<1> QED BY <1>1, <1>2, NearestMethod, FieldFound DEF MembersFound

\* A native class is among the classes under its name.
LEMMA NativeNamed ==
  ASSUME Typed, \A k \in DOMAIN classes : FromFile(k),
         NEW k \in 1..Len(Natives), k <= Len(classes)
  PROVE  k \in DOMAIN classes /\ classes[k].name = Natives[k].name
<1>1. k \in DOMAIN classes
  BY InvTree, NativesAre
<1>2. (classes[k].native <=> k <= Len(Natives)) /\ classes[k].name = classes[k].file.name
  BY <1>1 DEF FromFile
<1>3. k <= Len(Natives)
  BY NativesAre
<1> QED BY <1>1, <1>2, <1>3 DEF FromFile

\* When all natives and the classes of loaded are there, a class of which the superclass
\* is not missing is in Step(loaded), and one in Step(loaded) has its superclass.
LEMMA StepIs ==
  ASSUME Typed, Progress, \A k \in DOMAIN classes : FromFile(k),
         phase \in {"load", "run", "unresolved"}, NEW k \in DOMAIN pak
  PROVE  k \in Step(loaded) <=> ~DependencyMissing(pak[k])
<1> DEFINE super == pak[k].super
<1>1. Tree /\ pak \in Packages /\ super # "" /\ DOMAIN classes = 1..Len(classes)
  BY InvTree, PakIs DEF Typed
<1>2. DependencyMissing(pak[k]) <=> FindClass(super) = 0
  BY <1>1 DEF DependencyMissing, Supr
<1>3. ASSUME k \in Step(loaded) PROVE FindClass(super) # 0
  <2>1. CASE \E n \in Range(Natives) : n.name = super
    <3>1. PICK j \in 1..Len(Natives) : Natives[j].name = super
      BY <2>1, NativesAre DEF Range
    <3>2. Len(classes) = Len(Natives) + Cardinality(loaded) /\ Cardinality(loaded) \in Nat
      <4>1. IsFiniteSet(DOMAIN pak)
        <5>1. Len(pak) \in Nat /\ DOMAIN pak = 1..Len(pak)
          BY <1>1, PakIs
        <5>2. IsFiniteSet(1..Len(pak))
          BY <5>1, FS_Interval
        <5> QED BY <5>1, <5>2
      <4>2. IsFiniteSet(loaded)
        BY <4>1, FS_Subset DEF Typed
      <4> QED BY <4>2, FS_CardinalityType DEF Progress
    <3>3. j <= Len(classes)
      BY <3>1, <3>2, NativesAre
    <3>4. j \in DOMAIN classes /\ classes[j].name = super
      BY <3>1, <3>3, NativeNamed
    <3> QED BY <1>1, <3>4, FindClassIs
  <2>2. CASE \E l \in loaded : pak[l].name = super
    <3>1. PICK l \in loaded : pak[l].name = super
      BY <2>2
    <3>2. PICK j \in DOMAIN classes : classes[j].name = super
      BY <3>1 DEF Progress
    <3> QED BY <1>1, <3>2, FindClassIs
  <2> QED BY <1>1, <1>3, <2>1, <2>2 DEF Step
<1>4. ASSUME FindClass(super) # 0 PROVE k \in Step(loaded)
  <2> DEFINE c == FindClass(super)
  <2>1. c \in DOMAIN classes /\ classes[c].name = super
    BY <1>1, <1>4, FindClassIs
  <2> HIDE DEF c
  <2>2. FromFile(c) /\ classes[c].name = classes[c].file.name
    BY <2>1 DEF FromFile
  <2>3. CASE classes[c].native
    <3>1. c <= Len(Natives) /\ classes[c].file = Natives[c]
      BY <2>2, <2>3 DEF FromFile
    <3>2. c \in 1..Len(Natives)
      <4>1. c \in 1..Len(classes)
        BY <1>1, <2>1
      <4>2. Len(classes) \in Nat /\ Len(Natives) \in Nat
        BY <1>1, NativesAre, TreeTyped
      <4> QED BY <3>1, <4>1, <4>2
    <3>3. Natives[c] \in Range(Natives) /\ Natives[c].name = super
      BY <2>1, <2>2, <3>1, <3>2, NativesAre DEF Range
    <3> QED BY <3>3 DEF Step
  <2>4. CASE ~classes[c].native
    <3>1. PICK l \in loaded : classes[c].file = pak[l]
      BY <2>2, <2>4 DEF FromFile
    <3> QED BY <2>1, <2>2, <3>1 DEF Step
  <2> QED BY <2>3, <2>4
<1> QED BY <1>2, <1>3, <1>4

LEMMA InvResolves ==
  ASSUME Typed, Progress, \A k \in DOMAIN classes : FromFile(k), loaded \subseteq Resolvable
  PROVE  LoaderResolves
<1>1. pak \in Packages
  BY DEF Typed
<1>2. phase = "run" => Resolvable = DOMAIN pak
  BY <1>1, ResolvableIs DEF Progress
<1>3. ASSUME phase = "unresolved" PROVE Resolvable # DOMAIN pak /\ loaded = Resolvable
  <2>1. loaded # DOMAIN pak /\ \A k \in DOMAIN pak : k < i => k \in loaded \/ DependencyMissing(pak[k])
    BY <1>3 DEF Progress
  <2>2. i = Len(pak) + 1
    BY <1>3 DEF Progress
  <2>3. \A k \in DOMAIN pak : k < i
    <3>1. Len(pak) \in Nat /\ DOMAIN pak = 1..Len(pak)
      BY <1>1, PakIs
    <3> QED BY <2>2, <3>1
  <2>4. ASSUME NEW k \in Step(loaded) PROVE k \in loaded
    <3>1. k \in DOMAIN pak
      BY DEF Step
    <3>2. ~DependencyMissing(pak[k])
      BY <1>3, <3>1, StepIs
    <3> QED BY <2>1, <2>3, <3>1, <3>2
  <2>5. Resolvable \subseteq loaded
    BY <1>1, <2>4, ResolvableIs DEF Typed
  <2> QED BY <2>1, <2>5
<1>4. phase \in {"load", "run"} => Len(classes) = Len(Natives) + Cardinality(loaded)
  BY DEF Progress
<1>5. \A c \in DOMAIN classes : classes[c].supr < c
  BY DEF FromFile
<1> QED BY <1>2, <1>3, <1>4, <1>5 DEF LoaderResolves

-----------------------------------------------------------------------------
(* The start keeps the invariant. *)

\* What the invariant says of the start.
Started ==
  /\ Typed /\ Progress /\ loaded \subseteq Resolvable
  /\ \A k \in DOMAIN classes : FromFile(k) /\ LaidOut(k)

\* While the program does not run, nobody asks.
LEMMA NobodyAsks ==
  ASSUME Asked, InstanceofAnswers, phase # "run", UNCHANGED q
  PROVE  Asked' /\ InstanceofAnswers'
<1>1. q.answer = "none" /\ q'.answer = "none" /\ q' \in Query
  BY DEF Asked
<1> QED BY <1>1 DEF Asked, InstanceofAnswers

LEMMA InitInv == ASSUME Init PROVE IInv
<1> USE DEF Init
<1>1. q.answer = "none" /\ q \in Query
  BY DEF NoQuery, Query
<1>2. Asked /\ InstanceofAnswers
  BY <1>1 DEF Asked, InstanceofAnswers
<1>3. DOMAIN classes = {} /\ Len(classes) = 0 /\ classes \in Seq(Record)
  OBVIOUS
<1>4. Typed
  <2>1. i \in 1..(Len(pak) + 1)
    <3>1. Len(pak) \in Nat
      BY PakIs
    <3> QED BY <3>1
  <2> QED BY <1>3, <2>1 DEF Typed, Phases
<1>5. Progress
  BY <1>3, NativesAre DEF Progress
<1> QED BY <1>2, <1>3, <1>4, <1>5 DEF IInv

\* A new class leaves the older ones as they are.
LEMMA AppendKeeps ==
  ASSUME Typed, \A k \in DOMAIN classes : FromFile(k) /\ LaidOut(k),
         NEW r \in Record, classes' = Append(classes, r), loaded \subseteq loaded', pak' = pak
  PROVE  /\ classes' \in Seq(Record) /\ Len(classes') = Len(classes) + 1
         /\ DOMAIN classes' = DOMAIN classes \cup {Len(classes) + 1}
         /\ classes'[Len(classes) + 1] = r
         /\ \A k \in DOMAIN classes : classes'[k] = classes[k] /\ FromFile(k)' /\ LaidOut(k)'
         /\ \A s \in 0..Len(classes) : \A o, z : After(s, o, z)' = After(s, o, z)
<1>1. /\ Tree /\ Len(classes) \in Nat /\ DOMAIN classes = 1..Len(classes)
      /\ classes \in Seq(Record)
  BY InvTree DEF Typed
<1>2. /\ classes' \in Seq(Record) /\ Len(classes') = Len(classes) + 1
      /\ classes'[Len(classes) + 1] = r
      /\ \A k \in 1..Len(classes) : classes'[k] = classes[k]
  BY <1>1, AppendProperties
<1>3. DOMAIN classes' = DOMAIN classes \cup {Len(classes) + 1}
  <2>1. DOMAIN classes' = 1..(Len(classes) + 1)
    BY <1>2
  <2> QED BY <1>1, <2>1
<1>4. ASSUME NEW s \in 0..Len(classes), NEW o, NEW z PROVE After(s, o, z)' = After(s, o, z)
  <2>1. CASE s = 0
    BY <2>1 DEF After
  <2>2. CASE s # 0
    <3>1. classes'[s] = classes[s]
      BY <1>1, <1>2, <2>2
    <3> QED BY <3>1 DEF After
  <2> QED BY <2>1, <2>2
<1>5. ASSUME NEW k \in DOMAIN classes PROVE FromFile(k)'
  <2>1. FromFile(k) /\ classes'[k] = classes[k]
    BY <1>1, <1>2
  <2> QED BY <2>1 DEF FromFile
<1>6. ASSUME NEW k \in DOMAIN classes PROVE LaidOut(k)'
  <2>1. LaidOut(k) /\ classes'[k] = classes[k] /\ classes[k].supr \in 0..Len(classes)
    BY <1>1, <1>2, TreeTyped
  <2>2. k # 1 => classes'[1] = classes[1]
    BY <1>1, <1>2
  <2>3. /\ After(classes[k].supr, "instDataOfst", "instDataSize")'
             = After(classes[k].supr, "instDataOfst", "instDataSize")
        /\ After(classes[k].supr, "clsDataOfst", "clsDataSize")'
             = After(classes[k].supr, "clsDataOfst", "clsDataSize")
    <3> DEFINE s == classes[k].supr
    <3>1. s \in 0..Len(classes) /\ classes'[k].supr = s
      BY <2>1
    <3>2. s # 0 => classes'[s] = classes[s]
      BY <1>1, <1>2, <3>1
    <3> QED BY <3>1, <3>2 DEF After
  <2> QED BY <2>1, <2>2, <2>3 DEF LaidOut
<1> QED BY <1>1, <1>2, <1>3, <1>4, <1>5, <1>6

LEMMA AfterTyped ==
  ASSUME Tree, NEW supr \in 0..Len(classes)
  PROVE  /\ After(supr, "instDataOfst", "instDataSize") \in Nat
         /\ After(supr, "clsDataOfst", "clsDataSize") \in Nat
         /\ supr \in Nat
<1>1. supr \in Nat
  BY TreeTyped
<1>2. CASE supr = 0
  BY <1>2 DEF After
<1>3. CASE supr # 0
  <2>1. classes[supr] \in Record
    BY <1>3, TreeTyped
  <2> QED BY <1>1, <1>3, <2>1 DEF After, Record
<1> QED BY <1>1, <1>2, <1>3

\* What is said of the k-th class when it is new.
Fits(r, k) ==
  /\ r.name = r.file.name /\ r.supr \in 0..Len(classes) /\ (r.supr = 0 <=> k = 1)
  /\ (r.native <=> k <= Len(Natives))
  /\ r.instDataOfst = After(r.supr, "instDataOfst", "instDataSize")
  /\ r.clsDataOfst = After(r.supr, "clsDataOfst", "clsDataSize")
  /\ r.native => /\ r.file = Natives[k] /\ (k # 1 => r.supr = 1)
                 /\ r.instDataSize = r.file.instDatSz /\ r.clsDataSize = r.file.clsDatSz
                 /\ r.data = r.clsDataSize + (IF k = 1 THEN 0 ELSE classes[1].clsDataOfst)
  /\ ~r.native => /\ r.file.super = Natives[1].name => r.supr = 1
                  /\ r.instDataSize = DataSize(r.file.fields, FALSE)
                  /\ r.clsDataSize = DataSize(r.file.fields, TRUE)
                  /\ r.data = r.clsDataSize + r.clsDataOfst

LEMMA NewClass ==
  ASSUME Typed, \A j \in DOMAIN classes : FromFile(j) /\ LaidOut(j),
         NEW k, k = Len(classes) + 1, NEW r \in Record, Fits(r, k),
         classes' = Append(classes, r), loaded \subseteq loaded', pak' = pak,
         r.native \/ \E l \in loaded' : r.file = pak[l]
  PROVE  /\ classes' \in Seq(Record) /\ Len(classes') = k /\ classes'[k] = r
         /\ DOMAIN classes' = DOMAIN classes \cup {k}
         /\ \A j \in DOMAIN classes : classes'[j] = classes[j]
         /\ \A j \in DOMAIN classes' : FromFile(j)' /\ LaidOut(j)'
<1>1. Len(classes) \in Nat /\ DOMAIN classes = 1..Len(classes) /\ k \in Nat /\ k >= 1
  BY InvTree
<1>2. /\ classes' \in Seq(Record) /\ Len(classes') = k /\ DOMAIN classes' = DOMAIN classes \cup {k}
      /\ classes'[k] = r
      /\ \A j \in DOMAIN classes : classes'[j] = classes[j] /\ FromFile(j)' /\ LaidOut(j)'
  BY AppendKeeps
<1> DEFINE s == r.supr
<1>3. s \in 0..Len(classes) /\ s < k /\ (s # 0 => s \in DOMAIN classes)
  BY <1>1 DEF Fits
<1>4. FromFile(k)'
  <2>1. /\ r.name = r.file.name /\ (s = 0 <=> k = 1) /\ (r.native <=> k <= Len(Natives))
        /\ r.native => r.file = Natives[k] /\ (k # 1 => s = 1)
        /\ ~r.native => (r.file.super = Natives[1].name => s = 1)
    BY DEF Fits
  <2>2. ~r.native => \E l \in loaded' : r.file = pak'[l]
    OBVIOUS
  <2> QED BY <1>2, <1>3, <2>1, <2>2 DEF FromFile
<1>5. /\ After(s, "instDataOfst", "instDataSize")' = After(s, "instDataOfst", "instDataSize")
      /\ After(s, "clsDataOfst", "clsDataSize")' = After(s, "clsDataOfst", "clsDataSize")
  BY <1>2, <1>3 DEF After
<1>6. k # 1 => classes'[1] = classes[1]
  BY <1>1, <1>2
<1>7. LaidOut(k)'
  <2>1. /\ r.instDataOfst = After(s, "instDataOfst", "instDataSize")'
        /\ r.clsDataOfst = After(s, "clsDataOfst", "clsDataSize")'
    BY <1>5 DEF Fits
  <2>2. r.native => /\ r.instDataSize = r.file.instDatSz /\ r.clsDataSize = r.file.clsDatSz
                    /\ r.data = r.clsDataSize + (IF k = 1 THEN 0 ELSE classes'[1].clsDataOfst)
    BY <1>6 DEF Fits
  <2>3. ~r.native => /\ r.instDataSize = DataSize(r.file.fields, FALSE)
                     /\ r.clsDataSize = DataSize(r.file.fields, TRUE)
                     /\ r.data = r.clsDataSize + r.clsDataOfst
    BY DEF Fits
  <2> QED BY <1>2, <2>1, <2>2, <2>3 DEF LaidOut
<1> QED BY <1>2, <1>4, <1>7

LEMMA RegisterStep ==
  ASSUME Started, RegisterNativeClass
  PROVE  Started'
<1> USE DEF Started
<1>1. /\ phase = "natives" /\ Len(classes) < Len(Natives)
      /\ UNCHANGED <<pak, phase, i, done, loaded>>
  BY DEF RegisterNativeClass
<1>2. Tree /\ Len(classes) \in Nat /\ DOMAIN classes = 1..Len(classes) /\ classes \in Seq(Record)
  BY InvTree DEF Typed
<1>3. PICK k : k = Len(classes) + 1
  OBVIOUS
<1>4. PICK n : n = Natives[k]
  OBVIOUS
<1>5. PICK supr : supr = IF classes = <<>> THEN 0 ELSE 1
  OBVIOUS
<1>6. PICK data : data = (IF supr = 0 THEN 0 ELSE classes[supr].clsDataOfst) + n.clsDatSz
  OBVIOUS
<1>7. PICK r : r = Class(n, supr, n.instDatSz, n.clsDatSz, TRUE, data)
  OBVIOUS
<1>8. classes' = Append(classes, r)
  BY <1>3, <1>4, <1>5, <1>6, <1>7 DEF RegisterNativeClass
<1>9. k \in 1..Len(Natives) /\ n \in NativeClasses /\ n.instDatSz \in Nat /\ n.clsDatSz \in Nat
  <2>1. k \in 1..Len(Natives)
    BY <1>1, <1>2, <1>3, NativesAre
  <2> QED BY <1>4, <2>1, NativesAre DEF NativeClasses
<1>10. supr \in 0..Len(classes) /\ (supr = 0 <=> k = 1) /\ (k # 1 => supr = 1)
  <2>1. classes = <<>> <=> Len(classes) = 0
    BY <1>2, EmptySeq
  <2> QED BY <1>2, <1>3, <1>5, <2>1
<1>11. data = n.clsDatSz + (IF k = 1 THEN 0 ELSE classes[1].clsDataOfst) /\ data \in Nat
  <2>1. k # 1 => classes[1].clsDataOfst \in Nat
    <3> SUFFICES ASSUME k # 1 PROVE classes[1].clsDataOfst \in Nat
      OBVIOUS
    <3>1. 1 \in 1..Len(classes)
      BY <1>2, <1>3
    <3>2. classes[1] \in Record
      BY <1>2, <3>1, TreeTyped
    <3> QED BY <3>2 DEF Record
  <2> DEFINE first == IF k = 1 THEN 0 ELSE classes[1].clsDataOfst
             own == n.clsDatSz
  <2>2. first \in Nat /\ own \in Nat /\ data = first + own
    BY <1>6, <1>9, <1>10, <2>1
  <2> HIDE DEF first, own
  <2>3. data = own + first /\ data \in Nat
    BY <2>2
  <2> QED BY <2>3 DEF first, own
<1>12. /\ r \in Record
       /\ r.name = n.name /\ r.file = n /\ r.supr = supr /\ r.native = TRUE
       /\ r.instDataOfst = After(supr, "instDataOfst", "instDataSize")
       /\ r.clsDataOfst = After(supr, "clsDataOfst", "clsDataSize")
       /\ r.instDataSize = n.instDatSz /\ r.clsDataSize = n.clsDatSz /\ r.data = data
  <2>1. n \in NativeClasses \cup ClassFiles /\ n.name \in STRING
    BY <1>9 DEF NativeClasses
  <2>2. /\ After(supr, "instDataOfst", "instDataSize") \in Nat
        /\ After(supr, "clsDataOfst", "clsDataSize") \in Nat
        /\ supr \in Nat
    BY <1>2, <1>10, AfterTyped
  <2> QED BY <1>7, <1>9, <1>11, <2>1, <2>2 DEF Class, Record
<1>13. Fits(r, k)
  <2>1. k <= Len(Natives)
    BY <1>9, NativesAre
  <2> QED BY <1>4, <1>10, <1>11, <1>12, <2>1 DEF Fits
<1>14. /\ classes' \in Seq(Record) /\ Len(classes') = k
       /\ \A j \in DOMAIN classes' : FromFile(j)' /\ LaidOut(j)'
  BY <1>1, <1>3, <1>8, <1>12, <1>13, NewClass
<1>15. Typed'
  BY <1>1, <1>14 DEF Typed
<1>16. Progress'
  BY <1>1, <1>9, <1>14, NativesAre DEF Progress
<1>17. loaded' \subseteq Resolvable'
  BY <1>1 DEF Progress
<1> QED BY <1>14, <1>15, <1>16, <1>17

LEMMA NativesDoneStep ==
  ASSUME Started, NativesDone
  PROVE  Started'
<1> USE DEF Started
<1>1. /\ phase = "natives" /\ Len(classes) = Len(Natives) /\ phase' = "load"
      /\ UNCHANGED <<classes, pak, i, done, loaded>>
  BY DEF NativesDone
<1>2. Typed'
  BY <1>1 DEF Typed, Phases
<1>3. \A k \in DOMAIN classes : FromFile(k)' /\ LaidOut(k)'
  BY <1>1 DEF FromFile, LaidOut, After
<1>4. loaded = {} /\ i = 1
  BY <1>1 DEF Progress
<1>5. Progress'
  <2>1. Len(classes') = Len(Natives) + Cardinality(loaded')
    BY <1>1, <1>4, FS_EmptySet, NativesAre
  <2>2. \A k \in DOMAIN pak : ~(k < 1)
    <3>1. Len(pak) \in Nat /\ DOMAIN pak = 1..Len(pak)
      BY PakIs DEF Typed
    <3> QED BY <3>1
  <2> QED BY <1>1, <1>4, <2>1, <2>2 DEF Progress
<1> QED BY <1>1, <1>2, <1>3, <1>4, <1>5

\* A step that leaves the classes as they are.
LEMMA ClassesStay ==
  ASSUME Started, UNCHANGED <<classes, pak, loaded>>
  PROVE  /\ \A k \in DOMAIN classes : FromFile(k)' /\ LaidOut(k)'
         /\ Resolvable' = Resolvable
         /\ \A k : DependencyMissing(pak[k])' = DependencyMissing(pak[k])
<1>1. \A k \in DOMAIN classes : FromFile(k)' /\ LaidOut(k)'
  BY DEF Started, FromFile, LaidOut, After
<1>2. Resolvable' = Resolvable
  BY DEF Resolvable
<1>3. \A k : DependencyMissing(pak[k])' = DependencyMissing(pak[k])
  BY DEF DependencyMissing, Supr, FindClass
<1> QED BY <1>1, <1>2, <1>3

LEMMA SkipStep ==
  ASSUME Started, Skip
  PROVE  Started'
<1> USE DEF Started
<1>1. /\ phase = "load" /\ i <= Len(pak) /\ i \in loaded /\ i' = i + 1
      /\ UNCHANGED <<classes, pak, phase, done, loaded>>
  BY DEF Skip
<1>2. i \in Nat /\ i >= 1 /\ i <= Len(pak) + 1 /\ Len(pak) \in Nat /\ DOMAIN pak = 1..Len(pak)
  <2>1. Len(pak) \in Nat /\ DOMAIN pak = 1..Len(pak)
    BY PakIs DEF Typed
  <2> QED BY <2>1 DEF Typed
<1>3. Typed'
  BY <1>1, <1>2 DEF Typed
<1>4. \A k \in DOMAIN pak : k < i + 1 => k < i \/ k = i
  BY <1>2
<1>5. Progress'
  <2>1. ~done => \A k \in DOMAIN pak : k < i + 1 => k \in loaded \/ DependencyMissing(pak[k])
    BY <1>1, <1>4 DEF Progress
  <2> QED BY <1>1, <2>1, ClassesStay DEF Progress
<1> QED BY <1>1, <1>3, <1>5, ClassesStay

LEMMA NextRoundStep ==
  ASSUME Started, NextRound
  PROVE  Started'
<1> USE DEF Started
<1>1. /\ phase = "load" /\ i > Len(pak) /\ done' = FALSE
      /\ UNCHANGED <<classes, pak, loaded>>
  BY DEF NextRound
<1>2. i \in Nat /\ i >= 1 /\ i <= Len(pak) + 1 /\ Len(pak) \in Nat /\ DOMAIN pak = 1..Len(pak)
  <2>1. Len(pak) \in Nat /\ DOMAIN pak = 1..Len(pak)
    BY PakIs DEF Typed
  <2> QED BY <2>1 DEF Typed
<1>3. \/ done /\ i' = 1 /\ phase' = "load"
      \/ ~done /\ i' = i /\ phase' = IF loaded = DOMAIN pak THEN "run" ELSE "unresolved"
  BY <1>1 DEF NextRound
<1>4. Typed'
  <2>1. i' \in 1..(Len(pak) + 1)
    BY <1>2, <1>3
  <2>2. phase' \in Phases
    BY <1>3 DEF Phases
  <2> QED BY <1>1, <2>1, <2>2 DEF Typed
<1>5. \A k \in DOMAIN pak : ~(k < 1)
  BY <1>2
<1>6. i = Len(pak) + 1
  BY <1>1, <1>2
<1>7. ~done => \A k \in DOMAIN pak : k < i => k \in loaded \/ DependencyMissing(pak[k])
  BY <1>1 DEF Progress
<1>8. Progress'
  <2>1. CASE done
    BY <1>1, <1>3, <1>5, <2>1 DEF Progress
  <2>2. CASE ~done
    BY <1>1, <1>3, <1>6, <1>7, <2>2, ClassesStay DEF Progress
  <2> QED BY <2>1, <2>2
<1> QED BY <1>1, <1>4, <1>8, ClassesStay

LEMMA OutOfMemoryStep ==
  ASSUME Started, OutOfMemory
  PROVE  Started'
<1> USE DEF Started
<1>1. phase' = "memory" /\ UNCHANGED <<classes, pak, i, done, loaded>>
  BY DEF OutOfMemory
<1>2. Typed' /\ Progress'
  BY <1>1 DEF Typed, Phases, Progress
<1> QED BY <1>1, <1>2, ClassesStay

LEMMA ResolvableStays == ASSUME pak' = pak PROVE Resolvable' = Resolvable
BY DEF Resolvable

LEMMA LoadStep ==
  ASSUME Started, LoadClass
  PROVE  Started'
<1> USE DEF Started
<1>1. /\ phase = "load" /\ i <= Len(pak) /\ i \notin loaded /\ i' = i + 1
      /\ UNCHANGED <<pak, phase>>
      /\ \/ DependencyMissing(pak[i]) /\ UNCHANGED <<classes, done, loaded>>
         \/ /\ ~DependencyMissing(pak[i])
            /\ classes' = Loaded(pak[i]) /\ done' = TRUE /\ loaded' = loaded \cup {i}
  BY DEF LoadClass
<1>2. /\ i \in Nat /\ i >= 1 /\ Len(pak) \in Nat /\ DOMAIN pak = 1..Len(pak)
      /\ i \in DOMAIN pak /\ pak \in Packages
  <2>1. pak \in Packages
    BY DEF Typed
  <2>2. Len(pak) \in Nat /\ DOMAIN pak = 1..Len(pak)
    BY <2>1, PakIs
  <2> QED BY <1>1, <2>1, <2>2 DEF Typed
<1>3. i' \in 1..(Len(pak) + 1)
  BY <1>1, <1>2
<1>4. CASE DependencyMissing(pak[i]) /\ UNCHANGED <<classes, done, loaded>>
  <2>1. Typed'
    BY <1>1, <1>3, <1>4 DEF Typed
  <2>2. \A k \in DOMAIN pak : k < i + 1 => k < i \/ k = i
    BY <1>2
  <2>3. ~done => \A k \in DOMAIN pak : k < i + 1 => k \in loaded \/ DependencyMissing(pak[k])
    BY <1>1, <1>4, <2>2 DEF Progress
  <2>4. Progress'
    BY <1>1, <1>4, <2>3, ClassesStay DEF Progress
  <2> QED BY <1>1, <1>4, <2>1, <2>4, ClassesStay
<1>5. CASE /\ ~DependencyMissing(pak[i])
           /\ classes' = Loaded(pak[i]) /\ done' = TRUE /\ loaded' = loaded \cup {i}
  <2>1. Tree /\ Len(classes) \in Nat /\ DOMAIN classes = 1..Len(classes)
    BY InvTree
  <2>2. PICK now : now = i
    OBVIOUS
  <2>3. PICK file : file = pak[now]
    OBVIOUS
  <2>4. /\ file \in Range(pak) /\ file \in ClassFiles /\ file.name \in STRING /\ file.super # ""
        /\ file.fields \in Fields
    BY <1>2, <2>2, <2>3, PakIs, FilesAre
  <2>5. PICK supr : supr = FindClass(file.super)
    OBVIOUS
  <2>6. Supr(file) = supr
    BY <2>4, <2>5 DEF Supr
  <2>7. supr \in DOMAIN classes /\ classes[supr].name = file.super
    <3>1. supr # 0
      BY <1>5, <2>2, <2>3, <2>4, <2>6 DEF DependencyMissing
    <3> QED BY <2>1, <2>5, <3>1, FindClassIs
  <2>8. PICK inst : inst = DataSize(file.fields, FALSE)
    OBVIOUS
  <2>9. PICK cls : cls = DataSize(file.fields, TRUE)
    OBVIOUS
  <2>10. inst \in Nat /\ cls \in Nat
    <3>1. Len(file.fields) \in 0..Len(file.fields)
      <4>1. Len(file.fields) \in Nat
        BY <2>4, FieldsLen
      <4> QED BY <4>1
    <3>2. \A static : DataSize(file.fields, static) \in Nat
      <4> SUFFICES ASSUME NEW static PROVE DataSize(file.fields, static) \in Nat
        OBVIOUS
      <4>1. PICK f : /\ Sums(f, file.fields, static)
                     /\ DataSize(file.fields, static) = f[Len(file.fields)]
        BY <2>4, SumExists
      <4> QED BY <2>4, <3>1, <4>1, SumsTyped
    <3> QED BY <2>8, <2>9, <3>2
  <2>11. /\ After(supr, "instDataOfst", "instDataSize") \in Nat
         /\ After(supr, "clsDataOfst", "clsDataSize") \in Nat
         /\ supr \in Nat /\ supr \in 0..Len(classes) /\ supr # 0
    <3>1. supr \in 0..Len(classes) /\ supr # 0
      BY <2>1, <2>7
    <3> QED BY <2>1, <3>1, AfterTyped
  <2>12. PICK data : data = cls + After(supr, "clsDataOfst", "clsDataSize")
    OBVIOUS
  <2>13. data \in Nat
    BY <2>10, <2>11, <2>12
  <2>14. PICK r : r = Class(file, supr, inst, cls, FALSE, data)
    OBVIOUS
  <2>15. classes' = Append(classes, r)
    BY <1>5, <2>2, <2>3, <2>6, <2>8, <2>9, <2>12, <2>14 DEF Loaded
  <2>16. /\ r \in Record
         /\ r.name = file.name /\ r.file = file /\ r.supr = supr /\ r.native = FALSE
         /\ r.instDataOfst = After(supr, "instDataOfst", "instDataSize")
         /\ r.clsDataOfst = After(supr, "clsDataOfst", "clsDataSize")
         /\ r.instDataSize = inst /\ r.clsDataSize = cls /\ r.data = data
    BY <2>4, <2>10, <2>11, <2>13, <2>14 DEF Class, Record
  <2>17. PICK k : k = Len(classes) + 1
    OBVIOUS
  <2>18. Cardinality(loaded) \in Nat /\ Cardinality(loaded') = Cardinality(loaded) + 1
    <3>1. IsFiniteSet(1..Len(pak))
      BY <1>2, FS_Interval
    <3>2. IsFiniteSet(loaded)
      BY <1>2, <3>1, FS_Subset DEF Typed
    <3> QED BY <1>1, <1>5, <3>2, FS_AddElement, FS_CardinalityType
  <2>19. Len(classes) = Len(Natives) + Cardinality(loaded)
    BY <1>1 DEF Progress
  <2>20. k # 1 /\ ~(k <= Len(Natives))
    BY <2>1, <2>17, <2>18, <2>19, NativesAre
  <2>21. file.super = Natives[1].name => supr = 1
    <3> SUFFICES ASSUME file.super = Natives[1].name PROVE supr = 1
      OBVIOUS
    <3>1. FromFile(supr) /\ classes[supr].name = classes[supr].file.name
      BY <2>7 DEF FromFile
    <3>2. CASE classes[supr].native
      <4>1. supr <= Len(Natives) /\ classes[supr].file = Natives[supr]
        BY <3>1, <3>2 DEF FromFile
      <4>2. supr \in 1..Len(Natives)
        BY <2>11, <4>1, NativesAre
      <4> QED BY <2>7, <3>1, <4>1, <4>2, NativesAre
    <3>3. CASE ~classes[supr].native
      <4>1. PICK l \in loaded : classes[supr].file = pak[l]
        BY <3>1, <3>3 DEF FromFile
      <4>2. pak[l].name # Natives[1].name
        BY <1>2, <4>1, PakIs DEF Typed
      <4> QED BY <2>7, <3>1, <4>1, <4>2
    <3> QED BY <3>2, <3>3
  <2>22. Fits(r, k)
    <3>1. /\ r.name = r.file.name /\ r.supr \in 0..Len(classes) /\ (r.supr = 0 <=> k = 1)
          /\ (r.native <=> k <= Len(Natives))
      <4>1. r.name = r.file.name /\ r.supr \in 0..Len(classes)
        BY <2>11, <2>16
      <4>2. ~(r.supr = 0) /\ ~(k = 1)
        BY <2>11, <2>16, <2>20
      <4>3. r.native = FALSE /\ ~(k <= Len(Natives))
        BY <2>16, <2>20
      <4> QED BY <4>1, <4>2, <4>3
    <3>2. /\ r.instDataOfst = After(r.supr, "instDataOfst", "instDataSize")
          /\ r.clsDataOfst = After(r.supr, "clsDataOfst", "clsDataSize")
      BY <2>16
    <3>3. /\ r.file.super = Natives[1].name => r.supr = 1
          /\ r.instDataSize = DataSize(r.file.fields, FALSE)
          /\ r.clsDataSize = DataSize(r.file.fields, TRUE)
      BY <2>8, <2>9, <2>16, <2>21
    <3>4. r.data = r.clsDataSize + r.clsDataOfst
      BY <2>12, <2>16
    <3>5. ~r.native
      BY <2>16
    <3> QED BY <3>1, <3>2, <3>3, <3>4, <3>5 DEF Fits
  <2>23. now \in loaded' /\ r.file = pak[now]
    BY <1>5, <2>2, <2>3, <2>16
  <2>24. /\ classes' \in Seq(Record) /\ Len(classes') = k /\ classes'[k] = r
         /\ DOMAIN classes' = DOMAIN classes \cup {k}
         /\ \A j \in DOMAIN classes : classes'[j] = classes[j]
         /\ \A j \in DOMAIN classes' : FromFile(j)' /\ LaidOut(j)'
    <3>1. loaded \subseteq loaded' /\ pak' = pak
      BY <1>1, <1>5
    <3>2. \E l \in loaded' : r.file = pak[l]
      BY <2>23
    <3> QED BY <2>15, <2>16, <2>17, <2>22, <3>1, <3>2, NewClass
  <2>25. Typed'
    BY <1>1, <1>2, <1>3, <1>5, <2>24 DEF Typed
  <2>26. ASSUME NEW l \in loaded' PROVE \E j \in DOMAIN classes' : classes'[j].name = pak[l].name
    <3>1. CASE l \in loaded
      <4>1. PICK j \in DOMAIN classes : classes[j].name = pak[l].name
        BY <1>1, <3>1 DEF Progress
      <4> QED BY <2>24, <4>1
    <3>2. CASE l = i
      BY <2>2, <2>3, <2>16, <2>24, <3>2
    <3> QED BY <1>5, <3>1, <3>2
  <2>27. Len(classes') = Len(Natives) + Cardinality(loaded')
    BY <2>1, <2>17, <2>18, <2>19, <2>24, NativesAre
  <2>28. Progress'
    BY <1>1, <1>5, <2>26, <2>27 DEF Progress
  <2>29. loaded' \subseteq Resolvable
    <3>1. i \in Step(loaded)
      BY <1>1, <1>2, <1>5, StepIs
    <3>2. i \in Step(Resolvable)
      BY <3>1 DEF Step
    <3> QED BY <1>2, <1>5, <3>2, ResolvableIs
  <2>30. Resolvable' = Resolvable
    BY <1>1, ResolvableStays
  <2> QED BY <2>24, <2>25, <2>28, <2>29, <2>30
<1> QED BY <1>1, <1>4, <1>5

-----------------------------------------------------------------------------
(* The search of instanceof. *)

\* A step that leaves the classes as they are leaves what is said of them.
LEMMA StartedStays ==
  ASSUME Started, UNCHANGED <<classes, pak, phase, i, done, loaded>>
  PROVE  Started'
<1>1. Typed' /\ Progress'
  BY ClassesStay DEF Started, Typed, Progress
<1> QED BY <1>1, ClassesStay DEF Started

LEMMA ClassesOf ==
  ASSUME UNCHANGED classes, NEW obj, q'.obj = obj
  PROVE  /\ Chain(q.obj)' = Chain(obj) /\ Supertypes(q.obj)' = Supertypes(obj)
         /\ \A n : FindClass(n)' = FindClass(n)
<1>1. Supertypes(q.obj)' = Supertypes(obj)
  BY DEF Supertypes, FindClass
<1>2. Chain(q.obj)' = Chain(obj)
  BY DEF Chain
<1>3. \A n : FindClass(n)' = FindClass(n)
  BY DEF FindClass
<1> QED BY <1>1, <1>2, <1>3

LEMMA MarkingNow ==
  ASSUME UNCHANGED classes, NEW obj, NEW wanted, NEW at, NEW marks,
         q'.obj = obj, q'.wanted = wanted, q'.at = at, mark' = marks, Marking(obj, wanted, at, marks)
  PROVE  Marking(q.obj, q.wanted, q.at, mark)'
BY ClassesOf DEF Marking, Marked

\* Object is upwards of every class.
LEMMA ObjectOnTop ==
  ASSUME Tree, \A k \in DOMAIN classes : FromFile(k), NEW c \in DOMAIN classes
  PROVE  1 \in Chain(c)
<1> DEFINE P == {k \in Nat : k \in DOMAIN classes => 1 \in Chain(k)}
<1>1. ASSUME NEW k \in Nat, \A b \in Nat : b < k => b \in P PROVE k \in P
  <2> SUFFICES ASSUME k \in DOMAIN classes PROVE 1 \in Chain(k)
    OBVIOUS
  <2> DEFINE s == classes[k].supr
  <2>1. s \in Nat /\ s < k /\ s \in 0..Len(classes) /\ Chain(k) = {k} \cup Chain(s)
        /\ DOMAIN classes = 1..Len(classes)
    BY TreeTyped, ChainIs
  <2>2. s = 0 <=> k = 1
    BY DEF FromFile
  <2>3. CASE k = 1
    BY <2>1, <2>3
  <2>4. CASE k # 1
    <3>1. s \in DOMAIN classes
      BY <2>1, <2>2, <2>4
    <3>2. 1 \in Chain(s)
      <4> HIDE DEF s
      <4> QED BY <1>1, <2>1, <3>1
    <3> QED BY <2>1, <3>2
  <2> QED BY <2>3, <2>4
<1>2. Nat \subseteq P
  <2> HIDE DEF P
  <2> QED BY <1>1, StrongInduction
<1>3. c \in Nat
  BY TreeTyped
<1> QED BY <1>2, <1>3

\* What a class implements is an interface of the package, and Object's.
LEMMA InterfacesAre ==
  ASSUME Typed, \A k \in DOMAIN classes : FromFile(k),
         NEW c \in DOMAIN classes, NEW n \in Range(classes[c].file.ifaces)
  PROVE  /\ ~classes[c].native
         /\ FindClass(n) # 0 => /\ FindClass(n) \in DOMAIN classes
                                /\ ~classes[FindClass(n)].native
                                /\ classes[FindClass(n)].file.iface
                                /\ classes[FindClass(n)].supr = 1
<1>1. Tree /\ DOMAIN classes = 1..Len(classes) /\ Len(classes) \in Nat /\ pak \in Packages
  BY InvTree DEF Typed
<1>2. ~classes[c].native
  <2> SUFFICES ASSUME classes[c].native PROVE FALSE
    OBVIOUS
  <2>1. classes[c].file = Natives[c] /\ c <= Len(Natives)
    BY DEF FromFile
  <2>2. c \in 1..Len(Natives)
    BY <1>1, <2>1, NativesAre
  <2>3. classes[c].file.ifaces = <<>>
    BY <2>1, <2>2, NativesAre DEF NativeClasses
  <2> QED BY <2>3 DEF Range
<1>3. PICK l \in loaded : classes[c].file = pak[l]
  BY <1>2 DEF FromFile
<1>4. l \in DOMAIN pak /\ pak[l] \in Range(pak)
  BY <1>1, PakIs DEF Typed
<1>5. ASSUME FindClass(n) # 0
      PROVE  /\ FindClass(n) \in DOMAIN classes /\ ~classes[FindClass(n)].native
             /\ classes[FindClass(n)].file.iface /\ classes[FindClass(n)].supr = 1
  <2> DEFINE d == FindClass(n)
  <2>1. d \in DOMAIN classes /\ classes[d].name = n
    BY <1>1, <1>5, FindClassIs
  <2> HIDE DEF d
  <2>2. FromFile(d) /\ classes[d].name = classes[d].file.name
    BY <2>1 DEF FromFile
  <2>3. ~classes[d].native
    <3> SUFFICES ASSUME classes[d].native PROVE FALSE
      OBVIOUS
    <3>1. classes[d].file = Natives[d] /\ d <= Len(Natives)
      BY <2>2 DEF FromFile
    <3>2. d \in 1..Len(Natives)
      BY <1>1, <2>1, <3>1, NativesAre
    <3>3. Natives[d] \in Range(Natives) /\ Natives[d].name = n
      BY <2>1, <2>2, <3>1, <3>2, NativesAre DEF Range
    <3> QED BY <1>1, <1>3, <1>4, <3>3, PackagesAssumption
  <2>4. PICK m \in loaded : classes[d].file = pak[m]
    BY <2>2, <2>3 DEF FromFile
  <2>5. m \in DOMAIN pak /\ pak[m] \in Range(pak) /\ pak[m].name = n
    BY <1>1, <2>1, <2>2, <2>4, PakIs DEF Typed
  <2>6. pak[m].iface /\ pak[m].super = Natives[1].name
    BY <1>1, <1>3, <1>4, <2>5, PackagesAssumption
  <2>7. classes[d].supr = 1
    BY <2>2, <2>3, <2>4, <2>6 DEF FromFile
  <2> QED BY <2>1, <2>3, <2>4, <2>6, <2>7 DEF d
<1> QED BY <1>2, <1>5

\* The types next to a class that is an object's type are its types.
LEMMA NextTypes ==
  ASSUME Tree, NEW o \in DOMAIN classes, NEW c \in Supertypes(o), c # 0
  PROVE  /\ c \in DOMAIN classes
         /\ classes[c].supr # 0 => classes[c].supr \in Supertypes(o)
         /\ \A n \in Range(classes[c].file.ifaces) : FindClass(n) \in Supertypes(o)
<1>1. o \in 1..Len(classes) /\ Len(classes) \in Nat /\ DOMAIN classes = 1..Len(classes)
  BY TreeTyped
<1>2. Supertypes(o) \subseteq 0..Len(classes) /\ Next1(Supertypes(o)) \subseteq Supertypes(o)
  BY <1>1, SupertypesAre
<1>3. c \in DOMAIN classes
  BY <1>1, <1>2
<1>4. Near(c) \subseteq Supertypes(o)
  BY <1>2 DEF Next1
<1> QED BY <1>3, <1>4 DEF Near, Range

LEMMA ChainsAreTypes ==
  ASSUME Tree, NEW o \in DOMAIN classes
  PROVE  Chain(o) \subseteq Supertypes(o)
<1> DEFINE P == {k \in Nat : k \in Supertypes(o) => Chain(k) \subseteq Supertypes(o)}
<1>1. ASSUME NEW k \in Nat, \A b \in Nat : b < k => b \in P PROVE k \in P
  <2> SUFFICES ASSUME k \in Supertypes(o) PROVE Chain(k) \subseteq Supertypes(o)
    OBVIOUS
  <2>1. CASE k = 0
    BY <2>1, ChainIs
  <2>2. CASE k # 0
    <3> DEFINE s == classes[k].supr
    <3>1. k \in DOMAIN classes /\ (s # 0 => s \in Supertypes(o))
      BY <2>2, NextTypes
    <3>2. s \in Nat /\ s < k /\ Chain(k) = {k} \cup Chain(s)
      BY <3>1, TreeTyped, ChainIs
    <3>3. Chain(s) \subseteq Supertypes(o)
      <4>1. CASE s = 0
        BY <4>1, ChainIs
      <4>2. CASE s # 0
        <5> HIDE DEF s
        <5> QED BY <1>1, <3>1, <3>2, <4>2
      <4> QED BY <4>1, <4>2
    <3> QED BY <3>2, <3>3
  <2> QED BY <2>1, <2>2
<1>2. Nat \subseteq P
  <2> HIDE DEF P
  <2> QED BY <1>1, StrongInduction
<1>3. o \in Nat /\ o \in Supertypes(o)
  BY TreeTyped, SupertypesAre
<1> QED BY <1>2, <1>3

\* A type that is not upwards of the object's class is an interface.
LEMMA NotInterface ==
  ASSUME Typed, \A k \in DOMAIN classes : FromFile(k),
         NEW o \in DOMAIN classes, NEW w \in DOMAIN classes, w \notin Chain(o),
         classes[w].native \/ ~classes[w].file.iface
  PROVE  w \notin Supertypes(o)
<1> DEFINE I == {c \in DOMAIN classes : /\ ~classes[c].native /\ classes[c].file.iface
                                        /\ classes[c].supr = 1}
           T == {0} \cup Chain(o) \cup I
<1>1. Tree /\ DOMAIN classes = 1..Len(classes) /\ Len(classes) \in Nat
  BY InvTree
<1>2. Chain(o) \subseteq DOMAIN classes /\ 1 \in Chain(o) /\ o \in Chain(o)
  BY <1>1, ChainIs, ChainUp, ObjectOnTop
<1>3. ASSUME NEW c \in T, c # 0, NEW x \in Near(c) PROVE x \in T
  <2>1. c \in DOMAIN classes
    BY <1>2, <1>3
  <2>2. CASE x = classes[c].supr
    <3>1. CASE c \in Chain(o)
      <4>1. Chain(c) \subseteq Chain(o)
        BY <1>1, <3>1, ChainUp
      <4>2. c \in 1..Len(classes)
        BY <1>1, <2>1
      <4>3. x = 0 \/ x \in Chain(c)
        BY <1>1, <2>2, <4>2, ChainUp
      <4> QED BY <4>1, <4>3
    <3>2. CASE c \in I
      BY <1>2, <2>2, <3>2
    <3> QED BY <1>3, <3>1, <3>2
  <2>3. CASE \E n \in Range(classes[c].file.ifaces) : x = FindClass(n)
    BY <2>1, <2>3, InterfacesAre
  <2> QED BY <1>3, <2>2, <2>3 DEF Near, Range
<1>4. T \in SUBSET (0..Len(classes)) /\ o \in T
  BY <1>1, <1>2
<1>5. Next1(T) \subseteq T
  BY <1>3 DEF Next1
<1>6. Supertypes(o) \subseteq T
  <2> HIDE DEF T
  <2> QED BY <1>1, <1>4, <1>5, SupertypesAre
<1>7. w \notin T
  BY <1>1
<1> QED BY <1>6, <1>7

\* When no class is left, all types of the object are marked.
LEMMA MarksComplete ==
  ASSUME Typed, \A k \in DOMAIN classes : FromFile(k),
         NEW o \in DOMAIN classes, NEW w, NEW marks, Marking(o, w, 0, marks)
  PROVE  Supertypes(o) \subseteq Marked(marks)
<1>1. Tree /\ DOMAIN classes = 1..Len(classes) /\ Len(classes) \in Nat
  BY InvTree
<1>2. \A c \in Marked(marks) : c \in DOMAIN classes /\ c > 0
  BY <1>1 DEF Marked
<1>3. /\ \A c \in Marked(marks) : classes[c].supr \in {0} \cup Marked(marks)
      /\ \A c \in Marked(marks) : marks[c] = 2 =>
           \A n \in Range(classes[c].file.ifaces) : FindClass(n) \in Marked(marks)
      /\ \A c \in Marked(marks) : marks[c] = 2 \/ classes[c].native
      /\ Chain(o) \subseteq Marked(marks)
  BY <1>2 DEF Marking
<1>4. ASSUME NEW c \in Marked(marks), NEW x \in Near(c) PROVE x \in Marked(marks)
  <2>1. CASE x = classes[c].supr /\ x # 0
    BY <1>3, <2>1
  <2>2. CASE \E n \in Range(classes[c].file.ifaces) : x = FindClass(n)
    <3>1. PICK n \in Range(classes[c].file.ifaces) : x = FindClass(n)
      BY <2>2
    <3>2. ~classes[c].native
      BY <1>2, InterfacesAre
    <3> QED BY <1>3, <3>1, <3>2
  <2> QED BY <2>1, <2>2 DEF Near, Range
<1>5. Next1(Marked(marks)) \subseteq Marked(marks)
  BY <1>4 DEF Next1
<1>6. o \in Marked(marks)
  BY <1>1, <1>3, ChainUp
<1>7. Marked(marks) \in SUBSET (0..Len(classes))
  BY <1>1, <1>2
<1> QED BY <1>1, <1>5, <1>6, <1>7, SupertypesAre

\* The search starts with the marks of the walk.
LEMMA WalkMarks ==
  ASSUME Typed, \A k \in DOMAIN classes : FromFile(k),
         NEW o \in DOMAIN classes, NEW w \in DOMAIN classes, w \notin Chain(o)
  PROVE  Marking(o, w, Len(classes), [c \in DOMAIN classes |-> IF c \in Chain(o) THEN 1 ELSE 0])
<1> DEFINE marks == [c \in DOMAIN classes |-> IF c \in Chain(o) THEN 1 ELSE 0]
<1>1. Tree /\ DOMAIN classes = 1..Len(classes) /\ Len(classes) \in Nat
  BY InvTree
<1>2. Chain(o) \subseteq DOMAIN classes /\ Chain(o) \subseteq Supertypes(o)
  BY <1>1, ChainIs, ChainsAreTypes
<1>3. Marked(marks) = Chain(o)
  BY <1>2 DEF Marked
<1>4. \A c \in Chain(o) : classes[c].supr \in {0} \cup Chain(o)
  <2> SUFFICES ASSUME NEW c \in Chain(o), classes[c].supr # 0 PROVE classes[c].supr \in Chain(o)
    OBVIOUS
  <2>1. o \in 1..Len(classes) /\ c \in 1..Len(classes)
    BY <1>1, <1>2
  <2>2. Chain(c) \subseteq Chain(o)
    BY <1>1, <2>1, ChainUp
  <2>3. classes[c].supr \in Chain(c)
    BY <1>1, <2>1, ChainUp
  <2> QED BY <2>2, <2>3
<1>5. w # 0 /\ Len(classes) \in 0..Len(classes)
  BY <1>1
<1>6. \A c \in Chain(o) : marks[c] # 2 /\ ~(c > Len(classes))
  BY <1>1, <1>2
<1>7. marks \in [DOMAIN classes -> 0..2]
  OBVIOUS
<1> HIDE DEF marks
<1>8. Marking(o, w, Len(classes), marks)
  BY <1>2, <1>3, <1>4, <1>5, <1>6, <1>7 DEF Marking
<1> QED BY <1>8 DEF marks

\* The marks after those of the interfaces of a class.
Adds(at, marks, found, new) ==
  /\ found = {FindClass(n) : n \in Range(classes[at].file.ifaces)}
  /\ new = [c \in DOMAIN marks |-> IF c \in found THEN 1 ELSE IF c = at THEN 2 ELSE marks[c]]

\* A class that is done adds marks to its interfaces, which are the object's types.
LEMMA MoreMarks ==
  ASSUME Typed, \A k \in DOMAIN classes : FromFile(k),
         NEW o \in DOMAIN classes, NEW w, NEW at, NEW marks, Marking(o, w, at, marks),
         at # 0, marks[at] = 1,
         NEW found, w \notin found, 0 \notin found, NEW new, Adds(at, marks, found, new)
  PROVE  Marking(o, w, Len(classes), new)
<1>1. Tree /\ DOMAIN classes = 1..Len(classes) /\ Len(classes) \in Nat
  BY InvTree
<1>2. /\ w # 0 /\ at \in 0..Len(classes) /\ marks \in [DOMAIN classes -> 0..2]
      /\ Chain(o) \subseteq Marked(marks) /\ Marked(marks) \subseteq Supertypes(o)
      /\ w \notin Marked(marks)
      /\ \A c \in Marked(marks) : classes[c].supr \in {0} \cup Marked(marks)
      /\ \A c \in Marked(marks) : marks[c] = 2 =>
           \A n \in Range(classes[c].file.ifaces) : FindClass(n) \in Marked(marks)
  BY DEF Marking
<1>3. at \in DOMAIN classes /\ at \in Marked(marks)
  <2>1. at \in DOMAIN classes
    BY <1>1, <1>2
  <2> QED BY <2>1 DEF Marked
<1>4. ASSUME NEW x \in found
      PROVE  x \in DOMAIN classes /\ classes[x].supr = 1 /\ x \in Supertypes(o)
  <2>1. PICK n \in Range(classes[at].file.ifaces) : x = FindClass(n)
    BY DEF Adds
  <2>2. at \in Supertypes(o) /\ x # 0
    BY <1>2, <1>3
  <2>3. x \in Supertypes(o)
    BY <1>1, <2>1, <2>2, NextTypes
  <2> QED BY <1>3, <2>1, <2>2, <2>3, InterfacesAre
<1>5. /\ new \in [DOMAIN classes -> 0..2]
      /\ \A c \in DOMAIN classes :
           new[c] = IF c \in found THEN 1 ELSE IF c = at THEN 2 ELSE marks[c]
  BY <1>2 DEF Adds
<1>6. Marked(new) = Marked(marks) \cup found
  <2>1. \A c \in DOMAIN classes : new[c] # 0 <=> c \in found \/ marks[c] # 0
    BY <1>3, <1>5
  <2> QED BY <1>4, <2>1 DEF Marked
<1>7. 1 \in Marked(marks)
  BY <1>1, <1>2, ObjectOnTop
<1>8. \A c \in Marked(new) : classes[c].supr \in {0} \cup Marked(new)
  BY <1>2, <1>4, <1>6, <1>7
<1>9. ASSUME NEW c \in Marked(new), new[c] = 2, NEW n \in Range(classes[c].file.ifaces)
      PROVE  FindClass(n) \in Marked(new)
  <2>1. c \in DOMAIN classes /\ c \notin found /\ (c = at \/ marks[c] = 2)
    BY <1>5, <1>9 DEF Marked
  <2>2. CASE c = at
    BY <1>6, <2>2 DEF Adds
  <2>3. CASE c # at
    <3>1. c \in Marked(marks) /\ marks[c] = 2
      BY <1>6, <2>1, <2>3
    <3> QED BY <1>2, <1>6, <3>1
  <2> QED BY <2>2, <2>3
<1>10. \A c \in Marked(new) : ~(c > Len(classes))
  BY <1>1 DEF Marked
<1>11. w \notin Marked(new) /\ Marked(new) \subseteq Supertypes(o) /\ Chain(o) \subseteq Marked(new)
  BY <1>2, <1>4, <1>6
<1>12. Len(classes) \in 0..Len(classes)
  BY <1>1
<1> QED BY <1>2, <1>5, <1>8, <1>9, <1>10, <1>11, <1>12 DEF Marking

\* The interfaces that are visited are a class's, and all of them if the search does not
\* end with one.
LEMMA VisitedAre ==
  ASSUME Tree, NEW names \in Seq(STRING),
         NEW found, found = {FindClass(n) : n \in Range(Visited(names))}
  PROVE  /\ Range(Visited(names)) \subseteq Range(names)
         /\ q.wanted \notin found /\ 0 \notin found => Visited(names) = names
<1> DEFINE stop == {k \in DOMAIN names : Ends(names[k])}
<1>1. Len(names) \in Nat /\ DOMAIN names = 1..Len(names)
  OBVIOUS
<1>2. CASE stop = {}
  BY <1>2 DEF Visited
<1>3. CASE stop # {}
  <2>1. PICK m \in stop : \A y \in stop : m <= y
    <3>1. stop \in SUBSET Nat
      BY <1>1
    <3> HIDE DEF stop
    <3> QED BY <1>3, <3>1, LeastNat
  <2>2. Min(stop) \in stop
    <3> HIDE DEF stop
    <3> QED BY <2>1 DEF Min
  <2>3. PICK n : n = Min(stop)
    OBVIOUS
  <2>4. n \in 1..Len(names) /\ Ends(names[n]) /\ Visited(names) = SubSeq(names, 1, n)
    BY <1>1, <1>3, <2>2, <2>3 DEF Visited
  <2>5. n \in Nat /\ n >= 1 /\ n <= Len(names)
    BY <1>1, <2>4
  <2>6. \A k \in 1..n : k \in 1..Len(names)
    BY <1>1, <2>5
  <2>7. DOMAIN SubSeq(names, 1, n) = 1..n /\ \A k \in 1..n : SubSeq(names, 1, n)[k] = names[k]
    BY <1>1, <2>5, <2>6
  <2>8. Range(Visited(names)) = {names[k] : k \in 1..n}
    BY <2>4, <2>7 DEF Range
  <2>9. n \in 1..n
    BY <2>5
  <2>10. FindClass(names[n]) \in found
    BY <2>8, <2>9
  <2>11. FindClass(names[n]) \in {0, q.wanted}
    BY <2>4 DEF Ends
  <2>12. Range(Visited(names)) \subseteq Range(names)
    BY <1>1, <2>6, <2>8 DEF Range
  <2> QED BY <2>10, <2>11, <2>12
<1> QED BY <1>2, <1>3

\* What is left to show of a step of the search: it gives a right answer, or goes on with
\* marks as they have to be.
LEMMA AnswersNow ==
  ASSUME Started, phase = "run", UNCHANGED <<classes, pak, phase, i, done, loaded>>,
         NEW obj \in DOMAIN classes, NEW wanted \in 0..Len(classes), NEW at \in Nat,
         NEW answer \in {"none", "missing", "yes", "no", "marking"}, NEW marks, mark' = marks,
         q' = [obj |-> obj, wanted |-> wanted, at |-> at, answer |-> answer],
         answer = "yes" => wanted \in Supertypes(obj),
         answer = "no" => wanted \notin Supertypes(obj),
         answer = "missing" => wanted = 0 \/ 0 \in Supertypes(obj),
         answer = "marking" => Marking(obj, wanted, at, marks)
  PROVE  Asked' /\ InstanceofAnswers'
<1>1. /\ q'.obj = obj /\ q'.wanted = wanted /\ q'.at = at /\ q'.answer = answer
      /\ classes' = classes /\ phase' = "run"
  OBVIOUS
<1>2. DOMAIN classes = 1..Len(classes) /\ Len(classes) \in Nat
  BY InvTree DEF Started
<1>3. q' \in Query
  BY <1>2 DEF Query
<1>4. answer = "marking" => Marking(q.obj, q.wanted, q.at, mark)'
  BY <1>1, MarkingNow
<1>5. Supertypes(q.obj)' = Supertypes(obj)
  BY <1>1, ClassesOf
<1>6. InstanceofAnswers'
  BY <1>1, <1>5 DEF InstanceofAnswers
<1>7. Asked'
  BY <1>1, <1>3, <1>4 DEF Asked
<1> QED BY <1>6, <1>7

\* What an instanceof asks about.
LEMMA AskedOf ==
  ASSUME IInv, q.answer = "marking"
  PROVE  /\ Started /\ phase = "run" /\ Tree /\ Len(classes) \in Nat
         /\ DOMAIN classes = 1..Len(classes)
         /\ q = [obj |-> q.obj, wanted |-> q.wanted, at |-> q.at, answer |-> q.answer]
         /\ q.obj \in DOMAIN classes /\ q.wanted \in 0..Len(classes)
         /\ q.at \in 0..Len(classes) /\ q.at \in Nat
         /\ Marking(q.obj, q.wanted, q.at, mark)
<1>1. Started
  BY DEF IInv, Started
<1>2. Tree /\ Len(classes) \in Nat /\ DOMAIN classes = 1..Len(classes)
  BY <1>1, InvTree DEF Started
<1>3. /\ phase = "run" /\ q.obj \in DOMAIN classes /\ q.wanted \in 0..Len(classes)
      /\ Marking(q.obj, q.wanted, q.at, mark) /\ q \in Query
  BY DEF IInv, Asked
<1>4. q.at \in 0..Len(classes)
  BY <1>3 DEF Marking
<1>5. /\ q = [obj |-> q.obj, wanted |-> q.wanted, at |-> q.at, answer |-> q.answer]
      /\ q.at \in Nat
  BY <1>3 DEF Query
<1> QED BY <1>1, <1>2, <1>3, <1>4, <1>5

LEMMA InstanceofStep ==
  ASSUME IInv, NEW c \in DOMAIN classes, NEW n \in Names, Instanceof(c, n)
  PROVE  Asked' /\ InstanceofAnswers'
<1>1. Started /\ Tree /\ Len(classes) \in Nat /\ DOMAIN classes = 1..Len(classes)
  BY InvTree DEF IInv, Started
<1>2. phase = "run" /\ UNCHANGED <<classes, pak, phase, i, done, loaded>>
  BY DEF Instanceof
<1>3. PICK wanted : wanted = FindClass(n)
  OBVIOUS
<1>4. wanted \in 0..Len(classes) /\ (wanted # 0 => wanted \in DOMAIN classes)
  BY <1>1, <1>3, FindClassIs
<1>5. PICK isIface \in IF wanted = 0 THEN {FALSE}
                       ELSE IF classes[wanted].native THEN BOOLEAN
                       ELSE {classes[wanted].file.iface} :
        \E answer :
          /\ answer = CASE wanted = 0 -> "missing"
                        [] wanted \in Chain(c) -> "yes"
                        [] wanted \notin Chain(c) /\ wanted # 0 /\ isIface -> "marking"
                        [] OTHER -> "no"
          /\ q' = [obj |-> c, wanted |-> wanted, answer |-> answer,
                   at |-> IF answer = "marking" THEN Len(classes) ELSE 0]
          /\ mark' = IF answer = "marking"
                     THEN [k \in DOMAIN classes |-> IF k \in Chain(c) THEN 1 ELSE 0]
                     ELSE <<>>
  BY <1>3 DEF Instanceof
<1>6. PICK answer :
        /\ answer = CASE wanted = 0 -> "missing"
                      [] wanted \in Chain(c) -> "yes"
                      [] wanted \notin Chain(c) /\ wanted # 0 /\ isIface -> "marking"
                      [] OTHER -> "no"
        /\ q' = [obj |-> c, wanted |-> wanted, answer |-> answer,
                 at |-> IF answer = "marking" THEN Len(classes) ELSE 0]
        /\ mark' = IF answer = "marking"
                   THEN [k \in DOMAIN classes |-> IF k \in Chain(c) THEN 1 ELSE 0]
                   ELSE <<>>
  BY <1>5
<1>7. 0 \notin Chain(c)
  BY <1>1, ChainIs
<1>8. PICK marks : mark' = marks
  OBVIOUS
<1>9. CASE wanted = 0
  <2>1. answer = "missing" /\ q' = [obj |-> c, wanted |-> wanted, at |-> 0, answer |-> answer]
    BY <1>5, <1>6, <1>7, <1>9
  <2> QED BY <1>1, <1>2, <1>4, <1>8, <1>9, <2>1, AnswersNow
<1>10. CASE wanted \in Chain(c)
  <2>1. answer = "yes" /\ q' = [obj |-> c, wanted |-> wanted, at |-> 0, answer |-> answer]
    BY <1>5, <1>6, <1>7, <1>10
  <2>2. wanted \in Supertypes(c)
    BY <1>1, <1>10, ChainsAreTypes
  <2> QED BY <1>1, <1>2, <1>4, <1>8, <2>1, <2>2, AnswersNow
<1>11. CASE wanted # 0 /\ wanted \notin Chain(c) /\ isIface
  <2>1. /\ answer = "marking"
        /\ q' = [obj |-> c, wanted |-> wanted, at |-> Len(classes), answer |-> answer]
        /\ marks = [k \in DOMAIN classes |-> IF k \in Chain(c) THEN 1 ELSE 0]
    BY <1>5, <1>6, <1>8, <1>11
  <2>2. Marking(c, wanted, Len(classes), marks)
    BY <1>1, <1>4, <1>11, <2>1, WalkMarks DEF Started
  <2> QED BY <1>1, <1>2, <1>4, <1>8, <2>1, <2>2, AnswersNow
<1>12. CASE wanted # 0 /\ wanted \notin Chain(c) /\ ~isIface
  <2>1. answer = "no" /\ q' = [obj |-> c, wanted |-> wanted, at |-> 0, answer |-> answer]
    BY <1>5, <1>6, <1>12
  <2>2. classes[wanted].native \/ ~classes[wanted].file.iface
    BY <1>5, <1>6, <1>12
  <2>3. wanted \notin Supertypes(c)
    BY <1>1, <1>4, <1>12, <2>2, NotInterface DEF Started
  <2> QED BY <1>1, <1>2, <1>4, <1>8, <2>1, <2>3, AnswersNow
<1> QED BY <1>9, <1>10, <1>11, <1>12

LEMMA MarkInterfacesStep ==
  ASSUME IInv, MarkInterfaces
  PROVE  Asked' /\ InstanceofAnswers'
<1>1. q.answer = "marking" /\ q.at # 0 /\ mark[q.at] = 1 /\ ~classes[q.at].native
  BY DEF MarkInterfaces
<1>2. UNCHANGED <<classes, pak, phase, i, done, loaded>>
  BY DEF MarkInterfaces
<1>3. PICK obj, wanted, at, marks :
        obj = q.obj /\ wanted = q.wanted /\ at = q.at /\ marks = mark
  OBVIOUS
<1>4. /\ Started /\ phase = "run" /\ Tree /\ Len(classes) \in Nat
      /\ DOMAIN classes = 1..Len(classes)
      /\ q = [obj |-> obj, wanted |-> wanted, at |-> at, answer |-> "marking"]
      /\ obj \in DOMAIN classes /\ wanted \in 0..Len(classes)
      /\ at \in 0..Len(classes) /\ at \in Nat /\ Marking(obj, wanted, at, marks)
  BY <1>1, <1>3, AskedOf
<1>5. at # 0 /\ marks[at] = 1 /\ at \in DOMAIN classes /\ ~classes[at].native
  BY <1>1, <1>3, <1>4
<1>6. PICK names, found, new :
        /\ names = classes[at].file.ifaces /\ found = {FindClass(n) : n \in Range(Visited(names))}
        /\ new = [c \in DOMAIN marks |->
                    IF c \in found THEN 1 ELSE IF c = at THEN 2 ELSE marks[c]]
        /\ mark' = new
        /\ IF q.wanted \in found THEN Answer("yes")
           ELSE IF 0 \in found THEN Answer("missing")
           ELSE q' = [q EXCEPT !.at = Len(classes)]
  BY <1>3 DEF MarkInterfaces
<1>7. names \in Seq(STRING)
  <2>1. PICK l \in loaded : classes[at].file = pak[l]
    BY <1>4, <1>5 DEF Started, FromFile
  <2>2. pak[l] \in ClassFiles
    BY <1>4, <2>1, PakIs DEF Started, Typed
  <2> QED BY <1>6, <2>1, <2>2 DEF ClassFiles
<1>8. /\ Range(Visited(names)) \subseteq Range(names)
      /\ wanted \notin found /\ 0 \notin found => Visited(names) = names
  BY <1>3, <1>4, <1>6, <1>7, VisitedAre
<1>9. at \in Supertypes(obj)
  BY <1>4, <1>5 DEF Marking, Marked
<1>10. found \subseteq Supertypes(obj)
  <2>1. \A n \in Range(names) : FindClass(n) \in Supertypes(obj)
    BY <1>4, <1>5, <1>6, <1>9, NextTypes
  <2> QED BY <1>6, <1>8, <2>1
<1>11. CASE wanted \in found
  <2>1. q' = [obj |-> obj, wanted |-> wanted, at |-> 0, answer |-> "yes"]
    BY <1>3, <1>4, <1>6, <1>11 DEF Answer
  <2>2. wanted \in Supertypes(obj)
    BY <1>10, <1>11
  <2> QED BY <1>2, <1>4, <1>6, <2>1, <2>2, AnswersNow
<1>12. CASE wanted \notin found /\ 0 \in found
  <2>1. q' = [obj |-> obj, wanted |-> wanted, at |-> 0, answer |-> "missing"]
    BY <1>3, <1>4, <1>6, <1>12 DEF Answer
  <2>2. 0 \in Supertypes(obj)
    BY <1>10, <1>12
  <2> QED BY <1>2, <1>4, <1>6, <2>1, <2>2, AnswersNow
<1>13. CASE wanted \notin found /\ 0 \notin found
  <2>1. q' = [obj |-> obj, wanted |-> wanted, at |-> Len(classes), answer |-> "marking"]
    BY <1>3, <1>4, <1>6, <1>13
  <2>2. found = {FindClass(n) : n \in Range(classes[at].file.ifaces)}
    BY <1>6, <1>8, <1>13
  <2>3. Marking(obj, wanted, Len(classes), new)
    <3>1. Typed /\ \A k \in DOMAIN classes : FromFile(k)
      BY <1>4 DEF Started
    <3>2. Adds(at, marks, found, new)
      BY <1>6, <2>2 DEF Adds
    <3>3. /\ obj \in DOMAIN classes /\ Marking(obj, wanted, at, marks) /\ at # 0
          /\ marks[at] = 1 /\ wanted \notin found /\ 0 \notin found
      BY <1>4, <1>5, <1>13
    <3> QED BY <3>1, <3>2, <3>3, MoreMarks
  <2> QED BY <1>2, <1>4, <1>6, <2>1, <2>3, AnswersNow
<1> QED BY <1>11, <1>12, <1>13

LEMMA NextClassStep ==
  ASSUME IInv, NextClass
  PROVE  Asked' /\ InstanceofAnswers'
<1>1. /\ q.answer = "marking" /\ q.at # 0 /\ (mark[q.at] # 1 \/ classes[q.at].native)
      /\ q' = [q EXCEPT !.at = @ - 1]
      /\ UNCHANGED <<classes, pak, phase, i, done, loaded>> /\ mark' = mark
  BY DEF NextClass
<1>2. PICK obj, wanted, at, marks :
        obj = q.obj /\ wanted = q.wanted /\ at = q.at /\ marks = mark
  OBVIOUS
<1>3. /\ Started /\ phase = "run" /\ Tree /\ Len(classes) \in Nat
      /\ DOMAIN classes = 1..Len(classes)
      /\ q = [obj |-> obj, wanted |-> wanted, at |-> at, answer |-> "marking"]
      /\ obj \in DOMAIN classes /\ wanted \in 0..Len(classes)
      /\ at \in 0..Len(classes) /\ at \in Nat /\ Marking(obj, wanted, at, marks)
  BY <1>1, <1>2, AskedOf
<1>4. at - 1 \in 0..Len(classes) /\ at - 1 \in Nat
  BY <1>1, <1>2, <1>3
<1>5. ASSUME NEW c \in Marked(marks), c > at - 1 PROVE marks[c] = 2 \/ classes[c].native
  <2>1. c \in Nat /\ c \in DOMAIN classes /\ marks[c] # 0 /\ marks[c] \in 0..2
    BY <1>3 DEF Marked, Marking
  <2>2. CASE c = at
    BY <1>1, <1>2, <2>1, <2>2
  <2>3. CASE c # at
    <3>1. c > at
      BY <1>3, <1>5, <2>1, <2>3
    <3> QED BY <1>3, <3>1 DEF Marking
  <2> QED BY <2>2, <2>3
<1>6. Marking(obj, wanted, at - 1, marks)
  BY <1>3, <1>4, <1>5 DEF Marking
<1>7. q' = [obj |-> obj, wanted |-> wanted, at |-> at - 1, answer |-> "marking"]
  BY <1>1, <1>3
<1> QED BY <1>1, <1>2, <1>3, <1>4, <1>6, <1>7, AnswersNow

LEMMA NoneLeftStep ==
  ASSUME IInv, NoneLeft
  PROVE  Asked' /\ InstanceofAnswers'
<1>1. /\ q.answer = "marking" /\ q.at = 0 /\ Answer("no")
      /\ UNCHANGED <<classes, pak, phase, i, done, loaded>> /\ mark' = mark
  BY DEF NoneLeft
<1>2. PICK obj, wanted, marks : obj = q.obj /\ wanted = q.wanted /\ marks = mark
  OBVIOUS
<1>3. /\ Started /\ phase = "run" /\ Tree /\ Len(classes) \in Nat
      /\ q = [obj |-> obj, wanted |-> wanted, at |-> 0, answer |-> "marking"]
      /\ obj \in DOMAIN classes /\ wanted \in 0..Len(classes)
      /\ Marking(obj, wanted, 0, marks)
  BY <1>1, <1>2, AskedOf
<1>4. wanted \notin Supertypes(obj)
  <2>1. Supertypes(obj) \subseteq Marked(marks)
    BY <1>3, MarksComplete DEF Started
  <2> QED BY <1>3, <2>1 DEF Marking
<1>5. q' = [obj |-> obj, wanted |-> wanted, at |-> 0, answer |-> "no"]
  <2>1. q' = [q EXCEPT !.answer = "no", !.at = 0]
    BY <1>1 DEF Answer
  <2> QED BY <1>3, <2>1
<1> QED BY <1>1, <1>2, <1>3, <1>4, <1>5, AnswersNow

\* A step that leaves the question and the classes alone leaves its answer right.
LEMMA NothingAsked ==
  ASSUME IInv, UNCHANGED <<classes, phase, q, mark>>
  PROVE  Asked' /\ InstanceofAnswers'
<1>1. Supertypes(q.obj)' = Supertypes(q.obj)
  BY DEF Supertypes, FindClass
<1>2. InstanceofAnswers'
  BY <1>1 DEF IInv, InstanceofAnswers
<1>3. ASSUME q.answer = "marking" PROVE Marking(q.obj, q.wanted, q.at, mark)'
  <2>1. PICK obj, wanted, at, marks :
          obj = q.obj /\ wanted = q.wanted /\ at = q.at /\ marks = mark
    OBVIOUS
  <2>2. Marking(obj, wanted, at, marks)
    BY <1>3, <2>1, AskedOf
  <2> QED BY <2>1, <2>2, MarkingNow
<1>4. Asked'
  BY <1>3 DEF IInv, Asked
<1> QED BY <1>2, <1>4

-----------------------------------------------------------------------------
(* The theorems. *)

LEMMA NextInv == ASSUME IInv, [Next]_vars PROVE IInv'
<1>1. Started
  BY DEF IInv, Started
<1>2. ASSUME Started', Asked', InstanceofAnswers' PROVE IInv'
  BY <1>2 DEF IInv, Started
<1>3. CASE Start
  <2>1. phase # "run" /\ UNCHANGED q
    BY <1>3 DEF Start, RegisterNativeClass, NativesDone, LoadClass, Skip, NextRound, OutOfMemory
  <2>2. Asked' /\ InstanceofAnswers'
    BY <2>1, NobodyAsks DEF IInv
  <2>3. Started'
    <3>1. CASE RegisterNativeClass
      BY <1>1, <3>1, RegisterStep
    <3>2. CASE NativesDone
      BY <1>1, <3>2, NativesDoneStep
    <3>3. CASE LoadClass
      BY <1>1, <3>3, LoadStep
    <3>4. CASE Skip
      BY <1>1, <3>4, SkipStep
    <3>5. CASE NextRound
      BY <1>1, <3>5, NextRoundStep
    <3>6. CASE OutOfMemory
      BY <1>1, <3>6, OutOfMemoryStep
    <3> QED BY <1>3, <3>1, <3>2, <3>3, <3>4, <3>5, <3>6 DEF Start
  <2> QED BY <1>2, <2>2, <2>3
<1>4. ASSUME UNCHANGED <<classes, pak, phase, i, done, loaded>> PROVE Started'
  BY <1>1, <1>4, StartedStays
<1>5. CASE \E c \in DOMAIN classes, n \in Names : Instanceof(c, n)
  <2>1. PICK c \in DOMAIN classes, n \in Names : Instanceof(c, n)
    BY <1>5
  <2>2. Started'
    BY <1>4, <2>1 DEF Instanceof
  <2> QED BY <1>2, <2>1, <2>2, InstanceofStep
<1>6. CASE Search
  <2>1. Started'
    BY <1>4, <1>6 DEF Search, MarkInterfaces, NextClass, NoneLeft
  <2>2. Asked' /\ InstanceofAnswers'
    BY <1>6, MarkInterfacesStep, NextClassStep, NoneLeftStep DEF Search
  <2> QED BY <1>2, <2>1, <2>2
<1>7. CASE \E p \in Descriptors, static, wide \in BOOLEAN : Invoke(p, static, wide)
  <2>1. UNCHANGED <<classes, pak, phase, i, done, loaded, mark, q>>
    BY <1>7 DEF Invoke
  <2> QED BY <1>2, <1>4, <2>1, NothingAsked
<1>8. CASE UNCHANGED vars
  <2>1. UNCHANGED <<classes, pak, phase, i, done, loaded, mark, q>>
    BY <1>8 DEF vars
  <2> QED BY <1>2, <1>4, <2>1, NothingAsked
<1> QED BY <1>3, <1>5, <1>6, <1>7, <1>8 DEF Next

\* The invariant of the start and of instanceof: classes come from what is registered and
\* loaded, after their superclasses and laid out behind them; a round that has loaded
\* nothing has left only classes that wait; the marks of instanceof are types of the
\* object, and complete where the search has been.
THEOREM Invariant == Spec => []IInv
<1> QED BY InitInv, NextInv, PTL DEF Spec

\* The rounds of the loader load exactly the classes whose superclasses are all there,
\* each once and after its superclass, in whatever order the package has them; the program
\* starts if and only if that is all classes of the package.
THEOREM LoaderResolvesAlways == Spec => []LoaderResolves
<1>1. ASSUME IInv PROVE LoaderResolves
  BY <1>1, InvResolves DEF IInv
<1> QED BY <1>1, Invariant, PTL

\* No two fields of an object share a byte, whichever of its classes declare them, and all
\* lie inside of the memory that is asked for; the static fields of a class do not overlap
\* and lie inside of its class data.
THEOREM LayoutIsSound == Spec => []LayoutSound
<1>1. ASSUME IInv PROVE LayoutSound
  BY <1>1, InvLayout DEF IInv
<1> QED BY <1>1, Invariant, PTL

\* A call reaches the nearest class upwards that declares the method, and an access by name
\* the field where the layout has it.
THEOREM MembersAreFound == Spec => []MembersFound
<1>1. ASSUME IInv PROVE MembersFound
  BY <1>1, InvMembers DEF IInv
<1> QED BY <1>1, Invariant, PTL

\* instanceof says yes for the types of the object and no for all others, however the
\* interfaces extend each other and in whatever order they were loaded; it fails only if a
\* class is missing.
THEOREM InstanceofIsRight == Spec => []InstanceofAnswers
<1>1. ASSUME IInv PROVE InstanceofAnswers
  BY <1>1 DEF IInv
<1> QED BY <1>1, Invariant, PTL

=============================================================================
