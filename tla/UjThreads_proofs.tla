--------------------------- MODULE UjThreads_proofs ---------------------------
(***************************************************************************)
(* Proofs about UjThreads, for any number of threads, monitors and classes *)
(* and any quantum and depth: that monitors and threads agree on who holds *)
(* what, and that gCurThread names a listed thread when it is used.        *)
(***************************************************************************)
EXTENDS UjThreads, FiniteSetTheorems, TLAPS

-----------------------------------------------------------------------------
(* The list of threads. *)

\* A listed thread has a place in the list.
LEMMA PlaceOfListed ==
  ASSUME NEW l \in Seq(Thread), NEW t \in Range(l)
  PROVE  PlaceOf(l, t) \in 1..Len(l) /\ l[PlaceOf(l, t)] = t
BY DEF PlaceOf, Range

\* ujInstr goes on with a listed thread.
LEMMA NextThreadListed ==
  ASSUME NEW l \in Seq(Thread), NEW t \in Range(l)
  PROVE  NextThread(l, t) \in Range(l)
<1>1. PlaceOf(l, t) \in 1..Len(l)
  BY PlaceOfListed
<1> QED
  BY <1>1 DEF NextThread, Range

\* A new thread in front of the list.
LEMMA ConsThread ==
  ASSUME NEW l \in Seq(Thread), IsInjective(l), NEW h \in Thread, h \notin Range(l)
  PROVE  /\ <<h>> \o l \in Seq(Thread)
         /\ IsInjective(<<h>> \o l)
         /\ Range(<<h>> \o l) = Range(l) \cup {h}
         /\ <<h>> \o l # <<>>
<1> DEFINE n == <<h>> \o l
<1>1. n \in Seq(Thread) /\ Len(n) = Len(l) + 1 /\ n[1] = h
  OBVIOUS
<1>2. \A k \in 2..Len(n) : n[k] = l[k - 1]
  OBVIOUS
<1>3. \A k \in 1..Len(l) : n[k + 1] = l[k]
  OBVIOUS
<1> HIDE DEF n
<1>4. IsInjective(n)
  <2> SUFFICES ASSUME NEW a \in 1..Len(n), NEW b \in 1..Len(n), n[a] = n[b]
               PROVE  a = b
    BY <1>1 DEF IsInjective
  <2>1. \A k \in 2..Len(n) : k - 1 \in 1..Len(l) /\ n[k] # h
    BY <1>1, <1>2 DEF Range
  <2>2. CASE a = 1 \/ b = 1
    BY <1>1, <2>1, <2>2
  <2>3. CASE a \in 2..Len(n) /\ b \in 2..Len(n)
    <3>1. a - 1 \in DOMAIN l /\ b - 1 \in DOMAIN l /\ l[a - 1] = l[b - 1]
      BY <1>2, <2>1, <2>3
    <3>2. a - 1 = b - 1
      BY <3>1 DEF IsInjective
    <3> QED BY <2>3, <3>2
  <2> QED BY <1>1, <2>2, <2>3
<1>5. Range(n) \subseteq Range(l) \cup {h}
  <2> SUFFICES ASSUME NEW k \in 1..Len(n) PROVE n[k] \in Range(l) \cup {h}
    BY <1>1 DEF Range
  <2>1. CASE k = 1
    BY <1>1, <2>1
  <2>2. CASE k \in 2..Len(n)
    <3>1. k - 1 \in 1..Len(l)
      BY <1>1, <2>2
    <3> QED BY <1>2, <2>2, <3>1 DEF Range
  <2> QED BY <1>1, <2>1, <2>2
<1>6. Range(l) \cup {h} \subseteq Range(n)
  <2>1. h \in Range(n)
    BY <1>1 DEF Range
  <2>2. ASSUME NEW x \in Range(l) PROVE x \in Range(n)
    <3>1. PICK k \in 1..Len(l) : l[k] = x
      BY DEF Range
    <3>2. k + 1 \in DOMAIN n /\ n[k + 1] = x
      BY <1>1, <1>3, <3>1
    <3> QED BY <3>2 DEF Range
  <2> QED BY <2>1, <2>2
<1> QED
  BY <1>1, <1>4, <1>5, <1>6 DEF n

\* ujThreadDestroy takes one thread off the list, and the one that ujInstr goes on
\* with is still there, unless none is.
LEMMA UnlinkThread ==
  ASSUME NEW l \in Seq(Thread), IsInjective(l), NEW t \in Range(l)
  PROVE  /\ Unlinked(l, t) \in Seq(Thread)
         /\ IsInjective(Unlinked(l, t))
         /\ Range(Unlinked(l, t)) = Range(l) \ {t}
         /\ Unlinked(l, t) # <<>> => NextThread(l, t) \in Range(Unlinked(l, t))
<1> DEFINE p == PlaceOf(l, t)
           u == Unlinked(l, t)
<1>1. p \in 1..Len(l) /\ l[p] = t
  BY PlaceOfListed
<1> HIDE DEF p
<1>2. /\ u \in Seq(Thread) /\ Len(u) = Len(l) - 1
      /\ \A k \in 1..Len(u) : u[k] = IF k < p THEN l[k] ELSE l[k + 1]
  <2> DEFINE before == SubSeq(l, 1, p - 1)
             behind == SubSeq(l, p + 1, Len(l))
  <2>1. /\ before \in Seq(Thread) /\ Len(before) = p - 1
        /\ \A k \in 1..(p - 1) : before[k] = l[k]
    BY <1>1
  <2>2. /\ behind \in Seq(Thread) /\ Len(behind) = Len(l) - p
        /\ \A k \in 1..(Len(l) - p) : behind[k] = l[k + p]
    BY <1>1
  <2>3. u = before \o behind
    BY DEF Unlinked, RemoveAt, p
  <2> HIDE DEF before, behind, u
  <2>4. u \in Seq(Thread) /\ Len(u) = Len(l) - 1
    BY <1>1, <2>1, <2>2, <2>3
  <2>5. ASSUME NEW k \in 1..Len(u) PROVE u[k] = IF k < p THEN l[k] ELSE l[k + 1]
    <3>1. CASE k < p
      BY <1>1, <2>1, <2>2, <2>3, <2>4, <3>1
    <3>2. CASE k >= p
      <4>1. k - (p - 1) \in 1..(Len(l) - p) /\ u[k] = behind[k - (p - 1)]
        BY <1>1, <2>1, <2>2, <2>3, <2>4, <3>2
      <4>2. (k - (p - 1)) + p = k + 1
        BY <1>1
      <4>3. u[k] = l[k + 1]
        BY <2>2, <4>1, <4>2
      <4> QED BY <1>1, <3>2, <4>3
    <3> QED BY <1>1, <3>1, <3>2
  <2> QED BY <2>4, <2>5
<1> HIDE DEF u
<1>3. IsInjective(u)
  <2> SUFFICES ASSUME NEW a \in 1..Len(u), NEW b \in 1..Len(u), u[a] = u[b]
               PROVE  a = b
    BY <1>2 DEF IsInjective
  <2>1. \A x, y \in 1..Len(l) : l[x] = l[y] => x = y
    BY DEF IsInjective
  <2>2. DEFINE place(k) == IF k < p THEN k ELSE k + 1
  <2>3. \A k \in 1..Len(u) : place(k) \in 1..Len(l) /\ u[k] = l[place(k)]
    BY <1>1, <1>2
  <2>4. place(a) = place(b)
    BY <2>1, <2>3
  <2> QED BY <1>1, <2>4
<1>4. ASSUME NEW k \in 1..Len(u) PROVE u[k] \in Range(l) \ {t}
  <2>1. CASE k < p
    <3>1. u[k] = l[k] /\ k \in 1..Len(l) /\ k # p
      BY <1>1, <1>2, <2>1
    <3> QED BY <1>1, <3>1 DEF IsInjective, Range
  <2>2. CASE k >= p
    <3>1. u[k] = l[k + 1] /\ k + 1 \in 1..Len(l) /\ k + 1 # p
      BY <1>1, <1>2, <2>2
    <3> QED BY <1>1, <3>1 DEF IsInjective, Range
  <2> QED BY <2>1, <2>2, <1>1
<1>5. ASSUME NEW x \in Range(l), x # t PROVE x \in Range(u)
  <2>1. PICK k \in 1..Len(l) : l[k] = x
    BY DEF Range
  <2>2. CASE k < p
    <3>1. k \in 1..Len(u) /\ u[k] = x
      BY <1>1, <1>2, <2>1, <2>2
    <3> QED BY <1>2, <3>1 DEF Range
  <2>3. CASE k > p
    <3>1. k - 1 \in 1..Len(u) /\ u[k - 1] = x
      BY <1>1, <1>2, <2>1, <2>3
    <3> QED BY <1>2, <3>1 DEF Range
  <2> QED BY <1>1, <1>5, <2>1, <2>2, <2>3
<1>6. Range(u) = Range(l) \ {t}
  <2>1. Range(u) \subseteq Range(l) \ {t}
    BY <1>2, <1>4 DEF Range
  <2> QED BY <1>5, <2>1
<1>7. ASSUME u # <<>> PROVE NextThread(l, t) # t
  <2>1. Len(l) > 1
    BY <1>2, <1>7
  <2>2. PICK k \in 1..Len(l) : NextThread(l, t) = l[k] /\ k # p
    BY <1>1, <2>1 DEF NextThread, p
  <2> QED BY <1>1, <2>2 DEF IsInjective
<1> QED
  BY <1>2, <1>3, <1>6, <1>7, NextThreadListed DEF u

-----------------------------------------------------------------------------
(* Counting what a thread is inside of. *)

On(s, m) == {k \in DOMAIN s : s[k].mon = m}

\* A thread is inside of finitely many things.
LEMMA OnFinite ==
  ASSUME NEW s \in Seq(Instrs), NEW m
  PROVE  IsFiniteSet(On(s, m)) /\ Cardinality(On(s, m)) \in Nat
<1>1. IsFiniteSet(1..Len(s))
  BY FS_Interval
<1>2. On(s, m) \in SUBSET (1..Len(s))
  BY DEF On
<1> QED
  BY <1>1, <1>2, FS_Subset, FS_CardinalityType

\* A thread that has left everything counts for no monitor.
LEMMA OnEmpty ==
  ASSUME NEW m PROVE Cardinality(On(<<>>, m)) = 0
<1>1. On(<<>>, m) = {}
  BY DEF On
<1> QED BY <1>1, FS_EmptySet

\* One more block or call counts for its monitor only.
LEMMA OnAppend ==
  ASSUME NEW s \in Seq(Instrs), NEW e \in Instrs, NEW m
  PROVE  Cardinality(On(Append(s, e), m)) =
           Cardinality(On(s, m)) + IF e.mon = m THEN 1 ELSE 0
<1>1. CASE e.mon = m
  <2>1. On(Append(s, e), m) = On(s, m) \cup {Len(s) + 1}
    BY <1>1 DEF On
  <2>2. Len(s) + 1 \notin On(s, m)
    BY DEF On
  <2>3. IsFiniteSet(On(s, m)) /\ Cardinality(On(s, m)) \in Nat
    BY OnFinite
  <2> HIDE DEF On
  <2> QED BY <1>1, <2>1, <2>2, <2>3, FS_AddElement
<1>2. CASE e.mon # m
  <2>1. On(Append(s, e), m) = On(s, m)
    BY <1>2 DEF On
  <2>2. Cardinality(On(s, m)) \in Nat
    BY OnFinite
  <2> QED BY <1>2, <2>1, <2>2
<1> QED BY <1>1, <1>2

\* What is above depth n and what is below.
LEMMA OnSplit ==
  ASSUME NEW s \in Seq(Instrs), NEW n \in 0..Len(s), NEW m
  PROVE  Cardinality(On(s, m)) = Cardinality(On(SubSeq(s, 1, n), m))
                                   + Cardinality(On(SubSeq(s, n + 1, Len(s)), m))
<1> DEFINE low == SubSeq(s, 1, n)
           high == SubSeq(s, n + 1, Len(s))
           shifted == {k \in (n + 1)..Len(s) : s[k].mon = m}
           f == [k \in On(high, m) |-> k + n]
<1>1. low \in Seq(Instrs) /\ Len(low) = n /\ \A k \in 1..n : low[k] = s[k]
  OBVIOUS
<1>2. /\ high \in Seq(Instrs) /\ Len(high) = Len(s) - n
      /\ \A k \in 1..Len(high) : high[k] = s[k + n]
  OBVIOUS
<1> HIDE DEF low, high
<1>3. On(s, m) = On(low, m) \cup shifted /\ On(low, m) \cap shifted = {}
  BY <1>1 DEF On
<1>4. f \in Bijection(On(high, m), shifted)
  <2>1. On(high, m) = {k \in 1..Len(high) : s[k + n].mon = m}
    BY <1>2 DEF On
  <2>2. \A k \in On(high, m) : k \in Int /\ f[k] = k + n /\ f[k] \in shifted
    BY <1>2, <2>1
  <2>3. \A k \in shifted : k - n \in On(high, m) /\ f[k - n] = k
    BY <1>2, <2>1
  <2>4. f \in [On(high, m) -> shifted]
    BY <2>2
  <2>5. f \in Injection(On(high, m), shifted)
    BY <2>2, <2>4 DEF Injection, IsInjective
  <2>6. f \in Surjection(On(high, m), shifted)
    BY <2>3, <2>4 DEF Surjection
  <2> QED BY <2>5, <2>6 DEF Bijection
<1>5. IsFiniteSet(shifted) /\ Cardinality(shifted) = Cardinality(On(high, m))
  <2>1. ExistsBijection(On(high, m), shifted)
    BY <1>4 DEF ExistsBijection
  <2> QED BY <1>2, <2>1, OnFinite, FS_Bijection
<1>6. Cardinality(On(s, m)) = Cardinality(On(low, m)) + Cardinality(shifted)
  <2>1. IsFiniteSet(On(low, m)) /\ Cardinality(On(low, m)) \in Nat
    BY <1>1, OnFinite
  <2>2. Cardinality(shifted) \in Nat
    BY <1>5, FS_CardinalityType
  <2>3. Cardinality(On(low, m) \cup shifted) =
          Cardinality(On(low, m)) + Cardinality(shifted) - Cardinality(On(low, m) \cap shifted)
    BY <1>5, <2>1, FS_Union
  <2> HIDE DEF shifted
  <2>4. Cardinality(On(low, m) \cap shifted) = 0
    BY <1>3, FS_EmptySet
  <2>5. Cardinality(On(s, m)) = Cardinality(On(low, m) \cup shifted)
    BY <1>3
  <2> QED BY <2>1, <2>2, <2>3, <2>4, <2>5
<1> QED
  BY <1>5, <1>6 DEF low, high

\* A part of what a thread is inside of that is nothing but synchronized methods
\* gives back what it counts.
LEMMA ReleasedIsOn ==
  ASSUME NEW s \in Seq(Instrs), NEW m \in Monitor,
         \A k \in 1..Len(s) : s[k].kind = "method"
  PROVE  Released(s)[m] = Cardinality(On(s, m))
<1>1. ASSUME NEW k \in 1..Len(s) PROVE s[k] = Entry("method", m) <=> s[k].mon = m
  <2>1. PICK d \in {"block", "method"}, q \in Monitor : s[k] = Entry(d, q)
    BY DEF Instrs
  <2> QED BY <2>1 DEF Entry
<1>2. {k \in DOMAIN s : s[k] = Entry("method", m)} = On(s, m)
  BY <1>1 DEF On
<1> QED BY <1>2 DEF Released

-----------------------------------------------------------------------------
(* The invariant. *)

\* phases in which a step may be taken
Live == {"classes", "clinit", "main"}

\* Handles that no listed thread has are inside of nothing: they are used again.
LeftAll ==
  phase \in Live => \A t \in Thread \ Listed : calls[t] = <<>>

\* ujInitAllClasses has at most one thread between two classes, which has not run.
SpareIdle ==
  /\ phase # "classes" => spare = 0
  /\ phase = "clinit" => left > 0
  /\ phase = "classes" => Listed = {spare} \ {0} /\ (spare # 0 => calls[spare] = <<>>)

CurListed == phase \in Live /\ CanRun => cur \in Listed

IInv == TypeOK /\ MonitorsMatch /\ LeftAll /\ SpareIdle /\ CurListed

\* What monitors mn and the threads ts have to agree on, when c is what each of them
\* is inside of.
Agree(ts, c, mn) ==
  \A m \in Monitor :
    /\ mn[m].numHolds # 0 => mn[m].holder \in ts
    /\ \A t \in ts :
         Cardinality(On(c[t], m)) = IF mn[m].holder = t THEN mn[m].numHolds ELSE 0

\* While steps may be taken, MonitorsMatch says that all listed threads agree.
LEMMA LiveAgree ==
  ASSUME MonitorsMatch, phase \in Live PROVE Agree(Listed, calls, mon)
BY DEF MonitorsMatch, Live, Agree, Holds, On

\* If they agree after a step, MonitorsMatch holds after it.
LEMMA AgreeMatch ==
  ASSUME Agree(Listed', calls', mon') PROVE MonitorsMatch'
BY DEF MonitorsMatch, Agree, Holds, On

\* An instruction is only executed by gCurThread, in one of the two loops.
LEMMA Instructions ==
  \A t : Runs(t) => /\ phase \in Live /\ phase # "classes" /\ CanRun /\ cur = t
BY DEF Runs, Loops, Live

\* The virtual machine starts without a thread, in IInv.
THEOREM InitInv == Init => IInv
<1> SUFFICES ASSUME Init PROVE IInv
  OBVIOUS
<1> USE ThreadsAssumption DEF Init
<1>1. Listed = {} /\ ~CanRun
  BY DEF Listed, CanRun, Range
<1>2. TypeOK
  <2>1. list \in Seq(Thread) /\ IsInjective(list)
    BY DEF IsInjective
  <2>2. calls \in [Thread -> Seq(Instrs)] /\ \A t \in Thread : Len(calls[t]) <= MaxNest
    <3>1. <<>> \in Seq(Instrs) /\ Len(<<>>) = 0
      OBVIOUS
    <3> QED BY <3>1
  <2> QED BY <2>1, <2>2 DEF TypeOK
<1>3. MonitorsMatch
  BY <1>1 DEF MonitorsMatch
<1>4. LeftAll /\ SpareIdle /\ CurListed
  BY <1>1 DEF LeftAll, SpareIdle, CurListed
<1> QED BY <1>2, <1>3, <1>4 DEF IInv

-----------------------------------------------------------------------------
(* One instruction: what Continue, Enter and the death of a thread do. *)

\* The quantum goes on or the next thread is taken, from a list with t in it.
LEMMA ContinueStays ==
  ASSUME TypeOK, NEW l \in Seq(Thread), NEW t \in Range(l), cur = t,
         NEW ends \in BOOLEAN, Continue(t, l, ends)
  PROVE  /\ i' \in 0..(QUANTUM - 1)
         /\ cur' \in Range(l)
         /\ cur' = NextThread(l, t) \/ (~ends /\ cur' = cur)
<1>1. NextThread(l, t) \in Range(l)
  BY NextThreadListed
<1> QED
  BY <1>1, ThreadsAssumption DEF Continue, TypeOK

\* What is listed is a thread.
LEMMA ListedThread == ASSUME TypeOK PROVE Listed \subseteq Thread
BY DEF TypeOK, Listed, Range

\* ujThreadPrvMonEnter keeps the agreement: the thread is inside of one thing more.
LEMMA EnterAgrees ==
  ASSUME TypeOK, Agree(Listed, calls, mon), NEW t \in Listed, NEW e \in Instrs,
         CanEnter(t, e.mon), mon' = Enter(t, e.mon),
         calls' = [calls EXCEPT ![t] = Append(@, e)]
  PROVE  Agree(Listed, calls', mon')
<1>1. t \in Thread /\ e.mon \in Monitor /\ calls[t] \in Seq(Instrs)
  BY ListedThread DEF Instrs, Entry, TypeOK
<1> SUFFICES ASSUME NEW m \in Monitor
             PROVE  /\ mon'[m].numHolds # 0 => mon'[m].holder \in Listed
                    /\ \A u \in Listed : Cardinality(On(calls'[u], m)) =
                         IF mon'[m].holder = u THEN mon'[m].numHolds ELSE 0
  BY DEF Agree
<1>2. /\ mon[m].numHolds \in Nat
      /\ mon'[m] = IF m = e.mon THEN [holder |-> t, numHolds |-> mon[m].numHolds + 1] ELSE mon[m]
  BY <1>1 DEF Enter, TypeOK
<1>3. \A u \in Listed : calls'[u] = IF u = t THEN Append(calls[t], e) ELSE calls[u]
  BY ListedThread DEF TypeOK
<1>4. Cardinality(On(Append(calls[t], e), m)) =
        Cardinality(On(calls[t], m)) + IF e.mon = m THEN 1 ELSE 0
  BY <1>1, OnAppend
<1>5. /\ mon[m].numHolds # 0 => mon[m].holder \in Listed
      /\ \A u \in Listed : Cardinality(On(calls[u], m)) =
           IF mon[m].holder = u THEN mon[m].numHolds ELSE 0
  BY DEF Agree
<1>6. m = e.mon => mon[m].numHolds = 0 \/ mon[m].holder = t
  BY DEF CanEnter
<1>7. Cardinality(On(calls'[t], m)) =
        Cardinality(On(calls[t], m)) + IF e.mon = m THEN 1 ELSE 0
  BY <1>3, <1>4
<1>8. \A u \in Listed : u # t => Cardinality(On(calls'[u], m)) = Cardinality(On(calls[u], m))
  BY <1>3
<1> QED BY <1>2, <1>5, <1>6, <1>7, <1>8

\* Leaving everything above depth n keeps it, when every count goes down by what is
\* left: one block or call, or the methods an exception unwinds.
LEMMA LeaveAgrees ==
  ASSUME TypeOK, Agree(Listed, calls, mon), NEW t \in Listed, NEW n \in 0..Len(calls[t]),
         calls' = [calls EXCEPT ![t] = SubSeq(@, 1, n)],
         NEW gone \in [Monitor -> Nat],
         \A m \in Monitor : gone[m] = Cardinality(On(SubSeq(calls[t], n + 1, Len(calls[t])), m)),
         mon' = [m \in Monitor |-> [mon[m] EXCEPT !.numHolds = @ - gone[m]]]
  PROVE  /\ Agree(Listed, calls', mon')
         /\ mon' \in [Monitor -> [holder : {0} \cup Thread, numHolds : Nat]]
         /\ calls' \in [Thread -> Seq(Instrs)]
         /\ \A u \in Thread : Len(calls'[u]) <= MaxNest
<1>1. t \in Thread
  BY ListedThread
<1>2. calls[t] \in Seq(Instrs) /\ Len(calls[t]) <= MaxNest
  BY <1>1 DEF TypeOK
<1>3. \A u \in Thread : calls'[u] = IF u = t THEN SubSeq(calls[t], 1, n) ELSE calls[u]
  BY <1>1 DEF TypeOK
<1>4. calls' \in [Thread -> Seq(Instrs)] /\ \A u \in Thread : Len(calls'[u]) <= MaxNest
  <2>1. SubSeq(calls[t], 1, n) \in Seq(Instrs) /\ Len(SubSeq(calls[t], 1, n)) <= MaxNest
    BY <1>2, ThreadsAssumption
  <2> QED BY <1>3, <2>1 DEF TypeOK
<1>5. ASSUME NEW m \in Monitor
      PROVE  /\ mon'[m] \in [holder : {0} \cup Thread, numHolds : Nat]
             /\ mon'[m].numHolds # 0 => mon'[m].holder \in Listed
             /\ \A u \in Listed : Cardinality(On(calls'[u], m)) =
                  IF mon'[m].holder = u THEN mon'[m].numHolds ELSE 0
  <2> DEFINE held(u) == Cardinality(On(calls[u], m))
             holds(u) == Cardinality(On(calls'[u], m))
  <2>1. mon[m] \in [holder : {0} \cup Thread, numHolds : Nat]
    BY DEF TypeOK
  <2>2. mon'[m] = [holder |-> mon[m].holder, numHolds |-> mon[m].numHolds - gone[m]]
    BY <2>1
  <2>3. \A u \in Listed : u # t => holds(u) = held(u)
    BY ListedThread, <1>3
  <2>4. held(t) = holds(t) + gone[m] /\ holds(t) \in Nat
    <3>1. held(t) = Cardinality(On(SubSeq(calls[t], 1, n), m)) + gone[m]
      BY <1>2, OnSplit
    <3>2. holds(t) \in Nat
      BY <1>1, <1>4, OnFinite
    <3> QED BY <1>1, <1>3, <3>1, <3>2
  <2>5. /\ mon[m].numHolds # 0 => mon[m].holder \in Listed
        /\ \A u \in Listed : held(u) = IF mon[m].holder = u THEN mon[m].numHolds ELSE 0
    BY DEF Agree
  <2> HIDE DEF held, holds
  <2>6. gone[m] \in Nat /\ (mon[m].holder # t => gone[m] = 0)
    BY <2>4, <2>5
  <2>7. /\ mon'[m].holder = mon[m].holder /\ mon'[m].numHolds = mon[m].numHolds - gone[m]
        /\ mon[m].holder \in {0} \cup Thread /\ mon[m].numHolds \in Nat
    BY <2>1, <2>2
  <2>8. mon[m].holder = t => mon'[m].numHolds = holds(t)
    BY <2>4, <2>5, <2>7
  <2>9. mon[m].holder # t => mon'[m].numHolds = mon[m].numHolds /\ holds(t) = 0
    BY <2>4, <2>5, <2>6, <2>7
  <2>10. mon'[m].numHolds \in Nat
    BY <2>4, <2>7, <2>8, <2>9
  <2>11. mon'[m] \in [holder : {0} \cup Thread, numHolds : Nat]
    BY <2>2, <2>7, <2>10
  <2>12. mon'[m].numHolds # 0 => mon'[m].holder \in Listed
    BY <2>5, <2>7, <2>9
  <2>13. ASSUME NEW u \in Listed
         PROVE  holds(u) = IF mon'[m].holder = u THEN mon'[m].numHolds ELSE 0
    BY <2>3, <2>5, <2>7, <2>8, <2>9
  <2> QED BY <2>11, <2>12, <2>13 DEF holds
<1>6. Agree(Listed, calls', mon')
  BY <1>5 DEF Agree
<1>7. mon' \in [Monitor -> [holder : {0} \cup Thread, numHolds : Nat]]
  BY <1>5
<1> QED BY <1>4, <1>6, <1>7

\* A thread that is inside of nothing may come or go.
LEMMA IdleComes ==
  ASSUME NEW ts \in SUBSET Thread, NEW c, NEW mn, Agree(ts, c, mn),
         NEW h \in Thread \ ts, c[h] = <<>>
  PROVE  Agree(ts \cup {h}, c, mn)
<1> SUFFICES ASSUME NEW m \in Monitor
             PROVE  /\ mn[m].numHolds # 0 => mn[m].holder \in ts
                    /\ Cardinality(On(c[h], m)) = IF mn[m].holder = h THEN mn[m].numHolds ELSE 0
  BY DEF Agree
<1>1. mn[m].numHolds # 0 => mn[m].holder \in ts
  BY DEF Agree
<1>2. Cardinality(On(c[h], m)) = 0
  BY OnEmpty
<1> QED BY <1>1, <1>2

\* ... and one that has left everything may go.
LEMMA IdleGoes ==
  ASSUME NEW ts, NEW c, NEW mn, Agree(ts, c, mn), NEW t \in ts, c[t] = <<>>
  PROVE  Agree(ts \ {t}, c, mn)
<1> SUFFICES ASSUME NEW m \in Monitor, mn[m].numHolds # 0
             PROVE  mn[m].holder # t
  BY DEF Agree
<1>1. Cardinality(On(c[t], m)) = 0
  BY OnEmpty
<1> QED BY <1>1 DEF Agree

\* What an instruction that fails leaves behind needs to have its types only.
LEMMA StopsInv ==
  ASSUME TypeOK', phase' \in {"halted", "broken"}, spare' = 0
  PROVE  IInv'
BY DEF IInv, MonitorsMatch, LeftAll, SpareIdle, CurListed, Live

\* An instruction after which the same threads are listed.
LEMMA GoesInv ==
  ASSUME IInv, NEW t \in Thread, Runs(t), NEW ends \in BOOLEAN, Continue(t, list, ends),
         UNCHANGED <<list, top, left, spare>>,
         retry' \in [Thread -> Instrs \cup {Nothing}],
         calls' \in [Thread -> Seq(Instrs)], \A u \in Thread : Len(calls'[u]) <= MaxNest,
         mon' \in [Monitor -> [holder : {0} \cup Thread, numHolds : Nat]],
         \A u \in Thread : u # t => calls'[u] = calls[u],
         \/ phase' = phase /\ Agree(Listed, calls', mon')
         \/ phase' \in {"halted", "broken"}
  PROVE  IInv'
<1>1. /\ TypeOK /\ phase \in Live /\ phase # "classes" /\ CanRun /\ cur = t
      /\ t \in Range(list) /\ spare = 0 /\ list \in Seq(Thread) /\ Listed' = Listed
  BY Instructions DEF IInv, CurListed, Listed, SpareIdle, TypeOK
<1>2. i' \in 0..(QUANTUM - 1) /\ cur' \in Listed
  BY <1>1, ContinueStays DEF Listed
<1>3. TypeOK'
  BY <1>1, <1>2, ListedThread DEF TypeOK, Live
<1>4. CASE phase' = phase /\ Agree(Listed, calls', mon')
  <2>1. MonitorsMatch'
    BY <1>1, <1>4, AgreeMatch
  <2>2. LeftAll'
    BY <1>1, <1>4 DEF IInv, LeftAll, Listed
  <2>3. SpareIdle' /\ CurListed'
    BY <1>1, <1>2, <1>4 DEF IInv, SpareIdle, CurListed
  <2> QED BY <1>3, <2>1, <2>2, <2>3 DEF IInv
<1>5. CASE phase' \in {"halted", "broken"}
  BY <1>1, <1>3, <1>5, StopsInv
<1> QED BY <1>4, <1>5

\* An instruction with which the thread dies, after it has left everything.
LEMMA DiesInv ==
  ASSUME IInv, NEW t \in Thread, Runs(t), Dies(t),
         retry' = retry,
         calls' \in [Thread -> Seq(Instrs)], \A u \in Thread : Len(calls'[u]) <= MaxNest,
         mon' \in [Monitor -> [holder : {0} \cup Thread, numHolds : Nat]],
         \A u \in Thread : u # t => calls'[u] = calls[u],
         calls'[t] = <<>>, Agree(Listed, calls', mon'),
         phase' = phase \/ phase' = "halted"
  PROVE  IInv'
<1>1. /\ TypeOK /\ phase \in Live /\ phase # "classes" /\ CanRun /\ cur = t
      /\ t \in Listed /\ spare = 0 /\ list \in Seq(Thread) /\ IsInjective(list)
  BY Instructions DEF IInv, CurListed, SpareIdle, TypeOK
<1>2. /\ list' \in Seq(Thread) /\ IsInjective(list)' /\ Listed' = Listed \ {t}
      /\ list' # <<>> => NextThread(list, t) \in Listed'
  BY <1>1, UnlinkThread DEF Dies, Listed
<1>3. i' \in 0..(QUANTUM - 1) /\ cur' = NextThread(list, t) /\ cur' \in Listed
  BY <1>1, ContinueStays DEF Listed, Dies
<1>4. TypeOK'
  <2>1. top' \in [Thread -> Monitor \cup {None}] /\ left' = left /\ spare' = spare
    BY <1>1 DEF Dies, TypeOK
  <2>2. cur' \in Thread
    BY <1>1, <1>3, ListedThread
  <2> QED BY <1>1, <1>2, <1>3, <2>1, <2>2 DEF TypeOK
<1>5. CASE phase' = phase
  <2>1. Agree(Listed', calls', mon')
    BY <1>1, <1>2, IdleGoes
  <2>2. LeftAll'
    BY <1>1, <1>2, <1>5 DEF IInv, LeftAll
  <2>3. SpareIdle' /\ CurListed'
    BY <1>1, <1>2, <1>3, <1>5 DEF IInv, SpareIdle, CurListed, CanRun, Dies
  <2> QED BY <1>4, <2>1, <2>2, <2>3, AgreeMatch DEF IInv
<1>6. CASE phase' = "halted"
  BY <1>1, <1>4, <1>6, StopsInv DEF Dies
<1> QED BY <1>5, <1>6

-----------------------------------------------------------------------------
(* The actions. *)

\* Entering a monitor gives it a holder and a count of their types.
LEMMA MonitorOps ==
  ASSUME TypeOK, NEW t \in Thread, NEW m \in Monitor
  PROVE  /\ Entry("block", m) \in Instrs /\ Entry("block", m).mon = m
         /\ Entry("method", m) \in Instrs /\ Entry("method", m).mon = m
         /\ Enter(t, m) \in [Monitor -> [holder : {0} \cup Thread, numHolds : Nat]]
BY DEF Entry, Instrs, Enter, TypeOK

\* monitorenter and the invocation of a synchronized method
LEMMA InsideInv ==
  ASSUME IInv, NEW t \in Thread, NEW e \in Instrs, MayExecute(t, e), CanEnter(t, e.mon),
         Inside(t, e), Goes(t)
  PROVE  IInv'
<1>1. /\ TypeOK /\ Runs(t) /\ phase \in Live /\ t \in Listed /\ Agree(Listed, calls, mon)
      /\ e.mon \in Monitor
  BY Instructions, LiveAgree DEF IInv, MayExecute, CurListed, Instrs, Entry
<1>2. Agree(Listed, calls', mon')
  BY <1>1, EnterAgrees DEF Inside
<1>3. /\ calls' \in [Thread -> Seq(Instrs)] /\ \A u \in Thread : u # t => calls'[u] = calls[u]
      /\ \A u \in Thread : Len(calls'[u]) <= MaxNest
  <2>1. /\ calls[t] \in Seq(Instrs) /\ Append(calls[t], e) \in Seq(Instrs)
        /\ Len(Append(calls[t], e)) <= MaxNest
    BY <1>1, ThreadsAssumption DEF TypeOK, MayExecute
  <2> QED BY <1>1, <2>1 DEF TypeOK, Inside
<1>4. /\ mon' \in [Monitor -> [holder : {0} \cup Thread, numHolds : Nat]]
      /\ retry' \in [Thread -> Instrs \cup {Nothing}]
  BY <1>1, MonitorOps DEF TypeOK, Inside
<1> QED BY <1>1, <1>2, <1>3, <1>4, GoesInv DEF Goes

\* Instructions that leave calls and monitors alone.
LEMMA IdleInstrInv ==
  ASSUME IInv, NEW t \in Thread, Runs(t), NEW ends \in BOOLEAN, Continue(t, list, ends),
         UNCHANGED <<list, top, left, spare, calls, mon>>,
         retry' \in [Thread -> Instrs \cup {Nothing}],
         phase' = phase \/ phase' \in {"halted", "broken"}
  PROVE  IInv'
<1>1. TypeOK /\ Agree(Listed, calls, mon)
  BY Instructions, LiveAgree DEF IInv
<1>2. /\ calls' \in [Thread -> Seq(Instrs)] /\ \A u \in Thread : Len(calls'[u]) <= MaxNest
      /\ mon' \in [Monitor -> [holder : {0} \cup Thread, numHolds : Nat]]
      /\ Agree(Listed, calls', mon')
  BY <1>1 DEF TypeOK
<1> QED BY <1>2, GoesInv

\* monitorexit and the return from a synchronized method
LEMMA LeaveInv ==
  ASSUME IInv, NEW t \in Thread, Free(t), calls[t] # <<>>, CanExit(t, Last(calls[t]).mon),
         mon' = Exit(t, Last(calls[t]).mon), calls' = [calls EXCEPT ![t] = Front(@)],
         Goes(t), UNCHANGED retry
  PROVE  IInv'
<1> DEFINE n == Len(calls[t]) - 1
           high == SubSeq(calls[t], n + 1, Len(calls[t]))
           e == Last(calls[t])
           gone == [m \in Monitor |-> IF e.mon = m THEN 1 ELSE 0]
<1>1. /\ TypeOK /\ Runs(t) /\ phase \in Live /\ t \in Listed /\ Agree(Listed, calls, mon)
      /\ calls[t] \in Seq(Instrs)
  BY Instructions, LiveAgree DEF IInv, Free, CurListed, TypeOK
<1>2. /\ n \in 0..Len(calls[t]) /\ e \in Instrs /\ high = <<e>>
      /\ calls' = [calls EXCEPT ![t] = SubSeq(@, 1, n)]
  <2>1. Len(calls[t]) \in Nat \ {0} /\ e = calls[t][Len(calls[t])] /\ e \in Instrs
    BY <1>1 DEF Last
  <2>2. n \in 0..Len(calls[t]) /\ Len(high) = 1 /\ high[1] = e /\ high \in Seq(Instrs)
    BY <1>1, <2>1
  <2>3. high = <<e>>
    <3> HIDE DEF high, e
    <3> QED BY <2>2
  <2>4. calls' = [calls EXCEPT ![t] = SubSeq(@, 1, n)]
    BY DEF Front
  <2> QED BY <2>1, <2>2, <2>3, <2>4
<1>3. ASSUME NEW m \in Monitor PROVE gone[m] = Cardinality(On(high, m))
  <2>1. <<e>> = Append(<<>>, e) /\ <<>> \in Seq(Instrs)
    OBVIOUS
  <2> HIDE DEF e, high
  <2>2. Cardinality(On(Append(<<>>, e), m)) =
          Cardinality(On(<<>>, m)) + IF e.mon = m THEN 1 ELSE 0
    BY <1>2, <2>1, OnAppend
  <2> QED BY <1>2, <2>1, <2>2, OnEmpty
<1>4. mon' = [m \in Monitor |-> [mon[m] EXCEPT !.numHolds = @ - gone[m]]]
  <2>1. mon \in [Monitor -> [holder : {0} \cup Thread, numHolds : Nat]]
    BY <1>1 DEF TypeOK
  <2>2. ASSUME NEW m \in Monitor
        PROVE  mon'[m] = [mon[m] EXCEPT !.numHolds = @ - gone[m]]
    <3> HIDE DEF e
    <3>1. mon'[m] = IF m = e.mon THEN [mon[m] EXCEPT !.numHolds = @ - 1] ELSE mon[m]
      BY <2>1 DEF Exit, e
    <3>2. mon[m] = [mon[m] EXCEPT !.numHolds = @ - 0]
      BY <2>1
    <3> QED BY <3>1, <3>2
  <2>3. mon' = [m \in Monitor |-> mon'[m]]
    BY <2>1 DEF Exit
  <2> QED BY <2>2, <2>3
<1>5. gone \in [Monitor -> Nat]
  OBVIOUS
<1> HIDE DEF gone, n
<1>6. /\ Agree(Listed, calls', mon')
      /\ mon' \in [Monitor -> [holder : {0} \cup Thread, numHolds : Nat]]
      /\ calls' \in [Thread -> Seq(Instrs)] /\ \A u \in Thread : Len(calls'[u]) <= MaxNest
  BY <1>1, <1>2, <1>3, <1>4, <1>5, LeaveAgrees
<1>7. retry' \in [Thread -> Instrs \cup {Nothing}] /\ \A u \in Thread : u # t => calls'[u] = calls[u]
  BY <1>1 DEF TypeOK
<1> QED BY <1>1, <1>6, <1>7, GoesInv DEF Goes

\* An exception leaves synchronized methods on its way.
LEMMA UnwindsAgrees ==
  ASSUME IInv, NEW t \in Thread, NEW n \in 0..Len(calls[t]), Unwinds(t, n)
  PROVE  /\ TypeOK /\ Runs(t) /\ t \in Listed
         /\ Agree(Listed, calls', mon')
         /\ mon' \in [Monitor -> [holder : {0} \cup Thread, numHolds : Nat]]
         /\ calls' \in [Thread -> Seq(Instrs)] /\ \A u \in Thread : Len(calls'[u]) <= MaxNest
         /\ \A u \in Thread : calls'[u] = IF u = t THEN SubSeq(calls[t], 1, n) ELSE calls[u]
<1> DEFINE high == SubSeq(calls[t], n + 1, Len(calls[t]))
<1>1. /\ TypeOK /\ Runs(t) /\ phase \in Live /\ t \in Listed /\ Agree(Listed, calls, mon)
      /\ calls[t] \in Seq(Instrs)
  BY Instructions, LiveAgree DEF IInv, Unwinds, Free, CurListed, TypeOK
<1>2. high \in Seq(Instrs) /\ \A k \in 1..Len(high) : high[k] = calls[t][k + n]
  BY <1>1
<1>3. \A k \in 1..Len(high) : high[k].kind = "method"
  <2>1. Len(high) = Len(calls[t]) - n
    BY <1>1
  <2>2. \A k \in (n + 1)..Len(calls[t]) : calls[t][k].kind = "method"
    BY DEF Unwinds
  <2> QED BY <1>1, <1>2, <2>1, <2>2
<1>4. /\ calls' = [calls EXCEPT ![t] = SubSeq(@, 1, n)]
      /\ mon' = [m \in Monitor |-> [mon[m] EXCEPT !.numHolds = @ - Released(high)[m]]]
  BY DEF Unwinds, UnwoundMon
<1> HIDE DEF high
<1>5. \A m \in Monitor : Released(high)[m] = Cardinality(On(high, m))
  BY <1>2, <1>3, ReleasedIsOn
<1>6. Released(high) \in [Monitor -> Nat]
  <2>1. Released(high) = [m \in Monitor |-> Released(high)[m]]
    BY DEF Released
  <2>2. \A m \in Monitor : Released(high)[m] \in Nat
    BY <1>2, <1>5, OnFinite
  <2> QED BY <2>1, <2>2
<1>7. \A u \in Thread : calls'[u] = IF u = t THEN SubSeq(calls[t], 1, n) ELSE calls[u]
  BY <1>1, <1>4 DEF TypeOK
<1> QED BY <1>1, <1>4, <1>5, <1>6, <1>7, LeaveAgrees DEF high

\* RT.threadCreate: a handle that is used again brings nothing with it.
LEMMA ThreadCreateInv ==
  ASSUME IInv, NEW t \in Thread, NEW h \in Thread, NEW m \in Starts, ThreadCreate(t, h, m)
  PROVE  IInv'
<1>1. /\ TypeOK /\ phase \in Live /\ phase # "classes" /\ t \in Listed /\ cur = t
      /\ spare = 0 /\ list \in Seq(Thread) /\ IsInjective(list) /\ Agree(Listed, calls, mon)
  BY Instructions, LiveAgree
     DEF IInv, ThreadCreate, Free, CurListed, SpareIdle, TypeOK
<1>2. /\ list' \in Seq(Thread) /\ IsInjective(list)' /\ Listed' = Listed \cup {h} /\ CanRun'
      /\ h \notin Listed
  BY <1>1, ConsThread DEF ThreadCreate, Listed, CanRun
<1>3. i' \in 0..(QUANTUM - 1) /\ cur' \in Listed'
  <2>1. t \in Range(list') /\ Continue(t, list', FALSE)
    BY <1>1, <1>2 DEF Listed, ThreadCreate
  <2> QED BY <1>1, <1>2, <2>1, ContinueStays DEF Listed
<1>4. TypeOK'
  <2>1. top' \in [Thread -> Monitor \cup {None}]
    BY <1>1, ThreadsAssumption DEF TypeOK, ThreadCreate, None
  <2>2. cur' \in Thread
    BY <1>1, <1>2, <1>3, ListedThread
  <2> QED BY <1>1, <1>2, <1>3, <2>1, <2>2 DEF TypeOK, ThreadCreate
<1>5. MonitorsMatch'
  <2>1. calls[h] = <<>>
    BY <1>1, <1>2 DEF IInv, LeftAll
  <2>2. Agree(Listed', calls', mon')
    BY <1>1, <1>2, <2>1, IdleComes, ListedThread DEF ThreadCreate
  <2> QED BY <2>2, AgreeMatch
<1>6. LeftAll' /\ SpareIdle' /\ CurListed'
  BY <1>1, <1>2, <1>3 DEF IInv, LeftAll, SpareIdle, CurListed, ThreadCreate
<1> QED BY <1>4, <1>5, <1>6 DEF IInv

\* Each of the instructions keeps IInv.
LEMMA InstrInv ==
  ASSUME IInv, NEW t \in Thread, Instr(t) PROVE IInv'
<1>1. TypeOK /\ retry \in [Thread -> Instrs \cup {Nothing}]
  BY DEF IInv, TypeOK
<1>2. CASE Other(t)
  BY <1>1, <1>2, IdleInstrInv DEF Other, Goes, Free
<1>3. CASE Fail(t)
  BY <1>1, <1>3, IdleInstrInv DEF Fail, Failed, Free
<1>4. ASSUME NEW m \in Monitor, MonitorEnter(t, m) PROVE IInv'
  BY <1>1, <1>4, MonitorOps, InsideInv DEF MonitorEnter
<1>5. ASSUME NEW m \in Monitor, SyncInvoke(t, m) PROVE IInv'
  BY <1>1, <1>5, MonitorOps, InsideInv DEF SyncInvoke
<1>6. ASSUME NEW m \in Monitor, MonitorSpin(t, m) PROVE IInv'
  <2>1. retry' \in [Thread -> Instrs \cup {Nothing}]
    BY <1>1, <1>6, MonitorOps DEF MonitorSpin
  <2> QED BY <1>6, <2>1, IdleInstrInv DEF MonitorSpin, MayExecute, Goes
<1>7. ASSUME NEW m \in Monitor, MonitorExitUnheld(t, m) PROVE IInv'
  BY <1>1, <1>7, IdleInstrInv DEF MonitorExitUnheld, Goes, Free
<1>8. ASSUME NEW m \in Monitor, SyncInvokeLater(t, m) PROVE IInv'
  <2>1. retry' \in [Thread -> Instrs \cup {Nothing}]
    BY <1>1, <1>8, MonitorOps DEF SyncInvokeLater
  <2> QED BY <1>8, <2>1, IdleInstrInv DEF SyncInvokeLater, MayExecute
<1>9. ASSUME NEW m \in Monitor, SyncInvokeOverflow(t, m) PROVE IInv'
  <2>1. mon' \in [Monitor -> [holder : {0} \cup Thread, numHolds : Nat]]
    BY <1>1, <1>9, MonitorOps DEF SyncInvokeOverflow
  <2>2. calls' = calls /\ \A u \in Thread : Len(calls[u]) <= MaxNest
    BY <1>1, <1>9 DEF SyncInvokeOverflow, TypeOK
  <2>3. phase' \in {"halted", "broken"} /\ Runs(t) /\ Continue(t, list, TRUE)
    BY <1>9 DEF SyncInvokeOverflow, Failed, MayExecute
  <2> QED BY <1>1, <1>9, <2>1, <2>2, <2>3, GoesInv DEF SyncInvokeOverflow, TypeOK
<1>10. CASE MonitorExit(t)
  BY <1>10, LeaveInv DEF MonitorExit
<1>11. CASE SyncReturn(t)
  BY <1>11, LeaveInv DEF SyncReturn
<1>12. CASE TopReturn(t)
  <2>1. /\ Runs(t) /\ Dies(t) /\ UNCHANGED <<calls, retry, mon, phase>> /\ calls[t] = <<>>
    BY <1>12 DEF TopReturn, Free
  <2>2. Agree(Listed, calls, mon)
    BY <2>1, Instructions, LiveAgree DEF IInv
  <2> QED BY <1>1, <2>1, <2>2, DiesInv DEF TypeOK
<1>13. ASSUME NEW n \in 0..MaxNest, Throw(t, n) PROVE IInv'
  <2>1. Unwinds(t, n) /\ Goes(t) /\ n \in 0..Len(calls[t]) /\ UNCHANGED retry
    BY <1>13 DEF Throw, Unwinds
  <2>2. /\ TypeOK /\ Runs(t) /\ t \in Listed
        /\ Agree(Listed, calls', mon')
        /\ mon' \in [Monitor -> [holder : {0} \cup Thread, numHolds : Nat]]
        /\ calls' \in [Thread -> Seq(Instrs)] /\ \A u \in Thread : Len(calls'[u]) <= MaxNest
        /\ \A u \in Thread : u # t => calls'[u] = calls[u]
    BY <2>1, UnwindsAgrees
  <2> QED BY <1>1, <2>1, <2>2, GoesInv DEF Goes
<1>14. CASE ThrowUncaught(t)
  <2>1. Unwinds(t, 0) /\ Dies(t) /\ 0 \in 0..Len(calls[t]) /\ UNCHANGED retry
    BY <1>14 DEF ThrowUncaught, Unwinds
  <2>2. /\ TypeOK /\ Runs(t) /\ t \in Listed
        /\ Agree(Listed, calls', mon')
        /\ mon' \in [Monitor -> [holder : {0} \cup Thread, numHolds : Nat]]
        /\ calls' \in [Thread -> Seq(Instrs)] /\ \A u \in Thread : Len(calls'[u]) <= MaxNest
        /\ \A u \in Thread : calls'[u] = IF u = t THEN SubSeq(calls[t], 1, 0) ELSE calls[u]
    BY <2>1, UnwindsAgrees
  <2>3. calls'[t] = <<>> /\ \A u \in Thread : u # t => calls'[u] = calls[u]
    BY <2>2 DEF TypeOK
  <2>4. phase' = phase \/ phase' = "halted"
    BY <1>14 DEF ThrowUncaught
  <2> QED BY <2>1, <2>2, <2>3, <2>4, DiesInv
<1>15. ASSUME NEW h \in Thread, NEW m \in Starts, ThreadCreate(t, h, m) PROVE IInv'
  BY <1>15, ThreadCreateInv
<1> QED
  BY <1>2, <1>3, <1>4, <1>5, <1>6, <1>7, <1>8, <1>9, <1>10, <1>11, <1>12, <1>13, <1>14, <1>15
     DEF Instr

-----------------------------------------------------------------------------
(* The loops around ujInstr. *)

\* Between two classes: at most the spare thread is listed, and it is gCurThread.
LEMMA Between ==
  ASSUME IInv, phase = "classes"
  PROVE  /\ TypeOK /\ Agree(Listed, calls, mon) /\ list \in Seq(Thread) /\ IsInjective(list)
         /\ Listed = {spare} \ {0} /\ Listed \subseteq Thread
         /\ spare = 0 <=> ~CanRun
         /\ CanRun => cur = spare
         /\ \A t \in Thread : calls[t] = <<>>
<1>1. /\ TypeOK /\ Agree(Listed, calls, mon) /\ list \in Seq(Thread) /\ IsInjective(list)
      /\ Listed = {spare} \ {0} /\ Listed \subseteq Thread
  BY LiveAgree, ListedThread DEF IInv, SpareIdle, TypeOK, Live
<1>2. Listed = {} <=> ~CanRun
  BY <1>1 DEF Listed, CanRun, Range
<1>3. CanRun => cur \in Listed
  BY DEF IInv, CurListed, Live
<1>4. \A t \in Thread : calls[t] = <<>>
  BY <1>1 DEF IInv, LeftAll, SpareIdle, Live
<1> QED BY <1>1, <1>2, <1>3, <1>4

\* ujThreadCreate into an empty list
LEMMA CreateFirst ==
  ASSUME IInv, phase = "classes", spare = 0, NEW h \in Thread, NEW m \in Starts \cup {None},
         Create(h, m), mon' = mon
  PROVE  /\ list' \in Seq(Thread) /\ IsInjective(list)' /\ Listed' = {h} /\ CanRun' /\ cur' = h
         /\ calls' \in [Thread -> Seq(Instrs)] /\ \A u \in Thread : Len(calls'[u]) <= MaxNest
         /\ top' \in [Thread -> Monitor \cup {None}]
         /\ retry' \in [Thread -> Instrs \cup {Nothing}]
         /\ \A t \in Thread : calls'[t] = <<>>
         /\ Agree(Listed', calls', mon')
<1>1. /\ TypeOK /\ Agree(Listed, calls, mon) /\ list \in Seq(Thread) /\ IsInjective(list)
      /\ Listed = {} /\ ~CanRun /\ \A t \in Thread : calls[t] = <<>>
  BY Between
<1>2. list' \in Seq(Thread) /\ IsInjective(list)' /\ Listed' = Listed \cup {h} /\ CanRun'
  BY <1>1, ConsThread DEF Create, Listed, CanRun
<1>3. \A t \in Thread : calls'[t] = <<>>
  BY <1>1 DEF Create, TypeOK
<1>4. calls' \in [Thread -> Seq(Instrs)] /\ \A u \in Thread : Len(calls'[u]) <= MaxNest
  <2>1. <<>> \in Seq(Instrs) /\ Len(<<>>) = 0
    OBVIOUS
  <2>2. calls' = [t \in Thread |-> calls'[t]]
    BY <1>1 DEF Create, TypeOK
  <2>3. ThreadsAssumption /\ MaxNest >= 0
    BY ThreadsAssumption
  <2>4. \A t \in Thread : calls'[t] \in Seq(Instrs) /\ Len(calls'[t]) <= MaxNest
    BY <1>3, <2>1, <2>3
  <2> QED BY <2>2, <2>4
<1>5. /\ top' \in [Thread -> Monitor \cup {None}]
      /\ retry' \in [Thread -> Instrs \cup {Nothing}]
  BY <1>1, ThreadsAssumption DEF Create, TypeOK, None
<1>6. Agree(Listed \cup {h}, calls', mon')
  <2>1. Agree(Listed, calls', mon')
    BY <1>1 DEF Agree
  <2> QED BY <1>1, <1>3, <2>1, IdleComes
<1> QED BY <1>1, <1>2, <1>3, <1>4, <1>5, <1>6 DEF Create, FirstCur

\* The thread that the next class or main starts with, the spare one if there is one.
LEMMA SpareThreadMade ==
  ASSUME IInv, phase = "classes", NEW h \in Thread, SpareThread(h), mon' = mon
  PROVE  /\ list' \in Seq(Thread) /\ IsInjective(list)' /\ Listed' = {h} /\ CanRun' /\ cur' = h
         /\ calls' \in [Thread -> Seq(Instrs)] /\ \A u \in Thread : Len(calls'[u]) <= MaxNest
         /\ top' \in [Thread -> Monitor \cup {None}]
         /\ retry' \in [Thread -> Instrs \cup {Nothing}]
         /\ \A t \in Thread : calls'[t] = <<>>
         /\ Agree(Listed', calls', mon')
<1>1. CASE spare = 0
  BY <1>1, CreateFirst DEF SpareThread
<1>2. CASE spare # 0
  <2>1. UNCHANGED <<list, cur, calls, top, retry, mon>> /\ h = spare
    BY <1>2 DEF SpareThread
  <2>2. /\ TypeOK /\ Agree(Listed, calls, mon) /\ Listed = {h} /\ CanRun /\ cur = h
        /\ \A t \in Thread : calls[t] = <<>>
    BY <1>2, <2>1, Between DEF Thread
  <2>3. UNCHANGED <<Listed, CanRun>> /\ IsInjective(list)' = IsInjective(list)
    BY <2>1 DEF Listed, CanRun
  <2> QED BY <2>1, <2>2, <2>3 DEF TypeOK
<1> QED BY <1>1, <1>2

\* One thread that has not run, and a loop about to run it or the next class.
LEMMA StartsInv ==
  ASSUME IInv, phase = "classes", NEW h \in Thread,
         list' \in Seq(Thread), IsInjective(list)', Listed' = {h}, CanRun', cur' = h,
         calls' \in [Thread -> Seq(Instrs)], \A u \in Thread : Len(calls'[u]) <= MaxNest,
         top' \in [Thread -> Monitor \cup {None}], retry' \in [Thread -> Instrs \cup {Nothing}],
         \A t \in Thread : calls'[t] = <<>>, Agree(Listed', calls', mon'),
         UNCHANGED <<i, mon>>, left' \in 0..NC,
         \/ phase' = "classes" /\ spare' = h
         \/ phase' \in {"clinit", "main"} /\ spare' = 0 /\ (phase' = "clinit" => left' > 0)
  PROVE  IInv'
<1>1. TypeOK'
  BY DEF IInv, TypeOK
<1>2. MonitorsMatch'
  BY AgreeMatch
<1>3. h # 0
  BY DEF Thread
<1>4. LeftAll' /\ SpareIdle' /\ CurListed'
  BY <1>3 DEF LeftAll, SpareIdle, CurListed
<1> QED BY <1>1, <1>2, <1>4 DEF IInv

\* No thread is left and no class waits for one.
LEMMA EmptyInv ==
  ASSUME IInv, phase \in Live, list' = <<>>, spare' = 0, left' \in 0..NC,
         UNCHANGED <<cur, i, calls, top, retry, mon>>, phase' \in {"classes", "ended"},
         \A t \in Thread : calls[t] = <<>>,
         \A m \in Monitor : mon[m].numHolds = 0
  PROVE  IInv'
<1>1. Listed' = {} /\ ~CanRun'
  BY DEF Listed, CanRun, Range
<1>2. TypeOK'
  BY DEF IInv, TypeOK, IsInjective
<1>3. MonitorsMatch'
  BY <1>1 DEF MonitorsMatch
<1>4. LeftAll' /\ SpareIdle' /\ CurListed'
  BY <1>1 DEF LeftAll, SpareIdle, CurListed
<1> QED BY <1>2, <1>3, <1>4 DEF IInv

\* A loop that has run until no thread was left
LEMMA NoThread ==
  ASSUME IInv, phase \in Live, ~CanRun
  PROVE  /\ TypeOK /\ list = <<>>
         /\ \A t \in Thread : calls[t] = <<>>
         /\ \A m \in Monitor : mon[m].numHolds = 0
<1>1. Listed = {} /\ list = <<>>
  BY DEF CanRun, Listed, Range
<1>2. Agree(Listed, calls, mon)
  BY LiveAgree DEF IInv
<1> QED BY <1>1, <1>2 DEF IInv, LeftAll, Agree

\* So does each step of the loops in ujInitAllClasses and run_uj.
LEMMA LoopInv ==
  ASSUME IInv,
         \/ \E h \in Thread : ClassWithout(h) \/ ClassInit(h)
         \/ ClassDone \/ DestroySpare
         \/ \E h \in Thread, m \in Starts : StartMain(h, m)
         \/ End
  PROVE  IInv'
<1> USE ThreadsAssumption
<1>1. left \in 0..NC /\ TypeOK
  BY DEF IInv, TypeOK
<1>2. ASSUME NEW h \in Thread, ClassWithout(h) PROVE IInv'
  <2>1. phase = "classes" /\ SpareThread(h) /\ mon' = mon
    BY <1>2 DEF ClassWithout
  <2>2. UNCHANGED <<i, mon>> /\ left' \in 0..NC /\ phase' = "classes" /\ spare' = h
    BY <1>1, <1>2 DEF ClassWithout
  <2> QED BY <2>1, <2>2, SpareThreadMade, StartsInv
<1>3. ASSUME NEW h \in Thread, ClassInit(h) PROVE IInv'
  <2>1. phase = "classes" /\ SpareThread(h) /\ mon' = mon
    BY <1>3 DEF ClassInit
  <2>2. UNCHANGED <<i, mon>> /\ left' \in 0..NC /\ phase' = "clinit" /\ spare' = 0 /\ left' > 0
    BY <1>1, <1>3 DEF ClassInit
  <2> QED BY <2>1, <2>2, SpareThreadMade, StartsInv
<1>4. CASE ClassDone
  <2>1. phase \in Live /\ ~CanRun /\ phase # "classes" /\ phase' = "classes"
    BY <1>4 DEF ClassDone, Live
  <2>2. spare' = 0 /\ UNCHANGED <<list, cur, i, calls, top, retry, mon>>
    BY <1>4, <2>1 DEF ClassDone, IInv, SpareIdle
  <2>3. left' \in 0..NC
    BY <1>1, <1>4 DEF ClassDone, IInv, SpareIdle
  <2> QED BY <2>1, <2>2, <2>3, NoThread, EmptyInv
<1>5. CASE DestroySpare
  <2>1. phase = "classes" /\ phase \in Live /\ spare # 0 /\ phase' = "classes" /\ spare' = 0
    BY <1>5 DEF DestroySpare, Live
  <2>2. /\ list \in Seq(Thread) /\ IsInjective(list) /\ Listed = {spare} /\ Listed \subseteq Thread
        /\ Agree(Listed, calls, mon) /\ \A t \in Thread : calls[t] = <<>>
    BY <2>1, Between
  <2>3. list' \in Seq(Thread) /\ Range(list') = {}
    BY <1>5, <2>2, UnlinkThread DEF DestroySpare, Listed
  <2>4. list' = <<>>
    BY <2>3 DEF Range
  <2>5. \A m \in Monitor : mon[m].numHolds = 0
    <3>1. Agree(Listed \ {spare}, calls, mon)
      BY <2>2, IdleGoes
    <3> QED BY <2>2, <3>1 DEF Agree
  <2> QED BY <1>1, <1>5, <2>1, <2>2, <2>4, <2>5, EmptyInv DEF DestroySpare
<1>6. ASSUME NEW h \in Thread, NEW m \in Starts, StartMain(h, m) PROVE IInv'
  <2>1. phase = "classes" /\ spare = 0 /\ Create(h, m) /\ mon' = mon
    BY <1>6 DEF StartMain
  <2>2. UNCHANGED <<i, mon>> /\ left' \in 0..NC /\ phase' = "main" /\ spare' = 0
    BY <1>1, <1>6, <2>1 DEF StartMain
  <2> QED BY <2>1, <2>2, CreateFirst, StartsInv
<1>7. CASE End
  <2>1. phase \in Live /\ ~CanRun /\ phase # "classes" /\ phase' = "ended"
    BY <1>7 DEF End, Live
  <2>2. spare' = 0 /\ UNCHANGED <<list, cur, i, calls, top, retry, mon, left>>
    BY <1>7, <2>1 DEF End, IInv, SpareIdle
  <2> QED BY <1>1, <2>1, <2>2, NoThread, EmptyInv
<1> QED BY <1>2, <1>3, <1>4, <1>5, <1>6, <1>7

\* IInv is inductive.
THEOREM NextInv == IInv /\ [Next]_vars => IInv'
<1> SUFFICES ASSUME IInv, [Next]_vars PROVE IInv'
  OBVIOUS
<1>1. ASSUME NEW t \in Thread, Instr(t) PROVE IInv'
  BY <1>1, InstrInv
<1>2. CASE \/ \E h \in Thread : ClassWithout(h) \/ ClassInit(h)
           \/ ClassDone \/ DestroySpare
           \/ \E h \in Thread, m \in Starts : StartMain(h, m)
           \/ End
  BY <1>2, LoopInv
<1>3. CASE UNCHANGED vars
  <2>1. UNCHANGED <<TypeOK, MonitorsMatch, LeftAll, SpareIdle, CurListed>>
    BY <1>3 DEF vars, TypeOK, MonitorsMatch, Holds, LeftAll, SpareIdle, CurListed, Listed, CanRun
  <2> QED BY <2>1 DEF IInv
<1> QED BY <1>1, <1>2, <1>3 DEF Next

\* IInv holds in every state that the virtual machine reaches.
THEOREM AlwaysInv == Spec => []IInv
BY InitInv, NextInv, PTL DEF Spec

\* Every variable keeps its type: the list of threads never names a thread twice, the
\* quantum ends in time, and no monitor is released more often than it was entered.
THEOREM TypeCorrect == Spec => []TypeOK
<1>1. IInv => TypeOK
  BY DEF IInv
<1> QED BY <1>1, AlwaysInv, PTL

\* Monitors and threads agree on who holds what: through blocking and retries,
\* returns, exceptions, the death of threads and handles that are used again.
THEOREM MonitorsAlwaysMatch == Spec => []MonitorsMatch
<1>1. IInv => MonitorsMatch
  BY DEF IInv
<1> QED BY <1>1, AlwaysInv, PTL

\* ujInstr is never called with a gCurThread that is not listed.
THEOREM CurAlwaysListed == Spec => []CurIsListed
<1>1. IInv => CurIsListed
  BY DEF IInv, CurListed, CurIsListed, Loops, Live
<1> QED BY <1>1, AlwaysInv, PTL

\* Two threads are never inside of blocks, or of methods called, that are
\* synchronized on the same monitor.
BlocksExclude ==
  phase \in Loops =>
    \A m \in Monitor : \A t, u \in Listed : Holds(t, m) > 0 /\ Holds(u, m) > 0 => t = u

\* No program makes two threads be inside of one monitor at a time; what a thread
\* starts with is the exception that SynchronizedExcludes is about.
THEOREM BlocksAlwaysExclude == Spec => []BlocksExclude
<1>1. IInv => BlocksExclude
  <2> SUFFICES ASSUME IInv, phase \in Loops, NEW m \in Monitor, NEW t \in Listed, NEW u \in Listed,
                      Holds(t, m) > 0, Holds(u, m) > 0
               PROVE  t = u
    BY DEF BlocksExclude
  <2>1. mon[m].holder = t /\ mon[m].holder = u
    BY DEF IInv, MonitorsMatch, Loops
  <2> QED BY <2>1
<1> QED BY <1>1, AlwaysInv, PTL
=============================================================================
