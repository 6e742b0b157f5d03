------------------------ MODULE ExecutionSandboxProofs ------------------------
(***************************************************************************)
(* Proofs about the execution sandbox, for any orders, commands, reports,  *)
(* scenarios and times.  An order state that a reduction reaches is known  *)
(* by the set of its events, so whatever order the reports arrive in, the  *)
(* observed state ends where the venue is.  Recursive functions are        *)
(* reasoned about with sets of numbers and of sequences that contain the   *)
(* first and with each the next.                                           *)
(***************************************************************************)
EXTENDS ExecutionSandbox, TLAPS, FiniteSetTheorems, SequenceTheorems, WellFoundedInduction

-----------------------------------------------------------------------------
(* Induction with sets.                                                     *)

\* A set of numbers that has 0 and with each number the next has them all.
LEMMA AllNumbers ==
  ASSUME NEW T, 0 \in T, \A n \in Nat : n \in T => n + 1 \in T
  PROVE  \A n \in Nat : n \in T
  <1> SUFFICES ASSUME Nat \ T # {} PROVE FALSE
    OBVIOUS
  <1>1. PICK m \in Nat \ T : \A x \in Nat \ T : ~(<<x, m>> \in OpToRel(<, Nat))
    BY WFMin, NatLessThanWellFounded
  <1>2. m # 0 /\ m - 1 \in Nat /\ m - 1 < m
    OBVIOUS
  <1>3. m - 1 \in T
    BY <1>1, <1>2 DEF OpToRel
  <1>4. (m - 1) + 1 \in T
    BY <1>2, <1>3
  <1> QED
    BY <1>4

\* A set of sequences that has the empty one and with each sequence its extensions has them all.
LEMMA AllSequences ==
  ASSUME NEW E, NEW T, << >> \in T,
         \A s \in Seq(E), e \in E : s \in T => Append(s, e) \in T
  PROVE  \A s \in Seq(E) : s \in T
  <1> DEFINE N == {n \in Nat : \A s \in Seq(E) : Len(s) = n => s \in T}
  <1>1. 0 \in N
    BY EmptySeq
  <1>2. ASSUME NEW n \in Nat, n \in N PROVE n + 1 \in N
    <2> SUFFICES ASSUME NEW s \in Seq(E), Len(s) = n + 1 PROVE s \in T
      OBVIOUS
    <2>1. s # << >>
      OBVIOUS
    <2>2. PICK front \in Seq(E), e \in E : s = Append(front, e)
      BY <2>1, SequenceEmptyOrAppend
    <2>3. Len(front) = n
      BY <2>2
    <2> QED
      BY <1>2, <2>2, <2>3
  <1> HIDE DEF N
  <1>3. \A n \in Nat : n \in N
    BY <1>1, <1>2, AllNumbers
  <1> QED
    BY <1>3 DEF N

\* Concatenation with one more element.
LEMMA ConcatAppend ==
  ASSUME NEW E, NEW s \in Seq(E), NEW q \in Seq(E), NEW e \in E
  PROVE  /\ s \o Append(q, e) = Append(s \o q, e)
         /\ s \o q \in Seq(E)
         /\ Append(q, e) \in Seq(E)
  <1>1. s \o q \in Seq(E) /\ Append(q, e) \in Seq(E) /\ <<e>> \in Seq(E)
    OBVIOUS
  <1>2. Append(q, e) = q \o <<e>> /\ Append(s \o q, e) = (s \o q) \o <<e>>
    BY <1>1, AppendIsConcat
  <1>3. (s \o q) \o <<e>> = s \o (q \o <<e>>)
    BY <1>1, ConcatAssociative
  <1> QED
    BY <1>1, <1>2, <1>3

-----------------------------------------------------------------------------
(* ReduceAll.                                                               *)

\* The states that a reduction of es passes, up to the n-th event.
Reduction(x, es, n, f) ==
  f = [i \in 0 .. n |-> IF i = 0 THEN x ELSE ReduceOrder(f[i - 1], es[i])]

\* Every reduction has such a list.
LEMMA ReductionExists ==
  ASSUME NEW x, NEW es
  PROVE  \A n \in Nat : \E f : Reduction(x, es, n, f)
  <1> DEFINE T == {n \in Nat : \E f : Reduction(x, es, n, f)}
  <1>1. 0 \in T
    <2> DEFINE f == [i \in 0 .. 0 |-> x]
    <2>1. Reduction(x, es, 0, f)
      BY DEF Reduction
    <2> QED
      BY <2>1
  <1>2. ASSUME NEW n \in Nat, n \in T PROVE n + 1 \in T
    <2>1. PICK f : Reduction(x, es, n, f)
      BY <1>2
    <2> DEFINE g == [i \in 0 .. n + 1 |-> IF i \in 0 .. n THEN f[i] ELSE ReduceOrder(f[n], es[n + 1])]
    <2>2. \A i \in 0 .. n : f[i] = IF i = 0 THEN x ELSE ReduceOrder(f[i - 1], es[i])
      BY <2>1 DEF Reduction
    <2>3. \A i \in 0 .. n + 1 : g[i] = IF i = 0 THEN x ELSE ReduceOrder(g[i - 1], es[i])
      BY <2>2
    <2>4. Reduction(x, es, n + 1, g)
      BY <2>3 DEF Reduction
    <2> QED
      BY <2>4
  <1> HIDE DEF T
  <1>3. \A n \in Nat : n \in T
    BY <1>1, <1>2, AllNumbers
  <1> QED
    BY <1>3 DEF T

\* Two lists over events that agree have the same states.
LEMMA ReductionUnique ==
  ASSUME NEW x, NEW es, NEW fs, NEW n \in Nat, NEW m \in Nat, NEW f, NEW g,
         Reduction(x, es, n, f), Reduction(x, fs, m, g), n <= m,
         \A i \in 1 .. n : es[i] = fs[i]
  PROVE  f[n] = g[n]
  <1> DEFINE T == {i \in Nat : i <= n => f[i] = g[i]}
  <1>1. /\ \A i \in 0 .. n : f[i] = IF i = 0 THEN x ELSE ReduceOrder(f[i - 1], es[i])
        /\ \A i \in 0 .. m : g[i] = IF i = 0 THEN x ELSE ReduceOrder(g[i - 1], fs[i])
    BY DEF Reduction
  <1>2. 0 \in T
    BY <1>1
  <1>3. ASSUME NEW i \in Nat, i \in T PROVE i + 1 \in T
    BY <1>1, <1>3
  <1> HIDE DEF T
  <1>4. \A i \in Nat : i \in T
    BY <1>2, <1>3, AllNumbers
  <1> QED
    BY <1>4 DEF T

\* ReduceAll is the last of the list.
LEMMA ReduceAllIsLast ==
  ASSUME NEW x, NEW es, Len(es) \in Nat
  PROVE  \E f : Reduction(x, es, Len(es), f) /\ ReduceAll(x, es) = f[Len(es)]
  <1> DEFINE f == CHOOSE g : Reduction(x, es, Len(es), g)
  <1>1. \E g : Reduction(x, es, Len(es), g)
    BY ReductionExists
  <1>2. Reduction(x, es, Len(es), f)
    BY <1>1
  <1>3. ReduceAll(x, es) = f[Len(es)]
    BY DEF ReduceAll, Reduction
  <1> QED
    BY <1>2, <1>3

\* A reduction of no events stays where it is.
LEMMA ReduceAllEmpty ==
  ASSUME NEW x PROVE ReduceAll(x, << >>) = x
  <1>1. PICK f : Reduction(x, << >>, 0, f) /\ ReduceAll(x, << >>) = f[0]
    BY ReduceAllIsLast
  <1> QED
    BY <1>1 DEF Reduction

\* One more event is one more step.
LEMMA ReduceAllAppend ==
  ASSUME NEW E, NEW x, NEW es \in Seq(E), NEW e \in E
  PROVE  ReduceAll(x, Append(es, e)) = ReduceOrder(ReduceAll(x, es), e)
  <1> DEFINE n == Len(es)
             longer == Append(es, e)
  <1>1. n \in Nat /\ Len(longer) = n + 1 /\ longer[n + 1] = e /\ \A i \in 1 .. n : longer[i] = es[i]
    BY AppendProperties
  <1> HIDE DEF n, longer
  <1>2. PICK f : Reduction(x, es, n, f) /\ ReduceAll(x, es) = f[n]
    BY <1>1, ReduceAllIsLast DEF n
  <1>3. PICK g : Reduction(x, longer, n + 1, g) /\ ReduceAll(x, longer) = g[n + 1]
    BY <1>1, ReduceAllIsLast
  <1>4. f[n] = g[n]
    BY <1>1, <1>2, <1>3, ReductionUnique
  <1>5. n + 1 \in 0 .. n + 1 /\ n + 1 # 0 /\ (n + 1) - 1 = n
    BY <1>1
  <1>6. g[n + 1] = ReduceOrder(g[n], longer[n + 1])
    BY <1>3, <1>5 DEF Reduction
  <1> QED
    BY <1>1, <1>2, <1>3, <1>4, <1>6 DEF longer

\* Reducing two lists one after the other is reducing their concatenation.
LEMMA ReduceAllConcat ==
  ASSUME NEW E, NEW x, NEW es \in Seq(E)
  PROVE  \A fs \in Seq(E) : ReduceAll(x, es \o fs) = ReduceAll(ReduceAll(x, es), fs)
  <1> DEFINE T == {fs \in Seq(E) : ReduceAll(x, es \o fs) = ReduceAll(ReduceAll(x, es), fs)}
  <1>1. << >> \in T
    <2>1. es \o << >> = es /\ << >> \in Seq(E)
      BY ConcatEmptySeq, EmptySeq
    <2> QED
      BY <2>1, ReduceAllEmpty
  <1>2. ASSUME NEW fs \in Seq(E), NEW e \in E, fs \in T PROVE Append(fs, e) \in T
    <2>1. es \o Append(fs, e) = Append(es \o fs, e) /\ es \o fs \in Seq(E) /\ Append(fs, e) \in Seq(E)
      BY ConcatAppend
    <2>2. ReduceAll(x, Append(es \o fs, e)) = ReduceOrder(ReduceAll(x, es \o fs), e)
      <3> DEFINE both == es \o fs
      <3>1. both \in Seq(E)
        BY <2>1
      <3> HIDE DEF both
      <3>2. ReduceAll(x, Append(both, e)) = ReduceOrder(ReduceAll(x, both), e)
        BY <3>1, ReduceAllAppend
      <3> QED
        BY <3>2 DEF both
    <2>3. ReduceAll(ReduceAll(x, es), Append(fs, e)) = ReduceOrder(ReduceAll(ReduceAll(x, es), fs), e)
      BY ReduceAllAppend
    <2> QED
      BY <1>2, <2>1, <2>2, <2>3
  <1> HIDE DEF T
  <1>3. \A fs \in Seq(E) : fs \in T
    BY <1>1, <1>2, AllSequences
  <1> QED
    BY <1>3 DEF T

-----------------------------------------------------------------------------
(* Keep.                                                                    *)

KeepStep(kept, r, rs) == IF r \in rs THEN Append(kept, r) ELSE kept

\* What is kept of the first n elements of q, for each n.
KeepList(q, rs, n, f) ==
  f = [i \in 0 .. n |-> IF i = 0 THEN << >> ELSE KeepStep(f[i - 1], q[i], rs)]

\* There is always such a list.
LEMMA KeepListExists ==
  ASSUME NEW q, NEW rs
  PROVE  \A n \in Nat : \E f : KeepList(q, rs, n, f)
  <1> DEFINE T == {n \in Nat : \E f : KeepList(q, rs, n, f)}
  <1>1. 0 \in T
    <2> DEFINE f == [i \in 0 .. 0 |-> << >>]
    <2>1. KeepList(q, rs, 0, f)
      BY DEF KeepList
    <2> QED
      BY <2>1
  <1>2. ASSUME NEW n \in Nat, n \in T PROVE n + 1 \in T
    <2>1. PICK f : KeepList(q, rs, n, f)
      BY <1>2
    <2> DEFINE g == [i \in 0 .. n + 1 |-> IF i \in 0 .. n THEN f[i] ELSE KeepStep(f[n], q[n + 1], rs)]
    <2>2. \A i \in 0 .. n : f[i] = IF i = 0 THEN << >> ELSE KeepStep(f[i - 1], q[i], rs)
      BY <2>1 DEF KeepList
    <2>3. \A i \in 0 .. n + 1 : g[i] = IF i = 0 THEN << >> ELSE KeepStep(g[i - 1], q[i], rs)
      BY <2>2
    <2>4. KeepList(q, rs, n + 1, g)
      BY <2>3 DEF KeepList
    <2> QED
      BY <2>4
  <1> HIDE DEF T
  <1>3. \A n \in Nat : n \in T
    BY <1>1, <1>2, AllNumbers
  <1> QED
    BY <1>3 DEF T

\* Two lists over sequences that agree are the same.
LEMMA KeepListUnique ==
  ASSUME NEW q, NEW p, NEW rs, NEW n \in Nat, NEW m \in Nat, NEW f, NEW g,
         KeepList(q, rs, n, f), KeepList(p, rs, m, g), n <= m,
         \A i \in 1 .. n : q[i] = p[i]
  PROVE  f[n] = g[n]
  <1> DEFINE T == {i \in Nat : i <= n => f[i] = g[i]}
  <1>1. /\ \A i \in 0 .. n : f[i] = IF i = 0 THEN << >> ELSE KeepStep(f[i - 1], q[i], rs)
        /\ \A i \in 0 .. m : g[i] = IF i = 0 THEN << >> ELSE KeepStep(g[i - 1], p[i], rs)
    BY DEF KeepList
  <1>2. 0 \in T
    BY <1>1
  <1>3. ASSUME NEW i \in Nat, i \in T PROVE i + 1 \in T
    BY <1>1, <1>3
  <1> HIDE DEF T
  <1>4. \A i \in Nat : i \in T
    BY <1>2, <1>3, AllNumbers
  <1> QED
    BY <1>4 DEF T

\* Keep is the last of the list.
LEMMA KeepIsLast ==
  ASSUME NEW q, NEW rs, Len(q) \in Nat
  PROVE  \E f : KeepList(q, rs, Len(q), f) /\ Keep(q, rs) = f[Len(q)]
  <1> DEFINE f == CHOOSE g : KeepList(q, rs, Len(q), g)
  <1>1. \E g : KeepList(q, rs, Len(q), g)
    BY KeepListExists
  <1>2. KeepList(q, rs, Len(q), f)
    BY <1>1
  <1>3. Keep(q, rs) = f[Len(q)]
    BY DEF Keep, KeepList, KeepStep
  <1> QED
    BY <1>2, <1>3

\* Nothing is kept of nothing.
LEMMA KeepEmpty ==
  ASSUME NEW rs PROVE Keep(<< >>, rs) = << >>
  <1>1. PICK f : KeepList(<< >>, rs, 0, f) /\ Keep(<< >>, rs) = f[0]
    BY KeepIsLast
  <1> QED
    BY <1>1 DEF KeepList

\* One more element is kept at the end or not at all.
LEMMA KeepAppend ==
  ASSUME NEW E, NEW q \in Seq(E), NEW e \in E, NEW rs
  PROVE  Keep(Append(q, e), rs) = IF e \in rs THEN Append(Keep(q, rs), e) ELSE Keep(q, rs)
  <1> DEFINE n == Len(q)
             longer == Append(q, e)
  <1>1. n \in Nat /\ Len(longer) = n + 1 /\ longer[n + 1] = e /\ \A i \in 1 .. n : longer[i] = q[i]
    BY AppendProperties
  <1> HIDE DEF n, longer
  <1>2. PICK f : KeepList(q, rs, n, f) /\ Keep(q, rs) = f[n]
    BY <1>1, KeepIsLast DEF n
  <1>3. PICK g : KeepList(longer, rs, n + 1, g) /\ Keep(longer, rs) = g[n + 1]
    <2>1. Len(longer) \in Nat
      BY <1>1
    <2>2. \E g : KeepList(longer, rs, Len(longer), g) /\ Keep(longer, rs) = g[Len(longer)]
      BY <2>1, KeepIsLast, Zenon
    <2> QED
      BY <1>1, <2>2, Zenon
  <1>4. f[n] = g[n]
    BY <1>1, <1>2, <1>3, KeepListUnique
  <1>5. n + 1 \in 0 .. n + 1 /\ n + 1 # 0 /\ (n + 1) - 1 = n
    BY <1>1
  <1>6. g[n + 1] = KeepStep(g[n], longer[n + 1], rs)
    BY <1>3, <1>5 DEF KeepList
  <1> QED
    BY <1>1, <1>2, <1>3, <1>4, <1>6 DEF longer, KeepStep

\* The empty sequence has no elements.
LEMMA ToSetEmpty == ToSet(<< >>) = {}
  BY DEF ToSet

\* The elements of a sequence with one more.
LEMMA ToSetAppend ==
  ASSUME NEW E, NEW q \in Seq(E), NEW e \in E
  PROVE  ToSet(Append(q, e)) = ToSet(q) \cup {e}
  <1> DEFINE longer == Append(q, e)
             n == Len(q)
  <1>1. n \in Nat /\ DOMAIN q = 1 .. n /\ DOMAIN longer = 1 .. n + 1
    BY AppendProperties, LenProperties
  <1>2. longer[n + 1] = e /\ \A i \in 1 .. n : longer[i] = q[i]
    BY AppendProperties
  <1> HIDE DEF longer, n
  <1>3. \A i \in 1 .. n + 1 : longer[i] = e \/ (i \in 1 .. n /\ longer[i] = q[i])
    BY <1>1, <1>2
  <1>4. ToSet(longer) \subseteq ToSet(q) \cup {e}
    BY <1>1, <1>3 DEF ToSet
  <1>5. e \in ToSet(longer)
    BY <1>1, <1>2 DEF ToSet
  <1>6. ToSet(q) \subseteq ToSet(longer)
    BY <1>1, <1>2 DEF ToSet
  <1> QED
    BY <1>4, <1>5, <1>6 DEF longer

\* The elements of two sequences, one after the other.
LEMMA ToSetConcat ==
  ASSUME NEW E, NEW p \in Seq(E), NEW q \in Seq(E)
  PROVE  ToSet(p \o q) = ToSet(p) \cup ToSet(q)
  <1>1. \A x \in ToSet(p \o q) : x \in ToSet(p) \cup ToSet(q)
    BY DEF ToSet
  <1>2. \A x \in ToSet(p) : x \in ToSet(p \o q)
    BY DEF ToSet
  <1>3. ASSUME NEW x \in ToSet(q) PROVE x \in ToSet(p \o q)
    <2>1. PICK i \in 1 .. Len(q) : x = q[i]
      BY <1>3 DEF ToSet
    <2>2. Len(p) + i \in 1 .. Len(p \o q) /\ (p \o q)[Len(p) + i] = x
      BY <2>1
    <2> QED
      BY <2>2 DEF ToSet
  <1> QED
    BY <1>1, <1>2, <1>3

\* What is kept is a sequence of the elements that are in the set.
LEMMA KeepType ==
  ASSUME NEW E, NEW rs
  PROVE  \A q \in Seq(E) : Keep(q, rs) \in Seq(E) /\ ToSet(Keep(q, rs)) = ToSet(q) \cap rs
  <1> DEFINE T == {q \in Seq(E) : Keep(q, rs) \in Seq(E) /\ ToSet(Keep(q, rs)) = ToSet(q) \cap rs}
  <1>1. << >> \in T
    BY KeepEmpty, ToSetEmpty, EmptySeq
  <1>2. ASSUME NEW q \in Seq(E), NEW e \in E, q \in T PROVE Append(q, e) \in T
    <2>1. Keep(q, rs) \in Seq(E) /\ ToSet(Keep(q, rs)) = ToSet(q) \cap rs
      BY <1>2
    <2>2. Append(q, e) \in Seq(E) /\ ToSet(Append(q, e)) = ToSet(q) \cup {e}
      BY ToSetAppend
    <2>3. CASE e \in rs
      <3>1. Keep(Append(q, e), rs) = Append(Keep(q, rs), e)
        BY <2>3, KeepAppend
      <3>2. /\ Append(Keep(q, rs), e) \in Seq(E)
            /\ ToSet(Append(Keep(q, rs), e)) = ToSet(Keep(q, rs)) \cup {e}
        BY <2>1, ToSetAppend
      <3> QED
        BY <2>1, <2>2, <2>3, <3>1, <3>2
    <2>4. CASE e \notin rs
      <3>1. Keep(Append(q, e), rs) = Keep(q, rs)
        BY <2>4, KeepAppend
      <3> QED
        BY <2>1, <2>2, <2>4, <3>1
    <2> QED
      BY <2>3, <2>4
  <1> HIDE DEF T
  <1>3. \A q \in Seq(E) : q \in T
    BY <1>1, <1>2, AllSequences
  <1> QED
    BY <1>3 DEF T

\* Keeping from a concatenation is keeping from its parts.
LEMMA KeepConcat ==
  ASSUME NEW E, NEW rs, NEW p \in Seq(E)
  PROVE  \A q \in Seq(E) : Keep(p \o q, rs) = Keep(p, rs) \o Keep(q, rs)
  <1> DEFINE T == {q \in Seq(E) : Keep(p \o q, rs) = Keep(p, rs) \o Keep(q, rs)}
  <1>0. Keep(p, rs) \in Seq(E)
    BY KeepType
  <1>1. << >> \in T
    <2>1. p \o << >> = p /\ Keep(p, rs) \o << >> = Keep(p, rs) /\ << >> \in Seq(E)
      BY <1>0, ConcatEmptySeq, EmptySeq
    <2> QED
      BY <2>1, KeepEmpty
  <1>2. ASSUME NEW q \in Seq(E), NEW e \in E, q \in T PROVE Append(q, e) \in T
    <2> DEFINE both == p \o q
               left == Keep(p, rs)
               right == Keep(q, rs)
    <2>1. p \o Append(q, e) = Append(both, e) /\ both \in Seq(E) /\ Append(q, e) \in Seq(E)
      BY ConcatAppend
    <2>2. left \in Seq(E) /\ right \in Seq(E)
      BY KeepType
    <2>3. Keep(both, rs) = left \o right
      BY <1>2
    <2>4. Keep(Append(q, e), rs) = IF e \in rs THEN Append(right, e) ELSE right
      BY KeepAppend
    <2> HIDE DEF both, left, right
    <2>5. Keep(Append(both, e), rs) = IF e \in rs THEN Append(Keep(both, rs), e) ELSE Keep(both, rs)
      BY <2>1, KeepAppend
    <2>6. left \o Append(right, e) = Append(left \o right, e)
      BY <2>2, ConcatAppend
    <2>7. Keep(p \o Append(q, e), rs) = left \o Keep(Append(q, e), rs)
      BY <2>1, <2>3, <2>4, <2>5, <2>6
    <2> QED
      BY <2>1, <2>7 DEF left
  <1> HIDE DEF T
  <1>3. \A q \in Seq(E) : q \in T
    BY <1>1, <1>2, AllSequences
  <1> QED
    BY <1>3 DEF T

\* Keeping twice is keeping what both keep.
LEMMA KeepKeep ==
  ASSUME NEW E, NEW rs, NEW qs, NEW both, \A e \in E : e \in both <=> e \in rs /\ e \in qs
  PROVE  \A q \in Seq(E) : Keep(Keep(q, rs), qs) = Keep(q, both)
  <1> DEFINE T == {q \in Seq(E) : Keep(Keep(q, rs), qs) = Keep(q, both)}
  <1>1. << >> \in T
    BY KeepEmpty, EmptySeq
  <1>2. ASSUME NEW q \in Seq(E), NEW e \in E, q \in T PROVE Append(q, e) \in T
    <2> DEFINE kept == Keep(q, rs)
    <2>1. kept \in Seq(E) /\ Append(q, e) \in Seq(E)
      BY KeepType
    <2>2. Keep(kept, qs) = Keep(q, both)
      BY <1>2
    <2>3. Keep(Append(q, e), rs) = IF e \in rs THEN Append(kept, e) ELSE kept
      BY KeepAppend
    <2>4. Keep(Append(q, e), both) = IF e \in both THEN Append(Keep(q, both), e) ELSE Keep(q, both)
      BY KeepAppend
    <2> HIDE DEF kept
    <2>5. Keep(Append(kept, e), qs) = IF e \in qs THEN Append(Keep(kept, qs), e) ELSE Keep(kept, qs)
      BY <2>1, KeepAppend
    <2>6. Keep(Keep(Append(q, e), rs), qs) = Keep(Append(q, e), both)
      <3>1. e \in both <=> e \in rs /\ e \in qs
        OBVIOUS
      <3>2. CASE e \in rs
        BY <2>2, <2>3, <2>4, <2>5, <3>1, <3>2
      <3>3. CASE e \notin rs
        BY <2>2, <2>3, <2>4, <3>1, <3>3
      <3> QED
        BY <3>2, <3>3
    <2> QED
      BY <2>1, <2>6
  <1> HIDE DEF T
  <1>3. \A q \in Seq(E) : q \in T
    BY <1>1, <1>2, AllSequences
  <1> QED
    BY <1>3 DEF T

\* Nothing is kept when no element is in the set.
LEMMA KeepNone ==
  ASSUME NEW E, NEW q \in Seq(E), NEW rs, ToSet(q) \cap rs = {}
  PROVE  Keep(q, rs) = << >>
  <1>1. Keep(q, rs) \in Seq(E) /\ ToSet(Keep(q, rs)) = {}
    BY KeepType
  <1> DEFINE kept == Keep(q, rs)
  <1>2. Len(kept) \in Nat /\ \A i \in 1 .. Len(kept) : kept[i] \in ToSet(kept)
    BY <1>1 DEF ToSet
  <1>3. Len(kept) = 0
    BY <1>1, <1>2
  <1> QED
    BY <1>1, <1>3

-----------------------------------------------------------------------------
(* DueBefore.                                                               *)

DueAt(at, u) == {r \in DOMAIN at : at[r] = u}

DueStep(due, q, at, u) == due \o Keep(q, DueAt(at, u))

\* What is due before each time up to t.
DueList(q, at, t, f) ==
  f = [u \in 0 .. t |-> IF u = 0 THEN << >> ELSE DueStep(f[u - 1], q, at, u - 1)]

\* There is always such a list.
LEMMA DueListExists ==
  ASSUME NEW q, NEW at
  PROVE  \A t \in Nat : \E f : DueList(q, at, t, f)
  <1> DEFINE T == {t \in Nat : \E f : DueList(q, at, t, f)}
  <1>1. 0 \in T
    <2> DEFINE f == [u \in 0 .. 0 |-> << >>]
    <2>1. DueList(q, at, 0, f)
      BY DEF DueList
    <2> QED
      BY <2>1
  <1>2. ASSUME NEW t \in Nat, t \in T PROVE t + 1 \in T
    <2>1. PICK f : DueList(q, at, t, f)
      BY <1>2
    <2> DEFINE g == [u \in 0 .. t + 1 |-> IF u \in 0 .. t THEN f[u] ELSE DueStep(f[t], q, at, t)]
    <2>2. \A u \in 0 .. t : f[u] = IF u = 0 THEN << >> ELSE DueStep(f[u - 1], q, at, u - 1)
      BY <2>1 DEF DueList
    <2>3. \A u \in 0 .. t + 1 : g[u] = IF u = 0 THEN << >> ELSE DueStep(g[u - 1], q, at, u - 1)
      BY <2>2
    <2>4. DueList(q, at, t + 1, g)
      BY <2>3 DEF DueList
    <2> QED
      BY <2>4
  <1> HIDE DEF T
  <1>3. \A t \in Nat : t \in T
    BY <1>1, <1>2, AllNumbers
  <1> QED
    BY <1>3 DEF T

\* A longer list begins with the shorter one.
LEMMA DueListUnique ==
  ASSUME NEW q, NEW at, NEW t \in Nat, NEW v \in Nat, NEW f, NEW g,
         DueList(q, at, t, f), DueList(q, at, v, g), t <= v
  PROVE  f[t] = g[t]
  <1> DEFINE T == {u \in Nat : u <= t => f[u] = g[u]}
  <1>1. /\ \A u \in 0 .. t : f[u] = IF u = 0 THEN << >> ELSE DueStep(f[u - 1], q, at, u - 1)
        /\ \A u \in 0 .. v : g[u] = IF u = 0 THEN << >> ELSE DueStep(g[u - 1], q, at, u - 1)
    BY DEF DueList
  <1>2. 0 \in T
    BY <1>1
  <1>3. ASSUME NEW u \in Nat, u \in T PROVE u + 1 \in T
    BY <1>1, <1>3
  <1> HIDE DEF T
  <1>4. \A u \in Nat : u \in T
    BY <1>2, <1>3, AllNumbers
  <1> QED
    BY <1>4 DEF T

\* DueBefore is the last of the list.
LEMMA DueBeforeIsLast ==
  ASSUME NEW q, NEW at, NEW t \in Nat
  PROVE  \E f : DueList(q, at, t, f) /\ DueBefore(q, at, t) = f[t]
  <1> DEFINE f == CHOOSE g : DueList(q, at, t, g)
  <1>1. \E g : DueList(q, at, t, g)
    BY DueListExists
  <1>2. DueList(q, at, t, f)
    BY <1>1
  <1>3. DueBefore(q, at, t) = f[t]
    BY DEF DueBefore, DueList, DueStep, DueAt
  <1> QED
    BY <1>2, <1>3

\* Nothing is due before time 0.
LEMMA DueBeforeZero ==
  ASSUME NEW q, NEW at PROVE DueBefore(q, at, 0) = << >>
  <1>1. PICK f : DueList(q, at, 0, f) /\ DueBefore(q, at, 0) = f[0]
    BY DueBeforeIsLast
  <1> QED
    BY <1>1 DEF DueList

\* What is due at time t comes after all that is due before it.
LEMMA DueBeforeNext ==
  ASSUME NEW q, NEW at, NEW t \in Nat
  PROVE  DueBefore(q, at, t + 1) = DueBefore(q, at, t) \o Keep(q, DueAt(at, t))
  <1>1. PICK f : DueList(q, at, t, f) /\ DueBefore(q, at, t) = f[t]
    BY DueBeforeIsLast
  <1>2. PICK g : DueList(q, at, t + 1, g) /\ DueBefore(q, at, t + 1) = g[t + 1]
    BY DueBeforeIsLast
  <1>3. f[t] = g[t]
    BY <1>1, <1>2, DueListUnique
  <1>4. t + 1 \in 0 .. t + 1 /\ t + 1 # 0 /\ (t + 1) - 1 = t
    OBVIOUS
  <1>5. g[t + 1] = DueStep(g[t], q, at, t)
    BY <1>2, <1>4 DEF DueList
  <1> QED
    BY <1>1, <1>2, <1>3, <1>5 DEF DueStep

Earlier(q, at, t) == {r \in ToSet(q) : at[r] < t}

\* What is due before t is a sequence of the reports that are to be delivered before t.
LEMMA DueBeforeType ==
  ASSUME NEW R, NEW at \in [R -> Nat], NEW q \in Seq(R)
  PROVE  \A t \in Nat : /\ DueBefore(q, at, t) \in Seq(R)
                        /\ ToSet(DueBefore(q, at, t)) = Earlier(q, at, t)
  <1> DEFINE Before(t) == Earlier(q, at, t)
             T == {t \in Nat : DueBefore(q, at, t) \in Seq(R) /\ ToSet(DueBefore(q, at, t)) = Before(t)}
  <1>0. ToSet(q) \subseteq R
    BY DEF ToSet
  <1>1. 0 \in T
    <2>1. << >> \in Seq(R) /\ Before(0) = {}
      BY <1>0 DEF Earlier
    <2> HIDE DEF Before
    <2> QED
      BY <2>1, DueBeforeZero, ToSetEmpty
  <1>2. ASSUME NEW t \in Nat, t \in T PROVE t + 1 \in T
    <2> DEFINE due == DueBefore(q, at, t)
               now == Keep(q, DueAt(at, t))
    <2>1. due \in Seq(R) /\ ToSet(due) = Before(t)
      BY <1>2
    <2>2. now \in Seq(R) /\ ToSet(now) = ToSet(q) \cap DueAt(at, t)
      BY KeepType
    <2>3. DueBefore(q, at, t + 1) = due \o now
      BY DueBeforeNext
    <2> HIDE DEF due, now
    <2>4. due \o now \in Seq(R) /\ ToSet(due \o now) = ToSet(due) \cup ToSet(now)
      BY <2>1, <2>2, ToSetConcat
    <2>5. Before(t) \cup (ToSet(q) \cap DueAt(at, t)) = Before(t + 1)
      BY <1>0 DEF DueAt, Earlier
    <2> HIDE DEF Before
    <2>6. DueBefore(q, at, t + 1) \in Seq(R) /\ ToSet(DueBefore(q, at, t + 1)) = Before(t + 1)
      BY <2>1, <2>2, <2>3, <2>4, <2>5
    <2> QED
      BY <2>6
  <1> HIDE DEF T
  <1>3. \A t \in Nat : t \in T
    BY <1>1, <1>2, AllNumbers
  <1> QED
    BY <1>3 DEF T

\* Concatenation is associative.
LEMMA ConcatIsAssociative ==
  ASSUME NEW E, NEW a, NEW b, NEW c, a \in Seq(E), b \in Seq(E), c \in Seq(E)
  PROVE  (a \o b) \o c = a \o (b \o c)
  BY ConcatAssociative

\* A sequence with no elements is empty.
LEMMA NoElements ==
  ASSUME NEW E, NEW q \in Seq(E), ToSet(q) = {}
  PROVE  q = << >>
  <1>1. Len(q) \in Nat /\ \A i \in 1 .. Len(q) : q[i] \in ToSet(q)
    BY DEF ToSet
  <1>2. Len(q) = 0
    BY <1>1
  <1> QED
    BY <1>2

LaterThan(R, at, c) == {r \in R : at[r] > c}

\* What is due by time c is delivered before everything later, and leaves what is
\* later in its order.
LEMMA DueBeforeSplit ==
  ASSUME NEW R, NEW at \in [R -> Nat], NEW q \in Seq(R), NEW c \in Nat
  PROVE  \A t \in Nat : t > c =>
           DueBefore(q, at, t) =
             DueBefore(q, at, c + 1) \o DueBefore(Keep(q, LaterThan(R, at, c)), at, t)
  <1> DEFINE L == LaterThan(R, at, c)
             first == DueBefore(q, at, c + 1)
             later == Keep(q, L)
             T == {t \in Nat : t > c => DueBefore(q, at, t) = first \o DueBefore(later, at, t)}
  <1>0. ToSet(q) \subseteq R
    BY DEF ToSet
  <1>b. \A r \in R : r \in L <=> at[r] > c
    BY DEF LaterThan
  <1> HIDE DEF L
  <1>1. later \in Seq(R)
    BY KeepType
  <1>a. ToSet(later) = ToSet(q) \cap L
    BY KeepType
  <1>2. first \in Seq(R)
    BY DueBeforeType
  <1> HIDE DEF first, later
  <1>3. DueBefore(later, at, c + 1) = << >>
    <2>0. \A t \in Nat : /\ DueBefore(later, at, t) \in Seq(R)
                         /\ ToSet(DueBefore(later, at, t)) = Earlier(later, at, t)
      BY <1>1, DueBeforeType, Zenon
    <2>1. /\ DueBefore(later, at, c + 1) \in Seq(R)
          /\ ToSet(DueBefore(later, at, c + 1)) = Earlier(later, at, c + 1)
      BY <2>0
    <2>2. ASSUME NEW r \in ToSet(later), at[r] < c + 1 PROVE FALSE
      <3>1. r \in R /\ r \in L
        BY <1>0, <1>a
      <3>2. at[r] > c /\ at[r] \in Nat
        BY <1>b, <3>1
      <3> QED
        BY <2>2, <3>2
    <2>3. ToSet(DueBefore(later, at, c + 1)) = {}
      BY <2>1, <2>2 DEF Earlier
    <2> QED
      BY <2>1, <2>3, NoElements
  <1>4. 0 \in T
    OBVIOUS
  <1>5. ASSUME NEW t \in Nat, t \in T PROVE t + 1 \in T
    <2>1. CASE t < c
      BY <2>1
    <2>2. CASE t = c
      <3>1. first \o << >> = first
        BY <1>2, ConcatEmptySeq
      <3>2. DueBefore(q, at, t + 1) = first \o DueBefore(later, at, t + 1)
        BY <1>3, <2>2, <3>1 DEF first
      <3> QED
        BY <3>2
    <2>3. CASE t > c
      <3> DEFINE a == DueBefore(later, at, t)
                 b == Keep(q, DueAt(at, t))
      <3>1. DueBefore(q, at, t) = first \o a
        BY <1>5, <2>3
      <3>2. DueBefore(q, at, t + 1) = DueBefore(q, at, t) \o b
        BY DueBeforeNext
      <3>3. Keep(later, DueAt(at, t)) = b
        <4>1. \A r \in R : r \in DueAt(at, t) <=> r \in L /\ r \in DueAt(at, t)
          BY <1>b, <2>3 DEF DueAt
        <4>2. Keep(Keep(q, L), DueAt(at, t)) = Keep(q, DueAt(at, t))
          BY <4>1, KeepKeep
        <4> QED
          BY <4>2 DEF later
      <3>4. DueBefore(later, at, t + 1) = a \o b
        BY <3>3, DueBeforeNext
      <3>5. a \in Seq(R)
        BY <1>1, DueBeforeType
      <3>6. b \in Seq(R)
        BY KeepType
      <3> HIDE DEF a, b
      <3>a. first \in Seq(R)
        BY <1>2
      <3> HIDE DEF first
      <3>7. (first \o a) \o b = first \o (a \o b)
        BY ONLY <3>a, <3>5, <3>6, ConcatIsAssociative, SMTT(30)
      <3>8. DueBefore(q, at, t + 1) = first \o DueBefore(later, at, t + 1)
        BY <3>1, <3>2, <3>4, <3>7
      <3> QED
        BY <3>8
    <2> QED
      BY <2>1, <2>2, <2>3
  <1> HIDE DEF T
  <1>6. \A t \in Nat : t \in T
    BY <1>4, <1>5, AllNumbers
  <1> QED
    BY <1>6 DEF T, first, later, L

-----------------------------------------------------------------------------
(* Sound states: the ones that a reduction reaches.                         *)

Numbered(E) == \A e \in E : e.sequence \in Nat

Increasing(a) == \A i, j \in 1 .. Len(a) : i < j => a[i].sequence < a[j].sequence

\* The state of an order after the events of E that it has applied, which are in
\* increasing order.
Sound(E, x) ==
  /\ x # Irreducible
  /\ x.applied \in Seq(E)
  /\ Increasing(x.applied)
  /\ x = ReduceAll(NewOrderState, x.applied)

\* A later event keeps a sequence increasing.
LEMMA IncreasingAppend ==
  ASSUME NEW E, Numbered(E), NEW a \in Seq(E), Increasing(a), NEW e \in E,
         a # << >> => e.sequence > a[Len(a)].sequence
  PROVE  Increasing(Append(a, e))
  <1> DEFINE n == Len(a)
             longer == Append(a, e)
  <1>1. n \in Nat /\ Len(longer) = n + 1 /\ longer[n + 1] = e /\ \A i \in 1 .. n : longer[i] = a[i]
    BY AppendProperties
  <1>2. \A i \in 1 .. n : a[i] \in E /\ a[i].sequence \in Nat
    BY DEF Numbered
  <1>3. e.sequence \in Nat
    BY DEF Numbered
  <1>4. ASSUME NEW i \in 1 .. n PROVE a[i].sequence < e.sequence
    <2>1. a # << >> /\ n \in 1 .. n
      BY <1>4
    <2>2. a[n].sequence < e.sequence
      BY <1>2, <1>3, <2>1
    <2>3. i = n \/ a[i].sequence < a[n].sequence
      BY <1>1, <2>1 DEF Increasing
    <2> QED
      BY <1>2, <1>3, <2>1, <2>2, <2>3
  <1> HIDE DEF n, longer
  <1>5. SUFFICES ASSUME NEW i \in 1 .. n + 1, NEW j \in 1 .. n + 1, i < j
                 PROVE  longer[i].sequence < longer[j].sequence
    BY <1>1 DEF Increasing, longer
  <1>6. CASE j = n + 1
    <2>1. i \in 1 .. n
      BY <1>1, <1>5, <1>6
    <2> QED
      BY <1>1, <1>4, <1>6, <2>1
  <1>7. CASE j # n + 1
    <2>1. i \in 1 .. n /\ j \in 1 .. n
      BY <1>1, <1>5, <1>7
    <2>2. a[i].sequence < a[j].sequence
      BY <1>5, <2>1 DEF Increasing, n
    <2> QED
      BY <1>1, <2>1, <2>2
  <1> QED
    BY <1>6, <1>7

\* The state of a new order is sound and has applied nothing.
LEMMA NewOrderIsSound ==
  ASSUME NEW E
  PROVE  Sound(E, NewOrderState) /\ ToSet(NewOrderState.applied) = {}
  <1>1. NewOrderState.applied = << >> /\ NewOrderState # Irreducible
    BY DEF NewOrderState, Irreducible
  <1>2. << >> \in Seq(E) /\ Increasing(<< >>)
    BY DEF Increasing
  <1> QED
    BY <1>1, <1>2, ReduceAllEmpty, ToSetEmpty DEF Sound

\* An event that can be observed in a sound state leads to a sound state that has
\* applied it too.
LEMMA ReduceOrderSound ==
  ASSUME NEW E, Numbered(E), NEW x, Sound(E, x), NEW e \in E,
         ReduceOrder(x, e) # Irreducible
  PROVE  /\ Sound(E, ReduceOrder(x, e))
         /\ ToSet(ReduceOrder(x, e).applied) = ToSet(x.applied) \cup {e}
  <1> DEFINE a == x.applied
             y == ReduceOrder(x, e)
  <1>1. /\ x # Irreducible
        /\ a \in Seq(E)
        /\ Increasing(a)
        /\ x = ReduceAll(NewOrderState, a)
    BY DEF Sound
  <1>2. CASE e \in ToSet(a)
    <2>1. y = x
      BY <1>2 DEF ReduceOrder
    <2> QED
      BY <1>2, <2>1
  <1>3. CASE e \notin ToSet(a)
    <2>1. /\ e.sequence > LastSequence(x)
          /\ y = [status |-> e.target, cancelPending |-> StillPending(x, e), applied |-> Append(a, e)]
      BY <1>1, <1>3 DEF ReduceOrder
    <2>2. y.applied = Append(a, e)
      BY <2>1
    <2>3. a # << >> => e.sequence > a[Len(a)].sequence
      BY <2>1 DEF LastSequence, Last
    <2>4. Append(a, e) \in Seq(E) /\ ToSet(Append(a, e)) = ToSet(a) \cup {e}
      BY <1>1, ToSetAppend
    <2> HIDE DEF a
    <2>5. Increasing(Append(a, e))
      BY <1>1, <2>3, IncreasingAppend
    <2>6. ReduceAll(NewOrderState, Append(a, e)) = ReduceOrder(ReduceAll(NewOrderState, a), e)
      BY <1>1, ReduceAllAppend
    <2>7. y = ReduceAll(NewOrderState, Append(a, e))
      BY <1>1, <2>6
    <2> HIDE DEF y
    <2>8. y # Irreducible
      BY DEF y
    <2>9. Sound(E, y)
      BY <2>2, <2>4, <2>5, <2>7, <2>8 DEF Sound
    <2> QED
      BY <2>2, <2>4, <2>9 DEF y, a
  <1> QED
    BY <1>2, <1>3

\* Events that can be observed from a sound state lead to a sound state that has
\* applied them too.
LEMMA ReduceAllSound ==
  ASSUME NEW E, Numbered(E), NEW x, Sound(E, x)
  PROVE  \A es \in Seq(E) : ReduceAll(x, es) # Irreducible =>
           /\ Sound(E, ReduceAll(x, es))
           /\ ToSet(ReduceAll(x, es).applied) = ToSet(x.applied) \cup ToSet(es)
  <1> DEFINE P(es) == ReduceAll(x, es) # Irreducible =>
                        /\ Sound(E, ReduceAll(x, es))
                        /\ ToSet(ReduceAll(x, es).applied) = ToSet(x.applied) \cup ToSet(es)
             T == {es \in Seq(E) : P(es)}
  <1>1. << >> \in T
    <2>1. << >> \in Seq(E)
      OBVIOUS
    <2>2. P(<< >>)
      BY ReduceAllEmpty, ToSetEmpty
    <2> QED
      BY <2>1, <2>2
  <1>2. ASSUME NEW es \in Seq(E), NEW e \in E, es \in T PROVE Append(es, e) \in T
    <2> DEFINE y == ReduceAll(x, es)
    <2>0. P(es)
      BY <1>2
    <2>1. ReduceAll(x, Append(es, e)) = ReduceOrder(y, e)
      BY ReduceAllAppend
    <2>2. ToSet(Append(es, e)) = ToSet(es) \cup {e} /\ Append(es, e) \in Seq(E)
      BY ToSetAppend
    <2>3. ASSUME ReduceOrder(y, e) # Irreducible
          PROVE  /\ Sound(E, ReduceOrder(y, e))
                 /\ ToSet(ReduceOrder(y, e).applied) = ToSet(x.applied) \cup (ToSet(es) \cup {e})
      <3>1. y # Irreducible
        BY <2>3 DEF ReduceOrder
      <3>2. Sound(E, y) /\ ToSet(y.applied) = ToSet(x.applied) \cup ToSet(es)
        BY <2>0, <3>1
      <3> HIDE DEF y
      <3>3. /\ Sound(E, ReduceOrder(y, e))
            /\ ToSet(ReduceOrder(y, e).applied) = ToSet(y.applied) \cup {e}
        BY <2>3, <3>2, ReduceOrderSound
      <3> QED
        BY <3>2, <3>3
    <2>4. P(Append(es, e))
      BY <2>1, <2>2, <2>3
    <2> QED
      BY <2>2, <2>4
  <1> HIDE DEF T
  <1>3. \A es \in Seq(E) : es \in T
    BY <1>1, <1>2, AllSequences
  <1> QED
    BY <1>3 DEF T

-----------------------------------------------------------------------------
(* An increasing sequence is known by its elements.                         *)

FirstOf(a, j) == {a[k] : k \in 1 .. j}

\* The first j elements of an increasing sequence are j elements.
LEMMA CardinalityFirstOf ==
  ASSUME NEW E, Numbered(E), NEW a \in Seq(E), Increasing(a)
  PROVE  \A j \in Nat : j <= Len(a) => IsFiniteSet(FirstOf(a, j)) /\ Cardinality(FirstOf(a, j)) = j
  <1> DEFINE T == {j \in Nat : j <= Len(a) => IsFiniteSet(FirstOf(a, j)) /\ Cardinality(FirstOf(a, j)) = j}
  <1>0. Len(a) \in Nat /\ \A k \in 1 .. Len(a) : a[k].sequence \in Nat
    BY DEF Numbered
  <1>1. 0 \in T
    <2>1. FirstOf(a, 0) = {}
      BY DEF FirstOf
    <2> QED
      BY <2>1, FS_EmptySet
  <1>2. ASSUME NEW j \in Nat, j \in T PROVE j + 1 \in T
    <2> SUFFICES ASSUME j + 1 <= Len(a)
                 PROVE  IsFiniteSet(FirstOf(a, j + 1)) /\ Cardinality(FirstOf(a, j + 1)) = j + 1
      OBVIOUS
    <2>1. j <= Len(a) /\ j + 1 \in 1 .. Len(a)
      BY <1>0
    <2>2. IsFiniteSet(FirstOf(a, j)) /\ Cardinality(FirstOf(a, j)) = j
      BY <1>2, <2>1
    <2>3. FirstOf(a, j + 1) = FirstOf(a, j) \cup {a[j + 1]}
      <3>1. \A k : k \in 1 .. j + 1 <=> k \in 1 .. j \/ k = j + 1
        OBVIOUS
      <3> QED
        BY <3>1 DEF FirstOf
    <2>4. a[j + 1] \notin FirstOf(a, j)
      <3> SUFFICES ASSUME NEW k \in 1 .. j, a[j + 1] = a[k] PROVE FALSE
        BY DEF FirstOf
      <3>1. k \in 1 .. Len(a) /\ k < j + 1
        BY <1>0, <2>1
      <3>2. a[k].sequence < a[j + 1].sequence
        BY <2>1, <3>1 DEF Increasing
      <3> QED
        BY <1>0, <2>1, <3>2
    <2> QED
      BY <2>2, <2>3, <2>4, FS_AddElement
  <1> HIDE DEF T
  <1>3. \A j \in Nat : j \in T
    BY <1>1, <1>2, AllNumbers
  <1> QED
    BY <1>3 DEF T

\* Sorting the elements of an increasing sequence gives it back.
LEMMA BySequenceOfIncreasing ==
  ASSUME NEW E, Numbered(E), NEW a \in Seq(E), Increasing(a)
  PROVE  BySequence(ToSet(a)) = a
  <1> DEFINE n == Len(a)
             es == ToSet(a)
             Below(e) == {f \in es : f.sequence < e.sequence}
  <1>0. n \in Nat /\ a = [i \in 1 .. n |-> a[i]] /\ DOMAIN a = 1 .. n
    OBVIOUS
  <1>1. es = FirstOf(a, n) /\ \A k \in 1 .. n : a[k] \in es
    BY DEF FirstOf, ToSet
  <1>2. \A e \in es : \E k \in 1 .. n : e = a[k]
    BY DEF ToSet
  <1>3. \A k \in 1 .. n : a[k].sequence \in Nat
    BY DEF Numbered
  <1>4. \A i, j \in 1 .. n : i < j => a[i].sequence < a[j].sequence
    BY DEF Increasing
  <1>5. Cardinality(es) = n
    BY <1>0, <1>1, CardinalityFirstOf
  <1> HIDE DEF n, es
  <1>6. ASSUME NEW j \in 1 .. n PROVE Cardinality(Below(a[j])) = j - 1
    <2>1. \A k \in 1 .. n : a[k].sequence < a[j].sequence <=> k \in 1 .. j - 1
      <3> SUFFICES ASSUME NEW k \in 1 .. n PROVE a[k].sequence < a[j].sequence <=> k \in 1 .. j - 1
        OBVIOUS
      <3>1. CASE k < j
        BY <1>0, <1>4, <3>1
      <3>2. CASE k = j
        BY <1>0, <1>3, <3>2
      <3>3. CASE k > j
        <4>1. a[j].sequence < a[k].sequence
          BY <1>4, <3>3
        <4> QED
          BY <1>0, <1>3, <3>3, <4>1
      <3> QED
        BY <1>0, <3>1, <3>2, <3>3
    <2>2. Below(a[j]) \subseteq FirstOf(a, j - 1)
      BY <1>2, <2>1 DEF FirstOf
    <2>3. ASSUME NEW e \in FirstOf(a, j - 1) PROVE e \in Below(a[j])
      <3>1. PICK k \in 1 .. j - 1 : e = a[k]
        BY DEF FirstOf
      <3>2. k \in 1 .. n
        BY <1>0
      <3> QED
        BY <1>1, <2>1, <3>1, <3>2
    <2>4. Below(a[j]) = FirstOf(a, j - 1)
      BY <2>2, <2>3
    <2>5. j - 1 \in Nat /\ j - 1 <= Len(a)
      BY <1>0 DEF n
    <2> QED
      BY <2>4, <2>5, CardinalityFirstOf
  <1>7. ASSUME NEW i \in 1 .. n
        PROVE  (CHOOSE e \in es : Cardinality(Below(e)) = i - 1) = a[i]
    <2> DEFINE At(e) == Cardinality(Below(e)) = i - 1
    <2>1. a[i] \in es /\ At(a[i])
      BY <1>1, <1>6
    <2>2. ASSUME NEW e \in es, At(e) PROVE e = a[i]
      <3>1. PICK k \in 1 .. n : e = a[k]
        BY <1>2
      <3>2. k - 1 = i - 1
        BY <1>6, <2>2, <3>1
      <3>3. k = i
        BY <1>0, <3>2
      <3> QED
        BY <3>1, <3>3
    <2> HIDE DEF At
    <2>3. (CHOOSE e \in es : At(e)) = a[i]
      BY <2>1, <2>2
    <2> QED
      BY <2>3 DEF At
  <1>8. BySequence(es) = [i \in 1 .. n |-> CHOOSE e \in es : Cardinality(Below(e)) = i - 1]
    BY <1>5 DEF BySequence
  <1>9. BySequence(es) = [i \in 1 .. n |-> a[i]]
    BY <1>7, <1>8
  <1> QED
    BY <1>0, <1>9 DEF es

\* Sound states that have applied the same events are the same.
LEMMA SoundStatesEqual ==
  ASSUME NEW E, Numbered(E), NEW x, NEW y, Sound(E, x), Sound(E, y),
         ToSet(x.applied) = ToSet(y.applied)
  PROVE  x = y
  <1>1. BySequence(ToSet(x.applied)) = x.applied
    BY BySequenceOfIncreasing DEF Sound
  <1>2. BySequence(ToSet(y.applied)) = y.applied
    BY BySequenceOfIncreasing DEF Sound
  <1>3. x.applied = y.applied
    BY <1>1, <1>2
  <1> QED
    BY <1>3 DEF Sound

\* A sound state is found again by replaying its events in their order.
LEMMA ReplayOfSound ==
  ASSUME NEW E, Numbered(E), NEW x, Sound(E, x)
  PROVE  ReduceAll(NewOrderState, BySequence(ToSet(x.applied))) = x
  <1>1. BySequence(ToSet(x.applied)) = x.applied
    BY BySequenceOfIncreasing DEF Sound
  <1> QED
    BY <1>1 DEF Sound

-----------------------------------------------------------------------------
(* The events of the reports of an order.                                   *)

ReportIds == DOMAIN scenario.event
ScenarioEvents == {Event(r) : r \in ReportIds}
OrderEvents(o, rs) == {Event(r) : r \in rs \cap OrderReports(o)}

EventsOf(q) == [i \in DOMAIN q |-> Event(q[i])]

\* The events of a sequence of reports.
LEMMA EventsOfType ==
  ASSUME NEW q \in Seq(ReportIds)
  PROVE  /\ EventsOf(q) \in Seq(ScenarioEvents)
         /\ Len(EventsOf(q)) = Len(q)
         /\ \A i \in 1 .. Len(q) : EventsOf(q)[i] = Event(q[i])
         /\ ToSet(EventsOf(q)) = {Event(r) : r \in ToSet(q)}
  <1>1. Len(q) \in Nat /\ DOMAIN q = 1 .. Len(q) /\ \A i \in 1 .. Len(q) : q[i] \in ReportIds
    BY LenProperties
  <1>2. EventsOf(q) = [i \in 1 .. Len(q) |-> Event(q[i])]
    BY <1>1 DEF EventsOf
  <1>3. \A i \in 1 .. Len(q) : Event(q[i]) \in ScenarioEvents
    BY <1>1 DEF ScenarioEvents
  <1>4. EventsOf(q) \in Seq(ScenarioEvents) /\ Len(EventsOf(q)) = Len(q)
    BY <1>1, <1>2, <1>3
  <1>5. DOMAIN EventsOf(q) = 1 .. Len(q) /\ \A i \in 1 .. Len(q) : EventsOf(q)[i] = Event(q[i])
    BY <1>2
  <1>6. ToSet(EventsOf(q)) = {Event(r) : r \in ToSet(q)}
    BY <1>1, <1>5 DEF ToSet
  <1> QED
    BY <1>4, <1>5, <1>6

\* The events with one more report.
LEMMA EventsOfAppend ==
  ASSUME NEW q \in Seq(ReportIds), NEW r \in ReportIds
  PROVE  EventsOf(Append(q, r)) = Append(EventsOf(q), Event(r))
  <1> DEFINE longer == Append(q, r)
             n == Len(q)
             left == EventsOf(longer)
             right == Append(EventsOf(q), Event(r))
  <1>1. /\ longer \in Seq(ReportIds) /\ n \in Nat /\ Len(longer) = n + 1
        /\ longer[n + 1] = r /\ \A i \in 1 .. n : longer[i] = q[i]
    BY AppendProperties
  <1>2. EventsOf(q) \in Seq(ScenarioEvents) /\ Len(EventsOf(q)) = n
        /\ \A i \in 1 .. n : EventsOf(q)[i] = Event(q[i])
    BY EventsOfType
  <1>3. Event(r) \in ScenarioEvents
    BY DEF ScenarioEvents
  <1>4. /\ right \in Seq(ScenarioEvents) /\ Len(right) = n + 1 /\ right[n + 1] = Event(r)
        /\ \A i \in 1 .. n : right[i] = Event(q[i])
    BY <1>2, <1>3, AppendProperties
  <1> HIDE DEF longer, n
  <1>5. /\ left \in Seq(ScenarioEvents) /\ Len(left) = n + 1
        /\ \A i \in 1 .. n + 1 : left[i] = Event(longer[i])
    BY <1>1, EventsOfType
  <1> HIDE DEF left, right
  <1>6. \A i \in 1 .. n + 1 : left[i] = right[i]
    <2> SUFFICES ASSUME NEW i \in 1 .. n + 1 PROVE left[i] = right[i]
      OBVIOUS
    <2>1. i = n + 1 \/ i \in 1 .. n
      BY <1>1
    <2> QED
      BY <1>1, <1>4, <1>5, <2>1
  <1>7. left = right
    BY <1>4, <1>5, <1>6, SeqEqual
  <1> QED
    BY <1>7 DEF left, right, longer

\* The events of two sequences of reports, one after the other.
LEMMA EventsOfConcat ==
  ASSUME NEW p \in Seq(ReportIds)
  PROVE  \A q \in Seq(ReportIds) : EventsOf(p \o q) = EventsOf(p) \o EventsOf(q)
  <1> DEFINE T == {q \in Seq(ReportIds) : EventsOf(p \o q) = EventsOf(p) \o EventsOf(q)}
  <1>0. EventsOf(p) \in Seq(ScenarioEvents)
    BY EventsOfType
  <1>1. << >> \in T
    <2>1. << >> \in Seq(ReportIds) /\ EventsOf(<< >>) = << >>
      BY DEF EventsOf
    <2>2. p \o << >> = p /\ EventsOf(p) \o << >> = EventsOf(p)
      BY <1>0, ConcatEmptySeq
    <2> QED
      BY <2>1, <2>2
  <1>2. ASSUME NEW q \in Seq(ReportIds), NEW r \in ReportIds, q \in T PROVE Append(q, r) \in T
    <2> DEFINE both == p \o q
               left == EventsOf(p)
               right == EventsOf(q)
    <2>1. /\ p \o Append(q, r) = Append(both, r)
          /\ both \in Seq(ReportIds) /\ Append(q, r) \in Seq(ReportIds)
      BY ConcatAppend
    <2>2. left \in Seq(ScenarioEvents) /\ right \in Seq(ScenarioEvents) /\ Event(r) \in ScenarioEvents
      BY EventsOfType DEF ScenarioEvents
    <2>3. EventsOf(both) = left \o right
      BY <1>2
    <2>4. EventsOf(Append(q, r)) = Append(right, Event(r))
      BY EventsOfAppend
    <2> HIDE DEF both, left, right
    <2>5. EventsOf(Append(both, r)) = Append(EventsOf(both), Event(r))
      BY <2>1, EventsOfAppend
    <2>6. left \o Append(right, Event(r)) = Append(left \o right, Event(r))
      BY <2>2, ConcatAppend
    <2>7. EventsOf(p \o Append(q, r)) = left \o EventsOf(Append(q, r))
      BY <2>1, <2>3, <2>4, <2>5, <2>6
    <2> QED
      BY <2>1, <2>7 DEF left
  <1> HIDE DEF T
  <1>3. \A q \in Seq(ReportIds) : q \in T
    BY <1>1, <1>2, AllSequences
  <1> QED
    BY <1>3 DEF T

\* The order events of an order among reports.
LEMMA EventsForType ==
  ASSUME NEW o, NEW q \in Seq(ReportIds)
  PROVE  EventsFor(o, q) \in Seq(ScenarioEvents) /\ ToSet(EventsFor(o, q)) = OrderEvents(o, ToSet(q))
  <1> DEFINE mine == Keep(q, OrderReports(o))
  <1>1. mine \in Seq(ReportIds) /\ ToSet(mine) = ToSet(q) \cap OrderReports(o)
    BY KeepType
  <1>2. EventsFor(o, q) = EventsOf(mine)
    BY DEF EventsFor, EventsOf
  <1> HIDE DEF mine
  <1>3. EventsOf(mine) \in Seq(ScenarioEvents) /\ ToSet(EventsOf(mine)) = {Event(r) : r \in ToSet(mine)}
    BY <1>1, EventsOfType
  <1> QED
    BY <1>1, <1>2, <1>3 DEF OrderEvents

\* The order events with one more report.
LEMMA EventsForAppend ==
  ASSUME NEW o, NEW q \in Seq(ReportIds), NEW r \in ReportIds
  PROVE  EventsFor(o, Append(q, r)) = IF r \in OrderReports(o) THEN Append(EventsFor(o, q), Event(r))
                                                              ELSE EventsFor(o, q)
  <1> DEFINE mine == Keep(q, OrderReports(o))
  <1>1. mine \in Seq(ReportIds)
    BY KeepType
  <1>2. EventsFor(o, q) = EventsOf(mine)
    BY DEF EventsFor, EventsOf
  <1>3. EventsFor(o, Append(q, r)) = EventsOf(Keep(Append(q, r), OrderReports(o)))
    BY DEF EventsFor, EventsOf
  <1>4. Keep(Append(q, r), OrderReports(o)) = IF r \in OrderReports(o) THEN Append(mine, r) ELSE mine
    BY KeepAppend
  <1> HIDE DEF mine
  <1>5. EventsOf(Append(mine, r)) = Append(EventsOf(mine), Event(r))
    BY <1>1, EventsOfAppend
  <1> QED
    BY <1>2, <1>3, <1>4, <1>5

\* The order events of two sequences of reports, one after the other.
LEMMA EventsForConcat ==
  ASSUME NEW o, NEW p \in Seq(ReportIds), NEW q \in Seq(ReportIds)
  PROVE  EventsFor(o, p \o q) = EventsFor(o, p) \o EventsFor(o, q)
  <1> DEFINE a == Keep(p, OrderReports(o))
             b == Keep(q, OrderReports(o))
  <1>1. a \in Seq(ReportIds) /\ b \in Seq(ReportIds)
    BY KeepType
  <1>2. EventsFor(o, p) = EventsOf(a) /\ EventsFor(o, q) = EventsOf(b)
    BY DEF EventsFor, EventsOf
  <1>3. EventsFor(o, p \o q) = EventsOf(Keep(p \o q, OrderReports(o)))
    BY DEF EventsFor, EventsOf
  <1>4. Keep(p \o q, OrderReports(o)) = a \o b
    BY KeepConcat
  <1> HIDE DEF a, b
  <1>5. EventsOf(a \o b) = EventsOf(a) \o EventsOf(b)
    BY <1>1, EventsOfConcat
  <1> QED
    BY <1>2, <1>3, <1>4, <1>5

-----------------------------------------------------------------------------
(* What the reports of a command do to an order.                            *)

IsOrder(x) == x = [intent |-> x.intent, venue |-> x.venue, observed |-> x.observed]

\* A report moves the venue's state, if its event is of the order, and nothing else
\* that matters here.
LEMMA ApplyReportEffect ==
  ASSUME NEW acc, NEW r, NEW modifying, IsOrder(acc.order), acc.order.intent # "NONE"
  PROVE  LET next == ApplyReport(acc, r, modifying).order
         IN  /\ IsOrder(next) /\ next.intent # "NONE"
             /\ next.observed = acc.order.observed
             /\ next.venue = IF IsOrderEvent(Event(r)) THEN ReduceOrder(acc.order.venue, Event(r))
                                                       ELSE acc.order.venue
  <1> DEFINE venue == ReduceOrder(acc.order.venue, Event(r))
             moved == [acc.order EXCEPT !.venue = venue]
             next == ApplyReport(acc, r, modifying).order
  <1>1. moved = [intent |-> acc.order.intent, venue |-> venue, observed |-> acc.order.observed]
    <2> HIDE DEF venue
    <2> QED
      BY DEF IsOrder
  <1>2. [moved EXCEPT !.intent = "REPLACED"] =
          [intent |-> "REPLACED", venue |-> venue, observed |-> acc.order.observed]
    <2> HIDE DEF venue, moved
    <2> QED
      BY <1>1
  <1>3. CASE IsOrderEvent(Event(r))
    <2>1. next = moved \/ next = [moved EXCEPT !.intent = "REPLACED"]
      BY <1>3 DEF ApplyReport
    <2> HIDE DEF next, moved, venue
    <2>2. /\ IsOrder(next)
          /\ next.intent # "NONE" /\ next.observed = acc.order.observed /\ next.venue = venue
      BY <1>1, <1>2, <2>1 DEF IsOrder, moved
    <2> QED
      BY <1>3, <2>2 DEF next, venue
  <1>4. CASE ~ IsOrderEvent(Event(r))
    <2>1. next = acc.order
      BY <1>4 DEF ApplyReport
    <2> QED
      BY <1>4, <2>1
  <1> QED
    BY <1>3, <1>4

\* The orders after each of the first n reports.
Applying(order, reports, modifying, n, f) ==
  f = [i \in 0 .. n |-> IF i = 0 THEN [order |-> order, ready |-> FALSE]
                                 ELSE ApplyReport(f[i - 1], reports[i], modifying)]

\* There is always such a list.
LEMMA ApplyingExists ==
  ASSUME NEW order, NEW reports, NEW modifying
  PROVE  \A n \in Nat : \E f : Applying(order, reports, modifying, n, f)
  <1> DEFINE start == [order |-> order, ready |-> FALSE]
             Next(x, i) == ApplyReport(x, reports[i], modifying)
             T == {n \in Nat : \E f : Applying(order, reports, modifying, n, f)}
  <1>1. 0 \in T
    <2> DEFINE f == [i \in 0 .. 0 |-> start]
    <2>1. Applying(order, reports, modifying, 0, f)
      BY DEF Applying
    <2> QED
      BY <2>1
  <1>2. ASSUME NEW n \in Nat, n \in T PROVE n + 1 \in T
    <2>1. PICK f : Applying(order, reports, modifying, n, f)
      BY <1>2
    <2> DEFINE g == [i \in 0 .. n + 1 |-> IF i \in 0 .. n THEN f[i] ELSE Next(f[n], n + 1)]
    <2>2. \A i \in 0 .. n : f[i] = IF i = 0 THEN start ELSE Next(f[i - 1], i)
      BY <2>1 DEF Applying
    <2> HIDE DEF start, Next
    <2>3. \A i \in 0 .. n + 1 : g[i] = IF i = 0 THEN start ELSE Next(g[i - 1], i)
      BY <2>2
    <2>4. g = [i \in 0 .. n + 1 |-> IF i = 0 THEN start ELSE Next(g[i - 1], i)]
      BY <2>3
    <2>5. Applying(order, reports, modifying, n + 1, g)
      BY <2>4 DEF Applying, start, Next
    <2> QED
      BY <2>5
  <1> HIDE DEF T
  <1>3. \A n \in Nat : n \in T
    BY <1>1, <1>2, AllNumbers
  <1> QED
    BY <1>3 DEF T

\* The reports of a command that are all of order o bring the venue's state of the
\* order to where their order events reduce it, and leave what is observed.
LEMMA ApplyVenueReportsEffect ==
  ASSUME NEW o, NEW order, NEW reports \in Seq(ReportIds), NEW modifying,
         IsOrder(order), order.intent # "NONE",
         \A i \in 1 .. Len(reports) : Event(reports[i]).order = o
  PROVE  LET next == ApplyVenueReports(order, reports, modifying)
         IN  /\ IsOrder(next) /\ next.intent # "NONE"
             /\ next.observed = order.observed
             /\ next.venue = ReduceAll(order.venue, EventsFor(o, reports))
  <1> DEFINE len == Len(reports)
             f == CHOOSE g : Applying(order, reports, modifying, len, g)
             UpTo(n) == SubSeq(reports, 1, n)
             Good(n) == /\ IsOrder(f[n].order) /\ f[n].order.intent # "NONE"
                        /\ f[n].order.observed = order.observed
                        /\ f[n].order.venue = ReduceAll(order.venue, EventsFor(o, UpTo(n)))
             T == {n \in Nat : n <= len => Good(n)}
  <1>0. len \in Nat
    OBVIOUS
  <1>1. Applying(order, reports, modifying, len, f)
    BY <1>0, ApplyingExists
  <1>2. ApplyVenueReports(order, reports, modifying) = f[len].order
    BY DEF ApplyVenueReports, Applying
  <1> HIDE DEF f
  <1>3. f[0] = [order |-> order, ready |-> FALSE]
    BY <1>0, <1>1 DEF Applying
  <1>4. ASSUME NEW n \in Nat, n + 1 <= len PROVE f[n + 1] = ApplyReport(f[n], reports[n + 1], modifying)
    <2>1. n + 1 \in 0 .. len /\ n + 1 # 0 /\ (n + 1) - 1 = n
      BY <1>0, <1>4
    <2> HIDE DEF len
    <2> QED
      BY <1>1, <2>1 DEF Applying
  <1>5. 0 \in T
    <2>1. UpTo(0) = << >>
      BY SubSeqEmpty
    <2>2. EventsFor(o, << >>) = << >>
      BY KeepEmpty DEF EventsFor
    <2>3. ReduceAll(order.venue, << >>) = order.venue
      BY ReduceAllEmpty
    <2>4. f[0].order = order
      BY <1>3
    <2>5. f[0].order.venue = ReduceAll(order.venue, EventsFor(o, UpTo(0)))
      BY <2>1, <2>2, <2>3, <2>4
    <2> HIDE DEF UpTo
    <2>6. Good(0)
      BY <2>4, <2>5
    <2> QED
      BY <2>6
  <1>6. ASSUME NEW n \in Nat, n \in T PROVE n + 1 \in T
    <2> SUFFICES ASSUME n + 1 <= len PROVE Good(n + 1)
      OBVIOUS
    <2> DEFINE r == reports[n + 1]
               front == UpTo(n)
               es == EventsFor(o, front)
    <2>1. Good(n)
      BY <1>0, <1>6
    <2>2. n + 1 \in 1 .. len /\ r \in ReportIds /\ Event(r).order = o
      BY <1>0
    <2>3. front \in Seq(ReportIds) /\ UpTo(n + 1) = Append(front, r)
      <3>1. front \in Seq(ReportIds) /\ Len(front) = n /\ \A i \in 1 .. n : front[i] = reports[i]
        BY <1>0
      <3>2. UpTo(n + 1) \in Seq(ReportIds) /\ Len(UpTo(n + 1)) = n + 1
            /\ \A i \in 1 .. n + 1 : UpTo(n + 1)[i] = reports[i]
        BY <1>0
      <3> HIDE DEF front, r
      <3>3. /\ Append(front, r) \in Seq(ReportIds) /\ Len(Append(front, r)) = n + 1
            /\ Append(front, r)[n + 1] = r /\ \A i \in 1 .. n : Append(front, r)[i] = front[i]
        BY <2>2, <3>1, AppendProperties
      <3>4. \A i \in 1 .. n + 1 : Append(front, r)[i] = reports[i]
        BY <3>1, <3>3 DEF r
      <3> DEFINE longer == Append(front, r)
                 whole == UpTo(n + 1)
      <3> HIDE DEF longer, whole
      <3>5. whole = longer
        BY <3>2, <3>3, <3>4, SeqEqual DEF whole, longer
      <3> QED
        BY <3>1, <3>5 DEF whole, longer
    <2>4. r \in OrderReports(o) <=> IsOrderEvent(Event(r))
      BY <2>2 DEF OrderReports, ReportIds
    <2>5. EventsFor(o, Append(front, r)) = IF IsOrderEvent(Event(r)) THEN Append(es, Event(r)) ELSE es
      <3> HIDE DEF front, r
      <3> QED
        BY <2>2, <2>3, <2>4, EventsForAppend
    <2>6. es \in Seq(ScenarioEvents) /\ Event(r) \in ScenarioEvents
      <3> HIDE DEF front, r
      <3> QED
        BY <2>2, <2>3, EventsForType DEF ScenarioEvents
    <2> HIDE DEF UpTo, front, r, es
    <2>7. ReduceAll(order.venue, Append(es, Event(r))) = ReduceOrder(ReduceAll(order.venue, es), Event(r))
      BY <2>6, ReduceAllAppend
    <2>8. f[n + 1] = ApplyReport(f[n], r, modifying)
      BY <1>4 DEF r
    <2>9. /\ IsOrder(f[n].order) /\ f[n].order.intent # "NONE"
          /\ f[n].order.observed = order.observed
          /\ f[n].order.venue = ReduceAll(order.venue, es)
      BY <2>1 DEF es, front
    <2> DEFINE next == ApplyReport(f[n], r, modifying).order
    <2>10. /\ IsOrder(next) /\ next.intent # "NONE"
           /\ next.observed = f[n].order.observed
           /\ next.venue = IF IsOrderEvent(Event(r)) THEN ReduceOrder(f[n].order.venue, Event(r))
                                                     ELSE f[n].order.venue
      BY <2>9, ApplyReportEffect
    <2> HIDE DEF next
    <2>11. f[n + 1].order = next
      BY <2>8 DEF next
    <2>12. next.venue = ReduceAll(order.venue, EventsFor(o, Append(front, r)))
      BY <2>5, <2>7, <2>9, <2>10
    <2> QED
      BY <2>3, <2>9, <2>10, <2>11, <2>12
  <1> HIDE DEF T
  <1>7. \A n \in Nat : n \in T
    BY <1>5, <1>6, AllNumbers
  <1>8. Good(len)
    BY <1>0, <1>7 DEF T
  <1>9. UpTo(len) = reports
    BY SubSeqFull
  <1> QED
    BY <1>2, <1>8, <1>9

-----------------------------------------------------------------------------
(* The inductive invariant.                                                 *)

Delivered == ToSet(retained) \ ToSet(queue)
Past == checkpoint.snapshot
PastDelivered == ToSet(Past.retained) \ ToSet(Past.queue)

SandboxTypes ==
  /\ scenario \in Scenario
  /\ clock \in 0 .. MaxTime
  /\ queue \in Seq(ReportIds)
  /\ retained \in Seq(ReportIds)
  /\ orders = [o \in Order |-> orders[o]]
  /\ \A o \in Order : IsOrder(orders[o]) /\ (orders[o].intent = "NONE" => orders[o] = NoOrder)

\* Every report is of a command that was executed and of an order that exists, and
\* the delivered ones are in the ledger.
ReportsKept ==
  /\ ToSet(queue) \subseteq ToSet(retained)
  /\ \A r \in ToSet(retained) :
       /\ \E c \in executed : c \in DOMAIN scenario.plan /\ r \in ToSet(scenario.plan[c].reports)
       /\ Event(r).order \in Placed(orders)
  /\ \A r \in Delivered : Event(r) \in ledger

\* What is observed of an order is the reduction of what was delivered of it.
ObservedIsDelivered ==
  \A o \in Order : /\ Sound(ScenarioEvents, orders[o].observed)
                   /\ ToSet(orders[o].observed.applied) = OrderEvents(o, Delivered)

VenueReached ==
  /\ QueueLeadsToVenue
  /\ \A o \in Order : orders[o].venue # Irreducible

\* The checkpoint is of an earlier state of the same client: less was delivered,
\* and an order that had ended has not moved.
CheckpointIsPast ==
  /\ Past.retained \in Seq(ReportIds)
  /\ PastDelivered \subseteq Delivered
  /\ \A o \in Order : /\ Sound(ScenarioEvents, Past.orders[o].observed)
                      /\ ToSet(Past.orders[o].observed.applied) = OrderEvents(o, PastDelivered)
  /\ Placed(Past.orders) \subseteq Placed(orders)
  /\ \A o \in Placed(Past.orders) :
       Past.orders[o].venue.status \in TerminalOrderStatuses => orders[o].venue = Past.orders[o].venue

\* The inductive invariant: what is observed is what was delivered, the queue leads
\* to the venue, and the checkpoint is of the past.
SandboxInv ==
  /\ SandboxTypes
  /\ ReportsKept
  /\ ObservedIsDelivered
  /\ VenueReached
  /\ CheckpointIsPast

\* What a scenario says of its reports.
LEMMA ScenarioFacts ==
  ASSUME scenario \in Scenario
  PROVE  /\ MaxTime \in Nat
         /\ scenario.deliverAt \in [ReportIds -> Nat]
         /\ \A r \in ReportIds : scenario.deliverAt[r] <= MaxTime
         /\ Numbered(ScenarioEvents)
         /\ \A c \in DOMAIN scenario.plan :
              /\ scenario.plan[c].order \in Order
              /\ scenario.plan[c].reports \in Seq(ReportIds)
              /\ \A i \in 1 .. Len(scenario.plan[c].reports) :
                   Event(scenario.plan[c].reports[i]).order = scenario.plan[c].order
              /\ \A d \in DOMAIN scenario.plan :
                   c # d => ToSet(scenario.plan[c].reports) \cap ToSet(scenario.plan[d].reports) = {}
  <1>1. SandboxScenario(scenario) /\ MaxTime \in Nat
    BY SandboxAssumption
  <1>2. scenario.deliverAt \in [ReportIds -> 0 .. MaxTime]
    BY <1>1 DEF SandboxScenario, ReportIds
  <1>3. /\ scenario.deliverAt \in [ReportIds -> Nat]
        /\ \A r \in ReportIds : scenario.deliverAt[r] <= MaxTime
    BY <1>1, <1>2
  <1>4. \A r \in ReportIds : scenario.event[r].sequence \in Nat
    BY <1>1 DEF SandboxScenario, ReportIds
  <1>5. Numbered(ScenarioEvents)
    BY <1>4 DEF Numbered, ScenarioEvents, Event
  <1>6. ASSUME NEW c \in DOMAIN scenario.plan
        PROVE  /\ scenario.plan[c].order \in Order
               /\ scenario.plan[c].reports \in Seq(ReportIds)
               /\ \A i \in DOMAIN scenario.plan[c].reports :
                    Event(scenario.plan[c].reports[i]).order = scenario.plan[c].order
    BY <1>1 DEF SandboxScenario, ReportIds, Event
  <1>7. \A c \in DOMAIN scenario.plan :
          DOMAIN scenario.plan[c].reports = 1 .. Len(scenario.plan[c].reports)
    BY <1>6, LenProperties
  <1>8. \A c, d \in DOMAIN scenario.plan :
          \A i \in DOMAIN scenario.plan[c].reports, j \in DOMAIN scenario.plan[d].reports :
            scenario.plan[c].reports[i] = scenario.plan[d].reports[j] => c = d /\ i = j
    BY <1>1 DEF SandboxScenario
  <1>9. \A c, d \in DOMAIN scenario.plan :
          c # d => ToSet(scenario.plan[c].reports) \cap ToSet(scenario.plan[d].reports) = {}
    BY <1>8 DEF ToSet
  <1> QED
    BY <1>1, <1>3, <1>5, <1>6, <1>7, <1>9

\* The delivery order has every report.
LEMMA DeliveryOrderType ==
  ASSUME scenario \in Scenario, NEW q \in Seq(ReportIds)
  PROVE  DeliveryOrder(q) \in Seq(ReportIds) /\ ToSet(DeliveryOrder(q)) = ToSet(q)
  <1> DEFINE at == scenario.deliverAt
             last == MaxTime + 1
  <1>1. at \in [ReportIds -> Nat] /\ last \in Nat /\ \A r \in ReportIds : at[r] < last
    BY ScenarioFacts
  <1>2. ToSet(q) \subseteq ReportIds
    BY DEF ToSet
  <1> HIDE DEF at, last
  <1>3. /\ DueBefore(q, at, last) \in Seq(ReportIds)
        /\ ToSet(DueBefore(q, at, last)) = Earlier(q, at, last)
    BY <1>1, DueBeforeType
  <1>4. Earlier(q, at, last) = ToSet(q)
    BY <1>1, <1>2 DEF Earlier
  <1> QED
    BY <1>3, <1>4 DEF DeliveryOrder, at, last

\* A reduction of the reports of q, in the order in which they are delivered.
LEMMA DeliverySound ==
  ASSUME scenario \in Scenario, NEW o, NEW x, Sound(ScenarioEvents, x), NEW q \in Seq(ReportIds),
         ReduceAll(x, EventsFor(o, DeliveryOrder(q))) # Irreducible
  PROVE  /\ Sound(ScenarioEvents, ReduceAll(x, EventsFor(o, DeliveryOrder(q))))
         /\ ToSet(ReduceAll(x, EventsFor(o, DeliveryOrder(q))).applied) =
              ToSet(x.applied) \cup OrderEvents(o, ToSet(q))
  <1> DEFINE d == DeliveryOrder(q)
             es == EventsFor(o, d)
  <1>1. d \in Seq(ReportIds) /\ ToSet(d) = ToSet(q)
    BY DeliveryOrderType
  <1> HIDE DEF d
  <1>2. es \in Seq(ScenarioEvents) /\ ToSet(es) = OrderEvents(o, ToSet(d))
    BY <1>1, EventsForType
  <1>3. Numbered(ScenarioEvents)
    BY ScenarioFacts
  <1>4. ReduceAll(x, es) # Irreducible
    BY DEF d
  <1> HIDE DEF es
  <1>5. /\ Sound(ScenarioEvents, ReduceAll(x, es))
        /\ ToSet(ReduceAll(x, es).applied) = ToSet(x.applied) \cup ToSet(es)
    BY <1>2, <1>3, <1>4, ReduceAllSound
  <1>6. ToSet(x.applied) \cup ToSet(es) = ToSet(x.applied) \cup OrderEvents(o, ToSet(q))
    BY <1>1, <1>2
  <1> QED
    BY <1>5, <1>6 DEF es, d

\* The venue's state of an order is sound.
LEMMA VenueSound ==
  ASSUME SandboxInv, NEW o \in Order
  PROVE  /\ Sound(ScenarioEvents, orders[o].venue)
         /\ ToSet(orders[o].venue.applied) =
              ToSet(orders[o].observed.applied) \cup OrderEvents(o, ToSet(queue))
  <1>1. /\ scenario \in Scenario /\ queue \in Seq(ReportIds)
        /\ Sound(ScenarioEvents, orders[o].observed)
        /\ orders[o].venue # Irreducible
    BY DEF SandboxInv, SandboxTypes, ObservedIsDelivered, VenueReached
  <1>2. ReduceAll(orders[o].observed, EventsFor(o, DeliveryOrder(queue))) = orders[o].venue
    BY DEF SandboxInv, VenueReached, QueueLeadsToVenue, Observed
  <1> QED
    BY <1>1, <1>2, DeliverySound

\* Whatever the order in which the reports of a command are delivered, they bring
\* the observed state to where they brought the venue.
LEMMA CommandReaches ==
  ASSUME SandboxInv, NEW o \in Order, NEW reports \in Seq(ReportIds), NEW venue,
         venue = ReduceAll(orders[o].venue, EventsFor(o, reports)), venue # Irreducible,
         ReduceAll(orders[o].observed, EventsFor(o, DeliveryOrder(queue \o reports))) # Irreducible
  PROVE  ReduceAll(orders[o].observed, EventsFor(o, DeliveryOrder(queue \o reports))) = venue
  <1> DEFINE obs == orders[o].observed
             all == queue \o reports
             end == ReduceAll(obs, EventsFor(o, DeliveryOrder(all)))
             es == EventsFor(o, reports)
  <1>1. scenario \in Scenario /\ queue \in Seq(ReportIds) /\ Sound(ScenarioEvents, obs)
    BY DEF SandboxInv, SandboxTypes, ObservedIsDelivered
  <1>2. all \in Seq(ReportIds) /\ ToSet(all) = ToSet(queue) \cup ToSet(reports)
    BY <1>1, ToSetConcat
  <1>3. Numbered(ScenarioEvents)
    BY <1>1, ScenarioFacts
  <1>4. end # Irreducible
    OBVIOUS
  <1> HIDE DEF all
  <1>5. /\ Sound(ScenarioEvents, end)
        /\ ToSet(end.applied) = ToSet(obs.applied) \cup OrderEvents(o, ToSet(all))
    BY <1>1, <1>2, <1>4, DeliverySound
  <1>6. /\ Sound(ScenarioEvents, orders[o].venue)
        /\ ToSet(orders[o].venue.applied) = ToSet(obs.applied) \cup OrderEvents(o, ToSet(queue))
    BY VenueSound
  <1>7. es \in Seq(ScenarioEvents) /\ ToSet(es) = OrderEvents(o, ToSet(reports))
    BY EventsForType
  <1> HIDE DEF es, end, obs
  <1>8. venue = ReduceAll(orders[o].venue, es)
    BY DEF es
  <1>9. /\ Sound(ScenarioEvents, venue)
        /\ ToSet(venue.applied) = ToSet(orders[o].venue.applied) \cup ToSet(es)
    <2> DEFINE v == orders[o].venue
    <2>1. Sound(ScenarioEvents, v) /\ es \in Seq(ScenarioEvents)
      BY <1>6, <1>7
    <2>2. ReduceAll(v, es) # Irreducible
      BY <1>8
    <2> HIDE DEF v
    <2>3. /\ Sound(ScenarioEvents, ReduceAll(v, es))
          /\ ToSet(ReduceAll(v, es).applied) = ToSet(v.applied) \cup ToSet(es)
      BY <1>3, <2>1, <2>2, ReduceAllSound
    <2> QED
      BY <1>8, <2>3 DEF v
  <1>10. OrderEvents(o, ToSet(all)) = OrderEvents(o, ToSet(queue)) \cup OrderEvents(o, ToSet(reports))
    BY <1>2 DEF OrderEvents
  <1>11. ToSet(end.applied) = ToSet(venue.applied)
    BY <1>5, <1>6, <1>7, <1>9, <1>10
  <1>12. end = venue
    BY <1>3, <1>5, <1>9, <1>11, SoundStatesEqual
  <1> QED
    BY <1>12 DEF end, all, obs

Later == LaterThan(ReportIds, scenario.deliverAt, clock)

\* What is due is what is not later.
LEMMA DueType ==
  ASSUME SandboxInv
  PROVE  /\ Due \in Seq(ReportIds) /\ ToSet(Due) = ToSet(queue) \ Later
         /\ Keep(queue, Later) \in Seq(ReportIds) /\ ToSet(Keep(queue, Later)) = ToSet(queue) \cap Later
         /\ DeliveryOrder(queue) = Due \o DeliveryOrder(Keep(queue, Later))
  <1> DEFINE at == scenario.deliverAt
             last == MaxTime + 1
             next == clock + 1
  <1>1. scenario \in Scenario /\ queue \in Seq(ReportIds) /\ clock \in 0 .. MaxTime
    BY DEF SandboxInv, SandboxTypes
  <1>2. MaxTime \in Nat /\ at \in [ReportIds -> Nat]
    BY <1>1, ScenarioFacts
  <1>3. clock \in Nat /\ next \in Nat /\ last \in Nat /\ last > clock
    BY <1>1, <1>2
  <1>4. ToSet(queue) \subseteq ReportIds
    BY <1>1 DEF ToSet
  <1>5. \A r \in ReportIds : r \in Later <=> at[r] > clock
    BY DEF Later, LaterThan
  <1>6. Keep(queue, Later) \in Seq(ReportIds) /\ ToSet(Keep(queue, Later)) = ToSet(queue) \cap Later
    BY <1>1, KeepType
  <1>7. \A r \in ReportIds : at[r] < next <=> r \notin Later
    BY <1>2, <1>3, <1>5
  <1> HIDE DEF at, last, next
  <1>8. /\ DueBefore(queue, at, next) \in Seq(ReportIds)
        /\ ToSet(DueBefore(queue, at, next)) = Earlier(queue, at, next)
    BY <1>1, <1>2, <1>3, DueBeforeType
  <1>9. Earlier(queue, at, next) = ToSet(queue) \ Later
    BY <1>4, <1>7 DEF Earlier
  <1>10. DueBefore(queue, at, last) =
           DueBefore(queue, at, clock + 1) \o DueBefore(Keep(queue, Later), at, last)
    <2>1. \A t \in Nat : t > clock =>
            DueBefore(queue, at, t) =
              DueBefore(queue, at, clock + 1) \o DueBefore(Keep(queue, Later), at, t)
      BY <1>1, <1>2, <1>3, DueBeforeSplit DEF Later, at
    <2> QED
      BY <1>3, <2>1
  <1> QED
    BY <1>6, <1>8, <1>9, <1>10 DEF Due, DeliveryOrder, at, last, next

\* A drain brings the observed state to what was delivered with it, from where the
\* rest of the queue still leads to the venue.
LEMMA DrainReaches ==
  ASSUME SandboxInv, NEW o \in Order,
         ReduceAll(orders[o].observed, EventsFor(o, Due)) # Irreducible
  PROVE  LET next == ReduceAll(orders[o].observed, EventsFor(o, Due))
         IN  /\ Sound(ScenarioEvents, next)
             /\ ToSet(next.applied) = OrderEvents(o, ToSet(retained) \ ToSet(Keep(queue, Later)))
             /\ ReduceAll(next, EventsFor(o, DeliveryOrder(Keep(queue, Later)))) = orders[o].venue
             /\ orders[o].intent = "NONE" => next = orders[o].observed
  <1> DEFINE obs == orders[o].observed
             es == EventsFor(o, Due)
             next == ReduceAll(obs, es)
             rest == DeliveryOrder(Keep(queue, Later))
             fs == EventsFor(o, rest)
  <1>1. /\ scenario \in Scenario /\ queue \in Seq(ReportIds) /\ retained \in Seq(ReportIds)
        /\ Sound(ScenarioEvents, obs)
        /\ ToSet(obs.applied) = OrderEvents(o, Delivered)
        /\ ToSet(queue) \subseteq ToSet(retained)
    BY DEF SandboxInv, SandboxTypes, ReportsKept, ObservedIsDelivered
  <1>2. Numbered(ScenarioEvents)
    BY <1>1, ScenarioFacts
  <1>3. /\ Due \in Seq(ReportIds) /\ ToSet(Due) = ToSet(queue) \ Later
        /\ Keep(queue, Later) \in Seq(ReportIds) /\ ToSet(Keep(queue, Later)) = ToSet(queue) \cap Later
        /\ DeliveryOrder(queue) = Due \o rest
    BY DueType
  <1>4. rest \in Seq(ReportIds)
    BY <1>1, <1>3, DeliveryOrderType
  <1>5. es \in Seq(ScenarioEvents) /\ ToSet(es) = OrderEvents(o, ToSet(Due))
    BY <1>3, EventsForType
  <1>6. next # Irreducible
    OBVIOUS
  <1> HIDE DEF rest
  <1>7. fs \in Seq(ScenarioEvents)
    BY <1>4, EventsForType
  <1>8. EventsFor(o, Due \o rest) = es \o fs
    BY <1>3, <1>4, EventsForConcat
  <1>9. ReduceAll(obs, EventsFor(o, DeliveryOrder(queue))) = orders[o].venue
    BY DEF SandboxInv, VenueReached, QueueLeadsToVenue, Observed
  <1>10. orders[o].intent = "NONE" => es = << >>
    <2> SUFFICES ASSUME orders[o].intent = "NONE" PROVE es = << >>
      OBVIOUS
    <2>1. \A r \in ToSet(Due) : Event(r).order # o
      BY <1>1, <1>3 DEF SandboxInv, ReportsKept, Placed
    <2>2. ToSet(es) = {}
      BY <1>5, <2>1 DEF OrderEvents, OrderReports
    <2> HIDE DEF es
    <2> QED
      BY <1>5, <2>2, NoElements
  <1> HIDE DEF obs, es, fs
  <1>11. ReduceAll(obs, es \o fs) = ReduceAll(ReduceAll(obs, es), fs)
    BY <1>5, <1>7, ReduceAllConcat
  <1>12. Sound(ScenarioEvents, next) /\ ToSet(next.applied) = ToSet(obs.applied) \cup ToSet(es)
    BY <1>1, <1>2, <1>5, <1>6, ReduceAllSound
  <1>13. ToSet(obs.applied) \cup ToSet(es) = OrderEvents(o, ToSet(retained) \ ToSet(Keep(queue, Later)))
    <2>1. ToSet(retained) \ ToSet(Keep(queue, Later)) = Delivered \cup ToSet(Due)
      BY <1>1, <1>3 DEF Delivered
    <2> QED
      BY <1>1, <1>5, <2>1 DEF OrderEvents
  <1>14. ReduceAll(next, fs) = orders[o].venue
    BY <1>3, <1>8, <1>9, <1>11
  <1>15. orders[o].intent = "NONE" => next = obs
    BY <1>10, ReduceAllEmpty
  <1> QED
    BY <1>12, <1>13, <1>14, <1>15 DEF obs, es, fs, rest

-----------------------------------------------------------------------------
(* The steps.                                                               *)

\* What is said of reports and events is the same after a step of the same scenario.
LEMMA SameScenario ==
  ASSUME scenario' = scenario
  PROVE  /\ ReportIds' = ReportIds
         /\ ScenarioEvents' = ScenarioEvents
         /\ \A r : Event(r)' = Event(r)
         /\ \A o : OrderReports(o)' = OrderReports(o)
         /\ \A o : OrderEvents(o, Delivered)' = OrderEvents(o, Delivered')
         /\ \A o : OrderEvents(o, PastDelivered)' = OrderEvents(o, PastDelivered')
         /\ \A o : EventsFor(o, DeliveryOrder(queue))' = EventsFor(o, DeliveryOrder(queue'))
  <1>1. ReportIds' = ReportIds
    BY DEF ReportIds
  <1>2. \A r : Event(r)' = Event(r)
    BY DEF Event
  <1>3. ScenarioEvents' = ScenarioEvents
    BY DEF ScenarioEvents, ReportIds, Event
  <1>4. \A o : OrderReports(o)' = OrderReports(o)
    BY DEF OrderReports, Event
  <1>5. \A o : OrderEvents(o, Delivered)' = OrderEvents(o, Delivered')
    BY DEF OrderEvents, OrderReports, Event
  <1>6. \A o : OrderEvents(o, PastDelivered)' = OrderEvents(o, PastDelivered')
    BY DEF OrderEvents, OrderReports, Event
  <1>7. \A o : EventsFor(o, DeliveryOrder(queue))' = EventsFor(o, DeliveryOrder(queue'))
    BY DEF EventsFor, DeliveryOrder, OrderReports, Event
  <1> QED
    BY <1>1, <1>2, <1>3, <1>4, <1>5, <1>6, <1>7

\* A step that leaves the orders and their reports keeps the invariant.
LEMMA QuietStep ==
  ASSUME SandboxInv, UNCHANGED <<scenario, orders, queue, retained, checkpoint>>,
         clock' \in 0 .. MaxTime, executed \subseteq executed', ledger \subseteq ledger'
  PROVE  SandboxInv'
  <1>1. SandboxTypes'
    BY DEF SandboxInv, SandboxTypes, ReportIds
  <1>2. ReportsKept'
    BY DEF SandboxInv, ReportsKept, Delivered, Event, Placed
  <1>3. /\ ReportIds' = ReportIds /\ ScenarioEvents' = ScenarioEvents
        /\ Delivered' = Delivered /\ PastDelivered' = PastDelivered /\ Past' = Past
        /\ \A o : OrderEvents(o, Delivered)' = OrderEvents(o, Delivered)
        /\ \A o : OrderEvents(o, PastDelivered)' = OrderEvents(o, PastDelivered)
        /\ \A o : EventsFor(o, DeliveryOrder(queue))' = EventsFor(o, DeliveryOrder(queue))
    BY SameScenario DEF Delivered, PastDelivered, Past
  <1>4. ObservedIsDelivered'
    BY <1>3 DEF SandboxInv, ObservedIsDelivered
  <1>5. VenueReached'
    BY <1>3 DEF SandboxInv, VenueReached, QueueLeadsToVenue, Observed
  <1>6. CheckpointIsPast'
    BY <1>3 DEF SandboxInv, CheckpointIsPast, Placed
  <1> QED
    BY <1>1, <1>2, <1>4, <1>5, <1>6 DEF SandboxInv

\* Recording a checkpoint keeps the invariant: the present becomes the past.
LEMMA CheckpointStep ==
  ASSUME SandboxInv, RecordCheckpoint
  PROVE  SandboxInv'
  <1> USE DEF RecordCheckpoint, clientVars
  <1>1. SandboxTypes'
    BY DEF SandboxInv, SandboxTypes, ReportIds
  <1>2. ReportsKept'
    BY DEF SandboxInv, ReportsKept, Delivered, Event, Placed
  <1>3. /\ Past' = Snapshot
        /\ Past'.orders = orders /\ Past'.queue = queue /\ Past'.retained = retained
    BY DEF Past, Snapshot
  <1>4. /\ ScenarioEvents' = ScenarioEvents /\ ReportIds' = ReportIds
        /\ Delivered' = Delivered /\ PastDelivered' = Delivered
        /\ \A o : OrderEvents(o, Delivered)' = OrderEvents(o, Delivered)
        /\ \A o : OrderEvents(o, PastDelivered)' = OrderEvents(o, Delivered)
        /\ \A o : EventsFor(o, DeliveryOrder(queue))' = EventsFor(o, DeliveryOrder(queue))
    BY <1>3, SameScenario DEF Delivered, PastDelivered
  <1>5. ObservedIsDelivered'
    BY <1>4 DEF SandboxInv, ObservedIsDelivered
  <1>6. VenueReached'
    BY <1>4 DEF SandboxInv, VenueReached, QueueLeadsToVenue, Observed
  <1>7. CheckpointIsPast'
    <2>1. \A o \in Order : /\ Sound(ScenarioEvents, orders[o].observed)
                           /\ ToSet(orders[o].observed.applied) = OrderEvents(o, Delivered)
      BY DEF SandboxInv, ObservedIsDelivered
    <2>2. orders' = orders
      OBVIOUS
    <2>3. Past'.retained \in Seq(ReportIds)
      BY <1>3 DEF SandboxInv, SandboxTypes
    <2> QED
      BY <1>3, <1>4, <2>1, <2>2, <2>3 DEF CheckpointIsPast, Placed
  <1> QED
    BY <1>1, <1>2, <1>5, <1>6, <1>7 DEF SandboxInv

\* An order with another observed state.
LEMMA ObserveOrder ==
  ASSUME NEW x, IsOrder(x), NEW y
  PROVE  LET next == [x EXCEPT !.observed = y]
         IN  /\ IsOrder(next) /\ next.intent = x.intent /\ next.venue = x.venue /\ next.observed = y
  <1>1. [x EXCEPT !.observed = y] = [intent |-> x.intent, venue |-> x.venue, observed |-> y]
    BY DEF IsOrder
  <1> DEFINE next == [x EXCEPT !.observed = y]
  <1> HIDE DEF next
  <1>2. next = [intent |-> x.intent, venue |-> x.venue, observed |-> y]
    BY <1>1 DEF next
  <1>3. next.intent = x.intent /\ next.venue = x.venue /\ next.observed = y
    BY <1>2
  <1>4. IsOrder(next)
    BY <1>2, <1>3 DEF IsOrder
  <1> QED
    BY <1>3, <1>4 DEF next

\* A drain keeps the invariant.
LEMMA DrainStep ==
  ASSUME SandboxInv, DrainReports
  PROVE  SandboxInv'
  <1> DEFINE rest == Keep(queue, Later)
             next(o) == ReduceAll(orders[o].observed, EventsFor(o, Due))
  <1>1. /\ UNCHANGED <<scenario, clock, retained, executed, checkpoint>>
        /\ queue' = rest
        /\ ledger' = ledger \cup EventSet(Due)
    BY DEF DrainReports, Later, LaterThan, ReportIds
  <1>2. /\ orders' = [o \in Order |-> [orders[o] EXCEPT !.observed = next(o)]]
        /\ \A o \in Order : next(o) # Irreducible
    BY DEF DrainReports, ObservedAfterDrain, Observed
  <1>3. /\ Due \in Seq(ReportIds) /\ ToSet(Due) = ToSet(queue) \ Later
        /\ rest \in Seq(ReportIds) /\ ToSet(rest) = ToSet(queue) \cap Later
    BY DueType
  <1>4. \A o \in Order :
          /\ Sound(ScenarioEvents, next(o))
          /\ ToSet(next(o).applied) = OrderEvents(o, ToSet(retained) \ ToSet(rest))
          /\ ReduceAll(next(o), EventsFor(o, DeliveryOrder(rest))) = orders[o].venue
          /\ orders[o].intent = "NONE" => next(o) = orders[o].observed
    BY <1>2, DrainReaches
  <1> HIDE DEF rest, next
  <1>5. \A o \in Order : IsOrder(orders[o]) /\ (orders[o].intent = "NONE" => orders[o] = NoOrder)
    BY DEF SandboxInv, SandboxTypes
  <1>6. \A o \in Order : orders'[o] = [orders[o] EXCEPT !.observed = next(o)]
    BY <1>2
  <1>7. \A o \in Order : /\ orders'[o].intent = orders[o].intent
                         /\ orders'[o].venue = orders[o].venue
                         /\ orders'[o].observed = next(o)
                         /\ IsOrder(orders'[o])
    <2> SUFFICES ASSUME NEW o \in Order
                 PROVE  /\ orders'[o].intent = orders[o].intent
                        /\ orders'[o].venue = orders[o].venue
                        /\ orders'[o].observed = next(o)
                        /\ IsOrder(orders'[o])
      OBVIOUS
    <2> DEFINE x == orders[o]
               y == [x EXCEPT !.observed = next(o)]
    <2>1. IsOrder(x)
      BY <1>5
    <2>2. orders'[o] = y
      BY <1>6
    <2> HIDE DEF x
    <2>3. IsOrder(y) /\ y.intent = x.intent /\ y.venue = x.venue /\ y.observed = next(o)
      BY <2>1, ObserveOrder
    <2> HIDE DEF y
    <2> QED
      BY <2>2, <2>3 DEF x
  <1>8. Placed(orders)' = Placed(orders)
    BY <1>7 DEF Placed
  <1>9. Delivered' = ToSet(retained) \ ToSet(rest)
    BY <1>1 DEF Delivered
  <1>10. Delivered \subseteq Delivered' /\ Delivered' = Delivered \cup ToSet(Due)
    BY <1>3, <1>9 DEF SandboxInv, ReportsKept, Delivered
  <1>11. SandboxTypes'
    <2>1. ReportIds' = ReportIds
      BY <1>1, SameScenario
    <2>2. orders' = [o \in Order |-> orders'[o]]
      BY <1>2
    <2>3. ASSUME NEW o \in Order
          PROVE  IsOrder(orders'[o]) /\ (orders'[o].intent = "NONE" => orders'[o] = NoOrder)
      <3>1. IsOrder(orders'[o])
        BY <1>7
      <3>2. ASSUME orders'[o].intent = "NONE" PROVE orders'[o] = NoOrder
        <4>1. orders[o] = NoOrder /\ next(o) = orders[o].observed
          BY <1>4, <1>5, <1>7, <3>2
        <4> QED
          BY <1>6, <4>1 DEF NoOrder
      <3> QED
        BY <3>1, <3>2
    <2> QED
      BY <1>1, <1>3, <2>1, <2>2, <2>3 DEF SandboxInv, SandboxTypes
  <1>12. ReportsKept'
    <2>1. \A r : Event(r)' = Event(r)
      BY <1>1, SameScenario
    <2>2. ToSet(queue') \subseteq ToSet(retained')
      BY <1>1, <1>3 DEF SandboxInv, ReportsKept
    <2>3. \A r \in ToSet(retained') :
            \E c \in executed' : c \in DOMAIN scenario'.plan /\ r \in ToSet(scenario'.plan[c].reports)
      BY <1>1 DEF SandboxInv, ReportsKept
    <2>4. \A r \in ToSet(retained') : Event(r).order \in Placed(orders)
      BY <1>1 DEF SandboxInv, ReportsKept
    <2>5. \A r \in Delivered' : Event(r) \in ledger'
      BY <1>1, <1>10 DEF SandboxInv, ReportsKept, EventSet
    <2> QED
      BY <1>8, <2>1, <2>2, <2>3, <2>4, <2>5 DEF ReportsKept
  <1>13. ObservedIsDelivered'
    <2>1. /\ ScenarioEvents' = ScenarioEvents
          /\ \A o : OrderEvents(o, Delivered)' = OrderEvents(o, Delivered')
      BY <1>1, SameScenario
    <2> QED
      BY <1>4, <1>7, <1>9, <2>1 DEF ObservedIsDelivered
  <1>14. VenueReached'
    <2>1. \A o : EventsFor(o, DeliveryOrder(queue))' = EventsFor(o, DeliveryOrder(rest))
      BY <1>1, SameScenario
    <2>2. \A o \in Order : Observed'[o] = next(o)
      BY <1>7 DEF Observed
    <2>3. QueueLeadsToVenue'
      BY <1>4, <1>7, <2>1, <2>2 DEF QueueLeadsToVenue
    <2> QED
      BY <1>7, <2>3 DEF SandboxInv, VenueReached
  <1>15. CheckpointIsPast'
    <2>1. /\ ScenarioEvents' = ScenarioEvents /\ ReportIds' = ReportIds
          /\ Past' = Past /\ PastDelivered' = PastDelivered
          /\ \A o : OrderEvents(o, PastDelivered)' = OrderEvents(o, PastDelivered)
      BY <1>1, SameScenario DEF Past, PastDelivered
    <2>2. Placed(Past.orders)' = Placed(Past.orders)
      BY <2>1 DEF Placed
    <2>3. \A o \in Placed(Past.orders) : o \in Order
      BY DEF Placed
    <2>4. CheckpointIsPast
      BY DEF SandboxInv
    <2>5. PastDelivered' \subseteq Delivered' /\ Placed(Past.orders)' \subseteq Placed(orders)'
      BY <1>8, <1>10, <2>1, <2>2, <2>4 DEF CheckpointIsPast
    <2> QED
      BY <1>7, <2>1, <2>2, <2>3, <2>4, <2>5 DEF CheckpointIsPast
  <1> QED
    BY <1>11, <1>12, <1>13, <1>14, <1>15 DEF SandboxInv

\* A command that passed its checks keeps the invariant: its reports are new, and
\* bring the order to where the rest of the queue brings what is observed of it.
LEMMA CommandStep ==
  ASSUME SandboxInv, NEW c \in DOMAIN scenario.plan, c \notin executed, NEW at \in 0 .. MaxTime,
         NEW order, NEW modifying, NEW next, IsOrder(order), order.intent # "NONE",
         order.observed = orders[scenario.plan[c].order].observed,
         order.venue = orders[scenario.plan[c].order].venue,
         \/ scenario.plan[c].order \notin Placed(orders)
         \/ orders[scenario.plan[c].order].venue.status \notin TerminalOrderStatuses,
         next = ApplyVenueReports(order, scenario.plan[c].reports, modifying),
         PlanValid(c, next), Execute(c, at, next), UNCHANGED <<scenario, ledger, checkpoint>>
  PROVE  SandboxInv'
  <1> DEFINE o0 == scenario.plan[c].order
             reports == scenario.plan[c].reports
             all == queue \o reports
  <1>1. /\ scenario \in Scenario /\ queue \in Seq(ReportIds) /\ retained \in Seq(ReportIds)
        /\ orders = [o \in Order |-> orders[o]]
        /\ \A o \in Order : IsOrder(orders[o]) /\ (orders[o].intent = "NONE" => orders[o] = NoOrder)
    BY DEF SandboxInv, SandboxTypes
  <1>2. /\ o0 \in Order /\ reports \in Seq(ReportIds)
        /\ \A i \in 1 .. Len(reports) : Event(reports[i]).order = o0
        /\ \A d \in DOMAIN scenario.plan : c # d => ToSet(reports) \cap ToSet(scenario.plan[d].reports) = {}
    BY <1>1, ScenarioFacts
  <1>3. /\ orders' = [orders EXCEPT ![o0] = next]
        /\ queue' = all /\ retained' = retained \o reports
        /\ executed' = executed \cup {c} /\ clock' = at
    BY DEF Execute
  <1>4. /\ next.venue # Irreducible
        /\ \A o \in Order : ReduceAll(orders[o].observed, EventsFor(o, DeliveryOrder(all))) # Irreducible
    BY DEF PlanValid, DeliveryReduces, Observed
  <1>5. /\ c \in DOMAIN scenario.plan /\ c \notin executed
        /\ order.observed = orders[o0].observed /\ order.venue = orders[o0].venue
        /\ next = ApplyVenueReports(order, reports, modifying)
        /\ o0 \notin Placed(orders) \/ orders[o0].venue.status \notin TerminalOrderStatuses
    OBVIOUS
  <1> HIDE DEF o0, reports
  <1>6. /\ IsOrder(next) /\ next.intent # "NONE"
        /\ next.observed = orders[o0].observed
        /\ next.venue = ReduceAll(orders[o0].venue, EventsFor(o0, reports))
    BY <1>2, <1>5, ApplyVenueReportsEffect
  <1>7. /\ all \in Seq(ReportIds) /\ ToSet(all) = ToSet(queue) \cup ToSet(reports)
        /\ retained' \in Seq(ReportIds) /\ ToSet(retained') = ToSet(retained) \cup ToSet(reports)
    BY <1>1, <1>2, <1>3, ToSetConcat
  <1>8. ToSet(reports) \cap ToSet(retained) = {}
    BY <1>2, <1>5 DEF SandboxInv, ReportsKept
  <1>9. \A r \in ToSet(reports) : Event(r).order = o0
    BY <1>2 DEF ToSet
  <1> HIDE DEF all
  <1>10. Delivered' = Delivered
    BY <1>3, <1>7, <1>8 DEF Delivered
  <1>11. /\ orders' = [o \in Order |-> orders'[o]]
         /\ orders'[o0] = next
         /\ \A o \in Order \ {o0} : orders'[o] = orders[o]
    BY <1>1, <1>2, <1>3
  <1>12. \A o \in Order : orders'[o].observed = orders[o].observed
    BY <1>6, <1>11
  <1>13. Placed(orders)' = Placed(orders) \cup {o0}
    BY <1>2, <1>6, <1>11 DEF Placed
  <1>14. SandboxTypes'
    <2>1. ReportIds' = ReportIds
      BY SameScenario
    <2>2. \A o \in Order : IsOrder(orders'[o]) /\ (orders'[o].intent = "NONE" => orders'[o] = NoOrder)
      BY <1>1, <1>6, <1>11
    <2>3. scenario' \in Scenario /\ clock' \in 0 .. MaxTime
      BY <1>1, <1>3
    <2>4. queue' \in Seq(ReportIds)' /\ retained' \in Seq(ReportIds)'
      BY <1>3, <1>7, <2>1
    <2> QED
      BY <1>11, <2>2, <2>3, <2>4 DEF SandboxTypes
  <1>15. ReportsKept'
    <2>1. \A r : Event(r)' = Event(r)
      BY SameScenario
    <2>2. ReportsKept
      BY DEF SandboxInv
    <2>3. ToSet(queue') \subseteq ToSet(retained')
      BY <1>3, <1>7, <2>2 DEF ReportsKept
    <2>4. ASSUME NEW r \in ToSet(retained')
          PROVE  /\ \E d \in executed' : d \in DOMAIN scenario'.plan /\ r \in ToSet(scenario'.plan[d].reports)
                 /\ Event(r).order \in Placed(orders)'
      <3>1. CASE r \in ToSet(retained)
        BY <1>3, <1>13, <2>2, <3>1 DEF ReportsKept
      <3>2. CASE r \in ToSet(reports)
        <4>1. c \in executed' /\ c \in DOMAIN scenario'.plan /\ r \in ToSet(scenario'.plan[c].reports)
          BY <1>3, <1>5, <3>2 DEF reports
        <4> QED
          BY <1>9, <1>13, <3>2, <4>1
      <3> QED
        BY <1>7, <3>1, <3>2
    <2>5. \A r \in Delivered' : Event(r) \in ledger'
      BY <1>10, <2>2 DEF ReportsKept
    <2> QED
      BY <2>1, <2>3, <2>4, <2>5 DEF ReportsKept
  <1>16. ObservedIsDelivered'
    <2>1. /\ ScenarioEvents' = ScenarioEvents
          /\ \A o : OrderEvents(o, Delivered)' = OrderEvents(o, Delivered)
      BY <1>10, SameScenario
    <2> QED
      BY <1>12, <2>1 DEF SandboxInv, ObservedIsDelivered
  <1>17. ASSUME NEW o \in Order
         PROVE  /\ orders'[o].venue # Irreducible
                /\ ReduceAll(orders[o].observed, EventsFor(o, DeliveryOrder(all))) = orders'[o].venue
    <2>1. orders'[o].venue = ReduceAll(orders[o].venue, EventsFor(o, reports))
      <3>1. CASE o = o0
        BY <1>6, <1>11, <3>1
      <3>2. CASE o # o0
        <4>1. /\ EventsFor(o, reports) \in Seq(ScenarioEvents)
              /\ ToSet(EventsFor(o, reports)) = OrderEvents(o, ToSet(reports))
          BY <1>2, EventsForType
        <4>2. OrderEvents(o, ToSet(reports)) = {}
          BY <1>9, <3>2 DEF OrderEvents, OrderReports
        <4>3. EventsFor(o, reports) = << >>
          BY <4>1, <4>2, NoElements
        <4> QED
          BY <1>11, <3>2, <4>3, ReduceAllEmpty
      <3> QED
        BY <3>1, <3>2
    <2>2. orders'[o].venue # Irreducible
      <3>1. orders[o].venue # Irreducible
        BY DEF SandboxInv, VenueReached
      <3> QED
        BY <1>4, <1>11, <3>1
    <2> DEFINE venue == orders'[o].venue
    <2> HIDE DEF venue
    <2>3. venue = ReduceAll(orders[o].venue, EventsFor(o, reports)) /\ venue # Irreducible
      BY <2>1, <2>2 DEF venue
    <2>4. ReduceAll(orders[o].observed, EventsFor(o, DeliveryOrder(queue \o reports))) # Irreducible
      BY <1>4 DEF all
    <2>5. ReduceAll(orders[o].observed, EventsFor(o, DeliveryOrder(queue \o reports))) = venue
      BY <1>2, <2>3, <2>4, CommandReaches
    <2> QED
      BY <2>2, <2>5 DEF venue, all
  <1>18. VenueReached'
    <2>1. \A o : EventsFor(o, DeliveryOrder(queue))' = EventsFor(o, DeliveryOrder(all))
      BY <1>3, SameScenario
    <2>2. \A o \in Order : Observed'[o] = orders[o].observed
      BY <1>12 DEF Observed
    <2>3. QueueLeadsToVenue'
      BY <1>17, <2>1, <2>2 DEF QueueLeadsToVenue
    <2> QED
      BY <1>17, <2>3 DEF VenueReached
  <1>19. CheckpointIsPast'
    <2>1. /\ ScenarioEvents' = ScenarioEvents /\ ReportIds' = ReportIds
          /\ Past' = Past /\ PastDelivered' = PastDelivered
          /\ \A o : OrderEvents(o, PastDelivered)' = OrderEvents(o, PastDelivered)
      BY SameScenario DEF Past, PastDelivered
    <2>2. Placed(Past.orders)' = Placed(Past.orders)
      BY <2>1 DEF Placed
    <2>3. CheckpointIsPast
      BY DEF SandboxInv
    <2>4. PastDelivered' \subseteq Delivered' /\ Placed(Past.orders)' \subseteq Placed(orders)'
      BY <1>10, <1>13, <2>1, <2>2, <2>3 DEF CheckpointIsPast
    <2>5. ASSUME NEW o \in Placed(Past.orders), Past.orders[o].venue.status \in TerminalOrderStatuses
          PROVE  orders'[o].venue = Past.orders[o].venue
      <3>1. orders[o].venue = Past.orders[o].venue /\ o \in Placed(orders)
        BY <2>3, <2>5 DEF CheckpointIsPast
      <3>2. o # o0
        BY <1>5, <2>5, <3>1
      <3>3. o \in Order
        BY DEF Placed
      <3> QED
        BY <1>11, <3>1, <3>2, <3>3
    <2> QED
      BY <2>1, <2>2, <2>3, <2>4, <2>5 DEF CheckpointIsPast
  <1> QED
    BY <1>14, <1>15, <1>16, <1>18, <1>19 DEF SandboxInv

\* The invariant holds of a new client.
LEMMA SandboxInitially ==
  ASSUME SandboxInit
  PROVE  SandboxInv
  <1> USE DEF SandboxInit
  <1>1. MaxTime \in Nat
    BY SandboxAssumption
  <1>2. \A o \in Order : orders[o] = NoOrder
    OBVIOUS
  <1>3. /\ NoOrder.intent = "NONE" /\ NoOrder.venue = NewOrderState /\ NoOrder.observed = NewOrderState
        /\ IsOrder(NoOrder)
    BY DEF NoOrder, IsOrder
  <1>4. Delivered = {} /\ ToSet(queue) = {} /\ ToSet(retained) = {}
    BY ToSetEmpty DEF Delivered
  <1>5. SandboxTypes
    BY <1>1, <1>2, <1>3 DEF SandboxTypes
  <1>6. ReportsKept
    BY <1>4 DEF ReportsKept
  <1>7. /\ Sound(ScenarioEvents, NewOrderState) /\ ToSet(NewOrderState.applied) = {}
        /\ \A o : OrderEvents(o, {}) = {}
    BY NewOrderIsSound DEF OrderEvents
  <1>8. ObservedIsDelivered
    BY <1>2, <1>3, <1>4, <1>7 DEF ObservedIsDelivered
  <1>9. VenueReached
    <2>1. << >> \in Seq(ReportIds)
      OBVIOUS
    <2> DEFINE none == << >>
    <2>2. none \in Seq(ReportIds) /\ ToSet(none) = {} /\ queue = none
      BY <2>1, ToSetEmpty
    <2> HIDE DEF none
    <2>3. DeliveryOrder(none) \in Seq(ReportIds) /\ ToSet(DeliveryOrder(none)) = {}
      BY <2>2, DeliveryOrderType
    <2>4. DeliveryOrder(none) = << >>
      BY <2>3, NoElements
    <2>5. \A o : EventsFor(o, << >>) = << >>
      BY KeepEmpty DEF EventsFor
    <2>6. \A o \in Order : ReduceAll(Observed[o], EventsFor(o, DeliveryOrder(queue))) = NewOrderState
      BY <1>2, <1>3, <2>2, <2>4, <2>5, ReduceAllEmpty DEF Observed
    <2>7. NewOrderState # Irreducible
      BY <1>7 DEF Sound
    <2> QED
      BY <1>2, <1>3, <2>6, <2>7 DEF VenueReached, QueueLeadsToVenue
  <1>10. CheckpointIsPast
    <2>1. /\ Past.queue = << >> /\ Past.retained = << >>
          /\ Past.orders = [o \in Order |-> NoOrder]
      BY DEF Past, InitialCheckpoint
    <2>2. PastDelivered = {} /\ Placed(Past.orders) = {} /\ \A o \in Order : Past.orders[o] = NoOrder
      BY <1>3, <2>1, ToSetEmpty DEF PastDelivered, Placed
    <2>3. Past.retained \in Seq(ReportIds)
      BY <2>1
    <2> QED
      BY <1>3, <1>7, <2>2, <2>3 DEF CheckpointIsPast
  <1> QED
    BY <1>5, <1>6, <1>8, <1>9, <1>10 DEF SandboxInv

\* A submission keeps the invariant.
LEMMA SubmitStep ==
  ASSUME SandboxInv, NEW c, NEW at \in 0 .. MaxTime, Submit(c, at)
  PROVE  SandboxInv'
  <1> DEFINE order == [NoOrder EXCEPT !.intent = "SUBMITTED"]
             next == SubmittedOrder(c)
             o0 == scenario.plan[c].order
  <1>1. /\ c \in DOMAIN scenario.plan /\ c \notin executed /\ o0 \notin Placed(orders)
        /\ PlanValid(c, next) /\ Execute(c, at, next)
        /\ UNCHANGED <<scenario, ledger, checkpoint>>
    BY DEF Submit, SubmitValid, Planned
  <1>2. order = [intent |-> "SUBMITTED", venue |-> NewOrderState, observed |-> NewOrderState]
    BY DEF NoOrder
  <1>3. NoOrder.venue = NewOrderState /\ NoOrder.observed = NewOrderState
    BY DEF NoOrder
  <1>4. orders[o0] = NoOrder
    <2>1. scenario \in Scenario
      BY DEF SandboxInv, SandboxTypes
    <2>2. o0 \in Order
      BY <1>1, <2>1, ScenarioFacts
    <2> QED
      BY <1>1, <2>2 DEF SandboxInv, SandboxTypes, Placed
  <1>5. next = ApplyVenueReports(order, scenario.plan[c].reports, FALSE)
    BY DEF SubmittedOrder
  <1> HIDE DEF order, next
  <1>6. /\ IsOrder(order)
        /\ order.intent # "NONE" /\ order.observed = NewOrderState /\ order.venue = NewOrderState
    BY <1>2 DEF IsOrder
  <1> QED
    BY <1>1, <1>3, <1>4, <1>5, <1>6, CommandStep

\* A modification or a cancellation of an open order keeps the invariant.
LEMMA OpenOrderStep ==
  ASSUME SandboxInv, NEW c, NEW at \in 0 .. MaxTime, Modify(c, at) \/ Cancel(c, at)
  PROVE  SandboxInv'
  <1> DEFINE o0 == scenario.plan[c].order
             order == orders[o0]
             next(modifying) == ApplyVenueReports(order, scenario.plan[c].reports, modifying)
  <1>1. PICK modifying \in BOOLEAN : PlanValid(c, next(modifying)) /\ Execute(c, at, next(modifying))
    BY DEF Modify, Cancel
  <1>2. /\ c \in DOMAIN scenario.plan /\ c \notin executed
        /\ o0 \in Placed(orders) /\ order.venue.status \notin TerminalOrderStatuses
        /\ UNCHANGED <<scenario, ledger, checkpoint>>
    BY DEF Modify, Cancel, Planned, Open
  <1>3. IsOrder(order) /\ order.intent # "NONE"
    BY <1>2 DEF SandboxInv, SandboxTypes, Placed
  <1> DEFINE after == next(modifying)
  <1>4. after = ApplyVenueReports(order, scenario.plan[c].reports, modifying)
    OBVIOUS
  <1>5. PlanValid(c, after) /\ Execute(c, at, after)
    BY <1>1
  <1>6. order = orders[scenario.plan[c].order]
    OBVIOUS
  <1> HIDE DEF after, order
  <1> QED
    BY <1>2, <1>3, <1>4, <1>5, <1>6, CommandStep

\* Every step keeps the invariant.
LEMMA SandboxStep ==
  ASSUME SandboxInv, [SandboxNext]_sandboxVars
  PROVE  SandboxInv'
  <1>1. clock \in 0 .. MaxTime /\ MaxTime \in Nat
    BY SandboxAssumption DEF SandboxInv, SandboxTypes
  <1>2. CASE UNCHANGED sandboxVars
    BY <1>1, <1>2, QuietStep DEF sandboxVars, clientVars
  <1>3. ASSUME NEW c \in Command, NEW at \in 0 .. MaxTime, Submit(c, at)
        PROVE  SandboxInv'
    BY <1>3, SubmitStep
  <1>4. ASSUME NEW c \in Command, NEW at \in 0 .. MaxTime, SubmitInterrupted(c, at)
        PROVE  SandboxInv'
    BY <1>1, <1>4, QuietStep DEF SubmitInterrupted, clientVars
  <1>5. ASSUME NEW c \in Command, NEW at \in 0 .. MaxTime, Modify(c, at) \/ Cancel(c, at)
        PROVE  SandboxInv'
    BY <1>5, OpenOrderStep
  <1>6. ASSUME NEW c \in Command, NEW at \in 0 .. MaxTime, ConnectionTransition(c, at)
        PROVE  SandboxInv'
    BY <1>6, QuietStep DEF ConnectionTransition
  <1>7. ASSUME NEW to \in 0 .. MaxTime, AdvanceTime(to)
        PROVE  SandboxInv'
    BY <1>7, QuietStep DEF AdvanceTime
  <1>8. CASE DrainReports
    BY <1>8, DrainStep
  <1>9. ASSUME NEW n, DrainFails(n)
        PROVE  SandboxInv'
    BY <1>1, <1>9, QuietStep DEF DrainFails, clientVars
  <1>10. CASE RecordCheckpoint
    BY <1>10, CheckpointStep
  <1> QED
    BY <1>2, <1>3, <1>4, <1>5, <1>6, <1>7, <1>8, <1>9, <1>10 DEF SandboxNext

-----------------------------------------------------------------------------
(* What the invariant says of reconciliation and recovery.                  *)

\* What was delivered is in the ledger, of orders that exist.
LEMMA DeliveredInLedger ==
  ASSUME SandboxInv
  PROVE  /\ DeliveredEvents(Snapshot) = {Event(r) : r \in Delivered}
         /\ DeliveredEvents(Snapshot) \subseteq ledger
         /\ \A e \in DeliveredEvents(Snapshot) : e.order \in Placed(orders)
         /\ Snapshot.orders = orders /\ Snapshot.queue = queue /\ Snapshot.retained = retained
  <1>1. Snapshot.orders = orders /\ Snapshot.queue = queue /\ Snapshot.retained = retained
    BY DEF Snapshot
  <1>2. DeliveredEvents(Snapshot) = {Event(r) : r \in Delivered}
    BY <1>1 DEF DeliveredEvents, Delivered
  <1>3. ReportsKept
    BY DEF SandboxInv
  <1>4. \A r \in Delivered : Event(r) \in ledger /\ Event(r).order \in Placed(orders)
    BY <1>3 DEF ReportsKept, Delivered
  <1> QED
    BY <1>1, <1>2, <1>4

\* While the ledger has what was delivered and no more, the comparison of an order
\* finds its states.
LEMMA ReplayedIsObserved ==
  ASSUME SandboxInv, ledger = DeliveredEvents(Snapshot), NEW o \in Order
  PROVE  /\ Unattributed(Snapshot, ledger) = {}
         /\ ~ OrderMismatch(Snapshot, ledger, o)
  <1> DEFINE mine == {e \in Usable(Snapshot, ledger) : e.order = o /\ IsOrderEvent(e)}
             obs == orders[o].observed
  <1>1. /\ DeliveredEvents(Snapshot) = {Event(r) : r \in Delivered}
        /\ \A e \in DeliveredEvents(Snapshot) : e.order \in Placed(orders)
        /\ Snapshot.orders = orders /\ Snapshot.queue = queue
    BY DeliveredInLedger
  <1>2. Unattributed(Snapshot, ledger) = {}
    BY <1>1 DEF Unattributed
  <1>3. Usable(Snapshot, ledger) = {Event(r) : r \in Delivered}
    BY <1>1, <1>2 DEF Usable
  <1>4. Delivered \subseteq ReportIds
    BY DEF SandboxInv, SandboxTypes, Delivered, ToSet
  <1>5. mine = OrderEvents(o, Delivered)
    BY <1>3, <1>4 DEF OrderEvents, OrderReports, ReportIds
  <1>6. /\ Numbered(ScenarioEvents)
        /\ Sound(ScenarioEvents, obs) /\ ToSet(obs.applied) = OrderEvents(o, Delivered)
    BY ScenarioFacts DEF SandboxInv, SandboxTypes, ObservedIsDelivered
  <1> HIDE DEF mine, obs
  <1>7. ReduceAll(NewOrderState, BySequence(mine)) = obs
    BY <1>5, <1>6, ReplayOfSound
  <1>8. ReplayedState(Snapshot, ledger, o) = obs
    BY <1>7 DEF ReplayedState, mine
  <1>9. ExpectedVenueState(Snapshot, ledger, o) = orders[o].venue
    BY <1>1, <1>8 DEF ExpectedVenueState, SandboxInv, VenueReached, QueueLeadsToVenue, Observed, obs
  <1>10. Fills(o, ledger) = Fills(o, DeliveredEvents(Snapshot))
    OBVIOUS
  <1> QED
    BY <1>1, <1>2, <1>8, <1>9, <1>10 DEF OrderMismatch, obs

\* The comparison with the ledger fails exactly on the events of a drain that did
\* not finish.
LEMMA ReconciliationIsTruthful ==
  ASSUME SandboxInv
  PROVE  ReconciliationTruthful
  <1> DEFINE D == {Event(r) : r \in ToSet(retained) \ ToSet(queue)}
             status == ReconcileExecutionState(Snapshot, ledger).status
             Wrong == \/ Unattributed(Snapshot, ledger) # {}
                      \/ \E o \in Placed(Snapshot.orders) : OrderMismatch(Snapshot, ledger, o)
  <1>1. /\ DeliveredEvents(Snapshot) = D /\ D \subseteq ledger
        /\ Snapshot.orders = orders /\ Snapshot.queue = queue
    BY DeliveredInLedger DEF Delivered
  <1>2. status = IF Wrong THEN "MISMATCH" ELSE IF queue = << >> THEN "RECONCILED" ELSE "DELIVERY_PENDING"
    BY <1>1 DEF ReconcileExecutionState
  <1> HIDE DEF D
  <1>3. CASE ledger # D
    <2>1. PICK e \in ledger : e \notin D
      BY <1>1, <1>3
    <2>2. e \in Unattributed(Snapshot, ledger)
      BY <1>1, <2>1 DEF Unattributed
    <2>3. Wrong
      BY <2>2
    <2> HIDE DEF Wrong, status
    <2>4. status = "MISMATCH"
      BY <1>2, <2>3
    <2> QED
      BY <1>3, <2>4 DEF ReconciliationTruthful, D, status
  <1>4. CASE ledger = D
    <2>1. \A o \in Order : Unattributed(Snapshot, ledger) = {} /\ ~ OrderMismatch(Snapshot, ledger, o)
      BY <1>1, <1>4, ReplayedIsObserved
    <2>2. Unattributed(Snapshot, ledger) = {}
      <3>1. \A e \in DeliveredEvents(Snapshot) : e.order \in Placed(orders)
        BY DeliveredInLedger
      <3> QED
        BY <1>1, <1>4, <3>1 DEF Unattributed
    <2>3. \A o \in Placed(Snapshot.orders) : o \in Order
      BY DEF Placed
    <2>4. ~ Wrong
      BY <2>1, <2>2, <2>3
    <2> HIDE DEF Wrong, status
    <2>5. status = IF queue = << >> THEN "RECONCILED" ELSE "DELIVERY_PENDING"
      BY <1>2, <2>4
    <2> QED
      BY <1>4, <2>5 DEF ReconciliationTruthful, D, status
  <1> QED
    BY <1>3, <1>4

\* A checkpoint that is restorable or settled has everything the ledger has.
LEMMA RestoreOfExact ==
  ASSUME SandboxInv
  PROVE  RestoreIsExact
  <1> DEFINE D == {Event(r) : r \in ToSet(retained) \ ToSet(queue)}
             PD == {Event(r) : r \in ToSet(Past.retained) \ ToSet(Past.queue)}
             past == checkpoint.snapshot
  <1>1. SUFFICES ASSUME NEW snap \in {Snapshot, past}, NEW rec,
                        rec = ReconcileExecutionState(snap, ledger),
                        NEW disposition, disposition = PlanSandboxRecovery(checkpoint, rec, consumed),
                        disposition \in {"SAFE_TO_RESTORE", "ALREADY_SETTLED"}
                 PROVE  /\ ledger = PD
                        /\ \A o \in Placed(past.orders) :
                             /\ orders[o].observed = past.orders[o].observed
                             /\ disposition = "ALREADY_SETTLED" => orders[o].venue = past.orders[o].venue
    BY DEF RestoreIsExact, Past
  <1>2. ~ StateConflict(past, rec) /\ ~ EvidenceMissing(checkpoint, rec, consumed)
    BY <1>1 DEF PlanSandboxRecovery
  <1>3. disposition = "ALREADY_SETTLED" => Settled(past, rec)
    BY <1>1, <1>2 DEF PlanSandboxRecovery
  <1>4. /\ rec.status # "MISMATCH"
        /\ \A o \in Placed(past.orders) : rec.delivered[o] = DeliveredReports(past, o)
        /\ rec.placed = Placed(past.orders)
    BY <1>2 DEF StateConflict, EvidenceMissing
  <1>5. Unattributed(snap, ledger) = {}
    BY <1>1, <1>4 DEF ReconcileExecutionState
  <1>6. /\ Placed(snap.orders) = Placed(past.orders)
        /\ \A e \in ledger : e.order \in Placed(snap.orders) /\ e \in DeliveredEvents(snap)
    BY <1>1, <1>4, <1>5 DEF ReconcileExecutionState, Unattributed
  <1>7. D \subseteq ledger /\ PD \subseteq D /\ PastDelivered \subseteq Delivered
    BY DeliveredInLedger DEF SandboxInv, CheckpointIsPast, Delivered, PastDelivered
  <1>8. ledger \subseteq PD
    <2>1. CASE snap = past
      BY <1>6, <2>1 DEF DeliveredEvents, Past
    <2>2. CASE snap = Snapshot
      <3> SUFFICES ASSUME NEW e \in ledger PROVE e \in PD
        OBVIOUS
      <3>1. e.order \in Placed(past.orders) /\ e \in DeliveredEvents(Snapshot)
        BY <1>6, <2>2
      <3>2. PICK r \in Delivered : e = Event(r)
        BY <3>1, DeliveredInLedger
      <3> DEFINE o == e.order
                 mine == {x \in ToSet(retained) \ ToSet(queue) :
                            Event(x).order = o /\ Event(x) \in Usable(Snapshot, ledger)}
                 theirs == {x \in ToSet(past.retained) \ ToSet(past.queue) : Event(x).order = o}
      <3>3. o \in Order
        BY <3>1 DEF Placed
      <3>4. rec.delivered[o] = Keep(retained, mine)
        BY <1>1, <2>2, <3>3, DeliveredInLedger DEF ReconcileExecutionState
      <3>5. rec.delivered[o] = Keep(past.retained, theirs)
        BY <1>4, <3>1 DEF DeliveredReports
      <3>6. r \in mine
        BY <1>5, <2>2, <3>2 DEF Usable, Delivered
      <3> HIDE DEF mine, theirs, o
      <3>7. retained \in Seq(ReportIds) /\ Past.retained \in Seq(ReportIds)
        BY DEF SandboxInv, SandboxTypes, CheckpointIsPast
      <3>8. ToSet(Keep(retained, mine)) = ToSet(retained) \cap mine
        BY <3>7, KeepType
      <3>9. ToSet(Keep(past.retained, theirs)) = ToSet(past.retained) \cap theirs
        BY <3>7, KeepType DEF Past
      <3>10. r \in theirs
        BY <3>4, <3>5, <3>6, <3>8, <3>9 DEF mine
      <3> QED
        BY <3>2, <3>10 DEF theirs, Past
    <2> QED
      BY <1>1, <2>1, <2>2
  <1>9. ledger = PD /\ D = PD
    BY <1>7, <1>8
  <1>10. ASSUME NEW o \in Placed(past.orders) PROVE orders[o].observed = past.orders[o].observed
    <2>1. o \in Order
      BY DEF Placed
    <2>2. /\ Sound(ScenarioEvents, orders[o].observed)
          /\ ToSet(orders[o].observed.applied) = OrderEvents(o, Delivered)
      BY <2>1 DEF SandboxInv, ObservedIsDelivered
    <2>3. /\ Sound(ScenarioEvents, past.orders[o].observed)
          /\ ToSet(past.orders[o].observed.applied) = OrderEvents(o, PastDelivered)
      BY <2>1 DEF SandboxInv, CheckpointIsPast, Past
    <2>4. Delivered \subseteq ReportIds
      BY DEF SandboxInv, SandboxTypes, Delivered, ToSet
    <2>5. OrderEvents(o, Delivered) = {e \in D : e.order = o /\ IsOrderEvent(e)}
      BY <2>4 DEF OrderEvents, OrderReports, ReportIds, Delivered
    <2>6. OrderEvents(o, PastDelivered) = {e \in PD : e.order = o /\ IsOrderEvent(e)}
      BY <1>7, <2>4 DEF OrderEvents, OrderReports, ReportIds, PastDelivered
    <2>7. Numbered(ScenarioEvents)
      BY ScenarioFacts DEF SandboxInv, SandboxTypes
    <2>8. ToSet(orders[o].observed.applied) = ToSet(past.orders[o].observed.applied)
      BY <1>9, <2>2, <2>3, <2>5, <2>6
    <2> QED
      BY <2>2, <2>3, <2>7, <2>8, SoundStatesEqual
  <1>11. ASSUME NEW o \in Placed(past.orders), disposition = "ALREADY_SETTLED"
         PROVE  orders[o].venue = past.orders[o].venue
    <2>1. past.orders[o].venue.status \in TerminalOrderStatuses
      BY <1>3, <1>11 DEF Settled
    <2> QED
      BY <1>11, <2>1 DEF SandboxInv, CheckpointIsPast, Past
  <1> QED
    BY <1>9, <1>10, <1>11

-----------------------------------------------------------------------------
(* The theorems, for all orders, commands, reports, scenarios and times.    *)

\* The order in which events are observed does not matter: two reductions of the
\* same events from one sound state that both succeed (domain/orders.py reduces each
\* event by its sequence and the table) end in the same state.
THEOREM ArrivalOrderIrrelevant ==
  ASSUME NEW E, Numbered(E), NEW x, Sound(E, x), NEW es \in Seq(E), NEW fs \in Seq(E),
         ToSet(es) = ToSet(fs),
         ReduceAll(x, es) # Irreducible, ReduceAll(x, fs) # Irreducible
  PROVE  ReduceAll(x, es) = ReduceAll(x, fs)
  <1> DEFINE y == ReduceAll(x, es)
             z == ReduceAll(x, fs)
  <1>1. Sound(E, y) /\ ToSet(y.applied) = ToSet(x.applied) \cup ToSet(es)
    BY ReduceAllSound
  <1>2. Sound(E, z) /\ ToSet(z.applied) = ToSet(x.applied) \cup ToSet(fs)
    BY ReduceAllSound
  <1> HIDE DEF y, z
  <1>3. y = z
    BY <1>1, <1>2, SoundStatesEqual
  <1> QED
    BY <1>3 DEF y, z

\* The inductive invariant holds in every behaviour.
THEOREM SandboxSafety == SandboxSpec => []SandboxInv
  <1>1. SandboxInit => SandboxInv
    BY SandboxInitially
  <1>2. SandboxInv /\ [SandboxNext]_sandboxVars => SandboxInv'
    BY SandboxStep
  <1> QED
    BY <1>1, <1>2, PTL DEF SandboxSpec

\* The reducer accepts what is queued to its end, which brings every order to where
\* the venue is (client.py, _validate_observed_delivery_order and drain_reports),
\* whatever is delayed, duplicated, interrupted or disconnected.
THEOREM QueueAlwaysLeadsToVenue == SandboxSpec => []QueueLeadsToVenue
  <1>1. SandboxInv => QueueLeadsToVenue
    BY DEF SandboxInv, VenueReached
  <1> QED
    BY <1>1, SandboxSafety, PTL

\* Reconciliation with the whole ledger is a mismatch exactly while the ledger has
\* events of a drain that did not finish, and settled exactly when nothing is queued
\* (reconciliation.py).
THEOREM ReconciliationAlwaysTruthful == SandboxSpec => []ReconciliationTruthful
  <1>1. SandboxInv => ReconciliationTruthful
    BY ReconciliationIsTruthful
  <1> QED
    BY <1>1, SandboxSafety, PTL

\* A checkpoint that recovery calls restorable or settled has every event of the
\* ledger and the present observed states, and a settled one the venue's states too
\* (recovery.py).
THEOREM RestoreAlwaysExact == SandboxSpec => []RestoreIsExact
  <1>1. SandboxInv => RestoreIsExact
    BY RestoreOfExact
  <1> QED
    BY <1>1, SandboxSafety, PTL
=============================================================================
