----------------------------- MODULE FoldLemmas -----------------------------
(***************************************************************************)
(* What the proofs of the components share: least and greatest naturals,   *)
(* smallest sets, folds over finite sets, and sums.  An induction is made  *)
(* here by a least counterexample.                                         *)
(***************************************************************************)
EXTENDS Integers, FiniteSets, FiniteSetsExt, FiniteSetTheorems,
        WellFoundedInduction, TLAPS

-----------------------------------------------------------------------------
(* Naturals and finite sets                                                *)

(* A set of naturals has a least member, and what holds at a and goes on   *)
(* holds up to b: what the proofs use for induction.                       *)
LEMMA LeastNatural ==
  ASSUME NEW S \in SUBSET Nat, S # {}
  PROVE  \E m \in S : \A x \in S : m <= x
<1>1. PICK m \in S : \A x \in S : ~(<<x, m>> \in OpToRel(<, Nat))
  BY NatLessThanWellFounded, WFMin, Zenon
<1>2. ASSUME NEW x \in S PROVE m <= x
  <2>1. m \in Nat /\ x \in Nat
    OBVIOUS
  <2>2. ~(x < m)
    BY <1>1, <2>1 DEF OpToRel
  <2> QED
    BY <2>1, <2>2
<1> QED
  BY <1>2

LEMMA Upwards ==
  ASSUME NEW a \in Nat, NEW b \in Nat, NEW Q, a \in Q,
         \A i \in (a + 1)..b : i - 1 \in Q => i \in Q
  PROVE  \A i \in a..b : i \in Q
<1> DEFINE Bad == {i \in a..b : i \notin Q}
<1> SUFFICES ASSUME Bad # {} PROVE FALSE
  OBVIOUS
<1>0. Bad \in SUBSET Nat
  OBVIOUS
<1>1. PICK m \in Bad : \A x \in Bad : m <= x
  BY <1>0, LeastNatural
<1>2. m \in (a + 1)..b /\ m - 1 \in a..b
  BY <1>1
<1>3. m - 1 \in Q
  BY <1>1, <1>2
<1> QED
  BY <1>1, <1>2, <1>3

(* A finite set of naturals has a greatest and a least member.             *)
LEMMA Greatest ==
  ASSUME NEW S \in SUBSET Nat, IsFiniteSet(S), S # {}
  PROVE  Max(S) \in S /\ \A x \in S : x <= Max(S)
<1> DEFINE Q == {n \in Nat : \A x \in S : x <= n}
<1>0. ASSUME NEW T \in SUBSET S
      PROVE IsFiniteSet(T) /\ Cardinality(T) \in Nat /\ (Cardinality(T) = 0 <=> T = {})
            /\ \A x \in T : Cardinality(T \ {x}) = Cardinality(T) - 1
  BY FS_Subset, FS_CardinalityType, FS_EmptySet, FS_RemoveElement
<1> DEFINE R == {k \in Nat : \A T \in SUBSET S : Cardinality(T) = k =>
                     \E n \in Nat : \A x \in T : x <= n}
<1>1. 0 \in R
  BY <1>0
<1>2. ASSUME NEW k \in 1..Cardinality(S), k - 1 \in R PROVE k \in R
  <2>1. ASSUME NEW T \in SUBSET S, Cardinality(T) = k PROVE \E n \in Nat : \A x \in T : x <= n
    <3>1. PICK y \in T : TRUE
      BY <1>0, <2>1
    <3>2. Cardinality(T \ {y}) = k - 1 /\ T \ {y} \in SUBSET S
      BY <1>0, <2>1
    <3>3. PICK n \in Nat : \A x \in T \ {y} : x <= n
      BY <1>2, <3>2
    <3>4. CASE y <= n
      BY <3>3, <3>4
    <3>5. CASE y > n
      <4>1. y \in Nat /\ \A x \in T : x \in Nat /\ x <= y
        BY <3>3, <3>5
      <4> QED
        BY <4>1
    <3> QED
      BY <3>4, <3>5
  <2> QED
    BY <1>2, <2>1
<1>3. Cardinality(S) \in Nat
  BY <1>0
<1>4. Cardinality(S) \in R
  <2> HIDE DEF R
  <2>1. \A i \in (0 + 1)..Cardinality(S) : i - 1 \in R => i \in R
    BY <1>2
  <2>2. \A i \in 0..Cardinality(S) : i \in R
    BY <1>1, <1>3, <2>1, Upwards
  <2> QED
    BY <1>3, <2>2
<1>5. Q # {}
  BY <1>4
<1>6. PICK n \in Q : \A m \in Q : n <= m
  BY <1>5, LeastNatural
<1>7. n \in S
  <2> SUFFICES ASSUME n \notin S PROVE FALSE
    OBVIOUS
  <2>1. \A x \in S : x <= n /\ x # n /\ x \in Nat
    BY <1>6
  <2>2. PICK y \in S : TRUE
    OBVIOUS
  <2>3. n - 1 \in Q
    BY <2>1, <2>2
  <2> QED
    BY <1>6, <2>3
<1>8. \A x \in S : n >= x
  BY <1>6
<1>9. \E x \in S : \A y \in S : x >= y
  BY <1>7, <1>8
<1>10. Max(S) \in S /\ \A y \in S : Max(S) >= y
  BY <1>9, Zenon DEF Max
<1> QED
  BY <1>10

LEMMA Smallest ==
  ASSUME NEW S, IsFiniteSet(S), NEW B \in SUBSET (SUBSET S), B # {}
  PROVE  \E t \in B : \A x \in t : t \ {x} \notin B
<1> DEFINE R == {Cardinality(t) : t \in B}
<1>1. ASSUME NEW t \in B
      PROVE  Cardinality(t) \in Nat /\ \A x \in t : Cardinality(t \ {x}) = Cardinality(t) - 1
  BY FS_Subset, FS_CardinalityType, FS_RemoveElement
<1>2. R \in SUBSET Nat /\ R # {}
  BY <1>1
<1>3. PICK k \in R : \A n \in R : k <= n
  <2> HIDE DEF R
  <2> QED
    BY <1>2, LeastNatural
<1>4. PICK t \in B : k = Cardinality(t)
  BY <1>3
<1>5. ASSUME NEW x \in t, t \ {x} \in B PROVE FALSE
  <2>1. Cardinality(t \ {x}) = k - 1 /\ Cardinality(t \ {x}) \in R /\ k \in Nat
    BY <1>1, <1>4, <1>5
  <2> QED
    BY <1>2, <1>3, <2>1
<1> QED
  BY <1>5

-----------------------------------------------------------------------------
(* Folds                                                                   *)

(* A fold over the subsets of S exists, step by step from the empty set,   *)
(* whichever member pick takes from each: what FoldExists builds, the      *)
(* recursive function of MapThenFoldSet satisfies.                         *)
Small(S, n) == {s \in SUBSET S : Cardinality(s) <= n}

Steps(S, A, pick, F, base, g) ==
  \A s \in DOMAIN g : g[s] = IF s = {} THEN base ELSE F[<<pick[s], g[s \ {pick[s]}]>>]

LEMMA FoldExists ==
  ASSUME NEW A, NEW S, IsFiniteSet(S), NEW pick, \A s \in SUBSET S : s # {} => pick[s] \in s,
         NEW F \in [S \X A -> A], NEW base \in A
  PROVE  \E g \in [SUBSET S -> A] : Steps(S, A, pick, F, base, g)
<1> DEFINE Good(n) == \E g \in [Small(S, n) -> A] : Steps(S, A, pick, F, base, g)
           Bad == {n \in Nat : ~Good(n)}
<1>1. ASSUME NEW s \in SUBSET S
      PROVE  Cardinality(s) \in Nat /\ Cardinality(s) <= Cardinality(S) /\ Cardinality(S) \in Nat
             /\ (Cardinality(s) = 0 <=> s = {})
             /\ \A x \in s : Cardinality(s \ {x}) = Cardinality(s) - 1 /\ s \ {x} \in SUBSET S
  BY FS_Subset, FS_CardinalityType, FS_EmptySet, FS_RemoveElement
<1>2. ASSUME NEW m \in Bad, \A n \in Bad : n >= m
      PROVE  FALSE
  <2>1. CASE m = 0
    <3> DEFINE g == [s \in Small(S, 0) |-> base]
    <3>1. \A s \in Small(S, 0) : s = {}
      BY <1>1 DEF Small
    <3>2. g \in [Small(S, 0) -> A] /\ Steps(S, A, pick, F, base, g)
      BY <3>1 DEF Steps
    <3> QED
      BY <2>1, <3>2
  <2>2. CASE m # 0
    <3>1. m - 1 \in Nat /\ m - 1 \notin Bad
      BY <1>2, <2>2
    <3>2. PICK g \in [Small(S, m - 1) -> A] : Steps(S, A, pick, F, base, g)
      BY <3>1
    <3> DEFINE h == [s \in Small(S, m) |-> IF s = {} THEN base ELSE F[<<pick[s], g[s \ {pick[s]}]>>]]
    <3>3. ASSUME NEW s \in Small(S, m), s # {}
          PROVE  pick[s] \in S /\ s \ {pick[s]} \in Small(S, m - 1)
      BY <1>1, <3>1, <3>3 DEF Small
    <3>4. h \in [Small(S, m) -> A]
      <4>1. ASSUME NEW s \in Small(S, m), s # {} PROVE F[<<pick[s], g[s \ {pick[s]}]>>] \in A
        BY <3>3, <4>1
      <4> QED
        BY <4>1
    <3>5. ASSUME NEW s \in Small(S, m - 1) PROVE h[s] = g[s]
      <4>1. s \in Small(S, m)
        BY <1>1, <3>1 DEF Small
      <4> QED
        BY <3>2, <4>1 DEF Steps
    <3>6. Steps(S, A, pick, F, base, h)
      BY <3>3, <3>5 DEF Steps
    <3>7. Good(m)
      BY <3>4, <3>6
    <3> QED
      BY <3>7
  <2> QED
    BY <2>1, <2>2
<1>3. Bad = {}
  <2> SUFFICES ASSUME Bad # {} PROVE FALSE
    OBVIOUS
  <2>1. PICK m \in Bad : \A n \in Bad : m <= n
    BY LeastNatural
  <2> QED
    BY <1>2, <2>1
<1>4. Good(Cardinality(S)) /\ Small(S, Cardinality(S)) = SUBSET S
  BY <1>1, <1>3 DEF Small
<1> QED
  BY <1>4

-----------------------------------------------------------------------------
(* Sums                                                                    *)

(* The sum of w over S, as the modules write it: MapThenSumSet takes out   *)
(* what CHOOSE picks.                                                      *)
Sum(w, S) == MapThenSumSet(LAMBDA x : w[x], S)

Chosen(s) == CHOOSE x \in s : TRUE

(* What MapThenSumSet's recursive function over the subsets of S computes. *)
Sums(w, S, h) ==
  h = [s \in SUBSET S |-> IF s = {} THEN 0 ELSE w[Chosen(s)] + h[s \ {Chosen(s)}]]

LEMMA SumsExist ==
  ASSUME NEW S, IsFiniteSet(S), NEW w, \A x \in S : w[x] \in Nat
  PROVE  \E h \in [SUBSET S -> Nat] : Sums(w, S, h)
<1> DEFINE pick == [s \in SUBSET S |-> Chosen(s)]
           F == [p \in S \X Nat |-> w[p[1]] + p[2]]
<1>1. \A s \in SUBSET S : s # {} => Chosen(s) \in s
  BY DEF Chosen
<1>2. \A s \in SUBSET S : s # {} => pick[s] \in s
  BY <1>1
<1>3. F \in [S \X Nat -> Nat]
  OBVIOUS
<1>4. \E g \in [SUBSET S -> Nat] : Steps(S, Nat, pick, F, 0, g)
  <2> HIDE DEF pick, F
  <2> QED
    BY <1>2, <1>3, FoldExists
<1>5. PICK g \in [SUBSET S -> Nat] : Steps(S, Nat, pick, F, 0, g)
  BY <1>4
<1>6. ASSUME NEW s \in SUBSET S
      PROVE  g[s] = IF s = {} THEN 0 ELSE w[Chosen(s)] + g[s \ {Chosen(s)}]
  <2>1. CASE s = {}
    BY <1>5, <2>1 DEF Steps
  <2>2. CASE s # {}
    <3>1. g[s] = F[<<Chosen(s), g[s \ {Chosen(s)}]>>]
      BY <1>5, <2>2 DEF Steps
    <3>2. Chosen(s) \in S /\ g[s \ {Chosen(s)}] \in Nat
      BY <1>1, <1>5, <2>2
    <3> QED
      BY <2>2, <3>1, <3>2
  <2> QED
    BY <2>1, <2>2
<1>7. Sums(w, S, g)
  BY <1>5, <1>6 DEF Sums
<1> QED
  BY <1>5, <1>7

(* The order in which the members are taken out does not matter.           *)
LEMMA SumsTakeOut ==
  ASSUME NEW S, IsFiniteSet(S), NEW w, \A x \in S : w[x] \in Nat,
         NEW h \in [SUBSET S -> Nat], Sums(w, S, h)
  PROVE  h[{}] = 0 /\ \A s \in SUBSET S : \A x \in s : h[s] = w[x] + h[s \ {x}]
<1> DEFINE Bad == {s \in SUBSET S : \E x \in s : h[s] # w[x] + h[s \ {x}]}
<1>1. h[{}] = 0
  BY DEF Sums
<1>2. ASSUME NEW s \in SUBSET S, s # {}
      PROVE  Chosen(s) \in s /\ h[s] = w[Chosen(s)] + h[s \ {Chosen(s)}]
  BY <1>2 DEF Sums, Chosen
<1>3. Bad = {}
  <2> SUFFICES ASSUME Bad # {} PROVE FALSE
    OBVIOUS
  <2>1. PICK t \in Bad : \A x \in t : t \ {x} \notin Bad
    BY Smallest
  <2>2. PICK x \in t : h[t] # w[x] + h[t \ {x}]
    BY <2>1
  <2> DEFINE p == Chosen(t)
  <2>3. t \in SUBSET S /\ p \in t /\ h[t] = w[p] + h[t \ {p}] /\ p # x
    BY <1>2, <2>1, <2>2
  <2> HIDE DEF p
  <2>4. h[t \ {p}] = w[x] + h[(t \ {p}) \ {x}]
    <3>1. t \ {p} \in SUBSET S /\ x \in t \ {p} /\ t \ {p} \notin Bad
      BY <2>1, <2>3
    <3> QED
      BY <3>1
  <2>5. h[t \ {x}] = w[p] + h[(t \ {x}) \ {p}]
    <3>1. t \ {x} \in SUBSET S /\ p \in t \ {x} /\ t \ {x} \notin Bad
      BY <2>1, <2>3
    <3> QED
      BY <3>1
  <2>6. (t \ {p}) \ {x} = (t \ {x}) \ {p}
    OBVIOUS
  <2>7. w[x] \in Nat /\ w[p] \in Nat /\ h[(t \ {x}) \ {p}] \in Nat
    BY <2>3
  <2>8. PICK n \in Nat : n = h[(t \ {x}) \ {p}]
    BY <2>7
  <2>9. h[t] = w[p] + (w[x] + n) /\ h[t \ {x}] = w[p] + n
    BY <2>3, <2>4, <2>5, <2>6, <2>8
  <2> QED
    BY <2>2, <2>7, <2>9
<1> QED
  BY <1>1, <1>3

(* There is one such function, on the subsets of both when there are two.  *)
LEMMA SumsAgree ==
  ASSUME NEW S, IsFiniteSet(S), NEW T \in SUBSET S, NEW w, NEW v,
         \A x \in S : w[x] \in Nat, \A x \in T : v[x] = w[x],
         NEW h, NEW k, Sums(w, S, h), Sums(v, T, k)
  PROVE  k[T] = h[T]
<1> DEFINE Bad == {s \in SUBSET T : k[s] # h[s]}
<1>1. ASSUME NEW s \in SUBSET T
      PROVE  /\ h[s] = IF s = {} THEN 0 ELSE w[Chosen(s)] + h[s \ {Chosen(s)}]
             /\ k[s] = IF s = {} THEN 0 ELSE v[Chosen(s)] + k[s \ {Chosen(s)}]
             /\ s # {} => Chosen(s) \in s /\ s \ {Chosen(s)} \in SUBSET T
  BY DEF Sums, Chosen
<1>2. IsFiniteSet(T)
  BY FS_Subset
<1>3. Bad = {}
  <2> SUFFICES ASSUME Bad # {} PROVE FALSE
    OBVIOUS
  <2>1. PICK t \in Bad : \A x \in t : t \ {x} \notin Bad
    BY <1>2, Smallest
  <2>2. t # {}
    BY <1>1, <2>1
  <2>3. Chosen(t) \in t /\ t \ {Chosen(t)} \in SUBSET T /\ t \ {Chosen(t)} \notin Bad
    BY <1>1, <2>1, <2>2
  <2>4. k[t \ {Chosen(t)}] = h[t \ {Chosen(t)}] /\ v[Chosen(t)] = w[Chosen(t)]
    BY <2>1, <2>3
  <2> QED
    BY <1>1, <2>1, <2>2, <2>4
<1> QED
  BY <1>3

(* The sum is what the function of any larger finite set says.             *)
LEMMA SumIs ==
  ASSUME NEW S, IsFiniteSet(S), NEW T \in SUBSET S, NEW w, \A x \in S : w[x] \in Nat,
         NEW h, Sums(w, S, h)
  PROVE  Sum(w, T) = h[T]
<1> DEFINE body(f) == [s \in SUBSET T |->
                         IF s = {} THEN 0
                         ELSE w[CHOOSE x \in s : TRUE] + f[s \ {CHOOSE x \in s : TRUE}]]
           iter == CHOOSE f : f = body(f)
<1>1. PICK g : Sums(w, T, g)
  BY SumsExist, FS_Subset
<1>2. g = body(g)
  BY <1>1 DEF Sums, Chosen
<1>3. iter = body(iter)
  <2> HIDE DEF body
  <2> QED
    BY <1>2
<1>4. Sum(w, T) = iter[T]
  BY DEF Sum, MapThenSumSet, MapThenFoldSet
<1>5. Sums(w, T, iter)
  <2> HIDE DEF iter
  <2> QED
    BY <1>3 DEF Sums, Chosen
<1> HIDE DEF iter
<1>6. iter[T] = h[T]
  BY <1>5, SumsAgree
<1> QED
  BY <1>4, <1>6

(* What a sum is made of, whichever member is taken out.                   *)
LEMMA SumTakesOut ==
  ASSUME NEW S, IsFiniteSet(S), NEW w, \A x \in S : w[x] \in Nat
  PROVE  /\ Sum(w, S) \in Nat
         /\ S = {} => Sum(w, S) = 0
         /\ \A x \in S : Sum(w, S) = w[x] + Sum(w, S \ {x})
<1>1. PICK h \in [SUBSET S -> Nat] : Sums(w, S, h)
  BY SumsExist
<1>2. \A T \in SUBSET S : Sum(w, T) = h[T]
  BY <1>1, SumIs
<1>3. h[{}] = 0 /\ \A s \in SUBSET S : \A x \in s : h[s] = w[x] + h[s \ {x}]
  BY <1>1, SumsTakeOut
<1> QED
  BY <1>2, <1>3

(* A sum over fewer, or of less, is no larger.                             *)
LEMMA SumGrows ==
  ASSUME NEW S, IsFiniteSet(S), NEW T \in SUBSET S, NEW v, NEW w,
         \A x \in S : w[x] \in Nat, \A x \in T : v[x] \in Nat /\ v[x] <= w[x]
  PROVE  Sum(v, T) <= Sum(w, S)
<1> DEFINE Bad == {s \in SUBSET S : ~(Sum(v, s \cap T) <= Sum(w, s))}
<1>1. ASSUME NEW s \in SUBSET S
      PROVE  /\ Sum(w, s) \in Nat /\ Sum(v, s \cap T) \in Nat
             /\ s = {} => Sum(w, s) = 0 /\ Sum(v, s \cap T) = 0
             /\ \A x \in s : Sum(w, s) = w[x] + Sum(w, s \ {x})
             /\ \A x \in s \cap T :
                  Sum(v, s \cap T) = v[x] + Sum(v, (s \ {x}) \cap T)
  <2>1. IsFiniteSet(s) /\ IsFiniteSet(s \cap T)
    BY FS_Subset
  <2>2. \A x \in s \cap T : (s \cap T) \ {x} = (s \ {x}) \cap T
    OBVIOUS
  <2>3. /\ Sum(w, s) \in Nat
        /\ s = {} => Sum(w, s) = 0
        /\ \A x \in s : Sum(w, s) = w[x] + Sum(w, s \ {x})
    BY <2>1, SumTakesOut
  <2>4. \A x \in s \cap T : v[x] \in Nat
    OBVIOUS
  <2>5. /\ Sum(v, s \cap T) \in Nat
        /\ s \cap T = {} => Sum(v, s \cap T) = 0
        /\ \A x \in s \cap T : Sum(v, s \cap T) = v[x] + Sum(v, (s \cap T) \ {x})
    BY <2>1, <2>4, SumTakesOut
  <2> QED
    BY <2>2, <2>3, <2>5
<1>2. Bad = {}
  <2> SUFFICES ASSUME Bad # {} PROVE FALSE
    OBVIOUS
  <2>1. PICK t \in Bad : \A x \in t : t \ {x} \notin Bad
    BY Smallest
  <2>2. t # {}
    BY <1>1, <2>1
  <2>3. PICK x \in t : t \ {x} \notin Bad
    BY <2>1, <2>2
  <2>4. /\ t \ {x} \in SUBSET S /\ x \in S
        /\ Sum(v, (t \ {x}) \cap T) <= Sum(w, t \ {x})
    BY <2>1, <2>3
  <2>5. PICK m \in Nat, n \in Nat :
          m = Sum(v, (t \ {x}) \cap T) /\ n = Sum(w, t \ {x})
    BY <1>1, <2>4
  <2>6. Sum(w, t) = w[x] + n /\ w[x] \in Nat /\ m <= n
    BY <1>1, <2>1, <2>4, <2>5
  <2>7. CASE x \in T
    <3>1. Sum(v, t \cap T) = v[x] + m /\ v[x] \in Nat /\ v[x] <= w[x]
      BY <1>1, <2>1, <2>5, <2>7
    <3> QED
      BY <2>1, <2>6, <3>1
  <2>8. CASE x \notin T
    <3>1. t \cap T = (t \ {x}) \cap T
      BY <2>8
    <3> QED
      BY <2>1, <2>5, <2>6, <3>1
  <2> QED
    BY <2>7, <2>8
<1>3. S \cap T = T /\ S \notin Bad
  BY <1>2
<1> QED
  BY <1>3

=============================================================================
