--------------------------- MODULE NumberTheorems ---------------------------
(***************************************************************************)
(* What the proofs about amounts rest on: division, induction over the     *)
(* naturals and over the subsets of a finite set, and from it the laws of  *)
(* SumFunctionOnSet, the sum the mint's books are kept with.               *)
(***************************************************************************)
EXTENDS FiniteSetTheorems, TLAPS

(***************************************************************************)
(* Division.                                                               *)
(***************************************************************************)
Whole == Nat \ {0}

\* Division by a positive number, the way the solver needs it spelt.
LEMMA DivMod ==
  ASSUME NEW M \in Whole, NEW x \in Nat
  PROVE  /\ x \div M \in Nat /\ (x % M) \in Nat /\ (x % M) < M
         /\ x = M * (x \div M) + (x % M)
BY SMT DEF Whole

\* The quotient is the one number that leaves less than M.
LEMMA DivUnique ==
  ASSUME NEW M \in Whole, NEW a \in Nat, NEW b \in Nat, b < M
  PROVE  (M * a + b) \div M = a
BY SMT DEF Whole

\* A quotient grows with what is divided.
LEMMA DivGrows ==
  ASSUME NEW M \in Whole, NEW x \in Nat, NEW y \in Nat, x <= y
  PROVE  x \div M <= y \div M
<1> DEFINE a == x \div M
           b == y \div M
<1>1. /\ a \in Nat /\ b \in Nat /\ M * a <= x /\ y < M * b + M
  BY DivMod, SMT DEF Whole
<1>2. ~(b + 1 <= a)
  <2> SUFFICES ASSUME b + 1 <= a PROVE FALSE
    OBVIOUS
  <2> HIDE DEF a, b
  <2>1. M * (b + 1) <= M * a
    BY <1>1, SMT DEF Whole
  <2>2. M * (b + 1) = M * b + M
    BY <1>1, SMT DEF Whole
  <2>3. M * a \in Int /\ M * b \in Int /\ M \in Int
    BY <1>1, SMT DEF Whole
  <2> QED BY <1>1, <2>1, <2>2, <2>3, SMT
<1> HIDE DEF a, b
<1>3. a <= b
  BY <1>1, <1>2, SMT
<1> QED BY <1>3 DEF a, b

\* Adding M d times adds d to the quotient.
LEMMA DivShifts ==
  ASSUME NEW M \in Whole, NEW x \in Nat, NEW d \in Nat
  PROVE  (x + M * d) \div M = x \div M + d
<1> DEFINE a == x \div M
           b == x % M
<1>1. a \in Nat /\ b \in Nat /\ b < M /\ x = M * a + b
  BY DivMod
<1> HIDE DEF a, b
<1>2. x + M * d = M * (a + d) + b
  BY <1>1, SMT DEF Whole
<1>3. a + d \in Nat
  BY <1>1, SMT
<1>4. (M * (a + d) + b) \div M = a + d
  BY <1>1, <1>3, DivUnique
<1> QED BY <1>2, <1>4 DEF a

---------------------------------------------------------------------------
(***************************************************************************)
(* Induction.                                                              *)
(***************************************************************************)
\* Induction over a finite set: a family of its subsets has a smallest member,
\* so a claim that fails for one subset fails for one whose parts all keep it.
LEMMA SmallestMember ==
  ASSUME NEW S, IsFiniteSet(S), NEW F, F \subseteq SUBSET S, F # {}
  PROVE  \E m \in F : \A t \in F : t \subseteq m => t = m
  <1>1. F \subseteq FiniteSubsetsOf(S)
    BY FS_FiniteSubsetsOfFinite
  <1>2. PICK m \in F : \A t \in F : ~ (<<t, m>> \in StrictSubsetOrdering(S))
    BY <1>1, FS_StrictSubsetOrderingWellFounded, WFMin
  <1>3. \A t \in F : t \subseteq m => t = m
    BY <1>2 DEF StrictSubsetOrdering
  <1> QED
    BY <1>3

\* Induction over the naturals, for a set.
LEMMA Counting ==
  ASSUME NEW T, 0 \in T, \A n \in Nat : n \in T => n + 1 \in T
  PROVE  Nat \subseteq T
  <1> SUFFICES ASSUME NEW n \in Nat, n \notin T PROVE FALSE
    OBVIOUS
  <1> DEFINE S == 0 .. n
             F == {0 .. k : k \in {k \in 0 .. n : k \notin T}}
  <1>1. IsFiniteSet(S)
    BY FS_Interval
  <1>2. F \subseteq SUBSET S /\ F # {}
    OBVIOUS
  <1>3. \E m \in F : \A t \in F : t \subseteq m => t = m
    <2> HIDE DEF F, S
    <2> QED BY <1>1, <1>2, SmallestMember
  <1>4. PICK k \in 0 .. n : k \notin T /\ \A t \in F : t \subseteq 0 .. k => t = 0 .. k
    BY <1>3
  <1>5. k # 0 /\ k - 1 \in Nat /\ (k - 1) + 1 = k
    BY <1>4
  <1>6. k - 1 \notin T
    BY <1>4, <1>5
  <1>7. 0 .. (k - 1) \in F
    BY <1>4, <1>5, <1>6
  <1>8. 0 .. (k - 1) \subseteq 0 .. k /\ k \in 0 .. k /\ k \notin 0 .. (k - 1)
    BY <1>4, <1>5
  <1> QED
    BY <1>4, <1>7, <1>8

---------------------------------------------------------------------------
(***************************************************************************)
(* Sums.                                                                   *)
(***************************************************************************)
\* The function a sum is computed with: an element chosen, and the rest.
Chosen(s) == CHOOSE x \in s : TRUE
Sums(g, f, D) == g = [s \in D |-> IF s = {} THEN 0 ELSE f[Chosen(s)] + g[s \ {Chosen(s)}]]
UpTo(S, n) == {s \in SUBSET S : Cardinality(s) <= n}

\* Taking one element out of a finite set leaves a smaller one.
LEMMA Smaller ==
  ASSUME NEW S, IsFiniteSet(S), NEW s \in SUBSET S, s # {}
  PROVE  /\ Chosen(s) \in s /\ IsFiniteSet(s) /\ IsFiniteSet(s \ {Chosen(s)})
         /\ Cardinality(s) \in Nat /\ Cardinality(s \ {Chosen(s)}) \in Nat
         /\ Cardinality(s) = Cardinality(s \ {Chosen(s)}) + 1
  <1>1. Chosen(s) \in s
    BY DEF Chosen
  <1>2. IsFiniteSet(s)
    BY FS_Subset
  <1>3. Cardinality(s) \in Nat
    BY <1>2, FS_CardinalityType
  <1>4. /\ IsFiniteSet(s \ {Chosen(s)})
        /\ Cardinality(s \ {Chosen(s)}) = Cardinality(s) - 1
    BY <1>1, <1>2, FS_RemoveElement
  <1>5. Cardinality(s \ {Chosen(s)}) \in Nat
    BY <1>4, FS_CardinalityType
  <1> QED
    BY <1>1, <1>2, <1>3, <1>4, <1>5

\* The sums of all small subsets, from those of smaller ones.
LEMMA SumsUpTo ==
  ASSUME NEW S, IsFiniteSet(S), NEW f, NEW n \in Nat
  PROVE  \E g : Sums(g, f, UpTo(S, n))
  <1> DEFINE T == {m \in Nat : \E g : Sums(g, f, UpTo(S, m))}
  <1>1. 0 \in T
    <2> DEFINE g == [s \in UpTo(S, 0) |-> 0]
    <2>1. \A s \in UpTo(S, 0) : s = {}
      BY FS_Subset, FS_EmptySet, FS_CardinalityType DEF UpTo
    <2>2. Sums(g, f, UpTo(S, 0))
      BY <2>1 DEF Sums
    <2> QED
      BY <2>2
  <1>2. ASSUME NEW m \in Nat, m \in T PROVE m + 1 \in T
    <2>1. PICK g : Sums(g, f, UpTo(S, m))
      BY <1>2
    <2> DEFINE D == UpTo(S, m + 1)
               h == [s \in D |-> IF s = {} THEN 0 ELSE f[Chosen(s)] + g[s \ {Chosen(s)}]]
    <2>2. ASSUME NEW s \in UpTo(S, m) PROVE h[s] = g[s]
      <3>1. s \in D
        BY FS_Subset, FS_CardinalityType DEF UpTo
      <3> QED BY <3>1, <2>1 DEF Sums
    <2>3. ASSUME NEW s \in D, s # {} PROVE s \ {Chosen(s)} \in UpTo(S, m)
      BY <2>3, Smaller DEF UpTo
    <2>4. h = [s \in D |-> IF s = {} THEN 0 ELSE f[Chosen(s)] + h[s \ {Chosen(s)}]]
      BY <2>2, <2>3
    <2>5. Sums(h, f, D)
      BY <2>4 DEF Sums
    <2> HIDE DEF h, D
    <2> QED
      BY <2>5 DEF D
  <1>3. Nat \subseteq T
    <2> HIDE DEF T
    <2> QED BY <1>1, <1>2, Counting
  <1> QED
    BY <1>3

\* So there is a function that sums every subset of a finite set.
LEMMA SumsExist ==
  ASSUME NEW S, IsFiniteSet(S), NEW f
  PROVE  \E g : Sums(g, f, SUBSET S)
  <1>1. Cardinality(S) \in Nat
    BY FS_CardinalityType
  <1>2. UpTo(S, Cardinality(S)) = SUBSET S
    BY FS_Subset DEF UpTo
  <1>3. \E g : Sums(g, f, UpTo(S, Cardinality(S)))
    BY <1>1, SumsUpTo
  <1> QED
    BY <1>2, <1>3

\* And SumFunctionOnSet, which chooses one, is its value at the set.
LEMMA SumIsASum ==
  ASSUME NEW S, IsFiniteSet(S), NEW f
  PROVE  \E g : Sums(g, f, SUBSET S) /\ SumFunctionOnSet(f, S) = g[S]
  <1> DEFINE g == CHOOSE g : Sums(g, f, SUBSET S)
  <1>1. Sums(g, f, SUBSET S)
    BY SumsExist
  <1>2. SumFunctionOnSet(f, S) = g[S]
    BY DEF SumFunctionOnSet, FoldFunctionOnSet, MapThenFoldSet, Sums, Chosen
  <1> HIDE DEF g
  <1> QED
    BY <1>1, <1>2

\* Two such functions agree on the subsets both sum.
LEMMA SumsAgree ==
  ASSUME NEW S, IsFiniteSet(S), NEW R, IsFiniteSet(R), NEW f, NEW g, NEW h,
         Sums(g, f, SUBSET S), Sums(h, f, SUBSET R)
  PROVE  \A s \in SUBSET (S \cap R) : g[s] = h[s]
  <1> SUFFICES ASSUME \E s \in SUBSET (S \cap R) : g[s] # h[s] PROVE FALSE
    OBVIOUS
  <1> DEFINE F == {s \in SUBSET (S \cap R) : g[s] # h[s]}
  <1>1. F \subseteq SUBSET S /\ F # {}
    OBVIOUS
  <1>2. PICK m \in F : \A t \in F : t \subseteq m => t = m
    <2> HIDE DEF F
    <2> QED BY <1>1, SmallestMember
  <1>3. m \in SUBSET S /\ m \in SUBSET R /\ g[m] # h[m]
    OBVIOUS
  <1>4. /\ g[m] = IF m = {} THEN 0 ELSE f[Chosen(m)] + g[m \ {Chosen(m)}]
        /\ h[m] = IF m = {} THEN 0 ELSE f[Chosen(m)] + h[m \ {Chosen(m)}]
    BY <1>3 DEF Sums
  <1>5. m # {} /\ g[m \ {Chosen(m)}] # h[m \ {Chosen(m)}]
    BY <1>3, <1>4
  <1>6. m \ {Chosen(m)} \in F /\ Chosen(m) \in m
    BY <1>3, <1>5 DEF Chosen
  <1> QED
    BY <1>2, <1>6

\* What a sum is: nothing of nothing, and one element more than the rest.
LEMMA SumOfNone ==
  ASSUME NEW f
  PROVE  SumFunctionOnSet(f, {}) = 0
  <1>1. PICK g : Sums(g, f, SUBSET {}) /\ SumFunctionOnSet(f, {}) = g[{}]
    BY SumIsASum, FS_EmptySet
  <1> QED
    BY <1>1 DEF Sums

\* What the sum of a set that is not empty is: one element and the rest.
LEMMA SumOfSome ==
  ASSUME NEW S, IsFiniteSet(S), S # {}, NEW f
  PROVE  SumFunctionOnSet(f, S) = f[Chosen(S)] + SumFunctionOnSet(f, S \ {Chosen(S)})
  <1> DEFINE R == S \ {Chosen(S)}
  <1>1. IsFiniteSet(R)
    BY Smaller
  <1>2. PICK g : Sums(g, f, SUBSET S) /\ SumFunctionOnSet(f, S) = g[S]
    BY SumIsASum
  <1>3. PICK h : Sums(h, f, SUBSET R) /\ SumFunctionOnSet(f, R) = h[R]
    BY <1>1, SumIsASum
  <1>4. g[R] = h[R]
    <2>1. R \in SUBSET (S \cap R)
      OBVIOUS
    <2> HIDE DEF R
    <2> QED
      BY <1>1, <1>2, <1>3, <2>1, SumsAgree
  <1>5. g[S] = f[Chosen(S)] + g[R]
    BY <1>2 DEF Sums
  <1> QED
    BY <1>2, <1>3, <1>4, <1>5

\* Integers add up to an integer.
LEMMA SumIsInt ==
  ASSUME NEW S, IsFiniteSet(S), NEW f, \A x \in S : f[x] \in Int
  PROVE  SumFunctionOnSet(f, S) \in Int
  <1> SUFFICES ASSUME SumFunctionOnSet(f, S) \notin Int PROVE FALSE
    OBVIOUS
  <1> DEFINE F == {s \in SUBSET S : SumFunctionOnSet(f, s) \notin Int}
  <1>1. F \subseteq SUBSET S /\ F # {}
    OBVIOUS
  <1>2. PICK m \in F : \A t \in F : t \subseteq m => t = m
    <2> HIDE DEF F
    <2> QED BY <1>1, SmallestMember
  <1>3. m # {}
    BY SumOfNone
  <1>4. /\ Chosen(m) \in m /\ f[Chosen(m)] \in Int
        /\ SumFunctionOnSet(f, m) = f[Chosen(m)] + SumFunctionOnSet(f, m \ {Chosen(m)})
    BY <1>3, SumOfSome, Smaller
  <1>5. m \ {Chosen(m)} \in F
    BY <1>4
  <1> QED
    BY <1>2, <1>4, <1>5

\* Naturals add up to a natural.
LEMMA SumIsNat ==
  ASSUME NEW S, IsFiniteSet(S), NEW f, \A x \in S : f[x] \in Nat
  PROVE  SumFunctionOnSet(f, S) \in Nat
  <1> SUFFICES ASSUME SumFunctionOnSet(f, S) \notin Nat PROVE FALSE
    OBVIOUS
  <1> DEFINE F == {s \in SUBSET S : SumFunctionOnSet(f, s) \notin Nat}
  <1>1. F \subseteq SUBSET S /\ F # {}
    OBVIOUS
  <1>2. PICK m \in F : \A t \in F : t \subseteq m => t = m
    <2> HIDE DEF F
    <2> QED BY <1>1, SmallestMember
  <1>3. m # {}
    BY SumOfNone
  <1>4. /\ Chosen(m) \in m /\ f[Chosen(m)] \in Nat
        /\ SumFunctionOnSet(f, m) = f[Chosen(m)] + SumFunctionOnSet(f, m \ {Chosen(m)})
    BY <1>3, SumOfSome, Smaller
  <1>5. m \ {Chosen(m)} \in F
    BY <1>4
  <1> QED
    BY <1>2, <1>4, <1>5

\* Any element may be the one taken out.
LEMMA SumWithout ==
  ASSUME NEW S, IsFiniteSet(S), NEW f, \A x \in S : f[x] \in Int, NEW x \in S
  PROVE  SumFunctionOnSet(f, S) = f[x] + SumFunctionOnSet(f, S \ {x})
  <1> DEFINE Parts(s, y) == SumFunctionOnSet(f, s) = f[y] + SumFunctionOnSet(f, s \ {y})
             F == {s \in SUBSET S : \E y \in s : ~Parts(s, y)}
  <1> SUFFICES ASSUME F # {} PROVE FALSE
    OBVIOUS
  <1>1. F \subseteq SUBSET S
    OBVIOUS
  <1>2. PICK m \in F : \A t \in F : t \subseteq m => t = m
    <2> HIDE DEF F
    <2> QED BY <1>1, SmallestMember
  <1>3. PICK y \in m : ~Parts(m, y)
    OBVIOUS
  <1> DEFINE c == Chosen(m)
  <1>4. c \in m /\ Parts(m, c)
    BY <1>3, SumOfSome, Smaller
  <1>5. c # y
    BY <1>3, <1>4
  <1>6. m \ {c} \notin F /\ m \ {y} \notin F
    BY <1>2, <1>3, <1>4
  <1>7. Parts(m \ {c}, y) /\ Parts(m \ {y}, c)
    BY <1>3, <1>4, <1>5, <1>6
  <1>8. (m \ {c}) \ {y} = (m \ {y}) \ {c}
    OBVIOUS
  <1>9. IsFiniteSet((m \ {c}) \ {y}) /\ \A z \in (m \ {c}) \ {y} : f[z] \in Int
    BY FS_Subset
  <1>10. SumFunctionOnSet(f, (m \ {c}) \ {y}) \in Int /\ f[c] \in Int /\ f[y] \in Int
    BY <1>3, <1>4, <1>9, SumIsInt
  <1>11. SumFunctionOnSet(f, m) = f[c] + (f[y] + SumFunctionOnSet(f, (m \ {c}) \ {y}))
    BY <1>4, <1>7
  <1>12. SumFunctionOnSet(f, m \ {y}) = f[c] + SumFunctionOnSet(f, (m \ {c}) \ {y})
    BY <1>7, <1>8
  <1>13. SumFunctionOnSet(f, m) # f[y] + SumFunctionOnSet(f, m \ {y})
    BY <1>3
  <1> QED
    BY <1>10, <1>11, <1>12, <1>13

\* One element more.
LEMMA SumWith ==
  ASSUME NEW S, IsFiniteSet(S), NEW x, x \notin S, NEW f, \A y \in S \cup {x} : f[y] \in Int
  PROVE  SumFunctionOnSet(f, S \cup {x}) = f[x] + SumFunctionOnSet(f, S)
  <1>1. IsFiniteSet(S \cup {x}) /\ (S \cup {x}) \ {x} = S
    BY FS_AddElement
  <1> QED
    BY <1>1, SumWithout

\* Sums depend on the elements only.
LEMMA SumOfSame ==
  ASSUME NEW S, IsFiniteSet(S), NEW f, NEW g, \A x \in S : f[x] = g[x]
  PROVE  SumFunctionOnSet(f, S) = SumFunctionOnSet(g, S)
  <1> DEFINE F == {s \in SUBSET S : SumFunctionOnSet(f, s) # SumFunctionOnSet(g, s)}
  <1> SUFFICES ASSUME F # {} PROVE FALSE
    OBVIOUS
  <1>1. F \subseteq SUBSET S
    OBVIOUS
  <1>2. PICK m \in F : \A t \in F : t \subseteq m => t = m
    <2> HIDE DEF F
    <2> QED BY <1>1, SmallestMember
  <1>3. m # {}
    BY SumOfNone
  <1>4. /\ Chosen(m) \in m
        /\ SumFunctionOnSet(f, m) = f[Chosen(m)] + SumFunctionOnSet(f, m \ {Chosen(m)})
        /\ SumFunctionOnSet(g, m) = g[Chosen(m)] + SumFunctionOnSet(g, m \ {Chosen(m)})
    BY <1>3, SumOfSome, Smaller
  <1>5. m \ {Chosen(m)} \in F
    BY <1>4
  <1> QED
    BY <1>2, <1>4, <1>5

\* The sums of two disjoint parts add up.
LEMMA SumOfBoth ==
  ASSUME NEW S, IsFiniteSet(S), NEW T, IsFiniteSet(T), S \cap T = {},
         NEW f, \A x \in S \cup T : f[x] \in Int
  PROVE  SumFunctionOnSet(f, S \cup T) = SumFunctionOnSet(f, S) + SumFunctionOnSet(f, T)
  <1> DEFINE F == {s \in SUBSET S : SumFunctionOnSet(f, s \cup T)
                                      # SumFunctionOnSet(f, s) + SumFunctionOnSet(f, T)}
  <1> SUFFICES ASSUME F # {} PROVE FALSE
    OBVIOUS
  <1>1. F \subseteq SUBSET S
    OBVIOUS
  <1>2. PICK m \in F : \A t \in F : t \subseteq m => t = m
    <2> HIDE DEF F
    <2> QED BY <1>1, SmallestMember
  <1>3. SumFunctionOnSet(f, T) \in Int
    BY SumIsInt
  <1>4. m # {}
    <2> SUFFICES ASSUME m = {} PROVE FALSE
      OBVIOUS
    <2>1. m \cup T = T
      OBVIOUS
    <2> QED
      BY <1>3, <2>1, SumOfNone
  <1> DEFINE c == Chosen(m)
  <1>5. c \in m /\ IsFiniteSet(m) /\ IsFiniteSet(m \ {c}) /\ f[c] \in Int
    BY <1>4, Smaller
  <1>6. IsFiniteSet(m \cup T) /\ (m \cup T) \ {c} = (m \ {c}) \cup T
    BY <1>5, FS_Union
  <1>7. SumFunctionOnSet(f, m \cup T) = f[c] + SumFunctionOnSet(f, (m \ {c}) \cup T)
    BY <1>5, <1>6, SumWithout
  <1>8. SumFunctionOnSet(f, m) = f[c] + SumFunctionOnSet(f, m \ {c})
    BY <1>5, SumWithout
  <1>9. m \ {c} \notin F
    BY <1>2, <1>5
  <1>10. SumFunctionOnSet(f, (m \ {c}) \cup T)
           = SumFunctionOnSet(f, m \ {c}) + SumFunctionOnSet(f, T)
    BY <1>9
  <1>11. SumFunctionOnSet(f, m \ {c}) \in Int
    BY <1>5, SumIsInt
  <1> QED
    BY <1>3, <1>5, <1>7, <1>8, <1>10, <1>11

\* Summing through a renaming that keeps elements apart changes nothing.
LEMMA SumOfRenamed ==
  ASSUME NEW S, IsFiniteSet(S), NEW b, \A x, y \in S : b[x] = b[y] => x = y,
         NEW f, \A x \in S : f[b[x]] \in Int
  PROVE  SumFunctionOnSet([x \in S |-> f[b[x]]], S) = SumFunctionOnSet(f, {b[x] : x \in S})
  <1> DEFINE fb == [x \in S |-> f[b[x]]]
             Image(s) == {b[x] : x \in s}
             F == {s \in SUBSET S : SumFunctionOnSet(fb, s) # SumFunctionOnSet(f, Image(s))}
  <1> SUFFICES ASSUME F # {} PROVE FALSE
    OBVIOUS
  <1>1. F \subseteq SUBSET S
    OBVIOUS
  <1>2. PICK m \in F : \A t \in F : t \subseteq m => t = m
    <2> HIDE DEF F
    <2> QED BY <1>1, SmallestMember
  <1>3. m # {}
    <2> SUFFICES ASSUME m = {} PROVE FALSE
      OBVIOUS
    <2>1. Image(m) = {}
      OBVIOUS
    <2> QED
      BY <2>1, SumOfNone
  <1> DEFINE c == Chosen(m)
  <1>4. c \in m /\ IsFiniteSet(m) /\ IsFiniteSet(m \ {c})
    BY <1>3, Smaller
  <1>5. SumFunctionOnSet(fb, m \ {c}) = SumFunctionOnSet(f, Image(m \ {c}))
    BY <1>2, <1>4
  <1>6. SumFunctionOnSet(fb, m) = fb[c] + SumFunctionOnSet(fb, m \ {c})
    <2> HIDE DEF fb
    <2> QED BY <1>3, <1>4, SumOfSome
  <1>7. Image(m) = Image(m \ {c}) \cup {b[c]} /\ b[c] \notin Image(m \ {c})
    <2> HIDE DEF c
    <2> QED BY <1>4
  <1>8. IsFiniteSet(Image(m \ {c}))
    <2> DEFINE bb == [x \in m \ {c} |-> b[x]]
    <2>1. bb \in Surjection(m \ {c}, Image(m \ {c}))
      <3> HIDE DEF c
      <3> QED BY DEF Surjection
    <2> QED
      BY <1>4, <2>1, FS_Surjection
  <1>9. \A z \in Image(m \ {c}) \cup {b[c]} : f[z] \in Int
    <2> HIDE DEF c
    <2> QED BY <1>4
  <1>10. SumFunctionOnSet(f, Image(m)) = f[b[c]] + SumFunctionOnSet(f, Image(m \ {c}))
    <2> HIDE DEF Image, c
    <2> QED BY <1>7, <1>8, <1>9, SumWith
  <1>11. fb[c] = f[b[c]]
    BY <1>4
  <1> QED
    BY <1>5, <1>6, <1>10, <1>11

\* The same k more for each element is k times their number more.
LEMMA SumOfShifted ==
  ASSUME NEW S, IsFiniteSet(S), NEW f, NEW g, NEW k \in Int,
         \A x \in S : f[x] \in Int /\ g[x] = f[x] + k
  PROVE  SumFunctionOnSet(g, S) = SumFunctionOnSet(f, S) + Cardinality(S) * k
  <1> DEFINE F == {s \in SUBSET S : SumFunctionOnSet(g, s) # SumFunctionOnSet(f, s) + Cardinality(s) * k}
  <1> SUFFICES ASSUME F # {} PROVE FALSE
    OBVIOUS
  <1>1. F \subseteq SUBSET S
    OBVIOUS
  <1>2. PICK m \in F : \A t \in F : t \subseteq m => t = m
    <2> HIDE DEF F
    <2> QED BY <1>1, SmallestMember
  <1>3. m # {}
    <2> SUFFICES ASSUME m = {} PROVE FALSE
      OBVIOUS
    <2>1. SumFunctionOnSet(g, m) = 0 /\ SumFunctionOnSet(f, m) = 0
      BY SumOfNone
    <2>2. Cardinality(m) = 0
      BY FS_EmptySet
    <2>3. 0 * k = 0
      OBVIOUS
    <2>4. SumFunctionOnSet(g, m) # SumFunctionOnSet(f, m) + Cardinality(m) * k
      OBVIOUS
    <2> HIDE DEF F
    <2> QED
      BY <2>1, <2>2, <2>3, <2>4
  <1> DEFINE c == Chosen(m)
             r == m \ {c}
  <1>4. /\ c \in m /\ IsFiniteSet(m) /\ IsFiniteSet(r) /\ r \subseteq S
        /\ Cardinality(r) \in Nat /\ Cardinality(m) = Cardinality(r) + 1
    BY <1>3, Smaller
  <1>5. SumFunctionOnSet(g, r) = SumFunctionOnSet(f, r) + Cardinality(r) * k
    BY <1>2, <1>4
  <1>6. /\ SumFunctionOnSet(g, m) = g[c] + SumFunctionOnSet(g, r)
        /\ SumFunctionOnSet(f, m) = f[c] + SumFunctionOnSet(f, r)
    BY <1>3, <1>4, SumOfSome
  <1>7. SumFunctionOnSet(f, r) \in Int
    BY <1>4, SumIsInt
  <1>8. g[c] = f[c] + k /\ f[c] \in Int
    BY <1>4
  <1>9. SumFunctionOnSet(g, m) # SumFunctionOnSet(f, m) + Cardinality(m) * k
    OBVIOUS
  <1>10. (Cardinality(r) + 1) * k = Cardinality(r) * k + k /\ Cardinality(r) * k \in Int
    <2> HIDE DEF r
    <2> QED BY <1>4
  <1> HIDE DEF r, c
  <1> QED
    BY <1>4, <1>5, <1>6, <1>7, <1>8, <1>9, <1>10
=============================================================================
