------------------------------ MODULE FiniteFacts ------------------------------
(***************************************************************************)
(* Facts about finite sets, numbers and lists that the proofs about the     *)
(* components share: what would be an induction is the choice of a minimal  *)
(* counterexample.                                                         *)
(***************************************************************************)
EXTENDS Naturals, Sequences, FiniteSets, FiniteSetTheorems, WellFoundedInduction, TLAPS

(* A non-empty family of subsets of a finite set has a minimal member.       *)
LEMMA MinimalSubset ==
  ASSUME NEW S, IsFiniteSet(S), NEW F \in SUBSET SUBSET S, F # {}
  PROVE  \E A \in F : \A B \in F : B \subseteq A => B = A
<1>1. F \subseteq FiniteSubsetsOf(S)
  BY FS_Subset DEF FiniteSubsetsOf
<1>2. PICK A \in F : \A B \in F : <<B, A>> \notin StrictSubsetOrdering(S)
  BY <1>1, FS_StrictSubsetOrderingWellFounded, WFMin
<1> QED BY <1>2 DEF StrictSubsetOrdering

(* A non-empty set of natural numbers has a smallest one.                    *)
LEMMA SmallestMember ==
  ASSUME NEW T \in SUBSET Nat, T # {}
  PROVE  \E m \in T : \A n \in T : m <= n
<1>1. PICK k \in T : TRUE
  OBVIOUS
<1> DEFINE F == {0..n : n \in {i \in T : i <= k}}
<1>2. IsFiniteSet(0..k) /\ F \in SUBSET SUBSET (0..k) /\ F # {}
  <2>1. IsFiniteSet(0..k)
    BY FS_Interval
  <2>2. 0..k \in F
    BY <1>1
  <2>3. \A n \in T : n <= k => 0..n \subseteq 0..k
    BY <1>1
  <2> QED BY <2>1, <2>2, <2>3
<1>3. PICK A \in F : \A B \in F : B \subseteq A => B = A
  <2> DEFINE S == 0..k
  <2>1. IsFiniteSet(S) /\ F \in SUBSET SUBSET S /\ F # {}
    BY <1>2
  <2> HIDE DEF F, S
  <2> QED BY <2>1, MinimalSubset
<1>4. PICK m \in T : A = 0..m /\ m <= k
  OBVIOUS
<1>5. ASSUME NEW n \in T, n < m PROVE FALSE
  <2>1. 0..n \in F /\ 0..n \subseteq 0..m
    BY <1>1, <1>4, <1>5
  <2>2. 0..n = 0..m
    BY <1>3, <1>4, <2>1
  <2> QED BY <1>5, <2>2
<1> QED BY <1>5

(* A value can be carried from one number to the next: what a recursive      *)
(* function on 0..n computes exists.                                        *)
Carries(g, n, X, x0, step) ==
  g \in [0..n -> X] /\ g[0] = x0 /\ \A i \in 1..n : g[i] = step[<<i, g[i - 1]>>]

LEMMA Iterated ==
  ASSUME NEW n \in Nat, NEW X, NEW x0 \in X, NEW step, step \in [(1..n) \X X -> X]
  PROVE  \E g : Carries(g, n, X, x0, step)
<1> DEFINE Upto(m) == \E g \in [0..m -> X] : g[0] = x0 /\ \A i \in 1..m : g[i] = step[<<i, g[i - 1]>>]
           T == {m \in 0..n : ~Upto(m)}
<1> SUFFICES ASSUME ~Upto(n) PROVE FALSE
  BY DEF Carries
<1>1. PICK m \in T : \A k \in T : m <= k
  <2>1. n \in T
    <3> HIDE DEF Upto
    <3> QED OBVIOUS
  <2>2. T \in SUBSET Nat
    OBVIOUS
  <2> HIDE DEF T
  <2> QED BY <2>1, <2>2, SmallestMember
<1>2. m \in 0..n /\ ~Upto(m)
  BY <1>1
<1>3. m # 0
  <2>1. Upto(0)
    <3> DEFINE g == [i \in 0..0 |-> x0]
    <3>1. g \in [0..0 -> X] /\ g[0] = x0
      OBVIOUS
    <3>2. \A i \in 1..0 : FALSE
      OBVIOUS
    <3> QED BY <3>1, <3>2
  <2> QED BY <1>2, <2>1
<1>4. Upto(m - 1)
  <2>1. m - 1 \in 0..n /\ m - 1 \notin T
    <3> HIDE DEF T
    <3> QED BY <1>1, <1>2, <1>3
  <2> QED BY <2>1
<1>5. PICK g \in [0..(m - 1) -> X] : g[0] = x0 /\ \A i \in 1..(m - 1) : g[i] = step[<<i, g[i - 1]>>]
  BY <1>4
<1> DEFINE h == [i \in 0..m |-> IF i = m THEN step[<<m, g[m - 1]>>] ELSE g[i]]
<1>6. m \in 1..n /\ m - 1 \in 0..(m - 1) /\ g[m - 1] \in X
  BY <1>2, <1>3, <1>5
<1>7. step[<<m, g[m - 1]>>] \in X
  BY <1>6
<1>8. h \in [0..m -> X] /\ h[0] = x0
  BY <1>2, <1>3, <1>5, <1>7
<1>9. ASSUME NEW i \in 1..m PROVE h[i] = step[<<i, h[i - 1]>>]
  <2>1. i - 1 \in 0..(m - 1) /\ h[i - 1] = g[i - 1]
    BY <1>2, <1>3
  <2>2. CASE i = m
    <3>1. h[m] = step[<<m, g[m - 1]>>]
      BY <1>2
    <3> QED BY <2>1, <2>2, <3>1
  <2>3. CASE i # m
    BY <1>2, <1>5, <2>1, <2>3
  <2> QED BY <2>2, <2>3
<1> HIDE DEF h
<1>10. Upto(m)
  BY <1>8, <1>9
<1> QED BY <1>2, <1>10

(* A list as long as a set, of its members and without repetition, holds     *)
(* them all.                                                               *)
LEMMA FullList ==
  ASSUME NEW S, IsFiniteSet(S), NEW s \in [1..Cardinality(S) -> S],
         \A a, b \in DOMAIN s : s[a] = s[b] => a = b
  PROVE  /\ s \in Seq(S) /\ Len(s) = Cardinality(S)
         /\ \A k \in S : \E n \in DOMAIN s : s[n] = k
<1>1. Cardinality(S) \in Nat
  BY FS_CardinalityType
<1>2. s \in Seq(S) /\ Len(s) = Cardinality(S)
  BY <1>1
<1>3. s \in Injection(1..Cardinality(S), S)
  BY DEF Injection, IsInjective
<1>4. Cardinality(1..Cardinality(S)) = Cardinality(S)
  BY <1>1, FS_Interval
<1>5. s \in Surjection(1..Cardinality(S), S)
  BY <1>3, <1>4, FS_Injection
<1>6. \A k \in S : \E n \in DOMAIN s : s[n] = k
  BY <1>5 DEF Surjection
<1> QED BY <1>2, <1>6

(* The members of a list are its head and those of its tail.                *)
LEMMA HeadOrTail ==
  ASSUME NEW S, NEW s \in Seq(S), s # <<>>
  PROVE  /\ Head(s) \in S /\ Tail(s) \in Seq(S)
         /\ \A k : (\E n \in DOMAIN s : s[n] = k) <=> k = Head(s) \/ \E n \in DOMAIN Tail(s) : Tail(s)[n] = k
<1>1. PICK N \in Nat : N = Len(s) /\ N > 0 /\ DOMAIN s = 1..N
  OBVIOUS
<1>2. Head(s) = s[1] /\ Head(s) \in S /\ Tail(s) \in Seq(S)
  OBVIOUS
<1>3. DOMAIN Tail(s) = 1..(N - 1) /\ \A n \in 1..(N - 1) : Tail(s)[n] = s[n + 1]
  BY <1>1
<1> DEFINE t == Tail(s)
           h == Head(s)
<1> HIDE DEF t, h
<1>4. \A n \in 1..N : n = 1 \/ (n - 1 \in 1..(N - 1) /\ (n - 1) + 1 = n)
  BY <1>1
<1>5. \A n \in 1..(N - 1) : n + 1 \in 1..N
  BY <1>1
<1>6. 1 \in 1..N
  BY <1>1
<1>7. \A k : (\E n \in DOMAIN s : s[n] = k) <=> k = h \/ \E n \in DOMAIN t : t[n] = k
  <2>1. h = s[1] /\ DOMAIN t = 1..(N - 1) /\ \A n \in 1..(N - 1) : t[n] = s[n + 1]
    BY <1>2, <1>3 DEF h, t
  <2>2. ASSUME NEW n \in 1..N, n # 1 PROVE \E i \in DOMAIN t : t[i] = s[n]
    BY <1>4, <2>1, <2>2
  <2> QED BY <1>1, <1>5, <1>6, <2>1, <2>2
<1> QED BY <1>2, <1>7 DEF h, t

(* The members of two lists, one behind the other.                          *)
Joins(u, s, t) ==
  /\ \A n \in DOMAIN u : (\E m \in DOMAIN s : u[n] = s[m]) \/ (\E m \in DOMAIN t : u[n] = t[m])
  /\ \A m \in DOMAIN s : \E n \in DOMAIN u : u[n] = s[m]

LEMMA Appended ==
  ASSUME NEW S, NEW T, NEW s \in Seq(S), NEW t \in Seq(T)
  PROVE  Joins(s \o t, s, t)
<1>1. PICK M \in Nat, N \in Nat : DOMAIN s = 1..M /\ Len(s) = M /\ DOMAIN t = 1..N /\ Len(t) = N
  OBVIOUS
<1>2. /\ DOMAIN (s \o t) = 1..(M + N)
      /\ \A n \in 1..(M + N) : (s \o t)[n] = IF n <= M THEN s[n] ELSE t[n - M]
  BY <1>1
<1> DEFINE u == s \o t
<1> HIDE DEF u
<1>3. DOMAIN u = 1..(M + N) /\ \A n \in 1..(M + N) : u[n] = IF n <= M THEN s[n] ELSE t[n - M]
  BY <1>2 DEF u
<1>4. ASSUME NEW n \in DOMAIN u PROVE (\E m \in DOMAIN s : u[n] = s[m]) \/ (\E m \in DOMAIN t : u[n] = t[m])
  <2>1. CASE n <= M
    BY <1>1, <1>3, <2>1
  <2>2. CASE ~(n <= M)
    <3>1. n - M \in 1..N
      BY <1>3, <2>2
    <3> QED BY <1>1, <1>3, <2>2, <3>1
  <2> QED BY <2>1, <2>2
<1>5. ASSUME NEW m \in DOMAIN s PROVE \E n \in DOMAIN u : u[n] = s[m]
  BY <1>1, <1>3
<1>6. Joins(u, s, t)
  BY <1>4, <1>5 DEF Joins
<1> QED BY <1>6 DEF u

(* Lists of one and of two. *)
LEMMA Pairs ==
  ASSUME NEW S, NEW a \in S, NEW b \in S
  PROVE  /\ <<a>> \in Seq(S) /\ <<a, b>> \in Seq(S)
         /\ <<a>> # <<>> /\ <<a, b>> # <<>> /\ <<a, b>> # <<a>> /\ <<a, b>> # <<b>>
         /\ Head(<<a>>) = a /\ Tail(<<a>>) = <<>> /\ Head(<<a, b>>) = a /\ Tail(<<a, b>>) = <<b>>
OBVIOUS

(* s is the list of the first n of a, b, c, d.                            *)
Spelt(s, S, n, a, b, c, d) ==
  /\ s \in Seq(S) /\ Len(s) = n
  /\ n >= 1 => s[1] = a
  /\ n >= 2 => s[2] = b
  /\ n >= 3 => s[3] = c
  /\ n >= 4 => s[4] = d

LEMMA Spelled ==
  ASSUME NEW S, NEW a \in S, NEW b \in S, NEW c \in S, NEW d \in S
  PROVE  /\ Spelt(<<>>, S, 0, a, b, c, d) /\ Spelt(<<a>>, S, 1, a, b, c, d) /\ Spelt(<<a, b>>, S, 2, a, b, c, d)
         /\ Spelt(<<a, b, c>>, S, 3, a, b, c, d) /\ Spelt(<<a, b, c, d>>, S, 4, a, b, c, d)
BY DEF Spelt

LEMMA SpeltFrom ==
  ASSUME NEW S, NEW a \in S, NEW b \in S, NEW c \in S, NEW d \in S, NEW s, NEW t,
         \/ Spelt(s, S, 1, a, b, c, d) /\ \E n \in 0..3 : Spelt(t, S, n, b, c, d, d)
         \/ Spelt(s, S, 2, a, b, c, d) /\ \E n \in 0..2 : Spelt(t, S, n, c, d, d, d)
  PROVE  Spelt(s \o t, S, Len(s) + Len(t), a, b, c, d)
<1>1. s \in Seq(S) /\ t \in Seq(S)
  BY DEF Spelt
<1> DEFINE u == s \o t
<1>2. u \in Seq(S) /\ Len(u) = Len(s) + Len(t)
  BY <1>1
<1>3. \A i \in 1..Len(u) : u[i] = IF i <= Len(s) THEN s[i] ELSE t[i - Len(s)]
  BY <1>1
<1> HIDE DEF u
<1>4. Spelt(u, S, Len(s) + Len(t), a, b, c, d)
  BY <1>2, <1>3, SMTT(30) DEF Spelt
<1> QED BY <1>4 DEF u

(* Lists put together.                                                      *)
Strings(a, b, c, d) ==
  /\ <<a>> \o <<b>> = <<a, b>>
  /\ <<a>> \o <<b, c, d>> = <<a, b, c, d>>
  /\ <<a, b>> \o <<c, d>> = <<a, b, c, d>>
  /\ <<a, b>> \o <<>> = <<a, b>> /\ <<>> \o <<a>> = <<a>>
  /\ (<<a>> \o <<>>) \o <<b>> = <<a, b>>
  /\ (<<a>> \o <<b>>) \o <<c>> = <<a, b, c>>

LEMMA Strung ==
  ASSUME NEW S, NEW a \in S, NEW b \in S, NEW c \in S, NEW d \in S
  PROVE  Strings(a, b, c, d)
<1>1. ASSUME NEW s, NEW t, NEW u, NEW n, NEW m, Spelt(s, S, n, a, b, c, d), Spelt(u, S, n + m, a, b, c, d),
             \/ n = 1 /\ m \in 0..3 /\ Spelt(t, S, m, b, c, d, d)
             \/ n = 2 /\ m \in 0..2 /\ Spelt(t, S, m, c, d, d, d)
      PROVE  s \o t = u
  <2>1. Spelt(s \o t, S, Len(s) + Len(t), a, b, c, d)
    BY <1>1, SpeltFrom
  <2>2. Len(s) = n /\ Len(t) = m
    BY <1>1 DEF Spelt
  <2> DEFINE v == s \o t
             k == n + m
  <2>3. Spelt(v, S, k, a, b, c, d) /\ Spelt(u, S, k, a, b, c, d) /\ k \in 0..4
    BY <1>1, <2>1, <2>2
  <2> HIDE DEF v, k
  <2>4. v \in Seq(S) /\ u \in Seq(S) /\ Len(v) = k /\ Len(u) = k /\ \A i \in 1..k : v[i] = u[i]
    BY <2>3 DEF Spelt
  <2>5. v = u
    BY <2>4
  <2> QED BY <2>5 DEF v
<1>2. /\ Spelt(<<a>>, S, 1, a, b, c, d) /\ Spelt(<<a, b>>, S, 2, a, b, c, d)
      /\ Spelt(<<a, b, c>>, S, 3, a, b, c, d) /\ Spelt(<<a, b, c, d>>, S, 4, a, b, c, d)
  BY Spelled
<1>3. Spelt(<<b>>, S, 1, b, c, d, d) /\ Spelt(<<b, c, d>>, S, 3, b, c, d, d)
  BY Spelled
<1>4. Spelt(<<c>>, S, 1, c, d, d, d) /\ Spelt(<<c, d>>, S, 2, c, d, d, d)
  BY Spelled
<1>5. 1 + 1 = 2 /\ 1 + 3 = 4 /\ 2 + 2 = 4 /\ 2 + 1 = 3 /\ 1 \in 0..3 /\ 3 \in 0..3 /\ 2 \in 0..2 /\ 1 \in 0..2
  OBVIOUS
<1>6. <<a>> \o <<b>> = <<a, b>>
  BY <1>1, <1>2, <1>3, <1>5
<1>7. <<a>> \o <<b, c, d>> = <<a, b, c, d>>
  BY <1>1, <1>2, <1>3, <1>5
<1>8. <<a, b>> \o <<c, d>> = <<a, b, c, d>>
  BY <1>1, <1>2, <1>4, <1>5
<1>9. <<a, b>> \o <<c>> = <<a, b, c>>
  BY <1>1, <1>2, <1>4, <1>5
<1>10. <<a, b>> \o <<>> = <<a, b>> /\ <<>> \o <<a>> = <<a>> /\ <<a>> \o <<>> = <<a>>
  OBVIOUS
<1> QED BY <1>6, <1>7, <1>8, <1>9, <1>10 DEF Strings

(* If everyone in a finite set waits for another one in it, some of them     *)
(* wait in a circle: each for one of them, and one of them for each.         *)
LEMMA WaitingCircle ==
  ASSUME NEW C, IsFiniteSet(C), C # {}, NEW W,
         \A q \in C : \E r \in C : q # r /\ <<q, r>> \in W
  PROVE  \E D \in SUBSET C :
           /\ D # {}
           /\ \A q \in D : (\E r \in D : <<q, r>> \in W) /\ (\E r \in D : <<r, q>> \in W)
<1> DEFINE Closed(D) == D # {} /\ \A q \in D : \E r \in D : q # r /\ <<q, r>> \in W
           F == {D \in SUBSET C : Closed(D)}
<1>1. PICK D \in F : \A B \in F : B \subseteq D => B = D
  <2>1. C \in F
    OBVIOUS
  <2>2. F \in SUBSET SUBSET C /\ F # {}
    BY <2>1
  <2> HIDE DEF F
  <2> QED BY <2>2, MinimalSubset
<1>2. ASSUME NEW q \in D PROVE \E r \in D : <<r, q>> \in W
  <2> SUFFICES ASSUME \A r \in D : <<r, q>> \notin W PROVE FALSE
    OBVIOUS
  <2>1. D \subseteq C /\ \A x \in D : \E r \in D : x # r /\ <<x, r>> \in W
    BY <1>1
  <2>2. PICK s \in D : q # s /\ <<q, s>> \in W
    BY <2>1
  <2>3. \A x \in D \ {q} : \E r \in D \ {q} : x # r /\ <<x, r>> \in W
    BY <2>1
  <2>4. D \ {q} \in F
    <3>1. D \ {q} # {} /\ D \ {q} \in SUBSET C
      BY <2>1, <2>2
    <3> QED BY <2>3, <3>1
  <2>5. D \ {q} = D
    BY <1>1, <2>4
  <2> QED BY <1>2, <2>5
<1> QED BY <1>1, <1>2
================================================================================
