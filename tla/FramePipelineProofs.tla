------------------------ MODULE FramePipelineProofs ------------------------
(***************************************************************************)
(* What holds of FramePipeline for any set of frames, tasks and workers,   *)
(* any worths and budgets and any faults: a grade counts once, a task is   *)
(* completed by what was graded for it, and no frame is forgotten.         *)
(***************************************************************************)
EXTENDS FramePipeline, FiniteSetTheorems, WellFoundedInduction, TLAPS

(***************************************************************************)
(* Sums over a set and the choice of places in a sequence.  Both are       *)
(* recursive functions; a fact about every argument is proved by taking    *)
(* a least one for which it fails.                                         *)
(***************************************************************************)
(* The sum of a worth over a set, as the community modules compute it: the *)
(* element a set chooses, and then the rest.                               *)
Chosen(s) == CHOOSE x \in s : TRUE
Sums(W, P, it) == it = [s \in P |-> IF s = {} THEN 0
                                    ELSE W[Chosen(s)] + it[s \ {Chosen(s)}]]
SumsUpTo(W, S, it) == Sums(W, SUBSET S, it)
Natural(W, S) == \A x \in S : W[x] \in Nat
Total(W, S) == (CHOOSE it : SumsUpTo(W, S, it))[S]

LEMMA LeastElement ==
    ASSUME NEW T \in SUBSET Nat, T # {}
    PROVE  \E n \in T : \A m \in T : n <= m
<1>1. PICK n \in T : \A m \in T : ~(<<m, n>> \in OpToRel(<, Nat))
  BY NatLessThanWellFounded, WFMin
<1>2. \A m \in T : ~(m < n)
  BY <1>1 DEF OpToRel
<1>3. QED
  BY <1>2

LEMMA ChosenRest ==
    ASSUME NEW s, IsFiniteSet(s), s # {}
    PROVE  /\ Chosen(s) \in s
           /\ IsFiniteSet(s \ {Chosen(s)})
           /\ Cardinality(s) \in Nat \ {0}
           /\ Cardinality(s \ {Chosen(s)}) = Cardinality(s) - 1
<1>1. Chosen(s) \in s
  BY DEF Chosen
<1>2. Cardinality(s) \in Nat /\ Cardinality(s) # 0
  BY FS_CardinalityType, FS_EmptySet
<1>3. QED
  BY <1>1, <1>2, FS_RemoveElement

(* The recursion has a solution: on the empty set, and then on one more    *)
(* element at a time.                                                      *)
LEMMA SumsExist ==
    ASSUME NEW W, NEW S, IsFiniteSet(S)
    PROVE  \E it : SumsUpTo(W, S, it)
<1> DEFINE Small(n) == {s \in SUBSET S : Cardinality(s) <= n}
           Bad == {n \in Nat : ~ \E it : Sums(W, Small(n), it)}
<1>f. \A s \in SUBSET S : IsFiniteSet(s) /\ Cardinality(s) \in Nat
                          /\ Cardinality(s) <= Cardinality(S)
  BY FS_Subset, FS_CardinalityType
<1>1. 0 \notin Bad
  <2>1. Small(0) = {{}}
    BY <1>f, FS_EmptySet
  <2> DEFINE it == [s \in {{}} |-> 0]
  <2>2. Sums(W, Small(0), it)
    BY <2>1 DEF Sums
  <2>3. QED
    BY <2>2
<1>2. ASSUME NEW n \in Nat, n + 1 \in Bad PROVE n \in Bad
  <2> SUFFICES ASSUME n \notin Bad PROVE FALSE
    OBVIOUS
  <2>1. PICK g : Sums(W, Small(n), g)
    OBVIOUS
  <2> DEFINE h == [s \in Small(n + 1) |->
                     IF s = {} THEN 0 ELSE W[Chosen(s)] + g[s \ {Chosen(s)}]]
  <2>2. \A s \in Small(n) : h[s] = g[s]
    <3>1. g = [s \in Small(n) |->
                 IF s = {} THEN 0 ELSE W[Chosen(s)] + g[s \ {Chosen(s)}]]
      BY <2>1 DEF Sums
    <3>2. \A s \in Small(n) : s \in Small(n + 1)
      BY <1>f
    <3> HIDE DEF Small
    <3>3. QED
      BY <3>1, <3>2
  <2>3. \A s \in Small(n + 1) : s # {} => s \ {Chosen(s)} \in Small(n)
    BY <1>f, ChosenRest
  <2>4. h = [s \in Small(n + 1) |->
               IF s = {} THEN 0 ELSE W[Chosen(s)] + h[s \ {Chosen(s)}]]
    <3>1. \A s \in Small(n + 1) : s # {} => g[s \ {Chosen(s)}] = h[s \ {Chosen(s)}]
      BY <2>2, <2>3
    <3> HIDE DEF Small
    <3>2. QED
      BY <3>1
  <2>5. Sums(W, Small(n + 1), h)
    BY <2>4 DEF Sums
  <2> HIDE DEF h
  <2>6. \E it : Sums(W, Small(n + 1), it)
    BY <2>5
  <2>7. QED
    BY <1>2, <2>6
<1>3. Bad = {}
  <2> SUFFICES ASSUME Bad # {} PROVE FALSE
    OBVIOUS
  <2>1. PICK n \in Bad : \A m \in Bad : n <= m
    BY LeastElement
  <2>2. n \in Nat /\ n # 0
    BY <1>1
  <2>3. n - 1 \in Nat /\ (n - 1) + 1 = n
    BY <2>2
  <2>4. n - 1 \in Bad
    BY <1>2, <2>3
  <2>5. n <= n - 1
    BY <2>1, <2>4
  <2>6. QED
    BY <2>2, <2>5
<1>4. Small(Cardinality(S)) = SUBSET S
  BY <1>f
<1>5. Cardinality(S) \in Nat
  BY FS_CardinalityType
<1>6. QED
  BY <1>3, <1>4, <1>5 DEF SumsUpTo

(* Adding an element adds its worth, whichever element is chosen first.    *)
LEMMA SumsAdd ==
    ASSUME NEW W, NEW S, IsFiniteSet(S), Natural(W, S),
           NEW it, SumsUpTo(W, S, it)
    PROVE  /\ it[{}] = 0
           /\ \A s \in SUBSET S : it[s] \in Nat
           /\ \A s, x : s \subseteq S /\ x \in S /\ x \notin s
                          => it[s \cup {x}] = it[s] + W[x]
<1> DEFINE Fine(s) == it[s] \in Nat /\ \A x \in s : it[s] = it[s \ {x}] + W[x]
           Bad == {Cardinality(s) : s \in {r \in SUBSET S : ~Fine(r)}}
<1>f. \A s \in SUBSET S : IsFiniteSet(s) /\ Cardinality(s) \in Nat
  BY FS_Subset, FS_CardinalityType
<1>1. it[{}] = 0
  BY DEF SumsUpTo, Sums
<1>2. \A s \in SUBSET S : s # {} => it[s] = W[Chosen(s)] + it[s \ {Chosen(s)}]
  BY DEF SumsUpTo, Sums
<1>3. ASSUME NEW s \in SUBSET S,
             \A r \in SUBSET S : Cardinality(r) < Cardinality(s) => Fine(r)
      PROVE  Fine(s)
  <2>1. CASE s = {}
    BY <1>1, <2>1
  <2>2. CASE s # {}
    <3> DEFINE c == Chosen(s)
    <3>1. c \in s /\ Cardinality(s \ {c}) < Cardinality(s)
      BY <1>f, <2>2, ChosenRest
    <3>2. Fine(s \ {c}) /\ it[s] = W[c] + it[s \ {c}]
      BY <1>2, <1>3, <2>2, <3>1
    <3>3. W[c] \in Nat
      BY <3>1 DEF Natural
    <3>4. it[s] \in Nat
      BY <3>2, <3>3
    <3>5. ASSUME NEW x \in s, x # c PROVE it[s] = it[s \ {x}] + W[x]
      <4> DEFINE r == (s \ {c}) \ {x}
      <4>1. it[s \ {c}] = it[r] + W[x]
        BY <3>2, <3>5
      <4>2. Cardinality(s \ {x}) < Cardinality(s)
        BY <1>f, FS_RemoveElement, <3>5
      <4>3. Fine(s \ {x})
        BY <1>3, <4>2
      <4>4. c \in s \ {x} /\ (s \ {x}) \ {c} = r
        BY <3>1, <3>5
      <4>5. it[s \ {x}] = it[r] + W[c]
        BY <4>3, <4>4
      <4>6. W[x] \in Nat
        BY <3>5 DEF Natural
      <4>7. Cardinality(r) < Cardinality(s)
        BY <1>f, <4>2, <4>4, FS_RemoveElement
      <4>8. it[r] \in Nat
        BY <1>3, <4>7
      <4>9. QED
        BY <3>2, <3>3, <4>1, <4>5, <4>6, <4>8
    <3>6. ASSUME NEW x \in s, x = c PROVE it[s] = it[s \ {x}] + W[x]
      BY <3>2, <3>3, <3>6
    <3>7. QED
      BY <3>4, <3>5, <3>6
  <2>3. QED
    BY <2>1, <2>2
<1>4. Bad = {}
  <2> SUFFICES ASSUME Bad # {} PROVE FALSE
    OBVIOUS
  <2>1. Bad \in SUBSET Nat
    BY <1>f
  <2>2. PICK n \in Bad : \A m \in Bad : n <= m
    BY <2>1, LeastElement
  <2>3. PICK s \in SUBSET S : ~Fine(s) /\ Cardinality(s) = n
    BY <2>2
  <2>4. ASSUME NEW r \in SUBSET S, Cardinality(r) < Cardinality(s) PROVE Fine(r)
    <3>1. ~Fine(r) => Cardinality(r) \in Bad
      OBVIOUS
    <3> HIDE DEF Fine, Bad
    <3>2. Cardinality(r) \in Bad => n <= Cardinality(r)
      BY <2>2
    <3>3. Cardinality(r) \in Nat /\ n \in Nat
      BY <1>f, <2>3
    <3>4. QED
      BY <2>3, <2>4, <3>1, <3>2, <3>3
  <2>5. QED
    BY <1>3, <2>3, <2>4
<1>5. \A s \in SUBSET S : Fine(s)
  BY <1>4
<1>6. ASSUME NEW s \in SUBSET S, NEW x \in S, x \notin s PROVE it[s \cup {x}] = it[s] + W[x]
  <2>1. (s \cup {x}) \ {x} = s
    BY <1>6
  <2>2. QED
    BY <1>5, <1>6, <2>1, s \cup {x} \in SUBSET S
<1>7. QED
  BY <1>1, <1>5, <1>6

(* The sum over a set does not depend on the set it is part of.            *)
LEMMA SumsAgree ==
    ASSUME NEW W, NEW S, IsFiniteSet(S), NEW T \in SUBSET S,
           NEW it, SumsUpTo(W, S, it), NEW jt, SumsUpTo(W, T, jt)
    PROVE  it[T] = jt[T]
<1> DEFINE Bad == {Cardinality(s) : s \in {r \in SUBSET T : it[r] # jt[r]}}
<1>f. \A s \in SUBSET T : IsFiniteSet(s) /\ Cardinality(s) \in Nat
  BY FS_Subset, FS_CardinalityType
<1>1. ASSUME NEW s \in SUBSET T,
             \A r \in SUBSET T : Cardinality(r) < Cardinality(s) => it[r] = jt[r]
      PROVE  it[s] = jt[s]
  <2>1. CASE s = {}
    BY <2>1 DEF SumsUpTo, Sums
  <2>2. CASE s # {}
    <3>1. Chosen(s) \in s /\ Cardinality(s \ {Chosen(s)}) < Cardinality(s)
      BY <1>f, <2>2, ChosenRest
    <3>2. it[s \ {Chosen(s)}] = jt[s \ {Chosen(s)}]
      BY <1>1, <3>1
    <3>3. it[s] = W[Chosen(s)] + it[s \ {Chosen(s)}]
      BY <2>2 DEF SumsUpTo, Sums
    <3>4. jt[s] = W[Chosen(s)] + jt[s \ {Chosen(s)}]
      BY <2>2 DEF SumsUpTo, Sums
    <3>5. QED
      BY <3>2, <3>3, <3>4
  <2>3. QED
    BY <2>1, <2>2
<1>2. Bad = {}
  <2> SUFFICES ASSUME Bad # {} PROVE FALSE
    OBVIOUS
  <2>1. Bad \in SUBSET Nat
    BY <1>f
  <2>2. PICK n \in Bad : \A m \in Bad : n <= m
    BY <2>1, LeastElement
  <2>3. PICK s \in SUBSET T : it[s] # jt[s] /\ Cardinality(s) = n
    BY <2>2
  <2>4. \A r \in SUBSET T : Cardinality(r) < Cardinality(s) => it[r] = jt[r]
    BY <1>f, <2>2, <2>3
  <2>5. QED
    BY <1>1, <2>3, <2>4
<1>3. QED
  BY <1>2

LEMMA TotalAdd ==
    ASSUME NEW D, NEW W \in [D -> Nat], NEW S \in SUBSET D, IsFiniteSet(S)
    PROVE  /\ Total(W, S) \in Nat
           /\ Total(W, {}) = 0
           /\ \A x \in D \ S : Total(W, S \cup {x}) = Total(W, S) + W[x]
<1> DEFINE It(R) == CHOOSE it : SumsUpTo(W, R, it)
<1>1. ASSUME NEW R \in SUBSET D, IsFiniteSet(R)
      PROVE  SumsUpTo(W, R, It(R)) /\ Total(W, R) = It(R)[R]
  BY <1>1, SumsExist DEF Total
<1>2. IsFiniteSet({}) /\ {} \in SUBSET D
  BY FS_EmptySet
<1> HIDE DEF It
<1>3. Total(W, S) \in Nat
  <2>1. SumsUpTo(W, S, It(S))
    BY <1>1
  <2>2. It(S)[S] \in Nat
    <3>1. Natural(W, S)
      BY DEF Natural
    <3>2. QED
      BY <2>1, <3>1, SumsAdd
  <2>3. QED
    BY <1>1, <2>2
<1>4. Total(W, {}) = 0
  <2>1. SumsUpTo(W, {}, It({}))
    BY <1>1, <1>2
  <2>2. It({})[{}] = 0
    BY <1>2, <2>1, SumsAdd DEF Natural
  <2>3. QED
    BY <1>1, <1>2, <2>2
<1>5. ASSUME NEW x \in D \ S PROVE Total(W, S \cup {x}) = Total(W, S) + W[x]
  <2> DEFINE M == S \cup {x}
  <2>0. Natural(W, M)
    BY DEF Natural
  <2>1. M \in SUBSET D /\ IsFiniteSet(M) /\ S \in SUBSET M /\ x \in M \ S
    BY <1>5, FS_AddElement
  <2> HIDE DEF M
  <2>2. PICK im : SumsUpTo(W, M, im) /\ Total(W, M) = im[M]
    BY <1>1, <2>1
  <2>3. PICK is : SumsUpTo(W, S, is) /\ Total(W, S) = is[S]
    BY <1>1
  <2>4. im[S] = is[S]
    BY <2>1, <2>2, <2>3, SumsAgree
  <2>5. \A s, y : s \subseteq M /\ y \in M /\ y \notin s => im[s \cup {y}] = im[s] + W[y]
    BY <2>0, <2>1, <2>2, SumsAdd
  <2>6. im[S \cup {x}] = im[S] + W[x]
    BY <2>1, <2>5
  <2>7. S \cup {x} = M
    BY DEF M
  <2>8. QED
    BY <2>2, <2>3, <2>4, <2>6, <2>7
<1>6. QED
  BY <1>3, <1>4, <1>5

(* More frames are worth no less.                                          *)
LEMMA TotalGrows ==
    ASSUME NEW D, NEW W \in [D -> Nat], NEW S \in SUBSET D, IsFiniteSet(S),
           NEW T \in SUBSET S
    PROVE  Total(W, T) <= Total(W, S)
<1> DEFINE Bad == {Cardinality(r) : r \in {s \in SUBSET S : T \subseteq s /\
                                             ~(Total(W, T) <= Total(W, s))}}
<1>f. \A s \in SUBSET S : IsFiniteSet(s) /\ Cardinality(s) \in Nat
  BY FS_Subset, FS_CardinalityType
<1>t. \A s \in SUBSET S : Total(W, s) \in Nat
  BY <1>f, TotalAdd
<1> SUFFICES ASSUME Bad # {} PROVE FALSE
  OBVIOUS
<1>1. Bad \in SUBSET Nat
  BY <1>f
<1>2. PICK n \in Bad : \A m \in Bad : n <= m
  BY <1>1, LeastElement
<1>3. PICK r \in SUBSET S : /\ T \subseteq r /\ Cardinality(r) = n
                            /\ ~(Total(W, T) <= Total(W, r))
  BY <1>2
<1>4. PICK x \in r : x \notin T
  BY <1>3, <1>t
<1> DEFINE q == r \ {x}
<1>5. q \in SUBSET S /\ T \subseteq q /\ Cardinality(q) < Cardinality(r)
  BY <1>f, <1>3, <1>4, FS_RemoveElement
<1>6. Total(W, T) <= Total(W, q)
  BY <1>f, <1>2, <1>3, <1>5
<1>7. q \cup {x} = r /\ x \in D \ q
  BY <1>4
<1>8. Total(W, q \cup {x}) = Total(W, q) + W[x]
  <2>1. IsFiniteSet(q) /\ q \in SUBSET D
    BY <1>f, <1>5
  <2> HIDE DEF q
  <2>2. \A y \in D \ q : Total(W, q \cup {y}) = Total(W, q) + W[y]
    BY <2>1, TotalAdd
  <2>3. QED
    BY <1>7, <2>2
<1>9. W[x] \in Nat
  BY <1>7
<1>10. QED
  BY <1>t, <1>3, <1>5, <1>6, <1>7, <1>8, <1>9

(* Induction on the natural numbers, for a set.                            *)
LEMMA NatInduct ==
    ASSUME NEW P \in SUBSET Nat, 0 \in P, \A n \in P : n + 1 \in P
    PROVE  P = Nat
<1> DEFINE Bad == Nat \ P
<1> SUFFICES ASSUME Bad # {} PROVE FALSE
  OBVIOUS
<1>1. PICK n \in Bad : \A m \in Bad : n <= m
  BY LeastElement
<1>2. n \in Nat /\ n # 0 /\ n \notin P
  OBVIOUS
<1>3. n - 1 \in Nat /\ n - 1 < n /\ (n - 1) + 1 = n
  BY <1>2
<1>4. n - 1 \in P
  BY <1>1, <1>3
<1>5. QED
  BY <1>2, <1>3, <1>4

UpTo(s, I, n, p) ==
    p = [m \in 0..n |-> IF m = 0 THEN << >>
                        ELSE IF m \in I THEN Append(p[m - 1], s[m]) ELSE p[m - 1]]

LEMMA UpToExists ==
    ASSUME NEW s, NEW I
    PROVE  \A n \in Nat : \E p : UpTo(s, I, n, p)
<1> DEFINE P == {n \in Nat : \E p : UpTo(s, I, n, p)}
<1>1. 0 \in P
  <2> DEFINE p == [m \in 0..0 |-> << >>]
  <2>1. UpTo(s, I, 0, p)
    BY DEF UpTo
  <2>2. QED
    BY <2>1
<1>2. ASSUME NEW n \in P PROVE n + 1 \in P
  <2>1. PICK g : UpTo(s, I, n, g)
    OBVIOUS
  <2>2. g = [m \in 0..n |-> IF m = 0 THEN << >>
                            ELSE IF m \in I THEN Append(g[m - 1], s[m]) ELSE g[m - 1]]
    BY <2>1 DEF UpTo
  <2> DEFINE h == [m \in 0..(n + 1) |->
                     IF m = 0 THEN << >>
                     ELSE IF m \in I THEN Append(g[m - 1], s[m]) ELSE g[m - 1]]
  <2>3. \A m \in 0..n : h[m] = g[m]
    <3>1. \A m \in 0..n : m \in 0..(n + 1)
      OBVIOUS
    <3>2. QED
      BY <2>2, <3>1
  <2>4. \A m \in 0..(n + 1) : m # 0 => m - 1 \in 0..n
    OBVIOUS
  <2>5. \A m \in 0..(n + 1) : m # 0 => g[m - 1] = h[m - 1]
    BY <2>3, <2>4
  <2>6. h = [m \in 0..(n + 1) |->
                IF m = 0 THEN << >>
                ELSE IF m \in I THEN Append(h[m - 1], s[m]) ELSE h[m - 1]]
    BY <2>5
  <2> HIDE DEF h
  <2>7. UpTo(s, I, n + 1, h)
    BY <2>6 DEF UpTo
  <2>8. QED
    BY <2>7
<1> HIDE DEF P
<1>3. P = Nat
  BY <1>1, <1>2, NatInduct DEF P
<1>4. QED
  BY <1>3 DEF P

LEMMA AppendMembers ==
    ASSUME NEW S, NEW q \in Seq(S), NEW x \in S
    PROVE  Append(q, x) \in Seq(S) /\ ToSet(Append(q, x)) = ToSet(q) \cup {x}
<1>1. /\ Append(q, x) \in Seq(S)
      /\ DOMAIN q = 1..Len(q) /\ DOMAIN Append(q, x) = 1..(Len(q) + 1)
      /\ Append(q, x)[Len(q) + 1] = x
      /\ \A k \in 1..Len(q) : Append(q, x)[k] = q[k]
      /\ Len(q) \in Nat
  OBVIOUS
<1>2. 1..(Len(q) + 1) = (1..Len(q)) \cup {Len(q) + 1}
  BY <1>1
<1>3. QED
  BY <1>1, <1>2 DEF ToSet

(* Pick keeps the members at these places and nothing else.                *)
LEMMA PickMembers ==
    ASSUME NEW S, NEW s \in Seq(S), NEW I
    PROVE  /\ Pick(s, I) \in Seq(S)
           /\ ToSet(Pick(s, I)) = {s[k] : k \in DOMAIN s \cap I}
<1>0. Len(s) \in Nat /\ DOMAIN s = 1..Len(s)
  OBVIOUS
<1>1. PICK p : UpTo(s, I, Len(s), p)
  BY <1>0, UpToExists
<1> DEFINE Upto == CHOOSE q : UpTo(s, I, Len(s), q)
<1>2. UpTo(s, I, Len(s), Upto)
  BY <1>1
<1>3. Pick(s, I) = Upto[Len(s)]
  BY DEF Pick, UpTo
<1> HIDE DEF Upto
<1> DEFINE P == {n \in Nat : n <= Len(s) =>
                   /\ Upto[n] \in Seq(S)
                   /\ ToSet(Upto[n]) = {s[k] : k \in (1..n) \cap I}}
<1>4. /\ Upto[0] = << >>
      /\ \A m \in 1..Len(s) :
            Upto[m] = IF m \in I THEN Append(Upto[m - 1], s[m]) ELSE Upto[m - 1]
  <2>1. Upto = [m \in 0..Len(s) |->
                  IF m = 0 THEN << >>
                  ELSE IF m \in I THEN Append(Upto[m - 1], s[m]) ELSE Upto[m - 1]]
    BY <1>2 DEF UpTo
  <2>2. 0 \in 0..Len(s) /\ \A m \in 1..Len(s) : m \in 0..Len(s) /\ m # 0
    BY <1>0
  <2>3. Upto[0] = << >>
    BY <2>1, <2>2
  <2>4. ASSUME NEW m \in 1..Len(s)
        PROVE  Upto[m] = IF m \in I THEN Append(Upto[m - 1], s[m]) ELSE Upto[m - 1]
    BY <2>1, <2>2
  <2>5. QED
    BY <2>3, <2>4
<1>5. 0 \in P
  <2>1. Upto[0] \in Seq(S) /\ ToSet(Upto[0]) = {}
    BY <1>4 DEF ToSet
  <2>2. {s[k] : k \in (1..0) \cap I} = {}
    OBVIOUS
  <2>3. QED
    BY <2>1, <2>2
<1>6. ASSUME NEW n \in P PROVE n + 1 \in P
  <2> SUFFICES ASSUME n + 1 <= Len(s)
               PROVE  /\ Upto[n + 1] \in Seq(S)
                      /\ ToSet(Upto[n + 1]) = {s[k] : k \in (1..(n + 1)) \cap I}
    OBVIOUS
  <2>1. /\ n \in Nat /\ n + 1 \in 1..Len(s) /\ (n + 1) - 1 = n
        /\ Upto[n] \in Seq(S) /\ ToSet(Upto[n]) = {s[k] : k \in (1..n) \cap I}
    OBVIOUS
  <2>2. 1..(n + 1) = (1..n) \cup {n + 1}
    BY <2>1
  <2>3. CASE n + 1 \in I
    <3>1. Upto[n + 1] = Append(Upto[n], s[n + 1])
      BY <1>4, <2>1, <2>3
    <3>2. s[n + 1] \in S
      BY <2>1
    <3>3. \A q \in Seq(S), x \in S : Append(q, x) \in Seq(S)
                                     /\ ToSet(Append(q, x)) = ToSet(q) \cup {x}
      BY AppendMembers
    <3>4. Upto[n + 1] \in Seq(S) /\ ToSet(Upto[n + 1]) = ToSet(Upto[n]) \cup {s[n + 1]}
      BY <2>1, <3>1, <3>2, <3>3
    <3>5. {s[k] : k \in (1..(n + 1)) \cap I} = {s[k] : k \in (1..n) \cap I} \cup {s[n + 1]}
      BY <2>2, <2>3
    <3>6. QED
      BY <2>1, <3>4, <3>5
  <2>4. CASE n + 1 \notin I
    <3>1. Upto[n + 1] = Upto[n]
      BY <1>4, <2>1, <2>4
    <3>2. (1..(n + 1)) \cap I = (1..n) \cap I
      BY <2>2, <2>4
    <3>3. QED
      BY <2>1, <3>1, <3>2
  <2>5. QED
    BY <2>3, <2>4
<1>7. P = Nat
  <2> HIDE DEF P
  <2>1. P \in SUBSET Nat
    BY DEF P
  <2>2. QED
    BY <1>5, <1>6, <2>1, NatInduct
<1>9. Len(s) \in P
  BY <1>0, <1>7
<1>10. QED
  BY <1>0, <1>3, <1>9

LEMMA WorthsIsTotal == ASSUME NEW S PROVE Worths(S) = Total(Worth, S)
  BY DEF Worths, Total, SumsUpTo, Sums, Chosen, MapThenSumSet, MapThenFoldSet

(***************************************************************************)
(* Types.                                                                  *)
(***************************************************************************)
Jobs == Seq(Frames) \ {<< >>}
PutPlaces == {"idle", "merge", "count", "insert", "memory"}
WorkPlaces == {"idle", "grade", "wait", "product", "publish", "requeue"}
Posted == {"debit", "credit", "complete", "remaining", "close", "deliver", "reputation"}
CallPlaces == {"idle", "check", "insert"} \cup Posted

ListTypes == rows \in Seq(Jobs) /\ memory \in Seq(Jobs) /\ taken \in Seq(Jobs)

PutTypes ==
    /\ put \in [Frames \cup Workers -> [pc : PutPlaces, job : Seq(Frames)]]
    /\ \A x \in Frames \cup Workers : put[x].pc # "idle" => put[x].job # << >>

WorkTypes ==
    /\ worker \in [Workers -> [pc : WorkPlaces, job : Seq(Frames), i : Nat]]
    /\ \A w \in Workers : worker[w].pc # "idle" =>
                              worker[w].i \in 1..Len(worker[w].job)

CallTypes ==
    /\ api \in [Workers -> [pc : CallPlaces, frame : Frames \cup {AnyFrame}, saw : Nat]]
    /\ \A w \in Workers : api[w].pc # "idle" => api[w].frame \in Frames

GradeTypes ==
    /\ graded \subseteq Frames /\ IsFiniteSet(graded)
    /\ earned \in [Tasks -> Nat] /\ completed \subseteq Tasks
    /\ credits \in [Frames -> Nat] /\ inbox \in [Frames -> Nat]

TypeOK == ListTypes /\ PutTypes /\ WorkTypes /\ CallTypes /\ GradeTypes

LEMMA JobTypes ==
    ASSUME NEW job \in Jobs
    PROVE  job \in Seq(Frames) /\ job # << >> /\ Len(job) \in Nat \ {0} /\ Head(job) \in Frames
  BY DEF Jobs

LEMMA EnqueueTypes ==
    ASSUME PutTypes, NEW x \in Frames \cup Workers, NEW job \in Jobs, Enqueue(x, job)
    PROVE  PutTypes'
<1>1. job \in Seq(Frames) /\ job # << >>
  BY JobTypes
<1>2. QED
  BY <1>1 DEF Enqueue, PutTypes, PutPlaces

LEMMA NoJobTypes ==
    ASSUME WorkTypes, NEW w \in Workers, worker' = [worker EXCEPT ![w] = NoJob]
    PROVE  WorkTypes'
<1>1. NoJob \in [pc : WorkPlaces, job : Seq(Frames), i : Nat] /\ NoJob.pc = "idle"
  BY DEF NoJob, WorkPlaces
<1>2. QED
  BY <1>1 DEF WorkTypes

LEMMA DoneTypes ==
    ASSUME PutTypes, WorkTypes, NEW x \in Frames \cup Workers, Done(x)
    PROVE  PutTypes' /\ WorkTypes'
<1>1. PutTypes'
  BY DEF Done, PutTypes, Free, PutPlaces
<1>2. WorkTypes'
  <2>1. CASE x \in Workers
    BY <2>1, NoJobTypes DEF Done
  <2>2. CASE x \notin Workers
    BY <2>2 DEF Done, WorkTypes
  <2>3. QED
    BY <2>1, <2>2
<1>3. QED
  BY <1>1, <1>2

LEMMA PutStepTypes ==
    ASSUME PutTypes, NEW x \in Frames \cup Workers, put[x].pc # "idle",
           NEW p \in PutPlaces, put' = [put EXCEPT ![x].pc = p]
    PROVE  PutTypes'
  BY DEF PutTypes, PutPlaces

LEMMA WorkJob ==
    ASSUME WorkTypes, NEW w \in Workers, worker[w].pc # "idle"
    PROVE  worker[w].job \in Jobs /\ worker[w].job[worker[w].i] \in Frames
           /\ worker[w].i \in 1..Len(worker[w].job)
  BY DEF WorkTypes, Jobs

LEMMA WorkStepTypes ==
    ASSUME WorkTypes, NEW w \in Workers, worker[w].pc # "idle",
           NEW p \in WorkPlaces, worker' = [worker EXCEPT ![w].pc = p]
    PROVE  WorkTypes'
  BY DEF WorkTypes, WorkPlaces

LEMMA RequeueTypes ==
    ASSUME PutTypes, WorkTypes, NEW w \in Workers, worker[w].pc # "idle", Requeue(w)
    PROVE  PutTypes' /\ WorkTypes'
<1>1. PutTypes'
  BY WorkJob, EnqueueTypes DEF Requeue
<1>2. WorkTypes'
  BY WorkStepTypes DEF Requeue, WorkPlaces
<1>3. QED
  BY <1>1, <1>2

LEMMA NextFrameTypes ==
    ASSUME WorkTypes, NEW w \in Workers, worker[w].pc # "idle", NextFrame(w)
    PROVE  WorkTypes'
<1> DEFINE r == worker[w]
           q == [pc |-> "grade", job |-> r.job, i |-> r.i + 1]
<1>t. r \in [pc : WorkPlaces, job : Seq(Frames), i : Nat] /\ r.i \in 1..Len(r.job)
  BY DEF WorkTypes
<1>1. CASE r.i < Len(r.job)
  <2>1. worker' = [worker EXCEPT ![w] = q]
    BY <1>1 DEF NextFrame
  <2>2. q \in [pc : WorkPlaces, job : Seq(Frames), i : Nat]
    <3>1. r.job \in Seq(Frames) /\ r.i + 1 \in Nat
      BY <1>t
    <3>2. QED
      BY <3>1 DEF WorkPlaces
  <2>4. q.i = r.i + 1 /\ q.job = r.job /\ r.i + 1 \in 1..Len(r.job)
    <3>1. Len(r.job) \in Nat
      BY <1>t
    <3>2. QED
      BY <1>1, <1>t, <3>1
  <2> HIDE DEF q
  <2>3. QED
    BY <2>1, <2>2, <2>4 DEF WorkTypes
<1>2. CASE ~(r.i < Len(r.job)) /\ Stack(r.job) /\ Len(r.job) >= 2
  BY <1>2, WorkStepTypes DEF NextFrame, WorkPlaces
<1>3. CASE ~(r.i < Len(r.job)) /\ ~(Stack(r.job) /\ Len(r.job) >= 2)
  BY <1>3, NoJobTypes DEF NextFrame
<1>4. QED
  BY <1>1, <1>2, <1>3

LEMMA RefusedTypes ==
    ASSUME PutTypes, WorkTypes, NEW w \in Workers, worker[w].pc # "idle", Refused(w)
    PROVE  PutTypes' /\ WorkTypes'
<1>1. CASE grading = "worker"
  BY <1>1, RequeueTypes DEF Refused
<1>2. CASE grading # "worker"
  BY <1>2, NextFrameTypes DEF Refused, PutTypes
<1>3. QED
  BY <1>1, <1>2

LEMMA StepTypes ==
    ASSUME CallTypes, NEW w \in Workers, NEW p \in CallPlaces, Step(w, p),
           p = "idle" \/ api[w].pc # "idle"
    PROVE  CallTypes'
  BY DEF CallTypes, Step, CallPlaces, Posted

LEMMA EndTypes ==
    ASSUME CallTypes, NEW w \in Workers, End(w)
    PROVE  CallTypes'
  BY DEF CallTypes, End, NoCall, CallPlaces

LEMMA AnswerTypes ==
    ASSUME PutTypes, WorkTypes, CallTypes, NEW w \in Workers, NEW ok, Answer(w, ok)
    PROVE  PutTypes' /\ WorkTypes' /\ CallTypes'
<1>1. CallTypes'
  BY EndTypes DEF Answer
<1>2. CASE worker[w].pc # "wait"
  BY <1>1, <1>2 DEF Answer, PutTypes, WorkTypes
<1>3. CASE worker[w].pc = "wait" /\ ok
  BY <1>1, <1>3, NextFrameTypes DEF Answer, PutTypes
<1>4. CASE worker[w].pc = "wait" /\ ~ok
  BY <1>1, <1>4, RefusedTypes DEF Answer
<1>5. QED
  BY <1>1, <1>2, <1>3, <1>4

LEMMA MergeTypes ==
    ASSUME NEW rs \in Seq(Jobs), NEW key \in Frames, NEW I
    PROVE  [k \in DOMAIN rs |-> IF k \in I THEN Append(rs[k], key) ELSE rs[k]] \in Seq(Jobs)
<1> DEFINE ms == [k \in DOMAIN rs |-> IF k \in I THEN Append(rs[k], key) ELSE rs[k]]
<1>1. DOMAIN rs = 1..Len(rs) /\ Len(rs) \in Nat
  OBVIOUS
<1>2. \A k \in 1..Len(rs) : rs[k] \in Jobs
  BY <1>1
<1>3. \A job \in Jobs : Append(job, key) \in Jobs
  BY DEF Jobs
<1> HIDE DEF Jobs
<1>4. \A k \in 1..Len(rs) : ms[k] \in Jobs
  BY <1>1, <1>2, <1>3
<1>5. ms \in [1..Len(rs) -> Jobs]
  BY <1>1, <1>2, <1>3
<1>6. QED
  BY <1>1, <1>5

LEMMA MergeStackTypes ==
    ASSUME TypeOK, NEW x \in Frames \cup Workers, MergeStack(x)
    PROVE  TypeOK'
<1> DEFINE key == Head(put[x].job)
           ms == [k \in DOMAIN rows |->
                    IF Mergeable(rows[k], key) /\ key \notin ToSet(rows[k])
                    THEN Append(rows[k], key) ELSE rows[k]]
<1>1. put[x].job \in Seq(Frames) /\ put[x].job # << >>
  BY DEF MergeStack, TypeOK, PutTypes
<1>2. key \in Frames
  BY <1>1
<1>3. ms \in Seq(Jobs)
  <2> DEFINE I == {k \in DOMAIN rows : Mergeable(rows[k], key) /\ key \notin ToSet(rows[k])}
             is == [k \in DOMAIN rows |-> IF k \in I THEN Append(rows[k], key) ELSE rows[k]]
  <2>1. rows \in Seq(Jobs)
    BY DEF TypeOK, ListTypes
  <2>2. ms = is
    OBVIOUS
  <2> HIDE DEF key, I, ms
  <2>3. is \in Seq(Jobs)
    BY <1>2, <2>1, MergeTypes
  <2>4. QED
    BY <2>2, <2>3
<1>4. rows' \in {rows, ms} /\ UNCHANGED <<memory, taken>>
  BY DEF MergeStack, Rest
<1>5. ListTypes'
  <2> HIDE DEF ms
  <2>1. QED
    BY <1>3, <1>4 DEF ListTypes, TypeOK
<1>6. Done(x) \/ (put' = [put EXCEPT ![x].pc = "count"] /\ UNCHANGED worker)
  BY DEF MergeStack
<1>7. PutTypes' /\ WorkTypes'
  <2>1. CASE Done(x)
    BY <2>1, DoneTypes DEF TypeOK
  <2>2. CASE put' = [put EXCEPT ![x].pc = "count"] /\ UNCHANGED worker
    <3>1. put[x].pc # "idle"
      BY DEF MergeStack
    <3>2. PutTypes'
      BY <2>2, <3>1, PutStepTypes DEF TypeOK, PutPlaces
    <3>3. QED
      BY <2>2, <3>2 DEF TypeOK, WorkTypes
  <2>3. QED
    BY <1>6, <2>1, <2>2
<1>8. CallTypes' /\ GradeTypes'
  BY DEF MergeStack, Rest, ingest, TypeOK, CallTypes, GradeTypes
<1>9. QED
  BY <1>5, <1>7, <1>8 DEF TypeOK

(* The list in memory gets the new job, or its first stack of that task    *)
(* the job's frames that it does not have.                                 *)
LEMMA RememberStep ==
    ASSUME NEW x, memory \in Seq(Jobs), Remember(x)
    PROVE  LET job == put[x].job IN
           \/ memory' = memory /\ Lose({job})
           \/ memory' = Append(memory, job) /\ UNCHANGED dropped
           \/ \E k \in DOMAIN memory :
                 /\ Stack(job) /\ Of(memory[k]) = Of(job)
                 /\ memory' = [memory EXCEPT ![k] =
                       @ \o Pick(job, {i \in DOMAIN job : job[i] \notin ToSet(memory[k])})]
                 /\ UNCHANGED dropped
<1> DEFINE job == put[x].job
           Same(k) == Stack(job) /\ Of(memory[k]) = Of(job)
           All == {k \in DOMAIN memory : Same(k)}
<1>d. DOMAIN memory = 1..Len(memory) /\ Len(memory) \in Nat
  OBVIOUS
<1>1. CASE \E k \in DOMAIN memory : Same(k)
  <2>1. All # {} /\ All \in SUBSET Nat
    BY <1>d, <1>1
  <2>2. PICK n \in All : \A m \in All : n <= m
    BY <2>1, LeastElement
  <2>3. n \in DOMAIN memory /\ Same(n) /\ \A j \in 1..(n - 1) : ~Same(j)
    <3>1. \A j \in 1..(n - 1) : j \in DOMAIN memory /\ ~(n <= j)
      BY <1>d, <2>1
    <3>2. QED
      BY <2>2, <3>1
  <2> DEFINE k == CHOOSE k \in DOMAIN memory : Same(k) /\ \A j \in 1..(k - 1) : ~Same(j)
  <2>4. k \in DOMAIN memory /\ Same(k)
    BY <2>3
  <2>5. /\ memory' = [memory EXCEPT ![k] =
                       @ \o Pick(job, {i \in DOMAIN job : job[i] \notin ToSet(memory[k])})]
        /\ UNCHANGED dropped
    BY <1>1 DEF Remember
  <2> HIDE DEF k
  <2>6. QED
    BY <2>4, <2>5
<1>2. CASE ~\E k \in DOMAIN memory : Same(k)
  BY <1>2 DEF Remember
<1>3. QED
  BY <1>1, <1>2

LEMMA PutTypesStep ==
    ASSUME TypeOK, NEW x \in Frames \cup Workers,
           CountPending(x) \/ InsertJob(x) \/ Remember(x)
    PROVE  TypeOK'
<1>1. put[x].pc # "idle"
  BY DEF CountPending, InsertJob, Remember
<1>2. put[x].job \in Jobs /\ put[x].job \in Seq(Frames)
  BY <1>1 DEF TypeOK, PutTypes, Jobs
<1>3. \/ Done(x)
      \/ \E p \in PutPlaces : put' = [put EXCEPT ![x].pc = p] /\ UNCHANGED worker
  BY DEF CountPending, InsertJob, Remember, PutPlaces
<1>4. PutTypes' /\ WorkTypes'
  <2>1. CASE Done(x)
    BY <2>1, DoneTypes DEF TypeOK
  <2>2. CASE \E p \in PutPlaces : put' = [put EXCEPT ![x].pc = p] /\ UNCHANGED worker
    <3>1. PutTypes'
      BY <1>1, <2>2, PutStepTypes DEF TypeOK
    <3>2. QED
      BY <2>2, <3>1 DEF TypeOK, WorkTypes
  <2>3. QED
    BY <1>3, <2>1, <2>2
<1>5. CallTypes' /\ GradeTypes'
  BY DEF CountPending, InsertJob, Remember, Rest, ingest, TypeOK, CallTypes, GradeTypes
<1>6. rows' \in Seq(Jobs) /\ taken' \in Seq(Jobs)
  <2>1. taken' = taken /\ rows' \in {rows, Append(rows, put[x].job)}
    BY DEF CountPending, InsertJob, Remember, Rest, InsertRow
  <2>2. QED
    BY <1>2, <2>1 DEF TypeOK, ListTypes
<1>7. memory' \in Seq(Jobs)
  <2>1. CASE CountPending(x) \/ InsertJob(x)
    BY <2>1 DEF CountPending, InsertJob, TypeOK, ListTypes
  <2>2. CASE Remember(x)
    <3> DEFINE job == put[x].job
               Places(k) == {i \in DOMAIN job : job[i] \notin ToSet(memory[k])}
    <3>0. memory \in Seq(Jobs)
      BY DEF TypeOK, ListTypes
    <3>1. \/ memory' \in {memory, Append(memory, job)}
          \/ \E k \in DOMAIN memory :
                memory' = [memory EXCEPT ![k] = @ \o Pick(job, Places(k))]
      BY <2>2, <3>0, RememberStep
    <3>3. \A k : Pick(job, Places(k)) \in Seq(Frames)
      BY <1>2, PickMembers
    <3> HIDE DEF job, Places
    <3>4. ASSUME NEW k \in DOMAIN memory,
                 memory' = [memory EXCEPT ![k] = @ \o Pick(job, Places(k))]
          PROVE  memory' \in Seq(Jobs)
      <4> DEFINE q == memory[k] \o Pick(job, Places(k))
      <4>1. memory[k] \in Seq(Frames) /\ memory[k] # << >>
        BY <3>0 DEF Jobs
      <4>2. q \in Jobs
        BY <3>3, <4>1 DEF Jobs
      <4>3. memory' = [memory EXCEPT ![k] = q]
        BY <3>4
      <4> HIDE DEF q
      <4>4. QED
        BY <3>0, <4>2, <4>3
    <3>5. job \in Jobs
      BY <1>2 DEF job
    <3>6. QED
      BY <3>0, <3>1, <3>4, <3>5
  <2>3. QED
    BY <2>1, <2>2
<1>8. QED
  BY <1>4, <1>5, <1>6, <1>7 DEF TypeOK, ListTypes

LEMMA TakeTypes ==
    ASSUME TypeOK, TakeJobs
    PROVE  TypeOK'
<1> DEFINE able == {k \in DOMAIN rows : Ready(rows[k])}
           ready == Pick(rows, able)
           left == Pick(rows, DOMAIN rows \ able)
<1>1. rows \in Seq(Jobs) /\ memory \in Seq(Jobs) /\ taken \in Seq(Jobs)
  BY DEF TypeOK, ListTypes
<1>2. ready \in Seq(Jobs) /\ left \in Seq(Jobs)
  BY <1>1, PickMembers
<1>3. /\ rows' \in {rows, left} /\ memory' = << >>
      /\ taken' \in {taken, memory, ready \o memory}
  BY DEF TakeJobs
<1> HIDE DEF ready, left
<1>4. ListTypes'
  <2>1. << >> \in Seq(Jobs) /\ ready \o memory \in Seq(Jobs)
    BY <1>1, <1>2
  <2>2. QED
    BY <1>1, <1>2, <1>3, <2>1 DEF ListTypes
<1>5. UNCHANGED <<put, worker, ingest, credits>>
  BY DEF TakeJobs
<1>6. QED
  <2>1. PutTypes' /\ WorkTypes'
    BY <1>5 DEF TypeOK, PutTypes, WorkTypes
  <2>2. CallTypes' /\ GradeTypes'
    <3>1. UNCHANGED <<api, graded, earned, completed, credits, inbox>>
      BY <1>5 DEF ingest
    <3>2. QED
      BY <3>1 DEF TypeOK, CallTypes, GradeTypes
  <2>3. QED
    BY <1>4, <2>1, <2>2 DEF TypeOK

LEMMA StartTypes ==
    ASSUME TypeOK, NEW w \in Workers, StartJob(w)
    PROVE  TypeOK'
<1>1. taken \in Seq(Jobs) /\ taken # << >>
  BY DEF TypeOK, ListTypes, StartJob
<1>2. Head(taken) \in Jobs /\ Tail(taken) \in Seq(Jobs)
  BY <1>1
<1> DEFINE q == [pc |-> "grade", job |-> Head(taken), i |-> 1]
<1>3. q \in [pc : WorkPlaces, job : Seq(Frames), i : Nat] /\ q.i \in 1..Len(q.job)
  <2>1. Head(taken) \in Seq(Frames) /\ 1 \in 1..Len(Head(taken))
    BY <1>2, JobTypes
  <2>2. QED
    BY <2>1 DEF WorkPlaces
<1>4. worker' = [worker EXCEPT ![w] = q]
  BY DEF StartJob
<1> HIDE DEF q
<1>5. WorkTypes'
  BY <1>3, <1>4 DEF TypeOK, WorkTypes
<1>6. ListTypes'
  BY <1>2 DEF StartJob, TypeOK, ListTypes, queue
<1>7. QED
  BY <1>5, <1>6 DEF StartJob, TypeOK, PutTypes, CallTypes, GradeTypes, queue, ingest

LEMMA GradeTypesStep ==
    ASSUME TypeOK, NEW w \in Workers, Grade(w)
    PROVE  TypeOK'
<1>1. worker[w].pc # "idle" /\ worker[w].job[worker[w].i] \in Frames
  BY WorkJob DEF Grade, TypeOK
<1>2. ListTypes' /\ GradeTypes'
  BY DEF Grade, TypeOK, ListTypes, GradeTypes
<1>3. PutTypes' /\ WorkTypes' /\ CallTypes'
  <2>1. CASE /\ worker' = [worker EXCEPT ![w].pc = "wait"] /\ UNCHANGED put
             /\ api' = [api EXCEPT ![w] = [pc |-> "check",
                           frame |-> worker[w].job[worker[w].i], saw |-> 0]]
    <3>1. WorkTypes'
      BY <1>1, <2>1, WorkStepTypes DEF TypeOK, WorkPlaces
    <3>2. QED
      BY <1>1, <2>1, <3>1 DEF TypeOK, PutTypes, CallTypes, CallPlaces
  <2>2. CASE Requeue(w) /\ UNCHANGED api
    BY <1>1, <2>2, RequeueTypes DEF TypeOK, CallTypes
  <2>3. QED
    BY <2>1, <2>2 DEF Grade
<1>4. QED
  BY <1>2, <1>3 DEF TypeOK

LEMMA WorkTypesStep ==
    ASSUME TypeOK, NEW w \in Workers,
           \/ GiveUpWaiting(w) \/ CheckProduct(w) \/ DeliverProduct(w)
           \/ RequeueFails(w) \/ WorkerDies(w)
    PROVE  TypeOK'
<1>1. ListTypes'
  <2>1. CASE UNCHANGED <<rows, memory, taken>>
    BY <2>1 DEF TypeOK, ListTypes
  <2>2. CASE WorkerDies(w)
    <3>1. UNCHANGED <<rows, memory>> /\ taken' \in {taken, << >>}
      BY <2>2 DEF WorkerDies, queue
    <3>2. QED
      BY <3>1, << >> \in Seq(Jobs) DEF TypeOK, ListTypes
  <2>3. QED
    BY <2>1, <2>2 DEF GiveUpWaiting, CheckProduct, DeliverProduct, RequeueFails, Rest
<1>2. CallTypes' /\ GradeTypes'
  BY DEF GiveUpWaiting, CheckProduct, DeliverProduct, RequeueFails, WorkerDies, Rest,
     ingest, TypeOK, CallTypes, GradeTypes
<1>3. CASE GiveUpWaiting(w)
  BY <1>1, <1>2, <1>3, RefusedTypes DEF GiveUpWaiting, TypeOK
<1>4. CASE CheckProduct(w) \/ DeliverProduct(w)
  <2>1. worker[w].pc # "idle"
    BY <1>4 DEF CheckProduct, DeliverProduct
  <2>2. \/ worker' = [worker EXCEPT ![w].pc = "publish"] /\ UNCHANGED put
        \/ worker' = [worker EXCEPT ![w] = NoJob] /\ UNCHANGED put
        \/ Requeue(w)
    BY <1>4 DEF CheckProduct, DeliverProduct
  <2>3. QED
    BY <1>1, <1>2, <2>1, <2>2, WorkStepTypes, NoJobTypes, RequeueTypes
       DEF TypeOK, PutTypes, WorkPlaces
<1>5. CASE RequeueFails(w)
  BY <1>1, <1>2, <1>5, DoneTypes DEF RequeueFails, TypeOK
<1>6. CASE WorkerDies(w)
  BY <1>1, <1>2, <1>6, NoJobTypes DEF WorkerDies, TypeOK, PutTypes, queue
<1>7. QED
  BY <1>3, <1>4, <1>5, <1>6

LEMMA IngestTypes ==
    ASSUME TypeOK, NEW w \in Workers, Ingest(w)
    PROVE  TypeOK'
<1> USE DEF Outside, Silent
<1>1. ListTypes'
  BY DEF Ingest, CheckDuplicate, InsertGrade, ReadEarned, Credit, CompleteTask,
     CountRemaining, CloseCampaign, Deliver, Accept, IngestFails, IngestStops, TypeOK, ListTypes
<1>2. api[w].pc # "idle" /\ api[w].frame \in Frames /\ TaskOf[api[w].frame] \in Tasks
  BY TaskOfAssumption DEF Ingest, CheckDuplicate, InsertGrade, ReadEarned, Credit,
     CompleteTask, CountRemaining, CloseCampaign, Deliver, Accept, IngestFails, IngestStops,
     TypeOK, CallTypes
<1>3. GradeTypes'
  <2>1. CASE CheckDuplicate(w) \/ ReadEarned(w) \/ CountRemaining(w) \/ CloseCampaign(w)
             \/ Accept(w) \/ IngestStops(w)
    BY <2>1 DEF CheckDuplicate, ReadEarned, CountRemaining, CloseCampaign, Accept,
       IngestStops, TypeOK, GradeTypes
  <2>2. CASE InsertGrade(w)
    <3>1. graded' \in {graded, graded \cup {api[w].frame}}
      BY <2>2 DEF InsertGrade
    <3>2. graded' \subseteq Frames /\ IsFiniteSet(graded')
      BY <1>2, <3>1, FS_AddElement DEF TypeOK, GradeTypes
    <3>3. QED
      BY <2>2, <3>2 DEF InsertGrade, TypeOK, GradeTypes
  <2>3. CASE Credit(w)
    <3>1. api[w].saw \in Nat /\ Worth[api[w].frame] \in Nat
      BY <1>2, WorthAssumption DEF TypeOK, CallTypes
    <3>2. QED
      BY <1>2, <2>3, <3>1 DEF Credit, TypeOK, GradeTypes
  <2>4. CASE CompleteTask(w)
    BY <1>2, <2>4 DEF CompleteTask, TypeOK, GradeTypes
  <2>7. CASE IngestFails(w)
    <3>1. api[w].saw \in Nat /\ Worth[api[w].frame] \in Nat
      BY <1>2, WorthAssumption DEF TypeOK, CallTypes
    <3>2. /\ earned' \in {earned, [earned EXCEPT ![TaskOf[api[w].frame]] =
                                      api[w].saw + Worth[api[w].frame]]}
          /\ credits' \in {credits, [credits EXCEPT ![api[w].frame] = @ + 1]}
          /\ completed' \in {completed, completed \cup {TaskOf[api[w].frame]}}
          /\ UNCHANGED <<graded, inbox>>
      BY <2>7 DEF IngestFails
    <3>3. QED
      BY <1>2, <3>1, <3>2 DEF TypeOK, GradeTypes
  <2>5. CASE Deliver(w)
    BY <1>2, <2>5 DEF Deliver, TypeOK, GradeTypes
  <2>6. QED
    BY <2>1, <2>2, <2>3, <2>4, <2>5, <2>7 DEF Ingest
<1>4. PutTypes' /\ WorkTypes' /\ CallTypes'
  <2>1. CASE \E ok \in BOOLEAN : Answer(w, ok)
    BY <2>1, AnswerTypes DEF TypeOK
  <2>2. CASE (\E p \in CallPlaces : Step(w, p)) /\ UNCHANGED <<worker, put>>
    BY <1>2, <2>2, StepTypes DEF TypeOK, PutTypes, WorkTypes
  <2>3. CASE ReadEarned(w)
    <3>1. earned[TaskOf[api[w].frame]] \in Nat
      BY <1>2 DEF TypeOK, GradeTypes
    <3>2. QED
      BY <1>2, <2>3, <3>1 DEF ReadEarned, TypeOK, PutTypes, WorkTypes, CallTypes,
         CallPlaces, Posted
  <2>5. CASE End(w) /\ UNCHANGED <<worker, put>>
    BY <2>5, EndTypes DEF TypeOK, PutTypes, WorkTypes
  <2>4. QED
    BY <2>1, <2>2, <2>3, <2>5 DEF Ingest, CheckDuplicate, InsertGrade, Credit,
       CompleteTask, CountRemaining, CloseCampaign, Deliver, Accept, IngestFails, IngestStops,
       CallPlaces, Posted
<1>5. QED
  BY <1>1, <1>3, <1>4 DEF TypeOK

LEMMA RestartTypes ==
    ASSUME TypeOK, Restart
    PROVE  TypeOK'
<1>1. ListTypes' /\ GradeTypes'
  BY DEF Restart, TypeOK, ListTypes, GradeTypes
<1>2. PutTypes'
  BY DEF Restart, TypeOK, PutTypes, Free, PutPlaces
<1>3. WorkTypes'
  BY DEF Restart, TypeOK, WorkTypes, NoJob, WorkPlaces
<1>4. CallTypes'
  BY DEF Restart, TypeOK, CallTypes, NoCall, CallPlaces
<1>5. QED
  BY <1>1, <1>2, <1>3, <1>4 DEF TypeOK

LEMMA TypeInit == Init => TypeOK
<1> SUFFICES ASSUME Init PROVE TypeOK
  OBVIOUS
<1>1. ListTypes /\ PutTypes /\ WorkTypes
  BY DEF Init, ListTypes, PutTypes, WorkTypes, Free, NoJob, PutPlaces, WorkPlaces
<1>2. CallTypes
  BY DEF Init, CallTypes, NoCall, CallPlaces
<1>3. GradeTypes
  BY FS_EmptySet DEF Init, GradeTypes
<1>4. QED
  BY <1>1, <1>2, <1>3 DEF TypeOK

LEMMA TypeStep == TypeOK /\ [Next]_vars => TypeOK'
<1> SUFFICES ASSUME TypeOK, [Next]_vars PROVE TypeOK'
  OBVIOUS
<1>1. CASE UNCHANGED vars
  BY <1>1 DEF vars, queue, ingest, TypeOK, ListTypes, PutTypes, WorkTypes, CallTypes,
     GradeTypes
<1>2. ASSUME NEW f \in Frames, CompleteUpload(f) PROVE TypeOK'
  <2>1. <<f>> \in Jobs /\ f \in Frames \cup Workers
    BY DEF Jobs
  <2>2. PutTypes'
    BY <1>2, <2>1, EnqueueTypes DEF CompleteUpload, TypeOK
  <2>3. QED
    BY <1>2, <2>2 DEF CompleteUpload, ingest, TypeOK, ListTypes, WorkTypes, CallTypes,
       GradeTypes
<1>3. ASSUME NEW x \in Frames \cup Workers, Put(x) PROVE TypeOK'
  BY <1>3, MergeStackTypes, PutTypesStep DEF Put
<1>4. ASSUME NEW w \in Workers, Work(w) PROVE TypeOK'
  BY <1>4, StartTypes, GradeTypesStep, WorkTypesStep DEF Work
<1>5. QED
  BY <1>1, <1>2, <1>3, <1>4, TakeTypes, IngestTypes, RestartTypes DEF Next

(* The variables keep to their types: every job is a nonempty sequence of  *)
(* frames, a worker is at one of them, and a call is about a frame.        *)
THEOREM FramesTypes == Spec => []TypeOK
  BY TypeInit, TypeStep, PTL DEF Spec

(***************************************************************************)
(* A frame's grade is ingested by one call.                                *)
(***************************************************************************)
In(w, places) == api[w].pc \in places

(* A call that has written its grade is the only one for that frame, which *)
(* it has still to credit or deliver.                                      *)
Once ==
    /\ \A w \in Workers : In(w, Posted) =>
          /\ api[w].frame \in graded
          /\ ~In(w, {"reputation"}) => inbox[api[w].frame] = 0
          /\ In(w, {"debit", "credit"}) => credits[api[w].frame] = 0
    /\ \A v, w \in Workers : v # w /\ In(v, Posted) /\ In(w, Posted)
                                => api[v].frame # api[w].frame
    /\ \A f \in Frames \ graded : credits[f] = 0 /\ inbox[f] = 0

(* What a step that is not of a call in progress does to the calls: it may *)
(* end some or begin one, at its first statement.                          *)
CallsAside ==
    /\ UNCHANGED <<graded, earned, completed, credits, inbox>>
    /\ \A w \in Workers : api'[w] = api[w] \/ api'[w].pc \in {"idle", "check"}

LEMMA OthersAside ==
    ASSUME TypeOK, [Next]_vars, ~ \E w \in Workers : Ingest(w)
    PROVE  CallsAside
<1>1. CASE UNCHANGED vars
  BY <1>1 DEF vars, ingest, CallsAside
<1>2. ASSUME NEW f \in Frames, CompleteUpload(f) PROVE CallsAside
  BY <1>2 DEF CompleteUpload, ingest, CallsAside
<1>3. ASSUME NEW x \in Frames \cup Workers, Put(x) PROVE CallsAside
  BY <1>3 DEF Put, MergeStack, CountPending, InsertJob, Remember, Rest, ingest, CallsAside
<1>4. CASE TakeJobs
  BY <1>4 DEF TakeJobs, ingest, CallsAside
<1>5. ASSUME NEW w \in Workers, Work(w) PROVE CallsAside
  <2>1. CASE Grade(w)
    BY <2>1 DEF Grade, CallsAside, TypeOK, CallTypes
  <2>2. CASE ~Grade(w)
    BY <1>5, <2>2 DEF Work, StartJob, GiveUpWaiting, CheckProduct, DeliverProduct,
       RequeueFails, WorkerDies, Rest, ingest, CallsAside
  <2>3. QED
    BY <2>1, <2>2
<1>6. CASE Restart
  BY <1>6 DEF Restart, NoCall, CallsAside
<1>7. QED
  BY <1>1, <1>2, <1>3, <1>4, <1>5, <1>6 DEF Next

(* What a step of a call does to the calls: the others stay, and this one  *)
(* goes on with its frame, or ends.                                        *)
LEMMA OwnCall ==
    ASSUME TypeOK, NEW w \in Workers, Ingest(w)
    PROVE  /\ \A v \in Workers : v # w => api'[v] = api[v]
           /\ api'[w].frame = api[w].frame \/ api'[w].pc = "idle"
           /\ api[w].pc # "idle" /\ api[w].frame \in Frames
           /\ TaskOf[api[w].frame] \in Tasks
<1>1. \A v \in Workers : v # w => api'[v] = api[v]
  BY DEF Ingest, CheckDuplicate, InsertGrade, ReadEarned, Credit, CompleteTask,
     CountRemaining, CloseCampaign, Deliver, Accept, IngestFails, IngestStops, Answer, Step, End,
     TypeOK, CallTypes
<1>2. api'[w].frame = api[w].frame \/ api'[w].pc = "idle"
  BY DEF Ingest, CheckDuplicate, InsertGrade, ReadEarned, Credit, CompleteTask,
     CountRemaining, CloseCampaign, Deliver, Accept, IngestFails, IngestStops, Answer, Step, End,
     NoCall, TypeOK, CallTypes
<1>3. api[w].pc # "idle"
  BY DEF Ingest, CheckDuplicate, InsertGrade, ReadEarned, Credit, CompleteTask,
     CountRemaining, CloseCampaign, Deliver, Accept, IngestFails, IngestStops
<1>4. QED
  BY <1>1, <1>2, <1>3, TaskOfAssumption DEF TypeOK, CallTypes

(* The same, place by place.                                               *)
Begins(w) == /\ api[w].pc = "insert" /\ api[w].frame \notin graded
             /\ graded' = graded \cup {api[w].frame}
             /\ api'[w].pc \in {"debit", "deliver"}
             /\ UNCHANGED <<earned, completed, credits, inbox>>
Reads(w) == /\ api[w].pc = "debit" /\ api'[w].pc = "credit"
            /\ api'[w].saw = earned[TaskOf[api[w].frame]]
            /\ UNCHANGED <<graded, earned, completed, credits, inbox>>
Adds(w) == /\ api[w].pc = "credit" /\ api'[w].pc \in {"idle", "complete", "deliver"}
           /\ LET f == api[w].frame
                  sum == api[w].saw + Worth[f] IN
              /\ earned' = [earned EXCEPT ![TaskOf[f]] = sum]
              /\ credits' = [credits EXCEPT ![f] = @ + 1]
              /\ api'[w].pc = "complete" => sum >= Budget[TaskOf[f]]
           /\ UNCHANGED <<graded, completed, inbox>>
Closes(w) == /\ api[w].pc = "complete"
             /\ completed' = completed \cup {TaskOf[api[w].frame]}
             /\ api'[w].pc \in {"idle", "remaining", "deliver"}
             /\ UNCHANGED <<graded, earned, credits, inbox>>
Goes(w) == /\ api'[w].pc \in {"idle", "insert", "deliver", "close", "reputation"}
           /\ api'[w].pc = "reputation" => api[w].pc = "deliver"
           /\ api'[w].pc = "insert" => api[w].pc = "check"
           /\ api'[w].pc \in {"deliver", "close"} => api[w].pc \in {"remaining", "close"}
           /\ UNCHANGED <<graded, earned, completed, credits, inbox>>
Delivers(w) == /\ api[w].pc = "deliver" /\ api'[w].pc = "reputation"
               /\ inbox' = [inbox EXCEPT ![api[w].frame] = @ + 1]
               /\ UNCHANGED <<graded, earned, completed, credits>>

LEMMA CallPlace ==
    ASSUME TypeOK, NEW w \in Workers, NEW p, Step(w, p)
    PROVE  api'[w].pc = p
  BY DEF Step, TypeOK, CallTypes

LEMMA CallEnds ==
    ASSUME TypeOK, NEW w \in Workers, End(w)
    PROVE  api'[w].pc = "idle"
  BY DEF End, NoCall, TypeOK, CallTypes

LEMMA CallByPlace ==
    ASSUME TypeOK, NEW w \in Workers, Ingest(w)
    PROVE  Begins(w) \/ Reads(w) \/ Adds(w) \/ Closes(w) \/ Goes(w) \/ Delivers(w)
<1>1. \A ok : Answer(w, ok) => api'[w].pc = "idle"
  BY CallEnds DEF Answer
<1>2. CASE CheckDuplicate(w)
  BY <1>1, <1>2, CallPlace DEF CheckDuplicate, Goes
<1>3. CASE InsertGrade(w)
  BY <1>1, <1>3, CallPlace DEF InsertGrade, Goes, Begins
<1>4. CASE ReadEarned(w)
  BY <1>4 DEF ReadEarned, Reads, TypeOK, CallTypes
<1>5. CASE Credit(w)
  <2> DEFINE f == api[w].frame
             sum == api[w].saw + Worth[f]
             p == IF Budget[TaskOf[f]] > 0 /\ sum >= Budget[TaskOf[f]]
                  THEN "complete" ELSE "deliver"
  <2>1. Step(w, p)
    BY <1>5 DEF Credit
  <2>2. api'[w].pc = p
    BY <2>1, CallPlace
  <2>3. QED
    BY <1>5, <2>2 DEF Credit, Adds
<1>6. CASE CompleteTask(w)
  BY <1>6, CallPlace DEF CompleteTask, Closes
<1>7. CASE CountRemaining(w)
  BY <1>7, CallPlace DEF CountRemaining, Goes
<1>8. CASE CloseCampaign(w)
  BY <1>8, CallPlace DEF CloseCampaign, Goes
<1>9. CASE Deliver(w)
  BY <1>1, <1>9, CallPlace DEF Deliver, Goes, Delivers
<1>10. CASE IngestFails(w)
  <2>1. \/ api[w].pc \in {"remaining", "close"} /\ api'[w].pc = "deliver"
        \/ api[w].pc \notin {"remaining", "close"} /\ api'[w].pc = "idle"
    BY <1>1, <1>10, CallPlace DEF IngestFails
  <2>2. QED
    BY <1>10, <2>1 DEF IngestFails, Goes, Adds, Closes
<1>11. CASE IngestStops(w)
  BY <1>11, CallEnds DEF IngestStops, Goes
<1>13. CASE Accept(w)
  BY <1>1, <1>13 DEF Accept, Goes
<1>12. QED
  BY <1>2, <1>13, <1>3, <1>4, <1>5, <1>6, <1>7, <1>8, <1>9, <1>10, <1>11 DEF Ingest

LEMMA OnceStep ==
    ASSUME TypeOK, Once, CreditedOnce, [Next]_vars
    PROVE  Once' /\ CreditedOnce'
<1>1. CASE CallsAside
  BY <1>1 DEF CallsAside, Once, CreditedOnce, In, Posted
<1>2. ASSUME NEW w \in Workers, Ingest(w) PROVE Once' /\ CreditedOnce'
  <2> DEFINE f == api[w].frame
  <2>1. /\ f \in Frames /\ (api'[w].frame = f \/ api'[w].pc = "idle")
        /\ \A v \in Workers : v # w => api'[v] = api[v]
    BY <1>2, OwnCall
  <2>t. graded \subseteq Frames /\ credits \in [Frames -> Nat] /\ inbox \in [Frames -> Nat]
    BY DEF TypeOK, GradeTypes
  <2> HIDE DEF f
  <2>2. CASE Begins(w)
    BY <2>1, <2>2, <2>t DEF Begins, Once, CreditedOnce, In, Posted, f
  <2>3. CASE Reads(w)
    BY <2>1, <2>3 DEF Reads, Once, CreditedOnce, In, Posted, f
  <2>4. CASE Adds(w)
    <3>1. credits' = [credits EXCEPT ![f] = 1] /\ f \in graded /\ UNCHANGED <<graded, inbox>>
      <4>1. credits[f] = 0 /\ f \in graded
        BY <2>4 DEF Adds, Once, In, Posted, f
      <4>2. credits' = [credits EXCEPT ![f] = credits[f] + 1]
        BY <2>4 DEF Adds, f
      <4>3. UNCHANGED <<graded, inbox>>
        BY <2>4 DEF Adds
      <4>4. QED
        BY <4>1, <4>2, <4>3
    <3>2. \A v \in Workers : v # w /\ In(v, Posted) => api[v].frame # f
      BY <2>4 DEF Adds, Once, In, Posted, f
    <3>3. CreditedOnce'
      BY <2>t, <3>1 DEF CreditedOnce
    <3>4. In(w, Posted)
      BY <2>4 DEF Adds, In, Posted
    <3>5. api'[w].pc \in {"idle", "complete", "deliver"} /\ ~In(w, {"reputation"})
      BY <2>4 DEF Adds, In
    <3>6. Once'
      BY <2>1, <2>t, <3>1, <3>2, <3>4, <3>5 DEF Once, In, Posted, f
    <3>7. QED
      BY <3>3, <3>6
  <2>5. CASE Closes(w)
    BY <2>1, <2>5 DEF Closes, Once, CreditedOnce, In, Posted, f
  <2>6. CASE Goes(w)
    BY <2>1, <2>6 DEF Goes, Once, CreditedOnce, In, Posted, f
  <2>7. CASE Delivers(w)
    <3>1. inbox' = [inbox EXCEPT ![f] = 1] /\ f \in graded /\ UNCHANGED <<graded, credits>>
      <4>1. inbox[f] = 0 /\ f \in graded
        BY <2>7 DEF Delivers, Once, In, Posted, f
      <4>2. inbox' = [inbox EXCEPT ![f] = inbox[f] + 1]
        BY <2>7 DEF Delivers, f
      <4>3. UNCHANGED <<graded, credits>>
        BY <2>7 DEF Delivers
      <4>4. QED
        BY <4>1, <4>2, <4>3
    <3>2. \A v \in Workers : v # w /\ In(v, Posted) => api[v].frame # f
      BY <2>7 DEF Delivers, Once, In, Posted, f
    <3>3. CreditedOnce'
      BY <2>t, <3>1 DEF CreditedOnce
    <3>4. api'[w].pc = "reputation" /\ In(w, Posted)
      BY <2>7 DEF Delivers, In, Posted
    <3>5. Once'
      BY <2>1, <2>t, <3>1, <3>2, <3>4 DEF Once, In, Posted, f
    <3>6. QED
      BY <3>3, <3>5
  <2>8. QED
    BY <1>2, <2>2, <2>3, <2>4, <2>5, <2>6, <2>7, CallByPlace
<1>3. QED
  BY <1>1, <1>2, OthersAside

(* However often the grade of a frame is posted, by whichever workers, and *)
(* whatever fails or restarts between the statements of its ingest, the    *)
(* frame is credited to its task and delivered to the inbox at most once.  *)
THEOREM FramesCreditedOnce == Spec => []CreditedOnce
<1>1. Init => Once /\ CreditedOnce
  BY DEF Init, NoCall, Once, CreditedOnce, In, Posted
<1>2. TypeOK /\ Once /\ CreditedOnce /\ [Next]_vars => (Once /\ CreditedOnce)'
  BY OnceStep
<1>3. QED
  BY <1>1, <1>2, FramesTypes, PTL DEF Spec

(***************************************************************************)
(* What a task has earned is bounded by the frames credited to it, though  *)
(* two calls may read the same sum and the second undo what the first      *)
(* added.                                                                  *)
(***************************************************************************)
Counted(t) == {f \in graded : TaskOf[f] = t /\ credits[f] = 1}
CountedWorth == [t \in Tasks |-> Worths(Counted(t))]
GradedWorth == [t \in Tasks |-> Worths(GradesOf(t))]

(* What a call has read is bounded as well, and it goes on to complete the *)
(* task when the budget is filled.                                         *)
Earned ==
    /\ \A t \in Tasks : /\ earned[t] <= CountedWorth[t]
                        /\ t \in completed => GradedWorth[t] >= Budget[t]
    /\ \A w \in Workers : LET t == TaskOf[api[w].frame] IN
          /\ In(w, {"credit"}) => api[w].saw <= CountedWorth[t]
          /\ In(w, {"complete"}) => GradedWorth[t] >= Budget[t]

(* Worths, of the frames of a task.                                        *)
LEMMA WorthsAdd ==
    ASSUME NEW S \in SUBSET Frames, IsFiniteSet(S)
    PROVE  /\ Worths(S) \in Nat /\ Worths({}) = 0
           /\ \A f \in Frames : f \notin S => Worths(S \cup {f}) = Worths(S) + Worth[f]
           /\ \A T \in SUBSET S : Worths(T) <= Worths(S)
<1>1. Worth \in [Frames -> Nat]
  BY WorthAssumption
<1>2. \A T : Worths(T) = Total(Worth, T)
  BY WorthsIsTotal
<1>3. /\ Total(Worth, S) \in Nat /\ Total(Worth, {}) = 0
      /\ \A x \in Frames \ S : Total(Worth, S \cup {x}) = Total(Worth, S) + Worth[x]
  BY <1>1, TotalAdd
<1>4. \A T \in SUBSET S : Total(Worth, T) <= Total(Worth, S)
  BY <1>1, TotalGrows
<1>5. QED
  BY <1>2, <1>3, <1>4

LEMMA WorthsOfTask ==
    ASSUME TypeOK, NEW t
    PROVE  /\ Counted(t) \in SUBSET GradesOf(t)
           /\ Worths(Counted(t)) \in Nat /\ Worths(GradesOf(t)) \in Nat
           /\ Worths(Counted(t)) <= Worths(GradesOf(t))
<1>1. /\ Counted(t) \in SUBSET GradesOf(t) /\ GradesOf(t) \in SUBSET graded
      /\ graded \in SUBSET Frames
  BY DEF Counted, GradesOf, TypeOK, GradeTypes
<1>2. IsFiniteSet(GradesOf(t)) /\ IsFiniteSet(Counted(t))
  BY <1>1, FS_Subset DEF TypeOK, GradeTypes
<1>3. QED
  BY <1>1, <1>2, WorthsAdd

LEMMA WorthTypes ==
    ASSUME TypeOK
    PROVE  \A t \in Tasks : /\ CountedWorth[t] \in Nat /\ GradedWorth[t] \in Nat
                            /\ CountedWorth[t] <= GradedWorth[t]
  BY WorthsOfTask DEF CountedWorth, GradedWorth

(* More grades, and more of them counted, are worth no less.               *)
LEMMA WorthsGrow ==
    ASSUME NEW S \in SUBSET Frames, IsFiniteSet(S), NEW T \in SUBSET S
    PROVE  Worths(T) <= Worths(S)
  BY WorthsAdd

LEMMA WorthsStep ==
    ASSUME TypeOK, TypeOK', graded \subseteq graded',
           \A f \in graded : credits[f] = 1 => credits'[f] = 1, NEW t \in Tasks
    PROVE  CountedWorth[t] <= CountedWorth'[t] /\ GradedWorth[t] <= GradedWorth'[t]
<1> DEFINE C == {f \in graded' : TaskOf[f] = t /\ credits'[f] = 1}
           G == {f \in graded' : TaskOf[f] = t}
<1>1. /\ G \in SUBSET graded' /\ C \in SUBSET graded' /\ graded' \in SUBSET Frames
      /\ Counted(t) \in SUBSET C /\ GradesOf(t) \in SUBSET G
  BY DEF Counted, GradesOf, TypeOK, GradeTypes
<1>2. IsFiniteSet(graded')
  BY DEF TypeOK, GradeTypes
<1>3. IsFiniteSet(C) /\ IsFiniteSet(G)
  BY <1>1, <1>2, FS_Subset
<1>4. CountedWorth'[t] = Worths(C) /\ GradedWorth'[t] = Worths(G)
  BY DEF CountedWorth, GradedWorth, Counted, GradesOf
<1>5. CountedWorth[t] = Worths(Counted(t)) /\ GradedWorth[t] = Worths(GradesOf(t))
  BY DEF CountedWorth, GradedWorth
<1> HIDE DEF C, G
<1>6. C \in SUBSET Frames /\ G \in SUBSET Frames
  BY <1>1
<1>7. Worths(Counted(t)) <= Worths(C)
  BY <1>1, <1>3, <1>6, WorthsGrow
<1>8. Worths(GradesOf(t)) <= Worths(G)
  BY <1>1, <1>3, <1>6, WorthsGrow
<1>9. QED
  BY <1>4, <1>5, <1>7, <1>8

(* A frame that is credited counts from then on.                           *)
LEMMA WorthsCredit ==
    ASSUME TypeOK, NEW f \in graded, credits[f] = 0, UNCHANGED graded,
           credits' = [credits EXCEPT ![f] = 1], NEW t, t = TaskOf[f]
    PROVE  CountedWorth'[t] = CountedWorth[t] + Worth[f]
<1>1. graded \subseteq Frames /\ IsFiniteSet(graded) /\ credits \in [Frames -> Nat]
  BY DEF TypeOK, GradeTypes
<1>2. f \in Frames /\ t \in Tasks
  BY <1>1, TaskOfAssumption
<1>3. {g \in graded' : TaskOf[g] = t /\ credits'[g] = 1} = Counted(t) \cup {f}
  BY <1>1, <1>2 DEF Counted
<1>4. Counted(t) \in SUBSET graded /\ Counted(t) \in SUBSET Frames /\ f \notin Counted(t)
  BY <1>1 DEF Counted
<1>5. IsFiniteSet(Counted(t))
  BY <1>1, <1>4, FS_Subset
<1>6. CountedWorth'[t] = Worths(Counted(t) \cup {f})
  BY <1>2, <1>3 DEF CountedWorth, Counted
<1>7. CountedWorth[t] = Worths(Counted(t))
  BY <1>2 DEF CountedWorth
<1>8. QED
  BY <1>2, <1>4, <1>5, <1>6, <1>7, WorthsAdd

LEMMA EarnedStep ==
    ASSUME TypeOK, TypeOK', Once, CreditedOnce, Earned, [Next]_vars
    PROVE  Earned'
<1>t. /\ earned \in [Tasks -> Nat] /\ Budget \in [Tasks -> Nat]
      /\ completed \subseteq Tasks /\ credits \in [Frames -> Nat] /\ graded \subseteq Frames
  BY WorthAssumption DEF TypeOK, GradeTypes
<1>a. \A v \in Workers : /\ api[v].pc # "idle" => TaskOf[api[v].frame] \in Tasks
                         /\ api[v].saw \in Nat
  BY TaskOfAssumption DEF TypeOK, CallTypes
<1>c. \A t \in Tasks : CountedWorth[t] \in Nat /\ GradedWorth[t] \in Nat
  BY WorthTypes
<1>n. \A t \in Tasks : /\ CountedWorth'[t] \in Nat /\ GradedWorth'[t] \in Nat
                       /\ CountedWorth'[t] <= GradedWorth'[t]
  <2>1. (\A t \in Tasks : /\ CountedWorth[t] \in Nat /\ GradedWorth[t] \in Nat
                          /\ CountedWorth[t] <= GradedWorth[t])'
    BY WorthTypes, PTL
  <2>2. QED
    BY <2>1
<1>1. CASE CallsAside
  <2>1. CountedWorth' = CountedWorth /\ GradedWorth' = GradedWorth
    BY <1>1 DEF CallsAside, CountedWorth, GradedWorth, Counted, GradesOf
  <2>2. QED
    BY <1>1, <2>1 DEF CallsAside, Earned, In
<1>2. ASSUME NEW w \in Workers, Ingest(w) PROVE Earned'
  <2>1. /\ api[w].frame \in Frames /\ api[w].pc # "idle"
        /\ api'[w].frame = api[w].frame \/ api'[w].pc = "idle"
        /\ \A v \in Workers : v # w => api'[v] = api[v]
    BY <1>2, OwnCall
  <2>2. PICK u \in Tasks : u = TaskOf[api[w].frame]
    BY <1>2, OwnCall
  <2>own. In(w, {"credit", "complete"})' => TaskOf[api'[w].frame] = u
    BY <2>1, <2>2 DEF In
  <2>3. graded \subseteq graded' /\ \A f \in graded : credits[f] = 1 => credits'[f] = 1
    <3>1. CASE Adds(w)
      <4>1. credits[api[w].frame] = 0
        BY <3>1 DEF Adds, Once, In, Posted
      <4>2. QED
        BY <1>t, <3>1, <4>1 DEF Adds
    <3>2. CASE ~Adds(w)
      BY <1>2, <3>2, CallByPlace DEF Begins, Reads, Closes, Goes, Delivers
    <3>3. QED
      BY <3>1, <3>2
  <2>4. \A t \in Tasks : /\ CountedWorth[t] <= CountedWorth'[t]
                         /\ GradedWorth[t] <= GradedWorth'[t]
    BY <2>3, WorthsStep
  <2>5. ASSUME NEW v \in Workers, v # w, NEW t, t = TaskOf[api'[v].frame]
        PROVE  /\ In(v, {"credit"})' => api'[v].saw <= CountedWorth'[t]
               /\ In(v, {"complete"})' => GradedWorth'[t] >= Budget[t]
    <3>1. api'[v] = api[v]
      BY <2>1, <2>5
    <3>2. CASE api[v].pc \in {"credit", "complete"}
      <4>1. t \in Tasks /\ api[v].saw \in Nat /\ Budget[t] \in Nat
        BY <1>a, <1>t, <2>5, <3>1, <3>2
      <4>2. /\ api[v].pc = "credit" => api[v].saw <= CountedWorth[t]
            /\ api[v].pc = "complete" => GradedWorth[t] >= Budget[t]
        BY <2>5, <3>1 DEF Earned, In
      <4>3. QED
        BY <1>c, <1>n, <2>4, <3>1, <4>1, <4>2 DEF In
    <3>3. QED
      BY <3>1, <3>2 DEF In
  <2>6. ASSUME NEW t \in Tasks, earned'[t] = earned[t] PROVE earned'[t] <= CountedWorth'[t]
    <3>1. earned[t] \in Nat /\ earned[t] <= CountedWorth[t]
      BY <1>t DEF Earned
    <3>2. QED
      BY <1>c, <1>n, <2>4, <2>6, <3>1
  <2>7. \A t \in completed : GradedWorth'[t] >= Budget[t]
    <3>1. ASSUME NEW t \in completed PROVE GradedWorth'[t] >= Budget[t]
      <4>1. t \in Tasks /\ Budget[t] \in Nat /\ GradedWorth[t] >= Budget[t]
        BY <1>t DEF Earned
      <4>2. QED
        BY <1>c, <1>n, <2>4, <4>1
    <3>2. QED
      BY <3>1
  <2>8. CASE Adds(w)
    <3> DEFINE f == api[w].frame
               sum == api[w].saw + Worth[f]
    <3>1. credits[f] = 0 /\ f \in graded
      BY <2>8 DEF Adds, Once, In, Posted
    <3>2. credits' = [credits EXCEPT ![f] = 1] /\ UNCHANGED graded
      BY <2>8, <3>1 DEF Adds
    <3>3. CountedWorth'[u] = CountedWorth[u] + Worth[f]
      BY <2>2, <3>1, <3>2, WorthsCredit
    <3>4. api[w].saw <= CountedWorth[u]
      BY <2>2, <2>8 DEF Adds, Earned, In
    <3>5. sum \in Nat /\ sum <= CountedWorth'[u]
      BY <1>a, <1>c, <2>1, <3>3, <3>4, WorthAssumption
    <3>6. /\ earned' = [earned EXCEPT ![u] = sum] /\ completed' = completed
          /\ api'[w].pc # "credit"
          /\ api'[w].pc = "complete" => sum >= Budget[u]
      BY <2>2, <2>8 DEF Adds
    <3> HIDE DEF f, sum
    <3>7. api'[w].pc = "complete" => GradedWorth'[u] >= Budget[u]
      BY <1>t, <1>n, <3>5, <3>6
    <3>8. earned'[u] <= CountedWorth'[u]
      BY <1>t, <3>5, <3>6
    <3>9. \A t \in Tasks : t # u => earned'[t] <= CountedWorth'[t]
      BY <1>t, <2>6, <3>6
    <3>10. /\ In(w, {"credit"})' => api'[w].saw <= CountedWorth'[u]
           /\ In(w, {"complete"})' => GradedWorth'[u] >= Budget[u]
      BY <3>6, <3>7 DEF In
    <3>11. QED
      BY <2>own, <2>5, <2>7, <3>6, <3>8, <3>9, <3>10 DEF Earned, In
  <2>9. CASE ~Adds(w)
    <3>1. UNCHANGED earned
      BY <1>2, <2>9, CallByPlace DEF Begins, Reads, Closes, Goes, Delivers
    <3>2. \A t \in completed' : GradedWorth'[t] >= Budget[t]
      <4>1. completed' = completed \/ (Closes(w) /\ completed' = completed \cup {u})
        BY <1>2, <2>2, <2>9, CallByPlace DEF Begins, Reads, Closes, Goes, Delivers
      <4>2. Closes(w) => GradedWorth[u] >= Budget[u]
        BY <2>2 DEF Closes, Earned, In
      <4>3. Closes(w) => GradedWorth'[u] >= Budget[u]
        BY <1>c, <1>n, <1>t, <2>4, <4>2
      <4>4. QED
        BY <2>7, <4>1, <4>3
    <3>3. /\ In(w, {"credit"})' => api'[w].saw <= CountedWorth'[u]
          /\ ~In(w, {"complete"})'
      <4>1. /\ api'[w].pc # "complete"
            /\ api'[w].pc = "credit" => api'[w].saw = earned[u]
        BY <1>2, <2>2, <2>9, CallByPlace DEF Begins, Reads, Closes, Goes, Delivers
      <4>2. QED
        BY <2>6, <3>1, <4>1 DEF In
    <3>4. QED
      BY <2>own, <2>5, <2>6, <3>1, <3>2, <3>3 DEF Earned, In
  <2>10. QED
    BY <2>8, <2>9
<1>3. QED
  BY <1>1, <1>2, OthersAside

(* Whatever grades are ingested at once, and whichever of their sums is    *)
(* written last, a task is credited no more than what was graded for it,   *)
(* and is completed only when what was graded fills its budget.            *)
THEOREM FramesCompletionIsEarned == Spec => []CompletionIsEarned
<1>1. TypeOK /\ Init => Earned
  <2> SUFFICES ASSUME TypeOK, Init PROVE Earned
    OBVIOUS
  <2>1. \A t \in Tasks : CountedWorth[t] \in Nat
    BY WorthTypes
  <2>2. QED
    BY <2>1 DEF Init, NoCall, Earned, In
<1>2. TypeOK /\ TypeOK' /\ Once /\ CreditedOnce /\ Earned /\ [Next]_vars => Earned'
  BY EarnedStep
<1>3. TypeOK /\ Earned => CompletionIsEarned
  <2> SUFFICES ASSUME TypeOK, Earned, NEW t \in Tasks
               PROVE  /\ earned[t] <= Worths(GradesOf(t))
                      /\ t \in completed => Worths(GradesOf(t)) >= Budget[t]
    BY DEF CompletionIsEarned
  <2>1. /\ CountedWorth[t] \in Nat /\ GradedWorth[t] \in Nat
        /\ CountedWorth[t] <= GradedWorth[t]
    BY WorthTypes
  <2>2. GradedWorth[t] = Worths(GradesOf(t)) /\ earned[t] \in Nat
    BY DEF GradedWorth, TypeOK, GradeTypes
  <2>3. QED
    BY <2>1, <2>2 DEF Earned
<1>4. Init => Once /\ CreditedOnce
  BY DEF Init, NoCall, Once, CreditedOnce, In, Posted
<1>5. TypeOK /\ Once /\ CreditedOnce /\ [Next]_vars => (Once /\ CreditedOnce)'
  BY OnceStep
<1>6. QED
  BY <1>1, <1>2, <1>3, <1>4, <1>5, FramesTypes, PTL DEF Spec

(***************************************************************************)
(* Where the frames are.                                                   *)
(***************************************************************************)
\* All frames of a job are of one task, and it is one frame unless a stack.
Sound(job) == /\ \A k \in DOMAIN job : TaskOf[job[k]] = Of(job)
              /\ Stack(job) \/ Len(job) = 1

Listed == ToSet(rows) \cup ToSet(memory) \cup ToSet(taken)

(* An idle hand has no job, only a stack is merged or made a product, a     *)
(* worker that requeues has its job enqueued, and one that waits is at the *)
(* frame its call is about.                                                *)
Settled ==
    /\ \A x \in Frames \cup Workers :
          /\ put[x].pc = "idle" => put[x].job = << >>
          /\ put[x].pc = "merge" => Stack(put[x].job)
    /\ \A f \in Frames \ uploaded : put[f].pc = "idle"
    /\ \A w \in Workers :
          /\ worker[w].pc = "idle" => worker[w].job = << >>
          /\ worker[w].pc \in {"product", "publish"} => Stack(worker[w].job)
          /\ IF worker[w].pc = "requeue"
             THEN put[w].pc # "idle" /\ put[w].job = worker[w].job
             ELSE put[w].pc = "idle"
          /\ worker[w].pc = "wait" /\ api[w].pc # "idle"
                => api[w].frame = worker[w].job[worker[w].i]

(* Every job in a list or in a hand is sound.                              *)
ListsSound == \A job \in Listed : Sound(job)
HandsSound ==
    /\ \A x \in Frames \cup Workers : put[x].pc # "idle" => Sound(put[x].job)
    /\ \A w \in Workers : worker[w].pc # "idle" => Sound(worker[w].job)

Hands == HandsSound /\ Settled

(* A frame is carried by a hand, an enqueue or a worker, or by a list.     *)
HeldBy(f) == \/ \E x \in Frames \cup Workers : f \in ToSet(put[x].job)
             \/ \E w \in Workers : f \in ToSet(worker[w].job)
ListedIn(f) == \E job \in Listed : f \in ToSet(job)

(* What every step owes the frames that are their own product.             *)
Keeps == \A f \in uploaded : /\ TaskOf[f] \notin stacked /\ f \notin graded /\ f \notin dropped
                             /\ ListedIn(f) \/ HeldBy(f)
              => f \in graded' \/ f \in dropped' \/ ListedIn(f)' \/ HeldBy(f)'

(* The whole invariant across a step, and what the step keeps.             *)
Carries == ListsSound' /\ Hands' /\ dropped \subseteq dropped' /\ Keeps

KeptInv == ListsSound /\ Hands /\ FramesAreKept

LEMMA ConcatMembers ==
    ASSUME NEW S, NEW s \in Seq(S), NEW t \in Seq(S)
    PROVE  ToSet(s \o t) = ToSet(s) \cup ToSet(t)
<1>1. /\ Len(s) \in Nat /\ Len(t) \in Nat /\ Len(s \o t) = Len(s) + Len(t)
      /\ DOMAIN s = 1..Len(s) /\ DOMAIN t = 1..Len(t)
      /\ DOMAIN (s \o t) = 1..(Len(s) + Len(t))
      /\ \A k \in 1..Len(s) : (s \o t)[k] = s[k]
      /\ \A k \in 1..Len(t) : (s \o t)[Len(s) + k] = t[k]
  OBVIOUS
<1>2. ASSUME NEW k \in 1..(Len(s) + Len(t))
      PROVE  k \in 1..Len(s) \/ (k - Len(s) \in 1..Len(t) /\ k = Len(s) + (k - Len(s)))
  BY <1>1
<1>3. ASSUME NEW k \in 1..(Len(s) + Len(t)) PROVE (s \o t)[k] \in ToSet(s) \cup ToSet(t)
  BY <1>1, <1>2 DEF ToSet
<1>4. ASSUME NEW k \in 1..Len(s) PROVE s[k] \in ToSet(s \o t)
  <2>1. k \in 1..(Len(s) + Len(t))
    BY <1>1
  <2>2. QED
    BY <1>1, <2>1 DEF ToSet
<1>5. ASSUME NEW k \in 1..Len(t) PROVE t[k] \in ToSet(s \o t)
  <2>1. Len(s) + k \in 1..(Len(s) + Len(t))
    BY <1>1
  <2>2. QED
    BY <1>1, <2>1 DEF ToSet
<1>6. ToSet(s \o t) \subseteq ToSet(s) \cup ToSet(t)
  BY <1>1, <1>3 DEF ToSet
<1>7. ToSet(s) \subseteq ToSet(s \o t) /\ ToSet(t) \subseteq ToSet(s \o t)
  BY <1>1, <1>4, <1>5 DEF ToSet
<1>8. QED
  BY <1>6, <1>7

LEMMA HeadTailMembers ==
    ASSUME NEW S, NEW s \in Seq(S), s # << >>
    PROVE  ToSet(s) = {Head(s)} \cup ToSet(Tail(s))
<1>1. /\ Len(s) \in Nat \ {0} /\ DOMAIN s = 1..Len(s) /\ Head(s) = s[1]
      /\ DOMAIN Tail(s) = 1..(Len(s) - 1)
      /\ \A k \in 1..(Len(s) - 1) : Tail(s)[k] = s[k + 1]
  OBVIOUS
<1>2. ASSUME NEW k \in 1..Len(s) PROVE k = 1 \/ (k - 1 \in 1..(Len(s) - 1) /\ (k - 1) + 1 = k)
  BY <1>1
<1>3. ASSUME NEW k \in 1..(Len(s) - 1) PROVE k + 1 \in 1..Len(s)
  BY <1>1
<1>4. 1 \in 1..Len(s)
  BY <1>1
<1>5. ToSet(s) \subseteq {Head(s)} \cup ToSet(Tail(s))
  <2>1. ASSUME NEW k \in 1..Len(s) PROVE s[k] \in {Head(s)} \cup ToSet(Tail(s))
    <3>1. CASE k = 1
      BY <1>1, <3>1
    <3>2. CASE k - 1 \in 1..(Len(s) - 1) /\ (k - 1) + 1 = k
      <4>1. Tail(s)[k - 1] = s[k]
        BY <1>1, <3>2
      <4>2. QED
        BY <1>1, <3>2, <4>1 DEF ToSet
    <3>3. QED
      BY <1>2, <3>1, <3>2
  <2>2. QED
    BY <1>1, <2>1 DEF ToSet
<1>6. {Head(s)} \cup ToSet(Tail(s)) \subseteq ToSet(s)
  BY <1>1, <1>3, <1>4 DEF ToSet
<1>7. QED
  BY <1>5, <1>6

LEMMA EmptyMembers == ToSet(<< >>) = {}
  BY DEF ToSet

(* A job that gets more frames of its task stays one of its task.          *)
LEMMA SoundMore ==
    ASSUME NEW job \in Jobs, Sound(job), Stack(job), NEW more \in Seq(Frames),
           \A f \in ToSet(more) : TaskOf[f] = Of(job), NEW long, long = job \o more,
           UNCHANGED stacked
    PROVE  long \in Jobs /\ Sound(long)' /\ ToSet(job) \subseteq ToSet(long)
<1>1. /\ job \in Seq(Frames) /\ job # << >> /\ Len(job) \in Nat \ {0}
      /\ DOMAIN job = 1..Len(job)
  BY DEF Jobs
<1>2. long \in Seq(Frames) /\ long # << >> /\ Head(long) = Head(job)
  BY <1>1
<1>3. ToSet(long) = ToSet(job) \cup ToSet(more)
  BY <1>1, ConcatMembers
<1>4. \A f \in ToSet(job) : TaskOf[f] = Of(job)
  BY DEF Sound, ToSet
<1>5. \A k \in DOMAIN long : TaskOf[long[k]] = Of(job)
  <2>1. \A k \in DOMAIN long : long[k] \in ToSet(long)
    BY DEF ToSet
  <2>2. QED
    BY <1>3, <1>4, <2>1
<1>6. QED
  BY <1>2, <1>3, <1>5 DEF Jobs, Sound, Stack, Of

LEMMA SoundOne ==
    ASSUME NEW f \in Frames
    PROVE  <<f>> \in Jobs /\ Sound(<<f>>) /\ Of(<<f>>) = TaskOf[f] /\ ToSet(<<f>>) = {f}
<1>1. <<f>> \in Jobs /\ Head(<<f>>) = f /\ Len(<<f>>) = 1 /\ DOMAIN <<f>> = {1} /\ <<f>>[1] = f
  BY DEF Jobs
<1>2. QED
  BY <1>1 DEF Sound, Of, ToSet

LEMMA SoundStays ==
    ASSUME UNCHANGED stacked, NEW job PROVE Sound(job)' <=> Sound(job)
  BY DEF Sound, Stack, Of

LEMMA SettingStays == [Next]_vars => UNCHANGED setting
  BY DEF vars, Next, CompleteUpload, Put, Work, Ingest, MergeStack, CountPending, InsertJob,
     Remember, TakeJobs, StartJob, Grade, GiveUpWaiting, CheckProduct, DeliverProduct,
     RequeueFails, WorkerDies, CheckDuplicate, InsertGrade, ReadEarned, Credit, CompleteTask,
     CountRemaining, CloseCampaign, Deliver, Accept, IngestFails, IngestStops, Restart, Rest, Outside

LEMMA CarriedBy ==
    ASSUME TypeOK, NEW f
    PROVE  Carried(f) <=> ListedIn(f) \/ HeldBy(f)
<1>1. DOMAIN put = Frames \cup Workers
  BY DEF TypeOK, PutTypes
<1>2. ListedIn(f) <=> \/ \E k \in DOMAIN rows : f \in ToSet(rows[k])
                      \/ \E k \in DOMAIN memory : f \in ToSet(memory[k])
                      \/ \E k \in DOMAIN taken : f \in ToSet(taken[k])
  <2>1. \A s : (\E job \in ToSet(s) : f \in ToSet(job)) <=> (\E k \in DOMAIN s : f \in ToSet(s[k]))
    <3>1. \A s : ToSet(s) = {s[k] : k \in DOMAIN s}
      BY DEF ToSet
    <3>2. QED
      BY <3>1
  <2>2. ListedIn(f) <=> \/ \E job \in ToSet(rows) : f \in ToSet(job)
                        \/ \E job \in ToSet(memory) : f \in ToSet(job)
                        \/ \E job \in ToSet(taken) : f \in ToSet(job)
    BY DEF ListedIn, Listed
  <2>3. QED
    BY <2>1, <2>2
<1>3. QED
  BY <1>1, <1>2 DEF Carried, HeldBy

LEMMA DoneHands ==
    ASSUME TypeOK, Hands, NEW x \in Frames \cup Workers, put[x].pc # "idle", Done(x),
           UNCHANGED <<stacked, uploaded, api>>
    PROVE  /\ Hands'
           /\ \A f : HeldBy(f) => HeldBy(f)' \/ f \in ToSet(put[x].job)
<1>t. /\ put \in [Frames \cup Workers -> [pc : PutPlaces, job : Seq(Frames)]]
      /\ worker \in [Workers -> [pc : WorkPlaces, job : Seq(Frames), i : Nat]]
  BY DEF TypeOK, PutTypes, WorkTypes
<1>1. /\ put'[x].pc = "idle" /\ put'[x].job = << >>
      /\ \A y \in Frames \cup Workers : y # x => put'[y] = put[y]
  BY <1>t DEF Done, Free
<1>2. /\ x \in Workers => /\ worker[x].pc = "requeue" /\ worker[x].job = put[x].job
                          /\ worker'[x].pc = "idle" /\ worker'[x].job = << >>
      /\ \A w \in Workers : w # x => worker'[w] = worker[w]
  BY <1>t DEF Done, NoJob, Hands, Settled
<1>3. \A job : Sound(job)' <=> Sound(job)
  BY SoundStays
<1>4. HandsSound'
  BY <1>1, <1>2, <1>3 DEF Hands, HandsSound
<1>5. Settled'
  <2>1. \A y \in Frames \cup Workers : /\ put'[y].pc = "idle" => put'[y].job = << >>
                                       /\ put'[y].pc = "merge" => Stack(put'[y].job)
    BY <1>1 DEF Hands, Settled
  <2>2. \A f \in Frames \ uploaded : put'[f].pc = "idle"
    BY <1>1 DEF Hands, Settled
  <2>3. ASSUME NEW w \in Workers
        PROVE  /\ worker'[w].pc = "idle" => worker'[w].job = << >>
               /\ worker'[w].pc \in {"product", "publish"} => Stack(worker'[w].job)
               /\ IF worker'[w].pc = "requeue"
                  THEN put'[w].pc # "idle" /\ put'[w].job = worker'[w].job
                  ELSE put'[w].pc = "idle"
               /\ worker'[w].pc = "wait" /\ api[w].pc # "idle"
                     => api[w].frame = worker'[w].job[worker'[w].i]
    <3>1. CASE w = x
      BY <1>1, <1>2, <3>1
    <3>2. CASE w # x
      BY <1>1, <1>2, <3>2 DEF Hands, Settled
    <3>3. QED
      BY <3>1, <3>2
  <2>4. QED
    BY <2>1, <2>2, <2>3 DEF Settled, Stack, Of
<1>6. \A f : HeldBy(f) => HeldBy(f)' \/ f \in ToSet(put[x].job)
  BY <1>1, <1>2 DEF HeldBy
<1>7. QED
  BY <1>4, <1>5, <1>6 DEF Hands

LEMMA NoneInNoJob == \A f : f \notin ToSet(<< >>)
  BY EmptyMembers

(* A step of one enqueue, or of one worker, that keeps its job.            *)
LEMMA PutStepHands ==
    ASSUME TypeOK, Hands, NEW x \in Frames \cup Workers, put[x].pc # "idle",
           NEW p \in PutPlaces \ {"idle", "merge"}, put' = [put EXCEPT ![x].pc = p],
           UNCHANGED <<worker, stacked, uploaded, api>>
    PROVE  Hands' /\ \A f : HeldBy(f)' <=> HeldBy(f)
<1>t. put \in [Frames \cup Workers -> [pc : PutPlaces, job : Seq(Frames)]]
  BY DEF TypeOK, PutTypes
<1>1. /\ put'[x].pc = p /\ put'[x].job = put[x].job
      /\ \A y \in Frames \cup Workers : y # x => put'[y] = put[y]
  BY <1>t
<1>3. \A job : Sound(job)' <=> Sound(job)
  BY SoundStays
<1>4. HandsSound'
  BY <1>1, <1>3 DEF Hands, HandsSound
<1>5. Settled'
  BY <1>1 DEF Hands, Settled, Stack, Of
<1>6. \A y \in Frames \cup Workers : put'[y].job = put[y].job
  BY <1>1
<1>7. QED
  BY <1>4, <1>5, <1>6 DEF Hands, HeldBy

LEMMA RequeueHands ==
    ASSUME TypeOK, Hands, NEW w \in Workers, worker[w].pc \notin {"idle", "requeue"},
           Requeue(w), UNCHANGED <<stacked, uploaded>>,
           \A v \in Workers : v # w => api'[v] = api[v]
    PROVE  Hands' /\ \A f : HeldBy(f) => HeldBy(f)'
<1>t. /\ put \in [Frames \cup Workers -> [pc : PutPlaces, job : Seq(Frames)]]
      /\ worker \in [Workers -> [pc : WorkPlaces, job : Seq(Frames), i : Nat]]
      /\ Frames \cap Workers = {}
  BY DisjointAssumption DEF TypeOK, PutTypes, WorkTypes
<1>1. /\ put'[w].pc = (IF Stack(worker[w].job) THEN "merge" ELSE "count")
      /\ put'[w].job = worker[w].job
      /\ \A y \in Frames \cup Workers : y # w => put'[y] = put[y]
  BY <1>t DEF Requeue, Enqueue
<1>2. /\ worker'[w].pc = "requeue" /\ worker'[w].job = worker[w].job
      /\ \A v \in Workers : v # w => worker'[v] = worker[v]
  BY <1>t DEF Requeue
<1>3. \A job : Sound(job)' <=> Sound(job)
  BY SoundStays
<1>4. HandsSound'
  BY <1>1, <1>2, <1>3 DEF Hands, HandsSound
<1>5. Settled'
  <2>1. \A y \in Frames \cup Workers : /\ put'[y].pc = "idle" => put'[y].job = << >>
                                       /\ put'[y].pc = "merge" => Stack(put'[y].job)
    BY <1>1 DEF Hands, Settled
  <2>2. \A f \in Frames \ uploaded : put'[f].pc = "idle"
    BY <1>t, <1>1 DEF Hands, Settled
  <2>3. ASSUME NEW v \in Workers
        PROVE  /\ worker'[v].pc = "idle" => worker'[v].job = << >>
               /\ worker'[v].pc \in {"product", "publish"} => Stack(worker'[v].job)
               /\ IF worker'[v].pc = "requeue"
                  THEN put'[v].pc # "idle" /\ put'[v].job = worker'[v].job
                  ELSE put'[v].pc = "idle"
               /\ worker'[v].pc = "wait" /\ api'[v].pc # "idle"
                     => api'[v].frame = worker'[v].job[worker'[v].i]
    <3>1. CASE v = w
      BY <1>1, <1>2, <3>1
    <3>2. CASE v # w
      BY <1>1, <1>2, <3>2 DEF Hands, Settled
    <3>3. QED
      BY <3>1, <3>2
  <2>4. QED
    BY <2>1, <2>2, <2>3 DEF Settled, Stack, Of
<1>6. \A f : HeldBy(f) => HeldBy(f)'
  <2>1. put[w].job = << >>
    BY DEF Hands, Settled
  <2>2. QED
    BY <1>1, <1>2, <2>1, NoneInNoJob DEF HeldBy
<1>7. QED
  BY <1>4, <1>5, <1>6 DEF Hands

(* A worker takes a job, goes on in its job or ends it, by a record.       *)
LEMMA WorkHands ==
    ASSUME TypeOK, Hands, NEW w \in Workers, worker[w].pc # "requeue",
           NEW q, worker' = [worker EXCEPT ![w] = q], UNCHANGED <<put, stacked, uploaded>>,
           q.pc = "idle" => q.job = << >>,
           q.pc # "idle" => Sound(q.job), q.pc # "requeue",
           q.pc \in {"product", "publish"} => Stack(q.job),
           q.pc = "wait" /\ api'[w].pc # "idle" => api'[w].frame = q.job[q.i],
           \A v \in Workers : v # w => api'[v] = api[v] \/ api'[v].pc = "idle"
    PROVE  /\ Hands'
           /\ \A f : HeldBy(f) => HeldBy(f)' \/ f \in ToSet(worker[w].job)
           /\ \A f : f \in ToSet(q.job) => HeldBy(f)'
<1>t. DOMAIN worker = Workers
  BY DEF TypeOK, WorkTypes
<1>2. /\ worker'[w] = q
      /\ \A v \in Workers : v # w => worker'[v] = worker[v]
  BY <1>t
<1>3. \A job : Sound(job)' <=> Sound(job)
  BY SoundStays
<1>4. HandsSound'
  BY <1>2, <1>3 DEF Hands, HandsSound
<1>5. Settled'
  <2>3. ASSUME NEW v \in Workers
        PROVE  /\ worker'[v].pc = "idle" => worker'[v].job = << >>
               /\ worker'[v].pc \in {"product", "publish"} => Stack(worker'[v].job)
               /\ IF worker'[v].pc = "requeue"
                  THEN put'[v].pc # "idle" /\ put'[v].job = worker'[v].job
                  ELSE put'[v].pc = "idle"
               /\ worker'[v].pc = "wait" /\ api'[v].pc # "idle"
                     => api'[v].frame = worker'[v].job[worker'[v].i]
    <3>1. CASE v = w
      BY <1>2, <3>1 DEF Hands, Settled
    <3>2. CASE v # w
      BY <1>2, <3>2 DEF Hands, Settled
    <3>3. QED
      BY <3>1, <3>2
  <2>4. QED
    BY <2>3 DEF Hands, Settled, Stack, Of
<1>6. \A f : HeldBy(f) => HeldBy(f)' \/ f \in ToSet(worker[w].job)
  BY <1>2 DEF HeldBy
<1>8. \A f : f \in ToSet(q.job) => HeldBy(f)'
  BY <1>2 DEF HeldBy
<1>7. QED
  BY <1>4, <1>5, <1>6, <1>8 DEF Hands

LEMMA CallHands ==
    ASSUME TypeOK, Hands, UNCHANGED <<put, worker, stacked, uploaded>>,
           \A v \in Workers : \/ api'[v].pc = "idle"
                              \/ api'[v].frame = api[v].frame /\ api[v].pc # "idle"
    PROVE  Hands' /\ \A f : HeldBy(f)' <=> HeldBy(f)
<1>1. \A job : Sound(job)' <=> Sound(job)
  BY SoundStays
<1>2. HandsSound'
  BY <1>1 DEF Hands, HandsSound
<1>3. Settled'
  BY DEF Hands, Settled, Stack, Of
<1>4. QED
  BY <1>2, <1>3 DEF Hands, HeldBy

(* A job of a task whose product is the frame is that one frame.           *)
LEMMA OnlyFrame ==
    ASSUME TypeOK, Hands, NEW w \in Workers, worker[w].pc # "idle",
           NEW f \in ToSet(worker[w].job), TaskOf[f] \notin stacked
    PROVE  f = worker[w].job[worker[w].i]
<1> DEFINE job == worker[w].job
<1>1. job \in Seq(Frames) /\ worker[w].i \in 1..Len(job) /\ DOMAIN job = 1..Len(job)
  BY DEF TypeOK, WorkTypes
<1>2. Sound(job)
  BY DEF Hands, HandsSound
<1>3. PICK k \in DOMAIN job : f = job[k]
  BY DEF ToSet
<1>4. TaskOf[f] = Of(job)
  BY <1>2, <1>3 DEF Sound
<1>5. Len(job) = 1
  BY <1>2, <1>4 DEF Sound, Stack
<1>6. QED
  BY <1>1, <1>3, <1>5

LEMMA NextFrameHands ==
    ASSUME TypeOK, Hands, NEW w \in Workers, worker[w].pc = "wait", NextFrame(w),
           UNCHANGED <<put, stacked, uploaded>>,
           \A v \in Workers : v # w => api'[v] = api[v]
    PROVE  /\ Hands'
           /\ \A f : HeldBy(f) /\ TaskOf[f] \notin stacked
                        => HeldBy(f)' \/ f = worker[w].job[worker[w].i]
<1> DEFINE r == worker[w]
<1>1. PICK q : /\ worker' = [worker EXCEPT ![w] = q]
               /\ \/ q = [pc |-> "grade", job |-> r.job, i |-> r.i + 1]
                  \/ Stack(r.job) /\ q = [r EXCEPT !.pc = "product"]
                  \/ q = NoJob
  BY DEF NextFrame
<1>2. r \in [pc : WorkPlaces, job : Seq(Frames), i : Nat] /\ Sound(r.job)
  BY DEF TypeOK, WorkTypes, Hands, HandsSound
<1> HIDE DEF r
<1>3. /\ q.pc = "idle" => q.job = << >>
      /\ q.pc # "idle" => Sound(q.job)
      /\ q.pc \in {"product", "publish"} => Stack(q.job)
      /\ q.pc \notin {"requeue", "wait"}
  <2>1. CASE q = [pc |-> "grade", job |-> r.job, i |-> r.i + 1]
    BY <1>2, <2>1
  <2>2. CASE Stack(r.job) /\ q = [r EXCEPT !.pc = "product"]
    <3>1. q.pc = "product" /\ q.job = r.job
      BY <1>2, <2>2
    <3>2. QED
      BY <1>2, <2>2, <3>1
  <2>3. CASE q = NoJob
    BY <2>3 DEF NoJob
  <2>4. QED
    BY <1>1, <2>1, <2>2, <2>3
<1>4. worker[w].pc # "requeue" /\ worker[w].pc # "idle"
  OBVIOUS
<1>5. Hands' /\ \A f : HeldBy(f) => HeldBy(f)' \/ f \in ToSet(worker[w].job)
  BY <1>1, <1>3, <1>4, WorkHands
<1>6. \A f : f \in ToSet(worker[w].job) /\ TaskOf[f] \notin stacked
                => f = worker[w].job[worker[w].i]
  BY <1>4, OnlyFrame
<1>7. QED
  BY <1>5, <1>6

LEMMA RefusedHands ==
    ASSUME TypeOK, Hands, NEW w \in Workers, worker[w].pc = "wait", Refused(w),
           UNCHANGED <<stacked, uploaded>>,
           \A v \in Workers : v # w => api'[v] = api[v]
    PROVE  /\ Hands' /\ dropped \subseteq dropped'
           /\ \A f : HeldBy(f) /\ TaskOf[f] \notin stacked
                        => HeldBy(f)' \/ f \in graded \/ f \in dropped'
<1>1. CASE grading = "worker"
  <2>1. Requeue(w) /\ worker[w].pc \notin {"idle", "requeue"}
    BY <1>1 DEF Refused
  <2>2. Hands' /\ \A f : HeldBy(f) => HeldBy(f)'
    BY <2>1, RequeueHands
  <2>3. QED
    BY <2>1, <2>2 DEF Requeue
<1>2. CASE grading # "worker"
  <2>1. /\ NextFrame(w) /\ UNCHANGED put
        /\ dropped' = dropped \cup ({worker[w].job[worker[w].i]} \ graded)
    BY <1>2 DEF Refused
  <2>2. /\ Hands'
        /\ \A f : HeldBy(f) /\ TaskOf[f] \notin stacked
                     => HeldBy(f)' \/ f = worker[w].job[worker[w].i]
    BY <2>1, NextFrameHands
  <2>3. QED
    BY <2>1, <2>2
<1>3. QED
  BY <1>1, <1>2

LEMMA AnswerHands ==
    ASSUME TypeOK, Hands, Once, NEW w \in Workers, api[w].pc # "idle",
           NEW ok \in BOOLEAN, Answer(w, ok), UNCHANGED <<stacked, uploaded>>,
           ok => In(w, Posted)
    PROVE  /\ Hands' /\ dropped \subseteq dropped'
           /\ \A f : HeldBy(f) /\ TaskOf[f] \notin stacked
                        => HeldBy(f)' \/ f \in graded \/ f \in dropped'
<1>1. /\ api'[w].pc = "idle" /\ \A v \in Workers : v # w => api'[v] = api[v]
  BY DEF Answer, End, NoCall, TypeOK, CallTypes
<1>2. CASE worker[w].pc # "wait"
  <2>1. UNCHANGED <<worker, put, dropped>>
    BY <1>2 DEF Answer
  <2>2. Hands' /\ \A f : HeldBy(f)' <=> HeldBy(f)
    <3>1. \A v \in Workers : \/ api'[v].pc = "idle"
                             \/ api'[v].frame = api[v].frame /\ api[v].pc # "idle"
                             \/ api'[v] = api[v]
      BY <1>1
    <3>2. \A job : Sound(job)' <=> Sound(job)
      BY SoundStays
    <3>3. HandsSound'
      BY <2>1, <3>2 DEF Hands, HandsSound
    <3>4. Settled'
      BY <1>1, <2>1 DEF Hands, Settled, Stack, Of
    <3>5. QED
      BY <2>1, <3>3, <3>4 DEF Hands, HeldBy
  <2>3. QED
    BY <2>1, <2>2
<1>3. CASE worker[w].pc = "wait" /\ ok
  <2>1. NextFrame(w) /\ UNCHANGED <<put, dropped>>
    BY <1>3 DEF Answer
  <2>2. worker[w].job[worker[w].i] \in graded
    BY <1>3 DEF Hands, Settled, Once
  <2>3. /\ Hands'
        /\ \A f : HeldBy(f) /\ TaskOf[f] \notin stacked
                     => HeldBy(f)' \/ f = worker[w].job[worker[w].i]
    BY <1>1, <1>3, <2>1, NextFrameHands
  <2>4. QED
    BY <2>1, <2>2, <2>3
<1>4. CASE worker[w].pc = "wait" /\ ~ok
  BY <1>1, <1>4, RefusedHands DEF Answer
<1>5. QED
  BY <1>2, <1>3, <1>4

LEMMA ListsStay ==
    ASSUME ListsSound, UNCHANGED <<rows, memory, taken, stacked>>
    PROVE  ListsSound' /\ \A f : ListedIn(f)' <=> ListedIn(f)
  BY SoundStays DEF ListsSound, Listed, ListedIn

LEMMA SoundAppend ==
    ASSUME NEW job \in Jobs, Sound(job), Stack(job), NEW key \in Frames,
           TaskOf[key] = Of(job), NEW long, long = Append(job, key), UNCHANGED stacked
    PROVE  Sound(long)' /\ ToSet(job) \subseteq ToSet(long)
<1>1. job \in Seq(Frames) /\ job # << >>
  BY DEF Jobs
<1>2. Head(long) = Head(job)
  BY <1>1
<1>3. ToSet(long) = ToSet(job) \cup {key}
  BY <1>1, AppendMembers
<1>4. \A f \in ToSet(job) : TaskOf[f] = Of(job)
  BY DEF Sound, ToSet
<1>5. \A k \in DOMAIN long : long[k] \in ToSet(long)
  BY DEF ToSet
<1>6. \A k \in DOMAIN long : TaskOf[long[k]] = Of(job)
  BY <1>3, <1>4, <1>5
<1>7. Of(long) = Of(job)
  BY <1>2 DEF Of
<1>8. QED
  BY <1>3, <1>6, <1>7 DEF Sound, Stack, Of

LEMMA UploadCarries ==
    ASSUME TypeOK, ListsSound, Hands, NEW g \in Frames, CompleteUpload(g)
    PROVE  Carries /\ uploaded' = uploaded \cup {g} /\ HeldBy(g)'
<1>t. /\ put \in [Frames \cup Workers -> [pc : PutPlaces, job : Seq(Frames)]]
      /\ Frames \cap Workers = {}
  BY DisjointAssumption DEF TypeOK, PutTypes
<1>1. /\ UNCHANGED <<setting, rows, memory, taken, worker, api, graded, dropped>>
      /\ uploaded' = uploaded \cup {g} /\ g \notin uploaded /\ Enqueue(g, <<g>>)
  BY DEF CompleteUpload, ingest
<1>2. UNCHANGED stacked
  BY <1>1 DEF setting
<1>3. ListsSound' /\ \A f : ListedIn(f)' <=> ListedIn(f)
  BY <1>1, <1>2, ListsStay
<1>4. /\ put'[g].pc \in {"merge", "count"} /\ put'[g].job = <<g>>
      /\ put'[g].pc = "merge" => Stack(<<g>>)
      /\ \A y \in Frames \cup Workers : y # g => put'[y] = put[y]
  BY <1>1, <1>t DEF Enqueue
<1>5. \A job : Sound(job)' <=> Sound(job)
  BY <1>2, SoundStays
<1>6. Sound(<<g>>) /\ ToSet(<<g>>) = {g}
  BY SoundOne
<1>7. HandsSound'
  BY <1>1, <1>4, <1>5, <1>6 DEF Hands, HandsSound
<1>8. Settled'
  <2>1. \A y \in Frames \cup Workers : /\ put'[y].pc = "idle" => put'[y].job = << >>
                                       /\ put'[y].pc = "merge" => Stack(put'[y].job)
    BY <1>4 DEF Hands, Settled
  <2>2. \A f \in Frames \ uploaded' : put'[f].pc = "idle"
    BY <1>1, <1>4 DEF Hands, Settled
  <2>3. \A v \in Workers : put'[v] = put[v]
    BY <1>4, <1>t
  <2>4. QED
    BY <1>1, <1>2, <2>1, <2>2, <2>3 DEF Hands, Settled, Stack, Of
<1>9. \A f : HeldBy(f) => HeldBy(f)'
  <2>1. put[g].job = << >>
    BY <1>1 DEF Hands, Settled
  <2>2. QED
    BY <1>1, <1>4, <2>1, NoneInNoJob DEF HeldBy
<1>10. HeldBy(g)'
  BY <1>4, <1>6 DEF HeldBy
<1>11. QED
  BY <1>1, <1>3, <1>7, <1>8, <1>9, <1>10 DEF Carries, Hands, Keeps

LEMMA SoundIn == ASSUME ListsSound, NEW job \in Listed PROVE Sound(job)
  BY DEF ListsSound

LEMMA MergeCarries ==
    ASSUME TypeOK, ListsSound, Hands, NEW x \in Frames \cup Workers, MergeStack(x)
    PROVE  Carries
<1>k. PICK key : key = Head(put[x].job)
  OBVIOUS
<1>m. PICK ms : ms = [k \in DOMAIN rows |->
                        IF Mergeable(rows[k], key) /\ key \notin ToSet(rows[k])
                        THEN Append(rows[k], key) ELSE rows[k]]
  OBVIOUS
<1>t. /\ rows \in Seq(Jobs)
      /\ put \in [Frames \cup Workers -> [pc : PutPlaces, job : Seq(Frames)]]
  BY DEF TypeOK, ListTypes, PutTypes
<1>1. /\ put[x].pc = "merge" /\ rows' \in {rows, ms}
      /\ UNCHANGED <<memory, taken, dropped, setting, uploaded, ingest>>
      /\ \/ Done(x) /\ rows' = ms /\ \E k \in DOMAIN rows : Mergeable(rows[k], key)
         \/ put' = [put EXCEPT ![x].pc = "count"] /\ UNCHANGED worker
  BY <1>k, <1>m DEF MergeStack, Rest
<1>2. UNCHANGED <<stacked, api, graded>>
  BY <1>1 DEF setting, ingest
<1>3. /\ put[x].job \in Jobs /\ Sound(put[x].job) /\ Stack(put[x].job)
      /\ key \in Frames /\ TaskOf[key] \in stacked
  <2>1. put[x].job \in Jobs
    BY <1>1, <1>t DEF TypeOK, PutTypes, Jobs
  <2>2. QED
    BY <1>1, <1>k, <2>1, JobTypes DEF Hands, HandsSound, Settled, Stack, Of
<1>d. DOMAIN rows = 1..Len(rows) /\ \A k \in DOMAIN rows : rows[k] \in Jobs /\ rows[k] \in Listed
  BY <1>t DEF Listed, ToSet
<1>4. ASSUME NEW k \in DOMAIN rows
      PROVE  Sound(ms[k])' /\ ToSet(rows[k]) \subseteq ToSet(ms[k])
  <2>0. PICK row : row = rows[k]
    OBVIOUS
  <2>r. row \in Jobs /\ Sound(row)
    BY <1>d, <2>0, SoundIn
  <2>1. CASE Mergeable(row, key) /\ key \notin ToSet(row)
    <3>1. ms[k] = Append(row, key) /\ Of(row) = TaskOf[key]
      BY <1>m, <1>4, <2>0, <2>1 DEF Mergeable
    <3>2. Stack(row)
      BY <1>3, <3>1 DEF Stack
    <3>3. PICK long : long = Append(row, key)
      OBVIOUS
    <3>4. Sound(long)' /\ ToSet(row) \subseteq ToSet(long)
      BY <1>2, <1>3, <2>r, <3>1, <3>2, <3>3, SoundAppend
    <3>5. QED
      BY <2>0, <3>1, <3>3, <3>4
  <2>2. CASE ~(Mergeable(row, key) /\ key \notin ToSet(row))
    <3>1. ms[k] = row
      BY <1>m, <1>4, <2>0, <2>2
    <3>2. Sound(row)'
      BY <1>2, <2>r, SoundStays
    <3>3. QED
      BY <2>0, <3>1, <3>2
  <2>3. QED
    BY <2>1, <2>2
<1>5. DOMAIN ms = DOMAIN rows
  BY <1>m
<1>6. ListsSound' /\ \A f : ListedIn(f) => ListedIn(f)'
  <2>1. CASE rows' = rows
    BY <1>1, <1>2, <2>1, ListsStay
  <2>2. CASE rows' = ms
    <3>1. \A job \in ToSet(rows') : Sound(job)'
      BY <1>4, <1>5, <2>2 DEF ToSet
    <3>2. \A job \in ToSet(memory) \cup ToSet(taken) : Sound(job)'
      BY <1>2, SoundIn, SoundStays DEF Listed
    <3>3. ListsSound'
      BY <1>1, <3>1, <3>2 DEF ListsSound, Listed
    <3>4. \A job \in ToSet(rows) : \E long \in ToSet(rows') : ToSet(job) \subseteq ToSet(long)
      <4>1. ASSUME NEW k \in DOMAIN rows
            PROVE  \E long \in ToSet(rows') : ToSet(rows[k]) \subseteq ToSet(long)
        <5>1. ms[k] \in ToSet(rows')
          BY <1>5, <2>2 DEF ToSet
        <5>2. QED
          BY <1>4, <5>1
      <4>2. QED
        BY <4>1 DEF ToSet
    <3>5. \A f : ListedIn(f) => ListedIn(f)'
      <4>1. ASSUME NEW f, NEW job \in Listed, f \in ToSet(job) PROVE ListedIn(f)'
        <5>1. CASE job \in ToSet(rows)
          BY <3>4, <4>1, <5>1 DEF ListedIn, Listed
        <5>2. CASE job \in ToSet(memory) \cup ToSet(taken)
          BY <1>1, <4>1, <5>2 DEF ListedIn, Listed
        <5>3. QED
          BY <4>1, <5>1, <5>2 DEF Listed
      <4>2. QED
        BY <4>1 DEF ListedIn
    <3>6. QED
      BY <3>3, <3>5
  <2>3. QED
    BY <1>1, <2>1, <2>2
<1>7. /\ Hands'
      /\ \A f : HeldBy(f) /\ TaskOf[f] \notin stacked => HeldBy(f)'
  <2>1. CASE Done(x)
    <3>1. Hands' /\ \A f : HeldBy(f) => HeldBy(f)' \/ f \in ToSet(put[x].job)
      BY <1>1, <1>2, <2>1, DoneHands
    <3>2. \A f \in ToSet(put[x].job) : TaskOf[f] \in stacked
      <4>1. \A k \in DOMAIN put[x].job : TaskOf[put[x].job[k]] \in stacked
        BY <1>3 DEF Sound, Stack
      <4>2. QED
        BY <4>1 DEF ToSet
    <3>3. QED
      BY <3>1, <3>2
  <2>2. CASE put' = [put EXCEPT ![x].pc = "count"] /\ UNCHANGED worker
    <3>1. put[x].pc # "idle" /\ "count" \in PutPlaces \ {"idle", "merge"}
      BY <1>1 DEF PutPlaces
    <3>2. QED
      BY <1>1, <1>2, <2>2, <3>1, PutStepHands
  <2>3. QED
    BY <1>1, <2>1, <2>2
<1>8. QED
  BY <1>1, <1>6, <1>7 DEF Carries, Keeps

(* Ends an enqueue, the job being lost or in a list.                       *)
LEMMA PutJob ==
    ASSUME TypeOK, Hands, NEW x \in Frames \cup Workers, put[x].pc # "idle"
    PROVE  /\ put[x].job \in Jobs /\ Sound(put[x].job)
           /\ \A f \in ToSet(put[x].job) : TaskOf[f] \notin stacked => put[x].job = <<f>>
<1> DEFINE job == put[x].job
<1>1. job \in Jobs /\ job \in Seq(Frames)
  BY DEF TypeOK, PutTypes, Jobs
<1>2. Sound(job)
  BY DEF Hands, HandsSound
<1>3. ASSUME NEW f \in ToSet(job), TaskOf[f] \notin stacked PROVE job = <<f>>
  <2>1. PICK k \in DOMAIN job : f = job[k]
    BY DEF ToSet
  <2>2. ~Stack(job)
    BY <1>2, <1>3, <2>1 DEF Sound, Stack
  <2>3. Len(job) = 1 /\ DOMAIN job = 1..Len(job)
    BY <1>1, <1>2, <2>2 DEF Sound
  <2>4. k = 1
    BY <2>3
  <2>5. job = <<job[1]>>
    BY <1>1, <2>3
  <2>6. QED
    BY <2>1, <2>4, <2>5
<1>4. QED
  BY <1>1, <1>2, <1>3

LEMMA CountCarries ==
    ASSUME TypeOK, ListsSound, Hands, NEW x \in Frames \cup Workers, CountPending(x)
    PROVE  Carries
<1>1. /\ put[x].pc = "count" /\ UNCHANGED <<rows, memory, taken, setting, uploaded, ingest>>
      /\ \/ Done(x) /\ Lose({put[x].job})
         \/ put' = [put EXCEPT ![x].pc = "insert"] /\ UNCHANGED <<worker, dropped>>
  BY DEF CountPending, Rest
<1>2. UNCHANGED <<stacked, api, graded>>
  BY <1>1 DEF setting, ingest
<1>3. ListsSound' /\ \A f : ListedIn(f)' <=> ListedIn(f)
  BY <1>1, <1>2, ListsStay
<1>4. CASE Done(x) /\ Lose({put[x].job})
  <2>1. Hands' /\ \A f : HeldBy(f) => HeldBy(f)' \/ f \in ToSet(put[x].job)
    BY <1>1, <1>2, <1>4, DoneHands
  <2>2. dropped' = dropped \cup ToSet(put[x].job)
    BY <1>4 DEF Lose
  <2>3. QED
    BY <1>3, <2>1, <2>2 DEF Carries, Keeps
<1>5. CASE put' = [put EXCEPT ![x].pc = "insert"] /\ UNCHANGED <<worker, dropped>>
  <2>1. Hands' /\ \A f : HeldBy(f)' <=> HeldBy(f)
    BY <1>1, <1>2, <1>5, PutStepHands DEF PutPlaces
  <2>2. QED
    BY <1>3, <1>5, <2>1 DEF Carries, Keeps
<1>6. QED
  BY <1>1, <1>4, <1>5

(* The row is inserted, or one with the same first frame was there.        *)
LEMMA InsertRowLists ==
    ASSUME TypeOK, ListsSound, NEW job \in Jobs, Sound(job), InsertRow(job),
           UNCHANGED <<memory, taken, stacked>>
    PROVE  /\ ListsSound' /\ \A f : ListedIn(f) => ListedIn(f)'
           /\ \A f : job = <<f>> => ListedIn(f)'
<1>t. rows \in Seq(Jobs)
  BY DEF TypeOK, ListTypes
<1>1. CASE \E k \in DOMAIN rows : Head(rows[k]) = Head(job)
  <2>1. UNCHANGED rows
    BY <1>1 DEF InsertRow
  <2>2. PICK k \in DOMAIN rows : Head(rows[k]) = Head(job)
    BY <1>1
  <2>3. PICK row : row = rows[k] /\ row \in Jobs /\ row \in Listed
    BY <1>t DEF Listed, ToSet
  <2>4. Head(row) \in ToSet(row)
    BY <2>3, HeadTailMembers DEF Jobs
  <2>5. \A f : job = <<f>> => Head(row) = f
    BY <2>2, <2>3
  <2>6. \A f : job = <<f>> => ListedIn(f)
    BY <2>3, <2>4, <2>5 DEF ListedIn
  <2>7. QED
    BY <2>1, <2>6, ListsStay
<1>2. CASE ~ \E k \in DOMAIN rows : Head(rows[k]) = Head(job)
  <2>1. rows' = Append(rows, job)
    BY <1>2 DEF InsertRow
  <2>2. ToSet(rows') = ToSet(rows) \cup {job}
    BY <1>t, <2>1, AppendMembers
  <2>3. Listed' = Listed \cup {job}
    BY <2>2 DEF Listed
  <2>4. \A j : Sound(j)' <=> Sound(j)
    BY SoundStays
  <2>5. \A f : job = <<f>> => f \in ToSet(job)
    BY DEF ToSet
  <2>6. QED
    BY <2>3, <2>4, <2>5 DEF ListsSound, ListedIn
<1>3. QED
  BY <1>1, <1>2

LEMMA InsertCarries ==
    ASSUME TypeOK, ListsSound, Hands, NEW x \in Frames \cup Workers, InsertJob(x)
    PROVE  Carries
<1>0. PICK job : job = put[x].job
  OBVIOUS
<1>1. /\ put[x].pc = "insert"
      /\ UNCHANGED <<memory, taken, setting, uploaded, ingest, dropped>>
      /\ \/ Done(x) /\ InsertRow(job)
         \/ /\ put' = [put EXCEPT ![x].pc = "memory"] /\ UNCHANGED worker
            /\ InsertRow(job) \/ UNCHANGED rows
  BY <1>0 DEF InsertJob, Rest
<1>2. UNCHANGED <<stacked, api, graded>>
  BY <1>1 DEF setting, ingest
<1>3. /\ job \in Jobs /\ Sound(job)
      /\ \A f \in ToSet(job) : TaskOf[f] \notin stacked => job = <<f>>
  BY <1>0, <1>1, PutJob
<1>4. InsertRow(job) => /\ ListsSound' /\ \A f : ListedIn(f) => ListedIn(f)'
                        /\ \A f : job = <<f>> => ListedIn(f)'
  BY <1>1, <1>2, <1>3, InsertRowLists
<1>5. CASE Done(x) /\ InsertRow(job)
  <2>1. Hands' /\ \A f : HeldBy(f) => HeldBy(f)' \/ f \in ToSet(job)
    BY <1>0, <1>1, <1>2, <1>5, DoneHands
  <2>2. QED
    BY <1>1, <1>3, <1>4, <1>5, <2>1 DEF Carries, Keeps
<1>6. CASE /\ put' = [put EXCEPT ![x].pc = "memory"] /\ UNCHANGED worker
           /\ InsertRow(job) \/ UNCHANGED rows
  <2>1. Hands' /\ \A f : HeldBy(f)' <=> HeldBy(f)
    BY <1>1, <1>2, <1>6, PutStepHands DEF PutPlaces
  <2>2. UNCHANGED rows => ListsSound' /\ \A f : ListedIn(f)' <=> ListedIn(f)
    BY <1>1, <1>2, ListsStay
  <2>3. QED
    BY <1>1, <1>4, <1>6, <2>1, <2>2 DEF Carries, Keeps
<1>7. QED
  BY <1>1, <1>5, <1>6

LEMMA RememberCarries ==
    ASSUME TypeOK, ListsSound, Hands, NEW x \in Frames \cup Workers, Remember(x)
    PROVE  Carries
<1>0. PICK job : job = put[x].job
  OBVIOUS
<1>1. /\ put[x].pc = "memory" /\ Done(x)
      /\ UNCHANGED <<rows, taken, setting, uploaded, ingest>>
  BY DEF Remember, Rest
<1>2. UNCHANGED <<stacked, api, graded>>
  BY <1>1 DEF setting, ingest
<1>3. /\ job \in Jobs /\ Sound(job)
      /\ \A f \in ToSet(job) : TaskOf[f] \notin stacked => job = <<f>>
  BY <1>0, <1>1, PutJob
<1>4. Hands' /\ \A f : HeldBy(f) => HeldBy(f)' \/ f \in ToSet(job)
  BY <1>0, <1>1, <1>2, DoneHands
<1>t. memory \in Seq(Jobs) /\ DOMAIN memory = 1..Len(memory)
  BY DEF TypeOK, ListTypes
<1>j. \A j : Sound(j)' <=> Sound(j)
  BY <1>2, SoundStays
<1>5. CASE memory' = memory /\ Lose({job})
  <2>1. ListsSound' /\ \A f : ListedIn(f)' <=> ListedIn(f)
    BY <1>1, <1>2, <1>5, ListsStay
  <2>2. dropped' = dropped \cup ToSet(job)
    BY <1>5 DEF Lose
  <2>3. QED
    BY <1>4, <2>1, <2>2 DEF Carries, Keeps
<1>6. CASE memory' = Append(memory, job) /\ UNCHANGED dropped
  <2>1. ToSet(memory') = ToSet(memory) \cup {job}
    BY <1>3, <1>6, <1>t, AppendMembers
  <2>2. Listed' = Listed \cup {job}
    BY <1>1, <2>1 DEF Listed
  <2>3. QED
    BY <1>3, <1>4, <1>6, <1>j, <2>2 DEF Carries, Keeps, ListsSound, ListedIn
<1>7. ASSUME NEW k \in DOMAIN memory, Stack(job), Of(memory[k]) = Of(job),
             memory' = [memory EXCEPT ![k] =
                 @ \o Pick(job, {i \in DOMAIN job : job[i] \notin ToSet(memory[k])})],
             UNCHANGED dropped
      PROVE  Carries
  <2>0. PICK old : old = memory[k]
    OBVIOUS
  <2>1. PICK more : more = Pick(job, {i \in DOMAIN job : job[i] \notin ToSet(old)})
    OBVIOUS
  <2>2. PICK long : long = old \o more
    OBVIOUS
  <2>3. memory' = [memory EXCEPT ![k] = long]
    BY <1>7, <2>0, <2>1, <2>2
  <2>4. old \in Jobs /\ old \in Listed /\ Sound(old) /\ Stack(old) /\ Of(old) = Of(job)
    <3>1. old \in Jobs /\ old \in Listed
      BY <1>t, <2>0 DEF Listed, ToSet
    <3>2. QED
      BY <1>7, <2>0, <3>1, SoundIn DEF Stack
  <2>5. more \in Seq(Frames) /\ \A f \in ToSet(more) : TaskOf[f] = Of(old)
    <3>1. job \in Seq(Frames)
      BY <1>3 DEF Jobs
    <3>2. /\ more \in Seq(Frames)
          /\ \A f \in ToSet(more) : \E i \in DOMAIN job : f = job[i]
      BY <2>1, <3>1, PickMembers
    <3>3. QED
      BY <1>3, <2>4, <3>2 DEF Sound
  <2>6. Sound(long)' /\ ToSet(old) \subseteq ToSet(long)
    BY <1>2, <2>2, <2>4, <2>5, SoundMore
  <2>7. \A m \in DOMAIN memory : memory'[m] = IF m = k THEN long ELSE memory[m]
    BY <2>3
  <2>8. DOMAIN memory' = DOMAIN memory
    BY <2>3
  <2>9. /\ \A j \in ToSet(memory') : j = long \/ j \in ToSet(memory)
        /\ \A j \in ToSet(memory) : j = old \/ j \in ToSet(memory')
        /\ long \in ToSet(memory')
    BY <2>0, <2>7, <2>8, <1>7 DEF ToSet
  <2>10. ListsSound'
    BY <1>1, <1>j, <2>6, <2>9 DEF ListsSound, Listed
  <2>11. \A f : ListedIn(f) => ListedIn(f)'
    BY <1>1, <2>6, <2>9 DEF ListedIn, Listed
  <2>12. \A f \in ToSet(job) : TaskOf[f] \in stacked
    BY <1>3, <1>7 DEF Sound, Stack, ToSet
  <2>13. QED
    BY <1>4, <1>7, <2>10, <2>11, <2>12 DEF Carries, Keeps
<1>8. QED
  <2>1. \/ memory' = memory /\ Lose({job})
        \/ memory' = Append(memory, job) /\ UNCHANGED dropped
        \/ \E k \in DOMAIN memory :
              /\ Stack(job) /\ Of(memory[k]) = Of(job)
              /\ memory' = [memory EXCEPT ![k] =
                    @ \o Pick(job, {i \in DOMAIN job : job[i] \notin ToSet(memory[k])})]
              /\ UNCHANGED dropped
    <3>1. memory \in Seq(Jobs)
      BY <1>t
    <3>2. \/ memory' = memory /\ Lose({put[x].job})
          \/ memory' = Append(memory, put[x].job) /\ UNCHANGED dropped
          \/ \E k \in DOMAIN memory :
                /\ Stack(put[x].job) /\ Of(memory[k]) = Of(put[x].job)
                /\ memory' = [memory EXCEPT ![k] =
                      @ \o Pick(put[x].job, {i \in DOMAIN put[x].job :
                                                put[x].job[i] \notin ToSet(memory[k])})]
                /\ UNCHANGED dropped
      BY <3>1, RememberStep
    <3>3. QED
      BY <1>0, <3>2, Zenon
  <2>2. QED
    BY <1>5, <1>6, <1>7, <2>1

(* Rows are handed out, or stay, or are lost with the response.            *)
LEMMA TakeCarries ==
    ASSUME TypeOK, ListsSound, Hands, TakeJobs
    PROVE  Carries
<1>t. rows \in Seq(Jobs) /\ memory \in Seq(Jobs) /\ taken \in Seq(Jobs)
  BY DEF TypeOK, ListTypes
<1>1. PICK able : able = {k \in DOMAIN rows : Ready(rows[k])}
  OBVIOUS
<1>2. PICK ready : ready = Pick(rows, able)
  OBVIOUS
<1>3. PICK left : left = Pick(rows, DOMAIN rows \ able)
  OBVIOUS
<1>4. /\ ready \in Seq(Jobs) /\ left \in Seq(Jobs)
      /\ ToSet(rows) = ToSet(ready) \cup ToSet(left)
  <2>1. /\ ready \in Seq(Jobs) /\ ToSet(ready) = {rows[k] : k \in DOMAIN rows \cap able}
        /\ left \in Seq(Jobs)
        /\ ToSet(left) = {rows[k] : k \in DOMAIN rows \cap (DOMAIN rows \ able)}
    BY <1>t, <1>2, <1>3, PickMembers
  <2>2. QED
    BY <2>1 DEF ToSet
<1>5. ToSet(ready \o memory) = ToSet(ready) \cup ToSet(memory)
  BY <1>t, <1>4, ConcatMembers
<1>6. /\ taken = << >> /\ UNCHANGED <<setting, uploaded, put, worker, ingest>>
      /\ \/ taken' = ready \o memory /\ rows' = left /\ memory' = << >> /\ UNCHANGED dropped
         \/ taken' = memory /\ memory' = << >> /\ UNCHANGED <<rows, dropped>>
         \/ taken' = memory /\ memory' = << >> /\ rows' = left /\ Lose(ToSet(ready))
         \/ rows' = left /\ memory' = << >> /\ UNCHANGED taken /\ Lose(ToSet(ready \o memory))
  BY <1>1, <1>2, <1>3 DEF TakeJobs
<1>7. UNCHANGED <<stacked, api, graded>>
  BY <1>6 DEF setting, ingest
<1>8. Hands' /\ \A f : HeldBy(f)' <=> HeldBy(f)
  <2>1. \A v \in Workers : \/ api'[v].pc = "idle"
                           \/ api'[v].frame = api[v].frame /\ api[v].pc # "idle"
    BY <1>7
  <2>2. QED
    BY <1>6, <1>7, <2>1, CallHands
<1>9. /\ Listed' \subseteq Listed /\ dropped \subseteq dropped'
      /\ \A job \in Listed : job \in Listed' \/ ToSet(job) \subseteq dropped'
  <2>0. ToSet(<< >>) = {}
    BY EmptyMembers
  <2>1. CASE taken' = ready \o memory /\ rows' = left /\ memory' = << >> /\ UNCHANGED dropped
    BY <1>4, <1>5, <1>6, <2>0, <2>1 DEF Listed
  <2>2. CASE taken' = memory /\ memory' = << >> /\ UNCHANGED <<rows, dropped>>
    BY <1>6, <2>0, <2>2 DEF Listed
  <2>3. CASE taken' = memory /\ memory' = << >> /\ rows' = left /\ Lose(ToSet(ready))
    BY <1>4, <1>6, <2>0, <2>3 DEF Listed, Lose
  <2>4. CASE rows' = left /\ memory' = << >> /\ UNCHANGED taken /\ Lose(ToSet(ready \o memory))
    BY <1>4, <1>5, <1>6, <2>0, <2>4 DEF Listed, Lose
  <2>5. QED
    BY <1>6, <2>1, <2>2, <2>3, <2>4
<1>10. ListsSound'
  BY <1>7, <1>9, SoundStays DEF ListsSound
<1>11. QED
  BY <1>8, <1>9, <1>10 DEF Carries, Keeps, ListedIn

LEMMA StartCarries ==
    ASSUME TypeOK, ListsSound, Hands, NEW w \in Workers, StartJob(w)
    PROVE  Carries
<1>1. /\ worker[w].pc = "idle" /\ taken # << >> /\ taken \in Seq(Jobs)
      /\ taken' = Tail(taken)
      /\ UNCHANGED <<setting, uploaded, rows, memory, put, ingest, dropped>>
  BY DEF StartJob, queue, TypeOK, ListTypes
<1>2. UNCHANGED <<stacked, api, graded>>
  BY <1>1 DEF setting, ingest
<1>3. PICK job : job = Head(taken)
  OBVIOUS
<1>4. PICK q : q = [pc |-> "grade", job |-> job, i |-> 1]
  OBVIOUS
<1>5. ToSet(taken) = {job} \cup ToSet(taken') /\ Listed = Listed' \cup {job}
  BY <1>1, <1>3, HeadTailMembers DEF Listed
<1>6. Sound(job)
  BY <1>5, SoundIn
<1>7. /\ Hands' /\ \A f : HeldBy(f) => HeldBy(f)' \/ f \in ToSet(worker[w].job)
      /\ \A f : f \in ToSet(q.job) => HeldBy(f)'
  <2>1. worker' = [worker EXCEPT ![w] = q]
    BY <1>3, <1>4 DEF StartJob
  <2>2. q.pc = "grade" /\ q.job = job
    BY <1>4
  <2>3. \A v \in Workers : v # w => api'[v] = api[v] \/ api'[v].pc = "idle"
    BY <1>2
  <2>4. QED
    BY <1>1, <1>2, <1>6, <2>1, <2>2, <2>3, WorkHands
<1>8. worker[w].job = << >>
  BY <1>1 DEF Hands, Settled
<1>9. ListsSound'
  BY <1>2, <1>5, SoundStays DEF ListsSound
<1>10. q.job = job
  BY <1>4
<1>11. QED
  BY <1>1, <1>5, <1>7, <1>8, <1>9, <1>10, NoneInNoJob DEF Carries, Keeps, ListedIn

LEMMA GradeCarries ==
    ASSUME TypeOK, ListsSound, Hands, NEW w \in Workers, Grade(w)
    PROVE  Carries
<1>1. /\ worker[w].pc = "grade" /\ UNCHANGED <<setting, uploaded, rows, memory, taken, graded>>
      /\ \/ /\ worker' = [worker EXCEPT ![w].pc = "wait"] /\ UNCHANGED <<put, dropped>>
            /\ api' = [api EXCEPT ![w] = [pc |-> "check",
                          frame |-> worker[w].job[worker[w].i], saw |-> 0]]
         \/ Requeue(w) /\ UNCHANGED api
  BY DEF Grade
<1>2. UNCHANGED stacked
  BY <1>1 DEF setting
<1>3. ListsSound' /\ \A f : ListedIn(f)' <=> ListedIn(f)
  BY <1>1, <1>2, ListsStay
<1>4. CASE /\ worker' = [worker EXCEPT ![w].pc = "wait"] /\ UNCHANGED <<put, dropped>>
           /\ api' = [api EXCEPT ![w] = [pc |-> "check",
                         frame |-> worker[w].job[worker[w].i], saw |-> 0]]
  <2>1. PICK q : q = [worker[w] EXCEPT !.pc = "wait"]
    OBVIOUS
  <2>2. worker' = [worker EXCEPT ![w] = q]
    BY <1>4, <2>1
  <2>3. q.pc = "wait" /\ q.job = worker[w].job /\ q.i = worker[w].i
    BY <2>1 DEF TypeOK, WorkTypes
  <2>4. Sound(q.job)
    BY <1>1, <2>3 DEF Hands, HandsSound
  <2>5. /\ api'[w].frame = q.job[q.i]
        /\ \A v \in Workers : v # w => api'[v] = api[v]
    BY <1>4, <2>3 DEF TypeOK, CallTypes
  <2>6. /\ Hands' /\ \A f : HeldBy(f) => HeldBy(f)' \/ f \in ToSet(worker[w].job)
        /\ \A f : f \in ToSet(q.job) => HeldBy(f)'
    BY <1>1, <1>2, <1>4, <2>2, <2>3, <2>4, <2>5, WorkHands
  <2>7. QED
    BY <1>3, <1>4, <2>3, <2>6 DEF Carries, Keeps
<1>5. CASE Requeue(w) /\ UNCHANGED api
  <2>1. Hands' /\ \A f : HeldBy(f) => HeldBy(f)'
    BY <1>1, <1>2, <1>5, RequeueHands
  <2>2. QED
    BY <1>3, <1>5, <2>1 DEF Carries, Keeps, Requeue
<1>6. QED
  BY <1>1, <1>4, <1>5

LEMMA NoJobSound == NoJob.pc = "idle" /\ NoJob.job = << >>
  BY DEF NoJob

LEMMA WorkCarries ==
    ASSUME TypeOK, ListsSound, Hands, NEW w \in Workers,
           \/ GiveUpWaiting(w) \/ CheckProduct(w) \/ DeliverProduct(w)
           \/ RequeueFails(w) \/ WorkerDies(w)
    PROVE  Carries
<1>1. UNCHANGED <<setting, uploaded, rows, memory, ingest>>
  BY DEF GiveUpWaiting, CheckProduct, DeliverProduct, RequeueFails, WorkerDies, Rest, queue
<1>2. UNCHANGED <<stacked, api, graded>>
  BY <1>1 DEF setting, ingest
<1>3. UNCHANGED taken => ListsSound' /\ \A f : ListedIn(f)' <=> ListedIn(f)
  BY <1>1, <1>2, ListsStay
<1>4. CASE GiveUpWaiting(w)
  <2>1. Refused(w) /\ worker[w].pc = "wait" /\ UNCHANGED taken
    BY <1>4 DEF GiveUpWaiting
  <2>2. /\ Hands' /\ dropped \subseteq dropped'
        /\ \A f : HeldBy(f) /\ TaskOf[f] \notin stacked
                     => HeldBy(f)' \/ f \in graded \/ f \in dropped'
    BY <1>1, <1>2, <2>1, RefusedHands
  <2>3. QED
    BY <1>2, <1>3, <2>1, <2>2 DEF Carries, Keeps
<1>5. CASE CheckProduct(w) \/ DeliverProduct(w)
  <2>1. /\ worker[w].pc \in {"product", "publish"} /\ UNCHANGED taken
        /\ \/ Requeue(w)
           \/ /\ UNCHANGED <<put, dropped>>
              /\ \/ worker' = [worker EXCEPT ![w] = NoJob]
                 \/ worker' = [worker EXCEPT ![w] = [worker[w] EXCEPT !.pc = "publish"]]
    BY <1>5 DEF CheckProduct, DeliverProduct
  <2>2. Stack(worker[w].job) /\ Sound(worker[w].job)
    BY <2>1 DEF Hands, HandsSound, Settled
  <2>3. \A f \in ToSet(worker[w].job) : TaskOf[f] \in stacked
    BY <2>2 DEF Sound, Stack, ToSet
  <2>4. CASE Requeue(w)
    <3>1. Hands' /\ \A f : HeldBy(f) => HeldBy(f)'
      BY <1>1, <1>2, <2>1, <2>4, RequeueHands
    <3>2. QED
      BY <1>3, <2>1, <2>4, <3>1 DEF Carries, Keeps, Requeue
  <2>5. CASE worker' = [worker EXCEPT ![w] = NoJob] /\ UNCHANGED <<put, dropped>>
    <3>1. Hands' /\ \A f : HeldBy(f) => HeldBy(f)' \/ f \in ToSet(worker[w].job)
      BY <1>1, <1>2, <2>1, <2>5, NoJobSound, WorkHands
    <3>2. QED
      BY <1>3, <2>1, <2>3, <2>5, <3>1 DEF Carries, Keeps
  <2>6. CASE /\ worker' = [worker EXCEPT ![w] = [worker[w] EXCEPT !.pc = "publish"]]
             /\ UNCHANGED <<put, dropped>>
    <3>1. PICK q : q = [worker[w] EXCEPT !.pc = "publish"]
      OBVIOUS
    <3>2. q.pc = "publish" /\ q.job = worker[w].job
      BY <3>1 DEF TypeOK, WorkTypes
    <3>3. worker' = [worker EXCEPT ![w] = q]
      BY <2>6, <3>1
    <3>4. Hands' /\ \A f : HeldBy(f) => HeldBy(f)' \/ f \in ToSet(worker[w].job)
      BY <1>1, <1>2, <2>1, <2>2, <2>6, <3>2, <3>3, WorkHands
    <3>5. QED
      BY <1>3, <2>1, <2>3, <2>6, <3>4 DEF Carries, Keeps
  <2>7. QED
    BY <2>1, <2>4, <2>5, <2>6
<1>6. CASE RequeueFails(w)
  <2>1. put[w].pc # "idle" /\ Done(w) /\ Lose({put[w].job}) /\ UNCHANGED taken
    BY <1>6 DEF RequeueFails, Rest
  <2>2. Hands' /\ \A f : HeldBy(f) => HeldBy(f)' \/ f \in ToSet(put[w].job)
    BY <1>1, <1>2, <2>1, DoneHands
  <2>3. dropped' = dropped \cup ToSet(put[w].job)
    BY <2>1 DEF Lose
  <2>4. QED
    BY <1>3, <2>1, <2>2, <2>3 DEF Carries, Keeps
<1>7. CASE WorkerDies(w)
  <2>1. /\ worker[w].pc # "requeue" /\ worker' = [worker EXCEPT ![w] = NoJob]
        /\ UNCHANGED put
        /\ \/ Lose({worker[w].job}) /\ UNCHANGED taken
           \/ Lose({worker[w].job} \cup ToSet(taken)) /\ taken' = << >>
    BY <1>7 DEF WorkerDies, queue
  <2>2. Hands' /\ \A f : HeldBy(f) => HeldBy(f)' \/ f \in ToSet(worker[w].job)
    BY <1>1, <1>2, <2>1, NoJobSound, WorkHands
  <2>3. CASE Lose({worker[w].job}) /\ UNCHANGED taken
    <3>1. dropped' = dropped \cup ToSet(worker[w].job)
      BY <2>3 DEF Lose
    <3>2. QED
      BY <1>3, <2>2, <2>3, <3>1 DEF Carries, Keeps
  <2>4. CASE Lose({worker[w].job} \cup ToSet(taken)) /\ taken' = << >>
    <3>1. /\ dropped \subseteq dropped' /\ ToSet(worker[w].job) \subseteq dropped'
          /\ \A job \in ToSet(taken) : ToSet(job) \subseteq dropped'
      BY <2>4 DEF Lose
    <3>2. Listed' = ToSet(rows) \cup ToSet(memory)
      BY <1>1, <2>4, EmptyMembers DEF Listed
    <3>3. ListsSound'
      BY <1>2, <3>2, SoundStays DEF ListsSound, Listed
    <3>4. \A f : ListedIn(f) => ListedIn(f)' \/ f \in dropped'
      BY <3>1, <3>2 DEF ListedIn, Listed
    <3>5. QED
      BY <2>2, <3>1, <3>3, <3>4 DEF Carries, Keeps
  <2>5. QED
    BY <2>1, <2>3, <2>4
<1>8. QED
  BY <1>4, <1>5, <1>6, <1>7

(* The answer of a call, or its next statement.                            *)
LEMMA IngestCarries ==
    ASSUME TypeOK, ListsSound, Hands, Once, NEW w \in Workers, Ingest(w)
    PROVE  Carries
<1>1. /\ UNCHANGED <<setting, uploaded, rows, memory, taken>> /\ graded \subseteq graded'
      /\ api[w].pc # "idle"
  BY DEF Ingest, CheckDuplicate, InsertGrade, ReadEarned, Credit, CompleteTask,
     CountRemaining, CloseCampaign, Deliver, Accept, IngestFails, IngestStops, Outside
<1>2. UNCHANGED stacked
  BY <1>1 DEF setting
<1>3. ListsSound' /\ \A f : ListedIn(f)' <=> ListedIn(f)
  BY <1>1, <1>2, ListsStay
<1>4. /\ \A v \in Workers : v # w => api'[v] = api[v]
      /\ api'[w].frame = api[w].frame \/ api'[w].pc = "idle"
  BY OwnCall
<1>5. \/ Answer(w, FALSE)
      \/ Answer(w, TRUE) /\ api[w].pc = "reputation"
      \/ UNCHANGED <<worker, put, dropped>>
  BY DEF Ingest, CheckDuplicate, InsertGrade, ReadEarned, Credit, CompleteTask,
     CountRemaining, CloseCampaign, Deliver, Accept, IngestFails, IngestStops, Silent
<1>6. ASSUME NEW ok \in BOOLEAN, Answer(w, ok), ok => api[w].pc = "reputation" PROVE Carries
  <2>1. ok => In(w, Posted)
    BY <1>6 DEF In, Posted
  <2>2. /\ Hands' /\ dropped \subseteq dropped'
        /\ \A f : HeldBy(f) /\ TaskOf[f] \notin stacked
                     => HeldBy(f)' \/ f \in graded \/ f \in dropped'
    BY <1>1, <1>2, <1>6, <2>1, AnswerHands
  <2>3. QED
    BY <1>1, <1>3, <2>2 DEF Carries, Keeps
<1>7. CASE UNCHANGED <<worker, put, dropped>>
  <2>1. \A v \in Workers : api'[v].frame = api[v].frame \/ api'[v].pc = "idle"
    BY <1>4
  <2>2. \A job : Sound(job)' <=> Sound(job)
    BY <1>2, SoundStays
  <2>3. HandsSound'
    BY <1>7, <2>2 DEF Hands, HandsSound
  <2>4. \A v \in Workers : api'[v].pc # "idle" => api[v].pc # "idle"
    BY <1>1, <1>4
  <2>5. Settled'
    BY <1>1, <1>2, <1>7, <2>1, <2>4 DEF Hands, Settled, Stack, Of
  <2>6. \A f : HeldBy(f)' <=> HeldBy(f)
    BY <1>7 DEF HeldBy
  <2>7. QED
    BY <1>1, <1>3, <1>7, <2>3, <2>5, <2>6 DEF Carries, Keeps, Hands
<1>8. QED
  BY <1>5, <1>6, <1>7

(* The apiserver restarts: what it held in memory and the jobs that it was *)
(* adding are lost, and named.                                             *)
LEMMA RestartCarries ==
    ASSUME TypeOK, ListsSound, Hands, Restart
    PROVE  Carries
<1>t. DOMAIN put = Frames \cup Workers /\ DOMAIN worker = Workers
  BY DEF TypeOK, PutTypes, WorkTypes
<1>1. PICK lost : lost = {x \in DOMAIN put : put[x].pc # "idle"}
  OBVIOUS
<1>2. /\ memory' = << >>
      /\ dropped' = dropped \cup UNION {ToSet(job) :
                       job \in ToSet(memory) \cup {put[x].job : x \in lost}}
      /\ put' = [x \in Frames \cup Workers |-> Free]
      /\ api' = [w \in Workers |-> NoCall(AnyFrame)]
      /\ worker' = [w \in Workers |-> IF w \in lost THEN NoJob ELSE worker[w]]
      /\ UNCHANGED <<setting, uploaded, rows, taken, graded>>
  BY <1>1, <1>t DEF Restart, Lose
<1>3. UNCHANGED stacked
  BY <1>2 DEF setting
<1>4. /\ dropped \subseteq dropped'
      /\ \A job \in ToSet(memory) : ToSet(job) \subseteq dropped'
      /\ \A x \in lost : ToSet(put[x].job) \subseteq dropped'
  BY <1>2
<1>5. \A job : Sound(job)' <=> Sound(job)
  BY <1>3, SoundStays
<1>6. Listed' = ToSet(rows) \cup ToSet(taken)
  BY <1>2, EmptyMembers DEF Listed
<1>7. ListsSound'
  BY <1>5, <1>6 DEF ListsSound, Listed
<1>8. \A f : ListedIn(f) => ListedIn(f)' \/ f \in dropped'
  BY <1>4, <1>6 DEF ListedIn, Listed
<1>9. \A x \in Frames \cup Workers : put'[x].pc = "idle" /\ put'[x].job = << >>
  BY <1>2 DEF Free
<1>10. \A w \in Workers : /\ w \in lost => worker'[w].pc = "idle" /\ worker'[w].job = << >>
                          /\ w \notin lost => worker'[w] = worker[w] /\ worker[w].pc # "requeue"
  BY <1>1, <1>2, <1>t DEF NoJob, Hands, Settled
<1>11. \A w \in Workers : api'[w].pc = "idle"
  BY <1>2 DEF NoCall
<1>12. HandsSound'
  BY <1>5, <1>9, <1>10 DEF Hands, HandsSound
<1>13. Settled'
  <2>1. \A x \in Frames \cup Workers : put'[x].pc # "merge"
    BY <1>9
  <2>2. ASSUME NEW w \in Workers
        PROVE  /\ worker'[w].pc = "idle" => worker'[w].job = << >>
               /\ worker'[w].pc \in {"product", "publish"} => Stack(worker'[w].job)
               /\ worker'[w].pc # "requeue"
    <3>1. CASE w \in lost
      BY <1>10, <3>1
    <3>2. CASE w \notin lost
      BY <1>10, <3>2 DEF Hands, Settled
    <3>3. QED
      BY <3>1, <3>2
  <2>3. QED
    BY <1>3, <1>9, <1>11, <2>1, <2>2 DEF Settled, Stack, Of
<1>14. \A f : HeldBy(f) => HeldBy(f)' \/ f \in dropped'
  <2>1. ASSUME NEW f, NEW x \in Frames \cup Workers, f \in ToSet(put[x].job)
        PROVE  f \in dropped'
    <3>1. put[x].pc # "idle"
      BY <2>1, NoneInNoJob DEF Hands, Settled
    <3>2. QED
      BY <1>1, <1>4, <1>t, <2>1, <3>1
  <2>2. ASSUME NEW f, NEW w \in Workers, f \in ToSet(worker[w].job)
        PROVE  HeldBy(f)' \/ f \in dropped'
    <3>1. CASE w \notin lost
      BY <1>10, <2>2, <3>1 DEF HeldBy
    <3>2. CASE w \in lost
      <4>1. put[w].pc # "idle"
        BY <1>1, <3>2
      <4>2. put[w].job = worker[w].job
        BY <4>1 DEF Hands, Settled
      <4>3. QED
        BY <1>4, <2>2, <3>2, <4>2
    <3>3. QED
      BY <3>1, <3>2
  <2>3. QED
    BY <2>1, <2>2 DEF HeldBy
<1>15. QED
  BY <1>2, <1>4, <1>7, <1>8, <1>12, <1>13, <1>14 DEF Carries, Keeps, Hands

LEMMA StepCarries ==
    ASSUME TypeOK, ListsSound, Hands, Once, Next
    PROVE  Carries
<1>1. ASSUME NEW f \in Frames, CompleteUpload(f) PROVE Carries
  BY <1>1, UploadCarries
<1>2. ASSUME NEW x \in Frames \cup Workers, Put(x) PROVE Carries
  BY <1>2, MergeCarries, CountCarries, InsertCarries, RememberCarries DEF Put
<1>3. CASE TakeJobs
  BY <1>3, TakeCarries
<1>4. ASSUME NEW w \in Workers, Work(w) PROVE Carries
  BY <1>4, StartCarries, GradeCarries, WorkCarries DEF Work
<1>5. ASSUME NEW w \in Workers, Ingest(w) PROVE Carries
  BY <1>5, IngestCarries
<1>6. CASE Restart
  BY <1>6, RestartCarries
<1>7. QED
  BY <1>1, <1>2, <1>3, <1>4, <1>5, <1>6 DEF Next

(* Grades stay, and a frame becomes uploaded when its job is in a hand.    *)
LEMMA UploadsGrow ==
    ASSUME TypeOK, ListsSound, Hands, Next
    PROVE  /\ graded \subseteq graded'
           /\ \A f \in uploaded' : f \in uploaded \/ HeldBy(f)'
<1>1. CASE \E f \in Frames : CompleteUpload(f)
  <2>1. PICK f \in Frames : CompleteUpload(f)
    BY <1>1
  <2>2. QED
    BY <2>1, UploadCarries DEF CompleteUpload, ingest
<1>2. CASE ~ \E f \in Frames : CompleteUpload(f)
  <2>1. UNCHANGED uploaded
    BY <1>2 DEF Next, Put, Work, Ingest, MergeStack, CountPending, InsertJob,
     Remember, TakeJobs, StartJob, Grade, GiveUpWaiting, CheckProduct, DeliverProduct,
     RequeueFails, WorkerDies, CheckDuplicate, InsertGrade, ReadEarned, Credit, CompleteTask,
     CountRemaining, CloseCampaign, Deliver, Accept, IngestFails, IngestStops, Restart, Rest, Outside
  <2>2. graded \subseteq graded'
    BY <1>2 DEF Next, Put, Work, Ingest, MergeStack, CountPending, InsertJob,
     Remember, TakeJobs, StartJob, Grade, GiveUpWaiting, CheckProduct, DeliverProduct,
     RequeueFails, WorkerDies, CheckDuplicate, InsertGrade, ReadEarned, Credit, CompleteTask,
     CountRemaining, CloseCampaign, Deliver, Accept, IngestFails, IngestStops, Restart, Rest, ingest
  <2>3. QED
    BY <2>1, <2>2
<1>3. QED
  BY <1>1, <1>2

LEMMA CarriedByNext ==
    ASSUME TypeOK', NEW f
    PROVE  Carried(f)' <=> ListedIn(f)' \/ HeldBy(f)'
<1>1. DOMAIN put' = Frames \cup Workers
  BY DEF TypeOK, PutTypes
<1>2. ListedIn(f)' <=> \/ \E k \in DOMAIN rows' : f \in ToSet(rows'[k])
                       \/ \E k \in DOMAIN memory' : f \in ToSet(memory'[k])
                       \/ \E k \in DOMAIN taken' : f \in ToSet(taken'[k])
  <2>1. \A s : (\E job \in ToSet(s) : f \in ToSet(job)) <=> (\E k \in DOMAIN s : f \in ToSet(s[k]))
    <3>1. \A s : ToSet(s) = {s[k] : k \in DOMAIN s}
      BY DEF ToSet
    <3>2. QED
      BY <3>1
  <2>2. ListedIn(f)' <=> \/ \E job \in ToSet(rows') : f \in ToSet(job)
                         \/ \E job \in ToSet(memory') : f \in ToSet(job)
                         \/ \E job \in ToSet(taken') : f \in ToSet(job)
    BY DEF ListedIn, Listed
  <2>3. QED
    BY <2>1, <2>2
<1>3. QED
  BY <1>1, <1>2 DEF Carried, HeldBy

LEMMA KeptStep ==
    TypeOK /\ TypeOK' /\ Once /\ KeptInv /\ [Next]_vars => KeptInv'
<1> SUFFICES ASSUME TypeOK, TypeOK', Once, KeptInv, [Next]_vars PROVE KeptInv'
  OBVIOUS
<1>1. CASE UNCHANGED vars
  <2>1. /\ UNCHANGED <<setting, uploaded, rows, memory, put, taken, worker, api, graded,
                       dropped>>
    BY <1>1 DEF vars, queue, ingest
  <2>2. UNCHANGED stacked
    BY <2>1 DEF setting
  <2>3. ListsSound'
    BY <2>1, <2>2, ListsStay DEF KeptInv
  <2>4. Hands'
    <3>1. \A job : Sound(job)' <=> Sound(job)
      BY <2>2, SoundStays
    <3>2. HandsSound'
      BY <2>1, <3>1 DEF KeptInv, Hands, HandsSound
    <3>3. Settled'
      BY <2>1, <2>2 DEF KeptInv, Hands, Settled, Stack, Of
    <3>4. QED
      BY <3>2, <3>3 DEF Hands
  <2>5. FramesAreKept'
    BY <2>1, <2>2 DEF KeptInv, FramesAreKept, Kept, Carried
  <2>6. QED
    BY <2>3, <2>4, <2>5 DEF KeptInv
<1>2. CASE Next
  <2>1. Carries
    BY <1>2, StepCarries DEF KeptInv
  <2>2. /\ graded \subseteq graded' /\ UNCHANGED stacked
        /\ \A f \in uploaded' : f \in uploaded \/ HeldBy(f)'
    BY <1>2, UploadsGrow, SettingStays DEF KeptInv, setting
  <2>3. \A f \in Frames : Carried(f) <=> ListedIn(f) \/ HeldBy(f)
    BY CarriedBy
  <2>4. \A f \in Frames : Carried(f)' <=> ListedIn(f)' \/ HeldBy(f)'
    BY CarriedByNext
  <2>5. ASSUME NEW f \in Frames, TaskOf[f] \notin stacked', f \in uploaded'
        PROVE  f \in graded' \/ f \in dropped' \/ Carried(f)'
    <3>1. CASE f \in uploaded
      <4>1. f \in graded \/ f \in dropped \/ Carried(f)
        BY <2>2, <2>5, <3>1 DEF KeptInv, FramesAreKept, Kept
      <4>2. QED
        BY <2>1, <2>2, <2>3, <2>4, <2>5, <3>1, <4>1 DEF Carries, Keeps
    <3>2. CASE f \notin uploaded
      BY <2>2, <2>4, <2>5, <3>2
    <3>3. QED
      BY <3>1, <3>2
  <2>6. FramesAreKept'
    BY <2>5 DEF FramesAreKept, Kept
  <2>7. QED
    BY <2>1, <2>6 DEF Carries, KeptInv
<1>3. QED
  BY <1>1, <1>2

(* A frame that is its own product is never forgotten: from the end of its *)
(* upload it is graded, or lost by a failure that the code knows of, or in *)
(* the table, in memory, handed out or in somebody's hands, whatever       *)
(* statements, answers and workers fail, and for any number of them.       *)
THEOREM FramesKept == Spec => []FramesAreKept
<1>1. Init => KeptInv
  <2> SUFFICES ASSUME Init PROVE KeptInv
    OBVIOUS
  <2>1. ListsSound
    BY EmptyMembers DEF Init, ListsSound, Listed
  <2>2. Hands
    BY DEF Init, Hands, HandsSound, Settled, Free, NoJob, NoCall
  <2>3. FramesAreKept
    BY DEF Init, FramesAreKept, Kept
  <2>4. QED
    BY <2>1, <2>2, <2>3 DEF KeptInv
<1>2. TypeOK /\ TypeOK' /\ Once /\ KeptInv /\ [Next]_vars => KeptInv'
  BY KeptStep
<1>3. KeptInv => FramesAreKept
  BY DEF KeptInv
<1>4. Init => Once /\ CreditedOnce
  BY DEF Init, NoCall, Once, CreditedOnce, In, Posted
<1>5. TypeOK /\ Once /\ CreditedOnce /\ [Next]_vars => (Once /\ CreditedOnce)'
  BY OnceStep
<1>6. QED
  BY <1>1, <1>2, <1>3, <1>4, <1>5, FramesTypes, PTL DEF Spec

=============================================================================
