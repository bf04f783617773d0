---------------------------- MODULE StreamProofs ----------------------------
(***************************************************************************)
(* Proofs about what is passed on as a stream: the lines of SyncLog (with  *)
(* the FairMutex under it) and AsyncLog, the bytes of TcpBuffer and Codec, *)
(* and the messages of Http.  A stream is the concatenation of its parts:  *)
(* the first lemmas say, by induction over its length, what FlattenSeq of  *)
(* a sequence is and where in it each part begins.  The theorems hold for  *)
(* any finite set of threads, any number of lines, any frames and any      *)
(* requests, and any way in which the stream is cut.                       *)
(***************************************************************************)
EXTENDS SyncLog, AsyncLog, Codec, Http, WellFoundedInduction, SequenceTheorems,
        FiniteSetTheorems, FunctionTheorems, TLAPS

-----------------------------------------------------------------------------
(* Induction over the numbers with sets in the place of predicates.         *)

(* A nonempty set of naturals has a least element, and what passes from n   *)
(* to n + 1 holds of every natural: sets instead of predicates, so that the *)
(* provers can use it.                                                      *)
LEMMA LeastElement ==
    ASSUME NEW T \in SUBSET Nat, T # {}
    PROVE  \E x \in T : \A y \in T : x <= y
<1> DEFINE R == OpToRel(<, Nat)
<1>1. IsWellFoundedOn(R, Nat)
  BY NatLessThanWellFounded
<1>2. \A x, y \in Nat : y < x => <<y, x>> \in R
  BY DEF OpToRel
<1> HIDE DEF R
<1>3. PICK x \in T : \A y \in T : ~ (<<y, x>> \in R)
  BY <1>1, WFMin
<1>4. \A y \in T : ~ (y < x)
  BY <1>2, <1>3, Zenon
<1> QED
  BY <1>3, <1>4

LEMMA SetInduction ==
    ASSUME NEW T \in SUBSET Nat, 0 \in T, \A n \in T : n + 1 \in T
    PROVE  T = Nat
<1> SUFFICES ASSUME Nat \ T # {} PROVE FALSE
  OBVIOUS
<1>1. PICK x \in Nat \ T : \A y \in Nat \ T : x <= y
  BY LeastElement
<1>2. x # 0 /\ x - 1 \in Nat /\ ~(x <= x - 1) /\ (x - 1) + 1 = x
  BY <1>1
<1>3. x - 1 \in T
  BY <1>1, <1>2
<1> QED
  BY <1>1, <1>2, <1>3

-----------------------------------------------------------------------------
(* FlattenSeq.  Joins(s, n, f): f[i] is the concatenation of the first i    *)
(* elements of s, for the i up to n.                                        *)
Joins(s, n, f) == f = [i \in 1..n |-> IF i = 1 THEN s[i] ELSE f[i-1] \o s[i]]

(* FlattenSeq's fold has a value on every sequence, only one, and it is     *)
(* FlattenSeq.                                                              *)
LEMMA JoinsExist ==
    ASSUME NEW s, NEW n \in Nat
    PROVE  \E f : Joins(s, n, f)
<1> DEFINE T == {m \in Nat : \E f : Joins(s, m, f)}
<1>1. 0 \in T
  <2>1. Joins(s, 0, [i \in 1..0 |-> s[i]])
    BY DEF Joins
  <2> QED
    BY <2>1
<1>2. ASSUME NEW m \in T PROVE m + 1 \in T
  <2>1. PICK f : Joins(s, m, f)
    OBVIOUS
  <2> DEFINE g == [i \in 1..(m + 1) |-> IF i = 1 THEN s[i] ELSE f[i-1] \o s[i]]
  <2>2. \A i \in 1..m : g[i] = f[i]
    <3>1. \A i \in 1..m : f[i] = IF i = 1 THEN s[i] ELSE f[i-1] \o s[i]
      BY <2>1 DEF Joins
    <3>2. \A i \in 1..m : i \in 1..(m + 1)
      OBVIOUS
    <3> QED
      BY <3>1, <3>2, Zenon
  <2>3. \A i \in 1..(m + 1) : i # 1 => i - 1 \in 1..m
    OBVIOUS
  <2>4. Joins(s, m + 1, g)
    BY <2>2, <2>3 DEF Joins
  <2> QED
    BY <2>4
<1>3. T = Nat
  <2> HIDE DEF T
  <2>1. T \in SUBSET Nat
    BY DEF T
  <2> QED
    BY <1>1, <1>2, <2>1, SetInduction
<1> QED
  BY <1>3

LEMMA JoinsAgree ==
    ASSUME NEW s, NEW t, NEW n \in Nat, NEW m \in Nat, NEW f, NEW g,
           n <= m, Joins(s, n, f), Joins(t, m, g), \A i \in 1..n : s[i] = t[i]
    PROVE  \A i \in 1..n : f[i] = g[i]
<1> DEFINE T == {k \in Nat : k \in 1..n => f[k] = g[k]}
<1>1. 0 \in T
  OBVIOUS
<1>2. ASSUME NEW k \in T PROVE k + 1 \in T
  <2> SUFFICES ASSUME k + 1 \in 1..n PROVE f[k + 1] = g[k + 1]
    OBVIOUS
  <2>1. k + 1 \in 1..m /\ s[k + 1] = t[k + 1] /\ (k + 1) - 1 = k /\ k \in Nat
    OBVIOUS
  <2>2. f[k + 1] = IF k + 1 = 1 THEN s[k + 1] ELSE f[k] \o s[k + 1]
    BY <2>1 DEF Joins
  <2>3. g[k + 1] = IF k + 1 = 1 THEN t[k + 1] ELSE g[k] \o t[k + 1]
    BY <2>1 DEF Joins
  <2>4. k + 1 # 1 => f[k] = g[k]
    BY <2>1
  <2> QED
    BY <2>1, <2>2, <2>3, <2>4
<1>3. T = Nat
  <2> HIDE DEF T
  <2>1. T \in SUBSET Nat
    BY DEF T
  <2> QED
    BY <1>1, <1>2, <2>1, SetInduction
<1> QED
  BY <1>3

LEMMA FlattenJoins ==
    ASSUME NEW s, Len(s) \in Nat \ {0}, NEW f, Joins(s, Len(s), f)
    PROVE  FlattenSeq(s) = f[Len(s)]
<1> DEFINE g == CHOOSE h : Joins(s, Len(s), h)
<1>1. FlattenSeq(s) = g[Len(s)]
  BY Zenon DEF FlattenSeq, Joins
<1>2. Joins(s, Len(s), g)
  OBVIOUS
<1> HIDE DEF g
<1> QED
  BY <1>1, <1>2, JoinsAgree

LEMMA Assoc ==
    ASSUME NEW S, NEW a \in Seq(S), NEW b \in Seq(S), NEW c \in Seq(S)
    PROVE  (a \o b) \o c = a \o (b \o c)
  OBVIOUS

(* The value on short sequences.                                            *)
LEMMA FlattenNone == FlattenSeq(<<>>) = <<>>
  BY DEF FlattenSeq

LEMMA FlattenOne ==
    ASSUME NEW x
    PROVE  FlattenSeq(<<x>>) = x
<1>1. Len(<<x>>) = 1
  OBVIOUS
<1>2. Joins(<<x>>, 1, <<x>>)
  BY DEF Joins
<1> QED
  BY <1>1, <1>2, FlattenJoins

(* One more element. *)
LEMMA FlattenAppend ==
    ASSUME NEW S, NEW s \in Seq(Seq(S)), NEW x \in Seq(S)
    PROVE  FlattenSeq(Append(s, x)) = FlattenSeq(s) \o x
<1>1. CASE s = <<>>
  <2>1. Append(s, x) = <<x>>
    BY <1>1
  <2> QED
    BY <1>1, <2>1, FlattenNone, FlattenOne
<1>2. CASE s # <<>>
  <2> DEFINE t == Append(s, x)
             n == Len(s)
  <2>1. n \in Nat \ {0} /\ Len(t) = n + 1 /\ t[n + 1] = x /\ \A i \in 1..n : t[i] = s[i]
    BY <1>2
  <2> HIDE DEF t, n
  <2>2. PICK f : Joins(s, n, f)
    BY <2>1, JoinsExist
  <2>3. PICK g : Joins(t, n + 1, g)
    <3>1. n + 1 \in Nat
      BY <2>1
    <3> QED
      BY <3>1, JoinsExist
  <2>4. f[n] = g[n]
    <3>1. n \in Nat /\ n + 1 \in Nat /\ n <= n + 1 /\ n \in 1..n /\ \A i \in 1..n : s[i] = t[i]
      BY <2>1
    <3> QED
      BY <2>2, <2>3, <3>1, JoinsAgree
  <2>5. g[n + 1] = g[n] \o x
    <3>1. n + 1 \in 1..(n + 1) /\ n + 1 # 1 /\ (n + 1) - 1 = n
      BY <2>1
    <3>2. g[n + 1] = g[(n + 1) - 1] \o t[n + 1]
      BY <2>3, <3>1 DEF Joins
    <3> QED
      BY <2>1, <3>1, <3>2
  <2>6. FlattenSeq(s) = f[n]
    BY <2>1, <2>2, FlattenJoins DEF n
  <2>7. FlattenSeq(t) = g[n + 1]
    BY <2>1, <2>3, FlattenJoins
  <2> QED
    BY <2>4, <2>5, <2>6, <2>7 DEF t
<1> QED
  BY <1>1, <1>2

LEMMA FrontAndLast ==
    ASSUME NEW S, NEW s \in Seq(S), NEW n \in Nat, Len(s) = n + 1
    PROVE  \E r \in Seq(S), x \in S : s = Append(r, x) /\ Len(r) = n
<1> DEFINE r == SubSeq(s, 1, n)
<1>1. r \in Seq(S) /\ Len(r) = n /\ s[n + 1] \in S
  OBVIOUS
<1>2. s = Append(r, s[n + 1])
  OBVIOUS
<1> QED
  BY <1>1, <1>2

(* By induction over the length: FlattenSeq of sequences over S is one over *)
(* S.                                                                       *)
LEMMA FlattenType ==
    ASSUME NEW S, NEW s \in Seq(Seq(S))
    PROVE  FlattenSeq(s) \in Seq(S)
<1> DEFINE T == {n \in Nat : \A u \in Seq(Seq(S)) : Len(u) = n => FlattenSeq(u) \in Seq(S)}
<1>1. 0 \in T
  BY FlattenNone
<1>2. ASSUME NEW n \in T PROVE n + 1 \in T
  <2> SUFFICES ASSUME NEW u \in Seq(Seq(S)), Len(u) = n + 1
               PROVE  FlattenSeq(u) \in Seq(S)
    OBVIOUS
  <2>1. PICK r \in Seq(Seq(S)), x \in Seq(S) : u = Append(r, x) /\ Len(r) = n
    BY FrontAndLast
  <2>2. FlattenSeq(r) \in Seq(S)
    BY <2>1
  <2>3. FlattenSeq(u) = FlattenSeq(r) \o x
    BY <2>1, FlattenAppend
  <2> QED
    BY <2>2, <2>3
<1>3. T = Nat
  <2> HIDE DEF T
  <2>1. T \in SUBSET Nat
    BY DEF T
  <2> QED
    BY <1>1, <1>2, <2>1, SetInduction
<1> QED
  BY <1>3

Cat(a, b) == a \o b

LEMMA CatAssoc ==
    ASSUME NEW S, NEW a \in Seq(S), NEW b \in Seq(S), NEW c \in Seq(S)
    PROVE  Cat(Cat(a, b), c) = Cat(a, Cat(b, c))
  BY Assoc DEF Cat

LEMMA FlattenConcat ==
    ASSUME NEW S, NEW s \in Seq(Seq(S)), NEW t \in Seq(Seq(S))
    PROVE  FlattenSeq(s \o t) = FlattenSeq(s) \o FlattenSeq(t)
<1> DEFINE T == {n \in Nat : \A u \in Seq(Seq(S)) :
                     Len(u) = n => FlattenSeq(s \o u) = FlattenSeq(s) \o FlattenSeq(u)}
<1>0. FlattenSeq(s) \in Seq(S)
  BY FlattenType
<1>1. 0 \in T
  <2> SUFFICES ASSUME NEW u \in Seq(Seq(S)), Len(u) = 0
               PROVE  FlattenSeq(s \o u) = FlattenSeq(s) \o FlattenSeq(u)
    OBVIOUS
  <2>1. u = <<>> /\ s \o u = s
    OBVIOUS
  <2>2. FlattenSeq(s) \o <<>> = FlattenSeq(s)
    BY <1>0
  <2> QED
    BY <2>1, <2>2, FlattenNone
<1>2. ASSUME NEW n \in T PROVE n + 1 \in T
  <2> SUFFICES ASSUME NEW u \in Seq(Seq(S)), Len(u) = n + 1
               PROVE  FlattenSeq(s \o u) = FlattenSeq(s) \o FlattenSeq(u)
    OBVIOUS
  <2>1. PICK r \in Seq(Seq(S)), x \in Seq(S) : u = Append(r, x) /\ Len(r) = n
    BY FrontAndLast
  <2>2. FlattenSeq(s \o r) = FlattenSeq(s) \o FlattenSeq(r)
    BY <2>1
  <2>3. s \o r \in Seq(Seq(S)) /\ s \o u = Append(s \o r, x)
    BY <2>1
  <2>4. FlattenSeq(s \o u) = FlattenSeq(s \o r) \o x
    BY <2>3, FlattenAppend
  <2>5. FlattenSeq(u) = FlattenSeq(r) \o x
    BY <2>1, FlattenAppend
  <2>6. FlattenSeq(r) \in Seq(S)
    BY FlattenType
  <2> QED
    <3>1. FlattenSeq(s \o r) = Cat(FlattenSeq(s), FlattenSeq(r))
      BY <2>2 DEF Cat
    <3>2. FlattenSeq(s \o u) = Cat(FlattenSeq(s \o r), x)
      BY <2>4 DEF Cat
    <3>3. FlattenSeq(u) = Cat(FlattenSeq(r), x)
      BY <2>5 DEF Cat
    <3>4. FlattenSeq(s \o u) = Cat(FlattenSeq(s), FlattenSeq(u))
      <4>1. Cat(Cat(FlattenSeq(s), FlattenSeq(r)), x) = Cat(FlattenSeq(s), Cat(FlattenSeq(r), x))
        BY <1>0, <2>6, CatAssoc
      <4> QED
        BY <3>1, <3>2, <3>3, <4>1
    <3> QED
      BY <3>4 DEF Cat
<1>3. T = Nat
  <2> HIDE DEF T
  <2>1. T \in SUBSET Nat
    BY DEF T
  <2> QED
    BY <1>1, <1>2, <2>1, SetInduction
<1>4. Len(t) \in T
  BY <1>3
<1> QED
  BY <1>4

(* Empty parts add nothing.                                                 *)
LEMMA FlattenBlank ==
    ASSUME NEW S, NEW s \in Seq(Seq(S)), \A i \in 1..Len(s) : s[i] = <<>>
    PROVE  FlattenSeq(s) = <<>>
<1> DEFINE T == {n \in Nat : \A u \in Seq(Seq(S)) :
                   Len(u) = n /\ (\A i \in 1..n : u[i] = <<>>) => FlattenSeq(u) = <<>>}
<1>1. 0 \in T
  BY FlattenNone
<1>2. ASSUME NEW n \in T PROVE n + 1 \in T
  <2> SUFFICES ASSUME NEW u \in Seq(Seq(S)), Len(u) = n + 1,
                      \A i \in 1..(n + 1) : u[i] = <<>>
               PROVE  FlattenSeq(u) = <<>>
    OBVIOUS
  <2>1. PICK r \in Seq(Seq(S)), x \in Seq(S) : u = Append(r, x) /\ Len(r) = n
    BY FrontAndLast
  <2>2. (\A i \in 1..n : r[i] = <<>>) /\ x = <<>>
    BY <2>1
  <2>3. FlattenSeq(r) = <<>>
    BY <2>1, <2>2
  <2>4. FlattenSeq(u) = FlattenSeq(r) \o x
    BY <2>1, FlattenAppend
  <2> QED
    BY <2>2, <2>3, <2>4
<1>3. T = Nat
  <2> HIDE DEF T
  <2>1. T \in SUBSET Nat
    BY DEF T
  <2> QED
    BY <1>1, <1>2, <2>1, SetInduction
<1> QED
  BY <1>3

-----------------------------------------------------------------------------
(* Sequences.                                                               *)

LEMMA SeqGrows ==
    ASSUME NEW A, NEW B, A \subseteq B, NEW s \in Seq(A)
    PROVE  s \in Seq(B)
  OBVIOUS

LEMMA AppendFacts ==
    ASSUME NEW S, NEW s \in Seq(S), NEW x \in S
    PROVE  /\ Append(s, x) \in Seq(S) /\ Len(Append(s, x)) = Len(s) + 1
           /\ DOMAIN Append(s, x) = 1..(Len(s) + 1)
           /\ Append(s, x)[Len(s) + 1] = x /\ \A i \in 1..Len(s) : Append(s, x)[i] = s[i]
  OBVIOUS

LEMMA ConcatElements ==
    ASSUME NEW S, NEW s \in Seq(S), NEW t \in Seq(S)
    PROVE  /\ s \o t \in Seq(S) /\ Len(s \o t) = Len(s) + Len(t)
           /\ \A i \in 1..Len(s) : (s \o t)[i] = s[i]
           /\ \A i \in 1..Len(t) : (s \o t)[Len(s) + i] = t[i]
  OBVIOUS

LEMMA FunctionIsSeq ==
    ASSUME NEW S, NEW n \in Nat, NEW f \in [1..n -> S]
    PROVE  f \in Seq(S) /\ Len(f) = n
  OBVIOUS

-----------------------------------------------------------------------------
(* Messages one after another on a stream: P[k] are the bytes of the k-th,  *)
(* Place(P, k) is where those of the first k end.                           *)
Upto(P, k)  == FlattenSeq([f \in 1..k |-> P[f]])
Place(P, k) == Len(Upto(P, k))

LEMMA SeqIsFunction ==
    ASSUME NEW S, NEW s \in Seq(S)
    PROVE  s = [i \in 1..Len(s) |-> s[i]]
  OBVIOUS

LEMMA SeqElements ==
    ASSUME NEW S, NEW s \in Seq(S)
    PROVE  Len(s) \in Nat /\ \A i \in 1..Len(s) : s[i] \in S
  OBVIOUS

LEMMA InitialPart ==
    ASSUME NEW S, NEW P \in Seq(S), NEW k \in 0..Len(P)
    PROVE  [f \in 1..k |-> P[f]] \in Seq(S) /\ Len([f \in 1..k |-> P[f]]) = k
<1>1. k \in Nat /\ Len(P) \in Nat
  OBVIOUS
<1>2. \A f \in 1..k : f \in 1..Len(P)
  BY <1>1
<1>3. [f \in 1..k |-> P[f]] \in [1..k -> S]
  BY <1>2
<1> QED
  BY <1>1, <1>3, FunctionIsSeq

(* The bytes of the first k parts, of one part more, and of all parts.      *)
LEMMA UptoType ==
    ASSUME NEW S, NEW P \in Seq(Seq(S)), NEW k \in 0..Len(P)
    PROVE  Upto(P, k) \in Seq(S) /\ Place(P, k) \in Nat
<1>1. [f \in 1..k |-> P[f]] \in Seq(Seq(S))
  BY InitialPart
<1>2. Upto(P, k) \in Seq(S)
  BY <1>1, FlattenType DEF Upto
<1> QED
  BY <1>2 DEF Place

LEMMA UptoNext ==
    ASSUME NEW S, NEW P \in Seq(Seq(S)), NEW k \in 0..Len(P), k < Len(P)
    PROVE  /\ k + 1 \in 1..Len(P) /\ P[k + 1] \in Seq(S)
           /\ Upto(P, k + 1) = Upto(P, k) \o P[k + 1]
<1>0. k \in Nat /\ Len(P) \in Nat /\ k + 1 \in 1..Len(P) /\ k + 1 \in 0..Len(P)
  OBVIOUS
<1> DEFINE a == [f \in 1..k |-> P[f]]
           b == [f \in 1..(k + 1) |-> P[f]]
           e == P[k + 1]
<1>1. e \in Seq(S)
  BY <1>0, SeqElements
<1>2. a \in Seq(Seq(S)) /\ Len(a) = k
  BY InitialPart
<1>4. b = Append(a, e)
  <2>1. \A i \in 1..k : a[i] = P[i]
    OBVIOUS
  <2>2. \A i \in 1..(k + 1) : b[i] = P[i]
    OBVIOUS
  <2>3. DOMAIN b = 1..(k + 1) /\ b = [i \in 1..(k + 1) |-> b[i]]
    OBVIOUS
  <2>4. \A i \in 1..(k + 1) : i \in 1..k \/ i = k + 1
    BY <1>0
  <2>5. b[k + 1] = e
    BY <1>0, <2>2
  <2> HIDE DEF a, b, e
  <2>6. /\ Append(a, e) \in Seq(Seq(S)) /\ Len(Append(a, e)) = k + 1 /\ Append(a, e)[k + 1] = e
        /\ \A i \in 1..k : Append(a, e)[i] = a[i]
    BY <1>1, <1>2, AppendFacts
  <2> DEFINE c == Append(a, e)
  <2>7. c \in Seq(Seq(S)) /\ Len(c) = k + 1
    BY <2>6
  <2>8. \A i \in 1..(k + 1) : c[i] = b[i]
    BY <2>1, <2>2, <2>4, <2>5, <2>6
  <2> HIDE DEF c
  <2>9. c = [i \in 1..(k + 1) |-> c[i]]
    BY <2>7, SeqIsFunction
  <2>10. [i \in 1..(k + 1) |-> c[i]] = [i \in 1..(k + 1) |-> b[i]]
    BY <2>8
  <2> QED
    BY <2>3, <2>9, <2>10 DEF c
<1>5. FlattenSeq(Append(a, e)) = FlattenSeq(a) \o e
  <2> HIDE DEF a, b, e
  <2> QED
    BY <1>1, <1>2, FlattenAppend
<1> QED
  BY <1>0, <1>1, <1>4, <1>5 DEF Upto

LEMMA UptoEnd ==
    ASSUME NEW S, NEW P \in Seq(Seq(S)), NEW k \in 0..Len(P), k < Len(P)
    PROVE  /\ Place(P, k + 1) = Place(P, k) + Len(P[k + 1])
           /\ \A j \in 1..Place(P, k) : Upto(P, k + 1)[j] = Upto(P, k)[j]
           /\ \A i \in 1..Len(P[k + 1]) : Upto(P, k + 1)[Place(P, k) + i] = P[k + 1][i]
<1> DEFINE p == Upto(P, k)
           e == P[k + 1]
<1>1. p \in Seq(S) /\ e \in Seq(S) /\ Upto(P, k + 1) = p \o e
  BY UptoType, UptoNext
<1> HIDE DEF p, e
<1>2. /\ Len(p \o e) = Len(p) + Len(e) /\ (\A j \in 1..Len(p) : (p \o e)[j] = p[j])
      /\ \A i \in 1..Len(e) : (p \o e)[Len(p) + i] = e[i]
  <2>1. p \in Seq(S) /\ e \in Seq(S)
    BY <1>1
  <2> QED
    BY <2>1, ConcatElements
<1> QED
  BY <1>1, <1>2 DEF p, e, Place

LEMMA UptoGrows ==
    ASSUME NEW S, NEW P \in Seq(Seq(S)), NEW k \in 0..Len(P), NEW m \in k..Len(P)
    PROVE  Place(P, k) <= Place(P, m) /\ \A j \in 1..Place(P, k) : Upto(P, m)[j] = Upto(P, k)[j]
<1> DEFINE N == Len(P)
           Holds(n) == /\ Place(P, k) <= Place(P, n)
                       /\ \A j \in 1..Place(P, k) : Upto(P, n)[j] = Upto(P, k)[j]
           T == {n \in Nat : n \in k..N => Holds(n)}
<1>0. k \in Nat /\ N \in Nat /\ Place(P, k) \in Nat
  BY UptoType
<1>00. \A n \in 0..N : Place(P, n) \in Nat
  BY UptoType
<1>01. \A n \in 0..N : n < N => /\ Len(P[n + 1]) \in Nat
                                /\ Place(P, n + 1) = Place(P, n) + Len(P[n + 1])
                                /\ \A j \in 1..Place(P, n) : Upto(P, n + 1)[j] = Upto(P, n)[j]
  <2> TAKE n \in 0..N
  <2> HAVE n < N
  <2>1. P[n + 1] \in Seq(S)
    BY UptoNext
  <2>2. Len(P[n + 1]) \in Nat
    BY <2>1, SeqElements
  <2> QED
    BY <2>2, UptoEnd
<1>02. m \in Nat /\ m \in k..N /\ k \in 0..N
  BY <1>0
<1> HIDE DEF N
<1>1. 0 \in T
  <2> SUFFICES ASSUME 0 \in k..N PROVE Holds(0)
    OBVIOUS
  <2>1. k = 0
    BY <1>0
  <2> QED
    BY <1>0, <2>1
<1>2. ASSUME NEW n \in T PROVE n + 1 \in T
  <2>0. n \in Nat /\ n + 1 \in Nat
    OBVIOUS
  <2> SUFFICES ASSUME n + 1 \in k..N PROVE Holds(n + 1)
    BY <2>0
  <2>1. CASE n + 1 = k
    BY <1>0, <2>1
  <2>2. CASE n + 1 # k
    <3>1. n \in k..N /\ n \in 0..N /\ n < N
      BY <1>0, <2>0, <2>2
    <3>2. Holds(n)
      BY <3>1
    <3>3. /\ Len(P[n + 1]) \in Nat /\ Place(P, n + 1) = Place(P, n) + Len(P[n + 1])
          /\ \A j \in 1..Place(P, n) : Upto(P, n + 1)[j] = Upto(P, n)[j]
      BY <1>01, <3>1
    <3>4. Place(P, n) \in Nat
      BY <1>00, <3>1
    <3> QED
      BY <1>0, <3>2, <3>3, <3>4
  <2> QED
    BY <2>1, <2>2
<1>3. T = Nat
  <2> HIDE DEF T
  <2>1. T \in SUBSET Nat
    BY DEF T
  <2> QED
    BY <1>1, <1>2, <2>1, SetInduction
<1> QED
  BY <1>02, <1>3

(* The stream: message k + 1 begins behind the first k and has its bytes.   *)
LEMMA PlaceFacts ==
    ASSUME NEW S, NEW P \in Seq(Seq(S))
    PROVE  /\ FlattenSeq(P) \in Seq(S) /\ Place(P, 0) = 0 /\ Place(P, Len(P)) = Len(FlattenSeq(P))
           /\ Len(FlattenSeq(P)) \in Nat /\ Len(P) \in Nat
           /\ \A k \in 0..Len(P) : Place(P, k) \in Nat /\ Place(P, k) <= Len(FlattenSeq(P))
           /\ \A k \in 0..Len(P), m \in 0..Len(P) : k <= m => Place(P, k) <= Place(P, m)
           /\ \A k \in 0..Len(P) : k < Len(P) =>
                /\ k + 1 \in 1..Len(P) /\ P[k + 1] \in Seq(S) /\ Len(P[k + 1]) \in Nat
                /\ Place(P, k + 1) = Place(P, k) + Len(P[k + 1])
                /\ Place(P, k + 1) <= Len(FlattenSeq(P))
                /\ \A i \in 1..Len(P[k + 1]) : FlattenSeq(P)[Place(P, k) + i] = P[k + 1][i]
<1> DEFINE N == Len(P)
           F == FlattenSeq(P)
<1>0. N \in Nat /\ N \in 0..N /\ 0 \in 0..N
  OBVIOUS
<1>1. F = Upto(P, N)
  BY SeqIsFunction DEF Upto
<1>2. F \in Seq(S) /\ Len(F) = Place(P, N) /\ Len(F) \in Nat
  BY <1>0, <1>1, UptoType DEF Place
<1>3. Place(P, 0) = 0
  <2>1. [f \in 1..0 |-> P[f]] = <<>>
    OBVIOUS
  <2> QED
    BY <2>1, FlattenNone DEF Place, Upto
<1>a. \A k \in 0..N : Place(P, k) \in Nat
  BY UptoType
<1>b. \A k \in 0..N : \A m \in k..N : /\ Place(P, k) <= Place(P, m)
                                      /\ \A j \in 1..Place(P, k) : Upto(P, m)[j] = Upto(P, k)[j]
  BY UptoGrows
<1>c. \A k \in 0..N : k < N =>
         /\ k + 1 \in 1..N /\ P[k + 1] \in Seq(S)
         /\ Place(P, k + 1) = Place(P, k) + Len(P[k + 1])
         /\ \A i \in 1..Len(P[k + 1]) : Upto(P, k + 1)[Place(P, k) + i] = P[k + 1][i]
  BY UptoNext, UptoEnd
<1> HIDE DEF N, F
<1>4. \A k \in 0..N, m \in 0..N : k <= m => Place(P, k) <= Place(P, m)
  <2>1. \A k \in 0..N, m \in 0..N : k <= m => m \in k..N
    BY <1>0
  <2> QED
    BY <1>b, <2>1
<1>5. \A k \in 0..N : Place(P, k) \in Nat /\ Place(P, k) <= Len(F)
  <2>1. \A k \in 0..N : k <= N
    BY <1>0
  <2> QED
    BY <1>0, <1>2, <1>4, <1>a, <2>1
<1>6. ASSUME NEW k \in 0..N, k < N
      PROVE  /\ k + 1 \in 1..N /\ P[k + 1] \in Seq(S) /\ Len(P[k + 1]) \in Nat
             /\ Place(P, k + 1) = Place(P, k) + Len(P[k + 1]) /\ Place(P, k + 1) <= Len(F)
             /\ \A i \in 1..Len(P[k + 1]) : F[Place(P, k) + i] = P[k + 1][i]
  <2> DEFINE e == P[k + 1]
  <2>1. k + 1 \in 0..N /\ N \in (k + 1)..N
    BY <1>0, <1>6
  <2>2. e \in Seq(S)
    BY <1>6, <1>c
  <2>3. Len(e) \in Nat
    BY <2>2, SeqElements
  <2>4. /\ k + 1 \in 1..N /\ Place(P, k + 1) = Place(P, k) + Len(e)
        /\ \A i \in 1..Len(e) : Upto(P, k + 1)[Place(P, k) + i] = e[i]
    BY <1>6, <1>c
  <2> HIDE DEF e
  <2>5. Place(P, k) \in Nat /\ Place(P, k + 1) <= Len(F)
    BY <1>5, <2>1
  <2>6. \A j \in 1..Place(P, k + 1) : F[j] = Upto(P, k + 1)[j]
    BY <1>1, <1>b, <2>1
  <2>7. \A i \in 1..Len(e) : Place(P, k) + i \in 1..Place(P, k + 1)
    BY <2>3, <2>4, <2>5
  <2>8. \A i \in 1..Len(e) : F[Place(P, k) + i] = e[i]
    BY <2>4, <2>6, <2>7
  <2> QED
    BY <2>2, <2>3, <2>4, <2>5, <2>8 DEF e
<1> QED
  BY <1>0, <1>2, <1>3, <1>4, <1>5, <1>6 DEF N, F

-----------------------------------------------------------------------------
(* FairMutex and SyncLog.                                                   *)

(* The places of the queue w that hold x. *)
PlacesOf(w, x) == {i \in DOMAIN w : w[i] = x}

CVs == Threads \cup {Nobody}

-----------------------------------------------------------------------------
(* Counting in a queue. *)

LEMMA PlacesFinite ==
    ASSUME NEW w \in Seq(CVs), NEW x
    PROVE  /\ IsFiniteSet(PlacesOf(w, x))
           /\ Cardinality(PlacesOf(w, x)) \in Nat
           /\ Cardinality(PlacesOf(w, x)) = 0 <=> \A i \in 1..Len(w) : w[i] # x
<1>1. DOMAIN w = 1..Len(w) /\ Len(w) \in Nat
  OBVIOUS
<1>2. IsFiniteSet(1..Len(w))
  BY <1>1, FS_Interval
<1>3. PlacesOf(w, x) \in SUBSET (1..Len(w))
  BY <1>1 DEF PlacesOf
<1>4. IsFiniteSet(PlacesOf(w, x))
  BY <1>2, <1>3, FS_Subset
<1>5. Cardinality(PlacesOf(w, x)) \in Nat
  BY <1>4, FS_CardinalityType
<1>6. Cardinality(PlacesOf(w, x)) = 0 <=> PlacesOf(w, x) = {}
  BY <1>4, FS_EmptySet
<1>7. PlacesOf(w, x) = {} <=> \A i \in 1..Len(w) : w[i] # x
  BY <1>1 DEF PlacesOf
<1> QED
  BY <1>4, <1>5, <1>6, <1>7

LEMMA PlacesAppend ==
    ASSUME NEW w \in Seq(CVs), NEW t \in CVs, NEW x
    PROVE  Cardinality(PlacesOf(Append(w, t), x))
             = Cardinality(PlacesOf(w, x)) + (IF x = t THEN 1 ELSE 0)
<1>1. /\ DOMAIN w = 1..Len(w) /\ Len(w) \in Nat
      /\ DOMAIN Append(w, t) = 1..(Len(w) + 1)
      /\ \A i \in 1..Len(w) : Append(w, t)[i] = w[i]
      /\ Append(w, t)[Len(w) + 1] = t
  OBVIOUS
<1>2. CASE x = t
  <2>1. PlacesOf(Append(w, t), x) = PlacesOf(w, x) \cup {Len(w) + 1}
    BY <1>1, <1>2 DEF PlacesOf
  <2>2. Len(w) + 1 \notin PlacesOf(w, x)
    BY <1>1 DEF PlacesOf
  <2>3. Cardinality(PlacesOf(w, x) \cup {Len(w) + 1}) = Cardinality(PlacesOf(w, x)) + 1
    BY <2>2, PlacesFinite, FS_AddElement
  <2> QED
    BY <1>2, <2>1, <2>3
<1>3. CASE x # t
  <2>1. PlacesOf(Append(w, t), x) = PlacesOf(w, x)
    BY <1>1, <1>3 DEF PlacesOf
  <2> QED
    BY <1>3, <2>1, PlacesFinite
<1> QED
  BY <1>2, <1>3

LEMMA PlacesTail ==
    ASSUME NEW w \in Seq(CVs), w # <<>>, NEW x
    PROVE  Cardinality(PlacesOf(Tail(w), x))
             = Cardinality(PlacesOf(w, x)) - (IF x = Head(w) THEN 1 ELSE 0)
<1> DEFINE S == PlacesOf(w, x)
           T == PlacesOf(Tail(w), x)
           f == [i \in T |-> i + 1]
<1>1. /\ DOMAIN w = 1..Len(w) /\ Len(w) \in Nat \ {0} /\ Head(w) = w[1]
      /\ Tail(w) \in Seq(CVs)
      /\ DOMAIN Tail(w) = 1..(Len(w) - 1)
      /\ \A i \in 1..(Len(w) - 1) : Tail(w)[i] = w[i + 1]
  OBVIOUS
<1>2. \A i \in T : i \in Nat /\ i + 1 \in S \ {1}
  BY <1>1 DEF PlacesOf
<1>3. \A j \in S \ {1} : j - 1 \in T /\ (j - 1) + 1 = j
  BY <1>1 DEF PlacesOf
<1>4. IsFiniteSet(S) /\ IsFiniteSet(T) /\ Cardinality(S) \in Nat
  BY <1>1, PlacesFinite
<1>5. 1 \in S <=> x = Head(w)
  BY <1>1 DEF PlacesOf
<1> HIDE DEF S, T
<1>6. f \in Bijection(T, S \ {1})
  <2>1. f \in [T -> S \ {1}]
    BY <1>2
  <2>2. \A a, b \in T : f[a] = f[b] => a = b
    BY <1>2
  <2>3. \A j \in S \ {1} : \E a \in T : f[a] = j
    BY <1>3
  <2> QED
    BY <2>1, <2>2, <2>3, Fun_IsBij
<1>7. Cardinality(S \ {1}) = Cardinality(T)
  BY <1>4, <1>6, FS_Bijection DEF ExistsBijection
<1>8. Cardinality(S \ {1}) = IF 1 \in S THEN Cardinality(S) - 1 ELSE Cardinality(S)
  BY <1>4, FS_RemoveElement
<1> QED
  BY <1>4, <1>5, <1>7, <1>8 DEF S, T

-----------------------------------------------------------------------------
(* FairMutex.  HandOver is inductive beside the types: what unlock() hands  *)
(* over is one owner, whichever condition variable is the oldest.           *)

MutexInv == MutexTypeOK /\ HandOver

OwnersOf(a) == {t \in Threads : a[t] \in {"in", "woken"}}

(* HandOver over given values, so that it can be stated of a next state. *)
Balanced(l, w, a) ==
    /\ Cardinality(OwnersOf(a)) = Cardinality(PlacesOf(w, Nobody)) + (IF l THEN 1 ELSE 0)
    /\ \A t \in Threads :
          Cardinality(PlacesOf(w, t)) = IF a[t] = "wait" THEN 1 ELSE 0
    /\ w # <<>> => l

LEMMA HandOverIsBalanced == HandOver <=> Balanced(locked_, waiters_, at)
  BY DEF HandOver, Balanced, Owners, Strays, OwnersOf, PlacesOf

LEMMA HandOverIsBalancedNext == HandOver' <=> Balanced(locked_', waiters_', at')
  BY DEF HandOver, Balanced, Owners, Strays, OwnersOf, PlacesOf

LEMMA OwnersFinite ==
    ASSUME NEW a
    PROVE  IsFiniteSet(OwnersOf(a)) /\ Cardinality(OwnersOf(a)) \in Nat
<1>1. OwnersOf(a) \in SUBSET Threads
  BY DEF OwnersOf
<1>2. IsFiniteSet(OwnersOf(a))
  BY <1>1, MutexAssumption, FS_Subset
<1> QED
  BY <1>2, FS_CardinalityType

LEMMA InitBalanced == MutexInit => MutexInv
<1> SUFFICES ASSUME MutexInit PROVE MutexInv
  OBVIOUS
<1>a. locked_ = FALSE /\ waiters_ = <<>> /\ at = [t \in Threads |-> "out"]
  BY DEF MutexInit
<1>1. MutexTypeOK
  <2>1. locked_ \in BOOLEAN
    BY <1>a
  <2>2. waiters_ \in Seq(Threads \cup {Nobody})
    BY <1>a
  <2>3. at \in [Threads -> {"out", "wait", "woken", "in"}]
    BY <1>a
  <2> QED
    BY <2>1, <2>2, <2>3 DEF MutexTypeOK
<1>2. OwnersOf(at) = {}
  BY DEF MutexInit, OwnersOf
<1>3. ASSUME NEW x PROVE PlacesOf(waiters_, x) = {}
  BY DEF MutexInit, PlacesOf
<1>4. Cardinality({}) = 0
  BY FS_EmptySet
<1>5. Balanced(locked_, waiters_, at)
  <2>1. Cardinality(OwnersOf(at)) = Cardinality(PlacesOf(waiters_, Nobody))
                                      + (IF locked_ THEN 1 ELSE 0)
    <3>1. Cardinality(OwnersOf(at)) = 0 /\ Cardinality(PlacesOf(waiters_, Nobody)) = 0
      BY <1>2, <1>3, <1>4
    <3>2. (IF locked_ THEN 1 ELSE 0) = 0
      BY <1>a
    <3> QED
      BY <3>1, <3>2
  <2>2. \A t \in Threads :
           Cardinality(PlacesOf(waiters_, t)) = IF at[t] = "wait" THEN 1 ELSE 0
    BY <1>3, <1>4, <1>a
  <2> QED
    BY <2>1, <2>2, <1>a DEF Balanced
<1> QED
  BY <1>1, <1>5, HandOverIsBalanced DEF MutexInv

LEMMA LockBalanced ==
    ASSUME MutexInv, NEW t \in Threads, lock(t)
    PROVE  MutexInv'
<1>0. MutexTypeOK /\ Balanced(locked_, waiters_, at) /\ at[t] = "out"
  BY HandOverIsBalanced DEF MutexInv, lock
<1>a. waiters_ \in Seq(CVs) /\ at \in [Threads -> {"out", "wait", "woken", "in"}]
  BY <1>0 DEF MutexTypeOK, CVs
<1>1. CASE /\ ~locked_
           /\ locked_' = TRUE
           /\ at' = [at EXCEPT ![t] = "in"]
           /\ UNCHANGED waiters_
  <2>1. MutexTypeOK'
    BY <1>0, <1>1 DEF MutexTypeOK
  <2>2. OwnersOf(at') = OwnersOf(at) \cup {t} /\ t \notin OwnersOf(at)
    BY <1>0, <1>a, <1>1 DEF OwnersOf
  <2>3. Cardinality(OwnersOf(at')) = Cardinality(OwnersOf(at)) + 1
    BY <2>2, OwnersFinite, FS_AddElement
  <2>4. \A u \in Threads : at'[u] = "wait" <=> at[u] = "wait"
    BY <1>0, <1>a, <1>1
  <2>5. Cardinality(PlacesOf(waiters_, Nobody)) \in Nat
    BY <1>a, PlacesFinite
  <2>6. Balanced(locked_', waiters_', at')
    BY <1>0, <1>1, <2>3, <2>4, <2>5 DEF Balanced
  <2> QED
    BY <2>1, <2>6, HandOverIsBalancedNext DEF MutexInv
<1>2. CASE /\ locked_
           /\ waiters_' = Append(waiters_, t)
           /\ at' = [at EXCEPT ![t] = "wait"]
           /\ UNCHANGED locked_
  <2>0. Append(waiters_, t) \in Seq(CVs)
    BY <1>a DEF CVs
  <2>1. MutexTypeOK'
    BY <1>0, <1>2, <2>0 DEF MutexTypeOK, CVs
  <2>2. OwnersOf(at') = OwnersOf(at)
    BY <1>0, <1>a, <1>2 DEF OwnersOf
  <2>3. Nobody # t /\ t \in CVs
    BY MutexAssumption DEF CVs
  <2>4. Cardinality(PlacesOf(waiters_', Nobody)) = Cardinality(PlacesOf(waiters_, Nobody))
    BY <1>a, <1>2, <2>3, PlacesAppend, PlacesFinite
  <2>5. ASSUME NEW u \in Threads
        PROVE  Cardinality(PlacesOf(waiters_', u)) = IF at'[u] = "wait" THEN 1 ELSE 0
    <3>1. Cardinality(PlacesOf(waiters_, u)) = IF at[u] = "wait" THEN 1 ELSE 0
      BY <1>0 DEF Balanced
    <3>2. CASE u = t
      <4>1. Cardinality(PlacesOf(waiters_, t)) = 0
        BY <1>0, <3>1, <3>2
      <4>2. Cardinality(PlacesOf(Append(waiters_, t), t)) = Cardinality(PlacesOf(waiters_, t)) + 1
        BY <1>a, <2>3, PlacesAppend
      <4> QED
        BY <1>a, <1>2, <3>2, <4>1, <4>2
    <3>3. CASE u # t
      <4>1. Cardinality(PlacesOf(Append(waiters_, t), u)) = Cardinality(PlacesOf(waiters_, u))
        BY <1>a, <2>3, <3>3, PlacesAppend, PlacesFinite
      <4>2. at'[u] = at[u]
        BY <1>a, <1>2, <3>3
      <4> QED
        BY <1>2, <3>1, <4>1, <4>2
    <3> QED
      BY <3>2, <3>3
  <2>6. Balanced(locked_', waiters_', at')
    BY <1>0, <1>2, <2>2, <2>4, <2>5 DEF Balanced
  <2> QED
    BY <2>1, <2>6, HandOverIsBalancedNext DEF MutexInv
<1> QED
  BY <1>1, <1>2 DEF lock

LEMMA WaitEndsBalanced ==
    ASSUME MutexInv, NEW t \in Threads, WaitEnds(t)
    PROVE  MutexInv'
<1>0. MutexTypeOK /\ Balanced(locked_, waiters_, at)
  BY HandOverIsBalanced DEF MutexInv
<1>1. MutexTypeOK'
  BY <1>0 DEF MutexTypeOK, WaitEnds
<1>2. OwnersOf(at') = OwnersOf(at)
  BY <1>0 DEF MutexTypeOK, WaitEnds, OwnersOf
<1>3. \A u \in Threads : at'[u] = "wait" <=> at[u] = "wait"
  BY <1>0 DEF MutexTypeOK, WaitEnds
<1>4. locked_' = locked_ /\ waiters_' = waiters_
  BY DEF WaitEnds
<1>5. Balanced(locked_', waiters_', at')
  BY <1>0, <1>2, <1>3, <1>4 DEF Balanced
<1> QED
  BY <1>1, <1>5, HandOverIsBalancedNext DEF MutexInv

LEMMA SpuriousBalanced ==
    ASSUME MutexInv, NEW t \in Threads, WaitEndsSpuriously(t)
    PROVE  MutexInv'
<1>0. MutexTypeOK /\ Balanced(locked_, waiters_, at)
  BY HandOverIsBalanced DEF MutexInv
<1>a. /\ waiters_ \in Seq(CVs) /\ at \in [Threads -> {"out", "wait", "woken", "in"}]
      /\ Nobody # t /\ Nobody \notin Threads
  BY <1>0, MutexAssumption DEF MutexTypeOK, CVs
<1>b. /\ DOMAIN waiters_ = 1..Len(waiters_) /\ Len(waiters_) \in Nat
      /\ \A i \in 1..Len(waiters_) : waiters_[i] \in CVs
  BY <1>a
<1>c. /\ at[t] = "wait" /\ at' = [at EXCEPT ![t] = "in"] /\ locked_' = locked_
      /\ waiters_' = [i \in 1..Len(waiters_) |->
                         IF waiters_[i] = t THEN Nobody ELSE waiters_[i]]
  BY <1>b DEF WaitEndsSpuriously
<1>d. \A i \in 1..Len(waiters_) : (IF waiters_[i] = t THEN Nobody ELSE waiters_[i]) \in CVs
  BY <1>b DEF CVs
<1>e. waiters_' \in [1..Len(waiters_) -> CVs]
  BY <1>c, <1>d
<1>1. waiters_' \in Seq(CVs) /\ Len(waiters_') = Len(waiters_)
  BY <1>b, <1>e
<1>2. MutexTypeOK'
  BY <1>0, <1>1, <1>c DEF MutexTypeOK, CVs
<1>3. PICK i0 : PlacesOf(waiters_, t) = {i0}
  <2>1. Cardinality(PlacesOf(waiters_, t)) = 1
    BY <1>0, <1>c DEF Balanced
  <2>2. IsFiniteSet(PlacesOf(waiters_, t))
    BY <1>a, PlacesFinite
  <2> QED
    BY <2>1, <2>2, FS_Singleton
<1>4. i0 \in 1..Len(waiters_) /\ waiters_[i0] = t
  BY <1>3, <1>b DEF PlacesOf
<1>5. DOMAIN waiters_' = 1..Len(waiters_)
  BY <1>c
<1>6. PlacesOf(waiters_', Nobody) = PlacesOf(waiters_, Nobody) \cup {i0}
  <2>1. ASSUME NEW i \in 1..Len(waiters_)
        PROVE  waiters_'[i] = Nobody <=> (waiters_[i] = Nobody \/ i = i0)
    <3>1. waiters_'[i] = IF waiters_[i] = t THEN Nobody ELSE waiters_[i]
      BY <1>c
    <3>2. waiters_[i] = t <=> i = i0
      BY <1>3, <1>b DEF PlacesOf
    <3> QED
      BY <3>1, <3>2
  <2> QED
    BY <2>1, <1>4, <1>5, <1>b DEF PlacesOf
<1>7. i0 \notin PlacesOf(waiters_, Nobody)
  BY <1>4, <1>a DEF PlacesOf
<1>8. Cardinality(PlacesOf(waiters_', Nobody)) = Cardinality(PlacesOf(waiters_, Nobody)) + 1
  BY <1>6, <1>7, <1>a, PlacesFinite, FS_AddElement
<1>9. OwnersOf(at') = OwnersOf(at) \cup {t} /\ t \notin OwnersOf(at)
  BY <1>a, <1>c DEF OwnersOf
<1>10. Cardinality(OwnersOf(at')) = Cardinality(OwnersOf(at)) + 1
  BY <1>9, OwnersFinite, FS_AddElement
<1>11. ASSUME NEW u \in Threads
       PROVE  Cardinality(PlacesOf(waiters_', u)) = IF at'[u] = "wait" THEN 1 ELSE 0
  <2>1. CASE u = t
    <3>1. \A i \in 1..Len(waiters_) : waiters_'[i] # t
      BY <1>c, <1>a
    <3>2. Cardinality(PlacesOf(waiters_', t)) = 0
      BY <3>1, <1>1, PlacesFinite
    <3> QED
      BY <2>1, <3>2, <1>a, <1>c
  <2>2. CASE u # t
    <3>1. \A i \in 1..Len(waiters_) : waiters_'[i] = u <=> waiters_[i] = u
      BY <1>c, <1>a, <2>2
    <3>2. PlacesOf(waiters_', u) = PlacesOf(waiters_, u)
      BY <3>1, <1>5, <1>b DEF PlacesOf
    <3>3. at'[u] = at[u]
      BY <1>a, <1>c, <2>2
    <3> QED
      BY <1>0, <3>2, <3>3 DEF Balanced
  <2> QED
    BY <2>1, <2>2
<1>12. waiters_ # <<>>
  BY <1>4, <1>a
<1>13. Balanced(locked_', waiters_', at')
  <2>1. Cardinality(PlacesOf(waiters_, Nobody)) \in Nat
    BY <1>a, PlacesFinite
  <2>2. locked_
    BY <1>0, <1>12 DEF Balanced
  <2> QED
    BY <1>0, <1>8, <1>10, <1>11, <1>c, <2>1, <2>2 DEF Balanced
<1> QED
  BY <1>2, <1>13, HandOverIsBalancedNext DEF MutexInv

(* unlock() hands over to a thread that still waits. *)
LEMMA HeadWaits ==
    ASSUME MutexInv, waiters_ # <<>>, Head(waiters_) \in Threads
    PROVE  at[Head(waiters_)] = "wait"
<1>0. waiters_ \in Seq(CVs) /\ Balanced(locked_, waiters_, at)
  BY HandOverIsBalanced DEF MutexInv, MutexTypeOK, CVs
<1>1. Len(waiters_) \in Nat /\ 1 \in 1..Len(waiters_) /\ waiters_[1] = Head(waiters_)
  BY <1>0
<1>2. Cardinality(PlacesOf(waiters_, Head(waiters_))) # 0
  BY <1>0, <1>1, PlacesFinite
<1> QED
  BY <1>0, <1>2 DEF Balanced

LEMMA UnlockWakes ==
    ASSUME MutexTypeOK, NEW t \in Threads, unlock(t), waiters_ # <<>>
    PROVE  /\ at'[t] = "out"
           /\ \A u \in Threads \ {t} :
                 at'[u] = at[u] \/ (at'[u] = "woken" /\ u = Head(waiters_))
<1>1. PICK h : h = Head(waiters_)
  OBVIOUS
<1>2. at' = [u \in Threads |-> CASE u = t -> "out"
                                [] u # t /\ u = h -> "woken"
                                [] OTHER -> at[u]]
  BY <1>1 DEF unlock
<1>3. at'[t] = "out"
  BY <1>2
<1>4. ASSUME NEW u \in Threads, u # t, u = h PROVE at'[u] = "woken"
  BY <1>2, <1>4
<1>5. ASSUME NEW u \in Threads, u # t, u # h PROVE at'[u] = at[u]
  BY <1>2, <1>5
<1> QED
  BY <1>1, <1>3, <1>4, <1>5

LEMMA UnlockBalanced ==
    ASSUME MutexInv, NEW t \in Threads, unlock(t)
    PROVE  MutexInv'
<1>0. MutexTypeOK /\ Balanced(locked_, waiters_, at)
  BY HandOverIsBalanced DEF MutexInv
<1>a. /\ waiters_ \in Seq(CVs) /\ at \in [Threads -> {"out", "wait", "woken", "in"}]
      /\ Nobody \notin Threads /\ at[t] = "in"
  BY <1>0, MutexAssumption DEF MutexTypeOK, CVs, unlock
<1>b. t \in OwnersOf(at) /\ IsFiniteSet(OwnersOf(at)) /\ Cardinality(OwnersOf(at)) \in Nat
  BY <1>a, OwnersFinite DEF OwnersOf
<1>c. /\ IsFiniteSet(OwnersOf(at) \ {t})
      /\ Cardinality(OwnersOf(at) \ {t}) = Cardinality(OwnersOf(at)) - 1
  BY <1>b, FS_RemoveElement
<1>d. Cardinality(PlacesOf(waiters_, Nobody)) \in Nat
  BY <1>a, PlacesFinite
<1>1. CASE /\ waiters_ = <<>>
           /\ locked_' = FALSE
           /\ at' = [at EXCEPT ![t] = "out"]
           /\ UNCHANGED waiters_
  <2>1. MutexTypeOK'
    BY <1>0, <1>1 DEF MutexTypeOK
  <2>2. OwnersOf(at') = OwnersOf(at) \ {t}
    BY <1>a, <1>1 DEF OwnersOf
  <2>3. Cardinality(PlacesOf(waiters_, Nobody)) = 0
    <3>1. PlacesOf(waiters_, Nobody) = {}
      BY <1>1 DEF PlacesOf
    <3> QED
      BY <3>1, FS_EmptySet
  <2>4. Cardinality(OwnersOf(at)) # 0
    BY <1>b, FS_EmptySet
  <2>5. Cardinality(OwnersOf(at)) = 1
    BY <1>0, <2>3, <2>4 DEF Balanced
  <2>6. Cardinality(OwnersOf(at')) = 0
    BY <1>c, <2>2, <2>5
  <2>7. \A u \in Threads : at'[u] = "wait" <=> at[u] = "wait"
    BY <1>a, <1>1
  <2>8. Balanced(locked_', waiters_', at')
    BY <1>0, <1>1, <2>3, <2>6, <2>7 DEF Balanced
  <2> QED
    BY <2>1, <2>8, HandOverIsBalancedNext DEF MutexInv
<1>2. CASE /\ waiters_ # <<>>
           /\ waiters_' = Tail(waiters_)
           /\ at' = [u \in Threads |-> CASE u = t -> "out"
                                         [] u # t /\ u = Head(waiters_) -> "woken"
                                         [] OTHER -> at[u]]
           /\ UNCHANGED locked_
  <2>a. locked_ /\ locked_'
    BY <1>0, <1>2 DEF Balanced
  <2>b. Tail(waiters_) \in Seq(CVs) /\ Head(waiters_) \in CVs
    BY <1>a, <1>2
  <2>c. /\ at' \in [Threads -> {"out", "wait", "woken", "in"}]
        /\ at'[t] = "out"
        /\ \A u \in Threads \ {t} : at'[u] = IF u = Head(waiters_) THEN "woken" ELSE at[u]
    BY <1>a, <1>2
  <2>d. MutexTypeOK'
    BY <1>0, <1>2, <2>b, <2>c DEF MutexTypeOK, CVs
  <2>e. \A x \in CVs : /\ Cardinality(PlacesOf(waiters_, x)) \in Nat
                        /\ Cardinality(PlacesOf(waiters_', x))
                             = Cardinality(PlacesOf(waiters_, x))
                                 - (IF x = Head(waiters_) THEN 1 ELSE 0)
    BY <1>a, <1>2, PlacesTail, PlacesFinite
  <2>f. \A u \in Threads : u \in CVs
    BY DEF CVs
  <2>1. CASE Head(waiters_) = Nobody
    <3>1. OwnersOf(at') = OwnersOf(at) \ {t}
      BY <1>a, <2>1, <2>c DEF OwnersOf
    <3>2. Cardinality(PlacesOf(waiters_', Nobody)) = Cardinality(PlacesOf(waiters_, Nobody)) - 1
      BY <2>1, <2>b, <2>e
    <3>3. Cardinality(OwnersOf(at')) = Cardinality(PlacesOf(waiters_', Nobody)) + 1
      BY <1>0, <1>b, <1>c, <1>d, <2>a, <3>1, <3>2 DEF Balanced
    <3>4. ASSUME NEW u \in Threads
          PROVE  Cardinality(PlacesOf(waiters_', u)) = IF at'[u] = "wait" THEN 1 ELSE 0
      <4>1. Cardinality(PlacesOf(waiters_', u)) = Cardinality(PlacesOf(waiters_, u))
        BY <1>a, <2>1, <2>e, <2>f
      <4>2. at'[u] = "wait" <=> at[u] = "wait"
        BY <1>a, <2>1, <2>c
      <4> QED
        BY <1>0, <4>1, <4>2 DEF Balanced
    <3>5. Balanced(locked_', waiters_', at')
      BY <2>a, <3>3, <3>4 DEF Balanced
    <3> QED
      BY <2>d, <3>5, HandOverIsBalancedNext DEF MutexInv
  <2>2. CASE Head(waiters_) \in Threads
    <3> DEFINE h == Head(waiters_)
    <3>1. at[h] = "wait"
      BY <1>2, <2>2, HeadWaits
    <3>2. h # t /\ h # Nobody
      BY <3>1, <1>a, <2>2
    <3>3. OwnersOf(at') = (OwnersOf(at) \ {t}) \cup {h} /\ h \notin OwnersOf(at)
      BY <1>a, <2>2, <2>c, <3>1, <3>2 DEF OwnersOf
    <3>4. Cardinality((OwnersOf(at) \ {t}) \cup {h}) = Cardinality(OwnersOf(at) \ {t}) + 1
      BY <1>c, <3>3, FS_AddElement
    <3>5. Cardinality(OwnersOf(at')) = Cardinality(OwnersOf(at))
      BY <1>b, <1>c, <3>3, <3>4
    <3>6. Cardinality(PlacesOf(waiters_', Nobody)) = Cardinality(PlacesOf(waiters_, Nobody))
      BY <2>e, <3>2, <1>d DEF CVs
    <3>7. ASSUME NEW u \in Threads
          PROVE  Cardinality(PlacesOf(waiters_', u)) = IF at'[u] = "wait" THEN 1 ELSE 0
      <4>0. Cardinality(PlacesOf(waiters_, u)) = IF at[u] = "wait" THEN 1 ELSE 0
        BY <1>0 DEF Balanced
      <4>1. CASE u = h
        <5>1. Cardinality(PlacesOf(waiters_', u)) = Cardinality(PlacesOf(waiters_, u)) - 1
          BY <4>1, <2>e, <2>f
        <5>2. at'[u] = "woken" /\ at[u] = "wait"
          BY <4>1, <2>c, <3>1, <3>2
        <5> QED
          BY <4>0, <5>1, <5>2
      <4>2. CASE u # h
        <5>1. Cardinality(PlacesOf(waiters_', u)) = Cardinality(PlacesOf(waiters_, u))
          BY <4>2, <2>e, <2>f
        <5>2. at'[u] = "wait" <=> at[u] = "wait"
          BY <4>2, <2>c, <1>a
        <5> QED
          BY <4>0, <5>1, <5>2
      <4> QED
        BY <4>1, <4>2
    <3>8. Balanced(locked_', waiters_', at')
      BY <1>0, <2>a, <3>5, <3>6, <3>7 DEF Balanced
    <3> QED
      BY <2>d, <3>8, HandOverIsBalancedNext DEF MutexInv
  <2> QED
    BY <2>1, <2>2, <2>b DEF CVs
<1> QED
  BY <1>1, <1>2 DEF unlock

(* What a step of a thread that logs does to the mutex. *)
LEMMA StepBalanced ==
    ASSUME MutexInv, NEW t \in Threads, SyncStep(t)
    PROVE  MutexInv'
<1>1. \/ lock(t) \/ WaitEnds(t) \/ WaitEndsSpuriously(t) \/ unlock(t)
      \/ UNCHANGED mutexVars
  BY DEF SyncStep, append, LockReturns, LoadFile, WriteLine, RollOrFlush, ReleaseMutex,
         LoadFileToFlush, flush
<1>2. CASE UNCHANGED mutexVars
  BY <1>2 DEF mutexVars, MutexInv, MutexTypeOK, HandOver, Owners, Strays
<1> QED
  BY <1>1, <1>2, LockBalanced, WaitEndsBalanced, SpuriousBalanced, UnlockBalanced

(* The mutex under SyncLog: at any time the number of threads that lock()   *)
(* has let in, or unlock() has chosen, is one while locked_ is set plus the *)
(* number of condition variables a spurious wakeup has left in waiters_,    *)
(* and every waiting thread is in waiters_ exactly once.                    *)
THEOREM HandOverCorrect == SyncSpec => []HandOver
<1>1. SyncInit => MutexInv
  BY InitBalanced DEF SyncInit
<1>2. MutexInv /\ [SyncNext]_syncVars => MutexInv'
  <2> SUFFICES ASSUME MutexInv, [SyncNext]_syncVars PROVE MutexInv'
    OBVIOUS
  <2>1. CASE SyncNext
    BY <2>1, StepBalanced DEF SyncNext
  <2>2. CASE UNCHANGED syncVars
    BY <2>2 DEF syncVars, mutexVars, MutexInv, MutexTypeOK, HandOver, Owners, Strays
  <2> QED
    BY <2>1, <2>2
<1>3. MutexInv => HandOver
  BY DEF MutexInv
<1> QED
  BY <1>1, <1>2, <1>3, PTL DEF SyncSpec

-----------------------------------------------------------------------------
(* SyncLog.  Where a thread is in append() says what it holds: between the  *)
(* lock and the unlock it is one of the owners, and from the write on its   *)
(* line is in the buffer of the current file or on disk.  While no wait has *)
(* ended spuriously there is one owner, so that nobody rolls the file over  *)
(* between the load of the pointer and the write.                           *)

Stages == {"idle", "locked", "write", "size", "unlock", "flush", "fflush"}

LogTypeOK ==
    /\ pc \in [Threads -> Stages]
    /\ ptr \in [Threads -> Nat] /\ file \in Nat /\ writtenBytes \in Nat
    /\ logged \in [Threads -> Nat]

PlaceInv ==
    \A t \in Threads :
        /\ pc[t] \in {"idle", "flush", "fflush"} => at[t] = "out"
        /\ pc[t] = "locked" => at[t] # "out"
        /\ pc[t] \in {"write", "size", "unlock"} => at[t] = "in"
        /\ pc[t] # "idle" => logged[t] > 0

ExclusionInv ==
    \/ spurious
    \/ /\ \A i \in DOMAIN waiters_ : waiters_[i] # Nobody
       /\ \A t \in Threads : pc[t] = "write" => ptr[t] = file
       /\ crash # "append"

WrittenInv ==
    crash = "none" =>
        \A t \in Threads :
            /\ \A n \in 1..(logged[t] - 1) : <<t, n>> \in disk
            /\ pc[t] = "idle" /\ logged[t] > 0 => <<t, logged[t]>> \in disk
            /\ pc[t] \in {"size", "unlock", "flush", "fflush"} =>
                  <<t, logged[t]>> \in buffered \cup disk

LogInv == MutexInv /\ LogTypeOK /\ PlaceInv /\ ExclusionInv /\ WrittenInv

LEMMA OneOwner ==
    ASSUME MutexInv, \A i \in DOMAIN waiters_ : waiters_[i] # Nobody,
           NEW t \in Threads, NEW u \in Threads, at[t] = "in", at[u] = "in"
    PROVE  t = u
<1>0. MutexTypeOK /\ Balanced(locked_, waiters_, at)
  BY HandOverIsBalanced DEF MutexInv
<1>1. PlacesOf(waiters_, Nobody) = {}
  BY DEF PlacesOf
<1>2. Cardinality(PlacesOf(waiters_, Nobody)) = 0
  BY <1>1, FS_EmptySet
<1>3. Cardinality(OwnersOf(at)) = 0 \/ Cardinality(OwnersOf(at)) = 1
  BY <1>0, <1>2 DEF Balanced
<1>4. t \in OwnersOf(at) /\ u \in OwnersOf(at) /\ IsFiniteSet(OwnersOf(at))
  BY OwnersFinite DEF OwnersOf
<1>5. Cardinality(OwnersOf(at)) # 0
  BY <1>4, FS_EmptySet
<1>6. \E x : OwnersOf(at) = {x}
  BY <1>3, <1>4, <1>5, FS_Singleton
<1> QED
  BY <1>4, <1>6

LEMMA LogInit == SyncInit => LogInv
<1> SUFFICES ASSUME SyncInit PROVE LogInv
  OBVIOUS
<1>1. MutexInv
  BY InitBalanced DEF SyncInit
<1>2. LogTypeOK
  BY DEF SyncInit, LogTypeOK, Stages
<1>3. PlaceInv
  BY DEF SyncInit, MutexInit, PlaceInv
<1>4. ExclusionInv
  BY DEF SyncInit, MutexInit, ExclusionInv
<1>5. WrittenInv
  <2>1. ASSUME NEW t \in Threads PROVE logged[t] = 0 /\ pc[t] = "idle"
    BY DEF SyncInit
  <2>2. \A n \in 1..(0 - 1) : FALSE
    OBVIOUS
  <2> QED
    BY <2>1, <2>2 DEF WrittenInv
<1> QED
  BY <1>1, <1>2, <1>3, <1>4, <1>5 DEF LogInv

LEMMA LogTypeStep ==
    ASSUME LogTypeOK, NEW t \in Threads, SyncStep(t)
    PROVE  LogTypeOK'
<1> USE DEF LogTypeOK, Stages, Goto, fileVars
<1>1. CASE append(t)
  BY <1>1 DEF append
<1>2. CASE LockReturns(t)
  BY <1>2 DEF LockReturns
<1>3. CASE LoadFile(t)
  BY <1>3 DEF LoadFile
<1>4. CASE WriteLine(t)
  BY <1>4 DEF WriteLine
<1>5. CASE RollOrFlush(t)
  <2>1. file' \in Nat /\ writtenBytes' \in Nat
    BY <1>5 DEF RollOrFlush, rollFile, Timeflush
  <2> QED
    BY <1>5, <2>1 DEF RollOrFlush
<1>6. CASE ReleaseMutex(t)
  BY <1>6 DEF ReleaseMutex
<1>7. CASE LoadFileToFlush(t)
  BY <1>7 DEF LoadFileToFlush
<1>8. CASE flush(t)
  BY <1>8 DEF flush
<1> QED
  BY <1>1, <1>2, <1>3, <1>4, <1>5, <1>6, <1>7, <1>8 DEF SyncStep

LEMMA PlaceStep ==
    ASSUME LogInv, NEW t \in Threads, SyncStep(t)
    PROVE  PlaceInv'
<1>0. LogTypeOK /\ PlaceInv /\ at \in [Threads -> {"out", "wait", "woken", "in"}]
  BY DEF LogInv, MutexInv, MutexTypeOK
<1> USE <1>0 DEF LogTypeOK, PlaceInv, Stages, Goto, fileVars, mutexVars
<1>1. CASE append(t)
  BY <1>1 DEF append, lock
<1>2. CASE LockReturns(t)
  BY <1>2 DEF LockReturns, WaitEnds, WaitEndsSpuriously
<1>3. CASE LoadFile(t)
  BY <1>3 DEF LoadFile
<1>4. CASE WriteLine(t)
  BY <1>4 DEF WriteLine
<1>5. CASE RollOrFlush(t)
  BY <1>5 DEF RollOrFlush
<1>6. CASE ReleaseMutex(t)
  <2>1. CASE waiters_ = <<>>
    BY <1>6, <2>1 DEF ReleaseMutex, unlock
  <2>2. CASE waiters_ # <<>>
    <3>1. at'[t] = "out" /\ \A u \in Threads \ {t} : at'[u] = at[u] \/ (at'[u] = "woken" /\ u = Head(waiters_))
      <4>1. unlock(t)
        BY <1>6 DEF ReleaseMutex
      <4> QED
        BY <2>2, <4>1, UnlockWakes DEF LogInv, MutexInv
    <3>2. ASSUME NEW u \in Threads, u = Head(waiters_) PROVE at[u] = "wait"
      BY <2>2, <3>2, HeadWaits DEF LogInv
    <3>3. pc' = [pc EXCEPT ![t] = "flush"] /\ logged' = logged /\ pc[t] = "unlock"
      BY <1>6 DEF ReleaseMutex
    <3> QED
      BY <3>1, <3>2, <3>3
  <2> QED
    BY <2>1, <2>2
<1>7. CASE LoadFileToFlush(t)
  BY <1>7 DEF LoadFileToFlush
<1>8. CASE flush(t)
  BY <1>8 DEF flush
<1> QED
  BY <1>1, <1>2, <1>3, <1>4, <1>5, <1>6, <1>7, <1>8 DEF SyncStep

LEMMA ExclusionStep ==
    ASSUME LogInv, NEW t \in Threads, crash = "none", SyncStep(t)
    PROVE  ExclusionInv'
<1>0. LogTypeOK /\ PlaceInv /\ ExclusionInv /\ MutexInv
  BY DEF LogInv
<1>a. waiters_ \in Seq(CVs) /\ Nobody \notin Threads
  BY <1>0, MutexAssumption DEF MutexInv, MutexTypeOK, CVs
<1>b. CASE spurious
  BY <1>b DEF ExclusionInv, SyncStep, append, LockReturns, LoadFile, WriteLine,
     RollOrFlush, ReleaseMutex, LoadFileToFlush, flush
<1>c. CASE ~spurious
  <2>0. /\ \A i \in DOMAIN waiters_ : waiters_[i] # Nobody
        /\ \A u \in Threads : pc[u] = "write" => ptr[u] = file
    BY <1>c, <1>0 DEF ExclusionInv
  <2>e. \A u, v \in Threads : pc[u] \in {"write", "size"} /\ pc[v] \in {"write", "size"}
                                => u = v
    BY <1>0, <2>0, OneOwner DEF PlaceInv
  <2> USE DEF LogTypeOK, Stages, Goto, fileVars, mutexVars
  <2>1. CASE append(t)
    <3>1. \A i \in DOMAIN waiters_' : waiters_'[i] # Nobody
      <4>1. CASE UNCHANGED waiters_
        BY <2>0, <4>1
      <4>2. CASE waiters_' = Append(waiters_, t)
        <5>1. /\ DOMAIN waiters_ = 1..Len(waiters_) /\ Len(waiters_) \in Nat
              /\ DOMAIN waiters_' = 1..(Len(waiters_) + 1)
              /\ waiters_'[Len(waiters_) + 1] = t
              /\ \A i \in 1..Len(waiters_) : waiters_'[i] = waiters_[i]
          BY <1>a, <4>2 DEF CVs
        <5> QED
          BY <5>1, <2>0, <1>a
      <4> QED
        BY <2>1, <4>1, <4>2 DEF append, lock
    <3>2. /\ \A u \in Threads : pc'[u] = "write" => pc[u] = "write"
          /\ ptr' = ptr /\ file' = file /\ crash' = crash
      BY <1>0, <2>1 DEF append
    <3> QED
      BY <2>0, <3>1, <3>2 DEF ExclusionInv
  <2>2. CASE LockReturns(t)
    <3>1. CASE WaitEnds(t) /\ UNCHANGED spurious
      BY <2>0, <2>2, <3>1 DEF ExclusionInv, LockReturns, WaitEnds
    <3>2. CASE spurious' = TRUE
      BY <3>2 DEF ExclusionInv
    <3> QED
      BY <2>2, <3>1, <3>2 DEF LockReturns
  <2>3. CASE LoadFile(t)
    BY <1>0, <2>0, <2>3 DEF ExclusionInv, LoadFile
  <2>4. CASE WriteLine(t)
    BY <1>0, <2>0, <2>4 DEF ExclusionInv, WriteLine
  <2>5. CASE RollOrFlush(t)
    <3>1. waiters_' = waiters_ /\ ptr' = ptr /\ pc' = [pc EXCEPT ![t] = "unlock"]
      BY <2>5 DEF RollOrFlush
    <3>2. crash' = crash
      BY <2>5, <2>e DEF RollOrFlush
    <3>3. \A u \in Threads : pc'[u] # "write"
      BY <1>0, <2>5, <2>e, <3>1 DEF RollOrFlush
    <3> QED
      BY <2>0, <3>1, <3>2, <3>3 DEF ExclusionInv
  <2>6. CASE ReleaseMutex(t)
    <3>1. \A i \in DOMAIN waiters_' : waiters_'[i] # Nobody
      <4>1. CASE UNCHANGED waiters_
        BY <2>0, <4>1
      <4>2. CASE waiters_ # <<>> /\ waiters_' = Tail(waiters_)
        <5>1. /\ DOMAIN waiters_ = 1..Len(waiters_) /\ Len(waiters_) \in Nat
              /\ DOMAIN waiters_' = 1..(Len(waiters_) - 1)
              /\ \A i \in 1..(Len(waiters_) - 1) : waiters_'[i] = waiters_[i + 1]
          BY <1>a, <4>2
        <5>2. \A i \in 1..(Len(waiters_) - 1) : i + 1 \in 1..Len(waiters_)
          BY <5>1
        <5> QED
          BY <5>1, <5>2, <2>0
      <4> QED
        BY <2>6, <4>1, <4>2 DEF ReleaseMutex, unlock
    <3>2. /\ \A u \in Threads : pc'[u] = "write" => pc[u] = "write"
          /\ ptr' = ptr /\ file' = file /\ crash' = crash
      BY <1>0, <2>6 DEF ReleaseMutex
    <3> QED
      BY <2>0, <3>1, <3>2 DEF ExclusionInv
  <2>7. CASE LoadFileToFlush(t)
    BY <1>0, <2>0, <2>7 DEF ExclusionInv, LoadFileToFlush
  <2>8. CASE flush(t)
    BY <1>0, <2>0, <2>8 DEF ExclusionInv, flush
  <2> QED
    BY <2>1, <2>2, <2>3, <2>4, <2>5, <2>6, <2>7, <2>8 DEF SyncStep
<1> QED
  BY <1>b, <1>c

(* A step of t, other than the start of a line, that loses none. *)
Advances(t) ==
    /\ logged' = logged /\ disk \subseteq disk'
    /\ buffered \cup disk \subseteq buffered' \cup disk'
    /\ \A u \in Threads \ {t} : pc'[u] = pc[u]
    /\ crash' = "none" => /\ pc'[t] = "idle" => <<t, logged[t]>> \in disk'
                          /\ pc'[t] \in {"size", "unlock", "flush", "fflush"} =>
                                <<t, logged[t]>> \in buffered' \cup disk'

LEMMA WrittenStep ==
    ASSUME LogInv, NEW t \in Threads, crash = "none", SyncStep(t)
    PROVE  WrittenInv'
<1>0. LogTypeOK /\ PlaceInv /\ LogTypeOK'
  BY LogTypeStep DEF LogInv
<1>1. \A u \in Threads :
         /\ \A n \in 1..(logged[u] - 1) : <<u, n>> \in disk
         /\ pc[u] = "idle" /\ logged[u] > 0 => <<u, logged[u]>> \in disk
         /\ pc[u] \in {"size", "unlock", "flush", "fflush"} =>
               <<u, logged[u]>> \in buffered \cup disk
  BY DEF LogInv, WrittenInv
<1>a. CASE append(t)
  <2>1. /\ logged' = [logged EXCEPT ![t] = logged[t] + 1] /\ disk' = disk /\ buffered' = buffered
        /\ pc' = [pc EXCEPT ![t] = "locked"] /\ pc[t] = "idle"
    BY <1>a DEF append, Goto, fileVars
  <2>2. \A u \in Threads \ {t} : logged'[u] = logged[u] /\ pc'[u] = pc[u]
    BY <1>0, <2>1 DEF LogTypeOK
  <2>3. logged'[t] = logged[t] + 1 /\ pc'[t] = "locked" /\ logged[t] \in Nat
    BY <1>0, <2>1 DEF LogTypeOK
  <2>4. \A n \in 1..logged[t] : <<t, n>> \in disk
    <3>1. ASSUME NEW n \in 1..logged[t] PROVE n \in 1..(logged[t] - 1) \/ (n = logged[t] /\ logged[t] > 0)
      BY <2>3
    <3> QED
      BY <1>1, <2>1, <3>1
  <2>5. logged'[t] - 1 = logged[t]
    BY <2>3
  <2> QED
    BY <1>1, <2>1, <2>2, <2>3, <2>4, <2>5 DEF WrittenInv
<1>b. ASSUME Advances(t) PROVE WrittenInv'
  BY <1>1, <1>b DEF WrittenInv, Advances
<1>c. CASE \/ LockReturns(t) \/ LoadFile(t) \/ WriteLine(t) \/ RollOrFlush(t)
           \/ ReleaseMutex(t) \/ LoadFileToFlush(t) \/ flush(t)
  <2>0. pc \in [Threads -> Stages]
    BY <1>0 DEF LogTypeOK
  <2> USE DEF Goto, fileVars, Line
  <2>1. CASE LockReturns(t)
    <3>1. /\ logged' = logged /\ disk' = disk /\ buffered' = buffered /\ pc' = pc /\ pc[t] = "locked"
      BY <2>1 DEF LockReturns
    <3>2. Advances(t)
      BY <3>1 DEF Advances
    <3> QED
      BY <3>2, <1>b
  <2>2. CASE LoadFile(t)
    <3>1. /\ logged' = logged /\ disk' = disk /\ buffered' = buffered
          /\ pc' = [pc EXCEPT ![t] = "write"]
      BY <2>2 DEF LoadFile
    <3>2. Advances(t)
      BY <2>0, <3>1 DEF Advances
    <3> QED
      BY <3>2, <1>b
  <2>3. CASE WriteLine(t)
    <3>1. /\ logged' = logged /\ disk' = disk /\ pc' = [pc EXCEPT ![t] = "size"]
          /\ \/ buffered' = buffered \cup {<<t, logged[t]>>}
             \/ crash' = "append" /\ buffered' = buffered
      BY <2>3 DEF WriteLine
    <3>2. Advances(t)
      BY <2>0, <3>1 DEF Advances
    <3> QED
      BY <3>2, <1>b
  <2>4. CASE RollOrFlush(t)
    <3>1. /\ logged' = logged /\ pc' = [pc EXCEPT ![t] = "unlock"] /\ pc[t] = "size"
      BY <2>4 DEF RollOrFlush
    <3>2. \/ disk' = disk \cup buffered /\ buffered' = {}
          \/ disk' = disk /\ buffered' = buffered
      BY <2>4 DEF RollOrFlush, rollFile, Timeflush, Flushed
    <3>3. Advances(t)
      BY <2>0, <3>1, <3>2, <1>1 DEF Advances
    <3> QED
      BY <3>3, <1>b
  <2>5. CASE ReleaseMutex(t)
    <3>1. /\ logged' = logged /\ disk' = disk /\ buffered' = buffered
          /\ pc' = [pc EXCEPT ![t] = "flush"] /\ pc[t] = "unlock"
      BY <2>5 DEF ReleaseMutex
    <3>2. Advances(t)
      BY <2>0, <3>1, <1>1 DEF Advances
    <3> QED
      BY <3>2, <1>b
  <2>6. CASE LoadFileToFlush(t)
    <3>1. /\ logged' = logged /\ disk' = disk /\ buffered' = buffered
          /\ pc' = [pc EXCEPT ![t] = "fflush"] /\ pc[t] = "flush"
      BY <2>6 DEF LoadFileToFlush
    <3>2. Advances(t)
      BY <2>0, <3>1, <1>1 DEF Advances
    <3> QED
      BY <3>2, <1>b
  <2>7. CASE flush(t)
    <3>1. /\ logged' = logged /\ pc' = [pc EXCEPT ![t] = "idle"] /\ pc[t] = "fflush"
          /\ \/ disk' = disk \cup buffered /\ buffered' = {}
             \/ disk' = disk /\ buffered' = buffered /\ crash' = "flush"
      BY <2>7 DEF flush, Flushed
    <3>2. Advances(t)
      BY <2>0, <3>1, <1>1 DEF Advances
    <3> QED
      BY <3>2, <1>b
  <2> QED
    BY <1>c, <2>1, <2>2, <2>3, <2>4, <2>5, <2>6, <2>7
<1> QED
  BY <1>a, <1>c DEF SyncStep

(* SyncLog::append is durable: when it has returned, the line and all those *)
(* before it are on disk, whichever thread rolled the file over in between, *)
(* and a deleted file is written only after a spurious wakeup of FairMutex. *)
THEOREM AppendsDurableCorrect == SyncSpec => []AppendsDurable
<1>1. LogInv /\ [SyncNext]_syncVars => LogInv'
  <2> SUFFICES ASSUME LogInv, [SyncNext]_syncVars PROVE LogInv'
    OBVIOUS
  <2>1. CASE SyncNext
    <3>1. PICK t \in Threads : SyncStep(t)
      BY <2>1 DEF SyncNext
    <3>2. crash = "none" /\ MutexInv /\ LogTypeOK
      BY <2>1 DEF SyncNext, LogInv
    <3> QED
      BY <3>1, <3>2, StepBalanced, LogTypeStep, PlaceStep, ExclusionStep, WrittenStep DEF LogInv
  <2>2. CASE UNCHANGED syncVars
    <3>1. MutexInv'
      BY <2>2 DEF syncVars, mutexVars, LogInv, MutexInv, MutexTypeOK, HandOver, Owners, Strays
    <3>2. LogTypeOK' /\ PlaceInv'
      BY <2>2 DEF syncVars, mutexVars, fileVars, LogInv, LogTypeOK, PlaceInv
    <3>3. ExclusionInv' /\ WrittenInv'
      BY <2>2 DEF syncVars, mutexVars, fileVars, LogInv, ExclusionInv, WrittenInv
    <3> QED
      BY <3>1, <3>2, <3>3 DEF LogInv
  <2> QED
    BY <2>1, <2>2
<1>2. LogInv => AppendsDurable
  BY DEF LogInv, ExclusionInv, WrittenInv, AppendsDurable, Line
<1> QED
  BY LogInit, <1>1, <1>2, PTL DEF SyncSpec

-----------------------------------------------------------------------------
(* AsyncLog: the lines in buffers.                                          *)

LinesOf(con, bs) == FlattenSeq([i \in DOMAIN bs |-> IF bs[i] = Null THEN <<>> ELSE con[bs[i]]])

(* LinesOf makes the buffers' content a parameter: what lists of buffers    *)
(* hold when content or the list changes.                                   *)
LEMMA LinesAre == \A bs : Lines(bs) = LinesOf(content, bs)
  BY DEF Lines, LinesOf

LEMMA LinesSame ==
    ASSUME NEW con, NEW other, NEW bs \in Seq(Nat),
           \A i \in 1..Len(bs) : bs[i] # Null => other[bs[i]] = con[bs[i]]
    PROVE  LinesOf(other, bs) = LinesOf(con, bs)
<1>1. [i \in DOMAIN bs |-> IF bs[i] = Null THEN <<>> ELSE other[bs[i]]]
        = [i \in DOMAIN bs |-> IF bs[i] = Null THEN <<>> ELSE con[bs[i]]]
  OBVIOUS
<1> QED
  BY <1>1 DEF LinesOf

LEMMA LinesNone == ASSUME NEW con PROVE LinesOf(con, <<>>) = <<>>
<1>1. [i \in DOMAIN <<>> |-> IF <<>>[i] = Null THEN <<>> ELSE con[<<>>[i]]] = <<>>
  OBVIOUS
<1> QED
  BY <1>1, FlattenNone DEF LinesOf

LEMMA LinesOne ==
    ASSUME NEW con, NEW b \in Nat
    PROVE  LinesOf(con, <<b>>) = IF b = Null THEN <<>> ELSE con[b]
<1>1. [i \in DOMAIN <<b>> |-> IF <<b>>[i] = Null THEN <<>> ELSE con[<<b>>[i]]]
        = << IF b = Null THEN <<>> ELSE con[b] >>
  OBVIOUS
<1> QED
  BY <1>1, FlattenOne DEF LinesOf

LEMMA LinesParts ==
    ASSUME NEW con \in Seq(Seq(Nat)), NEW bs \in Seq(DOMAIN con \cup {Null})
    PROVE  [i \in DOMAIN bs |-> IF bs[i] = Null THEN <<>> ELSE con[bs[i]]] \in Seq(Seq(Nat))
<1>1. \A i \in 1..Len(bs) : (IF bs[i] = Null THEN <<>> ELSE con[bs[i]]) \in Seq(Nat)
  <2> TAKE i \in 1..Len(bs)
  <2>1. bs[i] \in DOMAIN con \cup {Null}
    OBVIOUS
  <2>2. bs[i] # Null => con[bs[i]] \in Seq(Nat)
    BY <2>1
  <2> QED
    BY <2>2
<1>2. DOMAIN bs = 1..Len(bs) /\ Len(bs) \in Nat
  OBVIOUS
<1> QED
  BY <1>1, <1>2

LEMMA LinesType ==
    ASSUME NEW con \in Seq(Seq(Nat)), NEW bs \in Seq(DOMAIN con \cup {Null})
    PROVE  LinesOf(con, bs) \in Seq(Nat)
  BY LinesParts, FlattenType DEF LinesOf

LEMMA LinesAppend ==
    ASSUME NEW con \in Seq(Seq(Nat)), NEW bs \in Seq(DOMAIN con \cup {Null}),
           NEW b \in DOMAIN con
    PROVE  LinesOf(con, Append(bs, b)) = LinesOf(con, bs) \o con[b]
<1> DEFINE parts == [i \in DOMAIN bs |-> IF bs[i] = Null THEN <<>> ELSE con[bs[i]]]
<1>0. parts \in Seq(Seq(Nat))
  BY LinesParts
<1>1. parts \in Seq(Seq(Nat)) /\ con[b] \in Seq(Nat)
  BY <1>0
<1>2. b # Null /\ DOMAIN bs = 1..Len(bs) /\ Len(bs) \in Nat
  BY DEF Null
<1>3. [i \in DOMAIN Append(bs, b) |-> IF Append(bs, b)[i] = Null THEN <<>>
                                                               ELSE con[Append(bs, b)[i]]]
        = Append(parts, con[b])
  <2> DEFINE longer == [i \in DOMAIN Append(bs, b) |->
                          IF Append(bs, b)[i] = Null THEN <<>> ELSE con[Append(bs, b)[i]]]
  <2>1. DOMAIN longer = 1..(Len(bs) + 1)
    BY <1>2
  <2>2. DOMAIN Append(parts, con[b]) = 1..(Len(bs) + 1)
    BY <1>1, <1>2
  <2>3. ASSUME NEW i \in 1..(Len(bs) + 1) PROVE longer[i] = Append(parts, con[b])[i]
    <3>1. CASE i = Len(bs) + 1
      BY <1>1, <1>2, <3>1
    <3>2. CASE i # Len(bs) + 1
      <4>0. i \in 1..Len(bs)
        <5> DEFINE l == Len(bs)
        <5>1. l \in Nat /\ i \in 1..(l + 1) /\ i # l + 1
          BY <1>2, <3>2
        <5> HIDE DEF l
        <5>2. i \in 1..l
          BY <5>1
        <5> QED
          BY <5>2 DEF l
      <4>1. i \in 1..Len(bs) /\ Append(bs, b)[i] = bs[i]
        <5> DEFINE T == DOMAIN con \cup {Null}
        <5>1. bs \in Seq(T) /\ b \in T
          OBVIOUS
        <5> HIDE DEF T
        <5> QED
          BY <4>0, <5>1, AppendFacts
      <4>2. Append(parts, con[b])[i] = parts[i]
        BY <1>1, <1>2, <4>1
      <4> QED
        BY <1>2, <4>1, <4>2
    <3> QED
      BY <3>1, <3>2
  <2>4. longer = [i \in DOMAIN longer |-> longer[i]]
    OBVIOUS
  <2>5. Append(parts, con[b]) = [i \in DOMAIN Append(parts, con[b]) |-> Append(parts, con[b])[i]]
    BY <1>1
  <2> QED
    BY <2>1, <2>2, <2>3, <2>4, <2>5
<1> HIDE DEF parts
<1>4. FlattenSeq(Append(parts, con[b])) = FlattenSeq(parts) \o con[b]
  BY <1>1, FlattenAppend
<1> QED
  BY <1>3, <1>4 DEF LinesOf, parts

LEMMA LinesBlank ==
    ASSUME NEW con \in Seq(Seq(Nat)), NEW bs \in Seq(DOMAIN con \cup {Null}),
           \A i \in 1..Len(bs) : bs[i] # Null => con[bs[i]] = <<>>
    PROVE  LinesOf(con, bs) = <<>>
<1> DEFINE parts == [i \in DOMAIN bs |-> IF bs[i] = Null THEN <<>> ELSE con[bs[i]]]
<1>1. parts \in Seq(Seq(Nat))
  BY LinesParts
<1>2. Len(parts) = Len(bs) /\ \A i \in 1..Len(parts) : parts[i] = <<>>
  OBVIOUS
<1> HIDE DEF parts
<1>3. FlattenSeq(parts) = <<>>
  BY <1>1, <1>2, FlattenBlank
<1> QED
  BY <1>3 DEF LinesOf, parts

-----------------------------------------------------------------------------
(* AsyncLog: the types of its variables, races included.                    *)

AsyncTypes ==
    /\ AsyncTypeOK
    /\ content \in Seq(Seq(Nat)) /\ deleted \subseteq Buffers
    /\ WriteBuffer \in Seq(Buffers \cup {Null})
    /\ SecondaryBuffer_ \in Seq(Nat) /\ written \in Seq(Nat) /\ appended \in Seq(Nat)
    /\ hand \in [Callers -> Buffers \cup {Null}] /\ line \in [Callers -> Nat] /\ begun \in Nat
    /\ \A c \in Callers : place[c] = "put" => hand[c] # Null

(* make_unique: one more buffer, an empty one; the others are as they were. *)
LEMMA AllocatedEffect ==
    ASSUME AsyncTypes, Allocated
    PROVE  /\ NewBuffer \in Nat \ {0} /\ NewBuffer \notin Buffers
           /\ content' \in Seq(Seq(Nat)) /\ Buffers' = Buffers \cup {NewBuffer}
           /\ content'[NewBuffer] = <<>>
           /\ \A b \in Buffers : content'[b] = content[b]
           /\ \A b \in Buffers' : Len(content'[b]) <= BufferSize_
<1> USE DEF AsyncTypes, AsyncTypeOK, Allocated, NewBuffer, Buffers
<1>1. Len(content) \in Nat /\ DOMAIN content = 1..Len(content) /\ <<>> \in Seq(Nat)
  OBVIOUS
<1>2. content' \in Seq(Seq(Nat)) /\ Len(content') = Len(content) + 1
  <2> HIDE DEF AsyncTypeOK, NewBuffer, Buffers
  <2> QED
    BY <1>1, AppendFacts
<1>3. DOMAIN content' = 1..(Len(content) + 1)
  BY <1>2
<1>4. content'[Len(content) + 1] = <<>> /\ \A b \in 1..Len(content) : content'[b] = content[b]
  <2> HIDE DEF AsyncTypeOK, NewBuffer, Buffers
  <2> QED
    BY <1>1, AppendFacts
<1>5. \A b \in 1..(Len(content) + 1) : b \in 1..Len(content) \/ b = Len(content) + 1
  <2> HIDE DEF AsyncTypes, AsyncTypeOK, NewBuffer, Buffers, Allocated
  <2> QED
    BY <1>1
<1>6. Len(<<>>) = 0 /\ BufferSize_ \in Nat
  BY AsyncAssumption
<1>7. \A b \in DOMAIN content' : Len(content'[b]) <= BufferSize_
  BY <1>1, <1>3, <1>4, <1>5, <1>6
<1> QED
  BY <1>1, <1>2, <1>3, <1>4, <1>5, <1>7

(* AsyncLog: the types, step by step.                                       *)
LEMMA AllocatedTypes ==
    ASSUME AsyncTypes, Allocated, UNCHANGED <<BackstageBuffers_, WriteBuffer>>
    PROVE  /\ BackstageBuffers_' \in Seq(Buffers' \cup {Null})
           /\ WriteBuffer' \in Seq(Buffers' \cup {Null})
           /\ Buffers \cup {Null} \subseteq Buffers' \cup {Null} /\ NewBuffer \in Buffers'
           /\ deleted \subseteq Buffers'
<1>1. Buffers' = Buffers \cup {NewBuffer}
  BY AllocatedEffect
<1>2. Buffers \cup {Null} \subseteq Buffers' \cup {Null} /\ NewBuffer \in Buffers'
  BY <1>1
<1>3. BackstageBuffers_ \in Seq(Buffers \cup {Null}) /\ WriteBuffer \in Seq(Buffers \cup {Null})
  BY DEF AsyncTypes, AsyncTypeOK
<1>4. BackstageBuffers_ \in Seq(Buffers' \cup {Null}) /\ WriteBuffer \in Seq(Buffers' \cup {Null})
  BY <1>2, <1>3, SeqGrows
<1> QED
  BY <1>1, <1>2, <1>4 DEF AsyncTypes

LEMMA AsyncInitTypes == AsyncInit => AsyncTypes
<1> SUFFICES ASSUME AsyncInit PROVE AsyncTypes
  OBVIOUS
<1>1. content \in Seq(Seq(Nat)) /\ DOMAIN content = {1, 2}
      /\ content[1] = <<>> /\ content[2] = <<>>
  <2>1. content = << <<>>, <<>> >> /\ <<>> \in Seq(Nat)
    BY DEF AsyncInit
  <2> QED
    BY <2>1
<1>2. \A b \in Buffers : Len(content[b]) <= BufferSize_
  <2>1. Len(<<>>) = 0 /\ BufferSize_ \in Nat
    BY AsyncAssumption
  <2> QED
    BY <1>1, <2>1 DEF Buffers
<1>3. AsyncTypeOK
  BY <1>1, <1>2 DEF AsyncInit, AsyncTypeOK, Buffers, Null
<1> QED
  BY <1>1, <1>3 DEF AsyncInit, AsyncTypes, Buffers, Null

LEMMA CallerTypes ==
    ASSUME AsyncTypes, NEW c \in Callers, CallerStep(c)
    PROVE  AsyncTypes'
<1> USE DEF AsyncTypes, AsyncTypeOK, Move, Dies, Refilling
<1>0. UNCHANGED <<WriteBuffer, written, back>>
  BY DEF CallerStep, loopVars
<1>1. CASE AppendCalled(c)
  BY <1>0, <1>1 DEF AppendCalled, bufferVars, Buffers
<1>2. CASE TestFull(c)
  BY <1>0, <1>2 DEF TestFull, bufferVars, Buffers
<1>3. CASE MoveToBackstage(c)
  <2>1. BackstageBuffers_' \in Seq(Buffers \cup {Null})
    BY <1>3 DEF MoveToBackstage
  <2> QED
    BY <1>0, <1>3, <2>1 DEF MoveToBackstage, Buffers
<1>4. CASE TakeSpare(c)
  <2>1. CASE SpareBuffer_ # Null
    BY <1>0, <1>4, <2>1 DEF TakeSpare, Buffers
  <2>2. CASE SpareBuffer_ = Null
    <3>1. /\ Allocated /\ hand' = [hand EXCEPT ![c] = NewBuffer]
          /\ place[c] = "spare" /\ place' = [place EXCEPT ![c] = "refill"]
          /\ UNCHANGED <<Receptionbuffer_, SpareBuffer_, BackstageBuffers_, SecondaryBuffer_,
                         deleted, line, begun, appended, fault>>
      BY <1>4, <2>2 DEF TakeSpare
    <3>2. content' \in Seq(Seq(Nat)) /\ \A b \in Buffers' : Len(content'[b]) <= BufferSize_
      BY <3>1, AllocatedEffect
    <3>3. /\ BackstageBuffers_' \in Seq(Buffers' \cup {Null})
          /\ WriteBuffer' \in Seq(Buffers' \cup {Null})
          /\ Buffers \cup {Null} \subseteq Buffers' \cup {Null} /\ NewBuffer \in Buffers'
          /\ deleted \subseteq Buffers'
      BY <1>0, <3>1, AllocatedTypes
    <3>4. hand' \in [Callers -> Buffers' \cup {Null}]
      BY <3>1, <3>3
    <3>5. \A d \in Callers : place'[d] = "put" => hand'[d] # Null
      BY <3>1
    <3>6. AsyncTypeOK'
      BY <1>0, <3>1, <3>2, <3>3
    <3> QED
      BY <1>0, <3>1, <3>2, <3>3, <3>4, <3>5, <3>6
  <2> QED
    BY <2>1, <2>2
<1>5. CASE Refill(c)
  BY <1>0, <1>5 DEF Refill, Deletes, Buffers, Null
<1>8. CASE ReadSpare(c)
  BY <1>0, <1>8 DEF ReadSpare, bufferVars, Buffers
<1>9. CASE ReleaseSpare(c)
  BY <1>0, <1>9 DEF ReleaseSpare, Buffers
<1>6. CASE GetReception(c)
  BY <1>0, <1>6 DEF GetReception, bufferVars, Buffers
<1>7. CASE PutLine(c)
  <2>1. CASE hand[c] \in deleted
    BY <1>0, <1>7, <2>1 DEF PutLine, Buffers
  <2>2. CASE hand[c] \notin deleted
    <3>0. /\ appended' = Append(appended, line[c]) /\ place' = [place EXCEPT ![c] = "idle"]
          /\ UNCHANGED <<Receptionbuffer_, SpareBuffer_, BackstageBuffers_, deleted, hand, line,
                         begun, fault>>
      BY <1>7, <2>2 DEF PutLine
    <3>2. hand[c] \in Buffers /\ line[c] \in Nat
      BY <1>7 DEF PutLine
    <3>1. /\ appended' \in Seq(Nat)
          /\ place' \in [Callers -> {"idle", "test", "move", "get", "put"} \cup Refilling]
          /\ \A d \in Callers : place'[d] = "put" => hand'[d] # Null
      <4>1. appended' \in Seq(Nat)
        BY <3>0, <3>2
      <4> QED
        BY <3>0, <4>1
    <3>3. CASE Len(content[hand[c]]) < BufferSize_
      <4>1. content' = [content EXCEPT ![hand[c]] = Append(content[hand[c]], line[c])]
        BY <1>7, <2>2, <3>3 DEF PutLine
      <4>2. content[hand[c]] \in Seq(Nat) /\ Append(content[hand[c]], line[c]) \in Seq(Nat)
            /\ Len(Append(content[hand[c]], line[c])) = Len(content[hand[c]]) + 1
            /\ Len(content[hand[c]]) \in Nat
        BY <3>2 DEF Buffers
      <4>3. content' \in Seq(Seq(Nat)) /\ Buffers' = Buffers
        BY <3>2, <4>1, <4>2 DEF Buffers
      <4>4. \A b \in Buffers : Len(content'[b]) <= BufferSize_
        <5>1. BufferSize_ \in Nat
          BY AsyncAssumption
        <5> QED
          BY <3>2, <3>3, <4>1, <4>2, <5>1 DEF Buffers
      <4>5. UNCHANGED SecondaryBuffer_
        BY <1>7, <2>2, <3>3 DEF PutLine
      <4> QED
        BY <1>0, <3>0, <3>1, <4>3, <4>4, <4>5
    <3>4. CASE ~(Len(content[hand[c]]) < BufferSize_)
      <4>1. SecondaryBuffer_' = Append(SecondaryBuffer_, line[c]) /\ UNCHANGED content
        BY <1>7, <2>2, <3>4 DEF PutLine
      <4>2. SecondaryBuffer_' \in Seq(Nat)
        BY <3>2, <4>1
      <4> QED
        BY <1>0, <3>0, <3>1, <4>1, <4>2 DEF Buffers
    <3> QED
      BY <3>3, <3>4
  <2> QED
    BY <2>1, <2>2
<1> QED
  BY <1>1, <1>2, <1>3, <1>4, <1>5, <1>6, <1>7, <1>8, <1>9 DEF CallerStep

LEMMA WriterTypes ==
    ASSUME AsyncTypes, LoopStep
    PROVE  AsyncTypes'
<1> USE DEF AsyncTypes, AsyncTypeOK, At, Dies
<1>0. UNCHANGED <<place, hand, line, begun, appended>>
  BY DEF LoopStep, callerVars
<1>1. CASE LoopBegins
  BY <1>0, <1>1 DEF LoopBegins, bufferVars, Buffers
<1>2. CASE SwapOrEnd
  BY <1>0, <1>2 DEF SwapOrEnd, Buffers
<1>3. CASE RefillSpare
  <2>1. /\ Allocated /\ SpareBuffer_' = NewBuffer /\ back' = "reception"
        /\ deleted' = deleted \cup ({SpareBuffer_} \ {Null})
        /\ UNCHANGED <<Receptionbuffer_, BackstageBuffers_, SecondaryBuffer_,
                       WriteBuffer, written, fault>>
    BY <1>3 DEF RefillSpare, Deletes
  <2>2. content' \in Seq(Seq(Nat)) /\ \A b \in Buffers' : Len(content'[b]) <= BufferSize_
    BY <2>1, AllocatedEffect
  <2>3. /\ BackstageBuffers_' \in Seq(Buffers' \cup {Null})
        /\ WriteBuffer' \in Seq(Buffers' \cup {Null})
        /\ Buffers \cup {Null} \subseteq Buffers' \cup {Null} /\ NewBuffer \in Buffers'
        /\ deleted \subseteq Buffers'
    BY <2>1, AllocatedTypes
  <2>4. hand' \in [Callers -> Buffers' \cup {Null}]
    BY <1>0, <2>3
  <2>5. AsyncTypeOK' /\ deleted' \subseteq Buffers'
    BY <1>0, <2>1, <2>2, <2>3
  <2> QED
    BY <1>0, <2>1, <2>2, <2>3, <2>4, <2>5
<1>9. CASE TestSpare
  BY <1>0, <1>9 DEF TestSpare, bufferVars, Buffers
<1>4. CASE TestReception
  BY <1>0, <1>4 DEF TestReception, bufferVars, Buffers
<1>5. CASE RefillReception
  <2>1. /\ Allocated /\ Receptionbuffer_' = NewBuffer /\ back' = "write"
        /\ deleted' = deleted \cup ({Receptionbuffer_} \ {Null})
        /\ UNCHANGED <<SpareBuffer_, BackstageBuffers_, SecondaryBuffer_,
                       WriteBuffer, written, fault>>
    BY <1>5 DEF RefillReception, Deletes
  <2>2. content' \in Seq(Seq(Nat)) /\ \A b \in Buffers' : Len(content'[b]) <= BufferSize_
    BY <2>1, AllocatedEffect
  <2>3. /\ BackstageBuffers_' \in Seq(Buffers' \cup {Null})
        /\ WriteBuffer' \in Seq(Buffers' \cup {Null})
        /\ Buffers \cup {Null} \subseteq Buffers' \cup {Null} /\ NewBuffer \in Buffers'
        /\ deleted \subseteq Buffers'
    BY <2>1, AllocatedTypes
  <2>4. hand' \in [Callers -> Buffers' \cup {Null}]
    BY <1>0, <2>3
  <2>5. AsyncTypeOK' /\ deleted' \subseteq Buffers'
    BY <1>0, <2>1, <2>2, <2>3
  <2> QED
    BY <1>0, <2>1, <2>2, <2>3, <2>4, <2>5
<1>6. CASE WriteLines
  <2>1. CASE ToSet(WriteBuffer) \cap deleted # {}
    BY <1>0, <1>6, <2>1 DEF WriteLines, Buffers
  <2>2. CASE ToSet(WriteBuffer) \cap deleted = {}
    <3>1. /\ written' = written \o Lines(WriteBuffer)
          /\ content' = [b \in Buffers |-> IF b \in ToSet(WriteBuffer) THEN <<>> ELSE content[b]]
      BY <1>6, <2>2 DEF WriteLines
    <3>2. Lines(WriteBuffer) \in Seq(Nat)
      BY LinesAre, LinesType DEF Buffers
    <3>3. written' \in Seq(Nat)
      BY <3>1, <3>2
    <3>4. content' \in Seq(Seq(Nat)) /\ Buffers' = Buffers
      <4>1. Buffers = 1..Len(content) /\ Len(content) \in Nat
        BY DEF Buffers
      <4>2. \A b \in Buffers : (IF b \in ToSet(WriteBuffer) THEN <<>> ELSE content[b]) \in Seq(Nat)
        BY <4>1
      <4>3. content' \in [1..Len(content) -> Seq(Nat)]
        BY <3>1, <4>1, <4>2
      <4>4. content' \in Seq(Seq(Nat)) /\ DOMAIN content' = 1..Len(content)
        BY <4>1, <4>3, FunctionIsSeq
      <4> QED
        BY <4>1, <4>4 DEF Buffers
    <3>5. \A b \in Buffers : Len(content'[b]) <= BufferSize_
      <4>1. Len(<<>>) = 0 /\ BufferSize_ \in Nat
        BY AsyncAssumption
      <4> QED
        BY <3>1, <4>1
    <3> QED
      BY <1>0, <1>6, <2>2, <3>3, <3>4, <3>5 DEF WriteLines
  <2> QED
    BY <2>1, <2>2
<1>7. CASE ClearWriteBuffer
  <2>1. ToSet(WriteBuffer) \ {Null} \subseteq Buffers
    BY DEF ToSet
  <2> QED
    BY <1>0, <1>7, <2>1 DEF ClearWriteBuffer, Buffers
<1>8. CASE WriteSecondary
  BY <1>0, <1>8 DEF WriteSecondary, Buffers
<1> QED
  BY <1>1, <1>2, <1>3, <1>4, <1>5, <1>6, <1>7, <1>8, <1>9 DEF LoopStep

LEMMA AsyncStepTypes ==
    ASSUME AsyncTypes, [AsyncNext]_asyncVars
    PROVE  AsyncTypes'
<1>1. CASE UNCHANGED asyncVars
  BY <1>1 DEF asyncVars, bufferVars, callerVars, loopVars, AsyncTypes, AsyncTypeOK, Buffers
<1>2. CASE Destroy \/ JoinReturns
  BY <1>2 DEF Destroy, JoinReturns, bufferVars, callerVars, loopVars, AsyncTypes, AsyncTypeOK,
              Buffers
<1> QED
  BY <1>1, <1>2, CallerTypes, WriterTypes DEF AsyncNext

-----------------------------------------------------------------------------
(* AsyncLog: every line once, in order, while nothing has raced.            *)

(* A buffer that exists; a caller inside append().                          *)
Live(b) == b \in Buffers \ deleted
Inside(c) == place[c] # "idle"

(* One append() at a time; Receptionbuffer_ is null only while it is being  *)
(* replaced, by a buffer that is empty and in no list; a spare buffer that  *)
(* append() has found is there until append() clears the pointer.           *)
CallersInv ==
    /\ \A c, d \in Callers : Inside(c) /\ Inside(d) => c = d
    /\ Receptionbuffer_ = Null <=> \E c \in Callers : place[c] \in Refilling
    /\ \A c \in Callers :
          /\ place[c] = "move" => Len(content[Receptionbuffer_]) = BufferSize_
          /\ place[c] \in {"get", "put"} => Len(content[Receptionbuffer_]) < BufferSize_
          /\ place[c] = "put" => hand[c] = Receptionbuffer_
          /\ place[c] \in {"read", "release"} => SpareBuffer_ # Null
          /\ place[c] = "release" => hand[c] = SpareBuffer_
          /\ place[c] = "refill" => /\ Live(hand[c]) /\ content[hand[c]] = <<>>
                                    /\ hand[c] # SpareBuffer_
                                    /\ hand[c] \notin ToSet(BackstageBuffers_)
                                    /\ hand[c] \notin ToSet(WriteBuffer)

(* Nobody holds a deleted buffer, and nobody's buffer is another's.         *)
BuffersInv ==
    /\ Receptionbuffer_ # Null => Live(Receptionbuffer_)
    /\ SpareBuffer_ # Null => /\ Live(SpareBuffer_) /\ content[SpareBuffer_] = <<>>
                              /\ SpareBuffer_ # Receptionbuffer_
    /\ \A b \in ToSet(BackstageBuffers_) :
          Live(b) /\ b # Receptionbuffer_ /\ b # SpareBuffer_ /\ b \notin ToSet(WriteBuffer)
    /\ \A b \in ToSet(WriteBuffer) : Live(b) /\ b # Receptionbuffer_ /\ b # SpareBuffer_

(* What loop() holds between two of its steps.                              *)
WriterInv ==
    /\ back # "refill" /\ SecondaryBuffer_ = <<>>
    /\ back = "fill" => SpareBuffer_ = Null
    /\ back \in {"start", "swap", "secondary", "end"} => WriteBuffer = <<>>
    /\ back = "clear" => \A b \in ToSet(WriteBuffer) : content[b] = <<>>

Orderly == CallersInv /\ BuffersInv /\ WriterInv /\ fault = "none" /\ Stream = appended

AsyncInv == AsyncTypes /\ (raced \/ Orderly)

LEMMA ConcatAppend ==
    ASSUME NEW S, NEW a \in Seq(S), NEW b \in Seq(S), NEW x \in S
    PROVE  a \o Append(b, x) = Append(a \o b, x)
  OBVIOUS

LEMMA ToSetNone == ToSet(<<>>) = {}
  BY DEF ToSet

LEMMA ToSetAppend ==
    ASSUME NEW S, NEW s \in Seq(S), NEW x \in S
    PROVE  ToSet(Append(s, x)) = ToSet(s) \cup {x}
<1>1. /\ DOMAIN Append(s, x) = 1..(Len(s) + 1) /\ DOMAIN s = 1..Len(s) /\ Len(s) \in Nat
      /\ Append(s, x)[Len(s) + 1] = x /\ \A i \in 1..Len(s) : Append(s, x)[i] = s[i]
  OBVIOUS
<1>2. 1..(Len(s) + 1) = 1..Len(s) \cup {Len(s) + 1}
  BY <1>1
<1> QED
  BY <1>1, <1>2 DEF ToSet

LEMMA ToSetElements ==
    ASSUME NEW S, NEW s \in Seq(S)
    PROVE  ToSet(s) \subseteq S /\ \A i \in 1..Len(s) : s[i] \in ToSet(s)
  BY DEF ToSet

(* Buffers are numbers, and Null is none of them.                           *)
LEMMA BufferNumbers ==
    ASSUME AsyncTypes
    PROVE  /\ Buffers = 1..Len(content) /\ Len(content) \in Nat
           /\ Null \notin Buffers /\ Buffers \cup {Null} \subseteq Nat
           /\ Receptionbuffer_ \in Nat /\ BackstageBuffers_ \in Seq(Nat) /\ WriteBuffer \in Seq(Nat)
           /\ ToSet(BackstageBuffers_) \subseteq Buffers \cup {Null}
           /\ ToSet(WriteBuffer) \subseteq Buffers \cup {Null}
<1>1. Buffers = 1..Len(content) /\ Len(content) \in Nat
  BY DEF AsyncTypes, Buffers
<1>2. Null \notin Buffers /\ Buffers \cup {Null} \subseteq Nat
  BY <1>1 DEF Null
<1>3. /\ BackstageBuffers_ \in Seq(Buffers \cup {Null}) /\ WriteBuffer \in Seq(Buffers \cup {Null})
      /\ Receptionbuffer_ \in Buffers \cup {Null}
  BY DEF AsyncTypes, AsyncTypeOK
<1>4. BackstageBuffers_ \in Seq(Nat) /\ WriteBuffer \in Seq(Nat)
  BY <1>2, <1>3, SeqGrows
<1>5. /\ ToSet(BackstageBuffers_) \subseteq Buffers \cup {Null}
      /\ ToSet(WriteBuffer) \subseteq Buffers \cup {Null}
  BY <1>3, ToSetElements
<1> QED
  BY <1>1, <1>2, <1>3, <1>4, <1>5

LEMMA LinesTypes ==
    ASSUME AsyncTypes
    PROVE  /\ Lines(WriteBuffer) \in Seq(Nat) /\ Lines(BackstageBuffers_) \in Seq(Nat)
           /\ Lines(<<Receptionbuffer_>>) \in Seq(Nat)
           /\ Lines(<<Receptionbuffer_>>)
                = IF Receptionbuffer_ = Null THEN <<>> ELSE content[Receptionbuffer_]
<1>1. /\ WriteBuffer \in Seq(DOMAIN content \cup {Null}) /\ content \in Seq(Seq(Nat))
      /\ BackstageBuffers_ \in Seq(DOMAIN content \cup {Null})
      /\ Receptionbuffer_ \in DOMAIN content \cup {Null}
  BY DEF AsyncTypes, AsyncTypeOK, Buffers
<1>2. Receptionbuffer_ \in Nat
  BY BufferNumbers
<1>3. Lines(<<Receptionbuffer_>>)
                = IF Receptionbuffer_ = Null THEN <<>> ELSE content[Receptionbuffer_]
  BY <1>2, LinesAre, LinesOne
<1>4. Lines(<<Receptionbuffer_>>) \in Seq(Nat)
  <2>1. Receptionbuffer_ # Null => content[Receptionbuffer_] \in Seq(Nat)
    BY <1>1
  <2>2. <<>> \in Seq(Nat)
    OBVIOUS
  <2> QED
    BY <1>3, <2>1, <2>2, Zenon
<1> QED
  BY <1>1, <1>3, <1>4, LinesAre, LinesType

(* The lines of buffers whose content stays as it was.                      *)
LEMMA LinesKept ==
    ASSUME NEW bs \in Seq(Nat), \A b \in ToSet(bs) : b # Null => content'[b] = content[b]
    PROVE  LinesOf(content', bs) = Lines(bs)
<1>1. \A i \in 1..Len(bs) : bs[i] # Null => content'[bs[i]] = content[bs[i]]
  BY ToSetElements
<1> QED
  BY <1>1, LinesAre, LinesSame

LEMMA StreamKept ==
    ASSUME AsyncTypes, UNCHANGED <<written, WriteBuffer, BackstageBuffers_, Receptionbuffer_>>,
           \A b \in ToSet(WriteBuffer) \cup ToSet(BackstageBuffers_) \cup {Receptionbuffer_} :
              b # Null => content'[b] = content[b]
    PROVE  Stream' = Stream
<1>1. /\ WriteBuffer \in Seq(Nat) /\ BackstageBuffers_ \in Seq(Nat) /\ Receptionbuffer_ \in Nat
  BY BufferNumbers
<1>2. <<Receptionbuffer_>> \in Seq(Nat) /\ ToSet(<<Receptionbuffer_>>) = {Receptionbuffer_}
  BY <1>1 DEF ToSet
<1>3. /\ Lines(WriteBuffer)' = Lines(WriteBuffer)
      /\ Lines(BackstageBuffers_)' = Lines(BackstageBuffers_)
      /\ Lines(<<Receptionbuffer_>>)' = Lines(<<Receptionbuffer_>>)
  <2>1. /\ Lines(WriteBuffer)' = LinesOf(content', WriteBuffer)
        /\ Lines(BackstageBuffers_)' = LinesOf(content', BackstageBuffers_)
        /\ Lines(<<Receptionbuffer_>>)' = LinesOf(content', <<Receptionbuffer_>>)
    BY DEF Lines, LinesOf
  <2> QED
    BY <1>1, <1>2, <2>1, LinesKept
<1> QED
  BY <1>3 DEF Stream

(* The steps of append().                                                   *)
LEMMA CallerOrder ==
    ASSUME AsyncTypes, AsyncTypes', Orderly, NEW c \in Callers, CallerStep(c), ~raced'
    PROVE  Orderly'
<1>0. /\ UNCHANGED <<WriteBuffer, written, back>>
      /\ place \in [Callers -> {"idle", "test", "move", "get", "put"} \cup Refilling]
      /\ hand \in [Callers -> Buffers \cup {Null}]
      /\ Null \notin Buffers /\ deleted \subseteq Buffers
      /\ ToSet(BackstageBuffers_) \subseteq Buffers \cup {Null}
      /\ ToSet(WriteBuffer) \subseteq Buffers \cup {Null}
  BY BufferNumbers DEF CallerStep, loopVars, AsyncTypes, AsyncTypeOK
<1>a. /\ CallersInv /\ BuffersInv /\ WriterInv /\ fault = "none" /\ Stream = appended
  BY DEF Orderly
<1> USE DEF Move, Inside, Live, Refilling
<1>1. CASE AppendCalled(c)
  <2>1. /\ place[c] = "idle" /\ place' = [place EXCEPT ![c] = "test"]
        /\ raced' = (raced \/ \E d \in Callers \ {c} : place[d] # "idle")
        /\ UNCHANGED <<bufferVars, hand, appended, fault>>
    BY <1>1 DEF AppendCalled
  <2>2. \A d \in Callers \ {c} : place[d] = "idle"
    BY <2>1
  <2>3. CallersInv'
    BY <1>0, <1>a, <2>1, <2>2 DEF CallersInv, bufferVars, Buffers
  <2>4. BuffersInv' /\ WriterInv'
    BY <1>0, <1>a, <2>1 DEF BuffersInv, WriterInv, bufferVars, Buffers
  <2>5. Stream' = Stream
    BY <1>0, <2>1, StreamKept DEF bufferVars
  <2> QED
    BY <1>a, <2>1, <2>3, <2>4, <2>5 DEF Orderly
<1>2. CASE TestFull(c)
  <2>1. place[c] = "test" /\ UNCHANGED <<bufferVars, hand, appended>>
    BY <1>2 DEF TestFull
  <2>2. Receptionbuffer_ # Null
    BY <1>0, <1>a, <2>1 DEF CallersInv
  <2>3. Receptionbuffer_ \in Buffers \ deleted
    BY <1>a, <2>2 DEF BuffersInv
  <2>4. /\ UNCHANGED fault
        /\ place' = [place EXCEPT ![c] = IF Len(content[Receptionbuffer_]) = BufferSize_
                                         THEN "move" ELSE "get"]
    BY <1>2, <2>3 DEF TestFull
  <2>5. Len(content[Receptionbuffer_]) # BufferSize_ => Len(content[Receptionbuffer_]) < BufferSize_
    <3>1. Len(content[Receptionbuffer_]) <= BufferSize_ /\ content[Receptionbuffer_] \in Seq(Nat)
      BY <2>3 DEF AsyncTypes, AsyncTypeOK, Buffers
    <3>2. Len(content[Receptionbuffer_]) \in Nat /\ BufferSize_ \in Nat
      BY <3>1, AsyncAssumption
    <3> QED
      BY <3>1, <3>2
  <2>6. CallersInv'
    BY <1>0, <1>a, <2>1, <2>4, <2>5 DEF CallersInv, bufferVars, Buffers
  <2>7. BuffersInv' /\ WriterInv'
    BY <1>0, <1>a, <2>1 DEF BuffersInv, WriterInv, bufferVars, Buffers
  <2>8. Stream' = Stream
    BY <1>0, <2>1, StreamKept DEF bufferVars
  <2> QED
    BY <1>a, <2>1, <2>4, <2>6, <2>7, <2>8 DEF Orderly
<1>3. CASE MoveToBackstage(c)
  <2>1. /\ place[c] = "move" /\ place' = [place EXCEPT ![c] = "spare"]
        /\ BackstageBuffers_' = Append(BackstageBuffers_, Receptionbuffer_)
        /\ Receptionbuffer_' = Null
        /\ UNCHANGED <<SpareBuffer_, SecondaryBuffer_, content, deleted, hand, appended, fault>>
    BY <1>3 DEF MoveToBackstage
  <2>2. Receptionbuffer_ # Null
    BY <1>0, <1>a, <2>1 DEF CallersInv
  <2>3. Receptionbuffer_ \in Buffers \ deleted
    BY <1>a, <2>2 DEF BuffersInv
  <2>4. ToSet(BackstageBuffers_)' = ToSet(BackstageBuffers_) \cup {Receptionbuffer_}
    <3>1. BackstageBuffers_ \in Seq(Buffers \cup {Null})
      BY DEF AsyncTypes, AsyncTypeOK
    <3> QED
      BY <2>1, <2>3, <3>1, ToSetAppend
  <2>5. CallersInv'
    <3>1. \A d \in Callers : d # c => place'[d] = "idle"
      BY <1>0, <1>a, <2>1 DEF CallersInv
    <3> QED
      BY <1>0, <2>1, <3>1 DEF CallersInv
  <2>6. BuffersInv'
    BY <1>0, <1>a, <2>1, <2>2, <2>3, <2>4 DEF BuffersInv, Buffers
  <2>7. WriterInv'
    BY <1>0, <1>a, <2>1 DEF WriterInv
  <2>8. Stream' = Stream
    <3>0. LinesOf(content, Append(BackstageBuffers_, Receptionbuffer_))
             = LinesOf(content, BackstageBuffers_) \o content[Receptionbuffer_]
      BY <2>3, LinesAppend DEF AsyncTypes, AsyncTypeOK, Buffers
    <3>1. Lines(BackstageBuffers_)' = Lines(BackstageBuffers_) \o content[Receptionbuffer_]
      <4>1. Lines(BackstageBuffers_)' = LinesOf(content, Append(BackstageBuffers_, Receptionbuffer_))
        BY <2>1 DEF Lines, LinesOf
      <4> QED
        BY <3>0, <4>1, LinesAre
    <3>2. Lines(WriteBuffer)' = Lines(WriteBuffer)
      BY <1>0, <2>1 DEF Lines
    <3>3. Lines(<<Receptionbuffer_>>)' = <<>>
      <4>1. Lines(<<Receptionbuffer_>>)' = LinesOf(content, <<Null>>)
        BY <2>1 DEF Lines, LinesOf
      <4>2. Null \in Nat
        BY DEF Null
      <4> QED
        BY <4>1, <4>2, LinesOne
    <3>4. Lines(<<Receptionbuffer_>>) = content[Receptionbuffer_]
      BY <2>2, LinesTypes
    <3>5. /\ Lines(WriteBuffer) \in Seq(Nat) /\ Lines(BackstageBuffers_) \in Seq(Nat)
          /\ content[Receptionbuffer_] \in Seq(Nat) /\ written \in Seq(Nat)
      BY <3>4, LinesTypes DEF AsyncTypes
    <3> DEFINE w == written
               l == Lines(WriteBuffer)
               b == Lines(BackstageBuffers_)
               r == content[Receptionbuffer_]
    <3>6. Stream = ((w \o l) \o b) \o r
      BY <3>4 DEF Stream
    <3>7. Stream' = ((w \o l) \o (b \o r)) \o <<>>
      BY <1>0, <3>1, <3>2, <3>3 DEF Stream
    <3> HIDE DEF w, l, b, r
    <3>8. w \in Seq(Nat) /\ l \in Seq(Nat) /\ b \in Seq(Nat) /\ r \in Seq(Nat)
      BY <3>5 DEF w, l, b, r
    <3>9. ((w \o l) \o (b \o r)) \o <<>> = ((w \o l) \o b) \o r
      <4> HIDE DEF Move
      <4> QED
        BY <3>8
    <3> QED
      BY <3>6, <3>7, <3>9
  <2> QED
    BY <1>a, <2>1, <2>5, <2>6, <2>7, <2>8 DEF Orderly
<1>8. CASE TakeSpare(c) /\ SpareBuffer_ # Null
  <2>1. /\ place[c] = "spare" /\ place' = [place EXCEPT ![c] = "read"]
        /\ UNCHANGED <<bufferVars, hand, appended, fault>>
    BY <1>8 DEF TakeSpare, bufferVars
  <2>2. CallersInv'
    <3>1. \A d \in Callers : d # c => place'[d] = "idle"
      BY <1>0, <1>a, <2>1 DEF CallersInv
    <3>2. Receptionbuffer_ = Null /\ place'[c] = "read"
      BY <1>0, <1>a, <2>1 DEF CallersInv
    <3> QED
      BY <1>0, <1>8, <2>1, <3>1, <3>2 DEF CallersInv, bufferVars
  <2>3. BuffersInv' /\ WriterInv'
    BY <1>0, <1>a, <2>1 DEF BuffersInv, WriterInv, bufferVars, Buffers
  <2>4. Stream' = Stream
    BY <1>0, <2>1, StreamKept DEF bufferVars
  <2> QED
    BY <1>a, <2>1, <2>2, <2>3, <2>4 DEF Orderly
<1>9. CASE ReadSpare(c)
  <2>1. /\ place[c] = "read" /\ place' = [place EXCEPT ![c] = "release"]
        /\ hand' = [hand EXCEPT ![c] = SpareBuffer_]
        /\ UNCHANGED <<bufferVars, appended, fault>>
    BY <1>9 DEF ReadSpare
  <2>2. CallersInv'
    <3>1. \A d \in Callers : d # c => place'[d] = "idle"
      BY <1>0, <1>a, <2>1 DEF CallersInv
    <3>2. /\ Receptionbuffer_ = Null /\ SpareBuffer_ # Null
          /\ place'[c] = "release" /\ hand'[c] = SpareBuffer_
      BY <1>0, <1>a, <2>1 DEF CallersInv
    <3> QED
      BY <1>0, <2>1, <3>1, <3>2 DEF CallersInv, bufferVars
  <2>3. BuffersInv' /\ WriterInv'
    BY <1>0, <1>a, <2>1 DEF BuffersInv, WriterInv, bufferVars, Buffers
  <2>4. Stream' = Stream
    BY <1>0, <2>1, StreamKept DEF bufferVars
  <2> QED
    BY <1>a, <2>1, <2>2, <2>3, <2>4 DEF Orderly
<1>10. CASE ReleaseSpare(c)
  <2>1. /\ place[c] = "release" /\ place' = [place EXCEPT ![c] = "refill"]
        /\ SpareBuffer_' = Null
        /\ UNCHANGED <<Receptionbuffer_, BackstageBuffers_, SecondaryBuffer_, content, deleted,
                       hand, appended, fault>>
    BY <1>10 DEF ReleaseSpare
  <2>2. Receptionbuffer_ = Null /\ SpareBuffer_ # Null /\ hand[c] = SpareBuffer_
    BY <1>0, <1>a, <2>1 DEF CallersInv
  <2>3. /\ hand[c] \in Buffers \ deleted /\ content[hand[c]] = <<>>
        /\ hand[c] \notin ToSet(BackstageBuffers_) /\ hand[c] \notin ToSet(WriteBuffer)
        /\ hand[c] # Null
    BY <1>0, <1>a, <2>2 DEF BuffersInv
  <2>4. CallersInv'
    <3>1. \A d \in Callers : d # c => place'[d] = "idle"
      BY <1>0, <1>a, <2>1 DEF CallersInv
    <3>2. place'[c] = "refill" /\ Receptionbuffer_' = Null
      BY <1>0, <2>1, <2>2
    <3>3. UNCHANGED <<Buffers, ToSet(BackstageBuffers_), ToSet(WriteBuffer)>>
      BY <1>0, <2>1 DEF Buffers
    <3> QED
      BY <1>0, <2>1, <2>3, <3>1, <3>2, <3>3 DEF CallersInv
  <2>5. BuffersInv'
    <3>1. Null \notin ToSet(BackstageBuffers_) /\ Null \notin ToSet(WriteBuffer)
      BY <1>0, <1>a DEF BuffersInv
    <3>2. UNCHANGED <<Buffers, ToSet(BackstageBuffers_), ToSet(WriteBuffer)>>
      BY <1>0, <2>1 DEF Buffers
    <3> QED
      BY <1>0, <1>a, <2>1, <3>1, <3>2 DEF BuffersInv
  <2>6. WriterInv'
    BY <1>0, <1>a, <2>1 DEF WriterInv
  <2>7. Stream' = Stream
    BY <1>0, <2>1, StreamKept
  <2> QED
    BY <1>a, <2>1, <2>4, <2>5, <2>6, <2>7 DEF Orderly
<1>4. CASE TakeSpare(c) /\ SpareBuffer_ = Null
  <2>1. /\ place[c] = "spare" /\ place' = [place EXCEPT ![c] = "refill"]
        /\ UNCHANGED <<Receptionbuffer_, SpareBuffer_, BackstageBuffers_, SecondaryBuffer_,
                       deleted, appended, fault>>
    BY <1>4 DEF TakeSpare
  <2>2. Receptionbuffer_ = Null
    BY <1>0, <1>a, <2>1 DEF CallersInv
  <2>3. /\ Buffers \subseteq Buffers' /\ \A b \in Buffers : content'[b] = content[b]
        /\ \E h \in Buffers' \ deleted :
              /\ hand' = [hand EXCEPT ![c] = h] /\ content'[h] = <<>>
              /\ h \notin ToSet(BackstageBuffers_) /\ h \notin ToSet(WriteBuffer) /\ h # Null
    <3>1. Allocated /\ hand' = [hand EXCEPT ![c] = NewBuffer]
      BY <1>4 DEF TakeSpare
    <3>2. /\ NewBuffer \in Nat \ {0} /\ NewBuffer \notin Buffers
          /\ Buffers' = Buffers \cup {NewBuffer} /\ content'[NewBuffer] = <<>>
          /\ \A b \in Buffers : content'[b] = content[b]
      BY <3>1, AllocatedEffect
    <3>3. NewBuffer \notin Buffers \cup {Null}
      BY <3>2 DEF Null
    <3> QED
      BY <1>0, <3>1, <3>2, <3>3
  <2>4. PICK h \in Buffers' \ deleted :
              /\ hand' = [hand EXCEPT ![c] = h] /\ content'[h] = <<>>
              /\ h \notin ToSet(BackstageBuffers_) /\ h \notin ToSet(WriteBuffer) /\ h # Null
    BY <2>3
  <2>5. CallersInv'
    <3>1. \A d \in Callers : d # c => place'[d] = "idle"
      BY <1>0, <1>a, <2>1 DEF CallersInv
    <3>2. hand'[c] = h /\ place'[c] = "refill" /\ SpareBuffer_' # h
      BY <1>0, <1>4, <2>1, <2>4
    <3> QED
      BY <1>0, <2>1, <2>2, <2>4, <3>1, <3>2 DEF CallersInv
  <2>6. BuffersInv'
    BY <1>0, <1>a, <2>1, <2>3 DEF BuffersInv
  <2>7. WriterInv'
    BY <1>0, <1>a, <2>1, <2>3 DEF WriterInv, BuffersInv
  <2>8. Stream' = Stream
    <3>1. \A b \in ToSet(WriteBuffer) \cup ToSet(BackstageBuffers_) \cup {Receptionbuffer_} :
              b # Null => content'[b] = content[b]
      BY <1>0, <2>2, <2>3
    <3> QED
      BY <1>0, <2>1, <3>1, StreamKept
  <2> QED
    BY <1>a, <2>1, <2>5, <2>6, <2>7, <2>8 DEF Orderly
<1>5. CASE Refill(c)
  <2>1. /\ place[c] = "refill" /\ place' = [place EXCEPT ![c] = "get"]
        /\ deleted' = deleted \cup ({Receptionbuffer_} \ {Null})
        /\ Receptionbuffer_' = hand[c]
        /\ UNCHANGED <<SpareBuffer_, BackstageBuffers_, SecondaryBuffer_, content, hand,
                       appended, fault>>
    BY <1>5 DEF Refill, Deletes
  <2>2. Receptionbuffer_ = Null /\ deleted' = deleted
    BY <1>0, <1>a, <2>1 DEF CallersInv
  <2>3. /\ hand[c] \in Buffers \ deleted /\ content[hand[c]] = <<>>
        /\ hand[c] \notin ToSet(BackstageBuffers_) /\ hand[c] \notin ToSet(WriteBuffer)
        /\ hand[c] # SpareBuffer_
    BY <1>a, <2>1 DEF CallersInv
  <2>4. hand[c] # Null
    BY <1>0, <2>3
  <2>5. CallersInv'
    <3>1. \A d \in Callers : d # c => place'[d] = "idle"
      BY <1>0, <1>a, <2>1 DEF CallersInv
    <3>2. place'[c] = "get" /\ Receptionbuffer_' # Null /\ content'[Receptionbuffer_'] = <<>>
      BY <1>0, <2>1, <2>3, <2>4
    <3>3. Len(<<>>) < BufferSize_
      BY AsyncAssumption
    <3> QED
      BY <1>0, <3>1, <3>2, <3>3 DEF CallersInv
  <2>6. BuffersInv'
    BY <1>0, <1>a, <2>1, <2>2, <2>3, <2>4 DEF BuffersInv, Buffers
  <2>7. WriterInv'
    BY <1>0, <1>a, <2>1 DEF WriterInv
  <2>8. Stream' = Stream
    <3>1. Lines(<<Receptionbuffer_>>) = <<>>
      BY <2>2, LinesTypes
    <3>2. Lines(<<Receptionbuffer_>>)' = <<>>
      <4>1. Lines(<<Receptionbuffer_>>)' = LinesOf(content, <<hand[c]>>)
        BY <2>1 DEF Lines, LinesOf
      <4>2. hand[c] \in Nat
        BY <2>3, BufferNumbers
      <4> QED
        BY <2>3, <4>1, <4>2, LinesOne
    <3>3. Lines(WriteBuffer)' = Lines(WriteBuffer) /\ Lines(BackstageBuffers_)' = Lines(BackstageBuffers_)
      BY <1>0, <2>1 DEF Lines
    <3> QED
      BY <1>0, <3>1, <3>2, <3>3 DEF Stream
  <2> QED
    BY <1>a, <2>1, <2>5, <2>6, <2>7, <2>8 DEF Orderly
<1>6. CASE GetReception(c)
  <2>1. place[c] = "get" /\ UNCHANGED <<bufferVars, appended>>
    BY <1>6 DEF GetReception
  <2>2. Receptionbuffer_ # Null
    BY <1>0, <1>a, <2>1 DEF CallersInv
  <2>3. /\ UNCHANGED fault /\ place' = [place EXCEPT ![c] = "put"]
        /\ hand' = [hand EXCEPT ![c] = Receptionbuffer_]
    BY <1>6, <2>2 DEF GetReception
  <2>4. CallersInv'
    BY <1>0, <1>a, <2>1, <2>3 DEF CallersInv, bufferVars, Buffers
  <2>5. BuffersInv' /\ WriterInv'
    BY <1>0, <1>a, <2>1 DEF BuffersInv, WriterInv, bufferVars, Buffers
  <2>6. Stream' = Stream
    BY <1>0, <2>1, StreamKept DEF bufferVars
  <2> QED
    BY <1>a, <2>1, <2>3, <2>4, <2>5, <2>6 DEF Orderly
<1>7. CASE PutLine(c)
  <2>0. place[c] = "put" /\ hand[c] = Receptionbuffer_ /\ Receptionbuffer_ # Null
    BY <1>0, <1>7, <1>a DEF PutLine, CallersInv
  <2>1. /\ Receptionbuffer_ \in Buffers \ deleted
        /\ Len(content[Receptionbuffer_]) < BufferSize_
    BY <1>a, <2>0 DEF CallersInv, BuffersInv
  <2>2. /\ content' = [content EXCEPT ![Receptionbuffer_] = Append(content[Receptionbuffer_], line[c])]
        /\ appended' = Append(appended, line[c])
        /\ place' = [place EXCEPT ![c] = "idle"]
        /\ UNCHANGED <<Receptionbuffer_, SpareBuffer_, SecondaryBuffer_, BackstageBuffers_,
                       deleted, hand, fault>>
    BY <1>7, <2>0, <2>1 DEF PutLine
  <2>3. /\ Buffers' = Buffers /\ \A b \in Buffers : b # Receptionbuffer_ => content'[b] = content[b]
        /\ content'[Receptionbuffer_] = Append(content[Receptionbuffer_], line[c])
    BY <2>1, <2>2 DEF Buffers
  <2>4. CallersInv'
    <3>1. \A d \in Callers : place'[d] = "idle"
      BY <1>0, <1>a, <2>0, <2>2 DEF CallersInv
    <3> QED
      BY <2>0, <2>2, <3>1 DEF CallersInv
  <2>5. BuffersInv'
    BY <1>0, <1>a, <2>2, <2>3 DEF BuffersInv
  <2>6. WriterInv'
    BY <1>0, <1>a, <2>2, <2>3 DEF WriterInv, BuffersInv
  <2>7. Stream' = Append(Stream, line[c])
    <3>0. \A b \in ToSet(WriteBuffer) \cup ToSet(BackstageBuffers_) :
             b # Null => content'[b] = content[b]
      BY <1>0, <1>a, <2>3 DEF BuffersInv
    <3>1. Lines(WriteBuffer)' = Lines(WriteBuffer) /\ Lines(BackstageBuffers_)' = Lines(BackstageBuffers_)
      <4>1. /\ Lines(WriteBuffer)' = LinesOf(content', WriteBuffer)
            /\ Lines(BackstageBuffers_)' = LinesOf(content', BackstageBuffers_)
        BY <1>0, <2>2 DEF Lines, LinesOf
      <4>2. WriteBuffer \in Seq(Nat) /\ BackstageBuffers_ \in Seq(Nat)
        BY BufferNumbers
      <4> QED
        BY <3>0, <4>1, <4>2, LinesKept
    <3>2. Lines(<<Receptionbuffer_>>) = content[Receptionbuffer_]
      BY <2>0, LinesTypes
    <3>3. Lines(<<Receptionbuffer_>>)' = Append(content[Receptionbuffer_], line[c])
      <4>1. Lines(<<Receptionbuffer_>>)' = LinesOf(content', <<Receptionbuffer_>>)
        BY <2>2 DEF Lines, LinesOf
      <4>2. Receptionbuffer_ \in Nat
        BY BufferNumbers
      <4> QED
        BY <2>0, <2>3, <4>1, <4>2, LinesOne
    <3>4. /\ Lines(WriteBuffer) \in Seq(Nat) /\ Lines(BackstageBuffers_) \in Seq(Nat)
          /\ content[Receptionbuffer_] \in Seq(Nat) /\ written \in Seq(Nat) /\ line[c] \in Nat
      BY <3>2, LinesTypes DEF AsyncTypes
    <3> DEFINE w == written
               l == Lines(WriteBuffer)
               b == Lines(BackstageBuffers_)
               r == content[Receptionbuffer_]
    <3>5. Stream = ((w \o l) \o b) \o r
      BY <3>2 DEF Stream
    <3>6. Stream' = ((w \o l) \o b) \o Append(r, line[c])
      BY <1>0, <3>1, <3>3 DEF Stream
    <3> HIDE DEF w, l, b, r
    <3>7. w \in Seq(Nat) /\ l \in Seq(Nat) /\ b \in Seq(Nat) /\ r \in Seq(Nat)
      BY <3>4 DEF w, l, b, r
    <3>8. ((w \o l) \o b) \o Append(r, line[c]) = Append(((w \o l) \o b) \o r, line[c])
      <4> DEFINE q == (w \o l) \o b
                 x == line[c]
      <4>1. q \in Seq(Nat)
        BY <3>7
      <4>2. x \in Nat
        BY <3>4
      <4> HIDE DEF q, x
      <4>3. q \o Append(r, x) = Append(q \o r, x)
        BY <3>7, <4>1, <4>2, ConcatAppend
      <4> QED
        BY <4>3 DEF q, x
    <3> QED
      BY <3>5, <3>6, <3>8
  <2> QED
    BY <1>a, <2>2, <2>4, <2>5, <2>6, <2>7 DEF Orderly
<1> QED
  BY <1>1, <1>2, <1>3, <1>4, <1>5, <1>6, <1>7, <1>8, <1>9, <1>10 DEF CallerStep

(* The steps of loop().                                                     *)
LEMMA WriterOrder ==
    ASSUME AsyncTypes, AsyncTypes', Orderly, LoopStep, ~raced'
    PROVE  Orderly'
<1>0. /\ UNCHANGED <<place, hand, line, begun, appended>>
      /\ place \in [Callers -> {"idle", "test", "move", "get", "put"} \cup Refilling]
      /\ hand \in [Callers -> Buffers \cup {Null}]
      /\ Null \notin Buffers /\ deleted \subseteq Buffers
      /\ Receptionbuffer_ \in Buffers \cup {Null} /\ SpareBuffer_ \in Buffers \cup {Null}
      /\ ToSet(BackstageBuffers_) \subseteq Buffers \cup {Null}
      /\ ToSet(WriteBuffer) \subseteq Buffers \cup {Null}
  BY BufferNumbers DEF LoopStep, callerVars, AsyncTypes, AsyncTypeOK
<1>a. /\ CallersInv /\ BuffersInv /\ WriterInv /\ fault = "none" /\ Stream = appended
  BY DEF Orderly
<1> USE DEF At, Inside, Live, Refilling
<1>1. CASE LoopBegins
  <2>1. /\ back = "start" /\ back' = "swap"
        /\ UNCHANGED <<bufferVars, WriteBuffer, written, fault>>
    BY <1>1 DEF LoopBegins
  <2>2. CallersInv' /\ BuffersInv' /\ WriterInv'
    BY <1>0, <1>a, <2>1 DEF CallersInv, BuffersInv, WriterInv, bufferVars, Buffers
  <2>3. Stream' = Stream
    BY <2>1, StreamKept DEF bufferVars
  <2> QED
    BY <1>0, <1>a, <2>1, <2>2, <2>3 DEF Orderly
<1>2. CASE SwapOrEnd
  <2>1. /\ back = "swap" /\ back' \in {"spare", "end"} /\ WriteBuffer = <<>>
        /\ UNCHANGED <<Receptionbuffer_, SpareBuffer_, SecondaryBuffer_, content, deleted,
                       written, fault>>
    BY <1>2, <1>a DEF SwapOrEnd, WriterInv
  <2>2. CASE UNCHANGED <<WriteBuffer, BackstageBuffers_>>
    <3>1. CallersInv' /\ BuffersInv' /\ WriterInv'
      BY <1>0, <1>a, <2>1, <2>2 DEF CallersInv, BuffersInv, WriterInv, Buffers
    <3>2. Stream' = Stream
      BY <2>1, <2>2, StreamKept
    <3> QED
      BY <1>0, <1>a, <2>1, <3>1, <3>2 DEF Orderly
  <2>3. CASE /\ WriteBuffer' = BackstageBuffers_ /\ BackstageBuffers_' = WriteBuffer
             /\ back' = "spare"
    <3>1. BackstageBuffers_' = <<>> /\ ToSet(BackstageBuffers_)' = {} /\ ToSet(WriteBuffer) = {}
          /\ ToSet(WriteBuffer)' = ToSet(BackstageBuffers_)
      BY <2>1, <2>3, ToSetNone
    <3>2. CallersInv' /\ BuffersInv' /\ WriterInv'
      BY <1>0, <1>a, <2>1, <2>3, <3>1 DEF CallersInv, BuffersInv, WriterInv, Buffers
    <3>3. /\ Lines(WriteBuffer)' = Lines(BackstageBuffers_) /\ Lines(BackstageBuffers_)' = <<>>
          /\ Lines(WriteBuffer) = <<>> /\ Lines(<<Receptionbuffer_>>)' = Lines(<<Receptionbuffer_>>)
      <4>1. Lines(WriteBuffer) = <<>>
        BY <2>1, LinesAre, LinesNone
      <4>2. Lines(BackstageBuffers_)' = Lines(WriteBuffer)
        BY <2>1, <2>3 DEF Lines
      <4>3. Lines(WriteBuffer)' = Lines(BackstageBuffers_)
        BY <2>1, <2>3 DEF Lines
      <4>4. Lines(<<Receptionbuffer_>>)' = Lines(<<Receptionbuffer_>>)
        BY <2>1 DEF Lines
      <4> QED
        BY <4>1, <4>2, <4>3, <4>4
    <3>4. Stream' = Stream
      <4>1. Lines(BackstageBuffers_) \in Seq(Nat) /\ written \in Seq(Nat)
        BY LinesTypes DEF AsyncTypes
      <4> DEFINE w == written
                 b == Lines(BackstageBuffers_)
                 r == Lines(<<Receptionbuffer_>>)
      <4>2. Stream = ((w \o <<>>) \o b) \o r /\ Stream' = ((w \o b) \o <<>>) \o r
        BY <2>1, <3>3 DEF Stream
      <4> HIDE DEF w, b, r
      <4>3. w \in Seq(Nat) /\ b \in Seq(Nat)
        BY <4>1 DEF w, b
      <4>4. (w \o <<>>) \o b = (w \o b) \o <<>>
        BY <4>3
      <4> QED
        BY <4>2, <4>4
    <3> QED
      BY <1>0, <1>a, <2>1, <3>2, <3>4 DEF Orderly
  <2> QED
    BY <1>2, <2>2, <2>3 DEF SwapOrEnd
<1>9. CASE TestSpare
  <2>1. /\ back = "spare" /\ back' = IF SpareBuffer_ = Null THEN "fill" ELSE "reception"
        /\ UNCHANGED <<bufferVars, WriteBuffer, written, fault>>
    BY <1>9 DEF TestSpare
  <2>2. CallersInv' /\ BuffersInv' /\ WriterInv'
    BY <1>0, <1>a, <2>1 DEF CallersInv, BuffersInv, WriterInv, bufferVars, Buffers
  <2>3. Stream' = Stream
    BY <2>1, StreamKept DEF bufferVars
  <2> QED
    BY <1>0, <1>a, <2>1, <2>2, <2>3 DEF Orderly
<1>3. CASE RefillSpare
  <2>0. SpareBuffer_ = Null
    BY <1>3, <1>a DEF RefillSpare, WriterInv
  <2>1. /\ back = "fill" /\ back' = "reception"
        /\ UNCHANGED <<Receptionbuffer_, BackstageBuffers_, SecondaryBuffer_, deleted,
                       WriteBuffer, written, fault>>
    BY <1>3, <2>0 DEF RefillSpare, Deletes
  <2>2. /\ Buffers \subseteq Buffers' /\ \A b \in Buffers : content'[b] = content[b]
        /\ SpareBuffer_' \in Buffers' \ (Buffers \cup {Null}) /\ content'[SpareBuffer_'] = <<>>
    <3>1. Allocated /\ SpareBuffer_' = NewBuffer
      BY <1>3 DEF RefillSpare
    <3>2. /\ NewBuffer \in Nat \ {0} /\ NewBuffer \notin Buffers
          /\ Buffers' = Buffers \cup {NewBuffer} /\ content'[NewBuffer] = <<>>
          /\ \A b \in Buffers : content'[b] = content[b]
      BY <3>1, AllocatedEffect
    <3>3. NewBuffer \notin Buffers \cup {Null}
      BY <3>2 DEF Null
    <3> QED
      BY <3>1, <3>2, <3>3
  <2>3. CallersInv'
    <3>1. Receptionbuffer_ # Null => content'[Receptionbuffer_] = content[Receptionbuffer_]
      BY <1>0, <2>2
    <3>2. \A d \in Callers : place[d] \in {"move", "get", "put"} => Receptionbuffer_ # Null
      BY <1>a DEF CallersInv
    <3>3. \A d \in Callers : place[d] \notin {"read", "release"}
      BY <1>a, <2>0 DEF CallersInv
    <3>4. \A d \in Callers : place[d] = "refill" => /\ hand[d] \in Buffers /\ hand[d] # SpareBuffer_'
                                                   /\ content'[hand[d]] = content[hand[d]]
      BY <1>a, <2>2 DEF CallersInv
    <3> QED
      BY <1>0, <1>a, <2>1, <2>2, <3>1, <3>2, <3>3, <3>4 DEF CallersInv
  <2>4. BuffersInv'
    BY <1>0, <1>a, <2>1, <2>2 DEF BuffersInv
  <2>5. WriterInv'
    BY <1>a, <2>1 DEF WriterInv
  <2>6. Stream' = Stream
    <3>1. \A b \in ToSet(WriteBuffer) \cup ToSet(BackstageBuffers_) \cup {Receptionbuffer_} :
              b # Null => content'[b] = content[b]
      BY <1>0, <2>2
    <3> QED
      BY <2>1, <3>1, StreamKept
  <2> QED
    BY <1>0, <1>a, <2>1, <2>3, <2>4, <2>5, <2>6 DEF Orderly
<1>4. CASE TestReception
  <2>1. /\ back = "reception" /\ back' = IF Receptionbuffer_ = Null THEN "refill" ELSE "write"
        /\ raced' = (raced \/ \E c \in Callers : place[c] \in Refilling)
        /\ UNCHANGED <<bufferVars, WriteBuffer, written, fault>>
    BY <1>4 DEF TestReception
  <2>2. back' = "write"
    BY <1>a, <2>1 DEF CallersInv
  <2>3. CallersInv' /\ BuffersInv' /\ WriterInv'
    BY <1>0, <1>a, <2>1, <2>2 DEF CallersInv, BuffersInv, WriterInv, bufferVars, Buffers
  <2>4. Stream' = Stream
    BY <2>1, StreamKept DEF bufferVars
  <2> QED
    BY <1>0, <1>a, <2>1, <2>3, <2>4 DEF Orderly
<1>5. CASE RefillReception
  BY <1>5, <1>a DEF RefillReception, WriterInv
<1>6. CASE WriteLines
  <2>0. ToSet(WriteBuffer) \cap deleted = {}
    BY <1>a DEF BuffersInv
  <2>1. /\ back' = "clear" /\ written' = written \o Lines(WriteBuffer)
        /\ content' = [b \in Buffers |-> IF b \in ToSet(WriteBuffer) THEN <<>> ELSE content[b]]
        /\ UNCHANGED <<Receptionbuffer_, SpareBuffer_, BackstageBuffers_, SecondaryBuffer_,
                       deleted, WriteBuffer, fault>>
    BY <1>6, <2>0 DEF WriteLines
  <2>2. /\ Buffers' = Buffers /\ \A b \in Buffers \ ToSet(WriteBuffer) : content'[b] = content[b]
        /\ \A b \in Buffers \cap ToSet(WriteBuffer) : content'[b] = <<>>
    BY <2>1 DEF Buffers
  <2>3. CallersInv'
    <3>1. Receptionbuffer_ # Null => content'[Receptionbuffer_] = content[Receptionbuffer_]
      BY <1>0, <1>a, <2>2 DEF BuffersInv
    <3>2. \A d \in Callers : place[d] \in {"move", "get", "put"} => Receptionbuffer_ # Null
      BY <1>a DEF CallersInv
    <3> QED
      BY <1>0, <1>a, <2>1, <2>2, <3>1, <3>2 DEF CallersInv
  <2>4. BuffersInv'
    BY <1>0, <1>a, <2>1, <2>2 DEF BuffersInv
  <2>5. WriterInv'
    BY <1>0, <1>a, <2>1, <2>2 DEF WriterInv, BuffersInv
  <2>6. Stream' = Stream
    <3>0. \A b \in ToSet(BackstageBuffers_) \cup {Receptionbuffer_} : b # Null => content'[b] = content[b]
      BY <1>0, <1>a, <2>2 DEF BuffersInv
    <3>1. /\ Lines(WriteBuffer)' = LinesOf(content', WriteBuffer)
          /\ Lines(BackstageBuffers_)' = LinesOf(content', BackstageBuffers_)
          /\ Lines(<<Receptionbuffer_>>)' = LinesOf(content', <<Receptionbuffer_>>)
      BY <2>1 DEF Lines, LinesOf
    <3>2. /\ WriteBuffer \in Seq(Nat) /\ BackstageBuffers_ \in Seq(Nat) /\ Receptionbuffer_ \in Nat
      BY BufferNumbers
    <3>3. <<Receptionbuffer_>> \in Seq(Nat) /\ ToSet(<<Receptionbuffer_>>) = {Receptionbuffer_}
      BY <3>2 DEF ToSet
    <3>4. /\ Lines(BackstageBuffers_)' = Lines(BackstageBuffers_)
          /\ Lines(<<Receptionbuffer_>>)' = Lines(<<Receptionbuffer_>>)
      BY <3>0, <3>1, <3>2, <3>3, LinesKept
    <3>5. Lines(WriteBuffer)' = <<>>
      <4>1. \A i \in 1..Len(WriteBuffer) : WriteBuffer[i] # Null => content'[WriteBuffer[i]] = <<>>
        <5>1. \A i \in 1..Len(WriteBuffer) : WriteBuffer[i] \in ToSet(WriteBuffer)
          BY <3>2, ToSetElements
        <5> QED
          BY <1>0, <2>2, <5>1
      <4>2. content' \in Seq(Seq(Nat)) /\ WriteBuffer \in Seq(DOMAIN content' \cup {Null})
        BY <2>1 DEF AsyncTypes, Buffers
      <4> QED
        BY <3>1, <4>1, <4>2, LinesBlank
    <3>6. /\ Lines(WriteBuffer) \in Seq(Nat) /\ written \in Seq(Nat)
      BY LinesTypes DEF AsyncTypes
    <3>7. (written \o Lines(WriteBuffer)) \o <<>> = written \o Lines(WriteBuffer)
      <4>1. written \o Lines(WriteBuffer) \in Seq(Nat)
        BY <3>6
      <4> QED
        BY <4>1
    <3> QED
      BY <2>1, <3>4, <3>5, <3>7 DEF Stream
  <2> QED
    BY <1>0, <1>a, <2>1, <2>3, <2>4, <2>5, <2>6 DEF Orderly
<1>7. CASE ClearWriteBuffer
  <2>1. /\ back = "clear" /\ back' = "secondary"
        /\ deleted' = deleted \cup (ToSet(WriteBuffer) \ {Null})
        /\ WriteBuffer' = <<>>
        /\ UNCHANGED <<Receptionbuffer_, SpareBuffer_, BackstageBuffers_, SecondaryBuffer_,
                       content, written, fault>>
    BY <1>7 DEF ClearWriteBuffer
  <2>2. ToSet(WriteBuffer)' = {}
    BY <2>1, ToSetNone
  <2>3. CallersInv'
    BY <1>0, <1>a, <2>1, <2>2 DEF CallersInv, Buffers
  <2>4. BuffersInv' /\ WriterInv'
    BY <1>0, <1>a, <2>1, <2>2 DEF BuffersInv, WriterInv, Buffers
  <2>5. Stream' = Stream
    <3>1. Lines(WriteBuffer)' = <<>>
      <4>1. Lines(WriteBuffer)' = LinesOf(content, <<>>)
        BY <2>1 DEF Lines, LinesOf
      <4> QED
        BY <4>1, LinesNone
    <3>2. Lines(WriteBuffer) = <<>>
      <4>1. \A b \in ToSet(WriteBuffer) : content[b] = <<>>
        BY <1>a, <2>1 DEF WriterInv
      <4>2. \A i \in 1..Len(WriteBuffer) : WriteBuffer[i] \in ToSet(WriteBuffer)
        BY BufferNumbers, ToSetElements
      <4>3. \A i \in 1..Len(WriteBuffer) : WriteBuffer[i] # Null => content[WriteBuffer[i]] = <<>>
        BY <4>1, <4>2
      <4>4. content \in Seq(Seq(Nat)) /\ WriteBuffer \in Seq(DOMAIN content \cup {Null})
        BY DEF AsyncTypes, Buffers
      <4> QED
        BY <4>3, <4>4, LinesAre, LinesBlank
    <3>3. /\ Lines(BackstageBuffers_)' = Lines(BackstageBuffers_)
          /\ Lines(<<Receptionbuffer_>>)' = Lines(<<Receptionbuffer_>>)
      BY <2>1 DEF Lines
    <3> QED
      BY <2>1, <3>1, <3>2, <3>3 DEF Stream
  <2> QED
    BY <1>0, <1>a, <2>1, <2>3, <2>4, <2>5 DEF Orderly
<1>8. CASE WriteSecondary
  <2>1. /\ back = "secondary" /\ back' = "swap" /\ SecondaryBuffer_ = <<>>
        /\ written' = written \o SecondaryBuffer_ /\ SecondaryBuffer_' = <<>>
        /\ UNCHANGED <<Receptionbuffer_, SpareBuffer_, BackstageBuffers_, content, deleted,
                       WriteBuffer, fault>>
    BY <1>8, <1>a DEF WriteSecondary, WriterInv
  <2>2. written' = written
    BY <2>1 DEF AsyncTypes
  <2>3. CallersInv' /\ BuffersInv'
    BY <1>0, <1>a, <2>1 DEF CallersInv, BuffersInv, Buffers
  <2>4. WriterInv'
    BY <1>a, <2>1 DEF WriterInv
  <2>5. Stream' = Stream
    BY <2>1, <2>2, StreamKept
  <2> QED
    BY <1>0, <1>a, <2>1, <2>3, <2>4, <2>5 DEF Orderly
<1> QED
  BY <1>1, <1>2, <1>3, <1>4, <1>5, <1>6, <1>7, <1>8, <1>9 DEF LoopStep

(* AsyncInv holds at the start and after every step.                        *)
LEMMA AsyncInitInv == AsyncInit => AsyncInv
<1> SUFFICES ASSUME AsyncInit PROVE AsyncInv
  OBVIOUS
<1>1. AsyncTypes
  BY AsyncInitTypes
<1>2. content[1] = <<>> /\ content[2] = <<>> /\ 1 \in Buffers /\ 2 \in Buffers
  BY DEF AsyncInit, Buffers
<1>3. ToSet(BackstageBuffers_) = {} /\ ToSet(WriteBuffer) = {}
  BY ToSetNone DEF AsyncInit
<1>4. CallersInv /\ BuffersInv /\ WriterInv /\ fault = "none"
  BY <1>2, <1>3 DEF AsyncInit, CallersInv, BuffersInv, WriterInv, Inside, Live, Null, Refilling
<1>5. Stream = <<>>
  <2>1. Lines(<<>>) = <<>>
    BY LinesAre, LinesNone
  <2>2. Lines(<<Receptionbuffer_>>) = <<>>
    BY <1>1, <1>2, LinesTypes DEF AsyncInit
  <2>3. Stream = ((<<>> \o <<>>) \o <<>>) \o <<>>
    BY <2>1, <2>2 DEF Stream, AsyncInit
  <2> QED
    BY <2>3
<1> QED
  BY <1>1, <1>4, <1>5 DEF AsyncInv, Orderly, AsyncInit

LEMMA AsyncStepInv ==
    ASSUME AsyncInv, [AsyncNext]_asyncVars
    PROVE  AsyncInv'
<1>1. AsyncTypes /\ AsyncTypes'
  BY AsyncStepTypes DEF AsyncInv
<1> SUFFICES ASSUME ~raced' PROVE Orderly'
  BY <1>1 DEF AsyncInv
<1>2. ~raced
  BY DEF AsyncNext, CallerStep, AppendCalled, TestFull, MoveToBackstage, TakeSpare, ReadSpare,
         ReleaseSpare, Refill, GetReception, PutLine, LoopStep, LoopBegins, SwapOrEnd, TestSpare,
         RefillSpare, TestReception,
         RefillReception, WriteLines, ClearWriteBuffer, WriteSecondary, Destroy, JoinReturns,
         asyncVars
<1>3. Orderly
  BY <1>2 DEF AsyncInv
<1>4. CASE Destroy \/ JoinReturns \/ UNCHANGED asyncVars
  <2>1. UNCHANGED <<bufferVars, callerVars, loopVars, fault>>
    BY <1>4 DEF Destroy, JoinReturns, asyncVars
  <2>2. CallersInv' /\ BuffersInv' /\ WriterInv'
    BY <1>3, <2>1 DEF Orderly, CallersInv, BuffersInv, WriterInv, bufferVars, callerVars, loopVars,
                      Buffers, Inside, Live
  <2>3. Stream' = Stream
    BY <1>1, <2>1, StreamKept DEF bufferVars, loopVars
  <2> QED
    BY <1>3, <2>1, <2>2, <2>3 DEF Orderly, callerVars
<1> QED
  BY <1>1, <1>3, <1>4, CallerOrder, WriterOrder DEF AsyncNext

(* The types of AsyncLog's variables hold whatever races.                   *)
THEOREM AsyncTypeCorrect == AsyncSpec => []AsyncTypeOK
<1>1. AsyncInit => AsyncTypes
  BY AsyncInitTypes
<1>2. AsyncTypes /\ [AsyncNext]_asyncVars => AsyncTypes'
  BY AsyncStepTypes
<1>3. AsyncTypes => AsyncTypeOK
  BY DEF AsyncTypes
<1> QED
  BY <1>1, <1>2, <1>3, PTL DEF AsyncSpec

(* AsyncLog::append and loop(): unless two calls of append() overlap or     *)
(* loop() meets Receptionbuffer_ between its move and its refill, every     *)
(* line that was put in a buffer is in the log exactly once, in the order   *)
(* of the calls - in the file, in the list being written, in the list       *)
(* waiting or in the buffer being filled - and nobody uses a deleted or     *)
(* null buffer; for any number of callers, of lines and any size of a       *)
(* buffer.                                                                  *)
THEOREM LinesInOrderCorrect == AsyncSpec => []LinesInOrder
<1>1. AsyncInit => AsyncInv
  BY AsyncInitInv
<1>2. AsyncInv /\ [AsyncNext]_asyncVars => AsyncInv'
  BY AsyncStepInv
<1>3. AsyncInv => LinesInOrder
  BY DEF AsyncInv, Orderly, LinesInOrder
<1> QED
  BY <1>1, <1>2, <1>3, PTL DEF AsyncSpec

-----------------------------------------------------------------------------
(* TcpBuffer: what its operations do to the readable bytes.                 *)

(* A buffer of bytes of B whose indices are in order.                       *)
BufferOK(B, b) ==
    /\ b \in [data : Seq(B), r : Nat, w : Nat]
    /\ prepend_size <= b.r /\ b.r <= b.w /\ b.w <= Len(b.data)

(* c has the readable bytes of b.                                           *)
SameBytes(b, c) ==
    /\ readable_size(c) = readable_size(b)
    /\ \A i \in 1..readable_size(b) : c.data[c.r + i] = b.data[b.r + i]

(* The operations of TcpBuffer, one by one.                                 *)
LEMMA EmptyBufferOK ==
    ASSUME NEW B, Zero \in B
    PROVE  BufferOK(B, EmptyBuffer) /\ readable_size(EmptyBuffer) = 0
<1>1. prepend_size + initial_size \in Nat /\ prepend_size \in Nat /\ initial_size \in Nat
  BY BufferAssumption
<1>2. [i \in 1..prepend_size + initial_size |-> Zero] \in [1..prepend_size + initial_size -> B]
  OBVIOUS
<1>3. /\ [i \in 1..prepend_size + initial_size |-> Zero] \in Seq(B)
      /\ Len([i \in 1..prepend_size + initial_size |-> Zero]) = prepend_size + initial_size
  BY <1>1, <1>2, FunctionIsSeq
<1> QED
  BY <1>1, <1>3 DEF BufferOK, EmptyBuffer, readable_size

LEMMA WriteFacts ==
    ASSUME NEW B, NEW data \in Seq(B), NEW s \in Seq(B), NEW k \in Nat, k + Len(s) <= Len(data)
    PROVE  /\ Write(data, k, s) \in Seq(B) /\ Len(Write(data, k, s)) = Len(data)
           /\ \A i \in 1..Len(s) : Write(data, k, s)[k + i] = s[i]
           /\ \A i \in 1..k : Write(data, k, s)[i] = data[i]
<1>1. Len(data) \in Nat /\ Len(s) \in Nat
  OBVIOUS
<1>2. Write(data, k, s) \in [1..Len(data) -> B]
  <2>1. \A i \in k + 1..k + Len(s) : i - k \in 1..Len(s)
    BY <1>1
  <2>2. \A i \in 1..Len(data) : (IF i \in k + 1..k + Len(s) THEN s[i - k] ELSE data[i]) \in B
    BY <1>1, <2>1
  <2> QED
    BY <2>2 DEF Write
<1>3. Write(data, k, s) \in Seq(B) /\ Len(Write(data, k, s)) = Len(data)
  BY <1>1, <1>2, FunctionIsSeq
<1>4. \A i \in 1..Len(s) : Write(data, k, s)[k + i] = s[i]
  <2>1. \A i \in 1..Len(s) : k + i \in 1..Len(data) /\ k + i \in k + 1..k + Len(s) /\ (k + i) - k = i
    BY <1>1
  <2> QED
    BY <2>1 DEF Write
<1>5. \A i \in 1..k : Write(data, k, s)[i] = data[i]
  <2>1. \A i \in 1..k : i \in 1..Len(data) /\ i \notin k + 1..k + Len(s)
    BY <1>1
  <2> QED
    BY <2>1 DEF Write
<1> QED
  BY <1>3, <1>4, <1>5

LEMMA ReadableFacts ==
    ASSUME NEW B, NEW b, BufferOK(B, b)
    PROVE  /\ readable_size(b) \in Nat /\ readable_size(b) = b.w - b.r
           /\ Readable(b) \in Seq(B) /\ Len(Readable(b)) = readable_size(b)
           /\ \A i \in 1..readable_size(b) : Readable(b)[i] = b.data[b.r + i] /\ b.data[b.r + i] \in B
<1>1. b.r \in Nat /\ b.w \in Nat /\ b.data \in Seq(B) /\ b.r <= b.w /\ b.w <= Len(b.data)
  BY DEF BufferOK
<1>2. readable_size(b) \in Nat /\ readable_size(b) = b.w - b.r
  BY <1>1 DEF readable_size
<1>3. Readable(b) \in Seq(B) /\ Len(Readable(b)) = readable_size(b)
  BY <1>1 DEF Readable, readable_size
<1>4. \A i \in 1..readable_size(b) : Readable(b)[i] = b.data[b.r + i] /\ b.data[b.r + i] \in B
  BY <1>1 DEF Readable, readable_size
<1> QED
  BY <1>2, <1>3, <1>4

LEMMA ResizeFacts ==
    ASSUME NEW B, Zero \in B, NEW data \in Seq(B), NEW n \in Nat
    PROVE  /\ Resize(data, n) \in Seq(B) /\ Len(Resize(data, n)) = n
           /\ \A i \in 1..n : i <= Len(data) => Resize(data, n)[i] = data[i]
<1>1. \A i \in 1..n : (IF i <= Len(data) THEN data[i] ELSE Zero) \in B
  OBVIOUS
<1>2. Resize(data, n) \in [1..n -> B]
  BY <1>1 DEF Resize
<1>3. Resize(data, n) \in Seq(B) /\ Len(Resize(data, n)) = n
  BY <1>2, FunctionIsSeq
<1> QED
  BY <1>3 DEF Resize

LEMMA ReuseFacts ==
    ASSUME NEW B, NEW b, BufferOK(B, b)
    PROVE  /\ BufferOK(B, reuse_prependable_space(b)) /\ SameBytes(b, reuse_prependable_space(b))
           /\ Len(reuse_prependable_space(b).data) = Len(b.data)
           /\ reuse_prependable_space(b).w = prepend_size + readable_size(b)
           /\ reuse_prependable_space(b).r = prepend_size
<1> DEFINE s == Readable(b)
           d == Write(b.data, prepend_size, s)
<1>1. /\ b.r \in Nat /\ b.w \in Nat /\ b.data \in Seq(B) /\ b.r <= b.w /\ b.w <= Len(b.data)
      /\ prepend_size <= b.r /\ prepend_size \in Nat
  BY BufferAssumption DEF BufferOK
<1>2. /\ readable_size(b) \in Nat /\ readable_size(b) = b.w - b.r
      /\ s \in Seq(B) /\ Len(s) = readable_size(b)
      /\ \A i \in 1..readable_size(b) : s[i] = b.data[b.r + i]
  BY ReadableFacts
<1> HIDE DEF s
<1>3. prepend_size + Len(s) <= Len(b.data) /\ Len(b.data) \in Nat
  BY <1>1, <1>2
<1>4. /\ d \in Seq(B) /\ Len(d) = Len(b.data)
      /\ \A i \in 1..Len(s) : d[prepend_size + i] = s[i]
  BY <1>1, <1>2, <1>3, WriteFacts
<1>5. reuse_prependable_space(b)
         = [data |-> d, r |-> prepend_size, w |-> prepend_size + readable_size(b)]
  BY DEF reuse_prependable_space, s
<1> HIDE DEF d
<1>6. BufferOK(B, reuse_prependable_space(b))
  BY <1>1, <1>2, <1>3, <1>4, <1>5 DEF BufferOK
<1>7. SameBytes(b, reuse_prependable_space(b))
  BY <1>1, <1>2, <1>4, <1>5 DEF SameBytes, readable_size
<1> QED
  BY <1>4, <1>5, <1>6, <1>7

(* expend() and ensure_appendable(): the bytes stay and there is room.      *)
LEMMA EnsureFacts ==
    ASSUME NEW B, Zero \in B, NEW b, BufferOK(B, b), NEW n \in Nat
    PROVE  LET c == ensure_appendable(b, n) IN
           BufferOK(B, c) /\ SameBytes(b, c) /\ c.w + n <= Len(c.data)
<1> DEFINE c == ensure_appendable(b, n)
           u == reuse_prependable_space(b)
<1>1. /\ b.r \in Nat /\ b.w \in Nat /\ b.data \in Seq(B) /\ b.r <= b.w /\ b.w <= Len(b.data)
      /\ prepend_size <= b.r /\ prepend_size \in Nat /\ Len(b.data) \in Nat
      /\ readable_size(b) = b.w - b.r /\ writable_size(b) = Len(b.data) - b.w
  BY BufferAssumption DEF BufferOK, readable_size, writable_size
<1>2. /\ BufferOK(B, u) /\ SameBytes(b, u) /\ Len(u.data) = Len(b.data)
      /\ u.w = prepend_size + readable_size(b) /\ u.r = prepend_size
  BY ReuseFacts
<1>3. CASE writable_size(b) >= n
  <2>1. c = b
    BY <1>1, <1>3 DEF ensure_appendable
  <2> QED
    BY <1>1, <1>3, <2>1 DEF SameBytes
<1>4. CASE writable_size(b) < n /\ writable_size(b) + b.r > n + prepend_size
  <2>1. c = u
    BY <1>4 DEF ensure_appendable, expend
  <2> QED
    BY <1>1, <1>2, <1>4, <2>1
<1>5. CASE writable_size(b) < n /\ ~(writable_size(b) + b.r > n + prepend_size)
  <2> DEFINE m == prepend_size + readable_size(b) + n
             d == Resize(u.data, m)
  <2>1. c = [u EXCEPT !.data = d]
    BY <1>5 DEF ensure_appendable, expend
  <2>2. m \in Nat /\ u.data \in Seq(B) /\ u \in [data : Seq(B), r : Nat, w : Nat]
    BY <1>1, <1>2 DEF BufferOK
  <2>3. d \in Seq(B) /\ Len(d) = m /\ \A i \in 1..m : i <= Len(b.data) => d[i] = u.data[i]
    BY <1>2, <2>2, ResizeFacts
  <2> HIDE DEF d, u, c
  <2>4. c.data = d /\ c.r = u.r /\ c.w = u.w /\ c \in [data : Seq(B), r : Nat, w : Nat]
    BY <2>1, <2>2, <2>3
  <2>5. BufferOK(B, c) /\ c.w + n <= Len(c.data)
    BY <1>1, <1>2, <2>3, <2>4 DEF BufferOK
  <2>6. SameBytes(b, c)
    <3>1. \A i \in 1..readable_size(b) :
             prepend_size + i \in 1..m /\ prepend_size + i <= Len(b.data)
      BY <1>1
    <3> QED
      BY <1>1, <1>2, <2>3, <2>4, <3>1 DEF SameBytes, readable_size
  <2> QED
    BY <2>5, <2>6 DEF c
<1> QED
  BY <1>1, <1>3, <1>4, <1>5

(* c is b with the bytes s behind its readable ones.                        *)
Appended(B, b, s, c) ==
    /\ BufferOK(B, c) /\ readable_size(c) = readable_size(b) + Len(s)
    /\ \A i \in 1..readable_size(b) : c.data[c.r + i] = b.data[b.r + i]
    /\ \A i \in 1..Len(s) : c.data[c.r + readable_size(b) + i] = s[i]

(* Bytes written behind the readable ones of a buffer that has room.        *)
LEMMA FillFacts ==
    ASSUME NEW B, NEW b, BufferOK(B, b), NEW s \in Seq(B), b.w + Len(s) <= Len(b.data)
    PROVE  Appended(B, b, s, [b EXCEPT !.data = Write(b.data, b.w, s), !.w = b.w + Len(s)])
<1> DEFINE d == Write(b.data, b.w, s)
           c == [b EXCEPT !.data = d, !.w = b.w + Len(s)]
<1>1. /\ b.r \in Nat /\ b.w \in Nat /\ b.data \in Seq(B) /\ b.r <= b.w
      /\ b \in [data : Seq(B), r : Nat, w : Nat]
      /\ prepend_size <= b.r /\ Len(s) \in Nat /\ readable_size(b) = b.w - b.r
  BY DEF BufferOK, readable_size
<1>2. /\ d \in Seq(B) /\ Len(d) = Len(b.data)
      /\ \A i \in 1..Len(s) : d[b.w + i] = s[i]
      /\ \A i \in 1..b.w : d[i] = b.data[i]
  BY <1>1, WriteFacts
<1> HIDE DEF d
<1>3. c.data = d /\ c.r = b.r /\ c.w = b.w + Len(s) /\ c \in [data : Seq(B), r : Nat, w : Nat]
  <2> DEFINE n == b.w + Len(s)
  <2>1. n \in Nat /\ d \in Seq(B) /\ b \in [data : Seq(B), r : Nat, w : Nat]
    BY <1>1, <1>2
  <2> HIDE DEF n
  <2>2. /\ [b EXCEPT !.data = d, !.w = n].data = d /\ [b EXCEPT !.data = d, !.w = n].r = b.r
        /\ [b EXCEPT !.data = d, !.w = n].w = n
        /\ [b EXCEPT !.data = d, !.w = n] \in [data : Seq(B), r : Nat, w : Nat]
    BY <2>1
  <2> QED
    BY <2>2 DEF n
<1> HIDE DEF c
<1>4. BufferOK(B, c)
  BY <1>1, <1>2, <1>3 DEF BufferOK
<1>5. readable_size(c) = readable_size(b) + Len(s)
  BY <1>1, <1>3 DEF readable_size
<1>6. \A i \in 1..readable_size(b) : c.data[c.r + i] = b.data[b.r + i]
  <2>1. \A i \in 1..readable_size(b) : b.r + i \in 1..b.w
    BY <1>1
  <2> QED
    BY <1>2, <1>3, <2>1
<1>7. \A i \in 1..Len(s) : c.data[c.r + readable_size(b) + i] = s[i]
  <2>1. \A i \in 1..Len(s) : c.r + readable_size(b) + i = b.w + i
    BY <1>1, <1>3
  <2> QED
    BY <1>2, <1>3, <2>1
<1> QED
  BY <1>4, <1>5, <1>6, <1>7 DEF Appended, c, d

LEMMA AppendImpFacts ==
    ASSUME NEW B, Zero \in B, NEW b, BufferOK(B, b), NEW s \in Seq(B)
    PROVE  Appended(B, b, s, appendImp(b, s))
<1> DEFINE c == ensure_appendable(b, Len(s))
           d == [c EXCEPT !.data = Write(c.data, c.w, s), !.w = c.w + Len(s)]
<1>1. Len(s) \in Nat
  OBVIOUS
<1>2. BufferOK(B, c) /\ SameBytes(b, c) /\ c.w + Len(s) <= Len(c.data)
  BY <1>1, EnsureFacts
<1>3. appendImp(b, s) = d
  BY DEF appendImp
<1> HIDE DEF c
<1>4. Appended(B, c, s, d)
  BY <1>2, FillFacts
<1> HIDE DEF d
<1>5. readable_size(b) \in Nat
  BY ReadableFacts
<1> QED
  BY <1>2, <1>3, <1>4, <1>5 DEF Appended, SameBytes

(* appendFormFd(): whatever room there is, the bytes read from the socket   *)
(* end up behind the readable ones, which stay as they were.                *)
THEOREM AppendFormFdAppends ==
    ASSUME NEW B, Zero \in B, NEW b, BufferOK(B, b), NEW s \in Seq(B)
    PROVE  Appended(B, b, s, appendFormFd(b, s))
<1> DEFINE n == IF Len(s) <= writable_size(b) THEN Len(s) ELSE writable_size(b)
           p == SubSeq(s, 1, n)
           q == SubSeq(s, n + 1, Len(s))
           c == [b EXCEPT !.data = Write(b.data, b.w, p), !.w = b.w + n]
           e == appendFormFd(b, s)
<1>1. Len(s) \in Nat /\ b.w \in Nat /\ Len(b.data) \in Nat /\ b.w <= Len(b.data)
      /\ writable_size(b) = Len(b.data) - b.w /\ readable_size(b) \in Nat
  BY ReadableFacts DEF BufferOK, writable_size
<1>2. n \in Nat /\ n <= Len(s) /\ b.w + n <= Len(b.data)
  BY <1>1
<1>3. e = IF n = Len(s) THEN c ELSE appendImp(c, q)
  BY DEF appendFormFd
<1> HIDE DEF n, e
<1>4. p \in Seq(B) /\ Len(p) = n /\ (\A i \in 1..n : p[i] = s[i])
      /\ q \in Seq(B) /\ Len(q) = Len(s) - n /\ (\A i \in 1..Len(s) - n : q[i] = s[n + i])
  BY <1>1, <1>2
<1> HIDE DEF p, q
<1>5. Appended(B, b, p, c)
  BY <1>1, <1>2, <1>4, FillFacts
<1> HIDE DEF c
<1>6. CASE n = Len(s)
  BY <1>3, <1>4, <1>5, <1>6 DEF Appended, e
<1>7. CASE n # Len(s)
  <2>1. Appended(B, c, q, e)
    <3>1. BufferOK(B, c)
      BY <1>5 DEF Appended
    <3>2. Appended(B, c, q, appendImp(c, q))
      BY <1>4, <3>1, AppendImpFacts
    <3> QED
      BY <1>3, <1>7, <3>2
  <2>2. readable_size(c) = readable_size(b) + n /\ readable_size(e) = readable_size(c) + (Len(s) - n)
    BY <1>4, <1>5, <2>1 DEF Appended
  <2>3. BufferOK(B, e) /\ readable_size(e) = readable_size(b) + Len(s)
    BY <1>1, <1>2, <2>1, <2>2 DEF Appended
  <2>0. e.r \in Nat
    BY <2>3 DEF BufferOK
  <2>4. \A i \in 1..readable_size(b) : e.data[e.r + i] = b.data[b.r + i]
    <3>1. \A i \in 1..readable_size(b) : i \in 1..readable_size(c)
      BY <1>1, <1>2, <2>2
    <3> QED
      BY <1>5, <2>1, <3>1 DEF Appended
  <2>5. ASSUME NEW i \in 1..Len(s) PROVE e.data[e.r + readable_size(b) + i] = s[i]
    <3>1. CASE i <= n
      <4>1. i \in 1..n /\ readable_size(b) + i \in 1..readable_size(c)
        BY <1>1, <1>2, <2>2, <3>1
      <4>2. e.data[e.r + (readable_size(b) + i)] = c.data[c.r + (readable_size(b) + i)]
        BY <2>1, <4>1 DEF Appended
      <4>3. c.data[c.r + readable_size(b) + i] = p[i]
        BY <1>4, <1>5, <4>1 DEF Appended
      <4>4. c.r \in Nat
        BY <1>5 DEF Appended, BufferOK
      <4>5. /\ e.r + (readable_size(b) + i) = e.r + readable_size(b) + i
            /\ c.r + (readable_size(b) + i) = c.r + readable_size(b) + i
        BY <1>1, <2>0, <4>4
      <4> QED
        BY <1>4, <4>1, <4>2, <4>3, <4>5
    <3>2. CASE ~(i <= n)
      <4>1. i - n \in 1..Len(s) - n /\ n + (i - n) = i
        BY <1>1, <1>2, <3>2
      <4>2. e.data[e.r + readable_size(c) + (i - n)] = q[i - n]
        BY <1>4, <2>1, <4>1 DEF Appended
      <4>3. e.r + readable_size(c) + (i - n) = e.r + readable_size(b) + i
        BY <1>1, <1>2, <2>0, <2>2, <4>1
      <4> QED
        BY <1>4, <4>1, <4>2, <4>3
    <3> QED
      BY <3>1, <3>2
  <2> QED
    BY <2>3, <2>4, <2>5 DEF Appended, e
<1> QED
  BY <1>6, <1>7

(* consume(): n bytes less.                                                 *)
LEMMA ConsumeFacts ==
    ASSUME NEW B, NEW b, BufferOK(B, b), NEW n \in Nat, n <= readable_size(b)
    PROVE  LET c == consume(b, n) IN
           /\ BufferOK(B, c) /\ readable_size(c) = readable_size(b) - n
           /\ \A i \in 1..readable_size(b) - n : c.data[c.r + i] = b.data[b.r + n + i]
<1> DEFINE c == consume(b, n)
<1>1. /\ b.r \in Nat /\ b.w \in Nat /\ b.data \in Seq(B) /\ b.r <= b.w /\ b.w <= Len(b.data)
      /\ b \in [data : Seq(B), r : Nat, w : Nat] /\ Len(b.data) \in Nat
      /\ prepend_size <= b.r /\ prepend_size \in Nat /\ readable_size(b) = b.w - b.r
  BY BufferAssumption DEF BufferOK, readable_size
<1>2. CASE n < readable_size(b)
  <2>1. c = [b EXCEPT !.r = b.r + n]
    BY <1>2 DEF consume
  <2>2. c.data = b.data /\ c.w = b.w /\ c.r = b.r + n /\ c \in [data : Seq(B), r : Nat, w : Nat]
    BY <1>1, <2>1
  <2> HIDE DEF c
  <2>3. BufferOK(B, c)
    BY <1>1, <1>2, <2>2 DEF BufferOK
  <2>4. readable_size(c) = readable_size(b) - n
    BY <1>1, <2>2 DEF readable_size
  <2> QED
    BY <2>2, <2>3, <2>4 DEF c
<1>3. CASE n = readable_size(b)
  <2>1. c = [b EXCEPT !.r = prepend_size, !.w = prepend_size]
    BY <1>1, <1>3 DEF consume
  <2>2. /\ c.data = b.data /\ c.w = prepend_size /\ c.r = prepend_size
        /\ c \in [data : Seq(B), r : Nat, w : Nat]
    BY <1>1, <2>1
  <2> HIDE DEF c
  <2>3. BufferOK(B, c)
    BY <1>1, <2>2 DEF BufferOK
  <2>4. readable_size(c) = 0 /\ readable_size(b) - n = 0
    BY <1>1, <1>3, <2>2 DEF readable_size
  <2> QED
    BY <2>3, <2>4 DEF c
<1> QED
  BY <1>1, <1>2, <1>3

-----------------------------------------------------------------------------
(* Codec: where the bytes of each frame are on the wire.                    *)

(* Bytes of frames.                                                         *)
Byte == [frame : 1..Len(FrameLens), i : Nat]

(* The frames as they are sent, and how many bytes the first k are.         *)
Frames    == [f \in 1..Len(FrameLens) |-> Encoded(f)]
Offset(k) == Place(Frames, k)

LEMMA EncodedFacts ==
    ASSUME NEW f \in 1..Len(FrameLens)
    PROVE  /\ FrameLens[f] \in Nat /\ Encoded(f) \in Seq(Byte) /\ Len(Encoded(f)) = FrameLens[f] + 2
           /\ \A i \in 1..FrameLens[f] + 2 : Encoded(f)[i] = [frame |-> f, i |-> i]
<1>1. FrameLens[f] \in Nat
  BY CodecAssumption
<1>2. FrameLens[f] + 2 \in Nat
  BY <1>1
<1>3. \A i \in 1..FrameLens[f] + 2 : [frame |-> f, i |-> i] \in Byte
  BY DEF Byte
<1>4. Encoded(f) \in [1..FrameLens[f] + 2 -> Byte]
  BY <1>3 DEF Encoded
<1>5. Encoded(f) \in Seq(Byte) /\ Len(Encoded(f)) = FrameLens[f] + 2
  BY <1>2, <1>4, FunctionIsSeq
<1> QED
  BY <1>1, <1>5 DEF Encoded

(* The wire: frame k + 1 begins behind the first k and has its own bytes.   *)
LEMMA WireFacts ==
    /\ Wire \in Seq(Byte) /\ Len(Wire) = Offset(Len(FrameLens)) /\ Offset(0) = 0
    /\ Len(Wire) \in Nat /\ Len(FrameLens) \in Nat
    /\ \A k \in 0..Len(FrameLens) : Offset(k) \in Nat /\ Offset(k) <= Len(Wire)
    /\ \A k \in 0..Len(FrameLens) : k < Len(FrameLens) =>
          /\ k + 1 \in 1..Len(FrameLens) /\ FrameLens[k + 1] \in Nat
          /\ Offset(k + 1) = Offset(k) + (FrameLens[k + 1] + 2) /\ Offset(k + 1) <= Len(Wire)
          /\ \A i \in 1..FrameLens[k + 1] + 2 : Wire[Offset(k) + i] = [frame |-> k + 1, i |-> i]
<1> DEFINE N == Len(FrameLens)
<1>0. N \in Nat
  BY CodecAssumption
<1>1. \A f \in 1..N : Encoded(f) \in Seq(Byte)
  BY EncodedFacts
<1>2. Frames \in [1..N -> Seq(Byte)] /\ \A f \in 1..N : Frames[f] = Encoded(f)
  BY <1>1 DEF Frames
<1>3. Frames \in Seq(Seq(Byte)) /\ Len(Frames) = N
  BY <1>0, <1>2, FunctionIsSeq
<1>4. Wire = FlattenSeq(Frames)
  BY DEF Wire, Frames
<1>5. /\ Wire \in Seq(Byte) /\ Place(Frames, 0) = 0 /\ Place(Frames, N) = Len(Wire)
      /\ Len(Wire) \in Nat
      /\ \A k \in 0..N : Place(Frames, k) \in Nat /\ Place(Frames, k) <= Len(Wire)
      /\ \A k \in 0..N : k < N =>
           /\ k + 1 \in 1..N
           /\ Place(Frames, k + 1) = Place(Frames, k) + Len(Frames[k + 1])
           /\ Place(Frames, k + 1) <= Len(Wire)
           /\ \A i \in 1..Len(Frames[k + 1]) : Wire[Place(Frames, k) + i] = Frames[k + 1][i]
  <2> HIDE DEF N
  <2> QED
    BY <1>3, <1>4, PlaceFacts
<1>6. ASSUME NEW k \in 0..N, k < N
      PROVE  /\ k + 1 \in 1..N /\ FrameLens[k + 1] \in Nat
             /\ Offset(k + 1) = Offset(k) + (FrameLens[k + 1] + 2) /\ Offset(k + 1) <= Len(Wire)
             /\ \A i \in 1..FrameLens[k + 1] + 2 : Wire[Offset(k) + i] = [frame |-> k + 1, i |-> i]
  <2>1. k + 1 \in 1..N
    BY <1>0, <1>6
  <2>2. /\ FrameLens[k + 1] \in Nat /\ Len(Encoded(k + 1)) = FrameLens[k + 1] + 2
        /\ \A i \in 1..FrameLens[k + 1] + 2 : Encoded(k + 1)[i] = [frame |-> k + 1, i |-> i]
    BY <2>1, EncodedFacts
  <2>3. Frames[k + 1] = Encoded(k + 1)
    BY <1>2, <2>1
  <2> DEFINE e == Encoded(k + 1)
             l == FrameLens[k + 1]
  <2>4. /\ Place(Frames, k + 1) = Place(Frames, k) + Len(e) /\ Place(Frames, k + 1) <= Len(Wire)
        /\ \A i \in 1..Len(e) : Wire[Place(Frames, k) + i] = e[i]
    BY <1>5, <1>6, <2>3
  <2>5. l \in Nat /\ Len(e) = l + 2 /\ \A i \in 1..l + 2 : e[i] = [frame |-> k + 1, i |-> i]
    BY <2>2
  <2> HIDE DEF N, e, l
  <2>6. /\ Place(Frames, k + 1) = Place(Frames, k) + (l + 2)
        /\ \A i \in 1..l + 2 : Wire[Place(Frames, k) + i] = [frame |-> k + 1, i |-> i]
    BY <2>4, <2>5
  <2> QED
    BY <2>1, <2>4, <2>5, <2>6 DEF Offset, l
<1> QED
  BY <1>0, <1>5, <1>6 DEF Offset

-----------------------------------------------------------------------------
(* Codec: the frames handed over and the buffer are in step with the wire.  *)

(* A byte of a frame, or what resize() fills in.                            *)
AnyByte == Byte \cup {Zero}

(* The readable bytes begin with the first byte of the next frame.          *)
InStep ==
    LET k == Len(frames)
        n == readable_size(buf) IN
    /\ frames \in Seq(Seq(AnyByte)) /\ k <= Len(FrameLens)
    /\ \A f \in 1..k : frames[f] = Payload(codec, f) /\ ~Refused(f)
    /\ BufferOK(AnyByte, buf)
    /\ Offset(k) + n = arrived /\ arrived <= Len(Wire)
    /\ \A i \in 1..n : buf.data[buf.r + i] = Wire[Offset(k) + i]
    /\ decoding \in BOOLEAN /\ spinning \in BOOLEAN /\ codec \in {"line", "length", "proto"}
    /\ ~decoding => k = Len(FrameLens) \/ n < FrameLens[k + 1] + 2 \/ Refused(k + 1)
    /\ spinning => k < Len(FrameLens) /\ (n > FrameLens[k + 1] + 2 \/ Refused(k + 1))

CodecInv == overread \/ InStep

LEMMA SubSeqSame ==
    ASSUME NEW S, NEW s \in Seq(S), NEW t \in Seq(S), NEW a \in Nat \ {0}, NEW b \in Nat,
           b <= Len(s), b <= Len(t), \A i \in a..b : s[i] = t[i]
    PROVE  SubSeq(s, a, b) = SubSeq(t, a, b) /\ SubSeq(t, a, b) \in Seq(S)
  OBVIOUS

LEMMA ByteFacts ==
    /\ Zero \notin Byte /\ Bytes \subseteq AnyByte /\ Zero \in AnyByte /\ Byte \subseteq AnyByte
    /\ \A x \in Byte : x.frame \in 1..Len(FrameLens) /\ FrameLens[x.frame] \in Nat
<1>1. Zero \notin Byte
  BY CodecAssumption DEF Byte
<1>2. Bytes \subseteq AnyByte
  <2>1. Wire \in Seq(Byte)
    BY WireFacts
  <2>2. Range(Wire) \subseteq Byte
    BY <2>1 DEF Range
  <2> QED
    BY <2>2 DEF Bytes, AnyByte
<1>3. \A x \in Byte : x.frame \in 1..Len(FrameLens)
  BY DEF Byte
<1>4. \A f \in 1..Len(FrameLens) : FrameLens[f] \in Nat
  BY CodecAssumption
<1> QED
  BY <1>1, <1>2, <1>3, <1>4 DEF AnyByte

(* What is readable, seen from the next frame.                              *)
LEMMA NextFrame ==
    ASSUME InStep
    PROVE  LET k == Len(frames)
               n == readable_size(buf)
               R == Readable(buf)
               L == FrameLens[k + 1] IN
           /\ k \in 0..Len(FrameLens) /\ n \in Nat /\ R \in Seq(AnyByte) /\ Len(R) = n
           /\ k = Len(FrameLens) => n = 0
           /\ k < Len(FrameLens) =>
                /\ k + 1 \in 1..Len(FrameLens) /\ L \in Nat
                /\ \A i \in 1..n : i <= L + 2 => R[i] = [frame |-> k + 1, i |-> i] /\ R[i] \in Byte
                /\ n > L + 2 => R[L + 3].frame = k + 2
<1> DEFINE k == Len(frames)
           n == readable_size(buf)
           R == Readable(buf)
           L == FrameLens[k + 1]
           N == Len(FrameLens)
<1>1. k \in Nat /\ k <= N /\ N \in Nat /\ k \in 0..N
  BY WireFacts DEF InStep
<1>2. /\ Offset(k) + n = arrived /\ arrived <= Len(Wire) /\ BufferOK(AnyByte, buf)
      /\ \A i \in 1..n : buf.data[buf.r + i] = Wire[Offset(k) + i]
  BY DEF InStep
<1>3. n \in Nat /\ R \in Seq(AnyByte) /\ Len(R) = n /\ \A i \in 1..n : R[i] = buf.data[buf.r + i]
  BY <1>2, ReadableFacts
<1>4. \A i \in 1..n : R[i] = Wire[Offset(k) + i]
  BY <1>2, <1>3
<1>5. Offset(k) \in Nat /\ Len(Wire) \in Nat /\ Len(Wire) = Offset(N)
  BY <1>1, WireFacts
<1>6. k = N => n = 0
  BY <1>2, <1>3, <1>5
<1>7. ASSUME k < N
      PROVE  /\ k + 1 \in 1..N /\ L \in Nat
             /\ \A i \in 1..n : i <= L + 2 => R[i] = [frame |-> k + 1, i |-> i] /\ R[i] \in Byte
             /\ n > L + 2 => R[L + 3].frame = k + 2
  <2> HIDE DEF k, n, R, N
  <2>1. /\ k + 1 \in 1..N /\ L \in Nat
        /\ Offset(k + 1) = Offset(k) + (L + 2) /\ Offset(k + 1) <= Len(Wire)
        /\ \A i \in 1..L + 2 : Wire[Offset(k) + i] = [frame |-> k + 1, i |-> i]
    BY <1>1, <1>7, WireFacts DEF N
  <2>2. \A i \in 1..L + 2 : [frame |-> k + 1, i |-> i] \in Byte
    BY <2>1 DEF Byte, N
  <2>3. \A i \in 1..n : i <= L + 2 => i \in 1..L + 2
    BY <1>3, <2>1
  <2>4. \A i \in 1..n : i <= L + 2 => R[i] = [frame |-> k + 1, i |-> i] /\ R[i] \in Byte
    BY <1>4, <2>1, <2>2, <2>3
  <2>5. ASSUME n > L + 2 PROVE R[L + 3].frame = k + 2
    <3>1. Offset(k + 1) < Offset(N)
      BY <1>2, <1>3, <1>5, <2>1, <2>5 DEF n, k
    <3>2. k + 1 # N
      BY <1>5, <3>1
    <3>3. k + 1 \in 0..N /\ k + 1 < N /\ (k + 1) + 1 = k + 2
      BY <1>1, <2>1, <3>2
    <3>4. /\ (k + 1) + 1 \in 1..N /\ FrameLens[(k + 1) + 1] \in Nat
          /\ \A i \in 1..FrameLens[(k + 1) + 1] + 2 :
                Wire[Offset(k + 1) + i] = [frame |-> (k + 1) + 1, i |-> i]
      BY <3>3, WireFacts DEF N
    <3>5. 1 \in 1..FrameLens[(k + 1) + 1] + 2
      BY <3>4
    <3>6. Wire[Offset(k + 1) + 1] = [frame |-> (k + 1) + 1, i |-> 1]
      BY <3>4, <3>5
    <3>7. L + 3 \in 1..n /\ Offset(k) + (L + 3) = Offset(k + 1) + 1
      BY <1>3, <1>5, <2>1, <2>5
    <3> QED
      BY <1>4, <3>3, <3>6, <3>7
  <2> QED
    BY <2>1, <2>4, <2>5
<1> QED
  BY <1>1, <1>3, <1>6, <1>7

(* What is handed over is a sequence of bytes.                              *)
LEMMA PayloadType ==
    ASSUME NEW f \in 1..Len(FrameLens)
    PROVE  Payload(codec, f) \in Seq(AnyByte)
<1>1. FrameLens[f] \in Nat /\ Encoded(f) \in Seq(Byte) /\ Len(Encoded(f)) = FrameLens[f] + 2
  BY EncodedFacts
<1>2. SubSeq(Encoded(f), 1, FrameLens[f]) \in Seq(Byte)
      /\ SubSeq(Encoded(f), 3, FrameLens[f] + 2) \in Seq(Byte)
  BY <1>1
<1>3. Payload(codec, f) \in Seq(Byte)
  BY <1>2 DEF Payload
<1> QED
  BY <1>3, ByteFacts, SeqGrows

(* A frame is taken out of the buffer and handed over.                      *)
LEMMA TakeFrame ==
    ASSUME InStep, Len(frames) < Len(FrameLens),
           FrameLens[Len(frames) + 1] + 2 <= readable_size(buf),
           frames' = Append(frames, Payload(codec, Len(frames) + 1)),
           buf' = consume(buf, FrameLens[Len(frames) + 1] + 2), ~Refused(Len(frames) + 1),
           UNCHANGED <<codec, unknown, arrived, decoding, spinning>>, decoding, ~spinning
    PROVE  InStep'
<1> DEFINE k == Len(frames)
           n == readable_size(buf)
           L == FrameLens[k + 1]
           N == Len(FrameLens)
           c == consume(buf, L + 2)
<1>1. k \in 0..N /\ n \in Nat /\ k + 1 \in 1..N /\ L \in Nat /\ N \in Nat /\ k \in Nat
  BY NextFrame, WireFacts
<1>2. /\ Offset(k + 1) = Offset(k) + (L + 2) /\ Offset(k) \in Nat /\ Offset(k + 1) \in Nat
  BY <1>1, WireFacts
<1>3. /\ frames \in Seq(Seq(AnyByte)) /\ BufferOK(AnyByte, buf) /\ Offset(k) + n = arrived
      /\ arrived <= Len(Wire) /\ (\A i \in 1..n : buf.data[buf.r + i] = Wire[Offset(k) + i])
      /\ \A f \in 1..k : frames[f] = Payload(codec, f) /\ ~Refused(f)
  BY DEF InStep
<1>4. L + 2 \in Nat /\ L + 2 <= n
  BY <1>1
<1>5. /\ BufferOK(AnyByte, c) /\ readable_size(c) = n - (L + 2)
      /\ \A i \in 1..n - (L + 2) : c.data[c.r + i] = buf.data[buf.r + (L + 2) + i]
  BY <1>3, <1>4, ConsumeFacts
<1>6. Payload(codec, k + 1) \in Seq(AnyByte)
  BY <1>1, PayloadType
<1> HIDE DEF k, n, L, N, c
<1>7. frames' \in Seq(Seq(AnyByte)) /\ Len(frames') = k + 1 /\ frames'[k + 1] = Payload(codec, k + 1)
      /\ \A f \in 1..k : frames'[f] = frames[f]
  <2> DEFINE p == Payload(codec, k + 1)
  <2>1. p \in Seq(AnyByte) /\ frames' = Append(frames, p)
    BY <1>6 DEF k
  <2> HIDE DEF p
  <2>2. /\ frames' \in Seq(Seq(AnyByte)) /\ Len(frames') = Len(frames) + 1
        /\ frames'[Len(frames) + 1] = p /\ \A f \in 1..Len(frames) : frames'[f] = frames[f]
    BY <1>3, <2>1, AppendFacts
  <2> QED
    BY <2>2 DEF k, p
<1>8. \A f \in 1..(k + 1) : frames'[f] = Payload(codec', f) /\ ~Refused(f)'
  <2>1. \A f \in 1..(k + 1) : f \in 1..k \/ f = k + 1
    BY <1>1
  <2>2. \A f : Payload(codec', f) = Payload(codec, f) /\ (Refused(f)' <=> Refused(f))
    BY DEF Payload, Refused
  <2>3. ~Refused(k + 1)
    BY DEF k
  <2> QED
    BY <1>3, <1>7, <2>1, <2>2, <2>3
<1>9. buf' = c /\ readable_size(buf)' = n - (L + 2) /\ BufferOK(AnyByte, buf)'
  <2>1. buf' = c
    BY DEF c, L, k
  <2> QED
    BY <1>5, <2>1 DEF BufferOK, readable_size
<1>10. ASSUME NEW i \in 1..n - (L + 2) PROVE buf'.data[buf'.r + i] = Wire[Offset(k + 1) + i]
  <2>1. buf.r \in Nat
    BY <1>3 DEF BufferOK
  <2>0. i \in Nat /\ (L + 2) + i \in 1..n
    BY <1>1, <1>4
  <2>2. (L + 2) + i \in 1..n /\ buf.r + (L + 2) + i = buf.r + ((L + 2) + i)
        /\ Offset(k) + ((L + 2) + i) = Offset(k + 1) + i
    <3> DEFINE r == buf.r
               o == Offset(k)
               q == Offset(k + 1)
    <3>1. r \in Nat /\ o \in Nat /\ q = o + (L + 2) /\ i \in Nat /\ L \in Nat
      BY <1>1, <1>2, <2>0, <2>1
    <3> HIDE DEF r, o, q
    <3>2. r + (L + 2) + i = r + ((L + 2) + i)
      BY <3>1
    <3>3. o + ((L + 2) + i) = q + i
      BY <3>1
    <3> QED
      BY <2>0, <3>2, <3>3 DEF r, o, q
  <2>3. c.data[c.r + i] = buf.data[buf.r + (L + 2) + i]
    BY <1>5
  <2>4. buf.data[buf.r + ((L + 2) + i)] = Wire[Offset(k) + ((L + 2) + i)]
    BY <1>3, <2>2
  <2> QED
    BY <1>9, <2>2, <2>3, <2>4
<1>11. Offset(k + 1) + (n - (L + 2)) = arrived
  BY <1>1, <1>2, <1>3
<1>12. k + 1 <= N /\ decoding' = decoding /\ arrived' = arrived /\ spinning' = spinning
  BY <1>1
<1> QED
  BY <1>3, <1>7, <1>8, <1>9, <1>10, <1>11, <1>12 DEF InStep, N

(* readView(): the readable bytes and one more.                             *)
LEMMA ViewFacts ==
    ASSUME InStep, NEW data \in ReadViews(buf, Bytes)
    PROVE  LET n == readable_size(buf) IN
           /\ data \in Seq(AnyByte) /\ Len(data) = n + 1
           /\ \A i \in 1..n : data[i] = Readable(buf)[i]
<1>1. /\ readable_size(buf) \in Nat /\ Readable(buf) \in Seq(AnyByte)
      /\ Len(Readable(buf)) = readable_size(buf)
  BY NextFrame
<1>2. PICK x \in (IF buf.w < Len(buf.data) THEN {buf.data[buf.w + 1]} ELSE Bytes) :
         data = Readable(buf) \o <<x>>
  BY DEF ReadViews
<1>3. x \in AnyByte
  <2>1. CASE buf.w < Len(buf.data)
    <3>1. buf.w \in Nat /\ buf.data \in Seq(AnyByte)
      BY DEF InStep, BufferOK
    <3>2. buf.w + 1 \in 1..Len(buf.data)
      BY <2>1, <3>1
    <3> QED
      BY <1>2, <2>1, <3>1, <3>2
  <2>2. CASE ~(buf.w < Len(buf.data))
    BY <1>2, <2>2, ByteFacts
  <2> QED
    BY <2>1, <2>2
<1> DEFINE R == Readable(buf)
<1>4. R \in Seq(AnyByte) /\ Len(R) = readable_size(buf) /\ data = R \o <<x>>
  BY <1>1, <1>2
<1> HIDE DEF R
<1>5. data \in Seq(AnyByte) /\ Len(data) = Len(R) + 1 /\ \A i \in 1..Len(R) : data[i] = R[i]
  BY <1>3, <1>4
<1> QED
  BY <1>4, <1>5 DEF R

(* The results tryDecode() may have: nothing yet or never, a count that     *)
(* includes the byte behind the readable ones, or the next frame.           *)
Sound(p) ==
    LET k == Len(frames)
        n == readable_size(buf) IN
    \/ p.n = 0 /\ (k = Len(FrameLens) \/ n < FrameLens[k + 1] + 2 \/ Refused(k + 1))
    \/ p.n # 0 /\ p.n > n
    \/ /\ k < Len(FrameLens) /\ FrameLens[k + 1] + 2 <= n /\ ~Refused(k + 1)
       /\ p.n = FrameLens[k + 1] + 2 /\ p.msg = Payload(codec, k + 1)

(* LineCodec and LengthCodec: the result is about the next frame, unless it *)
(* counts the byte behind the readable ones.                                *)
LEMMA LineSound ==
    ASSUME InStep, codec = "line", NEW data \in ReadViews(buf, Bytes), NEW p \in lineTryDecode(data)
    PROVE  Sound(p)
<1> DEFINE k == Len(frames)
           n == readable_size(buf)
           L == FrameLens[k + 1]
           N == Len(FrameLens)
<1>1. data \in Seq(AnyByte) /\ Len(data) = n + 1 /\ \A i \in 1..n : data[i] = Readable(buf)[i]
  BY ViewFacts
<1>2. /\ k \in 0..N /\ n \in Nat /\ (k = N => n = 0) /\ N \in Nat
      /\ k < N => /\ k + 1 \in 1..N /\ L \in Nat
                  /\ \A i \in 1..n : i <= L + 2 => /\ Readable(buf)[i] = [frame |-> k + 1, i |-> i]
                                                   /\ Readable(buf)[i] \in Byte
  BY NextFrame, WireFacts
<1>3. k < N => /\ k + 1 \in 1..N /\ L \in Nat
               /\ \A i \in 1..n : i <= L + 2 => /\ data[i] = [frame |-> k + 1, i |-> i]
                                                /\ data[i] # Zero
  BY <1>1, <1>2, ByteFacts
<1> HIDE DEF k, n, L, N
<1>4. k < N => \A i \in 1..n : i <= L + 2 => /\ IsNewline(data[i]) <=> i = L + 2
                                             /\ IsReturn(data[i]) <=> i = L + 1
  <2> SUFFICES ASSUME k < N, NEW i \in 1..n, i <= L + 2
               PROVE  (IsNewline(data[i]) <=> i = L + 2) /\ (IsReturn(data[i]) <=> i = L + 1)
    OBVIOUS
  <2>1. data[i] # Zero /\ data[i] = [frame |-> k + 1, i |-> i]
    BY <1>3
  <2>2. data[i].frame = k + 1 /\ data[i].i = i
    BY <2>1
  <2>3. FrameLens[data[i].frame] = L
    BY <2>2 DEF L
  <2> QED
    BY <2>1, <2>2, <2>3 DEF IsNewline, IsReturn
<1>5. CASE \A i \in 1..Len(data) : ~IsNewline(data[i])
  <2>1. p = Result(0, <<>>)
    BY <1>5 DEF lineTryDecode
  <2>2. k = N \/ n < L + 2
    <3> SUFFICES ASSUME k # N, ~(n < L + 2) PROVE FALSE
      OBVIOUS
    <3>1. k < N
      BY <1>2
    <3>2. L \in Nat
      BY <1>3, <3>1
    <3>3. L + 2 \in 1..n /\ L + 2 \in 1..Len(data) /\ L + 2 <= L + 2
      BY <1>1, <1>2, <3>2
    <3> QED
      BY <1>4, <1>5, <3>1, <3>3
  <2>3. p.n = 0
    BY <2>1 DEF Result
  <2> QED
    BY <2>2, <2>3 DEF Sound, k, n, L, N
<1>6. CASE ~\A i \in 1..Len(data) : ~IsNewline(data[i])
  <2> DEFINE I == {i \in 1..Len(data) : IsNewline(data[i])}
             m == SelectInSeq(data, IsNewline)
             end == IF m > 1 /\ IsReturn(data[m - 1]) THEN m - 2 ELSE m - 1
  <2>1. p = Result(m, SubSeq(data, 1, end))
    BY <1>6 DEF lineTryDecode
  <2>2. m \in I /\ \A y \in I : m <= y
    <3>1. I # {} /\ I \in SUBSET Nat
      BY <1>6
    <3>2. m = Min(I)
      BY <3>1 DEF SelectInSeq
    <3>3. \E x \in I : \A y \in I : x <= y
      <4> HIDE DEF I
      <4> QED
        BY <3>1, LeastElement
    <3> HIDE DEF I, m
    <3> QED
      BY <3>2, <3>3 DEF Min
  <2>3. m \in 1..(n + 1) /\ IsNewline(data[m]) /\ \A y \in 1..(n + 1) : IsNewline(data[y]) => m <= y
    BY <1>1, <2>2
  <2> HIDE DEF m, I
  <2>4. p.n = m /\ p.msg = SubSeq(data, 1, end)
    BY <2>1 DEF Result
  <2>5. CASE m > n
    BY <1>2, <2>3, <2>4, <2>5 DEF Sound, n
  <2>6. CASE ~(m > n)
    <3>1. m \in 1..n /\ k < N
      BY <1>2, <2>3, <2>6
    <3>2. L \in Nat /\ k + 1 \in 1..N
      BY <1>3, <3>1
    <3>3. m = L + 2
      <4>1. CASE m <= L + 2
        BY <1>4, <2>3, <3>1, <4>1
      <4>2. CASE ~(m <= L + 2)
        <5>1. L + 2 \in 1..n /\ L + 2 \in 1..(n + 1) /\ L + 2 <= L + 2
          BY <1>2, <3>1, <3>2, <4>2
        <5>2. IsNewline(data[L + 2])
          BY <1>4, <3>1, <5>1
        <5> QED
          BY <2>3, <4>2, <5>1, <5>2
      <4> QED
        BY <4>1, <4>2
    <3>4. m - 1 \in 1..n /\ m - 1 <= L + 2 /\ m - 1 = L + 1 /\ m > 1
      BY <1>2, <3>1, <3>2, <3>3
    <3>5. end = L
      <4>1. IsReturn(data[m - 1])
        BY <1>4, <3>1, <3>4
      <4> QED
        BY <3>2, <3>3, <3>4, <4>1
    <3>6. SubSeq(data, 1, L) = SubSeq(Encoded(k + 1), 1, L)
      <4>1. Encoded(k + 1) \in Seq(Byte) /\ Len(Encoded(k + 1)) = L + 2
            /\ \A i \in 1..L + 2 : Encoded(k + 1)[i] = [frame |-> k + 1, i |-> i]
        BY <3>2, EncodedFacts DEF N, L
      <4>2. Encoded(k + 1) \in Seq(AnyByte)
        BY <4>1, ByteFacts, SeqGrows
      <4>3. \A i \in 1..L : i \in 1..n /\ i <= L + 2 /\ i \in 1..L + 2
        BY <1>2, <3>1, <3>2, <3>3
      <4>4. \A i \in 1..L : data[i] = Encoded(k + 1)[i]
        BY <1>3, <3>1, <4>1, <4>3
      <4>5. L <= Len(data) /\ L <= Len(Encoded(k + 1))
        BY <1>1, <1>2, <3>1, <3>2, <3>3, <4>1
      <4> QED
        BY <1>1, <3>2, <4>2, <4>4, <4>5, SubSeqSame
    <3>7. p.msg = Payload(codec, k + 1)
      BY <2>4, <3>5, <3>6 DEF Payload, L
    <3>8. L + 2 <= n
      BY <1>2, <3>1, <3>3
    <3> QED
      BY <2>4, <3>1, <3>3, <3>7, <3>8 DEF Sound, k, n, L, N, Refused
  <2> QED
    BY <2>5, <2>6
<1> QED
  BY <1>5, <1>6

LEMMA LengthSound ==
    ASSUME InStep, codec = "length", NEW data \in ReadViews(buf, Bytes),
           NEW p \in lengthTryDecode(data)
    PROVE  Sound(p)
<1> DEFINE k == Len(frames)
           n == readable_size(buf)
           L == FrameLens[k + 1]
           N == Len(FrameLens)
           Try(len) == IF len <= MaxLength /\ Len(data) >= len + 2
                       THEN Result(len + 2, SubSeq(data, 3, len + 2))
                       ELSE Result(0, <<>>)
<1>1. data \in Seq(AnyByte) /\ Len(data) = n + 1 /\ \A i \in 1..n : data[i] = Readable(buf)[i]
  BY ViewFacts
<1>2. /\ k \in 0..N /\ n \in Nat /\ (k = N => n = 0) /\ N \in Nat
      /\ k < N => /\ k + 1 \in 1..N /\ L \in Nat
                  /\ \A i \in 1..n : i <= L + 2 => /\ Readable(buf)[i] = [frame |-> k + 1, i |-> i]
                                                   /\ Readable(buf)[i] \in Byte
  BY NextFrame, WireFacts
<1>3. k < N => /\ k + 1 \in 1..N /\ L \in Nat
               /\ \A i \in 1..n : i <= L + 2 => /\ data[i] = [frame |-> k + 1, i |-> i]
                                                /\ data[i] # Zero
  BY <1>1, <1>2, ByteFacts
<1>4. \A len : /\ Result(len + 2, SubSeq(data, 3, len + 2)).n = len + 2
               /\ Result(len + 2, SubSeq(data, 3, len + 2)).msg = SubSeq(data, 3, len + 2)
               /\ Result(0, <<>>).n = 0
  BY DEF Result
<1>d. p \in IF Len(data) < 2 THEN {Result(0, <<>>)}
            ELSE IF data[1] = Zero \/ data[1].i # 1 THEN {Result(0, <<>>)}
            ELSE IF data[2] # Zero /\ data[2].i = 2 THEN {Try(FrameLens[data[2].frame])}
            ELSE {Try(len) : len \in 0..Len(data)}
  BY DEF lengthTryDecode
<1>5. CASE n = 0
  <2>1. Len(data) < 2
    BY <1>1, <1>5
  <2>2. p = Result(0, <<>>)
    BY <1>d, <2>1
  <2>3. k = N \/ n < L + 2
    <3>1. k = N \/ k < N
      BY <1>2
    <3> HIDE DEF k, n, L, N
    <3> QED
      BY <1>2, <1>5, <3>1
  <2> QED
    BY <1>4, <2>2, <2>3 DEF Sound
<1>6. CASE n > 0
  <2>1. k < N /\ L \in Nat /\ k + 1 \in 1..N /\ Len(data) >= 2
    <3> HIDE DEF k, n, L, N
    <3> QED
      BY <1>1, <1>2, <1>6
  <2>2. data[1] # Zero /\ data[1].i = 1
    <3>1. 1 \in 1..n /\ 1 <= L + 2
      BY <1>2, <1>6, <2>1
    <3> HIDE DEF k, n, L, N
    <3>2. data[1] # Zero /\ data[1] = [frame |-> k + 1, i |-> 1]
      BY <1>3, <2>1, <3>1
    <3> QED
      BY <3>2
  <2>3. p \in IF data[2] # Zero /\ data[2].i = 2 THEN {Try(FrameLens[data[2].frame])}
              ELSE {Try(len) : len \in 0..Len(data)}
    BY <1>1, <1>2, <1>d, <2>1, <2>2
  <2>4. CASE n = 1
    <3>1. PICK len \in Nat : p = Try(len)
      <4>1. CASE data[2] # Zero /\ data[2].i = 2
        <5>1. 2 \in 1..Len(data)
          BY <1>1, <2>4
        <5>2. data[2] \in AnyByte
          BY <1>1, <5>1
        <5>3. FrameLens[data[2].frame] \in Nat
          BY <4>1, <5>2, ByteFacts DEF AnyByte
        <5> HIDE DEF Try
        <5> QED
          BY <2>3, <4>1, <5>3
      <4>2. CASE ~(data[2] # Zero /\ data[2].i = 2)
        <5> HIDE DEF Try
        <5> QED
          BY <2>3, <4>2
      <4> QED
        BY <4>1, <4>2
    <3>2. p.n = 0 \/ p.n = len + 2
      BY <1>4, <3>1
    <3>3. n < L + 2 /\ len + 2 # 0 /\ len + 2 > n
      <4> HIDE DEF k, n, L, N, Try
      <4> QED
        BY <2>1, <2>4, <3>1
    <3> QED
      BY <3>2, <3>3 DEF Sound
  <2>5. CASE n > 1
    <3>1. data[2] # Zero /\ data[2] = [frame |-> k + 1, i |-> 2]
      <4>1. 2 \in 1..n /\ 2 <= L + 2
        BY <1>2, <2>1, <2>5
      <4> HIDE DEF k, n, L, N
      <4> QED
        BY <1>3, <2>1, <4>1
    <3>2. p = Try(L)
      <4>1. data[2].i = 2 /\ data[2].frame = k + 1
        BY <3>1
      <4> HIDE DEF Try
      <4> QED
        BY <2>3, <3>1, <4>1
    <3>0. Refused(k + 1) <=> L > MaxLength
      BY DEF Refused
    <3>r. CASE L > MaxLength
      <4>1. ~(L <= MaxLength)
        <5> HIDE DEF k, n, L, N, Try
        <5> QED
          BY <2>1, <3>r, CodecAssumption
      <4>2. p.n = 0
        BY <1>4, <3>2, <4>1
      <4> QED
        BY <3>0, <3>r, <4>2 DEF Sound
    <3>3. CASE n + 1 >= L + 2 /\ ~(L > MaxLength)
      <4>0. L <= MaxLength
        <5> HIDE DEF k, n, L, N, Try
        <5> QED
          BY <2>1, <3>3, CodecAssumption
      <4>1. p.n = L + 2 /\ p.msg = SubSeq(data, 3, L + 2)
        BY <1>1, <1>4, <3>2, <3>3, <4>0
      <4>2. CASE L + 2 > n
        <5>1. L + 2 # 0
          BY <2>1
        <5> QED
          BY <4>1, <4>2, <5>1 DEF Sound
      <4>3. CASE L + 2 <= n
        <5>1. Encoded(k + 1) \in Seq(Byte) /\ Len(Encoded(k + 1)) = L + 2
              /\ \A i \in 1..L + 2 : Encoded(k + 1)[i] = [frame |-> k + 1, i |-> i]
          BY <2>1, EncodedFacts
        <5> HIDE DEF k, n, L, N, Try
        <5>2. Encoded(k + 1) \in Seq(AnyByte)
          BY <5>1, ByteFacts, SeqGrows
        <5>3. \A i \in 3..L + 2 : i \in 1..n /\ i <= L + 2 /\ i \in 1..L + 2
          BY <1>2, <2>1, <4>3
        <5>4. \A i \in 3..L + 2 : data[i] = Encoded(k + 1)[i]
          BY <1>3, <2>1, <5>1, <5>3
        <5>5. L + 2 \in Nat /\ L + 2 <= Len(data) /\ L + 2 <= Len(Encoded(k + 1)) /\ 3 \in Nat \ {0}
          BY <1>1, <1>2, <2>1, <4>3, <5>1
        <5>6. SubSeq(data, 3, L + 2) = SubSeq(Encoded(k + 1), 3, L + 2)
          BY <1>1, <5>2, <5>4, <5>5, SubSeqSame
        <5>7. p.msg = Payload(codec, k + 1)
          BY <4>1, <5>6 DEF Payload, L
        <5> QED
          BY <2>1, <3>0, <3>3, <4>1, <4>3, <5>7 DEF Sound, k, n, L, N
      <4> QED
        <5> HIDE DEF k, n, L, N, Try
        <5> QED
          BY <1>2, <2>1, <4>2, <4>3
    <3>4. CASE ~(n + 1 >= L + 2)
      <4>1. p.n = 0
        BY <1>1, <1>4, <3>2, <3>4
      <4>2. n < L + 2
        <5> HIDE DEF k, n, L, N, Try
        <5> QED
          BY <1>2, <2>1, <3>4
      <4> QED
        BY <4>1, <4>2 DEF Sound
    <3> QED
      BY <3>r, <3>3, <3>4
  <2> QED
    BY <1>2, <1>6, <2>4, <2>5
<1> QED
  BY <1>2, <1>5, <1>6

(* The steps of the codecs' loops and of reading keep CodecInv.             *)
LEMMA DecodeStep ==
    ASSUME InStep, ~spinning, Decode
    PROVE  CodecInv'
<1>0. PICK data \in ReadViews(buf, Bytes) : \E p \in tryDecode(data) :
         IF p.n = 0 THEN decoding' = FALSE /\ UNCHANGED <<buf, frames, overread, codecAborted>>
         ELSE /\ frames' = Append(frames, p.msg) /\ buf' = consume(buf, p.n)
              /\ overread' = (overread \/ p.n > readable_size(buf))
              /\ codecAborted' = (Asserts /\ p.n > readable_size(buf)) /\ UNCHANGED decoding
  BY DEF Decode
<1>1. PICK p \in tryDecode(data) :
         IF p.n = 0 THEN decoding' = FALSE /\ UNCHANGED <<buf, frames, overread, codecAborted>>
         ELSE /\ frames' = Append(frames, p.msg) /\ buf' = consume(buf, p.n)
              /\ overread' = (overread \/ p.n > readable_size(buf))
              /\ codecAborted' = (Asserts /\ p.n > readable_size(buf)) /\ UNCHANGED decoding
  BY <1>0
<1>2. decoding /\ codec # "proto" /\ UNCHANGED <<codec, unknown, arrived, spinning>>
  BY DEF Decode
<1>3. Sound(p)
  <2>1. CASE codec = "line"
    BY <1>1, <2>1, LineSound DEF tryDecode
  <2>2. CASE codec # "line"
    <3>1. codec = "length"
      BY <1>2, <2>2 DEF InStep
    <3> QED
      BY <1>1, <2>2, <3>1, LengthSound DEF tryDecode
  <2> QED
    BY <2>1, <2>2
<1>4. CASE p.n = 0 /\ (\/ Len(frames) = Len(FrameLens)
                       \/ readable_size(buf) < FrameLens[Len(frames) + 1] + 2
                       \/ Refused(Len(frames) + 1))
  <2>1. decoding' = FALSE /\ UNCHANGED <<buf, frames, codec, unknown, arrived, spinning>>
    BY <1>1, <1>2, <1>4
  <2>2. \A f : Refused(f)' <=> Refused(f)
    BY <2>1 DEF Refused
  <2>3. InStep'
    BY <1>4, <2>1, <2>2 DEF InStep, readable_size
  <2> QED
    BY <2>3 DEF CodecInv
<1>5. CASE p.n # 0 /\ p.n > readable_size(buf)
  BY <1>1, <1>5 DEF CodecInv
<1>6. CASE /\ Len(frames) < Len(FrameLens) /\ FrameLens[Len(frames) + 1] + 2 <= readable_size(buf)
           /\ ~Refused(Len(frames) + 1)
           /\ p.n = FrameLens[Len(frames) + 1] + 2 /\ p.msg = Payload(codec, Len(frames) + 1)
  <2>1. FrameLens[Len(frames) + 1] \in Nat
    BY <1>6, NextFrame
  <2>2. p.n # 0
    BY <1>6, <2>1
  <2>3. /\ frames' = Append(frames, Payload(codec, Len(frames) + 1))
        /\ buf' = consume(buf, FrameLens[Len(frames) + 1] + 2) /\ UNCHANGED decoding
    BY <1>1, <1>6, <2>2
  <2> QED
    BY <1>2, <1>6, <2>3, TakeFrame DEF CodecInv
<1> QED
  BY <1>3, <1>4, <1>5, <1>6 DEF Sound

LEMMA ProtoStep ==
    ASSUME InStep, ~spinning, ProtoDecode
    PROVE  InStep'
<1> DEFINE k == Len(frames)
           n == readable_size(buf)
           R == Readable(buf)
           L == FrameLens[k + 1]
           N == Len(FrameLens)
<1>1. /\ k \in 0..N /\ N \in Nat /\ n \in Nat /\ R \in Seq(AnyByte) /\ Len(R) = n
      /\ k = N => n = 0
  BY NextFrame, WireFacts
<1>2. k < N => /\ k + 1 \in 1..N /\ L \in Nat /\ (n > L + 2 => R[L + 3].frame = k + 2)
               /\ \A i \in 1..n : i <= L + 2 => R[i] = [frame |-> k + 1, i |-> i]
  BY NextFrame
<1>3. decoding /\ codec = "proto" /\ UNCHANGED <<codec, unknown, arrived, overread>>
  BY DEF ProtoDecode
<1>r. \A f : Refused(f)' <=> Refused(f)
  BY <1>3 DEF Refused
<1>4. n > 0 => /\ k < N /\ k + 1 \in 1..N /\ L \in Nat /\ Len(Encoded(R[1].frame)) = L + 2
               /\ R[1].frame = k + 1
  <2> SUFFICES ASSUME n > 0
               PROVE  /\ k < N /\ k + 1 \in 1..N /\ L \in Nat /\ Len(Encoded(R[1].frame)) = L + 2
                      /\ R[1].frame = k + 1
    OBVIOUS
  <2>1. k < N
    BY <1>1
  <2>2. k + 1 \in 1..N /\ L \in Nat
    BY <1>2, <2>1
  <2>3. 1 \in 1..n /\ 1 <= L + 2
    BY <1>1, <2>2
  <2>4. R[1].frame = k + 1
    <3> HIDE DEF k, n, R, L, N
    <3>1. R[1] = [frame |-> k + 1, i |-> 1]
      BY <1>2, <2>1, <2>3
    <3> QED
      BY <3>1
  <2>5. Len(Encoded(k + 1)) = L + 2
    BY <2>2, EncodedFacts
  <2> QED
    BY <2>1, <2>2, <2>4, <2>5
<1>5. msgComplete(buf) <=> n > 0 /\ n >= L + 2
  <2>1. msgComplete(buf) <=> n > 0 /\ n >= Len(Encoded(R[1].frame))
    BY DEF msgComplete
  <2> HIDE DEF k, n, R, L, N
  <2> QED
    BY <1>4, <2>1
<1>6. Parses(buf) <=> \A i \in 1..n : R[i].frame = R[1].frame
  <2>1. DOMAIN R = 1..n
    BY <1>1
  <2> QED
    BY <2>1 DEF Parses, Range
<1>7. CASE ~msgComplete(buf) /\ decoding' = FALSE /\ UNCHANGED <<buf, frames, spinning>>
  <2>1. k = N \/ n < L + 2
    <3> HIDE DEF k, n, R, L, N
    <3>1. CASE n = 0
      <4>1. k = N \/ k < N
        BY <1>1
      <4> QED
        BY <1>2, <3>1, <4>1
    <3>2. CASE n > 0
      BY <1>1, <1>4, <1>5, <1>7, <3>2
    <3> QED
      BY <1>1, <3>1, <3>2
  <2> QED
    BY <1>3, <1>r, <1>7, <2>1 DEF InStep, readable_size
<1>8. CASE /\ msgComplete(buf) /\ Decodes(buf)
           /\ frames' = Append(frames, SubSeq(Readable(buf), 3, readable_size(buf)))
           /\ buf' = consume(buf, readable_size(buf))
           /\ UNCHANGED <<decoding, spinning>>
  <2>1. n > 0 /\ n >= L + 2
    BY <1>5, <1>8
  <2>2. k < N /\ k + 1 \in 1..N /\ L \in Nat /\ R[1].frame = k + 1
    BY <1>4, <2>1
  <2>3. n = L + 2
    <3> SUFFICES ASSUME n > L + 2 PROVE FALSE
      <4> HIDE DEF k, n, R, L, N
      <4> QED
        BY <1>1, <2>1, <2>2
    <3> HIDE DEF k, n, R, L, N
    <3>1. L + 3 \in 1..n /\ k \in Nat
      BY <1>1, <2>2
    <3>2. R[L + 3].frame = k + 2
      BY <1>2, <2>2
    <3>3. R[L + 3].frame = k + 1
      BY <1>6, <1>8, <2>2, <3>1 DEF Decodes
    <3> QED
      BY <3>1, <3>2, <3>3
  <2>4. SubSeq(R, 3, n) = Payload(codec, k + 1)
    <3>1. Encoded(k + 1) \in Seq(Byte) /\ Len(Encoded(k + 1)) = L + 2
          /\ \A i \in 1..L + 2 : Encoded(k + 1)[i] = [frame |-> k + 1, i |-> i]
      BY <2>2, EncodedFacts
    <3> HIDE DEF k, n, R, L, N
    <3>2. Encoded(k + 1) \in Seq(AnyByte)
      BY <3>1, ByteFacts, SeqGrows
    <3>3. \A i \in 3..L + 2 : i \in 1..n /\ i <= L + 2 /\ i \in 1..L + 2
      BY <1>1, <2>2, <2>3
    <3>4. \A i \in 3..L + 2 : R[i] = Encoded(k + 1)[i]
      BY <1>2, <2>2, <3>1, <3>3
    <3>5. L + 2 \in Nat /\ L + 2 <= Len(R) /\ L + 2 <= Len(Encoded(k + 1)) /\ 3 \in Nat \ {0}
      BY <1>1, <2>2, <2>3, <3>1
    <3>6. SubSeq(R, 3, L + 2) = SubSeq(Encoded(k + 1), 3, L + 2)
      BY <1>1, <3>2, <3>4, <3>5, SubSeqSame
    <3> QED
      BY <1>3, <2>3, <3>6 DEF Payload, L
  <2>5. frames' = Append(frames, Payload(codec, k + 1))
    BY <1>8, <2>4
  <2>6. buf' = consume(buf, L + 2)
    BY <1>8, <2>3
  <2>7. L + 2 <= n
    <3> HIDE DEF k, n, R, L, N
    <3> QED
      BY <1>1, <2>2, <2>3
  <2>8. ~Refused(k + 1)
    BY <1>8, <2>2 DEF Decodes
  <2> QED
    BY <1>3, <1>8, <2>2, <2>5, <2>6, <2>7, <2>8, TakeFrame
<1>9. CASE /\ msgComplete(buf) /\ ~Decodes(buf) /\ spinning' = TRUE
           /\ UNCHANGED <<buf, frames, decoding>>
  <2>1. n > 0 /\ n >= L + 2
    BY <1>5, <1>9
  <2>2. k < N /\ k + 1 \in 1..N /\ L \in Nat /\ R[1].frame = k + 1
    BY <1>4, <2>1
  <2>3. n > L + 2 \/ Refused(k + 1)
    <3>0. ~Parses(buf) \/ Refused(k + 1)
      BY <1>9, <2>2 DEF Decodes
    <3> HIDE DEF k, n, R, L, N
    <3> SUFFICES ASSUME n = L + 2, ~Refused(k + 1) PROVE FALSE
      BY <1>1, <2>1, <2>2
    <3>1. \A i \in 1..n : i <= L + 2
      BY <1>1, <2>2
    <3>2. \A i \in 1..n : R[i] = [frame |-> k + 1, i |-> i]
      BY <1>2, <2>2, <3>1
    <3>3. ASSUME NEW i \in 1..n PROVE R[i].frame = k + 1
      <4>1. R[i] = [frame |-> k + 1, i |-> i]
        BY <3>2
      <4> QED
        BY <4>1
    <3> QED
      BY <1>6, <2>2, <3>0, <3>3
  <2> QED
    BY <1>3, <1>r, <1>9, <2>2, <2>3 DEF InStep, readable_size
<1> QED
  BY <1>7, <1>8, <1>9 DEF ProtoDecode

LEMMA ReadStep ==
    ASSUME InStep, ~spinning, ReadSome
    PROVE  InStep'
<1> DEFINE k == Len(frames)
           n == readable_size(buf)
<1>1. PICK m \in 1..Len(Wire) - arrived :
         /\ buf' = appendFormFd(buf, SubSeq(Wire, arrived + 1, arrived + m))
         /\ arrived' = arrived + m
  BY DEF ReadSome
<1>2. decoding' = TRUE /\ UNCHANGED <<codec, unknown, frames, overread, spinning>>
  BY DEF ReadSome
<1>r. \A f : Refused(f)' <=> Refused(f)
  BY <1>2 DEF Refused
<1>3. k \in 0..Len(FrameLens) /\ n \in Nat
  BY NextFrame
<1>4. /\ BufferOK(AnyByte, buf) /\ Offset(k) + n = arrived /\ arrived <= Len(Wire)
      /\ \A i \in 1..n : buf.data[buf.r + i] = Wire[Offset(k) + i]
  BY DEF InStep
<1>5. Wire \in Seq(Byte) /\ Len(Wire) \in Nat /\ Offset(k) \in Nat
  BY <1>3, WireFacts
<1>6. Wire \in Seq(AnyByte) /\ Zero \in AnyByte
  BY <1>5, ByteFacts, SeqGrows
<1> DEFINE s == SubSeq(Wire, arrived + 1, arrived + m)
<1> HIDE DEF k, n
<1>7. arrived \in Nat /\ m \in Nat /\ arrived + m <= Len(Wire)
  BY <1>3, <1>4, <1>5
<1>8. s \in Seq(AnyByte) /\ Len(s) = m /\ \A i \in 1..m : s[i] = Wire[arrived + i]
  BY <1>5, <1>6, <1>7
<1> HIDE DEF s
<1>9. Appended(AnyByte, buf, s, buf')
  <2>1. Appended(AnyByte, buf, s, appendFormFd(buf, s))
    BY <1>4, <1>6, <1>8, AppendFormFdAppends
  <2> QED
    BY <1>1, <2>1 DEF s
<1>10. /\ BufferOK(AnyByte, buf)' /\ readable_size(buf)' = n + m
       /\ (\A i \in 1..n : buf'.data[buf'.r + i] = buf.data[buf.r + i])
       /\ \A i \in 1..m : buf'.data[buf'.r + n + i] = s[i]
  <2>1. /\ BufferOK(AnyByte, buf') /\ readable_size(buf') = readable_size(buf) + Len(s)
        /\ \A i \in 1..readable_size(buf) : buf'.data[buf'.r + i] = buf.data[buf.r + i]
        /\ \A i \in 1..Len(s) : buf'.data[buf'.r + readable_size(buf) + i] = s[i]
    BY <1>9 DEF Appended
  <2> QED
    BY <1>8, <2>1 DEF n
<1>11. ASSUME NEW i \in 1..n + m PROVE buf'.data[buf'.r + i] = Wire[Offset(k) + i]
  <2>0. buf'.r \in Nat
    BY <1>10 DEF BufferOK
  <2>1. CASE i <= n
    <3>1. i \in 1..n
      BY <1>3, <1>7, <2>1
    <3> QED
      BY <1>4, <1>10, <3>1
  <2>2. CASE ~(i <= n)
    <3> DEFINE j == i - n
               r == buf'.r
               o == Offset(k)
    <3>1. j \in 1..m /\ j \in Nat /\ i = n + j
      BY <1>3, <1>7, <2>2
    <3>2. buf'.data[r + n + j] = s[j] /\ s[j] = Wire[arrived + j]
      BY <1>8, <1>10, <3>1
    <3>3. r \in Nat /\ o \in Nat /\ arrived = o + n
      BY <1>4, <1>5, <2>0 DEF n, k
    <3> HIDE DEF j, r, o
    <3>4. r + n + j = r + i /\ arrived + j = o + i
      BY <1>3, <3>1, <3>3
    <3> QED
      BY <3>2, <3>4 DEF r, o
  <2> QED
    BY <2>1, <2>2
<1>12. Offset(k) + (n + m) = arrived'
  <2>1. Offset(k) + n = arrived
    BY <1>4 DEF n, k
  <2> QED
    BY <1>1, <1>3, <1>5, <1>7, <2>1
<1> QED
  BY <1>1, <1>2, <1>r, <1>7, <1>10, <1>11, <1>12 DEF InStep, k, n

(* CodecInv holds at the start and after every step.                        *)
LEMMA CodecInitInv == CodecInit => CodecInv
<1> SUFFICES ASSUME CodecInit PROVE InStep
  BY DEF CodecInv
<1>1. frames = <<>> /\ Len(frames) = 0 /\ buf = EmptyBuffer /\ decoding = FALSE /\ arrived = 0
      /\ spinning = FALSE /\ codec \in {"line", "length", "proto"}
  BY DEF CodecInit
<1>2. BufferOK(AnyByte, buf) /\ readable_size(buf) = 0
  BY <1>1, ByteFacts, EmptyBufferOK
<1>3. Offset(0) = 0 /\ Len(Wire) \in Nat /\ Len(FrameLens) \in Nat
  BY WireFacts
<1>4. 0 = Len(FrameLens) \/ 0 < FrameLens[0 + 1] + 2
  <2>1. 0 \in 0..Len(FrameLens) /\ (0 = Len(FrameLens) \/ 0 < Len(FrameLens))
    BY <1>3
  <2>2. 0 < Len(FrameLens) => FrameLens[0 + 1] \in Nat
    BY <2>1, WireFacts
  <2> QED
    BY <2>1, <2>2
<1>5. frames \in Seq(Seq(AnyByte))
  BY <1>1
<1>6. /\ Offset(Len(frames)) + readable_size(buf) = arrived
      /\ Len(frames) <= Len(FrameLens) /\ arrived <= Len(Wire)
  BY <1>1, <1>2, <1>3
<1>7. 1..Len(frames) = {} /\ 1..readable_size(buf) = {}
  BY <1>1, <1>2
<1>8. Len(frames) = Len(FrameLens) \/ readable_size(buf) < FrameLens[Len(frames) + 1] + 2
  BY <1>1, <1>2, <1>4
<1> QED
  BY <1>1, <1>2, <1>5, <1>6, <1>7, <1>8 DEF InStep

LEMMA CodecStepInv ==
    ASSUME CodecInv, [CodecNext]_codecVars
    PROVE  CodecInv'
<1>1. CASE UNCHANGED codecVars
  <2>1. \A f : Refused(f)' <=> Refused(f)
    BY <1>1 DEF codecVars, Refused
  <2> QED
    BY <1>1, <2>1 DEF codecVars, CodecInv, InStep, readable_size
<1>2. CASE CodecNext /\ overread
  <2>1. overread' = overread \/ overread' = TRUE
    BY <1>2 DEF CodecNext, ReadSome, Decode, ProtoDecode
  <2> QED
    BY <1>2, <2>1 DEF CodecInv
<1>3. CASE CodecNext /\ ~overread
  <2>1. InStep /\ ~spinning
    BY <1>3 DEF CodecInv, CodecNext
  <2> QED
    BY <1>3, <2>1, ReadStep, DecodeStep, ProtoStep DEF CodecNext, CodecInv
<1> QED
  BY <1>1, <1>2, <1>3

(* Codec and TcpBuffer: wherever the reads cut the stream and however the   *)
(* buffer moves or grows, the application gets the frames that were sent,   *)
(* in order, each with its own bytes, and once the stream has been read all *)
(* of them up to the first one the codec refuses by its limits or for its   *)
(* type, unless a result counted the byte that readView() adds; and the     *)
(* protobuf loop hangs only on a refused message, or with part of another   *)
(* one behind a whole one.  For every list of frames, whatever their        *)
(* lengths, the limits, the unknown types and the size of the buffer.       *)
THEOREM FramesIntactCorrect == CodecSpec => []FramesIntact
<1>1. CodecInit => CodecInv
  BY CodecInitInv
<1>2. CodecInv /\ [CodecNext]_codecVars => CodecInv'
  BY CodecStepInv
<1>3. CodecInv => FramesIntact
  <2> SUFFICES ASSUME InStep PROVE FramesIntact
    BY DEF CodecInv, FramesIntact
  <2>1. /\ Len(frames) \in 0..Len(FrameLens) /\ readable_size(buf) \in Nat
        /\ Len(FrameLens) \in Nat /\ Offset(Len(frames)) \in Nat
    BY NextFrame, WireFacts
  <2>2. ASSUME ~decoding, arrived = Len(Wire)
        PROVE  Len(frames) = Len(FrameLens) \/ Refused(Len(frames) + 1)
    <3> SUFFICES ASSUME Len(frames) < Len(FrameLens), ~Refused(Len(frames) + 1) PROVE FALSE
      BY <2>1
    <3> DEFINE k == Len(frames)
               n == readable_size(buf)
               L == FrameLens[k + 1]
    <3>1. L \in Nat /\ Offset(k + 1) = Offset(k) + (L + 2) /\ Offset(k + 1) <= Len(Wire)
      BY <2>1, WireFacts
    <3>2. Offset(k) + n = Len(Wire)
      BY <2>2 DEF InStep
    <3>3. k = Len(FrameLens) \/ n < L + 2
      BY <2>2 DEF InStep
    <3>4. n \in Nat /\ Offset(k) \in Nat /\ k # Len(FrameLens)
      BY <2>1
    <3> HIDE DEF k, n, L
    <3> QED
      BY <3>1, <3>2, <3>3, <3>4
  <2> QED
    BY <2>1, <2>2 DEF InStep, FramesIntact
<1> QED
  BY <1>1, <1>2, <1>3, PTL DEF CodecSpec

-----------------------------------------------------------------------------
(* HTTP: a receive buffer x and the bytes y still on their way are those of *)
(* the messages a + 1 .. b of the stream P.                                 *)
Window(S, P, a, b, x, y) ==
    /\ x \in Seq(S) /\ y \in Seq(S) /\ a \in 0..Len(P) /\ b \in 0..Len(P) /\ a <= b
    /\ Place(P, a) + Len(x) + Len(y) = Place(P, b)
    /\ \A i \in 1..Len(x) : x[i] = FlattenSeq(P)[Place(P, a) + i]
    /\ \A i \in 1..Len(y) : y[i] = FlattenSeq(P)[Place(P, a) + Len(x) + i]

(* Behind the first n elements.                                             *)
LEMMA DropFacts ==
    ASSUME NEW S, NEW s \in Seq(S), NEW n \in 0..Len(s)
    PROVE  /\ Drop(s, n) \in Seq(S) /\ Len(Drop(s, n)) = Len(s) - n
           /\ \A i \in 1..Len(s) - n : Drop(s, n)[i] = s[n + i]
  BY DEF Drop

(* One more message is sent.                                                *)
LEMMA WindowSend ==
    ASSUME NEW S, NEW P \in Seq(Seq(S)), NEW a, NEW b, NEW x, NEW y,
           Window(S, P, a, b, x, y), b < Len(P)
    PROVE  Window(S, P, a, b + 1, x, y \o P[b + 1])
<1> DEFINE F == FlattenSeq(P)
           e == P[b + 1]
           z == y \o e
           A == Place(P, a)
           B == Place(P, b)
           C == Place(P, b + 1)
<1>1. /\ x \in Seq(S) /\ y \in Seq(S) /\ a \in 0..Len(P) /\ b \in 0..Len(P) /\ a <= b
      /\ A + Len(x) + Len(y) = B
      /\ \A i \in 1..Len(x) : x[i] = F[A + i]
      /\ \A i \in 1..Len(y) : y[i] = F[A + Len(x) + i]
  BY DEF Window
<1>2. Len(P) \in Nat /\ A \in Nat /\ B \in Nat /\ Len(x) \in Nat /\ Len(y) \in Nat
  BY <1>1, PlaceFacts, SeqElements
<1>3. e \in Seq(S) /\ Len(e) \in Nat /\ C = B + Len(e) /\ \A i \in 1..Len(e) : F[B + i] = e[i]
  BY <1>1, PlaceFacts
<1>4. b + 1 \in 0..Len(P) /\ a <= b + 1
  BY <1>1, <1>2
<1> HIDE DEF F, e, A, B, C
<1>5. /\ z \in Seq(S) /\ Len(z) = Len(y) + Len(e) /\ (\A i \in 1..Len(y) : z[i] = y[i])
      /\ \A i \in 1..Len(e) : z[Len(y) + i] = e[i]
  BY <1>1, <1>3, ConcatElements
<1> HIDE DEF z
<1> DEFINE lx == Len(x)
           ly == Len(y)
           le == Len(e)
           lz == Len(z)
<1>a. /\ lx \in Nat /\ ly \in Nat /\ le \in Nat /\ A \in Nat /\ B \in Nat /\ lz = ly + le
      /\ A + lx + ly = B /\ C = B + le
  BY <1>1, <1>2, <1>3, <1>5
<1> HIDE DEF lx, ly, le, lz
<1>6. A + lx + lz = C
  BY <1>a
<1>7. ASSUME NEW i \in 1..Len(z) PROVE z[i] = F[A + Len(x) + i]
  <2>0. i \in Nat /\ i >= 1 /\ i <= Len(y) + Len(e)
    BY <1>2, <1>3, <1>5
  <2>1. CASE i <= Len(y)
    <3>1. i \in 1..Len(y)
      BY <1>2, <2>0, <2>1
    <3> QED
      BY <1>1, <1>5, <3>1
  <2>2. CASE ~(i <= Len(y))
    <3> DEFINE j == i - Len(y)
    <3>1. j \in 1..Len(e) /\ i = Len(y) + j /\ A + Len(x) + i = B + j
      <4>1. i \in Nat /\ i <= ly + le /\ ~(i <= ly)
        BY <2>0, <2>2 DEF ly, le
      <4>2. i - ly \in 1..le /\ i = ly + (i - ly) /\ A + lx + i = B + (i - ly)
        BY <1>a, <4>1
      <4> QED
        BY <4>2 DEF lx, ly, le
    <3> HIDE DEF j
    <3> QED
      BY <1>3, <1>5, <3>1
  <2> QED
    BY <2>1, <2>2
<1> QED
  BY <1>1, <1>4, <1>5, <1>6, <1>7 DEF Window, F, e, A, B, C, z, lx, ly, le, lz

(* Some bytes arrive.                                                       *)
LEMMA WindowRead ==
    ASSUME NEW S, NEW P \in Seq(Seq(S)), NEW a, NEW b, NEW x, NEW y,
           Window(S, P, a, b, x, y), NEW n \in 1..Len(y)
    PROVE  /\ Window(S, P, a, b, x \o SubSeq(y, 1, n), Drop(y, n))
           /\ Len(x \o SubSeq(y, 1, n)) = Len(x) + n
<1> DEFINE F == FlattenSeq(P)
           A == Place(P, a)
           p == SubSeq(y, 1, n)
           d == Drop(y, n)
           z == x \o p
<1>1. /\ x \in Seq(S) /\ y \in Seq(S) /\ a \in 0..Len(P) /\ b \in 0..Len(P) /\ a <= b
      /\ A + Len(x) + Len(y) = Place(P, b)
      /\ \A i \in 1..Len(x) : x[i] = F[A + i]
      /\ \A i \in 1..Len(y) : y[i] = F[A + Len(x) + i]
  BY DEF Window
<1>2. A \in Nat /\ Len(x) \in Nat /\ Len(y) \in Nat
  BY <1>1, PlaceFacts, SeqElements
<1> HIDE DEF F, A
<1>3. n \in 0..Len(y) /\ n \in Nat /\ n <= Len(y)
  BY <1>2
<1>4. d \in Seq(S) /\ Len(d) = Len(y) - n /\ \A i \in 1..Len(y) - n : d[i] = y[n + i]
  BY <1>1, <1>3, DropFacts
<1>5. p \in Seq(S) /\ Len(p) = n /\ \A i \in 1..n : p[i] = y[i]
  BY <1>1, <1>2, <1>3
<1> HIDE DEF p, d
<1>6. /\ z \in Seq(S) /\ Len(z) = Len(x) + n /\ (\A i \in 1..Len(x) : z[i] = x[i])
      /\ \A i \in 1..n : z[Len(x) + i] = p[i]
  <2>1. /\ z \in Seq(S) /\ Len(z) = Len(x) + Len(p) /\ (\A i \in 1..Len(x) : z[i] = x[i])
        /\ \A i \in 1..Len(p) : z[Len(x) + i] = p[i]
    <3>1. x \in Seq(S) /\ p \in Seq(S)
      BY <1>1, <1>5
    <3> QED
      BY <3>1, ConcatElements
  <2> HIDE DEF z
  <2> QED
    BY <1>5, <2>1
<1> HIDE DEF z
<1>7. A + Len(z) + Len(d) = Place(P, b)
  BY <1>1, <1>2, <1>3, <1>4, <1>6
<1>8. ASSUME NEW i \in 1..Len(z) PROVE z[i] = F[A + i]
  <2>0. i \in Nat /\ i >= 1 /\ i <= Len(x) + n
    BY <1>2, <1>3, <1>6
  <2>1. CASE i <= Len(x)
    <3>1. i \in 1..Len(x)
      BY <1>2, <2>0, <2>1
    <3> QED
      BY <1>1, <1>6, <3>1
  <2>2. CASE ~(i <= Len(x))
    <3> DEFINE j == i - Len(x)
    <3>1. j \in 1..n /\ j \in 1..Len(y) /\ i = Len(x) + j /\ A + Len(x) + j = A + i
      BY <1>2, <1>3, <2>0, <2>2
    <3> HIDE DEF j
    <3> QED
      BY <1>1, <1>5, <1>6, <3>1
  <2> QED
    BY <2>1, <2>2
<1>9. ASSUME NEW i \in 1..Len(d) PROVE d[i] = F[A + Len(z) + i]
  <2>1. i \in 1..Len(y) - n /\ n + i \in 1..Len(y) /\ A + Len(x) + (n + i) = A + Len(z) + i
    BY <1>2, <1>3, <1>4, <1>6
  <2> QED
    BY <1>1, <1>4, <2>1
<1> QED
  BY <1>1, <1>4, <1>6, <1>7, <1>8, <1>9 DEF Window, F, A, p, d, z

(* What the buffer begins with.                                             *)
LEMMA WindowFront ==
    ASSUME NEW S, NEW P \in Seq(Seq(S)), NEW a, NEW b, NEW x, NEW y, Window(S, P, a, b, x, y)
    PROVE  /\ a \in Nat /\ b \in Nat /\ a <= b /\ b <= Len(P) /\ Len(P) \in Nat
           /\ x \in Seq(S) /\ y \in Seq(S) /\ Len(x) \in Nat /\ Len(y) \in Nat
           /\ a = b => x = <<>> /\ y = <<>>
           /\ a < b => /\ a + 1 \in 1..Len(P) /\ P[a + 1] \in Seq(S) /\ Len(P[a + 1]) \in Nat
                       /\ Len(P[a + 1]) <= Len(x) + Len(y)
                       /\ \A i \in 1..Len(x) : i <= Len(P[a + 1]) => x[i] = P[a + 1][i]
<1> DEFINE F == FlattenSeq(P)
           A == Place(P, a)
<1>1. /\ x \in Seq(S) /\ y \in Seq(S) /\ a \in 0..Len(P) /\ b \in 0..Len(P) /\ a <= b
      /\ A + Len(x) + Len(y) = Place(P, b)
      /\ \A i \in 1..Len(x) : x[i] = F[A + i]
  BY DEF Window
<1>2. /\ A \in Nat /\ Place(P, b) \in Nat /\ Len(x) \in Nat /\ Len(y) \in Nat /\ Len(P) \in Nat
      /\ a \in Nat /\ b \in Nat /\ b <= Len(P)
  <2>1. A \in Nat /\ Place(P, b) \in Nat /\ Len(P) \in Nat
    BY <1>1, PlaceFacts
  <2>2. Len(x) \in Nat /\ Len(y) \in Nat
    BY <1>1, SeqElements
  <2> QED
    BY <1>1, <2>1, <2>2
<1>3. a = b => x = <<>> /\ y = <<>>
  <2> SUFFICES ASSUME a = b PROVE x = <<>> /\ y = <<>>
    OBVIOUS
  <2>1. Len(x) = 0 /\ Len(y) = 0
    <3> DEFINE B == Place(P, b)
    <3>1. A = B /\ A + Len(x) + Len(y) = B
      BY <1>1
    <3> HIDE DEF A, B
    <3> QED
      BY <1>2, <3>1
  <2> QED
    BY <1>1, <2>1, EmptySeq
<1>4. ASSUME a < b
      PROVE  /\ a + 1 \in 1..Len(P) /\ P[a + 1] \in Seq(S) /\ Len(P[a + 1]) \in Nat
             /\ Len(P[a + 1]) <= Len(x) + Len(y)
             /\ \A i \in 1..Len(x) : i <= Len(P[a + 1]) => x[i] = P[a + 1][i]
  <2>1. a + 1 \in 0..Len(P) /\ a + 1 <= b /\ a < Len(P)
    BY <1>1, <1>2, <1>4
  <2>2. /\ a + 1 \in 1..Len(P) /\ P[a + 1] \in Seq(S) /\ Len(P[a + 1]) \in Nat
        /\ Place(P, a + 1) = A + Len(P[a + 1])
        /\ \A i \in 1..Len(P[a + 1]) : F[A + i] = P[a + 1][i]
    BY <1>1, <2>1, PlaceFacts
  <2>3. Place(P, a + 1) <= Place(P, b)
    BY <1>1, <2>1, PlaceFacts
  <2> DEFINE e == P[a + 1]
             B == Place(P, b)
             C == Place(P, a + 1)
  <2>4. Len(e) <= Len(x) + Len(y)
    <3>1. C <= B /\ A + Len(x) + Len(y) = B /\ C = A + Len(e) /\ Len(e) \in Nat /\ A \in Nat
          /\ B \in Nat
      BY <1>1, <1>2, <2>2, <2>3
    <3> HIDE DEF e, A, B, C
    <3> QED
      BY <1>2, <3>1
  <2>5. \A i \in 1..Len(x) : i <= Len(e) => i \in 1..Len(e)
    BY <1>2, <2>2
  <2>6. \A i \in 1..Len(x) : i <= Len(e) => x[i] = e[i]
    <3>1. \A i \in 1..Len(e) : F[A + i] = e[i]
      BY <2>2
    <3> HIDE DEF e, A, F
    <3> QED
      BY <1>1, <2>5, <3>1 DEF A, F
  <2> QED
    BY <2>2, <2>4, <2>6
<1> QED
  BY <1>1, <1>2, <1>3, <1>4

(* A whole message is consumed.                                             *)
LEMMA WindowConsume ==
    ASSUME NEW S, NEW P \in Seq(Seq(S)), NEW a, NEW b, NEW x, NEW y, Window(S, P, a, b, x, y),
           a < b, Len(P[a + 1]) <= Len(x)
    PROVE  Window(S, P, a + 1, b, Drop(x, Len(P[a + 1])), y)
<1> DEFINE F == FlattenSeq(P)
           A == Place(P, a)
           C == Place(P, a + 1)
           l == Len(P[a + 1])
           d == Drop(x, l)
<1>1. /\ x \in Seq(S) /\ y \in Seq(S) /\ a \in 0..Len(P) /\ b \in 0..Len(P) /\ a <= b
      /\ A + Len(x) + Len(y) = Place(P, b)
      /\ \A i \in 1..Len(x) : x[i] = F[A + i]
      /\ \A i \in 1..Len(y) : y[i] = F[A + Len(x) + i]
  BY DEF Window
<1>2. Len(x) \in Nat /\ Len(y) \in Nat /\ Len(P) \in Nat /\ A \in Nat /\ l \in Nat /\ a \in Nat /\ b \in Nat
  BY <1>1, PlaceFacts, WindowFront
<1>3. a + 1 \in 0..Len(P) /\ a + 1 <= b /\ a < Len(P)
  BY <1>1, <1>2
<1>4. C = A + l
  BY <1>1, <1>3, PlaceFacts
<1>5. l <= Len(x) /\ l \in 0..Len(x)
  BY <1>2
<1> HIDE DEF F, A, C, l
<1>6. d \in Seq(S) /\ Len(d) = Len(x) - l /\ \A i \in 1..Len(x) - l : d[i] = x[l + i]
  BY <1>1, <1>5, DropFacts
<1> HIDE DEF d
<1>7. C + Len(d) + Len(y) = Place(P, b)
  BY <1>1, <1>2, <1>4, <1>5, <1>6
<1>8. ASSUME NEW i \in 1..Len(d) PROVE d[i] = F[C + i]
  <2>1. i \in 1..Len(x) - l /\ l + i \in 1..Len(x) /\ A + (l + i) = C + i
    BY <1>2, <1>4, <1>5, <1>6
  <2> QED
    BY <1>1, <1>6, <2>1
<1>9. A + Len(x) = C + Len(d)
  BY <1>2, <1>4, <1>5, <1>6
<1> QED
  BY <1>1, <1>3, <1>6, <1>7, <1>8, <1>9 DEF Window, F, A, C, l, d

-----------------------------------------------------------------------------
(* HTTP: tryDecode_ on a buffer that begins with a message or a part of it. *)

(* Messages, their pieces, and the parser's state.                          *)
Msg     == [msg : Nat, len : Nat, expect : BOOLEAN, close : BOOLEAN]
Pieces  == [msg : Nat, part : {"head", "end", "body"}, len : Nat, expect : BOOLEAN,
            close : BOOLEAN]
HttpMsg == [complete : BOOLEAN, contentLen : Nat, scanned : Nat,
            header : [msg : Nat \cup {None}, len : Nat, expect : BOOLEAN, close : BOOLEAN],
            body : Seq(Pieces)]

(* The parser has seen s bytes and no header yet ...                        *)
IsFresh(h, s) == h \in HttpMsg /\ h.complete = FALSE /\ h.contentLen = 0 /\ h.scanned = s

(* ... or the header of m, and waits for the body.                          *)
IsOpen(h, m) == /\ h \in HttpMsg /\ h.complete = FALSE /\ h.contentLen = m.len /\ h.scanned = 3
                /\ h.header = m

(* The pieces of a message, and where they are in its encoding.             *)
LEMMA PieceFacts ==
    ASSUME NEW m \in Msg, NEW part \in {"head", "end", "body"}
    PROVE  /\ Piece(m, part) \in Pieces /\ Piece(m, part).part = part
           /\ Message(Piece(m, part).msg, Piece(m, part).len, Piece(m, part).expect,
                      Piece(m, part).close) = m
  BY DEF Msg, Pieces, Piece, Message

LEMMA EncodeFacts ==
    ASSUME NEW m \in Msg
    PROVE  /\ m.len \in Nat /\ encode(m) \in Seq(Pieces) /\ Len(encode(m)) = 3 + m.len
           /\ encode(m)[1] = Piece(m, "head") /\ encode(m)[2] = Piece(m, "head")
           /\ encode(m)[3] = Piece(m, "end")
           /\ \A i \in 1..m.len : encode(m)[3 + i] = Piece(m, "body")
<1> DEFINE a == Piece(m, "head")
           e == Piece(m, "end")
           b == Piece(m, "body")
           l == m.len
           s == <<a, a, e>>
           t == [i \in 1..l |-> b]
<1>1. a \in Pieces /\ b \in Pieces /\ e \in Pieces
  BY PieceFacts
<1>2. l \in Nat
  BY DEF Msg
<1>3. encode(m) = s \o t
  BY DEF encode
<1> HIDE DEF a, e, b, l
<1>4. s \in Seq(Pieces) /\ Len(s) = 3 /\ s[1] = a /\ s[2] = a /\ s[3] = e
  BY <1>1
<1>5. t \in [1..l -> Pieces] /\ \A i \in 1..l : t[i] = b
  BY <1>1
<1>6. t \in Seq(Pieces) /\ Len(t) = l
  BY <1>2, <1>5, FunctionIsSeq
<1> HIDE DEF s, t
<1>7. /\ s \o t \in Seq(Pieces) /\ Len(s \o t) = Len(s) + Len(t)
      /\ \A i \in 1..Len(s) : (s \o t)[i] = s[i]
      /\ \A i \in 1..Len(t) : (s \o t)[Len(s) + i] = t[i]
  <2>1. s \in Seq(Pieces) /\ t \in Seq(Pieces)
    BY <1>4, <1>6
  <2> QED
    BY <2>1, ConcatElements
<1>8. 1 \in 1..3 /\ 2 \in 1..3 /\ 3 \in 1..3
  OBVIOUS
<1>9. /\ Len(s \o t) = 3 + l /\ (s \o t)[1] = a /\ (s \o t)[2] = a /\ (s \o t)[3] = e
      /\ \A i \in 1..l : (s \o t)[3 + i] = b
  BY <1>4, <1>5, <1>6, <1>7, <1>8
<1> QED
  BY <1>2, <1>3, <1>7, <1>9 DEF a, e, b, l

(* No empty line yet.                                                       *)
LEMMA NoEnd ==
    ASSUME NEW s \in Nat, NEW h, IsFresh(h, s), NEW data \in Seq(Pieces),
           \A i \in s + 1..Len(data) : data[i].part # "end",
           NEW p \in tryDecode_(h, data)
    PROVE  p.result = "NotComplete" /\ IsFresh(p.state, Len(data))
<1>0. h \in HttpMsg /\ h.complete = FALSE /\ h.contentLen = 0 /\ h.scanned = s
  BY DEF IsFresh
<1>1. {i \in h.scanned + 1..Len(data) : data[i].part = "end"} = {}
  BY <1>0
<1>2. p = Parsed("NotComplete", [h EXCEPT !.scanned = Len(data)])
  BY <1>0, <1>1, Zenon DEF tryDecode_
<1>3. Len(data) \in Nat
  OBVIOUS
<1>4. /\ [h EXCEPT !.scanned = Len(data)] \in HttpMsg
      /\ [h EXCEPT !.scanned = Len(data)].complete = FALSE
      /\ [h EXCEPT !.scanned = Len(data)].contentLen = 0
      /\ [h EXCEPT !.scanned = Len(data)].scanned = Len(data)
  BY <1>0, <1>3 DEF HttpMsg
<1> QED
  BY <1>2, <1>4 DEF IsFresh, Parsed

(* The HttpMsg once the header of m has been read.                          *)
Opened(h, m) == [h EXCEPT !.header = m, !.scanned = 3, !.contentLen = m.len]

(* The empty line has come: the header is read.                             *)
LEMMA HeaderEnd ==
    ASSUME NEW s \in 0..2, NEW h, IsFresh(h, s), NEW m \in Msg, NEW data \in Seq(Pieces),
           Len(data) >= 3, data[1] = Piece(m, "head"), data[2] = Piece(m, "head"),
           data[3] = Piece(m, "end"), NEW p \in tryDecode_(h, data)
    PROVE  p = IF m.expect /\ Len(data) < m.len + 3 THEN Parsed("Continue100", Opened(h, m))
               ELSE Body(Opened(h, m), data)
<1> DEFINE ends == {i \in h.scanned + 1..Len(data) : data[i].part = "end"}
           e == Min(ends)
           slice == SubSeq(data, 1, e - 1)
           AfterHeader(x) ==
              LET g == [h EXCEPT !.header = x, !.scanned = e, !.contentLen = x.len] IN
              IF x.expect /\ Len(data) < x.len + e THEN Parsed("Continue100", g) ELSE Body(g, data)
<1>0. h \in HttpMsg /\ h.complete = FALSE /\ h.contentLen = 0 /\ h.scanned = s /\ Len(data) \in Nat
  BY DEF IsFresh
<1>1. data[1].part # "end" /\ data[2].part # "end" /\ data[3].part = "end"
  BY PieceFacts
<1>2. 3 \in ends /\ ends # {} /\ \A i \in ends : i \in Nat /\ 3 <= i
  <2>1. 3 \in s + 1..Len(data)
    BY <1>0
  <2>2. \A i \in s + 1..Len(data) : i \in Nat /\ (i = 1 \/ i = 2 \/ 3 <= i)
    BY <1>0
  <2> QED
    BY <1>0, <1>1, <2>1, <2>2
<1>3. e = 3
  <2> HIDE DEF ends
  <2>1. e \in ends /\ \A y \in ends : e <= y
    BY <1>2 DEF Min
  <2>2. e <= 3 /\ 3 <= e /\ e \in Nat
    BY <1>2, <2>1
  <2> HIDE DEF e
  <2> QED
    BY <2>2
<1>4. Len(slice) = 2 /\ slice[1] = data[1] /\ slice[2] = data[2]
  BY <1>0, <1>3
<1> HIDE DEF ends, e, slice, AfterHeader
<1>5. WellFormed(slice) /\ Headers(slice) = {m}
  <2>1. WellFormed(slice)
    BY <1>4, PieceFacts DEF WellFormed
  <2>2. Message(slice[1].msg, slice[1].len, slice[1].expect, slice[1].close) = m
    BY <1>4, PieceFacts
  <2> QED
    BY <2>1, <2>2 DEF Headers
<1>6. p \in IF h.complete THEN {Parsed("Complete", h)}
            ELSE IF h.contentLen # 0 THEN {Body(h, data)}
            ELSE IF ends = {} THEN {Parsed("NotComplete", [h EXCEPT !.scanned = Len(data)])}
            ELSE IF e = 1 THEN {Parsed("NotComplete", h)}
            ELSE {AfterHeader(x) : x \in Headers(slice)}
                 \cup IF WellFormed(slice) THEN {} ELSE {Parsed("Error", [h EXCEPT !.scanned = e - 1])}
  BY Zenon DEF tryDecode_, ends, e, slice, AfterHeader
<1>7. p = AfterHeader(m)
  BY <1>0, <1>2, <1>3, <1>5, <1>6
<1> QED
  BY <1>3, <1>7 DEF AfterHeader, Opened

LEMMA OpenedIsOpen ==
    ASSUME NEW h \in HttpMsg, h.complete = FALSE, NEW m \in Msg
    PROVE  IsOpen(Opened(h, m), m)
<1>1. /\ m.len \in Nat
      /\ m \in [msg : Nat \cup {None}, len : Nat, expect : BOOLEAN, close : BOOLEAN]
  BY DEF Msg
<1> QED
  BY <1>1 DEF HttpMsg, Opened, IsOpen

(* The body.                                                                *)
LEMMA BodyFacts ==
    ASSUME NEW m \in Msg, NEW h, IsOpen(h, m), NEW data \in Seq(Pieces),
           \A i \in 1..Len(data) : i <= 3 + m.len => data[i] = encode(m)[i]
    PROVE  LET p == Body(h, data) IN
           \/ Len(data) < 3 + m.len /\ p = Parsed("NotComplete", h)
           \/ /\ Len(data) >= 3 + m.len /\ p.result = "Complete" /\ p.state.header = m
              /\ p.state.scanned = 3 + m.len /\ p.state.body = Whole(m).body
<1> DEFINE l == m.len
           p == Body(h, data)
<1>0. /\ h \in HttpMsg /\ h.contentLen = l /\ h.scanned = 3 /\ h.header = m
      /\ Len(data) \in Nat /\ l \in Nat
  BY EncodeFacts DEF IsOpen
<1>1. l + 3 = 3 + l
  BY <1>0
<1>2. CASE Len(data) < 3 + l
  <2>1. ~(Len(data) >= h.contentLen + h.scanned)
    BY <1>0, <1>2
  <2> QED
    BY <1>2, <2>1 DEF Body
<1>3. CASE Len(data) >= 3 + l
  <2> DEFINE b == SubSeq(data, h.scanned + 1, h.scanned + h.contentLen)
             g == [h EXCEPT !.complete = TRUE, !.scanned = h.scanned + h.contentLen, !.body = b]
  <2>1. p = Parsed("Complete", g)
    BY <1>0, <1>3 DEF Body
  <2>2. b = SubSeq(data, 4, 3 + l)
    BY <1>0
  <2>3. b = [i \in 1..l |-> Piece(m, "body")]
    <3>1. /\ SubSeq(data, 4, 3 + l) \in Seq(Pieces) /\ Len(SubSeq(data, 4, 3 + l)) = l
          /\ \A i \in 1..l : SubSeq(data, 4, 3 + l)[i] = data[3 + i]
      <4> HIDE DEF l
      <4> QED
        BY <1>0, <1>3
    <3>2. \A i \in 1..l : 3 + i \in 1..Len(data) /\ 3 + i <= 3 + l
      BY <1>0, <1>3
    <3>3. \A i \in 1..l : data[3 + i] = Piece(m, "body")
      BY <3>2, EncodeFacts
    <3> DEFINE c == SubSeq(data, 4, 3 + l)
    <3>4. c \in Seq(Pieces) /\ Len(c) = l /\ \A i \in 1..l : c[i] = Piece(m, "body")
      BY <3>1, <3>3
    <3> HIDE DEF c, l
    <3>5. c = [i \in 1..l |-> c[i]]
      BY <3>4, SeqIsFunction
    <3>6. [i \in 1..l |-> c[i]] = [i \in 1..l |-> Piece(m, "body")]
      BY <3>4
    <3> QED
      BY <2>2, <3>5, <3>6 DEF c
  <2> HIDE DEF b
  <2>4. g.header = m /\ g.scanned = 3 + l /\ g.body = b
    BY <1>0 DEF HttpMsg
  <2> HIDE DEF g
  <2>5. p.result = "Complete" /\ p.state = g
    BY <2>1 DEF Parsed
  <2>6. Whole(m).body = [i \in 1..l |-> Piece(m, "body")]
    BY DEF Whole
  <2> QED
    BY <1>3, <2>3, <2>4, <2>5, <2>6
<1> QED
  BY <1>0, <1>2, <1>3

(* tryDecode_ on what there is of m.                                        *)
LEMMA DecodeFront ==
    ASSUME NEW m \in Msg, NEW h, NEW data \in Seq(Pieces),
           \A i \in 1..Len(data) : i <= 3 + m.len => data[i] = encode(m)[i],
           \/ \E s \in 0..2 : s <= Len(data) /\ IsFresh(h, s)
           \/ m.len # 0 /\ Len(data) >= 3 /\ IsOpen(h, m),
           NEW p \in tryDecode_(h, data)
    PROVE  \/ Len(data) < 3 /\ p.result = "NotComplete" /\ IsFresh(p.state, Len(data))
           \/ /\ Len(data) >= 3 /\ Len(data) < 3 + m.len /\ IsOpen(p.state, m)
              /\ p.result \in {"NotComplete", "Continue100"}
           \/ /\ Len(data) >= 3 + m.len /\ p.result = "Complete" /\ p.state.header = m
              /\ p.state.scanned = 3 + m.len /\ p.state.body = Whole(m).body
<1>0. Len(data) \in Nat /\ m.len \in Nat
  BY EncodeFacts
<1>1. \A i \in 1..3 : i <= Len(data) => data[i] = encode(m)[i]
  <2>1. \A i \in 1..3 : i <= Len(data) => i \in 1..Len(data) /\ i <= 3 + m.len
    BY <1>0
  <2> QED
    BY <2>1
<1>2. ASSUME NEW g, IsOpen(g, m), p = Body(g, data), Len(data) >= 3
      PROVE  \/ /\ Len(data) >= 3 /\ Len(data) < 3 + m.len /\ IsOpen(p.state, m)
                /\ p.result \in {"NotComplete", "Continue100"}
             \/ /\ Len(data) >= 3 + m.len /\ p.result = "Complete" /\ p.state.header = m
                /\ p.state.scanned = 3 + m.len /\ p.state.body = Whole(m).body
  <2>1. \/ Len(data) < 3 + m.len /\ p = Parsed("NotComplete", g)
        \/ /\ Len(data) >= 3 + m.len /\ p.result = "Complete" /\ p.state.header = m
           /\ p.state.scanned = 3 + m.len /\ p.state.body = Whole(m).body
    BY <1>2, BodyFacts
  <2>2. Parsed("NotComplete", g).result = "NotComplete" /\ Parsed("NotComplete", g).state = g
    BY DEF Parsed
  <2> QED
    BY <1>2, <2>1, <2>2
<1>3. CASE m.len # 0 /\ Len(data) >= 3 /\ IsOpen(h, m)
  <2>1. h.complete = FALSE /\ h.contentLen # 0
    BY <1>3 DEF IsOpen
  <2>2. p = Body(h, data)
    BY <2>1, Zenon DEF tryDecode_
  <2> QED
    BY <1>2, <1>3, <2>2
<1>4. CASE \E s \in 0..2 : s <= Len(data) /\ IsFresh(h, s)
  <2>1. PICK s \in 0..2 : s <= Len(data) /\ IsFresh(h, s)
    BY <1>4
  <2>2. s \in Nat
    BY <2>1
  <2>3. CASE Len(data) < 3
    <3>1. \A i \in s + 1..Len(data) : data[i].part # "end"
      <4> TAKE i \in s + 1..Len(data)
      <4>1. i = 1 \/ i = 2
        BY <1>0, <2>1, <2>3
      <4>2. 1 \in 1..3 /\ 2 \in 1..3 /\ i <= Len(data)
        BY <1>0, <2>1
      <4>3. data[i] = Piece(m, "head")
        BY <1>1, <4>1, <4>2, EncodeFacts
      <4> QED
        BY <4>3, PieceFacts
    <3> QED
      BY <2>1, <2>2, <2>3, <3>1, NoEnd
  <2>4. CASE Len(data) >= 3
    <3>1. /\ data[1] = Piece(m, "head") /\ data[2] = Piece(m, "head") /\ data[3] = Piece(m, "end")
      <4>1. \A i \in 1..3 : i <= Len(data)
        BY <1>0, <2>4
      <4>2. 1 \in 1..3 /\ 2 \in 1..3 /\ 3 \in 1..3
        OBVIOUS
      <4> QED
        BY <1>1, <4>1, <4>2, EncodeFacts
    <3>2. p = IF m.expect /\ Len(data) < m.len + 3 THEN Parsed("Continue100", Opened(h, m))
              ELSE Body(Opened(h, m), data)
      BY <2>1, <2>4, <3>1, HeaderEnd
    <3>3. IsOpen(Opened(h, m), m)
      BY <2>1, OpenedIsOpen DEF IsFresh
    <3>4. CASE m.expect /\ Len(data) < m.len + 3
      <4>1. p.result = "Continue100" /\ p.state = Opened(h, m)
        BY <3>2, <3>4 DEF Parsed
      <4>2. Len(data) < 3 + m.len
        BY <1>0, <3>4
      <4> QED
        BY <2>4, <3>3, <4>1, <4>2
    <3>5. CASE ~(m.expect /\ Len(data) < m.len + 3)
      BY <1>2, <2>4, <3>2, <3>3, <3>5
    <3> QED
      BY <3>4, <3>5
  <2> QED
    BY <1>0, <2>3, <2>4
<1> QED
  BY <1>3, <1>4

-----------------------------------------------------------------------------
(* HTTP: both directions of the connection.                                 *)

(* What both sides send, message by message, and what they hand over.       *)
ReqWire  == [k \in 1..Len(Requests) |-> encode(Request(k))]
RespWire == [k \in 1..Len(Requests) |-> encode(Response(k))]

Handled  == [msg : Nat, body : Seq(Pieces)]
Answered == [to : Nat, msg : Nat, body : Seq(Pieces)]
Answer(k) == [to |-> k, msg |-> k, body |-> Whole(Response(k)).body]

(* What was handled, and behind it what is on its way to the server.        *)
ServerInv ==
    /\ handled \in Seq(Handled)
    /\ \A i \in 1..Len(handled) : handled[i] = Whole(Request(i))
    /\ inputBuffer = <<>> /\ IsFresh(req, 0) /\ (~sloop => sbuf = <<>>)
    /\ Window(Pieces, ReqWire, Len(handled), sent, sbuf, c2s)

(* The requests that have been pushed.                                      *)
Pushed == IF upc = "push" THEN sent - 1 ELSE sent

(* The callbacks called, and behind them the responses on their way and the *)
(* requests that wait for them.                                             *)
ClientInv ==
    LET k == Len(callbacks) IN
    /\ callbacks \in Seq(Answered) /\ \A i \in 1..k : callbacks[i] = Answer(i)
    /\ Window(Pieces, RespWire, k, Len(handled), cbuf, s2c)
    /\ \/ \E s \in 0..2 : s <= Len(cbuf) /\ IsFresh(resp, s)
       \/ k < Len(handled) /\ RespLen # 0 /\ Len(cbuf) >= 3 /\ IsOpen(resp, Response(k + 1))
    /\ ~cloop => Len(cbuf) < 3 + RespLen
    /\ upc \in {"idle", "push"}
    /\ pending \in Seq(Nat) /\ Len(pending) = Pushed - k
    /\ \A i \in 1..Len(pending) : pending[i] = k + i

(* All of it, until what RequestsIntact and ResponsesMatched except.        *)
HttpInv == split \/ sclosed \/ (ServerInv /\ (overtaken \/ ClientInv))

(* Requests and responses are messages; both streams are made of them.      *)
LEMMA MessageFacts ==
    ASSUME NEW k \in 1..Len(Requests)
    PROVE  /\ Request(k) \in Msg /\ Request(k).msg = k /\ Request(k).len \in Nat
           /\ Response(k) \in Msg /\ Response(k).msg = k /\ Response(k).len = RespLen
           /\ RespLen \in Nat /\ k \in Nat
<1> DEFINE R == [len : Nat, expect : BOOLEAN, close : BOOLEAN]
<1>1. Requests \in Seq(R) /\ RespLen \in Nat
  BY HttpAssumption
<1> HIDE DEF R
<1>2. Requests[k] \in R /\ k \in Nat
  BY <1>1
<1> QED
  BY <1>1, <1>2 DEF Request, Response, Message, Msg, R

LEMMA WiresFacts ==
    /\ Len(Requests) \in Nat
    /\ ReqWire \in Seq(Seq(Pieces)) /\ Len(ReqWire) = Len(Requests)
    /\ RespWire \in Seq(Seq(Pieces)) /\ Len(RespWire) = Len(Requests)
    /\ \A k \in 1..Len(Requests) : /\ ReqWire[k] = encode(Request(k))
                                   /\ RespWire[k] = encode(Response(k))
                                   /\ Len(ReqWire[k]) = 3 + Request(k).len
                                   /\ Len(RespWire[k]) = 3 + RespLen
<1>0. Len(Requests) \in Nat
  BY HttpAssumption
<1>1. \A k \in 1..Len(Requests) : /\ encode(Request(k)) \in Seq(Pieces)
                                  /\ encode(Response(k)) \in Seq(Pieces)
                                  /\ Len(encode(Request(k))) = 3 + Request(k).len
                                  /\ Len(encode(Response(k))) = 3 + RespLen
  <2> TAKE k \in 1..Len(Requests)
  <2>1. Request(k) \in Msg /\ Response(k) \in Msg /\ Response(k).len = RespLen
    BY MessageFacts
  <2> QED
    BY <2>1, EncodeFacts
<1>2. /\ ReqWire \in [1..Len(Requests) -> Seq(Pieces)]
      /\ RespWire \in [1..Len(Requests) -> Seq(Pieces)]
  BY <1>1 DEF ReqWire, RespWire
<1>3. /\ ReqWire \in Seq(Seq(Pieces)) /\ Len(ReqWire) = Len(Requests)
      /\ RespWire \in Seq(Seq(Pieces)) /\ Len(RespWire) = Len(Requests)
  BY <1>0, <1>2, FunctionIsSeq
<1>4. \A k \in 1..Len(Requests) : /\ ReqWire[k] = encode(Request(k))
                                  /\ RespWire[k] = encode(Response(k))
  BY DEF ReqWire, RespWire
<1> QED
  BY <1>0, <1>1, <1>3, <1>4

(* What a route or a callback is given.                                     *)
LEMMA WholeFacts ==
    ASSUME NEW m \in Msg
    PROVE  Whole(m) \in Handled /\ Whole(m) = [msg |-> m.msg, body |-> Whole(m).body]
           /\ Whole(m).body \in Seq(Pieces)
<1>1. m.len \in Nat /\ Piece(m, "body") \in Pieces /\ m.msg \in Nat
  BY PieceFacts DEF Msg
<1> DEFINE b == [i \in 1..m.len |-> Piece(m, "body")]
<1>2. b \in [1..m.len -> Pieces]
  BY <1>1
<1>3. b \in Seq(Pieces)
  BY <1>1, <1>2, FunctionIsSeq
<1>4. Whole(m) = [msg |-> m.msg, body |-> b]
  BY DEF Whole
<1> HIDE DEF b
<1>5. Whole(m).body = b /\ [msg |-> m.msg, body |-> b] \in Handled
  BY <1>1, <1>3, <1>4 DEF Handled
<1> QED
  BY <1>3, <1>4, <1>5

(* The server's buffer in ServerInv.                                        *)
LEMMA ServerFront ==
    ASSUME ServerInv
    PROVE  LET k == Len(handled) IN
           /\ k \in Nat /\ sent \in Nat /\ k <= sent /\ sent <= Len(Requests)
           /\ sbuf \in Seq(Pieces) /\ c2s \in Seq(Pieces) /\ Len(sbuf) \in Nat
           /\ k = sent => sbuf = <<>> /\ c2s = <<>>
           /\ k < sent => /\ k + 1 \in 1..Len(Requests)
                          /\ 3 + Request(k + 1).len <= Len(sbuf) + Len(c2s)
                          /\ \A i \in 1..Len(sbuf) :
                               i <= 3 + Request(k + 1).len => sbuf[i] = encode(Request(k + 1))[i]
<1> DEFINE k == Len(handled)
<1>1. Window(Pieces, ReqWire, k, sent, sbuf, c2s)
  BY DEF ServerInv
<1>2. /\ k \in Nat /\ sent \in Nat /\ k <= sent /\ sent <= Len(ReqWire)
      /\ sbuf \in Seq(Pieces) /\ c2s \in Seq(Pieces) /\ Len(sbuf) \in Nat
      /\ k = sent => sbuf = <<>> /\ c2s = <<>>
      /\ k < sent => /\ k + 1 \in 1..Len(ReqWire)
                     /\ Len(ReqWire[k + 1]) <= Len(sbuf) + Len(c2s)
                     /\ \A i \in 1..Len(sbuf) : i <= Len(ReqWire[k + 1]) => sbuf[i] = ReqWire[k + 1][i]
  BY <1>1, WiresFacts, WindowFront
<1> HIDE DEF k
<1>3. Len(ReqWire) = Len(Requests)
  BY WiresFacts
<1>4. k < sent => /\ k + 1 \in 1..Len(Requests) /\ ReqWire[k + 1] = encode(Request(k + 1))
                  /\ Len(ReqWire[k + 1]) = 3 + Request(k + 1).len
  BY <1>2, <1>3, WiresFacts
<1> QED
  BY <1>2, <1>3, <1>4 DEF k

(* The client's buffer in ClientInv.                                        *)
LEMMA ClientFront ==
    ASSUME ClientInv
    PROVE  LET k == Len(callbacks) IN
           /\ k \in Nat /\ Len(handled) \in Nat /\ k <= Len(handled) /\ Len(handled) <= Len(Requests)
           /\ cbuf \in Seq(Pieces) /\ s2c \in Seq(Pieces) /\ Len(cbuf) \in Nat
           /\ k = Len(handled) => cbuf = <<>> /\ s2c = <<>>
           /\ k < Len(handled) => /\ k + 1 \in 1..Len(Requests)
                          /\ 3 + RespLen <= Len(cbuf) + Len(s2c)
                          /\ \A i \in 1..Len(cbuf) :
                               i <= 3 + RespLen => cbuf[i] = encode(Response(k + 1))[i]
<1> DEFINE k == Len(callbacks)
           n == Len(handled)
<1>1. Window(Pieces, RespWire, k, n, cbuf, s2c)
  BY DEF ClientInv
<1>a. RespWire \in Seq(Seq(Pieces))
  BY WiresFacts
<1> HIDE DEF k, n
<1>2. /\ k \in Nat /\ n \in Nat /\ k <= n /\ n <= Len(RespWire)
      /\ cbuf \in Seq(Pieces) /\ s2c \in Seq(Pieces) /\ Len(cbuf) \in Nat
      /\ k = n => cbuf = <<>> /\ s2c = <<>>
      /\ k < n => /\ k + 1 \in 1..Len(RespWire)
                  /\ Len(RespWire[k + 1]) <= Len(cbuf) + Len(s2c)
                  /\ \A i \in 1..Len(cbuf) : i <= Len(RespWire[k + 1]) => cbuf[i] = RespWire[k + 1][i]
  <2> DEFINE P == RespWire
  <2>1. P \in Seq(Seq(Pieces)) /\ Window(Pieces, P, k, n, cbuf, s2c)
    BY <1>1, <1>a
  <2> HIDE DEF P
  <2>2. /\ k \in Nat /\ n \in Nat /\ k <= n /\ n <= Len(P)
        /\ cbuf \in Seq(Pieces) /\ s2c \in Seq(Pieces) /\ Len(cbuf) \in Nat
    BY <2>1, WindowFront
  <2>3. k = n => cbuf = <<>> /\ s2c = <<>>
    BY <2>1, WindowFront
  <2>4. k < n => /\ k + 1 \in 1..Len(P) /\ Len(P[k + 1]) <= Len(cbuf) + Len(s2c)
                 /\ \A i \in 1..Len(cbuf) : i <= Len(P[k + 1]) => cbuf[i] = P[k + 1][i]
    BY <2>1, WindowFront
  <2> QED
    BY <2>2, <2>3, <2>4 DEF P
<1>3. Len(RespWire) = Len(Requests)
  BY WiresFacts
<1>4. k < n => /\ k + 1 \in 1..Len(Requests) /\ RespWire[k + 1] = encode(Response(k + 1))
               /\ Len(RespWire[k + 1]) = 3 + RespLen
  BY <1>2, <1>3, WiresFacts
<1> QED
  BY <1>2, <1>3, <1>4 DEF k, n

(* The server's side, action by action.  sendRequest puts one more message  *)
(* on the wire, ServerRead moves bytes of it into the buffer.               *)
LEMMA ServerSends ==
    ASSUME ServerInv, sendRequest
    PROVE  ServerInv'
<1>1. Window(Pieces, ReqWire, Len(handled), sent, sbuf, c2s)
  BY DEF ServerInv
<1>2. ReqWire \in Seq(Seq(Pieces)) /\ Len(ReqWire) = Len(Requests)
  BY WiresFacts
<1>3. sent < Len(Requests) /\ sent' = sent + 1 /\ c2s' = c2s \o encode(Request(sent + 1))
  BY DEF sendRequest
<1>4. sent + 1 \in 1..Len(Requests)
  <2>1. sent \in Nat /\ Len(Requests) \in Nat
    BY ServerFront, WiresFacts
  <2> QED
    BY <1>3, <2>1
<1>5. ReqWire[sent + 1] = encode(Request(sent + 1))
  BY <1>4, WiresFacts
<1>6. Window(Pieces, ReqWire, Len(handled), sent + 1, sbuf, c2s \o ReqWire[sent + 1])
  BY <1>1, <1>2, <1>3, WindowSend
<1>7. UNCHANGED <<sbuf, inputBuffer, req, sloop, handled>>
  BY DEF sendRequest, serverVars
<1> QED
  BY <1>3, <1>5, <1>6, <1>7 DEF ServerInv

LEMMA ServerReads ==
    ASSUME ServerInv, ServerRead
    PROVE  ServerInv'
<1>1. Window(Pieces, ReqWire, Len(handled), sent, sbuf, c2s)
  BY DEF ServerInv
<1>2. ReqWire \in Seq(Seq(Pieces))
  BY WiresFacts
<1>3. PICK n \in 1..Len(c2s) : sbuf' = sbuf \o SubSeq(c2s, 1, n) /\ c2s' = Drop(c2s, n)
  BY DEF ServerRead
<1>4. Window(Pieces, ReqWire, Len(handled), sent, sbuf \o SubSeq(c2s, 1, n), Drop(c2s, n))
  BY <1>1, <1>2, WindowRead
<1>5. sloop' /\ UNCHANGED <<sent, inputBuffer, req, handled>>
  BY DEF ServerRead, userVars
<1> QED
  BY <1>3, <1>4, <1>5 DEF ServerInv

(* The data that parseRequest decodes is the receive buffer: inputBuffer_   *)
(* holds nothing more.                                                      *)
LEMMA ParseData ==
    ASSUME ServerInv, NEW x \in ParseRequest
    PROVE  x.data = sbuf /\ x.p \in tryDecode_(req, sbuf)
<1>1. sbuf \in Seq(Pieces) /\ inputBuffer = <<>>
  BY ServerFront DEF ServerInv
<1>2. inputBuffer \o sbuf = sbuf
  BY <1>1
<1>3. PICK p \in tryDecode_(req, inputBuffer \o sbuf) : x = [data |-> inputBuffer \o sbuf, p |-> p]
  BY DEF ParseRequest
<1> QED
  BY <1>2, <1>3

(* After clear().                                                           *)
LEMMA ClearedIsFresh == IsFresh(Cleared, 0)
<1>1. <<>> \in Seq(Pieces)
  OBVIOUS
<1> QED
  BY <1>1 DEF IsFresh, Cleared, HttpMsg, Message, None

(* An empty buffer is not decoded to anything.                              *)
LEMMA NothingToDecode ==
    ASSUME NEW h, IsFresh(h, 0), NEW p \in tryDecode_(h, <<>>)
    PROVE  p.result = "NotComplete" /\ IsFresh(p.state, 0)
<1>1. <<>> \in Seq(Pieces) /\ Len(<<>>) = 0 /\ \A i \in 0 + 1..Len(<<>>) : <<>>[i].part # "end"
  OBVIOUS
<1>2. p.result = "NotComplete" /\ IsFresh(p.state, Len(<<>>))
  BY <1>1, NoEnd
<1> QED
  BY <1>1, <1>2

(* onMessage returns with nothing left, or split is set.                    *)
LEMMA ServerReturnsInv ==
    ASSUME ServerInv, ServerReturns, ~split'
    PROVE  ServerInv' /\ s2c' = s2c
<1>1. PICK x \in ParseRequest :
         /\ x.p.result # "Complete" /\ req' = x.p.state
         /\ CASE x.p.result = "Error" -> /\ inputBuffer' = <<>> /\ sclosed' = TRUE
                                         /\ Send(Message("400", 0, FALSE, FALSE))
              [] x.p.result = "Continue100" -> /\ inputBuffer' = x.data /\ sclosed' = sclosed
                                               /\ Send(Message("100", 0, FALSE, FALSE))
              [] OTHER -> inputBuffer' = x.data /\ UNCHANGED <<s2c, sclosed>>
         /\ split' = (split \/ sbuf # <<>>)
  BY Zenon DEF ServerReturns
<1>2. sbuf = <<>>
  BY <1>1
<1>3. x.data = <<>> /\ x.p \in tryDecode_(req, <<>>)
  BY <1>2, ParseData
<1>4. x.p.result = "NotComplete" /\ IsFresh(x.p.state, 0)
  BY <1>3, NothingToDecode DEF ServerInv
<1>5. inputBuffer' = <<>> /\ s2c' = s2c
  <2>1. "NotComplete" # "Error" /\ "NotComplete" # "Continue100"
    OBVIOUS
  <2> QED
    BY <1>1, <1>3, <1>4, <2>1
<1>6. UNCHANGED <<sent, c2s, sbuf, handled>>
  BY DEF ServerReturns, userVars
<1> QED
  BY <1>1, <1>2, <1>4, <1>5, <1>6 DEF ServerInv

(* A request is routed: it is the next one, and whole.                      *)
LEMMA ServerRoutesInv ==
    ASSUME ServerInv, ServerRoutes, ~sclosed'
    PROVE  /\ ServerInv' /\ Len(handled') = Len(handled) + 1 /\ Len(handled) < sent
           /\ ~sclosed => s2c' = s2c \o encode(Response(Len(handled) + 1))
<1> DEFINE k == Len(handled)
           m == Request(k + 1)
<1>1. PICK x \in ParseRequest :
         LET h == x.p.state IN
         /\ x.p.result = "Complete"
         /\ handled' = Append(handled, [msg |-> h.header.msg, body |-> h.body])
         /\ Send(Response(h.header.msg))
         /\ sbuf' = Drop(sbuf, h.scanned)
         /\ httpAborted' = (HttpDebug /\ h.scanned > Len(sbuf))
         /\ IF h.header.close THEN sclosed' = TRUE /\ req' = h /\ inputBuffer' = Drop(x.data, h.scanned)
                              ELSE sclosed' = sclosed /\ req' = Cleared /\ inputBuffer' = <<>>
  BY Zenon DEF ServerRoutes
<1> DEFINE p == x.p
           h == x.p.state
<1>2. p \in tryDecode_(req, sbuf)
  BY ParseData
<1>3. IsFresh(req, 0) /\ Window(Pieces, ReqWire, k, sent, sbuf, c2s)
  BY DEF ServerInv
<1>4. k \in Nat /\ sent \in Nat /\ k <= sent /\ sbuf \in Seq(Pieces) /\ Len(sbuf) \in Nat
  BY ServerFront
<1>5. k < sent
  <2>1. CASE k = sent
    <3>1. sbuf = <<>>
      BY <2>1, ServerFront
    <3>2. p.result = "NotComplete"
      BY <1>2, <1>3, <3>1, NothingToDecode
    <3> QED
      BY <1>1, <3>2
  <2> HIDE DEF k
  <2> QED
    BY <1>4, <2>1
<1>6. /\ k + 1 \in 1..Len(Requests)
      /\ \A i \in 1..Len(sbuf) : i <= 3 + m.len => sbuf[i] = encode(m)[i]
  BY <1>5, ServerFront
<1>7. m \in Msg /\ m.msg = k + 1 /\ m.len \in Nat
  BY <1>6, MessageFacts
<1>8. ReqWire \in Seq(Seq(Pieces)) /\ Len(ReqWire[k + 1]) = 3 + m.len
  BY <1>6, WiresFacts
<1>9. /\ Len(sbuf) >= 3 + m.len /\ h.header = m /\ h.scanned = 3 + m.len
      /\ h.body = Whole(m).body
  <2>1. \E s \in 0..2 : s <= Len(sbuf) /\ IsFresh(req, s)
    BY <1>3, <1>4
  <2> HIDE DEF m, p
  <2>2. \/ p.result = "NotComplete"
        \/ p.result \in {"NotComplete", "Continue100"}
        \/ /\ Len(sbuf) >= 3 + m.len /\ p.result = "Complete" /\ p.state.header = m
           /\ p.state.scanned = 3 + m.len /\ p.state.body = Whole(m).body
    BY <1>2, <1>4, <1>6, <1>7, <2>1, DecodeFront
  <2>3. p.result = "Complete"
    BY <1>1 DEF p
  <2> QED
    BY <2>2, <2>3 DEF p
<1>10. Window(Pieces, ReqWire, k + 1, sent, sbuf', c2s)
  <2>1. Len(ReqWire[k + 1]) <= Len(sbuf)
    BY <1>4, <1>7, <1>8, <1>9
  <2>2. Window(Pieces, ReqWire, k + 1, sent, Drop(sbuf, Len(ReqWire[k + 1])), c2s)
    <3> HIDE DEF k
    <3>1. ReqWire \in Seq(Seq(Pieces))
      BY <1>8
    <3> QED
      BY <1>3, <1>5, <3>1, <2>1, WindowConsume
  <2> QED
    BY <1>1, <1>8, <1>9, <2>2
<1>11. req' = Cleared /\ inputBuffer' = <<>>
  BY <1>1
<1>12. IsFresh(Cleared, 0)
  BY ClearedIsFresh
<1>13. handled' = Append(handled, Whole(m))
  <2>1. handled' = Append(handled, [msg |-> m.msg, body |-> Whole(m).body])
    BY <1>1, <1>9
  <2> QED
    BY <1>7, <2>1, WholeFacts
<1>14. /\ handled' \in Seq(Handled) /\ Len(handled') = k + 1
       /\ \A i \in 1..k + 1 : handled'[i] = Whole(Request(i))
  <2>1. handled \in Seq(Handled) /\ Whole(m) \in Handled
    BY <1>7, WholeFacts DEF ServerInv
  <2>2. /\ handled' \in Seq(Handled) /\ Len(handled') = k + 1 /\ handled'[k + 1] = Whole(m)
        /\ \A i \in 1..k : handled'[i] = handled[i]
    <3> DEFINE w == Whole(m)
    <3> HIDE DEF w, m
    <3>1. handled \in Seq(Handled) /\ w \in Handled /\ handled' = Append(handled, w)
      BY <1>13, <2>1 DEF w
    <3>2. handled' \in Seq(Handled) /\ Len(handled') = k + 1 /\ handled'[k + 1] = w
          /\ \A i \in 1..k : handled'[i] = handled[i]
      BY <3>1
    <3> QED
      BY <3>2 DEF w
  <2>3. \A i \in 1..k : handled[i] = Whole(Request(i))
    BY DEF ServerInv
  <2>4. \A i \in 1..k + 1 : i = k + 1 \/ i \in 1..k
    BY <1>4
  <2> QED
    BY <2>2, <2>3, <2>4
<1>15. sloop' /\ UNCHANGED <<sent, c2s>>
  BY DEF ServerRoutes, userVars
<1>16. ~sclosed => s2c' = s2c \o encode(Response(k + 1))
  BY <1>1, <1>7, <1>9 DEF Send
<1>17. ServerInv'
  BY <1>10, <1>11, <1>12, <1>14, <1>15 DEF ServerInv
<1> QED
  BY <1>5, <1>14, <1>16, <1>17

(* The client's actions leave the server alone.                             *)
LEMMA ServerKept ==
    ASSUME ServerInv, pushRequest \/ ClientRead \/ ClientLoop \/ UNCHANGED httpVars
    PROVE  ServerInv' /\ UNCHANGED <<handled, sloop, sclosed, split>>
<1>1. UNCHANGED <<sent, c2s, serverVars>>
  BY DEF pushRequest, ClientRead, ClientLoop, httpVars, userVars
<1> QED
  BY <1>1 DEF ServerInv, serverVars

(* The client's side.  Pushed, and with it the part about pending, when the *)
(* user's thread moves.                                                     *)
LEMMA ClientSends ==
    ASSUME ClientInv, sent \in Nat, sendRequest
    PROVE  ClientInv'
<1>1. Pushed' = Pushed /\ upc' \in {"idle", "push"}
  BY DEF sendRequest, Pushed
<1>2. UNCHANGED <<pending, s2c, handled, cbuf, resp, cloop, callbacks>>
  BY DEF sendRequest, serverVars, clientVars
<1> QED
  BY <1>1, <1>2 DEF ClientInv

LEMMA ClientPushes ==
    ASSUME ClientInv, sent \in Nat, pushRequest
    PROVE  ClientInv'
<1> DEFINE k == Len(callbacks)
<1>1. /\ pending \in Seq(Nat) /\ Len(pending) = Pushed - k /\ k \in Nat /\ Len(pending) \in Nat
      /\ \A i \in 1..Len(pending) : pending[i] = k + i
  BY ClientFront DEF ClientInv
<1>2. Pushed = sent - 1 /\ Pushed' = sent /\ pending' = Append(pending, sent) /\ upc' = "idle"
  BY DEF pushRequest, Pushed
<1>3. UNCHANGED <<s2c, handled, cbuf, resp, cloop, callbacks>>
  BY DEF pushRequest, serverVars, clientVars
<1> HIDE DEF k
<1>4. sent = k + (Len(pending) + 1)
  BY <1>1, <1>2
<1>5. pending' \in Seq(Nat) /\ Len(pending') = Len(pending) + 1 /\ pending'[Len(pending) + 1] = sent
      /\ \A i \in 1..Len(pending) : pending'[i] = pending[i]
  BY <1>1, <1>2
<1>6. Len(pending') = Pushed' - k
  BY <1>1, <1>2, <1>4, <1>5
<1>7. \A i \in 1..Len(pending') : pending'[i] = k + i
  <2> TAKE i \in 1..Len(pending')
  <2>1. i = Len(pending) + 1 \/ i \in 1..Len(pending)
    BY <1>1, <1>5
  <2> QED
    BY <1>1, <1>4, <1>5, <2>1
<1> QED
  BY <1>2, <1>3, <1>5, <1>6, <1>7 DEF ClientInv, k

LEMMA ClientReads ==
    ASSUME ClientInv, ClientRead
    PROVE  ClientInv'
<1>1. Window(Pieces, RespWire, Len(callbacks), Len(handled), cbuf, s2c)
  BY DEF ClientInv
<1>2. RespWire \in Seq(Seq(Pieces))
  BY WiresFacts
<1>3. PICK n \in 1..Len(s2c) : cbuf' = cbuf \o SubSeq(s2c, 1, n) /\ s2c' = Drop(s2c, n)
  BY DEF ClientRead
<1>4. /\ Window(Pieces, RespWire, Len(callbacks), Len(handled), cbuf \o SubSeq(s2c, 1, n), Drop(s2c, n))
      /\ Len(cbuf \o SubSeq(s2c, 1, n)) = Len(cbuf) + n
  BY <1>1, <1>2, WindowRead
<1>5. n \in Nat /\ Len(cbuf) \in Nat /\ Len(cbuf') = Len(cbuf) + n
  <2>1. Len(s2c) \in Nat /\ Len(cbuf) \in Nat
    BY ClientFront
  <2> QED
    BY <1>3, <1>4, <2>1
<1>6. \/ \E s \in 0..2 : s <= Len(cbuf') /\ IsFresh(resp, s)
      \/ /\ Len(callbacks) < Len(handled) /\ RespLen # 0 /\ Len(cbuf') >= 3
         /\ IsOpen(resp, Response(Len(callbacks) + 1))
  <2>1. \A s \in 0..2 : s <= Len(cbuf) => s <= Len(cbuf')
    BY <1>5
  <2>2. Len(cbuf) >= 3 => Len(cbuf') >= 3
    BY <1>5
  <2> QED
    BY <2>1, <2>2 DEF ClientInv
<1>7. /\ cloop' /\ UNCHANGED <<upc, sent, pending, handled, resp, callbacks>>
  BY DEF ClientRead, userVars, serverVars
<1>8. Pushed' = Pushed
  BY <1>7 DEF Pushed
<1> QED
  BY <1>3, <1>4, <1>6, <1>7, <1>8 DEF ClientInv

(* The server answers: one more response on the wire.                       *)
LEMMA ClientAnswered ==
    ASSUME ServerInv, ClientInv, ServerRoutes, ~sclosed, ~sclosed'
    PROVE  ClientInv'
<1> DEFINE n == Len(handled)
<1>1. Window(Pieces, RespWire, Len(callbacks), n, cbuf, s2c)
  BY DEF ClientInv
<1>2. RespWire \in Seq(Seq(Pieces)) /\ Len(RespWire) = Len(Requests)
  BY WiresFacts
<1>3. Len(handled') = n + 1 /\ n < sent /\ s2c' = s2c \o encode(Response(n + 1))
  BY ServerRoutesInv
<1>4. n \in Nat /\ sent \in Nat /\ sent <= Len(Requests) /\ Len(Requests) \in Nat
  BY ServerFront, WiresFacts
<1>5. n + 1 \in 1..Len(Requests) /\ n < Len(Requests)
  <2> HIDE DEF n
  <2> QED
    BY <1>3, <1>4
<1>6. RespWire[n + 1] = encode(Response(n + 1))
  BY <1>5, WiresFacts
<1>7. Window(Pieces, RespWire, Len(callbacks), n + 1, cbuf, s2c \o RespWire[n + 1])
  <2> HIDE DEF n
  <2>1. n < Len(RespWire)
    BY <1>2, <1>5
  <2> QED
    BY <1>1, <1>2, <2>1, WindowSend
<1>8. UNCHANGED <<upc, sent, pending, cbuf, resp, cloop, callbacks>>
  BY DEF ServerRoutes, userVars, clientVars
<1>9. Pushed' = Pushed
  BY <1>8 DEF Pushed
<1>10. Len(callbacks) < n => Len(callbacks) < n + 1
  BY <1>4, ClientFront
<1> QED
  BY <1>3, <1>6, <1>7, <1>8, <1>9, <1>10 DEF ClientInv

(* What ClientLoop's tryDecode_ finds: not yet a whole response, or the one *)
(* the first pending request waits for.                                     *)
LEMMA ClientDecodes ==
    ASSUME ClientInv, NEW p \in tryDecode_(resp, cbuf)
    PROVE  LET k == Len(callbacks) IN
           \/ /\ p.result \in {"NotComplete", "Continue100"} /\ Len(cbuf) < 3 + RespLen
              /\ \/ \E s \in 0..2 : s <= Len(cbuf) /\ IsFresh(p.state, s)
                 \/ /\ k < Len(handled) /\ RespLen # 0 /\ Len(cbuf) >= 3
                    /\ IsOpen(p.state, Response(k + 1))
           \/ /\ p.result = "Complete" /\ k < Len(handled) /\ k + 1 \in 1..Len(Requests)
              /\ Len(cbuf) >= 3 + RespLen /\ p.state.header = Response(k + 1)
              /\ p.state.scanned = 3 + RespLen /\ p.state.body = Whole(Response(k + 1)).body
<1> DEFINE k == Len(callbacks)
           n == Len(handled)
           m == Response(k + 1)
<1>0. /\ k \in Nat /\ n \in Nat /\ k <= n /\ cbuf \in Seq(Pieces) /\ Len(cbuf) \in Nat
      /\ RespLen \in Nat
  BY ClientFront, HttpAssumption
<1>1. \/ \E s \in 0..2 : s <= Len(cbuf) /\ IsFresh(resp, s)
      \/ k < n /\ RespLen # 0 /\ Len(cbuf) >= 3 /\ IsOpen(resp, m)
  BY DEF ClientInv
<1>2. CASE k = n
  <2>1. cbuf = <<>> /\ Len(cbuf) = 0
    BY <1>2, ClientFront
  <2>2. IsFresh(resp, 0)
    <3>1. ~(k < n)
      BY <1>0, <1>2
    <3>2. PICK s \in 0..2 : s <= Len(cbuf) /\ IsFresh(resp, s)
      BY <1>1, <3>1
    <3>3. s = 0
      BY <2>1, <3>2
    <3> QED
      BY <3>2, <3>3
  <2>3. p.result = "NotComplete" /\ IsFresh(p.state, 0)
    BY <2>1, <2>2, NothingToDecode
  <2>4. 0 \in 0..2 /\ 0 <= Len(cbuf) /\ Len(cbuf) < 3 + RespLen
    BY <1>0, <2>1
  <2> QED
    BY <2>3, <2>4
<1>3. CASE k < n
  <2>1. /\ k + 1 \in 1..Len(Requests)
        /\ \A i \in 1..Len(cbuf) : i <= 3 + RespLen => cbuf[i] = encode(m)[i]
    BY <1>3, ClientFront
  <2>2. m \in Msg /\ m.len = RespLen
    BY <2>1, MessageFacts
  <2> HIDE DEF m, k, n
  <2>3. \A i \in 1..Len(cbuf) : i <= 3 + m.len => cbuf[i] = encode(m)[i]
    BY <2>1, <2>2
  <2>4. \/ \E s \in 0..2 : s <= Len(cbuf) /\ IsFresh(resp, s)
        \/ m.len # 0 /\ Len(cbuf) >= 3 /\ IsOpen(resp, m)
    BY <1>1, <2>2
  <2>5. \/ Len(cbuf) < 3 /\ p.result = "NotComplete" /\ IsFresh(p.state, Len(cbuf))
        \/ /\ Len(cbuf) >= 3 /\ Len(cbuf) < 3 + m.len /\ IsOpen(p.state, m)
           /\ p.result \in {"NotComplete", "Continue100"}
        \/ /\ Len(cbuf) >= 3 + m.len /\ p.result = "Complete" /\ p.state.header = m
           /\ p.state.scanned = 3 + m.len /\ p.state.body = Whole(m).body
    BY <1>0, <2>2, <2>3, <2>4, DecodeFront
  <2>6. CASE Len(cbuf) < 3 /\ p.result = "NotComplete" /\ IsFresh(p.state, Len(cbuf))
    <3>1. Len(cbuf) \in 0..2 /\ Len(cbuf) <= Len(cbuf) /\ Len(cbuf) < 3 + RespLen
      <4> DEFINE l == Len(cbuf)
      <4>1. l \in Nat /\ l < 3 /\ RespLen \in Nat
        BY <1>0, <2>6
      <4> HIDE DEF l
      <4>2. l \in 0..2 /\ l <= l /\ l < 3 + RespLen
        BY <4>1
      <4> QED
        BY <4>2 DEF l
    <3> QED
      BY <2>6, <3>1
  <2>7. CASE /\ Len(cbuf) >= 3 /\ Len(cbuf) < 3 + m.len /\ IsOpen(p.state, m)
             /\ p.result \in {"NotComplete", "Continue100"}
    <3>1. RespLen # 0 /\ Len(cbuf) < 3 + RespLen
      BY <1>0, <2>2, <2>7
    <3> QED
      BY <1>3, <2>7, <3>1 DEF m, k, n
  <2>8. CASE /\ Len(cbuf) >= 3 + m.len /\ p.result = "Complete" /\ p.state.header = m
             /\ p.state.scanned = 3 + m.len /\ p.state.body = Whole(m).body
    BY <1>3, <2>1, <2>2, <2>8 DEF m, k, n
  <2> QED
    BY <2>5, <2>6, <2>7, <2>8
<1> HIDE DEF k, n
<1>4. k = n \/ k < n
  BY <1>0
<1> QED
  BY <1>2, <1>3, <1>4 DEF k, n

LEMMA ClientLoopInv ==
    ASSUME ServerInv, ClientInv, ClientLoop, ~overtaken'
    PROVE  ClientInv'
<1> DEFINE k == Len(callbacks)
           m == Response(k + 1)
<1>1. PICK p \in tryDecode_(resp, cbuf) :
         IF p.result # "Complete"
         THEN /\ cloop' = FALSE /\ resp' = p.state /\ cbuf' = (IF p.result = "Error" THEN <<>> ELSE cbuf)
              /\ UNCHANGED <<pending, callbacks, overtaken>>
         ELSE /\ cloop' = TRUE /\ resp' = Cleared /\ cbuf' = Consumed(p.state)
              /\ IF pending = <<>> THEN overtaken' = TRUE /\ UNCHANGED <<pending, callbacks>>
                 ELSE /\ callbacks' = Append(callbacks, [to |-> Head(pending), msg |-> p.state.header.msg,
                                                         body |-> p.state.body])
                      /\ pending' = Tail(pending) /\ UNCHANGED overtaken
  BY Zenon DEF ClientLoop
<1>2. UNCHANGED <<upc, sent, s2c, handled>>
  BY DEF ClientLoop, userVars, serverVars
<1>3. Pushed' = Pushed
  BY <1>2 DEF Pushed
<1>4. CASE /\ p.result \in {"NotComplete", "Continue100"} /\ Len(cbuf) < 3 + RespLen
           /\ \/ \E s \in 0..2 : s <= Len(cbuf) /\ IsFresh(p.state, s)
              \/ k < Len(handled) /\ RespLen # 0 /\ Len(cbuf) >= 3 /\ IsOpen(p.state, m)
  <2>1. p.result # "Complete" /\ p.result # "Error"
    BY <1>4
  <2>2. ~cloop' /\ resp' = p.state /\ cbuf' = cbuf /\ UNCHANGED <<pending, callbacks>>
    BY <1>1, <2>1
  <2> QED
    BY <1>2, <1>3, <1>4, <2>2 DEF ClientInv
<1>5. CASE /\ p.result = "Complete" /\ k < Len(handled) /\ k + 1 \in 1..Len(Requests)
           /\ Len(cbuf) >= 3 + RespLen /\ p.state.header = m
           /\ p.state.scanned = 3 + RespLen /\ p.state.body = Whole(m).body
  <2>1. /\ cloop' /\ resp' = Cleared /\ cbuf' = Drop(cbuf, 3 + RespLen) /\ pending # <<>>
        /\ callbacks' = Append(callbacks, [to |-> Head(pending), msg |-> m.msg, body |-> Whole(m).body])
        /\ pending' = Tail(pending)
    BY <1>1, <1>5 DEF Consumed
  <2>2. /\ pending \in Seq(Nat) /\ Len(pending) = Pushed - k /\ k \in Nat /\ Len(pending) \in Nat
        /\ \A i \in 1..Len(pending) : pending[i] = k + i
    BY ClientFront DEF ClientInv
  <2>3. m \in Msg /\ m.msg = k + 1
    BY <1>5, MessageFacts
  <2> DEFINE A == Answer(k + 1)
  <2>4. callbacks \in Seq(Answered) /\ A \in Answered
    <3>1. Whole(m).body \in Seq(Pieces) /\ k + 1 \in Nat
      BY <2>2, <2>3, WholeFacts
    <3> QED
      BY <3>1 DEF ClientInv, Answer, Answered
  <2>5. callbacks' = Append(callbacks, A)
    <3>1. Head(pending) = k + 1
      <4> HIDE DEF k
      <4> QED
        BY <2>1, <2>2
    <3> QED
      BY <2>1, <2>3, <3>1 DEF Answer
  <2>6. /\ callbacks' \in Seq(Answered) /\ Len(callbacks') = k + 1 /\ callbacks'[k + 1] = A
        /\ \A i \in 1..k : callbacks'[i] = callbacks[i]
    <3> HIDE DEF A
    <3> QED
      BY <2>4, <2>5
  <2>7. \A i \in 1..k + 1 : callbacks'[i] = Answer(i)
    <3>1. \A i \in 1..k : callbacks[i] = Answer(i)
      BY DEF ClientInv
    <3>2. \A i \in 1..k + 1 : i = k + 1 \/ i \in 1..k
      BY <2>2
    <3> QED
      BY <2>6, <3>1, <3>2
  <2>8. Window(Pieces, RespWire, k + 1, Len(handled), cbuf', s2c)
    <3>1. RespWire \in Seq(Seq(Pieces)) /\ Len(RespWire[k + 1]) = 3 + RespLen
      BY <1>5, WiresFacts
    <3>2. Window(Pieces, RespWire, k, Len(handled), cbuf, s2c)
      BY DEF ClientInv
    <3>3. Len(RespWire[k + 1]) <= Len(cbuf) /\ k < Len(handled)
      <4>1. Len(cbuf) \in Nat /\ RespLen \in Nat
        BY ClientFront, HttpAssumption
      <4> QED
        BY <1>5, <3>1, <4>1
    <3> DEFINE n == Len(handled)
    <3> HIDE DEF k, n
    <3>4. Window(Pieces, RespWire, k + 1, n, Drop(cbuf, Len(RespWire[k + 1])), s2c)
      <4>1. RespWire \in Seq(Seq(Pieces)) /\ Window(Pieces, RespWire, k, n, cbuf, s2c) /\ k < n
        BY <3>1, <3>2, <3>3 DEF n
      <4> QED
        BY <3>3, <4>1, WindowConsume
    <3> QED
      BY <2>1, <3>1, <3>4 DEF n
  <2>9. 0 \in 0..2 /\ 0 <= Len(cbuf') /\ IsFresh(resp', 0)
    <3>1. IsFresh(Cleared, 0)
      BY ClearedIsFresh
    <3>2. cbuf' \in Seq(Pieces)
      BY <2>8 DEF Window
    <3> QED
      BY <2>1, <3>1, <3>2
  <2>10. /\ pending' \in Seq(Nat) /\ Len(pending') = Pushed - (k + 1)
         /\ \A i \in 1..Len(pending') : pending'[i] = (k + 1) + i
    <3> HIDE DEF k
    <3>1. /\ pending' \in Seq(Nat) /\ Len(pending') = Len(pending) - 1
          /\ \A i \in 1..Len(pending') : pending'[i] = pending[i + 1] /\ i + 1 \in 1..Len(pending) /\ i \in Nat
      BY <2>1, <2>2
    <3>2. Pushed = Len(pending) + k
      <4>1. Pushed \in Int
        BY ServerFront DEF Pushed
      <4> QED
        BY <2>2, <4>1
    <3>3. Len(pending') = Pushed - (k + 1)
      BY <2>2, <3>1, <3>2
    <3>4. \A i \in 1..Len(pending') : pending'[i] = (k + 1) + i
      <4> TAKE i \in 1..Len(pending')
      <4>1. pending'[i] = k + (i + 1) /\ i \in Nat
        BY <2>2, <3>1
      <4> QED
        BY <2>2, <4>1
    <3> QED
      BY <3>1, <3>3, <3>4
  <2>11. upc' \in {"idle", "push"}
    BY <1>2 DEF ClientInv
  <2> QED
    BY <1>2, <1>3, <2>1, <2>6, <2>7, <2>8, <2>9, <2>10, <2>11 DEF ClientInv
<1> QED
  BY <1>4, <1>5, ClientDecodes

(* split, sclosed and overtaken are never taken back.                       *)
LEMMA OnceSet ==
    ASSUME HttpNext \/ UNCHANGED httpVars
    PROVE  (~split' => ~split) /\ (~sclosed' => ~sclosed) /\ (~overtaken' => ~overtaken)
<1>1. CASE sendRequest
  BY <1>1 DEF sendRequest, serverVars, clientVars
<1>2. CASE pushRequest
  BY <1>2 DEF pushRequest, serverVars, clientVars
<1>3. CASE ServerRead
  BY <1>3 DEF ServerRead, clientVars
<1>4. CASE ClientRead
  BY <1>4 DEF ClientRead, serverVars
<1>5. CASE ServerReturns
  <2>1. PICK x \in ParseRequest :
         /\ CASE x.p.result = "Error" -> /\ inputBuffer' = <<>> /\ sclosed' = TRUE
                                         /\ Send(Message("400", 0, FALSE, FALSE))
              [] x.p.result = "Continue100" -> /\ inputBuffer' = x.data /\ sclosed' = sclosed
                                               /\ Send(Message("100", 0, FALSE, FALSE))
              [] OTHER -> inputBuffer' = x.data /\ UNCHANGED <<s2c, sclosed>>
         /\ split' = (split \/ sbuf # <<>>)
    BY <1>5, Zenon DEF ServerReturns
  <2>2. overtaken' = overtaken
    BY <1>5 DEF ServerReturns, clientVars
  <2>3. sclosed' = TRUE \/ sclosed' = sclosed
    BY <2>1
  <2>4. ~split' => ~split
    BY <2>1, Zenon
  <2>5. ~sclosed' => ~sclosed
    BY <2>3, Zenon
  <2>6. ~overtaken' => ~overtaken
    BY <2>2, Zenon
  <2> QED
    BY <2>4, <2>5, <2>6
<1>6. CASE ServerRoutes
  <2>1. sclosed' = TRUE \/ sclosed' = sclosed
    BY <1>6 DEF ServerRoutes
  <2>2. split' = split /\ overtaken' = overtaken
    BY <1>6 DEF ServerRoutes, clientVars
  <2> QED
    BY <2>1, <2>2
<1>7. CASE ClientLoop
  <2>1. overtaken' = TRUE \/ overtaken' = overtaken
    BY <1>7 DEF ClientLoop
  <2>2. split' = split /\ sclosed' = sclosed
    BY <1>7 DEF ClientLoop, serverVars
  <2> QED
    BY <2>1, <2>2
<1>8. CASE UNCHANGED httpVars
  BY <1>8 DEF httpVars, serverVars, clientVars
<1> QED
  BY <1>1, <1>2, <1>3, <1>4, <1>5, <1>6, <1>7, <1>8 DEF HttpNext

(* All actions together.                                                    *)
LEMMA ServerStep ==
    ASSUME ServerInv, HttpNext \/ UNCHANGED httpVars, ~split', ~sclosed'
    PROVE  ServerInv'
  BY ServerSends, ServerReads, ServerReturnsInv, ServerRoutesInv, ServerKept DEF HttpNext

LEMMA ClientStep ==
    ASSUME ServerInv, ClientInv, HttpNext \/ UNCHANGED httpVars, ~split', ~sclosed', ~overtaken'
    PROVE  ClientInv'
<1>1. sent \in Nat /\ ~sclosed
  BY ServerFront, OnceSet
<1>2. ASSUME UNCHANGED <<upc, sent, pending, s2c, handled, cbuf, resp, cloop, callbacks>>
      PROVE  ClientInv'
  <2>1. Pushed' = Pushed
    BY <1>2 DEF Pushed
  <2> QED
    BY <1>2, <2>1 DEF ClientInv
<1>3. CASE ServerRead
  BY <1>2, <1>3 DEF ServerRead, userVars, clientVars
<1>4. CASE ServerReturns
  <2>1. s2c' = s2c
    BY <1>4, ServerReturnsInv
  <2>2. UNCHANGED <<upc, sent, pending, handled, cbuf, resp, cloop, callbacks>>
    BY <1>4 DEF ServerReturns, userVars, clientVars
  <2> QED
    BY <1>2, <2>1, <2>2
<1>5. CASE UNCHANGED httpVars
  BY <1>2, <1>5 DEF httpVars, userVars, serverVars, clientVars
<1> QED
  BY <1>1, <1>3, <1>4, <1>5, ClientSends, ClientPushes, ClientReads, ClientAnswered, ClientLoopInv
  DEF HttpNext

LEMMA HttpStepInv ==
    ASSUME HttpInv, HttpNext \/ UNCHANGED httpVars
    PROVE  HttpInv'
<1> SUFFICES ASSUME ~split', ~sclosed' PROVE ServerInv' /\ (overtaken' \/ ClientInv')
  BY DEF HttpInv
<1>1. ~split /\ ~sclosed /\ (~overtaken' => ~overtaken)
  BY OnceSet
<1>2. ServerInv /\ (overtaken \/ ClientInv)
  BY <1>1 DEF HttpInv
<1> QED
  BY <1>1, <1>2, ServerStep, ClientStep

(* No bytes: an empty window at the beginning of a stream.                  *)
LEMMA WindowEmpty ==
    ASSUME NEW S, NEW P \in Seq(Seq(S))
    PROVE  Window(S, P, 0, 0, <<>>, <<>>)
<1>1. <<>> \in Seq(S) /\ Len(<<>>) = 0 /\ 0 \in 0..Len(P)
  <2>1. Len(P) \in Nat
    BY SeqElements
  <2> QED
    BY <2>1
<1>2. Place(P, 0) \in Nat
  BY <1>1, PlaceFacts
<1>3. Place(P, 0) + 0 + 0 = Place(P, 0) /\ 0 <= 0 /\ 1..0 = {}
  BY <1>2
<1> QED
  BY <1>1, <1>3 DEF Window

(* The empty connection.                                                    *)
LEMMA HttpInitInv == HttpInit => HttpInv
<1> SUFFICES ASSUME HttpInit PROVE ServerInv /\ ClientInv
  BY DEF HttpInv
<1>1. ReqWire \in Seq(Seq(Pieces)) /\ RespWire \in Seq(Seq(Pieces)) /\ RespLen \in Nat
  BY WiresFacts, HttpAssumption
<1>2. Window(Pieces, ReqWire, 0, 0, <<>>, <<>>) /\ Window(Pieces, RespWire, 0, 0, <<>>, <<>>)
  BY <1>1, WindowEmpty
<1>3. IsFresh(Cleared, 0)
  BY ClearedIsFresh
<1>4. <<>> \in Seq(Handled) /\ <<>> \in Seq(Answered) /\ <<>> \in Seq(Nat) /\ Len(<<>>) = 0
  OBVIOUS
<1>5. 0 \in 0..2 /\ 0 <= 0 /\ 0 < 3 + RespLen /\ 0 = 0 - 0 /\ 1..0 = {}
  BY <1>1
<1>6. ServerInv
  BY <1>2, <1>3, <1>4, <1>5 DEF HttpInit, ServerInv
<1>7. Pushed = 0 /\ upc \in {"idle", "push"}
  BY DEF HttpInit, Pushed
<1>8. \E s \in 0..2 : s <= Len(cbuf) /\ IsFresh(resp, s)
  BY <1>3, <1>4, <1>5 DEF HttpInit
<1>9. ClientInv
  BY <1>2, <1>4, <1>5, <1>7, <1>8 DEF HttpInit, ClientInv
<1> QED
  BY <1>6, <1>9

(* HttpServer::onMessage: unless it once returned in the middle of a        *)
(* request or has closed the connection, the routes have seen the requests  *)
(* in the order they were sent, each one whole and with its own body, and   *)
(* when nothing is left to read they have seen all of them - for every list *)
(* of requests and every way the stream joins them.                         *)
THEOREM RequestsIntactCorrect == HttpSpec => []RequestsIntact
<1>1. HttpInit => HttpInv
  BY HttpInitInv
<1>2. HttpInv /\ [HttpNext]_httpVars => HttpInv'
  BY HttpStepInv
<1>3. HttpInv => RequestsIntact
  <2> SUFFICES ASSUME HttpInv, ~split, ~sclosed
               PROVE  /\ \A i \in 1..Len(handled) : i <= sent /\ handled[i] = Whole(Request(i))
                      /\ ~sloop /\ c2s = <<>> => Len(handled) = sent
    BY DEF RequestsIntact
  <2>1. ServerInv
    BY DEF HttpInv
  <2>2. \A i \in 1..Len(handled) : handled[i] = Whole(Request(i))
    BY <2>1 DEF ServerInv
  <2> DEFINE k == Len(handled)
  <2>3. k \in Nat /\ sent \in Nat /\ k <= sent
    BY <2>1, ServerFront
  <2>4. ASSUME ~sloop, c2s = <<>> PROVE ~(k < sent)
    <3> SUFFICES ASSUME k < sent PROVE FALSE
      OBVIOUS
    <3>1. k + 1 \in 1..Len(Requests) /\ 3 + Request(k + 1).len <= Len(sbuf) + Len(c2s)
      BY <2>1, ServerFront
    <3>2. Len(sbuf) = 0 /\ Len(c2s) = 0
      BY <2>1, <2>4 DEF ServerInv
    <3>3. Request(k + 1).len \in Nat
      BY <3>1, MessageFacts
    <3> QED
      BY <3>1, <3>2, <3>3
  <2> HIDE DEF k
  <2>5. (\A i \in 1..k : i <= sent) /\ (~(k < sent) => k = sent)
    BY <2>3
  <2> QED
    BY <2>2, <2>4, <2>5 DEF k
<1> QED
  BY <1>1, <1>2, <1>3, PTL DEF HttpSpec

(* HTTPClient::onMessage: unless the server misread or closed, or a         *)
(* response overtook the push of its request, the i-th callback is called   *)
(* for the i-th request with the i-th response, whole, however the stream   *)
(* cuts and joins responses; and when nothing is on its way every request   *)
(* has had its callback.                                                    *)
THEOREM ResponsesMatchedCorrect == HttpSpec => []ResponsesMatched
<1>1. HttpInit => HttpInv
  BY HttpInitInv
<1>2. HttpInv /\ [HttpNext]_httpVars => HttpInv'
  BY HttpStepInv
<1>3. HttpInv => ResponsesMatched
  <2> SUFFICES ASSUME HttpInv, ~split, ~sclosed, ~overtaken
               PROVE  /\ \A i \in 1..Len(callbacks) :
                           callbacks[i] = [to |-> i, msg |-> i, body |-> Whole(Response(i)).body]
                      /\ ~sloop /\ ~cloop /\ upc = "idle" /\ c2s = <<>> /\ s2c = <<>>
                           => Len(callbacks) = sent
    BY DEF ResponsesMatched
  <2>1. ServerInv /\ ClientInv
    BY DEF HttpInv
  <2>2. \A i \in 1..Len(callbacks) :
            callbacks[i] = [to |-> i, msg |-> i, body |-> Whole(Response(i)).body]
    BY <2>1 DEF ClientInv, Answer
  <2> DEFINE k == Len(callbacks)
             n == Len(handled)
  <2>3. k \in Nat /\ n \in Nat /\ k <= n
    BY <2>1, ClientFront
  <2>4. sent \in Nat /\ n <= sent
    BY <2>1, ServerFront
  <2>5. ASSUME ~sloop, c2s = <<>> PROVE ~(n < sent)
    <3> SUFFICES ASSUME n < sent PROVE FALSE
      OBVIOUS
    <3>1. n + 1 \in 1..Len(Requests) /\ 3 + Request(n + 1).len <= Len(sbuf) + Len(c2s)
      BY <2>1, ServerFront
    <3>2. Len(sbuf) = 0 /\ Len(c2s) = 0
      BY <2>1, <2>5 DEF ServerInv
    <3>3. Request(n + 1).len \in Nat
      BY <3>1, MessageFacts
    <3> QED
      BY <3>1, <3>2, <3>3
  <2>6. ASSUME ~cloop, s2c = <<>> PROVE ~(k < n)
    <3> SUFFICES ASSUME k < n PROVE FALSE
      OBVIOUS
    <3>1. 3 + RespLen <= Len(cbuf) + Len(s2c) /\ Len(cbuf) \in Nat /\ RespLen \in Nat
      BY <2>1, ClientFront, HttpAssumption
    <3>2. Len(s2c) = 0 /\ Len(cbuf) < 3 + RespLen
      BY <2>1, <2>6 DEF ClientInv
    <3> QED
      BY <3>1, <3>2
  <2> HIDE DEF k, n
  <2>7. ~(n < sent) /\ ~(k < n) => k = sent
    BY <2>3, <2>4
  <2> QED
    BY <2>2, <2>5, <2>6, <2>7 DEF k
<1> QED
  BY <1>1, <1>2, <1>3, PTL DEF HttpSpec
=============================================================================
