-------------------------- MODULE MatchSearchProofs --------------------------
(***************************************************************************)
(* What the matchmaking library promises, for teams of any size, any queue *)
(* and any observations of its players: the proposals are sound, a search  *)
(* forms every match there are players for, and a policy chooses what its  *)
(* name says.  The three searches go through the queue by turns of one     *)
(* kind (Turn), and what they promise follows from that alone.             *)
(***************************************************************************)
EXTENDS MatchSearch, FiniteSetTheorems, SequenceTheorems, WellFoundedInduction, TLAPS

(***************************************************************************)
(* Induction on the natural numbers, for a set instead of a predicate: a   *)
(* number that is not in the set would have a least one.                   *)
(***************************************************************************)

LEMMA Least ==
    ASSUME NEW T \in SUBSET Nat, T # {}
    PROVE  \E x \in T : \A y \in T : x <= y
<1> DEFINE Below == {pair \in Nat \X Nat : pair[1] < pair[2]}
<1>1. OpToRel(<, Nat) = Below
  BY DEF OpToRel
<1>2. IsWellFoundedOn(Below, Nat)
  BY <1>1, NatLessThanWellFounded
<1> HIDE DEF Below
<1>3. PICK x \in T : \A y \in T : ~(<<y, x>> \in Below)
  BY <1>2, WFMin
<1>4. \A y \in T : ~(y < x)
  BY <1>3 DEF Below
<1> QED
  BY <1>4

LEMMA Induction ==
    ASSUME NEW N \in Nat, NEW S, 0 \in S, \A n \in 0 .. (N - 1) : n \in S => n + 1 \in S
    PROVE  \A n \in 0 .. N : n \in S
<1> DEFINE T == {n \in 0 .. N : n \notin S}
<1> SUFFICES ASSUME T # {} PROVE FALSE
  OBVIOUS
<1>1. PICK x \in T : \A y \in T : x <= y
  <2>1. T \in SUBSET Nat
    OBVIOUS
  <2> HIDE DEF T
  <2> QED
    BY <2>1, Least
<1>2. x # 0 /\ x - 1 \in 0 .. (N - 1) /\ x - 1 \in 0 .. N /\ ~(x <= x - 1)
  BY <1>1
<1>3. x - 1 \in S
  BY <1>1, <1>2
<1> QED
  BY <1>1, <1>2, <1>3

(* A recursion with values in T has a solution, for any step within T.     *)
Solves(f, m, T, start, step) ==
    /\ f \in [0 .. m -> T] /\ f[0] = start
    /\ \A n \in 1 .. m : f[n] = step[n][f[n - 1]]

LEMMA Recursion ==
    ASSUME NEW N \in Nat, NEW T, NEW start \in T, NEW step \in [1 .. N -> [T -> T]]
    PROVE  \E f : Solves(f, N, T, start, step)
<1> DEFINE S == {m \in Nat : \E f : Solves(f, m, T, start, step)}
<1>1. 0 \in S
  <2>1. Solves([n \in 0 .. 0 |-> start], 0, T, start, step)
    BY DEF Solves
  <2> QED
    BY <2>1
<1>2. ASSUME NEW n \in 0 .. (N - 1), n \in S PROVE n + 1 \in S
  <2>1. PICK f : Solves(f, n, T, start, step)
    BY <1>2
  <2>2. PICK k \in 1 .. N : k = n + 1
    BY <1>2
  <2>3. /\ n \in Nat /\ k - 1 = n /\ n \in 0 .. n /\ 0 \in 0 .. n
        /\ k \in 0 .. k /\ 0 \in 0 .. k
        /\ \A i \in 0 .. n : i \in 0 .. k /\ i # k
        /\ \A i \in 0 .. k : i = k \/ i \in 0 .. n
        /\ \A i \in 1 .. k : i = k \/ i \in 1 .. n
        /\ \A i \in 1 .. n : i \in 0 .. n /\ i - 1 \in 0 .. n
    BY <2>2
  <2>4. PICK last \in T : last = step[k][f[n]]
    BY <2>1, <2>2, <2>3 DEF Solves
  <2>5. PICK g : g = [i \in 0 .. k |-> IF i = k THEN last ELSE f[i]]
    OBVIOUS
  <2>6. g[k] = last /\ \A i \in 0 .. n : g[i] = f[i]
    BY <2>3, <2>5
  <2>7. g \in [0 .. k -> T]
    BY <2>1, <2>3, <2>5 DEF Solves
  <2>8. g[0] = start
    BY <2>1, <2>3, <2>6 DEF Solves
  <2>9. ASSUME NEW i \in 1 .. k PROVE g[i] = step[i][g[i - 1]]
    <3>1. CASE i = k
      BY <2>3, <2>4, <2>6, <3>1
    <3>2. CASE i \in 1 .. n
      BY <2>1, <2>3, <2>6, <3>2 DEF Solves
    <3> QED
      BY <2>3, <3>1, <3>2
  <2>10. Solves(g, k, T, start, step)
    BY <2>7, <2>8, <2>9 DEF Solves
  <2> QED
    BY <2>2, <2>3, <2>10
<1> HIDE DEF S
<1>3. \A n \in 0 .. N : n \in S
  BY <1>1, <1>2, Induction
<1>4. N \in S
  BY <1>3
<1> QED
  BY <1>4 DEF S

(* And it has no other.                                                    *)
LEMMA Unique ==
    ASSUME NEW N \in Nat, NEW f, NEW g, f[0] = g[0],
           \A n \in 1 .. N : f[n - 1] = g[n - 1] => f[n] = g[n]
    PROVE  \A n \in 0 .. N : f[n] = g[n]
<1> DEFINE S == {n \in 0 .. N : f[n] = g[n]}
<1>1. 0 \in S
  OBVIOUS
<1>2. ASSUME NEW n \in 0 .. (N - 1), n \in S PROVE n + 1 \in S
  <2>1. n + 1 \in 1 .. N /\ n + 1 \in 0 .. N /\ (n + 1) - 1 = n
    BY <1>2
  <2> QED
    BY <1>2, <2>1
<1> HIDE DEF S
<1>3. \A n \in 0 .. N : n \in S
  BY <1>1, <1>2, Induction
<1> QED
  BY <1>3 DEF S

(* What starts where it must be, and goes from where it was to where it    *)
(* must be next, is always where it must be.                               *)
LEMMA Leads ==
    ASSUME NEW N \in Nat, NEW I, NEW g, g[0] \in I[0],
           \A n \in 1 .. N : g[n - 1] \in I[n - 1] => g[n] \in I[n]
    PROVE  g[N] \in I[N]
<1> DEFINE S == {n \in 0 .. N : g[n] \in I[n]}
<1>1. 0 \in S
  OBVIOUS
<1>2. ASSUME NEW n \in 0 .. (N - 1), n \in S PROVE n + 1 \in S
  <2>1. n + 1 \in 1 .. N /\ n + 1 \in 0 .. N /\ (n + 1) - 1 = n
    BY <1>2
  <2> QED
    BY <1>2, <2>1
<1> HIDE DEF S
<1>3. \A n \in 0 .. N : n \in S
  BY <1>1, <1>2, Induction
<1>4. N \in S
  BY <1>3
<1> QED
  BY <1>4 DEF S

LEMMA Stays ==
    ASSUME NEW N \in Nat, NEW T, NEW g, g[0] \in T, \A n \in 1 .. N : g[n - 1] \in T => g[n] \in T
    PROVE  g[N] \in T
<1>1. PICK I : I = [n \in 0 .. N |-> T]
  OBVIOUS
<1>2. \A n \in 0 .. N : I[n] = T
  BY <1>1
<1>3. 0 \in 0 .. N /\ N \in 0 .. N /\ \A n \in 1 .. N : n \in 0 .. N /\ n - 1 \in 0 .. N
  OBVIOUS
<1>4. g[0] \in I[0] /\ \A n \in 1 .. N : g[n - 1] \in I[n - 1] => g[n] \in I[n]
  BY <1>2, <1>3
<1> QED
  BY <1>2, <1>3, <1>4, Leads

(***************************************************************************)
(* Sequences without duplicates                                            *)
(***************************************************************************)

(* What a sequence has after one more element.                             *)
LEMMA Appended ==
    ASSUME NEW X, NEW s \in Seq(X), NEW x \in X
    PROVE  /\ Append(s, x) \in Seq(X) /\ Len(Append(s, x)) = Len(s) + 1
           /\ ToSet(Append(s, x)) = ToSet(s) \cup {x}
           /\ NoDuplicates(s) /\ x \notin ToSet(s) => NoDuplicates(Append(s, x))
<1>1. PICK m \in Nat : m = Len(s) /\ DOMAIN s = 1 .. m
  BY LenProperties
<1>2. PICK longer : longer = Append(s, x)
  OBVIOUS
<1>3. /\ longer \in Seq(X) /\ Len(longer) = m + 1 /\ DOMAIN longer = 1 .. (m + 1)
      /\ longer[m + 1] = x /\ \A n \in 1 .. m : longer[n] = s[n]
  BY <1>1, <1>2, LenProperties, AppendProperties
<1>4. /\ m + 1 \in 1 .. (m + 1) /\ \A n \in 1 .. (m + 1) : n = m + 1 \/ n \in 1 .. m
      /\ \A n \in 1 .. m : n \in 1 .. (m + 1)
  BY <1>1
<1>5. ToSet(longer) = ToSet(s) \cup {x}
  BY <1>1, <1>3, <1>4 DEF ToSet
<1>6. NoDuplicates(s) /\ x \notin ToSet(s) => NoDuplicates(longer)
  BY <1>1, <1>3, <1>4 DEF NoDuplicates, ToSet
<1> QED
  BY <1>1, <1>2, <1>3, <1>5, <1>6

(* A sequence without duplicates is as long as the set of its elements.    *)
LEMMA LengthIs ==
    ASSUME NEW X, NEW s \in Seq(X)
    PROVE  /\ IsFiniteSet(ToSet(s)) /\ Cardinality(ToSet(s)) <= Len(s)
           /\ NoDuplicates(s) => Cardinality(ToSet(s)) = Len(s)
<1>1. PICK m \in Nat : m = Len(s) /\ DOMAIN s = 1 .. m
  BY LenProperties
<1>2. \A i \in 1 .. m : s[i] \in ToSet(s)
  BY <1>1 DEF ToSet
<1>3. \A x \in ToSet(s) : \E i \in 1 .. m : s[i] = x
  BY <1>1 DEF ToSet
<1>4. IsFiniteSet(1 .. m) /\ Cardinality(1 .. m) = m
  <2>1. 1 \in Int /\ m \in Int /\ (IF 1 > m THEN 0 ELSE m - 1 + 1) = m
    OBVIOUS
  <2>2. IsFiniteSet(1 .. m) /\ Cardinality(1 .. m) = IF 1 > m THEN 0 ELSE m - 1 + 1
    BY <2>1, FS_Interval
  <2> QED
    BY <2>1, <2>2
<1>5. PICK f : f = [i \in 1 .. m |-> s[i]]
  OBVIOUS
<1>6. f \in Surjection(1 .. m, ToSet(s))
  BY <1>2, <1>3, <1>5 DEF Surjection
<1>7. /\ IsFiniteSet(ToSet(s)) /\ Cardinality(ToSet(s)) <= m
      /\ f \in Injection(1 .. m, ToSet(s)) => Cardinality(ToSet(s)) = m
  BY <1>4, <1>6, FS_Surjection
<1>8. NoDuplicates(s) => f \in Injection(1 .. m, ToSet(s))
  BY <1>1, <1>2, <1>5 DEF Injection, IsInjective, NoDuplicates
<1> QED
  BY <1>1, <1>7, <1>8

(* What the function of Keep is.                                           *)
Keeps(f, s, S) ==
    /\ f[0] = <<>>
    /\ \A n \in 1 .. Len(s) : f[n] = IF s[n] \in S THEN Append(f[n - 1], s[n]) ELSE f[n - 1]

LEMMA KeepIs ==
    ASSUME NEW X, NEW s \in Seq(X), NEW S
    PROVE  \E f : f \in [0 .. Len(s) -> Seq(X)] /\ Keeps(f, s, S) /\ Keep(s, S) = f[Len(s)]
<1>1. PICK N \in Nat : N = Len(s) /\ DOMAIN s = 1 .. N
  BY LenProperties
<1>0. PICK step :
         step = [n \in 1 .. N |-> [t \in Seq(X) |-> IF s[n] \in S THEN Append(t, s[n]) ELSE t]]
  OBVIOUS
<1> DEFINE Of(h) == [n \in 0 .. Len(s) |->
                        IF n = 0 THEN <<>>
                        ELSE IF s[n] \in S THEN Append(h[n - 1], s[n]) ELSE h[n - 1]]
<1>2. <<>> \in Seq(X) /\ step \in [1 .. N -> [Seq(X) -> Seq(X)]]
  <2>1. ASSUME NEW n \in 1 .. N, NEW t \in Seq(X)
        PROVE  (IF s[n] \in S THEN Append(t, s[n]) ELSE t) \in Seq(X)
    <3>1. s[n] \in X
      BY <1>1, ElementOfSeq
    <3>2. Append(t, s[n]) \in Seq(X)
      BY <3>1
    <3> QED
      BY <3>2
  <2> QED
    BY <1>0, <2>1
<1>3. PICK f : Solves(f, N, Seq(X), <<>>, step)
  BY <1>1, <1>2, Recursion
<1>4. \A n \in 1 .. N : n \in 0 .. N /\ n - 1 \in 0 .. N /\ n # 0
  BY <1>1
<1>5. f \in [0 .. N -> Seq(X)] /\ Keeps(f, s, S)
  BY <1>0, <1>1, <1>3, <1>4 DEF Solves, Keeps
<1>6. f = Of(f)
  <2>1. \A n \in 0 .. N : n = 0 \/ n \in 1 .. N
    BY <1>1
  <2>2. \A n \in 0 .. N : f[n] = Of(f)[n]
    BY <1>1, <1>4, <1>5, <2>1 DEF Keeps
  <2> QED
    BY <1>1, <1>5, <2>2
<1>7. PICK g : g = CHOOSE h : h = Of(h)
  OBVIOUS
<1>8. g = Of(g)
  BY <1>6, <1>7
<1>9. Keep(s, S) = g[N]
  BY <1>1, <1>7 DEF Keep
<1>10. \A n \in 0 .. N : f[n] = g[n]
  <2>1. f[0] = g[0]
    BY <1>1, <1>5, <1>8 DEF Keeps
  <2>2. \A n \in 1 .. N : f[n - 1] = g[n - 1] => f[n] = g[n]
    BY <1>1, <1>4, <1>5, <1>8 DEF Keeps
  <2> HIDE DEF Of
  <2> QED
    BY <2>1, <2>2, Unique
<1>11. Keep(s, S) = f[N]
  BY <1>1, <1>9, <1>10
<1> QED
  BY <1>1, <1>5, <1>11

(* Keep takes what is in the set, each as often as it was there.           *)
LEMMA Kept ==
    ASSUME NEW X, NEW s \in Seq(X), NEW S
    PROVE  /\ Keep(s, S) \in Seq(X) /\ ToSet(Keep(s, S)) = ToSet(s) \cap S
           /\ NoDuplicates(s) => NoDuplicates(Keep(s, S))
<1>1. PICK N \in Nat : N = Len(s) /\ DOMAIN s = 1 .. N
  BY LenProperties
<1>2. PICK f : f \in [0 .. N -> Seq(X)] /\ Keeps(f, s, S) /\ Keep(s, S) = f[N]
  BY <1>1, KeepIs
<1> DEFINE First(n) == {s[i] : i \in 1 .. n} \cap S
           T == {n \in 0 .. N : /\ ToSet(f[n]) = First(n)
                                /\ NoDuplicates(s) => NoDuplicates(f[n])}
<1>3. 0 \in T
  <2>1. f[0] = <<>> /\ DOMAIN <<>> = {} /\ 1 .. 0 = {} /\ 0 \in 0 .. N
    BY <1>2 DEF Keeps
  <2> QED
    BY <2>1 DEF ToSet, NoDuplicates
<1>4. ASSUME NEW n \in 0 .. (N - 1), n \in T PROVE n + 1 \in T
  <2>1. PICK k \in 1 .. N : k = n + 1
    BY <1>4
  <2>2. /\ k \in 0 .. N /\ k - 1 = n /\ n \in 0 .. N /\ s[k] \in X
        /\ 1 .. k = (1 .. n) \cup {k} /\ k \notin 1 .. n /\ \A i \in 1 .. n : i \in 1 .. N
    BY <1>1, <2>1, ElementOfSeq
  <2>3. PICK t \in Seq(X) : t = f[n]
    BY <1>2, <2>2
  <2>4. ToSet(t) = First(n) /\ (NoDuplicates(s) => NoDuplicates(t))
    BY <1>4, <2>3
  <2>5. f[k] = IF s[k] \in S THEN Append(t, s[k]) ELSE t
    BY <1>1, <1>2, <2>2, <2>3 DEF Keeps
  <2>6. First(k) = IF s[k] \in S THEN First(n) \cup {s[k]} ELSE First(n)
    BY <2>2
  <2>7. NoDuplicates(s) => s[k] \notin First(n)
    BY <1>1, <2>2 DEF NoDuplicates
  <2> HIDE DEF First
  <2>8. CASE s[k] \in S
    <3>1. /\ ToSet(f[k]) = ToSet(t) \cup {s[k]}
          /\ NoDuplicates(t) /\ s[k] \notin ToSet(t) => NoDuplicates(f[k])
      BY <2>2, <2>5, <2>8, Appended
    <3>2. ToSet(f[k]) = First(k) /\ (NoDuplicates(s) => NoDuplicates(f[k]))
      BY <2>4, <2>6, <2>7, <2>8, <3>1
    <3> QED
      BY <2>1, <2>2, <3>2
  <2>9. CASE s[k] \notin S
    BY <2>1, <2>2, <2>4, <2>5, <2>6, <2>9
  <2> QED
    BY <2>8, <2>9
<1> HIDE DEF T
<1>5. \A n \in 0 .. (N - 1) : n \in T => n + 1 \in T
  BY <1>4
<1>6. N \in 0 .. N
  BY <1>1
<1>7. N \in T
  BY <1>3, <1>5, <1>6, Induction
<1>8. First(N) = ToSet(s) \cap S
  BY <1>1 DEF ToSet
<1> QED
  BY <1>2, <1>6, <1>7, <1>8 DEF T

(***************************************************************************)
(* The order a sort puts keys in                                           *)
(***************************************************************************)

(* The positions whose keys come before the one at j, and j.               *)
UpTo(key, j) == {i \in DOMAIN key : key[i] > key[j] \/ (key[i] = key[j] /\ i <= j)}

(* The counts of these are the positions 1 .. n, each once.                *)
LEMMA Ranks ==
    ASSUME NEW n \in Nat, NEW key \in [1 .. n -> Int]
    PROVE  /\ \A j \in 1 .. n : Cardinality(UpTo(key, j)) \in 1 .. n
           /\ \A k \in 1 .. n : \E j \in 1 .. n : Cardinality(UpTo(key, j)) = k
<1>1. IsFiniteSet(1 .. n) /\ Cardinality(1 .. n) = n
  <2>1. 1 \in Int /\ n \in Int /\ (IF 1 > n THEN 0 ELSE n - 1 + 1) = n
    OBVIOUS
  <2>2. IsFiniteSet(1 .. n) /\ Cardinality(1 .. n) = IF 1 > n THEN 0 ELSE n - 1 + 1
    BY <2>1, FS_Interval
  <2> QED
    BY <2>1, <2>2
<1>2. ASSUME NEW j \in 1 .. n
      PROVE  /\ UpTo(key, j) \in SUBSET (1 .. n) /\ j \in UpTo(key, j) /\ IsFiniteSet(UpTo(key, j))
             /\ Cardinality(UpTo(key, j)) \in 1 .. n
  <2>1. PICK U : U = UpTo(key, j)
    OBVIOUS
  <2>2. U \in SUBSET (1 .. n) /\ j \in U
    BY <2>1 DEF UpTo
  <2>3. IsFiniteSet(U) /\ Cardinality(U) <= n /\ Cardinality(U) \in Nat
    <3>1. IsFiniteSet(U) /\ Cardinality(U) <= Cardinality(1 .. n)
      BY <1>1, <2>2, FS_Subset
    <3>2. Cardinality(U) \in Nat
      BY <3>1, FS_CardinalityType
    <3> QED
      BY <1>1, <3>1, <3>2
  <2>4. Cardinality(U) # 0
    BY <2>2, <2>3, FS_EmptySet
  <2> QED
    BY <2>1, <2>2, <2>3, <2>4
<1>3. ASSUME NEW i \in 1 .. n, NEW j \in 1 .. n,
             key[i] > key[j] \/ (key[i] = key[j] /\ i < j)
      PROVE  Cardinality(UpTo(key, i)) < Cardinality(UpTo(key, j))
  <2>1. key[i] \in Int /\ key[j] \in Int /\ \A l \in 1 .. n : key[l] \in Int
    OBVIOUS
  <2>2. PICK U : U = UpTo(key, i)
    OBVIOUS
  <2>3. PICK V : V = UpTo(key, j)
    OBVIOUS
  <2>4. U \in SUBSET V
    BY <1>3, <2>1, <2>2, <2>3 DEF UpTo
  <2>5. j \in V /\ j \notin U
    BY <1>3, <2>1, <2>2, <2>3 DEF UpTo
  <2>6. IsFiniteSet(V) /\ Cardinality(V) \in Nat /\ Cardinality(U) \in Nat
    BY <1>2, <2>2, <2>3
  <2>7. Cardinality(U) <= Cardinality(V) /\ Cardinality(U) # Cardinality(V)
    BY <2>4, <2>5, <2>6, FS_Subset
  <2> QED
    BY <2>2, <2>3, <2>6, <2>7
<1>4. PICK rank : rank = [j \in 1 .. n |-> Cardinality(UpTo(key, j))]
  OBVIOUS
<1>5. rank \in [1 .. n -> 1 .. n]
  BY <1>2, <1>4
<1>6. \A i, j \in 1 .. n : rank[i] = rank[j] => i = j
  <2> SUFFICES ASSUME NEW i \in 1 .. n, NEW j \in 1 .. n, rank[i] = rank[j], i # j PROVE FALSE
    OBVIOUS
  <2>1. rank[i] \in Int /\ Cardinality(UpTo(key, i)) = rank[i] /\ Cardinality(UpTo(key, j)) = rank[i]
    BY <1>4, <1>5
  <2>2. \/ key[i] > key[j] \/ (key[i] = key[j] /\ i < j)
        \/ key[j] > key[i] \/ (key[j] = key[i] /\ j < i)
    <3>1. key[i] \in Int /\ key[j] \in Int
      OBVIOUS
    <3> QED
      BY <3>1
  <2>3. \/ Cardinality(UpTo(key, i)) < Cardinality(UpTo(key, j))
        \/ Cardinality(UpTo(key, j)) < Cardinality(UpTo(key, i))
    BY <1>3, <2>2
  <2> QED
    BY <2>1, <2>3
<1>7. rank \in Injection(1 .. n, 1 .. n)
  BY <1>5, <1>6 DEF Injection, IsInjective
<1>8. rank \in Surjection(1 .. n, 1 .. n)
  BY <1>1, <1>7, FS_Injection
<1>9. \A k \in 1 .. n : \E j \in 1 .. n : rank[j] = k
  BY <1>8 DEF Surjection
<1> QED
  BY <1>2, <1>4, <1>9

(* A sort puts every position in one place.                                *)
LEMMA SortIsPermutation ==
    ASSUME NEW n \in Nat, NEW key \in [1 .. n -> Int]
    PROVE  /\ StableDescending(key) \in [1 .. n -> 1 .. n]
           /\ \A k, l \in 1 .. n : StableDescending(key)[k] = StableDescending(key)[l] => k = l
<1>1. DOMAIN key = 1 .. n
  OBVIOUS
<1>2. PICK sorted : sorted = StableDescending(key)
  OBVIOUS
<1>3. sorted = [k \in 1 .. n |-> CHOOSE j \in 1 .. n : Cardinality(UpTo(key, j)) = k]
  BY <1>1, <1>2 DEF StableDescending, UpTo
<1>4. \A k \in 1 .. n : sorted[k] \in 1 .. n /\ Cardinality(UpTo(key, sorted[k])) = k
  <2> SUFFICES ASSUME NEW k \in 1 .. n
               PROVE  sorted[k] \in 1 .. n /\ Cardinality(UpTo(key, sorted[k])) = k
    OBVIOUS
  <2>1. \E j \in 1 .. n : Cardinality(UpTo(key, j)) = k
    BY Ranks
  <2>2. sorted[k] = CHOOSE j \in 1 .. n : Cardinality(UpTo(key, j)) = k
    BY <1>3
  <2> QED
    BY <2>1, <2>2
<1>5. sorted \in [1 .. n -> 1 .. n]
  BY <1>3, <1>4
<1> QED
  BY <1>2, <1>4, <1>5

(* One of several numbers is the largest.                                  *)
LEMMA Largest ==
    ASSUME NEW n \in Nat \ {0}, NEW key \in [1 .. n -> Int]
    PROVE  \E i \in 1 .. n : \A j \in 1 .. n : key[i] >= key[j]
<1>1. 1 \in 1 .. n
  OBVIOUS
<1>2. PICK i \in 1 .. n : Cardinality(UpTo(key, i)) = 1
  BY <1>1, Ranks
<1>3. i \in UpTo(key, i) /\ key[i] \in Int
  BY DEF UpTo
<1>4. PICK U : U = UpTo(key, i)
  OBVIOUS
<1>5. IsFiniteSet(U)
  <2>1. IsFiniteSet(1 .. n)
    BY FS_Interval
  <2>2. U \in SUBSET (1 .. n)
    BY <1>4 DEF UpTo
  <2> QED
    BY <2>1, <2>2, FS_Subset
<1>6. PICK x : U = {x}
  BY <1>2, <1>4, <1>5, FS_Singleton
<1>7. \A j \in 1 .. n : key[j] > key[i] => j \in U
  BY <1>4 DEF UpTo
<1>8. ASSUME NEW j \in 1 .. n, key[j] > key[i] PROVE FALSE
  <2>1. j = i
    BY <1>3, <1>4, <1>6, <1>7, <1>8
  <2> QED
    BY <1>3, <1>8, <2>1
<1>9. \A j \in 1 .. n : key[j] \in Int
  OBVIOUS
<1> QED
  BY <1>3, <1>8, <1>9

(* A rearrangement of a sequence: each element from a place of its own.    *)
OneToOne(positions, k) == \A i, j \in 1 .. k : positions[i] = positions[j] => i = j

LEMMA Picked ==
    ASSUME NEW X, NEW s \in Seq(X), NEW k \in Nat, NEW positions \in [1 .. k -> 1 .. Len(s)]
    PROVE  /\ Pick(s, positions) \in Seq(X) /\ Len(Pick(s, positions)) = k
           /\ ToSet(Pick(s, positions)) \subseteq ToSet(s)
           /\ NoDuplicates(s) /\ OneToOne(positions, k) => NoDuplicates(Pick(s, positions))
<1>1. DOMAIN s = 1 .. Len(s) /\ DOMAIN positions = 1 .. k
  BY LenProperties
<1>2. PICK t : t = Pick(s, positions)
  OBVIOUS
<1>3. t = [i \in 1 .. k |-> s[positions[i]]]
  BY <1>1, <1>2 DEF Pick
<1>4. \A i \in 1 .. k : positions[i] \in 1 .. Len(s) /\ s[positions[i]] \in X
  BY ElementOfSeq
<1>5. t \in [1 .. k -> X]
  BY <1>3, <1>4
<1>6. t \in Seq(X) /\ Len(t) = k /\ DOMAIN t = 1 .. k
  BY <1>5, SeqDef, LenProperties
<1>7. ToSet(t) \subseteq ToSet(s)
  BY <1>1, <1>3, <1>4, <1>6 DEF ToSet
<1>8. NoDuplicates(s) /\ OneToOne(positions, k) => NoDuplicates(t)
  BY <1>1, <1>3, <1>4, <1>6 DEF NoDuplicates, OneToOne
<1> QED
  BY <1>2, <1>6, <1>7, <1>8


(***************************************************************************)
(* What the library is given, and the numbers it computes from it          *)
(***************************************************************************)

Given == world \in Worlds /\ queue \in Queues

LEMMA Inputs ==
    ASSUME Given
    PROVE  /\ DOMAIN world \subseteq Nat /\ \A p \in DOMAIN world : world[p] \in Observation
           /\ queue \in Seq(QueueEntry) /\ Len(queue) \in Nat /\ DOMAIN queue = 1 .. Len(queue)
           /\ \A i \in 1 .. Len(queue) : queue[i] \in QueueEntry
           /\ Queued \in Seq(Nat) /\ Len(Queued) = Len(queue) /\ DOMAIN Queued = 1 .. Len(queue)
           /\ \A i \in 1 .. Len(queue) : Queued[i] = queue[i].player
<1>1. /\ DOMAIN world \subseteq Nat /\ \A p \in DOMAIN world : world[p] \in Observation
      /\ queue \in Seq(QueueEntry)
  BY InputsAssumption DEF Given
<1>2. PICK n \in Nat : n = Len(queue) /\ DOMAIN queue = 1 .. n
  BY <1>1, LenProperties
<1>3. \A i \in 1 .. n : queue[i] \in QueueEntry
  BY <1>1, <1>2, ElementOfSeq
<1>4. PICK players : players = Queued
  OBVIOUS
<1>5. players = [i \in 1 .. n |-> queue[i].player]
  BY <1>2, <1>4 DEF Queued
<1>6. players \in [1 .. n -> Nat]
  BY <1>3, <1>5 DEF QueueEntry
<1>7. players \in Seq(Nat) /\ Len(players) = n /\ DOMAIN players = 1 .. n
  BY <1>6, SeqDef, LenProperties
<1> QED
  BY <1>1, <1>2, <1>3, <1>4, <1>5, <1>7

LEMMA SumIsNumber ==
    ASSUME NEW X, NEW team \in Seq(X), NEW has, \A p \in DOMAIN has : has[p] \in Int
    PROVE  SumOver(team, has) \in Int
<1>1. PICK N \in Nat : N = Len(team)
  BY LenProperties
<1> DEFINE Of(h) == [n \in 0 .. Len(team) |->
                        IF n = 0 THEN 0
                        ELSE h[n - 1] + (IF team[n] \in DOMAIN has THEN has[team[n]] ELSE 0)]
<1>2. PICK step : step = [n \in 1 .. N |-> [t \in Int |->
                             t + (IF team[n] \in DOMAIN has THEN has[team[n]] ELSE 0)]]
  OBVIOUS
<1>3. 0 \in Int /\ step \in [1 .. N -> [Int -> Int]]
  <2>1. ASSUME NEW n \in 1 .. N, NEW t \in Int
        PROVE  t + (IF team[n] \in DOMAIN has THEN has[team[n]] ELSE 0) \in Int
    OBVIOUS
  <2> QED
    BY <1>2, <2>1
<1>4. PICK f : Solves(f, N, Int, 0, step)
  BY <1>3, Recursion
<1>5. \A n \in 0 .. N : n = 0 \/ (n \in 1 .. N /\ n - 1 \in 0 .. N /\ n # 0)
  OBVIOUS
<1>6. f = Of(f)
  <2>1. \A n \in 0 .. N : f[n] = Of(f)[n]
    BY <1>1, <1>2, <1>4, <1>5 DEF Solves
  <2> QED
    BY <1>1, <1>4, <2>1 DEF Solves
<1>7. PICK g : g = CHOOSE h : h = Of(h)
  OBVIOUS
<1>8. g = Of(g)
  BY <1>6, <1>7
<1>9. g[0] \in Int /\ \A n \in 1 .. N : g[n - 1] \in Int => g[n] \in Int
  <2>1. 0 \in 0 .. N /\ \A n \in 1 .. N : n \in 0 .. N /\ n # 0
    OBVIOUS
  <2> QED
    BY <1>1, <1>8, <2>1
<1> HIDE DEF Of
<1>10. g[N] \in Int
  BY <1>9, Stays
<1> QED
  BY <1>1, <1>7, <1>10 DEF SumOver, Of

LEMMA AverageIsNumber ==
    ASSUME NEW X, NEW team \in Seq(X), NEW has, \A p \in DOMAIN has : has[p] \in Int
    PROVE  Average(team, has) \in Int
<1>1. PICK sum \in Int : sum = SumOver(team, has)
  BY SumIsNumber
<1>2. PICK n \in Nat : n = Len(team)
  BY LenProperties
<1>3. OneIfEmpty(n) \in Nat /\ OneIfEmpty(n) > 0
  BY DEF OneIfEmpty
<1>4. Scale * sum \in Int
  BY LibraryAssumption
<1> QED
  BY <1>1, <1>2, <1>3, <1>4 DEF Average

LEMMA ScoresAreNumbers ==
    ASSUME Given, NEW X, NEW a \in Seq(X), NEW b \in Seq(X)
    PROVE  /\ AverageRating(a) \in Int /\ MatchQuality(a, b) \in Int
           /\ SkillBalance(ProposedMatch(a, b)) \in Int /\ Latency(ProposedMatch(a, b)) \in Int
           /\ WeightedSum(ProposedMatch(a, b)) \in Int
<1>1. \A p \in DOMAIN Ratings : Ratings[p] \in Int
  BY Inputs DEF Ratings, Observation
<1>2. a \o b \in Seq(X)
  OBVIOUS
<1>3. /\ AverageRating(a) \in Int /\ AverageRating(b) \in Int /\ AverageRating(a \o b) \in Int
  BY <1>1, <1>2, AverageIsNumber DEF AverageRating
<1>4. Scale * Cap \in Int
  BY LibraryAssumption
<1>5. MatchQuality(a, b) \in Int
  BY <1>3, <1>4 DEF MatchQuality, AtMost, Distance
<1>6. SkillBalance(ProposedMatch(a, b)) \in Int
  BY <1>5 DEF SkillBalance, ProposedMatch
<1>7. Latency(ProposedMatch(a, b)) \in Int
  BY <1>3, <1>4 DEF Latency, All, AtMost, ProposedMatch
<1> QED
  BY <1>3, <1>5, <1>6, <1>7 DEF WeightedSum, WaitTime


LEMMA MinIsLeast ==
    ASSUME NEW T \in SUBSET Nat, T # {}
    PROVE  Min(T) \in T /\ \A y \in T : Min(T) <= y
<1>1. \E x \in T : \A y \in T : x <= y
  BY Least
<1> QED
  BY <1>1 DEF Min

LEMMA WaitIsNumber ==
    ASSUME Given, NEW p
    PROVE  WaitOf(p) \in Int
<1>1. PICK at : at = {i \in DOMAIN queue : queue[i].player = p}
  OBVIOUS
<1>2. at \in SUBSET (1 .. Len(queue)) /\ at \in SUBSET Nat
  BY <1>1, Inputs
<1>3. CASE at = {}
  BY <1>1, <1>3 DEF WaitOf
<1>4. CASE at # {}
  <2>1. Min(at) \in 1 .. Len(queue)
    BY <1>2, <1>4, MinIsLeast
  <2>2. queue[Min(at)].waited \in Int
    BY <2>1, Inputs DEF QueueEntry
  <2> QED
    BY <1>1, <1>4, <2>2 DEF WaitOf
<1> QED
  BY <1>3, <1>4

LEMMA LongestWaitIsNumber ==
    ASSUME Given, NEW X, NEW team \in Seq(X)
    PROVE  LongestWait(team) \in Int
<1>1. PICK N \in Nat : N = Len(team)
  BY LenProperties
<1>0. PICK waits : waits = [n \in 1 .. N |-> WaitOf(team[n])]
  OBVIOUS
<1>2. \A n \in 1 .. N : waits[n] \in Int /\ waits[n] = WaitOf(team[n])
  BY <1>0, WaitIsNumber
<1> DEFINE Of(h) == [n \in 0 .. Len(team) |->
                        IF n = 0 THEN 0 ELSE AtLeast(h[n - 1], WaitOf(team[n]))]
<1>3. PICK step : step = [n \in 1 .. N |-> [t \in Int |-> AtLeast(t, waits[n])]]
  OBVIOUS
<1>4. 0 \in Int /\ step \in [1 .. N -> [Int -> Int]]
  <2>1. ASSUME NEW n \in 1 .. N, NEW t \in Int PROVE AtLeast(t, waits[n]) \in Int
    BY <1>2 DEF AtLeast
  <2> QED
    BY <1>3, <2>1
<1>5. PICK f : Solves(f, N, Int, 0, step)
  BY <1>4, Recursion
<1>6. \A n \in 0 .. N : n = 0 \/ (n \in 1 .. N /\ n - 1 \in 0 .. N /\ n # 0)
  OBVIOUS
<1>7. f = Of(f)
  <2>1. \A n \in 0 .. N : f[n] = Of(f)[n]
    BY <1>1, <1>2, <1>3, <1>5, <1>6 DEF Solves
  <2> QED
    BY <1>1, <1>5, <2>1 DEF Solves
<1>8. PICK g : g = CHOOSE h : h = Of(h)
  OBVIOUS
<1>9. g = Of(g)
  BY <1>7, <1>8
<1>10. g[0] \in Int /\ \A n \in 1 .. N : g[n - 1] \in Int => g[n] \in Int
  <2>1. 0 \in 0 .. N /\ \A n \in 1 .. N : n \in 0 .. N /\ n # 0
    OBVIOUS
  <2>2. \A n \in 1 .. N : g[n] = AtLeast(g[n - 1], waits[n])
    BY <1>1, <1>2, <1>9, <2>1
  <2>3. g[0] = 0
    BY <1>1, <1>9, <2>1
  <2> QED
    BY <1>2, <2>2, <2>3 DEF AtLeast
<1> HIDE DEF Of
<1>11. g[N] \in Int
  BY <1>10, Stays
<1> QED
  BY <1>1, <1>8, <1>11 DEF LongestWait, Of

LEMMA ObjectiveIsNumber ==
    ASSUME Given, NEW X, NEW a \in Seq(X), NEW b \in Seq(X)
    PROVE  ObjectiveScore(a, b) \in Int
<1>1. \A p \in DOMAIN Deviations : Deviations[p] \in Int
  BY Inputs DEF Deviations, Observation
<1>2. a \o b \in Seq(X)
  OBVIOUS
<1>3. Average(a \o b, Deviations) \in Int
  BY <1>1, <1>2, AverageIsNumber
<1>4. LongestWait(a \o b) \in Int
  BY <1>2, LongestWaitIsNumber
<1>5. MatchQuality(a, b) \in Int
  BY ScoresAreNumbers
<1> QED
  BY <1>3, <1>4, <1>5 DEF ObjectiveScore


(***************************************************************************)
(* Matches                                                                 *)
(***************************************************************************)

Match == [team_a : Seq(Nat), team_b : Seq(Nat)]
Who == ToSet(Queued)

(* A match that may lack players yet.                                      *)
Partial(m) ==
    /\ Len(m.team_a) <= SizeA /\ Len(m.team_b) <= SizeB
    /\ NoDuplicates(All(m)) /\ Players(m) \subseteq Who
Proper(m) == Full(m) /\ NoDuplicates(All(m)) /\ Players(m) \subseteq Who

LEMMA Joined ==
    ASSUME NEW X, NEW a \in Seq(X), NEW b \in Seq(X)
    PROVE  /\ a \o b \in Seq(X) /\ Len(a \o b) = Len(a) + Len(b)
           /\ ToSet(a \o b) = ToSet(a) \cup ToSet(b)
           /\ NoDuplicates(a \o b) <=>
                 NoDuplicates(a) /\ NoDuplicates(b) /\ ToSet(a) \cap ToSet(b) = {}
<1>1. PICK n \in Nat : n = Len(a) /\ DOMAIN a = 1 .. n
  BY LenProperties
<1>2. PICK k \in Nat : k = Len(b) /\ DOMAIN b = 1 .. k
  BY LenProperties
<1>3. PICK s : s = a \o b
  OBVIOUS
<1>4. s \in Seq(X) /\ Len(s) = n + k /\ DOMAIN s = 1 .. (n + k)
  BY <1>1, <1>2, <1>3, ConcatProperties, LenProperties
<1>5. (\A i \in 1 .. n : s[i] = a[i]) /\ (\A i \in 1 .. k : s[n + i] = b[i])
  <2>1. \A i \in 1 .. n : i \in 1 .. (n + k) /\ i <= n
    OBVIOUS
  <2>2. \A i \in 1 .. k : n + i \in 1 .. (n + k) /\ ~(n + i <= n) /\ (n + i) - n = i
    OBVIOUS
  <2>3. \A i \in 1 .. (Len(a) + Len(b)) : s[i] = IF i <= Len(a) THEN a[i] ELSE b[i - Len(a)]
    BY <1>3, ConcatProperties
  <2> QED
    BY <1>1, <1>2, <2>1, <2>2, <2>3
<1>6. \A i \in 1 .. (n + k) : i \in 1 .. n \/ \E j \in 1 .. k : i = n + j
  <2> SUFFICES ASSUME NEW i \in 1 .. (n + k), i \notin 1 .. n PROVE \E j \in 1 .. k : i = n + j
    OBVIOUS
  <2>1. i - n \in 1 .. k /\ i = n + (i - n)
    OBVIOUS
  <2> QED
    BY <2>1
<1>7. /\ \A i \in 1 .. n : i \in 1 .. (n + k) /\ \A j \in 1 .. k : i # n + j
      /\ \A i \in 1 .. k : n + i \in 1 .. (n + k) /\ \A j \in 1 .. k : n + i = n + j => i = j
  OBVIOUS
<1>8. /\ \A x : x \in ToSet(a) <=> \E i \in 1 .. n : a[i] = x
      /\ \A x : x \in ToSet(b) <=> \E i \in 1 .. k : b[i] = x
      /\ \A x : x \in ToSet(s) <=> \E i \in 1 .. (n + k) : s[i] = x
  BY <1>1, <1>2, <1>4 DEF ToSet
<1>9. ToSet(s) = ToSet(a) \cup ToSet(b)
  <2>1. ASSUME NEW x \in ToSet(s) PROVE x \in ToSet(a) \cup ToSet(b)
    <3>1. PICK i \in 1 .. (n + k) : s[i] = x
      BY <1>8
    <3> QED
      BY <1>5, <1>6, <1>8, <3>1
  <2>2. ASSUME NEW x \in ToSet(a) PROVE x \in ToSet(s)
    BY <1>5, <1>7, <1>8
  <2>3. ASSUME NEW x \in ToSet(b) PROVE x \in ToSet(s)
    BY <1>5, <1>7, <1>8
  <2> QED
    BY <2>1, <2>2, <2>3
<1>10. ASSUME NoDuplicates(s) PROVE NoDuplicates(a) /\ NoDuplicates(b) /\ ToSet(a) \cap ToSet(b) = {}
  <2>1. \A i, j \in 1 .. (n + k) : s[i] = s[j] => i = j
    BY <1>4, <1>10 DEF NoDuplicates
  <2>2. \A i, j \in 1 .. n : a[i] = a[j] => i = j
    BY <1>5, <1>7, <2>1
  <2>3. \A i, j \in 1 .. k : b[i] = b[j] => i = j
    BY <1>5, <1>7, <2>1
  <2>4. \A i \in 1 .. n, j \in 1 .. k : a[i] # b[j]
    BY <1>5, <1>7, <2>1
  <2>5. ToSet(a) \cap ToSet(b) = {}
    BY <1>8, <2>4
  <2> QED
    BY <1>1, <1>2, <2>2, <2>3, <2>5 DEF NoDuplicates
<1>11. ASSUME NoDuplicates(a), NoDuplicates(b), ToSet(a) \cap ToSet(b) = {} PROVE NoDuplicates(s)
  <2> SUFFICES ASSUME NEW i \in 1 .. (n + k), NEW j \in 1 .. (n + k), s[i] = s[j] PROVE i = j
    BY <1>4 DEF NoDuplicates
  <2>1. \A x \in 1 .. n, y \in 1 .. k : a[x] # b[y]
    BY <1>8, <1>11
  <2>2. (\A x, y \in 1 .. n : a[x] = a[y] => x = y) /\ (\A x, y \in 1 .. k : b[x] = b[y] => x = y)
    BY <1>1, <1>2, <1>11 DEF NoDuplicates
  <2>3. CASE i \in 1 .. n
    <3>1. j \in 1 .. n
      <4> SUFFICES ASSUME j \notin 1 .. n PROVE FALSE
        OBVIOUS
      <4>1. PICK y \in 1 .. k : j = n + y
        BY <1>6
      <4>2. s[i] = a[i] /\ s[j] = b[y]
        BY <1>5, <2>3, <4>1
      <4> QED
        BY <2>1, <2>3, <4>2
    <3> QED
      BY <1>5, <2>2, <2>3, <3>1
  <2>4. CASE i \notin 1 .. n
    <3>1. PICK x \in 1 .. k : i = n + x
      BY <1>6, <2>4
    <3>2. j \notin 1 .. n
      <4>1. s[i] = b[x]
        BY <1>5, <3>1
      <4> QED
        BY <1>5, <2>1, <4>1
    <3>3. PICK y \in 1 .. k : j = n + y
      BY <1>6, <3>2
    <3>4. s[i] = b[x] /\ s[j] = b[y]
      BY <1>5, <3>1, <3>3
    <3> QED
      BY <2>2, <3>1, <3>3, <3>4
  <2> QED
    BY <2>3, <2>4
<1> QED
  BY <1>1, <1>2, <1>3, <1>4, <1>9, <1>10, <1>11

(* A player who is not in the match joins one of its teams.                *)
LEMMA Joins ==
    ASSUME NEW m \in Match, NEW p \in Nat, p \notin Players(m), NoDuplicates(All(m)),
           NEW longer,
           \/ longer = ProposedMatch(Append(m.team_a, p), m.team_b)
           \/ longer = ProposedMatch(m.team_a, Append(m.team_b, p))
    PROVE  /\ longer \in Match /\ Players(longer) = Players(m) \cup {p} /\ NoDuplicates(All(longer))
           /\ Len(longer.team_a) + Len(longer.team_b) = Len(m.team_a) + Len(m.team_b) + 1
<1>1. PICK a \in Seq(Nat) : a = m.team_a
  BY DEF Match
<1>2. PICK b \in Seq(Nat) : b = m.team_b
  BY DEF Match
<1>3. /\ NoDuplicates(a) /\ NoDuplicates(b) /\ ToSet(a) \cap ToSet(b) = {}
      /\ Players(m) = ToSet(a) \cup ToSet(b)
  BY <1>1, <1>2, Joined DEF All, Players
<1>4. Len(a) \in Nat /\ Len(b) \in Nat
  BY LenProperties
<1>5. CASE longer = ProposedMatch(Append(a, p), b)
  <2>1. PICK c : c = Append(a, p)
    OBVIOUS
  <2>2. c \in Seq(Nat) /\ Len(c) = Len(a) + 1 /\ ToSet(c) = ToSet(a) \cup {p} /\ NoDuplicates(c)
    BY <1>3, <2>1, Appended
  <2>3. All(longer) = c \o b /\ longer.team_a = c /\ longer.team_b = b
    BY <1>5, <2>1 DEF All, ProposedMatch
  <2>4. ToSet(c \o b) = ToSet(c) \cup ToSet(b) /\ NoDuplicates(c \o b)
    BY <1>3, <2>2, Joined
  <2>5. longer \in Match
    BY <1>5, <2>1, <2>2 DEF Match, ProposedMatch
  <2>6. Len(longer.team_a) + Len(longer.team_b) = Len(a) + Len(b) + 1
    <3>1. Len(longer.team_a) = Len(a) + 1 /\ Len(longer.team_b) = Len(b)
      BY <2>2, <2>3
    <3> QED
      BY <1>4, <3>1
  <2> QED
    BY <1>1, <1>2, <1>3, <2>2, <2>3, <2>4, <2>5, <2>6 DEF Players
<1>6. CASE longer = ProposedMatch(a, Append(b, p))
  <2>1. PICK c : c = Append(b, p)
    OBVIOUS
  <2>2. c \in Seq(Nat) /\ Len(c) = Len(b) + 1 /\ ToSet(c) = ToSet(b) \cup {p} /\ NoDuplicates(c)
    BY <1>3, <2>1, Appended
  <2>3. All(longer) = a \o c /\ longer.team_a = a /\ longer.team_b = c
    BY <1>6, <2>1 DEF All, ProposedMatch
  <2>4. ToSet(a \o c) = ToSet(a) \cup ToSet(c) /\ NoDuplicates(a \o c)
    BY <1>3, <2>2, Joined
  <2>5. longer \in Match
    BY <1>6, <2>1, <2>2 DEF Match, ProposedMatch
  <2>6. Len(longer.team_a) + Len(longer.team_b) = Len(a) + Len(b) + 1
    <3>1. Len(longer.team_a) = Len(a) /\ Len(longer.team_b) = Len(b) + 1
      BY <2>2, <2>3
    <3> QED
      BY <1>4, <3>1
  <2> QED
    BY <1>1, <1>2, <1>3, <2>2, <2>3, <2>4, <2>5, <2>6 DEF Players
<1> QED
  BY <1>1, <1>2, <1>5, <1>6

(* The match of an anchor alone.                                           *)
LEMMA Alone ==
    ASSUME NEW p \in Nat, NEW m, m = ProposedMatch(<<p>>, <<>>)
    PROVE  /\ m \in Match /\ Players(m) = {p} /\ NoDuplicates(All(m))
           /\ Len(m.team_a) = 1 /\ Len(m.team_b) = 0
<1>1. PICK one : one = <<p>>
  OBVIOUS
<1>2. one \in Seq(Nat) /\ Len(one) = 1 /\ DOMAIN one = 1 .. 1 /\ one[1] = p
  BY <1>1
<1>3. 1 .. 1 = {1}
  OBVIOUS
<1>4. ToSet(one) = {p} /\ NoDuplicates(one)
  BY <1>2, <1>3 DEF ToSet, NoDuplicates
<1>5. PICK none : none = <<>>
  OBVIOUS
<1>6. none \in Seq(Nat) /\ Len(none) = 0 /\ DOMAIN none = {}
  BY <1>5
<1>7. ToSet(none) = {} /\ NoDuplicates(none)
  BY <1>6 DEF ToSet, NoDuplicates
<1>8. ToSet(one \o none) = {p} /\ NoDuplicates(one \o none)
  BY <1>2, <1>4, <1>6, <1>7, Joined
<1> QED
  BY <1>1, <1>2, <1>5, <1>6, <1>8 DEF Match, ProposedMatch, All, Players

(* How many players a match has.                                           *)
LEMMA CountPlayers ==
    ASSUME NEW m \in Match, NoDuplicates(All(m))
    PROVE  /\ IsFiniteSet(Players(m)) /\ Len(m.team_a) \in Nat /\ Len(m.team_b) \in Nat
           /\ Cardinality(Players(m)) = Len(m.team_a) + Len(m.team_b)
<1>1. PICK a \in Seq(Nat) : a = m.team_a
  BY DEF Match
<1>2. PICK b \in Seq(Nat) : b = m.team_b
  BY DEF Match
<1>3. PICK s : s = a \o b
  OBVIOUS
<1>4. s \in Seq(Nat) /\ Len(s) = Len(a) + Len(b)
  BY <1>3, Joined
<1>5. NoDuplicates(s) /\ Players(m) = ToSet(s)
  BY <1>1, <1>2, <1>3 DEF All, Players
<1>6. IsFiniteSet(ToSet(s)) /\ Cardinality(ToSet(s)) = Len(s)
  BY <1>4, <1>5, LengthIs
<1>7. Len(a) \in Nat /\ Len(b) \in Nat
  BY LenProperties
<1> QED
  BY <1>1, <1>2, <1>4, <1>5, <1>6, <1>7


(***************************************************************************)
(* The turns of a search                                                   *)
(***************************************************************************)

Acc == [used : SUBSET Nat, found : Seq(Match)]

(* What a search has found: full matches of queued players, no player in   *)
(* two of them, and all of them marked as used.                            *)
SoundAcc ==
    {acc \in Acc :
        /\ acc.used \subseteq Who
        /\ \A i \in 1 .. Len(acc.found) :
              Proper(acc.found[i]) /\ Players(acc.found[i]) \subseteq acc.used
        /\ \A i, j \in 1 .. Len(acc.found) :
              i # j => Players(acc.found[i]) \cap Players(acc.found[j]) = {}}

(* Too few players are left for another match.                             *)
TooFew(used) == Len(queue) < Cardinality(used) + Total

(* What a turn of a search does with an anchor: nothing, if it is used; or *)
(* it finds a match with the anchor, of players that are not used; or it   *)
(* gives up, which it does only when too few players are left.             *)
Skips(acc, anchor, next) == anchor \in acc.used /\ next = acc
Finds(acc, anchor, next) ==
    \E m \in Match :
        /\ Proper(m) /\ anchor \in Players(m) /\ Players(m) \cap acc.used = {}
        /\ next = [used |-> acc.used \cup Players(m), found |-> Append(acc.found, m)]
GivesUp(acc, next) ==
    \E u \in SUBSET Who :
        /\ acc.used \subseteq u /\ next = [used |-> u, found |-> acc.found]
        /\ Width > 0 /\ NoDuplicates(Queued) => TooFew(acc.used)
Turn(acc, anchor, next) ==
    Skips(acc, anchor, next) \/ Finds(acc, anchor, next) \/ GivesUp(acc, next)

LEMMA WhoIs ==
    ASSUME Given
    PROVE  /\ Who \in SUBSET Nat /\ IsFiniteSet(Who) /\ Cardinality(Who) <= Len(queue)
           /\ Len(queue) \in Nat /\ Cardinality(Who) \in Nat
           /\ NoDuplicates(Queued) => Cardinality(Who) = Len(queue)
           /\ \A i \in 1 .. Len(queue) : queue[i].player \in Who
           /\ \A p \in Who : \E i \in 1 .. Len(queue) : queue[i].player = p
<1>1. PICK s \in Seq(Nat) : s = Queued
  BY Inputs
<1>2. Len(s) = Len(queue) /\ Len(queue) \in Nat /\ DOMAIN s = 1 .. Len(queue) /\ Who = ToSet(s)
  BY <1>1, Inputs DEF Who
<1>3. /\ IsFiniteSet(Who) /\ Cardinality(Who) <= Len(queue)
      /\ NoDuplicates(s) => Cardinality(Who) = Len(queue)
  BY <1>2, LengthIs
<1>4. \A i \in 1 .. Len(queue) : s[i] \in Nat
  BY <1>2, ElementOfSeq
<1>5. Who = {s[i] : i \in 1 .. Len(queue)}
  BY <1>2 DEF ToSet
<1>6. \A i \in 1 .. Len(queue) : s[i] = queue[i].player
  BY <1>1, Inputs
<1> QED
  BY <1>1, <1>2, <1>3, <1>4, <1>5, <1>6, FS_CardinalityType

(* A turn keeps what was found sound.                                      *)
LEMMA TurnKeeps ==
    ASSUME Given, NEW acc \in SoundAcc, NEW anchor, NEW next, Turn(acc, anchor, next)
    PROVE  next \in SoundAcc
<1>1. acc \in Acc /\ acc.used \subseteq Who /\ acc.found \in Seq(Match) /\ acc.used \subseteq Nat
  BY DEF SoundAcc, Acc
<1>2. CASE Skips(acc, anchor, next)
  BY <1>2 DEF Skips
<1>3. CASE Finds(acc, anchor, next)
  <2>1. PICK m \in Match :
            /\ Proper(m) /\ anchor \in Players(m) /\ Players(m) \cap acc.used = {}
            /\ next = [used |-> acc.used \cup Players(m), found |-> Append(acc.found, m)]
    BY <1>3 DEF Finds
  <2>2. PICK n \in Nat : n = Len(acc.found)
    BY <1>1, LenProperties
  <2>3. PICK longer : longer = Append(acc.found, m)
    OBVIOUS
  <2>4. /\ longer \in Seq(Match) /\ Len(longer) = n + 1
        /\ longer[n + 1] = m /\ \A i \in 1 .. n : longer[i] = acc.found[i]
    BY <1>1, <2>2, <2>3, AppendProperties
  <2>5. \A i \in 1 .. (n + 1) : i = n + 1 \/ i \in 1 .. n
    BY <2>2
  <2>6. next.used = acc.used \cup Players(m) /\ next.found = longer
    BY <2>1, <2>3
  <2>7. Players(m) \subseteq Who
    BY <2>1 DEF Proper
  <2>8. Players(m) \subseteq Nat
    BY <2>7, WhoIs
  <2>9. next \in Acc
    BY <1>1, <2>1, <2>3, <2>4, <2>8 DEF Acc
  <2>10. ASSUME NEW i \in 1 .. (n + 1)
         PROVE  Proper(longer[i]) /\ Players(longer[i]) \subseteq next.used
    BY <2>1, <2>2, <2>4, <2>5, <2>6 DEF SoundAcc
  <2>11. ASSUME NEW i \in 1 .. n PROVE Players(longer[i]) \cap Players(m) = {}
    <3>1. Players(longer[i]) \subseteq acc.used
      BY <2>2, <2>4 DEF SoundAcc
    <3> QED
      BY <2>1, <3>1
  <2>12. ASSUME NEW i \in 1 .. (n + 1), NEW j \in 1 .. (n + 1), i # j
         PROVE  Players(longer[i]) \cap Players(longer[j]) = {}
    <3>1. CASE i \in 1 .. n /\ j \in 1 .. n
      BY <2>2, <2>4, <2>12, <3>1 DEF SoundAcc
    <3>2. CASE i = n + 1
      BY <2>4, <2>5, <2>11, <2>12, <3>2
    <3>3. CASE j = n + 1
      BY <2>4, <2>5, <2>11, <2>12, <3>3
    <3> QED
      BY <2>5, <3>1, <3>2, <3>3
  <2>13. next.used \subseteq Who
    BY <1>1, <2>6, <2>7
  <2>14. /\ \A i \in 1 .. Len(next.found) :
               Proper(next.found[i]) /\ Players(next.found[i]) \subseteq next.used
         /\ \A i, j \in 1 .. Len(next.found) :
               i # j => Players(next.found[i]) \cap Players(next.found[j]) = {}
    BY <2>4, <2>6, <2>10, <2>12
  <2> QED
    BY <2>9, <2>13, <2>14 DEF SoundAcc
<1>4. CASE GivesUp(acc, next)
  <2>1. PICK u \in SUBSET Who : acc.used \subseteq u /\ next = [used |-> u, found |-> acc.found]
    BY <1>4 DEF GivesUp
  <2>2. next.used = u /\ next.found = acc.found
    BY <2>1
  <2>3. next \in Acc
    BY <1>1, <2>1, WhoIs DEF Acc
  <2>4. \A i \in 1 .. Len(next.found) :
             Proper(next.found[i]) /\ Players(next.found[i]) \subseteq next.used
    BY <2>1, <2>2 DEF SoundAcc
  <2>5. \A i, j \in 1 .. Len(next.found) :
             i # j => Players(next.found[i]) \cap Players(next.found[j]) = {}
    BY <2>2 DEF SoundAcc
  <2> QED
    BY <2>1, <2>2, <2>3, <2>4, <2>5 DEF SoundAcc
<1> QED
  BY <1>2, <1>3, <1>4 DEF Turn

LEMMA Division ==
    ASSUME NEW k \in Nat, NEW size \in Nat \ {0}, NEW n \in Nat, size * k <= n, n < size * (k + 1)
    PROVE  n \div size = k
  OBVIOUS


(* After the turns of the first n entries: every match found has used its  *)
(* players; and either too few players are left beside those matched, or   *)
(* nobody else is used and the first n entries are.                        *)
Counted(acc, n) ==
    LET matched == Total * Len(acc.found) IN
    /\ matched <= Cardinality(acc.used)
    /\ \/ Len(queue) < matched + Total
       \/ Cardinality(acc.used) = matched /\ \A i \in 1 .. n : queue[i].player \in acc.used
Reached(n) == {acc \in SoundAcc : Width > 0 /\ NoDuplicates(Queued) => Counted(acc, n)}

LEMMA TotalIs == Total \in Nat /\ Total > 1 /\ Total = SizeA + SizeB
  BY SizesAssumption DEF Total

LEMMA UsedIsFinite ==
    ASSUME Given, NEW acc \in SoundAcc
    PROVE  IsFiniteSet(acc.used) /\ Cardinality(acc.used) \in Nat
<1>1. acc.used \in SUBSET Who /\ IsFiniteSet(Who)
  BY WhoIs DEF SoundAcc
<1>2. IsFiniteSet(acc.used)
  BY <1>1, FS_Subset
<1> QED
  BY <1>2, FS_CardinalityType

LEMMA StartsReached ==
    ASSUME Given
    PROVE  Nothing \in Reached(0)
<1>1. Nothing.used = {} /\ Nothing.found = <<>> /\ Len(Nothing.found) = 0
  BY DEF Nothing
<1>2. Nothing \in Acc
  BY DEF Nothing, Acc
<1>3. Nothing \in SoundAcc
  BY <1>1, <1>2 DEF SoundAcc
<1>4. Cardinality(Nothing.used) = 0
  BY <1>1, FS_EmptySet
<1>5. Total * 0 = 0
  BY TotalIs
<1>6. Counted(Nothing, 0)
  BY <1>1, <1>4, <1>5 DEF Counted
<1> QED
  BY <1>3, <1>6 DEF Reached

LEMMA TurnCounts ==
    ASSUME Given, NEW n \in 1 .. Len(queue), NEW acc \in Reached(n - 1), NEW next,
           Turn(acc, queue[n].player, next)
    PROVE  next \in Reached(n)
<1>1. acc \in SoundAcc /\ next \in SoundAcc /\ acc.found \in Seq(Match)
  BY TurnKeeps DEF Reached, SoundAcc, Acc
<1> SUFFICES ASSUME Width > 0, NoDuplicates(Queued) PROVE Counted(next, n)
  BY <1>1 DEF Reached
<1>2. Counted(acc, n - 1)
  BY DEF Reached
<1>3. PICK c \in Nat : c = Cardinality(acc.used) /\ IsFiniteSet(acc.used)
  BY <1>1, UsedIsFinite
<1>4. PICK k \in Nat : k = Len(acc.found)
  BY <1>1, LenProperties
<1>5. PICK q \in Nat : q = Len(queue)
  BY Inputs
<1>6. PICK t \in Nat : t = Total * k
  BY TotalIs
<1>7. t <= c /\ (q < t + Total \/ (c = t /\ \A i \in 1 .. (n - 1) : queue[i].player \in acc.used))
  BY <1>2, <1>3, <1>4, <1>5, <1>6 DEF Counted
<1>8. \A i \in 1 .. n : i = n \/ i \in 1 .. (n - 1)
  BY <1>5
<1>9. CASE Skips(acc, queue[n].player, next)
  <2>1. next = acc /\ queue[n].player \in acc.used
    BY <1>9 DEF Skips
  <2>2. t <= c /\ (q < t + Total \/ (c = t /\ \A i \in 1 .. n : queue[i].player \in acc.used))
    BY <1>7, <1>8, <2>1
  <2> QED
    BY <1>3, <1>4, <1>5, <1>6, <2>1, <2>2 DEF Counted
<1>10. CASE Finds(acc, queue[n].player, next)
  <2>1. PICK m \in Match :
            /\ Proper(m) /\ queue[n].player \in Players(m) /\ Players(m) \cap acc.used = {}
            /\ next = [used |-> acc.used \cup Players(m), found |-> Append(acc.found, m)]
    BY <1>10 DEF Finds
  <2>2. IsFiniteSet(Players(m)) /\ Cardinality(Players(m)) = Total
    BY <2>1, CountPlayers DEF Proper, Full, Total
  <2>3. /\ IsFiniteSet(acc.used \cup Players(m))
        /\ Cardinality(acc.used \cup Players(m)) =
              Cardinality(acc.used) + Cardinality(Players(m)) - Cardinality(acc.used \cap Players(m))
    BY <1>3, <2>2, FS_Union
  <2>4. Cardinality(acc.used \cap Players(m)) = 0
    <3>1. acc.used \cap Players(m) = {}
      BY <2>1
    <3> QED
      BY <3>1, FS_EmptySet
  <2>5. Cardinality(acc.used \cup Players(m)) = c + Total
    BY <1>3, <2>2, <2>3, <2>4, TotalIs
  <2>6. Len(Append(acc.found, m)) = k + 1
    BY <1>1, <1>4, AppendProperties
  <2>7. next.used = acc.used \cup Players(m) /\ next.found = Append(acc.found, m)
    BY <2>1
  <2>8. Cardinality(next.used) = c + Total /\ Len(next.found) = k + 1
    BY <2>5, <2>6, <2>7
  <2>9. Total * (k + 1) = t + Total
    BY <1>6, TotalIs
  <2>10. t + Total <= c + Total /\ (q < t + Total => q < (t + Total) + Total)
    BY <1>7, TotalIs
  <2>11. (\A i \in 1 .. (n - 1) : queue[i].player \in acc.used) =>
            \A i \in 1 .. n : queue[i].player \in next.used
    BY <1>8, <2>1, <2>7
  <2>12. q < (t + Total) + Total \/ (c + Total = t + Total /\ \A i \in 1 .. n : queue[i].player \in next.used)
    BY <1>7, <2>10, <2>11
  <2> QED
    BY <1>5, <2>8, <2>9, <2>10, <2>12 DEF Counted
<1>11. CASE GivesUp(acc, next)
  <2>1. acc.used \subseteq next.used /\ next.found = acc.found /\ TooFew(acc.used)
    BY <1>11 DEF GivesUp
  <2>2. IsFiniteSet(next.used) /\ Cardinality(next.used) \in Nat
    BY <1>1, UsedIsFinite
  <2>3. c <= Cardinality(next.used)
    BY <1>3, <2>1, <2>2, FS_Subset
  <2>4. q < c + Total
    BY <1>3, <1>5, <2>1 DEF TooFew
  <2>5. q < t + Total
    BY <1>7, <2>4
  <2>6. t <= Cardinality(next.used)
    BY <1>7, <2>2, <2>3
  <2> QED
    BY <1>4, <1>5, <1>6, <2>1, <2>5, <2>6 DEF Counted
<1> QED
  BY <1>9, <1>10, <1>11 DEF Turn

(* After all turns there are as many matches as the players are enough for. *)
LEMMA AllTurns ==
    ASSUME Given, NEW acc \in Reached(Len(queue))
    PROVE  /\ acc \in SoundAcc
           /\ Width > 0 /\ NoDuplicates(Queued) => Len(acc.found) = Len(queue) \div Total
<1>1. acc \in SoundAcc /\ acc.found \in Seq(Match) /\ acc.used \in SUBSET Who
  BY DEF Reached, SoundAcc, Acc
<1> SUFFICES ASSUME Width > 0, NoDuplicates(Queued) PROVE Len(acc.found) = Len(queue) \div Total
  BY <1>1
<1>2. PICK c \in Nat : c = Cardinality(acc.used) /\ IsFiniteSet(acc.used)
  BY <1>1, UsedIsFinite
<1>3. PICK k \in Nat : k = Len(acc.found)
  BY <1>1, LenProperties
<1>4. PICK q \in Nat : q = Len(queue) /\ Cardinality(Who) = q /\ IsFiniteSet(Who)
  BY WhoIs
<1>5. PICK t \in Nat : t = Total * k
  BY TotalIs
<1>6. t <= c /\ (q < t + Total \/ (c = t /\ \A i \in 1 .. q : queue[i].player \in acc.used))
  BY <1>2, <1>3, <1>4, <1>5 DEF Counted, Reached
<1>7. c <= q
  BY <1>1, <1>2, <1>4, FS_Subset
<1>8. (\A i \in 1 .. q : queue[i].player \in acc.used) => c = q
  <2> SUFFICES ASSUME \A i \in 1 .. q : queue[i].player \in acc.used PROVE c = q
    OBVIOUS
  <2>1. acc.used = Who
    BY <1>1, <1>4, WhoIs
  <2> QED
    BY <1>2, <1>4, <2>1
<1>9. t <= q /\ q < t + Total
  BY <1>6, <1>7, <1>8, TotalIs
<1>10. Total * (k + 1) = t + Total
  BY <1>5, TotalIs
<1>11. PICK size \in Nat \ {0} : size = Total
  BY TotalIs
<1>12. size * k <= q /\ q < size * (k + 1)
  BY <1>5, <1>9, <1>10, <1>11
<1>13. q \div size = k
  BY <1>12, Division
<1> QED
  BY <1>3, <1>4, <1>11, <1>13


(***************************************************************************)
(* GreedySearch                                                            *)
(***************************************************************************)

LEMMA Nearest ==
    ASSUME Given, NEW anchor \in Int, NEW used, Open(used) # {}
    PROVE  PickNearest(anchor, used) \in Who \ used
<1> DEFINE off(i) == Distance(anchor, Scale * queue[i].rating)
<1>1. PICK n \in Nat : n = Len(queue)
  BY Inputs
<1>2. PICK open \in SUBSET (1 .. n) : open = Open(used) /\ open # {}
  BY <1>1, Inputs DEF Open
<1>3. \A i \in 1 .. n : off(i) \in Nat
  <2> SUFFICES ASSUME NEW i \in 1 .. n PROVE off(i) \in Nat
    OBVIOUS
  <2>1. queue[i].rating \in Int
    BY <1>1, Inputs DEF QueueEntry
  <2>2. PICK x \in Int : x = Scale * queue[i].rating
    BY <2>1, LibraryAssumption
  <2>3. Distance(anchor, x) \in Nat
    BY DEF Distance
  <2> QED
    BY <2>2, <2>3
<1> HIDE DEF off
<1>4. PICK offs : offs = {off(i) : i \in open}
  OBVIOUS
<1>14. offs \in SUBSET Nat /\ offs # {}
  BY <1>2, <1>3, <1>4
<1>5. PICK least \in offs : \A y \in offs : least <= y
  BY <1>14, Least
<1>6. PICK first : first = {i \in open : off(i) = least}
  OBVIOUS
<1>15. first \in SUBSET Nat /\ first # {}
  BY <1>2, <1>4, <1>5, <1>6
<1>7. PICK i \in first : \A j \in first : i <= j
  BY <1>15, Least
<1>8. i \in open /\ \A j \in open : off(i) < off(j) \/ (off(i) = off(j) /\ i <= j)
  <2>1. i \in open /\ off(i) = least
    BY <1>6, <1>7
  <2>2. ASSUME NEW j \in open PROVE off(i) < off(j) \/ (off(i) = off(j) /\ i <= j)
    <3>1. off(j) \in Nat /\ off(i) \in Nat /\ off(i) <= off(j)
      BY <1>3, <1>4, <1>5, <2>1
    <3>2. off(j) = off(i) => i <= j
      BY <1>6, <1>7, <2>1
    <3> QED
      BY <3>1, <3>2
  <2> QED
    BY <2>1, <2>2
<1>9. PICK near : near = CHOOSE x \in open : \A j \in open : off(x) < off(j) \/ (off(x) = off(j) /\ x <= j)
  OBVIOUS
<1>10. near \in open
  BY <1>8, <1>9
<1>11. PickNearest(anchor, used) = queue[near].player
  BY <1>2, <1>9 DEF PickNearest, off
<1>12. queue[near].player \notin used
  BY <1>2, <1>10 DEF Open
<1>13. queue[near].player \in Who
  BY <1>1, <1>10, WhoIs
<1> QED
  BY <1>11, <1>12, <1>13

(* What the loop that fills the teams works on, and what it has done after *)
(* n turns: it took a player each time, unless the teams were full or all  *)
(* players used.                                                           *)
Filling == [match : Match, anchor : Int, used : SUBSET Nat]
Filled(entry, used, n) ==
    {f \in Filling :
        /\ Partial(f.match) /\ entry.player \in Players(f.match)
        /\ f.used = used \cup Players(f.match) /\ Players(f.match) \cap used = {}
        /\ \/ Full(f.match) \/ Open(f.used) = {}
           \/ Len(f.match.team_a) + Len(f.match.team_b) = n + 1}

LEMMA FillIs ==
    ASSUME Given, NEW f \in Filling
    PROVE  Fill(f) \in Filling
<1>1. f.match \in Match /\ f.anchor \in Int /\ f.used \in SUBSET Nat
  BY DEF Filling
<1>2. CASE Full(f.match) \/ Open(f.used) = {}
  BY <1>2 DEF Fill
<1>3. CASE ~(Full(f.match) \/ Open(f.used) = {})
  <2>1. PICK p \in Nat : p = PickNearest(f.anchor, f.used)
    BY <1>1, <1>3, Nearest, WhoIs
  <2>2. PICK a \in Seq(Nat) : a = Append(f.match.team_a, p)
    <3>1. PICK team \in Seq(Nat) : team = f.match.team_a
      BY <1>1 DEF Match
    <3>2. Append(team, p) \in Seq(Nat)
      BY <2>1
    <3> QED
      BY <3>1, <3>2
  <2>3. PICK b \in Seq(Nat) : b = Append(f.match.team_b, p)
    <3>1. PICK team \in Seq(Nat) : team = f.match.team_b
      BY <1>1 DEF Match
    <3>2. Append(team, p) \in Seq(Nat)
      BY <2>1
    <3> QED
      BY <3>1, <3>2
  <2>4. AverageRating(a) \in Int
    BY ScoresAreNumbers
  <2>5. ProposedMatch(a, f.match.team_b) \in Match /\ ProposedMatch(f.match.team_a, b) \in Match
    BY <1>1 DEF Match, ProposedMatch
  <2>6. CASE TakesA(f.match.team_a, f.match.team_b)
    <3>1. Fill(f) = [match |-> ProposedMatch(a, f.match.team_b), anchor |-> AverageRating(a),
                     used |-> f.used \cup {p}]
      BY <1>3, <2>1, <2>2, <2>6 DEF Fill
    <3> QED
      BY <1>1, <2>4, <2>5, <3>1 DEF Filling
  <2>7. CASE ~TakesA(f.match.team_a, f.match.team_b)
    <3>1. Fill(f) = [match |-> ProposedMatch(f.match.team_a, b), anchor |-> f.anchor,
                     used |-> f.used \cup {p}]
      BY <1>3, <2>1, <2>3, <2>7 DEF Fill
    <3> QED
      BY <1>1, <2>5, <3>1 DEF Filling
  <2> QED
    BY <2>6, <2>7
<1> QED
  BY <1>2, <1>3

(* The team that takes the next player is not full.                        *)
LEMMA TakesWhere ==
    ASSUME NEW m \in Match, Partial(m), ~Full(m)
    PROVE  /\ Len(m.team_a) \in Nat /\ Len(m.team_b) \in Nat
           /\ TakesA(m.team_a, m.team_b) => Len(m.team_a) < SizeA
           /\ ~TakesA(m.team_a, m.team_b) => Len(m.team_b) < SizeB
<1>1. m.team_a \in Seq(Nat) /\ m.team_b \in Seq(Nat)
  BY DEF Match
<1>2. PICK a \in Nat : a = Len(m.team_a)
  BY <1>1, LenProperties
<1>3. PICK b \in Nat : b = Len(m.team_b)
  BY <1>1, LenProperties
<1>4. a <= SizeA /\ b <= SizeB /\ ~(a = SizeA /\ b = SizeB) /\ SizeA \in Nat /\ SizeB \in Nat
  BY <1>2, <1>3, SizesAssumption DEF Partial, Full
<1>5. TakesA(m.team_a, m.team_b) <=> a < SizeA /\ (a <= b \/ b = SizeB)
  BY <1>2, <1>3 DEF TakesA
<1>6. (a < SizeA /\ (a <= b \/ b = SizeB)) \/ b < SizeB
  BY <1>4
<1> QED
  BY <1>2, <1>3, <1>5, <1>6

LEMMA FillKeeps ==
    ASSUME Given, NEW entry, NEW used \in SUBSET Nat, NEW n \in Nat, NEW f \in Filled(entry, used, n)
    PROVE  Fill(f) \in Filled(entry, used, n + 1)
<1>1. /\ f \in Filling /\ f.match \in Match /\ f.anchor \in Int /\ Partial(f.match)
      /\ entry.player \in Players(f.match)
      /\ f.used = used \cup Players(f.match) /\ Players(f.match) \cap used = {}
  BY DEF Filled, Filling
<1>2. CASE Full(f.match) \/ Open(f.used) = {}
  BY <1>1, <1>2 DEF Fill, Filled
<1>3. CASE ~(Full(f.match) \/ Open(f.used) = {})
  <2>1. PICK p \in Who \ f.used : p = PickNearest(f.anchor, f.used)
    BY <1>1, <1>3, Nearest
  <2>2. p \in Nat /\ p \notin Players(f.match) /\ p \notin used
    BY <1>1, <2>1, WhoIs
  <2>3. PICK g : g = Fill(f)
    OBVIOUS
  <2>4. g \in Filling
    BY <1>1, <2>3, FillIs
  <2>5. /\ g.used = f.used \cup {p}
        /\ \/ TakesA(f.match.team_a, f.match.team_b)
                /\ g.match = ProposedMatch(Append(f.match.team_a, p), f.match.team_b)
           \/ ~TakesA(f.match.team_a, f.match.team_b)
                /\ g.match = ProposedMatch(f.match.team_a, Append(f.match.team_b, p))
    BY <1>3, <2>1, <2>3 DEF Fill
  <2>6. NoDuplicates(All(f.match)) /\ Players(f.match) \subseteq Who
    BY <1>1 DEF Partial
  <2>7. /\ Players(g.match) = Players(f.match) \cup {p} /\ NoDuplicates(All(g.match))
        /\ Len(g.match.team_a) + Len(g.match.team_b) = Len(f.match.team_a) + Len(f.match.team_b) + 1
    BY <1>1, <2>2, <2>5, <2>6, Joins
  <2>8. Len(f.match.team_a) + Len(f.match.team_b) = n + 1
    BY <1>3 DEF Filled
  <2>9. Len(g.match.team_a) <= SizeA /\ Len(g.match.team_b) <= SizeB
    <3>1. PICK a \in Seq(Nat) : a = f.match.team_a
      BY <1>1 DEF Match
    <3>2. PICK b \in Seq(Nat) : b = f.match.team_b
      BY <1>1 DEF Match
    <3>3. Len(Append(a, p)) = Len(a) + 1 /\ Len(Append(b, p)) = Len(b) + 1
      BY <2>2, Appended
    <3>4. Len(a) \in Nat /\ Len(b) \in Nat /\ Len(a) <= SizeA /\ Len(b) <= SizeB
      BY <1>1, <3>1, <3>2, LenProperties DEF Partial
    <3>5. TakesA(a, b) => Len(a) < SizeA
      BY <1>1, <1>3, <3>1, <3>2, TakesWhere
    <3>6. ~TakesA(a, b) => Len(b) < SizeB
      BY <1>1, <1>3, <3>1, <3>2, TakesWhere
    <3>7. \/ TakesA(a, b) /\ g.match.team_a = Append(a, p) /\ g.match.team_b = b
          \/ ~TakesA(a, b) /\ g.match.team_a = a /\ g.match.team_b = Append(b, p)
      BY <2>5, <3>1, <3>2 DEF ProposedMatch
    <3> QED
      BY <3>3, <3>4, <3>5, <3>6, <3>7, SizesAssumption
  <2>10. Partial(g.match)
    BY <2>1, <2>6, <2>7, <2>9 DEF Partial
  <2>11. g.used = used \cup Players(g.match) /\ Players(g.match) \cap used = {}
    BY <1>1, <2>2, <2>5, <2>7
  <2>12. Len(g.match.team_a) + Len(g.match.team_b) = (n + 1) + 1
    BY <2>7, <2>8
  <2> QED
    BY <1>1, <2>3, <2>4, <2>7, <2>10, <2>11, <2>12 DEF Filled
<1> QED
  BY <1>2, <1>3


LEMMA GreedyFillIs ==
    ASSUME Given, NEW entry \in QueueEntry, entry.player \in Who,
           NEW used \in SUBSET Nat, entry.player \notin used
    PROVE  GreedyFill(entry, used \cup {entry.player}) \in Filled(entry, used, Total - 1)
<1>1. PICK N \in Nat : N = Total - 1
  BY TotalIs
<1>2. PICK start : start = [match |-> ProposedMatch(<<entry.player>>, <<>>),
                            anchor |-> Scale * entry.rating, used |-> used \cup {entry.player}]
  OBVIOUS
<1> DEFINE Of(h) == [n \in 0 .. Total - 1 |->
                        IF n = 0 THEN [match |-> ProposedMatch(<<entry.player>>, <<>>),
                                       anchor |-> Scale * entry.rating,
                                       used |-> used \cup {entry.player}]
                        ELSE Fill(h[n - 1])]
<1>3. PICK step : step = [n \in 1 .. N |-> [t \in Filling |-> Fill(t)]]
  OBVIOUS
<1>4. step \in [1 .. N -> [Filling -> Filling]]
  BY <1>3, FillIs
<1>5. PICK alone : alone = ProposedMatch(<<entry.player>>, <<>>)
  OBVIOUS
<1>6. /\ alone \in Match /\ Players(alone) = {entry.player} /\ NoDuplicates(All(alone))
      /\ Len(alone.team_a) = 1 /\ Len(alone.team_b) = 0
  BY <1>5, Alone DEF QueueEntry
<1>7. Scale * entry.rating \in Int /\ entry.player \in Nat
  BY LibraryAssumption DEF QueueEntry
<1>8. start.match = alone /\ start.used = used \cup {entry.player} /\ start \in Filling
  BY <1>2, <1>5, <1>6, <1>7 DEF Filling
<1>9. start \in Filled(entry, used, 0)
  <2>1. 1 <= SizeA /\ 0 <= SizeB /\ 1 + 0 = 0 + 1
    BY SizesAssumption
  <2>2. Partial(alone)
    BY <1>6, <2>1 DEF Partial
  <2> QED
    BY <1>6, <1>8, <2>1, <2>2 DEF Filled
<1>10. PICK f : Solves(f, N, Filling, start, step)
  BY <1>4, <1>8, Recursion
<1>11. \A n \in 0 .. N : n = 0 \/ (n \in 1 .. N /\ n - 1 \in 0 .. N /\ n # 0)
  OBVIOUS
<1>12. f = Of(f)
  <2>1. \A n \in 0 .. N : f[n] = Of(f)[n]
    BY <1>1, <1>2, <1>3, <1>10, <1>11 DEF Solves
  <2> QED
    BY <1>1, <1>10, <2>1 DEF Solves
<1>13. PICK g : g = CHOOSE h : h = Of(h)
  OBVIOUS
<1>14. g = Of(g)
  BY <1>12, <1>13
<1>15. g[0] = start /\ \A n \in 1 .. N : g[n] = Fill(g[n - 1])
  <2>1. 0 \in 0 .. N /\ \A n \in 1 .. N : n \in 0 .. N /\ n # 0
    OBVIOUS
  <2> QED
    BY <1>1, <1>2, <1>14, <2>1
<1> HIDE DEF Of
<1>16. PICK I : I = [n \in 0 .. N |-> Filled(entry, used, n)]
  OBVIOUS
<1>17. \A n \in 1 .. N : n \in 0 .. N /\ n - 1 \in 0 .. N /\ n - 1 \in Nat /\ (n - 1) + 1 = n
  OBVIOUS
<1>18. g[0] \in I[0] /\ \A n \in 1 .. N : g[n - 1] \in I[n - 1] => g[n] \in I[n]
  <2>1. g[0] \in I[0]
    BY <1>9, <1>15, <1>16
  <2>2. ASSUME NEW n \in 1 .. N, g[n - 1] \in I[n - 1] PROVE g[n] \in I[n]
    <3>1. PICK k \in Nat : k = n - 1 /\ n = k + 1
      BY <1>17
    <3>2. PICK t : t = g[n - 1]
      OBVIOUS
    <3>3. t \in Filled(entry, used, k)
      BY <1>16, <1>17, <2>2, <3>1, <3>2
    <3>4. Fill(t) \in Filled(entry, used, k + 1)
      BY <3>3, FillKeeps
    <3>5. I[n] = Filled(entry, used, k + 1)
      BY <1>16, <1>17, <3>1
    <3> QED
      BY <1>15, <3>2, <3>4, <3>5
  <2> QED
    BY <2>1, <2>2
<1>19. g[N] \in I[N]
  BY <1>18, Leads
<1>20. g[N] \in Filled(entry, used, Total - 1)
  <2>1. N \in 0 .. N
    OBVIOUS
  <2> QED
    BY <1>1, <1>16, <1>19, <2>1
<1> QED
  BY <1>1, <1>13, <1>20 DEF GreedyFill, Of

LEMMA GreedyTurns ==
    ASSUME Given, NEW acc \in SoundAcc, NEW entry \in QueueEntry, entry.player \in Who
    PROVE  Turn(acc, entry.player, GreedyAnchor(acc, entry))
<1>1. acc \in Acc /\ acc.used \subseteq Who /\ acc.found \in Seq(Match) /\ acc.used \in SUBSET Nat
  BY DEF SoundAcc, Acc
<1>2. CASE entry.player \in acc.used
  BY <1>2 DEF GreedyAnchor, Turn, Skips
<1>3. CASE entry.player \notin acc.used
  <2>1. PICK f : f = GreedyFill(entry, acc.used \cup {entry.player})
    OBVIOUS
  <2>2. f \in Filled(entry, acc.used, Total - 1)
    BY <1>1, <1>3, <2>1, GreedyFillIs
  <2>3. PICK m \in Match : m = f.match
    BY <2>2 DEF Filled, Filling
  <2>4. /\ Partial(m) /\ entry.player \in Players(m) /\ Players(m) \subseteq Who
        /\ f.used = acc.used \cup Players(m) /\ Players(m) \cap acc.used = {}
        /\ \/ Full(m) \/ Open(f.used) = {}
           \/ Len(m.team_a) + Len(m.team_b) = (Total - 1) + 1
    BY <2>2, <2>3 DEF Filled, Partial
  <2>5. PICK next : next = GreedyAnchor(acc, entry)
    OBVIOUS
  <2>6. next = [used |-> f.used, found |-> IF Full(m) THEN Append(acc.found, m) ELSE acc.found]
    BY <1>3, <2>1, <2>3, <2>5 DEF GreedyAnchor
  <2>7. CASE Full(m)
    <3>1. Proper(m)
      BY <2>4, <2>7 DEF Partial, Proper
    <3>2. next = [used |-> acc.used \cup Players(m), found |-> Append(acc.found, m)]
      BY <2>4, <2>6, <2>7
    <3> QED
      BY <2>4, <2>5, <3>1, <3>2 DEF Turn, Finds
  <2>8. CASE ~Full(m)
    <3>1. IsFiniteSet(Players(m)) /\ Cardinality(Players(m)) = Len(m.team_a) + Len(m.team_b)
      BY <2>4, CountPlayers DEF Partial
    <3>2. PICK c \in Nat : c = Cardinality(Players(m)) /\ c < Total
      <4>1. PICK a \in Nat : a = Len(m.team_a)
        BY <2>4, CountPlayers DEF Partial
      <4>2. PICK b \in Nat : b = Len(m.team_b)
        BY <2>4, CountPlayers DEF Partial
      <4>3. a <= SizeA /\ b <= SizeB /\ ~(a = SizeA /\ b = SizeB)
        BY <2>4, <2>8, <4>1, <4>2 DEF Partial, Full
      <4>4. a + b \in Nat /\ a + b < SizeA + SizeB
        BY <4>3, SizesAssumption
      <4> QED
        BY <3>1, <4>1, <4>2, <4>4, TotalIs
    <3>3. Open(f.used) = {}
      <4>1. (Total - 1) + 1 = Total
        BY TotalIs
      <4>2. Len(m.team_a) + Len(m.team_b) = c
        BY <3>1, <3>2
      <4>3. ~(c = Total)
        BY <3>2, TotalIs
      <4> QED
        BY <2>4, <2>8, <4>1, <4>2, <4>3
    <3>4. Who \subseteq acc.used \cup Players(m)
      <4>1. \A i \in 1 .. Len(queue) : queue[i].player \in f.used
        BY <3>3, Inputs DEF Open
      <4> QED
        BY <2>4, <4>1, WhoIs
    <3>5. NoDuplicates(Queued) => TooFew(acc.used)
      <4> SUFFICES ASSUME NoDuplicates(Queued) PROVE TooFew(acc.used)
        OBVIOUS
      <4>1. IsFiniteSet(acc.used) /\ Cardinality(acc.used) \in Nat
        BY UsedIsFinite
      <4>2. acc.used \cup Players(m) = Who
        BY <1>1, <2>4, <3>4
      <4>3. Cardinality(Who) = Cardinality(acc.used) + Cardinality(Players(m))
                                  - Cardinality(acc.used \cap Players(m))
        BY <3>1, <4>1, <4>2, FS_Union
      <4>4. Cardinality(acc.used \cap Players(m)) = 0
        <5>1. acc.used \cap Players(m) = {}
          BY <2>4
        <5> QED
          BY <5>1, FS_EmptySet
      <4>5. Len(queue) = Cardinality(Who) /\ Len(queue) \in Nat
        BY WhoIs
      <4>6. Len(queue) < Cardinality(acc.used) + Total
        BY <3>2, <4>1, <4>3, <4>4, <4>5, TotalIs
      <4> QED
        BY <4>6 DEF TooFew
    <3>6. f.used \in SUBSET Who /\ acc.used \subseteq f.used
      BY <1>1, <2>4
    <3>7. next = [used |-> f.used, found |-> acc.found]
      BY <2>6, <2>8
    <3> QED
      BY <2>5, <3>5, <3>6, <3>7 DEF Turn, GivesUp
  <2> QED
    BY <2>7, <2>8
<1> QED
  BY <1>2, <1>3

(* What a search that takes its turns has found at the end.                *)
LEMMA TurnsReach ==
    ASSUME Given, NEW g, g[0] = Nothing,
           \A n \in 1 .. Len(queue) :
              g[n - 1] \in SoundAcc => Turn(g[n - 1], queue[n].player, g[n])
    PROVE  g[Len(queue)] \in Reached(Len(queue))
<1>1. PICK N \in Nat : N = Len(queue)
  BY Inputs
<1>2. PICK I : I = [n \in 0 .. N |-> Reached(n)]
  OBVIOUS
<1>3. \A n \in 1 .. N : n \in 0 .. N /\ n - 1 \in 0 .. N
  OBVIOUS
<1>4. 0 \in 0 .. N /\ N \in 0 .. N
  OBVIOUS
<1>5. g[0] \in I[0]
  BY <1>2, <1>4, StartsReached
<1>6. ASSUME NEW n \in 1 .. N, g[n - 1] \in I[n - 1] PROVE g[n] \in I[n]
  <2>1. PICK acc \in Reached(n - 1) : acc = g[n - 1]
    BY <1>2, <1>3, <1>6
  <2>2. acc \in SoundAcc
    BY <2>1 DEF Reached
  <2>3. PICK next : next = g[n]
    OBVIOUS
  <2>4. Turn(acc, queue[n].player, next)
    BY <1>1, <2>1, <2>2, <2>3
  <2>5. next \in Reached(n)
    BY <1>1, <2>4, TurnCounts
  <2> QED
    BY <1>2, <1>3, <2>3, <2>5
<1>7. g[N] \in I[N]
  BY <1>5, <1>6, Leads
<1> QED
  BY <1>1, <1>2, <1>4, <1>7

LEMMA GreedySearchIs ==
    ASSUME Given
    PROVE  \E acc \in Reached(Len(queue)) : GreedySearch = acc.found
<1>1. PICK N \in Nat : N = Len(queue)
  BY Inputs
<1> DEFINE Of(h) == [n \in 0 .. Len(queue) |->
                        IF n = 0 THEN Nothing ELSE GreedyAnchor(h[n - 1], queue[n])]
<1>2. PICK step : step = [n \in 1 .. N |-> [t \in SoundAcc |-> GreedyAnchor(t, queue[n])]]
  OBVIOUS
<1>3. ASSUME NEW n \in 1 .. N, NEW t \in SoundAcc
      PROVE  Turn(t, queue[n].player, GreedyAnchor(t, queue[n]))
  BY <1>1, GreedyTurns, Inputs, WhoIs
<1>4. step \in [1 .. N -> [SoundAcc -> SoundAcc]]
  BY <1>2, <1>3, TurnKeeps
<1>5. Nothing \in SoundAcc
  BY StartsReached DEF Reached
<1>6. PICK f : Solves(f, N, SoundAcc, Nothing, step)
  BY <1>4, <1>5, Recursion
<1>7. \A n \in 0 .. N : n = 0 \/ (n \in 1 .. N /\ n - 1 \in 0 .. N /\ n # 0)
  OBVIOUS
<1>8. f = Of(f)
  <2>1. \A n \in 0 .. N : f[n] = Of(f)[n]
    BY <1>1, <1>2, <1>6, <1>7 DEF Solves
  <2> QED
    BY <1>1, <1>6, <2>1 DEF Solves
<1>9. PICK g : g = CHOOSE h : h = Of(h)
  OBVIOUS
<1>10. g = Of(g)
  BY <1>8, <1>9
<1>11. g[0] = Nothing /\ \A n \in 1 .. N : g[n] = GreedyAnchor(g[n - 1], queue[n])
  <2>1. 0 \in 0 .. N /\ \A n \in 1 .. N : n \in 0 .. N /\ n # 0
    OBVIOUS
  <2> QED
    BY <1>1, <1>10, <2>1
<1> HIDE DEF Of
<1>12. g[N] \in Reached(N)
  BY <1>1, <1>3, <1>11, TurnsReach
<1> QED
  BY <1>1, <1>9, <1>12 DEF GreedySearch, Of


(***************************************************************************)
(* BeamSearch                                                              *)
(***************************************************************************)

(* If every match of a beam is extended to matches of a set, then so is    *)
(* the beam, and it has some left if any match had.                        *)
LEMMA AllExtensionsAre ==
    ASSUME NEW M, NEW M2, NEW used, \A m \in M : Extensions(m, used) \in Seq(M2),
           NEW beam \in Seq(M)
    PROVE  /\ AllExtensions(beam, used) \in Seq(M2)
           /\ Len(beam) > 0 /\ (\A m \in M : Len(Extensions(m, used)) > 0)
                => Len(AllExtensions(beam, used)) > 0
<1>1. PICK N \in Nat : N = Len(beam)
  BY LenProperties
<1>2. \A n \in 1 .. N : beam[n] \in M
  BY <1>1, ElementOfSeq
<1>3. PICK ext : ext = [n \in 1 .. N |-> Extensions(beam[n], used)]
  OBVIOUS
<1>4. \A n \in 1 .. N : ext[n] = Extensions(beam[n], used) /\ ext[n] \in Seq(M2)
  BY <1>2, <1>3
<1> DEFINE Of(h) == [n \in 0 .. Len(beam) |->
                        IF n = 0 THEN <<>> ELSE h[n - 1] \o Extensions(beam[n], used)]
<1>5. PICK step : step = [n \in 1 .. N |-> [t \in Seq(M2) |-> t \o ext[n]]]
  OBVIOUS
<1>6. step \in [1 .. N -> [Seq(M2) -> Seq(M2)]]
  <2>1. ASSUME NEW n \in 1 .. N, NEW t \in Seq(M2) PROVE t \o ext[n] \in Seq(M2)
    BY <1>4, ConcatProperties
  <2> QED
    BY <1>5, <2>1
<1>7. <<>> \in Seq(M2)
  BY EmptySeq
<1>8. PICK f : Solves(f, N, Seq(M2), <<>>, step)
  BY <1>6, <1>7, Recursion
<1>9. \A n \in 0 .. N : n = 0 \/ (n \in 1 .. N /\ n - 1 \in 0 .. N /\ n # 0)
  OBVIOUS
<1>10. f = Of(f)
  <2>1. \A n \in 0 .. N : f[n] = Of(f)[n]
    BY <1>1, <1>4, <1>5, <1>8, <1>9 DEF Solves
  <2> QED
    BY <1>1, <1>8, <2>1 DEF Solves
<1>11. PICK g : g = CHOOSE h : h = Of(h)
  OBVIOUS
<1>12. g = Of(g)
  BY <1>10, <1>11
<1>13. g[0] = <<>> /\ \A n \in 1 .. N : g[n] = g[n - 1] \o ext[n]
  <2>1. 0 \in 0 .. N /\ \A n \in 1 .. N : n \in 0 .. N /\ n # 0
    OBVIOUS
  <2> QED
    BY <1>1, <1>4, <1>12, <2>1
<1> HIDE DEF Of
<1>15. PICK I : I = [n \in 0 .. N |->
           {t \in Seq(M2) : n > 0 /\ (\A m \in M : Len(Extensions(m, used)) > 0) => Len(t) > 0}]
  OBVIOUS
<1>16. g[0] \in I[0]
  BY <1>7, <1>13, <1>15
<1>17. ASSUME NEW n \in 1 .. N, g[n - 1] \in I[n - 1] PROVE g[n] \in I[n]
  <2>1. n \in 0 .. N /\ n - 1 \in 0 .. N
    BY <1>9
  <2>2. PICK t \in Seq(M2) : t = g[n - 1]
    BY <1>15, <1>17, <2>1
  <2>3. PICK u \in Seq(M2) : u = ext[n] /\ ext[n] = Extensions(beam[n], used)
    BY <1>4
  <2>4. PICK w : w = t \o u
    OBVIOUS
  <2>5. w \in Seq(M2) /\ Len(w) = Len(t) + Len(u) /\ Len(t) \in Nat /\ Len(u) \in Nat
    BY <2>4, ConcatProperties, LenProperties
  <2>6. (\A m \in M : Len(Extensions(m, used)) > 0) => Len(u) > 0
    BY <1>2, <2>3
  <2>7. (\A m \in M : Len(Extensions(m, used)) > 0) => Len(w) > 0
    BY <2>5, <2>6
  <2>8. g[n] = w
    BY <1>13, <2>2, <2>3, <2>4
  <2> QED
    BY <1>15, <2>1, <2>5, <2>7, <2>8
<1>18. g[N] \in I[N]
  BY <1>16, <1>17, Leads
<1>19. /\ g[N] \in Seq(M2)
       /\ N > 0 /\ (\A m \in M : Len(Extensions(m, used)) > 0) => Len(g[N]) > 0
  <2>1. N \in 0 .. N
    OBVIOUS
  <2> QED
    BY <1>15, <1>18, <2>1
<1>20. AllExtensions(beam, used) = g[N]
  BY <1>1, <1>11 DEF AllExtensions, Of
<1> QED
  BY <1>1, <1>19, <1>20

LEMMA NextBeamIs ==
    ASSUME Given, NEW M, NEW M2 \in SUBSET Match, NEW used,
           \A m \in M : Extensions(m, used) \in Seq(M2), NEW beam \in Seq(M)
    PROVE  /\ NextBeam(beam, used) \in Seq(M2)
           /\ Width > 0 /\ Len(beam) > 0 /\ (\A m \in M : Len(Extensions(m, used)) > 0)
                => Len(NextBeam(beam, used)) > 0
<1>1. PICK next \in Seq(M2) : next = AllExtensions(beam, used)
  BY AllExtensionsAre
<1>2. Len(beam) > 0 /\ (\A m \in M : Len(Extensions(m, used)) > 0) => Len(next) > 0
  BY <1>1, AllExtensionsAre
<1>3. PICK n \in Nat : n = Len(next) /\ DOMAIN next = 1 .. n
  BY LenProperties
<1>4. PICK score : score = [i \in DOMAIN next |-> ObjectiveScore(next[i].team_a, next[i].team_b)]
  OBVIOUS
<1>5. score \in [1 .. n -> Int]
  <2>1. ASSUME NEW i \in 1 .. n PROVE ObjectiveScore(next[i].team_a, next[i].team_b) \in Int
    <3>1. next[i] \in Match
      BY <1>3, ElementOfSeq
    <3>2. PICK m \in Match : m = next[i]
      BY <3>1
    <3>3. m.team_a \in Seq(Nat) /\ m.team_b \in Seq(Nat)
      BY DEF Match
    <3>4. ObjectiveScore(m.team_a, m.team_b) \in Int
      BY <3>3, ObjectiveIsNumber
    <3> QED
      BY <3>2, <3>4
  <2> QED
    BY <1>3, <1>4, <2>1
<1>6. PICK sorted : sorted = StableDescending(score)
  OBVIOUS
<1>7. sorted \in [1 .. n -> 1 .. Len(next)]
  BY <1>3, <1>5, <1>6, SortIsPermutation
<1>8. PICK best : best = Pick(next, sorted)
  OBVIOUS
<1>9. best \in Seq(M2) /\ Len(best) = n
  <2>1. Pick(next, sorted) \in Seq(M2)
    BY <1>7, Picked, Zenon
  <2>2. Len(Pick(next, sorted)) = n
    BY <1>7, Picked, SMT
  <2> QED
    BY <1>8, <2>1, <2>2
<1>10. PICK k \in Nat : k = AtMost(Width, Len(best)) /\ k <= n
  BY <1>9, LibraryAssumption DEF AtMost
<1>11. \A i \in 1 .. k : best[i] \in M2
  <2>1. \A i \in 1 .. k : i \in 1 .. n
    BY <1>10
  <2> QED
    BY <1>9, <2>1, ElementOfSeq
<1>12. PICK beam2 : beam2 = SubSeq(best, 1, k)
  OBVIOUS
<1>13. beam2 \in Seq(M2) /\ Len(beam2) = IF 1 <= k THEN k - 1 + 1 ELSE 0
  BY <1>11, <1>12, SubSeqProperties
<1>14. NextBeam(beam, used) = beam2
  BY <1>1, <1>4, <1>6, <1>8, <1>10, <1>12 DEF NextBeam, Truncate
<1>15. Width > 0 /\ n > 0 => k > 0
  BY <1>9, <1>10, LibraryAssumption DEF AtMost
<1>16. k > 0 => Len(beam2) > 0
  BY <1>13
<1> QED
  BY <1>2, <1>3, <1>13, <1>14, <1>15, <1>16

(* One of several players has joined a match, in the team that takes them. *)
JoinedBy(m, players, longer) ==
    \E p \in players :
        \/ TakesA(m.team_a, m.team_b) /\ longer = ProposedMatch(Append(m.team_a, p), m.team_b)
        \/ ~TakesA(m.team_a, m.team_b) /\ longer = ProposedMatch(m.team_a, Append(m.team_b, p))

(* What a match is extended to: itself with each player who is left.       *)
LEMMA ExtensionsAre ==
    ASSUME Given, NEW m \in Match, NEW used
    PROVE  /\ Extensions(m, used) \in Seq(Match)
           /\ ~Full(m) =>
                 /\ \A i \in 1 .. Len(Extensions(m, used)) :
                       JoinedBy(m, Who \ (used \cup Players(m)), Extensions(m, used)[i])
                 /\ ~(Who \subseteq used \cup Players(m)) => Len(Extensions(m, used)) > 0
<1>1. CASE Full(m)
  <2>1. <<m>> \in Seq(Match)
    OBVIOUS
  <2> QED
    BY <1>1, <2>1 DEF Extensions
<1>2. CASE ~Full(m)
  <2>1. PICK a \in Seq(Nat) : a = m.team_a
    BY DEF Match
  <2>2. PICK b \in Seq(Nat) : b = m.team_b
    BY DEF Match
  <2>3. m = ProposedMatch(a, b)
    BY <2>1, <2>2 DEF Match, ProposedMatch
  <2>4. PICK open : open = Keep(Queued, ToSet(Queued) \ (used \cup Players(m)))
    OBVIOUS
  <2>5. open \in Seq(Nat) /\ ToSet(open) = Who \ (used \cup Players(m))
    <3>1. Queued \in Seq(Nat)
      BY Inputs
    <3> QED
      BY <2>4, <3>1, Kept DEF Who
  <2>6. PICK n \in Nat : n = Len(open) /\ DOMAIN open = 1 .. n
    BY <2>5, LenProperties
  <2>7. \A i \in 1 .. n : open[i] \in Nat /\ open[i] \in Who \ (used \cup Players(m))
    BY <2>5, <2>6, ElementOfSeq DEF ToSet
  <2>8. ~(Who \subseteq used \cup Players(m)) => n > 0
    <3> SUFFICES ASSUME ~(Who \subseteq used \cup Players(m)) PROVE n > 0
      OBVIOUS
    <3>1. PICK x : x \in ToSet(open)
      BY <2>5
    <3>2. PICK i \in 1 .. n : open[i] = x
      BY <2>6, <3>1 DEF ToSet
    <3> QED
      BY <3>2
  <2>9. PICK ext : ext = Extensions(m, used)
    OBVIOUS
  <2>10. ext = [i \in 1 .. n |-> IF TakesA(a, b) THEN ProposedMatch(Append(a, open[i]), b)
                                 ELSE ProposedMatch(a, Append(b, open[i]))]
    <3>1. ASSUME NEW x PROVE [m EXCEPT !.team_a = Append(@, x)] = ProposedMatch(Append(a, x), b)
      <4>1. PICK c : c = Append(a, x)
        OBVIOUS
      <4>2. [m EXCEPT !.team_a = c] = ProposedMatch(c, b)
        BY <2>3 DEF ProposedMatch
      <4> QED
        BY <2>1, <4>1, <4>2
    <3>2. ASSUME NEW x PROVE [m EXCEPT !.team_b = Append(@, x)] = ProposedMatch(a, Append(b, x))
      <4>1. PICK c : c = Append(b, x)
        OBVIOUS
      <4>2. [m EXCEPT !.team_b = c] = ProposedMatch(a, c)
        BY <2>3 DEF ProposedMatch
      <4> QED
        BY <2>2, <4>1, <4>2
    <3>3. ext = [i \in 1 .. n |-> IF TakesA(a, b) THEN [m EXCEPT !.team_a = Append(@, open[i])]
                                 ELSE [m EXCEPT !.team_b = Append(@, open[i])]]
      BY <1>2, <2>1, <2>2, <2>4, <2>6, <2>9 DEF Extensions
    <3> QED
      BY <3>1, <3>2, <3>3
  <2>11. ASSUME NEW i \in 1 .. n
         PROVE  ProposedMatch(Append(a, open[i]), b) \in Match /\ ProposedMatch(a, Append(b, open[i])) \in Match
    <3>1. PICK p \in Nat : p = open[i]
      BY <2>7
    <3>2. Append(a, p) \in Seq(Nat) /\ Append(b, p) \in Seq(Nat)
      OBVIOUS
    <3> QED
      BY <3>1, <3>2 DEF Match, ProposedMatch
  <2>12. ext \in [1 .. n -> Match]
    BY <2>10, <2>11
  <2>13. ext \in Seq(Match) /\ Len(ext) = n
    BY <2>12, SeqDef, LenProperties
  <2>14. ASSUME NEW i \in 1 .. n
         PROVE  JoinedBy(m, Who \ (used \cup Players(m)), ext[i])
    BY <2>1, <2>2, <2>7, <2>10 DEF JoinedBy
  <2> QED
    BY <2>1, <2>2, <2>8, <2>9, <2>13, <2>14
<1> QED
  BY <1>1, <1>2


(* The matches of a beam after n turns have n players beside the anchor,   *)
(* none of whom is used.                                                   *)
Level(player, used, n) ==
    {m \in Match :
        /\ Partial(m) /\ player \in Players(m) /\ Players(m) \cap used = {}
        /\ Len(m.team_a) + Len(m.team_b) = n + 1}

LEMMA LevelIsNotFull ==
    ASSUME NEW player, NEW used, NEW n \in 0 .. Total - 2, NEW m \in Level(player, used, n)
    PROVE  ~Full(m)
<1>1. Len(m.team_a) + Len(m.team_b) = n + 1
  BY DEF Level
<1>2. n + 1 # SizeA + SizeB
  BY TotalIs
<1> QED
  BY <1>1, <1>2 DEF Full

LEMMA LevelExtends ==
    ASSUME Given, NEW player, NEW used \in SUBSET Who, NEW n \in 0 .. Total - 2,
           NEW m \in Level(player, used, n)
    PROVE  /\ Extensions(m, used \cup {player}) \in Seq(Level(player, used, n + 1))
           /\ NoDuplicates(Queued) /\ ~TooFew(used) => Len(Extensions(m, used \cup {player})) > 0
<1>1. PICK ext \in Seq(Match) : ext = Extensions(m, used \cup {player})
  BY ExtensionsAre DEF Level
<1>2. /\ m \in Match /\ Partial(m) /\ player \in Players(m) /\ Players(m) \cap used = {}
      /\ Len(m.team_a) + Len(m.team_b) = n + 1 /\ Players(m) \subseteq Who /\ NoDuplicates(All(m))
  BY DEF Level, Partial
<1>3. ~Full(m)
  BY LevelIsNotFull
<1>4. used \cup {player} \cup Players(m) = used \cup Players(m)
  BY <1>2
<1>5. /\ \A i \in 1 .. Len(ext) : JoinedBy(m, Who \ (used \cup Players(m)), ext[i])
      /\ ~(Who \subseteq used \cup Players(m)) => Len(ext) > 0
  BY <1>1, <1>2, <1>3, <1>4, ExtensionsAre
<1>6. ASSUME NEW i \in 1 .. Len(ext) PROVE ext[i] \in Level(player, used, n + 1)
  <2>1. PICK p \in Who \ (used \cup Players(m)) :
           \/ TakesA(m.team_a, m.team_b)
                 /\ ext[i] = ProposedMatch(Append(m.team_a, p), m.team_b)
           \/ ~TakesA(m.team_a, m.team_b)
                 /\ ext[i] = ProposedMatch(m.team_a, Append(m.team_b, p))
    BY <1>5 DEF JoinedBy
  <2>2. PICK longer : longer = ext[i]
    OBVIOUS
  <2>3. p \in Nat /\ p \notin Players(m) /\ p \notin used /\ p \in Who
    BY <2>1, WhoIs
  <2>4. /\ longer \in Match /\ Players(longer) = Players(m) \cup {p} /\ NoDuplicates(All(longer))
        /\ Len(longer.team_a) + Len(longer.team_b) = Len(m.team_a) + Len(m.team_b) + 1
    BY <1>2, <2>1, <2>2, <2>3, Joins
  <2>5. Len(longer.team_a) <= SizeA /\ Len(longer.team_b) <= SizeB
    <3>1. PICK a \in Seq(Nat) : a = m.team_a
      BY <1>2 DEF Match
    <3>2. PICK b \in Seq(Nat) : b = m.team_b
      BY <1>2 DEF Match
    <3>3. Len(Append(a, p)) = Len(a) + 1 /\ Len(Append(b, p)) = Len(b) + 1
      BY <2>3, Appended
    <3>4. Len(a) \in Nat /\ Len(b) \in Nat /\ Len(a) <= SizeA /\ Len(b) <= SizeB
      BY <1>2, <3>1, <3>2, LenProperties DEF Partial
    <3>5. TakesA(a, b) => Len(a) < SizeA
      BY <1>2, <1>3, <3>1, <3>2, TakesWhere
    <3>6. ~TakesA(a, b) => Len(b) < SizeB
      BY <1>2, <1>3, <3>1, <3>2, TakesWhere
    <3>7. \/ TakesA(a, b) /\ longer.team_a = Append(a, p) /\ longer.team_b = b
          \/ ~TakesA(a, b) /\ longer.team_a = a /\ longer.team_b = Append(b, p)
      BY <2>1, <2>2, <3>1, <3>2 DEF ProposedMatch
    <3> QED
      BY <3>3, <3>4, <3>5, <3>6, <3>7, SizesAssumption
  <2>6. Partial(longer)
    BY <1>2, <2>3, <2>4, <2>5 DEF Partial
  <2>7. player \in Players(longer) /\ Players(longer) \cap used = {}
    BY <1>2, <2>3, <2>4
  <2>8. Len(longer.team_a) + Len(longer.team_b) = (n + 1) + 1
    BY <1>2, <2>4
  <2> QED
    BY <2>2, <2>4, <2>6, <2>7, <2>8 DEF Level
<1>7. ext \in Seq(Level(player, used, n + 1))
  <2>1. PICK k \in Nat : k = Len(ext)
    BY LenProperties
  <2>2. ext \in [1 .. k -> Match]
    BY <2>1, LenProperties
  <2>3. ext \in [1 .. k -> Level(player, used, n + 1)]
    BY <1>6, <2>1, <2>2
  <2> QED
    BY <2>3, SeqDef
<1>8. ASSUME NoDuplicates(Queued), ~TooFew(used) PROVE ~(Who \subseteq used \cup Players(m))
  <2> SUFFICES ASSUME Who \subseteq used \cup Players(m) PROVE FALSE
    OBVIOUS
  <2>1. IsFiniteSet(Players(m)) /\ Cardinality(Players(m)) = n + 1
    BY <1>2, CountPlayers
  <2>2. IsFiniteSet(used) /\ Cardinality(used) \in Nat
    <3>1. IsFiniteSet(used)
      BY WhoIs, FS_Subset
    <3> QED
      BY <3>1, FS_CardinalityType
  <2>3. Who = used \cup Players(m)
    BY <1>2
  <2>4. Cardinality(Who) = Cardinality(used) + Cardinality(Players(m)) - Cardinality(used \cap Players(m))
    BY <2>1, <2>2, <2>3, FS_Union
  <2>5. Cardinality(used \cap Players(m)) = 0
    <3>1. used \cap Players(m) = {}
      BY <1>2
    <3> QED
      BY <3>1, FS_EmptySet
  <2>6. Len(queue) = Cardinality(used) + (n + 1)
    BY <1>8, <2>1, <2>2, <2>4, <2>5, WhoIs
  <2>7. n + 1 < Total
    BY TotalIs
  <2>8. Len(queue) < Cardinality(used) + Total
    BY <2>2, <2>6, <2>7, TotalIs
  <2> QED
    BY <1>8, <2>8 DEF TooFew
<1> QED
  BY <1>1, <1>5, <1>7, <1>8

(* A turn brings the beam to the next level.                               *)
LEMMA AdvanceIs ==
    ASSUME Given, NEW used, NEW beam \in Seq(Match)
    PROVE  Advance(beam, used) \in Seq(Match)
<1>1. \A m \in Match : Extensions(m, used) \in Seq(Match)
  BY ExtensionsAre
<1>2. NextBeam(beam, used) \in Seq(Match)
  BY <1>1, NextBeamIs
<1> QED
  BY <1>2 DEF Advance

LEMMA AdvanceLevel ==
    ASSUME Given, NEW player, NEW used \in SUBSET Who, NEW n \in 0 .. Total - 2,
           NEW beam \in Seq(Level(player, used, n))
    PROVE  /\ Advance(beam, used \cup {player}) \in Seq(Level(player, used, n + 1))
           /\ Width > 0 /\ NoDuplicates(Queued) /\ ~TooFew(used) /\ Len(beam) > 0
                => Len(Advance(beam, used \cup {player})) > 0
<1>1. PICK k \in Nat : k = Len(beam) /\ DOMAIN beam = 1 .. k
  BY LenProperties
<1>2. \A i \in 1 .. k : ~Full(beam[i])
  BY <1>1, ElementOfSeq, LevelIsNotFull
<1>3. CASE k = 0
  <2>1. \A i \in DOMAIN beam : Full(beam[i])
    BY <1>1, <1>3
  <2>2. Advance(beam, used \cup {player}) = beam
    BY <2>1 DEF Advance
  <2>3. beam = <<>>
    BY <1>1, <1>3, EmptySeq
  <2>4. beam \in Seq(Level(player, used, n + 1))
    BY <2>3, EmptySeq
  <2> QED
    BY <1>1, <1>3, <2>2, <2>4
<1>4. CASE k > 0
  <2>1. 1 \in 1 .. k
    BY <1>4
  <2>2. ~(\A i \in DOMAIN beam : Full(beam[i]))
    BY <1>1, <1>2, <2>1
  <2>3. Advance(beam, used \cup {player}) = NextBeam(beam, used \cup {player})
    BY <2>2 DEF Advance
  <2>4. PICK M : M = Level(player, used, n)
    OBVIOUS
  <2>5. PICK M2 : M2 = Level(player, used, n + 1)
    OBVIOUS
  <2>6. M2 \in SUBSET Match /\ beam \in Seq(M)
    BY <2>4, <2>5 DEF Level
  <2>7. /\ \A m \in M : Extensions(m, used \cup {player}) \in Seq(M2)
        /\ NoDuplicates(Queued) /\ ~TooFew(used)
              => \A m \in M : Len(Extensions(m, used \cup {player})) > 0
    BY <2>4, <2>5, LevelExtends
  <2>8. /\ NextBeam(beam, used \cup {player}) \in Seq(M2)
        /\ Width > 0 /\ Len(beam) > 0 /\ (\A m \in M : Len(Extensions(m, used \cup {player})) > 0)
             => Len(NextBeam(beam, used \cup {player})) > 0
    BY <2>6, <2>7, NextBeamIs
  <2> QED
    BY <2>3, <2>5, <2>7, <2>8
<1> QED
  BY <1>1, <1>3, <1>4


LEMMA RunBeamIs ==
    ASSUME Given, NEW player \in Who, NEW used \in SUBSET Who, player \notin used
    PROVE  /\ RunBeam(player, used \cup {player}) \in Seq(Level(player, used, Total - 1))
           /\ Width > 0 /\ NoDuplicates(Queued) /\ ~TooFew(used)
                => Len(RunBeam(player, used \cup {player})) > 0
<1>1. PICK N \in Nat : N = Total - 1
  BY TotalIs
<1>2. PICK taken : taken = used \cup {player}
  OBVIOUS
<1>3. PICK start : start = <<ProposedMatch(<<player>>, <<>>)>>
  OBVIOUS
<1> DEFINE Of(h) == [n \in 0 .. Total - 1 |->
                        IF n = 0 THEN <<ProposedMatch(<<player>>, <<>>)>>
                        ELSE Advance(h[n - 1], taken)]
<1>4. PICK step : step = [n \in 1 .. N |-> [t \in Seq(Match) |-> Advance(t, taken)]]
  OBVIOUS
<1>5. step \in [1 .. N -> [Seq(Match) -> Seq(Match)]]
  BY <1>4, AdvanceIs
<1>6. PICK alone : alone = ProposedMatch(<<player>>, <<>>)
  OBVIOUS
<1>7. /\ alone \in Match /\ Players(alone) = {player} /\ NoDuplicates(All(alone))
      /\ Len(alone.team_a) = 1 /\ Len(alone.team_b) = 0
  BY <1>6, Alone, WhoIs
<1>8. alone \in Level(player, used, 0)
  <2>1. 1 <= SizeA /\ 0 <= SizeB /\ 1 + 0 = 0 + 1
    BY SizesAssumption
  <2>2. Partial(alone)
    BY <1>7, <2>1 DEF Partial
  <2> QED
    BY <1>7, <2>1, <2>2 DEF Level
<1>9. start = <<alone>> /\ start \in Seq(Match) /\ Len(start) = 1
  BY <1>3, <1>6, <1>7
<1>10. start \in Seq(Level(player, used, 0))
  BY <1>8, <1>9
<1>11. PICK f : Solves(f, N, Seq(Match), start, step)
  BY <1>5, <1>9, Recursion
<1>12. \A n \in 0 .. N : n = 0 \/ (n \in 1 .. N /\ n - 1 \in 0 .. N /\ n # 0)
  OBVIOUS
<1>13. f = Of(f)
  <2>1. \A n \in 0 .. N : f[n] = Of(f)[n]
    BY <1>1, <1>3, <1>4, <1>11, <1>12 DEF Solves
  <2> QED
    BY <1>1, <1>11, <2>1 DEF Solves
<1>14. PICK g : g = CHOOSE h : h = Of(h)
  OBVIOUS
<1>15. g = Of(g)
  BY <1>13, <1>14
<1>16. g[0] = start /\ \A n \in 1 .. N : g[n] = Advance(g[n - 1], taken)
  <2>1. 0 \in 0 .. N /\ \A n \in 1 .. N : n \in 0 .. N /\ n # 0
    OBVIOUS
  <2> QED
    BY <1>1, <1>3, <1>15, <2>1
<1> HIDE DEF Of
<1>17. PICK I : I = [n \in 0 .. N |->
           {t \in Seq(Level(player, used, n)) :
               Width > 0 /\ NoDuplicates(Queued) /\ ~TooFew(used) => Len(t) > 0}]
  OBVIOUS
<1>18. g[0] \in I[0]
  <2>1. 0 \in 0 .. N
    OBVIOUS
  <2> QED
    BY <1>9, <1>10, <1>16, <1>17, <2>1
<1>19. ASSUME NEW n \in 1 .. N, g[n - 1] \in I[n - 1] PROVE g[n] \in I[n]
  <2>1. n \in 0 .. N /\ n - 1 \in 0 .. N
    BY <1>12
  <2>2. PICK k \in 0 .. Total - 2 : k = n - 1 /\ n = k + 1
    <3>1. n - 1 \in 0 .. Total - 2 /\ n = (n - 1) + 1
      BY <1>1, TotalIs
    <3> QED
      BY <3>1
  <2>3. PICK t \in Seq(Level(player, used, k)) : t = g[n - 1]
    BY <1>17, <1>19, <2>1, <2>2
  <2>4. Width > 0 /\ NoDuplicates(Queued) /\ ~TooFew(used) => Len(t) > 0
    BY <1>17, <1>19, <2>1, <2>2, <2>3
  <2>5. /\ Advance(t, taken) \in Seq(Level(player, used, k + 1))
        /\ Width > 0 /\ NoDuplicates(Queued) /\ ~TooFew(used) => Len(Advance(t, taken)) > 0
    BY <1>2, <2>4, AdvanceLevel
  <2>6. g[n] = Advance(t, taken)
    BY <1>16, <2>3
  <2> QED
    BY <1>17, <2>1, <2>2, <2>5, <2>6
<1>20. g[N] \in I[N]
  BY <1>18, <1>19, Leads
<1>21. /\ g[N] \in Seq(Level(player, used, N))
       /\ Width > 0 /\ NoDuplicates(Queued) /\ ~TooFew(used) => Len(g[N]) > 0
  <2>1. N \in 0 .. N
    OBVIOUS
  <2> QED
    BY <1>17, <1>20, <2>1
<1>22. RunBeam(player, taken) = g[N]
  BY <1>1, <1>14 DEF RunBeam, Of
<1> QED
  BY <1>1, <1>2, <1>21, <1>22

LEMMA BeamTurns ==
    ASSUME Given, NEW acc \in SoundAcc, NEW entry \in QueueEntry, entry.player \in Who
    PROVE  Turn(acc, entry.player, BeamAnchor(acc, entry))
<1>1. acc \in Acc /\ acc.used \in SUBSET Who
  BY DEF SoundAcc
<1>2. CASE entry.player \in acc.used
  BY <1>2 DEF BeamAnchor, Turn, Skips
<1>3. CASE entry.player \notin acc.used
  <2>1. PICK beam : beam = RunBeam(entry.player, acc.used \cup {entry.player})
    OBVIOUS
  <2>2. beam \in Seq(Level(entry.player, acc.used, Total - 1))
    BY <1>1, <1>3, <2>1, RunBeamIs
  <2>3. Width > 0 /\ NoDuplicates(Queued) /\ ~TooFew(acc.used) => Len(beam) > 0
    BY <1>1, <1>3, <2>1, RunBeamIs
  <2>4. PICK next : next = BeamAnchor(acc, entry)
    OBVIOUS
  <2>5. CASE beam = <<>>
    <3>1. Len(beam) = 0
      BY <2>5
    <3>2. next = [used |-> acc.used, found |-> acc.found]
      BY <1>1, <1>3, <2>1, <2>4, <2>5 DEF BeamAnchor, Acc
    <3>3. Width > 0 /\ NoDuplicates(Queued) => TooFew(acc.used)
      BY <2>3, <3>1
    <3> QED
      BY <1>1, <2>4, <3>2, <3>3 DEF Turn, GivesUp
  <2>6. CASE beam # <<>>
    <3>1. 1 \in 1 .. Len(beam)
      BY <2>2, <2>6, EmptySeq
    <3>2. PICK m \in Level(entry.player, acc.used, Total - 1) : m = beam[1]
      BY <2>2, <3>1, ElementOfSeq
    <3>3. /\ m \in Match /\ Partial(m) /\ entry.player \in Players(m) /\ Players(m) \cap acc.used = {}
          /\ Len(m.team_a) + Len(m.team_b) = (Total - 1) + 1
      BY DEF Level
    <3>4. Full(m)
      <4>1. PICK a \in Nat : a = Len(m.team_a) /\ a <= SizeA
        BY <3>3, CountPlayers DEF Partial
      <4>2. PICK b \in Nat : b = Len(m.team_b) /\ b <= SizeB
        BY <3>3, CountPlayers DEF Partial
      <4>3. a + b = Total
        <5>1. a + b = (Total - 1) + 1
          BY <3>3, <4>1, <4>2
        <5> QED
          BY <5>1, TotalIs
      <4>4. a = SizeA /\ b = SizeB
        <5>1. a + b = SizeA + SizeB /\ SizeA \in Nat /\ SizeB \in Nat /\ a <= SizeA /\ b <= SizeB
          BY <4>1, <4>2, <4>3, SizesAssumption, TotalIs
        <5> QED
          BY <5>1
      <4> QED
        BY <4>1, <4>2, <4>4 DEF Full
    <3>5. Proper(m)
      BY <3>3, <3>4 DEF Proper, Partial
    <3>6. next = [used |-> acc.used \cup {entry.player} \cup Players(m), found |-> Append(acc.found, m)]
      BY <1>3, <2>1, <2>4, <2>6, <3>2 DEF BeamAnchor
    <3>7. acc.used \cup {entry.player} \cup Players(m) = acc.used \cup Players(m)
      BY <3>3
    <3> QED
      BY <2>4, <3>3, <3>5, <3>6, <3>7 DEF Turn, Finds
  <2> QED
    BY <2>5, <2>6
<1> QED
  BY <1>2, <1>3

LEMMA BeamSearchIs ==
    ASSUME Given
    PROVE  \E acc \in Reached(Len(queue)) : BeamSearch = acc.found
<1>1. PICK N \in Nat : N = Len(queue)
  BY Inputs
<1> DEFINE Of(h) == [n \in 0 .. Len(queue) |->
                        IF n = 0 THEN Nothing ELSE BeamAnchor(h[n - 1], queue[n])]
<1>2. PICK step : step = [n \in 1 .. N |-> [t \in SoundAcc |-> BeamAnchor(t, queue[n])]]
  OBVIOUS
<1>3. ASSUME NEW n \in 1 .. N, NEW t \in SoundAcc
      PROVE  Turn(t, queue[n].player, BeamAnchor(t, queue[n]))
  BY <1>1, BeamTurns, Inputs, WhoIs
<1>4. step \in [1 .. N -> [SoundAcc -> SoundAcc]]
  BY <1>2, <1>3, TurnKeeps
<1>5. Nothing \in SoundAcc
  BY StartsReached DEF Reached
<1>6. PICK f : Solves(f, N, SoundAcc, Nothing, step)
  BY <1>4, <1>5, Recursion
<1>7. \A n \in 0 .. N : n = 0 \/ (n \in 1 .. N /\ n - 1 \in 0 .. N /\ n # 0)
  OBVIOUS
<1>8. f = Of(f)
  <2>1. \A n \in 0 .. N : f[n] = Of(f)[n]
    BY <1>1, <1>2, <1>6, <1>7 DEF Solves
  <2> QED
    BY <1>1, <1>6, <2>1 DEF Solves
<1>9. PICK g : g = CHOOSE h : h = Of(h)
  OBVIOUS
<1>10. g = Of(g)
  BY <1>8, <1>9
<1>11. g[0] = Nothing /\ \A n \in 1 .. N : g[n] = BeamAnchor(g[n - 1], queue[n])
  <2>1. 0 \in 0 .. N /\ \A n \in 1 .. N : n \in 0 .. N /\ n # 0
    OBVIOUS
  <2> QED
    BY <1>1, <1>10, <2>1
<1> HIDE DEF Of
<1>12. g[N] \in Reached(N)
  BY <1>1, <1>3, <1>11, TurnsReach
<1> QED
  BY <1>1, <1>9, <1>12 DEF BeamSearch, Of

(***************************************************************************)
(* Splitting a draw of players into two teams                              *)
(***************************************************************************)

LEMMA SplitIs ==
    ASSUME NEW s \in Seq(Nat), Len(s) = Total
    PROVE  /\ Split(s) \in Match /\ Full(Split(s)) /\ All(Split(s)) = s
           /\ Players(Split(s)) = ToSet(s)
<1>1. PICK a : a = SubSeq(s, 1, SizeA)
  OBVIOUS
<1>2. PICK b : b = SubSeq(s, SizeA + 1, Total)
  OBVIOUS
<1>3. SizeA \in Nat /\ SizeB \in Nat /\ SizeA > 0 /\ SizeB > 0 /\ Total = SizeA + SizeB
  BY SizesAssumption, TotalIs
<1>4. \A i \in 1 .. Total : s[i] \in Nat
  BY ElementOfSeq
<1>5. a \in Seq(Nat) /\ Len(a) = SizeA
  <2>1. \A i \in 1 .. SizeA : s[i] \in Nat
    BY <1>3, <1>4
  <2>2. a \in Seq(Nat) /\ Len(a) = IF 1 <= SizeA THEN SizeA - 1 + 1 ELSE 0
    BY <1>1, <1>3, <2>1, SubSeqProperties
  <2> QED
    BY <1>3, <2>2
<1>6. b \in Seq(Nat) /\ Len(b) = SizeB
  <2>1. \A i \in SizeA + 1 .. Total : s[i] \in Nat
    BY <1>3, <1>4
  <2>2. /\ b \in Seq(Nat)
        /\ Len(b) = IF SizeA + 1 <= Total THEN Total - (SizeA + 1) + 1 ELSE 0
    BY <1>2, <1>3, <2>1, SubSeqProperties
  <2> QED
    BY <1>3, <2>2
<1>7. a \o b = s
  <2>1. /\ 1 \in 1 .. Len(s) + 1 /\ SizeA \in 1 - 1 .. Len(s) /\ Total \in SizeA .. Len(s)
    BY <1>3
  <2>2. a \o b = SubSeq(s, 1, Total)
    BY <1>1, <1>2, <2>1, ConcatAdjacentSubSeq
  <2> QED
    BY <2>2, SubSeqFull
<1>8. PICK m : m = Split(s)
  OBVIOUS
<1>9. m = [team_a |-> a, team_b |-> b]
  BY <1>1, <1>2, <1>8 DEF Split, ProposedMatch
<1>10. m \in Match
  BY <1>5, <1>6, <1>9 DEF Match
<1>11. m.team_a = a /\ m.team_b = b
  BY <1>9
<1>12. Full(m)
  BY <1>5, <1>6, <1>11 DEF Full
<1>13. All(m) = s
  BY <1>7, <1>11 DEF All
<1> QED
  BY <1>8, <1>10, <1>12, <1>13 DEF Players


(***************************************************************************)
(* RandomSamplingSearch                                                    *)
(***************************************************************************)

(* A draw of k different positions of n.                                   *)
Draws(k, n) == {o \in [1 .. k -> 1 .. n] : OneToOne(o, k)}

LEMMA PoolIs ==
    ASSUME Given, NEW anchor, NEW used
    PROVE  /\ Pool(anchor, used) \in Seq(Nat)
           /\ DOMAIN Pool(anchor, used) = 1 .. Len(Pool(anchor, used))
           /\ ToSet(Pool(anchor, used)) = Who \ (used \cup {anchor})
           /\ NoDuplicates(Queued) => NoDuplicates(Pool(anchor, used))
<1>1. PICK s \in Seq(Nat) : s = Queued
  BY Inputs
<1>2. PICK S : S = Who \ (used \cup {anchor})
  OBVIOUS
<1>3. PICK pool : pool = Pool(anchor, used)
  OBVIOUS
<1>4. pool = Keep(s, S)
  BY <1>1, <1>2, <1>3 DEF Pool, Who
<1>5. pool \in Seq(Nat) /\ ToSet(pool) = ToSet(s) \cap S /\ (NoDuplicates(s) => NoDuplicates(pool))
  BY <1>4, Kept
<1>6. ToSet(s) \cap S = S
  BY <1>1, <1>2 DEF Who
<1> QED
  BY <1>1, <1>2, <1>3, <1>5, <1>6, LenProperties

LEMMA FillingsAre ==
    ASSUME Given, NEW anchor \in Who, NEW used, NEW m \in RandomFillings(anchor, used)
    PROVE  /\ m \in Match /\ Full(m) /\ anchor \in Players(m)
           /\ Players(m) \subseteq Who /\ Players(m) \cap used \subseteq {anchor}
           /\ NoDuplicates(Queued) => NoDuplicates(All(m))
<1>1. PICK pool \in Seq(Nat) : pool = Pool(anchor, used)
  BY PoolIs
<1>2. /\ DOMAIN pool = 1 .. Len(pool) /\ ToSet(pool) = Who \ (used \cup {anchor})
      /\ NoDuplicates(Queued) => NoDuplicates(pool)
  BY <1>1, PoolIs
<1>3. PICK k \in Nat : k = Total - 1
  BY TotalIs
<1>4. PICK o \in Draws(k, Len(pool)) :
          m = ProposedMatch(SubSeq(<<anchor>> \o Pick(pool, o), 1, SizeA),
                            SubSeq(<<anchor>> \o Pick(pool, o), SizeA + 1, Total))
  BY <1>1, <1>2, <1>3 DEF RandomFillings, Draws, OneToOne
<1>5. o \in [1 .. k -> 1 .. Len(pool)] /\ OneToOne(o, k)
  BY DEF Draws
<1>6. PICK rest : rest = Pick(pool, o)
  OBVIOUS
<1>7. rest \in Seq(Nat)
  BY <1>5, <1>6, Picked, Zenon
<1>8. Len(rest) = k
  BY <1>5, <1>6, Picked, SMT
<1>9. ToSet(rest) \subseteq ToSet(pool)
  BY <1>5, <1>6, Picked, SMT
<1>10. NoDuplicates(pool) => NoDuplicates(rest)
  BY <1>5, <1>6, Picked, SMT
<1>11. PICK one : one = <<anchor>>
  OBVIOUS
<1>12. one \in Seq(Nat) /\ Len(one) = 1 /\ ToSet(one) = {anchor} /\ NoDuplicates(one)
  <2>1. anchor \in Nat
    BY WhoIs
  <2>2. one \in Seq(Nat) /\ Len(one) = 1 /\ DOMAIN one = 1 .. 1 /\ one[1] = anchor
    BY <1>11, <2>1
  <2>3. 1 .. 1 = {1}
    OBVIOUS
  <2> QED
    BY <2>2, <2>3 DEF ToSet, NoDuplicates
<1>13. PICK drawn : drawn = one \o rest
  OBVIOUS
<1>14. /\ drawn \in Seq(Nat) /\ Len(drawn) = 1 + k /\ ToSet(drawn) = {anchor} \cup ToSet(rest)
       /\ NoDuplicates(rest) /\ {anchor} \cap ToSet(rest) = {} => NoDuplicates(drawn)
  BY <1>7, <1>8, <1>12, <1>13, Joined
<1>15. Len(drawn) = Total
  BY <1>3, <1>14, TotalIs
<1>16. m = Split(drawn)
  BY <1>4, <1>6, <1>11, <1>13 DEF Split
<1>17. m \in Match /\ Full(m) /\ All(m) = drawn /\ Players(m) = ToSet(drawn)
  BY <1>14, <1>15, <1>16, SplitIs
<1>18. {anchor} \cap ToSet(rest) = {} /\ ToSet(rest) \subseteq Who /\ ToSet(rest) \cap used = {}
  BY <1>2, <1>9
<1> QED
  BY <1>2, <1>10, <1>14, <1>17, <1>18

(* There is a filling if there are players enough.                         *)
LEMMA FillingsExist ==
    ASSUME Given, NoDuplicates(Queued), NEW anchor \in Who, NEW used \in SUBSET Who, anchor \notin used,
           RandomFillings(anchor, used \cup {anchor}) = {}
    PROVE  TooFew(used)
<1>1. PICK taken \in SUBSET Who : taken = used \cup {anchor}
  OBVIOUS
<1>2. PICK pool \in Seq(Nat) : pool = Pool(anchor, taken)
  BY PoolIs
<1>3. DOMAIN pool = 1 .. Len(pool) /\ ToSet(pool) = Who \ taken /\ NoDuplicates(pool)
  <2>1. ToSet(pool) = Who \ (taken \cup {anchor})
    BY <1>2, PoolIs
  <2>2. taken \cup {anchor} = taken
    BY <1>1
  <2> QED
    BY <1>2, <2>1, <2>2, PoolIs
<1>4. PICK k \in Nat : k = Total - 1
  BY TotalIs
<1>5. PICK n \in Nat : n = Len(pool)
  BY LenProperties
<1>6. n < k
  <2> SUFFICES ASSUME ~(n < k) PROVE FALSE
    OBVIOUS
  <2>1. PICK o : o = [i \in 1 .. k |-> i]
    OBVIOUS
  <2>2. o \in [1 .. k -> 1 .. n] /\ \A i, j \in 1 .. k : o[i] = o[j] => i = j
    <3>1. \A i \in 1 .. k : i \in 1 .. n
      OBVIOUS
    <3> QED
      BY <2>1, <3>1
  <2>3. RandomFillings(anchor, taken) # {}
    <3>1. o \in {x \in [1 .. (Total - 1) -> DOMAIN pool] :
                     \A i, j \in 1 .. (Total - 1) : x[i] = x[j] => i = j}
      BY <1>3, <1>4, <1>5, <2>2
    <3>2. ~(Len(pool) < Total - 1)
      BY <1>4, <1>5
    <3>3. PICK made : made = LET drawn == <<anchor>> \o Pick(pool, o)
                             IN ProposedMatch(SubSeq(drawn, 1, SizeA), SubSeq(drawn, SizeA + 1, Total))
      OBVIOUS
    <3>4. made \in RandomFillings(anchor, taken)
      BY <1>2, <3>1, <3>2, <3>3 DEF RandomFillings
    <3> QED
      BY <3>4
  <2> QED
    BY <1>1, <2>3
<1>7. Cardinality(Who \ taken) = n
  BY <1>3, <1>5, LengthIs
<1>8. IsFiniteSet(used) /\ Cardinality(used) \in Nat
  <2>1. IsFiniteSet(used)
    BY WhoIs, FS_Subset
  <2> QED
    BY <2>1, FS_CardinalityType
<1>9. IsFiniteSet(taken) /\ Cardinality(taken) = Cardinality(used) + 1
  BY <1>1, <1>8, FS_AddElement
<1>10. Cardinality(Who \ taken) = Cardinality(Who) - Cardinality(taken)
  <2>1. IsFiniteSet(Who)
    BY WhoIs
  <2>2. Cardinality(Who \ taken) = Cardinality(Who) - Cardinality(Who \cap taken)
    BY <1>9, <2>1, FS_Difference
  <2>3. Who \cap taken = taken
    BY <1>1
  <2> QED
    BY <2>2, <2>3
<1>11. Len(queue) = Cardinality(Who) /\ Len(queue) \in Nat
  BY WhoIs
<1>12. Len(queue) < Cardinality(used) + Total
  BY <1>4, <1>6, <1>7, <1>8, <1>9, <1>10, <1>11, TotalIs
<1> QED
  BY <1>12 DEF TooFew

LEMMA RandomIsAcc ==
    ASSUME Given, NEW acc \in Acc, NEW entry \in QueueEntry, entry.player \in Who
    PROVE  RandomAnchor(acc, entry) \in SUBSET Acc
<1>1. acc.used \in SUBSET Nat /\ acc.found \in Seq(Match) /\ Who \in SUBSET Nat
  BY WhoIs DEF Acc
<1>2. CASE entry.player \in acc.used
  BY <1>2 DEF RandomAnchor
<1>3. CASE entry.player \notin acc.used
  <2>1. PICK used \in SUBSET Nat : used = acc.used \cup {entry.player}
    BY <1>1
  <2>2. [acc EXCEPT !.used = used] \in Acc
    BY <1>1 DEF Acc
  <2>3. ASSUME NEW m \in RandomFillings(entry.player, used)
        PROVE  [used |-> used \cup Players(m), found |-> Append(acc.found, m)] \in Acc
    <3>1. m \in Match /\ Players(m) \subseteq Who
      BY FillingsAre
    <3>2. Append(acc.found, m) \in Seq(Match)
      BY <1>1, <3>1, AppendProperties
    <3>3. used \cup Players(m) \in SUBSET Nat
      BY <1>1, <3>1
    <3> QED
      BY <3>2, <3>3 DEF Acc
  <2>4. RandomAnchor(acc, entry) =
           IF RandomFillings(entry.player, used) = {} THEN {[acc EXCEPT !.used = used]}
           ELSE {[used |-> used \cup Players(m), found |-> Append(acc.found, m)] :
                    m \in RandomFillings(entry.player, used)}
    BY <1>3, <2>1 DEF RandomAnchor
  <2> HIDE DEF Acc
  <2> QED
    BY <2>2, <2>3, <2>4
<1> QED
  BY <1>2, <1>3

LEMMA RandomTurns ==
    ASSUME Given, NoDuplicates(Queued), NEW acc \in SoundAcc, NEW entry \in QueueEntry,
           entry.player \in Who, NEW next \in RandomAnchor(acc, entry)
    PROVE  Turn(acc, entry.player, next)
<1>1. acc \in Acc /\ acc.used \in SUBSET Who
  BY DEF SoundAcc
<1>2. CASE entry.player \in acc.used
  BY <1>2 DEF RandomAnchor, Turn, Skips
<1>3. CASE entry.player \notin acc.used
  <2>1. PICK used \in SUBSET Who : used = acc.used \cup {entry.player}
    BY <1>1
  <2>2. CASE RandomFillings(entry.player, used) = {}
    <3>1. next = [acc EXCEPT !.used = used]
      BY <1>3, <2>1, <2>2 DEF RandomAnchor
    <3>2. next = [used |-> used, found |-> acc.found]
      BY <1>1, <3>1 DEF Acc
    <3>3. TooFew(acc.used)
      BY <1>1, <1>3, <2>1, <2>2, FillingsExist
    <3> QED
      BY <2>1, <3>2, <3>3 DEF Turn, GivesUp
  <2>3. CASE RandomFillings(entry.player, used) # {}
    <3>1. PICK m \in RandomFillings(entry.player, used) :
             next = [used |-> used \cup Players(m), found |-> Append(acc.found, m)]
      BY <1>3, <2>1, <2>3 DEF RandomAnchor
    <3>2. /\ m \in Match /\ Full(m) /\ entry.player \in Players(m) /\ Players(m) \subseteq Who
          /\ Players(m) \cap used \subseteq {entry.player} /\ NoDuplicates(All(m))
      BY FillingsAre
    <3>3. Proper(m)
      BY <3>2 DEF Proper
    <3>4. Players(m) \cap acc.used = {} /\ used \cup Players(m) = acc.used \cup Players(m)
      BY <1>3, <2>1, <3>2
    <3> QED
      BY <3>1, <3>2, <3>3, <3>4 DEF Turn, Finds
  <2> QED
    BY <2>2, <2>3
<1> QED
  BY <1>2, <1>3

LEMMA RandomSearchIs ==
    ASSUME Given, NEW found \in RandomSearches
    PROVE  /\ found \in Seq(Match)
           /\ NoDuplicates(Queued) => \E acc \in Reached(Len(queue)) : found = acc.found
<1>1. PICK N \in Nat : N = Len(queue)
  BY Inputs
<1> DEFINE Of(h) == [n \in 0 .. Len(queue) |->
                        IF n = 0 THEN {Nothing}
                        ELSE UNION {RandomAnchor(acc, queue[n]) : acc \in h[n - 1]}]
<1>2. PICK step : step = [n \in 1 .. N |-> [t \in SUBSET Acc |->
                              UNION {RandomAnchor(acc, queue[n]) : acc \in t}]]
  OBVIOUS
<1>3. \A n \in 1 .. N : queue[n] \in QueueEntry /\ queue[n].player \in Who
  BY <1>1, Inputs, WhoIs
<1>4. step \in [1 .. N -> [SUBSET Acc -> SUBSET Acc]]
  <2>1. ASSUME NEW n \in 1 .. N, NEW t \in SUBSET Acc
        PROVE  UNION {RandomAnchor(acc, queue[n]) : acc \in t} \in SUBSET Acc
    <3>1. \A acc \in t : RandomAnchor(acc, queue[n]) \in SUBSET Acc
      BY <1>3, RandomIsAcc
    <3> HIDE DEF Acc
    <3> QED
      BY <3>1
  <2> HIDE DEF Acc
  <2> QED
    BY <1>2, <2>1
<1>5. {Nothing} \in SUBSET Acc
  BY StartsReached DEF Reached, SoundAcc
<1>6. PICK f : Solves(f, N, SUBSET Acc, {Nothing}, step)
  BY <1>4, <1>5, Recursion
<1>7. \A n \in 0 .. N : n = 0 \/ (n \in 1 .. N /\ n - 1 \in 0 .. N /\ n # 0)
  OBVIOUS
<1>8. f = Of(f)
  <2> HIDE DEF Acc
  <2>1. \A n \in 0 .. N : f[n] = Of(f)[n]
    BY <1>1, <1>2, <1>6, <1>7 DEF Solves
  <2> QED
    BY <1>1, <1>6, <2>1 DEF Solves
<1>9. PICK g : g = CHOOSE h : h = Of(h)
  OBVIOUS
<1>10. g = Of(g)
  BY <1>8, <1>9
<1>11. /\ g[0] = {Nothing}
       /\ \A n \in 1 .. N : g[n] = UNION {RandomAnchor(acc, queue[n]) : acc \in g[n - 1]}
  <2>1. 0 \in 0 .. N /\ \A n \in 1 .. N : n \in 0 .. N /\ n # 0
    OBVIOUS
  <2> QED
    BY <1>1, <1>10, <2>1
<1>12. RandomSearches = {acc.found : acc \in g[N]}
  BY <1>1, <1>9 DEF RandomSearches
<1>13. PICK last \in g[N] : found = last.found
  BY <1>12
<1> HIDE DEF Of
<1>14. g[N] \in SUBSET Acc
  <2>1. ASSUME NEW n \in 1 .. N, g[n - 1] \in SUBSET Acc PROVE g[n] \in SUBSET Acc
    <3>1. PICK t \in SUBSET Acc : t = g[n - 1]
      BY <2>1
    <3>2. \A acc \in t : RandomAnchor(acc, queue[n]) \in SUBSET Acc
      BY <1>3, RandomIsAcc
    <3>3. g[n] = UNION {RandomAnchor(acc, queue[n]) : acc \in t}
      BY <1>11, <3>1
    <3> HIDE DEF Acc
    <3> QED
      BY <3>2, <3>3
  <2>2. PICK T : T = SUBSET Acc
    OBVIOUS
  <2>3. g[0] \in T /\ \A n \in 1 .. N : g[n - 1] \in T => g[n] \in T
    BY <1>5, <1>11, <2>1, <2>2
  <2>4. g[N] \in T
    BY <2>3, Stays
  <2> QED
    BY <2>2, <2>4
<1>15. ASSUME NoDuplicates(Queued) PROVE g[N] \in SUBSET Reached(N)
  <2>1. PICK I : I = [n \in 0 .. N |-> SUBSET Reached(n)]
    OBVIOUS
  <2>2. \A n \in 0 .. N : I[n] = SUBSET Reached(n)
    BY <2>1
  <2>3. g[0] \in I[0]
    <3>1. 0 \in 0 .. N
      OBVIOUS
    <3>2. {Nothing} \in SUBSET Reached(0)
      BY StartsReached
    <3> QED
      BY <1>11, <2>2, <3>1, <3>2
  <2>4. ASSUME NEW n \in 1 .. N, g[n - 1] \in I[n - 1] PROVE g[n] \in I[n]
    <3>1. n \in 0 .. N /\ n - 1 \in 0 .. N
      BY <1>7
    <3>2. PICK t \in SUBSET Reached(n - 1) : t = g[n - 1]
      BY <2>2, <2>4, <3>1
    <3>3. ASSUME NEW acc \in t, NEW next \in RandomAnchor(acc, queue[n]) PROVE next \in Reached(n)
      <4>1. acc \in Reached(n - 1) /\ acc \in SoundAcc
        BY DEF Reached
      <4>2. Turn(acc, queue[n].player, next)
        BY <1>3, <1>15, <4>1, RandomTurns
      <4> QED
        BY <1>1, <4>1, <4>2, TurnCounts
    <3>4. g[n] = UNION {RandomAnchor(acc, queue[n]) : acc \in t}
      BY <1>11, <3>2
    <3>5. g[n] \in SUBSET Reached(n)
      BY <3>3, <3>4
    <3> QED
      BY <2>2, <3>1, <3>5
  <2>5. g[N] \in I[N]
    BY <2>3, <2>4, Leads
  <2>6. N \in 0 .. N
    OBVIOUS
  <2> QED
    BY <2>2, <2>5, <2>6
<1>16. found \in Seq(Match)
  BY <1>13, <1>14 DEF Acc
<1> QED
  BY <1>1, <1>13, <1>15, <1>16


(***************************************************************************)
(* The candidate generators                                                *)
(***************************************************************************)

(* A candidate drawn from the entries of the queue, as often as it is      *)
(* there: proper if nobody is queued twice.                                *)
Candidate == {m \in Match : Full(m) /\ (NoDuplicates(Queued) => Proper(m))}

LEMMA DrawIsCandidate ==
    ASSUME NEW s \in Seq(Nat), Len(s) = Total,
           NoDuplicates(Queued) => NoDuplicates(s) /\ ToSet(s) \subseteq Who
    PROVE  Split(s) \in Candidate
<1>1. Split(s) \in Match /\ Full(Split(s)) /\ All(Split(s)) = s /\ Players(Split(s)) = ToSet(s)
  BY SplitIs
<1> QED
  BY <1>1 DEF Candidate, Proper

LEMMA SamplesAreCandidates ==
    ASSUME Given, NEW samples \in RandomSamples
    PROVE  samples \in Seq(Candidate)
<1>1. PICK players \in Seq(Nat) : players = Queued
  BY Inputs
<1>2. CASE Len(queue) < Total
  <2>1. samples = <<>>
    BY <1>2 DEF RandomSamples
  <2> QED
    BY <2>1, EmptySeq
<1>3. CASE ~(Len(queue) < Total)
  <2>1. PICK k \in Nat : k = Total
    BY TotalIs
  <2>2. PICK o \in Draws(k, Len(players)) : samples = <<Split(Pick(players, o))>>
    BY <1>1, <1>3, <2>1, Inputs DEF RandomSamples, Draws, OneToOne
  <2>3. o \in [1 .. k -> 1 .. Len(players)] /\ OneToOne(o, k)
    BY DEF Draws
  <2>4. PICK s : s = Pick(players, o)
    OBVIOUS
  <2>5. s \in Seq(Nat)
    BY <2>3, <2>4, Picked, Zenon
  <2>6. Len(s) = k
    BY <2>3, <2>4, Picked, SMT
  <2>7. ToSet(s) \subseteq ToSet(players)
    BY <2>3, <2>4, Picked, SMT
  <2>8. NoDuplicates(players) => NoDuplicates(s)
    BY <2>3, <2>4, Picked, SMT
  <2>9. PICK m \in Candidate : m = Split(s)
    BY <1>1, <2>1, <2>5, <2>6, <2>7, <2>8, DrawIsCandidate DEF Who
  <2>10. <<m>> \in Seq(Candidate)
    OBVIOUS
  <2> QED
    BY <2>2, <2>4, <2>9, <2>10
<1> QED
  BY <1>2, <1>3

(* A part of a sequence.                                                   *)
LEMMA PartOf ==
    ASSUME NEW X, NEW s \in Seq(X), NEW from \in Nat, NEW size \in Nat, from + size <= Len(s)
    PROVE  /\ SubSeq(s, from + 1, from + size) \in Seq(X)
           /\ Len(SubSeq(s, from + 1, from + size)) = size
           /\ ToSet(SubSeq(s, from + 1, from + size)) \subseteq ToSet(s)
           /\ NoDuplicates(s) => NoDuplicates(SubSeq(s, from + 1, from + size))
<1>1. PICK n \in Nat : n = Len(s) /\ DOMAIN s = 1 .. n
  BY LenProperties
<1>2. PICK part : part = SubSeq(s, from + 1, from + size)
  OBVIOUS
<1>3. \A i \in from + 1 .. from + size : s[i] \in X
  <2>1. \A i \in from + 1 .. from + size : i \in 1 .. n
    BY <1>1
  <2> QED
    BY <1>1, <2>1, ElementOfSeq
<1>4. /\ part \in Seq(X)
      /\ Len(part) = IF from + 1 <= from + size THEN (from + size) - (from + 1) + 1 ELSE 0
      /\ \A i \in 1 .. (from + size) - (from + 1) + 1 : part[i] = s[(from + 1) + i - 1]
  BY <1>2, <1>3, SubSeqProperties
<1>5. Len(part) = size /\ \A i \in 1 .. size : part[i] = s[from + i]
  <2>1. (from + size) - (from + 1) + 1 = size /\ \A i \in 1 .. size : (from + 1) + i - 1 = from + i
    OBVIOUS
  <2> QED
    BY <1>4, <2>1
<1>6. DOMAIN part = 1 .. size
  BY <1>4, <1>5, LenProperties
<1>7. \A i \in 1 .. size : from + i \in 1 .. n
  BY <1>1
<1>8. ToSet(part) \subseteq ToSet(s)
  BY <1>1, <1>5, <1>6, <1>7 DEF ToSet
<1>9. NoDuplicates(s) => NoDuplicates(part)
  <2> SUFFICES ASSUME NoDuplicates(s), NEW i \in 1 .. size, NEW j \in 1 .. size, part[i] = part[j]
               PROVE  i = j
    BY <1>6 DEF NoDuplicates
  <2>1. from + i = from + j
    BY <1>1, <1>5, <1>7 DEF NoDuplicates
  <2> QED
    BY <2>1
<1> QED
  BY <1>2, <1>4, <1>5, <1>8, <1>9

LEMMA Windows ==
    ASSUME NEW size \in Nat \ {0}, NEW n \in Nat, NEW i \in Nat \ {0}, i <= n \div size
    PROVE  (i - 1) * size \in Nat /\ (i - 1) * size + size <= n /\ (i - 1) * size + size = i * size
<1>1. PICK q \in Nat : q = n \div size /\ size * q <= n
  OBVIOUS
<1>2. PICK k \in Nat : k = i - 1 /\ i = k + 1
  OBVIOUS
<1>3. k * size \in Nat
  OBVIOUS
<1>4. k * size + size = i * size
  BY <1>2
<1>5. i * size <= q * size
  <2>1. PICK d \in Nat : q = i + d
    <3>1. q - i \in Nat /\ q = i + (q - i)
      BY <1>1
    <3> QED
      BY <3>1
  <2>2. d * size \in Nat /\ (i + d) * size = i * size + d * size
    OBVIOUS
  <2> QED
    BY <2>1, <2>2
<1>6. q * size = size * q
  OBVIOUS
<1> QED
  BY <1>1, <1>2, <1>3, <1>4, <1>5, <1>6

LEMMA NearestAreCandidates ==
    ASSUME Given
    PROVE  GreedyNearestGenerator \in Seq(Candidate)
<1> DEFINE rating(p) == IF p \in DOMAIN world THEN world[p].rating ELSE Unrated
<1>1. PICK players \in Seq(Nat) : players = Queued
  BY Inputs
<1>2. PICK n \in Nat : n = Len(queue) /\ n = Len(players) /\ DOMAIN queue = 1 .. n
  BY <1>1, Inputs
<1>3. PICK key : key = [i \in DOMAIN queue |-> 0 - rating(Queued[i])]
  OBVIOUS
<1>4. key \in [1 .. n -> Int]
  <2>1. \A p : rating(p) \in Int
    BY Inputs, LibraryAssumption DEF Observation
  <2> HIDE DEF rating
  <2>2. \A i \in 1 .. n : 0 - rating(Queued[i]) \in Int
    BY <2>1
  <2> QED
    BY <1>2, <1>3, <2>2
<1>5. PICK order : order = StableDescending(key)
  OBVIOUS
<1>6. order \in [1 .. n -> 1 .. Len(players)] /\ OneToOne(order, n)
  BY <1>2, <1>4, <1>5, SortIsPermutation DEF OneToOne
<1>7. PICK sorted : sorted = Pick(players, order)
  OBVIOUS
<1>8. sorted \in Seq(Nat)
  BY <1>6, <1>7, Picked, Zenon
<1>9. Len(sorted) = n
  BY <1>6, <1>7, Picked, SMT
<1>10. ToSet(sorted) \subseteq ToSet(players)
  BY <1>6, <1>7, Picked, SMT
<1>11. NoDuplicates(players) => NoDuplicates(sorted)
  BY <1>6, <1>7, Picked, SMT
<1>12. PICK size \in Nat \ {0} : size = Total
  BY TotalIs
<1>13. n \div size \in Nat
  OBVIOUS
<1>14. PICK k \in Nat : k = AtMost(MaxCandidates, n \div size) /\ k <= n \div size
  <2>1. AtMost(MaxCandidates, n \div size) \in Nat /\ AtMost(MaxCandidates, n \div size) <= n \div size
    BY <1>13, LibraryAssumption DEF AtMost
  <2> QED
    BY <2>1
<1>15. ASSUME NEW i \in 1 .. k
       PROVE  Split(SubSeq(sorted, (i - 1) * size + 1, i * size)) \in Candidate
  <2>1. i \in Nat \ {0} /\ i <= n \div size
    BY <1>13, <1>14
  <2>2. PICK from \in Nat : from = (i - 1) * size /\ from + size <= n /\ from + size = i * size
    BY <2>1, Windows
  <2>3. PICK part : part = SubSeq(sorted, from + 1, from + size)
    OBVIOUS
  <2>6. from + size <= Len(sorted)
    BY <1>9, <2>2
  <2>7. part \in Seq(Nat)
    BY <1>8, <2>3, <2>6, PartOf, Zenon
  <2>8. Len(part) = size
    BY <1>8, <2>3, <2>6, PartOf, SMT
  <2>9. ToSet(part) \subseteq ToSet(sorted)
    BY <1>8, <2>3, <2>6, PartOf, Zenon
  <2>10. NoDuplicates(sorted) => NoDuplicates(part)
    BY <1>8, <2>3, <2>6, PartOf, Zenon
  <2>4. /\ part \in Seq(Nat) /\ Len(part) = size /\ ToSet(part) \subseteq ToSet(sorted)
        /\ NoDuplicates(sorted) => NoDuplicates(part)
    BY <2>7, <2>8, <2>9, <2>10
  <2>5. Split(part) \in Candidate
    BY <1>1, <1>10, <1>11, <1>12, <2>4, DrawIsCandidate DEF Who
  <2> QED
    BY <2>2, <2>3, <2>5
<1>16. GreedyNearestGenerator = [i \in 1 .. k |-> Split(SubSeq(sorted, (i - 1) * size + 1, i * size))]
  BY <1>1, <1>2, <1>3, <1>5, <1>7, <1>12, <1>14 DEF GreedyNearestGenerator
<1>17. [i \in 1 .. k |-> Split(SubSeq(sorted, (i - 1) * size + 1, i * size))] \in [1 .. k -> Candidate]
  BY <1>15
<1> QED
  BY <1>16, <1>17, SeqDef


(* The combinations of k of the last n items.                              *)
LastItems(items, n) == {items[i] : i \in Len(items) - n + 1 .. Len(items)}
Combos(items, n, k) ==
    {c \in Seq(Nat) :
        Len(c) = k /\ ToSet(c) \subseteq LastItems(items, n) /\ (NoDuplicates(items) => NoDuplicates(c))}

LEMMA WithIs ==
    ASSUME NEW M, NEW item, NEW M2, \A c \in M : <<item>> \o c \in M2, NEW shorter \in Seq(M)
    PROVE  With(item, shorter) \in Seq(M2)
<1>1. PICK n \in Nat : n = Len(shorter) /\ DOMAIN shorter = 1 .. n
  BY LenProperties
<1>2. With(item, shorter) = [i \in 1 .. n |-> <<item>> \o shorter[i]]
  BY <1>1 DEF With
<1>3. \A i \in 1 .. n : shorter[i] \in M
  BY <1>1, ElementOfSeq
<1>4. [i \in 1 .. n |-> <<item>> \o shorter[i]] \in [1 .. n -> M2]
  BY <1>3
<1> QED
  BY <1>2, <1>4, SeqDef

LEMMA CombinationsAre ==
    ASSUME NEW items \in Seq(Nat), NEW size \in Nat
    PROVE  Combinations(items, size) \in Seq(Combos(items, Len(items), size))
<1>1. PICK N \in Nat : N = Len(items) /\ DOMAIN items = 1 .. N
  BY LenProperties
<1>2. PICK T : T = [0 .. size -> Seq(Seq(Nat))]
  OBVIOUS
<1> DEFINE Of(h) == [n \in 0 .. Len(items) |-> [k \in 0 .. size |->
                        IF k = 0 THEN << <<>> >>
                        ELSE IF n = 0 THEN <<>>
                        ELSE With(items[Len(items) - n + 1], h[n - 1][k - 1]) \o h[n - 1][k]]]
<1> DEFINE More(n, t) == [k \in 0 .. size |->
                            IF k = 0 THEN << <<>> >>
                            ELSE With(items[N - n + 1], t[k - 1]) \o t[k]]
<1>3. PICK start : start = [k \in 0 .. size |-> IF k = 0 THEN << <<>> >> ELSE <<>>]
  OBVIOUS
<1>4. PICK step : step = [n \in 1 .. N |-> [t \in T |-> More(n, t)]]
  OBVIOUS
<1>5. PICK none : none = << <<>> >>
  OBVIOUS
<1>6. none \in Seq(Seq(Nat)) /\ Len(none) = 1 /\ none[1] = <<>>
  BY <1>5
<1>7. start \in T
  <2>1. \A k \in 0 .. size : start[k] \in Seq(Seq(Nat))
    BY <1>3, <1>5, <1>6, EmptySeq
  <2> QED
    BY <1>2, <1>3, <2>1
<1>8. \A n \in 1 .. N : items[N - n + 1] \in Nat
  <2>1. \A n \in 1 .. N : N - n + 1 \in 1 .. N
    BY <1>1
  <2> QED
    BY <1>1, <2>1, ElementOfSeq
<1>9. \A k \in 0 .. size : k = 0 \/ (k \in 1 .. size /\ k - 1 \in 0 .. size /\ k # 0)
  OBVIOUS
<1>10. ASSUME NEW n \in 1 .. N, NEW t \in T PROVE More(n, t) \in T
  <2>1. ASSUME NEW k \in 0 .. size, k # 0
        PROVE  With(items[N - n + 1], t[k - 1]) \o t[k] \in Seq(Seq(Nat))
    <3>1. t[k - 1] \in Seq(Seq(Nat)) /\ t[k] \in Seq(Seq(Nat))
      BY <1>2, <1>9, <2>1
    <3>2. \A c \in Seq(Nat) : <<items[N - n + 1]>> \o c \in Seq(Nat)
      BY <1>8
    <3>3. With(items[N - n + 1], t[k - 1]) \in Seq(Seq(Nat))
      BY <3>1, <3>2, WithIs
    <3> QED
      BY <3>1, <3>3, ConcatProperties
  <2> QED
    BY <1>2, <1>5, <1>6, <2>1
<1>11. step \in [1 .. N -> [T -> T]]
  <2> HIDE DEF More
  <2> QED
    BY <1>4, <1>10
<1>12. PICK f : Solves(f, N, T, start, step)
  BY <1>7, <1>11, Recursion
<1>13. \A n \in 0 .. N : n = 0 \/ (n \in 1 .. N /\ n - 1 \in 0 .. N /\ n # 0)
  OBVIOUS
<1>14. f = Of(f)
  <2>1. ASSUME NEW n \in 0 .. N PROVE f[n] = Of(f)[n]
    <3>1. CASE n = 0
      BY <1>1, <1>3, <1>12, <3>1 DEF Solves
    <3>2. CASE n # 0
      <4>1. f[n] = More(n, f[n - 1])
        BY <1>4, <1>12, <1>13, <3>2 DEF Solves
      <4>2. Of(f)[n] = More(n, f[n - 1])
        BY <1>1, <3>2
      <4> QED
        BY <4>1, <4>2
    <3> QED
      BY <3>1, <3>2
  <2> QED
    BY <1>1, <1>12, <2>1 DEF Solves
<1>15. PICK g : g = CHOOSE h : h = Of(h)
  OBVIOUS
<1>16. g = Of(g)
  BY <1>14, <1>15
<1>17. g[0] = start /\ \A n \in 1 .. N : g[n] = More(n, g[n - 1])
  <2>1. 0 \in 0 .. N /\ \A n \in 1 .. N : n \in 0 .. N /\ n # 0
    OBVIOUS
  <2>2. g[0] = start
    BY <1>1, <1>3, <1>16, <2>1
  <2>3. \A n \in 1 .. N : g[n] = More(n, g[n - 1])
    BY <1>1, <1>16, <2>1
  <2> QED
    BY <2>2, <2>3
<1>18. Combinations(items, size) = g[N][size]
  BY <1>1, <1>15 DEF Combinations
<1> HIDE DEF Of
<1>19. PICK I : I = [n \in 0 .. N |->
           {t \in T : \A k \in 0 .. size : t[k] \in Seq(Combos(items, n, k))}]
  OBVIOUS
<1>20. \A n \in 0 .. N : <<>> \in Combos(items, n, 0)
  <2>1. PICK e \in Seq(Nat) : e = <<>>
    BY EmptySeq
  <2>2. Len(e) = 0 /\ DOMAIN e = {}
    BY <2>1
  <2>3. ToSet(e) = {} /\ NoDuplicates(e)
    BY <2>2 DEF ToSet, NoDuplicates
  <2> QED
    BY <2>1, <2>2, <2>3 DEF Combos
<1>21. \A n \in 0 .. N : none \in Seq(Combos(items, n, 0))
  BY <1>5, <1>20
<1>22. g[0] \in I[0]
  <2>1. 0 \in 0 .. N
    OBVIOUS
  <2>2. \A k \in 0 .. size : start[k] \in Seq(Combos(items, 0, k))
    BY <1>3, <1>5, <1>21, <2>1, EmptySeq
  <2> QED
    BY <1>7, <1>17, <1>19, <2>1, <2>2
<1>23. ASSUME NEW n \in 1 .. N, g[n - 1] \in I[n - 1] PROVE g[n] \in I[n]
  <2>1. n \in 0 .. N /\ n - 1 \in 0 .. N
    BY <1>13
  <2>2. PICK t \in T : t = g[n - 1]
    BY <1>19, <1>23, <2>1
  <2>3. \A k \in 0 .. size : t[k] \in Seq(Combos(items, n - 1, k))
    BY <1>19, <1>23, <2>1, <2>2
  <2>4. PICK item \in Nat : item = items[N - n + 1]
    BY <1>8
  <2>5. N - n + 1 \in 1 .. N /\ N - (n - 1) + 1 = (N - n + 1) + 1
    OBVIOUS
  <2>6. item \in LastItems(items, n) /\ LastItems(items, n - 1) \subseteq LastItems(items, n)
    <3>1. N - n + 1 \in N - n + 1 .. N
      BY <2>5
    <3>2. \A i \in N - (n - 1) + 1 .. N : i \in N - n + 1 .. N
      BY <2>5
    <3> QED
      BY <1>1, <2>4, <3>1, <3>2 DEF LastItems
  <2>7. NoDuplicates(items) => item \notin LastItems(items, n - 1)
    <3> SUFFICES ASSUME NoDuplicates(items), NEW i \in N - (n - 1) + 1 .. N, item = items[i] PROVE FALSE
      BY <1>1 DEF LastItems
    <3>1. i \in 1 .. N /\ i # N - n + 1
      BY <2>5
    <3> QED
      BY <1>1, <2>4, <2>5, <3>1 DEF NoDuplicates
  <2>8. ASSUME NEW k \in 1 .. size, NEW c \in Combos(items, n - 1, k - 1)
        PROVE  <<item>> \o c \in Combos(items, n, k)
    <3>1. PICK one : one = <<item>>
      OBVIOUS
    <3>2. one \in Seq(Nat) /\ Len(one) = 1 /\ ToSet(one) = {item} /\ NoDuplicates(one)
      <4>1. one \in Seq(Nat) /\ Len(one) = 1 /\ DOMAIN one = 1 .. 1 /\ one[1] = item
        BY <3>1
      <4>2. 1 .. 1 = {1}
        OBVIOUS
      <4> QED
        BY <4>1, <4>2 DEF ToSet, NoDuplicates
    <3>3. /\ c \in Seq(Nat) /\ Len(c) = k - 1 /\ ToSet(c) \subseteq LastItems(items, n - 1)
          /\ NoDuplicates(items) => NoDuplicates(c)
      BY DEF Combos
    <3>4. PICK longer : longer = one \o c
      OBVIOUS
    <3>5. /\ longer \in Seq(Nat) /\ Len(longer) = 1 + (k - 1) /\ ToSet(longer) = {item} \cup ToSet(c)
          /\ NoDuplicates(c) /\ {item} \cap ToSet(c) = {} => NoDuplicates(longer)
      <4>1. c \in Seq(Nat)
        BY <3>3
      <4>2. longer \in Seq(Nat) /\ Len(longer) = Len(one) + Len(c)
        BY <3>2, <3>4, <4>1, ConcatProperties
      <4>3. ToSet(longer) = ToSet(one) \cup ToSet(c)
        BY <3>2, <3>4, <4>1, Joined
      <4>4. NoDuplicates(one) /\ NoDuplicates(c) /\ ToSet(one) \cap ToSet(c) = {} => NoDuplicates(longer)
        BY <3>2, <3>4, <4>1, Joined
      <4> QED
        BY <3>2, <3>3, <4>2, <4>3, <4>4
    <3>6. Len(longer) = k
      BY <3>5
    <3>7. ToSet(longer) \subseteq LastItems(items, n)
      BY <2>6, <3>3, <3>5
    <3>8. NoDuplicates(items) => NoDuplicates(longer)
      BY <2>7, <3>3, <3>5
    <3> QED
      BY <3>1, <3>4, <3>5, <3>6, <3>7, <3>8 DEF Combos
  <2>9. \A k \in 0 .. size : Combos(items, n - 1, k) \subseteq Combos(items, n, k)
    BY <2>6 DEF Combos
  <2>10. ASSUME NEW k \in 0 .. size PROVE More(n, t)[k] \in Seq(Combos(items, n, k))
    <3>1. CASE k = 0
      BY <1>5, <1>21, <2>1, <3>1
    <3>2. CASE k # 0
      <4>1. k \in 1 .. size /\ k - 1 \in 0 .. size
        BY <3>2
      <4>2. PICK shorter \in Seq(Combos(items, n - 1, k - 1)) : shorter = t[k - 1]
        BY <2>3, <4>1
      <4>3. With(item, shorter) \in Seq(Combos(items, n, k))
        BY <2>8, <4>1, WithIs
      <4>4. PICK same : same = t[k]
        OBVIOUS
      <4>5. same \in Seq(Combos(items, n, k))
        BY <2>3, <2>9, <4>4, SeqMonotonic
      <4>6. With(item, shorter) \o same \in Seq(Combos(items, n, k))
        BY <4>3, <4>5, ConcatProperties
      <4> QED
        BY <2>4, <3>2, <4>2, <4>4, <4>6
    <3> QED
      BY <3>1, <3>2
  <2>11. g[n] = More(n, t)
    BY <1>17, <2>2
  <2>12. More(n, t) \in T
    BY <1>10
  <2> HIDE DEF More
  <2> QED
    BY <1>19, <2>1, <2>10, <2>11, <2>12
<1>24. g[N] \in I[N]
  BY <1>22, <1>23, Leads
<1>25. g[N][size] \in Seq(Combos(items, N, size))
  <2>1. N \in 0 .. N /\ size \in 0 .. size
    OBVIOUS
  <2> QED
    BY <1>19, <1>24, <2>1
<1> QED
  BY <1>1, <1>18, <1>25

LEMMA ExhaustiveAreCandidates ==
    ASSUME Given
    PROVE  ExhaustiveGenerator \in Seq(Candidate)
<1>1. PICK players \in Seq(Nat) : players = Queued /\ DOMAIN players = 1 .. Len(players)
  BY Inputs
<1>2. PICK size \in Nat : size = Total
  BY TotalIs
<1>3. PICK combos \in Seq(Combos(players, Len(players), size)) : combos = Combinations(players, size)
  BY CombinationsAre
<1>4. PICK n \in Nat : n = Len(combos) /\ DOMAIN combos = 1 .. n
  BY LenProperties
<1>5. LastItems(players, Len(players)) \subseteq Who
  <2>1. \A i \in Len(players) - Len(players) + 1 .. Len(players) : i \in 1 .. Len(players)
    BY LenProperties
  <2> QED
    BY <1>1, <2>1 DEF LastItems, Who, ToSet
<1>6. ASSUME NEW i \in 1 .. n PROVE Split(combos[i]) \in Candidate
  <2>1. PICK c \in Combos(players, Len(players), size) : c = combos[i]
    BY <1>4, ElementOfSeq
  <2>2. /\ c \in Seq(Nat) /\ Len(c) = Total /\ ToSet(c) \subseteq Who
        /\ NoDuplicates(Queued) => NoDuplicates(c)
    BY <1>1, <1>2, <1>5 DEF Combos
  <2> QED
    BY <2>1, <2>2, DrawIsCandidate
<1>7. ExhaustiveGenerator = [i \in 1 .. n |-> Split(combos[i])]
  BY <1>1, <1>2, <1>3, <1>4 DEF ExhaustiveGenerator
<1>8. [i \in 1 .. n |-> Split(combos[i])] \in [1 .. n -> Candidate]
  BY <1>6
<1> QED
  BY <1>7, <1>8, SeqDef


(***************************************************************************)
(* The selection policies                                                  *)
(***************************************************************************)

(* What a policy's choice must be.                                         *)
Selects(name, s, choice) ==
    /\ ToSet(choice) \subseteq ToSet(s)
    /\ name = "greedy" => \A m \in ToSet(choice), n \in ToSet(s) : WeightedSum(m) >= WeightedSum(n)
    /\ name = "lexicographic" =>
          \A m \in ToSet(choice), n \in ToSet(s) :
              /\ SkillBalance(m) + Tolerance >= SkillBalance(n)
              /\ AsBalanced(n, s) => Latency(m) + Tolerance >= Latency(n)
    /\ name = "threshold" /\ choice # <<>> =>
          \E i \in DOMAIN s :
              /\ choice = <<s[i]>> /\ WeightedSum(s[i]) >= MinQuality
              /\ \A j \in 1..(i - 1) : WeightedSum(s[j]) < MinQuality
    /\ choice = <<>> =>
          \A m \in ToSet(s) :
              \/ name = "threshold" /\ WeightedSum(m) < MinQuality
              \/ name = "admissible" /\ PolicyScore(m) = None
    /\ name = "admissible" => \A m \in ToSet(choice) : PartyRegistry!IntegrityKept(Players(m))

LEMMA MaxIsLargest ==
    ASSUME NEW n \in Nat, NEW T \in SUBSET (0 .. n), T # {}
    PROVE  Max(T) \in T /\ \A y \in T : y <= Max(T)
<1>1. PICK U : U = {n - x : x \in T}
  OBVIOUS
<1>2. U \in SUBSET Nat /\ U # {}
  <2>1. \A x \in T : n - x \in Nat
    OBVIOUS
  <2>2. PICK x : x \in T
    OBVIOUS
  <2>3. n - x \in U
    BY <1>1, <2>2
  <2> QED
    BY <1>1, <2>1, <2>3
<1>3. PICK u \in U : \A y \in U : u <= y
  BY <1>2, Least
<1>4. PICK x \in T : u = n - x
  BY <1>1
<1>5. \A y \in T : n - y \in U /\ y \in Int
  BY <1>1
<1>6. \A y \in T : x >= y
  <2> SUFFICES ASSUME NEW y \in T PROVE x >= y
    OBVIOUS
  <2>1. u <= n - y /\ y \in Int /\ x \in Int
    BY <1>3, <1>5
  <2> QED
    BY <1>4, <2>1
<1>7. \A y \in T : Max(T) >= y /\ Max(T) \in T
  BY <1>6 DEF Max
<1> QED
  BY <1>5, <1>7

LEMMA MatchScores ==
    ASSUME Given, NEW m \in Match
    PROVE  SkillBalance(m) \in Int /\ Latency(m) \in Int /\ WaitTime(m) \in Int /\ WeightedSum(m) \in Int
<1>1. PICK a \in Seq(Nat) : a = m.team_a
  BY DEF Match
<1>2. PICK b \in Seq(Nat) : b = m.team_b
  BY DEF Match
<1>3. m = ProposedMatch(a, b)
  BY <1>1, <1>2 DEF Match, ProposedMatch
<1> QED
  BY <1>3, ScoresAreNumbers DEF WaitTime

(* The one element of a sequence of one.                                   *)
LEMMA Single ==
    ASSUME NEW x
    PROVE  ToSet(<<x>>) = {x} /\ <<x>> # <<>>
<1>1. PICK one : one = <<x>>
  OBVIOUS
<1>2. DOMAIN one = 1 .. 1 /\ one[1] = x /\ 1 .. 1 = {1}
  BY <1>1
<1>3. ToSet(one) = {x}
  BY <1>2 DEF ToSet
<1> QED
  BY <1>1, <1>3

LEMMA GreedySelects ==
    ASSUME Given, NEW s \in Seq(Match)
    PROVE  Selects("greedy", s, GreedySelection(s))
<1>1. PICK n \in Nat : n = Len(s) /\ DOMAIN s = 1 .. n
  BY LenProperties
<1>2. \A i \in 1 .. n : s[i] \in Match
  BY <1>1, ElementOfSeq
<1>3. CASE s = <<>>
  <2>1. GreedySelection(s) = s /\ ToSet(s) = {}
    BY <1>3 DEF GreedySelection, ToSet
  <2> QED
    BY <2>1 DEF Selects
<1>4. CASE s # <<>>
  <2>1. n \in Nat \ {0}
    BY <1>1, <1>4, EmptySeq
  <2>2. PICK key : key = [i \in 1 .. n |-> WeightedSum(s[i])]
    OBVIOUS
  <2>3. key \in [1 .. n -> Int]
    BY <1>2, <2>2, MatchScores
  <2>4. PICK best : best = {i \in 1 .. n : \A j \in 1 .. n : WeightedSum(s[i]) >= WeightedSum(s[j])}
    OBVIOUS
  <2>5. best # {}
    BY <2>1, <2>2, <2>3, <2>4, Largest
  <2>6. best \in SUBSET (0 .. n)
    BY <2>4
  <2>7. PICK i \in best : i = Max(best)
    BY <2>5, <2>6, MaxIsLargest
  <2>8. GreedySelection(s) = <<s[i]>>
    BY <1>1, <1>4, <2>4, <2>7 DEF GreedySelection
  <2>9. ToSet(<<s[i]>>) = {s[i]} /\ <<s[i]>> # <<>>
    BY Single
  <2>10. i \in 1 .. n /\ \A j \in 1 .. n : WeightedSum(s[i]) >= WeightedSum(s[j])
    BY <2>4
  <2>11. s[i] \in ToSet(s) /\ \A m \in ToSet(s) : WeightedSum(s[i]) >= WeightedSum(m)
    BY <1>1, <2>10 DEF ToSet
  <2> QED
    BY <2>8, <2>9, <2>11 DEF Selects
<1> QED
  BY <1>3, <1>4

LEMMA ThresholdSelects ==
    ASSUME Given, NEW s \in Seq(Match)
    PROVE  Selects("threshold", s, ThresholdSelection(s))
<1>1. PICK n \in Nat : n = Len(s) /\ DOMAIN s = 1 .. n
  BY LenProperties
<1>2. PICK ok : ok = {i \in 1 .. n : WeightedSum(s[i]) >= MinQuality}
  OBVIOUS
<1>3. CASE ok = {}
  <2>1. ThresholdSelection(s) = <<>>
    BY <1>1, <1>2, <1>3 DEF ThresholdSelection
  <2>2. ASSUME NEW m \in ToSet(s) PROVE WeightedSum(m) < MinQuality
    <3>1. PICK i \in 1 .. n : m = s[i]
      BY <1>1 DEF ToSet
    <3>2. WeightedSum(m) \in Int /\ MinQuality \in Int
      BY <1>1, <3>1, ElementOfSeq, MatchScores, LibraryAssumption
    <3>3. ~(WeightedSum(m) >= MinQuality)
      BY <1>2, <1>3, <3>1
    <3> QED
      BY <3>2, <3>3
  <2>3. ToSet(<<>>) = {}
    BY DEF ToSet
  <2> QED
    BY <2>1, <2>2, <2>3 DEF Selects
<1>4. CASE ok # {}
  <2>1. ok \in SUBSET Nat
    BY <1>2
  <2>2. PICK i \in ok : i = Min(ok)
    BY <1>4, <2>1, MinIsLeast
  <2>3. ThresholdSelection(s) = <<s[i]>>
    BY <1>1, <1>2, <1>4, <2>2 DEF ThresholdSelection
  <2>4. ToSet(<<s[i]>>) = {s[i]} /\ <<s[i]>> # <<>>
    BY Single
  <2>5. s[i] \in ToSet(s)
    BY <1>1, <1>2 DEF ToSet
  <2>6. i \in 1 .. n /\ WeightedSum(s[i]) >= MinQuality
    BY <1>2
  <2>7. ASSUME NEW j \in 1 .. (i - 1) PROVE WeightedSum(s[j]) < MinQuality
    <3>1. j \in 1 .. n /\ j < i
      BY <2>6
    <3>2. j \notin ok
      BY <1>4, <2>1, <2>2, <3>1, MinIsLeast
    <3>3. WeightedSum(s[j]) \in Int /\ MinQuality \in Int
      BY <1>1, <3>1, ElementOfSeq, MatchScores, LibraryAssumption
    <3>4. ~(WeightedSum(s[j]) >= MinQuality)
      BY <1>2, <3>1, <3>2
    <3> QED
      BY <3>3, <3>4
  <2> QED
    BY <1>1, <2>3, <2>4, <2>5, <2>6, <2>7 DEF Selects
<1> QED
  BY <1>3, <1>4

LEMMA AdmissibleSelects ==
    ASSUME Given, NEW s \in Seq(Match)
    PROVE  Selects("admissible", s, Keep(s, {m \in ToSet(s) : PolicyScore(m) # None}))
<1>1. PICK S : S = {m \in ToSet(s) : PolicyScore(m) # None}
  OBVIOUS
<1>2. PICK kept : kept = Keep(s, S)
  OBVIOUS
<1>3. ToSet(kept) = ToSet(s) \cap S
  BY <1>2, Kept
<1>4. ASSUME NEW m \in ToSet(kept) PROVE PartyRegistry!IntegrityKept(Players(m))
  <2>1. PolicyScore(m) # None
    BY <1>1, <1>3
  <2>2. PartyIntegrity(m)
    BY <2>1 DEF PolicyScore, HardConstraints
  <2>3. SUFFICES ASSUME NEW id \in {world[p].party : p \in DOMAIN world} \ {None},
                        Members(id) \cap Players(m) # {}
                 PROVE  Members(id) \subseteq Players(m)
    BY DEF PartyRegistry!IntegrityKept
  <2>4. PICK p \in Players(m) : p \in DOMAIN world /\ world[p].party = id
    BY <2>3 DEF Members
  <2>5. world[p].party # None
    BY <2>3, <2>4
  <2> QED
    BY <2>2, <2>4, <2>5 DEF PartyIntegrity
<1>5. ASSUME kept = <<>>, NEW m \in ToSet(s) PROVE PolicyScore(m) = None
  <2>1. ToSet(kept) = {}
    BY <1>5 DEF ToSet
  <2> QED
    BY <1>1, <1>3, <2>1
<1> QED
  BY <1>1, <1>2, <1>3, <1>4, <1>5 DEF Selects

(* The best candidates by one objective.                                   *)
LEMMA KeepBestIs ==
    ASSUME Given, NEW s \in Seq(Match), s # <<>>, NEW k \in 1 .. 3
    PROVE  /\ KeepBest(s, k) \in Seq(Match) /\ KeepBest(s, k) # <<>>
           /\ ToSet(KeepBest(s, k)) \subseteq ToSet(s)
           /\ \A m \in ToSet(KeepBest(s, k)), n \in ToSet(s) :
                 /\ Objectives(m)[k] + Tolerance >= Objectives(n)[k]
                 /\ (\A x \in ToSet(s) : Objectives(n)[k] >= Objectives(x)[k] - Tolerance)
                       => n \in ToSet(KeepBest(s, k))
<1>1. PICK n \in Nat : n = Len(s) /\ DOMAIN s = 1 .. n
  BY LenProperties
<1>2. n \in Nat \ {0}
  BY <1>1, EmptySeq
<1>3. PICK key : key = [i \in 1 .. n |-> Objectives(s[i])[k]]
  OBVIOUS
<1>4. key \in [1 .. n -> Int]
  <2>1. ASSUME NEW i \in 1 .. n PROVE Objectives(s[i])[k] \in Int
    <3>1. PICK m \in Match : m = s[i]
      BY <1>1, ElementOfSeq
    <3>2. Objectives(m)[1] = SkillBalance(m) /\ Objectives(m)[2] = Latency(m) /\ Objectives(m)[3] = WaitTime(m)
      BY DEF Objectives
    <3>3. k = 1 \/ k = 2 \/ k = 3
      OBVIOUS
    <3>4. SkillBalance(m) \in Int /\ Latency(m) \in Int /\ WaitTime(m) \in Int
      BY MatchScores
    <3> QED
      BY <3>1, <3>2, <3>3, <3>4
  <2> QED
    BY <1>3, <2>1
<1>5. PICK top \in 1 .. n : \A j \in 1 .. n : key[top] >= key[j]
  BY <1>2, <1>4, Largest
<1>6. PICK scores : scores = {Objectives(s[i])[k] : i \in DOMAIN s}
  OBVIOUS
<1>7. scores = {key[i] : i \in 1 .. n}
  BY <1>1, <1>3, <1>6
<1>8. PICK best : best = Max(scores)
  OBVIOUS
<1>9. best \in scores /\ \A y \in scores : best >= y
  <2>1. key[top] \in scores /\ \A y \in scores : key[top] >= y
    BY <1>5, <1>7
  <2> QED
    BY <1>8, <2>1 DEF Max
<1>10. PICK S : S = {m \in ToSet(s) : Objectives(m)[k] >= best - Tolerance}
  OBVIOUS
<1>11. PICK kept : kept = KeepBest(s, k)
  OBVIOUS
<1>12. kept = Keep(s, S)
  BY <1>6, <1>8, <1>10, <1>11 DEF KeepBest
<1>13. kept \in Seq(Match) /\ ToSet(kept) = S
  <2>1. kept \in Seq(Match) /\ ToSet(kept) = ToSet(s) \cap S
    BY <1>12, Kept
  <2> QED
    BY <1>10, <2>1
<1>14. PICK i \in 1 .. n : Objectives(s[i])[k] = best
  BY <1>1, <1>6, <1>9
<1>15. s[i] \in ToSet(kept)
  <2>1. best \in Int /\ Tolerance \in Nat
    BY <1>4, <1>7, <1>9, LibraryAssumption
  <2>2. best >= best - Tolerance
    BY <2>1
  <2>3. s[i] \in ToSet(s)
    BY <1>1 DEF ToSet
  <2>4. s[i] \in S
    BY <1>10, <1>14, <2>2, <2>3
  <2> QED
    BY <1>13, <2>4
<1>16. kept # <<>>
  <2>1. ToSet(<<>>) = {}
    BY DEF ToSet
  <2> QED
    BY <1>15, <2>1
<1>17. \A m \in ToSet(s) : Objectives(m)[k] \in scores
  BY <1>1, <1>6 DEF ToSet
<1>18. scores \in SUBSET Int /\ Tolerance \in Nat
  BY <1>4, <1>7, LibraryAssumption
<1>19. ASSUME NEW m \in ToSet(kept), NEW x \in ToSet(s)
       PROVE  Objectives(m)[k] + Tolerance >= Objectives(x)[k]
  <2>1. m \in ToSet(s) /\ Objectives(m)[k] >= best - Tolerance
    BY <1>10, <1>13
  <2>2. PICK a \in Int : a = Objectives(m)[k]
    BY <1>17, <1>18, <2>1
  <2>3. PICK b \in Int : b = Objectives(x)[k] /\ best >= b /\ best \in Int
    BY <1>9, <1>17, <1>18
  <2>4. a + Tolerance >= b
    BY <1>18, <2>1, <2>2, <2>3
  <2> QED
    BY <2>2, <2>3, <2>4
<1>20. ASSUME NEW x \in ToSet(s), \A y \in ToSet(s) : Objectives(x)[k] >= Objectives(y)[k] - Tolerance
       PROVE  x \in ToSet(kept)
  <2>1. s[i] \in ToSet(s)
    BY <1>1 DEF ToSet
  <2>2. Objectives(x)[k] >= best - Tolerance
    BY <1>14, <1>20, <2>1
  <2> QED
    BY <1>10, <1>13, <2>2
<1>21. ToSet(kept) \subseteq ToSet(s)
  BY <1>10, <1>13
<1> QED
  BY <1>11, <1>13, <1>16, <1>19, <1>20, <1>21

LEMMA LexicographicSelects ==
    ASSUME Given, NEW s \in Seq(Match)
    PROVE  Selects("lexicographic", s, LexicographicSelection(s))
<1>1. CASE s = <<>>
  <2>1. LexicographicSelection(s) = s /\ ToSet(s) = {}
    BY <1>1 DEF LexicographicSelection, ToSet
  <2> QED
    BY <2>1 DEF Selects
<1>2. CASE s # <<>>
  <2>1. 1 \in 1 .. 3 /\ 2 \in 1 .. 3 /\ 3 \in 1 .. 3
    OBVIOUS
  <2>2. PICK first : first = KeepBest(s, 1)
    OBVIOUS
  <2>3. first \in Seq(Match) /\ first # <<>> /\ ToSet(first) \subseteq ToSet(s)
    BY <1>2, <2>1, <2>2, KeepBestIs
  <2>4. PICK second : second = KeepBest(first, 2)
    OBVIOUS
  <2>5. second \in Seq(Match) /\ second # <<>> /\ ToSet(second) \subseteq ToSet(first)
    BY <2>1, <2>3, <2>4, KeepBestIs
  <2>6. PICK third : third = KeepBest(second, 3)
    OBVIOUS
  <2>7. third \in Seq(Match) /\ third # <<>> /\ ToSet(third) \subseteq ToSet(second)
    BY <2>1, <2>5, <2>6, KeepBestIs
  <2>8. LexicographicSelection(s) = third
    BY <1>2, <2>2, <2>4, <2>6 DEF LexicographicSelection
  <2>9. ASSUME NEW m \in ToSet(third), NEW n \in ToSet(s)
        PROVE  /\ SkillBalance(m) + Tolerance >= SkillBalance(n)
               /\ AsBalanced(n, s) => Latency(m) + Tolerance >= Latency(n)
    <3>1. m \in ToSet(second) /\ m \in ToSet(first) /\ m \in ToSet(s)
      BY <2>3, <2>5, <2>7
    <3>2. \A x : Objectives(x)[1] = SkillBalance(x) /\ Objectives(x)[2] = Latency(x)
      BY DEF Objectives
    <3>3. Objectives(m)[1] + Tolerance >= Objectives(n)[1]
      BY <1>2, <2>1, <2>2, <3>1, KeepBestIs
    <3>4. AsBalanced(n, s) => \A x \in ToSet(s) : Objectives(n)[1] >= Objectives(x)[1] - Tolerance
      BY <3>2 DEF AsBalanced
    <3>5. AsBalanced(n, s) => n \in ToSet(first)
      BY <1>2, <2>1, <2>2, <3>1, <3>4, KeepBestIs
    <3>6. n \in ToSet(first) => Objectives(m)[2] + Tolerance >= Objectives(n)[2]
      BY <2>1, <2>3, <2>4, <3>1, KeepBestIs
    <3> QED
      BY <3>2, <3>3, <3>5, <3>6
  <2> QED
    BY <2>3, <2>5, <2>7, <2>8, <2>9 DEF Selects
<1> QED
  BY <1>1, <1>2


(***************************************************************************)
(* What every behaviour keeps                                              *)
(***************************************************************************)

(* Candidates are matches that the strategy's run promises to be sound and *)
(* to be as many as there are players for.                                 *)
Sound(name, s) ==
    name \in {"greedy", "beam"} \/ NoDuplicates(Queued) =>
        /\ \A i \in DOMAIN s : Proper(s[i])
        /\ name \in Searches =>
              \A i, j \in DOMAIN s : i # j => Players(s[i]) \cap Players(s[j]) = {}
Counts(name, s) ==
    name \in Searches /\ NoDuplicates(Queued) => Len(s) = Len(queue) \div Total
Promised(name, s) == s \in Seq(Match) /\ Sound(name, s) /\ (Width > 0 => Counts(name, s))

LEMMA ReachedIsPromised ==
    ASSUME Given, NEW acc \in Reached(Len(queue)), NEW name
    PROVE  Promised(name, acc.found)
<1>1. PICK s : s = acc.found
  OBVIOUS
<1>2. acc \in SoundAcc /\ (Width > 0 /\ NoDuplicates(Queued) => Len(s) = Len(queue) \div Total)
  BY <1>1, AllTurns
<1>3. s \in Seq(Match)
  BY <1>1, <1>2 DEF SoundAcc, Acc
<1>4. PICK n \in Nat : n = Len(s) /\ DOMAIN s = 1 .. n
  BY <1>3, LenProperties
<1>5. /\ \A i \in 1 .. n : Proper(s[i])
      /\ \A i, j \in 1 .. n : i # j => Players(s[i]) \cap Players(s[j]) = {}
  BY <1>1, <1>2, <1>4 DEF SoundAcc
<1> QED
  BY <1>1, <1>2, <1>3, <1>4, <1>5 DEF Promised, Sound, Counts

LEMMA CandidatesArePromised ==
    ASSUME Given, NEW s \in Seq(Candidate), NEW name \in {"exhaustive", "nearest", "samples"}
    PROVE  Promised(name, s)
<1>1. PICK n \in Nat : n = Len(s) /\ DOMAIN s = 1 .. n
  BY LenProperties
<1>2. \A i \in 1 .. n : s[i] \in Candidate
  BY <1>1, ElementOfSeq
<1>3. name \notin {"greedy", "random", "beam"}
  OBVIOUS
<1>4. Candidate \subseteq Match
  BY DEF Candidate
<1>5. s \in Seq(Match)
  BY <1>4, SeqMonotonic
<1>6. NoDuplicates(Queued) => \A i \in DOMAIN s : Proper(s[i])
  BY <1>1, <1>2 DEF Candidate
<1> QED
  BY <1>3, <1>5, <1>6 DEF Promised, Sound, Counts, Searches

(* The strategies and generators.                                          *)
LEMMA FindsPromised ==
    ASSUME Given
    PROVE  /\ \A s \in {GreedySearch} : Promised("greedy", s)
           /\ \A s \in RandomSearches : Promised("random", s)
           /\ \A s \in {BeamSearch} : Promised("beam", s)
           /\ \A s \in {ExhaustiveGenerator} : Promised("exhaustive", s)
           /\ \A s \in {GreedyNearestGenerator} : Promised("nearest", s)
           /\ \A s \in RandomSamples : Promised("samples", s)
<1>1. Promised("greedy", GreedySearch)
  BY GreedySearchIs, ReachedIsPromised
<1>2. ASSUME NEW s \in RandomSearches PROVE Promised("random", s)
  <2>1. CASE NoDuplicates(Queued)
    BY <2>1, RandomSearchIs, ReachedIsPromised
  <2>2. CASE ~NoDuplicates(Queued)
    <3>1. s \in Seq(Match) /\ "random" \notin {"greedy", "beam"}
      BY RandomSearchIs
    <3> QED
      BY <2>2, <3>1 DEF Promised, Sound, Counts
  <2> QED
    BY <2>1, <2>2
<1>3. Promised("beam", BeamSearch)
  BY BeamSearchIs, ReachedIsPromised
<1>4. Promised("exhaustive", ExhaustiveGenerator)
  BY ExhaustiveAreCandidates, CandidatesArePromised
<1>5. Promised("nearest", GreedyNearestGenerator)
  BY NearestAreCandidates, CandidatesArePromised
<1>6. \A s \in RandomSamples : Promised("samples", s)
  BY SamplesAreCandidates, CandidatesArePromised
<1> QED
  BY <1>1, <1>2, <1>3, <1>4, <1>5, <1>6

Found == IF strategy = None THEN candidates = <<>> ELSE Promised(strategy, candidates)
IInv == Given /\ Found /\ (policy # None => strategy # None) /\ SelectionSound

LEMMA FoundIsMatches ==
    ASSUME IInv
    PROVE  candidates \in Seq(Match)
<1>1. <<>> \in Seq(Match)
  BY EmptySeq
<1> QED
  BY <1>1 DEF IInv, Found, Promised

LEMMA InitIInv == Init => IInv
<1> SUFFICES ASSUME Init PROVE IInv
  OBVIOUS
<1>1. policy \notin {"greedy", "lexicographic", "threshold", "admissible"}
  BY NoneAssumption DEF Init
<1> QED
  BY <1>1 DEF Init, IInv, Given, Found, SelectionSound

(* A choice stays what it must be while the world and the candidates stay. *)
LEMMA SelectsAgain ==
    ASSUME NEW name, NEW choice, world' = world, candidates' = candidates,
           Selects(name, candidates, choice)
    PROVE  Selects(name, candidates, choice)'
<1>1. \A m : /\ WeightedSum(m)' = WeightedSum(m)
            /\ SkillBalance(m)' = SkillBalance(m) /\ Latency(m)' = Latency(m)
            /\ AsBalanced(m, candidates)' = AsBalanced(m, candidates)
  BY DEF AsBalanced, WeightedSum, SkillBalance, Latency, WaitTime, MatchQuality, AverageRating, Ratings
<1>2. \A m : PolicyScore(m)' = PolicyScore(m)
  <2>1. \A m : HardConstraints(m)' <=> HardConstraints(m)
    BY DEF HardConstraints, PartyIntegrity, RoleConstraint, MaxLatency, RegionConstraint,
           Members, MeetsRoles, WithRole
  <2> QED
    BY <1>1, <2>1 DEF PolicyScore
<1>3. \A m : PartyRegistry!IntegrityKept(Players(m))' <=> PartyRegistry!IntegrityKept(Players(m))
  BY DEF PartyRegistry!IntegrityKept, Members
<1> QED
  BY <1>1, <1>2, <1>3 DEF Selects

LEMMA NextIInv ==
    ASSUME IInv, [Next]_vars
    PROVE  IInv'
<1>1. ASSUME NEW name \in {"greedy", "random", "beam", "exhaustive", "nearest", "samples"},
             NEW proposals, Find(name, proposals), \A s \in proposals : Promised(name, s)
      PROVE  IInv'
  <2>1. world' = world /\ queue' = queue /\ policy' = policy /\ chosen' = chosen
    BY <1>1 DEF Find
  <2>2. strategy' = name /\ candidates' \in proposals /\ strategy = None
    BY <1>1 DEF Find
  <2>3. Promised(name, candidates')
    BY <1>1, <2>2
  <2>4. Given'
    BY <2>1 DEF IInv, Given
  <2>5. Queued' = Queued
    BY <2>1 DEF Queued
  <2>6. Promised(strategy, candidates)'
    BY <2>1, <2>2, <2>3, <2>5 DEF Promised, Sound, Counts, Proper, Who
  <2>7. Found'
    BY <2>2, <2>6, NoneAssumption DEF Found
  <2>8. policy = None
    BY <2>2 DEF IInv
  <2>9. SelectionSound'
    BY <2>1, <2>8, NoneAssumption DEF SelectionSound
  <2> QED
    BY <2>1, <2>4, <2>7, <2>8, <2>9 DEF IInv
<1>2. ASSUME NEW name \in {"greedy", "weighted", "lexicographic", "threshold", "admissible"},
             NEW choice, Choose(name, choice),
             name # "weighted" => Selects(name, candidates, choice)
      PROVE  IInv'
  <2>1. world' = world /\ queue' = queue /\ strategy' = strategy /\ candidates' = candidates
    BY <1>2 DEF Choose
  <2>2. policy' = name /\ chosen' = choice /\ strategy # None
    BY <1>2 DEF Choose
  <2>3. Given' /\ Queued' = Queued
    BY <2>1 DEF IInv, Given, Queued
  <2>4. Found'
    BY <2>1, <2>3 DEF IInv, Found, Promised, Sound, Counts, Proper, Who
  <2>5. SelectionSound'
    <3>1. CASE name = "weighted"
      BY <2>2, <3>1 DEF SelectionSound
    <3>2. CASE name # "weighted"
      <4>1. Selects(name, candidates, choice)
        BY <1>2, <3>2
      <4>2. Selects(name, candidates, choice)'
        BY <2>1, <4>1, SelectsAgain
      <4> QED
        BY <2>1, <2>2, <4>2 DEF SelectionSound, Selects
    <3> QED
      BY <3>1, <3>2
  <2> QED
    BY <2>1, <2>2, <2>3, <2>4, <2>5 DEF IInv
<1> USE DEF IInv
<1>3. CASE RunGreedySearch
  BY <1>1, <1>3, FindsPromised DEF RunGreedySearch
<1>4. CASE RunRandomSearch
  BY <1>1, <1>4, FindsPromised DEF RunRandomSearch
<1>5. CASE RunBeamSearch
  BY <1>1, <1>5, FindsPromised DEF RunBeamSearch
<1>6. CASE RunExhaustive
  BY <1>1, <1>6, FindsPromised DEF RunExhaustive
<1>7. CASE RunGreedyNearest
  BY <1>1, <1>7, FindsPromised DEF RunGreedyNearest
<1>8. CASE RunRandomSamples
  BY <1>1, <1>8, FindsPromised DEF RunRandomSamples
<1>9. PICK s \in Seq(Match) : s = candidates
  BY FoundIsMatches
<1>10. CASE ChooseGreedy
  <2>1. PICK choice : choice = GreedySelection(candidates)
    OBVIOUS
  <2>2. Selects("greedy", candidates, choice)
    BY <1>9, <2>1, GreedySelects
  <2> QED
    BY <1>2, <1>10, <2>1, <2>2 DEF ChooseGreedy
<1>11. CASE ChooseWeighted
  <2>1. PICK choice : choice = WeightedSelection(candidates)
    OBVIOUS
  <2> QED
    BY <1>2, <1>11, <2>1 DEF ChooseWeighted
<1>12. CASE ChooseLexicographic
  <2>1. PICK choice : choice = LexicographicSelection(candidates)
    OBVIOUS
  <2>2. Selects("lexicographic", candidates, choice)
    BY <1>9, <2>1, LexicographicSelects
  <2> QED
    BY <1>2, <1>12, <2>1, <2>2 DEF ChooseLexicographic
<1>13. CASE ChooseThreshold
  <2>1. PICK choice : choice = ThresholdSelection(candidates)
    OBVIOUS
  <2>2. Selects("threshold", candidates, choice)
    BY <1>9, <2>1, ThresholdSelects
  <2> QED
    BY <1>2, <1>13, <2>1, <2>2 DEF ChooseThreshold
<1>14. CASE ChooseAdmissible
  <2>1. PICK choice : choice = Keep(candidates, {m \in ToSet(candidates) : PolicyScore(m) # None})
    OBVIOUS
  <2>2. Selects("admissible", candidates, choice)
    BY <1>9, <2>1, AdmissibleSelects
  <2> QED
    BY <1>2, <1>14, <2>1, <2>2 DEF ChooseAdmissible
<1>15. CASE UNCHANGED vars
  <2>1. /\ world' = world /\ queue' = queue /\ strategy' = strategy /\ candidates' = candidates
        /\ policy' = policy /\ chosen' = chosen
    BY <1>15 DEF vars
  <2>2. Given' /\ Queued' = Queued
    BY <2>1 DEF Given, Queued
  <2>3. Found'
    BY <2>1, <2>2 DEF Found, Promised, Sound, Counts, Proper, Who
  <2>4. CASE policy \in {"greedy", "lexicographic", "threshold", "admissible"}
    <3>1. PICK name \in {"greedy", "lexicographic", "threshold", "admissible"} : name = policy
      BY <2>4
    <3>2. PICK choice : choice = chosen
      OBVIOUS
    <3>3. Selects(name, candidates, choice)
      BY <3>1, <3>2 DEF SelectionSound, Selects
    <3>4. Selects(name, candidates, choice)'
      BY <2>1, <3>3, SelectsAgain
    <3> QED
      BY <2>1, <2>2, <2>3, <3>1, <3>2, <3>4 DEF SelectionSound, Selects
  <2>5. CASE policy \notin {"greedy", "lexicographic", "threshold", "admissible"}
    BY <2>1, <2>2, <2>3, <2>5 DEF SelectionSound
  <2> QED
    BY <2>4, <2>5
<1> QED
  BY <1>3, <1>4, <1>5, <1>6, <1>7, <1>8, <1>10, <1>11, <1>12, <1>13, <1>14, <1>15 DEF Next

THEOREM Invariance == Spec => []IInv
<1>1. Init => IInv
  BY InitIInv
<1>2. IInv /\ [Next]_vars => IInv'
  BY NextIInv
<1> QED
  BY <1>1, <1>2, PTL DEF Spec

(* Whatever strategy finds them, for teams and queues of any size and any  *)
(* observations: proposed matches are full teams of queued players, no     *)
(* player is twice in one, nor in two that a search proposes.              *)
THEOREM ProposalsAreSound == Spec => []ProposalsSound
<1>1. IInv => ProposalsSound
  <2> SUFFICES ASSUME IInv PROVE ProposalsSound
    OBVIOUS
  <2>1. CASE strategy = None
    <3>1. candidates = <<>> /\ DOMAIN candidates = {}
      BY <2>1 DEF IInv, Found
    <3> QED
      BY <3>1 DEF ProposalsSound
  <2>2. CASE strategy # None
    BY <2>2 DEF IInv, Found, Promised, Sound, Proper, Who, ProposalsSound
  <2> QED
    BY <2>1, <2>2
<1> QED
  BY <1>1, Invariance, PTL

(* With no player queued twice, each search forms as many matches as the   *)
(* queue has players for: none gives an anchor up while enough are left.   *)
(* (A beam of width 0 forms no match, so Width > 0 is assumed.)            *)
THEOREM EveryMatchIsFormed == ASSUME Width > 0 PROVE Spec => []NoMatchLeftUnformed
<1>1. IInv => NoMatchLeftUnformed
  BY NoneAssumption DEF IInv, Found, Promised, Counts, NoMatchLeftUnformed, Searches
<1> QED
  BY <1>1, Invariance, PTL

(* What a policy chooses are candidates, and the ones its name promises.   *)
THEOREM SelectionIsSound == Spec => []SelectionSound
<1>1. IInv => SelectionSound
  BY DEF IInv
<1> QED
  BY <1>1, Invariance, PTL
=============================================================================
