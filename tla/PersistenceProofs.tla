-------------------------- MODULE PersistenceProofs --------------------------
(***************************************************************************)
(* That what is read back is what was written, for any identifiers, keys   *)
(* and buffer sizes: the rows of the store lead back to their study, a     *)
(* checkpoint that was not cut short is the last one its run saved, and    *)
(* the logs hold the observations of their key, each once and in order.    *)
(***************************************************************************)
EXTENDS Persistence, SequenceTheorems, WellFoundedInduction, TLAPS

(***************************************************************************)
(* Induction on the natural numbers, for a set instead of a predicate: a   *)
(* number that is not in the set would have a least one.                   *)
(***************************************************************************)

LEMMA Least ==
    ASSUME NEW T \in SUBSET Nat, T # {}
    PROVE  \E x \in T : \A y \in T : x <= y
<1> DEFINE Below == {pair \in Nat \X Nat : pair[1] < pair[2]}
<1>1. OpToRel(<, Nat) = Below
  BY DEF OpToRel
<1>2. IsWellFoundedOn(Below, Nat)
  BY <1>1, NatLessThanWellFounded
<1> HIDE DEF Below
<1>3. PICK x \in T : \A y \in T : ~(<<y, x>> \in Below)
  BY <1>2, WFMin
<1>4. \A y \in T : ~(y < x)
  BY <1>3 DEF Below
<1> QED
  BY <1>4

LEMMA Induction ==
    ASSUME NEW N \in Nat, NEW S, 0 \in S, \A n \in 0 .. (N - 1) : n \in S => n + 1 \in S
    PROVE  \A n \in 0 .. N : n \in S
<1> DEFINE T == {n \in 0 .. N : n \notin S}
<1> SUFFICES ASSUME T # {} PROVE FALSE
  OBVIOUS
<1>1. PICK x \in T : \A y \in T : x <= y
  <2>1. T \in SUBSET Nat
    OBVIOUS
  <2> HIDE DEF T
  <2> QED
    BY <2>1, Least
<1>2. x # 0 /\ x - 1 \in 0 .. (N - 1) /\ x - 1 \in 0 .. N /\ ~(x <= x - 1)
  BY <1>1
<1>3. x - 1 \in S
  BY <1>1, <1>2
<1> QED
  BY <1>1, <1>2, <1>3

(***************************************************************************)
(* The observations of a key                                               *)
(***************************************************************************)

Observation == [key : Keys, n : Nat]

(* What the function of OfKey is, up to m.                                 *)
Selects(f, lines, key, m) ==
    /\ f[0] = <<>>
    /\ \A n \in 1 .. m :
           f[n] = IF lines[n].key = key THEN Append(f[n - 1], lines[n]) ELSE f[n - 1]

LEMMA SelectionExists ==
    ASSUME NEW lines \in Seq(Observation), NEW key, NEW m \in 0 .. Len(lines)
    PROVE  \E f : f \in [0 .. m -> Seq(Observation)] /\ Selects(f, lines, key, m)
<1>1. PICK N \in Nat : N = Len(lines)
  BY LenProperties
<1> DEFINE S == {n \in Nat : \E f : f \in [0 .. n -> Seq(Observation)] /\ Selects(f, lines, key, n)}
<1>2. 0 \in S
  <2>1. [n \in 0 .. 0 |-> <<>>] \in [0 .. 0 -> Seq(Observation)]
    OBVIOUS
  <2>2. Selects([n \in 0 .. 0 |-> <<>>], lines, key, 0)
    BY DEF Selects
  <2> QED
    BY <2>1, <2>2
<1>3. ASSUME NEW n \in 0 .. (N - 1), n \in S PROVE n + 1 \in S
  <2>1. PICK f : f \in [0 .. n -> Seq(Observation)] /\ Selects(f, lines, key, n)
    BY <1>3
  <2>2. PICK k : k = n + 1
    OBVIOUS
  <2>3. n \in Nat /\ k \in 1 .. N /\ k - 1 = n /\ lines[k] \in Observation
    BY <1>1, <2>2, LenProperties, ElementOfSeq
  <2>4. PICK last \in Seq(Observation) :
            last = IF lines[k].key = key THEN Append(f[n], lines[k]) ELSE f[n]
    <3>1. f[n] \in Seq(Observation)
      BY <2>1, <2>3
    <3>2. Append(f[n], lines[k]) \in Seq(Observation)
      BY <2>3, <3>1
    <3> QED
      BY <3>1, <3>2
  <2>5. PICK g : g = [i \in 0 .. k |-> IF i = k THEN last ELSE f[i]]
    OBVIOUS
  <2>6. /\ \A i \in 0 .. n : i \in 0 .. k /\ i # k
        /\ \A i \in 0 .. k : i = k \/ i \in 0 .. n
        /\ \A i \in 1 .. k : i = k \/ i \in 1 .. n
        /\ \A i \in 1 .. n : i \in 0 .. n /\ i - 1 \in 0 .. n
        /\ k \in 0 .. k /\ 0 \in 0 .. n /\ n \in 0 .. n
    BY <2>2, <2>3
  <2>7. g[k] = last /\ \A i \in 0 .. n : g[i] = f[i]
    BY <2>5, <2>6
  <2>8. g \in [0 .. k -> Seq(Observation)]
    BY <2>1, <2>5, <2>6
  <2>9. Selects(g, lines, key, k)
    <3>1. g[0] = <<>>
      BY <2>1, <2>6, <2>7 DEF Selects
    <3>2. ASSUME NEW i \in 1 .. k
          PROVE  g[i] = IF lines[i].key = key THEN Append(g[i - 1], lines[i]) ELSE g[i - 1]
      <4>1. CASE i = k
        BY <2>3, <2>4, <2>6, <2>7, <4>1
      <4>2. CASE i \in 1 .. n
        BY <2>1, <2>6, <2>7, <4>2 DEF Selects
      <4> QED
        BY <2>6, <4>1, <4>2
    <3> QED
      BY <3>1, <3>2 DEF Selects
  <2> QED
    BY <2>2, <2>3, <2>8, <2>9
<1> HIDE DEF S
<1>4. \A n \in 0 .. N : n \in S
  BY <1>2, <1>3, Induction
<1> QED
  BY <1>1, <1>4 DEF S


(* Functions that select from the same lines end in the same place.        *)
LEMMA SelectionsAgree ==
    ASSUME NEW s, NEW t, NEW key, NEW m \in Nat, \A n \in 1 .. m : s[n] = t[n],
           NEW f, Selects(f, s, key, m), NEW g, Selects(g, t, key, m)
    PROVE  f[m] = g[m]
<1> DEFINE S == {n \in 0 .. m : f[n] = g[n]}
<1>1. 0 \in S
  BY DEF Selects
<1>2. ASSUME NEW n \in 0 .. (m - 1), n \in S PROVE n + 1 \in S
  <2>1. n + 1 \in 1 .. m /\ n + 1 \in 0 .. m /\ (n + 1) - 1 = n
    OBVIOUS
  <2>2. f[n + 1] = g[n + 1]
    BY <1>2, <2>1 DEF Selects
  <2> QED
    BY <2>1, <2>2
<1> HIDE DEF S
<1>3. m \in S
  BY <1>1, <1>2, Induction
<1> QED
  BY <1>3 DEF S

(* What OfKey is: the end of such a function.                              *)
LEMMA OfKeyIs ==
    ASSUME NEW lines \in Seq(Observation), NEW key
    PROVE  \E f : /\ f \in [0 .. Len(lines) -> Seq(Observation)]
                  /\ Selects(f, lines, key, Len(lines)) /\ OfKey(lines, key) = f[Len(lines)]
<1>1. PICK m \in Nat : m = Len(lines)
  BY LenProperties
<1>2. PICK f : f \in [0 .. m -> Seq(Observation)] /\ Selects(f, lines, key, m)
  BY <1>1, SelectionExists
<1> DEFINE Of(g) == [n \in 0 .. Len(lines) |->
                        IF n = 0 THEN <<>>
                        ELSE IF lines[n].key = key THEN Append(g[n - 1], lines[n]) ELSE g[n - 1]]
<1>3. f = Of(f)
  <2>1. \A n \in 0 .. m : n = 0 \/ n \in 1 .. m
    BY <1>1
  <2>2. \A n \in 0 .. m : f[n] = Of(f)[n]
    BY <1>1, <1>2, <2>1 DEF Selects
  <2> QED
    BY <1>1, <1>2, <2>2
<1>4. PICK g : g = CHOOSE h : h = Of(h)
  OBVIOUS
<1>5. g = Of(g)
  BY <1>3, <1>4
<1>6. OfKey(lines, key) = g[Len(lines)]
  BY <1>4 DEF OfKey
<1>7. Selects(g, lines, key, m)
  <2>1. 0 \in 0 .. m /\ \A n \in 1 .. m : n \in 0 .. m /\ n # 0
    BY <1>1
  <2> QED
    BY <1>1, <1>5, <2>1 DEF Selects
<1>8. f[m] = g[m]
  BY <1>2, <1>7, SelectionsAgree
<1> QED
  BY <1>1, <1>2, <1>6, <1>8

LEMMA OfKeyType ==
    ASSUME NEW lines \in Seq(Observation), NEW key
    PROVE  OfKey(lines, key) \in Seq(Observation)
<1>1. Len(lines) \in 0 .. Len(lines)
  BY LenProperties
<1> QED
  BY <1>1, OfKeyIs

LEMMA OfKeyEmpty == \A key : OfKey(<<>>, key) = <<>>
<1> SUFFICES ASSUME NEW key PROVE OfKey(<<>>, key) = <<>>
  OBVIOUS
<1>0. <<>> \in Seq(Observation)
  OBVIOUS
<1>1. PICK lines \in Seq(Observation) : lines = <<>>
  BY <1>0
<1>2. PICK f : Selects(f, lines, key, Len(lines)) /\ OfKey(lines, key) = f[Len(lines)]
  BY OfKeyIs
<1> QED
  BY <1>1, <1>2, EmptySeq DEF Selects

LEMMA OfKeyAppend ==
    ASSUME NEW lines \in Seq(Observation), NEW o \in Observation, NEW key
    PROVE  OfKey(Append(lines, o), key) =
               IF o.key = key THEN Append(OfKey(lines, key), o) ELSE OfKey(lines, key)
<1>1. PICK m \in Nat : m = Len(lines)
  BY LenProperties
<1>2. PICK longer, k : longer = Append(lines, o) /\ k = m + 1
  OBVIOUS
<1>3. /\ longer \in Seq(Observation) /\ Len(longer) = k /\ longer[k] = o
      /\ \A n \in 1 .. m : longer[n] = lines[n]
  BY <1>1, <1>2
<1>4. PICK f : /\ Selects(f, longer, key, k) /\ OfKey(longer, key) = f[k]
  BY <1>3, OfKeyIs
<1>5. PICK g : /\ Selects(g, lines, key, m) /\ OfKey(lines, key) = g[m]
  BY <1>1, OfKeyIs
<1>6. k - 1 = m /\ k \in 1 .. k /\ \A n \in 1 .. m : n \in 1 .. k
  BY <1>2
<1>7. Selects(f, longer, key, m)
  BY <1>4, <1>6 DEF Selects
<1>8. f[m] = g[m]
  BY <1>3, <1>5, <1>7, SelectionsAgree
<1>9. f[k] = IF o.key = key THEN Append(f[m], o) ELSE f[m]
  BY <1>3, <1>4, <1>6 DEF Selects
<1> QED
  BY <1>2, <1>4, <1>5, <1>8, <1>9


LEMMA AppendToConcat ==
    ASSUME NEW s \in Seq(Observation), NEW t \in Seq(Observation), NEW o \in Observation
    PROVE  s \o Append(t, o) = Append(s \o t, o) /\ s \o t \in Seq(Observation)
OBVIOUS

LEMMA OfKeyConcat ==
    ASSUME NEW s \in Seq(Observation), NEW t \in Seq(Observation), NEW key
    PROVE  OfKey(s \o t, key) = OfKey(s, key) \o OfKey(t, key)
<1>1. PICK m \in Nat : m = Len(t)
  BY LenProperties
<1> DEFINE First(n) == SubSeq(t, 1, n)
           S == {n \in 0 .. m : OfKey(s \o First(n), key) = OfKey(s, key) \o OfKey(First(n), key)}
<1>2. 0 \in S
  <2>1. First(0) = <<>> /\ s \o <<>> = s
    BY SubSeqEmpty
  <2>2. PICK a \in Seq(Observation) : a = OfKey(s, key)
    BY OfKeyType
  <2>3. a \o <<>> = a
    OBVIOUS
  <2>4. OfKey(s \o First(0), key) = OfKey(s, key) \o OfKey(First(0), key)
    BY <2>1, <2>2, <2>3, OfKeyEmpty
  <2> QED
    BY <2>4
<1>3. ASSUME NEW n \in 0 .. (m - 1), n \in S PROVE n + 1 \in S
  <2>1. PICK u, o : u = First(n) /\ o = t[n + 1]
    OBVIOUS
  <2>2. n \in 0 .. m /\ n + 1 \in 0 .. m /\ n + 1 \in 1 .. Len(t) /\ n \in Nat
    BY <1>1
  <2>3. u \in Seq(Observation) /\ o \in Observation
    BY <2>1, <2>2, SubSeqProperties, ElementOfSeq
  <2>4. First(n + 1) = Append(u, o)
    BY <1>1, <2>1, <2>2, SubSeqProperties
  <2>5. s \o Append(u, o) = Append(s \o u, o) /\ s \o u \in Seq(Observation)
    BY <2>3, AppendToConcat
  <2>6. OfKey(s \o u, key) = OfKey(s, key) \o OfKey(u, key)
    BY <1>3, <2>1
  <2>7. PICK a, b \in Seq(Observation) : a = OfKey(s, key) /\ b = OfKey(u, key)
    BY <2>3, OfKeyType
  <2>8. a \o Append(b, o) = Append(a \o b, o)
    BY <2>3, AppendToConcat
  <2>9. OfKey(Append(u, o), key) = IF o.key = key THEN Append(b, o) ELSE b
    BY <2>3, <2>7, OfKeyAppend
  <2>10. OfKey(Append(s \o u, o), key) = IF o.key = key THEN Append(a \o b, o) ELSE a \o b
    <3>1. PICK w \in Seq(Observation) : w = s \o u
      BY <2>5
    <3>2. OfKey(w, key) = a \o b
      BY <2>6, <2>7, <3>1
    <3>3. OfKey(Append(w, o), key) = IF o.key = key THEN Append(OfKey(w, key), o) ELSE OfKey(w, key)
      BY <2>3, OfKeyAppend
    <3> QED
      BY <3>1, <3>2, <3>3
  <2>11. OfKey(s \o Append(u, o), key) = a \o OfKey(Append(u, o), key)
    BY <2>5, <2>8, <2>9, <2>10
  <2> QED
    BY <2>2, <2>4, <2>7, <2>11
<1> HIDE DEF First, S
<1>4. m \in S
  <2>1. \A n \in 0 .. (m - 1) : n \in S => n + 1 \in S
    BY <1>3
  <2>2. \A n \in 0 .. m : n \in S
    BY <1>2, <2>1, Induction
  <2> QED
    BY <2>2
<1>5. First(m) = t
  BY <1>1, SubSeqFull DEF First
<1> QED
  BY <1>4, <1>5 DEF S


(* Their numbers grow if those of all the observations do.                 *)
LEMMA OfKeyOrdered ==
    ASSUME NEW lines \in Seq(Observation), NEW key,
           \A i, j \in DOMAIN lines : i < j => lines[i].n < lines[j].n
    PROVE  /\ \A i \in DOMAIN OfKey(lines, key) :
                  \E a \in DOMAIN lines : OfKey(lines, key)[i] = lines[a] /\ lines[a].key = key
           /\ \A i, j \in DOMAIN OfKey(lines, key) :
                  i < j => OfKey(lines, key)[i].n < OfKey(lines, key)[j].n
<1>1. PICK m \in Nat : m = Len(lines) /\ DOMAIN lines = 1 .. m
  BY LenProperties
<1>2. PICK f \in [0 .. m -> Seq(Observation)] : Selects(f, lines, key, m) /\ OfKey(lines, key) = f[m]
  BY <1>1, OfKeyIs
<1> DEFINE Chosen(n) == \A i \in DOMAIN f[n] : \E a \in 1 .. n : f[n][i] = lines[a] /\ lines[a].key = key
           Grows(n) == \A i, j \in DOMAIN f[n] : i < j => f[n][i].n < f[n][j].n
           S == {n \in 0 .. m : Chosen(n) /\ Grows(n)}
<1>3. 0 \in S
  <2>1. f[0] = <<>> /\ DOMAIN f[0] = {}
    BY <1>2 DEF Selects
  <2> QED
    BY <2>1
<1>4. ASSUME NEW n \in 0 .. (m - 1), n \in S PROVE n + 1 \in S
  <2>1. PICK k : k = n + 1
    OBVIOUS
  <2>2. /\ k \in 1 .. m /\ k - 1 = n /\ n \in Nat /\ k \in 1 .. k /\ n \in 0 .. m /\ k \in 0 .. m
        /\ \A a \in 1 .. n : a \in 1 .. k /\ a \in 1 .. m /\ a < k
    BY <2>1
  <2>3. lines[k] \in Observation
    BY <1>1, <2>2, ElementOfSeq
  <2>4. Chosen(n) /\ Grows(n)
    BY <1>4
  <2>5. CASE lines[k].key # key
    <3>1. f[k] = f[n]
      BY <1>2, <2>2, <2>5 DEF Selects
    <3>2. Chosen(k) /\ Grows(k)
      BY <2>2, <2>4, <3>1
    <3> QED
      BY <2>1, <2>2, <3>2
  <2>6. CASE lines[k].key = key
    <3>1. f[k] = Append(f[n], lines[k]) /\ f[n] \in Seq(Observation)
      BY <1>2, <2>2, <2>6 DEF Selects
    <3>2. PICK l \in Nat : l = Len(f[n]) /\ DOMAIN f[n] = 1 .. l
      BY <3>1, LenProperties
    <3>3. /\ DOMAIN f[k] = 1 .. l + 1 /\ f[k][l + 1] = lines[k]
          /\ \A i \in 1 .. l : f[k][i] = f[n][i] /\ i < l + 1
          /\ \A i \in 1 .. l + 1 : i \in 1 .. l \/ i = l + 1
      BY <2>3, <3>1, <3>2
    <3>4. Chosen(k)
      <4> SUFFICES ASSUME NEW i \in DOMAIN f[k]
                   PROVE  \E a \in 1 .. k : f[k][i] = lines[a] /\ lines[a].key = key
        OBVIOUS
      <4>1. CASE i = l + 1
        BY <2>2, <2>6, <3>3, <4>1
      <4>2. CASE i \in 1 .. l
        <5>1. f[k][i] = f[n][i] /\ i \in DOMAIN f[n]
          BY <3>2, <3>3, <4>2
        <5>2. PICK a \in 1 .. n : f[n][i] = lines[a] /\ lines[a].key = key
          BY <2>4, <5>1
        <5> QED
          BY <2>2, <5>1, <5>2
      <4> QED
        BY <3>3, <4>1, <4>2
    <3>5. \A i \in 1 .. l : f[n][i].n < lines[k].n
      <4>1. \A a \in 1 .. n : lines[a].n < lines[k].n
        BY <1>1, <2>2
      <4>2. ASSUME NEW i \in 1 .. l PROVE f[n][i].n < lines[k].n
        <5>1. PICK a \in 1 .. n : f[n][i] = lines[a]
          BY <2>4, <3>2
        <5> QED
          BY <4>1, <5>1
      <4> QED
        BY <4>2
    <3>6. Grows(k)
      <4> SUFFICES ASSUME NEW i \in DOMAIN f[k], NEW j \in DOMAIN f[k], i < j
                   PROVE  f[k][i].n < f[k][j].n
        OBVIOUS
      <4>1. i \in 1 .. l
        BY <3>3
      <4>2. CASE j = l + 1
        BY <3>3, <3>5, <4>1, <4>2
      <4>3. CASE j \in 1 .. l
        BY <2>4, <3>2, <3>3, <4>1, <4>3
      <4> QED
        BY <3>3, <4>2, <4>3
    <3> QED
      BY <2>1, <2>2, <3>4, <3>6
  <2> QED
    BY <2>5, <2>6
<1> HIDE DEF S
<1>5. \A n \in 0 .. m : n \in S
  <2>1. \A n \in 0 .. (m - 1) : n \in S => n + 1 \in S
    BY <1>4
  <2> QED
    BY <1>3, <2>1, Induction
<1>6. Chosen(m) /\ Grows(m)
  <2>1. m \in S
    BY <1>5
  <2> QED
    BY <2>1 DEF S
<1> QED
  BY <1>1, <1>2, <1>6

(***************************************************************************)
(* The logs                                                                *)
(***************************************************************************)

Numbered(wr) == [i \in DOMAIN wr |-> [key |-> wr[i], n |-> i]]

(* The logs lg and the buffer bf hold observations of wr in order, those   *)
(* of a log before the buffered ones.                                      *)
Sound(lg, bf, wr) ==
    /\ lg \in [Keys -> Seq(Observation)] /\ bf \in Seq(Observation) /\ wr \in Seq(Keys)
    /\ \A i \in DOMAIN bf : bf[i].n \in 1 .. Len(wr) /\ wr[bf[i].n] = bf[i].key
    /\ \A i, j \in DOMAIN bf : i < j => bf[i].n < bf[j].n
    /\ \A key \in Keys : \A i \in DOMAIN lg[key] :
           /\ lg[key][i].n \in 1 .. Len(wr) /\ wr[lg[key][i].n] = key
           /\ \A j \in DOMAIN bf : lg[key][i].n < bf[j].n
    /\ \A key \in Keys : \A i, j \in DOMAIN lg[key] : i < j => lg[key][i].n < lg[key][j].n

(* None is missing.                                                        *)
Complete(lg, bf, wr) == \A key \in Keys : lg[key] \o OfKey(bf, key) = OfKey(Numbered(wr), key)

LogsKept ==
    /\ Sound(logs, buffer, written)
    /\ ~lost => Complete(logs, buffer, written) /\ torn = {} /\ spoilt = {}

(* The lines are of one key, in the order of wr.                           *)
InOrder(lines, key, wr) ==
    /\ \A i, j \in DOMAIN lines : i < j => lines[i].n < lines[j].n
    /\ \A i \in DOMAIN lines : lines[i].n \in 1 .. Len(wr) /\ wr[lines[i].n] = key

LEMMA SoundInOrder ==
    ASSUME NEW lg, NEW bf, NEW wr, Sound(lg, bf, wr), NEW key \in Keys
    PROVE  InOrder(lg[key] \o OfKey(bf, key), key, wr)
<1>0. PICK lines : lines = lg[key] \o OfKey(bf, key)
  OBVIOUS
<1>1. PICK a \in Seq(Observation), b \in Seq(Observation) : a = lg[key] /\ b = OfKey(bf, key)
  BY OfKeyType DEF Sound
<1>2. /\ \A i \in DOMAIN b : \E c \in DOMAIN bf : b[i] = bf[c] /\ bf[c].key = key
      /\ \A i, j \in DOMAIN b : i < j => b[i].n < b[j].n
  <2>1. bf \in Seq(Observation) /\ \A i, j \in DOMAIN bf : i < j => bf[i].n < bf[j].n
    BY DEF Sound
  <2> QED
    BY <1>1, <2>1, OfKeyOrdered
<1>3. /\ \A i \in DOMAIN a : wr[a[i].n] = key /\ \A j \in DOMAIN b : a[i].n < b[j].n
      /\ \A i, j \in DOMAIN a : i < j => a[i].n < a[j].n
      /\ \A i \in DOMAIN b : wr[b[i].n] = key
      /\ \A i \in DOMAIN a : a[i].n \in 1 .. Len(wr)
      /\ \A i \in DOMAIN b : b[i].n \in 1 .. Len(wr)
  <2>1. \A i \in DOMAIN a : /\ a[i].n \in 1 .. Len(wr) /\ wr[a[i].n] = key
                            /\ \A j \in DOMAIN bf : a[i].n < bf[j].n
    BY <1>1 DEF Sound
  <2>2. \A i, j \in DOMAIN a : i < j => a[i].n < a[j].n
    BY <1>1 DEF Sound
  <2>3. \A j \in DOMAIN bf : wr[bf[j].n] = bf[j].key /\ bf[j].n \in 1 .. Len(wr)
    BY DEF Sound
  <2> QED
    BY <1>2, <2>1, <2>2, <2>3
<1>4. PICK la \in Nat, lb \in Nat : la = Len(a) /\ lb = Len(b)
  BY LenProperties
<1>5. /\ lines = a \o b
      /\ DOMAIN lines = 1 .. la + lb /\ DOMAIN a = 1 .. la /\ DOMAIN b = 1 .. lb
      /\ \A i \in 1 .. la : lines[i] = a[i]
      /\ \A i \in 1 .. lb : lines[la + i] = b[i]
  BY <1>0, <1>1, <1>4
<1>6. \A i \in 1 .. la + lb : i \in 1 .. la \/ (i - la \in 1 .. lb /\ i = la + (i - la))
  OBVIOUS
<1>7. \A i \in 1 .. la + lb : 
          \/ lines[i] = a[i] /\ i \in 1 .. la
          \/ lines[i] = b[i - la] /\ i - la \in 1 .. lb
  BY <1>5, <1>6
<1>8. ASSUME NEW i \in DOMAIN lines PROVE lines[i].n \in 1 .. Len(wr) /\ wr[lines[i].n] = key
  BY <1>3, <1>5, <1>7
<1>9. ASSUME NEW i \in DOMAIN lines, NEW j \in DOMAIN lines, i < j PROVE lines[i].n < lines[j].n
  <2>1. CASE i \in 1 .. la /\ j \in 1 .. la
    BY <1>3, <1>5, <1>9, <2>1
  <2>2. CASE i \in 1 .. la /\ j \notin 1 .. la
    BY <1>3, <1>5, <1>7, <2>2
  <2>3. CASE i \notin 1 .. la
    <3>1. /\ i - la \in 1 .. lb /\ j - la \in 1 .. lb /\ i - la < j - la
          /\ lines[i] = b[i - la] /\ lines[j] = b[j - la]
      BY <1>4, <1>5, <1>7, <1>9, <2>3
    <3> QED
      BY <1>2, <1>5, <3>1
  <2> QED
    BY <2>1, <2>2, <2>3
<1> QED
  BY <1>0, <1>8, <1>9 DEF InOrder

(* One more observation is handed over.                                    *)
LEMMA BufferKeeps ==
    ASSUME NEW lg, NEW bf, NEW wr, Sound(lg, bf, wr), NEW key \in Keys,
           NEW o, o = [key |-> key, n |-> Len(wr) + 1]
    PROVE  /\ Sound(lg, Append(bf, o), Append(wr, key))
           /\ Complete(lg, bf, wr) => Complete(lg, Append(bf, o), Append(wr, key))
<1>1. /\ lg \in [Keys -> Seq(Observation)] /\ bf \in Seq(Observation) /\ wr \in Seq(Keys)
  BY DEF Sound
<1>2. PICK lb \in Nat, lw \in Nat : lb = Len(bf) /\ lw = Len(wr)
  BY <1>1, LenProperties
<1>3. o \in Observation /\ o.key = key /\ o.n = lw + 1
  BY <1>2 DEF Observation
<1>4. PICK bf2, wr2 : bf2 = Append(bf, o) /\ wr2 = Append(wr, key)
  OBVIOUS
<1>5. /\ bf2 \in Seq(Observation) /\ wr2 \in Seq(Keys) /\ Len(wr2) = lw + 1
      /\ DOMAIN bf2 = 1 .. lb + 1 /\ DOMAIN bf = 1 .. lb /\ bf2[lb + 1] = o /\ wr2[lw + 1] = key
      /\ \A i \in 1 .. lb : bf2[i] = bf[i]
      /\ \A i \in 1 .. lw : wr2[i] = wr[i]
  BY <1>1, <1>2, <1>3, <1>4
<1>6. /\ \A i \in 1 .. lb + 1 : i \in 1 .. lb \/ i = lb + 1
      /\ \A i \in 1 .. lb : i # lb + 1 /\ i < lb + 1
      /\ \A i \in 1 .. lw : i \in 1 .. lw + 1 /\ i < lw + 1
      /\ lw + 1 \in 1 .. lw + 1
  OBVIOUS
<1>7. Sound(lg, bf2, wr2)
  <2>1. \A i \in DOMAIN bf : bf[i].n \in 1 .. lw /\ wr[bf[i].n] = bf[i].key
    BY <1>2 DEF Sound
  <2>2. ASSUME NEW i \in DOMAIN bf2 PROVE bf2[i].n \in 1 .. lw + 1 /\ wr2[bf2[i].n] = bf2[i].key
    <3>1. CASE i \in 1 .. lb
      BY <1>5, <1>6, <2>1, <3>1
    <3>2. CASE i = lb + 1
      BY <1>3, <1>5, <1>6, <3>2
    <3> QED
      BY <1>5, <1>6, <3>1, <3>2
  <2>3. ASSUME NEW i \in DOMAIN bf2, NEW j \in DOMAIN bf2, i < j PROVE bf2[i].n < bf2[j].n
    <3>1. i \in 1 .. lb
      BY <1>5, <2>3
    <3>2. CASE j \in 1 .. lb
      <4>1. bf[i].n < bf[j].n
        BY <1>5, <2>3, <3>1, <3>2 DEF Sound
      <4> QED
        BY <1>5, <3>1, <3>2, <4>1
    <3>3. CASE j = lb + 1
      BY <1>3, <1>5, <1>6, <2>1, <3>1, <3>3
    <3> QED
      BY <1>5, <1>6, <3>2, <3>3
  <2>4. ASSUME NEW k \in Keys, NEW i \in DOMAIN lg[k]
        PROVE  /\ lg[k][i].n \in 1 .. lw + 1 /\ wr2[lg[k][i].n] = k
               /\ \A j \in DOMAIN bf2 : lg[k][i].n < bf2[j].n
    <3>1. /\ lg[k][i].n \in 1 .. lw /\ wr[lg[k][i].n] = k
          /\ \A j \in DOMAIN bf : lg[k][i].n < bf[j].n
      BY <1>2 DEF Sound
    <3>2. ASSUME NEW j \in DOMAIN bf2 PROVE lg[k][i].n < bf2[j].n
      <4>1. CASE j \in 1 .. lb
        BY <1>5, <3>1, <4>1
      <4>2. CASE j = lb + 1
        BY <1>3, <1>5, <1>6, <3>1, <4>2
      <4> QED
        BY <1>5, <1>6, <4>1, <4>2
    <3> QED
      BY <1>5, <1>6, <3>1, <3>2
  <2>5. \A k \in Keys : \A i, j \in DOMAIN lg[k] : i < j => lg[k][i].n < lg[k][j].n
    BY DEF Sound
  <2> QED
    BY <1>1, <1>5, <2>2, <2>3, <2>4, <2>5 DEF Sound
<1>8. ASSUME Complete(lg, bf, wr), NEW k \in Keys
      PROVE  lg[k] \o OfKey(bf2, k) = OfKey(Numbered(wr2), k)
  <2>1. Numbered(wr) \in Seq(Observation)
    <3>1. \A i \in 1 .. lw : [key |-> wr[i], n |-> i] \in Observation
      BY <1>1, <1>2, ElementOfSeq DEF Observation
    <3>2. DOMAIN wr = 1 .. lw
      BY <1>1, <1>2, LenProperties
    <3> QED
      BY <3>1, <3>2 DEF Numbered
  <2>2. Numbered(wr2) = Append(Numbered(wr), o)
    <3>1. DOMAIN wr = 1 .. lw /\ DOMAIN wr2 = 1 .. lw + 1
      BY <1>1, <1>2, <1>5, LenProperties
    <3>2. /\ Len(Numbered(wr)) = lw /\ DOMAIN Numbered(wr) = 1 .. lw
          /\ \A i \in 1 .. lw : Numbered(wr)[i] = [key |-> wr[i], n |-> i]
      BY <2>1, <3>1, LenProperties DEF Numbered
    <3>3. PICK nu \in Seq(Observation) : nu = Numbered(wr)
      BY <2>1
    <3>4. /\ DOMAIN Append(nu, o) = 1 .. lw + 1 /\ Append(nu, o)[lw + 1] = o
          /\ \A i \in 1 .. lw : Append(nu, o)[i] = nu[i]
          /\ Append(nu, o) \in Seq(Observation)
      BY <1>3, <3>2, <3>3
    <3>5. \A i \in 1 .. lw + 1 : Numbered(wr2)[i] = Append(nu, o)[i]
      <4> SUFFICES ASSUME NEW i \in 1 .. lw + 1 PROVE Numbered(wr2)[i] = Append(nu, o)[i]
        OBVIOUS
      <4>1. Numbered(wr2)[i] = [key |-> wr2[i], n |-> i]
        BY <3>1 DEF Numbered
      <4>2. CASE i = lw + 1
        BY <1>2, <1>5, <3>4, <4>1, <4>2
      <4>3. CASE i \in 1 .. lw
        BY <1>5, <3>2, <3>3, <3>4, <4>1, <4>3
      <4>4. i = lw + 1 \/ i \in 1 .. lw
        OBVIOUS
      <4> QED
        BY <4>2, <4>3, <4>4
    <3>6. Numbered(wr2) = [i \in 1 .. lw + 1 |-> Numbered(wr2)[i]]
      BY <3>1 DEF Numbered
    <3>7. Append(nu, o) = [i \in 1 .. lw + 1 |-> Append(nu, o)[i]]
      BY <3>4
    <3> QED
      BY <3>3, <3>5, <3>6, <3>7
  <2>3. PICK a \in Seq(Observation), b \in Seq(Observation), c \in Seq(Observation) :
            a = lg[k] /\ b = OfKey(bf, k) /\ c = OfKey(Numbered(wr), k)
    BY <1>1, <2>1, OfKeyType
  <2>4. a \o b = c
    BY <1>8, <2>3 DEF Complete
  <2>7. Append(a \o b, o) = a \o Append(b, o)
    BY <1>3, AppendToConcat
  <2>5. OfKey(bf2, k) = IF o.key = k THEN Append(b, o) ELSE b
    BY <1>1, <1>3, <1>4, <2>3, OfKeyAppend
  <2>6. OfKey(Numbered(wr2), k) = IF o.key = k THEN Append(c, o) ELSE c
    BY <1>3, <2>1, <2>2, <2>3, OfKeyAppend
  <2> QED
    BY <1>4, <2>3, <2>4, <2>5, <2>6, <2>7
<1> QED
  BY <1>4, <1>7, <1>8 DEF Complete

(* The first n of the buffered observations are written, the others lost.  *)
LEMMA DrainKeeps ==
    ASSUME NEW lg, NEW bf, NEW wr, Sound(lg, bf, wr), NEW n \in 0 .. Len(bf),
           NEW lg2, lg2 = [key \in Keys |-> lg[key] \o OfKey(SubSeq(bf, 1, n), key)]
    PROVE  /\ Sound(lg2, <<>>, wr)
           /\ Complete(lg, bf, wr) /\ n = Len(bf) => Complete(lg2, <<>>, wr)
<1>1. /\ lg \in [Keys -> Seq(Observation)] /\ bf \in Seq(Observation) /\ wr \in Seq(Keys)
  BY DEF Sound
<1>2. PICK first : first = SubSeq(bf, 1, n)
  OBVIOUS
<1>3. /\ Len(bf) \in Nat /\ DOMAIN bf = 1 .. Len(bf) /\ n \in Nat
      /\ \A i \in 1 .. n : i \in 1 .. Len(bf) /\ bf[i] \in Observation
  BY <1>1, LenProperties, ElementOfSeq
<1>4. first \in Seq(Observation) /\ DOMAIN first = 1 .. n /\ \A i \in 1 .. n : first[i] = bf[i]
  BY <1>2, <1>3, SubSeqProperties, LenProperties
<1>5. Sound(lg, first, wr)
  <2>1. \A i \in DOMAIN first : i \in DOMAIN bf /\ first[i] = bf[i]
    BY <1>3, <1>4
  <2> QED
    BY <1>4, <2>1 DEF Sound
<1>6. lg2 \in [Keys -> Seq(Observation)]
  <2>1. \A key \in Keys : lg[key] \o OfKey(first, key) \in Seq(Observation)
    BY <1>1, <1>4, OfKeyType, ConcatProperties
  <2> QED
    BY <1>2, <2>1
<1>7. \A key \in Keys :
          /\ \A i, j \in DOMAIN lg2[key] : i < j => lg2[key][i].n < lg2[key][j].n
          /\ \A i \in DOMAIN lg2[key] : lg2[key][i].n \in 1 .. Len(wr) /\ wr[lg2[key][i].n] = key
  <2> SUFFICES ASSUME NEW key \in Keys
               PROVE  /\ \A i, j \in DOMAIN lg2[key] : i < j => lg2[key][i].n < lg2[key][j].n
                      /\ \A i \in DOMAIN lg2[key] : lg2[key][i].n \in 1 .. Len(wr) /\ wr[lg2[key][i].n] = key
    OBVIOUS
  <2>1. PICK lines : lines = lg2[key]
    OBVIOUS
  <2>2. lines = lg[key] \o OfKey(first, key)
    BY <1>2, <2>1
  <2> QED
    <3>1. InOrder(lines, key, wr)
      BY <1>5, <2>2, SoundInOrder
    <3> QED
      BY <2>1, <3>1 DEF InOrder
<1>8. <<>> \in Seq(Observation) /\ DOMAIN <<>> = {}
  OBVIOUS
<1>9. Sound(lg2, <<>>, wr)
  BY <1>1, <1>6, <1>7, <1>8 DEF Sound
<1>10. ASSUME Complete(lg, bf, wr), n = Len(bf), NEW key \in Keys
       PROVE  lg2[key] \o OfKey(<<>>, key) = OfKey(Numbered(wr), key)
  <2>1. first = bf
    BY <1>1, <1>2, <1>10, SubSeqFull
  <2>2. PICK a \in Seq(Observation) : a = lg2[key]
    BY <1>6
  <2>3. a = OfKey(Numbered(wr), key)
    BY <1>2, <1>10, <2>1, <2>2 DEF Complete
  <2>4. a \o <<>> = a
    OBVIOUS
  <2> QED
    BY <2>2, <2>3, <2>4, OfKeyEmpty
<1> QED
  BY <1>9, <1>10 DEF Complete


LEMMA InitLogs == Init => LogsKept
<1> SUFFICES ASSUME Init PROVE LogsKept
  OBVIOUS
<1>1. /\ logs = [key \in Keys |-> <<>>] /\ buffer = <<>> /\ written = <<>>
      /\ <<>> \in Seq(Observation) /\ <<>> \in Seq(Keys) /\ DOMAIN <<>> = {}
  BY DEF Init
<1>2. Sound(logs, buffer, written)
  BY <1>1 DEF Sound
<1>3. Numbered(written) = <<>>
  <2>1. Numbered(written) \in Seq(Observation) /\ DOMAIN Numbered(written) = {}
    BY <1>1 DEF Numbered
  <2> QED
    BY <2>1, EmptySeq, LenProperties
<1>4. Complete(logs, buffer, written)
  <2>1. <<>> \o <<>> = <<>>
    OBVIOUS
  <2> QED
    BY <1>1, <1>3, <2>1, OfKeyEmpty DEF Complete
<1> QED
  BY <1>2, <1>4 DEF LogsKept, Init

(* What Drain does to lines that came after those written.                 *)
LEMMA DrainLogs ==
    ASSUME NEW lines, NEW wr, Sound(logs, lines, wr),
           ~lost => Complete(logs, lines, wr) /\ torn = {} /\ spoilt = {},
           Drain(lines), written' = wr
    PROVE  LogsKept'
<1>1. PICK n \in 0 .. Len(lines) :
          logs' = WriteLines(lines, n) /\ buffer' = <<>> /\ Fails(lines, n)
  BY DEF Drain
<1>2. logs' = [key \in Keys |-> logs[key] \o OfKey(SubSeq(lines, 1, n), key)]
  BY <1>1 DEF WriteLines
<1>3. /\ Sound(logs', <<>>, wr)
      /\ Complete(logs, lines, wr) /\ n = Len(lines) => Complete(logs', <<>>, wr)
  BY <1>2, DrainKeeps
<1>4. ~lost' => ~lost /\ n = Len(lines)
  <2>1. Len(lines) \in Nat
    BY LenProperties DEF Sound
  <2>2. ~(n < Len(lines)) => n = Len(lines)
    BY <2>1
  <2> QED
    BY <1>1, <2>2, Zenon DEF Fails
<1>5. ~lost' => torn' = {} /\ spoilt' = {}
  <2> SUFFICES ASSUME ~lost' PROVE torn' = {} /\ spoilt' = {}
    OBVIOUS
  <2>1. torn = {} /\ spoilt = {} /\ n = Len(lines) /\ ~(n < Len(lines))
    <3>1. Len(lines) \in Nat
      BY LenProperties DEF Sound
    <3> QED
      BY <1>4, <3>1
  <2>2. {key \in torn : OfKey(SubSeq(lines, 1, n), key) # <<>>} = {}
    BY <2>1
  <2> QED
    BY <1>1, <2>1, <2>2 DEF Fails
<1> QED
  BY <1>1, <1>3, <1>4, <1>5 DEF LogsKept

LEMMA NextLogs == LogsKept /\ [Next]_vars => LogsKept'
<1> SUFFICES ASSUME LogsKept, [Next]_vars PROVE LogsKept'
  OBVIOUS
<1>1. CASE UNCHANGED <<logs, torn, spoilt, buffer, written, lost>>
  BY <1>1 DEF LogsKept
<1>2. ASSUME NEW key \in Keys, AddAndMaybeFlush(key) PROVE LogsKept'
  <2>1. PICK o : o = [key |-> key, n |-> Len(written) + 1]
    OBVIOUS
  <2>2. /\ Sound(logs, Append(buffer, o), Append(written, key))
        /\ ~lost => /\ Complete(logs, Append(buffer, o), Append(written, key))
                    /\ torn = {} /\ spoilt = {}
    BY <2>1, BufferKeeps DEF LogsKept
  <2>3. CASE Len(Append(buffer, o)) >= bufferSize
    <3>1. written' = Append(written, key) /\ Drain(Append(buffer, o))
      BY <1>2, <2>1, <2>3 DEF AddAndMaybeFlush
    <3> QED
      BY <2>2, <3>1, DrainLogs
  <2>4. CASE ~(Len(Append(buffer, o)) >= bufferSize)
    <3>1. written' = Append(written, key) /\ buffer' = Append(buffer, o) /\ UNCHANGED <<logs, torn, spoilt, lost>>
      BY <1>2, <2>1, <2>4 DEF AddAndMaybeFlush
    <3> QED
      BY <2>2, <3>1 DEF LogsKept
  <2> QED
    BY <2>3, <2>4
<1>3. CASE Flush
  BY <1>3, DrainLogs DEF Flush, LogsKept
<1>4. CASE DropWriter
  <2>1. PICK n \in 0 .. Len(buffer) : n = 0
    BY LenProperties DEF LogsKept, Sound
  <2>2. /\ buffer' = <<>> /\ lost' /\ logs' = logs /\ written' = written
    BY <1>4 DEF DropWriter
  <2>3. Sound(logs, <<>>, written)
    <3>1. <<>> \in Seq(Observation) /\ DOMAIN <<>> = {}
      OBVIOUS
    <3> QED
      BY <3>1 DEF LogsKept, Sound
  <2> QED
    BY <2>2, <2>3 DEF LogsKept
<1>5. CASE Next /\ part # "observations"
  BY <1>1, <1>5 DEF Next, StoreNext, CheckpointNext, LogNext, logVars
<1> QED
  BY <1>1, <1>2, <1>3, <1>4, <1>5
     DEF Next, StoreNext, CheckpointNext, LogNext, logVars, vars

LEMMA LogsKeptInOrder == LogsKept => LogsInOrder
<1> SUFFICES ASSUME LogsKept PROVE LogsInOrder
  OBVIOUS
<1>1. \A key \in Keys : InOrder(logs[key] \o OfKey(buffer, key), key, written)
  BY SoundInOrder DEF LogsKept
<1>2. ~lost => spoilt = {} /\ \A key \in Keys :
          logs[key] \o OfKey(buffer, key) = OfKey([i \in DOMAIN written |-> [key |-> written[i], n |-> i]], key)
  BY DEF LogsKept, Complete, Numbered
<1> QED
  BY <1>1, <1>2 DEF LogsInOrder, InOrder


(***************************************************************************)
(* The checkpoints                                                         *)
(***************************************************************************)

(* A write that has begun is of what its run saved last, to a file that is *)
(* cut short until it ends.                                                *)
WritesLast ==
    /\ saved \in [Ids -> Nat] /\ file = [run \in Ids |-> file[run]]
    /\ writing # None =>
           \E run \in Ids : writing = [run |-> run, progress |-> saved[run]] /\ file[run] = CutShort(run)

CheckpointsKept == WritesLast /\ ResumeIsOwn

LEMMA InitCheckpoints == Init => CheckpointsKept
BY DEF Init, CheckpointsKept, WritesLast, ResumeIsOwn, LoadCheckpoint, CheckpointPath

LEMMA NextCheckpoints == CheckpointsKept /\ [Next]_vars => CheckpointsKept'
<1> SUFFICES ASSUME CheckpointsKept, [Next]_vars PROVE CheckpointsKept'
  OBVIOUS
<1>1. CASE UNCHANGED checkpointVars
  BY <1>1 DEF checkpointVars, CheckpointsKept, WritesLast, ResumeIsOwn, LoadCheckpoint, CheckpointPath
<1>2. ASSUME NEW run \in Ids, BeginCheckpoint(run) PROVE CheckpointsKept'
  <2>1. /\ saved' = [saved EXCEPT ![run] = @ + 1] /\ file' = [file EXCEPT ![run] = CutShort(run)]
        /\ writing' = [run |-> run, progress |-> saved[run] + 1]
    BY <1>2 DEF BeginCheckpoint, CheckpointPath
  <2>2. /\ saved' \in [Ids -> Nat] /\ file' = [r \in Ids |-> file'[r]]
        /\ saved'[run] = saved[run] + 1 /\ file'[run] = CutShort(run)
        /\ \A r \in Ids \ {run} : saved'[r] = saved[r] /\ file'[r] = file[r]
    BY <2>1 DEF CheckpointsKept, WritesLast
  <2>3. WritesLast'
    BY <2>1, <2>2 DEF WritesLast, CutShort
  <2>4. ResumeIsOwn'
    BY <2>2 DEF CheckpointsKept, ResumeIsOwn, LoadCheckpoint, CheckpointPath, CutShort
  <2> QED
    BY <2>3, <2>4 DEF CheckpointsKept
<1>3. CASE EndCheckpoint
  <2>1. PICK run \in Ids : writing = [run |-> run, progress |-> saved[run]]
    BY <1>3 DEF EndCheckpoint, CheckpointsKept, WritesLast
  <2>2. /\ file' = [file EXCEPT ![run] = writing] /\ writing' = None /\ saved' = saved
    BY <1>3, <2>1 DEF EndCheckpoint, CheckpointPath
  <2>3. /\ file' = [r \in Ids |-> file'[r]] /\ file'[run] = [run |-> run, progress |-> saved[run]]
        /\ \A r \in Ids \ {run} : file'[r] = file[r]
    BY <2>1, <2>2 DEF CheckpointsKept, WritesLast
  <2>4. WritesLast'
    BY <2>2, <2>3 DEF CheckpointsKept, WritesLast
  <2>5. ResumeIsOwn'
    BY <2>2, <2>3 DEF CheckpointsKept, ResumeIsOwn, LoadCheckpoint, CheckpointPath, CutShort
  <2> QED
    BY <2>4, <2>5 DEF CheckpointsKept
<1>4. CASE Crash
  BY <1>4 DEF Crash, CheckpointsKept, WritesLast, ResumeIsOwn, LoadCheckpoint, CheckpointPath, CutShort
<1> QED
  BY <1>1, <1>2, <1>3, <1>4 DEF Next, StoreNext, CheckpointNext, LogNext, vars, checkpointVars

(***************************************************************************)
(* The store                                                               *)
(***************************************************************************)

Run == [run : Ids, replication : Ids, experiment : Ids, study : Ids, parent : {None},
        started : BOOLEAN, finished : BOOLEAN, status : RunStatus]

(* What is asked of None: it is no run and no status.                      *)
NoneIsNoRun == None \notin Run /\ None \notin RunStatus

(* A run that has ended says when.                                         *)
Ended(run) == run.status \in Terminal => run.finished

(* The row of a run.                                                       *)
Row(run) == [run EXCEPT !.status = StatusText(@)]

TablesTyped ==
    /\ tables = [table \in {"study", "experiment", "replication", "run", "result"} |-> tables[table]]
    /\ tables["run"] = [id \in DOMAIN tables["run"] |-> tables["run"][id]]

(* The parent of a row, in the table that its table refers to.             *)
Parent(table, id) ==
    IF table = "result" THEN id
    ELSE IF table = "run" THEN tables["run"][id].replication ELSE tables[table][id]

RowsRefer ==
    \A table \in DOMAIN Refers : \A id \in DOMAIN tables[table] :
        Parent(table, id) \in DOMAIN tables[Refers[table]]

MetadataEnds == metadata = None \/ (metadata \in Run /\ Ended(metadata))

ToldTyped ==
    /\ told = [registered |-> told.registered, updated |-> told.updated, result |-> told.result]
    /\ told.registered \in [Ids -> Run \cup {None}] /\ told.updated \in [Ids -> RunStatus \cup {None}]
    /\ told.result = [id \in Ids |-> told.result[id]]
    /\ \A id \in Ids : IF told.registered[id] = None THEN told.updated[id] = None
                       ELSE told.registered[id].run = id /\ Ended(told.registered[id])

(* The rows of the runs and of the results are what the store was told.    *)
RunsTold ==
    /\ DOMAIN tables["run"] = {id \in Ids : told.registered[id] # None}
    /\ \A id \in DOMAIN tables["run"] : tables["run"][id] = Row(Latest(id))
ResultsTold == \A id \in Ids : GetResult(id) = told.result[id]

StoreKept == TablesTyped /\ RowsRefer /\ MetadataEnds /\ ToldTyped /\ RunsTold /\ ResultsTold

(* No two statuses have the same text.                                     *)
LEMMA TextReads == \A status \in RunStatus : StatusOf(StatusText(status)) = status
<1>1. DOMAIN [Failed |-> "error"] # DOMAIN [variant |-> "Failed"]
  <2>1. DOMAIN [Failed |-> "error"] = {"Failed"} /\ DOMAIN [variant |-> "Failed"] = {"variant"}
    OBVIOUS
  <2> QED
    BY <2>1
<1>2. \A s : [Failed |-> "error"] # [variant |-> s] /\ [variant |-> s].variant = s
  <2>1. \A s : DOMAIN [variant |-> s] = {"variant"} /\ DOMAIN [Failed |-> "error"] = {"Failed"}
    OBVIOUS
  <2> QED
    BY <2>1
<1>3. \A s, t : StatusText(s) = StatusText(t) => s = t
  BY <1>2 DEF StatusText
<1> QED
  BY <1>3 DEF StatusOf

LEMMA RowReads ==
    ASSUME NEW run \in Run
    PROVE  /\ Read(Row(run)) = run /\ Row(run).run = run.run
           /\ Row(run).replication = run.replication /\ Row(run).experiment = run.experiment
<1>1. PICK text : text = StatusText(run.status)
  OBVIOUS
<1>2. StatusOf(text) = run.status
  BY <1>1, TextReads DEF Run
<1>3. PICK row : row = [run EXCEPT !.status = text]
  OBVIOUS
<1>4. row = Row(run)
  BY <1>1, <1>3 DEF Row
<1>5. /\ row.status = text /\ row.run = run.run /\ row.replication = run.replication
      /\ row.experiment = run.experiment /\ [row EXCEPT !.status = run.status] = run
  BY <1>3 DEF Run
<1>6. Read(row) = run
  BY <1>2, <1>5 DEF Read
<1> QED
  BY <1>4, <1>5, <1>6

(* A run after an update.                                                  *)
LEMMA UpdateIsRun ==
    ASSUME NEW run \in Run, NEW status \in RunStatus,
           NEW new, new = [run EXCEPT !.status = status, !.finished = status \in Terminal]
    PROVE  /\ new \in Run /\ Ended(new) /\ new.run = run.run
           /\ new.replication = run.replication /\ new.experiment = run.experiment
<1>1. PICK at \in BOOLEAN : at = (status \in Terminal)
  <2>1. CASE status \in Terminal
    <3>1. TRUE = (status \in Terminal)
      BY <2>1, Zenon
    <3> QED
      BY <3>1, Zenon
  <2>2. CASE status \notin Terminal
    <3>1. FALSE = (status \in Terminal)
      BY <2>2
    <3> QED
      BY <3>1, Zenon
  <2> QED
    BY <2>1, <2>2, Zenon
<1>2. new = [run EXCEPT !.status = status, !.finished = at]
  BY <1>1
<1>3. /\ new \in Run /\ new.status = status /\ new.finished = at /\ new.run = run.run
      /\ new.replication = run.replication /\ new.experiment = run.experiment
  BY <1>2 DEF Run
<1> QED
  BY <1>1, <1>3 DEF Ended

(* What was told of a run that is registered.                              *)
LEMMA LatestIsRun ==
    ASSUME ToldTyped, NEW id \in Ids
    PROVE  /\ told.registered[id] = None => Latest(id) = None
           /\ told.registered[id] # None =>
                  /\ Latest(id) \in Run /\ Ended(Latest(id)) /\ Latest(id).run = id
                  /\ Latest(id).replication = told.registered[id].replication
                  /\ Latest(id).experiment = told.registered[id].experiment
<1>1. CASE told.registered[id] = None
  BY <1>1 DEF ToldTyped, Latest
<1>2. CASE told.registered[id] # None
  <2>1. /\ told.registered[id] \in Run /\ told.registered[id].run = id /\ Ended(told.registered[id])
        /\ told.updated[id] \in RunStatus \cup {None}
    BY <1>2 DEF ToldTyped
  <2>2. CASE told.updated[id] = None
    BY <1>2, <2>1, <2>2 DEF Latest
  <2>3. CASE told.updated[id] # None
    <3>1. Latest(id) = [told.registered[id] EXCEPT !.status = told.updated[id],
                                                  !.finished = told.updated[id] \in Terminal]
      BY <2>3 DEF Latest
    <3>2. /\ Latest(id) \in Run /\ Ended(Latest(id)) /\ Latest(id).run = told.registered[id].run
          /\ Latest(id).replication = told.registered[id].replication
          /\ Latest(id).experiment = told.registered[id].experiment
      <4>1. told.updated[id] \in RunStatus
        BY <2>1, <2>3
      <4> QED
        BY <2>1, <3>1, <4>1, UpdateIsRun, Zenon
    <3> QED
      BY <1>2, <2>1, <3>2
  <2> QED
    BY <2>2, <2>3
<1> QED
  BY <1>1, <1>2

LEMMA InitStore == Init => StoreKept
<1> SUFFICES ASSUME Init PROVE StoreKept
  OBVIOUS
<1>1. /\ tables = NoRows /\ metadata = None /\ DOMAIN <<>> = {}
      /\ \A table \in {"study", "experiment", "replication", "run", "result"} : tables[table] = <<>>
  BY DEF Init, NoRows
<1>2. TablesTyped
  BY <1>1 DEF TablesTyped, NoRows
<1>3. RowsRefer
  BY <1>1 DEF RowsRefer, Refers
<1>4. /\ told = [registered |-> told.registered, updated |-> told.updated, result |-> told.result]
      /\ told.registered = [id \in Ids |-> None] /\ told.updated = [id \in Ids |-> None]
      /\ told.result = [id \in Ids |-> None]
  BY DEF Init
<1>5. ToldTyped
  BY <1>4 DEF ToldTyped
<1>6. RunsTold /\ ResultsTold
  BY <1>1, <1>4 DEF RunsTold, ResultsTold, GetResult
<1> QED
  BY <1>1, <1>2, <1>3, <1>5, <1>6 DEF StoreKept, MetadataEnds

LEMMA StoreKeptTraceable == ASSUME NoneIsNoRun PROVE StoreKept => StoreIsTraceable
<1> SUFFICES ASSUME StoreKept PROVE StoreIsTraceable
  OBVIOUS
<1>1. ASSUME NEW table \in DOMAIN Refers, NEW id \in DOMAIN tables[table]
      PROVE  (IF table = "result" THEN id
              ELSE IF table = "run" THEN tables[table][id].replication ELSE tables[table][id])
                 \in DOMAIN tables[Refers[table]]
  BY DEF StoreKept, RowsRefer, Parent
<1>2. ASSUME NEW id \in DOMAIN tables.run
      PROVE  /\ id \in Ids /\ told.registered[id] # None /\ Latest(id) \in Run /\ Ended(Latest(id))
             /\ Read(tables.run[id]) = Latest(id)
             /\ tables.run[id].experiment = told.registered[id].experiment
  <2>1. id \in Ids /\ told.registered[id] # None /\ tables.run[id] = Row(Latest(id))
    BY DEF StoreKept, RunsTold
  <2>2. /\ Latest(id) \in Run /\ Ended(Latest(id))
        /\ Latest(id).experiment = told.registered[id].experiment
    BY <2>1, LatestIsRun DEF StoreKept
  <2> QED
    BY <2>1, <2>2, RowReads
<1>3. \A id \in Ids : id \in DOMAIN tables.run <=> told.registered[id] # None
  BY DEF StoreKept, RunsTold
<1>4. ASSUME NEW id \in Ids
      PROVE  /\ GetRun(id) = Latest(id) /\ GetResult(id) = told.result[id]
             /\ GetResult(id) # None => GetRun(id) # None
             /\ GetRun(id) # None /\ GetRun(id).status \in Terminal => GetRun(id).finished
  <2>1. GetRun(id) = Latest(id)
    <3>1. CASE id \in DOMAIN tables.run
      BY <1>2, <3>1 DEF GetRun
    <3>2. CASE id \notin DOMAIN tables.run
      BY <1>3, <3>2, LatestIsRun DEF GetRun, StoreKept
    <3> QED
      BY <3>1, <3>2
  <2>2. id \in DOMAIN tables.run => GetRun(id) # None /\ Ended(GetRun(id))
    BY <1>2, <2>1 DEF NoneIsNoRun
  <2>3. id \notin DOMAIN tables.run => GetRun(id) = None
    BY DEF GetRun
  <2>4. GetResult(id) # None => id \in DOMAIN tables.run
    BY <1>1 DEF GetResult, Refers
  <2>5. GetResult(id) = told.result[id]
    BY DEF StoreKept, ResultsTold
  <2> QED
    BY <2>1, <2>2, <2>3, <2>4, <2>5 DEF Ended
<1>5. ASSUME NEW experiment \in Ids
      PROVE  ListRuns(experiment) =
                 {Latest(id) : id \in {i \in Ids : /\ told.registered[i] # None
                                                 /\ told.registered[i].experiment = experiment}}
  <2>1. ASSUME NEW run \in ListRuns(experiment)
        PROVE  \E id \in Ids : /\ told.registered[id] # None
                              /\ told.registered[id].experiment = experiment /\ run = Latest(id)
    <3>1. PICK id \in DOMAIN tables.run : tables.run[id].experiment = experiment /\ run = Read(tables.run[id])
      BY <2>1 DEF ListRuns, Range
    <3> QED
      BY <1>2, <3>1
  <2>2. ASSUME NEW id \in Ids, told.registered[id] # None, told.registered[id].experiment = experiment
        PROVE  Latest(id) \in ListRuns(experiment)
    <3>1. id \in DOMAIN tables.run
      BY <1>3, <2>2
    <3>2. tables.run[id] \in Range(tables.run) /\ tables.run[id].experiment = experiment
      BY <1>2, <2>2, <3>1 DEF Range
    <3>3. Read(tables.run[id]) \in ListRuns(experiment)
      BY <3>2 DEF ListRuns
    <3> QED
      BY <1>2, <3>1, <3>3
  <2> QED
    BY <2>1, <2>2
<1> QED
  BY <1>1, <1>4, <1>5 DEF StoreIsTraceable


(* A row that is put in, or replaces one, when its parent is there.        *)
LEMMA PutKeeps ==
    ASSUME TablesTyped, RowsRefer,
           NEW table \in {"study", "experiment", "replication", "run", "result"}, NEW id, NEW row,
           tables' = [tables EXCEPT ![table] = Put(@, id, row)],
           table \in DOMAIN Refers =>
               (IF table = "result" THEN id ELSE IF table = "run" THEN row.replication ELSE row)
                   \in DOMAIN tables[Refers[table]]
    PROVE  /\ TablesTyped' /\ RowsRefer'
           /\ \A t \in {"study", "experiment", "replication", "run", "result"} \ {table} : tables'[t] = tables[t]
           /\ DOMAIN tables'[table] = DOMAIN tables[table] \cup {id} /\ tables'[table][id] = row
           /\ \A i \in DOMAIN tables[table] \ {id} : tables'[table][i] = tables[table][i]
<1> DEFINE Names == {"study", "experiment", "replication", "run", "result"}
<1>1. /\ tables' = [t \in Names |-> tables'[t]]
      /\ tables'[table] = Put(tables[table], id, row)
      /\ \A t \in Names \ {table} : tables'[t] = tables[t]
  BY DEF TablesTyped
<1>2. /\ DOMAIN tables'[table] = DOMAIN tables[table] \cup {id}
      /\ tables'[table][id] = row
      /\ \A i \in DOMAIN tables[table] \ {id} : tables'[table][i] = tables[table][i]
      /\ tables'[table] = [i \in DOMAIN tables'[table] |-> tables'[table][i]]
  BY <1>1 DEF Put
<1>3. \A t \in Names : DOMAIN tables[t] \subseteq DOMAIN tables'[t]
  BY <1>1, <1>2
<1>4. TablesTyped'
  BY <1>1, <1>2 DEF TablesTyped
<1>5. ASSUME NEW t \in DOMAIN Refers, NEW i \in DOMAIN tables'[t]
      PROVE  Parent(t, i)' \in DOMAIN tables'[Refers[t]]
  <2>1. t \in Names /\ Refers[t] \in Names
    BY DEF Refers
  <2>2. CASE t = table /\ i = id
    <3>1. Parent(t, i)' = IF table = "result" THEN id ELSE IF table = "run" THEN row.replication ELSE row
      BY <1>2, <2>2 DEF Parent
    <3> QED
      BY <1>3, <2>1, <2>2, <3>1
  <2>3. CASE ~(t = table /\ i = id)
    <3>1. i \in DOMAIN tables[t] /\ tables'[t][i] = tables[t][i]
      BY <1>1, <1>2, <1>5, <2>1, <2>3
    <3>2. Parent(t, i)' = Parent(t, i)
      BY <3>1 DEF Parent
    <3>3. Parent(t, i) \in DOMAIN tables[Refers[t]]
      BY <3>1 DEF RowsRefer
    <3> QED
      BY <1>3, <2>1, <3>2, <3>3
  <2> QED
    BY <2>2, <2>3
<1> QED
  BY <1>1, <1>2, <1>4, <1>5 DEF RowsRefer

(* A registration above the runs.                                          *)
LEMMA RegisterKeeps ==
    ASSUME StoreKept, NEW table \in {"study", "experiment", "replication"}, NEW id, NEW parent,
           Insert(table, id, parent, parent), UNCHANGED <<metadata, told>>
    PROVE  StoreKept'
<1>1. /\ tables' = [tables EXCEPT ![table] = Put(@, id, parent)]
      /\ table \in DOMAIN Refers => parent \in DOMAIN tables[Refers[table]]
  BY DEF Insert, ReferenceHolds
<1>2. /\ TablesTyped' /\ RowsRefer'
      /\ tables'["run"] = tables["run"] /\ tables'["result"] = tables["result"]
  BY <1>1, PutKeeps DEF StoreKept
<1>3. \A i : Latest(i)' = Latest(i)
  BY DEF Latest
<1> QED
  BY <1>2, <1>3 DEF StoreKept, MetadataEnds, ToldTyped, RunsTold, ResultsTold, GetResult

LEMMA RegisterRunKeeps == ASSUME NoneIsNoRun, StoreKept, RegisterRun PROVE StoreKept'
<1>1. PICK id : id = metadata.run
  OBVIOUS
<1>2. metadata \in Run /\ Ended(metadata) /\ metadata # None /\ id \in Ids
  BY <1>1 DEF RegisterRun, StoreKept, MetadataEnds, Run
<1>3. Row(metadata).replication = metadata.replication
  BY <1>2, RowReads
<1>4. /\ id \notin DOMAIN tables["run"] /\ metadata.replication \in DOMAIN tables["replication"]
      /\ tables' = [tables EXCEPT !["run"] = Put(@, id, Row(metadata))]
      /\ told' = [told EXCEPT !.registered[id] = metadata] /\ metadata' = metadata
  BY <1>1 DEF RegisterRun, Insert, ReferenceHolds, Refers, Row
<1>5. /\ TablesTyped' /\ RowsRefer' /\ tables'["result"] = tables["result"]
      /\ DOMAIN tables'["run"] = DOMAIN tables["run"] \cup {id} /\ tables'["run"][id] = Row(metadata)
      /\ \A i \in DOMAIN tables["run"] \ {id} : tables'["run"][i] = tables["run"][i]
  <2>1. "run" \in DOMAIN Refers => Row(metadata).replication \in DOMAIN tables[Refers["run"]]
    BY <1>3, <1>4 DEF Refers
  <2> QED
    BY <1>4, <2>1, PutKeeps DEF StoreKept
<1>6. /\ told' = [registered |-> told'.registered, updated |-> told.updated, result |-> told.result]
      /\ told'.registered = [told.registered EXCEPT ![id] = metadata]
      /\ told'.updated = told.updated /\ told'.result = told.result
  BY <1>4 DEF StoreKept, ToldTyped
<1>7. /\ told'.registered[id] = metadata /\ told.registered[id] = None /\ told.updated[id] = None
      /\ \A i \in Ids \ {id} : told'.registered[i] = told.registered[i]
      /\ told'.registered \in [Ids -> Run \cup {None}]
  BY <1>2, <1>4, <1>6 DEF StoreKept, ToldTyped, RunsTold
<1>8. ToldTyped'
  <2>1. \A i \in Ids : IF told'.registered[i] = None THEN told'.updated[i] = None
                       ELSE told'.registered[i].run = i /\ Ended(told'.registered[i])
    BY <1>1, <1>2, <1>6, <1>7 DEF StoreKept, ToldTyped
  <2> QED
    BY <1>6, <1>7, <2>1 DEF StoreKept, ToldTyped
<1>9. Latest(id)' = metadata /\ \A i \in Ids \ {id} : Latest(i)' = Latest(i)
  BY <1>2, <1>6, <1>7 DEF Latest
<1>10. RunsTold'
  <2>1. DOMAIN tables'["run"] = {i \in Ids : told'.registered[i] # None}
    BY <1>2, <1>5, <1>7 DEF StoreKept, RunsTold
  <2>2. ASSUME NEW i \in DOMAIN tables'["run"] PROVE tables'["run"][i] = Row(Latest(i)')
    <3>1. CASE i = id
      BY <1>5, <1>9, <3>1
    <3>2. CASE i # id
      <4>1. i \in DOMAIN tables["run"] \ {id} /\ i \in Ids \ {id}
        BY <1>5, <2>1, <2>2, <3>2
      <4>2. tables["run"][i] = Row(Latest(i))
        BY <4>1 DEF StoreKept, RunsTold
      <4> QED
        BY <1>5, <1>9, <4>1, <4>2
    <3> QED
      BY <3>1, <3>2
  <2>3. \A i \in DOMAIN tables'["run"] : (tables["run"][i] = Row(Latest(i)))'
    BY <2>2 DEF Row
  <2> QED
    BY <2>1, <2>3 DEF RunsTold
<1>11. ResultsTold'
  BY <1>5, <1>6 DEF StoreKept, ResultsTold, GetResult
<1> QED
  BY <1>2, <1>4, <1>5, <1>8, <1>10, <1>11 DEF StoreKept, MetadataEnds

LEMMA StoreResultKeeps ==
    ASSUME StoreKept, NEW id \in Ids, NEW json, StoreResult(id, json) PROVE StoreKept'
<1>1. /\ id \in DOMAIN tables["run"] /\ tables' = [tables EXCEPT !["result"] = Put(@, id, json)]
      /\ told' = [told EXCEPT !.result[id] = json] /\ metadata' = metadata
  BY DEF StoreResult, ReferenceHolds, Refers, PutResult
<1>2. /\ TablesTyped' /\ RowsRefer' /\ tables'["run"] = tables["run"]
      /\ DOMAIN tables'["result"] = DOMAIN tables["result"] \cup {id} /\ tables'["result"][id] = json
      /\ \A i \in DOMAIN tables["result"] \ {id} : tables'["result"][i] = tables["result"][i]
  <2>1. "result" \in DOMAIN Refers => id \in DOMAIN tables[Refers["result"]]
    BY <1>1 DEF Refers
  <2> QED
    BY <1>1, <2>1, PutKeeps DEF StoreKept
<1>3. /\ told' = [registered |-> told.registered, updated |-> told.updated, result |-> told'.result]
      /\ told'.result = [told.result EXCEPT ![id] = json]
      /\ told'.registered = told.registered /\ told'.updated = told.updated
  BY <1>1 DEF StoreKept, ToldTyped
<1>4. /\ told'.result = [i \in Ids |-> told'.result[i]] /\ told'.result[id] = json
      /\ \A i \in Ids \ {id} : told'.result[i] = told.result[i]
  BY <1>3 DEF StoreKept, ToldTyped
<1>5. ToldTyped'
  BY <1>3, <1>4 DEF StoreKept, ToldTyped
<1>6. \A i : Latest(i)' = Latest(i)
  BY <1>3 DEF Latest
<1>7. RunsTold'
  BY <1>2, <1>3, <1>6 DEF StoreKept, RunsTold
<1>8. ASSUME NEW i \in Ids PROVE GetResult(i)' = told'.result[i]
  <2>1. CASE i = id
    BY <1>2, <1>4, <2>1 DEF GetResult
  <2>2. CASE i # id
    <3>1. GetResult(i)' = GetResult(i)
      BY <1>2, <2>2 DEF GetResult
    <3> QED
      BY <1>4, <2>2, <3>1 DEF StoreKept, ResultsTold
  <2> QED
    BY <2>1, <2>2
<1> QED
  BY <1>1, <1>2, <1>5, <1>7, <1>8 DEF StoreKept, MetadataEnds, ResultsTold

LEMMA UpdateKeeps ==
    ASSUME NoneIsNoRun, StoreKept, NEW id \in Ids, NEW status \in RunStatus, UpdateRunStatus(id, status)
    PROVE  StoreKept'
<1> DEFINE Names == {"study", "experiment", "replication", "run", "result"}
<1>1. ASSUME NEW i \in DOMAIN tables["run"]
      PROVE  /\ i \in Ids /\ told.registered[i] \in Run /\ told.registered[i] # None
             /\ Latest(i) \in Run /\ Latest(i).run = i
             /\ tables["run"][i] = Row(Latest(i)) /\ tables["run"][i].run = i
             /\ tables["run"][i].replication = Latest(i).replication
             /\ Latest(i).replication = told.registered[i].replication
  <2>1. i \in Ids /\ told.registered[i] # None /\ tables["run"][i] = Row(Latest(i))
    BY DEF StoreKept, RunsTold
  <2>2. /\ Latest(i) \in Run /\ Latest(i).run = i /\ told.registered[i] \in Run
        /\ Latest(i).replication = told.registered[i].replication
    BY <2>1, LatestIsRun DEF StoreKept, ToldTyped
  <2> QED
    BY <2>1, <2>2, RowReads
<1>2. PICK rows : rows = [i \in DOMAIN tables["run"] |->
               IF ~Where(tables["run"][i], id) THEN tables["run"][i]
               ELSE [tables["run"][i] EXCEPT !.status = StatusText(status), !.finished = FinishedAt(status)]]
  OBVIOUS
<1>3. tables' = [tables EXCEPT !["run"] = rows] /\ metadata' = metadata
  BY <1>2 DEF UpdateRunStatus
<1>4. /\ DOMAIN rows = DOMAIN tables["run"]
      /\ \A i \in DOMAIN tables["run"] \ {id} : rows[i] = tables["run"][i]
      /\ rows = [i \in DOMAIN rows |-> rows[i]]
      /\ id \in DOMAIN tables["run"] => rows[id] =
             [tables["run"][id] EXCEPT !.status = StatusText(status), !.finished = FinishedAt(status)]
  BY <1>1, <1>2 DEF Where
<1>5. /\ tables' = [t \in Names |-> tables'[t]] /\ tables'["run"] = rows
      /\ \A t \in Names \ {"run"} : tables'[t] = tables[t]
  BY <1>3 DEF StoreKept, TablesTyped
<1>6. TablesTyped'
  BY <1>4, <1>5 DEF TablesTyped
<1>7. ToldTyped'
  <2>1. CASE told.registered[id] = None
    <3>1. told' = told
      BY <2>1 DEF UpdateRunStatus
    <3> QED
      BY <3>1 DEF StoreKept, ToldTyped
  <2>2. CASE told.registered[id] # None
    <3>1. told' = [told EXCEPT !.updated[id] = status]
      BY <2>2 DEF UpdateRunStatus
    <3>2. /\ told' = [registered |-> told.registered, updated |-> told'.updated, result |-> told.result]
          /\ told'.updated = [told.updated EXCEPT ![id] = status]
          /\ told'.registered = told.registered /\ told'.result = told.result
      BY <3>1 DEF StoreKept, ToldTyped
    <3>3. /\ told'.updated \in [Ids -> RunStatus \cup {None}]
          /\ \A i \in Ids \ {id} : told'.updated[i] = told.updated[i]
      BY <3>2 DEF StoreKept, ToldTyped
    <3> QED
      BY <2>2, <3>2, <3>3 DEF StoreKept, ToldTyped
  <2> QED
    BY <2>1, <2>2
<1>8. /\ told'.registered = told.registered /\ told'.result = told.result
      /\ \A i \in Ids \ {id} : Latest(i)' = Latest(i)
      /\ id \notin DOMAIN tables["run"] \/ told'.updated[id] = status
  <2>1. CASE told.registered[id] = None
    <3>1. told' = told
      BY <2>1 DEF UpdateRunStatus
    <3>2. id \notin DOMAIN tables["run"]
      BY <1>1, <2>1
    <3> QED
      BY <3>1, <3>2 DEF Latest
  <2>2. CASE told.registered[id] # None
    <3>1. told' = [told EXCEPT !.updated[id] = status]
      BY <2>2 DEF UpdateRunStatus
    <3>2. /\ told'.updated = [told.updated EXCEPT ![id] = status]
          /\ told'.registered = told.registered /\ told'.result = told.result
      BY <3>1 DEF StoreKept, ToldTyped
    <3>3. told'.updated[id] = status /\ \A i \in Ids \ {id} : told'.updated[i] = told.updated[i]
      BY <3>2 DEF StoreKept, ToldTyped
    <3> QED
      BY <3>2, <3>3 DEF Latest
  <2> QED
    BY <2>1, <2>2
<1>9. ASSUME id \in DOMAIN tables["run"]
      PROVE  rows[id] = Row(Latest(id)') /\ Latest(id)'.replication = Latest(id).replication
             /\ rows[id].replication = tables["run"][id].replication
  <2>1. PICK run \in Run : run = told.registered[id]
    BY <1>1, <1>9
  <2>2. Latest(id)' = [run EXCEPT !.status = status, !.finished = status \in Terminal]
    <3>1. told'.registered[id] = run /\ told'.updated[id] = status /\ status # None
      BY <1>8, <1>9, <2>1 DEF NoneIsNoRun
    <3> QED
      BY <3>1 DEF Latest
  <2>3. PICK new \in Run : new = Latest(id)' /\ new.replication = run.replication
    BY <2>2, UpdateIsRun
  <2>4. PICK old \in Run : old = Latest(id)
    BY <1>1, <1>9
  <2>5. new = [old EXCEPT !.status = status, !.finished = status \in Terminal]
    <3>1. CASE told.updated[id] = None
      <4>1. old = run
        BY <2>1, <2>4, <3>1 DEF Latest
      <4> QED
        BY <2>2, <2>3, <4>1
    <3>2. CASE told.updated[id] # None
      <4>1. old = [run EXCEPT !.status = told.updated[id], !.finished = told.updated[id] \in Terminal]
        BY <2>1, <2>4, <3>2 DEF Latest
      <4>2. PICK at : at = (status \in Terminal)
        OBVIOUS
      <4>3. PICK before : before = (told.updated[id] \in Terminal)
        OBVIOUS
      <4>4. /\ old = [run EXCEPT !.status = told.updated[id], !.finished = before]
            /\ new = [run EXCEPT !.status = status, !.finished = at]
        BY <2>2, <2>3, <4>1, <4>2, <4>3
      <4>5. new = [old EXCEPT !.status = status, !.finished = at]
        BY <4>4 DEF Run
      <4> QED
        BY <4>2, <4>5
    <3> QED
      BY <3>1, <3>2
  <2>6. PICK at : at = (status \in Terminal)
    OBVIOUS
  <2>7. PICK text : text = StatusText(status)
    OBVIOUS
  <2>8. new = [old EXCEPT !.status = status, !.finished = at]
    BY <2>5, <2>6
  <2>9. PICK row : row = tables["run"][id]
    OBVIOUS
  <2>10. row = [old EXCEPT !.status = StatusText(old.status)]
    BY <1>1, <1>9, <2>4, <2>9 DEF Row
  <2>11. rows[id] = [row EXCEPT !.status = text, !.finished = at]
    BY <1>4, <1>9, <2>6, <2>7, <2>9 DEF FinishedAt
  <2>12. Row(new) = [new EXCEPT !.status = text]
    <3>1. new.status = status
      BY <2>8 DEF Run
    <3> QED
      BY <2>7, <3>1 DEF Row
  <2>13. rows[id] = Row(new) /\ rows[id].replication = row.replication
    BY <2>8, <2>10, <2>11, <2>12 DEF Run
  <2> QED
    BY <1>1, <1>9, <2>1, <2>3, <2>9, <2>13
<1>10. RowsRefer'
  <2> SUFFICES ASSUME NEW t \in DOMAIN Refers, NEW i \in DOMAIN tables'[t]
               PROVE  Parent(t, i)' \in DOMAIN tables'[Refers[t]]
    BY DEF RowsRefer
  <2>1. t \in Names /\ Refers[t] \in Names
    BY DEF Refers
  <2>2. \A u \in Names : DOMAIN tables'[u] = DOMAIN tables[u]
    BY <1>4, <1>5
  <2>3. Parent(t, i)' = Parent(t, i)
    <3>1. CASE t = "run"
      <4>1. rows[i].replication = tables["run"][i].replication
        BY <1>4, <1>5, <1>9, <3>1
      <4> QED
        BY <1>5, <3>1, <4>1 DEF Parent
    <3>2. CASE t # "run"
      BY <1>5, <2>1, <3>2 DEF Parent
    <3> QED
      BY <3>1, <3>2
  <2>4. Parent(t, i) \in DOMAIN tables[Refers[t]]
    BY <2>1, <2>2 DEF StoreKept, RowsRefer
  <2> QED
    BY <2>1, <2>2, <2>3, <2>4
<1>11. RunsTold'
  <2>1. DOMAIN tables'["run"] = {i \in Ids : told'.registered[i] # None}
    BY <1>4, <1>5, <1>8 DEF StoreKept, RunsTold
  <2>2. ASSUME NEW i \in DOMAIN tables'["run"] PROVE tables'["run"][i] = Row(Latest(i)')
    <3>1. CASE i = id
      BY <1>4, <1>5, <1>9, <2>2, <3>1
    <3>2. CASE i # id
      BY <1>1, <1>4, <1>5, <1>8, <2>2, <3>2
    <3> QED
      BY <3>1, <3>2
  <2>3. \A i \in DOMAIN tables'["run"] : (tables["run"][i] = Row(Latest(i)))'
    BY <2>2 DEF Row
  <2> QED
    BY <2>1, <2>3 DEF RunsTold
<1>12. ResultsTold'
  BY <1>5, <1>8 DEF StoreKept, ResultsTold, GetResult
<1> QED
  BY <1>3, <1>6, <1>7, <1>10, <1>11, <1>12 DEF StoreKept, MetadataEnds

LEMMA MetadataKeeps ==
    ASSUME StoreKept, MetadataEnds', UNCHANGED <<tables, told>> PROVE StoreKept'
<1>1. \A i : Latest(i)' = Latest(i)
  BY DEF Latest
<1> QED
  BY <1>1 DEF StoreKept, TablesTyped, RowsRefer, Parent, ToldTyped, RunsTold, ResultsTold, GetResult

LEMMA NextStore == ASSUME NoneIsNoRun PROVE StoreKept /\ [Next]_vars => StoreKept'
<1> SUFFICES ASSUME StoreKept, [Next]_vars PROVE StoreKept'
  OBVIOUS
<1>1. CASE UNCHANGED storeVars
  BY <1>1, MetadataKeeps DEF storeVars, StoreKept, MetadataEnds
<1>2. ASSUME NEW id \in Ids, RegisterStudy(id) PROVE StoreKept'
  BY <1>2, RegisterKeeps DEF RegisterStudy
<1>3. ASSUME NEW id \in Ids, NEW study \in Ids, RegisterExperiment(id, study) PROVE StoreKept'
  BY <1>3, RegisterKeeps DEF RegisterExperiment
<1>4. ASSUME NEW id \in Ids, NEW experiment \in Ids, RegisterReplication(id, experiment) PROVE StoreKept'
  BY <1>4, RegisterKeeps DEF RegisterReplication
<1>5. CASE RegisterRun
  BY <1>5, RegisterRunKeeps
<1>6. ASSUME NEW id \in Ids, NEW json, StoreResult(id, json) PROVE StoreKept'
  BY <1>6, StoreResultKeeps
<1>7. CASE Build
  <2>1. PICK run \in Ids, replication \in Ids, experiment \in Ids :
            metadata' = RunMetadata(run, replication, experiment, experiment)
    BY <1>7 DEF Build
  <2>2. metadata' \in Run /\ Ended(metadata')
    BY <2>1 DEF RunMetadata, Run, RunStatus, Ended, Terminal
  <2> QED
    BY <1>7, <2>2, MetadataKeeps DEF Build, MetadataEnds
<1>8. CASE ChangeStatus
  <2>1. PICK status \in RunStatus : metadata' = Transition(status)
    BY <1>8 DEF ChangeStatus
  <2>2. metadata \in Run /\ Ended(metadata)
    BY <1>8 DEF ChangeStatus, StoreKept, MetadataEnds
  <2>3. metadata' \in Run /\ Ended(metadata')
    BY <2>1, <2>2 DEF Transition, Run, Ended
  <2> QED
    BY <1>8, <2>3, MetadataKeeps DEF ChangeStatus, MetadataEnds
<1>9. ASSUME NEW id \in Ids, NEW status \in RunStatus, UpdateRunStatus(id, status) PROVE StoreKept'
  BY <1>9, UpdateKeeps
<1> QED
  BY <1>1, <1>2, <1>3, <1>4, <1>5, <1>6, <1>7, <1>8, <1>9
     DEF Next, StoreNext, CheckpointNext, LogNext, vars, storeVars

(***************************************************************************)
(* The theorems                                                            *)
(***************************************************************************)

(* A log holds the observations of its key, each once and in order, and    *)
(* loses none unless a write failed or the writer was dropped              *)
(* (observation.rs).                                                       *)
THEOREM LogsInOrderCorrect == Spec => []LogsInOrder
BY InitLogs, NextLogs, LogsKeptInOrder, PTL DEF Spec

(* A run whose checkpoint was not cut short resumes from its own last one, *)
(* whenever the program crashed (checkpoint.rs, save_checkpoint).          *)
THEOREM ResumeIsOwnCorrect == Spec => []ResumeIsOwn
<1>1. CheckpointsKept => ResumeIsOwn
  BY DEF CheckpointsKept
<1> QED
  BY <1>1, InitCheckpoints, NextCheckpoints, PTL DEF Spec

(* What is read back from the store, the checkpoints and the logs is what  *)
(* last written (store.rs, checkpoint.rs, observation.rs).                 *)
THEOREM PersistedIsWhatWasWrittenCorrect ==
    ASSUME NoneIsNoRun PROVE Spec => []PersistedIsWhatWasWritten
<1>1. LogsKept /\ CheckpointsKept /\ StoreKept => PersistedIsWhatWasWritten
  BY LogsKeptInOrder, StoreKeptTraceable DEF PersistedIsWhatWasWritten, CheckpointsKept
<1> QED
  BY <1>1, InitLogs, NextLogs, InitCheckpoints, NextCheckpoints, InitStore, NextStore, PTL DEF Spec
=============================================================================
