--------------------------- MODULE EcosystemProofs ---------------------------
(***************************************************************************)
(* That an id of the counter names one player for ever, for any number of  *)
(* players, parties and ticks, any agents and any dynamics, whichever way  *)
(* the first players got theirs.                                           *)
(***************************************************************************)
EXTENDS Ecosystem, FiniteSetTheorems, SequenceTheorems, WellFoundedInduction, TLAPS

Party == PartyIds \cup {None}
Known == [who : Nat, party_id : Party]
Member == [id : PlayerId, who : Nat, party_id : Party]
Entry == [player : PlayerId, who : Nat, party_id : Party]

Names(those) == {<<those[i].id, those[i].who>> : i \in DOMAIN those}

Once(those) == \A i, j \in DOMAIN those : those[i].who = those[j].who => i = j

(***************************************************************************)
(* Induction on the natural numbers, for a set instead of a predicate: a   *)
(* number that is not in the set would have a least one.                   *)
(***************************************************************************)

LEMMA Least ==
    ASSUME NEW T \in SUBSET Nat, T # {}
    PROVE  \E x \in T : \A y \in T : x <= y
<1> DEFINE Below == {pair \in Nat \X Nat : pair[1] < pair[2]}
<1>1. OpToRel(<, Nat) = Below
  BY DEF OpToRel
<1>2. IsWellFoundedOn(Below, Nat)
  BY <1>1, NatLessThanWellFounded
<1> HIDE DEF Below
<1>3. PICK x \in T : \A y \in T : ~(<<y, x>> \in Below)
  BY <1>2, WFMin
<1>4. \A y \in T : ~(y < x)
  BY <1>3 DEF Below
<1> QED
  BY <1>4

LEMMA Induction ==
    ASSUME NEW N \in Nat, NEW S, 0 \in S, \A n \in 0 .. (N - 1) : n \in S => n + 1 \in S
    PROVE  \A n \in 0 .. N : n \in S
<1> DEFINE T == {n \in 0 .. N : n \notin S}
<1> SUFFICES ASSUME T # {} PROVE FALSE
  OBVIOUS
<1>1. PICK x \in T : \A y \in T : x <= y
  <2>1. T \in SUBSET Nat
    OBVIOUS
  <2> HIDE DEF T
  <2> QED
    BY <2>1, Least
<1>2. x # 0 /\ x - 1 \in 0 .. (N - 1) /\ x - 1 \in 0 .. N /\ ~(x <= x - 1)
  BY <1>1
<1>3. x - 1 \in S
  BY <1>1, <1>2
<1> QED
  BY <1>1, <1>2, <1>3

(***************************************************************************)
(* The players who stay                                                    *)
(***************************************************************************)

(* What the function of Retained is, up to m.                              *)
Keeps(f, those, leaving, m) ==
    /\ f[0] = <<>>
    /\ \A n \in 1 .. m :
           f[n] = IF n \in leaving THEN f[n - 1] ELSE Append(f[n - 1], those[n])

LEMMA KeepingExists ==
    ASSUME NEW those \in Seq(Member), NEW leaving, NEW m \in 0 .. Len(those)
    PROVE  \E f : f \in [0 .. m -> Seq(Member)] /\ Keeps(f, those, leaving, m)
<1>1. PICK N \in Nat : N = Len(those)
  BY LenProperties
<1> DEFINE S == {n \in Nat : \E f : f \in [0 .. n -> Seq(Member)] /\ Keeps(f, those, leaving, n)}
<1>2. 0 \in S
  <2>1. [n \in 0 .. 0 |-> <<>>] \in [0 .. 0 -> Seq(Member)]
    OBVIOUS
  <2>2. Keeps([n \in 0 .. 0 |-> <<>>], those, leaving, 0)
    BY DEF Keeps
  <2> QED
    BY <2>1, <2>2
<1>3. ASSUME NEW n \in 0 .. (N - 1), n \in S PROVE n + 1 \in S
  <2>1. PICK f : f \in [0 .. n -> Seq(Member)] /\ Keeps(f, those, leaving, n)
    BY <1>3
  <2>2. PICK k : k = n + 1
    OBVIOUS
  <2>3. n \in Nat /\ k \in 1 .. N /\ k - 1 = n /\ those[k] \in Member
    BY <1>1, <2>2, LenProperties, ElementOfSeq
  <2>4. PICK last \in Seq(Member) :
            last = IF k \in leaving THEN f[n] ELSE Append(f[n], those[k])
    <3>1. f[n] \in Seq(Member)
      BY <2>1, <2>3
    <3>2. Append(f[n], those[k]) \in Seq(Member)
      BY <2>3, <3>1
    <3> QED
      BY <3>1, <3>2
  <2>5. PICK g : g = [i \in 0 .. k |-> IF i = k THEN last ELSE f[i]]
    OBVIOUS
  <2>6. /\ \A i \in 0 .. n : i \in 0 .. k /\ i # k
        /\ \A i \in 0 .. k : i = k \/ i \in 0 .. n
        /\ \A i \in 1 .. k : i = k \/ i \in 1 .. n
        /\ \A i \in 1 .. n : i \in 0 .. n /\ i - 1 \in 0 .. n
        /\ k \in 0 .. k /\ 0 \in 0 .. n /\ n \in 0 .. n
    BY <2>2, <2>3
  <2>7. g[k] = last /\ \A i \in 0 .. n : g[i] = f[i]
    BY <2>5, <2>6
  <2>8. g \in [0 .. k -> Seq(Member)]
    BY <2>1, <2>5, <2>6
  <2>9. Keeps(g, those, leaving, k)
    <3>1. g[0] = <<>>
      BY <2>1, <2>6, <2>7 DEF Keeps
    <3>2. ASSUME NEW i \in 1 .. k
          PROVE  g[i] = IF i \in leaving THEN g[i - 1] ELSE Append(g[i - 1], those[i])
      <4>1. CASE i = k
        BY <2>3, <2>4, <2>6, <2>7, <4>1
      <4>2. CASE i \in 1 .. n
        BY <2>1, <2>6, <2>7, <4>2 DEF Keeps
      <4> QED
        BY <2>6, <4>1, <4>2
    <3> QED
      BY <3>1, <3>2 DEF Keeps
  <2> QED
    BY <2>2, <2>3, <2>8, <2>9
<1> HIDE DEF S
<1>4. \A n \in 0 .. N : n \in S
  BY <1>2, <1>3, Induction
<1> QED
  BY <1>1, <1>4 DEF S

(* Retained is the end of such a function.                                 *)
LEMMA RetainedIs ==
    ASSUME NEW those \in Seq(Member), NEW leaving
    PROVE  \E f : Keeps(f, those, leaving, Len(those)) /\ Retained(those, leaving) = f[Len(those)]
<1>1. PICK m \in Nat : m = Len(those)
  BY LenProperties
<1>2. PICK f : f \in [0 .. m -> Seq(Member)] /\ Keeps(f, those, leaving, m)
  BY <1>1, KeepingExists
<1> DEFINE Of(g) == [n \in 0 .. Len(those) |->
                        IF n = 0 THEN <<>>
                        ELSE IF n \in leaving THEN g[n - 1]
                        ELSE Append(g[n - 1], those[n])]
<1>3. f = Of(f)
  <2>1. \A n \in 0 .. m : n = 0 \/ n \in 1 .. m
    BY <1>1
  <2>2. \A n \in 0 .. m : f[n] = Of(f)[n]
    BY <1>1, <1>2, <2>1 DEF Keeps
  <2> QED
    BY <1>1, <1>2, <2>2
<1>4. PICK g : g = CHOOSE h : h = Of(h)
  OBVIOUS
<1>5. g = Of(g)
  BY <1>3, <1>4
<1>6. Retained(those, leaving) = g[Len(those)]
  BY <1>4 DEF Retained
<1>7. Keeps(g, those, leaving, m)
  <2>1. 0 \in 0 .. m /\ \A n \in 1 .. m : n \in 0 .. m /\ n # 0
    BY <1>1
  <2> QED
    BY <1>1, <1>5, <2>1 DEF Keeps
<1> QED
  BY <1>1, <1>6, <1>7

(* One more member: the name it adds, and that all are still different.    *)
LEMMA OneMore ==
    ASSUME NEW those \in Seq(Member), NEW one \in Member
    PROVE  /\ Append(those, one) \in Seq(Member)
           /\ Names(Append(those, one)) = Names(those) \cup {<<one.id, one.who>>}
           /\ Once(those) /\ (\A r \in Names(those) : r[2] # one.who) => Once(Append(those, one))
<1>1. PICK m \in Nat : m = Len(those)
  BY LenProperties
<1>2. PICK longer : longer = Append(those, one)
  OBVIOUS
<1>3. /\ longer \in Seq(Member) /\ DOMAIN longer = 1 .. (m + 1) /\ longer[m + 1] = one
      /\ DOMAIN those = 1 .. m /\ \A n \in 1 .. m : longer[n] = those[n]
  BY <1>1, <1>2, LenProperties, AppendProperties
<1>4. m + 1 \in 1 .. (m + 1) /\ \A n \in 1 .. (m + 1) : n = m + 1 \/ n \in 1 .. m
  BY <1>1
<1>5. \A n \in 1 .. m : n \in 1 .. (m + 1)
  BY <1>1
<1>6. Names(longer) = Names(those) \cup {<<one.id, one.who>>}
  BY <1>3, <1>4, <1>5 DEF Names
<1>7. Once(those) /\ (\A r \in Names(those) : r[2] # one.who) => Once(longer)
  <2> SUFFICES ASSUME Once(those), \A r \in Names(those) : r[2] # one.who PROVE Once(longer)
    OBVIOUS
  <2>1. ASSUME NEW n \in 1 .. m PROVE those[n].who # one.who
    <3>1. <<those[n].id, those[n].who>> \in Names(those)
      BY <1>3, <2>1 DEF Names
    <3>2. <<those[n].id, those[n].who>>[2] # one.who
      BY <3>1
    <3> QED
      BY <3>2
  <2> QED
    BY <1>3, <1>4, <2>1 DEF Once
<1> QED
  BY <1>2, <1>3, <1>6, <1>7

(* The players who stay are those who were there and did not leave, and    *)
(* they are as different as they were.                                     *)
LEMMA RetainedFacts ==
    ASSUME NEW those \in Seq(Member), Once(those), NEW leaving
    PROVE  /\ Retained(those, leaving) \in Seq(Member)
           /\ Names(Retained(those, leaving)) = {<<those[i].id, those[i].who>> : i \in DOMAIN those \ leaving}
           /\ Once(Retained(those, leaving))
<1>1. PICK m \in Nat : m = Len(those) /\ DOMAIN those = 1 .. m
  BY LenProperties
<1>2. PICK f : Keeps(f, those, leaving, m) /\ Retained(those, leaving) = f[m]
  BY <1>1, RetainedIs
<1> DEFINE First(n) == {<<those[i].id, those[i].who>> : i \in (1 .. n) \ leaving}
           S == {n \in 0 .. m : /\ f[n] \in Seq(Member) /\ Names(f[n]) = First(n)
                                /\ Once(f[n])}
<1>3. 0 \in S
  <2>1. f[0] = <<>> /\ <<>> \in Seq(Member) /\ 0 \in 0 .. m
    BY <1>2 DEF Keeps
  <2>2. DOMAIN f[0] = {} /\ 1 .. 0 = {}
    BY <2>1
  <2> QED
    BY <2>1, <2>2 DEF Names, Once
<1>4. ASSUME NEW n \in 0 .. (m - 1), n \in S PROVE n + 1 \in S
  <2>1. PICK k : k = n + 1
    OBVIOUS
  <2>2. /\ k \in 1 .. m /\ k \in 0 .. m /\ k - 1 = n /\ those[k] \in Member
        /\ 1 .. k = (1 .. n) \cup {k} /\ k \notin 1 .. n /\ \A i \in 1 .. n : i \in 1 .. m
    BY <1>1, <2>1, ElementOfSeq
  <2>3. PICK so : so = f[n]
    OBVIOUS
  <2>4. so \in Seq(Member) /\ Names(so) = First(n) /\ Once(so)
    BY <1>4, <2>3
  <2>5. f[k] = IF k \in leaving THEN so ELSE Append(so, those[k])
    BY <1>2, <2>2, <2>3 DEF Keeps
  <2>6. First(k) = IF k \in leaving THEN First(n) ELSE First(n) \cup {<<those[k].id, those[k].who>>}
    BY <2>2
  <2>7. \A r \in First(n) : r[2] # those[k].who
    BY <1>1, <2>2 DEF Once
  <2> HIDE DEF First
  <2>8. CASE k \in leaving
    <3>1. f[k] \in Seq(Member) /\ Names(f[k]) = First(k) /\ Once(f[k])
      BY <2>4, <2>5, <2>6, <2>8
    <3> QED
      BY <2>1, <2>2, <3>1
  <2>9. CASE k \notin leaving
    <3>1. \A r \in Names(so) : r[2] # those[k].who
      BY <2>4, <2>7
    <3>2. f[k] \in Seq(Member) /\ Names(f[k]) = Names(so) \cup {<<those[k].id, those[k].who>>}
            /\ Once(f[k])
      BY <2>2, <2>4, <2>5, <2>9, <3>1, OneMore
    <3>3. Names(f[k]) = First(k)
      BY <2>4, <2>6, <2>9, <3>2
    <3> QED
      BY <2>1, <2>2, <3>2, <3>3
  <2> QED
    BY <2>8, <2>9
<1>5. m \in 0 .. m
  BY <1>1
<1>6. First(m) = {<<those[i].id, those[i].who>> : i \in DOMAIN those \ leaving}
  BY <1>1
<1> HIDE DEF S
<1>7. \A n \in 0 .. (m - 1) : n \in S => n + 1 \in S
  BY <1>4
<1>8. m \in S
  BY <1>3, <1>5, <1>7, Induction
<1> QED
  BY <1>2, <1>6, <1>8 DEF S

(***************************************************************************)
(* The inductive invariant: what the variables are, and that a player's id *)
(* is the player's own number, less that of the players the counter did    *)
(* not count.  Ids that differ so little cannot be given twice.            *)
(***************************************************************************)

Typed ==
    /\ players \in [DOMAIN players -> Known] /\ DOMAIN players \subseteq PlayerId
    /\ next_player_id \in 0 .. MaxPlayers /\ generated \in BOOLEAN /\ born \in Nat
    /\ population \in Seq(Member)
    /\ DOMAIN agents \subseteq PlayerId
    /\ queue \in Seq(Entry)
    /\ ticks \in 0 .. MaxTicks

Offset == IF generated THEN InitialPlayers ELSE 0

Numbered(r, n) ==
    /\ r[1] \in Nat /\ r[2] \in Nat /\ r[2] < n
    /\ r[2] < InitialPlayers => r[1] = r[2]
    /\ r[2] >= InitialPlayers => r[1] = r[2] - Offset

Counted ==
    /\ born = next_player_id + Offset /\ born >= InitialPlayers
    /\ \A r \in WorldNames \cup PopulationNames \cup QueueNames : Numbered(r, born)
    /\ Once(population)
    /\ {r \in WorldNames : Joined(r)} \subseteq PopulationNames
    /\ ~generated => PopulationNames \subseteq WorldNames

IInv == Typed /\ Counted

Bounds ==
    /\ InitialPlayers \in Nat /\ MaxPlayers \in Nat /\ InitialPlayers <= MaxPlayers
    /\ MaxTicks \in Nat

LEMMA OffsetIs ==
    ASSUME Bounds
    PROVE  Offset \in Nat /\ (~generated => Offset = 0)
BY DEF Bounds, Offset

LEMMA FreshByNumbers == ASSUME Bounds, IInv PROVE IdsStayFresh
<1> DEFINE All == WorldNames \cup PopulationNames \cup QueueNames
<1>1. ASSUME NEW r \in All, NEW s \in All, r[1] = s[1], r[2] # s[2]
      PROVE  generated /\ ~(Joined(r) <=> Joined(s))
  <2>1. Numbered(r, born) /\ Numbered(s, born)
    BY DEF IInv, Counted
  <2>2. Offset \in Nat /\ InitialPlayers \in Nat
    BY OffsetIs DEF Bounds
  <2>3. r[2] < InitialPlayers => ~(s[2] < InitialPlayers)
    BY <1>1, <2>1 DEF Numbered
  <2>4. r[2] >= InitialPlayers => ~(s[2] >= InitialPlayers)
    BY <1>1, <2>1, <2>2 DEF Numbered
  <2>5. ~(Joined(r) <=> Joined(s))
    BY <2>1, <2>2, <2>3, <2>4 DEF Joined, Numbered
  <2>6. Offset # 0
    BY <1>1, <2>1, <2>2, <2>3, <2>4 DEF Numbered
  <2> QED
    BY <2>5, <2>6, OffsetIs
<1>2. \A i, j \in DOMAIN population : population[i].who = population[j].who => i = j
  BY DEF IInv, Counted, Once
<1> QED
  BY <1>1, <1>2 DEF IInv, Counted, IdsStayFresh

LEMMA InitHolds == Bounds /\ Init => IInv
<1> SUFFICES ASSUME Bounds, Init PROVE IInv
  OBVIOUS
<1>1. /\ players \in [DOMAIN players -> Known] /\ DOMAIN players = 0 .. (InitialPlayers - 1)
      /\ \A p \in DOMAIN players : players[p].who = p
  BY DEF Init, Bounds, Known, Party
<1>2. \A p \in 0 .. (InitialPlayers - 1) :
        p \in PlayerId /\ p < InitialPlayers /\ p + 1 \in 1 .. InitialPlayers /\ (p + 1) - 1 = p
  BY DEF Bounds, PlayerId
<1>3. \A i \in 1 .. InitialPlayers : i - 1 \in 0 .. (InitialPlayers - 1)
  BY DEF Bounds
<1>4. PICK some : some = [i \in 1 .. InitialPlayers |->
                             [id |-> i - 1, who |-> i - 1, party_id |-> None]]
  OBVIOUS
<1>5. /\ some \in Seq(Member) /\ DOMAIN some = 1 .. InitialPlayers
      /\ \A i \in 1 .. InitialPlayers : some[i].id = i - 1 /\ some[i].who = i - 1
  <2>1. \A i \in 1 .. InitialPlayers : some[i] \in Member /\ some[i].id = i - 1 /\ some[i].who = i - 1
    BY <1>2, <1>3, <1>4 DEF Member, Party
  <2>2. some \in [1 .. InitialPlayers -> Member]
    BY <1>4, <2>1
  <2> QED
    BY <1>4, <2>1, <2>2, SeqDef DEF Bounds
<1>6. population = <<>> \/ population = some
  BY <1>4 DEF Init
<1>7. /\ population \in Seq(Member) /\ Once(population)
      /\ \A i \in DOMAIN population : /\ population[i].id \in 0 .. (InitialPlayers - 1)
                                      /\ population[i].who = population[i].id
  <2>1. CASE population = <<>>
    <3>1. population \in Seq(Member) /\ \A i \in DOMAIN population : FALSE
      BY <2>1
    <3> QED
      BY <3>1 DEF Once
  <2>2. CASE population = some
    <3>1. population \in Seq(Member) /\ DOMAIN population = 1 .. InitialPlayers
      BY <1>5, <2>2
    <3>2. \A i \in DOMAIN population : population[i].id = i - 1 /\ population[i].who = i - 1
      BY <1>5, <2>2
    <3>3. \A i, j \in 1 .. InitialPlayers : i - 1 = j - 1 => i = j
      BY DEF Bounds
    <3>4. Once(population)
      BY <3>1, <3>2, <3>3 DEF Once
    <3> QED
      BY <1>3, <3>1, <3>2, <3>4
  <2> QED
    BY <1>6, <2>1, <2>2
<1>8. /\ next_player_id \in 0 .. MaxPlayers /\ generated \in BOOLEAN /\ born = InitialPlayers
      /\ born = next_player_id + Offset
  BY DEF Init, Bounds, Offset
<1>9. Typed
  BY <1>1, <1>2, <1>7, <1>8 DEF Init, Typed, Bounds
<1>10. QueueNames = {}
  BY DEF Init, QueueNames
<1>11. \A r \in WorldNames \cup PopulationNames :
          /\ r[1] \in 0 .. (InitialPlayers - 1) /\ r[2] = r[1]
          /\ r \in WorldNames
  BY <1>1, <1>7 DEF WorldNames, PopulationNames
<1>12. \A r \in WorldNames \cup PopulationNames : Numbered(r, born) /\ ~Joined(r)
  BY <1>8, <1>11 DEF Numbered, Joined, Bounds
<1> QED
  BY <1>7, <1>8, <1>9, <1>10, <1>11, <1>12 DEF IInv, Counted, Bounds

(* The queue only grows, by entries of players the world knows.            *)
LEMMA QueueGrows ==
    ASSUME Bounds, IInv, NEW choice, NEW order \in Orders(Queueing(choice))
    PROVE  /\ queue \o Entries(order) \in Seq(Entry)
           /\ \A i \in DOMAIN (queue \o Entries(order)) :
                 Numbered(<<(queue \o Entries(order))[i].player, (queue \o Entries(order))[i].who>>, born)
<1>1. PICK those : those = Queueing(choice)
  OBVIOUS
<1>2. \A p \in those : p \in DOMAIN players
  BY <1>1 DEF Queueing
<1>3. IsFiniteSet(those)
  <2>1. IsFiniteSet(0 .. (MaxPlayers - 1))
    BY FS_Interval DEF Bounds
  <2>2. those \subseteq 0 .. (MaxPlayers - 1)
    BY <1>2 DEF IInv, Typed, PlayerId
  <2> QED
    BY <2>1, <2>2, FS_Subset
<1>4. PICK n \in Nat : n = Cardinality(those)
  BY <1>3, FS_CardinalityType
<1>5. order \in [1 .. n -> those]
  BY <1>1, <1>4 DEF Orders
<1>6. PICK more : more = Entries(order)
  OBVIOUS
<1>7. /\ more \in Seq(Entry) /\ DOMAIN more = 1 .. n
      /\ \A i \in 1 .. n : <<more[i].player, more[i].who>> \in WorldNames
  <2>1. \A i \in 1 .. n : order[i] \in DOMAIN players /\ order[i] \in PlayerId
                          /\ players[order[i]] \in Known
    BY <1>2, <1>5 DEF IInv, Typed
  <2>2. more = [i \in 1 .. n |-> [player |-> order[i], who |-> players[order[i]].who,
                                  party_id |-> players[order[i]].party_id]]
    BY <1>5, <1>6 DEF Entries
  <2>3. \A i \in 1 .. n : more[i] \in Entry
    BY <2>1, <2>2 DEF Entry, Known
  <2>4. more \in Seq(Entry)
    BY <2>2, <2>3, SeqDef
  <2>5. \A i \in 1 .. n : <<more[i].player, more[i].who>> = <<order[i], players[order[i]].who>>
    BY <2>2
  <2> QED
    BY <2>1, <2>2, <2>4, <2>5 DEF WorldNames
<1>8. PICK m \in Nat : m = Len(queue) /\ DOMAIN queue = 1 .. m
  BY LenProperties DEF IInv, Typed
<1>9. PICK longer : longer = queue \o more
  OBVIOUS
<1>10. longer \in Seq(Entry) /\ DOMAIN longer = 1 .. (m + n)
  <2>1. queue \in Seq(Entry) /\ Len(more) = n
    BY <1>7, LenProperties DEF IInv, Typed
  <2> QED
    <3>1. longer \in Seq(Entry) /\ Len(longer) = m + n
      BY <1>7, <1>8, <1>9, <2>1, ConcatProperties
    <3> QED
      BY <3>1, LenProperties
<1>11. ASSUME NEW i \in 1 .. (m + n) PROVE Numbered(<<longer[i].player, longer[i].who>>, born)
  <2>1. queue \in Seq(Entry) /\ more \in Seq(Entry) /\ Len(more) = n
    BY <1>7, LenProperties DEF IInv, Typed
  <2>2. \A r \in WorldNames \cup QueueNames : Numbered(r, born)
    BY DEF IInv, Counted
  <2>3. CASE i <= m
    <3>1. longer[i] = queue[i] /\ i \in DOMAIN queue
      BY <1>8, <1>9, <2>1, <2>3, ConcatProperties
    <3>2. <<longer[i].player, longer[i].who>> \in QueueNames
      BY <3>1 DEF QueueNames
    <3> QED
      BY <2>2, <3>2
  <2>4. CASE ~(i <= m)
    <3>1. longer[i] = more[i - m] /\ i - m \in 1 .. n
      BY <1>8, <1>9, <2>1, <2>4, ConcatProperties
    <3>2. <<longer[i].player, longer[i].who>> \in WorldNames
      BY <1>7, <3>1
    <3> QED
      BY <2>2, <3>2
  <2> QED
    BY <2>3, <2>4
<1> QED
  BY <1>6, <1>9, <1>10, <1>11

(* What the dynamics keep of the population, and that numbers go up.       *)
PopulationKept ==
    /\ players' \in [DOMAIN players' -> Known] /\ DOMAIN players' \subseteq PlayerId
    /\ next_player_id' \in 0 .. MaxPlayers /\ born' \in Nat /\ born <= born'
    /\ born' = next_player_id' + Offset
    /\ population' \in Seq(Member) /\ Once(population)'
    /\ \A r \in WorldNames' \cup PopulationNames' : Numbered(r, born')
    /\ {r \in WorldNames' : Joined(r)} \subseteq PopulationNames'
    /\ ~generated => PopulationNames' \subseteq WorldNames'

LEMMA Later ==
    ASSUME NEW m \in Nat, NEW n \in Nat, m <= n, NEW r, Numbered(r, m)
    PROVE  Numbered(r, n)
BY DEF Numbered

LEMMA EntryExitKeeps == Bounds /\ IInv /\ EntryExit => PopulationKept
<1> SUFFICES ASSUME Bounds, IInv, EntryExit PROVE PopulationKept
  OBVIOUS
<1> DEFINE LeftOf(leaving) == {population[i].id : i \in leaving}
<1>1. PICK leaving \in SUBSET DOMAIN population, joins \in BOOLEAN :
        LET left == LeftOf(leaving)
            stay == [p \in DOMAIN players \ left |-> players[p]]
            kept == Retained(population, leaving)
            id == NewId
            one == [who |-> born, party_id |-> None]
        IN /\ joins => next_player_id < MaxPlayers
           /\ players' = IF joins
                         THEN [p \in DOMAIN stay \cup {id} |-> IF p = id THEN one ELSE stay[p]]
                         ELSE stay
           /\ population' = IF joins
                            THEN Append(kept, [id |-> id, who |-> born, party_id |-> None])
                            ELSE kept
           /\ next_player_id' = IF joins THEN id + 1 ELSE next_player_id
           /\ born' = IF joins THEN born + 1 ELSE born
  BY DEF EntryExit
<1>2. PICK left, stay, kept, id : /\ left = LeftOf(leaving)
                                  /\ stay = [p \in DOMAIN players \ left |-> players[p]]
                                  /\ kept = Retained(population, leaving) /\ id = NewId
  OBVIOUS
<1> DEFINE Staying == {<<p, stay[p].who>> : p \in DOMAIN stay}
<1>3. /\ population \in Seq(Member) /\ Once(population) /\ PopulationNames = Names(population)
      /\ id = next_player_id /\ id \in 0 .. MaxPlayers /\ MaxPlayers \in Nat
      /\ born \in Nat /\ born = id + Offset /\ Offset \in Nat /\ born >= InitialPlayers
      /\ \A r \in WorldNames \cup PopulationNames : Numbered(r, born)
  BY <1>2, OffsetIs DEF IInv, Typed, Counted, PopulationNames, Names, NewId, Bounds
<1>4. ~generated => /\ Offset = 0 /\ PopulationNames \subseteq WorldNames
                    /\ \A r \in PopulationNames : r[2] = r[1] /\ r[1] < id
  <2> SUFFICES ASSUME ~generated
               PROVE  /\ Offset = 0 /\ PopulationNames \subseteq WorldNames
                      /\ \A r \in PopulationNames : r[2] = r[1] /\ r[1] < id
    OBVIOUS
  <2>1. Offset = 0 /\ PopulationNames \subseteq WorldNames
    BY OffsetIs DEF IInv, Counted
  <2>2. ASSUME NEW r \in PopulationNames PROVE r[2] = r[1] /\ r[1] < id
    <3>1. Numbered(r, born) /\ born = id /\ InitialPlayers \in Nat
      BY <1>3, <2>1 DEF Bounds
    <3> QED
      BY <2>1, <3>1 DEF Numbered
  <2> QED
    BY <2>1, <2>2
<1>5. /\ kept \in Seq(Member) /\ Once(kept)
      /\ Names(kept) = {<<population[i].id, population[i].who>> : i \in DOMAIN population \ leaving}
  BY <1>2, <1>3, RetainedFacts
<1>6. /\ Names(kept) \subseteq PopulationNames
      /\ \A r \in PopulationNames : r[1] \notin left => r \in Names(kept)
  BY <1>2, <1>3, <1>5 DEF Names
<1>7. ASSUME ~generated, NEW r \in Names(kept) PROVE r[1] \notin left
  <2>1. PICK i \in DOMAIN population \ leaving : r = <<population[i].id, population[i].who>>
    BY <1>5
  <2> SUFFICES ASSUME r[1] \in left PROVE FALSE
    OBVIOUS
  <2>2. PICK j \in leaving : population[j].id = population[i].id
    BY <1>2, <2>1
  <2>3. <<population[j].id, population[j].who>> \in PopulationNames /\ r \in PopulationNames
    BY <1>6, <2>1, <2>2 DEF PopulationNames
  <2>4. population[j].who = population[i].who
    BY <1>4, <1>7, <2>1, <2>2, <2>3
  <2> QED
    BY <1>3, <2>1, <2>2, <2>4 DEF Once
<1>8. /\ stay \in [DOMAIN stay -> Known] /\ DOMAIN stay = DOMAIN players \ left
      /\ DOMAIN stay \subseteq PlayerId
      /\ \A p \in DOMAIN stay : stay[p] = players[p]
  BY <1>2 DEF IInv, Typed
<1>9. \A r : r \in Staying <=> r \in WorldNames /\ r[1] \notin left
  BY <1>8 DEF WorldNames
<1> HIDE DEF LeftOf, Staying
<1>10. /\ {r \in Staying : Joined(r)} \subseteq Names(kept)
       /\ ~generated => Names(kept) \subseteq Staying
  <2>1. {r \in WorldNames : Joined(r)} \subseteq PopulationNames
    BY DEF IInv, Counted
  <2>2. ASSUME ~generated, NEW r \in Names(kept) PROVE r \in Staying
    BY <1>4, <1>6, <1>7, <1>9, <2>2
  <2> QED
    BY <1>6, <1>9, <2>1, <2>2
<1>11. \A r \in Staying \cup Names(kept) : Numbered(r, born)
  BY <1>3, <1>6, <1>9
<1>12. CASE ~joins
  <2>1. players' = stay /\ population' = kept /\ next_player_id' = next_player_id /\ born' = born
    BY <1>1, <1>2, <1>12
  <2>2. WorldNames' = Staying /\ PopulationNames' = Names(kept) /\ Once(population)'
    BY <1>5, <2>1 DEF WorldNames, PopulationNames, Staying, Names, Once
  <2>3. born <= born' /\ born' = next_player_id' + Offset /\ next_player_id' \in 0 .. MaxPlayers
    BY <1>3, <2>1
  <2> QED
    BY <1>3, <1>5, <1>8, <1>10, <1>11, <2>1, <2>2, <2>3 DEF PopulationKept
<1>13. CASE joins
  <2>1. PICK one, new : one = [who |-> born, party_id |-> None]
                        /\ new = [id |-> id, who |-> born, party_id |-> None]
    OBVIOUS
  <2>2. PICK name : name = <<id, born>>
    OBVIOUS
  <2>3. /\ id < MaxPlayers /\ next_player_id' = id + 1 /\ born' = born + 1
        /\ population' = Append(kept, new)
        /\ players' = [p \in DOMAIN stay \cup {id} |-> IF p = id THEN one ELSE stay[p]]
    BY <1>1, <1>2, <1>3, <1>13, <2>1
  <2>4. /\ id \in PlayerId /\ id + 1 \in 0 .. MaxPlayers /\ born + 1 \in Nat /\ born <= born + 1
        /\ born + 1 = (id + 1) + Offset
    BY <1>3, <2>3 DEF PlayerId
  <2>5. one \in Known /\ one.who = born /\ new \in Member /\ new.id = id /\ new.who = born
    BY <1>3, <2>1, <2>4 DEF Known, Member, Party
  <2>6. \A r \in Names(kept) : r[2] # new.who
    BY <1>3, <1>11, <2>5 DEF Numbered
  <2>7. /\ population' \in Seq(Member) /\ Names(population') = Names(kept) \cup {name}
        /\ Once(population')
    BY <1>5, <2>2, <2>3, <2>5, <2>6, OneMore
  <2>8. /\ players' \in [DOMAIN players' -> Known] /\ DOMAIN players' = DOMAIN stay \cup {id}
        /\ DOMAIN players' \subseteq PlayerId
        /\ players'[id].who = born /\ \A p \in DOMAIN stay : p # id => players'[p] = stay[p]
    BY <1>8, <2>3, <2>4, <2>5
  <2>9. /\ name \in WorldNames' /\ WorldNames' \subseteq Staying \cup {name}
        /\ \A r \in Staying : r[1] # id => r \in WorldNames'
    BY <2>2, <2>8 DEF WorldNames, Staying
  <2>10. PopulationNames' = Names(kept) \cup {name} /\ Once(population)'
    BY <2>7 DEF PopulationNames, Names, Once
  <2>11. \A r \in WorldNames' \cup PopulationNames' : Numbered(r, born')
    <3>1. Numbered(name, born + 1)
      BY <1>3, <2>2 DEF Numbered, Bounds
    <3>2. \A r \in Staying \cup Names(kept) : Numbered(r, born + 1)
      BY <1>3, <1>11, <2>4, Later
    <3> QED
      BY <2>3, <2>9, <2>10, <3>1, <3>2
  <2>12. {r \in WorldNames' : Joined(r)} \subseteq PopulationNames'
    BY <1>10, <2>9, <2>10
  <2>13. ASSUME ~generated, NEW r \in PopulationNames' PROVE r \in WorldNames'
    <3>1. CASE r = name
      BY <2>9, <3>1
    <3>2. CASE r \in Names(kept)
      <4>1. r \in Staying /\ r[1] < id
        BY <1>4, <1>6, <1>10, <2>13, <3>2
      <4>2. r[1] # id
        BY <1>3, <4>1
      <4> QED
        BY <2>9, <4>1, <4>2
    <3> QED
      BY <2>10, <2>13, <3>1, <3>2
  <2>14. /\ next_player_id' \in 0 .. MaxPlayers /\ born' \in Nat /\ born <= born'
         /\ born' = next_player_id' + Offset
    BY <2>3, <2>4
  <2> QED
    BY <2>7, <2>8, <2>10, <2>11, <2>12, <2>13, <2>14 DEF PopulationKept
<1> QED
  BY <1>12, <1>13

LEMMA PartyFormationKeeps == Bounds /\ IInv /\ PartyFormation => PopulationKept
<1> SUFFICES ASSUME Bounds, IInv, PartyFormation PROVE PopulationKept
  OBVIOUS
<1>1. /\ players' = players /\ next_player_id' = next_player_id /\ born' = born
      /\ next_player_id' \in 0 .. MaxPlayers /\ born \in Nat /\ born <= born'
      /\ players' \in [DOMAIN players' -> Known] /\ DOMAIN players' \subseteq PlayerId
      /\ born' = next_player_id' + Offset
      /\ WorldNames' = WorldNames
  BY DEF PartyFormation, IInv, Typed, Counted, Bounds, WorldNames
<1>2. population \in Seq(Member) /\ Once(population)
  BY DEF IInv, Typed, Counted
<1>3. /\ population' \in Seq(Member) /\ DOMAIN population' = DOMAIN population
      /\ \A i \in DOMAIN population : /\ population'[i].id = population[i].id
                                      /\ population'[i].who = population[i].who
  <2>1. CASE population' = population
    BY <1>2, <2>1
  <2>2. CASE \E i, j \in DOMAIN population, party \in PartyIds :
               /\ i # j
               /\ population' =
                    [population EXCEPT ![i].party_id = party, ![j].party_id = party]
    <3>1. PICK i \in DOMAIN population, j \in DOMAIN population, party \in PartyIds :
            population' = [population EXCEPT ![i].party_id = party, ![j].party_id = party]
      BY <2>2
    <3>2. PICK m \in Nat : m = Len(population) /\ DOMAIN population = 1 .. m
      BY <1>2, LenProperties
    <3>3. \A k \in 1 .. m : population[k] \in Member
      BY <1>2, <3>2, ElementOfSeq
    <3>4. PICK first : first = [population EXCEPT ![i].party_id = party]
      OBVIOUS
    <3>5. /\ first = [k \in 1 .. m |-> IF k = i THEN [population[i] EXCEPT !.party_id = party]
                                       ELSE population[k]]
      BY <1>2, <3>1, <3>2, <3>4, SeqDef
    <3>6. \A k \in 1 .. m : /\ first[k] \in Member /\ first[k].id = population[k].id
                            /\ first[k].who = population[k].who
      BY <3>1, <3>2, <3>3, <3>5 DEF Member, Party
    <3>7. population' = [k \in 1 .. m |-> IF k = j THEN [first[j] EXCEPT !.party_id = party]
                                          ELSE first[k]]
      BY <1>2, <3>1, <3>2, <3>4, <3>5
    <3>8. \A k \in 1 .. m : /\ population'[k] \in Member /\ population'[k].id = population[k].id
                            /\ population'[k].who = population[k].who
      BY <3>1, <3>2, <3>6, <3>7 DEF Member, Party
    <3>9. population' \in Seq(Member)
      BY <3>7, <3>8, SeqDef
    <3> QED
      BY <3>2, <3>7, <3>8, <3>9
  <2> QED
    BY <2>1, <2>2 DEF PartyFormation
<1>4. PopulationNames' = PopulationNames /\ Once(population)'
  BY <1>2, <1>3 DEF PopulationNames, Once
<1>5. /\ \A r \in WorldNames \cup PopulationNames : Numbered(r, born)
      /\ {r \in WorldNames : Joined(r)} \subseteq PopulationNames
      /\ ~generated => PopulationNames \subseteq WorldNames
  BY DEF IInv, Counted
<1> QED
  BY <1>1, <1>3, <1>4, <1>5 DEF PopulationKept

LEMMA TickKeeps == Bounds /\ IInv /\ Tick => IInv'
<1> SUFFICES ASSUME Bounds, IInv, Tick PROVE IInv'
  OBVIOUS
<1>1. PopulationKept
  <2>1. ASSUME StrategyShift PROVE PopulationKept
    <3>1. /\ players' = players /\ next_player_id' = next_player_id /\ born' = born
          /\ population' = population
      BY <2>1 DEF StrategyShift
    <3>2. WorldNames' = WorldNames /\ PopulationNames' = PopulationNames /\ Once(population)'
      BY <3>1 DEF WorldNames, PopulationNames, Once, IInv, Counted
    <3>3. born <= born'
      BY <3>1 DEF IInv, Typed
    <3> QED
      BY <3>1, <3>2, <3>3 DEF PopulationKept, IInv, Typed, Counted
  <2> QED
    BY <2>1, EntryExitKeeps, PartyFormationKeeps DEF Tick
<1>2. PICK order \in Orders(Queueing(actions')) : queue' = queue \o Entries(order)
  BY DEF Tick
<1>3. /\ queue' \in Seq(Entry)
      /\ \A i \in DOMAIN queue' : Numbered(<<queue'[i].player, queue'[i].who>>, born)
  BY <1>2, QueueGrows
<1>4. agents' = agents /\ ticks' \in 0 .. MaxTicks /\ generated' = generated /\ Offset' = Offset
  BY DEF Tick, IInv, Typed, Bounds, Offset
<1>5. Typed'
  BY <1>1, <1>3, <1>4 DEF IInv, Typed, PopulationKept
<1>6. born \in Nat /\ born' \in Nat /\ born <= born' /\ born >= InitialPlayers
  BY <1>1 DEF PopulationKept, IInv, Typed, Counted
<1>7. \A r \in QueueNames' : Numbered(r, born')
  <2>1. \A r \in QueueNames' : Numbered(r, born)
    BY <1>3 DEF QueueNames
  <2> QED
    BY <1>6, <2>1, Later
<1>8. \A r \in WorldNames' \cup PopulationNames' \cup QueueNames' : Numbered(r, born')
  BY <1>1, <1>7 DEF PopulationKept
<1>9. \A r \in WorldNames' \cup PopulationNames' \cup QueueNames' : Numbered(r, born)'
  BY <1>4, <1>8 DEF Numbered
<1>10. born' >= InitialPlayers
  BY <1>6 DEF Bounds
<1>11. Counted'
  BY <1>1, <1>4, <1>9, <1>10 DEF Counted, PopulationKept, Joined
<1> QED
  BY <1>5, <1>11 DEF IInv

LEMMA NextHolds == Bounds /\ IInv /\ [Next]_vars => IInv'
<1> SUFFICES ASSUME Bounds, IInv, [Next]_vars PROVE IInv'
  OBVIOUS
<1>1. ASSUME /\ players' = players /\ next_player_id' = next_player_id /\ generated' = generated
             /\ born' = born /\ population' = population /\ queue' = queue
      PROVE  Counted'
  BY <1>1 DEF IInv, Counted, Offset, Numbered, Once, WorldNames, PopulationNames, QueueNames, Joined
<1>2. ASSUME NEW p \in PlayerId, NEW kind \in AgentKinds, RegisterAgent(p, kind)
      PROVE  IInv'
  <2>1. DOMAIN agents' = DOMAIN agents \cup {p}
    BY <1>2 DEF RegisterAgent
  <2>2. /\ players' = players /\ next_player_id' = next_player_id /\ generated' = generated
        /\ born' = born /\ population' = population /\ queue' = queue /\ ticks' = ticks
    BY <1>2 DEF RegisterAgent
  <2>3. Typed'
    BY <2>1, <2>2 DEF IInv, Typed
  <2> QED
    BY <1>1, <2>2, <2>3 DEF IInv
<1>3. CASE Tick
  BY <1>3, TickKeeps
<1>4. CASE UNCHANGED vars
  <2>1. Typed'
    BY <1>4 DEF vars, IInv, Typed
  <2> QED
    BY <1>1, <1>4, <2>1 DEF vars, IInv
<1> QED
  BY <1>2, <1>3, <1>4 DEF Next

(* The state of the loop is well typed.                                    *)
THEOREM TypeCorrect == ASSUME Bounds PROVE Spec => []TypeOK
<1>1. Init => IInv
  BY InitHolds
<1>2. IInv /\ [Next]_vars => IInv'
  BY NextHolds
<1>3. IInv => TypeOK
  <2> SUFFICES ASSUME IInv PROVE TypeOK
    OBVIOUS
  <2> QED
    BY DEF IInv, Typed, TypeOK, Known, Member, Entry, Party
<1> QED
  BY <1>1, <1>2, <1>3, PTL DEF Spec

(* EntryExitDynamics::tick of population_dynamics.rs: an id of the counter *)
(* names one player for ever, in the world, in the population and in the   *)
(* queue; who joins is taken for nobody else, except for a player the      *)
(* generator numbered.                                                     *)
THEOREM IdsStayFreshCorrect == ASSUME Bounds PROVE Spec => []IdsStayFresh
<1>1. Init => IInv
  BY InitHolds
<1>2. IInv /\ [Next]_vars => IInv'
  BY NextHolds
<1>3. IInv => IdsStayFresh
  BY FreshByNumbers
<1> QED
  BY <1>1, <1>2, <1>3, PTL DEF Spec

-----------------------------------------------------------------------------
(***************************************************************************)
(* The agents that act in a tick: what a policy reads off the history.     *)
(***************************************************************************)

CONSTANTS TargetRating, IdealQueueTime, TargetPartySize, TargetWinRate, ObservationSet,
          MaxHistory

VARIABLES observations, history

Policy == INSTANCE AgentPolicies

Lost(outcomes, i) == outcomes[i].match_won = FALSE

(* What the function of ConsecutiveLosses is, up to m.                     *)
Counts(f, outcomes, m) ==
    /\ f[0] = 0
    /\ \A n \in 1 .. m : f[n] = IF outcomes[n].match_won = FALSE THEN f[n - 1] + 1 ELSE 0

LEMMA CountingExists ==
    ASSUME NEW outcomes, NEW m \in Nat
    PROVE  \E f : f \in [0 .. m -> Nat] /\ Counts(f, outcomes, m)
<1> DEFINE S == {n \in Nat : \E f : f \in [0 .. n -> Nat] /\ Counts(f, outcomes, n)}
<1>1. 0 \in S
  <2>1. [n \in 0 .. 0 |-> 0] \in [0 .. 0 -> Nat]
    OBVIOUS
  <2>2. Counts([n \in 0 .. 0 |-> 0], outcomes, 0)
    BY DEF Counts
  <2> QED
    BY <2>1, <2>2
<1>2. ASSUME NEW n \in 0 .. (m - 1), n \in S PROVE n + 1 \in S
  <2>1. PICK f : f \in [0 .. n -> Nat] /\ Counts(f, outcomes, n)
    BY <1>2
  <2>2. PICK k : k = n + 1
    OBVIOUS
  <2>3. n \in Nat /\ k \in Nat /\ k - 1 = n /\ f[n] \in Nat
    BY <2>1, <2>2
  <2>4. PICK last \in Nat : last = IF outcomes[k].match_won = FALSE THEN f[n] + 1 ELSE 0
    BY <2>3
  <2>5. PICK g : g = [i \in 0 .. k |-> IF i = k THEN last ELSE f[i]]
    OBVIOUS
  <2>6. /\ \A i \in 0 .. n : i \in 0 .. k /\ i # k
        /\ \A i \in 0 .. k : i = k \/ i \in 0 .. n
        /\ \A i \in 1 .. k : i = k \/ i \in 1 .. n
        /\ \A i \in 1 .. n : i \in 0 .. n /\ i - 1 \in 0 .. n
        /\ k \in 0 .. k /\ 0 \in 0 .. n /\ n \in 0 .. n
    BY <2>2, <2>3
  <2>7. g[k] = last /\ \A i \in 0 .. n : g[i] = f[i]
    BY <2>5, <2>6
  <2>8. g \in [0 .. k -> Nat]
    BY <2>1, <2>5, <2>6
  <2>9. Counts(g, outcomes, k)
    <3>1. g[0] = 0
      BY <2>1, <2>6, <2>7 DEF Counts
    <3>2. ASSUME NEW i \in 1 .. k
          PROVE  g[i] = IF outcomes[i].match_won = FALSE THEN g[i - 1] + 1 ELSE 0
      <4>1. CASE i = k
        BY <2>3, <2>4, <2>6, <2>7, <4>1
      <4>2. CASE i \in 1 .. n
        BY <2>1, <2>6, <2>7, <4>2 DEF Counts
      <4> QED
        BY <2>6, <4>1, <4>2
    <3> QED
      BY <3>1, <3>2 DEF Counts
  <2> QED
    BY <2>2, <2>3, <2>8, <2>9
<1> HIDE DEF S
<1>3. \A n \in 0 .. (m - 1) : n \in S => n + 1 \in S
  BY <1>2
<1>4. \A n \in 0 .. m : n \in S
  BY <1>1, <1>3, Induction
<1> QED
  BY <1>4 DEF S

(* The matches lost after the last that was not, among the first n.        *)
Streak(c, outcomes, n) ==
    /\ c \in 0 .. n
    /\ \A i \in (n - c + 1) .. n : Lost(outcomes, i)
    /\ c < n => ~Lost(outcomes, n - c)

LEMMA CountsAreStreaks ==
    ASSUME NEW outcomes, NEW m \in Nat, NEW f, Counts(f, outcomes, m)
    PROVE  Streak(f[m], outcomes, m)
<1> DEFINE S == {n \in 0 .. m : Streak(f[n], outcomes, n)}
<1>1. 0 \in S
  BY DEF Counts, Streak
<1>2. ASSUME NEW n \in 0 .. (m - 1), n \in S PROVE n + 1 \in S
  <2>1. PICK k : k = n + 1
    OBVIOUS
  <2>2. k \in 1 .. m /\ k \in 0 .. m /\ k - 1 = n
    BY <2>1
  <2>3. PICK c \in 0 .. n : c = f[n] /\ Streak(c, outcomes, n)
    BY <1>2 DEF Streak
  <2>4. f[k] = IF Lost(outcomes, k) THEN c + 1 ELSE 0
    BY <2>2, <2>3 DEF Counts, Lost
  <2>5. Streak(f[k], outcomes, k)
    <3>1. CASE Lost(outcomes, k)
      <4>1. f[k] = c + 1 /\ c + 1 \in 0 .. k /\ k - (c + 1) = n - c /\ (c + 1 < k => c < n)
        BY <2>2, <2>3, <2>4, <3>1
      <4>2. ASSUME NEW i \in (k - (c + 1) + 1) .. k PROVE Lost(outcomes, i)
        <5>1. i = k \/ i \in (n - c + 1) .. n
          BY <2>2, <2>3
        <5> QED
          BY <2>3, <3>1, <5>1 DEF Streak
      <4> QED
        BY <2>3, <4>1, <4>2 DEF Streak
    <3>2. CASE ~Lost(outcomes, k)
      <4>1. f[k] = 0 /\ 0 \in 0 .. k /\ k - 0 = k /\ (k - 0 + 1) .. k = {}
        BY <2>2, <2>4, <3>2
      <4> QED
        BY <3>2, <4>1 DEF Streak
    <3> QED
      BY <3>1, <3>2
  <2> QED
    BY <2>1, <2>2, <2>5
<1> HIDE DEF S
<1>3. \A n \in 0 .. (m - 1) : n \in S => n + 1 \in S
  BY <1>2
<1>4. m \in S
  BY <1>1, <1>3, Induction
<1> QED
  BY <1>4 DEF S

(* What ConsecutiveLosses returns.                                         *)
LEMMA LossesAreAStreak ==
    ASSUME history \in Seq(Policy!Outcome)
    PROVE  Streak(Policy!ConsecutiveLosses, history, Len(history))
<1>1. PICK m \in Nat : m = Len(history)
  BY LenProperties
<1>2. PICK f : f \in [0 .. m -> Nat] /\ Counts(f, history, m)
  BY CountingExists
<1> DEFINE Of(g) == [n \in 0 .. Len(history) |->
                        IF n = 0 THEN 0
                        ELSE IF history[n].match_won = FALSE THEN g[n - 1] + 1 ELSE 0]
<1>3. f = Of(f)
  <2>1. \A n \in 0 .. m : n = 0 \/ n \in 1 .. m
    BY <1>1
  <2>2. \A n \in 0 .. m : f[n] = Of(f)[n]
    BY <1>1, <1>2, <2>1 DEF Counts
  <2> QED
    BY <1>1, <1>2, <2>2
<1>4. PICK g : g = CHOOSE h : h = Of(h)
  OBVIOUS
<1>5. g = Of(g)
  BY <1>3, <1>4
<1>6. Policy!ConsecutiveLosses = g[Len(history)]
  BY <1>4 DEF Policy!ConsecutiveLosses
<1>7. Counts(g, history, m)
  <2>1. 0 \in 0 .. m /\ \A n \in 1 .. m : n \in 0 .. m /\ n # 0
    BY <1>1
  <2> QED
    BY <1>1, <1>5, <2>1 DEF Counts
<1> QED
  BY <1>1, <1>6, <1>7, CountsAreStreaks

(* As many matches are won in a window of the history as in the sequence   *)
(* that is cut out of it.                                                  *)
LEMMA WonInWindow ==
    ASSUME NEW outcomes \in Seq(Policy!Outcome), NEW first \in 1 .. Len(outcomes)
    PROVE  /\ Policy!Won(SubSeq(outcomes, first, Len(outcomes))) \in Nat
           /\ Policy!Won(SubSeq(outcomes, first, Len(outcomes))) =
                Policy!Cardinality({i \in first .. Len(outcomes) : outcomes[i].match_won = TRUE})
<1>1. PICK m \in Nat : m = Len(outcomes) /\ DOMAIN outcomes = 1 .. m
  BY LenProperties
<1>2. PICK recent : recent = SubSeq(outcomes, first, m)
  OBVIOUS
<1>3. first \in 1 .. m /\ first \in Int /\ m \in Int /\ first <= m
      /\ \A i \in first .. m : outcomes[i] \in Policy!Outcome
  BY <1>1, ElementOfSeq
<1>4. /\ recent \in Seq(Policy!Outcome) /\ Len(recent) = m - first + 1
      /\ \A i \in 1 .. (m - first + 1) : recent[i] = outcomes[first + i - 1]
  BY <1>2, <1>3, SubSeqProperties
<1>5. DOMAIN recent = 1 .. (m - first + 1)
  BY <1>4, LenProperties
<1> DEFINE A == {i \in 1 .. (m - first + 1) : recent[i].match_won = TRUE}
           B == {i \in first .. m : outcomes[i].match_won = TRUE}
           f == [i \in A |-> first + i - 1]
<1>6. \A i \in A : first + i - 1 \in B
  <2> SUFFICES ASSUME NEW i \in A PROVE first + i - 1 \in B
    OBVIOUS
  <2>1. first + i - 1 \in first .. m
    BY <1>3
  <2> QED
    BY <1>4, <2>1
<1>7. \A i, j \in A : first + i - 1 = first + j - 1 => i = j
  BY <1>3
<1>8. \A k \in B : k - first + 1 \in A /\ first + (k - first + 1) - 1 = k
  <2> SUFFICES ASSUME NEW k \in B
               PROVE  k - first + 1 \in A /\ first + (k - first + 1) - 1 = k
    OBVIOUS
  <2>1. k - first + 1 \in 1 .. (m - first + 1) /\ first + (k - first + 1) - 1 = k
    BY <1>3
  <2> QED
    BY <1>4, <2>1
<1>9. IsFiniteSet(A) /\ Cardinality(A) \in Nat
  <2>1. IsFiniteSet(1 .. (m - first + 1))
    BY <1>3, FS_Interval
  <2>2. A \subseteq 1 .. (m - first + 1)
    OBVIOUS
  <2> HIDE DEF A
  <2> QED
    BY <2>1, <2>2, FS_Subset, FS_CardinalityType
<1>10. ExistsBijection(A, B)
  <2> HIDE DEF A, B
  <2>1. f \in [A -> B]
    BY <1>6
  <2>2. \A i, j \in A : f[i] = f[j] => i = j
    BY <1>7
  <2>3. \A k \in B : \E i \in A : f[i] = k
    BY <1>8
  <2> HIDE DEF f
  <2>4. f \in Bijection(A, B)
    BY <2>1, <2>2, <2>3 DEF Bijection, Injection, Surjection, IsInjective
  <2> QED
    BY <2>4 DEF ExistsBijection
<1>11. Cardinality(B) = Cardinality(A)
  <2> HIDE DEF A, B
  <2> QED
    BY <1>9, <1>10, FS_Bijection
<1>12. Policy!Won(recent) = Policy!Cardinality(A)
  BY <1>5 DEF Policy!Won
<1>13. Policy!Cardinality(A) = Cardinality(A) /\ Policy!Cardinality(B) = Cardinality(B)
  BY DEF Policy!Cardinality, Cardinality
<1> QED
  BY <1>1, <1>2, <1>9, <1>11, <1>12, <1>13

(* Of at most n matches, none of them but the last c known to be lost: the *)
(* last k are lost exactly when k is no more than c.                       *)
LEMMA StreakReaches ==
    ASSUME NEW outcomes, NEW n \in Nat, NEW c, Streak(c, outcomes, n), NEW k \in Nat \ {0}
    PROVE  c >= k <=> n >= k /\ \A i \in (n - k + 1) .. n : outcomes[i].match_won = FALSE
<1>1. c \in 0 .. n
  BY DEF Streak
<1>2. CASE c >= k
  <2>1. n >= k /\ \A i \in (n - k + 1) .. n : i \in (n - c + 1) .. n
    BY <1>1, <1>2
  <2> QED
    BY <1>2, <2>1 DEF Streak, Lost
<1>3. CASE ~(c >= k)
  <2>1. ASSUME n >= k PROVE n - c \in (n - k + 1) .. n /\ ~(outcomes[n - c].match_won = FALSE)
    BY <1>1, <1>3, <2>1 DEF Streak, Lost
  <2> QED
    BY <1>3, <2>1
<1> QED
  BY <1>2, <1>3

(* What an agent is configured with: at least one loss, at least one match *)
(* to look at.                                                             *)
Configured ==
    /\ MaxConsecutiveLosses \in Nat \ {0} /\ PatternWindow \in Nat \ {0}

Remembers == observations \in ObservationSet /\ history \in Seq(Policy!Outcome)

LEMMA LeavesOnLosses ==
    ASSUME Configured, Remembers
    PROVE  (Policy!LossAversion.action = "StopPlaying") <=>
              /\ Len(history) >= MaxConsecutiveLosses
              /\ \A i \in (Len(history) - MaxConsecutiveLosses + 1) .. Len(history) :
                    history[i].match_won = FALSE
<1>1. PICK n \in Nat : n = Len(history)
  BY LenProperties DEF Remembers
<1>2. PICK c : c = Policy!ConsecutiveLosses
  OBVIOUS
<1>3. Streak(c, history, n)
  BY <1>1, <1>2, LossesAreAStreak DEF Remembers
<1>4. MaxConsecutiveLosses \in Nat \ {0}
  BY DEF Configured
<1>5. c >= MaxConsecutiveLosses <=>
        /\ n >= MaxConsecutiveLosses
        /\ \A i \in (n - MaxConsecutiveLosses + 1) .. n : history[i].match_won = FALSE
  BY <1>3, <1>4, StreakReaches
<1>6. (Policy!LossAversion.action = "StopPlaying") <=> c >= MaxConsecutiveLosses
  BY <1>2 DEF Policy!LossAversion, Policy!Action, Policy!ContinuePlaying
<1> QED
  BY <1>1, <1>5, <1>6

LEMMA LeavesAPattern ==
    ASSUME Configured, Remembers
    PROVE  (Policy!PatternDetection.action = "LeaveQueue") <=>
           LET window == (Len(history) - PatternWindow + 1) .. Len(history)
               wins == {i \in window : history[i].match_won = TRUE}
           IN Len(history) >= PatternWindow
              /\ ~(/\ 20 * PatternWindow <= 100 * Policy!Cardinality(wins)
                   /\ 100 * Policy!Cardinality(wins) <= 90 * PatternWindow)
<1>1. PICK n \in Nat : n = Len(history)
  BY LenProperties DEF Remembers
<1>2. PatternWindow \in Nat /\ PatternWindow # 0
  BY DEF Configured
<1> DEFINE recent == SubSeq(history, n - PatternWindow + 1, n)
<1>3. Policy!PatternDetection.action = "LeaveQueue" <=> n >= PatternWindow /\ Policy!Suspicious(recent)
  BY <1>1 DEF Policy!PatternDetection, Policy!Action, Policy!ContinuePlaying
<1>4. CASE ~(n >= PatternWindow)
  BY <1>1, <1>3, <1>4
<1>5. CASE n >= PatternWindow
  <2>1. n - PatternWindow + 1 \in 1 .. n
    BY <1>2, <1>5
  <2>2. /\ Policy!Won(recent) \in Nat
        /\ Policy!Won(recent) =
             Policy!Cardinality({i \in (n - PatternWindow + 1) .. n : history[i].match_won = TRUE})
    BY <1>1, <2>1, WonInWindow DEF Remembers
  <2>3. Len(recent) = PatternWindow
    <3>1. history \in Seq(Policy!Outcome) /\ n - PatternWindow + 1 \in 1 .. (n + 1) /\ n \in Int
      BY <2>1 DEF Remembers
    <3>2. Len(recent) = n - (n - PatternWindow + 1) + 1
      BY <1>1, <2>1, <3>1, SubSeqProperties
    <3> QED
      BY <1>2, <3>2
  <2>4. PICK won \in Nat : won = Policy!Won(recent)
    BY <2>2
  <2>5. Policy!Suspicious(recent) <=>
          ~(20 * PatternWindow <= 100 * won /\ 100 * won <= 90 * PatternWindow)
    <3> HIDE DEF recent
    <3>1. Policy!Suspicious(recent) <=>
            \/ PatternWindow = 0 \/ 100 * won < 20 * PatternWindow \/ 100 * won > 90 * PatternWindow
      BY <2>3, <2>4 DEF Policy!Suspicious
    <3> QED
      BY <1>2, <3>1
  <2> HIDE DEF recent
  <2> QED
    BY <1>1, <1>3, <1>5, <2>2, <2>4, <2>5
<1> QED
  BY <1>4, <1>5

LEMMA NeutralAtFirst ==
    ASSUME Configured, Remembers, history = <<>>
    PROVE  /\ \A p \in Policy!Policies : Policy!Decide(p).action \notin {"StopPlaying", "LeaveQueue"}
           /\ Policy!CompositeObjective(<< <<Policy!RatingGainObjective, 3>>, <<Policy!MatchQualityObjective, 2>> >>) = 0
           /\ Policy!InformationInference.avg_rating_change = None
<1>1. Len(history) = 0
  OBVIOUS
<1>2. Policy!LossAversion.action = "ContinuePlaying"
  <2>1. ~(Policy!LossAversion.action = "StopPlaying")
    <3>1. MaxConsecutiveLosses \in Nat /\ ~(0 >= MaxConsecutiveLosses)
      BY DEF Configured
    <3>2. ~(Len(history) >= MaxConsecutiveLosses)
      BY <1>1, <3>1
    <3> QED
      BY <3>2, LeavesOnLosses
  <2> QED
    BY <2>1 DEF Policy!LossAversion, Policy!Action, Policy!ContinuePlaying
<1>3. Policy!PatternDetection.action = "ContinuePlaying"
  <2>1. ~(Len(history) >= PatternWindow)
    BY <1>1 DEF Configured
  <2> QED
    BY <2>1 DEF Policy!PatternDetection, Policy!Action, Policy!ContinuePlaying
<1>4. Policy!ThresholdQueue.action \in {"Queue", "NoOp"}
  BY DEF Policy!ThresholdQueue, Policy!Action
<1>5. Policy!RegionSwitch.action \in {"SelectRegion", "ContinuePlaying"}
  BY DEF Policy!RegionSwitch, Policy!Action, Policy!ContinuePlaying
<1>6. Policy!PartyFormation.action \in {"FormParty", "ContinuePlaying"}
  BY DEF Policy!PartyFormation, Policy!Action, Policy!ContinuePlaying
<1>7. ASSUME NEW p \in Policy!Policies
      PROVE  Policy!Decide(p).action \notin {"StopPlaying", "LeaveQueue"}
  BY <1>2, <1>3, <1>4, <1>5, <1>6
     DEF Policy!Decide, Policy!Policies, Policy!Action, Policy!ContinuePlaying
<1>8. Policy!RatingGainObjective = 0 /\ Policy!MatchQualityObjective = 0
  BY DEF Policy!RatingGainObjective, Policy!MatchQualityObjective, Policy!OverHistory
<1>9. Policy!CompositeObjective(<< <<0, 3>>, <<0, 2>> >>) = 0
  <2> DEFINE weighted == << <<0, 3>>, <<0, 2>> >>
             Of(g) == [n \in 0 .. Len(weighted) |->
                          IF n = 0 THEN 0 ELSE g[n - 1] + weighted[n][1] * weighted[n][2]]
             zero == [n \in 0 .. 2 |-> 0]
  <2>1. Len(weighted) = 2 /\ \A n \in 1 .. 2 : weighted[n][1] * weighted[n][2] = 0
    <3>1. weighted[1][1] * weighted[1][2] = 0 /\ weighted[2][1] * weighted[2][2] = 0
      OBVIOUS
    <3>2. \A n \in 1 .. 2 : n = 1 \/ n = 2
      OBVIOUS
    <3> QED
      BY <3>1, <3>2
  <2> HIDE DEF weighted
  <2>2. zero = Of(zero)
    <3>1. \A n \in 0 .. 2 : n # 0 => n \in 1 .. 2 /\ n - 1 \in 0 .. 2
      OBVIOUS
    <3> QED
      BY <2>1, <3>1
  <2>3. PICK g : g = CHOOSE h : h = Of(h)
    OBVIOUS
  <2>4. g = Of(g)
    BY <2>2, <2>3
  <2>5. g[0] = 0
    BY <2>1, <2>4
  <2>6. g[1] = 0
    BY <2>1, <2>4, <2>5
  <2>7. g[2] = 0
    BY <2>1, <2>4, <2>6
  <2>8. Policy!CompositeObjective(weighted) = g[Len(weighted)]
    BY <2>3 DEF Policy!CompositeObjective
  <2> QED
    BY <2>1, <2>7, <2>8 DEF weighted
<1>10. Policy!InformationInference.avg_rating_change = None
  BY DEF Policy!InformationInference
<1> QED
  BY <1>7, <1>8, <1>9, <1>10

(* The agent module: what an agent does follows from what it has seen, for *)
(* any history: it stops exactly when its last matches are known losses,   *)
(* leaves a pattern exactly on the wins of the last window, and without    *)
(* history does not react to one.                                          *)
THEOREM ActsOnEvidenceCorrect ==
    ASSUME Configured PROVE Policy!Spec => []Policy!ActsOnEvidence
<1>1. Policy!Init => Remembers
  BY DEF Policy!Init, Remembers
<1>2. Remembers /\ [Policy!Next]_(Policy!vars) => Remembers'
  <2> SUFFICES ASSUME Remembers, [Policy!Next]_(Policy!vars) PROVE Remembers'
    OBVIOUS
  <2>1. ASSUME NEW outcome \in Policy!Outcome, Policy!Update(outcome) PROVE Remembers'
    <3>1. history' = Append(history, outcome) /\ observations' = observations
      BY <2>1 DEF Policy!Update
    <3> QED
      BY <3>1, AppendProperties DEF Remembers
  <2>2. CASE UNCHANGED Policy!vars
    BY <2>2 DEF Policy!vars, Remembers
  <2> QED
    BY <2>1, <2>2 DEF Policy!Next
<1>3. Remembers => Policy!ActsOnEvidence
  BY LeavesOnLosses, LeavesAPattern, NeutralAtFirst DEF Policy!ActsOnEvidence
<1> QED
  BY <1>1, <1>2, <1>3, PTL DEF Policy!Spec
=============================================================================
