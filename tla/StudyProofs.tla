----------------------------- MODULE StudyProofs -----------------------------
(***************************************************************************)
(* Proofs about Study, for any number of arms, replicates, threads and     *)
(* extensions.  ReplayAfterLive rests on the pool being drained between    *)
(* the phases; the pairing of the replicates and the refinement of         *)
(* StudyPlan on what a study that has returned holds, position by          *)
(* position.                                                               *)
(***************************************************************************)
EXTENDS Study, FiniteSetTheorems, SequenceTheorems, TLAPS

(* The inductive invariant, in parts.                                      *)

(* While the pool works on live runs it works on nothing else, and what    *)
(* comes after finds them all done; no replay has ended on a replicate     *)
(* without a match.                                                        *)
LiveFirst ==
    strategy = "counterfactual" =>
        /\ phase # "all"
        /\ phase = "live" => \A j \in active \cup done : j[2] = 0
        /\ phase \in {"replay", "returned"} => Replicates \X {0} \subseteq done
        /\ phase = "returned" => Replicates \X Arms \subseteq done
        /\ \A j \in active \cup done : j[2] # 0 => <<j[1], 0>> \in done
        /\ \A j \in done : j[2] # 0 => j[1] \notin empty
        /\ empty \subseteq Replicates

(* What each arm holds: first the replicates asked for, in order, and then *)
(* those of the extensions, which have no metric.                          *)
Results ==
    /\ \A a \in Arms : Len(arms[a]) = total
    /\ phase # "returned" => total = 0 /\ extensions = 0
    /\ phase = "returned" =>
           /\ total >= count
           /\ \A a \in Arms : \A i \in 1 .. total :
                  IF i <= count THEN arms[a][i] = Replicate(i - 1, a) ELSE ~ arms[a][i].metric

(* No seed descends from one that an extension is still to be given.       *)
SeedsUsed ==
    \A a \in Arms : \A i \in 1 .. total :
        arms[a][i].seed # <<>> /\ arms[a][i].seed[1] <= extensions

(* The indices in use have a greatest.                                     *)
HasLast == Indices = {} \/ \E x \in Indices : \A y \in Indices : x >= y

IInv == TypeOK /\ LiveFirst /\ Results /\ SeedsUsed /\ HasLast

AllJobs == (0 .. MaxCount - 1) \X Arms

Replicated == [index : Nat, seed : Seq(Nat), parent : Seq(Nat), metric : BOOLEAN]

-----------------------------------------------------------------------------
(* The operators.                                                          *)

LEMMA ConstantsOK ==
    /\ ArmCount \in Nat \ {0} /\ MaxCount \in Nat /\ Threads \in Nat \ {0}
    /\ MaxExtra \in Nat /\ MaxExtensions \in Nat
    /\ Arms \subseteq Nat /\ 0 \in Arms
BY ArmsAssumption, PoolAssumption DEF Arms

LEMMA JobsAre ==
    /\ JobsOf["live"] = Replicates \X {0}
    /\ JobsOf["replay"] = Replicates \X (Arms \ {0})
    /\ JobsOf["all"] = Replicates \X Arms
    /\ JobsOf["returned"] = {} /\ JobsOf["panicked"] = {}
BY DEF JobsOf

LEMMA JobIsRun ==
    ASSUME TypeOK, NEW j \in JobsOf[phase]
    PROVE  /\ j \in Replicates \X Arms /\ j \in AllJobs
           /\ phase \in {"live", "replay", "all"}
           /\ phase = "live" => j[2] = 0
<1>1. Replicates \subseteq 0 .. MaxCount - 1
  BY ConstantsOK DEF TypeOK, Replicates
<1>2. Replicates \X Arms \subseteq AllJobs
  BY <1>1 DEF AllJobs
<1>3. phase \in {"live", "replay", "all", "returned", "panicked"}
  BY DEF TypeOK
<1>4. CASE phase = "live"
  BY <1>2, <1>4, JobsAre, ConstantsOK
<1>5. CASE phase = "replay"
  BY <1>2, <1>5, JobsAre, ConstantsOK
<1>6. CASE phase = "all"
  BY <1>2, <1>6, JobsAre, ConstantsOK
<1> QED
  BY <1>3, <1>4, <1>5, <1>6, JobsAre

LEMMA DeriveIs ==
    ASSUME NEW s \in Seq(Nat), NEW k \in Nat
    PROVE  /\ Derive(s, k) \in Seq(Nat) /\ Len(Derive(s, k)) = Len(s) + 1
           /\ Derive(s, k)[Len(s) + 1] = k
           /\ \A i \in 1 .. Len(s) : Derive(s, k)[i] = s[i]
BY DEF Derive

LEMMA DeriveOnce ==
    ASSUME NEW e \in Nat, NEW k \in Nat
    PROVE  LET s == Derive(<<e>>, k) IN s \in Seq(Nat) /\ Len(s) = 2 /\ s[1] = e /\ s[2] = k
<1> DEFINE s == Derive(<<e>>, k)
<1>1. <<e>> \in Seq(Nat) /\ Len(<<e>>) = 1 /\ <<e>>[1] = e
  OBVIOUS
<1>2. /\ s \in Seq(Nat) /\ Len(s) = Len(<<e>>) + 1 /\ s[Len(<<e>>) + 1] = k
      /\ \A i \in 1 .. Len(<<e>>) : s[i] = <<e>>[i]
  BY <1>1, DeriveIs
<1>3. Len(<<e>>) + 1 = 2 /\ 1 \in 1 .. Len(<<e>>)
  BY <1>1
<1> HIDE DEF s
<1>4. s \in Seq(Nat) /\ Len(s) = 2 /\ s[1] = e /\ s[2] = k
  BY <1>1, <1>2, <1>3
<1> QED
  BY <1>4 DEF s

(* A seed of length 2 is shared by the replicate, one of 3 is the arm's.   *)
LEMMA SeedsAre ==
    ASSUME NEW r \in Nat
    PROVE  /\ ReplicateSeed(r) \in Seq(Nat) /\ Len(ReplicateSeed(r)) = 2
           /\ ReplicateSeed(r)[1] = 0 /\ ReplicateSeed(r)[2] = r
           /\ \A a \in Nat :
                  LET arm == Derive(ReplicateSeed(r), a) IN
                  arm \in Seq(Nat) /\ Len(arm) = 3 /\ arm[1] = 0 /\ arm[2] = r /\ arm[3] = a
<1>1. /\ ReplicateSeed(r) \in Seq(Nat) /\ Len(ReplicateSeed(r)) = 2
      /\ ReplicateSeed(r)[1] = 0 /\ ReplicateSeed(r)[2] = r
  BY DeriveOnce DEF ReplicateSeed, BaseSeed
<1>2. ASSUME NEW a \in Nat
      PROVE  LET arm == Derive(ReplicateSeed(r), a) IN
             arm \in Seq(Nat) /\ Len(arm) = 3 /\ arm[1] = 0 /\ arm[2] = r /\ arm[3] = a
  <2> DEFINE arm == Derive(ReplicateSeed(r), a)
  <2>1. /\ arm \in Seq(Nat) /\ Len(arm) = Len(ReplicateSeed(r)) + 1
        /\ arm[Len(ReplicateSeed(r)) + 1] = a
        /\ \A i \in 1 .. Len(ReplicateSeed(r)) : arm[i] = ReplicateSeed(r)[i]
    BY <1>1, DeriveIs
  <2>2. /\ Len(ReplicateSeed(r)) + 1 = 3
        /\ 1 \in 1 .. Len(ReplicateSeed(r)) /\ 2 \in 1 .. Len(ReplicateSeed(r))
    BY <1>1
  <2> HIDE DEF arm
  <2>3. arm \in Seq(Nat) /\ Len(arm) = 3 /\ arm[1] = 0 /\ arm[2] = r /\ arm[3] = a
    BY <1>1, <2>1, <2>2
  <2> QED
    BY <2>3 DEF arm
<1> QED
  BY <1>1, <1>2

LEMMA ReplicateIs ==
    ASSUME NEW r \in Nat, NEW a \in Nat
    PROVE  /\ Replicate(r, a) \in Replicated
           /\ Replicate(r, a).index = r
           /\ Replicate(r, a).parent = ReplicateSeed(r)
           /\ Replicate(r, a).seed = ArmSeed(ReplicateSeed(r), a)
           /\ Replicate(r, a).seed # <<>> /\ Replicate(r, a).seed[1] = 0
           /\ missing = {} => Replicate(r, a).metric
<1>1. ArmSeed(ReplicateSeed(r), a) \in {ReplicateSeed(r), Derive(ReplicateSeed(r), a)}
  BY DEF ArmSeed
<1>2. \A s \in {ReplicateSeed(r), Derive(ReplicateSeed(r), a)} :
          s \in Seq(Nat) /\ s # <<>> /\ s[1] = 0
  BY SeedsAre
<1> QED
  BY <1>1, <1>2, SeedsAre DEF Replicate, Replicated

(* The greatest index, which Max chooses.                                  *)
LEMMA LastIndexIs ==
    ASSUME HasLast, Indices \subseteq Nat
    PROVE  LastIndex \in Nat /\ \A x \in Indices : x <= LastIndex
<1>1. CASE Indices = {}
  BY <1>1 DEF LastIndex
<1>2. CASE Indices # {}
  <2>1. Max(Indices) \in Indices /\ \A y \in Indices : Max(Indices) >= y
    BY <1>2 DEF Max, HasLast
  <2> QED
    BY <1>2, <2>1 DEF LastIndex
<1> QED
  BY <1>1, <1>2

LEMMA ArmsHold ==
    ASSUME TypeOK, NEW a \in Arms
    PROVE  /\ arms[a] \in Seq(Replicated) /\ Len(arms[a]) \in Nat
           /\ DOMAIN arms[a] = 1 .. Len(arms[a])
           /\ \A i \in 1 .. Len(arms[a]) : arms[a][i] \in Replicated
<1>1. arms[a] \in Seq(Replicated)
  BY DEF TypeOK, Replicated
<1> QED
  BY <1>1, LenProperties, ElementOfSeq

LEMMA IndicesAre ==
    ASSUME TypeOK
    PROVE  /\ \A x : x \in Indices <=> \E a \in Arms : \E i \in 1 .. Len(arms[a]) : x = arms[a][i].index
           /\ Indices \subseteq Nat
<1>1. \A x : x \in Indices <=> \E a \in Arms : \E i \in DOMAIN arms[a] : x = arms[a][i].index
  BY DEF Indices
<1>2. \A a \in Arms : \A i \in 1 .. Len(arms[a]) : arms[a][i].index \in Nat
  BY ArmsHold DEF Replicated
<1> QED
  BY <1>1, <1>2, ArmsHold

-----------------------------------------------------------------------------
(* What Return and Extend leave in the arms.                               *)

LEMMA Returned ==
    ASSUME TypeOK, Return, NEW a \in Arms
    PROVE  /\ arms'[a] \in Seq(Replicated) /\ Len(arms'[a]) = count
           /\ \A i \in 1 .. count : arms'[a][i] = Replicate(i - 1, a)
<1> DEFINE e(i) == Replicate(i - 1, a)
<1>1. count \in Nat /\ a \in Nat
  BY ConstantsOK DEF TypeOK
<1>2. ASSUME NEW i \in 1 .. count PROVE e(i) \in Replicated
  <2>1. i - 1 \in Nat
    BY <1>1
  <2> QED
    BY <1>1, <2>1, ReplicateIs
<1>3. arms'[a] = [i \in 1 .. count |-> e(i)]
  BY DEF Return
<1> HIDE DEF e
<1>4. [i \in 1 .. count |-> e(i)] \in Seq(Replicated)
  BY <1>1, <1>2, IsASeq
<1> QED
  BY <1>1, <1>3, <1>4 DEF e

LEMMA Extended ==
    ASSUME TypeOK, HasLast, NEW n \in Nat, Extend(n), NEW a \in Arms
    PROVE  /\ arms'[a] \in Seq(Replicated) /\ Len(arms'[a]) = Len(arms[a]) + n
           /\ \A i \in 1 .. Len(arms[a]) : arms'[a][i] = arms[a][i]
           /\ \A i \in 1 .. n : /\ arms'[a][Len(arms[a]) + i] = Placeholder(a, i - 1, <<extensions + 1>>)
                                /\ Placeholder(a, i - 1, <<extensions + 1>>) \in Replicated
<1> DEFINE e(i) == Placeholder(a, i - 1, <<extensions + 1>>)
           new  == [i \in 1 .. n |-> e(i)]
<1>1. LastIndex \in Nat /\ a \in Nat /\ extensions \in Nat
  BY LastIndexIs, IndicesAre, ConstantsOK DEF TypeOK
<1>2. ASSUME NEW i \in 1 .. n PROVE e(i) \in Replicated
  <2>1. <<extensions + 1>> \in Seq(Nat)
    BY <1>1
  <2>2. a * ArmStride + (i - 1) \in Nat
    BY <1>1 DEF ArmStride
  <2>3. Derive(<<extensions + 1>>, a * ArmStride + (i - 1)) \in Seq(Nat)
    BY <2>1, <2>2 DEF Derive
  <2> QED
    BY <1>1, <2>1, <2>3 DEF Placeholder, Replicated
<1>3. arms'[a] = arms[a] \o new
  BY DEF Extend
<1> HIDE DEF e
<1>4. new \in Seq(Replicated) /\ Len(new) = n /\ \A i \in 1 .. n : new[i] = e(i)
  BY <1>2, IsASeq
<1> HIDE DEF new
<1>5. /\ arms[a] \o new \in Seq(Replicated) /\ Len(arms[a] \o new) = Len(arms[a]) + n
      /\ \A i \in 1 .. Len(arms[a]) + n :
             (arms[a] \o new)[i] = IF i <= Len(arms[a]) THEN arms[a][i] ELSE new[i - Len(arms[a])]
  BY <1>4, ArmsHold, ConcatProperties
<1>6. Len(arms[a]) \in Nat
  BY ArmsHold
<1>7. \A i \in 1 .. Len(arms[a]) : arms'[a][i] = arms[a][i]
  BY <1>3, <1>5, <1>6
<1>8. \A i \in 1 .. n : arms'[a][Len(arms[a]) + i] = e(i)
  BY <1>3, <1>4, <1>5, <1>6
<1> QED
  BY <1>2, <1>3, <1>5, <1>7, <1>8 DEF e


(* A step that leaves the arms as they are leaves what is said of them.    *)
LEMMA ArmsKept ==
    ASSUME UNCHANGED <<arms, total, extensions>>, SeedsUsed, HasLast
    PROVE  SeedsUsed' /\ HasLast'
<1>1. Indices' = Indices
  BY DEF Indices
<1> QED
  BY <1>1 DEF SeedsUsed, HasLast

-----------------------------------------------------------------------------
(* The invariant is inductive.                                             *)

LEMMA InitOK == Init => IInv
<1> SUFFICES ASSUME Init PROVE IInv
  OBVIOUS
<1>1. \A a \in Arms : arms[a] = <<>> /\ Len(arms[a]) = 0 /\ DOMAIN arms[a] = {}
  BY DEF Init
<1>2. TypeOK
  BY ConstantsOK DEF Init, TypeOK
<1>3. LiveFirst
  BY DEF Init, LiveFirst
<1>4. Results
  BY <1>1 DEF Init, Results
<1>5. SeedsUsed
  BY DEF Init, SeedsUsed
<1>6. HasLast
  BY <1>1 DEF HasLast, Indices
<1> QED
  BY <1>2, <1>3, <1>4, <1>5, <1>6 DEF IInv

LEMMA BeginOK ==
    ASSUME IInv, NEW j \in JobsOf[phase], Begin(j)
    PROVE  IInv'
<1>1. TypeOK /\ j \in AllJobs
  BY JobIsRun DEF IInv
<1>2. TypeOK'
  BY <1>1 DEF Begin, TypeOK, AllJobs, request, result
<1>3. LiveFirst'
  <2>1. CASE phase = "live"
    BY <1>1, <2>1, JobIsRun DEF IInv, LiveFirst, Begin, Replicates, request
  <2>2. CASE phase = "replay"
    <3>1. j[1] \in Replicates /\ j[2] \in Arms
      BY <1>1, JobIsRun
    <3>2. strategy = "counterfactual" => <<j[1], 0>> \in done
      BY <2>2, <3>1 DEF IInv, LiveFirst
    <3> QED
      BY <2>2, <3>2 DEF IInv, LiveFirst, Begin, Replicates, request
  <2>3. CASE phase \notin {"live", "replay"}
    BY <1>1, <2>3, JobIsRun DEF IInv, LiveFirst, Begin, request
  <2> QED
    BY <2>1, <2>2, <2>3
<1>4. Results'
  BY <1>1, JobIsRun DEF IInv, Results, Begin, request, result, Replicate, ArmSeed
<1> QED
  BY <1>2, <1>3, <1>4, ArmsKept DEF IInv, Begin, result

LEMMA FinishOK ==
    ASSUME IInv, NEW j \in JobsOf[phase], Finish(j)
    PROVE  IInv'
<1>1. /\ TypeOK /\ j \in AllJobs /\ j \in active
      /\ j[1] \in Replicates /\ j[2] \in Arms
      /\ phase \in {"live", "replay", "all"}
      /\ phase = "live" => j[2] = 0
  BY JobIsRun DEF IInv, Finish
<1>2. j[1] \in 0 .. MaxCount - 1
  BY <1>1 DEF AllJobs
<1>3. TypeOK'
  BY <1>1, <1>2 DEF Finish, TypeOK, AllJobs, request, result
<1>4. LiveFirst'
  <2> SUFFICES ASSUME strategy = "counterfactual"
               PROVE  LiveFirst'
    BY DEF LiveFirst, Finish, request
  <2>1. CASE phase = "live"
    BY <1>1, <2>1 DEF IInv, LiveFirst, Finish, Replicates, request
  <2>2. CASE phase = "replay"
    BY <1>1, <2>2 DEF IInv, LiveFirst, Finish, Replicates, request
  <2>3. phase # "all"
    BY DEF IInv, LiveFirst
  <2> QED
    BY <1>1, <2>1, <2>2, <2>3
<1>5. Results'
  <2>1. phase' # "returned" /\ UNCHANGED <<phase, arms, total, extensions>>
    BY <1>1 DEF Finish, result
  <2> QED
    BY <2>1 DEF IInv, Results
<1> QED
  BY <1>3, <1>4, <1>5, ArmsKept DEF IInv, Finish, result

LEMMA FailOK ==
    ASSUME IInv, NEW j \in JobsOf[phase], Fail(j)
    PROVE  IInv'
<1>1. /\ TypeOK /\ j \in AllJobs /\ j \in active
      /\ phase \in {"live", "replay", "all"}
  BY JobIsRun DEF IInv, Fail
<1>2. TypeOK'
  BY <1>1 DEF Fail, TypeOK, AllJobs, request, result
<1>3. LiveFirst'
  BY <1>1 DEF IInv, LiveFirst, Fail, Replicates, request
<1>4. Results'
  BY <1>1 DEF IInv, Results, Fail, request, result
<1> QED
  BY <1>2, <1>3, <1>4, ArmsKept DEF IInv, Fail, result

LEMMA ReplayOK == ASSUME IInv, Replay PROVE IInv'
<1>1. TypeOK'
  BY DEF IInv, Replay, TypeOK, request, jobs, result
<1>2. LiveFirst'
  <2>1. phase = "live" /\ Replicates \X {0} \subseteq done
    BY JobsAre DEF Replay, Collected
  <2>2. strategy = "counterfactual" => \A j \in done : j[2] = 0
    BY <2>1 DEF IInv, LiveFirst
  <2> QED
    BY <2>1, <2>2 DEF IInv, LiveFirst, Replay, Replicates, request, jobs
<1>3. Results'
  BY DEF IInv, Results, Replay, request, jobs, result
<1> QED
  BY <1>1, <1>2, <1>3, ArmsKept DEF IInv, Replay, result

LEMMA UnwindOK == ASSUME IInv, Unwind PROVE IInv'
<1>1. TypeOK'
  BY DEF IInv, Unwind, TypeOK, request, jobs, result
<1>2. LiveFirst'
  BY DEF IInv, LiveFirst, Unwind, Replicates, request, jobs
<1>3. Results'
  BY DEF IInv, Results, Unwind, request, jobs, result
<1> QED
  BY <1>1, <1>2, <1>3, ArmsKept DEF IInv, Unwind, result


LEMMA ReturnOK == ASSUME IInv, Return PROVE IInv'
<1>1. /\ TypeOK /\ count \in Nat /\ total' = count /\ phase' = "returned"
      /\ UNCHANGED <<strategy, count, active, done, failed, empty, missing, extensions>>
  BY DEF IInv, TypeOK, Return, request, jobs
<1>2. phase \in {"replay", "all"} /\ total = 0 /\ extensions = 0
  BY DEF IInv, Results, Return
<1>3. \A a \in Arms : /\ arms'[a] \in Seq(Replicated) /\ Len(arms'[a]) = count
                      /\ \A i \in 1 .. count : arms'[a][i] = Replicate(i - 1, a)
  BY <1>1, Returned
<1>4. \A a \in Arms : \A i \in 1 .. count :
          /\ arms'[a][i].index = i - 1
          /\ arms'[a][i].seed # <<>> /\ arms'[a][i].seed[1] = 0
          /\ arms'[a][i] = Replicate(i - 1, a)'
  <2> SUFFICES ASSUME NEW a \in Arms, NEW i \in 1 .. count
               PROVE  /\ arms'[a][i].index = i - 1
                      /\ arms'[a][i].seed # <<>> /\ arms'[a][i].seed[1] = 0
                      /\ arms'[a][i] = Replicate(i - 1, a)'
    OBVIOUS
  <2>1. i - 1 \in Nat /\ a \in Nat
    BY <1>1, ConstantsOK
  <2>2. Replicate(i - 1, a)' = Replicate(i - 1, a)
    BY <1>1 DEF Replicate, ArmSeed
  <2>3. /\ Replicate(i - 1, a).index = i - 1
        /\ Replicate(i - 1, a).seed # <<>> /\ Replicate(i - 1, a).seed[1] = 0
    BY <2>1, ReplicateIs
  <2> QED
    BY <1>3, <2>2, <2>3
<1>5. TypeOK'
  <2>1. arms' \in [Arms -> Seq(Replicated)]
    BY <1>3 DEF Return
  <2> QED
    BY <1>1, <2>1 DEF TypeOK, Replicated
<1>6. LiveFirst'
  <2> SUFFICES ASSUME strategy = "counterfactual" PROVE LiveFirst'
    BY <1>1 DEF LiveFirst
  <2>1. phase = "replay" /\ Replicates \X {0} \subseteq done
    BY <1>2 DEF IInv, LiveFirst
  <2>2. Replicates \X (Arms \ {0}) \subseteq done
    BY <2>1, JobsAre DEF Return, Collected
  <2>3. Replicates \X Arms \subseteq done
    BY <2>1, <2>2
  <2> QED
    BY <1>1, <2>1, <2>3 DEF IInv, LiveFirst, Replicates
<1>7. Results'
  <2>1. \A a \in Arms : \A i \in 1 .. count : arms'[a][i] = Replicate(i - 1, a)'
    BY <1>4
  <2> QED
    BY <1>1, <1>3, <2>1 DEF Results
<1>8. SeedsUsed'
  BY <1>1, <1>2, <1>4 DEF SeedsUsed
<1>9. HasLast'
  <2>1. /\ \A x \in Indices' : \E a \in Arms : \E i \in 1 .. count : x = i - 1
        /\ \A a \in Arms : \A i \in 1 .. count : i - 1 \in Indices'
    <3>1. \A x : x \in Indices' <=> \E a \in Arms : \E i \in DOMAIN arms'[a] : x = arms'[a][i].index
      BY DEF Indices
    <3>2. \A a \in Arms : DOMAIN arms'[a] = 1 .. count
      BY <1>3, LenProperties
    <3>3. \A a \in Arms : \A i \in DOMAIN arms'[a] : arms'[a][i].index = i - 1
      BY <1>4, <3>2
    <3>4. ASSUME NEW x \in Indices' PROVE \E a \in Arms : \E i \in 1 .. count : x = i - 1
      <4>1. PICK a \in Arms : \E i \in DOMAIN arms'[a] : x = arms'[a][i].index
        BY <3>1
      <4>2. PICK i \in DOMAIN arms'[a] : x = arms'[a][i].index
        BY <4>1
      <4>3. i \in 1 .. count /\ x = i - 1
        BY <3>2, <3>3, <4>2
      <4> QED
        BY <4>3
    <3>5. ASSUME NEW a \in Arms, NEW i \in 1 .. count PROVE i - 1 \in Indices'
      <4>1. i \in DOMAIN arms'[a] /\ i - 1 = arms'[a][i].index
        BY <3>2, <3>3
      <4> QED
        BY <3>1, <4>1
    <3> QED
      BY <3>4, <3>5
  <2>2. CASE count = 0
    BY <2>1, <2>2 DEF HasLast
  <2>3. CASE count > 0
    <3>1. count - 1 \in Indices'
      BY <1>1, <2>1, <2>3, ConstantsOK
    <3>2. \A y \in Indices' : count - 1 >= y
      BY <1>1, <2>1
    <3> QED
      BY <3>1, <3>2 DEF HasLast
  <2> QED
    BY <1>1, <2>2, <2>3
<1> QED
  BY <1>5, <1>6, <1>7, <1>8, <1>9 DEF IInv

LEMMA ExtendOK ==
    ASSUME IInv, NEW n \in 0 .. MaxExtra, Extend(n)
    PROVE  IInv'
<1>1. /\ TypeOK /\ HasLast /\ n \in Nat /\ total \in Nat /\ extensions \in Nat /\ count \in Nat
      /\ phase = "returned" /\ total' = total + n /\ extensions' = extensions + 1
      /\ extensions < MaxExtensions
      /\ UNCHANGED <<strategy, count, phase, active, done, failed, empty, missing>>
  BY ConstantsOK DEF IInv, TypeOK, Extend, request, jobs
<1> DEFINE new(a, i) == Placeholder(a, i - 1, <<extensions + 1>>)
<1>2. \A a \in Arms : Len(arms[a]) = total
  BY DEF IInv, Results
<1>3. \A a \in Arms :
          /\ arms'[a] \in Seq(Replicated) /\ Len(arms'[a]) = total + n
          /\ \A i \in 1 .. total : arms'[a][i] = arms[a][i]
          /\ \A i \in 1 .. n : arms'[a][total + i] = new(a, i) /\ new(a, i) \in Replicated
  BY <1>1, <1>2, Extended
<1>4. /\ LastIndex \in Nat
      /\ \A a \in Arms : \A i \in 1 .. total : arms[a][i].index <= LastIndex
  BY <1>1, <1>2, LastIndexIs, IndicesAre
<1>5. \A a \in Arms : \A i \in 1 .. n :
          /\ new(a, i).index = LastIndex + a + i /\ ~ new(a, i).metric
          /\ new(a, i).seed # <<>> /\ new(a, i).seed[1] = extensions + 1
  <2> SUFFICES ASSUME NEW a \in Arms, NEW i \in 1 .. n
               PROVE  /\ new(a, i).index = LastIndex + a + i /\ ~ new(a, i).metric
                      /\ new(a, i).seed # <<>> /\ new(a, i).seed[1] = extensions + 1
    OBVIOUS
  <2>1. <<extensions + 1>> \in Seq(Nat) /\ Len(<<extensions + 1>>) = 1 /\ a \in Nat
    BY <1>1, ConstantsOK
  <2>2. a * ArmStride + (i - 1) \in Nat
    BY <1>1, <2>1 DEF ArmStride
  <2>3. LET s == Derive(<<extensions + 1>>, a * ArmStride + (i - 1)) IN
        s \in Seq(Nat) /\ Len(s) = 2 /\ s[1] = extensions + 1
    BY <1>1, <2>2, DeriveOnce
  <2>4. \A s \in Seq(Nat) : Len(s) = 2 => s # <<>>
    OBVIOUS
  <2>5. LastIndex + a + (i - 1) + 1 = LastIndex + a + i
    BY <1>1, <1>4, <2>1
  <2> QED
    BY <2>3, <2>4, <2>5 DEF Placeholder
<1> HIDE DEF new
<1>6. \A i \in 1 .. total + n : i \in 1 .. total \/ \E k \in 1 .. n : i = total + k
  <2> SUFFICES ASSUME NEW i \in 1 .. total + n, i > total PROVE i - total \in 1 .. n /\ i = total + (i - total)
    BY <1>1
  <2> QED
    BY <1>1
<1>7. TypeOK'
  <2>1. arms' \in [Arms -> Seq(Replicated)]
    BY <1>3 DEF Extend
  <2> QED
    BY <1>1, <2>1, ConstantsOK DEF IInv, TypeOK, Replicated
<1>8. LiveFirst'
  BY <1>1 DEF IInv, LiveFirst, Replicates
<1>9. Results'
  <2>1. total >= count /\ \A a \in Arms : \A i \in 1 .. total :
            IF i <= count THEN arms[a][i] = Replicate(i - 1, a) ELSE ~ arms[a][i].metric
    BY <1>1 DEF IInv, Results
  <2>2. \A r, a : Replicate(r, a)' = Replicate(r, a)
    BY <1>1 DEF Replicate, ArmSeed
  <2>3. ASSUME NEW a \in Arms, NEW i \in 1 .. total + n
        PROVE  IF i <= count THEN arms'[a][i] = Replicate(i - 1, a) ELSE ~ arms'[a][i].metric
    <3>1. CASE i \in 1 .. total
      BY <1>3, <2>1, <3>1
    <3>2. ASSUME NEW k \in 1 .. n, i = total + k PROVE i > count /\ ~ arms'[a][i].metric
      <4>1. ~ arms'[a][i].metric
        BY <1>3, <1>5, <3>2
      <4> QED
        BY <1>1, <2>1, <3>2, <4>1
    <3>3. CASE \E k \in 1 .. n : i = total + k
      <4>1. i > count /\ ~ arms'[a][i].metric
        BY <3>2, <3>3
      <4> QED
        BY <1>1, <4>1
    <3> QED
      BY <1>6, <3>1, <3>3
  <2> QED
    BY <1>1, <1>3, <2>1, <2>2, <2>3 DEF Results
<1>10. SeedsUsed'
  <2> SUFFICES ASSUME NEW a \in Arms, NEW i \in 1 .. total + n
               PROVE  arms'[a][i].seed # <<>> /\ arms'[a][i].seed[1] <= extensions + 1
    BY <1>1 DEF SeedsUsed
  <2>1. CASE i \in 1 .. total
    <3>1. arms[a][i] \in Replicated
      BY <1>1, <1>2, <2>1, ArmsHold
    <3>2. arms[a][i].seed # <<>> /\ arms[a][i].seed[1] <= extensions /\ arms[a][i].seed[1] \in Nat
      BY <2>1, <3>1 DEF IInv, SeedsUsed, Replicated
    <3> QED
      BY <1>1, <1>3, <2>1, <3>2
  <2>2. ASSUME NEW k \in 1 .. n, i = total + k
        PROVE  arms'[a][i].seed # <<>> /\ arms'[a][i].seed[1] <= extensions + 1
    <3>1. arms'[a][i].seed # <<>> /\ arms'[a][i].seed[1] = extensions + 1
      BY <1>3, <1>5, <2>2
    <3> QED
      BY <1>1, <3>1
  <2> QED
    BY <1>6, <2>1, <2>2
<1>11. HasLast'
  <2>1. \A x : x \in Indices' <=> \E a \in Arms : \E i \in 1 .. total + n : x = arms'[a][i].index
    <3>1. \A x : x \in Indices' <=> \E a \in Arms : \E i \in DOMAIN arms'[a] : x = arms'[a][i].index
      BY DEF Indices
    <3>2. \A a \in Arms : DOMAIN arms'[a] = 1 .. total + n
      BY <1>3, LenProperties
    <3> QED
      BY <3>1, <3>2
  <2>2. CASE n = 0
    <3>1. \A x : x \in Indices' <=> x \in Indices
      BY <1>1, <1>2, <1>3, <2>1, <2>2, IndicesAre
    <3> QED
      BY <1>1, <3>1 DEF HasLast
  <2>3. CASE n > 0
    <3> DEFINE last == LastIndex + (ArmCount - 1) + n
    <3>1. last \in Indices'
      <4>1. ArmCount - 1 \in Arms /\ n \in 1 .. n /\ total + n \in 1 .. total + n
        BY <1>1, <2>3, ConstantsOK DEF Arms
      <4>2. arms'[ArmCount - 1][total + n].index = last
        BY <1>3, <1>5, <4>1
      <4> QED
        BY <2>1, <4>1, <4>2
    <3>2. ASSUME NEW a \in Arms, NEW i \in 1 .. total + n PROVE last >= arms'[a][i].index
      <4>1. a \in Nat /\ a <= ArmCount - 1 /\ ArmCount \in Nat
        BY ConstantsOK DEF Arms
      <4>2. CASE i \in 1 .. total
        <5>1. arms'[a][i].index <= LastIndex /\ arms'[a][i].index \in Nat
          BY <1>1, <1>2, <1>3, <1>4, <4>2, ArmsHold DEF Replicated
        <5> QED
          BY <1>1, <1>4, <4>1, <5>1
      <4>3. ASSUME NEW k \in 1 .. n, i = total + k PROVE last >= arms'[a][i].index
        <5>1. arms'[a][i].index = LastIndex + a + k
          BY <1>3, <1>5, <4>3
        <5> QED
          BY <1>1, <1>4, <4>1, <5>1
      <4> QED
        BY <1>6, <4>2, <4>3
    <3> HIDE DEF last
    <3>3. \A y \in Indices' : last >= y
      BY <2>1, <3>2
    <3> QED
      BY <3>1, <3>3 DEF HasLast
  <2> QED
    BY <1>1, <2>2, <2>3
<1> QED
  BY <1>7, <1>8, <1>9, <1>10, <1>11 DEF IInv

LEMMA StepOK == IInv /\ [Next]_vars => IInv'
<1> SUFFICES ASSUME IInv, [Next]_vars PROVE IInv'
  OBVIOUS
<1>1. CASE UNCHANGED vars
  <2>1. Indices' = Indices /\ \A r, a : Replicate(r, a)' = Replicate(r, a)
    BY <1>1 DEF Indices, Replicate, ArmSeed, vars, request, jobs, result
  <2> QED
    BY <1>1, <2>1 DEF IInv, TypeOK, LiveFirst, Results, SeedsUsed, HasLast, Replicates,
                      vars, request, jobs, result
<1>2. CASE Work
  BY <1>2, BeginOK, FinishOK, FailOK DEF Work
<1>3. CASE Caller
  BY <1>3, ReplayOK, ReturnOK, UnwindOK DEF Caller
<1>4. ASSUME NEW n \in 0 .. MaxExtra, Extend(n) PROVE IInv'
  BY <1>4, ExtendOK
<1>5. CASE Stop
  BY <1>1, <1>5 DEF Stop
<1> QED
  BY <1>1, <1>2, <1>3, <1>4, <1>5 DEF Next

LEMMA IInvHolds == Spec => []IInv
<1> QED
  BY InitOK, StepOK, PTL DEF Spec


-----------------------------------------------------------------------------
(* The invariants that are checked.                                        *)

(* Every variable of a study keeps its type, whatever the order of the     *)
(* pool and however often the study is extended (replicate.rs, run_arms    *)
(* and extend).                                                            *)
THEOREM TypeCorrect == Spec => []TypeOK
<1>1. IInv => TypeOK
  BY DEF IInv
<1> QED
  BY <1>1, IInvHolds, PTL

(* A replay reads the history its own live run has left, and no study with *)
(* an empty history returns: the arms of a counterfactual begin only when  *)
(* all live runs are collected (replicate.rs:238-298).                     *)
THEOREM ReplayAfterLiveCorrect == Spec => []ReplayAfterLive
<1>1. ASSUME IInv PROVE ReplayAfterLive
  <2> SUFFICES ASSUME strategy = "counterfactual"
               PROVE  /\ \A j \in active \cup done : j[2] # 0 => <<j[1], 0>> \in done
                      /\ phase = "returned" /\ ArmCount > 1 => empty = {}
    BY DEF ReplayAfterLive
  <2>1. \A j \in active \cup done : j[2] # 0 => <<j[1], 0>> \in done
    BY <1>1 DEF IInv, LiveFirst
  <2>2. ASSUME phase = "returned", ArmCount > 1 PROVE empty = {}
    <3>1. Replicates \X Arms \subseteq done /\ empty \subseteq Replicates
      BY <1>1, <2>2 DEF IInv, LiveFirst
    <3>2. 1 \in Arms
      BY <2>2, ConstantsOK DEF Arms
    <3>3. \A r \in empty : <<r, 1>> \in done /\ <<r, 1>>[2] # 0
      BY <3>1, <3>2
    <3>4. \A r \in empty : r \notin empty
      BY <1>1, <3>3 DEF IInv, LiveFirst
    <3> QED
      BY <3>4
  <2> QED
    BY <2>1, <2>2
<1> QED
  BY <1>1, IInvHolds, PTL

(* When no run lacks the metric, the replicate at i of an arm is in row i  *)
(* of its column: an extension adds none to it.                            *)
LEMMA ColumnsAre ==
    ASSUME IInv, missing = {}, NEW a \in Arms
    PROVE  /\ phase # "returned" => Column(a) = {}
           /\ phase = "returned" =>
                  /\ Column(a) = 1 .. count
                  /\ \A i \in 1 .. count : Row(a, i) = i
<1>1. /\ DOMAIN arms[a] = 1 .. total /\ total \in Nat /\ count \in Nat /\ a \in Nat
  BY ArmsHold, ConstantsOK DEF IInv, Results, TypeOK
<1>2. CASE phase # "returned"
  <2>1. DOMAIN arms[a] = {}
    BY <1>1, <1>2 DEF IInv, Results
  <2> QED
    BY <1>2, <2>1 DEF Column
<1>3. CASE phase = "returned"
  <2>1. /\ total >= count
        /\ \A i \in 1 .. total :
               IF i <= count THEN arms[a][i] = Replicate(i - 1, a) ELSE ~ arms[a][i].metric
    BY <1>3 DEF IInv, Results
  <2>2. \A i \in 1 .. count : arms[a][i].metric
    <3>1. \A i \in 1 .. count : i - 1 \in Nat /\ i \in 1 .. total /\ i <= count
      BY <1>1, <2>1
    <3> QED
      BY <1>1, <2>1, <3>1, ReplicateIs
  <2>3. \A i \in 1 .. total : i \notin 1 .. count => ~ arms[a][i].metric
    BY <1>1, <2>1
  <2>4. Column(a) = 1 .. count
    BY <1>1, <2>1, <2>2, <2>3 DEF Column
  <2>5. ASSUME NEW i \in 1 .. count PROVE Row(a, i) = i
    <3>1. { j \in Column(a) : j <= i } = 1 .. i
      BY <1>1, <2>4
    <3>2. Cardinality(1 .. i) = i
      BY <1>1, FS_Interval
    <3> QED
      BY <3>1, <3>2 DEF Row
  <2> QED
    BY <1>3, <2>4, <2>5
<1> QED
  BY <1>2, <1>3

(* The estimators of a paired design subtract runs of one replicate, and   *)
(* under common random numbers runs with one seed, also after extensions   *)
(* (effect.rs:504-573 pairs the columns row by row), when no run lacks the *)
(* metric.                                                                 *)
THEOREM PairsShareStreamsCorrect == Spec => []PairsShareStreams
<1>1. ASSUME IInv PROVE PairsShareStreams
  <2> SUFFICES ASSUME missing = {}, NEW a \in Arms, NEW b \in Arms, NEW pair \in Pairs(a, b)
               PROVE  /\ pair[1].index = pair[2].index /\ pair[1].parent = pair[2].parent
                      /\ strategy = "crn" => pair[1].seed = pair[2].seed
    BY DEF PairsShareStreams
  <2>1. PICK i \in Column(a), j \in Column(b) :
            Row(a, i) = Row(b, j) /\ pair[1] = arms[a][i] /\ pair[2] = arms[b][j]
    BY DEF Pairs
  <2>2. phase = "returned" /\ i \in 1 .. count /\ j = i
    <3>1. phase = "returned"
      BY <1>1, <2>1, ColumnsAre
    <3> QED
      BY <1>1, <2>1, <3>1, ColumnsAre
  <2>3. i \in 1 .. total /\ i <= count /\ i - 1 \in Nat /\ a \in Nat /\ b \in Nat
    BY <1>1, <2>2, ConstantsOK DEF IInv, Results, TypeOK
  <2>4. arms[a][i] = Replicate(i - 1, a) /\ arms[b][i] = Replicate(i - 1, b)
    BY <1>1, <2>2, <2>3 DEF IInv, Results
  <2>5. strategy = "crn" =>
            ArmSeed(ReplicateSeed(i - 1), a) = ArmSeed(ReplicateSeed(i - 1), b)
    BY DEF ArmSeed
  <2> QED
    BY <2>1, <2>2, <2>3, <2>4, <2>5, ReplicateIs
<1> QED
  BY <1>1, IInvHolds, PTL

-----------------------------------------------------------------------------
(* Study implements StudyPlan.                                             *)

LEMMA SeedsDiffer ==
    ASSUME NEW r \in Nat, NEW q \in Nat, NEW a \in Nat, NEW b \in Nat
    PROVE  /\ ReplicateSeed(r) = ReplicateSeed(q) <=> r = q
           /\ ArmSeed(ReplicateSeed(r), a) = ArmSeed(ReplicateSeed(q), b) <=>
                  r = q /\ (a = b \/ strategy = "crn")
<1>1. ASSUME NEW n \in Nat, NEW c \in Nat
      PROVE  LET arm == Derive(ReplicateSeed(n), c) IN
             /\ Len(ReplicateSeed(n)) = 2 /\ ReplicateSeed(n)[2] = n
             /\ Len(arm) = 3 /\ arm[2] = n /\ arm[3] = c
  BY SeedsAre
<1>2. ReplicateSeed(r) = ReplicateSeed(q) <=> r = q
  BY <1>1
<1>3. ReplicateSeed(r) # Derive(ReplicateSeed(q), b) /\ Derive(ReplicateSeed(r), a) # ReplicateSeed(q)
  <2>1. Len(ReplicateSeed(r)) = 2 /\ Len(ReplicateSeed(q)) = 2
    BY <1>1
  <2>2. Len(Derive(ReplicateSeed(q), b)) = 3 /\ Len(Derive(ReplicateSeed(r), a)) = 3
    BY <1>1
  <2> QED
    BY <2>1, <2>2
<1>4. Derive(ReplicateSeed(r), a) = Derive(ReplicateSeed(q), b) <=> r = q /\ a = b
  BY <1>1
<1> QED
  BY <1>2, <1>3, <1>4 DEF ArmSeed

LEMMA ReturnRuns == ASSUME IInv, Return PROVE Plan!Run
<1>1. /\ TypeOK /\ count \in Nat /\ total' = count /\ UNCHANGED <<strategy, count>>
      /\ phase # "returned"
  BY DEF IInv, TypeOK, Return, request
<1>2. Plan!PlanInit
  <2>1. total = 0 /\ \A a \in Arms : Len(arms[a]) = 0
    BY <1>1 DEF IInv, Results
  <2>2. \A a \in Arms : arms[a] = <<>>
    BY <1>1, <2>1, ArmsHold, EmptySeq
  <2> QED
    BY <2>1, <2>2 DEF Plan!PlanInit
<1>3. \A a \in Arms : /\ Len(arms'[a]) = count /\ DOMAIN arms'[a] = 1 .. count
                      /\ \A i \in 1 .. count : arms'[a][i] = Replicate(i - 1, a)
  BY <1>1, Returned, LenProperties
<1>4. \A i \in 1 .. count : i - 1 \in Nat
  BY <1>1
<1>5. Plan!Complete'
  <2>1. ASSUME NEW a \in Arms, NEW i \in 1 .. count PROVE arms'[a][i].index = i - 1
    BY <1>3, <1>4, ReplicateIs, ConstantsOK
  <2> QED
    BY <1>1, <1>3, <2>1 DEF Plan!Complete
<1>6. Plan!SeedContract'
  <2> SUFFICES ASSUME NEW a \in Arms, NEW b \in Arms, NEW i \in 1 .. count, NEW j \in 1 .. count
               PROVE  /\ arms'[a][i].seed = arms'[b][j].seed <=>
                             arms'[a][i].index = arms'[b][j].index /\ (a = b \/ strategy = "crn")
                      /\ arms'[a][i].parent = arms'[b][j].parent <=>
                             arms'[a][i].index = arms'[b][j].index
    BY <1>1, <1>3 DEF Plan!SeedContract, Plan!Positions
  <2>1. arms'[a][i] = Replicate(i - 1, a) /\ arms'[b][j] = Replicate(j - 1, b)
    BY <1>3
  <2>2. i - 1 \in Nat /\ j - 1 \in Nat /\ a \in Nat /\ b \in Nat
    BY <1>4, ConstantsOK
  <2> QED
    BY <2>1, <2>2, ReplicateIs, SeedsDiffer
<1> QED
  BY <1>1, <1>2, <1>5, <1>6 DEF Plan!Run


(* The numbers the seeds of an extension are derived from tell its         *)
(* replicates apart, when it has no more of them than the stride.          *)
LEMMA StrideSeparates ==
    ASSUME NEW a \in Nat, NEW b \in Nat,
           NEW i \in 0 .. ArmStride - 1, NEW j \in 0 .. ArmStride - 1,
           a * ArmStride + i = b * ArmStride + j
    PROVE  a = b /\ i = j
BY DEF ArmStride

LEMMA ExtendExtends ==
    ASSUME IInv, MaxExtra <= ArmStride, NEW n \in 0 .. MaxExtra, Extend(n)
    PROVE  Plan!Extend
<1>1. /\ TypeOK /\ HasLast /\ n \in Nat /\ total \in Nat /\ extensions \in Nat
      /\ total' = total + n /\ UNCHANGED <<strategy, count>>
  BY ConstantsOK DEF IInv, TypeOK, Extend, request
<1>2. \A a \in Arms : Len(arms[a]) = total /\ DOMAIN arms[a] = 1 .. total
  BY <1>1, ArmsHold DEF IInv, Results
<1> DEFINE new(a, k) == Placeholder(a, k - 1, <<extensions + 1>>)
<1>3. \A a \in Arms :
          /\ arms'[a] \in Seq(Replicated) /\ Len(arms'[a]) = total + n
          /\ \A i \in 1 .. total : arms'[a][i] = arms[a][i]
          /\ \A k \in 1 .. n : arms'[a][total + k] = new(a, k)
  BY <1>1, <1>2, Extended
<1>4. /\ LastIndex \in Nat
      /\ \A a \in Arms : \A i \in 1 .. total : arms[a][i].index <= LastIndex
  BY <1>1, <1>2, LastIndexIs, IndicesAre
<1>5. ASSUME NEW a \in Arms, NEW k \in 1 .. n
      PROVE  /\ new(a, k).index = LastIndex + a + k
             /\ new(a, k).seed[1] = extensions + 1
             /\ new(a, k).seed[2] = a * ArmStride + (k - 1)
  <2>1. a \in Nat /\ a * ArmStride + (k - 1) \in Nat /\ extensions + 1 \in Nat
    BY <1>1, ConstantsOK DEF ArmStride
  <2>2. LET s == Derive(<<extensions + 1>>, a * ArmStride + (k - 1)) IN
        s[1] = extensions + 1 /\ s[2] = a * ArmStride + (k - 1)
    BY <2>1, DeriveOnce
  <2>3. LastIndex + a + (k - 1) + 1 = LastIndex + a + k
    BY <1>1, <1>4, <2>1
  <2> QED
    BY <2>2, <2>3 DEF Placeholder
<1> HIDE DEF new
<1>6. \A a \in Arms : SubSeq(arms'[a], 1, Len(arms[a])) = arms[a]
  <2> SUFFICES ASSUME NEW a \in Arms PROVE SubSeq(arms'[a], 1, total) = arms[a]
    BY <1>2
  <2>1. \A i \in 1 .. total : arms'[a][i] \in Replicated
    BY <1>1, <1>2, <1>3, ArmsHold
  <2> DEFINE first == SubSeq(arms'[a], 1, total)
  <2>2. /\ first \in Seq(Replicated) /\ Len(first) = total
        /\ \A i \in 1 .. total : first[i] = arms'[a][i]
    <3>1. /\ first \in Seq(Replicated)
          /\ Len(first) = IF 1 <= total THEN total - 1 + 1 ELSE 0
          /\ \A i \in 1 .. total - 1 + 1 : first[i] = arms'[a][1 + i - 1]
      BY <1>1, <2>1, SubSeqProperties
    <3>2. total - 1 + 1 = total /\ \A i \in 1 .. total : 1 + i - 1 = i
      BY <1>1
    <3> HIDE DEF first
    <3> QED
      BY <1>1, <3>1, <3>2
  <2> HIDE DEF first
  <2>3. arms[a] \in Seq(Replicated) /\ Len(arms[a]) = total
    BY <1>1, <1>2, ArmsHold
  <2>4. \A i \in 1 .. total : first[i] = arms[a][i]
    BY <1>3, <2>2
  <2>5. first = arms[a]
    BY <2>2, <2>3, <2>4, SeqEqual
  <2> QED
    BY <2>5 DEF first
<1>7. ASSUME NEW a \in Arms, NEW i \in Plan!Added(a)
      PROVE  /\ i - total \in 1 .. n
             /\ arms'[a][i].index = LastIndex + a + (i - total)
             /\ arms'[a][i].seed[1] = extensions + 1
             /\ arms'[a][i].seed[2] = a * ArmStride + (i - total - 1)
  <2>1. i \in 1 .. total + n /\ i > total
    BY <1>2, <1>3 DEF Plan!Added
  <2>2. i - total \in 1 .. n /\ i = total + (i - total)
    BY <1>1, <2>1
  <2>3. arms'[a][i] = new(a, i - total)
    BY <1>3, <2>2
  <2> QED
    BY <1>5, <2>2, <2>3
<1>8. ASSUME NEW a \in Arms, NEW b \in Arms, NEW i \in Plan!Added(a), NEW j \in Plan!Positions(b)
      PROVE  arms'[a][i].index > arms[b][j].index /\ arms'[a][i].seed # arms[b][j].seed
  <2>1. j \in 1 .. total /\ arms[b][j] \in Replicated
    BY <1>1, <1>2, ArmsHold DEF Plan!Positions
  <2>2. arms[b][j].index <= LastIndex /\ arms[b][j].index \in Nat /\ a \in Nat
    BY <1>4, <2>1, ConstantsOK DEF Replicated
  <2>3. arms[b][j].seed \in Seq(Nat) /\ arms[b][j].seed # <<>> /\ arms[b][j].seed[1] <= extensions
    BY <2>1 DEF IInv, SeedsUsed, Replicated
  <2>4. arms[b][j].seed[1] \in Nat /\ arms[b][j].seed[1] # extensions + 1
    BY <1>1, <2>3
  <2> QED
    BY <1>1, <1>4, <1>7, <2>2, <2>4
<1>9. ASSUME NEW a \in Arms, NEW b \in Arms, NEW i \in Plan!Added(a), NEW j \in Plan!Added(b)
      PROVE  /\ arms'[a][i].seed = arms'[b][j].seed <=> <<a, i>> = <<b, j>>
             /\ a = b /\ i < j => arms'[a][i].index < arms'[a][j].index
  <2>1. i \in Nat /\ j \in Nat /\ a \in Nat /\ b \in Nat
    BY <1>1, <1>2, <1>3, ConstantsOK DEF Plan!Added
  <2>2. i - total - 1 \in 0 .. ArmStride - 1 /\ j - total - 1 \in 0 .. ArmStride - 1
    BY <1>1, <1>7, <2>1, ConstantsOK DEF ArmStride
  <2>3. ASSUME arms'[a][i].seed = arms'[b][j].seed PROVE a = b /\ i = j
    <3>1. a * ArmStride + (i - total - 1) = b * ArmStride + (j - total - 1)
      BY <1>7, <2>3
    <3>2. a = b /\ i - total - 1 = j - total - 1
      BY <2>1, <2>2, <3>1, StrideSeparates
    <3> QED
      BY <1>1, <2>1, <3>2
  <2>4. ASSUME a = b, i < j PROVE arms'[a][i].index < arms'[a][j].index
    <3>1. /\ arms'[a][i].index = LastIndex + a + (i - total)
          /\ arms'[a][j].index = LastIndex + a + (j - total)
      BY <1>7, <2>4
    <3> QED
      BY <1>1, <1>4, <2>1, <2>4, <3>1
  <2> QED
    BY <2>3, <2>4
<1>10. /\ total' >= total
       /\ \A a \in Arms : Len(arms'[a]) = Len(arms[a]) + (total' - total)
  <2>1. total' - total = n /\ total' >= total
    BY <1>1
  <2> QED
    BY <1>2, <1>3, <2>1
<1> QED
  BY <1>1, <1>6, <1>8, <1>9, <1>10 DEF Plan!Extend

(* run_arms and extend give the study StudyPlan promises: the replicates   *)
(* asked for under the seed contract of the strategy, and extensions that  *)
(* add indices and seeds of their own and touch nothing else               *)
(* (replicate.rs:186-363, 404-464); for extensions of at most 1000         *)
(* replicates, beyond which the seeds of two arms meet (replicate.rs:428). *)
THEOREM ImplementsPlanCorrect ==
    ASSUME MaxExtra <= ArmStride
    PROVE  Spec => ImplementsPlan
<1>1. Init => Plan!PlanInit
  BY DEF Init, Plan!PlanInit
<1>2. ASSUME IInv, [Next]_vars PROVE [Plan!PlanNext]_(Plan!plan)
  <2> USE DEF Plan!PlanNext, Plan!plan
  <2>1. CASE UNCHANGED <<request, result>>
    BY <2>1 DEF request, result
  <2>2. CASE Return
    BY <1>2, <2>2, ReturnRuns
  <2>3. ASSUME NEW n \in 0 .. MaxExtra, Extend(n) PROVE Plan!Extend
    BY <1>2, <2>3, ExtendExtends
  <2>4. CASE Work
    BY <2>1, <2>4 DEF Work, Begin, Finish, Fail
  <2> QED
    BY <1>2, <2>1, <2>2, <2>3, <2>4 DEF Next, Caller, Replay, Unwind, Stop, vars
<1> QED
  BY <1>1, <1>2, IInvHolds, PTL DEF Spec, ImplementsPlan, Plan!PlanSpec
=============================================================================
