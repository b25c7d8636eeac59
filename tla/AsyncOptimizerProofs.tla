------------------------ MODULE AsyncOptimizerProofs ------------------------
(***************************************************************************)
(* What the trials of AsyncOptimizer are and where they are, for every     *)
(* budget, number of threads, pool, batch of candidates and failure limit. *)
(***************************************************************************)
EXTENDS AsyncOptimizer, FiniteSetTheorems, SequenceTheorems, TLAPS

Messages == [trial : TrialIds, ok : BOOLEAN]

(* The trials a dispatch of n of them hands out.                           *)
Batch(n) == next .. next + n - 1

(* The seats of the trials before the loop is entered: nothing is on its   *)
(* way, and the initial design has handed out its own trials only.         *)
BeforeLoop ==
    /\ phase \in {"initial", "launch"} =>
          /\ queued = {} /\ running = {} /\ channel = <<>>
          /\ pending = {} /\ count = 0
    /\ phase = "initial" => next = 0 /\ trials = <<>> /\ lost = {} /\ checkpoint = <<>>
    /\ phase = "launch" => next = InitialN

(* No message is sent twice and no trial is recorded twice.                *)
NoDuplicates ==
    /\ \A i, j \in DOMAIN channel : channel[i].trial = channel[j].trial => i = j
    /\ \A i, j \in DOMAIN trials : trials[i] = trials[j] => i = j

(* The strengthening: a step keeps EveryTrialOnce and CountsOutstanding    *)
(* only together with the seats of BeforeLoop.                             *)
IInv == TypeOK /\ EveryTrialOnce /\ CountsOutstanding /\ BeforeLoop

-----------------------------------------------------------------------------
(* Arithmetic of the constants.                                            *)

LEMMA LeastBound ==
    ASSUME NEW a \in Nat, NEW b \in Nat
    PROVE  Least(a, b) \in Nat /\ Least(a, b) <= a /\ Least(a, b) <= b
BY DEF Least

LEMMA InitialBound == InitialN \in Nat /\ InitialN <= Budget
BY LeastBound, TrialsAssumption DEF InitialN

LEMMA WorkersBound == Workers \in Nat /\ InitialN + Workers <= Budget
<1>1. Budget - InitialN \in Nat
  BY InitialBound, TrialsAssumption
<1>2. Workers \in Nat /\ Workers <= Budget - InitialN
  BY <1>1, LeastBound, ThreadsAssumption DEF Workers
<1> QED
  BY <1>1, <1>2, InitialBound, TrialsAssumption

LEMMA LaunchBound == LaunchSize \in Nat /\ InitialN + LaunchSize <= Budget
<1>1. Least(Workers, Candidates) \in Nat /\ Least(Workers, Candidates) <= Workers
  BY LeastBound, WorkersBound, ThreadsAssumption
<1> QED
  BY <1>1, WorkersBound, InitialBound, TrialsAssumption DEF LaunchSize

LEMMA AfterBound ==
    ASSUME TypeOK
    PROVE  /\ AfterSuccess \in {0, 1} /\ next + AfterSuccess <= Budget
           /\ AfterFailure \in {0, 1, 2} /\ next + AfterFailure <= Budget
<1>1. next \in Nat /\ next <= Budget
  BY TrialsAssumption DEF TypeOK
<1> QED
  BY <1>1, TrialsAssumption DEF AfterSuccess, AfterFailure, Least

(* A batch within the budget is of new trials, as many as were asked for.  *)
LEMMA BatchFacts ==
    ASSUME TypeOK, NEW n \in Nat, next + n <= Budget
    PROVE  /\ Batch(n) \subseteq TrialIds
           /\ IsFiniteSet(Batch(n)) /\ Cardinality(Batch(n)) = n
           /\ Batch(n) \cap (0 .. next - 1) = {}
           /\ (0 .. next - 1) \cup Batch(n) = 0 .. next + n - 1
           /\ next + n \in 0 .. Budget
<1>1. next \in Nat /\ next <= Budget /\ Budget \in Nat
  BY TrialsAssumption DEF TypeOK
<1>2. IsFiniteSet(Batch(n)) /\ Cardinality(Batch(n)) = n
  BY <1>1, FS_Interval DEF Batch
<1> QED
  BY <1>1, <1>2 DEF Batch, TrialIds

-----------------------------------------------------------------------------
(* The channel as the set of the trials in it.                             *)

LEMMA SentSet ==
    ASSUME TypeOK, NoDuplicates, NEW t \in TrialIds, NEW ok \in BOOLEAN,
           t \notin InChannel,
           channel' = Append(channel, [trial |-> t, ok |-> ok])
    PROVE  /\ channel' \in Seq(Messages)
           /\ InChannel' = InChannel \cup {t}
           /\ \A i, j \in DOMAIN channel' : channel'[i].trial = channel'[j].trial => i = j
<1> DEFINE msg == [trial |-> t, ok |-> ok]
<1>1. msg \in Messages /\ channel \in Seq(Messages) /\ msg.trial = t
  BY DEF Messages, TypeOK
<1>2. /\ channel' \in Seq(Messages)
      /\ Len(channel) \in Nat
      /\ DOMAIN channel = 1 .. Len(channel)
      /\ DOMAIN channel' = 1 .. Len(channel) + 1
      /\ \A i \in 1 .. Len(channel) : channel'[i] = channel[i]
      /\ channel'[Len(channel) + 1] = msg
  <2> HIDE DEF msg
  <2>1. channel' = Append(channel, msg)
    BY DEF msg
  <2> QED
    BY <1>1, <2>1, AppendProperties, LenProperties
<1> HIDE DEF msg
<1>3. \A i \in DOMAIN channel : channel[i].trial # t
  BY DEF InChannel
<1>4. InChannel' = InChannel \cup {t}
  <2>1. ASSUME NEW x \in InChannel' PROVE x \in InChannel \cup {t}
    BY <2>1, <1>1, <1>2 DEF InChannel
  <2>2. ASSUME NEW x \in InChannel PROVE x \in InChannel'
    BY <2>2, <1>2 DEF InChannel
  <2>3. t \in InChannel'
    BY <1>1, <1>2 DEF InChannel
  <2> QED
    BY <2>1, <2>2, <2>3
<1>5. ASSUME NEW i \in DOMAIN channel', NEW j \in DOMAIN channel',
             channel'[i].trial = channel'[j].trial
      PROVE  i = j
  BY <1>5, <1>1, <1>2, <1>3 DEF NoDuplicates
<1> QED
  BY <1>2, <1>4, <1>5

LEMMA ReceivedSet ==
    ASSUME TypeOK, NoDuplicates, channel # <<>>, channel' = Tail(channel)
    PROVE  /\ Received \in Messages
           /\ Received.trial \in InChannel
           /\ channel' \in Seq(Messages)
           /\ InChannel' = InChannel \ {Received.trial}
           /\ \A i, j \in DOMAIN channel' : channel'[i].trial = channel'[j].trial => i = j
<1>1. channel \in Seq(Messages)
  BY DEF Messages, TypeOK
<1>2. /\ Len(channel) \in Nat \ {0}
      /\ DOMAIN channel = 1 .. Len(channel)
      /\ channel' \in Seq(Messages)
      /\ DOMAIN channel' = 1 .. Len(channel) - 1
      /\ \A i \in DOMAIN channel' : channel'[i] = channel[i + 1]
  BY <1>1, HeadTailProperties, LenProperties, EmptySeq
<1>3. Received = channel[1] /\ Received \in Messages
  BY <1>1, <1>2, HeadTailProperties DEF Received
<1>4. Received.trial \in InChannel
  BY <1>2, <1>3 DEF InChannel
<1>5. ASSUME NEW i \in DOMAIN channel' PROVE i + 1 \in DOMAIN channel /\ i + 1 # 1 /\ i \in Nat
  BY <1>2
<1>6. InChannel' = InChannel \ {Received.trial}
  <2>1. ASSUME NEW x \in InChannel' PROVE x \in InChannel \ {Received.trial}
    <3>1. PICK i \in DOMAIN channel' : x = channel'[i].trial
      BY DEF InChannel
    <3>2. x = channel[i + 1].trial
      BY <3>1, <1>2
    <3>3. x # channel[1].trial
      BY <3>2, <1>2, <1>5 DEF NoDuplicates
    <3> QED
      BY <3>2, <3>3, <1>3, <1>5 DEF InChannel
  <2>2. ASSUME NEW x \in InChannel, x # Received.trial PROVE x \in InChannel'
    <3>1. PICK i \in DOMAIN channel : x = channel[i].trial
      BY DEF InChannel
    <3>2. i # 1
      BY <3>1, <2>2, <1>3
    <3>3. i - 1 \in DOMAIN channel' /\ (i - 1) + 1 = i
      BY <3>2, <1>2
    <3>4. channel'[i - 1] = channel[i]
      BY <3>3, <1>2
    <3> QED
      BY <3>1, <3>3, <3>4 DEF InChannel
  <2> QED
    BY <2>1, <2>2
<1>7. ASSUME NEW i \in DOMAIN channel', NEW j \in DOMAIN channel',
             channel'[i].trial = channel'[j].trial
      PROVE  i = j
  <2>1. i + 1 = j + 1
    BY <1>7, <1>2, <1>5 DEF NoDuplicates
  <2> QED
    BY <2>1, <1>5
<1> QED
  BY <1>2, <1>3, <1>4, <1>6, <1>7

(* A result recorded is a trial more recorded, if it was not already.      *)
LEMMA RecordedSet ==
    ASSUME TypeOK, NoDuplicates, NEW t \in TrialIds, t \notin Recorded,
           trials' = Append(trials, t)
    PROVE  /\ trials' \in Seq(TrialIds)
           /\ Recorded' = Recorded \cup {t}
           /\ \A i, j \in DOMAIN trials' : trials'[i] = trials'[j] => i = j
<1>1. trials \in Seq(TrialIds)
  BY DEF TypeOK
<1>2. /\ trials' \in Seq(TrialIds)
      /\ Len(trials) \in Nat
      /\ DOMAIN trials = 1 .. Len(trials)
      /\ DOMAIN trials' = 1 .. Len(trials) + 1
      /\ \A i \in 1 .. Len(trials) : trials'[i] = trials[i]
      /\ trials'[Len(trials) + 1] = t
  BY <1>1, AppendProperties, LenProperties
<1>3. \A i \in DOMAIN trials : trials[i] # t
  BY DEF Recorded
<1>4. Recorded' = Recorded \cup {t}
  <2>1. ASSUME NEW x \in Recorded' PROVE x \in Recorded \cup {t}
    BY <2>1, <1>2 DEF Recorded
  <2>2. ASSUME NEW x \in Recorded PROVE x \in Recorded'
    BY <2>2, <1>2 DEF Recorded
  <2>3. t \in Recorded'
    BY <1>2 DEF Recorded
  <2> QED
    BY <2>1, <2>2, <2>3
<1>5. ASSUME NEW i \in DOMAIN trials', NEW j \in DOMAIN trials', trials'[i] = trials'[j]
      PROVE  i = j
  BY <1>5, <1>2, <1>3 DEF NoDuplicates
<1> QED
  BY <1>2, <1>4, <1>5

LEMMA CheckpointType ==
    ASSUME TypeOK, trials' \in Seq(TrialIds), NEW i \in Int, WriteCheckpoint(i)
    PROVE  checkpoint' \in Seq(TrialIds)
BY DEF WriteCheckpoint, TypeOK

(* What is outstanding is finite: it is among the trials of the budget.    *)
LEMMA OutstandingFinite ==
    ASSUME TypeOK
    PROVE  Outstanding \subseteq TrialIds /\ IsFiniteSet(Outstanding)
<1>1. InChannel \subseteq TrialIds
  <2>1. channel \in Seq(Messages)
    BY DEF TypeOK, Messages
  <2>2. \A i \in DOMAIN channel : channel[i] \in Messages
    BY <2>1, LenProperties
  <2> QED
    BY <2>2 DEF InChannel, Messages
<1>2. Outstanding \subseteq TrialIds
  BY <1>1 DEF Outstanding, TypeOK
<1>3. IsFiniteSet(TrialIds)
  BY FS_Interval, TrialsAssumption DEF TrialIds
<1> QED
  BY <1>2, <1>3, FS_Subset

-----------------------------------------------------------------------------
(* The message received leaves the channel, the batch joins the pool, and  *)
(* the counter and the set the code keeps follow.                          *)
LEMMA Replaced ==
    ASSUME IInv, phase = "collect", channel # <<>>,
           NEW n \in Nat, next + n <= Budget, Replace(n)
    PROVE  /\ Received.trial \in TrialIds
           /\ Received.trial \notin Recorded \cup lost
           /\ queued' \in SUBSET TrialIds /\ running' \in SUBSET TrialIds
           /\ pending' \in SUBSET TrialIds /\ channel' \in Seq(Messages)
           /\ next' = next + n /\ next' \in 0 .. Budget
           /\ queued' \cap running' = {}
           /\ (queued' \cup running') \cap InChannel' = {}
           /\ \A i, j \in DOMAIN channel' : channel'[i].trial = channel'[j].trial => i = j
           /\ Outstanding' \cap (Recorded \cup lost \cup {Received.trial}) = {}
           /\ Outstanding' \cup Recorded \cup lost \cup {Received.trial} = 0 .. next' - 1
           /\ pending' = Outstanding' /\ count' \in Nat /\ count' = Cardinality(Outstanding')
<1> DEFINE r == Received.trial
<1>1. TypeOK /\ NoDuplicates
  BY DEF IInv, EveryTrialOnce, OneStage, NoDuplicates
<1>2. /\ channel' = Tail(channel)
      /\ queued' = queued \cup Batch(n)
      /\ pending' = (pending \ {r}) \cup Batch(n)
      /\ next' = next + n /\ count' = count - 1 + n /\ running' = running
  BY DEF Replace, Batch
<1>3. /\ r \in InChannel /\ r \in TrialIds /\ channel' \in Seq(Messages)
      /\ InChannel' = InChannel \ {r}
      /\ \A i, j \in DOMAIN channel' : channel'[i].trial = channel'[j].trial => i = j
  BY <1>1, <1>2, ReceivedSet DEF Messages
<1>4. /\ Batch(n) \subseteq TrialIds
      /\ IsFiniteSet(Batch(n)) /\ Cardinality(Batch(n)) = n
      /\ Batch(n) \cap (0 .. next - 1) = {}
      /\ (0 .. next - 1) \cup Batch(n) = 0 .. next + n - 1
      /\ next + n \in 0 .. Budget
  BY <1>1, BatchFacts
<1>5. /\ queued \cap running = {}
      /\ (queued \cup running) \cap InChannel = {}
      /\ Outstanding \cap (Recorded \cup lost) = {}
      /\ Outstanding \cup Recorded \cup lost = 0 .. next - 1
      /\ Outstanding = queued \cup running \cup InChannel
  BY DEF IInv, EveryTrialOnce, OneStage, Outstanding
<1>6. Outstanding' = (Outstanding \ {r}) \cup Batch(n)
  BY <1>2, <1>3, <1>5 DEF Outstanding
<1>7. pending = Outstanding /\ count = Cardinality(Outstanding) /\ count \in Nat
  BY DEF IInv, CountsOutstanding, TypeOK
<1>8. Batch(n) \cap Outstanding = {} /\ Batch(n) \cap (Recorded \cup lost) = {}
  BY <1>4, <1>5
<1>9. count' = Cardinality(Outstanding') /\ count' \in Nat
  <2>1. /\ IsFiniteSet(Outstanding \ {r})
        /\ Cardinality(Outstanding \ {r}) = count - 1
    BY <1>1, <1>3, <1>5, <1>7, OutstandingFinite, FS_RemoveElement
  <2>2. (Outstanding \ {r}) \cap Batch(n) = {}
    BY <1>8
  <2>3. Cardinality((Outstanding \ {r}) \cap Batch(n)) = 0
    BY <2>2, FS_EmptySet
  <2>4. Cardinality((Outstanding \ {r}) \cup Batch(n)) = (count - 1) + n - 0
    BY <2>1, <2>3, <1>4, FS_Union
  <2>5. IsFiniteSet((Outstanding \ {r}) \cup Batch(n))
    BY <2>1, <1>4, FS_Union
  <2>6. Cardinality((Outstanding \ {r}) \cup Batch(n)) \in Nat
    BY <2>5, FS_CardinalityType
  <2>7. (count - 1) + n - 0 = count - 1 + n
    BY <1>7
  <2> QED
    BY <2>4, <2>6, <2>7, <1>2, <1>6
<1>10. /\ queued' \cap running' = {}
       /\ (queued' \cup running') \cap InChannel' = {}
  BY <1>2, <1>3, <1>5, <1>8
<1>11. /\ Outstanding' \cap (Recorded \cup lost \cup {r}) = {}
       /\ Outstanding' \cup Recorded \cup lost \cup {r} = (0 .. next - 1) \cup Batch(n)
       /\ r \notin Recorded \cup lost
  BY <1>3, <1>5, <1>6, <1>8
<1>12. /\ queued' \in SUBSET TrialIds /\ running' \in SUBSET TrialIds
       /\ pending' \in SUBSET TrialIds
  BY <1>1, <1>2, <1>4 DEF TypeOK
<1>13. pending' = Outstanding'
  BY <1>2, <1>6, <1>7
<1>14. Outstanding' \cup Recorded \cup lost \cup {r} = 0 .. next' - 1
  <2>1. 0 .. next' - 1 = 0 .. next + n - 1
    BY <1>1, <1>2 DEF TypeOK
  <2> QED
    BY <2>1, <1>4, <1>11, Zenon
<1>15. next' = next + n /\ next' \in 0 .. Budget
  BY <1>2, <1>4
<1> QED
  BY <1>3, <1>9, <1>10, <1>11, <1>12, <1>13, <1>14, <1>15

(* A turn of the loop keeps the invariant whatever it makes of the trial   *)
(* received, so long as it records it or counts it as lost.                *)
LEMMA TurnKeeps ==
    ASSUME IInv, phase = "collect", channel # <<>>,
           NEW n \in Nat, next + n <= Budget, Replace(n),
           phase' \in {"collect", "returned", "failed", "panicked"},
           trials' \in Seq(TrialIds), checkpoint' \in Seq(TrialIds),
           failures' \in Nat, lost' \in SUBSET TrialIds,
           \A i, j \in DOMAIN trials' : trials'[i] = trials'[j] => i = j,
           Recorded' \cap lost' = {},
           Recorded' \cup lost' = Recorded \cup lost \cup {Received.trial}
    PROVE  IInv'
<1>1. TypeOK'
  BY Replaced DEF TypeOK, Messages
<1>2. EveryTrialOnce'
  BY Replaced DEF EveryTrialOnce, OneStage
<1>3. CountsOutstanding'
  BY Replaced DEF CountsOutstanding
<1>4. BeforeLoop'
  BY DEF BeforeLoop
<1> QED
  BY <1>1, <1>2, <1>3, <1>4 DEF IInv

-----------------------------------------------------------------------------
LEMMA InitIInv == Init => IInv
<1> SUFFICES ASSUME Init PROVE IInv
  OBVIOUS
<1>1. TypeOK
  BY EmptySeq, TrialsAssumption DEF Init, TypeOK
<1>2. Recorded = {} /\ InChannel = {} /\ Outstanding = {}
  BY DEF Init, Recorded, InChannel, Outstanding
<1>3. EveryTrialOnce
  <2>1. 0 .. next - 1 = {}
    BY DEF Init
  <2> QED
    BY <1>2, <2>1 DEF Init, EveryTrialOnce, OneStage
<1>4. CountsOutstanding /\ BeforeLoop
  BY DEF Init, CountsOutstanding, BeforeLoop
<1> QED
  BY <1>1, <1>3, <1>4 DEF IInv

LEMMA InitialDesignKeeps ==
    ASSUME IInv, InitialDesign
    PROVE  IInv'
<1>1. PICK n \in 0 .. InitialN : \E ok \in [1 .. n -> 0 .. InitialN - 1] :
          /\ \A i, j \in 1 .. n : i < j => ok[i] < ok[j]
          /\ trials' = ok
          /\ lost' = (0 .. InitialN - 1) \ { ok[i] : i \in 1 .. n }
  BY DEF InitialDesign
<1>2. /\ trials' \in [1 .. n -> 0 .. InitialN - 1]
      /\ \A i, j \in 1 .. n : i < j => trials'[i] < trials'[j]
      /\ lost' = (0 .. InitialN - 1) \ { trials'[i] : i \in 1 .. n }
  BY <1>1
<1>3. /\ phase = "initial" /\ phase' = "launch" /\ next' = InitialN
      /\ pending' = pending /\ count' = count /\ failures' = failures
      /\ queued' = queued /\ running' = running /\ channel' = channel
      /\ checkpoint' = checkpoint \/ checkpoint' = trials'
  BY DEF InitialDesign, WriteCheckpoint, pool
<1>4. /\ queued = {} /\ running = {} /\ channel = <<>> /\ pending = {} /\ count = 0
      /\ TypeOK
  BY <1>3 DEF IInv, BeforeLoop
<1>5. /\ InitialN \in Nat /\ InitialN <= Budget /\ n \in Nat
      /\ 0 .. InitialN - 1 \subseteq TrialIds
  BY InitialBound, TrialsAssumption DEF TrialIds
<1>6. trials' \in Seq(TrialIds) /\ DOMAIN trials' = 1 .. n
  <2>1. trials' \in [1 .. n -> TrialIds]
    BY <1>2, <1>5
  <2> QED
    BY <2>1, <1>5, SeqDef
<1>7. Recorded' = { trials'[i] : i \in 1 .. n }
  BY <1>6 DEF Recorded
<1>8. Recorded' \subseteq 0 .. InitialN - 1
  BY <1>2, <1>7
<1>9. InChannel' = {} /\ Outstanding' = {}
  BY <1>3, <1>4 DEF InChannel, Outstanding
<1>10. TypeOK'
  BY <1>2, <1>3, <1>4, <1>5, <1>6 DEF TypeOK
<1>11. EveryTrialOnce'
  <2>1. ASSUME NEW i \in 1 .. n, NEW j \in 1 .. n, trials'[i] = trials'[j] PROVE i = j
    <3>1. trials'[i] \in Int /\ trials'[j] \in Int
      BY <1>2, <1>5
    <3> QED
      BY <2>1, <3>1, <1>2, <1>5
  <2>2. Recorded' \cap lost' = {} /\ Recorded' \cup lost' = 0 .. InitialN - 1
    BY <1>2, <1>7, <1>8
  <2>3. OneStage'
    BY <1>3, <1>4, <1>6, <1>9, <2>1, <2>2 DEF OneStage
  <2>4. Outstanding' \cup Recorded' \cup lost' = 0 .. next' - 1
    BY <1>3, <1>9, <2>2
  <2> QED
    BY <2>3, <2>4 DEF EveryTrialOnce
<1>12. CountsOutstanding' /\ BeforeLoop'
  BY <1>3, <1>4 DEF CountsOutstanding, BeforeLoop
<1> QED
  BY <1>10, <1>11, <1>12 DEF IInv

LEMMA LaunchKeeps ==
    ASSUME IInv, Launch
    PROVE  IInv'
<1>1. /\ TypeOK /\ next = InitialN
      /\ queued = {} /\ running = {} /\ channel = <<>> /\ pending = {} /\ count = 0
  BY DEF IInv, BeforeLoop, Launch
<1>2. LaunchSize \in Nat /\ next + LaunchSize <= Budget
  BY <1>1, LaunchBound
<1>3. /\ queued' = queued \cup Batch(LaunchSize)
      /\ pending' = pending \cup Batch(LaunchSize)
      /\ next' = next + LaunchSize /\ count' = count + LaunchSize
      /\ phase' = "collect" /\ trials' = trials /\ failures' = failures
      /\ running' = running /\ channel' = channel /\ checkpoint' = checkpoint
      /\ lost' = lost
  BY DEF Launch, Dispatch, Batch
<1>4. /\ Batch(LaunchSize) \subseteq TrialIds
      /\ IsFiniteSet(Batch(LaunchSize)) /\ Cardinality(Batch(LaunchSize)) = LaunchSize
      /\ Batch(LaunchSize) \cap (0 .. next - 1) = {}
      /\ (0 .. next - 1) \cup Batch(LaunchSize) = 0 .. next + LaunchSize - 1
      /\ next + LaunchSize \in 0 .. Budget
  BY <1>1, <1>2, BatchFacts
<1>5. InChannel = {} /\ Outstanding = {} /\ InChannel' = {} /\ Recorded' = Recorded
  BY <1>1, <1>3 DEF InChannel, Outstanding, Recorded
<1>6. Outstanding' = Batch(LaunchSize)
  BY <1>1, <1>3, <1>5 DEF Outstanding
<1>7. /\ Recorded \cap lost = {} /\ Recorded \cup lost = 0 .. next - 1
      /\ \A i, j \in DOMAIN trials : trials[i] = trials[j] => i = j
  BY <1>5 DEF IInv, EveryTrialOnce, OneStage
<1>8. TypeOK'
  <2>1. count' = LaunchSize
    BY <1>1, <1>2, <1>3
  <2> QED
    BY <1>1, <1>2, <1>3, <1>4, <2>1 DEF TypeOK
<1>9. OneStage'
  BY <1>1, <1>3, <1>4, <1>5, <1>6, <1>7 DEF OneStage
<1>10. Outstanding' \cup Recorded' \cup lost' = 0 .. next' - 1
  <2>1. 0 .. next' - 1 = 0 .. next + LaunchSize - 1
    BY <1>1, <1>2, <1>3 DEF TypeOK
  <2>2. Outstanding' \cup Recorded' \cup lost' = (0 .. next - 1) \cup Batch(LaunchSize)
    BY <1>3, <1>5, <1>6, <1>7
  <2> QED
    BY <1>4, <2>1, <2>2, Zenon
<1>11. CountsOutstanding'
  BY <1>1, <1>2, <1>3, <1>4, <1>6 DEF CountsOutstanding
<1>12. BeforeLoop'
  BY <1>3 DEF BeforeLoop
<1> QED
  BY <1>8, <1>9, <1>10, <1>11, <1>12 DEF IInv, EveryTrialOnce

-----------------------------------------------------------------------------
(* The pool moves a trial from one stage to the next.                      *)

LEMMA BeginKeeps ==
    ASSUME IInv, NEW t, Begin(t)
    PROVE  IInv'
<1>1. /\ t \in queued /\ queued' = queued \ {t} /\ running' = running \cup {t}
      /\ channel' = channel /\ phase' = phase /\ trials' = trials /\ next' = next
      /\ pending' = pending /\ count' = count /\ failures' = failures
      /\ checkpoint' = checkpoint /\ lost' = lost
  BY DEF Begin, main
<1>2. InChannel' = InChannel /\ Recorded' = Recorded /\ Outstanding' = Outstanding
  BY <1>1 DEF InChannel, Recorded, Outstanding
<1>3. TypeOK'
  BY <1>1 DEF IInv, TypeOK
<1>4. EveryTrialOnce'
  BY <1>1, <1>2 DEF IInv, EveryTrialOnce, OneStage
<1>5. CountsOutstanding'
  BY <1>1, <1>2 DEF IInv, CountsOutstanding
<1>6. BeforeLoop'
  BY <1>1 DEF IInv, BeforeLoop
<1> QED
  BY <1>3, <1>4, <1>5, <1>6 DEF IInv

LEMMA ReportKeeps ==
    ASSUME IInv, NEW t, NEW ok \in BOOLEAN, Report(t, ok)
    PROVE  IInv'
<1>1. /\ t \in running /\ running' = running \ {t} /\ queued' = queued
      /\ channel' = Append(channel, [trial |-> t, ok |-> ok])
      /\ phase' = phase /\ trials' = trials /\ next' = next
      /\ pending' = pending /\ count' = count /\ failures' = failures
      /\ checkpoint' = checkpoint /\ lost' = lost
  BY DEF Report, main
<1>2. /\ TypeOK /\ NoDuplicates /\ t \in TrialIds /\ t \notin InChannel
      /\ queued \cap running = {} /\ (queued \cup running) \cap InChannel = {}
  BY <1>1 DEF IInv, EveryTrialOnce, OneStage, NoDuplicates, TypeOK
<1>3. /\ channel' \in Seq(Messages)
      /\ InChannel' = InChannel \cup {t}
      /\ \A i, j \in DOMAIN channel' : channel'[i].trial = channel'[j].trial => i = j
  BY <1>1, <1>2, SentSet
<1>4. Recorded' = Recorded /\ Outstanding' = Outstanding
  BY <1>1, <1>3 DEF Recorded, Outstanding
<1>5. TypeOK'
  BY <1>1, <1>2, <1>3 DEF TypeOK, Messages
<1>6. OneStage'
  BY <1>1, <1>2, <1>3, <1>4 DEF IInv, EveryTrialOnce, OneStage
<1>7. EveryTrialOnce'
  BY <1>1, <1>4, <1>6 DEF IInv, EveryTrialOnce
<1>8. CountsOutstanding'
  BY <1>1, <1>4 DEF IInv, CountsOutstanding
<1>9. BeforeLoop'
  BY <1>1 DEF IInv, BeforeLoop
<1> QED
  BY <1>5, <1>7, <1>8, <1>9 DEF IInv

-----------------------------------------------------------------------------
(* Whatever the suggestion, a turn of the loop dispatches some number of   *)
(* trials, within what is left of the budget.                              *)
LEMMA AnswerReplaces ==
    ASSUME TypeOK, NEW n \in Nat, next + n <= Budget,
           NEW s \in {"point", "failed", "panicked"},
           s # "point" => n > 0,
           Answer(n, s)
    PROVE  \E k \in Nat : /\ next + k <= Budget
                          /\ Replace(k)
                          /\ phase' \in {"collect", "returned", "failed", "panicked"}
<1>0. next \in Nat /\ Budget \in Nat
  BY TrialsAssumption DEF TypeOK
<1>1. CASE s = "point"
  BY <1>1 DEF Answer, LoopPhase
<1>2. CASE s # "point"
  <2>1. n - 1 \in Nat /\ next + (n - 1) <= Budget
    BY <1>0, <1>2
  <2> QED
    BY <1>2, <2>1 DEF Answer
<1> QED
  BY <1>1, <1>2

LEMMA SuggestionType ==
    ASSUME NEW n PROVE Suggestion(n) \subseteq {"point", "failed", "panicked"}
BY DEF Suggestion

LEMMA ReceiveSuccessKeeps ==
    ASSUME IInv, ReceiveSuccess
    PROVE  IInv'
<1>1. /\ phase = "collect" /\ channel # <<>> /\ failures' = 0 /\ lost' = lost
      /\ trials' = Append(trials, Received.trial)
      /\ WriteCheckpoint(Received.trial)
  BY DEF ReceiveSuccess, Record
<1>2. TypeOK /\ NoDuplicates
  BY DEF IInv, EveryTrialOnce, OneStage, NoDuplicates
<1>3. PICK k \in Nat : /\ next + k <= Budget
                       /\ Replace(k)
                       /\ phase' \in {"collect", "returned", "failed", "panicked"}
  <2>1. PICK s \in IF AfterSuccess = 1 THEN Suggestion(Len(trials) + 1) ELSE {"point"} :
           Answer(AfterSuccess, s)
    BY DEF ReceiveSuccess
  <2>2. /\ s \in {"point", "failed", "panicked"}
        /\ s # "point" => AfterSuccess > 0
    BY <2>1, SuggestionType
  <2>3. AfterSuccess \in Nat /\ next + AfterSuccess <= Budget
    BY <1>2, AfterBound
  <2> QED
    BY <1>2, <2>1, <2>2, <2>3, AnswerReplaces
<1>4. /\ Received.trial \in TrialIds
      /\ Received.trial \notin Recorded \cup lost
  BY <1>1, <1>3, Replaced
<1>5. /\ trials' \in Seq(TrialIds)
      /\ Recorded' = Recorded \cup {Received.trial}
      /\ \A i, j \in DOMAIN trials' : trials'[i] = trials'[j] => i = j
  BY <1>1, <1>2, <1>4, RecordedSet
<1>6. checkpoint' \in Seq(TrialIds)
  BY <1>1, <1>2, <1>4, <1>5, CheckpointType DEF TrialIds
<1>7. /\ failures' \in Nat /\ lost' \in SUBSET TrialIds
      /\ Recorded' \cap lost' = {}
      /\ Recorded' \cup lost' = Recorded \cup lost \cup {Received.trial}
  BY <1>1, <1>2, <1>4, <1>5 DEF TypeOK, IInv, EveryTrialOnce, OneStage
<1> QED
  BY <1>1, <1>3, <1>5, <1>6, <1>7, TurnKeeps

(* The trial of a failure is counted as lost, by a turn that gives up or   *)
(* one that goes on.                                                       *)
LEMMA LostKeeps ==
    ASSUME IInv, phase = "collect", channel # <<>>,
           NEW k \in Nat, next + k <= Budget, Replace(k),
           phase' \in {"collect", "returned", "failed", "panicked"},
           failures' = failures + 1, lost' = lost \cup {Received.trial},
           UNCHANGED <<trials, checkpoint>>
    PROVE  IInv'
<1>1. /\ Received.trial \in TrialIds
      /\ Received.trial \notin Recorded \cup lost
  BY Replaced
<1>2. Recorded' = Recorded
  BY DEF Recorded
<1>3. /\ Recorded \cap lost = {}
      /\ \A i, j \in DOMAIN trials : trials[i] = trials[j] => i = j
      /\ trials \in Seq(TrialIds) /\ checkpoint \in Seq(TrialIds)
      /\ failures \in Nat /\ lost \in SUBSET TrialIds
  BY DEF IInv, EveryTrialOnce, OneStage, TypeOK
<1>4. /\ Recorded' \cap lost' = {}
      /\ Recorded' \cup lost' = Recorded \cup lost \cup {Received.trial}
      /\ trials' \in Seq(TrialIds) /\ checkpoint' \in Seq(TrialIds)
      /\ failures' \in Nat /\ lost' \in SUBSET TrialIds
      /\ \A i, j \in DOMAIN trials' : trials'[i] = trials'[j] => i = j
  BY <1>1, <1>2, <1>3
<1> QED
  BY <1>4, TurnKeeps

LEMMA ReceiveFailureKeeps ==
    ASSUME IInv, ReceiveFailure
    PROVE  IInv'
<1>1. TypeOK
  BY DEF IInv
<1>2. PICK k \in Nat : /\ next + k <= Budget
                       /\ Replace(k)
                       /\ phase' \in {"collect", "returned", "failed", "panicked"}
  <2>1. PICK s \in IF AfterFailure = 2 THEN Suggestion(Len(trials)) ELSE {"point"} :
           Answer(AfterFailure, s)
    BY DEF ReceiveFailure
  <2>2. /\ s \in {"point", "failed", "panicked"}
        /\ s # "point" => AfterFailure > 0
    BY <2>1, SuggestionType
  <2>3. AfterFailure \in Nat /\ next + AfterFailure <= Budget
    BY <1>1, AfterBound
  <2> QED
    BY <1>1, <2>1, <2>2, <2>3, AnswerReplaces
<1> QED
  BY <1>2, LostKeeps DEF ReceiveFailure

LEMMA GiveUpKeeps ==
    ASSUME IInv, GiveUp
    PROVE  IInv'
<1>1. next + 0 <= Budget
  BY TrialsAssumption DEF IInv, TypeOK
<1> QED
  BY <1>1, LostKeeps DEF GiveUp

-----------------------------------------------------------------------------
(* The function is left, or nothing happens: only phase may change.        *)
LEMMA LeavesKeep ==
    ASSUME IInv, UNCHANGED <<main, pool>>,
           phase' = phase \/ phase' \in {"failed", "panicked"}
    PROVE  IInv'
<1>1. InChannel' = InChannel /\ Recorded' = Recorded /\ Outstanding' = Outstanding
  BY DEF main, pool, InChannel, Recorded, Outstanding
<1>2. TypeOK'
  BY DEF IInv, TypeOK, main, pool
<1>3. EveryTrialOnce'
  BY <1>1 DEF IInv, EveryTrialOnce, OneStage, main, pool
<1>4. CountsOutstanding' /\ BeforeLoop'
  BY <1>1 DEF IInv, CountsOutstanding, BeforeLoop, main, pool
<1> QED
  BY <1>2, <1>3, <1>4 DEF IInv

LEMMA NextIInv == IInv /\ [Next]_vars => IInv'
<1> SUFFICES ASSUME IInv, [Next]_vars PROVE IInv'
  OBVIOUS
<1>1. CASE InitialDesign
  BY <1>1, InitialDesignKeeps
<1>2. CASE InitialPanics
  BY <1>2, LeavesKeep DEF InitialPanics
<1>3. CASE Launch
  BY <1>3, LaunchKeeps
<1>4. CASE LaunchFails
  BY <1>4, LeavesKeep DEF LaunchFails
<1>5. CASE ReceiveSuccess
  BY <1>5, ReceiveSuccessKeeps
<1>6. CASE ReceiveFailure
  BY <1>6, ReceiveFailureKeeps
<1>7. CASE GiveUp
  BY <1>7, GiveUpKeeps
<1>8. CASE Evaluate
  BY <1>8, BeginKeeps, ReportKeeps DEF Evaluate
<1>9. CASE UNCHANGED vars
  BY <1>9, LeavesKeep DEF vars
<1> QED
  BY <1>1, <1>2, <1>3, <1>4, <1>5, <1>6, <1>7, <1>8, <1>9 DEF Next, Main, Stop

(* Every variable of the optimizer keeps to its type, in every order in    *)
(* which the pool answers.                                                 *)
THEOREM OptimizerTypeCorrect == Spec => []TypeOK
<1>1. IInv => TypeOK
  BY DEF IInv
<1> QED
  BY InitIInv, NextIInv, <1>1, PTL DEF Spec

(* optimize_async evaluates every trial once and records its result once,  *)
(* for any budget, threads, pool and order of answers.                     *)
THEOREM EveryTrialOnceCorrect == Spec => []EveryTrialOnce
<1>1. IInv => EveryTrialOnce
  BY DEF IInv
<1> QED
  BY InitIInv, NextIInv, <1>1, PTL DEF Spec

(* pending_count and pending_indices are what is really outstanding        *)
(* whenever the loop waits for a message.                                  *)
THEOREM CountsOutstandingCorrect == Spec => []CountsOutstanding
<1>1. IInv => CountsOutstanding
  BY DEF IInv
<1> QED
  BY InitIInv, NextIInv, <1>1, PTL DEF Spec

-----------------------------------------------------------------------------
(* How the loop ends, and what the checkpoint holds.                       *)

Ending == BudgetUsed /\ AnswerComing

(* The checkpoint is the first of the results.                             *)
CheckpointPrefix ==
    /\ Len(checkpoint) <= Len(trials)
    /\ SubSeq(trials, 1, Len(checkpoint)) = checkpoint

LEMMA LaunchDispatches == InitialPoints < Budget => LaunchSize > 0
<1> SUFFICES ASSUME InitialPoints < Budget PROVE LaunchSize > 0
  OBVIOUS
<1>1. InitialN = InitialPoints /\ Budget - InitialN \in Nat \ {0}
  BY TrialsAssumption DEF InitialN, Least
<1>2. Workers \in Nat \ {0}
  BY <1>1, ThreadsAssumption DEF Workers, Least
<1> QED
  BY <1>2, ThreadsAssumption DEF LaunchSize, Least

(* A turn that ends with a count leaves the loop when nothing is           *)
(* outstanding: it has dispatched nothing, for the budget is handed out.   *)
LEMMA TurnEnds ==
    ASSUME IInv, phase = "collect", channel # <<>>,
           NEW n \in Nat, next + n <= Budget, n = 0 => next = Budget,
           Replace(n), phase' = LoopPhase(count')
    PROVE  Ending'
<1>1. /\ next' = next + n /\ next' \in 0 .. Budget
      /\ count' \in Nat /\ count' = Cardinality(Outstanding')
      /\ Outstanding' \subseteq TrialIds
  BY Replaced DEF Outstanding
<1>2. IsFiniteSet(Outstanding')
  <2>1. IsFiniteSet(TrialIds)
    BY FS_Interval, TrialsAssumption DEF TrialIds
  <2> QED
    BY <1>1, <2>1, FS_Subset
<1>3. count' = 0 <=> Outstanding' = {}
  BY <1>1, <1>2, FS_EmptySet
<1>4. n > 0 => Outstanding' # {}
  <2> SUFFICES ASSUME n > 0 PROVE next \in Outstanding'
    OBVIOUS
  <2>1. next \in Nat
    BY TrialsAssumption DEF IInv, TypeOK
  <2> QED
    BY <2>1 DEF Replace, Outstanding
<1>5. BudgetUsed'
  <2>1. n = 0 => next' = Budget
    BY <1>1 DEF IInv, TypeOK
  <2> QED
    BY <1>3, <1>4, <2>1 DEF BudgetUsed, LoopPhase
<1>6. AnswerComing'
  BY <1>3 DEF AnswerComing, LoopPhase
<1> QED
  BY <1>5, <1>6 DEF Ending

LEMMA AnswerEnds ==
    ASSUME IInv, phase = "collect", channel # <<>>,
           NEW n \in Nat, next + n <= Budget, n = 0 => next = Budget,
           NEW s \in {"point", "failed", "panicked"}, Answer(n, s)
    PROVE  Ending'
<1>1. CASE s = "point"
  BY <1>1, TurnEnds DEF Answer
<1>2. CASE s # "point"
  BY <1>2 DEF Answer, Ending, BudgetUsed, AnswerComing
<1> QED
  BY <1>1, <1>2

LEMMA InitEnding == Init => Ending
BY DEF Init, Ending, BudgetUsed, AnswerComing

LEMMA NextEnding == IInv /\ Ending /\ [Next]_vars => Ending'
<1> SUFFICES ASSUME IInv, Ending, [Next]_vars PROVE Ending'
  OBVIOUS
<1>0. TypeOK /\ next \in Nat /\ next <= Budget /\ Budget \in Nat
  BY TrialsAssumption DEF IInv, TypeOK
<1>1. CASE InitialDesign \/ InitialPanics \/ LaunchFails
  BY <1>1 DEF InitialDesign, InitialPanics, LaunchFails, Ending, BudgetUsed, AnswerComing
<1>2. CASE Launch
  <2>1. LaunchSize \in Nat
    BY LaunchBound
  <2>2. InitialPoints < Budget => next \in Outstanding'
    BY <1>0, <1>2, <2>1, LaunchDispatches DEF Launch, Dispatch, Outstanding
  <2> QED
    BY <1>2, <2>2 DEF Launch, Ending, BudgetUsed, AnswerComing
<1>3. CASE ReceiveSuccess
  <2>1. PICK s \in IF AfterSuccess = 1 THEN Suggestion(Len(trials) + 1) ELSE {"point"} :
           Answer(AfterSuccess, s)
    BY <1>3 DEF ReceiveSuccess
  <2>2. s \in {"point", "failed", "panicked"}
    BY <2>1, SuggestionType
  <2>3. AfterSuccess \in Nat /\ next + AfterSuccess <= Budget
    BY <1>0, AfterBound
  <2>4. AfterSuccess = 0 => next = Budget
    BY <1>0 DEF AfterSuccess
  <2> QED
    BY <1>3, <2>1, <2>2, <2>3, <2>4, AnswerEnds DEF ReceiveSuccess
<1>4. CASE ReceiveFailure
  <2>1. PICK s \in IF AfterFailure = 2 THEN Suggestion(Len(trials)) ELSE {"point"} :
           Answer(AfterFailure, s)
    BY <1>4 DEF ReceiveFailure
  <2>2. s \in {"point", "failed", "panicked"}
    BY <2>1, SuggestionType
  <2>3. AfterFailure \in Nat /\ next + AfterFailure <= Budget
    BY <1>0, AfterBound
  <2>4. AfterFailure = 0 => next = Budget
    BY <1>0 DEF AfterFailure, Least
  <2> QED
    BY <1>4, <2>1, <2>2, <2>3, <2>4, AnswerEnds DEF ReceiveFailure
<1>5. CASE GiveUp
  <2>1. failures' \in Nat /\ ~(failures' < MaxFailures)
    BY <1>5, LimitsAssumption DEF GiveUp, IInv, TypeOK
  <2> QED
    BY <1>5, <2>1 DEF GiveUp, Ending, BudgetUsed, AnswerComing
<1>6. CASE Evaluate \/ UNCHANGED vars
  <2>1. /\ phase' = phase /\ failures' = failures /\ next' = next
        /\ Outstanding' = Outstanding
    <3>1. ASSUME NEW t, Begin(t)
          PROVE  /\ phase' = phase /\ failures' = failures /\ next' = next
                 /\ Outstanding' = Outstanding
      BY <3>1 DEF Begin, main, Outstanding, InChannel
    <3>2. ASSUME NEW t, NEW ok \in BOOLEAN, Report(t, ok)
          PROVE  /\ phase' = phase /\ failures' = failures /\ next' = next
                 /\ Outstanding' = Outstanding
      <4>1. /\ NoDuplicates /\ t \in TrialIds /\ t \notin InChannel
        BY <3>2 DEF Report, IInv, EveryTrialOnce, OneStage, NoDuplicates, TypeOK
      <4>2. InChannel' = InChannel \cup {t}
        BY <1>0, <3>2, <4>1, SentSet DEF Report
      <4> QED
        BY <3>2, <4>2 DEF Report, main, Outstanding
    <3>3. CASE UNCHANGED vars
      BY <3>3 DEF vars, main, pool, Outstanding, InChannel
    <3> QED
      BY <1>6, <3>1, <3>2, <3>3 DEF Evaluate
  <2> QED
    BY <2>1 DEF Ending, BudgetUsed, AnswerComing
<1> QED
  BY <1>1, <1>2, <1>3, <1>4, <1>5, <1>6 DEF Next, Main, Stop

(* When optimize_async returns without giving up, the whole budget has     *)
(* been handed out and every trial of it accounted for.                    *)
THEOREM BudgetUsedCorrect == Spec => []BudgetUsed
<1>1. Ending => BudgetUsed
  BY DEF Ending
<1> QED
  BY InitIInv, NextIInv, InitEnding, NextEnding, <1>1, PTL DEF Spec

(* The loop waits in rx.recv() only while an answer is on its way.         *)
THEOREM AnswerComingCorrect == Spec => []AnswerComing
<1>1. Ending => AnswerComing
  BY DEF Ending
<1> QED
  BY InitIInv, NextIInv, InitEnding, NextEnding, <1>1, PTL DEF Spec

-----------------------------------------------------------------------------
(* One more result leaves a prefix of the results a prefix.                *)
LEMMA PrefixAppend ==
    ASSUME NEW s \in Seq(TrialIds), NEW p \in Seq(TrialIds), NEW t \in TrialIds,
           Len(p) <= Len(s), SubSeq(s, 1, Len(p)) = p
    PROVE  /\ Len(p) <= Len(Append(s, t))
           /\ SubSeq(Append(s, t), 1, Len(p)) = p
<1>1. /\ Len(s) \in Nat /\ Len(p) \in Nat
      /\ Append(s, t) \in Seq(TrialIds) /\ Len(Append(s, t)) = Len(s) + 1
      /\ \A i \in 1 .. Len(s) : Append(s, t)[i] = s[i]
  BY AppendProperties, LenProperties
<1>2. \A i \in 1 .. Len(p) : Append(s, t)[i] \in TrialIds /\ s[i] \in TrialIds
  BY <1>1, ElementOfSeq
<1>3. /\ SubSeq(Append(s, t), 1, Len(p)) \in Seq(TrialIds)
      /\ Len(SubSeq(Append(s, t), 1, Len(p))) = Len(p)
      /\ \A i \in 1 .. Len(p) : SubSeq(Append(s, t), 1, Len(p))[i] = Append(s, t)[i]
  BY <1>1, <1>2, SubSeqProperties
<1>4. \A i \in 1 .. Len(p) : p[i] = s[i]
  BY <1>1, <1>2, SubSeqProperties
<1>5. \A i \in 1 .. Len(p) : SubSeq(Append(s, t), 1, Len(p))[i] = p[i]
  BY <1>1, <1>3, <1>4
<1>6. SubSeq(Append(s, t), 1, Len(p)) = p
  BY <1>3, <1>5, SeqEqual
<1> QED
  BY <1>1, <1>6

LEMMA InitPrefix == Init => CheckpointPrefix
BY EmptySeq, SubSeqEmpty DEF Init, CheckpointPrefix

(* Each step leaves the checkpoint alone or replaces it by all the         *)
(* results, which are more than it held.                                   *)
LEMMA NextPrefix ==
    ASSUME IInv, CheckpointPrefix, [Next]_vars
    PROVE  CheckpointPrefix' /\ Len(checkpoint') >= Len(checkpoint)
<1>0. /\ IInv' /\ TypeOK /\ trials \in Seq(TrialIds) /\ trials' \in Seq(TrialIds)
      /\ checkpoint \in Seq(TrialIds) /\ Len(trials) \in Nat /\ Len(trials') \in Nat
      /\ Len(checkpoint) \in Nat
  BY NextIInv, LenProperties DEF IInv, TypeOK
<1>1. SubSeq(trials', 1, Len(trials')) = trials'
  BY <1>0, SubSeqFull
<1>2. CASE InitialDesign
  <2>1. checkpoint = <<>> /\ (checkpoint' = checkpoint \/ checkpoint' = trials')
    BY <1>2 DEF InitialDesign, WriteCheckpoint, IInv, BeforeLoop
  <2>2. Len(checkpoint) = 0 /\ SubSeq(trials', 1, 0) = <<>>
    BY <2>1, EmptySeq, SubSeqEmpty
  <2>3. CASE checkpoint' = checkpoint
    BY <1>0, <2>1, <2>2, <2>3 DEF CheckpointPrefix
  <2>4. CASE checkpoint' = trials'
    BY <1>0, <1>1, <2>2, <2>4 DEF CheckpointPrefix
  <2> QED
    BY <2>1, <2>3, <2>4
<1>3. CASE ReceiveSuccess
  <2>1. /\ trials' = Append(trials, Received.trial)
        /\ checkpoint' = checkpoint \/ checkpoint' = trials'
    BY <1>3 DEF ReceiveSuccess, Record, WriteCheckpoint
  <2>2. Received.trial \in TrialIds
    <3>1. NoDuplicates
      BY DEF IInv, EveryTrialOnce, OneStage, NoDuplicates
    <3>2. channel' = Tail(channel) /\ channel # <<>>
      BY <1>3 DEF ReceiveSuccess, Answer, Replace
    <3> QED
      BY <1>0, <3>1, <3>2, ReceivedSet DEF Messages
  <2>3. /\ Len(checkpoint) <= Len(trials')
        /\ SubSeq(trials', 1, Len(checkpoint)) = checkpoint
    BY <1>0, <2>1, <2>2, PrefixAppend DEF CheckpointPrefix
  <2> QED
    BY <1>0, <1>1, <2>1, <2>3 DEF CheckpointPrefix
<1>4. CASE UNCHANGED <<trials, checkpoint>>
  BY <1>0, <1>4 DEF CheckpointPrefix
<1>5. ~InitialDesign /\ ~ReceiveSuccess => UNCHANGED <<trials, checkpoint>>
  BY DEF Next, Main, Stop, InitialPanics, Launch, LaunchFails, ReceiveFailure, GiveUp,
         Evaluate, Begin, Report, vars, main
<1> QED
  BY <1>2, <1>3, <1>4, <1>5

(* Whatever the interval and however often the disk fails, the checkpoint  *)
(* is a prefix of the results and is never replaced by a shorter one.      *)
THEOREM CheckpointGrowsCorrect == Spec => CheckpointGrows
<1>1. IInv /\ CheckpointPrefix /\ [Next]_vars =>
         [ /\ Len(checkpoint) <= Len(trials)
           /\ SubSeq(trials, 1, Len(checkpoint)) = checkpoint
           /\ Len(checkpoint') >= Len(checkpoint) ]_vars
  BY NextPrefix DEF CheckpointPrefix
<1>2. IInv /\ CheckpointPrefix /\ [Next]_vars => CheckpointPrefix'
  BY NextPrefix
<1> QED
  BY InitIInv, NextIInv, InitPrefix, <1>1, <1>2, PTL DEF Spec, CheckpointGrows
=============================================================================
