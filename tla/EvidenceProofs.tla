--------------------------- MODULE EvidenceProofs ---------------------------
(***************************************************************************)
(* Theorems about the evidence the gateway leaves: the receipts on their   *)
(* way to the collector (ResultDelivery), for any number of results, any   *)
(* pace, allowance, window and delay; and the audit log (AuditLog), for    *)
(* any number of writers, events and crashes.                              *)
(***************************************************************************)
EXTENDS AuditLog, ResultDelivery, SequenceTheorems, FiniteSetTheorems,
        WellFoundedInduction, TLAPS

-----------------------------------------------------------------------------
(* Numbers *)

LEMMA Intervals ==
  \A a, b \in Nat : /\ IsFiniteSet(a..b)
                    /\ Cardinality(a..b) = IF a > b THEN 0 ELSE b - a + 1
<1> TAKE a, b \in Nat
<1>1. a \in Int /\ b \in Int
  OBVIOUS
<1> QED
  BY <1>1, FS_Interval

\* A set of naturals has a least element.  (The intervals up to its elements
\* are ordered as they are; the induction theorems of the library take
\* operators, which no prover can instantiate.)
LEMMA Least ==
  ASSUME NEW T \in SUBSET Nat, T # {}
  PROVE  \E m \in T : \A n \in T : m <= n
<1>1. PICK top \in T : TRUE
  OBVIOUS
<1> DEFINE upTo == {0..m : m \in {n \in T : n <= top}}
<1>2. upTo \subseteq FiniteSubsetsOf(Nat) /\ upTo # {}
  <2>1. \A m \in Nat : 0..m \in FiniteSubsetsOf(Nat)
    BY Intervals DEF FiniteSubsetsOf
  <2>2. top <= top
    BY <1>1
  <2> QED
    BY <1>1, <2>1, <2>2
<1>3. PICK least \in upTo : \A n \in upTo : ~ (<<n, least>> \in StrictSubsetOrdering(Nat))
  BY <1>2, FS_StrictSubsetOrderingWellFounded, WFMin
<1>4. PICK m \in T : m <= top /\ least = 0..m
  BY <1>3
<1>5. ASSUME NEW n \in T, n < m PROVE FALSE
  <2>1. 0..n \in upTo
    BY <1>1, <1>4, <1>5
  <2>2. 0..n \subseteq 0..m /\ m \in 0..m /\ m \notin 0..n
    BY <1>5
  <2>3. <<0..n, least>> \in StrictSubsetOrdering(Nat)
    <3>1. 0..n \in SUBSET Nat /\ least \in SUBSET Nat
      BY <1>4
    <3>2. 0..n \subseteq least /\ 0..n # least
      BY <1>4, <2>2
    <3> QED
      BY <3>1, <3>2 DEF StrictSubsetOrdering
  <2> QED
    BY <1>3, <2>1, <2>3
<1> QED
  BY <1>4, <1>5

-----------------------------------------------------------------------------
(* Delivery: types *)

Steps == {"none", "new", "slot", "send", "wait", "sleep", "done"}

\* Times, and those at which an attempt that was turned away wakes up, which
\* hold a power whose type no prover knows.
Moments == Int \cup {t + Sleep(n) : t \in Nat, n \in Nat}

Shims == [step: Steps, at: Moments, attempt: Nat, answer: {"none"} \cup Answers]

Serving == {"none", "check", "admitted", "forward", "notify"} \cup Answers

DeliveryTypes ==
  /\ sent \in Seq(Nat) /\ stamps \in Seq(Nat) /\ posted \in Seq(Nat)
  /\ shim \in [Requests -> Shims]
  /\ \A r \in Requests : shim[r].step \in {"new", "slot", "send", "wait"} => shim[r].at \in Nat
  /\ gateway \in [Requests -> Serving]
  /\ collector \in [Requests -> {"none", "writing", "stored", "refused"}]
  /\ file \in [Requests -> Nat]
  /\ clock \in Nat

\* A step of one thread of the shim.
LEMMA ToTypes ==
  ASSUME DeliveryTypes, NEW r \in Requests, NEW step \in Steps, NEW at \in Moments,
         To(r, step, at), step \in {"new", "slot", "send", "wait"} => at \in Nat
  PROVE  /\ shim' \in [Requests -> Shims]
         /\ \A q \in Requests : shim'[q].step \in {"new", "slot", "send", "wait"} => shim'[q].at \in Nat
         /\ shim'[r].step = step /\ shim'[r].at = at
         /\ shim'[r].attempt = shim[r].attempt /\ shim'[r].answer = shim[r].answer
         /\ \A q \in Requests \ {r} : shim'[q] = shim[q]
<1>1. shim \in [Requests -> Shims] /\ shim[r] \in Shims
  BY DEF DeliveryTypes
<1> DEFINE new == [[shim[r] EXCEPT !.step = step] EXCEPT !.at = at]
<1>2. /\ new \in Shims /\ new.step = step /\ new.at = at
      /\ new.attempt = shim[r].attempt /\ new.answer = shim[r].answer
  BY <1>1 DEF Shims
<1>3. shim' = [shim EXCEPT ![r] = new]
  BY <1>1 DEF To, Shims
<1> HIDE DEF new
<1> QED
  BY <1>1, <1>2, <1>3 DEF DeliveryTypes

\* What is left of the times: all but those at the head that are out of the
\* window.
LEMMA KeptOf ==
  ASSUME DeliveryTypes, NEW now \in Nat
  PROVE  /\ Kept(now) \in Seq(Nat)
         /\ \E gone \in 0..Len(sent) :
              /\ Len(Kept(now)) = Len(sent) - gone
              /\ \A j \in 1..Len(Kept(now)) : Kept(now)[j] = sent[gone + j]
              /\ \A i \in 1..gone : ~(now < sent[i] + Window)
              /\ gone = 0 => Kept(now) = sent
<1> DEFINE live == {i \in 1..Len(sent) : now < sent[i] + Window}
           first == CHOOSE i \in live : \A j \in live : i <= j
<1>0. sent \in Seq(Nat) /\ Len(sent) \in Nat
  BY DEF DeliveryTypes
<1>1. Kept(now) = IF live = {} THEN <<>>
                  ELSE IF first = 0 THEN <<>> ELSE SubSeq(sent, first, Len(sent))
  BY DEF Kept, SelectInSeq, Min
<1>2. CASE live = {}
  <2>1. \A i \in 1..Len(sent) : ~(now < sent[i] + Window)
    BY <1>2
  <2>2. Kept(now) = <<>>
    BY <1>1, <1>2
  <2>3. Len(sent) \in 0..Len(sent) /\ (Len(sent) = 0 => sent = <<>>)
    BY <1>0
  <2> HIDE DEF live
  <2>4. /\ Len(Kept(now)) = Len(sent) - Len(sent)
        /\ \A j \in 1..Len(Kept(now)) : Kept(now)[j] = sent[Len(sent) + j]
        /\ Kept(now) \in Seq(Nat)
    BY <1>0, <2>2
  <2> QED
    BY <2>1, <2>2, <2>3, <2>4
<1>3. CASE live # {}
  <2>1. live \in SUBSET Nat
    BY <1>0
  <2>2. \E i \in live : \A j \in live : i <= j
    BY <1>3, <2>1, Least
  <2>3. first \in live /\ \A j \in live : first <= j
    BY <2>2
  <2>4. first \in 1..Len(sent)
    BY <2>3
  <2>5. \A i \in 1..(first - 1) : ~(now < sent[i] + Window)
    <3> HIDE DEF first
    <3> TAKE i \in 1..(first - 1)
    <3>1. i \in 1..Len(sent) /\ ~(first <= i)
      BY <1>0, <2>4
    <3>2. i \notin live
      BY <2>3, <3>1
    <3> QED
      BY <3>1, <3>2
  <2> HIDE DEF live, first
  <2>6. Kept(now) = SubSeq(sent, first, Len(sent))
    BY <1>1, <1>3, <2>4
  <2>7. /\ Kept(now) \in Seq(Nat)
        /\ Len(Kept(now)) = Len(sent) - (first - 1)
        /\ \A j \in 1..Len(Kept(now)) : Kept(now)[j] = sent[(first - 1) + j]
    <3>1. first \in Int /\ Len(sent) \in Int /\ first <= Len(sent) /\ 1 <= first
      BY <1>0, <2>4
    <3>2. \A i \in first..Len(sent) : sent[i] \in Nat
      BY <1>0, <3>1
    <3>3. /\ Kept(now) \in Seq(Nat)
          /\ Len(Kept(now)) = Len(sent) - first + 1
          /\ \A j \in 1..(Len(sent) - first + 1) : Kept(now)[j] = sent[first + j - 1]
      BY <2>6, <3>1, <3>2, SubSeqProperties
    <3>4. \A j \in 1..Len(Kept(now)) : first + j - 1 = (first - 1) + j
      BY <3>1, <3>3
    <3> QED
      BY <3>1, <3>3, <3>4
  <2>8. first - 1 = 0 => Kept(now) = sent
    BY <1>0, <2>6
  <2>9. first - 1 \in 0..Len(sent)
    BY <1>0, <2>4
  <2> QED
    BY <2>5, <2>7, <2>8, <2>9
<1> QED
  BY <1>2, <1>3

LEMMA InitDelivery == DeliveryInit => DeliveryTypes
  BY DEF DeliveryInit, DeliveryTypes, Shims, Steps, Moments, Serving, Answers

\* A thread that got no slot sleeps until a time.
LEMMA SlotMoment ==
  ASSUME DeliveryTypes, NEW now \in Nat, ~Room(now)
  PROVE  /\ clock + Kept(now)[1] + Window - now \in Int
         /\ clock + Kept(now)[1] + Window - now \in Moments
<1>1. Kept(now) \in Seq(Nat) /\ Len(Kept(now)) \in Nat
  BY KeptOf
<1>2. 1 \in 1..Len(Kept(now))
  BY <1>1, DeliveryAssumption DEF Room
<1>3. Kept(now)[1] \in Nat
  BY <1>1, <1>2
<1>4. clock \in Nat /\ Window \in Nat
  BY DeliveryAssumption DEF DeliveryTypes
<1>5. clock + Kept(now)[1] + Window - now \in Int
  BY <1>3, <1>4
<1> QED
  BY <1>5 DEF Moments

LEMMA ShimTypes ==
  ASSUME DeliveryTypes, NEW r \in Requests, Submit(r) \/ Work(r) \/ Lost(r)
  PROVE  DeliveryTypes'
<1>0. clock \in Nat /\ clock \in Moments /\ \A n \in Nat : n \in Moments
  BY DEF DeliveryTypes, Moments
<1>1. CASE Submit(r)
  <2>1. To(r, "new", clock) /\ UNCHANGED <<pacing, gateway, storing, clock>>
    BY <1>1 DEF Submit
  <2> QED
    BY <1>0, <2>1, ToTypes DEF DeliveryTypes, pacing, storing, Steps
<1>2. CASE ReadClock(r)
  <2>1. To(r, "slot", clock) /\ UNCHANGED <<pacing, gateway, storing, clock>>
    BY <1>2 DEF ReadClock
  <2> QED
    BY <1>0, <2>1, ToTypes DEF DeliveryTypes, pacing, storing, Steps
<1>3. CASE Slot(r)
  <2> DEFINE now == shim[r].at
  <2>1. now \in Nat
    BY <1>3 DEF Slot, DeliveryTypes
  <2>2. Kept(now) \in Seq(Nat)
    BY <2>1, KeptOf
  <2>3. sent' \in Seq(Nat)
    BY <1>3, <2>1, <2>2 DEF Slot, Times
  <2>4. UNCHANGED <<stamps, posted, gateway, storing, clock>>
    BY <1>3 DEF Slot
  <2>5. CASE Room(now)
    <3>1. To(r, "send", now)
      BY <1>3, <2>5 DEF Slot
    <3> QED
      BY <1>0, <2>1, <2>3, <2>4, <3>1, ToTypes DEF DeliveryTypes, storing, Steps
  <2>6. CASE ~Room(now)
    <3> DEFINE at == clock + Kept(now)[1] + Window - now
    <3>1. To(r, "sleep", at)
      BY <1>3, <2>6 DEF Slot
    <3>2. at \in Moments
      BY <2>1, <2>6, SlotMoment
    <3> HIDE DEF at
    <3> QED
      BY <2>3, <2>4, <3>1, <3>2, ToTypes DEF DeliveryTypes, storing, Steps
  <2> QED
    BY <2>5, <2>6
<1>4. CASE Send(r)
  <2>1. To(r, "wait", clock) /\ gateway' = [gateway EXCEPT ![r] = "check"]
    BY <1>4 DEF Send
  <2>2. stamps' \in Seq(Nat) /\ posted' \in Seq(Nat)
    BY <1>4 DEF Send, DeliveryTypes
  <2>3. UNCHANGED <<sent, storing, clock>>
    BY <1>4 DEF Send
  <2> QED
    BY <1>0, <2>1, <2>2, <2>3, ToTypes DEF DeliveryTypes, storing, Steps, Serving
<1>5. CASE Awake(r)
  <2>1. To(r, "new", clock) /\ UNCHANGED <<pacing, gateway, storing, clock>>
    BY <1>5 DEF Awake
  <2> QED
    BY <1>0, <2>1, ToTypes DEF DeliveryTypes, pacing, storing, Steps
<1>6. CASE Answer(r)
  <2> DEFINE n == shim[r].attempt + 1
             asleep == [step |-> "sleep", at |-> clock + Sleep(n), attempt |-> n,
                        answer |-> shim[r].answer]
             done == [[shim[r] EXCEPT !.step = "done"] EXCEPT !.answer = gateway[r]]
  <2>1. shim[r] \in Shims /\ gateway[r] \in Answers
    BY <1>6 DEF Answer, DeliveryTypes
  <2>2. clock + Sleep(n) \in Moments
    BY <1>0, <2>1 DEF Moments, Shims
  <2>3. asleep \in Shims /\ asleep.step = "sleep" /\ done \in Shims /\ done.step = "done"
    <3>1. asleep \in Shims /\ asleep.step = "sleep"
      BY <2>1, <2>2 DEF Shims, Steps
    <3>2. [shim[r] EXCEPT !.step = "done"] \in Shims
      BY <2>1 DEF Shims, Steps
    <3>3. done \in Shims /\ done.step = "done"
      BY <2>1, <3>2 DEF Shims
    <3> QED
      BY <3>1, <3>3
  <2>4. shim' = [shim EXCEPT ![r] = IF Retry(r) THEN asleep ELSE done]
    <3>0. shim \in [Requests -> Shims]
      BY DEF DeliveryTypes
    <3>1. CASE Retry(r)
      BY <1>6, <2>1, <3>0, <3>1 DEF Answer, Shims
    <3>2. CASE ~Retry(r)
      BY <1>6, <2>1, <3>0, <3>2 DEF Answer, Shims
    <3> QED
      BY <3>1, <3>2
  <2>5. UNCHANGED <<pacing, storing, clock>> /\ gateway' = [gateway EXCEPT ![r] = "none"]
    BY <1>6 DEF Answer
  <2> HIDE DEF asleep, done
  <2> QED
    BY <2>3, <2>4, <2>5 DEF DeliveryTypes, pacing, storing, Serving
<1>7. CASE Lost(r)
  <2> DEFINE done == [[shim[r] EXCEPT !.step = "done"] EXCEPT !.answer = "error"]
  <2>1. done \in Shims /\ done.step = "done"
    BY DEF DeliveryTypes, Shims, Steps, Answers
  <2>2. shim' = [shim EXCEPT ![r] = done]
    BY <1>7 DEF Lost, DeliveryTypes, Shims
  <2>3. UNCHANGED <<pacing, gateway, storing, clock>>
    BY <1>7 DEF Lost
  <2> HIDE DEF done
  <2> QED
    BY <2>1, <2>2, <2>3 DEF DeliveryTypes, pacing, storing
<1> QED
  BY <1>1, <1>2, <1>3, <1>4, <1>5, <1>6, <1>7 DEF Work

LEMMA NextDelivery == DeliveryTypes /\ [DeliveryNext]_deliveryVars => DeliveryTypes'
<1> SUFFICES ASSUME DeliveryTypes, [DeliveryNext]_deliveryVars PROVE DeliveryTypes'
  OBVIOUS
<1>1. ASSUME NEW r \in Requests, Serve(r) \/ GiveUp(r) PROVE DeliveryTypes'
  <2>1. UNCHANGED <<pacing, shim, file, clock>>
    BY <1>1 DEF Serve, Admit, Limit, Judge, Reply, GiveUp, storing
  <2>2. gateway' \in [Requests -> Serving]
    BY <1>1 DEF Serve, Admit, Limit, Judge, Reply, GiveUp, Becomes, DeliveryTypes, Serving, Answers
  <2>3. collector' \in [Requests -> {"none", "writing", "stored", "refused"}]
    BY <1>1 DEF Serve, Admit, Limit, Judge, Reply, GiveUp, DeliveryTypes, storing
  <2> QED
    BY <2>1, <2>2, <2>3 DEF DeliveryTypes, pacing
<1>2. ASSUME NEW r \in Requests, Collect(r) PROVE DeliveryTypes'
  <2>1. UNCHANGED <<pacing, shim, gateway, clock>>
    BY <1>2 DEF Collect, Refuse, Store
  <2>2. /\ collector' \in [Requests -> {"none", "writing", "stored", "refused"}]
        /\ file' \in [Requests -> Nat]
    <3>1. CASE Refuse(r)
      BY <3>1 DEF Refuse, DeliveryTypes
    <3>2. CASE Store(r)
      BY <3>2 DEF Store, DeliveryTypes
    <3> QED
      BY <1>2, <3>1, <3>2 DEF Collect
  <2> QED
    BY <2>1, <2>2 DEF DeliveryTypes, pacing
<1>3. CASE Tick
  BY <1>3 DEF Tick, DeliveryTypes, pacing, storing
<1>4. CASE UNCHANGED deliveryVars
  BY <1>4 DEF deliveryVars, DeliveryTypes
<1> QED
  BY <1>1, <1>2, <1>3, <1>4, ShimTypes DEF DeliveryNext

-----------------------------------------------------------------------------
(* Delivery: receipts *)

\* A receipt is in the file if the collector stored it; the collector has none
\* before the gateway forwards one, and the gateway answers "ok" only after it
\* was stored; the shim sends again only what the gateway has done with.
Consistent(r) ==
  /\ file[r] = IF collector[r] = "stored" THEN 1 ELSE 0
  /\ shim[r].step \in {"none", "new", "slot", "send", "sleep"} =>
       gateway[r] = "none" /\ collector[r] = "none"
  /\ gateway[r] \in {"check", "admitted", "limited"} => collector[r] = "none"
  /\ gateway[r] = "ok" => collector[r] = "stored"
  /\ shim[r].answer # "none" => shim[r].step = "done"
  /\ shim[r].answer = "ok" => collector[r] = "stored"
  /\ shim[r].answer = "limited" => gateway[r] = "none" /\ collector[r] = "none"

StoreInv == \A r \in Requests : Consistent(r)

\* A step of one request changes nothing of another.
LEMMA OthersConsistent ==
  ASSUME StoreInv, NEW r \in Requests, Consistent(r)',
         \A q \in Requests \ {r} :
           /\ shim'[q] = shim[q] /\ gateway'[q] = gateway[q]
           /\ collector'[q] = collector[q] /\ file'[q] = file[q]
  PROVE  StoreInv'
<1> SUFFICES ASSUME NEW q \in Requests PROVE Consistent(q)'
  BY DEF StoreInv
<1>1. CASE q = r
  BY <1>1
<1>2. CASE q # r
  BY <1>2 DEF StoreInv, Consistent
<1> QED
  BY <1>1, <1>2

LEMMA ShimStores ==
  ASSUME DeliveryTypes, StoreInv, NEW r \in Requests, Submit(r) \/ Work(r) \/ Lost(r)
  PROVE  StoreInv'
<1>0. Consistent(r) /\ shim[r] \in Shims
  BY DEF StoreInv, DeliveryTypes
<1>1. ASSUME NEW step \in {"new", "slot", "send", "sleep"}, NEW at \in Moments, To(r, step, at),
             shim[r].step \in {"none", "new", "slot", "sleep"},
             step # "sleep" => at \in Nat,
             UNCHANGED <<gateway, collector, file>>
      PROVE  StoreInv'
  <2>1. step \in Steps
    BY DEF Steps
  <2>2. /\ shim'[r].step = step /\ shim'[r].answer = shim[r].answer
        /\ \A q \in Requests \ {r} : shim'[q] = shim[q]
    BY <1>1, <2>1, ToTypes
  <2>3. Consistent(r)'
    BY <1>0, <1>1, <2>2 DEF Consistent
  <2> QED
    BY <1>1, <2>2, <2>3, OthersConsistent
<1>2. clock \in Nat /\ clock \in Moments
  BY DEF DeliveryTypes, Moments
<1>3. CASE Submit(r)
  BY <1>1, <1>2, <1>3 DEF Submit, storing
<1>4. CASE ReadClock(r)
  BY <1>1, <1>2, <1>4 DEF ReadClock, storing
<1>5. CASE Slot(r)
  <2> DEFINE now == shim[r].at
             at == clock + Kept(now)[1] + Window - now
  <2>1. now \in Nat /\ now \in Moments
    BY <1>5 DEF Slot, DeliveryTypes, Moments
  <2>2. UNCHANGED <<gateway, collector, file>> /\ shim[r].step = "slot"
    BY <1>5 DEF Slot, storing
  <2>3. CASE Room(now)
    <3>1. To(r, "send", now)
      BY <1>5, <2>3 DEF Slot
    <3> QED
      BY <1>1, <2>1, <2>2, <3>1
  <2>4. CASE ~Room(now)
    <3>1. To(r, "sleep", at)
      BY <1>5, <2>4 DEF Slot
    <3>2. at \in Moments
      BY <2>1, <2>4, SlotMoment
    <3> HIDE DEF at
    <3> QED
      BY <1>1, <2>2, <3>1, <3>2
  <2> QED
    BY <2>3, <2>4
<1>6. CASE Send(r)
  <2>1. /\ shim'[r].step = "wait" /\ shim'[r].answer = shim[r].answer
        /\ \A q \in Requests \ {r} : shim'[q] = shim[q]
    BY <1>2, <1>6, ToTypes DEF Send, Steps
  <2>2. /\ gateway'[r] = "check" /\ \A q \in Requests \ {r} : gateway'[q] = gateway[q]
        /\ UNCHANGED <<collector, file>> /\ shim[r].step = "send"
    BY <1>6 DEF Send, storing, DeliveryTypes
  <2>3. Consistent(r)'
    BY <1>0, <2>1, <2>2 DEF Consistent
  <2> QED
    BY <2>1, <2>2, <2>3, OthersConsistent
<1>7. CASE Awake(r)
  BY <1>1, <1>2, <1>7 DEF Awake, storing
<1>8. CASE Answer(r)
  <2>1. /\ shim[r].step = "wait" /\ gateway[r] \in Answers
        /\ gateway'[r] = "none" /\ \A q \in Requests \ {r} : gateway'[q] = gateway[q]
        /\ UNCHANGED <<collector, file>>
    BY <1>8 DEF Answer, storing, DeliveryTypes
  <2>2. \A q \in Requests \ {r} : shim'[q] = shim[q]
    BY <1>8 DEF Answer, DeliveryTypes
  <2>3. CASE Retry(r)
    <3>1. shim'[r].step = "sleep" /\ shim'[r].answer = shim[r].answer
      BY <1>0, <1>8, <2>3 DEF Answer, DeliveryTypes, Shims
    <3>2. gateway[r] = "limited"
      BY <2>3 DEF Retry
    <3>3. Consistent(r)'
      BY <1>0, <2>1, <3>1, <3>2 DEF Consistent
    <3> QED
      BY <2>1, <2>2, <3>3, OthersConsistent
  <2>4. CASE ~Retry(r)
    <3>1. shim'[r].step = "done" /\ shim'[r].answer = gateway[r]
      BY <1>0, <1>8, <2>4 DEF Answer, DeliveryTypes, Shims
    <3>2. Consistent(r)'
      BY <1>0, <2>1, <3>1 DEF Consistent, Answers
    <3> QED
      BY <2>1, <2>2, <3>2, OthersConsistent
  <2> QED
    BY <2>3, <2>4
<1>9. CASE Lost(r)
  <2>1. /\ shim[r].step = "wait" /\ UNCHANGED <<gateway, collector, file>>
        /\ \A q \in Requests \ {r} : shim'[q] = shim[q]
    BY <1>9 DEF Lost, storing, DeliveryTypes
  <2>2. shim'[r].step = "done" /\ shim'[r].answer = "error"
    BY <1>0, <1>9 DEF Lost, DeliveryTypes, Shims
  <2>3. Consistent(r)'
    BY <1>0, <2>1, <2>2 DEF Consistent
  <2> QED
    BY <2>1, <2>3, OthersConsistent
<1> QED
  BY <1>3, <1>4, <1>5, <1>6, <1>7, <1>8, <1>9 DEF Work

LEMMA NextStores == DeliveryTypes /\ StoreInv /\ [DeliveryNext]_deliveryVars => StoreInv'
<1> SUFFICES ASSUME DeliveryTypes, StoreInv, [DeliveryNext]_deliveryVars PROVE StoreInv'
  OBVIOUS
<1>1. ASSUME NEW r \in Requests, Serve(r) \/ GiveUp(r) PROVE StoreInv'
  <2>0. Consistent(r)
    BY DEF StoreInv
  <2>1. /\ shim' = shim /\ file' = file
        /\ \A q \in Requests \ {r} : gateway'[q] = gateway[q] /\ collector'[q] = collector[q]
    BY <1>1 DEF Serve, Admit, Limit, Judge, Reply, GiveUp, Becomes, storing, DeliveryTypes
  <2>2. CASE Admit(r) \/ Limit(r)
    <3>1. /\ gateway[r] = "check" /\ gateway'[r] \in {"admitted", "limited"}
          /\ collector' = collector
      BY <2>2 DEF Admit, Limit, Becomes, storing, DeliveryTypes
    <3>2. Consistent(r)'
      BY <2>0, <2>1, <3>1 DEF Consistent
    <3> QED
      BY <2>1, <3>2, OthersConsistent
  <2>3. CASE Judge(r)
    <3>1. /\ gateway[r] = "admitted"
          /\ gateway'[r] \in {"forward", "notify", "blocked", "error"}
          /\ collector'[r] \in {"writing", collector[r]}
      BY <2>3 DEF Judge, Becomes, DeliveryTypes
    <3>2. Consistent(r)'
      BY <2>0, <2>1, <3>1 DEF Consistent
    <3> QED
      BY <2>1, <3>2, OthersConsistent
  <2>4. CASE Reply(r) \/ GiveUp(r)
    <3>1. /\ gateway[r] \in {"forward", "notify"} /\ collector' = collector
          /\ gateway'[r] \in {"ok", "blocked", "error"}
          /\ gateway'[r] = "ok" => collector[r] = "stored"
      BY <2>4 DEF Reply, GiveUp, Becomes, storing, DeliveryTypes
    <3>2. Consistent(r)'
      BY <2>0, <2>1, <3>1 DEF Consistent
    <3> QED
      BY <2>1, <3>2, OthersConsistent
  <2> QED
    BY <1>1, <2>2, <2>3, <2>4 DEF Serve
<1>2. ASSUME NEW r \in Requests, Collect(r) PROVE StoreInv'
  <2>0. Consistent(r)
    BY DEF StoreInv
  <2>1. /\ UNCHANGED <<shim, gateway>> /\ collector[r] = "writing"
        /\ \A q \in Requests \ {r} : collector'[q] = collector[q] /\ file'[q] = file[q]
    BY <1>2 DEF Collect, Refuse, Store, DeliveryTypes
  <2>2. \/ collector'[r] = "refused" /\ file'[r] = file[r]
        \/ collector'[r] = "stored" /\ file'[r] = file[r] + 1
    BY <1>2 DEF Collect, Refuse, Store, DeliveryTypes
  <2>3. file[r] = 0 /\ file'[r] = IF collector'[r] = "stored" THEN 1 ELSE 0
    BY <2>0, <2>1, <2>2 DEF Consistent
  <2>4. Consistent(r)'
    BY <2>0, <2>1, <2>2, <2>3 DEF Consistent
  <2> QED
    BY <2>1, <2>4, OthersConsistent
<1>3. CASE Tick
  BY <1>3 DEF Tick, StoreInv, Consistent, storing
<1>4. CASE UNCHANGED deliveryVars
  BY <1>4 DEF deliveryVars, StoreInv, Consistent
<1> QED
  BY <1>1, <1>2, <1>3, <1>4, ShimStores DEF DeliveryNext

LEMMA InitStores == DeliveryInit => StoreInv
  BY DEF DeliveryInit, StoreInv, Consistent

\* For any number of results, attempts and delays: sending again never stores a
\* result twice, what was answered as accepted is in the collector's file, and
\* what was turned away is not, although each of the three gives up at will.
THEOREM AlwaysStoredOnce == DeliverySpec => []StoredOnce
<1>1. DeliveryInit => StoreInv
  BY InitStores
<1>2. StoreInv => StoredOnce
  BY DEF StoreInv, Consistent, StoredOnce
<1> QED
  BY <1>1, <1>2, InitDelivery, NextDelivery, NextStores, PTL DEF DeliverySpec

-----------------------------------------------------------------------------
(* Delivery: the pace *)

\* The submissions of a stretch of time: those sent, and those with a slot to
\* be sent.
Stamped(from, upto) == {j \in DOMAIN stamps : from <= stamps[j] /\ stamps[j] < upto}

Slotted == {r \in Requests : shim[r].step = "send"}

Due(from, upto) == {r \in Slotted : from <= shim[r].at /\ shim[r].at < upto}

Slots(from, upto) == Cardinality(Stamped(from, upto)) + Cardinality(Due(from, upto))

\* The slots still in the list.
Listed(from) == {i \in DOMAIN sent : from <= sent[i]}

\* No window holds more than the pace, and of a window that reaches beyond the
\* newest slot every submission is in the list.
PaceInv ==
  /\ Len(sent) <= Pace
  /\ IsFiniteSet(Slotted)
  /\ ~misordered => \A from \in Nat :
       /\ Slots(from, from + Window) <= Pace
       /\ (\A i \in DOMAIN sent : sent[i] < from + Window) =>
            Slots(from, from + Window) <= Cardinality(Listed(from))

LEMMA Finite ==
  ASSUME DeliveryTypes, PaceInv, NEW from \in Int, NEW upto \in Int
  PROVE  /\ IsFiniteSet(Stamped(from, upto)) /\ Cardinality(Stamped(from, upto)) \in Nat
         /\ IsFiniteSet(Due(from, upto)) /\ Cardinality(Due(from, upto)) \in Nat
         /\ IsFiniteSet(Listed(from)) /\ Cardinality(Listed(from)) \in Nat
         /\ Slots(from, upto) \in Nat
<1>1. Len(stamps) \in Nat /\ DOMAIN stamps = 1..Len(stamps)
      /\ Len(sent) \in Nat /\ DOMAIN sent = 1..Len(sent)
  BY DEF DeliveryTypes
<1>2. IsFiniteSet(DOMAIN stamps) /\ IsFiniteSet(DOMAIN sent)
  BY <1>1, Intervals, Zenon
<1>3. /\ Stamped(from, upto) \in SUBSET DOMAIN stamps
      /\ Listed(from) \in SUBSET DOMAIN sent
      /\ Due(from, upto) \in SUBSET Slotted
  BY DEF Stamped, Listed, Due
<1>4. /\ IsFiniteSet(Stamped(from, upto)) /\ Cardinality(Stamped(from, upto)) \in Nat
      /\ IsFiniteSet(Due(from, upto)) /\ Cardinality(Due(from, upto)) \in Nat
      /\ IsFiniteSet(Listed(from)) /\ Cardinality(Listed(from)) \in Nat
  BY <1>2, <1>3, FS_Subset, FS_CardinalityType DEF PaceInv
<1> QED
  BY <1>4 DEF Slots

\* A step of the shim that gives no slot and uses none.
LEMMA SameSlots ==
  ASSUME NEW r \in Requests, shim[r].step # "send", shim'[r].step # "send",
         \A q \in Requests \ {r} : shim'[q] = shim[q], stamps' = stamps
  PROVE  /\ Slotted' = Slotted
         /\ \A from, upto \in Int : Slots(from, upto)' = Slots(from, upto)
<1>1. Slotted' = Slotted
  BY DEF Slotted
<1>2. \A q \in Slotted : shim'[q] = shim[q]
  BY DEF Slotted
<1>3. ASSUME NEW from \in Int, NEW upto \in Int PROVE Slots(from, upto)' = Slots(from, upto)
  <2>1. Due(from, upto)' = Due(from, upto)
    BY <1>1, <1>2 DEF Due
  <2>2. Stamped(from, upto)' = Stamped(from, upto)
    BY DEF Stamped
  <2> QED
    BY <2>1, <2>2 DEF Slots
<1> QED
  BY <1>1, <1>3

LEMMA SamePace ==
  ASSUME PaceInv, IsFiniteSet(Slotted'), UNCHANGED <<sent, misordered>>,
         \A from, upto \in Int : Slots(from, upto)' = Slots(from, upto)
  PROVE  PaceInv'
<1>1. \A from \in Nat : Slots(from, from + Window)' = Slots(from, from + Window)
  <2> TAKE from \in Nat
  <2>1. from \in Int /\ from + Window \in Int
    BY DeliveryAssumption
  <2> QED
    BY <2>1
<1>2. \A from \in Nat : Listed(from)' = Listed(from)
  BY DEF Listed
<1> QED
  BY <1>1, <1>2 DEF PaceInv

\* What is sent was due.
LEMMA SendSlots ==
  ASSUME DeliveryTypes, PaceInv, NEW r \in Requests, Send(r)
  PROVE  /\ IsFiniteSet(Slotted')
         /\ \A from, upto \in Int : Slots(from, upto)' = Slots(from, upto)
         /\ UNCHANGED <<sent, misordered>>
<1> DEFINE at == shim[r].at
<1>1. /\ r \in Slotted /\ at \in Nat /\ stamps' = Append(stamps, at)
      /\ UNCHANGED <<sent, misordered>>
  BY DEF Send, Slotted, DeliveryTypes
<1>2. shim'[r].step = "wait" /\ \A q \in Requests \ {r} : shim'[q] = shim[q]
  <2>1. clock \in Nat /\ clock \in Moments
    BY DEF DeliveryTypes, Moments
  <2> QED
    BY <2>1, ToTypes DEF Send, Steps
<1>3. Slotted' = Slotted \ {r} /\ IsFiniteSet(Slotted')
  <2>1. Slotted' = Slotted \ {r}
    BY <1>2 DEF Slotted
  <2> QED
    BY <2>1, FS_RemoveElement DEF PaceInv
<1>4. /\ stamps \in Seq(Nat) /\ Len(stamps) \in Nat
      /\ DOMAIN stamps = 1..Len(stamps) /\ DOMAIN stamps' = 1..(Len(stamps) + 1)
      /\ stamps'[Len(stamps) + 1] = at /\ \A i \in 1..Len(stamps) : stamps'[i] = stamps[i]
  BY <1>1 DEF DeliveryTypes
<1> HIDE DEF at
<1>5. ASSUME NEW from \in Int, NEW upto \in Int PROVE Slots(from, upto)' = Slots(from, upto)
  <2> DEFINE n == Len(stamps) + 1
  <2>1. n \notin DOMAIN stamps /\ DOMAIN stamps' = DOMAIN stamps \cup {n}
    BY <1>4
  <2>2. Due(from, upto)' = Due(from, upto) \ {r}
    BY <1>2, <1>3 DEF Due, Slotted
  <2>3. CASE from <= at /\ at < upto
    <3>1. r \in Due(from, upto)
      BY <1>1, <2>3 DEF Due, at
    <3>2. Stamped(from, upto)' = Stamped(from, upto) \cup {n} /\ n \notin Stamped(from, upto)
      BY <1>4, <2>1, <2>3 DEF Stamped
    <3>3. /\ IsFiniteSet(Stamped(from, upto)) /\ Cardinality(Stamped(from, upto)) \in Nat
          /\ IsFiniteSet(Due(from, upto)) /\ Cardinality(Due(from, upto)) \in Nat
      BY Finite
    <3>4. Cardinality(Stamped(from, upto)') = Cardinality(Stamped(from, upto)) + 1
      BY <3>2, <3>3, FS_AddElement
    <3>5. Cardinality(Due(from, upto)') = Cardinality(Due(from, upto)) - 1
      <4>1. Cardinality(Due(from, upto) \ {r}) = Cardinality(Due(from, upto)) - 1
        BY <3>1, <3>3, FS_RemoveElement
      <4> QED
        BY <2>2, <4>1
    <3> QED
      BY <3>3, <3>4, <3>5 DEF Slots
  <2>4. CASE ~(from <= at /\ at < upto)
    <3>1. r \notin Due(from, upto)
      BY <2>4 DEF Due, at
    <3>2. Stamped(from, upto)' = Stamped(from, upto)
      BY <1>4, <2>1, <2>4 DEF Stamped
    <3>3. Due(from, upto)' = Due(from, upto)
      BY <2>2, <3>1
    <3> QED
      BY <3>2, <3>3 DEF Slots
  <2> QED
    BY <2>3, <2>4
<1> QED
  BY <1>1, <1>3, <1>5

\* A thread that finds no room drops nothing: the list is full.
LEMMA FullKeepsAll ==
  ASSUME DeliveryTypes, PaceInv, NEW now \in Nat, ~Room(now)
  PROVE  Times(now) = sent
<1>1. PICK gone \in 0..Len(sent) : /\ Len(Kept(now)) = Len(sent) - gone
                                   /\ gone = 0 => Kept(now) = sent
  BY KeptOf
<1>2. Len(sent) \in Nat /\ Len(sent) <= Pace /\ Pace \in Nat
  BY DeliveryAssumption DEF DeliveryTypes, PaceInv
<1>3. ~(Len(sent) - gone < Pace)
  BY <1>1 DEF Room
<1>4. gone = 0
  BY <1>2, <1>3
<1> QED
  BY <1>1, <1>4 DEF Times

\* The slots of a window that reaches beyond the time of a new slot are among
\* those that stay in the list, all but the new one.
LEMMA ListedStay ==
  ASSUME DeliveryTypes, PaceInv, NEW now \in Nat, Room(now), NEW from \in Int,
         now < from + Window
  PROVE  LET list == Times(now)
             listed == {i \in DOMAIN list : from <= list[i]}
         IN  /\ Cardinality(Listed(from)) <= Len(Kept(now))
             /\ IsFiniteSet(listed) /\ Cardinality(listed) \in Nat
             /\ Cardinality(Listed(from)) <= Cardinality(listed)
             /\ from <= now => Cardinality(Listed(from)) + 1 <= Cardinality(listed)
<1> DEFINE kept == Kept(now)
           k == Len(kept)
           list == Times(now)
           listed == {i \in DOMAIN list : from <= list[i]}
<1>1. kept \in Seq(Nat) /\ k \in Nat
  BY KeptOf
<1>2. PICK gone \in 0..Len(sent) :
        /\ k = Len(sent) - gone
        /\ \A j \in 1..k : kept[j] = sent[gone + j]
        /\ \A i \in 1..gone : ~(now < sent[i] + Window)
  BY KeptOf
<1>3. /\ Len(sent) \in Nat /\ DOMAIN sent = 1..Len(sent) /\ Window \in Nat
      /\ \A i \in 1..Len(sent) : sent[i] \in Nat
  <2>1. sent \in Seq(Nat)
    BY DEF DeliveryTypes
  <2>2. Window \in Nat
    BY DeliveryAssumption
  <2> QED
    BY <2>1, <2>2
<1>4. /\ DOMAIN list = 1..(k + 1) /\ list[k + 1] = now
      /\ \A j \in 1..k : list[j] = kept[j]
  <2>1. list = Append(kept, now)
    BY DEF Times
  <2> HIDE DEF kept, list
  <2> QED
    BY <1>1, <2>1
<1> HIDE DEF kept, k, list
<1>5. \A i \in Listed(from) : i - gone \in 1..k /\ list[i - gone] = sent[i] /\ i \in Nat
  <2> TAKE i \in Listed(from)
  <2>1. i \in 1..Len(sent) /\ from <= sent[i]
    BY <1>3 DEF Listed
  <2>2. now < sent[i] + Window
    BY <1>3, <2>1
  <2>3. i \notin 1..gone
    BY <1>2, <2>2
  <2>4. i - gone \in 1..k /\ gone + (i - gone) = i
    BY <1>2, <1>3, <2>1, <2>3
  <2> QED
    BY <1>2, <1>4, <2>1, <2>4
<1> DEFINE shifted == {i - gone : i \in Listed(from)}
<1>6. IsFiniteSet(Listed(from)) /\ Cardinality(Listed(from)) \in Nat
  <2>1. \A upto \in Int : IsFiniteSet(Listed(from)) /\ Cardinality(Listed(from)) \in Nat
    BY Finite
  <2> QED
    BY <2>1
<1>7. IsFiniteSet(shifted) /\ Cardinality(shifted) = Cardinality(Listed(from))
  <2> DEFINE f == [i \in Listed(from) |-> i - gone]
  <2>1. f \in Bijection(Listed(from), shifted)
    <3>1. \A i, j \in Listed(from) : i - gone = j - gone => i = j
      BY <1>5
    <3>2. f \in [Listed(from) -> shifted] /\ \A y \in shifted : \E i \in Listed(from) : f[i] = y
      OBVIOUS
    <3>3. \A i, j \in Listed(from) : f[i] = f[j] => i = j
      BY <3>1
    <3> HIDE DEF f, shifted
    <3> QED
      BY <3>2, <3>3, Zenon DEF Bijection, Injection, Surjection, IsInjective
  <2>2. ExistsBijection(Listed(from), shifted)
    BY <2>1, Zenon DEF ExistsBijection
  <2> HIDE DEF f, shifted
  <2> QED
    BY <1>6, <2>2, FS_Bijection
<1>8. shifted \subseteq 1..k /\ shifted \subseteq listed
  <2>1. \A i \in Listed(from) : i - gone \in 1..k /\ i - gone \in 1..(k + 1) /\ from <= list[i - gone]
    <3>1. \A j \in 1..k : j \in 1..(k + 1)
      BY <1>1
    <3>2. \A i \in Listed(from) : from <= sent[i]
      BY DEF Listed
    <3> QED
      BY <1>5, <3>1, <3>2
  <2> QED
    BY <1>4, <2>1
<1>9. IsFiniteSet(1..k) /\ Cardinality(1..k) = k
  BY <1>1, Intervals
<1>10. IsFiniteSet(listed) /\ Cardinality(listed) \in Nat
  <2>1. listed \in SUBSET (1..(k + 1)) /\ IsFiniteSet(1..(k + 1))
    BY <1>1, <1>4, Intervals
  <2> QED
    BY <2>1, FS_Subset, FS_CardinalityType
<1>11. ASSUME from <= now PROVE Cardinality(Listed(from)) + 1 <= Cardinality(listed)
  <2>1. k + 1 \in listed /\ k + 1 \notin shifted
    BY <1>1, <1>4, <1>8, <1>11
  <2>2. shifted \cup {k + 1} \in SUBSET listed
    BY <1>8, <2>1
  <2>3. Cardinality(shifted \cup {k + 1}) = Cardinality(Listed(from)) + 1
    BY <1>7, <2>1, FS_AddElement
  <2> QED
    BY <1>10, <2>2, <2>3, FS_Subset
<1>12. Cardinality(Listed(from)) <= k /\ Cardinality(Listed(from)) <= Cardinality(listed)
  <2>1. Cardinality(shifted) <= Cardinality(1..k)
    BY <1>8, <1>9, FS_Subset
  <2>2. Cardinality(shifted) <= Cardinality(listed)
    BY <1>8, <1>10, FS_Subset
  <2> QED
    BY <1>7, <1>9, <2>1, <2>2
<1> QED
  BY <1>10, <1>11, <1>12 DEF kept, k, list

\* A slot that is given is one more wherever its time falls.
LEMMA TakeSlot ==
  ASSUME DeliveryTypes, PaceInv, NEW r \in Requests, Slot(r), Room(shim[r].at)
  PROVE  /\ IsFiniteSet(Slotted')
         /\ \A from, upto \in Int :
              Slots(from, upto)' = IF from <= shim[r].at /\ shim[r].at < upto
                                   THEN Slots(from, upto) + 1 ELSE Slots(from, upto)
<1> DEFINE now == shim[r].at
<1>1. now \in Nat /\ stamps' = stamps /\ r \notin Slotted
  BY DEF Slot, DeliveryTypes, Slotted
<1>2. /\ shim'[r].step = "send" /\ shim'[r].at = now
      /\ \A q \in Requests \ {r} : shim'[q] = shim[q]
  <2>1. now \in Moments /\ To(r, "send", now)
    BY <1>1 DEF Slot, Moments
  <2> QED
    BY <1>1, <2>1, ToTypes DEF Steps
<1> HIDE DEF now
<1>3. Slotted' = Slotted \cup {r} /\ IsFiniteSet(Slotted')
  <2>1. Slotted' = Slotted \cup {r}
    BY <1>2 DEF Slotted
  <2> QED
    BY <2>1, FS_AddElement DEF PaceInv
<1>4. ASSUME NEW from \in Int, NEW upto \in Int
      PROVE  Slots(from, upto)' = IF from <= now /\ now < upto
                                  THEN Slots(from, upto) + 1 ELSE Slots(from, upto)
  <2>1. Stamped(from, upto)' = Stamped(from, upto)
    BY <1>1 DEF Stamped
  <2>2. Due(from, upto)' = IF from <= now /\ now < upto
                           THEN Due(from, upto) \cup {r} ELSE Due(from, upto)
    <3>1. \A q \in Slotted : shim'[q] = shim[q]
      BY <1>1, <1>2 DEF Slotted
    <3> QED
      BY <1>2, <1>3, <3>1 DEF Due
  <2>3. CASE from <= now /\ now < upto
    <3>1. r \notin Due(from, upto)
      BY <1>1 DEF Due
    <3>2. /\ IsFiniteSet(Due(from, upto)) /\ Cardinality(Due(from, upto)) \in Nat
          /\ Cardinality(Stamped(from, upto)) \in Nat
      BY Finite
    <3>3. Cardinality(Due(from, upto)') = Cardinality(Due(from, upto)) + 1
      BY <2>2, <2>3, <3>1, <3>2, FS_AddElement
    <3> QED
      BY <2>1, <2>3, <3>2, <3>3 DEF Slots
  <2>4. CASE ~(from <= now /\ now < upto)
    BY <2>1, <2>2, <2>4 DEF Slots
  <2> QED
    BY <2>3, <2>4
<1> QED
  BY <1>3, <1>4 DEF now

\* A slot is given only where it fits into every window.
LEMMA SlotPace ==
  ASSUME DeliveryTypes, PaceInv, NEW r \in Requests, Slot(r), Room(shim[r].at)
  PROVE  PaceInv'
<1> DEFINE now == shim[r].at
<1>1. /\ now \in Nat /\ sent' = Times(now)
      /\ misordered' = (misordered \/ \E i \in DOMAIN sent : sent[i] > now)
  BY DEF Slot, DeliveryTypes
<1>2. Room(now)
  OBVIOUS
<1>3. /\ IsFiniteSet(Slotted')
      /\ \A from, upto \in Int :
           Slots(from, upto)' = IF from <= now /\ now < upto
                                THEN Slots(from, upto) + 1 ELSE Slots(from, upto)
  BY TakeSlot
<1> HIDE DEF now
<1>4. /\ Kept(now) \in Seq(Nat) /\ Len(Kept(now)) \in Nat /\ Len(Kept(now)) < Pace
      /\ Pace \in Nat /\ Window \in Nat
  <2>1. Kept(now) \in Seq(Nat)
    BY <1>1, KeptOf
  <2>2. Len(Kept(now)) < Pace
    BY <1>2 DEF Room
  <2> QED
    BY <2>1, <2>2, DeliveryAssumption
<1>5. sent' = Append(Kept(now), now)
  BY <1>1, <1>2 DEF Times
<1>6. sent \in Seq(Nat) /\ Len(sent) \in Nat /\ \A i \in DOMAIN sent : sent[i] \in Nat
  BY DEF DeliveryTypes
<1>7. Len(sent') <= Pace
  BY <1>1, <1>4, <1>5
<1>8. ASSUME ~misordered', NEW from \in Nat
      PROVE  /\ Slots(from, from + Window)' <= Pace
             /\ (\A i \in DOMAIN sent' : sent'[i] < from + Window) =>
                  Slots(from, from + Window)' <= Cardinality(Listed(from)')
  <2> DEFINE upto == from + Window
  <2>0. from \in Int /\ upto \in Int
    BY <1>4
  <2> HIDE DEF upto
  <2>1. Cardinality(Listed(from)) \in Nat /\ Slots(from, upto) \in Nat
    BY <2>0, Finite
  <2>2. ~misordered /\ \A i \in DOMAIN sent : ~(sent[i] > now)
    BY <1>1, <1>8
  <2>3. Slots(from, upto) <= Pace
    BY <2>2 DEF PaceInv, upto
  <2>4. Slots(from, upto)' = IF from <= now /\ now < upto
                             THEN Slots(from, upto) + 1 ELSE Slots(from, upto)
    BY <1>3, <2>0
  <2>5. ASSUME now < upto
        PROVE  /\ Slots(from, upto) <= Cardinality(Listed(from))
               /\ Cardinality(Listed(from)) <= Len(Kept(now))
               /\ Cardinality(Listed(from)') \in Nat
               /\ Cardinality(Listed(from)) <= Cardinality(Listed(from)')
               /\ from <= now => Cardinality(Listed(from)) + 1 <= Cardinality(Listed(from)')
    <3>1. \A i \in DOMAIN sent : sent[i] < from + Window
      BY <1>1, <1>4, <1>6, <2>2, <2>5 DEF upto
    <3>2. Listed(from)' = {i \in DOMAIN Times(now) : from <= Times(now)[i]}
      BY <1>1 DEF Listed
    <3>3. Slots(from, upto) <= Cardinality(Listed(from))
      BY <2>2, <3>1 DEF PaceInv, upto
    <3>4. LET listed == {i \in DOMAIN Times(now) : from <= Times(now)[i]}
          IN  /\ Cardinality(Listed(from)) <= Len(Kept(now))
              /\ IsFiniteSet(listed) /\ Cardinality(listed) \in Nat
              /\ Cardinality(Listed(from)) <= Cardinality(listed)
              /\ from <= now => Cardinality(Listed(from)) + 1 <= Cardinality(listed)
      BY <1>1, <1>2, <2>0, <2>5, ListedStay DEF upto
    <3> QED
      BY <3>2, <3>3, <3>4
  <2>6. (\A i \in DOMAIN sent' : sent'[i] < from + Window) => now < upto
    <3>1. Len(Kept(now)) + 1 \in DOMAIN sent' /\ sent'[Len(Kept(now)) + 1] = now
      BY <1>1, <1>4, <1>5
    <3> QED
      BY <3>1 DEF upto
  <2>7. (from + Window)' = upto
    BY DEF upto
  <2>8. CASE now < upto
    BY <1>1, <1>4, <2>0, <2>1, <2>3, <2>4, <2>5, <2>7, <2>8 DEF upto
  <2>9. CASE ~(now < upto)
    BY <2>1, <2>3, <2>4, <2>6, <2>7, <2>9 DEF upto
  <2> QED
    BY <2>8, <2>9
<1> QED
  BY <1>3, <1>7, <1>8 DEF PaceInv

LEMMA ShimPace ==
  ASSUME DeliveryTypes, PaceInv, NEW r \in Requests, Submit(r) \/ Work(r) \/ Lost(r)
  PROVE  PaceInv'
<1>1. clock \in Nat /\ clock \in Moments
  BY DEF DeliveryTypes, Moments
<1>2. ASSUME NEW step \in {"new", "slot", "sleep"}, NEW at \in Moments, To(r, step, at),
             shim[r].step \in {"none", "new", "slot", "sleep"}, step # "sleep" => at \in Nat,
             UNCHANGED <<sent, stamps, misordered>>
      PROVE  PaceInv'
  <2>1. step \in Steps
    BY DEF Steps
  <2>2. shim'[r].step = step /\ \A q \in Requests \ {r} : shim'[q] = shim[q]
    BY <1>2, <2>1, ToTypes
  <2>3. /\ Slotted' = Slotted
        /\ \A from, upto \in Int : Slots(from, upto)' = Slots(from, upto)
    BY <1>2, <2>2, SameSlots
  <2> QED
    BY <1>2, <2>3, SamePace DEF PaceInv
<1>3. CASE Submit(r)
  BY <1>1, <1>2, <1>3 DEF Submit, pacing
<1>4. CASE ReadClock(r)
  BY <1>1, <1>2, <1>4 DEF ReadClock, pacing
<1>5. CASE Slot(r) /\ ~Room(shim[r].at)
  <2> DEFINE now == shim[r].at
             at == clock + Kept(now)[1] + Window - now
  <2>1. now \in Nat /\ shim[r].step = "slot"
    BY <1>5 DEF Slot, DeliveryTypes
  <2>2. sent' = sent
    BY <1>5, <2>1, FullKeepsAll DEF Slot
  <2>3. To(r, "sleep", at) /\ UNCHANGED <<stamps, misordered>>
    BY <1>5 DEF Slot
  <2>4. at \in Moments
    BY <1>5, <2>1, SlotMoment
  <2> HIDE DEF at
  <2> QED
    BY <1>2, <2>1, <2>2, <2>3, <2>4
<1>6. CASE Awake(r)
  BY <1>1, <1>2, <1>6 DEF Awake, pacing
<1>7. CASE Answer(r) \/ Lost(r)
  <2>1. shim[r].step = "wait" /\ UNCHANGED <<sent, stamps, misordered>>
    BY <1>7 DEF Answer, Lost, pacing
  <2>2. shim'[r].step # "send" /\ \A q \in Requests \ {r} : shim'[q] = shim[q]
    <3>1. CASE Answer(r) /\ Retry(r)
      BY <3>1 DEF Answer, DeliveryTypes, Shims
    <3>2. CASE Answer(r) /\ ~Retry(r)
      BY <3>2 DEF Answer, DeliveryTypes, Shims
    <3>3. CASE Lost(r)
      BY <3>3 DEF Lost, DeliveryTypes, Shims
    <3> QED
      BY <1>7, <3>1, <3>2, <3>3
  <2>3. /\ Slotted' = Slotted
        /\ \A from, upto \in Int : Slots(from, upto)' = Slots(from, upto)
    BY <2>1, <2>2, SameSlots
  <2> QED
    BY <2>1, <2>3, SamePace DEF PaceInv
<1>8. CASE Send(r)
  BY <1>8, SendSlots, SamePace
<1> QED
  BY <1>3, <1>4, <1>5, <1>6, <1>7, <1>8, SlotPace DEF Work

LEMMA UnchangedPace ==
  ASSUME PaceInv, UNCHANGED <<sent, stamps, misordered, shim>>
  PROVE  PaceInv'
BY DEF PaceInv, Slots, Stamped, Due, Listed, Slotted

LEMMA NextPace == DeliveryTypes /\ PaceInv /\ [DeliveryNext]_deliveryVars => PaceInv'
<1> SUFFICES ASSUME DeliveryTypes, PaceInv, [DeliveryNext]_deliveryVars PROVE PaceInv'
  OBVIOUS
<1>1. ASSUME NEW r \in Requests, Serve(r) \/ GiveUp(r) \/ Collect(r) PROVE PaceInv'
  <2>1. UNCHANGED <<sent, stamps, misordered, shim>>
    BY <1>1 DEF Serve, Admit, Limit, Judge, Reply, GiveUp, Collect, Refuse, Store, pacing
  <2> QED
    BY <2>1, UnchangedPace
<1>2. CASE Tick
  BY <1>2, UnchangedPace DEF Tick, pacing
<1>3. CASE UNCHANGED deliveryVars
  BY <1>3, UnchangedPace DEF deliveryVars
<1> QED
  BY <1>1, <1>2, <1>3, ShimPace DEF DeliveryNext

LEMMA NoSlots ==
  ASSUME DeliveryInit
  PROVE  /\ IsFiniteSet(Slotted)
         /\ \A from, upto \in Int : Slots(from, upto) = 0 /\ Cardinality(Listed(from)) = 0
<1>1. sent = <<>> /\ stamps = <<>> /\ Slotted = {}
  BY DEF DeliveryInit, Slotted
<1>2. Cardinality({}) = 0 /\ IsFiniteSet({})
  BY FS_EmptySet
<1>3. \A from, upto \in Int : Slots(from, upto) = 0 /\ Cardinality(Listed(from)) = 0
  <2> TAKE from, upto \in Int
  <2>1. Stamped(from, upto) = {} /\ Due(from, upto) = {} /\ Listed(from) = {}
    BY <1>1 DEF Stamped, Due, Listed
  <2> QED
    BY <1>2, <2>1 DEF Slots
<1> QED
  BY <1>1, <1>2, <1>3

LEMMA InitPace == DeliveryInit => PaceInv
<1> SUFFICES ASSUME DeliveryInit PROVE PaceInv
  OBVIOUS
<1>1. sent = <<>> /\ Len(sent) = 0 /\ IsFiniteSet(Slotted)
  BY NoSlots DEF DeliveryInit
<1>2. Pace \in Nat /\ Window \in Nat
  BY DeliveryAssumption
<1>3. \A from \in Nat : Slots(from, from + Window) = 0 /\ Cardinality(Listed(from)) = 0
  <2> TAKE from \in Nat
  <2>1. from \in Int /\ from + Window \in Int
    BY <1>2
  <2> QED
    BY <2>1, NoSlots
<1> QED
  BY <1>1, <1>2, <1>3 DEF PaceInv

-----------------------------------------------------------------------------
(* Delivery: who is turned away *)

\* Settings under which the gateway keeps up with the shim: it allows the
\* shim's pace, and each back-off is longer than the delay on the way there
\* and back.
FittingSettings ==
  /\ IsFiniteSet(Requests)
  /\ Pace <= Allowance
  /\ \A n \in 1..MaxRetries : Sleep(n) \in Nat /\ 2 * Delay < Sleep(n)

\* The results the gateway let in, and those it has not, of those it knows of.
Accepted ==
  {q \in Requests :
     \/ gateway[q] \in {"admitted", "forward", "notify", "ok", "blocked", "error"}
     \/ gateway[q] = "none" /\ shim[q].step = "done" /\ shim[q].answer # "limited"}

Asking == {q \in Requests : gateway[q] \in {"check", "limited"}}

Reached == Accepted \cup Asking

AcceptedFrom(x) == {q \in Accepted : x <= shim[q].at}

ReachedFrom(x) == {q \in Reached : x <= shim[q].at}

StampedFrom(x) == {n \in DOMAIN stamps : x <= stamps[n]}

\* The one list of the gateway's limiter.
List == IF Receipts \in DOMAIN events THEN events[Receipts] ELSE <<>>

ListedFrom(list, x) == {i \in DOMAIN list : x <= list[i]}

\* The other results that were let in.
Others(r) == Cardinality(Accepted \ {r})

\* A result is sent again only after another was let in, for each time it was
\* turned away, and given up only after more others were than it has retries.
Overtaken ==
  \A r \in Requests :
    /\ shim[r].attempt <= Others(r)
    /\ shim[r].answer = "limited" => MaxRetries < Others(r)

\* Where a thread is, so is the clock: it takes a slot and sends within the
\* delay, and asks at once.
ClockInv ==
  /\ \A r \in Requests :
       /\ shim[r].at \in Int
       /\ shim[r].step \in {"slot", "send"} => shim[r].at <= clock /\ clock <= shim[r].at + Delay
       /\ shim[r].step \in {"wait", "done"} => shim[r].at <= clock
       /\ shim[r].step = "wait" => gateway[r] # "none"
       /\ gateway[r] = "check" => shim[r].at = clock
       /\ gateway[r] = "limited" /\ shim[r].step = "wait" => shim[r].at = clock
  /\ \A n \in DOMAIN stamps : stamps[n] <= clock

\* A slot is taken within the delay of its time, and its submission is sent.
OnClock ==
  /\ \A r \in Requests :
       shim[r].step \in {"slot", "send"} => shim[r].at <= clock /\ clock <= shim[r].at + Delay
  /\ Len(posted) = Len(stamps)
  /\ \A n \in DOMAIN stamps : stamps[n] <= posted[n] /\ posted[n] <= stamps[n] + Delay

\* Whatever the order of the slots: no stretch that is shorter than the window
\* by the delay holds more than the pace, and every slot that is still in the
\* window is in the list.
BurstInv ==
  \A from, upto \in Int :
    /\ upto + Delay <= from + Window => Slots(from, upto) <= Pace
    /\ clock < from + Window => Slots(from, upto) <= Cardinality(Listed(from))

\* What the gateway knows of was sent, at most the delay before it arrived, and
\* what is in the limiter's list was let in.
ReachedInv ==
  /\ List \in Seq(Int)
  /\ \A x \in Int :
       /\ Cardinality(ReachedFrom(x)) <= Cardinality(StampedFrom(x - Delay))
       /\ Cardinality(ListedFrom(List, x)) <= Cardinality(AcceptedFrom(x))

\* When a thread goes on at the earliest.
Resumes(r) == IF shim[r].step = "sleep" /\ clock < shim[r].at THEN shim[r].at ELSE clock

\* A result that is on its way to the gateway.
Coming(r) ==
  \/ shim[r].step \in {"none", "new", "slot", "send", "sleep"}
  \/ shim[r].step = "wait" /\ gateway[r] = "check"

\* A result that only as many others overtook as it was turned away finds the
\* gateway with room when it comes back.
Turned(r) ==
  /\ shim[r].attempt <= Others(r)
  /\ Coming(r) /\ 0 < shim[r].attempt /\ shim[r].attempt = Others(r) =>
       Cardinality(AcceptedFrom(Resumes(r) - Window)) < Pace
  /\ gateway[r] = "limited" /\ shim[r].step = "wait" => shim[r].attempt < Others(r)
  /\ shim[r].answer = "limited" => MaxRetries < Others(r)

TurnedInv == \A r \in Requests : Turned(r)

LEMMA FiniteReached ==
  ASSUME FittingSettings, NEW x \in Int
  PROVE  /\ IsFiniteSet(AcceptedFrom(x)) /\ Cardinality(AcceptedFrom(x)) \in Nat
         /\ IsFiniteSet(ReachedFrom(x)) /\ Cardinality(ReachedFrom(x)) \in Nat
<1>1. AcceptedFrom(x) \in SUBSET Requests /\ ReachedFrom(x) \in SUBSET Requests
  BY DEF AcceptedFrom, ReachedFrom, Reached, Accepted, Asking
<1> QED
  BY <1>1, FS_Subset, FS_CardinalityType DEF FittingSettings

LEMMA OthersType ==
  ASSUME FittingSettings, NEW r \in Requests
  PROVE  /\ IsFiniteSet(Accepted) /\ Cardinality(Accepted) \in Nat
         /\ IsFiniteSet(Accepted \ {r}) /\ Others(r) \in Nat
<1>1. Accepted \in SUBSET Requests /\ Accepted \ {r} \in SUBSET Requests
  BY DEF Accepted
<1> QED
  BY <1>1, FS_Subset, FS_CardinalityType DEF FittingSettings, Others

LEMMA FiniteStamped ==
  ASSUME DeliveryTypes, NEW x \in Int
  PROVE  IsFiniteSet(StampedFrom(x)) /\ Cardinality(StampedFrom(x)) \in Nat
<1>1. Len(stamps) \in Nat /\ DOMAIN stamps = 1..Len(stamps)
  BY DEF DeliveryTypes
<1>2. IsFiniteSet(DOMAIN stamps)
  BY <1>1, Intervals, Zenon
<1>3. StampedFrom(x) \in SUBSET DOMAIN stamps
  BY DEF StampedFrom
<1> QED
  BY <1>2, <1>3, FS_Subset, FS_CardinalityType

LEMMA FiniteListed ==
  ASSUME NEW list \in Seq(Int), NEW x \in Int
  PROVE  IsFiniteSet(ListedFrom(list, x)) /\ Cardinality(ListedFrom(list, x)) \in Nat
<1>1. Len(list) \in Nat /\ DOMAIN list = 1..Len(list)
  OBVIOUS
<1>2. IsFiniteSet(DOMAIN list)
  BY <1>1, Intervals, Zenon
<1>3. ListedFrom(list, x) \in SUBSET DOMAIN list
  BY DEF ListedFrom
<1> QED
  BY <1>2, <1>3, FS_Subset, FS_CardinalityType

-----------------------------------------------------------------------------
(* Delivery: what a step does to one request *)

\* A step of a thread of the shim that has nothing at the gateway.
Quiet(r) ==
  /\ shim[r].step \in {"none", "new", "slot", "sleep"}
  /\ shim'[r].step \in {"new", "slot", "send", "sleep"}
  /\ shim'[r].at \in Int
  /\ shim'[r].step \in {"slot", "send"} =>
       shim'[r].at <= clock /\ clock <= shim'[r].at + Delay
  /\ shim[r].step = "sleep" => shim[r].at <= clock
  /\ shim'[r].attempt = shim[r].attempt /\ shim'[r].answer = shim[r].answer
  /\ \A q \in Requests \ {r} : shim'[q] = shim[q]
  /\ UNCHANGED <<gateway, stamps, events, clock>>

LEMMA QuietSteps ==
  ASSUME DeliveryTypes, ClockInv, NEW r \in Requests,
         Submit(r) \/ ReadClock(r) \/ Slot(r) \/ Awake(r)
  PROVE  Quiet(r)
<1>0. clock \in Nat /\ clock \in Moments /\ Delay \in Nat
  BY DeliveryAssumption DEF DeliveryTypes, Moments
<1>1. CASE Submit(r)
  <2>1. To(r, "new", clock) /\ shim[r].step = "none" /\ UNCHANGED <<gateway, stamps, events, clock>>
    BY <1>1 DEF Submit, pacing, limiting
  <2> QED
    BY <1>0, <2>1, ToTypes DEF Quiet, Steps
<1>2. CASE ReadClock(r)
  <2>1. To(r, "slot", clock) /\ shim[r].step = "new" /\ UNCHANGED <<gateway, stamps, events, clock>>
    BY <1>2 DEF ReadClock, pacing, limiting
  <2> QED
    BY <1>0, <2>1, ToTypes DEF Quiet, Steps
<1>3. CASE Awake(r)
  <2>1. /\ To(r, "new", clock) /\ shim[r].step = "sleep" /\ clock >= shim[r].at
        /\ UNCHANGED <<gateway, stamps, events, clock>>
    BY <1>3 DEF Awake, pacing, limiting
  <2>2. shim[r].at <= clock
    BY <1>0, <2>1 DEF ClockInv
  <2> QED
    BY <1>0, <2>1, <2>2, ToTypes DEF Quiet, Steps
<1>4. CASE Slot(r)
  <2> DEFINE now == shim[r].at
  <2>1. /\ now \in Nat /\ now \in Moments /\ now <= clock /\ clock <= now + Delay
        /\ shim[r].step = "slot" /\ UNCHANGED <<gateway, stamps, events, clock>>
    BY <1>4 DEF Slot, DeliveryTypes, Moments, ClockInv, limiting
  <2>2. CASE Room(now)
    <3>1. To(r, "send", now)
      BY <1>4, <2>2 DEF Slot
    <3>2. /\ shim'[r].step = "send" /\ shim'[r].at = now
          /\ shim'[r].attempt = shim[r].attempt /\ shim'[r].answer = shim[r].answer
          /\ \A q \in Requests \ {r} : shim'[q] = shim[q]
      BY <2>1, <3>1, ToTypes DEF Steps
    <3> QED
      BY <2>1, <3>2 DEF Quiet
  <2>3. CASE ~Room(now)
    <3> DEFINE at == clock + Kept(now)[1] + Window - now
    <3>1. To(r, "sleep", at)
      BY <1>4, <2>3 DEF Slot
    <3>2. at \in Moments /\ at \in Int
      BY <2>1, <2>3, SlotMoment
    <3> HIDE DEF at
    <3>3. /\ shim'[r].step = "sleep" /\ shim'[r].at = at
          /\ shim'[r].attempt = shim[r].attempt /\ shim'[r].answer = shim[r].answer
          /\ \A q \in Requests \ {r} : shim'[q] = shim[q]
      BY <3>1, <3>2, ToTypes DEF Steps
    <3> QED
      BY <2>1, <3>2, <3>3 DEF Quiet
  <2> QED
    BY <2>2, <2>3
<1> QED
  BY <1>1, <1>2, <1>3, <1>4

\* The arrival at the gateway.
LEMMA SendStep ==
  ASSUME DeliveryTypes, NEW r \in Requests, Send(r)
  PROVE  /\ shim[r].step = "send" /\ shim'[r].step = "wait" /\ shim'[r].at = clock
         /\ gateway'[r] = "check"
         /\ shim'[r].attempt = shim[r].attempt /\ shim'[r].answer = shim[r].answer
         /\ \A q \in Requests \ {r} : shim'[q] = shim[q] /\ gateway'[q] = gateway[q]
         /\ stamps' = Append(stamps, shim[r].at) /\ shim[r].at \in Nat
         /\ posted' = Append(posted, clock)
         /\ UNCHANGED <<sent, events, clock>>
<1>1. clock \in Nat /\ clock \in Moments
  BY DEF DeliveryTypes, Moments
<1>2. To(r, "wait", clock) /\ gateway' = [gateway EXCEPT ![r] = "check"]
  BY DEF Send
<1>3. /\ shim'[r].step = "wait" /\ shim'[r].at = clock
      /\ shim'[r].attempt = shim[r].attempt /\ shim'[r].answer = shim[r].answer
      /\ \A q \in Requests \ {r} : shim'[q] = shim[q]
  BY <1>1, <1>2, ToTypes DEF Steps
<1> QED
  BY <1>2, <1>3 DEF Send, DeliveryTypes, limiting

\* The answer to a result that is sent again.
LEMMA RetryStep ==
  ASSUME FittingSettings, DeliveryTypes, NEW r \in Requests, Answer(r), Retry(r)
  PROVE  /\ shim[r].step = "wait" /\ gateway[r] = "limited"
         /\ shim'[r].step = "sleep" /\ gateway'[r] = "none"
         /\ shim'[r].attempt = shim[r].attempt + 1 /\ shim'[r].answer = shim[r].answer
         /\ shim'[r].at \in Int /\ clock + 2 * Delay < shim'[r].at
         /\ \A q \in Requests \ {r} : shim'[q] = shim[q] /\ gateway'[q] = gateway[q]
         /\ UNCHANGED <<stamps, events, clock>>
<1> DEFINE n == shim[r].attempt + 1
<1>1. /\ shim[r] \in Shims /\ shim[r].attempt \in Nat /\ shim[r].attempt < MaxRetries
      /\ shim[r].step = "wait" /\ gateway[r] = "limited" /\ clock \in Nat
  BY DEF Answer, Retry, DeliveryTypes, Shims
<1>2. n \in 1..MaxRetries
  BY <1>1, DeliveryAssumption
<1>3. Sleep(n) \in Nat /\ 2 * Delay < Sleep(n) /\ Delay \in Nat
  BY <1>2, DeliveryAssumption DEF FittingSettings
<1>4. shim'[r] = [shim[r] EXCEPT !.step = "sleep", !.attempt = n, !.at = clock + Sleep(n)]
  BY <1>1 DEF Answer, DeliveryTypes
<1>5. shim'[r].step = "sleep" /\ shim'[r].attempt = n /\ shim'[r].answer = shim[r].answer
      /\ shim'[r].at = clock + Sleep(n)
  BY <1>1, <1>4 DEF Shims
<1>6. \A q \in Requests \ {r} : shim'[q] = shim[q] /\ gateway'[q] = gateway[q]
  BY DEF Answer, DeliveryTypes
<1>7. gateway'[r] = "none" /\ UNCHANGED <<stamps, events, clock>>
  BY DEF Answer, DeliveryTypes, pacing, limiting
<1> HIDE DEF n
<1> QED
  BY <1>1, <1>3, <1>5, <1>6, <1>7 DEF n

\* The last answer to a result, and one that does not come.
LEMMA EndStep ==
  ASSUME DeliveryTypes, NEW r \in Requests, (Answer(r) /\ ~Retry(r)) \/ Lost(r)
  PROVE  /\ shim[r].step = "wait" /\ shim'[r].step = "done"
         /\ shim'[r].at = shim[r].at /\ shim'[r].attempt = shim[r].attempt
         /\ \/ gateway' = gateway /\ shim'[r].answer = "error"
            \/ /\ gateway[r] \in Answers /\ gateway'[r] = "none" /\ shim'[r].answer = gateway[r]
               /\ gateway[r] = "limited" => MaxRetries <= shim[r].attempt
         /\ \A q \in Requests \ {r} : shim'[q] = shim[q] /\ gateway'[q] = gateway[q]
         /\ UNCHANGED <<stamps, events, clock>>
<1>0. shim[r] \in Shims
  BY DEF DeliveryTypes
<1>1. CASE Lost(r)
  <2>1. /\ shim[r].step = "wait" /\ UNCHANGED <<gateway, stamps, events, clock>>
        /\ \A q \in Requests \ {r} : shim'[q] = shim[q]
    BY <1>1 DEF Lost, DeliveryTypes, pacing, limiting
  <2>2. /\ shim'[r].step = "done" /\ shim'[r].answer = "error"
        /\ shim'[r].at = shim[r].at /\ shim'[r].attempt = shim[r].attempt
    BY <1>0, <1>1 DEF Lost, DeliveryTypes, Shims
  <2> QED
    BY <2>1, <2>2
<1>2. CASE Answer(r) /\ ~Retry(r)
  <2>1. /\ shim[r].step = "wait" /\ gateway[r] \in Answers /\ gateway'[r] = "none"
        /\ UNCHANGED <<stamps, events, clock>>
        /\ \A q \in Requests \ {r} : shim'[q] = shim[q] /\ gateway'[q] = gateway[q]
    BY <1>2 DEF Answer, DeliveryTypes, pacing, limiting
  <2>2. /\ shim'[r].step = "done" /\ shim'[r].answer = gateway[r]
        /\ shim'[r].at = shim[r].at /\ shim'[r].attempt = shim[r].attempt
    BY <1>0, <1>2 DEF Answer, DeliveryTypes, Shims
  <2>3. gateway[r] = "limited" => MaxRetries <= shim[r].attempt
    BY <1>0, <1>2, DeliveryAssumption DEF Retry, Shims
  <2> QED
    BY <2>1, <2>2, <2>3
<1> QED
  BY <1>1, <1>2

\* A step of the gateway or of the collector, but for the limiter.
LEMMA ServeStep ==
  ASSUME DeliveryTypes, NEW r \in Requests, Judge(r) \/ Reply(r) \/ GiveUp(r)
  PROVE  /\ gateway[r] \in {"admitted", "forward", "notify"}
         /\ gateway'[r] \in {"forward", "notify", "ok", "blocked", "error"}
         /\ \A q \in Requests \ {r} : gateway'[q] = gateway[q]
         /\ UNCHANGED <<sent, shim, stamps, events, clock>>
<1>1. CASE Judge(r)
  BY <1>1 DEF Judge, Becomes, DeliveryTypes, pacing, limiting
<1>2. CASE Reply(r) \/ GiveUp(r)
  BY <1>2 DEF Reply, GiveUp, Becomes, DeliveryTypes, pacing, limiting
<1> QED
  BY <1>1, <1>2

LEMMA LimiterStep ==
  ASSUME DeliveryTypes, NEW r \in Requests, Admit(r) \/ Limit(r)
  PROVE  /\ gateway[r] = "check"
         /\ \/ Admit(r) /\ gateway'[r] = "admitted" /\ List' = Append(Recent(r), shim[r].at)
            \/ Limit(r) /\ gateway'[r] = "limited" /\ List' = Recent(r)
               /\ Len(Recent(r)) >= Allowance
         /\ \A q \in Requests \ {r} : gateway'[q] = gateway[q]
         /\ UNCHANGED <<sent, shim, stamps, clock>>
<1>1. CASE Admit(r)
  <2>1. List' = Append(Recent(r), shim[r].at)
    BY <1>1 DEF Admit, List, Limiter!Set
  <2> QED
    BY <1>1, <2>1 DEF Admit, Becomes, DeliveryTypes, pacing
<1>2. CASE Limit(r)
  <2>1. List' = Recent(r)
    BY <1>2 DEF Limit, List, Limiter!Set
  <2> QED
    BY <1>2, <2>1 DEF Limit, Becomes, DeliveryTypes, pacing
<1> QED
  BY <1>1, <1>2

-----------------------------------------------------------------------------
(* Delivery: the clock *)

LEMMA InitClock == DeliveryInit => ClockInv
  BY DEF DeliveryInit, ClockInv

\* A step of one request, and what it leaves behind.
LEMMA OthersClock ==
  ASSUME ClockInv, NEW r \in Requests,
         \A q \in Requests \ {r} : shim'[q] = shim[q] /\ gateway'[q] = gateway[q],
         clock' = clock, \A n \in DOMAIN stamps' : stamps'[n] <= clock,
         /\ shim'[r].at \in Int
         /\ shim'[r].step \in {"slot", "send"} =>
              shim'[r].at <= clock /\ clock <= shim'[r].at + Delay
         /\ shim'[r].step \in {"wait", "done"} => shim'[r].at <= clock
         /\ shim'[r].step = "wait" => gateway'[r] # "none"
         /\ gateway'[r] = "check" => shim'[r].at = clock
         /\ gateway'[r] = "limited" /\ shim'[r].step = "wait" => shim'[r].at = clock
  PROVE  ClockInv'
<1>1. ASSUME NEW q \in Requests
      PROVE  /\ shim'[q].at \in Int
             /\ shim'[q].step \in {"slot", "send"} =>
                  shim'[q].at <= clock /\ clock <= shim'[q].at + Delay
             /\ shim'[q].step \in {"wait", "done"} => shim'[q].at <= clock
             /\ shim'[q].step = "wait" => gateway'[q] # "none"
             /\ gateway'[q] = "check" => shim'[q].at = clock
             /\ gateway'[q] = "limited" /\ shim'[q].step = "wait" => shim'[q].at = clock
  <2>1. CASE q = r
    BY <2>1
  <2>2. CASE q # r
    <3>1. shim'[q] = shim[q] /\ gateway'[q] = gateway[q]
      BY <2>2
    <3> QED
      BY <3>1 DEF ClockInv
  <2> QED
    BY <2>1, <2>2
<1> QED
  BY <1>1 DEF ClockInv

LEMMA NextClock ==
  FittingSettings /\ DeliveryTypes /\ StoreInv /\ ClockInv /\ [DeliveryNext]_deliveryVars => ClockInv'
<1> SUFFICES ASSUME FittingSettings, DeliveryTypes, StoreInv, ClockInv, [DeliveryNext]_deliveryVars
             PROVE  ClockInv'
  OBVIOUS
<1>0. clock \in Nat /\ Delay \in Nat /\ \A n \in DOMAIN stamps : stamps[n] <= clock
  BY DeliveryAssumption DEF DeliveryTypes, ClockInv
<1>1. ASSUME NEW r \in Requests, Submit(r) \/ ReadClock(r) \/ Slot(r) \/ Awake(r) PROVE ClockInv'
  <2>1. Quiet(r)
    BY <1>1, QuietSteps
  <2>2. gateway'[r] = "none"
    BY <2>1 DEF Quiet, StoreInv, Consistent
  <2> QED
    BY <1>0, <2>1, <2>2, OthersClock DEF Quiet
<1>2. ASSUME NEW r \in Requests, Send(r) PROVE ClockInv'
  <2>1. /\ shim[r].step = "send" /\ shim'[r].step = "wait" /\ shim'[r].at = clock
        /\ gateway'[r] = "check"
        /\ \A q \in Requests \ {r} : shim'[q] = shim[q] /\ gateway'[q] = gateway[q]
        /\ stamps' = Append(stamps, shim[r].at) /\ shim[r].at \in Nat /\ clock' = clock
    BY <1>2, SendStep
  <2>2. \A n \in DOMAIN stamps' : stamps'[n] <= clock
    <3>1. stamps \in Seq(Nat) /\ shim[r].at <= clock
      BY <2>1 DEF DeliveryTypes, ClockInv
    <3>2. \A n \in DOMAIN stamps' : \/ n \in DOMAIN stamps /\ stamps'[n] = stamps[n]
                                   \/ stamps'[n] = shim[r].at
      BY <2>1, <3>1
    <3> QED
      BY <1>0, <3>1, <3>2
  <2> QED
    BY <1>0, <2>1, <2>2, OthersClock
<1>3. ASSUME NEW r \in Requests, Answer(r), Retry(r) PROVE ClockInv'
  <2>1. /\ shim'[r].step = "sleep" /\ gateway'[r] = "none" /\ shim'[r].at \in Int
        /\ \A q \in Requests \ {r} : shim'[q] = shim[q] /\ gateway'[q] = gateway[q]
        /\ UNCHANGED <<stamps, clock>>
    BY <1>3, RetryStep
  <2> QED
    BY <1>0, <2>1, OthersClock
<1>4. ASSUME NEW r \in Requests, (Answer(r) /\ ~Retry(r)) \/ Lost(r) PROVE ClockInv'
  <2>1. /\ shim[r].step = "wait" /\ shim'[r].step = "done" /\ shim'[r].at = shim[r].at
        /\ gateway' = gateway \/ gateway'[r] = "none"
        /\ \A q \in Requests \ {r} : shim'[q] = shim[q] /\ gateway'[q] = gateway[q]
        /\ UNCHANGED <<stamps, clock>>
    BY <1>4, EndStep
  <2>2. /\ shim[r].at \in Int /\ shim[r].at <= clock
        /\ gateway[r] = "check" => shim[r].at = clock
    BY <2>1 DEF ClockInv
  <2> QED
    BY <1>0, <2>1, <2>2, OthersClock
<1>5. ASSUME NEW r \in Requests, Judge(r) \/ Reply(r) \/ GiveUp(r) PROVE ClockInv'
  <2>1. /\ gateway'[r] \in {"forward", "notify", "ok", "blocked", "error"}
        /\ \A q \in Requests \ {r} : gateway'[q] = gateway[q]
        /\ UNCHANGED <<shim, stamps, clock>>
    BY <1>5, ServeStep
  <2> QED
    BY <1>0, <2>1, OthersClock DEF ClockInv
<1>6. ASSUME NEW r \in Requests, Admit(r) \/ Limit(r) PROVE ClockInv'
  <2>1. /\ gateway[r] = "check" /\ gateway'[r] \in {"admitted", "limited"}
        /\ \A q \in Requests \ {r} : gateway'[q] = gateway[q]
        /\ UNCHANGED <<shim, stamps, clock>>
    BY <1>6, LimiterStep
  <2> QED
    BY <1>0, <2>1, OthersClock DEF ClockInv
<1>7. CASE Tick
  <2>1. /\ clock' = clock + 1 /\ UNCHANGED <<shim, gateway, stamps>>
        /\ \A r \in Requests : OnTime(r)
    BY <1>7 DEF Tick, pacing
  <2>2. ASSUME NEW r \in Requests
        PROVE  /\ shim[r].at \in Int
               /\ shim[r].step \in {"slot", "send"} =>
                    shim[r].at <= clock + 1 /\ clock + 1 <= shim[r].at + Delay
               /\ shim[r].step \in {"wait", "done"} => shim[r].at <= clock + 1
               /\ shim[r].step = "wait" => gateway[r] # "none"
               /\ gateway[r] # "check"
               /\ ~(gateway[r] = "limited" /\ shim[r].step = "wait")
    BY <1>0, <2>1 DEF OnTime, ClockInv
  <2>3. \A n \in DOMAIN stamps : stamps[n] <= clock + 1
    <3>1. \A n \in DOMAIN stamps : stamps[n] \in Nat
      BY DEF DeliveryTypes
    <3> QED
      BY <1>0, <3>1
  <2> QED
    BY <2>1, <2>2, <2>3 DEF ClockInv
<1>8. ASSUME NEW r \in Requests, Collect(r) PROVE ClockInv'
  BY <1>8 DEF Collect, Refuse, Store, ClockInv, pacing
<1>9. CASE UNCHANGED deliveryVars
  BY <1>9 DEF deliveryVars, ClockInv
<1> QED
  BY <1>1, <1>2, <1>3, <1>4, <1>5, <1>6, <1>7, <1>8, <1>9 DEF DeliveryNext, Work, Serve

-----------------------------------------------------------------------------
(* Delivery: the times of the submissions *)

LEMMA InitOnClock == DeliveryInit => OnClock
  BY DEF DeliveryInit, OnClock

\* A step of one thread of the shim that sends nothing.
LEMMA OthersOnClock ==
  ASSUME OnClock, NEW r \in Requests, \A q \in Requests \ {r} : shim'[q] = shim[q],
         UNCHANGED <<stamps, posted, clock>>,
         shim'[r].step \in {"slot", "send"} =>
           shim'[r].at <= clock /\ clock <= shim'[r].at + Delay
  PROVE  OnClock'
<1>1. ASSUME NEW q \in Requests, shim'[q].step \in {"slot", "send"}
      PROVE  shim'[q].at <= clock /\ clock <= shim'[q].at + Delay
  <2>1. CASE q = r
    BY <1>1, <2>1
  <2>2. CASE q # r
    <3>1. shim'[q] = shim[q]
      BY <2>2
    <3> QED
      BY <1>1, <3>1 DEF OnClock
  <2> QED
    BY <2>1, <2>2
<1> QED
  BY <1>1 DEF OnClock

LEMMA NextOnClock == DeliveryTypes /\ OnClock /\ [DeliveryNext]_deliveryVars => OnClock'
<1> SUFFICES ASSUME DeliveryTypes, OnClock, [DeliveryNext]_deliveryVars PROVE OnClock'
  OBVIOUS
<1>0. clock \in Nat /\ clock \in Moments /\ Delay \in Nat
  BY DeliveryAssumption DEF DeliveryTypes, Moments
<1>1. ASSUME NEW r \in Requests, Submit(r) \/ ReadClock(r) \/ Awake(r) PROVE OnClock'
  <2>1. To(r, "new", clock) \/ To(r, "slot", clock)
    BY <1>1 DEF Submit, ReadClock, Awake
  <2>2. shim'[r].at = clock /\ \A q \in Requests \ {r} : shim'[q] = shim[q]
    BY <1>0, <2>1, ToTypes DEF Steps
  <2>3. UNCHANGED <<stamps, posted, clock>>
    BY <1>1 DEF Submit, ReadClock, Awake, pacing
  <2> QED
    BY <1>0, <2>2, <2>3, OthersOnClock
<1>2. ASSUME NEW r \in Requests, Slot(r) PROVE OnClock'
  <2> DEFINE now == shim[r].at
             at == clock + Kept(now)[1] + Window - now
  <2>1. /\ now \in Nat /\ now \in Moments /\ now <= clock /\ clock <= now + Delay
        /\ shim[r].step = "slot" /\ UNCHANGED <<stamps, posted, clock>>
    BY <1>2 DEF Slot, DeliveryTypes, Moments, OnClock
  <2>2. CASE Room(now)
    <3>1. To(r, "send", now)
      BY <1>2, <2>2 DEF Slot
    <3>2. shim'[r].at = now /\ \A q \in Requests \ {r} : shim'[q] = shim[q]
      BY <2>1, <3>1, ToTypes DEF Steps
    <3> QED
      BY <2>1, <3>2, OthersOnClock
  <2>3. CASE ~Room(now)
    <3>1. To(r, "sleep", at) /\ at \in Moments
      BY <1>2, <2>1, <2>3, SlotMoment DEF Slot
    <3> HIDE DEF at
    <3>2. shim'[r].step = "sleep" /\ \A q \in Requests \ {r} : shim'[q] = shim[q]
      BY <3>1, ToTypes DEF Steps
    <3> QED
      BY <2>1, <3>2, OthersOnClock
  <2> QED
    BY <2>2, <2>3
<1>3. ASSUME NEW r \in Requests, Send(r) PROVE OnClock'
  <2> DEFINE at == shim[r].at
             n == Len(stamps) + 1
  <2>1. /\ shim[r].step = "send" /\ shim'[r].step = "wait" /\ at \in Nat
        /\ \A q \in Requests \ {r} : shim'[q] = shim[q]
        /\ stamps' = Append(stamps, at) /\ posted' = Append(posted, clock) /\ clock' = clock
    BY <1>3, SendStep
  <2>2. /\ stamps \in Seq(Nat) /\ posted \in Seq(Nat) /\ Len(posted) = Len(stamps)
        /\ at <= clock /\ clock <= at + Delay
    BY <2>1 DEF DeliveryTypes, OnClock
  <2> HIDE DEF at
  <2>3. /\ DOMAIN stamps = 1..Len(stamps) /\ DOMAIN stamps' = 1..n /\ Len(stamps) \in Nat
        /\ Len(posted') = Len(stamps') /\ stamps'[n] = at /\ posted'[n] = clock
        /\ \A i \in 1..Len(stamps) : stamps'[i] = stamps[i] /\ posted'[i] = posted[i]
    BY <2>1, <2>2
  <2>4. ASSUME NEW i \in DOMAIN stamps'
        PROVE  stamps'[i] <= posted'[i] /\ posted'[i] <= stamps'[i] + Delay
    <3>1. CASE i = n
      BY <2>2, <2>3, <3>1
    <3>2. CASE i # n
      <4>1. i \in 1..Len(stamps) /\ i \in DOMAIN stamps
        BY <2>3, <3>2
      <4> QED
        BY <2>3, <4>1 DEF OnClock
    <3> QED
      BY <3>1, <3>2
  <2>5. ASSUME NEW q \in Requests, shim'[q].step \in {"slot", "send"}
        PROVE  shim'[q].at <= clock /\ clock <= shim'[q].at + Delay
    <3>1. q # r
      BY <2>1, <2>5
    <3>2. shim'[q] = shim[q]
      BY <2>1, <3>1
    <3> QED
      BY <2>5, <3>2 DEF OnClock
  <2> QED
    BY <2>1, <2>3, <2>4, <2>5 DEF OnClock
<1>4. ASSUME NEW r \in Requests, Answer(r) \/ Lost(r) PROVE OnClock'
  <2>1. /\ shim'[r].step \in {"sleep", "done"} /\ \A q \in Requests \ {r} : shim'[q] = shim[q]
        /\ UNCHANGED <<stamps, posted, clock>>
    <3>1. CASE Answer(r) /\ Retry(r)
      BY <3>1 DEF Answer, DeliveryTypes, Shims, pacing
    <3>2. CASE Answer(r) /\ ~Retry(r)
      BY <3>2 DEF Answer, DeliveryTypes, Shims, pacing
    <3>3. CASE Lost(r)
      BY <3>3 DEF Lost, DeliveryTypes, Shims, pacing
    <3> QED
      BY <1>4, <3>1, <3>2, <3>3
  <2> QED
    BY <2>1, OthersOnClock
<1>5. ASSUME NEW r \in Requests, Serve(r) \/ GiveUp(r) \/ Collect(r) PROVE OnClock'
  <2>1. UNCHANGED <<shim, stamps, posted, clock>>
    BY <1>5 DEF Serve, Admit, Limit, Judge, Reply, GiveUp, Collect, Refuse, Store, pacing
  <2> QED
    BY <2>1 DEF OnClock
<1>6. CASE Tick
  <2>1. clock' = clock + 1 /\ UNCHANGED <<shim, stamps, posted>> /\ \A r \in Requests : OnTime(r)
    BY <1>6 DEF Tick, pacing
  <2>2. ASSUME NEW r \in Requests, shim[r].step \in {"slot", "send"}
        PROVE  shim[r].at <= clock + 1 /\ clock + 1 <= shim[r].at + Delay
    <3>1. clock < shim[r].at + Delay
      BY <2>1, <2>2 DEF OnTime
    <3>2. shim[r].at \in Nat /\ shim[r].at <= clock
      BY <2>2 DEF DeliveryTypes, OnClock
    <3> QED
      BY <1>0, <3>1, <3>2
  <2> QED
    BY <2>1, <2>2 DEF OnClock
<1>7. CASE UNCHANGED deliveryVars
  BY <1>7 DEF deliveryVars, OnClock
<1> QED
  BY <1>1, <1>2, <1>3, <1>4, <1>5, <1>6, <1>7 DEF DeliveryNext, Work

-----------------------------------------------------------------------------
(* Delivery: bursts *)

LEMMA InitBursts == DeliveryInit => BurstInv
<1> SUFFICES ASSUME DeliveryInit PROVE BurstInv
  OBVIOUS
<1>1. Pace \in Nat
  BY DeliveryAssumption
<1> QED
  BY <1>1, NoSlots DEF BurstInv

LEMMA SameBursts ==
  ASSUME BurstInv, DeliveryTypes, clock' \in Nat, clock <= clock', sent' = sent,
         \A from, upto \in Int : Slots(from, upto)' = Slots(from, upto)
  PROVE  BurstInv'
<1> SUFFICES ASSUME NEW from \in Int, NEW upto \in Int
             PROVE  /\ upto + Delay <= from + Window => Slots(from, upto)' <= Pace
                    /\ clock' < from + Window => Slots(from, upto)' <= Cardinality(Listed(from)')
  BY DEF BurstInv
<1>1. Listed(from)' = Listed(from) /\ Slots(from, upto)' = Slots(from, upto)
  BY DEF Listed
<1>2. clock \in Nat /\ Window \in Nat
  BY DeliveryAssumption DEF DeliveryTypes
<1>3. clock' < from + Window => clock < from + Window
  BY <1>2
<1> QED
  BY <1>1, <1>3 DEF BurstInv

\* A slot is given within the delay of its time, and then there was room.
LEMMA SlotBursts ==
  ASSUME DeliveryTypes, PaceInv, OnClock, BurstInv, NEW r \in Requests, Slot(r), Room(shim[r].at)
  PROVE  BurstInv'
<1> DEFINE now == shim[r].at
<1>1. /\ now \in Nat /\ clock \in Nat /\ Window \in Nat /\ Delay \in Nat /\ Pace \in Nat
      /\ now <= clock /\ clock <= now + Delay
      /\ sent' = Times(now) /\ clock' = clock
  BY DeliveryAssumption DEF Slot, DeliveryTypes, OnClock
<1>2. Room(now)
  OBVIOUS
<1>3. \A from, upto \in Int :
        Slots(from, upto)' = IF from <= now /\ now < upto
                             THEN Slots(from, upto) + 1 ELSE Slots(from, upto)
  BY TakeSlot
<1> HIDE DEF now
<1> SUFFICES ASSUME NEW from \in Int, NEW upto \in Int
             PROVE  /\ upto + Delay <= from + Window => Slots(from, upto)' <= Pace
                    /\ clock < from + Window => Slots(from, upto)' <= Cardinality(Listed(from)')
  BY <1>1 DEF BurstInv
<1>4. Slots(from, upto) \in Nat /\ Cardinality(Listed(from)) \in Nat
  BY Finite
<1>5. Slots(from, upto)' = IF from <= now /\ now < upto
                           THEN Slots(from, upto) + 1 ELSE Slots(from, upto)
  BY <1>3
<1>6. Len(Kept(now)) \in Nat /\ Len(Kept(now)) < Pace
  <2>1. Kept(now) \in Seq(Nat)
    BY <1>1, KeptOf
  <2> QED
    BY <1>2, <2>1 DEF Room
<1>7. ASSUME clock < from + Window
      PROVE  /\ Slots(from, upto) <= Cardinality(Listed(from))
             /\ Cardinality(Listed(from)) <= Len(Kept(now))
             /\ Cardinality(Listed(from)') \in Nat
             /\ Cardinality(Listed(from)) <= Cardinality(Listed(from)')
             /\ from <= now => Cardinality(Listed(from)) + 1 <= Cardinality(Listed(from)')
  <2>1. now < from + Window
    BY <1>1, <1>7
  <2>2. Listed(from)' = {i \in DOMAIN Times(now) : from <= Times(now)[i]}
    BY <1>1 DEF Listed
  <2>3. LET listed == {i \in DOMAIN Times(now) : from <= Times(now)[i]}
        IN  /\ Cardinality(Listed(from)) <= Len(Kept(now))
            /\ IsFiniteSet(listed) /\ Cardinality(listed) \in Nat
            /\ Cardinality(Listed(from)) <= Cardinality(listed)
            /\ from <= now => Cardinality(Listed(from)) + 1 <= Cardinality(listed)
    BY <1>1, <1>2, <2>1, ListedStay
  <2>4. Slots(from, upto) <= Cardinality(Listed(from))
    BY <1>7 DEF BurstInv
  <2> QED
    BY <2>2, <2>3, <2>4
<1>8. ASSUME upto + Delay <= from + Window PROVE Slots(from, upto)' <= Pace
  <2>1. Slots(from, upto) <= Pace
    BY <1>8 DEF BurstInv
  <2>2. CASE from <= now /\ now < upto
    <3>1. clock < from + Window
      BY <1>1, <1>8, <2>2
    <3> QED
      BY <1>1, <1>4, <1>5, <1>6, <1>7, <2>2, <3>1
  <2>3. CASE ~(from <= now /\ now < upto)
    BY <1>5, <2>1, <2>3
  <2> QED
    BY <2>2, <2>3
<1>9. ASSUME clock < from + Window PROVE Slots(from, upto)' <= Cardinality(Listed(from)')
  BY <1>4, <1>5, <1>7, <1>9
<1> QED
  BY <1>8, <1>9

LEMMA NextBursts ==
  DeliveryTypes /\ PaceInv /\ OnClock /\ BurstInv /\ [DeliveryNext]_deliveryVars => BurstInv'
<1> SUFFICES ASSUME DeliveryTypes, PaceInv, OnClock, BurstInv, [DeliveryNext]_deliveryVars
             PROVE  BurstInv'
  OBVIOUS
<1>0. clock \in Nat
  BY DEF DeliveryTypes
<1>1. ASSUME NEW r \in Requests, shim[r].step # "send", shim'[r].step # "send",
             \A q \in Requests \ {r} : shim'[q] = shim[q], UNCHANGED <<sent, stamps, clock>>
      PROVE  BurstInv'
  <2>1. \A from, upto \in Int : Slots(from, upto)' = Slots(from, upto)
    BY <1>1, SameSlots
  <2> QED
    BY <1>0, <1>1, <2>1, SameBursts
<1>2. ASSUME UNCHANGED <<sent, stamps, shim>>, clock' \in Nat, clock <= clock' PROVE BurstInv'
  <2>1. \A from, upto \in Int : Slots(from, upto)' = Slots(from, upto)
    BY <1>2 DEF Slots, Stamped, Due, Slotted
  <2> QED
    BY <1>2, <2>1, SameBursts
<1>3. ASSUME NEW r \in Requests, Submit(r) \/ ReadClock(r) \/ Awake(r) PROVE BurstInv'
  <2>1. shim[r].step # "send" /\ UNCHANGED <<sent, stamps, clock>>
    BY <1>3 DEF Submit, ReadClock, Awake, pacing
  <2>2. shim'[r].step # "send" /\ \A q \in Requests \ {r} : shim'[q] = shim[q]
    <3>1. To(r, "new", clock) \/ To(r, "slot", clock)
      BY <1>3 DEF Submit, ReadClock, Awake
    <3>2. clock \in Moments
      BY <1>0 DEF Moments
    <3>3. /\ shim'[r].step \in {"new", "slot"}
          /\ \A q \in Requests \ {r} : shim'[q] = shim[q]
      BY <1>0, <3>1, <3>2, ToTypes DEF Steps
    <3> QED
      BY <3>3
  <2> QED
    BY <1>1, <2>1, <2>2
<1>4. ASSUME NEW r \in Requests, Slot(r) PROVE BurstInv'
  <2> DEFINE now == shim[r].at
  <2>1. now \in Nat /\ shim[r].step = "slot" /\ clock' = clock /\ stamps' = stamps
    BY <1>4 DEF Slot, DeliveryTypes
  <2>2. CASE ~Room(now)
    <3>1. sent' = sent
      BY <1>4, <2>1, <2>2, FullKeepsAll DEF Slot
    <3>2. /\ To(r, "sleep", clock + Kept(now)[1] + Window - now)
          /\ clock + Kept(now)[1] + Window - now \in Moments
      BY <1>4, <2>1, <2>2, SlotMoment DEF Slot
    <3>3. shim'[r].step = "sleep" /\ \A q \in Requests \ {r} : shim'[q] = shim[q]
      BY <3>2, ToTypes DEF Steps
    <3> QED
      BY <1>1, <2>1, <3>1, <3>3
  <2>3. CASE Room(now)
    BY <1>4, <2>3, SlotBursts
  <2> QED
    BY <2>2, <2>3
<1>5. ASSUME NEW r \in Requests, Send(r) PROVE BurstInv'
  <2>1. /\ \A from, upto \in Int : Slots(from, upto)' = Slots(from, upto)
        /\ sent' = sent /\ clock' = clock
    BY <1>5, SendSlots DEF Send
  <2> QED
    BY <1>0, <2>1, SameBursts
<1>6. ASSUME NEW r \in Requests, Answer(r) \/ Lost(r) PROVE BurstInv'
  <2>1. shim[r].step = "wait" /\ UNCHANGED <<sent, stamps, clock>>
    BY <1>6 DEF Answer, Lost, pacing
  <2>2. shim'[r].step # "send" /\ \A q \in Requests \ {r} : shim'[q] = shim[q]
    <3>1. CASE Answer(r) /\ Retry(r)
      BY <3>1 DEF Answer, DeliveryTypes, Shims
    <3>2. CASE (Answer(r) /\ ~Retry(r)) \/ Lost(r)
      BY <3>2, EndStep
    <3> QED
      BY <1>6, <3>1, <3>2
  <2> QED
    BY <1>1, <2>1, <2>2
<1>7. ASSUME NEW r \in Requests, Serve(r) \/ GiveUp(r) \/ Collect(r) PROVE BurstInv'
  <2>1. UNCHANGED <<sent, stamps, shim, clock>>
    BY <1>7 DEF Serve, Admit, Limit, Judge, Reply, GiveUp, Collect, Refuse, Store, pacing
  <2> QED
    BY <1>0, <1>2, <2>1
<1>8. CASE Tick
  BY <1>0, <1>2, <1>8 DEF Tick, pacing
<1>9. CASE UNCHANGED deliveryVars
  BY <1>0, <1>2, <1>9 DEF deliveryVars
<1> QED
  BY <1>3, <1>4, <1>5, <1>6, <1>7, <1>8, <1>9 DEF DeliveryNext, Work

\* Submissions sent together hold slots of a stretch that begins by the delay
\* earlier and ends with them.
LEMMA SentSlots ==
  ASSUME DeliveryTypes, PaceInv, OnClock, NEW i \in DOMAIN posted, NEW less \in Nat,
         NEW from \in Int, NEW upto \in Int, from <= posted[i] - Delay \/ from = 0,
         posted[i] + Window - less <= upto
  PROVE  /\ Cardinality(SentTogether(i, less)) \in Nat
         /\ Cardinality(SentTogether(i, less)) <= Slots(from, upto)
<1>1. /\ Window \in Nat /\ Delay \in Nat /\ DOMAIN posted = DOMAIN stamps
      /\ \A j \in DOMAIN posted : posted[j] \in Nat /\ stamps[j] \in Nat
  <2>1. posted \in Seq(Nat) /\ stamps \in Seq(Nat) /\ Len(posted) = Len(stamps)
    BY DEF DeliveryTypes, OnClock
  <2>2. Window \in Nat /\ Delay \in Nat
    BY DeliveryAssumption
  <2>3. DOMAIN posted = 1..Len(posted) /\ \A j \in 1..Len(posted) : posted[j] \in Nat
    BY <2>1
  <2>4. DOMAIN stamps = 1..Len(stamps) /\ \A j \in 1..Len(stamps) : stamps[j] \in Nat
    BY <2>1
  <2> QED
    BY <2>1, <2>2, <2>3, <2>4
<1>2. \A j \in DOMAIN posted : stamps[j] <= posted[j] /\ posted[j] <= stamps[j] + Delay
  BY <1>1 DEF OnClock
<1>3. SentTogether(i, less) \in SUBSET Stamped(from, upto)
  <2> SUFFICES ASSUME NEW j \in DOMAIN posted,
                      posted[i] <= posted[j], posted[j] + less < posted[i] + Window
               PROVE  j \in DOMAIN stamps /\ from <= stamps[j] /\ stamps[j] < upto
    BY DEF SentTogether, Stamped
  <2> QED
    BY <1>1, <1>2
<1>4. /\ IsFiniteSet(Stamped(from, upto)) /\ Cardinality(Stamped(from, upto)) \in Nat
      /\ Cardinality(Due(from, upto)) \in Nat
  BY Finite
<1>5. /\ IsFiniteSet(SentTogether(i, less))
      /\ Cardinality(SentTogether(i, less)) <= Cardinality(Stamped(from, upto))
  BY <1>3, <1>4, FS_Subset
<1>6. Cardinality(SentTogether(i, less)) \in Nat
  BY <1>5, FS_CardinalityType
<1> QED
  BY <1>4, <1>5, <1>6 DEF Slots

\* For any pace, window, delay, number of results and threads:
\* wait_for_result_send_slot lets no stretch that is shorter than the window by
\* the delay between reading the clock and sending hold more submissions than
\* the cap, those sent again included, as long as no thread takes a slot with
\* a clock older than another's; and none that is shorter by twice the delay,
\* whatever the order of the slots.
THEOREM AlwaysPaced == DeliverySpec => []Paced
<1>1. DeliveryInit => DeliveryTypes /\ PaceInv /\ OnClock /\ BurstInv
  BY InitDelivery, InitPace, InitOnClock, InitBursts
<1>2. /\ DeliveryTypes /\ PaceInv /\ OnClock /\ BurstInv /\ [DeliveryNext]_deliveryVars
      => DeliveryTypes' /\ PaceInv' /\ OnClock' /\ BurstInv'
  BY NextDelivery, NextPace, NextOnClock, NextBursts
<1>3. DeliveryTypes /\ PaceInv /\ OnClock /\ BurstInv => Paced
  <2> SUFFICES ASSUME DeliveryTypes, PaceInv, OnClock, BurstInv, NEW i \in DOMAIN posted
               PROVE  /\ ~misordered => Cardinality(SentTogether(i, Delay)) <= Pace
                      /\ Cardinality(SentTogether(i, 2 * Delay)) <= Pace
    BY DEF Paced
  <2>1. posted[i] \in Nat /\ Window \in Nat /\ Delay \in Nat /\ Pace \in Nat
    BY DeliveryAssumption DEF DeliveryTypes
  <2>2. ASSUME ~misordered PROVE Cardinality(SentTogether(i, Delay)) <= Pace
    <3> DEFINE from == IF Delay <= posted[i] THEN posted[i] - Delay ELSE 0
    <3>1. /\ from \in Nat /\ from \in Int /\ from + Window \in Int
          /\ from <= posted[i] - Delay \/ from = 0
          /\ posted[i] + Window - Delay <= from + Window
      BY <2>1
    <3> HIDE DEF from
    <3>2. Slots(from, from + Window) <= Pace
      BY <2>2, <3>1 DEF PaceInv
    <3>3. /\ Cardinality(SentTogether(i, Delay)) \in Nat
          /\ Cardinality(SentTogether(i, Delay)) <= Slots(from, from + Window)
      BY <2>1, <3>1, SentSlots
    <3>4. Slots(from, from + Window) \in Nat
      BY <3>1, Finite
    <3> QED
      BY <2>1, <3>2, <3>3, <3>4
  <2>3. Cardinality(SentTogether(i, 2 * Delay)) <= Pace
    <3> DEFINE from == posted[i] - Delay
               upto == posted[i] + Window - 2 * Delay
               less == 2 * Delay
    <3>1. /\ from \in Int /\ upto \in Int /\ less \in Nat /\ upto + Delay <= from + Window
          /\ from <= posted[i] - Delay /\ posted[i] + Window - less <= upto
      BY <2>1
    <3> HIDE DEF from, upto, less
    <3>2. Slots(from, upto) <= Pace
      BY <3>1 DEF BurstInv
    <3>3. /\ Cardinality(SentTogether(i, less)) \in Nat
          /\ Cardinality(SentTogether(i, less)) <= Slots(from, upto)
      BY <3>1, SentSlots
    <3>4. Slots(from, upto) \in Nat
      BY <3>1, Finite
    <3> QED
      BY <2>1, <3>2, <3>3, <3>4 DEF less
  <2> QED
    BY <2>2, <2>3
<1> QED
  BY <1>1, <1>2, <1>3, PTL DEF DeliverySpec

-----------------------------------------------------------------------------
(* Delivery: the limiter's list *)

\* The limiter's module counts as this one does.
LEMMA SameCount == \A S : Limiter!Cardinality(S) = Cardinality(S)
  BY DEF Limiter!Cardinality, Cardinality

\* What Entries returns: the entries at the indices, each of them once.
LEMMA EntriesCount ==
  ASSUME NEW list \in Seq(Int), NEW kept \in SUBSET (1..Len(list))
  PROVE  /\ Limiter!Entries(list, kept) \in Seq(Int)
         /\ Len(Limiter!Entries(list, kept)) = Cardinality(kept)
         /\ Cardinality(kept) \in Nat
         /\ \A x \in Int : Cardinality(ListedFrom(Limiter!Entries(list, kept), x))
                             <= Cardinality({i \in kept : x <= list[i]})
<1> DEFINE rank(i) == Limiter!Cardinality({j \in kept : j <= i})
           size == Limiter!Cardinality(kept)
           chosen(n) == CHOOSE i \in kept : rank(i) = n
           entries == Limiter!Entries(list, kept)
<1>0. size = Cardinality(kept) /\ \A i : rank(i) = Cardinality({j \in kept : j <= i})
  BY SameCount
<1> HIDE DEF rank, size
<1>1. kept \in SUBSET Nat /\ IsFiniteSet(kept) /\ size \in Nat
  <2>1. Len(list) \in Nat
    OBVIOUS
  <2>2. IsFiniteSet(1..Len(list))
    BY <2>1, Intervals, Zenon
  <2>3. IsFiniteSet(kept)
    BY <2>2, FS_Subset
  <2>4. kept \in SUBSET Nat
    BY <2>1
  <2> QED
    BY <1>0, <2>3, <2>4, FS_CardinalityType
<1>2. \A i \in kept : rank(i) \in 1..size
  <2> TAKE i \in kept
  <2> DEFINE upTo == {j \in kept : j <= i}
  <2>1. upTo \in SUBSET kept /\ i \in upTo
    BY <1>1
  <2>2. IsFiniteSet(upTo) /\ Cardinality(upTo) \in Nat /\ Cardinality(upTo) <= size
    BY <1>0, <1>1, <2>1, FS_Subset, FS_CardinalityType
  <2>3. Cardinality(upTo) # 0
    BY <2>1, <2>2, FS_EmptySet
  <2> HIDE DEF upTo
  <2>4. Cardinality(upTo) \in 1..size
    BY <1>1, <2>2, <2>3
  <2> QED
    BY <1>0, <2>4 DEF upTo
<1>3. \A i, j \in kept : i < j => rank(i) < rank(j)
  <2> SUFFICES ASSUME NEW i \in kept, NEW j \in kept, i < j PROVE rank(i) < rank(j)
    OBVIOUS
  <2> DEFINE low == {k \in kept : k <= i}
             high == {k \in kept : k <= j}
  <2>1. low \cup {j} \in SUBSET high /\ j \notin low /\ high \in SUBSET kept /\ low \in SUBSET kept
    <3>1. i \in Nat /\ j \in Nat /\ \A k \in kept : k \in Nat /\ (k <= i => k <= j)
      BY <1>1
    <3>2. j <= j /\ ~(j <= i)
      BY <3>1
    <3> QED
      BY <3>1, <3>2
  <2> HIDE DEF low, high
  <2>2. IsFiniteSet(low) /\ IsFiniteSet(high) /\ Cardinality(low) \in Nat /\ Cardinality(high) \in Nat
    BY <1>1, <2>1, FS_Subset, FS_CardinalityType
  <2>3. Cardinality(low \cup {j}) = Cardinality(low) + 1
    BY <2>1, <2>2, FS_AddElement
  <2>4. Cardinality(low \cup {j}) <= Cardinality(high)
    BY <2>1, <2>2, FS_Subset
  <2>5. Cardinality(low) < Cardinality(high)
    BY <2>2, <2>3, <2>4
  <2> QED
    BY <1>0, <2>5 DEF low, high
<1>4. \A n \in 1..size : \E i \in kept : rank(i) = n
  <2> DEFINE f == [i \in kept |-> rank(i)]
  <2>1. \A i, j \in kept : rank(i) = rank(j) => i = j
    <3> SUFFICES ASSUME NEW i \in kept, NEW j \in kept, rank(i) = rank(j) PROVE i = j
      OBVIOUS
    <3>1. ~(i < j) /\ ~(j < i)
      <4>1. rank(i) \in Nat /\ rank(j) \in Nat
        BY <1>1, <1>2
      <4> QED
        BY <1>3, <4>1
    <3> QED
      BY <1>1, <3>1
  <2>2. f \in Injection(kept, 1..size)
    BY <1>2, <2>1, Zenon DEF Injection, IsInjective
  <2>3. IsFiniteSet(1..size) /\ Cardinality(1..size) = size
    BY <1>1, Intervals
  <2>4. f \in Surjection(kept, 1..size)
    BY <1>0, <2>2, <2>3, FS_Injection, Zenon
  <2> QED
    BY <2>4 DEF Surjection
<1>5. \A n \in 1..size : chosen(n) \in kept /\ rank(chosen(n)) = n
  BY <1>4
<1>6. entries = [n \in 1..size |-> list[chosen(n)]]
  BY DEF Limiter!Entries, rank, size
<1> HIDE DEF chosen, entries
<1>7. \A n \in 1..size : entries[n] = list[chosen(n)] /\ list[chosen(n)] \in Int
  <2> TAKE n \in 1..size
  <2>1. chosen(n) \in 1..Len(list)
    BY <1>5
  <2>2. list[chosen(n)] \in Int
    BY <2>1
  <2> QED
    BY <1>6, <2>2
<1>8. entries \in Seq(Int) /\ Len(entries) = size /\ DOMAIN entries = 1..size
  BY <1>1, <1>6, <1>7
<1>9. ASSUME NEW x \in Int
      PROVE  Cardinality(ListedFrom(entries, x)) <= Cardinality({i \in kept : x <= list[i]})
  <2> DEFINE S == ListedFrom(entries, x)
             T == {i \in kept : x <= list[i]}
             f == [n \in S |-> chosen(n)]
  <2>1. S \in SUBSET (1..size) /\ \A n \in S : x <= list[chosen(n)]
    BY <1>7, <1>8 DEF ListedFrom
  <2>2. \A n \in S : chosen(n) \in T
    BY <1>5, <2>1
  <2>3. \A m, n \in S : chosen(m) = chosen(n) => m = n
    <3> SUFFICES ASSUME NEW m \in S, NEW n \in S, chosen(m) = chosen(n) PROVE m = n
      OBVIOUS
    <3>1. rank(chosen(m)) = m /\ rank(chosen(n)) = n
      BY <1>5, <2>1
    <3> QED
      BY <3>1
  <2>4. IsFiniteSet(T)
    BY <1>1, FS_Subset
  <2> HIDE DEF S, T
  <2>5. f \in Injection(S, T)
    BY <2>2, <2>3, Zenon DEF Injection, IsInjective
  <2>6. Cardinality(S) <= Cardinality(T)
    BY <2>4, <2>5, FS_Injection
  <2> QED
    BY <2>6 DEF S, T
<1> QED
  BY <1>0, <1>1, <1>8, <1>9 DEF entries

\* What the limiter takes of its list: no more than there is, and no entry that
\* has left the window.
LEMMA RecentOf ==
  ASSUME List \in Seq(Int), NEW r \in Requests, shim[r].at \in Int
  PROVE  /\ Recent(r) \in Seq(Int)
         /\ Len(Recent(r)) <= Cardinality(ListedFrom(List, shim[r].at - Window))
         /\ \A x \in Int : Cardinality(ListedFrom(Recent(r), x)) <= Cardinality(ListedFrom(List, x))
<1> DEFINE now == shim[r].at
           kept == {i \in DOMAIN List : List[i] + Window >= now}
<1>0. /\ Window \in Nat /\ now \in Int /\ Len(List) \in Nat /\ DOMAIN List = 1..Len(List)
      /\ \A i \in DOMAIN List : List[i] \in Int
  BY DeliveryAssumption
<1>1. CASE Receipts \in Limiter!Live(now)
  <2>1. List = events[Receipts]
    BY <1>1 DEF Limiter!Live, List
  <2>2. Recent(r) = Limiter!Entries(List, kept)
    BY <1>1, <2>1 DEF Recent, Limiter!Recent
  <2> HIDE DEF now
  <2>3. kept \in SUBSET (1..Len(List))
    BY <1>0
  <2>4. kept = ListedFrom(List, now - Window)
    BY <1>0 DEF ListedFrom
  <2>5. /\ Recent(r) \in Seq(Int) /\ Len(Recent(r)) = Cardinality(kept) /\ Cardinality(kept) \in Nat
        /\ \A x \in Int : Cardinality(ListedFrom(Recent(r), x)) <= Cardinality({i \in kept : x <= List[i]})
    BY <2>2, <2>3, EntriesCount
  <2>6. ASSUME NEW x \in Int
        PROVE  Cardinality(ListedFrom(Recent(r), x)) <= Cardinality(ListedFrom(List, x))
    <3>1. {i \in kept : x <= List[i]} \in SUBSET ListedFrom(List, x)
      BY DEF ListedFrom
    <3>2. IsFiniteSet(ListedFrom(List, x)) /\ Cardinality(ListedFrom(List, x)) \in Nat
      BY FiniteListed
    <3>3. /\ Cardinality({i \in kept : x <= List[i]}) <= Cardinality(ListedFrom(List, x))
          /\ Cardinality({i \in kept : x <= List[i]}) \in Nat
      BY <3>1, <3>2, FS_Subset, FS_CardinalityType
    <3>4. Cardinality(ListedFrom(Recent(r), x)) \in Nat
      BY <2>5, FiniteListed
    <3>5. Cardinality(ListedFrom(Recent(r), x)) <= Cardinality({i \in kept : x <= List[i]})
      BY <2>5
    <3> HIDE DEF kept
    <3> QED
      BY <3>2, <3>3, <3>4, <3>5
  <2> QED
    <3>1. Len(Recent(r)) <= Cardinality(ListedFrom(List, now - Window))
      <4>1. Len(Recent(r)) = Cardinality(kept) /\ Cardinality(kept) \in Nat
        BY <2>5
      <4> HIDE DEF kept
      <4> QED
        BY <2>4, <4>1
    <3> HIDE DEF kept
    <3> QED
      BY <2>5, <2>6, <3>1 DEF now
<1>2. CASE ~(Receipts \in Limiter!Live(now))
  <2>1. Recent(r) = <<>>
    BY <1>2 DEF Recent, Limiter!Recent
  <2>2. \A x \in Int : ListedFrom(Recent(r), x) = {}
    BY <2>1 DEF ListedFrom
  <2> HIDE DEF now
  <2>3. \A x \in Int : Cardinality(ListedFrom(List, x)) \in Nat
    BY FiniteListed
  <2>4. Len(Recent(r)) = 0 /\ Recent(r) \in Seq(Int) /\ now - Window \in Int
    BY <1>0, <2>1
  <2>5. \A x \in Int : Cardinality(ListedFrom(Recent(r), x)) = 0
    BY <2>2, FS_EmptySet
  <2> QED
    <3>1. Len(Recent(r)) <= Cardinality(ListedFrom(List, now - Window))
      BY <2>3, <2>4
    <3>2. \A x \in Int : Cardinality(ListedFrom(Recent(r), x)) <= Cardinality(ListedFrom(List, x))
      BY <2>3, <2>5
    <3> QED
      BY <2>4, <3>1, <3>2 DEF now
<1> QED
  BY <1>1, <1>2

-----------------------------------------------------------------------------
(* Delivery: who is let in *)

\* What a request was let in with stays, whatever another does.
LEMMA OthersReached ==
  ASSUME NEW r \in Requests,
         \A q \in Requests \ {r} : shim'[q] = shim[q] /\ gateway'[q] = gateway[q]
  PROVE  /\ Accepted' \ {r} = Accepted \ {r}
         /\ Reached' \ {r} = Reached \ {r}
         /\ \A q \in Reached' \ {r} : shim'[q].at = shim[q].at
<1>1. Accepted' \ {r} = Accepted \ {r}
  BY DEF Accepted
<1>2. Asking' \ {r} = Asking \ {r}
  BY DEF Asking
<1> QED
  BY <1>1, <1>2 DEF Reached, Accepted, Asking

\* A step that lets nobody in, and by which nobody arrives.
Settled ==
  /\ Accepted' = Accepted
  /\ Reached' \subseteq Reached
  /\ \A q \in Reached' : shim'[q].at = shim[q].at

LEMMA SettledSteps ==
  ASSUME FittingSettings, DeliveryTypes, StoreInv, ClockInv, [DeliveryNext]_deliveryVars,
         \A r \in Requests : ~Send(r) /\ ~Admit(r)
  PROVE  Settled
<1>1. ASSUME NEW r \in Requests, Submit(r) \/ ReadClock(r) \/ Slot(r) \/ Awake(r) PROVE Settled
  <2>1. Quiet(r)
    BY <1>1, QuietSteps
  <2>2. /\ gateway[r] = "none" /\ gateway'[r] = "none"
        /\ shim[r].step # "done" /\ shim'[r].step # "done"
        /\ \A q \in Requests \ {r} : shim'[q] = shim[q] /\ gateway'[q] = gateway[q]
    BY <2>1 DEF Quiet, StoreInv, Consistent
  <2>3. r \notin Reached /\ r \notin Reached'
    BY <2>2 DEF Reached, Accepted, Asking
  <2>4. /\ Accepted' \ {r} = Accepted \ {r} /\ Reached' \ {r} = Reached \ {r}
        /\ \A q \in Reached' \ {r} : shim'[q].at = shim[q].at
    BY <2>2, OthersReached
  <2>5. r \notin Accepted /\ r \notin Accepted'
    BY <2>3 DEF Reached
  <2>6. Accepted' = Accepted /\ Reached' = Reached
    BY <2>3, <2>4, <2>5
  <2>7. \A q \in Reached' : shim'[q].at = shim[q].at
    BY <2>3, <2>4
  <2> QED
    BY <2>6, <2>7 DEF Settled
<1>2. ASSUME NEW r \in Requests, Answer(r), Retry(r) PROVE Settled
  <2>1. /\ gateway[r] = "limited" /\ shim'[r].step = "sleep" /\ gateway'[r] = "none"
        /\ \A q \in Requests \ {r} : shim'[q] = shim[q] /\ gateway'[q] = gateway[q]
    BY <1>2, RetryStep
  <2>2. r \notin Accepted /\ r \notin Accepted' /\ r \notin Reached'
    BY <2>1 DEF Reached, Accepted, Asking
  <2>3. /\ Accepted' \ {r} = Accepted \ {r} /\ Reached' \ {r} = Reached \ {r}
        /\ \A q \in Reached' \ {r} : shim'[q].at = shim[q].at
    BY <2>1, OthersReached
  <2> QED
    BY <2>2, <2>3 DEF Settled
<1>3. ASSUME NEW r \in Requests, (Answer(r) /\ ~Retry(r)) \/ Lost(r) PROVE Settled
  <2>1. /\ shim[r].step = "wait" /\ shim'[r].step = "done" /\ shim'[r].at = shim[r].at
        /\ \/ gateway' = gateway /\ shim'[r].answer = "error"
           \/ gateway[r] \in Answers /\ gateway'[r] = "none" /\ shim'[r].answer = gateway[r]
        /\ \A q \in Requests \ {r} : shim'[q] = shim[q] /\ gateway'[q] = gateway[q]
    BY <1>3, EndStep
  <2>2. gateway[r] # "none"
    BY <2>1 DEF ClockInv
  <2>3. (r \in Accepted' <=> r \in Accepted) /\ (r \in Reached' => r \in Reached)
    BY <2>1, <2>2 DEF Reached, Accepted, Asking, Answers
  <2> QED
    BY <2>1, <2>3, OthersReached DEF Settled
<1>4. ASSUME NEW r \in Requests, Judge(r) \/ Reply(r) \/ GiveUp(r) PROVE Settled
  <2>1. /\ gateway[r] \in {"admitted", "forward", "notify"} /\ shim' = shim
        /\ gateway'[r] \in {"forward", "notify", "ok", "blocked", "error"}
        /\ \A q \in Requests \ {r} : gateway'[q] = gateway[q]
    BY <1>4, ServeStep
  <2>2. r \in Accepted /\ r \in Accepted'
    BY <2>1 DEF Accepted
  <2> QED
    BY <2>1, <2>2, OthersReached DEF Settled, Reached
<1>5. ASSUME NEW r \in Requests, Limit(r) PROVE Settled
  <2>1. /\ gateway[r] = "check" /\ shim' = shim /\ gateway'[r] = "limited"
        /\ \A q \in Requests \ {r} : gateway'[q] = gateway[q]
    BY <1>5 DEF Limit, Becomes, DeliveryTypes
  <2>2. r \notin Accepted /\ r \notin Accepted' /\ r \in Reached
    BY <2>1 DEF Accepted, Asking, Reached
  <2> QED
    BY <2>1, <2>2, OthersReached DEF Settled
<1>6. ASSUME UNCHANGED <<shim, gateway>> PROVE Settled
  BY <1>6 DEF Settled, Reached, Accepted, Asking
<1>7. ASSUME NEW r \in Requests, Collect(r) PROVE Settled
  BY <1>6, <1>7 DEF Collect, Refuse, Store
<1>8. CASE Tick
  BY <1>6, <1>8 DEF Tick
<1>9. CASE UNCHANGED deliveryVars
  BY <1>6, <1>9 DEF deliveryVars
<1> QED
  BY <1>1, <1>2, <1>3, <1>4, <1>5, <1>7, <1>8, <1>9 DEF DeliveryNext, Work, Serve

LEMMA InitReached == DeliveryInit => ReachedInv
<1> SUFFICES ASSUME DeliveryInit PROVE ReachedInv
  OBVIOUS
<1>1. Accepted = {} /\ Reached = {} /\ stamps = <<>>
  BY DEF DeliveryInit, Reached, Accepted, Asking
<1>2. List = <<>>
  BY DEF DeliveryInit, List, Limiter!Empty
<1>3. Cardinality({}) = 0
  BY FS_EmptySet
<1>4. ASSUME NEW x \in Int
      PROVE  /\ Cardinality(ReachedFrom(x)) <= Cardinality(StampedFrom(x - Delay))
             /\ Cardinality(ListedFrom(List, x)) <= Cardinality(AcceptedFrom(x))
  <2>1. ReachedFrom(x) = {} /\ AcceptedFrom(x) = {} /\ ListedFrom(List, x) = {}
    BY <1>1, <1>2 DEF ReachedFrom, AcceptedFrom, ListedFrom
  <2>2. StampedFrom(x - Delay) = {}
    BY <1>1 DEF StampedFrom
  <2> QED
    BY <1>3, <2>1, <2>2
<1>5. List \in Seq(Int)
  BY <1>2
<1> QED
  BY <1>4, <1>5 DEF ReachedInv

\* By a step that lets nobody in, the limiter's list only loses entries.
LEMMA SettledReached ==
  ASSUME FittingSettings, DeliveryTypes, ReachedInv, Settled, stamps' = stamps, List' \in Seq(Int),
         \A x \in Int : Cardinality(ListedFrom(List', x)) <= Cardinality(ListedFrom(List, x))
  PROVE  ReachedInv'
<1>1. ASSUME NEW x \in Int
      PROVE  /\ Cardinality(ReachedFrom(x)') <= Cardinality(StampedFrom(x - Delay)')
             /\ Cardinality(ListedFrom(List, x)') <= Cardinality(AcceptedFrom(x)')
  <2>0. x - Delay \in Int
    BY DeliveryAssumption
  <2>1. StampedFrom(x - Delay)' = StampedFrom(x - Delay)
    BY DEF StampedFrom
  <2>2. ReachedFrom(x)' \in SUBSET ReachedFrom(x)
    BY DEF Settled, ReachedFrom
  <2>3. AcceptedFrom(x)' = AcceptedFrom(x)
    BY DEF Settled, AcceptedFrom, Reached
  <2>4. /\ IsFiniteSet(ReachedFrom(x)) /\ Cardinality(ReachedFrom(x)) \in Nat
        /\ Cardinality(AcceptedFrom(x)) \in Nat /\ Cardinality(StampedFrom(x - Delay)) \in Nat
    BY <2>0, FiniteReached, FiniteStamped
  <2>5. /\ Cardinality(ReachedFrom(x)') <= Cardinality(ReachedFrom(x))
        /\ Cardinality(ReachedFrom(x)') \in Nat
    BY <2>2, <2>4, FS_Subset, FS_CardinalityType
  <2>6. /\ Cardinality(ReachedFrom(x)) <= Cardinality(StampedFrom(x - Delay))
        /\ Cardinality(ListedFrom(List, x)) <= Cardinality(AcceptedFrom(x))
    BY DEF ReachedInv
  <2>7. /\ Cardinality(ListedFrom(List, x)) \in Nat /\ Cardinality(ListedFrom(List', x)) \in Nat
        /\ Cardinality(ListedFrom(List', x)) <= Cardinality(ListedFrom(List, x))
    BY FiniteListed DEF ReachedInv
  <2>8. ListedFrom(List, x)' = ListedFrom(List', x)
    BY DEF ListedFrom
  <2> QED
    BY <2>1, <2>3, <2>4, <2>5, <2>6, <2>7, <2>8
<1> QED
  BY <1>1 DEF ReachedInv

\* An arrival is stamped with a slot at most the delay before it.
LEMMA SendReached ==
  ASSUME FittingSettings, DeliveryTypes, StoreInv, ClockInv, ReachedInv, NEW r \in Requests, Send(r)
  PROVE  /\ ReachedInv'
         /\ Accepted' = Accepted /\ r \notin Accepted
         /\ \A q \in Accepted : shim'[q].at = shim[q].at
<1> DEFINE at == shim[r].at
<1>1. /\ shim[r].step = "send" /\ shim'[r].step = "wait" /\ shim'[r].at = clock
      /\ gateway'[r] = "check" /\ stamps' = Append(stamps, at) /\ at \in Nat
      /\ \A q \in Requests \ {r} : shim'[q] = shim[q] /\ gateway'[q] = gateway[q]
      /\ UNCHANGED <<events, clock>>
  BY SendStep
<1>2. gateway[r] = "none" /\ clock <= at + Delay /\ clock \in Nat /\ Delay \in Nat
  BY <1>1, DeliveryAssumption DEF StoreInv, Consistent, ClockInv, DeliveryTypes
<1>3. r \notin Reached /\ r \notin Accepted /\ r \notin Accepted' /\ r \in Reached'
  BY <1>1, <1>2 DEF Reached, Accepted, Asking
<1>4. Accepted' = Accepted /\ Reached' = Reached \cup {r}
  <2>1. Accepted' \ {r} = Accepted \ {r} /\ Reached' \ {r} = Reached \ {r}
    BY <1>1, OthersReached
  <2> QED
    BY <1>3, <2>1
<1>5. \A q \in Reached : shim'[q].at = shim[q].at
  BY <1>1, <1>3, <1>4, OthersReached
<1> HIDE DEF at
<1>6. ASSUME NEW x \in Int
      PROVE  /\ Cardinality(ReachedFrom(x)') <= Cardinality(StampedFrom(x - Delay)')
             /\ Cardinality(ListedFrom(List, x)') <= Cardinality(AcceptedFrom(x)')
  <2> DEFINE n == Len(stamps) + 1
  <2>0. x - Delay \in Int
    BY <1>2
  <2>1. /\ stamps \in Seq(Nat) /\ n \in Nat /\ n \notin DOMAIN stamps
        /\ DOMAIN stamps' = DOMAIN stamps \cup {n} /\ stamps'[n] = at
        /\ \A i \in DOMAIN stamps : stamps'[i] = stamps[i]
    BY <1>1 DEF DeliveryTypes
  <2> HIDE DEF n
  <2>2. StampedFrom(x - Delay)' = IF x - Delay <= at THEN StampedFrom(x - Delay) \cup {n}
                                  ELSE StampedFrom(x - Delay)
    BY <2>1 DEF StampedFrom
  <2>3. n \notin StampedFrom(x - Delay)
    BY <2>1 DEF StampedFrom
  <2>4. ReachedFrom(x)' = IF x <= clock THEN ReachedFrom(x) \cup {r} ELSE ReachedFrom(x)
    BY <1>1, <1>3, <1>4, <1>5 DEF ReachedFrom
  <2>5. r \notin ReachedFrom(x)
    BY <1>3 DEF ReachedFrom
  <2>6. /\ IsFiniteSet(ReachedFrom(x)) /\ Cardinality(ReachedFrom(x)) \in Nat
        /\ IsFiniteSet(StampedFrom(x - Delay)) /\ Cardinality(StampedFrom(x - Delay)) \in Nat
    BY <2>0, FiniteReached, FiniteStamped
  <2>7. /\ Cardinality(ReachedFrom(x) \cup {r}) = Cardinality(ReachedFrom(x)) + 1
        /\ Cardinality(StampedFrom(x - Delay) \cup {n}) = Cardinality(StampedFrom(x - Delay)) + 1
    BY <2>3, <2>5, <2>6, FS_AddElement
  <2>8. Cardinality(ReachedFrom(x)) <= Cardinality(StampedFrom(x - Delay))
    BY DEF ReachedInv
  <2>9. x <= clock => x - Delay <= at
    BY <1>1, <1>2
  <2>10. Cardinality(ReachedFrom(x)') <= Cardinality(StampedFrom(x - Delay)')
    BY <2>2, <2>4, <2>6, <2>7, <2>8, <2>9
  <2>11. AcceptedFrom(x)' = AcceptedFrom(x)
    BY <1>4, <1>5 DEF AcceptedFrom, Reached
  <2>12. ListedFrom(List, x)' = ListedFrom(List, x)
    BY <1>1 DEF ListedFrom, List
  <2> QED
    BY <2>10, <2>11, <2>12 DEF ReachedInv
<1>7. List' = List
  BY <1>1 DEF List
<1>8. ReachedInv'
  BY <1>6, <1>7 DEF ReachedInv
<1> QED
  BY <1>3, <1>4, <1>5, <1>8 DEF Reached

\* Who is let in is in the list.
LEMMA AdmitReached ==
  ASSUME FittingSettings, DeliveryTypes, ClockInv, ReachedInv, NEW r \in Requests, Admit(r)
  PROVE  /\ ReachedInv'
         /\ r \notin Accepted /\ Accepted' = Accepted \cup {r}
<1> DEFINE at == shim[r].at
           list == Recent(r)
<1>1. /\ gateway[r] = "check" /\ gateway'[r] = "admitted" /\ List' = Append(list, at)
      /\ \A q \in Requests \ {r} : gateway'[q] = gateway[q]
      /\ UNCHANGED <<shim, stamps>>
  <2>1. ~Limit(r)
    BY DeliveryAssumption DEF Limit, Admit, Becomes, DeliveryTypes
  <2> QED
    BY <2>1, LimiterStep
<1>2. /\ r \notin Accepted /\ r \in Reached /\ r \in Accepted' /\ r \in Reached'
  BY <1>1 DEF Accepted, Asking, Reached
<1>3. Accepted' = Accepted \cup {r} /\ Reached' = Reached
  <2>1. Accepted' \ {r} = Accepted \ {r} /\ Reached' \ {r} = Reached \ {r}
    BY <1>1, OthersReached
  <2> QED
    BY <1>2, <2>1
<1>4. at \in Int /\ List \in Seq(Int)
  BY DEF ClockInv, ReachedInv
<1>5. /\ list \in Seq(Int)
      /\ \A x \in Int : Cardinality(ListedFrom(list, x)) <= Cardinality(ListedFrom(List, x))
  BY <1>4, RecentOf
<1> HIDE DEF at, list
<1>6. ASSUME NEW x \in Int
      PROVE  /\ Cardinality(ReachedFrom(x)') <= Cardinality(StampedFrom(x - Delay)')
             /\ Cardinality(ListedFrom(List, x)') <= Cardinality(AcceptedFrom(x)')
  <2>1. ReachedFrom(x)' = ReachedFrom(x)
    BY <1>1, <1>3 DEF ReachedFrom
  <2>2. StampedFrom(x - Delay)' = StampedFrom(x - Delay)
    BY <1>1 DEF StampedFrom
  <2> DEFINE n == Len(list) + 1
  <2>3. /\ n \in Nat /\ n \notin DOMAIN list
        /\ DOMAIN List' = DOMAIN list \cup {n} /\ List'[n] = at
        /\ \A i \in DOMAIN list : List'[i] = list[i]
    BY <1>1, <1>4, <1>5
  <2> HIDE DEF n
  <2>4. ListedFrom(List, x)' = IF x <= at THEN ListedFrom(list, x) \cup {n} ELSE ListedFrom(list, x)
    BY <2>3 DEF ListedFrom
  <2>5. AcceptedFrom(x)' = IF x <= at THEN AcceptedFrom(x) \cup {r} ELSE AcceptedFrom(x)
    BY <1>1, <1>3 DEF AcceptedFrom, at
  <2>6. n \notin ListedFrom(list, x) /\ r \notin AcceptedFrom(x)
    BY <1>2, <2>3 DEF ListedFrom, AcceptedFrom
  <2>7. /\ IsFiniteSet(ListedFrom(list, x)) /\ Cardinality(ListedFrom(list, x)) \in Nat
        /\ Cardinality(ListedFrom(List, x)) \in Nat
        /\ IsFiniteSet(AcceptedFrom(x)) /\ Cardinality(AcceptedFrom(x)) \in Nat
    BY <1>4, <1>5, FiniteListed, FiniteReached
  <2>8. /\ Cardinality(ListedFrom(list, x) \cup {n}) = Cardinality(ListedFrom(list, x)) + 1
        /\ Cardinality(AcceptedFrom(x) \cup {r}) = Cardinality(AcceptedFrom(x)) + 1
    BY <2>6, <2>7, FS_AddElement
  <2>9. /\ Cardinality(ListedFrom(list, x)) <= Cardinality(ListedFrom(List, x))
        /\ Cardinality(ListedFrom(List, x)) <= Cardinality(AcceptedFrom(x))
    BY <1>5 DEF ReachedInv
  <2>10. Cardinality(ListedFrom(List, x)') <= Cardinality(AcceptedFrom(x)')
    BY <2>4, <2>5, <2>7, <2>8, <2>9
  <2>11. Cardinality(ReachedFrom(x)) <= Cardinality(StampedFrom(x - Delay))
    BY DEF ReachedInv
  <2> QED
    BY <2>1, <2>2, <2>10, <2>11
<1>7. List' \in Seq(Int)
  BY <1>1, <1>4, <1>5
<1>8. ReachedInv'
  BY <1>6, <1>7 DEF ReachedInv
<1> QED
  BY <1>2, <1>3, <1>8

LEMMA NextReached ==
  FittingSettings /\ DeliveryTypes /\ StoreInv /\ ClockInv /\ ReachedInv /\ [DeliveryNext]_deliveryVars
    => ReachedInv'
<1> SUFFICES ASSUME FittingSettings, DeliveryTypes, StoreInv, ClockInv, ReachedInv,
                    [DeliveryNext]_deliveryVars
             PROVE  ReachedInv'
  OBVIOUS
<1>1. CASE \E r \in Requests : Send(r)
  BY <1>1, SendReached
<1>2. CASE \E r \in Requests : Admit(r)
  BY <1>2, AdmitReached
<1>3. CASE \A r \in Requests : ~Send(r) /\ ~Admit(r)
  <2>1. Settled
    BY <1>3, SettledSteps
  <2>2. List \in Seq(Int) /\ \A x \in Int : Cardinality(ListedFrom(List, x)) \in Nat
    BY FiniteListed DEF ReachedInv
  <2>3. ASSUME UNCHANGED <<stamps, events>> PROVE ReachedInv'
    <3>1. List' = List
      BY <2>3 DEF List
    <3>2. \A x \in Int : Cardinality(ListedFrom(List', x)) <= Cardinality(ListedFrom(List, x))
      BY <2>2, <3>1
    <3> QED
      BY <2>1, <2>2, <2>3, <3>1, <3>2, SettledReached
  <2>4. ASSUME NEW r \in Requests, Limit(r) PROVE ReachedInv'
    <3>1. List' = Recent(r) /\ stamps' = stamps
      BY <1>3, <2>4, LimiterStep
    <3>2. /\ Recent(r) \in Seq(Int)
          /\ \A x \in Int : Cardinality(ListedFrom(Recent(r), x)) <= Cardinality(ListedFrom(List, x))
      <4>1. shim[r].at \in Int
        BY DEF ClockInv
      <4> QED
        BY <2>2, <4>1, RecentOf
    <3> QED
      BY <2>1, <3>1, <3>2, SettledReached
  <2>5. ASSUME NEW r \in Requests, Submit(r) \/ Work(r) \/ Lost(r) PROVE ReachedInv'
    BY <1>3, <2>3, <2>5 DEF Submit, Work, ReadClock, Slot, Awake, Answer, Lost, pacing, limiting
  <2>6. ASSUME NEW r \in Requests, Judge(r) \/ Reply(r) \/ GiveUp(r) PROVE ReachedInv'
    BY <2>3, <2>6, ServeStep
  <2>7. ASSUME NEW r \in Requests, Collect(r) PROVE ReachedInv'
    BY <2>3, <2>7 DEF Collect, Refuse, Store, pacing, limiting
  <2>8. CASE Tick \/ UNCHANGED deliveryVars
    BY <2>3, <2>8 DEF Tick, deliveryVars, pacing, limiting
  <2> QED
    BY <1>3, <2>4, <2>5, <2>6, <2>7, <2>8 DEF DeliveryNext, Serve
<1> QED
  BY <1>1, <1>2, <1>3

-----------------------------------------------------------------------------
(* Delivery: who is turned away, step by step *)

LEMMA InitTurned == FittingSettings /\ DeliveryInit => TurnedInv
<1> SUFFICES ASSUME FittingSettings, DeliveryInit PROVE TurnedInv
  OBVIOUS
<1>1. \A r \in Requests : /\ shim[r].attempt = 0 /\ shim[r].answer = "none"
                          /\ gateway[r] = "none" /\ Others(r) \in Nat
  BY OthersType DEF DeliveryInit
<1> QED
  BY <1>1 DEF TurnedInv, Turned

\* A step that lets nobody in, and by which none of those who are changes.
Waiting == Accepted' = Accepted /\ \A q \in Accepted : shim'[q].at = shim[q].at

\* By such a step a request keeps its due, if it was not turned away and does
\* not go on any earlier.
LEMMA StillTurned ==
  ASSUME FittingSettings, DeliveryTypes, DeliveryTypes', ClockInv, ClockInv', Waiting,
         NEW r \in Requests, Turned(r),
         shim'[r].attempt = shim[r].attempt,
         Coming(r)' => Coming(r) /\ Resumes(r) <= Resumes(r)',
         gateway'[r] = "limited" /\ shim'[r].step = "wait" =>
           gateway[r] = "limited" /\ shim[r].step = "wait",
         shim'[r].answer = "limited" => shim[r].answer = "limited"
  PROVE  Turned(r)'
<1>1. Others(r)' = Others(r)
  BY DEF Others, Waiting
<1>2. /\ Resumes(r) \in Int /\ Resumes(r)' \in Int /\ Window \in Nat /\ Pace \in Nat
  BY DeliveryAssumption DEF Resumes, DeliveryTypes, ClockInv
<1>3. ASSUME Coming(r)', 0 < shim'[r].attempt, shim'[r].attempt = Others(r)'
      PROVE  Cardinality(AcceptedFrom(Resumes(r) - Window)') < Pace
  <2> DEFINE x == Resumes(r) - Window
             y == Resumes(r)' - Window
             still == {q \in Accepted' : y <= shim'[q].at}
  <2>1. x \in Int /\ y \in Int /\ x <= y
    BY <1>2, <1>3
  <2>2. Cardinality(AcceptedFrom(x)) < Pace
    BY <1>1, <1>3 DEF Turned
  <2>3. AcceptedFrom(Resumes(r) - Window)' = still
    BY DEF AcceptedFrom
  <2> HIDE DEF x, y
  <2>4. still \in SUBSET AcceptedFrom(x)
    <3>1. ASSUME NEW q \in Accepted, y <= shim'[q].at PROVE x <= shim[q].at
      <4>1. shim[q].at = shim'[q].at /\ shim[q].at \in Int
        BY <3>1 DEF Waiting, ClockInv, Accepted
      <4> QED
        BY <2>1, <3>1, <4>1
    <3> QED
      BY <3>1 DEF AcceptedFrom, Waiting
  <2>5. IsFiniteSet(AcceptedFrom(x)) /\ Cardinality(AcceptedFrom(x)) \in Nat
    BY <2>1, FiniteReached
  <2> HIDE DEF still
  <2>6. Cardinality(still) <= Cardinality(AcceptedFrom(x)) /\ Cardinality(still) \in Nat
    BY <2>4, <2>5, FS_Subset, FS_CardinalityType
  <2> QED
    BY <1>2, <2>2, <2>3, <2>5, <2>6
<1> QED
  BY <1>1, <1>3 DEF Turned

LEMMA OthersTurned ==
  ASSUME FittingSettings, DeliveryTypes, DeliveryTypes', ClockInv, ClockInv', Waiting,
         NEW q \in Requests, Turned(q), shim'[q] = shim[q], gateway'[q] = gateway[q], clock <= clock'
  PROVE  Turned(q)'
<1>1. Coming(q)' => Coming(q)
  BY DEF Coming
<1>2. Resumes(q) <= Resumes(q)'
  <2>1. clock \in Nat /\ clock' \in Nat /\ shim[q].at \in Int
    BY DEF DeliveryTypes, ClockInv
  <2> QED
    BY <2>1 DEF Resumes
<1> QED
  BY <1>1, <1>2, StillTurned

\* A result that is turned away: at least as many as the pace are in the
\* gateway's window, so that it was overtaken once more than it was turned away.
LEMMA LimitTurned ==
  ASSUME FittingSettings, DeliveryTypes, StoreInv, ClockInv, ReachedInv, Waiting,
         NEW r \in Requests, Turned(r), Limit(r)
  PROVE  Turned(r)'
<1>1. /\ gateway[r] = "check" /\ gateway'[r] = "limited" /\ shim' = shim
      /\ Len(Recent(r)) >= Allowance
  BY DEF Limit, Becomes, DeliveryTypes
<1>2. /\ shim[r].at = clock /\ clock \in Nat /\ shim[r] \in Shims /\ shim[r].attempt \in Nat
      /\ Window \in Nat /\ Pace \in Nat \ {0} /\ Allowance \in Nat /\ Pace <= Allowance
  BY <1>1, DeliveryAssumption DEF ClockInv, DeliveryTypes, Shims, FittingSettings
<1>3. Others(r)' = Others(r) /\ Others(r) \in Nat
  BY OthersType DEF Others, Waiting
<1> DEFINE x == clock - Window
<1>4. x \in Int
  BY <1>2
<1>5. Pace <= Cardinality(AcceptedFrom(x))
  <2>1. /\ Recent(r) \in Seq(Int)
        /\ Len(Recent(r)) <= Cardinality(ListedFrom(List, x))
    BY <1>2, RecentOf DEF ReachedInv
  <2> HIDE DEF x
  <2>2. /\ Cardinality(ListedFrom(List, x)) <= Cardinality(AcceptedFrom(x))
        /\ Cardinality(ListedFrom(List, x)) \in Nat
    BY <1>4, FiniteListed DEF ReachedInv
  <2>3. Cardinality(AcceptedFrom(x)) \in Nat /\ Len(Recent(r)) \in Nat
    BY <1>4, <2>1, FiniteReached
  <2> QED
    BY <1>1, <1>2, <2>1, <2>2, <2>3
<1>6. Cardinality(AcceptedFrom(x)) <= Others(r) /\ Cardinality(AcceptedFrom(x)) \in Nat
  <2>1. r \notin Accepted
    BY <1>1 DEF Accepted
  <2>2. AcceptedFrom(x) \in SUBSET (Accepted \ {r})
    BY <2>1 DEF AcceptedFrom
  <2> HIDE DEF x
  <2> QED
    BY <1>4, <2>2, OthersType, FiniteReached, FS_Subset DEF Others
<1>7. ASSUME shim[r].step = "wait" PROVE shim[r].attempt < Others(r)
  <2>1. Coming(r) /\ Resumes(r) = clock
    BY <1>1, <1>7 DEF Coming, Resumes
  <2>2. 0 < shim[r].attempt /\ shim[r].attempt = Others(r) => Cardinality(AcceptedFrom(x)) < Pace
    BY <2>1 DEF Turned
  <2> HIDE DEF x
  <2>3. shim[r].attempt <= Others(r)
    BY DEF Turned
  <2> QED
    BY <1>2, <1>3, <1>5, <1>6, <2>2, <2>3
<1>8. ~Coming(r)'
  <2>1. shim[r].step \notin {"none", "new", "slot", "send", "sleep"}
    BY <1>1 DEF StoreInv, Consistent
  <2> QED
    BY <1>1, <2>1 DEF Coming
<1> QED
  BY <1>1, <1>3, <1>7, <1>8 DEF Turned

\* Those who were let in are not ahead of the clock.
LEMMA AcceptedPast ==
  ASSUME DeliveryTypes, StoreInv, ClockInv, NEW q \in Accepted
  PROVE  q \in Requests /\ shim[q].at \in Int /\ shim[q].at <= clock
<1>1. q \in Requests
  BY DEF Accepted
<1>2. shim[q].step \notin {"none", "new", "slot", "send", "sleep"}
  BY <1>1 DEF Accepted, StoreInv, Consistent
<1>3. shim[q].step \in {"wait", "done"}
  BY <1>1, <1>2 DEF DeliveryTypes, Shims, Steps
<1> QED
  BY <1>1, <1>3 DEF ClockInv

\* A result that is told to come back: when it does, fewer than the pace of
\* those let in so far are still in the window, as it was sent itself within
\* the same burst.
LEMMA RetryTurned ==
  ASSUME FittingSettings, DeliveryTypes, StoreInv, PaceInv, ClockInv, BurstInv, ReachedInv, Waiting,
         NEW r \in Requests, Turned(r), Answer(r), Retry(r)
  PROVE  Turned(r)'
<1> DEFINE at == shim'[r].at
<1>1. /\ shim[r].step = "wait" /\ gateway[r] = "limited"
      /\ shim'[r].step = "sleep" /\ gateway'[r] = "none"
      /\ shim'[r].attempt = shim[r].attempt + 1 /\ shim'[r].answer = shim[r].answer
      /\ at \in Int /\ clock + 2 * Delay < at /\ clock' = clock
  BY RetryStep
<1> HIDE DEF at
<1>2. /\ clock \in Nat /\ Delay \in Nat /\ Window \in Nat /\ Pace \in Nat \ {0}
      /\ shim[r].at = clock /\ shim[r].attempt \in Nat
  BY <1>1, DeliveryAssumption DEF DeliveryTypes, ClockInv, Shims
<1>3. Others(r)' = Others(r) /\ Others(r) \in Nat
  BY OthersType DEF Others, Waiting
<1>4. PICK x \in Int : /\ x = at - Window
                        /\ clock < at /\ clock + 1 + Delay <= (x - Delay) + Window
  BY <1>1, <1>2
<1>5. (Resumes(r) - Window)' = x
  BY <1>1, <1>4 DEF Resumes, at
<1>6. AcceptedFrom(x)' = AcceptedFrom(x)
  BY DEF AcceptedFrom, Waiting
<1>7. AcceptedFrom(Resumes(r) - Window)' = AcceptedFrom(x)
  BY <1>5, <1>6 DEF AcceptedFrom
<1>8. CASE clock < x
  <2>1. AcceptedFrom(x) = {}
    <3>1. \A q \in Accepted : ~(x <= shim[q].at)
      BY <1>2, <1>4, <1>8, AcceptedPast
    <3> QED
      BY <3>1 DEF AcceptedFrom
  <2>2. Cardinality(AcceptedFrom(x)) = 0
    BY <2>1, FS_EmptySet
  <2> QED
    BY <1>1, <1>2, <1>3, <1>7, <2>2 DEF Turned
<1>9. CASE x <= clock
  <2>1. r \notin Accepted /\ r \in Reached
    BY <1>1 DEF Accepted, Asking, Reached
  <2>2. AcceptedFrom(x) \cup {r} \in SUBSET ReachedFrom(x) /\ r \notin AcceptedFrom(x)
    BY <1>2, <1>9, <2>1 DEF AcceptedFrom, ReachedFrom, Reached
  <2>3. /\ IsFiniteSet(AcceptedFrom(x)) /\ Cardinality(AcceptedFrom(x)) \in Nat
        /\ IsFiniteSet(ReachedFrom(x)) /\ Cardinality(ReachedFrom(x)) \in Nat
    BY <1>4, FiniteReached
  <2>4. Cardinality(AcceptedFrom(x)) + 1 <= Cardinality(ReachedFrom(x))
    <3>1. Cardinality(AcceptedFrom(x) \cup {r}) = Cardinality(AcceptedFrom(x)) + 1
      BY <2>2, <2>3, FS_AddElement
    <3>2. Cardinality(AcceptedFrom(x) \cup {r}) <= Cardinality(ReachedFrom(x))
      BY <2>2, <2>3, FS_Subset
    <3> QED
      BY <3>1, <3>2
  <2> DEFINE from == x - Delay
             upto == clock + 1
  <2>5. from \in Int /\ upto \in Int /\ upto + Delay <= from + Window
    BY <1>2, <1>4
  <2>6. Cardinality(ReachedFrom(x)) <= Cardinality(StampedFrom(from))
    BY <1>4 DEF ReachedInv
  <2>7. StampedFrom(from) = Stamped(from, upto)
    <3>1. \A n \in DOMAIN stamps : stamps[n] < upto
      <4>1. \A n \in DOMAIN stamps : stamps[n] \in Nat /\ stamps[n] <= clock
        BY DEF DeliveryTypes, ClockInv
      <4> QED
        BY <1>2, <4>1
    <3> QED
      BY <3>1 DEF StampedFrom, Stamped
  <2> HIDE DEF from, upto
  <2>8. Cardinality(Stamped(from, upto)) <= Pace
    <3>1. Slots(from, upto) <= Pace
      BY <2>5 DEF BurstInv
    <3>2. Cardinality(Stamped(from, upto)) \in Nat /\ Cardinality(Due(from, upto)) \in Nat
      BY <2>5, Finite
    <3> QED
      BY <1>2, <3>1, <3>2 DEF Slots
  <2>9. Cardinality(Stamped(from, upto)) \in Nat
    BY <2>5, Finite
  <2>10. Cardinality(AcceptedFrom(x)) < Pace
    BY <1>2, <2>3, <2>4, <2>6, <2>7, <2>8, <2>9
  <2> QED
    BY <1>1, <1>2, <1>3, <1>7, <2>10 DEF Turned
<1> QED
  BY <1>2, <1>4, <1>8, <1>9

\* Who is let in has overtaken all others once more.
LEMMA AdmitTurned ==
  ASSUME FittingSettings, DeliveryTypes, StoreInv, ClockInv, ReachedInv, TurnedInv,
         NEW r \in Requests, Admit(r)
  PROVE  TurnedInv'
<1>1. /\ gateway[r] = "check" /\ gateway'[r] = "admitted" /\ UNCHANGED <<shim, clock>>
      /\ \A q \in Requests \ {r} : gateway'[q] = gateway[q]
  BY DEF Admit, Becomes, DeliveryTypes
<1>2. r \notin Accepted /\ Accepted' = Accepted \cup {r}
  BY AdmitReached
<1>3. ASSUME NEW q \in Requests \ {r} PROVE Turned(q)'
  <2>1. Others(q)' = Others(q) + 1 /\ Others(q) \in Nat
    <3>1. Accepted' \ {q} = (Accepted \ {q}) \cup {r} /\ r \notin Accepted \ {q}
      BY <1>2
    <3>2. IsFiniteSet(Accepted \ {q}) /\ Others(q) \in Nat
      BY OthersType
    <3>3. Cardinality((Accepted \ {q}) \cup {r}) = Cardinality(Accepted \ {q}) + 1
      BY <3>1, <3>2, FS_AddElement
    <3> QED
      BY <3>1, <3>2, <3>3 DEF Others
  <2>2. Turned(q) /\ shim[q].attempt \in Nat /\ MaxRetries \in Nat
    BY DeliveryAssumption DEF TurnedInv, DeliveryTypes, Shims
  <2>3. shim'[q] = shim[q] /\ gateway'[q] = gateway[q]
    BY <1>1
  <2> QED
    BY <2>1, <2>2, <2>3 DEF Turned
<1>4. Turned(r)'
  <2>1. Others(r)' = Others(r)
    BY <1>2 DEF Others
  <2>2. shim[r].step \notin {"none", "new", "slot", "send", "sleep"}
    BY <1>1 DEF StoreInv, Consistent
  <2>3. ~Coming(r)'
    BY <1>1, <2>2 DEF Coming
  <2> QED
    BY <1>1, <2>1, <2>3 DEF Turned, TurnedInv
<1> QED
  BY <1>3, <1>4 DEF TurnedInv

LEMMA NextTurned ==
  ASSUME FittingSettings, DeliveryTypes, DeliveryTypes', StoreInv, PaceInv, ClockInv, ClockInv',
         BurstInv, ReachedInv, TurnedInv, [DeliveryNext]_deliveryVars
  PROVE  TurnedInv'
<1>1. CASE \E r \in Requests : Admit(r)
  BY <1>1, AdmitTurned
<1>2. CASE ~ \E r \in Requests : Admit(r)
  <2>1. Waiting
    <3>1. CASE \E r \in Requests : Send(r)
      BY <3>1, SendReached DEF Waiting
    <3>2. CASE ~ \E r \in Requests : Send(r)
      BY <1>2, <3>2, SettledSteps DEF Settled, Waiting, Reached
    <3> QED
      BY <3>1, <3>2
  <2>2. clock \in Nat /\ \A r \in Requests : Turned(r)
    BY DEF DeliveryTypes, TurnedInv
  <2>3. ASSUME NEW r \in Requests, Turned(r)', clock' = clock,
               \A q \in Requests \ {r} : shim'[q] = shim[q] /\ gateway'[q] = gateway[q]
        PROVE  TurnedInv'
    <3>1. \A q \in Requests \ {r} : Turned(q)'
      BY <2>1, <2>2, <2>3, OthersTurned
    <3> QED
      BY <2>3, <3>1 DEF TurnedInv
  <2>4. ASSUME UNCHANGED <<shim, gateway>>, clock <= clock' PROVE TurnedInv'
    BY <2>1, <2>2, <2>4, OthersTurned DEF TurnedInv
  <2>5. ASSUME NEW r \in Requests, Submit(r) \/ ReadClock(r) \/ Slot(r) \/ Awake(r) PROVE TurnedInv'
    <3>1. Quiet(r)
      BY <2>5, QuietSteps
    <3>2. gateway[r] = "none" /\ gateway'[r] = "none"
      BY <3>1 DEF Quiet, StoreInv, Consistent
    <3>3. Coming(r) /\ Resumes(r) <= Resumes(r)'
      <4>1. /\ shim[r].step \in {"none", "new", "slot", "sleep"} /\ clock' = clock
            /\ shim'[r].at \in Int /\ shim[r].at \in Int
            /\ shim[r].step = "sleep" => shim[r].at <= clock
        BY <3>1 DEF Quiet, ClockInv
      <4>2. Resumes(r) = clock
        BY <2>2, <4>1 DEF Resumes
      <4>3. clock <= Resumes(r)'
        BY <2>2, <4>1 DEF Resumes
      <4> QED
        BY <4>1, <4>2, <4>3 DEF Coming
    <3>4. Turned(r)'
      BY <2>1, <2>2, <3>1, <3>2, <3>3, StillTurned DEF Quiet
    <3> QED
      BY <2>3, <3>1, <3>4 DEF Quiet
  <2>6. ASSUME NEW r \in Requests, Send(r) PROVE TurnedInv'
    <3>1. /\ shim[r].step = "send" /\ shim'[r].step = "wait" /\ gateway'[r] = "check"
          /\ shim'[r].attempt = shim[r].attempt /\ shim'[r].answer = shim[r].answer
          /\ \A q \in Requests \ {r} : shim'[q] = shim[q] /\ gateway'[q] = gateway[q]
          /\ clock' = clock
      BY <2>6, SendStep
    <3>2. Coming(r) /\ Resumes(r) <= Resumes(r)'
      BY <2>2, <3>1 DEF Coming, Resumes
    <3>3. Turned(r)'
      BY <2>1, <2>2, <3>1, <3>2, StillTurned
    <3> QED
      BY <2>3, <3>1, <3>3
  <2>7. ASSUME NEW r \in Requests, Answer(r), Retry(r) PROVE TurnedInv'
    <3>1. /\ \A q \in Requests \ {r} : shim'[q] = shim[q] /\ gateway'[q] = gateway[q]
          /\ clock' = clock
      BY <2>7, RetryStep
    <3>2. Turned(r)'
      BY <2>1, <2>2, <2>7, RetryTurned
    <3> QED
      BY <2>3, <3>1, <3>2
  <2>8. ASSUME NEW r \in Requests, (Answer(r) /\ ~Retry(r)) \/ Lost(r) PROVE TurnedInv'
    <3>1. /\ shim[r].step = "wait" /\ shim'[r].step = "done"
          /\ shim'[r].attempt = shim[r].attempt
          /\ \/ gateway' = gateway /\ shim'[r].answer = "error"
             \/ /\ gateway[r] \in Answers /\ gateway'[r] = "none" /\ shim'[r].answer = gateway[r]
                /\ gateway[r] = "limited" => MaxRetries <= shim[r].attempt
          /\ \A q \in Requests \ {r} : shim'[q] = shim[q] /\ gateway'[q] = gateway[q]
          /\ clock' = clock
      BY <2>8, EndStep
    <3>2. Others(r)' = Others(r) /\ Others(r) \in Nat /\ shim[r].attempt \in Nat /\ MaxRetries \in Nat
      BY <2>1, OthersType, DeliveryAssumption DEF Others, Waiting, DeliveryTypes, Shims
    <3>3. shim'[r].answer = "limited" => MaxRetries < Others(r)
      BY <2>2, <3>1, <3>2 DEF Turned
    <3>4. ~Coming(r)'
      BY <3>1 DEF Coming
    <3>5. Turned(r)'
      BY <2>2, <3>1, <3>2, <3>3, <3>4 DEF Turned
    <3> QED
      BY <2>3, <3>1, <3>5
  <2>9. ASSUME NEW r \in Requests, Judge(r) \/ Reply(r) \/ GiveUp(r) PROVE TurnedInv'
    <3>1. /\ gateway[r] # "none" /\ gateway'[r] \in {"forward", "notify", "ok", "blocked", "error"}
          /\ \A q \in Requests \ {r} : gateway'[q] = gateway[q]
          /\ UNCHANGED <<shim, clock>>
      BY <2>9, ServeStep
    <3>2. shim[r].step \notin {"none", "new", "slot", "send", "sleep"}
      BY <3>1 DEF StoreInv, Consistent
    <3>3. ~Coming(r)'
      BY <3>1, <3>2 DEF Coming
    <3>4. Turned(r)'
      BY <2>1, <2>2, <3>1, <3>3, StillTurned
    <3> QED
      BY <2>3, <3>1, <3>4
  <2>10. ASSUME NEW r \in Requests, Limit(r) PROVE TurnedInv'
    <3>1. /\ \A q \in Requests \ {r} : gateway'[q] = gateway[q]
          /\ UNCHANGED <<shim, clock>>
      BY <2>10 DEF Limit, Becomes, DeliveryTypes
    <3>2. Turned(r)'
      BY <2>1, <2>2, <2>10, LimitTurned
    <3> QED
      BY <2>3, <3>1, <3>2
  <2>11. ASSUME NEW r \in Requests, Collect(r) PROVE TurnedInv'
    BY <2>2, <2>4, <2>11 DEF Collect, Refuse, Store
  <2>12. CASE Tick \/ UNCHANGED deliveryVars
    BY <2>2, <2>4, <2>12 DEF Tick, deliveryVars
  <2> QED
    BY <1>2, <2>5, <2>6, <2>7, <2>8, <2>9, <2>10, <2>11, <2>12 DEF DeliveryNext, Work, Serve
<1> QED
  BY <1>1, <1>2

\* For any number of results, pace, window, allowance, delay and number of
\* retries, whatever order the threads take their slots in and whatever gets
\* lost: if the gateway allows the shim's pace and a back-off is longer than
\* twice the delay, a result is sent again only as often as others were let in
\* meanwhile, and given up as turned away only when more were than it has
\* retries (check_report_receipt_rate_limit, rate_limit_sleep_seconds).
THEOREM RefusedOnlyIfOvertaken == FittingSettings => (DeliverySpec => []Overtaken)
<1> SUFFICES ASSUME FittingSettings PROVE DeliverySpec => []Overtaken
  OBVIOUS
<1>1. DeliveryInit => /\ DeliveryTypes /\ StoreInv /\ PaceInv /\ ClockInv
                      /\ OnClock /\ BurstInv /\ ReachedInv /\ TurnedInv
  BY InitDelivery, InitStores, InitPace, InitClock, InitOnClock, InitBursts, InitReached, InitTurned
<1>2. /\ DeliveryTypes /\ StoreInv /\ PaceInv /\ ClockInv
      /\ OnClock /\ BurstInv /\ ReachedInv /\ TurnedInv
      /\ [DeliveryNext]_deliveryVars
      => /\ DeliveryTypes' /\ StoreInv' /\ PaceInv' /\ ClockInv'
         /\ OnClock' /\ BurstInv' /\ ReachedInv' /\ TurnedInv'
  BY NextDelivery, NextStores, NextPace, NextClock, NextOnClock, NextBursts, NextReached, NextTurned
<1>3. TurnedInv => Overtaken
  BY DEF TurnedInv, Turned, Overtaken
<1> QED
  BY <1>1, <1>2, <1>3, PTL DEF DeliverySpec

\* Under the same settings, if there are no more results at a time than a
\* result has attempts, none is turned away for good.
THEOREM AlwaysAdmitted ==
  FittingSettings /\ Cardinality(Requests) <= MaxRetries + 1 => (DeliverySpec => []Admitted)
<1> SUFFICES ASSUME FittingSettings, Cardinality(Requests) <= MaxRetries + 1
             PROVE  DeliverySpec => []Admitted
  OBVIOUS
<1>1. Overtaken => Admitted
  <2> SUFFICES ASSUME Overtaken, NEW r \in Requests, shim[r].answer = "limited" PROVE FALSE
    BY DEF Admitted
  <2>1. MaxRetries < Others(r)
    BY DEF Overtaken
  <2>2. Accepted \ {r} \in SUBSET (Requests \ {r})
    BY DEF Accepted
  <2>3. /\ IsFiniteSet(Requests) /\ Cardinality(Requests) \in Nat /\ IsFiniteSet(Requests \ {r})
        /\ Cardinality(Requests \ {r}) = Cardinality(Requests) - 1
    BY FS_CardinalityType, FS_RemoveElement DEF FittingSettings
  <2>4. Others(r) <= Cardinality(Requests \ {r})
    BY <2>2, <2>3, FS_Subset DEF Others
  <2>5. Others(r) \in Nat /\ MaxRetries \in Nat
    BY OthersType, DeliveryAssumption
  <2> QED
    BY <2>1, <2>3, <2>4, <2>5
<1>2. DeliverySpec => []Overtaken
  BY RefusedOnlyIfOvertaken
<1> QED
  BY <1>1, <1>2, PTL

USE ConstantsAssumption DEF Zero

-----------------------------------------------------------------------------
(* Delivery: nobody waits for another alone *)

\* No thread of the shim sleeps longer than the window and the delay, or the
\* longest back-off.
Short(r) == shim[r].at <= clock + Window + Delay \/ shim[r].at <= clock + BackoffMax

\* The guards of Work, Serve and Collect.
CanGoOn(r) ==
  \/ shim[r].step \in {"new", "slot", "send"}
  \/ shim[r].step = "sleep" /\ clock >= shim[r].at
  \/ shim[r].step = "wait" /\ gateway[r] \in Answers
  \/ gateway[r] \in {"check", "admitted"}
  \/ gateway[r] \in {"forward", "notify"} /\ collector[r] \in {"stored", "refused"}
  \/ collector[r] = "writing"

Waits(r) ==
  /\ shim[r].attempt <= MaxRetries
  /\ shim[r].step = "sleep" => Short(r)
  /\ gateway[r] \in {"forward", "notify"} => collector[r] # "none"

WaitInv ==
  /\ \A i \in DOMAIN sent : sent[i] <= clock
  /\ \A r \in Requests : Waits(r)

LEMMA InitWaits == DeliveryInit => WaitInv
  BY DeliveryAssumption DEF DeliveryInit, WaitInv, Waits

LEMMA OthersWait ==
  ASSUME WaitInv, NEW r \in Requests, clock' = clock, \A i \in DOMAIN sent' : sent'[i] <= clock,
         \A q \in Requests \ {r} :
           shim'[q] = shim[q] /\ gateway'[q] = gateway[q] /\ collector'[q] = collector[q],
         Waits(r)'
  PROVE  WaitInv'
<1>1. \A q \in Requests \ {r} : Waits(q)'
  BY DEF WaitInv, Waits, Short
<1> QED
  BY <1>1 DEF WaitInv

\* A slot is taken, or waited for, with a clock that is at most the delay old.
LEMMA SlotWaits ==
  ASSUME DeliveryTypes, StoreInv, ClockInv, WaitInv, NEW r \in Requests, Slot(r)
  PROVE  WaitInv'
<1> DEFINE now == shim[r].at
<1>0. /\ now \in Nat /\ now \in Moments /\ now <= clock /\ clock <= now + Delay
      /\ clock \in Nat /\ Window \in Nat /\ Delay \in Nat
      /\ UNCHANGED <<gateway, collector, clock>> /\ gateway[r] = "none"
  <2>1. shim[r].step = "slot" /\ UNCHANGED <<gateway, collector, clock>>
    BY DEF Slot, storing
  <2>2. now \in Nat /\ clock \in Nat
    BY <2>1 DEF DeliveryTypes
  <2>3. now \in Moments
    BY <2>2 DEF Moments
  <2>4. now <= clock /\ clock <= now + Delay
    BY <2>1 DEF ClockInv
  <2>5. gateway[r] = "none"
    BY <2>1 DEF StoreInv, Consistent
  <2> QED
    BY <2>1, <2>2, <2>3, <2>4, <2>5, DeliveryAssumption
<1> HIDE DEF now
<1>1. /\ Kept(now) \in Seq(Nat) /\ Len(Kept(now)) \in Nat
      /\ \A j \in 1..Len(Kept(now)) : Kept(now)[j] <= clock
  <2>1. Kept(now) \in Seq(Nat)
    BY <1>0, KeptOf
  <2>2. PICK gone \in 0..Len(sent) :
          /\ Len(Kept(now)) = Len(sent) - gone
          /\ \A j \in 1..Len(Kept(now)) : Kept(now)[j] = sent[gone + j]
    BY <1>0, KeptOf
  <2>3. sent \in Seq(Nat) /\ Len(sent) \in Nat
    BY DEF DeliveryTypes
  <2>4. \A j \in 1..Len(Kept(now)) : gone + j \in DOMAIN sent
    BY <2>2, <2>3
  <2>5. \A j \in 1..Len(Kept(now)) : Kept(now)[j] <= clock
    BY <2>2, <2>4 DEF WaitInv
  <2> QED
    BY <2>1, <2>5
<1> USE DEF now
<1>2. CASE Room(now)
  <2>1. To(r, "send", now) /\ sent' = Append(Kept(now), now)
    BY <1>2 DEF Slot, Times
  <2>2. /\ shim'[r].step = "send" /\ shim'[r].attempt = shim[r].attempt
        /\ \A q \in Requests \ {r} : shim'[q] = shim[q]
    BY <1>0, <2>1, ToTypes DEF Steps
  <2>3. \A i \in DOMAIN sent' : sent'[i] <= clock
    <3>1. \A i \in DOMAIN sent' : \/ i \in 1..Len(Kept(now)) /\ sent'[i] = Kept(now)[i]
                                 \/ sent'[i] = now
      BY <1>0, <1>1, <2>1
    <3> QED
      BY <1>0, <1>1, <3>1
  <2>4. Waits(r)'
    BY <1>0, <2>2 DEF WaitInv, Waits
  <2> HIDE DEF now
  <2> QED
    BY <1>0, <2>2, <2>3, <2>4, OthersWait
<1>3. CASE ~Room(now)
  <2> DEFINE at == clock + Kept(now)[1] + Window - now
  <2>1. To(r, "sleep", at) /\ sent' = Kept(now)
    BY <1>3 DEF Slot, Times
  <2>2. at \in Moments /\ at \in Int
    BY <1>0, <1>3, SlotMoment
  <2>3. Kept(now)[1] \in Nat /\ Kept(now)[1] <= clock
    <3>1. 1 \in 1..Len(Kept(now))
      BY <1>1, <1>3, DeliveryAssumption DEF Room
    <3> QED
      BY <1>1, <3>1
  <2>4. at <= clock + Window + Delay
    BY <1>0, <2>3
  <2> HIDE DEF at, now
  <2>5. /\ shim'[r].step = "sleep" /\ shim'[r].attempt = shim[r].attempt /\ shim'[r].at = at
        /\ \A q \in Requests \ {r} : shim'[q] = shim[q]
    BY <2>1, <2>2, ToTypes DEF Steps
  <2>6. \A i \in DOMAIN sent' : sent'[i] <= clock
    BY <1>1, <2>1
  <2>7. Waits(r)'
    BY <1>0, <2>4, <2>5 DEF WaitInv, Waits, Short
  <2> QED
    BY <1>0, <2>5, <2>6, <2>7, OthersWait
<1> QED
  BY <1>2, <1>3

\* A retry counts, and backs off no longer than it may.
LEMMA RetryWaits ==
  ASSUME FittingSettings, DeliveryTypes, WaitInv, NEW r \in Requests, Answer(r), Retry(r)
  PROVE  WaitInv'
<1> DEFINE n == shim[r].attempt + 1
<1>1. /\ shim[r] \in Shims /\ shim[r].attempt \in Nat /\ shim[r].attempt < MaxRetries
      /\ clock \in Nat /\ UNCHANGED <<sent, collector, clock>>
  BY DEF Answer, Retry, DeliveryTypes, Shims, pacing, storing
<1>2. n \in 1..MaxRetries /\ n <= MaxRetries /\ BackoffMax \in Nat
  BY <1>1, DeliveryAssumption
<1>3. Sleep(n) \in Nat
  BY <1>2 DEF FittingSettings
<1>4. Sleep(n) < BackoffMax \/ Sleep(n) = BackoffMax
  BY DEF Sleep
<1>5. clock + Sleep(n) <= clock + BackoffMax
  BY <1>1, <1>2, <1>3, <1>4
<1>6. shim'[r] = [shim[r] EXCEPT !.step = "sleep", !.attempt = n, !.at = clock + Sleep(n)]
  BY <1>1 DEF Answer, DeliveryTypes
<1>7. shim'[r].attempt = n /\ shim'[r].at = clock + Sleep(n)
  BY <1>1, <1>6 DEF Shims
<1>8. /\ gateway'[r] = "none"
      /\ \A q \in Requests \ {r} : shim'[q] = shim[q] /\ gateway'[q] = gateway[q]
  BY DEF Answer, DeliveryTypes
<1> HIDE DEF n
<1>9. Waits(r)'
  BY <1>1, <1>2, <1>5, <1>7, <1>8 DEF Waits, Short
<1> QED
  BY <1>1, <1>8, <1>9, OthersWait DEF WaitInv

LEMMA NextWaits ==
  FittingSettings /\ DeliveryTypes /\ StoreInv /\ ClockInv /\ WaitInv /\ [DeliveryNext]_deliveryVars
    => WaitInv'
<1> SUFFICES ASSUME FittingSettings, DeliveryTypes, StoreInv, ClockInv, WaitInv,
                    [DeliveryNext]_deliveryVars
             PROVE  WaitInv'
  OBVIOUS
<1>1. ASSUME NEW r \in Requests, Submit(r) \/ ReadClock(r) \/ Awake(r) PROVE WaitInv'
  <2>1. \E step \in {"new", "slot"} : To(r, step, clock)
    BY <1>1 DEF Submit, ReadClock, Awake
  <2>2. clock \in Nat /\ clock \in Moments
    BY DEF DeliveryTypes, Moments
  <2>3. /\ shim'[r].step \in {"new", "slot"} /\ shim'[r].attempt = shim[r].attempt
        /\ \A q \in Requests \ {r} : shim'[q] = shim[q]
    BY <2>1, <2>2, ToTypes DEF Steps
  <2>4. UNCHANGED <<sent, gateway, collector, clock>>
    BY <1>1 DEF Submit, ReadClock, Awake, pacing, storing
  <2>5. Waits(r)'
    BY <2>3, <2>4 DEF WaitInv, Waits
  <2> QED
    BY <2>3, <2>4, <2>5, OthersWait DEF WaitInv
<1>2. ASSUME NEW r \in Requests, Slot(r) PROVE WaitInv'
  BY <1>2, SlotWaits
<1>3. ASSUME NEW r \in Requests, Send(r) PROVE WaitInv'
  <2>1. /\ shim'[r].step = "wait" /\ shim'[r].attempt = shim[r].attempt /\ gateway'[r] = "check"
        /\ \A q \in Requests \ {r} : shim'[q] = shim[q] /\ gateway'[q] = gateway[q]
        /\ UNCHANGED <<sent, clock>> /\ collector' = collector
    BY <1>3, SendStep DEF Send, storing
  <2>2. Waits(r)'
    BY <2>1 DEF WaitInv, Waits
  <2> QED
    BY <2>1, <2>2, OthersWait DEF WaitInv
<1>4. ASSUME NEW r \in Requests, Answer(r), Retry(r) PROVE WaitInv'
  BY <1>4, RetryWaits
<1>5. ASSUME NEW r \in Requests, (Answer(r) /\ ~Retry(r)) \/ Lost(r) PROVE WaitInv'
  <2>1. /\ shim'[r].step = "done" /\ shim'[r].attempt = shim[r].attempt
        /\ gateway' = gateway \/ gateway'[r] = "none"
        /\ \A q \in Requests \ {r} : shim'[q] = shim[q] /\ gateway'[q] = gateway[q]
    BY <1>5, EndStep
  <2>2. UNCHANGED <<sent, collector, clock>>
    BY <1>5 DEF Answer, Lost, pacing, storing
  <2>3. Waits(r)'
    BY <2>1, <2>2 DEF WaitInv, Waits
  <2> QED
    BY <2>1, <2>2, <2>3, OthersWait DEF WaitInv
<1>6. ASSUME NEW r \in Requests, Judge(r) PROVE WaitInv'
  <2>1. /\ \/ gateway'[r] \in {"forward", "notify"} /\ collector'[r] = "writing"
           \/ gateway'[r] \in {"blocked", "error"}
        /\ \A q \in Requests \ {r} : gateway'[q] = gateway[q] /\ collector'[q] = collector[q]
        /\ UNCHANGED <<sent, shim, clock>>
    BY <1>6 DEF Judge, Becomes, DeliveryTypes, pacing
  <2>2. Waits(r)'
    BY <2>1 DEF WaitInv, Waits, Short
  <2> QED
    BY <2>1, <2>2, OthersWait DEF WaitInv
<1>7. ASSUME NEW r \in Requests, Reply(r) \/ GiveUp(r) \/ Admit(r) \/ Limit(r) PROVE WaitInv'
  <2>1. /\ gateway'[r] \notin {"forward", "notify"}
        /\ \A q \in Requests \ {r} : gateway'[q] = gateway[q]
        /\ UNCHANGED <<sent, shim, collector, clock>>
    BY <1>7 DEF Reply, GiveUp, Admit, Limit, Becomes, DeliveryTypes, pacing, storing
  <2>2. Waits(r)'
    BY <2>1 DEF WaitInv, Waits, Short
  <2> QED
    BY <2>1, <2>2, OthersWait DEF WaitInv
<1>8. ASSUME NEW r \in Requests, Collect(r) PROVE WaitInv'
  <2>1. /\ collector'[r] \in {"stored", "refused"}
        /\ \A q \in Requests \ {r} : collector'[q] = collector[q]
        /\ UNCHANGED <<sent, shim, gateway, clock>>
    BY <1>8 DEF Collect, Refuse, Store, DeliveryTypes, pacing
  <2>2. Waits(r)'
    BY <2>1 DEF WaitInv, Waits, Short
  <2> QED
    BY <2>1, <2>2, OthersWait DEF WaitInv
<1>9. CASE Tick
  <2>1. /\ clock' = clock + 1 /\ UNCHANGED <<sent, shim, gateway, collector>>
        /\ clock \in Nat /\ {Window, Delay, BackoffMax} \subseteq Nat
    BY <1>9, DeliveryAssumption DEF Tick, DeliveryTypes, pacing, storing
  <2>2. \A i \in DOMAIN sent : sent[i] \in Nat
    BY DEF DeliveryTypes
  <2>3. \A r \in Requests : Short(r) => Short(r)'
    BY <2>1 DEF ClockInv, Short
  <2> QED
    BY <2>1, <2>2, <2>3 DEF WaitInv, Waits
<1>10. CASE UNCHANGED deliveryVars
  BY <1>10 DEF deliveryVars, storing, WaitInv, Waits, Short
<1> QED
  BY <1>1, <1>2, <1>3, <1>4, <1>5, <1>6, <1>7, <1>8, <1>9, <1>10 DEF DeliveryNext, Work, Serve

\* What a result that is under way waits for.
GoesOn(r) ==
  /\ shim[r].attempt <= MaxRetries
  /\ shim[r].step \notin {"none", "done"} => CanGoOn(r) \/ (shim[r].step = "sleep" /\ Short(r))

\* Until it has its answer a result waits for nothing but its own thread at the
\* shim, the gateway or the collector, which can go on, or for a time that is
\* not far: the threads that share the window do not keep each other waiting,
\* and it is sent again no more often than it may be.
THEOREM ResultsGoOn ==
  FittingSettings => (DeliverySpec => [](\A r \in Requests : GoesOn(r)))
<1> SUFFICES ASSUME FittingSettings
             PROVE  DeliverySpec => [](\A r \in Requests : GoesOn(r))
  OBVIOUS
<1>1. DeliverySpec => [](DeliveryTypes /\ StoreInv)
  BY InitDelivery, NextDelivery, InitStores, NextStores, PTL DEF DeliverySpec
<1>2. DeliveryTypes /\ StoreInv /\ ClockInv /\ [DeliveryNext]_deliveryVars => ClockInv'
  BY NextClock
<1>3. DeliveryTypes /\ StoreInv /\ ClockInv /\ WaitInv /\ [DeliveryNext]_deliveryVars => WaitInv'
  BY NextWaits
<1>4. DeliveryTypes /\ ClockInv /\ WaitInv => \A r \in Requests : GoesOn(r)
  <2> SUFFICES ASSUME DeliveryTypes, ClockInv, WaitInv, NEW r \in Requests PROVE GoesOn(r)
    OBVIOUS
  <2>1. /\ shim[r].step \in Steps /\ gateway[r] \in Serving
        /\ collector[r] \in {"none", "writing", "stored", "refused"}
    BY DEF DeliveryTypes, Shims
  <2> QED
    BY <2>1 DEF ClockInv, WaitInv, Waits, GoesOn, CanGoOn, Steps, Serving
<1> QED
  BY <1>1, <1>2, <1>3, <1>4, InitClock, InitWaits, PTL DEF DeliverySpec

-----------------------------------------------------------------------------
(* The audit log: types *)

LEMMA LastHashType ==
  ASSUME NEW lines \in Seq(Line)
  PROVE  LastHash(lines) \in Nat
<1>1. lines # <<>> => Len(lines) \in 1..Len(lines)
  OBVIOUS
<1>2. lines # <<>> => lines[Len(lines)] \in Line
  BY <1>1
<1> QED
  BY <1>2 DEF LastHash, Line

LEMMA VisibleType ==
  ASSUME TypeOK
  PROVE  /\ Visible \in Seq(Line)
         /\ Len(Visible) = Len(log) + Len(tail)
         /\ \A i \in 1..Len(log) : Visible[i] = log[i]
         /\ tail = <<>> => Visible = log
         /\ \A l \in Line : tail = <<l>> => Visible = Append(log, l)
<1>1. log \in Seq(Line) /\ tail \in Seq(Line)
  BY DEF TypeOK
<1>2. ASSUME NEW l \in Line, tail = <<l>> PROVE Visible = Append(log, l)
  BY <1>1, <1>2 DEF Visible
<1>3. tail = <<>> => Visible = log
  BY <1>1 DEF Visible
<1> QED
  BY <1>1, <1>2, <1>3 DEF Visible

LEMMA WritingTypes ==
  ASSUME TypeOK, NEW w \in Writers, job[w].step # "idle"
  PROVE  job[w] \in Writing /\ job[w].line \in Line
  BY DEF TypeOK, Idle, Writing

LEMMA TailTypes ==
  ASSUME NEW l \in Line
  PROVE  <<l>> \in Seq(Line) /\ Len(<<l>>) <= 1
  OBVIOUS

\* What a file that verifies looks like to export-audit-anchor.
LEMMA VerifiedFile ==
  ASSUME NEW lines \in Seq(Line), Verifies(lines)
  PROVE  /\ \A i \in 1..Len(lines) : lines[i].whole
         /\ LatestHash(lines) = LastHash(lines)
<1>0. Len(lines) \in Nat
  OBVIOUS
<1>1. \A i \in 1..Len(lines) : lines[i].whole
  BY DEF Verifies, BadLines
<1> DEFINE above == {j \in 1..((Len(lines) + 1) - 1) : lines[j].whole}
<1>2. above = 1..Len(lines)
  BY <1>0, <1>1
<1>3. LatestHash(lines) = IF above = {} THEN Zero
                          ELSE lines[CHOOSE j \in above : \A k \in above : k <= j].hash
  BY DEF LatestHash, Expected
<1> HIDE DEF above
<1>4. CASE lines = <<>>
  <2>1. above = {}
    BY <1>2, <1>4
  <2> QED
    BY <1>1, <1>3, <1>4, <2>1 DEF LastHash
<1>5. CASE lines # <<>>
  <2>1. Len(lines) \in above /\ \A k \in above : k <= Len(lines)
    BY <1>0, <1>2, <1>5
  <2>2. \A j \in above : (\A k \in above : k <= j) => j = Len(lines)
    BY <1>0, <1>2, <2>1
  <2>3. (CHOOSE j \in above : \A k \in above : k <= j) = Len(lines)
    BY <2>1, <2>2
  <2>4. above # {} /\ lines[Len(lines)].whole
    BY <1>1, <1>2, <2>1
  <2> QED
    BY <1>1, <1>3, <1>5, <2>3, <2>4 DEF LastHash
<1> QED
  BY <1>4, <1>5

LEMMA InitTypes == Init => TypeOK
<1> SUFFICES ASSUME Init PROVE TypeOK
  OBVIOUS
<1>1. log \in Seq(Line) /\ tail \in Seq(Line) /\ Len(tail) <= 1
  BY DEF Init
<1> QED
  BY <1>1 DEF Init, TypeOK

LEMMA NextTypes == TypeOK /\ [Next]_vars => TypeOK'
<1> SUFFICES ASSUME TypeOK, [Next]_vars PROVE TypeOK'
  OBVIOUS
<1>1. ASSUME NEW w \in Writers, Acquire(w) PROVE TypeOK'
  <2>1. Draft(last + 1) \in Writing
    BY DEF TypeOK, Draft, Writing, Line
  <2>2. job' \in [Writers -> {Idle} \cup Writing]
    BY <1>1, <2>1 DEF Acquire, TypeOK
  <2> QED
    BY <1>1, <2>2 DEF Acquire, TypeOK
<1>2. ASSUME NEW w \in Writers, ReadLast(w) PROVE TypeOK'
  <2>1. LastHash(Visible) \in Nat
    BY LastHashType, VisibleType
  <2>2. job[w] \in Writing
    BY <1>2, WritingTypes DEF ReadLast
  <2>3. job' \in [Writers -> {Idle} \cup Writing]
    BY <1>2, <2>1, <2>2 DEF ReadLast, TypeOK, Writing, Line
  <2> QED
    BY <1>2, <2>3 DEF ReadLast, TypeOK
<1>3. ASSUME NEW w \in Writers, Flush(w) PROVE TypeOK'
  <2>1. job[w] \in Writing
    BY <1>3, WritingTypes DEF Flush
  <2>2. job' \in [Writers -> {Idle} \cup Writing]
    BY <1>3, <2>1 DEF Flush, TypeOK, Writing, Line
  <2>3. Broken \in Line
    BY DEF Broken, Line
  <2>4. tail' \in Seq(Line) /\ Len(tail') <= 1
    BY <1>3, <2>3, TailTypes DEF Flush
  <2> QED
    BY <1>3, <2>2, <2>4 DEF Flush, TypeOK
<1>4. ASSUME NEW w \in Writers, Complete(w) PROVE TypeOK'
  <2>1. job[w] \in Writing /\ job[w].line \in Line
    BY <1>4, WritingTypes DEF Complete
  <2>2. job' \in [Writers -> {Idle} \cup Writing]
    BY <1>4, <2>1 DEF Complete, TypeOK, Writing
  <2>3. tail' \in Seq(Line) /\ Len(tail') <= 1
    BY <1>4, <2>1, TailTypes DEF Complete
  <2> QED
    BY <1>4, <2>2, <2>3 DEF Complete, TypeOK
<1>5. ASSUME NEW w \in Writers, Finish(w) PROVE TypeOK'
  <2>1. log' \in Seq(Line)
    BY <1>5, VisibleType DEF Finish
  <2>2. job' \in [Writers -> {Idle} \cup Writing]
    BY <1>5 DEF Finish, TypeOK
  <2>3. tail' \in Seq(Line) /\ Len(tail') <= 1
    BY <1>5 DEF Finish
  <2> QED
    BY <1>5, <2>1, <2>2, <2>3 DEF Finish, TypeOK
<1>6. ASSUME NEW w \in Writers, Die(w) PROVE TypeOK'
  <2>1. job' \in [Writers -> {Idle} \cup Writing]
    BY <1>6 DEF Die, TypeOK
  <2> QED
    BY <1>6, <2>1 DEF Die, TypeOK
<1>7. CASE Export
  <2>1. LatestHash(Visible) \in Nat
    BY <1>7, VisibleType, VerifiedFile, LastHashType DEF Export
  <2>2. Len(Visible) \in Nat
    BY VisibleType
  <2> QED
    BY <1>7, <2>1, <2>2 DEF Export, TypeOK, Anchor
<1>8. CASE UNCHANGED vars
  BY <1>8 DEF vars, TypeOK
<1> QED
  BY <1>1, <1>2, <1>3, <1>4, <1>5, <1>6, <1>7, <1>8 DEF Next, Write

\* Every variable of the audit log keeps its type (class AuditLogger).
THEOREM LogTypes == Spec => []TypeOK
  BY InitTypes, NextTypes, PTL DEF Spec

-----------------------------------------------------------------------------
(* The audit log: the chain *)

LEMMA InitChain == Init => ChainInv
<1> SUFFICES ASSUME Init PROVE ChainInv
  OBVIOUS
<1>1. Linked
  BY DEF Init, Linked
<1> QED
  BY <1>1 DEF Init, ChainInv, Idle

\* A whole line that covers the last hash of linked lines extends the chain.
LEMMA AppendLinks ==
  ASSUME NEW lines \in Seq(Line), NEW line \in Line,
         \A i \in 1..Len(lines) :
           /\ lines[i].whole
           /\ lines[i].prev = IF i = 1 THEN Zero ELSE lines[i - 1].hash,
         line.whole, line.prev = LastHash(lines)
  PROVE  \A i \in 1..Len(Append(lines, line)) :
           /\ Append(lines, line)[i].whole
           /\ Append(lines, line)[i].prev =
                IF i = 1 THEN Zero ELSE Append(lines, line)[i - 1].hash
<1> SUFFICES ASSUME NEW i \in 1..(Len(lines) + 1)
             PROVE  /\ Append(lines, line)[i].whole
                    /\ Append(lines, line)[i].prev =
                         IF i = 1 THEN Zero ELSE Append(lines, line)[i - 1].hash
  OBVIOUS
<1>0. Len(lines) \in Nat
  OBVIOUS
<1>1. CASE i = Len(lines) + 1
  <2>1. Append(lines, line)[i] = line
    BY <1>1
  <2>2. CASE lines = <<>>
    BY <1>1, <2>1, <2>2 DEF LastHash
  <2>3. CASE lines # <<>>
    <3>1. i # 1 /\ i - 1 = Len(lines) /\ Len(lines) \in 1..Len(lines)
      BY <1>0, <1>1, <2>3
    <3>2. Append(lines, line)[i - 1] = lines[Len(lines)]
      BY <3>1
    <3>3. LastHash(lines) = lines[Len(lines)].hash
      BY <2>3, <3>1 DEF LastHash
    <3> QED
      BY <2>1, <3>1, <3>2, <3>3
  <2> QED
    BY <2>2, <2>3
<1>2. CASE i # Len(lines) + 1
  <2>1. i \in 1..Len(lines)
    BY <1>0, <1>2
  <2>2. Append(lines, line)[i] = lines[i]
    BY <2>1
  <2>3. i # 1 => i - 1 \in 1..Len(lines) /\ Append(lines, line)[i - 1] = lines[i - 1]
    BY <1>0, <2>1
  <2> QED
    BY <2>1, <2>2, <2>3
<1> QED
  BY <1>1, <1>2

LEMMA NextChain == TypeOK /\ ChainInv /\ [Next]_vars => ChainInv'
<1> SUFFICES ASSUME TypeOK, ChainInv, [Next]_vars PROVE ChainInv'
  OBVIOUS
<1>0. \A w \in Writers : job[w] # Idle => holder = w
  BY DEF ChainInv
<1>1. ASSUME NEW w \in Writers, Acquire(w) PROVE ChainInv'
  <2>1. \A v \in Writers : job[v] = Idle
    BY <1>0, <1>1 DEF Acquire
  <2>2. \A v \in Writers : job'[v] # Idle => v = w
    BY <1>1, <2>1 DEF Acquire, TypeOK
  <2>3. job'[w].step = "read"
    BY <1>1 DEF Acquire, TypeOK, Draft
  <2>4. \A v \in Writers : job'[v].step \notin {"append", "flush", "end"}
    BY <2>2, <2>3 DEF Idle
  <2>5. tears = 0 => tail = <<>> /\ Linked
    BY <2>1 DEF ChainInv, Idle
  <2>6. Linked => Linked'
    BY <1>1 DEF Acquire, Linked
  <2> QED
    BY <1>1, <2>2, <2>4, <2>5, <2>6 DEF Acquire, ChainInv
<1>2. ASSUME NEW w \in Writers, ReadLast(w) PROVE ChainInv'
  <2>0. job[w] \in Writing /\ job[w] # Idle
    BY <1>2, WritingTypes DEF ReadLast, Idle
  <2>1. \A v \in Writers \ {w} : job'[v] = job[v] /\ job[v] = Idle
    BY <1>0, <1>2, <2>0 DEF ReadLast, TypeOK
  <2>2. job'[w].step = "append" /\ job'[w].line.prev = LastHash(Visible)
    BY <1>2, <2>0 DEF ReadLast, TypeOK, Writing, Line
  <2>3. tears = 0 => tail = <<>>
    BY <1>2, <2>1 DEF ReadLast, ChainInv, Idle
  <2>4. tears = 0 => Visible = log /\ Linked
    BY <2>3, VisibleType DEF ChainInv
  <2>5. Linked => Linked'
    BY <1>2 DEF ReadLast, Linked
  <2>6. \A v \in Writers : job'[v] # Idle => holder' = v
    BY <1>0, <1>2, <2>0, <2>1 DEF ReadLast
  <2>7. \A v \in Writers : /\ job'[v].step \notin {"flush", "end"}
                           /\ job'[v].step = "append" => v = w
    BY <2>1, <2>2 DEF Idle
  <2> QED
    BY <1>2, <2>2, <2>3, <2>4, <2>5, <2>6, <2>7 DEF ReadLast, ChainInv
<1>3. ASSUME NEW w \in Writers, Flush(w) PROVE ChainInv'
  <2>0. job[w] \in Writing /\ job[w] # Idle
    BY <1>3, WritingTypes DEF Flush, Idle
  <2>1. \A v \in Writers \ {w} : job'[v] = job[v] /\ job[v] = Idle
    BY <1>0, <1>3, <2>0 DEF Flush, TypeOK
  <2>2. /\ job'[w].step = "flush"
        /\ job'[w].line.prev = job[w].line.prev
        /\ job'[w].line.whole = (tail = <<>>)
    BY <1>3, <2>0 DEF Flush, TypeOK, Writing, Line
  <2>3. tears = 0 => tail = <<>>
    BY <1>3, <2>1 DEF Flush, ChainInv, Idle
  <2>4. tears = 0 => Linked /\ job[w].line.prev = LastHash(log)
    BY <1>3 DEF Flush, ChainInv
  <2>5. Linked => Linked'
    BY <1>3 DEF Flush, Linked
  <2>6. \A v \in Writers : job'[v] # Idle => holder' = v
    BY <1>0, <1>3, <2>0, <2>1 DEF Flush
  <2>7. \A v \in Writers : /\ job'[v].step \notin {"append", "end"}
                           /\ job'[v].step = "flush" => v = w
    BY <2>1, <2>2 DEF Idle
  <2>8. UNCHANGED <<log, tears>>
    BY <1>3 DEF Flush
  <2> QED
    BY <2>2, <2>3, <2>4, <2>5, <2>6, <2>7, <2>8 DEF ChainInv
<1>4. ASSUME NEW w \in Writers, Complete(w) PROVE ChainInv'
  <2>0. job[w] \in Writing /\ job[w] # Idle
    BY <1>4, WritingTypes DEF Complete, Idle
  <2>1. \A v \in Writers \ {w} : job'[v] = job[v] /\ job[v] = Idle
    BY <1>0, <1>4, <2>0 DEF Complete, TypeOK
  <2>2. job'[w].step = "end" /\ job'[w].line = job[w].line
    BY <1>4, <2>0 DEF Complete, TypeOK, Writing
  <2>3. tears = 0 => /\ Linked
                     /\ job[w].line.prev = LastHash(log) /\ job[w].line.whole
    BY <1>4 DEF Complete, ChainInv
  <2>4. Linked => Linked'
    BY <1>4 DEF Complete, Linked
  <2>5. \A v \in Writers : job'[v] # Idle => holder' = v
    BY <1>0, <1>4, <2>0, <2>1 DEF Complete
  <2>6. \A v \in Writers : job'[v].step \in {"append", "flush", "end"} => v = w
    BY <2>1 DEF Idle
  <2>7. UNCHANGED <<log, tears>> /\ tail' = <<job[w].line>>
    BY <1>4 DEF Complete
  <2> QED
    BY <2>2, <2>3, <2>4, <2>5, <2>6, <2>7 DEF ChainInv
<1>5. ASSUME NEW w \in Writers, Finish(w) PROVE ChainInv'
  <2>0. job[w] \in Writing /\ job[w] # Idle /\ job[w].line \in Line
    BY <1>5, WritingTypes DEF Finish, Idle
  <2>2. \A v \in Writers : job'[v] = Idle
    BY <1>0, <1>5, <2>0 DEF Finish, TypeOK
  <2>3. ASSUME tears = 0 PROVE Linked'
    <3> DEFINE line == job[w].line
    <3>1. line.whole /\ line.prev = LastHash(log) /\ tail = <<line>>
      BY <1>5, <2>3 DEF Finish, ChainInv
    <3>2. \A i \in 1..Len(log) :
            /\ log[i].whole
            /\ log[i].prev = IF i = 1 THEN Zero ELSE log[i - 1].hash
      BY <2>3 DEF ChainInv, Linked
    <3>3. log \in Seq(Line) /\ log' = Append(log, line)
      BY <1>5, <2>0, <3>1, VisibleType DEF Finish, TypeOK
    <3> HIDE DEF line
    <3>4. \A i \in 1..Len(Append(log, line)) :
            /\ Append(log, line)[i].whole
            /\ Append(log, line)[i].prev =
                 IF i = 1 THEN Zero ELSE Append(log, line)[i - 1].hash
      BY <2>0, <3>1, <3>2, <3>3, AppendLinks DEF line
    <3> QED
      BY <3>3, <3>4 DEF Linked
  <2>4. \A v \in Writers : job'[v].step \notin {"append", "flush", "end"}
    BY <2>2 DEF Idle
  <2>5. tears' = tears /\ tail' = <<>>
    BY <1>5 DEF Finish
  <2> QED
    BY <2>2, <2>3, <2>4, <2>5 DEF ChainInv
<1>6. ASSUME NEW w \in Writers, Die(w) PROVE ChainInv'
  <2>1. \A v \in Writers : job'[v] = Idle /\ (v # w => job[v] = Idle)
    BY <1>0, <1>6 DEF Die, TypeOK
  <2>2. tears' = 0 => tears = 0 /\ job[w].step \notin {"flush", "end"}
    BY <1>6 DEF Die, TypeOK
  <2>3. \A v \in Writers : job'[v].step \notin {"append", "flush", "end"}
    BY <2>1 DEF Idle
  <2>4. tears' = 0 => tail = <<>> /\ Linked
    BY <2>1, <2>2 DEF ChainInv, Idle
  <2>5. Linked => Linked'
    BY <1>6 DEF Die, Linked
  <2>6. tail' = tail
    BY <1>6 DEF Die
  <2> QED
    BY <2>1, <2>3, <2>4, <2>5, <2>6 DEF ChainInv
<1>7. CASE Export
  BY <1>7 DEF Export, ChainInv, Linked
<1>8. CASE UNCHANGED vars
  BY <1>8 DEF vars, ChainInv, Linked
<1> QED
  BY <1>1, <1>2, <1>3, <1>4, <1>5, <1>6, <1>7, <1>8 DEF Next, Write

\* For any number of writers and events, the events AuditLogger.write appends
\* link to one another, unless one was torn in the middle.
THEOREM ChainAlwaysLinked == Spec => []ChainLinked
<1>1. Spec => [](TypeOK /\ ChainInv)
  BY InitTypes, NextTypes, InitChain, NextChain, PTL DEF Spec
<1>2. ChainInv => ChainLinked
  BY DEF ChainInv, ChainLinked
<1> QED
  BY <1>1, <1>2, PTL

-----------------------------------------------------------------------------
(* The audit log: anchors *)

Exclusive == \A w \in Writers : job[w] # Idle => holder = w

\* A whole line without its newline belongs to a writer about to end it.
TailOwned ==
  ~chopped /\ tail # <<>> /\ tail[1].whole => \E w \in Writers : job[w].step = "end"

AnchorInv == Exclusive /\ TailOwned /\ AnchorsStay

LEMMA OneMore ==
  ASSUME NEW s \in Seq(Line), NEW t \in Seq(Line), t # <<>>, Len(t) <= 1
  PROVE  Len(s \o t) = Len(s) + 1 /\ (s \o t)[Len(s) + 1] = t[1]
<1>1. \A seq \in Seq(Line) : seq # <<>> => Len(seq) \in Nat \ {0}
  BY EmptySeq, Zenon
<1>2. Len(t) \in Nat \ {0}
  BY <1>1, Zenon
<1>3. Len(t) = 1
  <2>1. \A n \in Nat \ {0} : n <= 1 => n = 1
    OBVIOUS
  <2> QED
    BY <1>2, <2>1, Zenon
<1>4. Len(s) \in Nat /\ Len(s) + 1 \in 1 .. Len(s) + 1
  <2>1. Len(s) \in Nat
    BY LenProperties
  <2>2. \A n \in Nat : n + 1 \in 1 .. n + 1
    OBVIOUS
  <2> QED
    BY <2>1, <2>2
<1> QED
  BY <1>3, <1>4, ConcatProperties

\* Anchors that count to no line but those that ended in a newline.
LEMMA AnchorsInLog ==
  ASSUME TypeOK, AnchorsStay, ~chopped, tail = <<>> \/ ~tail[1].whole,
         NEW a \in anchors
  PROVE  /\ a.count \in Nat /\ a.count <= Len(log)
         /\ a.count > 0 => log[a.count].whole /\ log[a.count].hash = a.hash
<1>0. a.count \in Nat /\ Len(log) \in Nat
  BY DEF TypeOK, Anchor
<1>1. /\ a.count <= Len(Visible)
      /\ a.count > 0 => Visible[a.count].whole /\ Visible[a.count].hash = a.hash
  BY DEF AnchorsStay
<1>2. CASE tail = <<>>
  <2>1. Visible = log
    BY <1>2, VisibleType
  <2> QED
    BY <1>0, <1>1, <2>1
<1>3. CASE tail # <<>>
  <2>0. log \in Seq(Line) /\ tail \in Seq(Line) /\ Len(tail) <= 1
    BY DEF TypeOK
  <2>1. ~tail[1].whole
    BY <1>3
  <2>2. Len(Visible) = Len(log) + 1 /\ Visible[Len(log) + 1] = tail[1]
    BY <1>3, <2>0, OneMore DEF Visible
  <2>3. a.count # Len(log) + 1
    BY <1>0, <1>1, <2>1, <2>2
  <2>4. a.count <= Len(log)
    BY <1>0, <1>1, <2>2, <2>3
  <2>5. a.count > 0 => Visible[a.count] = log[a.count]
    BY <1>0, <2>4, VisibleType
  <2> QED
    BY <1>0, <1>1, <2>4, <2>5
<1> QED
  BY <1>2, <1>3

\* Such anchors stay, whatever the tail becomes.
LEMMA AnchorsOutliveTail ==
  ASSUME TypeOK, TypeOK', AnchorsStay, ~chopped, tail = <<>> \/ ~tail[1].whole,
         log' = log, anchors' = anchors
  PROVE  AnchorsStay'
<1> SUFFICES ASSUME NEW a \in anchors
             PROVE  /\ a.count <= Len(Visible')
                    /\ a.count > 0 => Visible'[a.count].whole /\ Visible'[a.count].hash = a.hash
  BY DEF AnchorsStay
<1>1. /\ a.count \in Nat /\ a.count <= Len(log)
      /\ a.count > 0 => log[a.count].whole /\ log[a.count].hash = a.hash
  BY AnchorsInLog
<1>2. log \in Seq(Line) /\ tail' \in Seq(Line) /\ Visible' = log \o tail'
  BY DEF TypeOK, Visible
<1>3. Len(Visible') = Len(log) + Len(tail') /\ \A i \in 1..Len(log) : Visible'[i] = log[i]
  BY <1>2
<1>4. a.count > 0 => Visible'[a.count] = log[a.count]
  BY <1>1, <1>2, <1>3
<1> QED
  BY <1>1, <1>2, <1>3, <1>4

LEMMA NextAnchors == TypeOK /\ TypeOK' /\ AnchorInv /\ [Next]_vars => AnchorInv'
<1> SUFFICES ASSUME TypeOK, TypeOK', AnchorInv, [Next]_vars PROVE AnchorInv'
  OBVIOUS
<1>0. Exclusive /\ TailOwned /\ AnchorsStay
  BY DEF AnchorInv
<1>1. ASSUME NEW w \in Writers, Acquire(w) PROVE AnchorInv'
  <2>1. \A v \in Writers : job[v] = Idle
    BY <1>0, <1>1 DEF Acquire, Exclusive
  <2>2. \A v \in Writers : job'[v] # Idle => v = w
    BY <1>1, <2>1 DEF Acquire, TypeOK
  <2>3. ~chopped /\ tail # <<>> => ~tail[1].whole
    BY <1>0, <2>1 DEF TailOwned, Idle
  <2>4. UNCHANGED <<log, tail, chopped, anchors>> /\ holder' = w
    BY <1>1 DEF Acquire
  <2>5. AnchorsStay'
    BY <1>0, <2>4 DEF AnchorsStay, Visible
  <2> QED
    BY <2>2, <2>3, <2>4, <2>5 DEF AnchorInv, Exclusive, TailOwned
<1>2. ASSUME NEW w \in Writers, ReadLast(w) PROVE AnchorInv'
  <2>1. job[w] # Idle
    BY <1>2 DEF ReadLast, Idle
  <2>2. \A v \in Writers \ {w} : job'[v] = job[v] /\ job[v] = Idle
    BY <1>0, <1>2, <2>1 DEF ReadLast, TypeOK, Exclusive
  <2>3. ~chopped /\ tail # <<>> => ~tail[1].whole
    BY <1>0, <1>2, <2>2 DEF TailOwned, ReadLast, Idle
  <2>4. UNCHANGED <<log, tail, chopped, anchors, holder>>
    BY <1>2 DEF ReadLast
  <2>5. AnchorsStay'
    BY <1>0, <2>4 DEF AnchorsStay, Visible
  <2> QED
    BY <1>0, <2>1, <2>2, <2>3, <2>4, <2>5 DEF AnchorInv, Exclusive, TailOwned
<1>3. ASSUME NEW w \in Writers, Flush(w) PROVE AnchorInv'
  <2>1. job[w] # Idle
    BY <1>3 DEF Flush, Idle
  <2>2. \A v \in Writers \ {w} : job'[v] = job[v] /\ job[v] = Idle
    BY <1>0, <1>3, <2>1 DEF Flush, TypeOK, Exclusive
  <2>3. ~chopped /\ tail # <<>> => ~tail[1].whole
    BY <1>0, <1>3, <2>2 DEF TailOwned, Flush, Idle
  <2>4. UNCHANGED <<log, chopped, anchors, holder>>
    BY <1>3 DEF Flush
  <2>5. AnchorsStay'
    BY <1>0, <2>3, <2>4, AnchorsOutliveTail DEF AnchorsStay
  <2>6. ~tail'[1].whole
    BY <1>3 DEF Flush, Broken
  <2> QED
    BY <1>0, <2>1, <2>2, <2>4, <2>5, <2>6 DEF AnchorInv, Exclusive, TailOwned
<1>4. ASSUME NEW w \in Writers, Complete(w) PROVE AnchorInv'
  <2>1. job[w] # Idle /\ job[w] \in Writing
    BY <1>4, WritingTypes DEF Complete, Idle
  <2>2. \A v \in Writers \ {w} : job'[v] = job[v] /\ job[v] = Idle
    BY <1>0, <1>4, <2>1 DEF Complete, TypeOK, Exclusive
  <2>3. ~chopped /\ tail # <<>> => ~tail[1].whole
    BY <1>0, <1>4, <2>2 DEF TailOwned, Complete, Idle
  <2>4. UNCHANGED <<log, chopped, anchors, holder>>
    BY <1>4 DEF Complete
  <2>5. AnchorsStay'
    BY <1>0, <2>3, <2>4, AnchorsOutliveTail DEF AnchorsStay
  <2>6. job'[w].step = "end"
    BY <1>4, <2>1 DEF Complete, TypeOK, Writing
  <2> QED
    BY <1>0, <2>1, <2>2, <2>4, <2>5, <2>6 DEF AnchorInv, Exclusive, TailOwned
<1>5. ASSUME NEW w \in Writers, Finish(w) PROVE AnchorInv'
  <2>1. \A v \in Writers : job'[v] = Idle
    BY <1>0, <1>5 DEF Finish, TypeOK, Exclusive, Idle
  <2>2. tail' = <<>> /\ UNCHANGED <<chopped, anchors>>
    BY <1>5 DEF Finish
  <2>3. Visible' = Visible
    <3>1. Visible \in Seq(Line)
      BY VisibleType
    <3>2. Visible' = Visible \o <<>>
      BY <1>5 DEF Finish, Visible
    <3> QED
      BY <3>1, <3>2
  <2>4. AnchorsStay'
    BY <1>0, <2>2, <2>3 DEF AnchorsStay
  <2> QED
    BY <2>1, <2>2, <2>4 DEF AnchorInv, Exclusive, TailOwned
<1>6. ASSUME NEW w \in Writers, Die(w) PROVE AnchorInv'
  <2>1. \A v \in Writers : job'[v] = Idle /\ (v # w => job[v] = Idle)
    BY <1>0, <1>6 DEF Die, TypeOK, Exclusive
  <2>2. UNCHANGED <<log, tail, anchors>> /\ (~chopped' => ~chopped /\ job[w].step # "end")
    BY <1>6 DEF Die
  <2>3. ~chopped' /\ tail # <<>> => ~tail[1].whole
    BY <1>0, <2>1, <2>2 DEF TailOwned, Idle
  <2>4. AnchorsStay'
    BY <1>0, <2>2 DEF AnchorsStay, Visible
  <2> QED
    BY <2>1, <2>2, <2>3, <2>4 DEF AnchorInv, Exclusive, TailOwned
<1>7. CASE Export
  <2> DEFINE new == [hash |-> LatestHash(Visible), count |-> Len(Visible)]
  <2>1. /\ Visible \in Seq(Line)
        /\ \A i \in 1..Len(Visible) : Visible[i].whole
        /\ LatestHash(Visible) = LastHash(Visible)
    BY <1>7, VisibleType, VerifiedFile DEF Export
  <2>2. new.count = Len(Visible) /\ new.hash = LastHash(Visible)
    BY <2>1
  <2>3. new.count > 0 => Visible[new.count].whole /\ Visible[new.count].hash = new.hash
    <3> SUFFICES ASSUME new.count > 0
                 PROVE  Visible[new.count].whole /\ Visible[new.count].hash = new.hash
      OBVIOUS
    <3>1. Len(Visible) \in 1..Len(Visible) /\ Visible # <<>>
      BY <2>1, <2>2
    <3> QED
      BY <2>1, <2>2, <3>1 DEF LastHash
  <2>4. anchors' = anchors \cup {new} /\ UNCHANGED <<log, tail, job, holder, chopped>>
    BY <1>7 DEF Export
  <2>5. Visible' = Visible
    BY <2>4 DEF Visible
  <2> HIDE DEF new
  <2>6. Len(Visible) <= Len(Visible)
    BY <2>1
  <2>7. AnchorsStay'
    BY <1>0, <2>2, <2>3, <2>4, <2>5, <2>6 DEF AnchorsStay
  <2> QED
    BY <1>0, <2>4, <2>7 DEF AnchorInv, Exclusive, TailOwned
<1>8. CASE UNCHANGED vars
  BY <1>0, <1>8 DEF vars, AnchorInv, Exclusive, TailOwned, AnchorsStay, Visible
<1> QED
  BY <1>1, <1>2, <1>3, <1>4, <1>5, <1>6, <1>7, <1>8 DEF Next, Write

\* An anchor export-audit-anchor printed stays true of the log, unless a crash
\* left a line without its newline: the line it counted to is there, whole,
\* and has the hash, whatever is appended or torn later.
THEOREM AnchorsAlwaysStay == Spec => []AnchorsStay
<1>1. Init => AnchorInv
  BY DEF Init, AnchorInv, Exclusive, TailOwned, AnchorsStay
<1>2. AnchorInv => AnchorsStay
  BY DEF AnchorInv
<1> QED
  BY <1>1, <1>2, InitTypes, NextTypes, NextAnchors, PTL DEF Spec

-----------------------------------------------------------------------------
(* The audit log: edits *)

\* Lines that link, each to the one before it.
Chained(lines) ==
  \A i \in 1..Len(lines) :
    /\ lines[i].whole
    /\ lines[i].prev = IF i = 1 THEN Zero ELSE lines[i - 1].hash

\* Below a whole line verify_audit_log expects its hash.
LEMMA ExpectedBelowWhole ==
  ASSUME NEW lines \in Seq(Line), NEW i \in 1..(Len(lines) + 1),
         i = 1 \/ lines[i - 1].whole
  PROVE  Expected(lines, i) = IF i = 1 THEN Zero ELSE lines[i - 1].hash
<1> DEFINE above == {j \in 1..(i - 1) : lines[j].whole}
<1>0. i \in Nat /\ i >= 1
  <2>1. Len(lines) \in Nat
    OBVIOUS
  <2> QED
    BY <2>1
<1>1. Expected(lines, i) = IF above = {} THEN Zero
                           ELSE lines[CHOOSE j \in above : \A k \in above : k <= j].hash
  BY DEF Expected
<1>2. CASE i = 1
  <2>1. above = {}
    BY <1>2
  <2> QED
    BY <1>1, <1>2, <2>1
<1>3. CASE i # 1
  <2>1. i - 1 \in above /\ \A k \in above : k <= i - 1
    BY <1>0, <1>3
  <2>2. \A j \in above : (\A k \in above : k <= j) => j = i - 1
    BY <1>0, <2>1
  <2> HIDE DEF above
  <2>3. (CHOOSE j \in above : \A k \in above : k <= j) = i - 1
    BY <2>1, <2>2
  <2> QED
    BY <1>1, <1>3, <2>1, <2>3
<1> QED
  BY <1>2, <1>3

\* Each verifier accepts a file only if its lines link and have their hashes.
LEMMA AcceptedIsChained ==
  ASSUME NEW lines \in Seq(Line), Verifies(lines) \/ Breaks(lines) = {}
  PROVE  Chained(lines) /\ \A i \in 1..Len(lines) : lines[i].sealed
<1>0. Len(lines) \in Nat
  OBVIOUS
<1>1. CASE Breaks(lines) = {}
  BY <1>1 DEF Breaks, Chained
<1>2. CASE Verifies(lines)
  <2>1. \A i \in 1..Len(lines) :
          lines[i].whole /\ lines[i].sealed /\ lines[i].prev = Expected(lines, i)
    BY <1>2 DEF Verifies, BadLines
  <2>2. ASSUME NEW i \in 1..Len(lines)
        PROVE  lines[i].prev = IF i = 1 THEN Zero ELSE lines[i - 1].hash
    <3>1. i \in 1..(Len(lines) + 1) /\ (i # 1 => i - 1 \in 1..Len(lines))
      BY <1>0
    <3>2. Expected(lines, i) = IF i = 1 THEN Zero ELSE lines[i - 1].hash
      BY <2>1, <3>1, ExpectedBelowWhole
    <3> QED
      BY <2>1, <3>2
  <2> QED
    BY <2>1, <2>2 DEF Chained
<1> QED
  BY <1>1, <1>2

\* Sequences that agree up to a place begin alike.
LEMMA SameBeginning ==
  ASSUME NEW s \in Seq(Line), NEW t \in Seq(Line), NEW n \in Nat, n <= Len(s), n <= Len(t),
         \A i \in 1..n : s[i] = t[i]
  PROVE  /\ SubSeq(s, 1, n) \in Seq(Line) /\ Len(SubSeq(s, 1, n)) = n
         /\ \A i \in 1..n : SubSeq(s, 1, n)[i] = s[i]
         /\ SubSeq(s, 1, n) = SubSeq(t, 1, n)
<1>1. /\ SubSeq(s, 1, n) \in Seq(Line) /\ Len(SubSeq(s, 1, n)) = n
      /\ \A i \in 1..n : SubSeq(s, 1, n)[i] = s[i]
  BY SubSeqProperties
<1>2. /\ SubSeq(t, 1, n) \in Seq(Line) /\ Len(SubSeq(t, 1, n)) = n
      /\ \A i \in 1..n : SubSeq(t, 1, n)[i] = t[i]
  BY SubSeqProperties
<1>3. \A i \in 1..n : SubSeq(s, 1, n)[i] = SubSeq(t, 1, n)[i]
  BY <1>1, <1>2
<1> QED
  BY <1>1, <1>2, <1>3, SeqEqual

\* Hashes that only grow, along lines of an intact log.
Growing(whole) ==
  \A i \in 1..Len(whole) :
    /\ 0 < whole[i].hash
    /\ \A j \in (i + 1)..Len(whole) : whole[i].hash < whole[j].hash

LEMMA GrowingApart ==
  ASSUME NEW whole \in Seq(Line), Growing(whole)
  PROVE  \A i, j \in 1..Len(whole) : whole[i].hash = whole[j].hash => i = j
<1>0. Len(whole) \in Nat
  OBVIOUS
<1> SUFFICES ASSUME NEW i \in 1..Len(whole), NEW j \in 1..Len(whole), i < j,
                    whole[i].hash = whole[j].hash
             PROVE  FALSE
  BY <1>0
<1>1. j \in (i + 1)..Len(whole)
  BY <1>0
<1>2. whole[i].hash < whole[j].hash
  BY <1>1 DEF Growing
<1>3. whole[i] \in Line
  OBVIOUS
<1>4. whole[i].hash \in Nat
  BY <1>3 DEF Line
<1> QED
  BY <1>2, <1>4

\* Linked lines of which each is a line of an intact log or has a hash beyond
\* all of the log's: up to some line they are the log's, each at its place, for
\* the least that is not would follow the same line as its own; and from there
\* on none is, for the least that is would follow one that is none.
LEMMA ChainedContinues ==
  ASSUME NEW whole \in Seq(Line), Chained(whole), Growing(whole), NEW top \in Nat,
         \A i \in 1..Len(whole) : whole[i].hash <= top,
         NEW lines \in Seq(Line), Chained(lines),
         \A i \in 1..Len(lines) :
           top < lines[i].hash \/ \E k \in 1..Len(whole) : lines[i] = whole[k]
  PROVE  \E n \in 0..Len(lines) :
           /\ n <= Len(whole) /\ SubSeq(lines, 1, n) = SubSeq(whole, 1, n)
           /\ \A i \in 1..n : lines[i] = whole[i]
           /\ \A i \in (n + 1)..Len(lines) : top < lines[i].hash
<1>0. /\ Len(lines) \in Nat /\ Len(whole) \in Nat
      /\ \A i \in 1..Len(lines) : lines[i].hash \in Nat
      /\ \A i \in 1..Len(whole) : whole[i].hash \in Nat /\ 0 < whole[i].hash
  <2>1. /\ \A i \in 1..Len(lines) : lines[i] \in Line
        /\ \A i \in 1..Len(whole) : whole[i] \in Line
    OBVIOUS
  <2> QED
    BY <2>1 DEF Line, Growing
<1> DEFINE wrong == {i \in 1..Len(lines) : ~(i <= Len(whole) /\ lines[i] = whole[i])}
                      \cup {Len(lines) + 1}
<1>1. wrong \in SUBSET Nat /\ wrong # {}
  BY <1>0
<1>2. PICK m \in wrong : \A i \in wrong : m <= i
  BY <1>1, Least
<1>3. m \in 1..(Len(lines) + 1) /\ m \in Nat /\ m - 1 \in 0..Len(lines)
  BY <1>0
<1>4. \A i \in 1..(m - 1) : i <= Len(whole) /\ lines[i] = whole[i]
  <2> TAKE i \in 1..(m - 1)
  <2>1. i \in 1..Len(lines) /\ ~(m <= i)
    BY <1>0, <1>3
  <2> QED
    BY <1>2, <2>1
<1>5. m \in 1..Len(lines) => ~(m <= Len(whole) /\ lines[m] = whole[m])
  BY <1>0
<1> HIDE DEF wrong
<1>6. m - 1 <= Len(whole)
  <2>1. CASE m = 1
    BY <1>0, <2>1
  <2>2. CASE m # 1
    <3>1. m - 1 \in 1..(m - 1)
      BY <1>3, <2>2
    <3> QED
      BY <1>4, <3>1
  <2> QED
    BY <2>1, <2>2
<1> DEFINE strays == {i \in m..Len(lines) : ~(top < lines[i].hash)}
<1>7. strays = {}
  <2> SUFFICES ASSUME strays # {} PROVE FALSE
    OBVIOUS
  <2>1. strays \in SUBSET Nat
    BY <1>0, <1>3
  <2>2. PICK i \in strays : \A j \in strays : i <= j
    BY <2>1, Least
  <2>3. i \in m..Len(lines) /\ i \in 1..Len(lines) /\ i \in Nat /\ ~(top < lines[i].hash)
    BY <1>0, <1>3
  <2>4. PICK k \in 1..Len(whole) : lines[i] = whole[k]
    BY <2>3
  <2>5. /\ lines[i].prev = IF i = 1 THEN Zero ELSE lines[i - 1].hash
        /\ whole[k].prev = IF k = 1 THEN Zero ELSE whole[k - 1].hash
    BY <2>3, <2>4 DEF Chained
  <2>6. k # 1 => k - 1 \in 1..Len(whole) /\ 0 < whole[k - 1].hash /\ whole[k - 1].hash <= top
    BY <1>0
  <2>7. i # 1 => i - 1 \in 1..Len(lines)
    BY <1>0, <2>3
  <2>8. i # m
    <3> SUFFICES ASSUME i = m PROVE FALSE
      OBVIOUS
    <3>1. i # 1 => i - 1 \in 1..Len(whole) /\ lines[i - 1] = whole[i - 1]
      <4> SUFFICES ASSUME i # 1 PROVE i - 1 \in 1..Len(whole) /\ lines[i - 1] = whole[i - 1]
        OBVIOUS
      <4>1. i - 1 \in 1..(m - 1)
        BY <1>3, <2>3
      <4> QED
        BY <1>0, <1>4, <4>1
    <3>2. i = 1 => k = 1
      BY <2>4, <2>5, <2>6
    <3>3. i # 1 => k # 1 /\ whole[k - 1].hash = whole[i - 1].hash
      <4> SUFFICES ASSUME i # 1 PROVE k # 1 /\ whole[k - 1].hash = whole[i - 1].hash
        OBVIOUS
      <4>1. lines[i].prev = whole[i - 1].hash /\ 0 < whole[i - 1].hash /\ whole[i - 1].hash \in Nat
        BY <1>0, <2>5, <3>1
      <4>2. whole[k].prev = whole[i - 1].hash
        BY <2>4, <4>1
      <4>3. k # 1
        BY <2>5, <4>1, <4>2
      <4> QED
        BY <2>5, <4>2, <4>3
    <3>4. i # 1 => k - 1 = i - 1
      BY <2>6, <3>1, <3>3, GrowingApart
    <3>5. k = i
      BY <1>0, <2>3, <3>2, <3>4
    <3> QED
      BY <1>0, <1>5, <2>3, <2>4, <3>5
  <2>9. i - 1 \in m..Len(lines) /\ i # 1 /\ ~(i <= i - 1)
    BY <1>0, <1>3, <2>3, <2>8
  <2>10. top < lines[i - 1].hash
    BY <2>2, <2>9
  <2>11. lines[i - 1].hash \in Nat
    BY <1>0, <2>7, <2>9
  <2>12. CASE k = 1
    <3>1. lines[i - 1].hash = 0
      BY <2>4, <2>5, <2>9, <2>12
    <3> QED
      BY <2>10, <3>1
  <2>13. CASE k # 1
    <3>1. lines[i - 1].hash = whole[k - 1].hash
      BY <2>4, <2>5, <2>9, <2>13
    <3> QED
      BY <2>6, <2>10, <2>11, <2>13, <3>1
  <2> QED
    BY <2>12, <2>13
<1> HIDE DEF strays
<1>8. \A i \in m..Len(lines) : top < lines[i].hash
  BY <1>7 DEF strays
<1>9. SubSeq(lines, 1, m - 1) = SubSeq(whole, 1, m - 1)
  BY <1>0, <1>3, <1>4, <1>6, SameBeginning
<1> DEFINE n == m - 1
<1>10. n \in 0..Len(lines) /\ n + 1 = m
  BY <1>3
<1>11. \A i \in 1..n : lines[i] = whole[i]
  BY <1>4
<1>12. n <= Len(whole) /\ SubSeq(lines, 1, n) = SubSeq(whole, 1, n)
  BY <1>6, <1>9
<1> HIDE DEF n
<1> QED
  BY <1>8, <1>10, <1>11, <1>12

\* The events get larger and larger hashes, and the one being written the
\* largest.
HashInv ==
  /\ \A w \in Writers : job[w] # Idle =>
       /\ job[w].line.hash = last /\ 0 < last
       /\ tears = 0 => \A i \in 1..Len(log) : log[i].hash < last
  /\ tears = 0 => \A i \in 1..Len(log) :
       /\ 0 < log[i].hash /\ log[i].hash <= last
       /\ \A j \in (i + 1)..Len(log) : log[i].hash < log[j].hash

\* What a writer does to its own job it does to no other.
LEMMA OthersIdle ==
  ASSUME TypeOK, ChainInv, NEW w \in Writers, job[w] # Idle
  PROVE  \A v \in Writers \ {w} : job[v] = Idle
  BY DEF ChainInv

\* A step of a writer's own that leaves the log and the hash of its line alone.
LEMMA SameHashes ==
  ASSUME TypeOK, ChainInv, HashInv, NEW w \in Writers, job[w] # Idle,
         \A v \in Writers \ {w} : job'[v] = job[v],
         job'[w].line.hash = job[w].line.hash \/ job'[w] = Idle,
         log' = log, last' = last, tears' = 0 => tears = 0
  PROVE  HashInv'
<1>1. \A v \in Writers : job'[v] # Idle => v = w
  BY OthersIdle
<1> QED
  BY <1>1 DEF HashInv

LEMMA NextHashes == TypeOK /\ ChainInv /\ HashInv /\ [Next]_vars => HashInv'
<1> SUFFICES ASSUME TypeOK, ChainInv, HashInv, [Next]_vars PROVE HashInv'
  OBVIOUS
<1>0. /\ log \in Seq(Line) /\ last \in Nat /\ Len(log) \in Nat
      /\ \A i \in 1..Len(log) : log[i].hash \in Nat
  <2>1. log \in Seq(Line) /\ last \in Nat
    BY DEF TypeOK
  <2>2. \A i \in 1..Len(log) : log[i] \in Line
    BY <2>1
  <2> QED
    BY <2>1, <2>2 DEF Line
<1>1. ASSUME NEW w \in Writers, Acquire(w) PROVE HashInv'
  <2>1. \A v \in Writers : job'[v] # Idle => v = w
    BY <1>1 DEF Acquire, TypeOK, ChainInv
  <2>2. job'[w].line.hash = last + 1 /\ last' = last + 1
    BY <1>1 DEF Acquire, TypeOK, Draft
  <2>3. log' = log /\ tears' = tears
    BY <1>1 DEF Acquire
  <2>4. tears = 0 => \A i \in 1..Len(log) : log[i].hash < last + 1
    BY <1>0 DEF HashInv
  <2>5. \A n \in Nat : n <= last => n <= last + 1
    BY <1>0
  <2>6. 0 < last + 1
    BY <1>0
  <2>7. tears = 0 => \A i \in 1..Len(log) :
          /\ 0 < log[i].hash /\ log[i].hash <= last + 1
          /\ \A j \in (i + 1)..Len(log) : log[i].hash < log[j].hash
    BY <1>0, <2>5 DEF HashInv
  <2> QED
    BY <2>1, <2>2, <2>3, <2>4, <2>6, <2>7 DEF HashInv
<1>2. ASSUME NEW w \in Writers, ReadLast(w) \/ Flush(w) \/ Complete(w) PROVE HashInv'
  <2>1. job[w] \in Writing /\ job[w] # Idle
    BY <1>2, WritingTypes DEF ReadLast, Flush, Complete, Idle
  <2>2. \A v \in Writers \ {w} : job'[v] = job[v]
    BY <1>2 DEF ReadLast, Flush, Complete, TypeOK
  <2>3. job'[w].line.hash = job[w].line.hash
    <3>1. CASE ReadLast(w)
      BY <2>1, <3>1 DEF ReadLast, TypeOK, Writing, Line
    <3>2. CASE Flush(w)
      BY <2>1, <3>2 DEF Flush, TypeOK, Writing, Line
    <3>3. CASE Complete(w)
      BY <2>1, <3>3 DEF Complete, TypeOK, Writing, Line
    <3> QED
      BY <1>2, <3>1, <3>2, <3>3
  <2>4. log' = log /\ last' = last /\ tears' = tears
    BY <1>2 DEF ReadLast, Flush, Complete
  <2> QED
    BY <2>1, <2>2, <2>3, <2>4, SameHashes
<1>3. ASSUME NEW w \in Writers, Finish(w) PROVE HashInv'
  <2> DEFINE line == job[w].line
  <2>1. job[w] \in Writing /\ job[w] # Idle /\ line \in Line
    BY <1>3, WritingTypes DEF Finish, Idle
  <2>2. \A v \in Writers : job'[v] = Idle
    BY <1>3, <2>1, OthersIdle DEF Finish, TypeOK
  <2>3. tears' = tears /\ last' = last
    BY <1>3 DEF Finish
  <2>4. ASSUME tears = 0
        PROVE  \A i \in 1..Len(log') :
                 /\ 0 < log'[i].hash /\ log'[i].hash <= last
                 /\ \A j \in (i + 1)..Len(log') : log'[i].hash < log'[j].hash
    <3>1. tail = <<line>>
      BY <1>3, <2>4 DEF Finish, ChainInv
    <3>2. log' = Append(log, line)
      BY <1>3, <2>1, <3>1, VisibleType DEF Finish
    <3>3. line.hash = last /\ 0 < last /\ \A i \in 1..Len(log) : log[i].hash < last
      BY <2>1, <2>4 DEF HashInv
    <3>4. \A i \in 1..Len(log) :
            /\ 0 < log[i].hash /\ log[i].hash <= last
            /\ \A j \in (i + 1)..Len(log) : log[i].hash < log[j].hash
      BY <2>4 DEF HashInv
    <3> HIDE DEF line
    <3>5. /\ Len(log') = Len(log) + 1 /\ log'[Len(log) + 1] = line
          /\ \A i \in 1..Len(log) : log'[i] = log[i]
      BY <1>0, <2>1, <3>2
    <3> TAKE i \in 1..Len(log')
    <3>6. CASE i = Len(log) + 1
      <4>1. last <= last
        BY <1>0
      <4>2. (i + 1)..Len(log') = {}
        BY <1>0, <3>5, <3>6
      <4> QED
        BY <3>3, <3>5, <3>6, <4>1, <4>2
    <3>7. CASE i # Len(log) + 1
      <4>1. i \in 1..Len(log) /\ log'[i] = log[i]
        BY <1>0, <3>5, <3>7
      <4>2. ASSUME NEW j \in (i + 1)..Len(log') PROVE log'[i].hash < log'[j].hash
        <5>1. CASE j = Len(log) + 1
          BY <3>3, <3>5, <4>1, <5>1
        <5>2. CASE j # Len(log) + 1
          <6>1. j \in (i + 1)..Len(log) /\ j \in 1..Len(log)
            BY <1>0, <3>5, <4>1, <5>2
          <6> QED
            BY <3>4, <3>5, <4>1, <6>1
        <5> QED
          BY <5>1, <5>2
      <4> QED
        BY <3>4, <4>1, <4>2
    <3> QED
      BY <3>6, <3>7
  <2> QED
    BY <2>2, <2>3, <2>4 DEF HashInv
<1>4. ASSUME NEW w \in Writers, Die(w) PROVE HashInv'
  <2>1. job[w] # Idle /\ job'[w] = Idle /\ \A v \in Writers \ {w} : job'[v] = job[v]
    BY <1>4 DEF Die, TypeOK
  <2>2. log' = log /\ last' = last
    BY <1>4 DEF Die
  <2>3. tears' = 0 => tears = 0
    BY <1>4 DEF Die, TypeOK
  <2> QED
    BY <2>1, <2>2, <2>3, SameHashes
<1>5. CASE Export
  BY <1>5 DEF Export, HashInv
<1>6. CASE UNCHANGED vars
  BY <1>6 DEF vars, HashInv
<1> QED
  BY <1>1, <1>2, <1>3, <1>4, <1>5, <1>6 DEF Next, Write

\* A copy that a verifier accepts.
LEMMA AcceptedCopy ==
  ASSUME TypeOK, ChainInv, HashInv, tears = 0, NEW n \in 0..MaxCopy, NEW lines \in Copies(n),
         Verifies(lines) \/ Breaks(lines) = {}
  PROVE  /\ lines \in Seq(Line) /\ Len(lines) \in Nat
         /\ \E m \in 0..Len(lines) :
              /\ m <= Len(log) /\ SubSeq(lines, 1, m) = SubSeq(log, 1, m)
              /\ \A i \in 1..m : lines[i] = log[i]
              /\ \A i \in (m + 1)..Len(lines) : lines[i] \in Forged /\ last < lines[i].hash
<1>1. log \in Seq(Line) /\ Len(log) \in Nat /\ last \in Nat /\ MaxForged \in Nat /\ n \in Nat
  BY DEF TypeOK
<1>2. \A line \in Events : line \in Line /\ \E k \in 1..Len(log) : line = log[k]
  BY <1>1 DEF Events
<1>3. \A line \in Edited : line \in Line /\ ~line.sealed
  <2> SUFFICES ASSUME NEW line \in Events
               PROVE  /\ [line EXCEPT !.sealed = FALSE] \in Line
                      /\ ~[line EXCEPT !.sealed = FALSE].sealed
    BY DEF Edited
  <2>1. line \in Line
    BY <1>2
  <2> QED
    BY <2>1 DEF Line
<1>4. \A line \in Forged : line \in Line /\ last < line.hash
  <2>1. \A m \in 0..(last + MaxForged) : m \in Nat
    BY <1>1
  <2>2. \A m \in (last + 1)..(last + MaxForged) : m \in Nat /\ last < m
    BY <1>1
  <2> QED
    BY <2>1, <2>2, Zenon DEF Forged, Line
<1>5. lines \in [1..n -> Events \cup Edited \cup Forged]
  BY DEF Copies
<1>6. \A i \in 1..n : lines[i] \in Line
  BY <1>2, <1>3, <1>4, <1>5
<1>7. lines \in Seq(Line) /\ Len(lines) = n
  BY <1>1, <1>5, <1>6
<1>8. Chained(lines) /\ \A i \in 1..n : lines[i].sealed
  BY <1>7, AcceptedIsChained
<1>9. \A i \in 1..n : lines[i] \in Events \/ lines[i] \in Forged
  BY <1>3, <1>5, <1>8
<1>10. \A i \in 1..n : last < lines[i].hash \/ \E k \in 1..Len(log) : lines[i] = log[k]
  BY <1>2, <1>4, <1>9
<1>11. Chained(log) /\ Growing(log) /\ \A i \in 1..Len(log) : log[i].hash <= last
  BY DEF ChainInv, Linked, Chained, HashInv, Growing
<1>12. PICK m \in 0..Len(lines) :
          /\ m <= Len(log) /\ SubSeq(lines, 1, m) = SubSeq(log, 1, m)
          /\ \A i \in 1..m : lines[i] = log[i]
          /\ \A i \in (m + 1)..Len(lines) : last < lines[i].hash
  BY <1>1, <1>7, <1>8, <1>10, <1>11, ChainedContinues
<1>13. ASSUME NEW i \in (m + 1)..Len(lines) PROVE lines[i] \in Forged
  <2>1. i \in 1..n
    BY <1>1, <1>7
  <2>2. lines[i] \notin Events
    <3> SUFFICES ASSUME lines[i] \in Events PROVE FALSE
      OBVIOUS
    <3>1. PICK k \in 1..Len(log) : lines[i] = log[k]
      BY <1>2
    <3>2. log[k].hash <= last /\ log[k].hash \in Nat
      <4>1. log[k] \in Line
        BY <1>1
      <4> QED
        BY <1>11, <4>1 DEF Line
    <3> QED
      BY <1>1, <1>12, <3>1, <3>2
  <2> QED
    BY <1>9, <2>1, <2>2
<1> QED
  BY <1>1, <1>7, <1>12, <1>13

\* A torn line leaves no log intact, and an anchor of an empty log is known.
AnchorsKnown == (chopped => tears # 0) /\ \A a \in anchors : a.count = 0 => a.hash = Zero

LEMMA NextKnown == TypeOK /\ AnchorsKnown /\ [Next]_vars => AnchorsKnown'
<1> SUFFICES ASSUME TypeOK, AnchorsKnown, [Next]_vars PROVE AnchorsKnown'
  OBVIOUS
<1>1. ASSUME NEW w \in Writers, Write(w) PROVE AnchorsKnown'
  BY <1>1 DEF Write, Acquire, ReadLast, Flush, Complete, Finish, AnchorsKnown
<1>2. ASSUME NEW w \in Writers, Die(w) PROVE AnchorsKnown'
  <2>1. chopped' => tears' # 0
    BY <1>2 DEF Die, AnchorsKnown, TypeOK
  <2> QED
    BY <1>2, <2>1 DEF Die, AnchorsKnown
<1>3. CASE Export
  <2> DEFINE new == [hash |-> LatestHash(Visible), count |-> Len(Visible)]
  <2>1. Visible \in Seq(Line) /\ Verifies(Visible)
    BY <1>3, VisibleType DEF Export
  <2>2. Len(Visible) = 0 => LatestHash(Visible) = Zero
    <3>1. Len(Visible) = 0 => Visible = <<>>
      BY <2>1
    <3> QED
      BY <2>1, <3>1, VerifiedFile DEF LastHash
  <2>3. anchors' = anchors \cup {new} /\ UNCHANGED <<chopped, tears>>
    BY <1>3 DEF Export
  <2>4. new.count = 0 => new.hash = Zero
    BY <2>2
  <2> HIDE DEF new
  <2> QED
    BY <2>3, <2>4 DEF AnchorsKnown
<1>4. CASE UNCHANGED vars
  BY <1>4 DEF vars, AnchorsKnown
<1> QED
  BY <1>1, <1>2, <1>3, <1>4 DEF Next

\* A copy that ends with an anchor is the log up to it.
LEMMA AnchoredCopy ==
  ASSUME TypeOK, ChainInv, HashInv, AnchorInv, AnchorsKnown, tears = 0,
         NEW n \in 0..MaxCopy, NEW lines \in Copies(n), NEW a \in anchors, Expects(lines, a)
  PROVE  lines = SubSeq(Visible, 1, a.count)
<1>1. /\ log \in Seq(Line) /\ Len(log) \in Nat /\ last \in Nat /\ a.count \in Nat
      /\ tail \in Seq(Line) /\ Len(tail) <= 1 /\ Len(tail) \in Nat
  <2>1. log \in Seq(Line) /\ tail \in Seq(Line) /\ Len(tail) <= 1 /\ last \in Nat /\ a \in Anchor
    BY DEF TypeOK
  <2> QED
    BY <2>1 DEF Anchor
<1>2. Verifies(lines) /\ LatestHash(lines) = a.hash
  BY DEF Expects
<1>3. lines \in Seq(Line) /\ Len(lines) \in Nat
  BY <1>2, AcceptedCopy
<1>4. PICK m \in 0..Len(lines) :
        /\ m <= Len(log) /\ SubSeq(lines, 1, m) = SubSeq(log, 1, m)
        /\ \A i \in 1..m : lines[i] = log[i]
        /\ \A i \in (m + 1)..Len(lines) : lines[i] \in Forged /\ last < lines[i].hash
  BY <1>2, AcceptedCopy
<1>5. a.hash = IF lines = <<>> THEN Zero ELSE lines[Len(lines)].hash
  <2>1. LatestHash(lines) = LastHash(lines) /\ \A i \in 1..Len(lines) : lines[i].whole
    BY <1>2, <1>3, VerifiedFile
  <2>2. lines # <<>> => Len(lines) \in 1..Len(lines)
    BY <1>3
  <2> QED
    BY <1>2, <2>1, <2>2 DEF LastHash
<1>6. \A i \in 1..Len(log) : log[i].hash \in Nat /\ 0 < log[i].hash /\ log[i].hash <= last
  <2>1. \A i \in 1..Len(log) : log[i] \in Line
    BY <1>1
  <2> QED
    BY <2>1 DEF HashInv, Line
<1>7. \A i \in 1..Len(lines) : lines[i].hash \in Nat
  <2>1. \A i \in 1..Len(lines) : lines[i] \in Line
    BY <1>3
  <2> QED
    BY <2>1 DEF Line
<1>8. /\ ~chopped /\ a.count <= Len(Visible)
      /\ a.count > 0 => Visible[a.count].whole /\ Visible[a.count].hash = a.hash
  BY DEF AnchorInv, AnchorsStay, AnchorsKnown
<1>9. /\ Visible \in Seq(Line) /\ Len(Visible) = Len(log) + Len(tail)
      /\ \A i \in 1..Len(log) : Visible[i] = log[i]
  BY VisibleType
\* Its last line is no forged one: the anchor's hash is one of the log's.
<1>10. CASE a.count = 0
  <2>1. a.hash = 0
    BY <1>10 DEF AnchorsKnown
  <2>2. lines = <<>>
    <3> SUFFICES ASSUME lines # <<>> PROVE FALSE
      OBVIOUS
    <3>1. Len(lines) \in 1..Len(lines) /\ lines[Len(lines)].hash = 0
      BY <1>3, <1>5, <2>1
    <3>2. CASE m = Len(lines)
      <4>1. Len(lines) \in 1..Len(log) /\ lines[Len(lines)] = log[Len(lines)]
        BY <1>1, <1>3, <1>4, <3>1, <3>2
      <4> QED
        BY <1>6, <3>1, <4>1
    <3>3. CASE m # Len(lines)
      <4>1. Len(lines) \in (m + 1)..Len(lines)
        BY <1>3, <3>1, <3>3
      <4> QED
        BY <1>1, <1>4, <3>1, <4>1
    <3> QED
      BY <3>2, <3>3
  <2> QED
    BY <1>10, <2>2, SubSeqEmpty
<1>11. CASE 0 < a.count /\ a.count <= Len(log)
  <2>1. a.count \in 1..Len(log) /\ a.hash = log[a.count].hash
    BY <1>1, <1>8, <1>9, <1>11
  <2>2. Len(lines) \in 1..Len(lines) /\ a.hash = lines[Len(lines)].hash
    <3>1. lines # <<>>
      BY <1>5, <1>6, <2>1
    <3> QED
      BY <1>3, <1>5, <3>1
  <2>3. m = Len(lines)
    <3> SUFFICES ASSUME m # Len(lines) PROVE FALSE
      OBVIOUS
    <3>1. Len(lines) \in (m + 1)..Len(lines)
      BY <1>3, <2>2
    <3>2. last < a.hash
      BY <1>4, <2>2, <3>1
    <3>3. a.hash \in Nat /\ a.hash <= last
      BY <1>6, <2>1
    <3> QED
      BY <1>1, <3>2, <3>3
  <2>4. Len(lines) \in 1..Len(log) /\ log[Len(lines)].hash = log[a.count].hash
    <3>1. Len(lines) \in 1..Len(log)
      BY <1>1, <1>3, <1>4, <2>2, <2>3
    <3>2. lines[Len(lines)] = log[Len(lines)]
      BY <1>4, <2>2, <2>3
    <3> QED
      BY <2>1, <2>2, <3>1, <3>2
  <2>5. Growing(log)
    BY DEF HashInv, Growing
  <2>6. Len(lines) = a.count
    BY <1>1, <2>1, <2>4, <2>5, GrowingApart
  <2>7. Len(lines) <= Len(Visible) /\ \A i \in 1..Len(lines) : lines[i] = Visible[i]
    BY <1>1, <1>4, <1>9, <2>3, <2>4
  <2>8. SubSeq(lines, 1, Len(lines)) = SubSeq(Visible, 1, Len(lines))
    BY <1>3, <1>9, <2>7, SameBeginning
  <2>9. SubSeq(lines, 1, Len(lines)) = lines
    BY <1>3, SameBeginning, SeqEqual
  <2> QED
    BY <2>6, <2>8, <2>9
<1>12. CASE Len(log) < a.count
  <2>1. tail # <<>>
    BY <1>1, <1>8, <1>9, <1>12
  <2>2. Len(Visible) = Len(log) + 1 /\ Visible[Len(log) + 1] = tail[1]
    BY <1>1, <2>1, OneMore DEF Visible
  <2>3. a.count = Len(log) + 1 /\ 0 < a.count
    BY <1>1, <1>8, <1>12, <2>2
  <2>4. tail[1].whole /\ tail[1].hash = a.hash
    BY <1>8, <2>2, <2>3
  <2>5. PICK w \in Writers : job[w].step = "end"
    BY <1>8, <2>1, <2>4 DEF AnchorInv, TailOwned
  <2>6. tail = <<job[w].line>>
    BY <2>5 DEF ChainInv
  <2>7. job[w] # Idle
    BY <2>5 DEF Idle
  <2>8. a.hash = last /\ 0 < last /\ \A i \in 1..Len(log) : log[i].hash < last
    BY <2>4, <2>6, <2>7 DEF HashInv
  <2>9. Len(lines) \in 1..Len(lines) /\ lines[Len(lines)].hash = last
    <3>1. lines # <<>>
      BY <1>5, <2>8
    <3> QED
      BY <1>3, <1>5, <2>8, <3>1
  <2>10. CASE m = Len(lines)
    <3>1. Len(lines) \in 1..Len(log) /\ lines[Len(lines)] = log[Len(lines)]
      BY <1>1, <1>3, <1>4, <2>9, <2>10
    <3>2. log[Len(lines)].hash < last
      BY <2>8, <3>1
    <3> QED
      BY <1>1, <2>9, <3>1, <3>2
  <2>11. CASE m # Len(lines)
    <3>1. Len(lines) \in (m + 1)..Len(lines)
      BY <1>3, <2>9, <2>11
    <3>2. last < lines[Len(lines)].hash
      BY <1>4, <3>1
    <3>3. last < last
      BY <2>9, <3>2
    <3> QED
      BY <1>1, <3>3
  <2> QED
    BY <2>10, <2>11
<1> QED
  BY <1>1, <1>10, <1>11, <1>12

\* For any number of writers and events, and copies of any length with forged
\* lines of any number of hashes: verify-audit and the verifier of the incident
\* bundles accept of an untorn log's events only its first ones in their order,
\* with their text and hash, and after them only lines forged with a hash of
\* their own; and verify-audit accepts with an anchor only the log up to it.
THEOREM EditsAlwaysDetected == Spec => []DetectsEdits
<1>1. Init => HashInv
  <2> SUFFICES ASSUME Init PROVE HashInv
    OBVIOUS
  <2>1. 1..Len(log) = {}
    BY DEF Init
  <2> QED
    BY <2>1, Zenon DEF Init, HashInv
<1>2. Init => AnchorInv /\ AnchorsKnown
  BY DEF Init, AnchorInv, Exclusive, TailOwned, AnchorsStay, AnchorsKnown
<1>3. TypeOK /\ ChainInv /\ HashInv /\ AnchorInv /\ AnchorsKnown => DetectsEdits
  <2> SUFFICES ASSUME TypeOK, ChainInv, HashInv, AnchorInv, AnchorsKnown, tears = 0,
                      NEW n \in 0..MaxCopy, NEW lines \in Copies(n)
               PROVE  /\ Verifies(lines) \/ Breaks(lines) = {} => Continues(lines)
                      /\ \A a \in anchors :
                           Expects(lines, a) => lines = SubSeq(Visible, 1, a.count)
    BY DEF DetectsEdits
  <2>1. Verifies(lines) \/ Breaks(lines) = {} => Continues(lines)
    BY AcceptedCopy DEF Continues
  <2> QED
    BY <2>1, AnchoredCopy
<1> QED
  BY <1>1, <1>2, <1>3, InitTypes, NextTypes, InitChain, NextChain, NextHashes, NextAnchors,
     NextKnown, PTL DEF Spec

-----------------------------------------------------------------------------
(* The audit log: damage *)

\* The verifier of the incident bundles finds the lines before the first one
\* that verify-audit reports, or that holds a separator.
LEMMA CheckedIsIntact ==
  ASSUME NEW lines \in Seq(Line)
  PROVE  Checked(lines) =
           {i \in 1..Len(lines) :
              \A j \in 1..i : j \notin BadLines(lines) /\ lines[j].hash \notin Separated}
<1>0. Len(lines) \in Nat
  OBVIOUS
<1>1. ASSUME NEW i \in 1..Len(lines), \A j \in 1..i : lines[j].whole
      PROVE  \A j \in 1..i : /\ j \in 1..Len(lines)
                             /\ Expected(lines, j) = IF j = 1 THEN Zero ELSE lines[j - 1].hash
  <2> TAKE j \in 1..i
  <2>1. /\ j \in 1..Len(lines) /\ j \in 1..(Len(lines) + 1)
        /\ j # 1 => j - 1 \in 1..i
    BY <1>0
  <2> QED
    BY <1>1, <2>1, ExpectedBelowWhole
<1>2. ASSUME NEW i \in 1..Len(lines)
      PROVE  (\A j \in 1..i : j \notin Breaks(lines))
               <=> \A j \in 1..i : j \notin BadLines(lines) /\ lines[j].hash \notin Separated
  <2>0. \A j \in 1..i : j \in 1..Len(lines)
    BY <1>0
  <2>1. ASSUME \A j \in 1..i : j \notin Breaks(lines)
        PROVE  \A j \in 1..i : j \notin BadLines(lines) /\ lines[j].hash \notin Separated
    <3>1. \A j \in 1..i : /\ lines[j].whole /\ lines[j].sealed /\ lines[j].hash \notin Separated
                          /\ lines[j].prev = IF j = 1 THEN Zero ELSE lines[j - 1].hash
      BY <2>0, <2>1 DEF Breaks
    <3>2. \A j \in 1..i : Expected(lines, j) = IF j = 1 THEN Zero ELSE lines[j - 1].hash
      BY <1>1, <3>1
    <3> QED
      BY <3>1, <3>2 DEF BadLines
  <2>2. ASSUME \A j \in 1..i : j \notin BadLines(lines) /\ lines[j].hash \notin Separated
        PROVE  \A j \in 1..i : j \notin Breaks(lines)
    <3>1. \A j \in 1..i : /\ lines[j].whole /\ lines[j].sealed
                          /\ lines[j].prev = Expected(lines, j)
      BY <2>0, <2>2 DEF BadLines
    <3>2. \A j \in 1..i : Expected(lines, j) = IF j = 1 THEN Zero ELSE lines[j - 1].hash
      BY <1>1, <3>1
    <3> QED
      BY <2>2, <3>1, <3>2 DEF Breaks
  <2> QED
    BY <2>1, <2>2
<1> QED
  BY <1>2 DEF Checked

\* What each writer knows, however many lines were torn: what it read is the
\* last hash, and only what it wrote itself follows the last newline.
WriterInv ==
  \A w \in Writers : job[w] # Idle =>
    /\ holder = w
    /\ job[w].step \in {"append", "flush", "end"} => job[w].line.sealed
    /\ job[w].step = "append" => job[w].line.prev = LastHash(Visible)
    /\ job[w].step \in {"flush", "end"} =>
         /\ tail # <<>>
         /\ job[w].line.whole => job[w].line.prev = LastHash(log)
    /\ job[w].step = "end" => tail = <<job[w].line>>

\* A line that is whole so far.
Sound(w) == job[w].step \in {"flush", "end"} /\ job[w].line.whole

\* Something was left after the last newline; the last line is not whole.
Torn == tail # <<>> /\ \A w \in Writers : ~Sound(w)
Cut(lines) == lines # <<>> /\ ~lines[Len(lines)].whole

\* The lines still to be reported for what was torn already: the one it gets
\* glued to, and the one after that, which finds no last hash.
Pending == IF Torn THEN 2 ELSE IF Cut(log) THEN 1 ELSE 0

DamageInv == Cardinality(BadLines(log)) + Pending <= 2 * tears

LEMMA BadLinesCount ==
  ASSUME NEW lines \in Seq(Line)
  PROVE  IsFiniteSet(BadLines(lines)) /\ Cardinality(BadLines(lines)) \in Nat
<1>1. Len(lines) \in Nat
  OBVIOUS
<1>2. BadLines(lines) \in SUBSET (1..Len(lines))
  BY DEF BadLines
<1>3. IsFiniteSet(1..Len(lines))
  BY <1>1, Intervals, Zenon
<1> QED
  BY <1>2, <1>3, FS_Subset, FS_CardinalityType

\* A line at the end makes no other line bad; it is good itself if it is whole,
\* has the hash of its text and the last hash, that of a line that is whole.
LEMMA BadLinesOfAppend ==
  ASSUME NEW lines \in Seq(Line), NEW line \in Line
  PROVE  /\ BadLines(Append(lines, line)) \subseteq BadLines(lines) \cup {Len(lines) + 1}
         /\ ~Cut(lines) /\ line.whole /\ line.sealed /\ line.prev = LastHash(lines) =>
              BadLines(Append(lines, line)) \subseteq BadLines(lines)
<1> DEFINE more == Append(lines, line)
           n == Len(lines)
<1>1. /\ n \in Nat /\ more \in Seq(Line) /\ Len(more) = n + 1 /\ more[n + 1] = line
      /\ \A i \in 1..n : more[i] = lines[i]
  OBVIOUS
<1> HIDE DEF more, n
<1>2. ASSUME NEW i \in 1..(n + 1)
      PROVE  Expected(more, i) = Expected(lines, i)
  <2>1. \A j \in 1..(i - 1) : more[j] = lines[j]
    BY <1>1
  <2> DEFINE above == {j \in 1..(i - 1) : lines[j].whole}
             aboveMore == {j \in 1..(i - 1) : more[j].whole}
             topOf(S) == CHOOSE j \in S : \A k \in S : k <= j
             top == topOf(above)
  <2>2. aboveMore = above
    BY <2>1
  <2>3. /\ Expected(lines, i) = IF above = {} THEN Zero ELSE lines[top].hash
        /\ Expected(more, i) = IF above = {} THEN Zero ELSE more[top].hash
    <3>1. Expected(lines, i) = IF above = {} THEN Zero ELSE lines[topOf(above)].hash
      BY DEF Expected
    <3>2. Expected(more, i) = IF aboveMore = {} THEN Zero ELSE more[topOf(aboveMore)].hash
      BY DEF Expected
    <3> HIDE DEF above, aboveMore, topOf
    <3> QED
      BY <2>2, <3>1, <3>2
  <2>4. above # {} => top \in above
    <3> SUFFICES ASSUME above # {} PROVE \E j \in above : \A k \in above : k <= j
      OBVIOUS
    <3>1. i \in Nat /\ \A j \in above : j \in Nat /\ j < i
      BY <1>1
    <3> HIDE DEF above
    <3>2. {i - j : j \in above} \in SUBSET Nat /\ {i - j : j \in above} # {}
      BY <3>1
    <3>3. PICK m \in {i - j : j \in above} : \A d \in {i - j : j \in above} : m <= d
      BY <3>2, Least
    <3>4. PICK j \in above : m = i - j
      BY <3>3
    <3>5. \A k \in above : i - j <= i - k
      BY <3>3, <3>4
    <3>6. \A k \in above : k <= j
      BY <3>1, <3>5
    <3> QED
      BY <3>6
  <2>5. above # {} => top \in 1..(i - 1)
    BY <2>4
  <2> HIDE DEF above, aboveMore, topOf, top
  <2> QED
    BY <2>1, <2>3, <2>5
<1>3. \A i \in 1..n : i \in BadLines(more) <=> i \in BadLines(lines)
  <2> TAKE i \in 1..n
  <2>1. i \in 1..(n + 1) /\ more[i] = lines[i]
    BY <1>1
  <2>2. Expected(more, i) = Expected(lines, i)
    BY <1>2, <2>1
  <2> QED
    BY <1>1, <2>1, <2>2 DEF BadLines, n
<1>4. BadLines(more) \subseteq BadLines(lines) \cup {n + 1}
  <2>1. \A i \in 1..(n + 1) : i \in 1..n \/ i = n + 1
    BY <1>1
  <2>2. BadLines(more) \subseteq 1..(n + 1)
    BY <1>1 DEF BadLines
  <2> QED
    BY <1>3, <2>1, <2>2
<1>5. ASSUME ~Cut(lines), line.whole, line.sealed, line.prev = LastHash(lines)
      PROVE  n + 1 \notin BadLines(more)
  <2>1. n + 1 \in 1..(n + 1) /\ (n + 1) - 1 = n /\ (n + 1 = 1 <=> n = 0)
    BY <1>1
  <2>2. n # 0 => lines # <<>> /\ lines[n].whole
    BY <1>5 DEF Cut, n
  <2>3. n = 0 => lines = <<>>
    BY DEF n
  <2>4. Expected(lines, n + 1) = IF n = 0 THEN Zero ELSE lines[n].hash
    BY <2>1, <2>2, ExpectedBelowWhole DEF n
  <2>5. LastHash(lines) = IF n = 0 THEN Zero ELSE lines[n].hash
    BY <2>2, <2>3 DEF LastHash, n
  <2>6. Expected(more, n + 1) = line.prev
    BY <1>2, <1>5, <2>1, <2>4, <2>5
  <2> QED
    BY <1>1, <1>5, <2>6 DEF BadLines
<1> QED
  BY <1>4, <1>5 DEF more, n

LEMMA NextWriters == TypeOK /\ WriterInv /\ [Next]_vars => WriterInv'
<1> SUFFICES ASSUME TypeOK, WriterInv, [Next]_vars PROVE WriterInv'
  OBVIOUS
<1>0. \A w, v \in Writers : job[w] # Idle /\ v # w => job[v] = Idle
  BY DEF WriterInv
<1>1. ASSUME NEW w \in Writers, Acquire(w) PROVE WriterInv'
  <2>1. \A v \in Writers : job[v] = Idle
    BY <1>1 DEF Acquire, WriterInv, TypeOK
  <2>2. \A v \in Writers : job'[v] # Idle => v = w
    BY <1>1, <2>1 DEF Acquire, TypeOK
  <2>3. job'[w].step = "read" /\ holder' = w
    BY <1>1 DEF Acquire, TypeOK, Draft
  <2> QED
    BY <2>2, <2>3 DEF WriterInv
<1>2. ASSUME NEW w \in Writers, ReadLast(w) PROVE WriterInv'
  <2>1. job[w] \in Writing /\ job[w] # Idle
    BY <1>2, WritingTypes DEF ReadLast, Idle
  <2>2. \A v \in Writers : job'[v] # Idle => v = w
    BY <1>0, <1>2, <2>1 DEF ReadLast, TypeOK
  <2>3. /\ job'[w].step = "append" /\ job'[w].line.prev = LastHash(Visible)
        /\ job'[w].line.sealed
    BY <1>2, <2>1 DEF ReadLast, TypeOK, Writing, Line
  <2>4. UNCHANGED <<log, tail, holder>> /\ holder = w /\ Visible' = Visible
    BY <1>2, <2>1 DEF ReadLast, WriterInv, Visible
  <2> QED
    BY <2>2, <2>3, <2>4 DEF WriterInv
<1>3. ASSUME NEW w \in Writers, Flush(w) PROVE WriterInv'
  <2>1. job[w] \in Writing /\ job[w] # Idle
    BY <1>3, WritingTypes DEF Flush, Idle
  <2>2. \A v \in Writers : job'[v] # Idle => v = w
    BY <1>0, <1>3, <2>1 DEF Flush, TypeOK
  <2>3. /\ job'[w].step = "flush" /\ job'[w].line.prev = job[w].line.prev
        /\ job'[w].line.whole = (tail = <<>>) /\ job'[w].line.sealed = job[w].line.sealed
    BY <1>3, <2>1 DEF Flush, TypeOK, Writing, Line
  <2>4. /\ job[w].line.prev = LastHash(Visible) /\ job[w].line.sealed
        /\ tail = <<>> => Visible = log
    BY <1>3, <2>1, VisibleType DEF Flush, WriterInv
  <2>5. UNCHANGED <<log, holder>> /\ holder = w /\ tail' # <<>>
    BY <1>3, <2>1 DEF Flush, WriterInv
  <2> QED
    BY <2>2, <2>3, <2>4, <2>5 DEF WriterInv
<1>4. ASSUME NEW w \in Writers, Complete(w) PROVE WriterInv'
  <2>1. job[w] \in Writing /\ job[w] # Idle
    BY <1>4, WritingTypes DEF Complete, Idle
  <2>2. \A v \in Writers : job'[v] # Idle => v = w
    BY <1>0, <1>4, <2>1 DEF Complete, TypeOK
  <2>3. job'[w].step = "end" /\ job'[w].line = job[w].line
    BY <1>4, <2>1 DEF Complete, TypeOK, Writing
  <2>4. UNCHANGED <<log, holder>> /\ holder = w /\ tail' = <<job[w].line>> /\ tail' # <<>>
    BY <1>4, <2>1 DEF Complete, WriterInv
  <2>5. job[w].line.sealed /\ (job[w].line.whole => job[w].line.prev = LastHash(log))
    BY <1>4, <2>1 DEF Complete, WriterInv
  <2> QED
    BY <2>2, <2>3, <2>4, <2>5 DEF WriterInv
<1>5. ASSUME NEW w \in Writers, Finish(w) \/ Die(w) PROVE WriterInv'
  <2>1. job[w] # Idle
    BY <1>5, WritingTypes DEF Finish, Die, Idle
  <2>2. \A v \in Writers : job'[v] = Idle
    BY <1>0, <1>5, <2>1 DEF Finish, Die, TypeOK
  <2> QED
    BY <2>2 DEF WriterInv
<1>6. CASE Export
  BY <1>6 DEF Export, WriterInv, Visible
<1>7. CASE UNCHANGED vars
  BY <1>7 DEF vars, WriterInv, Visible
<1> QED
  BY <1>1, <1>2, <1>3, <1>4, <1>5, <1>6, <1>7 DEF Next, Write

\* A step that ends no line: it reports no more, unless it tears a line.
LEMMA SameDamage ==
  ASSUME TypeOK, DamageInv, log' = log,
         (tears' = tears /\ (Torn' => Torn)) \/ tears' = tears + 1
  PROVE  DamageInv'
<1>1. Cardinality(BadLines(log)) \in Nat /\ tears \in Nat
  BY BadLinesCount DEF TypeOK
<1>2. Pending \in 0..2 /\ Pending' \in 0..2
  BY DEF Pending
<1>3. (Torn' => Torn) => Pending' <= Pending
  BY DEF Pending
<1> QED
  BY <1>1, <1>2, <1>3 DEF DamageInv

LEMMA NextDamage == TypeOK /\ WriterInv /\ DamageInv /\ [Next]_vars => DamageInv'
<1> SUFFICES ASSUME TypeOK, WriterInv, DamageInv, [Next]_vars PROVE DamageInv'
  OBVIOUS
<1>0. \A w, v \in Writers : job[w] # Idle /\ v # w => job[v] = Idle
  BY DEF WriterInv
<1>1. ASSUME NEW w \in Writers, Acquire(w) \/ ReadLast(w) PROVE DamageInv'
  <2>1. \A v \in Writers : ~Sound(v)
    <3>1. CASE Acquire(w)
      BY <3>1 DEF Acquire, WriterInv, Sound, Idle, TypeOK
    <3>2. CASE ReadLast(w)
      BY <1>0, <3>2 DEF ReadLast, Sound, Idle
    <3> QED
      BY <1>1, <3>1, <3>2
  <2>2. UNCHANGED <<log, tail, tears>>
    BY <1>1 DEF Acquire, ReadLast
  <2>3. Torn' => Torn
    BY <2>1, <2>2 DEF Torn
  <2> QED
    BY <2>2, <2>3, SameDamage
<1>2. ASSUME NEW w \in Writers, Flush(w) PROVE DamageInv'
  <2>1. job[w] \in Writing /\ job[w] # Idle
    BY <1>2, WritingTypes DEF Flush, Idle
  <2>2. job'[w].step = "flush" /\ job'[w].line.whole = (tail = <<>>)
    BY <1>2, <2>1 DEF Flush, TypeOK, Writing, Line
  <2>3. \A v \in Writers : ~Sound(v)
    BY <1>0, <1>2, <2>1 DEF Flush, Sound, Idle
  <2>4. Torn' => Torn
    BY <2>2, <2>3 DEF Torn, Sound
  <2>5. log' = log /\ tears' = tears
    BY <1>2 DEF Flush
  <2> QED
    BY <2>4, <2>5, SameDamage
<1>3. ASSUME NEW w \in Writers, Complete(w) PROVE DamageInv'
  <2>1. job[w] \in Writing /\ job[w] # Idle
    BY <1>3, WritingTypes DEF Complete, Idle
  <2>2. job'[w].step = "end" /\ job'[w].line = job[w].line
    BY <1>3, <2>1 DEF Complete, TypeOK, Writing
  <2>3. \A v \in Writers : Sound(v) => Sound(v)'
    BY <1>0, <1>3, <2>1, <2>2 DEF Complete, Sound, Idle
  <2>4. tail # <<>>
    BY <1>3, <2>1 DEF Complete, WriterInv
  <2>5. Torn' => Torn
    BY <2>3, <2>4 DEF Torn
  <2>6. log' = log /\ tears' = tears
    BY <1>3 DEF Complete
  <2> QED
    BY <2>5, <2>6, SameDamage
<1>4. ASSUME NEW w \in Writers, Finish(w) PROVE DamageInv'
  <2> DEFINE line == job[w].line
             bad == BadLines(log)
  <2>1. job[w] \in Writing /\ job[w] # Idle /\ line \in Line
    BY <1>4, WritingTypes DEF Finish, Idle
  <2>2. tail = <<line>> /\ line.sealed /\ (line.whole => line.prev = LastHash(log))
    BY <1>4, <2>1 DEF Finish, WriterInv
  <2>3. log \in Seq(Line) /\ log' = Append(log, line) /\ tail' = <<>> /\ tears' = tears
    BY <1>4, <2>1, <2>2, VisibleType DEF Finish, TypeOK
  <2>4. ~Torn' /\ (Torn <=> ~line.whole)
    <3>1. Sound(w) <=> line.whole
      BY <1>4 DEF Finish, Sound
    <3>2. \A v \in Writers \ {w} : ~Sound(v)
      BY <1>0, <2>1 DEF Sound, Idle
    <3> QED
      BY <2>2, <2>3, <3>1, <3>2 DEF Torn
  <2>5. Cut(log') <=> ~line.whole
    <3> HIDE DEF line
    <3>1. Len(log') = Len(log) + 1 /\ log'[Len(log) + 1] = line /\ log' # <<>>
      BY <2>1, <2>3
    <3> QED
      BY <3>1 DEF Cut
  <2>6. /\ BadLines(log') \subseteq bad \cup {Len(log) + 1}
        /\ ~Cut(log) /\ line.whole => BadLines(log') \subseteq bad
    BY <2>1, <2>2, <2>3, BadLinesOfAppend
  <2>7. IsFiniteSet(bad) /\ Cardinality(bad) \in Nat /\ Cardinality(BadLines(log')) \in Nat
    BY <2>1, <2>3, BadLinesCount, AppendProperties
  <2>8. Cardinality(BadLines(log')) <= Cardinality(bad) + 1
    <3>1. /\ IsFiniteSet(bad \cup {Len(log) + 1})
          /\ Cardinality(bad \cup {Len(log) + 1}) \in {Cardinality(bad), Cardinality(bad) + 1}
      BY <2>7, FS_AddElement
    <3>2. Cardinality(BadLines(log')) <= Cardinality(bad \cup {Len(log) + 1})
      BY <2>6, <3>1, FS_Subset
    <3> HIDE DEF bad
    <3> QED
      BY <2>7, <3>1, <3>2
  <2>9. ~Cut(log) /\ line.whole => Cardinality(BadLines(log')) <= Cardinality(bad)
    BY <2>6, <2>7, FS_Subset
  <2>10. Pending' = IF line.whole THEN 0 ELSE 1
    BY <2>4, <2>5 DEF Pending
  <2>11. Pending = IF ~line.whole THEN 2 ELSE IF Cut(log) THEN 1 ELSE 0
    BY <2>4 DEF Pending
  <2>12. tears \in Nat /\ Cardinality(bad) + Pending <= 2 * tears
    BY DEF TypeOK, DamageInv
  <2> HIDE DEF line, bad
  <2>13. Cardinality(BadLines(log')) + Pending' <= 2 * tears
    <3>1. CASE ~line.whole
      BY <2>7, <2>8, <2>10, <2>11, <2>12, <3>1
    <3>2. CASE line.whole /\ Cut(log)
      BY <2>7, <2>8, <2>10, <2>11, <2>12, <3>2
    <3>3. CASE line.whole /\ ~Cut(log)
      BY <2>7, <2>9, <2>10, <2>11, <2>12, <3>3
    <3> QED
      BY <3>1, <3>2, <3>3
  <2> QED
    BY <2>3, <2>13 DEF DamageInv
<1>5. ASSUME NEW w \in Writers, Die(w) PROVE DamageInv'
  <2>1. job[w] # Idle /\ log' = log /\ tail' = tail
    BY <1>5 DEF Die
  <2>2. CASE job[w].step \in {"flush", "end"}
    BY <1>5, <2>1, <2>2, SameDamage DEF Die
  <2>3. CASE job[w].step \notin {"flush", "end"}
    <3>1. \A v \in Writers : ~Sound(v)
      BY <1>0, <2>1, <2>3 DEF Sound, Idle
    <3>2. tears' = tears /\ (Torn' => Torn)
      BY <1>5, <2>1, <2>3, <3>1 DEF Die, Torn
    <3> QED
      BY <2>1, <3>2, SameDamage
  <2> QED
    BY <2>2, <2>3
<1>6. CASE Export
  BY <1>6 DEF Export, DamageInv, Pending, Torn, Sound
<1>7. CASE UNCHANGED vars
  BY <1>7 DEF vars, DamageInv, Pending, Torn, Sound
<1> QED
  BY <1>1, <1>2, <1>3, <1>4, <1>5, <1>6, <1>7 DEF Next, Write

\* A crash in the middle of a line costs at most two lines that verify-audit
\* reports, for any number of crashes, in whatever order the writers go on; and
\* a bundle vouches for exactly what is intact from the first line on.
THEOREM DamageAlwaysLocal == Spec => []DamageIsLocal
<1>1. Init => WriterInv /\ DamageInv
  <2> SUFFICES ASSUME Init PROVE WriterInv /\ DamageInv
    OBVIOUS
  <2>1. BadLines(log) = {} /\ ~Torn /\ ~Cut(log)
    BY DEF Init, BadLines, Torn, Cut
  <2>2. tears = 0 /\ Pending = 0
    BY <2>1 DEF Init, Pending
  <2> QED
    BY <2>1, <2>2, FS_EmptySet DEF Init, WriterInv, DamageInv
<1>2. TypeOK /\ DamageInv => DamageIsLocal
  <2> SUFFICES ASSUME TypeOK, DamageInv PROVE DamageIsLocal
    OBVIOUS
  <2>1. log \in Seq(Line) /\ tears \in Nat /\ Cardinality(BadLines(log)) \in Nat
    BY BadLinesCount DEF TypeOK
  <2>2. Pending \in 0..2
    BY DEF Pending
  <2>3. Cardinality(BadLines(log)) <= 2 * tears
    BY <2>1, <2>2 DEF DamageInv
  <2> QED
    BY <2>1, <2>3, CheckedIsIntact DEF DamageIsLocal
<1> QED
  BY <1>1, <1>2, InitTypes, NextTypes, NextWriters, NextDamage, PTL DEF Spec
=============================================================================
