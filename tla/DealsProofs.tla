------------------------------ MODULE DealsProofs ------------------------------
(***************************************************************************)
(* Theorems about Deals and its parts: DealRegistry, for any deals and     *)
(* wins; DealPayments, for any requests, stages and values; Automation,    *)
(* for any events, workflows and actions.                                  *)
(***************************************************************************)
EXTENDS Deals, SequenceTheorems, TLAPS

\* The queue runs one job at a time.
OneActive == \A v, w \in Wins : job[v] \in Active /\ job[w] \in Active => v = w

\* The attempts an unfinished job has left.
AttemptsLeft == \A w \in Wins : job[w] \notin {"completed", "failed"} => tries[w] < MaxTries

\* An attempt not yet given up has the youngest transaction, if it is still in
\* the pool: nothing is submitted after it.
Youngest ==
  \A i \in 1 .. Len(mempool) :
    LET w == mempool[i][1] IN
    \/ mempool[i][2] <= tries[w]
    \/ /\ mempool[i][2] = tries[w] + 1
       /\ i = Len(mempool)
       /\ job[w] \in {"awaiting", "failing"}

\* Once that transaction is mined the pool is empty, so its hash stays.
Registered ==
  \A w \in Wins :
    \/ job[w] = "awaiting" /\ receipt[w] = "success"
    \/ job[w] = "confirmed"
    => mempool = <<>> /\ registry[DealOf[w]] = w

\* A started job has made the deal's record its own.
Owns ==
  \A w \in Wins : job[w] \in Active =>
    /\ record[DealOf[w]].hash = w
    /\ record[DealOf[w]].status = "CONFIRMED" => job[w] = "confirmed"

\* No transaction of a deal with a confirmed record is left to be mined.
Settled ==
  \A d \in Deals : record[d].status = "CONFIRMED" =>
    /\ registry[d] = record[d].hash
    /\ \A i \in 1 .. Len(mempool) : DealOf[mempool[i][1]] # d

RegistryInv == TypeOK /\ OneActive /\ AttemptsLeft /\ Youngest /\ Registered /\ Owns /\ Settled

-----------------------------------------------------------------------------
LEMMA RegistryInit == Init => RegistryInv
<1> SUFFICES ASSUME Init PROVE RegistryInv
  OBVIOUS
<1>1. TypeOK
  BY RegistryAssumption DEF Init, TypeOK, Record, Tx
<1>2. OneActive /\ AttemptsLeft /\ Registered /\ Owns
  BY RegistryAssumption DEF Init, OneActive, AttemptsLeft, Registered, Owns, Active
<1>3. Len(mempool) = 0
  BY DEF Init
<1>4. Youngest
  BY <1>3 DEF Youngest
<1>5. Settled
  BY DEF Init, Settled
<1> QED
  BY <1>1, <1>2, <1>4, <1>5 DEF RegistryInv

\* A failed attempt is counted, and there was one left to count.
LEMMA RetryType ==
  ASSUME TypeOK, AttemptsLeft, NEW w \in Wins, job[w] \in Active \cup {"queued"}, Retry(w)
  PROVE  /\ tries' \in [Wins -> 0 .. MaxTries]
         /\ job' \in [Wins -> {"none", "queued", "completed", "failed"} \cup Active]
         /\ tries'[w] = tries[w] + 1 /\ \A v \in Wins \ {w} : tries'[v] = tries[v]
         /\ job'[w] \in {"queued", "failed"} /\ \A v \in Wins \ {w} : job'[v] = job[v]
         /\ AttemptsLeft'
<1>1. tries[w] < MaxTries /\ tries[w] + 1 \in 0 .. MaxTries
  <2>1. job[w] \notin {"completed", "failed"}
    BY DEF Active
  <2>2. tries[w] \in 0 .. MaxTries /\ MaxTries \in Nat
    BY RegistryAssumption DEF TypeOK
  <2> QED
    BY <2>1, <2>2 DEF AttemptsLeft
<1>2. /\ tries' \in [Wins -> 0 .. MaxTries]
      /\ tries'[w] = tries[w] + 1
      /\ \A v \in Wins \ {w} : tries'[v] = tries[v]
  BY <1>1 DEF TypeOK, Retry
<1>3. /\ job' \in [Wins -> {"none", "queued", "completed", "failed"} \cup Active]
      /\ job'[w] = IF tries[w] + 1 < MaxTries THEN "queued" ELSE "failed"
      /\ \A v \in Wins \ {w} : job'[v] = job[v]
  BY DEF TypeOK, Retry
<1>4. AttemptsLeft'
  BY <1>1, <1>2, <1>3 DEF AttemptsLeft, Active
<1> QED
  BY <1>2, <1>3, <1>4

LEMMA SetStatusType ==
  ASSUME TypeOK, NEW d \in Deals, NEW st \in {"PENDING", "CONFIRMED", "FAILED"}, SetStatus(d, st)
  PROVE  /\ record' \in [Deals -> Record]
         /\ record'[d].status = st /\ record'[d].hash = record[d].hash
         /\ \A e \in Deals \ {d} : record'[e] = record[e]
<1>1. record[d].hash \in Wins \cup {NoWin}
  BY DEF TypeOK, Record
<1>2. [status |-> st, hash |-> record[d].hash] \in Record
  BY <1>1 DEF Record
<1> QED
  BY <1>2 DEF TypeOK, SetStatus, SetRecord

LEMMA UpsertRecord ==
  ASSUME TypeOK, NEW w \in Wins, Upsert(w)
  PROVE  /\ record' \in [Deals -> Record]
         /\ record'[DealOf[w]] = [status |-> "PENDING", hash |-> w]
         /\ \A e \in Deals \ {DealOf[w]} : record'[e] = record[e]
  BY RegistryAssumption DEF TypeOK, Upsert, SetRecord, Record

\* What the pool is after each step that changes it.
LEMMA PoolAppend ==
  ASSUME TypeOK, NEW x \in Tx, mempool' = Append(mempool, x)
  PROVE  /\ mempool' \in Seq(Tx) /\ Len(mempool') = Len(mempool) + 1
         /\ \A i \in 1 .. Len(mempool) : mempool'[i] = mempool[i]
         /\ mempool'[Len(mempool) + 1] = x
  BY DEF TypeOK

LEMMA PoolTail ==
  ASSUME TypeOK, mempool # <<>>, mempool' = Tail(mempool)
  PROVE  /\ mempool' \in Seq(Tx) /\ Len(mempool) \in Nat \ {0}
         /\ Len(mempool') = Len(mempool) - 1
         /\ Head(mempool) = mempool[1]
         /\ \A i \in 1 .. Len(mempool') : i + 1 \in 1 .. Len(mempool) /\ mempool'[i] = mempool[i + 1]
         /\ Len(mempool) = 1 => mempool' = <<>>
  BY DEF TypeOK

LEMMA PoolFront ==
  ASSUME TypeOK, mempool # <<>>, mempool' = SubSeq(mempool, 1, Len(mempool) - 1)
  PROVE  /\ mempool' \in Seq(Tx) /\ Len(mempool) \in Nat \ {0}
         /\ Len(mempool') = Len(mempool) - 1
         /\ \A i \in 1 .. Len(mempool') : i \in 1 .. Len(mempool) - 1 /\ mempool'[i] = mempool[i]
<1>1. Len(mempool) \in Nat \ {0} /\ mempool \in Seq(Tx)
  BY DEF TypeOK
<1>2. \A i \in 1 .. Len(mempool) - 1 : mempool[i] \in Tx
  BY <1>1
<1> DEFINE n == Len(mempool) - 1
<1>3. n \in Nat /\ 1 \in Int /\ n \in Int
  BY <1>1
<1>4. \A i \in 1 .. n : mempool[i] \in Tx
  BY <1>2
<1>5. mempool' = SubSeq(mempool, 1, n)
  OBVIOUS
<1> HIDE DEF n
<1>6. /\ SubSeq(mempool, 1, n) \in Seq(Tx)
      /\ Len(SubSeq(mempool, 1, n)) = IF 1 <= n THEN n - 1 + 1 ELSE 0
      /\ \A i \in 1 .. n - 1 + 1 : SubSeq(mempool, 1, n)[i] = mempool[1 + i - 1]
  BY <1>3, <1>4, SubSeqProperties
<1>7. /\ mempool' \in Seq(Tx)
      /\ Len(mempool') = n
      /\ \A i \in 1 .. n : mempool'[i] = mempool[i]
  BY <1>3, <1>5, <1>6
<1> QED
  BY <1>1, <1>7 DEF n

LEMMA RegistryStep == RegistryInv /\ [Next]_vars => RegistryInv'
<1> SUFFICES ASSUME RegistryInv, [Next]_vars PROVE RegistryInv'
  OBVIOUS
<1> USE RegistryAssumption DEF RegistryInv
<1>1. ASSUME NEW w \in Wins, CommitWon(w) PROVE RegistryInv'
  BY <1>1 DEF CommitWon, onChain, TypeOK, OneActive, AttemptsLeft, Youngest, Registered,
              Owns, Settled
<1>2. ASSUME NEW w \in Wins, EnqueueRegister(w) PROVE RegistryInv'
  <2>1. TypeOK'
    BY <1>2 DEF EnqueueRegister, Goes, onChain, TypeOK, Active
  <2>2. OneActive'
    BY <1>2 DEF EnqueueRegister, Goes, onChain, OneActive, TypeOK, Active
  <2>3. AttemptsLeft'
    BY <1>2 DEF EnqueueRegister, Goes, onChain, AttemptsLeft, TypeOK, Active
  <2>4. Youngest'
    BY <1>2 DEF EnqueueRegister, Goes, onChain, Youngest, TypeOK, Active, OneActive
  <2>5. Registered'
    BY <1>2 DEF EnqueueRegister, Goes, onChain, Registered, TypeOK, Active, OneActive
  <2>6. Owns'
    BY <1>2 DEF EnqueueRegister, Goes, onChain, Owns, TypeOK, Active, OneActive
  <2>7. Settled'
    BY <1>2 DEF EnqueueRegister, Goes, onChain, Settled, TypeOK, Active, Owns, Registered
  <2> QED
    BY <2>1, <2>2, <2>3, <2>4, <2>5, <2>6, <2>7
<1>3. ASSUME NEW w \in Wins, Upsert(w) PROVE RegistryInv'
  <2>1. /\ record' \in [Deals -> Record]
        /\ record'[DealOf[w]] = [status |-> "PENDING", hash |-> w]
        /\ \A e \in Deals \ {DealOf[w]} : record'[e] = record[e]
    BY <1>3, UpsertRecord
  <2>2. TypeOK'
    BY <1>3, <2>1 DEF Upsert, Goes, onChain, WorkerIdle, TypeOK, Active
  <2>3. OneActive'
    BY <1>3, <2>1 DEF Upsert, Goes, onChain, WorkerIdle, OneActive, TypeOK, Active
  <2>4. AttemptsLeft'
    BY <1>3, <2>1 DEF Upsert, Goes, onChain, WorkerIdle, AttemptsLeft, TypeOK, Active
  <2>5. Youngest'
    BY <1>3, <2>1 DEF Upsert, Goes, onChain, WorkerIdle, Youngest, TypeOK, Active, OneActive
  <2>6. Registered'
    BY <1>3, <2>1 DEF Upsert, Goes, onChain, WorkerIdle, Registered, TypeOK, Active, OneActive
  <2>7. Owns'
    BY <1>3, <2>1 DEF Upsert, Goes, onChain, WorkerIdle, Owns, TypeOK, Active, OneActive
  <2>8. Settled'
    <3>1. UNCHANGED <<mempool, registry>>
      BY <1>3 DEF Upsert, onChain
    <3> SUFFICES ASSUME NEW d \in Deals, record'[d].status = "CONFIRMED"
                 PROVE  /\ registry[d] = record'[d].hash
                        /\ \A i \in 1 .. Len(mempool) : DealOf[mempool[i][1]] # d
      BY <3>1 DEF Settled
    <3>2. d # DealOf[w]
      BY <2>1
    <3> QED
      BY <2>1, <3>2 DEF Settled
  <2> QED
    BY <2>2, <2>3, <2>4, <2>5, <2>6, <2>7, <2>8
<1>4. ASSUME NEW w \in Wins, SkipUnconfigured(w) PROVE RegistryInv'
  <2>1. /\ record' \in [Deals -> Record]
        /\ record'[DealOf[w]].status = "FAILED" /\ record'[DealOf[w]].hash = record[DealOf[w]].hash
        /\ \A e \in Deals \ {DealOf[w]} : record'[e] = record[e]
    BY <1>4, SetStatusType DEF SkipUnconfigured
  <2>2. TypeOK'
    BY <1>4, <2>1 DEF SkipUnconfigured, Goes, onChain, TypeOK, Active
  <2>3. OneActive'
    BY <1>4, <2>1 DEF SkipUnconfigured, Goes, onChain, OneActive, TypeOK, Active
  <2>4. AttemptsLeft'
    BY <1>4, <2>1 DEF SkipUnconfigured, Goes, onChain, AttemptsLeft, TypeOK, Active
  <2>5. Youngest'
    BY <1>4, <2>1 DEF SkipUnconfigured, Goes, onChain, Youngest, TypeOK, Active, OneActive
  <2>6. Registered'
    BY <1>4, <2>1 DEF SkipUnconfigured, Goes, onChain, Registered, TypeOK, Active, OneActive
  <2>7. Owns'
    BY <1>4, <2>1 DEF SkipUnconfigured, Goes, onChain, Owns, TypeOK, Active, OneActive
  <2>8. Settled'
    BY <1>4, <2>1 DEF SkipUnconfigured, Goes, onChain, Settled, TypeOK, Active, Owns, Registered
  <2> QED
    BY <2>2, <2>3, <2>4, <2>5, <2>6, <2>7, <2>8
<1>5. ASSUME NEW w \in Wins, Submit(w) PROVE RegistryInv'
  <2>1. <<w, tries[w] + 1>> \in Tx
    <3>1. job[w] = "started"
      BY <1>5 DEF Submit
    <3>2. tries[w] \in 0 .. MaxTries /\ tries[w] < MaxTries
      BY <3>1 DEF TypeOK, AttemptsLeft
    <3> QED
      BY <3>2 DEF Tx
  <2>2. /\ mempool' \in Seq(Tx) /\ Len(mempool') = Len(mempool) + 1
        /\ \A i \in 1 .. Len(mempool) : mempool'[i] = mempool[i]
        /\ mempool'[Len(mempool) + 1] = <<w, tries[w] + 1>> /\ Len(mempool) \in Nat
    BY <1>5, <2>1, PoolAppend DEF Submit, TypeOK
  <2>3. TypeOK'
    BY <1>5, <2>2 DEF Submit, Goes, onChain, TypeOK, Active
  <2>4. OneActive'
    BY <1>5, <2>2 DEF Submit, Goes, onChain, OneActive, TypeOK, Active
  <2>5. AttemptsLeft'
    BY <1>5, <2>2 DEF Submit, Goes, onChain, AttemptsLeft, TypeOK, Active
  <2>6. Youngest'
    <3>1. job' = [job EXCEPT ![w] = "awaiting"] /\ tries' = tries /\ job[w] = "started"
      BY <1>5 DEF Submit, Goes
    <3> SUFFICES ASSUME NEW i \in 1 .. Len(mempool')
                 PROVE  LET v == mempool'[i][1] IN
                        \/ mempool'[i][2] <= tries[v]
                        \/ /\ mempool'[i][2] = tries[v] + 1
                           /\ i = Len(mempool')
                           /\ job'[v] \in {"awaiting", "failing"}
      BY <3>1 DEF Youngest
    <3>2. CASE i = Len(mempool) + 1
      BY <2>2, <3>1, <3>2 DEF TypeOK
    <3>3. CASE i \in 1 .. Len(mempool)
      <4>1. mempool'[i] = mempool[i] /\ mempool[i] \in Tx /\ mempool[i][1] \in Wins
        <5>1. mempool'[i] = mempool[i]
          BY <2>2, <3>3
        <5>2. mempool[i] \in Wins \X (1 .. MaxTries)
          BY <3>3 DEF TypeOK, Tx
        <5> QED
          BY <5>1, <5>2 DEF Tx
      <4>2. job[mempool[i][1]] \notin {"awaiting", "failing"}
        BY <3>1, <4>1 DEF OneActive, Active
      <4> QED
        BY <3>3, <4>1, <4>2 DEF Youngest
    <3> QED
      BY <2>2, <3>2, <3>3
  <2>7. Registered'
    BY <1>5, <2>2 DEF Submit, Goes, onChain, Registered, TypeOK, Active, OneActive
  <2>8. Owns'
    BY <1>5, <2>2 DEF Submit, Goes, onChain, Owns, TypeOK, Active, OneActive
  <2>9. Settled'
    BY <1>5, <2>2 DEF Submit, Goes, onChain, Settled, TypeOK, Active, Owns, Registered
  <2> QED
    BY <2>3, <2>4, <2>5, <2>6, <2>7, <2>8, <2>9
<1>6. ASSUME NEW w \in Wins, Confirm(w) PROVE RegistryInv'
  <2>1. /\ record' \in [Deals -> Record]
        /\ record'[DealOf[w]].status = "CONFIRMED" /\ record'[DealOf[w]].hash = record[DealOf[w]].hash
        /\ \A e \in Deals \ {DealOf[w]} : record'[e] = record[e]
    BY <1>6, SetStatusType DEF Confirm
  <2>2. TypeOK'
    BY <1>6, <2>1 DEF Confirm, Goes, onChain, TypeOK, Active
  <2>3. OneActive'
    BY <1>6, <2>1 DEF Confirm, Goes, onChain, OneActive, TypeOK, Active
  <2>4. AttemptsLeft'
    BY <1>6, <2>1 DEF Confirm, Goes, onChain, AttemptsLeft, TypeOK, Active
  <2>5. Youngest'
    BY <1>6, <2>1 DEF Confirm, Goes, onChain, Youngest, TypeOK, Active, OneActive, Registered
  <2>6. Registered'
    BY <1>6, <2>1 DEF Confirm, Goes, onChain, Registered, TypeOK, Active, OneActive
  <2>7. Owns'
    BY <1>6, <2>1 DEF Confirm, Goes, onChain, Owns, TypeOK, Active, OneActive
  <2>8. Settled'
    <3>1. UNCHANGED <<mempool, registry>> /\ mempool = <<>> /\ registry[DealOf[w]] = w
      BY <1>6 DEF Confirm, onChain, Registered
    <3>2. record[DealOf[w]].hash = w
      BY <1>6 DEF Confirm, Owns, Active
    <3> QED
      BY <2>1, <3>1, <3>2 DEF Settled
  <2> QED
    BY <2>2, <2>3, <2>4, <2>5, <2>6, <2>7, <2>8
<1>7. ASSUME NEW w \in Wins, Complete(w) PROVE RegistryInv'
  <2>1. TypeOK'
    BY <1>7 DEF Complete, Goes, onChain, TypeOK, Active
  <2>2. OneActive'
    BY <1>7 DEF Complete, Goes, onChain, OneActive, TypeOK, Active
  <2>3. AttemptsLeft'
    BY <1>7 DEF Complete, Goes, onChain, AttemptsLeft, TypeOK, Active
  <2>4. Youngest'
    BY <1>7 DEF Complete, Goes, onChain, Youngest, TypeOK, Active, OneActive
  <2>5. Registered'
    BY <1>7 DEF Complete, Goes, onChain, Registered, TypeOK, Active, OneActive
  <2>6. Owns'
    BY <1>7 DEF Complete, Goes, onChain, Owns, TypeOK, Active, OneActive
  <2>7. Settled'
    BY <1>7 DEF Complete, Goes, onChain, Settled, TypeOK, Active, Owns, Registered
  <2> QED
    BY <2>1, <2>2, <2>3, <2>4, <2>5, <2>6, <2>7
<1>8. ASSUME NEW w \in Wins, Throws(w) PROVE RegistryInv'
  <2>1. TypeOK'
    BY <1>8 DEF Throws, Goes, onChain, TypeOK, Active
  <2>2. OneActive'
    BY <1>8 DEF Throws, Goes, onChain, OneActive, TypeOK, Active
  <2>3. AttemptsLeft'
    BY <1>8 DEF Throws, Goes, onChain, AttemptsLeft, TypeOK, Active
  <2>4. Youngest'
    BY <1>8 DEF Throws, Goes, onChain, Youngest, TypeOK, Active, OneActive
  <2>5. Registered'
    BY <1>8 DEF Throws, Goes, onChain, Registered, TypeOK, Active, OneActive
  <2>6. Owns'
    BY <1>8 DEF Throws, Goes, onChain, Owns, TypeOK, Active, OneActive
  <2>7. Settled'
    BY <1>8 DEF Throws, Goes, onChain, Settled, TypeOK, Active, Owns, Registered
  <2> QED
    BY <2>1, <2>2, <2>3, <2>4, <2>5, <2>6, <2>7
<1>9. ASSUME NEW w \in Wins, WriteFailure(w) PROVE RegistryInv'
  <2>1. /\ tries' \in [Wins -> 0 .. MaxTries]
        /\ job' \in [Wins -> {"none", "queued", "completed", "failed"} \cup Active]
        /\ tries'[w] = tries[w] + 1 /\ \A v \in Wins \ {w} : tries'[v] = tries[v]
        /\ job'[w] \in {"queued", "failed"} /\ \A v \in Wins \ {w} : job'[v] = job[v]
        /\ AttemptsLeft'
    BY <1>9, RetryType DEF WriteFailure, Active
  <2>2. /\ record' \in [Deals -> Record]
        /\ record'[DealOf[w]].status = "FAILED" /\ record'[DealOf[w]].hash = record[DealOf[w]].hash
        /\ \A e \in Deals \ {DealOf[w]} : record'[e] = record[e]
    BY <1>9, SetStatusType DEF WriteFailure
  <2>3. TypeOK'
    BY <1>9, <2>1, <2>2 DEF WriteFailure, onChain, TypeOK, Active
  <2>4. OneActive'
    <3>1. UNCHANGED onChain /\ job[w] = "failing"
      BY <1>9 DEF WriteFailure
    <3>2. job[w] \in Active
      BY <3>1 DEF Active
    <3>3. \A v \in Wins : job'[v] \in Active => v # w /\ job[v] \in Active
      BY <2>1 DEF Active
    <3> QED
      BY <3>1, <3>2, <3>3 DEF onChain, OneActive
  <2>5. Youngest'
    <3>1. mempool' = mempool
      BY <1>9 DEF WriteFailure, onChain
    <3> SUFFICES ASSUME NEW i \in 1 .. Len(mempool)
                 PROVE  LET v == mempool[i][1] IN
                        \/ mempool[i][2] <= tries'[v]
                        \/ /\ mempool[i][2] = tries'[v] + 1
                           /\ i = Len(mempool)
                           /\ job'[v] \in {"awaiting", "failing"}
      BY <3>1 DEF Youngest
    <3>2. mempool[i][1] \in Wins /\ mempool[i][2] \in Nat /\ tries[mempool[i][1]] \in Nat
      BY DEF TypeOK, Tx
    <3>3. CASE mempool[i][1] = w
      BY <2>1, <3>2, <3>3 DEF Youngest
    <3>4. CASE mempool[i][1] # w
      BY <2>1, <3>2, <3>4 DEF Youngest
    <3> QED
      BY <3>3, <3>4
  <2>6. Registered'
    BY <1>9, <2>1, <2>2 DEF WriteFailure, onChain, Registered, TypeOK, Active, OneActive
  <2>7. Owns'
    <3>1. job[w] \in Active /\ job'[w] \notin Active
      BY <1>9, <2>1 DEF WriteFailure, Active
    <3>2. \A v \in Wins : job'[v] \notin Active
      BY <2>1, <3>1 DEF OneActive
    <3> QED
      BY <3>2 DEF Owns
  <2>8. Settled'
    <3>1. UNCHANGED <<mempool, registry>>
      BY <1>9 DEF WriteFailure, onChain
    <3> SUFFICES ASSUME NEW d \in Deals, record'[d].status = "CONFIRMED"
                 PROVE  /\ registry[d] = record'[d].hash
                        /\ \A i \in 1 .. Len(mempool) : DealOf[mempool[i][1]] # d
      BY <3>1 DEF Settled
    <3>2. d # DealOf[w]
      BY <2>2
    <3> QED
      BY <2>2, <3>2 DEF Settled
  <2> QED
    BY <2>3, <2>4, <2>5, <2>6, <2>7, <2>8, <2>1
<1>10. ASSUME NEW w \in Wins, Fault(w) PROVE RegistryInv'
  <2>1. /\ tries' \in [Wins -> 0 .. MaxTries]
        /\ job' \in [Wins -> {"none", "queued", "completed", "failed"} \cup Active]
        /\ tries'[w] = tries[w] + 1 /\ \A v \in Wins \ {w} : tries'[v] = tries[v]
        /\ job'[w] \in {"queued", "failed"} /\ \A v \in Wins \ {w} : job'[v] = job[v]
        /\ AttemptsLeft'
    BY <1>10, RetryType DEF Fault, Active
  <2>2. TypeOK'
    BY <1>10, <2>1 DEF Fault, onChain, WorkerIdle, TypeOK, Active
  <2>3. OneActive'
    BY <1>10, <2>1 DEF Fault, onChain, WorkerIdle, OneActive, TypeOK, Active
  <2>4. Youngest'
    <3>1. mempool' = mempool
      BY <1>10 DEF Fault, onChain
    <3> SUFFICES ASSUME NEW i \in 1 .. Len(mempool)
                 PROVE  LET v == mempool[i][1] IN
                        \/ mempool[i][2] <= tries'[v]
                        \/ /\ mempool[i][2] = tries'[v] + 1
                           /\ i = Len(mempool)
                           /\ job'[v] \in {"awaiting", "failing"}
      BY <3>1 DEF Youngest
    <3>2. mempool[i][1] \in Wins /\ mempool[i][2] \in Nat /\ tries[mempool[i][1]] \in Nat
      BY DEF TypeOK, Tx
    <3>3. CASE mempool[i][1] = w
      BY <2>1, <3>2, <3>3 DEF Youngest
    <3>4. CASE mempool[i][1] # w
      BY <2>1, <3>2, <3>4 DEF Youngest
    <3> QED
      BY <3>3, <3>4
  <2>5. Registered'
    BY <1>10, <2>1 DEF Fault, onChain, WorkerIdle, Registered, TypeOK, Active, OneActive
  <2>6. Owns'
    BY <1>10, <2>1 DEF Fault, onChain, WorkerIdle, Owns, TypeOK, Active, OneActive
  <2>7. Settled'
    BY <1>10, <2>1 DEF Fault, onChain, WorkerIdle, Settled, TypeOK, Active, Owns, Registered
  <2> QED
    BY <2>2, <2>3, <2>4, <2>5, <2>6, <2>7, <2>1
<1>11. ASSUME NEW outcome \in {"success", "reverted"}, Mine(outcome) PROVE RegistryInv'
  <2> DEFINE w == Head(mempool)[1]
  <2>1. /\ mempool' \in Seq(Tx) /\ Len(mempool) \in Nat \ {0}
        /\ Len(mempool') = Len(mempool) - 1
        /\ \A i \in 1 .. Len(mempool') : i + 1 \in 1 .. Len(mempool) /\ mempool'[i] = mempool[i + 1]
        /\ Len(mempool) = 1 => mempool' = <<>>
        /\ Head(mempool) = mempool[1] /\ mempool # <<>>
    BY <1>11, PoolTail DEF Mine
  <2>2. w \in Wins /\ mempool[1] \in Tx /\ w = mempool[1][1] /\ mempool[1][2] \in Nat
    <3>1. mempool[1] \in Wins \X (1 .. MaxTries)
      BY <2>1 DEF TypeOK, Tx
    <3> QED
      BY <2>1, <3>1 DEF Tx
  <2>3. /\ registry' \in [Deals -> Wins \cup {NoWin}]
        /\ registry' # registry => registry' = [registry EXCEPT ![DealOf[w]] = w]
    BY <1>11, <2>2 DEF Mine, TypeOK
  <2>4. /\ receipt' \in [Wins -> {"none", "success", "reverted"}]
        /\ \/ receipt' = receipt
           \/ /\ receipt' = [receipt EXCEPT ![w] = outcome]
              /\ job[w] = "awaiting" /\ mempool[1][2] = tries[w] + 1
    BY <1>11, <2>1, <2>2 DEF Mine, TypeOK
  <2>5. UNCHANGED <<configured, won, job, tries, record>>
    BY <1>11 DEF Mine
  <2> HIDE DEF w
  <2>6. TypeOK'
    BY <2>1, <2>3, <2>4, <2>5 DEF TypeOK
  <2>7. OneActive' /\ AttemptsLeft' /\ Owns'
    BY <2>5 DEF OneActive, AttemptsLeft, Owns
  <2>8. Youngest'
    <3> SUFFICES ASSUME NEW i \in 1 .. Len(mempool')
                 PROVE  LET v == mempool'[i][1] IN
                        \/ mempool'[i][2] <= tries[v]
                        \/ /\ mempool'[i][2] = tries[v] + 1
                           /\ i = Len(mempool')
                           /\ job[v] \in {"awaiting", "failing"}
      BY <2>5 DEF Youngest
    <3>1. i + 1 \in 1 .. Len(mempool) /\ mempool'[i] = mempool[i + 1]
      BY <2>1
    <3> QED
      BY <2>1, <3>1 DEF Youngest
  <2>9. Registered'
    <3> SUFFICES ASSUME NEW v \in Wins,
                        \/ job[v] = "awaiting" /\ receipt'[v] = "success"
                        \/ job[v] = "confirmed"
                 PROVE  mempool' = <<>> /\ registry'[DealOf[v]] = v
      BY <2>5 DEF Registered
    <3>1. receipt' = [receipt EXCEPT ![w] = outcome] /\ v = w
      BY <2>1, <2>2, <2>4 DEF Registered, TypeOK
    <3>2. outcome = "success" /\ mempool[1][2] = tries[w] + 1
      BY <2>1, <2>2, <2>4, <3>1 DEF Registered, TypeOK
    <3>3. Len(mempool) = 1
      BY <2>1, <2>2, <3>2 DEF Youngest, TypeOK
    <3>4. registry' = [registry EXCEPT ![DealOf[w]] = w]
      BY <1>11, <3>2 DEF Mine, w
    <3> QED
      BY <2>1, <2>2, <3>1, <3>3, <3>4 DEF TypeOK
  <2>10. Settled'
    <3> SUFFICES ASSUME NEW d \in Deals, record[d].status = "CONFIRMED"
                 PROVE  /\ registry'[d] = record[d].hash
                        /\ \A i \in 1 .. Len(mempool') : DealOf[mempool'[i][1]] # d
      BY <2>5 DEF Settled
    <3>1. DealOf[w] # d /\ registry[d] = record[d].hash
      BY <2>1, <2>2 DEF Settled
    <3>2. registry'[d] = registry[d]
      BY <2>3, <3>1 DEF TypeOK
    <3> QED
      BY <2>1, <3>1, <3>2 DEF Settled
  <2> QED
    BY <2>6, <2>7, <2>8, <2>9, <2>10
<1>12. CASE NodeDrops
  <2>1. /\ mempool' \in Seq(Tx) /\ Len(mempool) \in Nat \ {0}
        /\ Len(mempool') = Len(mempool) - 1
        /\ \A i \in 1 .. Len(mempool') : i \in 1 .. Len(mempool) - 1 /\ mempool'[i] = mempool[i]
    BY <1>12, PoolFront DEF NodeDrops
  <2>2. mempool # <<>> /\ UNCHANGED <<configured, won, job, tries, record, receipt, registry>>
    BY <1>12 DEF NodeDrops
  <2>3. TypeOK' /\ OneActive' /\ AttemptsLeft' /\ Owns'
    BY <2>1, <2>2 DEF TypeOK, OneActive, AttemptsLeft, Owns
  <2>4. Youngest'
    <3> SUFFICES ASSUME NEW i \in 1 .. Len(mempool')
                 PROVE  mempool[i][2] <= tries[mempool[i][1]]
      BY <2>1, <2>2 DEF Youngest
    <3> QED
      BY <2>1 DEF Youngest
  <2>5. Registered'
    BY <2>2 DEF Registered
  <2>6. Settled'
    BY <2>1, <2>2 DEF Settled
  <2> QED
    BY <2>3, <2>4, <2>5, <2>6
<1>13. CASE UNCHANGED vars
  BY <1>13 DEF vars, TypeOK, OneActive, AttemptsLeft, Youngest, Registered, Owns, Settled
<1> QED
  BY <1>1, <1>2, <1>3, <1>4, <1>5, <1>6, <1>7, <1>8, <1>9, <1>10, <1>11, <1>12, <1>13
     DEF Next, WorkerStep
-----------------------------------------------------------------------------
\* The invariant of the registry holds in every reachable state.
THEOREM RegistryInvariant == Spec => []RegistryInv
  BY RegistryInit, RegistryStep, PTL DEF Spec

\* Every reachable state is well typed; no job has more than MaxTries attempts.
THEOREM RegistryTypeCorrect == Spec => []TypeOK
<1>1. RegistryInv => TypeOK
  BY DEF RegistryInv
<1> QED
  BY <1>1, RegistryInvariant, PTL

\* A CONFIRMED record's hash is the contract's, however many wins and attempts
\* a deal has and whenever their transactions are mined (registerOnChain,
\* verifyDealOnChain).
THEOREM ConfirmedAreOnChain == Spec => []ConfirmedIsOnChain
<1>1. RegistryInv => ConfirmedIsOnChain
  BY DEF RegistryInv, Settled, ConfirmedIsOnChain
<1> QED
  BY <1>1, RegistryInvariant, PTL

\* A job completes only with its own hash in the contract.
THEOREM CompletionIsOnChain == Spec => CompletesOnChain
<1> DEFINE Completes == \A w \in Wins :
             configured /\ job[w] # "completed" /\ job'[w] = "completed"
               => registry[DealOf[w]] = w
<1>1. RegistryInv /\ [Next]_vars => [Completes]_vars
  <2> SUFFICES ASSUME RegistryInv, Next PROVE Completes
    OBVIOUS
  <2> SUFFICES ASSUME NEW w \in Wins, configured, job[w] # "completed", job'[w] = "completed"
               PROVE  job[w] = "confirmed"
    BY DEF RegistryInv, Registered
  <2> USE DEF RegistryInv
  <2>1. ASSUME NEW v \in Wins, WorkerStep(v) PROVE job[w] = "confirmed"
    <3>1. ASSUME Upsert(v) \/ Submit(v) \/ Confirm(v) \/ Throws(v) PROVE FALSE
      BY <3>1 DEF Upsert, Submit, Confirm, Throws, Goes, TypeOK
    <3>2. ASSUME WriteFailure(v) PROVE FALSE
      BY <3>2 DEF WriteFailure, Retry, TypeOK
    <3>3. CASE Complete(v)
      BY <3>3 DEF Complete, Goes, TypeOK
    <3>4. ASSUME SkipUnconfigured(v) PROVE FALSE
      BY <3>4 DEF SkipUnconfigured
    <3> QED
      BY <2>1, <3>1, <3>2, <3>3, <3>4 DEF WorkerStep
  <2>2. ASSUME NEW v \in Wins, CommitWon(v) \/ EnqueueRegister(v) PROVE FALSE
    BY <2>2 DEF CommitWon, EnqueueRegister, Goes, TypeOK
  <2>3. ASSUME NEW v \in Wins, Fault(v) PROVE FALSE
    BY <2>3 DEF Fault, Retry, TypeOK
  <2>4. ASSUME NEW outcome \in {"success", "reverted"}, Mine(outcome) PROVE FALSE
    BY <2>4 DEF Mine
  <2>5. ASSUME NodeDrops PROVE FALSE
    BY <2>5 DEF NodeDrops
  <2> QED
    BY <2>1, <2>2, <2>3, <2>4, <2>5 DEF Next
<1> QED
  BY <1>1, RegistryInvariant, PTL DEF Spec, CompletesOnChain

-----------------------------------------------------------------------------

\* A request that has written a move knows the stages of it; what created the deal
\* has none to come from.
MoveKnown ==
  \A r \in Requests :
    /\ step[r] \in {"idle", "created"} => move[r].from = NoStage
    /\ step[r] = "read" => move[r].from \in Stages
    /\ step[r] \notin {"idle", "failed"} => move[r].to \in Stages
    /\ step[r] \in {"announced", "notified", "registered"} => move[r].from \in Stages

\* The moves of the history that closed the deal.
Closings ==
  {i \in DOMAIN history : history[i].from # NoStage
                          /\ history[i].to \in WonStages \cup LostStages}

\* LastCloseCounts with the last of them at hand.
LastOne ==
  /\ deal = NoDeal => history = <<>>
  /\ Closings # {} /\ ~overruled =>
       \E i \in Closings :
         /\ \A j \in Closings : j <= i
         /\ deal.status = IF history[i].to \in WonStages THEN "WON" ELSE "LOST"

JobOf(queue, r) == [queue |-> queue, by |-> r]

\* What a request has queued by the time it gets to each of its steps.
QueuedSoFar ==
  \A r \in Requests :
    /\ step[r] = "written" =>
         \A q \in {"automation", "webhook"} : q \in adding[r] \/ JobOf(q, r) \in queued
    /\ step[r] \in {"announced", "notified", "registered"} =>
         JobOf("automation", r) \in queued /\ JobOf("webhook", r) \in queued
    /\ step[r] \in {"notified", "registered"} /\ owned[r] => JobOf("notification", r) \in queued
    /\ step[r] = "registered" => JobOf("blockchain", r) \in queued

\* A job of a win that is to be registered or paid comes after the others of its request.
QueuedInOrder ==
  \A r \in Requests :
    /\ JobOf("blockchain", r) \in queued =>
         /\ JobOf("automation", r) \in queued /\ JobOf("webhook", r) \in queued
         /\ owned[r] => JobOf("notification", r) \in queued
         /\ step[r] \in {"registered", "done"}
    /\ JobOf("payment", r) \in queued => JobOf("blockchain", r) \in queued

\* A request that asks for a payment has ended as a win of a deal in USDC.
BilledWins ==
  \A r \in Requests :
    /\ step[r] = "registered" => P!IsWin(r)
    /\ P!Queued(r) => step[r] = "done" /\ closing[r] > 0 /\ P!IsWin(r)

ClosingInv == P!TypeOK /\ MoveKnown /\ LastOne /\ QueuedSoFar /\ QueuedInOrder /\ BilledWins

\* A create_intent job that is at work was queued, and so were those of the payments.
IntentsAreQueued ==
  /\ DOMAIN stage = Requests
  /\ \A r \in Requests : stage[r] # "idle" => P!Queued(r)
  /\ \A p \in payments : p.by \in Requests /\ P!Queued(p.by)

-----------------------------------------------------------------------------

LEMMA ClosingAssumption ==
  /\ WonStages \subseteq Stages /\ LostStages \subseteq Stages /\ WonStages \cap LostStages = {}
  /\ NoStage \notin Stages /\ NoJob \notin Requests /\ NoDeal \notin P!Deal /\ Values \subseteq Nat
  /\ Overrides \subseteq P!Statuses
  BY DealsAssumption DEF P!DealAssumption

\* A row of the history.
Moved == [from : Stages \cup {NoStage}, to : Stages, by : Requests]

LEMMA ClosingInit == P!Init => ClosingInv
<1> SUFFICES ASSUME P!Init PROVE ClosingInv
  OBVIOUS
<1> USE ClosingAssumption DEF P!Init
<1>1. P!TypeOK
  <2>1. deal \in P!Deal \cup {NoDeal}
    BY DEF P!Seeded, P!Converted
  <2>2. history \in Seq([from : Stages \cup {NoStage}, to : Stages, by : Requests])
    OBVIOUS
  <2>3. move \in [Requests -> [from : Stages \cup {NoStage}, to : Stages \cup {NoStage}]]
    OBVIOUS
  <2> HIDE DEF P!Init
  <2> QED
    BY <2>1, <2>2, <2>3 DEF P!Init, P!TypeOK, P!Job
<1>2. MoveKnown
  BY DEF MoveKnown
<1>3. Closings = {}
  BY DEF Closings
<1>4. LastOne /\ QueuedSoFar /\ QueuedInOrder /\ BilledWins
  BY <1>3 DEF LastOne, QueuedSoFar, QueuedInOrder, BilledWins, P!Queued
<1> QED
  BY <1>1, <1>2, <1>4 DEF ClosingInv

-----------------------------------------------------------------------------
(* The types.                                                              *)

\* What the steps that write the row and its history write.
LEMMA HistoryTyped ==
  ASSUME P!TypeOK, NEW h \in Moved, history' = Append(history, h) PROVE history' \in Seq(Moved)
  BY DEF P!TypeOK, Moved

LEMMA MoveTyped ==
  ASSUME ClosingInv, NEW r \in Requests, P!WriteMove(r) PROVE P!TypeOK'
<1> USE DEF ClosingInv
<1>1. CASE deal = NoDeal
  BY <1>1 DEF P!WriteMove, P!TypeOK, P!Go
<1>2. CASE deal # NoDeal
  <2>1. move[r].from \in Stages /\ move[r].to \in Stages
    BY DEF MoveKnown, P!WriteMove
  <2>2. deal \in P!Deal
    BY <1>2 DEF P!TypeOK
  <2>3. deal' \in P!Deal
    BY <1>2, <2>1, <2>2 DEF P!WriteMove, P!Deal, P!Statuses
  <2>4. history' \in Seq(Moved)
    <3> DEFINE h == [from |-> move[r].from, to |-> move[r].to, by |-> r]
    <3>1. h \in Moved
      BY <2>1 DEF Moved
    <3>2. history' = Append(history, h)
      BY <1>2 DEF P!WriteMove
    <3> HIDE DEF h
    <3> QED
      BY <3>1, <3>2, HistoryTyped
  <2>5. P!InUsdc(deal) \in Values \cup {0}
    BY <2>2 DEF P!InUsdc, P!Deal, P!Statuses
  <2>6. closing' \in [Requests -> Values \cup {0}]
    BY <1>2, <2>5 DEF P!WriteMove, P!TypeOK
  <2>8. owned' \in [Requests -> BOOLEAN] /\ overruled' \in BOOLEAN
    <3>1. deal.hasOwner \in BOOLEAN
      BY <2>2 DEF P!Deal
    <3> QED
      BY <1>2, <3>1 DEF P!WriteMove, P!TypeOK
  <2>7. step' \in [Requests -> {"idle", "created", "read", "written", "announced", "notified",
                                "registered", "done", "failed"}]
        /\ adding' \in [Requests -> SUBSET {"automation", "webhook"}]
    <3>1. step' = [step EXCEPT ![r] = "written"] /\ adding' = [adding EXCEPT ![r] = {"automation", "webhook"}]
      BY <1>2 DEF P!WriteMove, P!Go
    <3> QED
      BY <3>1 DEF P!TypeOK
  <2> QED
    BY <2>3, <2>4, <2>6, <2>7, <2>8 DEF P!WriteMove, P!TypeOK, Moved
<1> QED
  BY <1>1, <1>2

LEMMA ClosingTypeStep == ASSUME ClosingInv, P!Next PROVE P!TypeOK'
<1> USE DEF ClosingInv, P!Go
<1>1. ASSUME NEW r \in Requests, P!Create(r) PROVE P!TypeOK'
  <2>1. PICK s \in Stages, v \in Values :
          /\ deal' = [stage |-> s, status |-> "OPEN", currency |-> "USD", value |-> v, hasOwner |-> TRUE]
          /\ move' = [move EXCEPT ![r].to = s]
    BY <1>1 DEF P!Create
  <2>2. deal' \in P!Deal
    BY <2>1 DEF P!Deal, P!Statuses
  <2>3. move' \in [Requests -> [from : Stages \cup {NoStage}, to : Stages \cup {NoStage}]]
    <3>1. [move[r] EXCEPT !.to = s] = [from |-> move[r].from, to |-> s]
      BY DEF P!TypeOK
    <3>2. [from |-> move[r].from, to |-> s] \in [from : Stages \cup {NoStage}, to : Stages \cup {NoStage}]
      BY DEF P!TypeOK
    <3>3. move' = [move EXCEPT ![r] = [from |-> move[r].from, to |-> s]]
      BY <2>1, <3>1
    <3> QED
      BY <3>2, <3>3 DEF P!TypeOK
  <2> QED
    BY <1>1, <2>2, <2>3 DEF P!Create, P!TypeOK
<1>2. ASSUME NEW r \in Requests, P!ReadDeal(r) PROVE P!TypeOK'
  <2>1. deal.stage \in Stages
    BY <1>2 DEF P!ReadDeal, P!TypeOK, P!Deal, P!Statuses
  <2> QED
    BY <1>2, <2>1 DEF P!ReadDeal, P!TypeOK
<1>3. ASSUME NEW r \in Requests, P!RecordCreation(r) PROVE P!TypeOK'
  <2>1. move[r].to \in Stages
    BY <1>3 DEF P!RecordCreation, MoveKnown
  <2>2. CASE deal = NoDeal
    BY <1>3, <2>2 DEF P!RecordCreation, P!TypeOK
  <2>3. CASE deal # NoDeal
    <3> DEFINE h == [from |-> NoStage, to |-> move[r].to, by |-> r]
    <3>1. h \in Moved
      BY <2>1 DEF Moved
    <3>2. history' = Append(history, h)
      BY <1>3, <2>3 DEF P!RecordCreation
    <3> HIDE DEF h
    <3>3. history' \in Seq(Moved)
      BY <3>1, <3>2, HistoryTyped
    <3>4. /\ UNCHANGED <<deal, move, closing, owned, queued, intentJob, overruled>>
          /\ adding' = [adding EXCEPT ![r] = {"automation", "webhook"}]
          /\ step' = [step EXCEPT ![r] = "written"]
      BY <1>3, <2>3 DEF P!RecordCreation, P!Go
    <3> QED
      BY <3>3, <3>4 DEF P!TypeOK, Moved
  <2> QED
    BY <2>2, <2>3
<1>4. ASSUME P!Update PROVE P!TypeOK'
  BY <1>4 DEF P!Update, P!TypeOK, P!Deal, P!Statuses
<1>5. ASSUME P!Delete PROVE P!TypeOK'
  BY <1>5 DEF P!Delete, P!TypeOK
<1>6. ASSUME NEW r \in Requests, NEW q \in {"automation", "webhook"}, P!Announce(r, q)
      PROVE  P!TypeOK'
  BY <1>6 DEF P!Announce, P!Add, P!TypeOK, P!Job
<1>7. ASSUME NEW r \in Requests, P!Announced(r) PROVE P!TypeOK'
  BY <1>7 DEF P!Announced, P!TypeOK
<1>8. ASSUME NEW r \in Requests, P!Notify(r) PROVE P!TypeOK'
  BY <1>8 DEF P!Notify, P!Add, P!TypeOK, P!Job
<1>9. ASSUME NEW r \in Requests, P!Register(r) PROVE P!TypeOK'
  BY <1>9 DEF P!Register, P!Add, P!TypeOK, P!Job
<1>10. ASSUME NEW r \in Requests, P!QueueIntent(r) PROVE P!TypeOK'
  BY <1>10 DEF P!QueueIntent, P!Add, P!TypeOK, P!Job
<1>11. ASSUME NEW r \in Requests, P!IntentLost(r) PROVE P!TypeOK'
  BY <1>11 DEF P!IntentLost, P!TypeOK
<1>12. ASSUME P!ForgetIntentJob PROVE P!TypeOK'
  BY <1>12 DEF P!ForgetIntentJob, P!TypeOK
<1>13. ASSUME NEW r \in Requests, P!Fault(r) PROVE P!TypeOK'
  BY <1>13 DEF P!Fault, P!TypeOK
<1>14. ASSUME P!UpdateField PROVE P!TypeOK'
  <2>1. deal' \in P!Deal /\ overruled' \in BOOLEAN
    <3>1. deal \in P!Deal /\ overruled \in BOOLEAN
      BY <1>14 DEF P!UpdateField, P!TypeOK
    <3>2. \/ \E v \in Overrides : deal' = [deal EXCEPT !.status = v] /\ overruled' = TRUE
          \/ \E v \in Values : deal' = [deal EXCEPT !.value = v] /\ UNCHANGED overruled
      BY <1>14 DEF P!UpdateField
    <3> QED
      BY <3>1, <3>2, ClosingAssumption DEF P!Deal
  <2> QED
    BY <1>14, <2>1 DEF P!UpdateField, P!TypeOK
<1> QED
  BY <1>14, <1>1, <1>2, <1>3, <1>4, <1>5, <1>6, <1>7, <1>8, <1>9, <1>10, <1>11, <1>12, <1>13, MoveTyped
  DEF P!Next, P!Step

-----------------------------------------------------------------------------
(* Stages and status.                                                      *)

\* Only create and the read of a move set the stages of a request.
LEMMA MoveStep == ASSUME ClosingInv, P!Next PROVE MoveKnown'
<1> USE ClosingAssumption DEF ClosingInv, P!TypeOK, P!Go, MoveKnown
<1>1. ASSUME NEW r \in Requests, P!Create(r) PROVE MoveKnown'
  BY <1>1 DEF P!Create
<1>2. ASSUME NEW r \in Requests, P!ReadDeal(r) PROVE MoveKnown'
  <2>1. deal.stage \in Stages
    BY <1>2 DEF P!ReadDeal, P!Deal, P!Statuses
  <2> QED
    BY <1>2, <2>1 DEF P!ReadDeal
<1>3. ASSUME NEW r \in Requests, P!RecordCreation(r) \/ P!WriteMove(r) \/ P!Fault(r)
      PROVE  MoveKnown'
  BY <1>3 DEF P!RecordCreation, P!WriteMove, P!Fault
<1>4. ASSUME NEW r \in Requests, P!Announced(r) PROVE MoveKnown'
  BY <1>4 DEF P!Announced, P!Created
<1>5. ASSUME NEW r \in Requests, P!Notify(r) \/ P!Register(r) PROVE MoveKnown'
  BY <1>5 DEF P!Notify, P!Register
<1>6. ASSUME NEW r \in Requests, P!QueueIntent(r) \/ P!IntentLost(r) PROVE MoveKnown'
  BY <1>6 DEF P!QueueIntent, P!IntentLost
<1>7. ASSUME UNCHANGED <<step, move>> PROVE MoveKnown'
  BY <1>7
<1> QED
  BY <1>1, <1>2, <1>3, <1>4, <1>5, <1>6, <1>7
  DEF P!Next, P!Step, P!Update, P!UpdateField, P!Delete, P!Announce, P!ForgetIntentJob

\* What a move that is appended makes of the moves that close.
LEMMA ClosingsGrow ==
  ASSUME P!TypeOK, NEW h \in Moved,
         history' = Append(history, h)
  PROVE  /\ Closings' = IF h.from # NoStage /\ h.to \in WonStages \cup LostStages
                        THEN Closings \cup {Len(history) + 1} ELSE Closings
         /\ \A i \in Closings : i \in Nat /\ i <= Len(history) /\ history'[i] = history[i]
         /\ history'[Len(history) + 1] = h /\ Len(history) + 1 \in Nat
<1>1. history \in Seq(Moved)
  BY DEF P!TypeOK, Moved
<1>2. /\ DOMAIN history = 1 .. Len(history) /\ Len(history) \in Nat
      /\ DOMAIN history' = 1 .. (Len(history) + 1)
      /\ \A i \in 1 .. Len(history) : history'[i] = history[i]
      /\ history'[Len(history) + 1] = h
  BY <1>1
<1>3. DOMAIN history' = DOMAIN history \cup {Len(history) + 1}
  BY <1>2
<1>4. \A i \in DOMAIN history : i \in Nat /\ i <= Len(history)
  BY <1>2
<1>5. \A i \in DOMAIN history : i \in Closings' <=> i \in Closings
  BY <1>2, <1>3 DEF Closings
<1>6. Len(history) + 1 \in Closings' <=> h.from # NoStage /\ h.to \in WonStages \cup LostStages
  BY <1>2, <1>3 DEF Closings
<1>7. Closings \subseteq DOMAIN history /\ Closings' \subseteq DOMAIN history'
  BY DEF Closings
<1>8. ASSUME h.from # NoStage, h.to \in WonStages \cup LostStages
      PROVE  Closings' = Closings \cup {Len(history) + 1}
  BY <1>3, <1>5, <1>6, <1>7, <1>8
<1>9. ASSUME ~(h.from # NoStage /\ h.to \in WonStages \cup LostStages)
      PROVE  Closings' = Closings
  BY <1>3, <1>5, <1>6, <1>7, <1>9
<1>10. \A i \in Closings : i \in Nat /\ i <= Len(history) /\ history'[i] = history[i]
  BY <1>2, <1>4, <1>7
<1>11. Closings' = IF h.from # NoStage /\ h.to \in WonStages \cup LostStages
                   THEN Closings \cup {Len(history) + 1} ELSE Closings
  BY <1>8, <1>9, Zenon
<1>12. history'[Len(history) + 1] = h /\ Len(history) + 1 \in Nat
  BY <1>2
<1> QED
  BY <1>10, <1>11, <1>12, Zenon

LEMMA LastStep == ASSUME ClosingInv, P!Next PROVE LastOne'
<1> USE DEF ClosingInv
<1>1. ASSUME NEW r \in Requests, P!Create(r) PROVE LastOne'
  <2>1. history' = <<>>
    BY <1>1 DEF P!Create, LastOne
  <2>2. Closings' = {}
    BY <2>1 DEF Closings
  <2> QED
    BY <2>1, <2>2 DEF LastOne
<1>2. ASSUME NEW r \in Requests, P!RecordCreation(r) PROVE LastOne'
  <2>1. CASE deal = NoDeal
    BY <1>2, <2>1 DEF P!RecordCreation, LastOne, Closings
  <2>2. CASE deal # NoDeal
    <3> DEFINE h == [from |-> NoStage, to |-> move[r].to, by |-> r]
    <3>1. history' = Append(history, h) /\ deal' = deal /\ overruled' = overruled
      BY <1>2, <2>2 DEF P!RecordCreation
    <3>2. h \in Moved /\ h.from = NoStage
      BY <1>2 DEF P!RecordCreation, MoveKnown, Moved
    <3> HIDE DEF h
    <3>3. Closings' = Closings /\ \A i \in Closings : history'[i] = history[i]
      BY <3>1, <3>2, ClosingsGrow
    <3> QED
      BY <2>2, <3>1, <3>3 DEF LastOne
  <2> QED
    BY <2>1, <2>2
<1>3. ASSUME NEW r \in Requests, P!WriteMove(r) PROVE LastOne'
  <2>1. CASE deal = NoDeal
    BY <1>3, <2>1 DEF P!WriteMove, LastOne, Closings
  <2>2. CASE deal # NoDeal
    <3> DEFINE h == [from |-> move[r].from, to |-> move[r].to, by |-> r]
    <3>1. /\ history' = Append(history, h)
          /\ deal' = [deal EXCEPT !.stage = h.to,
                        !.status = IF h.to \in WonStages THEN "WON"
                                   ELSE IF h.to \in LostStages THEN "LOST" ELSE @]
          /\ h.to \notin WonStages \cup LostStages => overruled' = overruled
      BY <1>3, <2>2 DEF P!WriteMove, P!Closes, P!TypeOK
    <3>2. /\ h \in Moved
          /\ h.from # NoStage
      BY <1>3, ClosingAssumption DEF P!WriteMove, MoveKnown, Moved
    <3>3. deal \in P!Deal
      BY <2>2 DEF P!TypeOK
    <3>4. deal'.status = IF h.to \in WonStages THEN "WON"
                         ELSE IF h.to \in LostStages THEN "LOST" ELSE deal.status
      BY <3>1, <3>3 DEF P!Deal, P!Statuses
    <3>5. deal' # NoDeal
      <4>1. deal' \in P!Deal
        BY <3>1, <3>2, <3>3 DEF P!Deal, P!Statuses, Moved
      <4> QED
        BY <4>1, ClosingAssumption
    <3> HIDE DEF h
    <3>6. CASE h.to \in WonStages \cup LostStages
      <4>1. /\ Closings' = Closings \cup {Len(history) + 1}
            /\ \A i \in Closings : i \in Nat /\ i <= Len(history)
            /\ history'[Len(history) + 1] = h /\ Len(history) + 1 \in Nat
        BY <3>1, <3>2, <3>6, ClosingsGrow
      <4>2. \A j \in Closings' : j <= Len(history) + 1
        BY <4>1
      <4>3. deal'.status = IF history'[Len(history) + 1].to \in WonStages THEN "WON" ELSE "LOST"
        BY <3>4, <3>6, <4>1
      <4> QED
        BY <3>5, <4>1, <4>2, <4>3 DEF LastOne
    <3>7. CASE h.to \notin WonStages \cup LostStages
      <4>1. Closings' = Closings /\ \A i \in Closings : history'[i] = history[i]
        BY <3>1, <3>2, <3>7, ClosingsGrow
      <4> QED
        BY <3>1, <3>4, <3>5, <3>7, <4>1 DEF LastOne
    <3> QED
      BY <3>6, <3>7
  <2> QED
    BY <2>1, <2>2
<1>4. ASSUME P!Update PROVE LastOne'
  <2>1. Closings' = Closings /\ history' = history
    BY <1>4 DEF P!Update, Closings
  <2>2. deal'.status = deal.status /\ deal' # NoDeal
    <3>1. deal \in P!Deal
      BY <1>4 DEF P!Update, P!TypeOK
    <3>2. PICK v \in Values, c \in {"USD", deal.currency} :
            deal' = [deal EXCEPT !.value = v, !.currency = c]
      BY <1>4 DEF P!Update
    <3>3. deal' \in P!Deal
      BY <3>1, <3>2 DEF P!Deal, P!Statuses
    <3> QED
      BY <3>1, <3>2, <3>3, ClosingAssumption DEF P!Deal, P!Statuses
  <2> QED
    BY <1>4, <2>1, <2>2 DEF LastOne, P!Update
<1>5. ASSUME P!Delete PROVE LastOne'
  BY <1>5 DEF P!Delete, LastOne, Closings
<1>6. ASSUME UNCHANGED <<deal, history, overruled>> PROVE LastOne'
  BY <1>6 DEF LastOne, Closings
<1>7. ASSUME P!UpdateField PROVE LastOne'
  <2>1. Closings' = Closings /\ history' = history /\ deal \in P!Deal /\ deal # NoDeal
    BY <1>7 DEF P!UpdateField, Closings, P!TypeOK
  <2>4. deal' # NoDeal
    <3>1. deal' \in P!Deal
      BY <1>7, <2>1, ClosingAssumption DEF P!UpdateField, P!Deal, P!Statuses
    <3> QED
      BY <3>1, ClosingAssumption
  <2>2. CASE overruled'
    BY <2>1, <2>2, <2>4 DEF LastOne
  <2>3. CASE ~overruled'
    <3>1. overruled' = overruled /\ \E v \in Values : deal' = [deal EXCEPT !.value = v]
      BY <1>7, <2>3 DEF P!UpdateField
    <3>2. deal'.status = deal.status
      BY <2>1, <3>1 DEF P!Deal
    <3> QED
      BY <2>1, <2>4, <3>1, <3>2 DEF LastOne
  <2> QED
    BY <2>2, <2>3
<1> QED
  BY <1>7, <1>1, <1>2, <1>3, <1>4, <1>5, <1>6
  DEF P!Next, P!Step, P!ReadDeal, P!Announce, P!Announced, P!Notify, P!Register, P!QueueIntent,
      P!IntentLost, P!ForgetIntentJob, P!Fault

-----------------------------------------------------------------------------

(* The order of the queues.                                                *)

\* Jobs are of one queue and one request.
LEMMA JobsDiffer ==
  \A q, p, r, o : JobOf(q, r) = JobOf(p, o) <=> q = p /\ r = o
  BY DEF JobOf

LEMMA Adds ==
  ASSUME NEW q, NEW r, P!Add(r, q)
  PROVE  queued' = queued \cup {JobOf(q, r)}
  BY DEF P!Add, JobOf

LEMMA QueuedStep == ASSUME ClosingInv, P!Next PROVE QueuedSoFar' /\ QueuedInOrder'
<1> USE DEF ClosingInv, P!TypeOK, P!Go
<1>1. ASSUME NEW r \in Requests, P!Create(r) \/ P!ReadDeal(r) \/ P!Fault(r)
      PROVE  QueuedSoFar' /\ QueuedInOrder'
  <2>1. /\ UNCHANGED <<queued, owned>> /\ step[r] \notin {"registered", "done"}
        /\ \E next \in {"created", "read", "failed"} : step' = [step EXCEPT ![r] = next]
        /\ \A o \in Requests \ {r} : adding'[o] = adding[o]
    BY <1>1 DEF P!Create, P!ReadDeal, P!Fault
  <2>2. QueuedSoFar'
    BY <2>1 DEF QueuedSoFar
  <2> QED
    BY <2>1, <2>2 DEF QueuedInOrder
<1>2. ASSUME NEW r \in Requests, P!RecordCreation(r) \/ P!WriteMove(r)
      PROVE  QueuedSoFar' /\ QueuedInOrder'
  BY <1>2 DEF P!RecordCreation, P!WriteMove, QueuedSoFar, QueuedInOrder
<1>3. ASSUME NEW r \in Requests, NEW q \in {"automation", "webhook"}, P!Announce(r, q)
      PROVE  QueuedSoFar' /\ QueuedInOrder'
  BY <1>3, Adds, JobsDiffer DEF P!Announce, QueuedSoFar, QueuedInOrder
<1>4. ASSUME NEW r \in Requests, P!Announced(r) PROVE QueuedSoFar' /\ QueuedInOrder'
  BY <1>4 DEF P!Announced, QueuedSoFar, QueuedInOrder
<1>5. ASSUME NEW r \in Requests, P!Notify(r) PROVE QueuedSoFar' /\ QueuedInOrder'
  <2>1. CASE UNCHANGED queued /\ (P!Closes(r) => ~owned[r])
    BY <1>5, <2>1 DEF P!Notify, QueuedSoFar, QueuedInOrder
  <2>2. CASE P!Closes(r) /\ queued' = queued \cup {JobOf("notification", r)}
    BY <1>5, <2>2, JobsDiffer DEF P!Notify, QueuedSoFar, QueuedInOrder
  <2> QED
    BY <1>5, <2>1, <2>2, Adds DEF P!Notify
<1>6. ASSUME NEW r \in Requests, P!Register(r) PROVE QueuedSoFar' /\ QueuedInOrder'
  <2>1. CASE ~P!IsWin(r)
    BY <1>6, <2>1 DEF P!Register, QueuedSoFar, QueuedInOrder
  <2>2. CASE P!IsWin(r) /\ queued' = queued \cup {JobOf("blockchain", r)}
    BY <1>6, <2>2, JobsDiffer DEF P!Register, QueuedSoFar, QueuedInOrder
  <2> QED
    BY <1>6, <2>1, <2>2, Adds DEF P!Register
<1>7. ASSUME NEW r \in Requests, P!QueueIntent(r) \/ P!IntentLost(r)
      PROVE  QueuedSoFar' /\ QueuedInOrder'
  <2>1. CASE UNCHANGED queued
    BY <1>7, <2>1 DEF P!QueueIntent, P!IntentLost, QueuedSoFar, QueuedInOrder
  <2>2. CASE queued' = queued \cup {JobOf("payment", r)}
    BY <1>7, <2>2, JobsDiffer DEF P!QueueIntent, P!IntentLost, QueuedSoFar, QueuedInOrder
  <2> QED
    BY <1>7, <2>1, <2>2, Adds DEF P!QueueIntent, P!IntentLost
<1>8. ASSUME UNCHANGED <<step, owned, adding, queued>> PROVE QueuedSoFar' /\ QueuedInOrder'
  BY <1>8 DEF QueuedSoFar, QueuedInOrder
<1> QED
  BY <1>1, <1>2, <1>3, <1>4, <1>5, <1>6, <1>7, <1>8
  DEF P!Next, P!Step, P!Update, P!UpdateField, P!Delete, P!ForgetIntentJob

\* A job of another queue bills nobody.
LEMMA BilledKept ==
  ASSUME ClosingInv, NEW r \in Requests, NEW q \in {"automation", "webhook", "notification", "blockchain"},
         queued' = queued \cup {JobOf(q, r)}, UNCHANGED <<move, closing>>,
         NEW next, step' = step \/ (step[r] # "done" /\ step' = [step EXCEPT ![r] = next]),
         next = "registered" => P!IsWin(r)
  PROVE  BilledWins'
<1>1. \A o : P!Queued(o)' <=> P!Queued(o)
  BY JobsDiffer DEF P!Queued, JobOf
<1> QED
  BY <1>1 DEF ClosingInv, P!TypeOK, BilledWins, P!IsWin, P!Created

LEMMA BilledStep == ASSUME ClosingInv, P!Next PROVE BilledWins'
<1> USE DEF ClosingInv, P!TypeOK, P!Go, P!IsWin, P!Created
<1>1. ASSUME NEW r \in Requests, P!Create(r) \/ P!ReadDeal(r) \/ P!WriteMove(r)
      PROVE  BilledWins'
  <2>1. /\ UNCHANGED queued /\ step[r] \in {"idle", "created", "read"}
        /\ \E next \in {"created", "read", "written", "failed"} : step' = [step EXCEPT ![r] = next]
        /\ \A o \in Requests \ {r} : move'[o] = move[o] /\ closing'[o] = closing[o]
    BY <1>1 DEF P!Create, P!ReadDeal, P!WriteMove
  <2>2. ~P!Queued(r)
    BY <2>1 DEF BilledWins
  <2> QED
    BY <2>1, <2>2 DEF P!Queued, BilledWins
<1>2. ASSUME NEW r \in Requests, P!RecordCreation(r) \/ P!Announced(r) \/ P!Fault(r)
      PROVE  BilledWins'
  BY <1>2 DEF P!Queued, P!RecordCreation, P!Announced, P!Fault, BilledWins
<1>3. ASSUME NEW r \in Requests, NEW q \in {"automation", "webhook"}, P!Announce(r, q)
      PROVE  BilledWins'
  <2>1. queued' = queued \cup {JobOf(q, r)} /\ UNCHANGED <<step, move, closing>>
    BY <1>3, Adds DEF P!Announce
  <2>2. \A o : P!Queued(o)' <=> P!Queued(o)
    BY <2>1 DEF P!Queued, JobOf
  <2> QED
    BY <2>1, <2>2 DEF BilledWins
<1>4. ASSUME NEW r \in Requests, P!Notify(r) PROVE BilledWins'
  <2>1. CASE UNCHANGED queued
    BY <1>4, <2>1 DEF P!Notify, P!Queued, BilledWins
  <2>2. CASE queued' = queued \cup {JobOf("notification", r)}
    BY <1>4, <2>2, BilledKept, JobsDiffer DEF P!Notify
  <2> QED
    BY <1>4, <2>1, <2>2, Adds DEF P!Notify
<1>5. ASSUME NEW r \in Requests, P!Register(r) PROVE BilledWins'
  <2>1. CASE UNCHANGED queued
    BY <1>5, <2>1 DEF P!Register, P!Queued, BilledWins
  <2>2. CASE queued' = queued \cup {JobOf("blockchain", r)}
    BY <1>5, <2>2, BilledKept, JobsDiffer DEF P!Register
  <2> QED
    BY <1>5, <2>1, <2>2, Adds DEF P!Register
<1>6. ASSUME NEW r \in Requests, P!QueueIntent(r) \/ P!IntentLost(r) PROVE BilledWins'
  <2>1. CASE UNCHANGED queued
    BY <1>6, <2>1 DEF P!QueueIntent, P!IntentLost, P!Queued, BilledWins
  <2>2. CASE queued' = queued \cup {JobOf("payment", r)} /\ closing[r] > 0
    <3>1. \A o \in Requests \ {r} : P!Queued(o)' <=> P!Queued(o)
      BY <2>2 DEF P!Queued, JobOf
    <3> QED
      BY <1>6, <2>2, <3>1 DEF P!QueueIntent, P!IntentLost, BilledWins
  <2> QED
    BY <1>6, <2>1, <2>2, Adds DEF P!QueueIntent, P!IntentLost
<1>7. ASSUME UNCHANGED <<step, move, closing, queued>> PROVE BilledWins'
  BY <1>7 DEF P!Queued, BilledWins
<1> QED
  BY <1>1, <1>2, <1>3, <1>4, <1>5, <1>6, <1>7
  DEF P!Next, P!Step, P!Update, P!UpdateField, P!Delete, P!ForgetIntentJob

LEMMA ClosingStep == ClosingInv /\ [P!Next]_(P!vars) => ClosingInv'
<1> SUFFICES ASSUME ClosingInv, [P!Next]_(P!vars) PROVE ClosingInv'
  OBVIOUS
<1>1. CASE P!Next
  BY <1>1, ClosingTypeStep, MoveStep, LastStep, QueuedStep, BilledStep DEF ClosingInv
<1>2. CASE UNCHANGED P!vars
  BY <1>2 DEF P!vars, ClosingInv, P!TypeOK, MoveKnown, LastOne, Closings, QueuedSoFar,
              QueuedInOrder, BilledWins, P!Queued, P!IsWin, P!Created
<1> QED
  BY <1>1, <1>2

\* A create_intent job is called after it was queued, and stays called.
LEMMA IntentCalls ==
  ASSUME ClosingInv, IntentsAreQueued, P!NextAll PROVE IntentsAreQueued'
<1>1. queued \subseteq queued'
  BY DEF P!NextAll, P!DealStep, P!IntentForgotten, P!WorkIntent, P!vars, P!Create, P!ReadDeal,
         P!Step, P!RecordCreation, P!WriteMove, P!Announce, P!Announced, P!Notify, P!Register,
         P!QueueIntent, P!IntentLost, P!Fault, P!Update, P!UpdateField, P!Delete, P!ForgetIntentJob, P!Add
<1>2. CASE UNCHANGED P!intentVars
  BY <1>1, <1>2 DEF P!intentVars, IntentsAreQueued, P!Queued
<1>3. ASSUME NEW r \in Requests, P!Queued(r), P!Intents!Call(r) PROVE IntentsAreQueued'
  BY <1>1, <1>3 DEF P!Intents!Call, P!Intents!Goes, IntentsAreQueued, P!Queued
<1>4. ASSUME NEW r \in Requests, P!Intents!Step(r) \/ P!Intents!Fault(r)
      PROVE  IntentsAreQueued'
  <2>1. stage[r] # "idle" /\ DOMAIN stage' = Requests
        /\ \A o \in Requests \ {r} : stage'[o] = stage[o]
    BY <1>4 DEF P!Intents!Step, P!Intents!Fault, P!Intents!CheckKey, P!Intents!FindWallet,
                P!Intents!Create, P!Intents!Return, P!Intents!Goes, P!Intents!Throws,
                IntentsAreQueued
  <2>2. \A p \in payments' : p \in payments \/ p.by = r
    BY <1>4 DEF P!Intents!Step, P!Intents!Fault, P!Intents!CheckKey, P!Intents!FindWallet,
                P!Intents!Create, P!Intents!Return
  <2> QED
    BY <1>1, <2>1, <2>2 DEF IntentsAreQueued, P!Queued
<1> QED
  BY <1>2, <1>3, <1>4 DEF P!NextAll, P!DealStep, P!IntentForgotten, P!WorkIntent

-----------------------------------------------------------------------------
\* The composition of the deal with its payments is one of its behaviours.
LEMMA DealsAlone == P!SpecAll => P!Spec
<1>1. P!InitAll => P!Init
  BY DEF P!InitAll
<1>2. [P!NextAll]_(P!allVars) => [P!Next]_(P!vars)
  BY DEF P!NextAll, P!DealStep, P!IntentForgotten, P!WorkIntent, P!Next, P!allVars, P!vars
<1> QED
  BY <1>1, <1>2, PTL DEF P!SpecAll, P!Spec

\* The inductive invariant of the requests on one deal.
THEOREM ClosingInvariant == P!Spec => []ClosingInv
  BY ClosingInit, ClosingStep, PTL DEF P!Spec

\* The deal has the status of the closing stage it was moved to last, unless a workflow
\* has written another since.
THEOREM LastCloseAlwaysCounts == P!Spec => []P!LastCloseCounts
<1>1. P!TypeOK /\ LastOne => P!LastCloseCounts
  <2> SUFFICES ASSUME P!TypeOK, LastOne, deal # NoDeal, Closings # {}, ~overruled
               PROVE  deal.status = IF history[CHOOSE i \in Closings : \A j \in Closings : j <= i].to
                                         \in WonStages THEN "WON" ELSE "LOST"
    BY DEF P!LastCloseCounts, Closings
  <2>1. PICK i \in Closings :
          /\ \A j \in Closings : j <= i
          /\ deal.status = IF history[i].to \in WonStages THEN "WON" ELSE "LOST"
    BY DEF LastOne
  <2> DEFINE last == CHOOSE k \in Closings : \A j \in Closings : j <= k
  <2>2. last \in Closings /\ \A j \in Closings : j <= last
    BY <2>1
  <2>3. i \in Nat /\ last \in Nat
    <3>1. Closings \subseteq Nat
      BY DEF Closings, P!TypeOK
    <3> QED
      BY <2>1, <2>2, <3>1
  <2>4. i = last
    BY <2>1, <2>2, <2>3
  <2> QED
    BY <2>1, <2>4
<1>2. ClosingInv => P!TypeOK /\ LastOne
  BY DEF ClosingInv
<1> QED
  BY <1>1, <1>2, ClosingInvariant, PTL

\* What is registered or billed was announced first, whichever calls fail.
THEOREM ClosesAreOrdered == P!Spec => []P!ClosedInOrder
<1>1. ClosingInv => P!ClosedInOrder
  <2> SUFFICES ASSUME ClosingInv, NEW r \in Requests PROVE P!ClosedInOrder!(r)
    BY DEF P!ClosedInOrder
  <2>1. \A q : q \in P!QueuedBy(r) <=> JobOf(q, r) \in queued
    <3>1. \A k \in queued : k = JobOf(k.queue, k.by)
      BY DEF ClosingInv, P!TypeOK, P!Job, JobOf
    <3>2. \A q : JobOf(q, r).by = r /\ JobOf(q, r).queue = q
      BY DEF JobOf
    <3> QED
      BY <3>1, <3>2 DEF P!QueuedBy
  <2> QED
    BY <2>1 DEF ClosingInv, QueuedInOrder
<1> QED
  BY <1>1, ClosingInvariant, PTL

\* A payment is collected for a win that committed, of a deal in USDC.
THEOREM WinsAreCollected == P!SpecAll => []P!CollectsForWins
<1>1. P!InitAll => IntentsAreQueued
  BY DEF P!InitAll, P!Intents!Init, IntentsAreQueued
<1>2. ClosingInv /\ IntentsAreQueued /\ [P!NextAll]_(P!allVars) => IntentsAreQueued'
  <2>1. UNCHANGED P!allVars /\ IntentsAreQueued => IntentsAreQueued'
    BY DEF P!allVars, P!vars, P!intentVars, IntentsAreQueued, P!Queued
  <2> QED
    BY <2>1, IntentCalls
<1>3. ClosingInv /\ IntentsAreQueued => P!CollectsForWins
  BY DEF ClosingInv, BilledWins, IntentsAreQueued, P!CollectsForWins
<1> QED
  BY <1>1, <1>2, <1>3, DealsAlone, ClosingInvariant, PTL DEF P!SpecAll

\* The jobs of the deal's wins are calls like any: composed with the deal, they do
\* what PaymentIntents says, and nothing of the deal writes a payment.
THEOREM WinsAskForIntents == P!SpecAll => P!Intents!Spec
<1>1. P!InitAll => P!Intents!Init
  BY DEF P!InitAll
<1>2. [P!NextAll]_(P!allVars) => [P!Intents!Next]_(P!Intents!vars)
  BY DEF P!NextAll, P!DealStep, P!IntentForgotten, P!WorkIntent, P!allVars, P!intentVars,
         P!Intents!vars, P!Intents!Next
<1> QED
  BY <1>1, <1>2, PTL DEF P!SpecAll, P!Intents!Spec

\* A payment has the key of the win it is for, and a key has one payment.
OneOfItsKey ==
  /\ \A p \in payments : p.by \in Requests /\ p.key = KeyOf[p.by]
  /\ P!Intents!OnePerKey

BilledOnce ==
  (\A r, s \in Requests : KeyOf[r] = KeyOf[s]) => \A p, q \in payments : p = q

\* A deal is billed once, however often it is won and however often the jobs of
\* its wins are retried: they all have the deal's key.
THEOREM DealsAreBilledOnce == P!SpecAll => []BilledOnce
<1>1. P!Intents!Init => OneOfItsKey
  BY DEF P!Intents!Init, OneOfItsKey, P!Intents!OnePerKey
<1>2. OneOfItsKey /\ [P!Intents!Next]_(P!Intents!vars) => OneOfItsKey'
  <2> SUFFICES ASSUME OneOfItsKey, [P!Intents!Next]_(P!Intents!vars) PROVE OneOfItsKey'
    OBVIOUS
  <2>1. ASSUME NEW c \in Requests, P!Intents!Create(c) PROVE OneOfItsKey'
    <3> DEFINE new == [key |-> KeyOf[c], tenant |-> TenantOf[c], wallet |-> WalletOf[c], by |-> c]
    <3>1. \/ UNCHANGED payments
          \/ (\A p \in payments : p.key # KeyOf[c]) /\ payments' = payments \cup {new}
      BY <2>1 DEF P!Intents!Create
    <3>2. new.key = KeyOf[c] /\ new.by = c
      OBVIOUS
    <3> HIDE DEF new
    <3> QED
      BY <3>1, <3>2 DEF OneOfItsKey, P!Intents!OnePerKey
  <2>2. UNCHANGED payments \/ \E c \in Requests : P!Intents!Create(c)
    BY DEF P!Intents!Next, P!Intents!Step, P!Intents!Call, P!Intents!CheckKey, P!Intents!FindWallet,
           P!Intents!Return, P!Intents!Fault, P!Intents!vars
  <2>3. UNCHANGED payments => OneOfItsKey'
    BY DEF OneOfItsKey, P!Intents!OnePerKey
  <2> QED
    BY <2>1, <2>2, <2>3
<1>3. OneOfItsKey => BilledOnce
  BY DEF OneOfItsKey, BilledOnce, P!Intents!OnePerKey
<1> QED
  BY <1>1, <1>2, <1>3, WinsAskForIntents, PTL DEF P!Intents!Spec

-----------------------------------------------------------------------------

(* The loop of automation over its workflows.                              *)

\* The last execution of a workflow by an event is of the attempt that is running.
OfThisAttempt(e, w) ==
  /\ Len(executions[e][w]) > 0
  /\ U!LastOf(executions[e][w]).attempt = eventTries[e] + 1

\* An attempt has ended with a workflow when one of its executions is no longer RUNNING.
HasEnded(e, w) ==
  \E i \in 1 .. Len(executions[e][w]) :
    executions[e][w][i].attempt = eventTries[e] + 1 /\ executions[e][w][i].status # "RUNNING"

TriesLeft(e) == eventJob[e] \notin {"completed", "failed"} => eventTries[e] < EventAttempts

\* Where a loop is: what it has left behind has ended, and what it is at has begun.
LoopKnows(e) ==
  /\ eventJob[e] \in U!Active => todo[e] \subseteq found[e]
  /\ eventJob[e] \in U!Active \cup {"completed"} =>
       \A w \in (found[e] \ todo[e]) \cap stored : HasEnded(e, w)
  /\ eventJob[e] = "completed" => todo[e] = {}
  /\ eventJob[e] \in U!Active \ {"next"} =>
       /\ running[e] \in todo[e]
       /\ running[e] \in stored => OfThisAttempt(e, running[e])
  /\ eventJob[e] \in {"counting", "blaming"} /\ running[e] \in stored =>
       U!LastOf(executions[e][running[e]]).status # "RUNNING"

\* What the actions of a workflow have done: no more than it has, and none after one
\* whose failure stops it.
InBounds(w, done) ==
  /\ Len(done) <= Len(ActionsOf[w])
  /\ \A k \in 1 .. Len(done) : ~done[k] /\ ActionsOf[w][k] => k = Len(done)

Recorded(w, x) ==
  /\ InBounds(w, x.results)
  /\ x.status = "SUCCESS" =>
       Len(x.results) = Len(ActionsOf[w]) /\ \A k \in 1 .. Len(x.results) : x.results[k]

ResultsKnown(e) ==
  /\ eventJob[e] = "acting" => InBounds(running[e], results[e])
  /\ \A w \in Workflows : \A i \in 1 .. Len(executions[e][w]) : Recorded(w, executions[e][w][i])

EventInv(e) == TriesLeft(e) /\ LoopKnows(e) /\ ResultsKnown(e)

AutomationInv == U!TypeOK /\ \A e \in Events : EventInv(e)

-----------------------------------------------------------------------------

LEMMA AutomationConstants ==
  /\ ActionsOf \in [Workflows -> Seq(BOOLEAN)] /\ NoWorkflow \notin Workflows
  /\ EventAttempts \in Nat /\ EventAttempts > 0
  BY DealsAssumption DEF U!AutomationAssumption

LEMMA AutomationInit == U!Init => AutomationInv
<1> SUFFICES ASSUME U!Init PROVE AutomationInv
  OBVIOUS
<1>1. U!TypeOK
  BY AutomationConstants DEF U!Init, U!TypeOK, U!Active
<1>2. ASSUME NEW e \in Events PROVE EventInv(e)
  BY AutomationConstants
  DEF U!Init, EventInv, TriesLeft, LoopKnows, ResultsKnown, U!Active
<1> QED
  BY <1>1, <1>2 DEF AutomationInv

\* What is known of an event stays so while it is not its turn.
EventKept(e) ==
  /\ eventJob'[e] = eventJob[e] /\ eventTries'[e] = eventTries[e]
  /\ found'[e] = found[e] /\ todo'[e] = todo[e] /\ running'[e] = running[e]
  /\ results'[e] = results[e] /\ executions'[e] = executions[e]

LEMMA OthersKept ==
  ASSUME NEW e \in Events, EventInv(e), EventKept(e), stored' \subseteq stored
  PROVE  EventInv(e)'
  BY DEF EventInv, EventKept, TriesLeft, LoopKnows, HasEnded, OfThisAttempt, ResultsKnown,
         Recorded, InBounds, U!Active

\* An attempt that fails is counted.
LEMMA RetryCounts ==
  ASSUME U!TypeOK, NEW e \in Events, EventInv(e), eventJob[e] \notin {"completed", "failed"},
         U!Retry(e)
  PROVE  /\ eventTries' \in [Events -> 0 .. EventAttempts]
         /\ eventJob' \in [Events -> {"none", "queued", "completed", "failed"} \cup U!Active]
         /\ eventJob'[e] \in {"queued", "failed"}
         /\ eventJob'[e] # "failed" => eventTries'[e] < EventAttempts
         /\ \A o \in Events \ {e} : eventTries'[o] = eventTries[o] /\ eventJob'[o] = eventJob[o]
<1>1. eventTries[e] \in Nat /\ eventTries[e] + 1 <= EventAttempts /\ EventAttempts \in Nat
  BY AutomationConstants DEF EventInv, TriesLeft, U!TypeOK
<1>2. eventTries' = [eventTries EXCEPT ![e] = eventTries[e] + 1]
  BY DEF U!Retry
<1>3. /\ eventTries' \in [Events -> 0 .. EventAttempts] /\ eventTries'[e] = eventTries[e] + 1
      /\ \A o \in Events \ {e} : eventTries'[o] = eventTries[o]
  BY <1>1, <1>2 DEF U!TypeOK
<1>4. /\ eventJob' \in [Events -> {"none", "queued", "completed", "failed"} \cup U!Active]
      /\ eventJob'[e] = (IF eventTries[e] + 1 < EventAttempts THEN "queued" ELSE "failed")
      /\ \A o \in Events \ {e} : eventJob'[o] = eventJob[o]
  BY DEF U!Retry, U!TypeOK
<1> QED
  BY <1>1, <1>3, <1>4

\* The record of an execution is written over the last one of its workflow.
LEMMA SetExecutionWrites ==
  ASSUME U!TypeOK, NEW e \in Events, running[e] \in Workflows, OfThisAttempt(e, running[e]),
         NEW status \in {"SKIPPED", "SUCCESS", "FAILED"}, NEW list \in Seq(BOOLEAN),
         U!SetExecution(e, status, list)
  PROVE  LET w == running[e]
             n == Len(executions[e][w]) IN
         /\ n \in Nat /\ n > 0
         /\ executions' \in [Events -> [Workflows -> Seq(U!Execution)]]
         /\ \A o \in Events \ {e} : executions'[o] = executions[o]
         /\ \A v \in Workflows \ {w} : executions'[e][v] = executions[e][v]
         /\ Len(executions'[e][w]) = n
         /\ \A i \in 1 .. n : i # n => executions'[e][w][i] = executions[e][w][i]
         /\ executions'[e][w][n].attempt = eventTries[e] + 1
         /\ executions'[e][w][n].status = status
         /\ executions'[e][w][n].results = list
<1> DEFINE w == running[e]
           s == executions[e][w]
           n == Len(s)
           x == [s[n] EXCEPT !.status = status, !.results = list]
           t == [s EXCEPT ![n] = x]
<1>1. s \in Seq(U!Execution) /\ n \in Nat /\ n > 0 /\ s[n] \in U!Execution
      /\ s[n].attempt = eventTries[e] + 1
  BY DEF U!TypeOK, OfThisAttempt, U!LastOf
<1>2. x \in U!Execution /\ x.attempt = eventTries[e] + 1 /\ x.status = status /\ x.results = list
  BY <1>1 DEF U!Execution
<1>3. /\ t \in Seq(U!Execution) /\ Len(t) = n /\ t[n] = x
      /\ \A i \in 1 .. n : i # n => t[i] = s[i]
  <2> HIDE DEF s, x
  <2> QED
    BY <1>1, <1>2
<1>4. executions' = [executions EXCEPT ![e] = [@ EXCEPT ![w] = t]]
  BY DEF U!SetExecution
<1>5. executions \in [Events -> [Workflows -> Seq(U!Execution)]] /\ w \in Workflows
  BY DEF U!TypeOK
<1>6. /\ executions' \in [Events -> [Workflows -> Seq(U!Execution)]]
      /\ executions'[e][w] = t
      /\ \A o \in Events \ {e} : executions'[o] = executions[o]
      /\ \A v \in Workflows \ {w} : executions'[e][v] = executions[e][v]
  <2> HIDE DEF t, w
  <2> QED
    BY <1>3, <1>4, <1>5
<1> QED
  BY <1>1, <1>2, <1>3, <1>6

\* A step within the loop of an event leaves the records of what is behind it.
LEMMA EndedKept ==
  ASSUME NEW e \in Events, NEW w \in Workflows, HasEnded(e, w),
         executions'[e][w] = executions[e][w], eventTries'[e] = eventTries[e]
  PROVE  HasEnded(e, w)'
  BY DEF HasEnded

-----------------------------------------------------------------------------
\* Toggling and deleting workflows.
LEMMA WorkflowStep ==
  ASSUME AutomationInv, NEW w \in Workflows, U!ToggleActive(w) \/ U!Delete(w)
  PROVE  AutomationInv'
<1> USE DEF AutomationInv
<1>1. CASE U!ToggleActive(w)
  <2>1. U!TypeOK'
    BY <1>1 DEF U!ToggleActive, U!loopVars, U!TypeOK
  <2> QED
    BY <1>1, <2>1, OthersKept DEF U!ToggleActive, U!loopVars, EventKept
<1>2. CASE U!Delete(w)
  <2>1. /\ executions' \in [Events -> [Workflows -> Seq(U!Execution)]]
        /\ \A e \in Events : executions'[e][w] = <<>>
        /\ \A e \in Events, v \in Workflows \ {w} : executions'[e][v] = executions[e][v]
    BY <1>2 DEF U!Delete, U!TypeOK
  <2>2. U!TypeOK'
    BY <1>2, <2>1 DEF U!Delete, U!loopVars, U!TypeOK
  <2>3. ASSUME NEW e \in Events PROVE EventInv(e)'
    <3>1. TriesLeft(e)'
      BY <1>2 DEF U!Delete, U!loopVars, EventInv, TriesLeft
    <3>2. UNCHANGED <<eventJob, eventTries, found, todo, running, results>> /\ w \notin stored'
          /\ stored' \subseteq stored
      BY <1>2 DEF U!Delete, U!loopVars
    <3>3. stored \subseteq Workflows
      BY DEF U!TypeOK
    <3>4. LoopKnows(e)'
      <4>1. \A v \in stored' : HasEnded(e, v)' <=> HasEnded(e, v)
        BY <2>1, <3>2, <3>3 DEF HasEnded
      <4>2. \A v \in stored' : OfThisAttempt(e, v)' <=> OfThisAttempt(e, v)
        BY <2>1, <3>2, <3>3 DEF OfThisAttempt
      <4>3. \A v \in stored' : executions'[e][v] = executions[e][v]
        BY <2>1, <3>2, <3>3
      <4> QED
        BY <3>2, <4>1, <4>2, <4>3 DEF EventInv, LoopKnows
    <3>5. ResultsKnown(e)'
      <4>1. ASSUME NEW v \in Workflows, NEW i \in 1 .. Len(executions'[e][v])
            PROVE  Recorded(v, executions'[e][v][i])
        <5>1. v # w
          BY <2>1
        <5> QED
          BY <2>1, <5>1 DEF EventInv, ResultsKnown
      <4> QED
        BY <3>2, <4>1 DEF EventInv, ResultsKnown, Recorded, InBounds
    <3> QED
      BY <3>1, <3>4, <3>5 DEF EventInv
  <2> QED
    BY <2>2, <2>3
<1> QED
  BY <1>1, <1>2

\* The steps that write no record.
LEMMA UnrecordedStep ==
  ASSUME AutomationInv, NEW e \in Events,
         \/ U!Trigger(e) \/ U!FindWorkflows(e) \/ U!Throws(e) \/ U!Complete(e) \/ U!Fault(e)
  PROVE  AutomationInv'
<1> USE DEF AutomationInv
<1>0. EventInv(e)
  OBVIOUS
<1>1. CASE U!Trigger(e)
  <2>1. U!TypeOK'
    BY <1>1 DEF U!Trigger, U!Goes, U!loopVars, U!TypeOK
  <2>2. EventInv(e)'
    BY <1>0, <1>1 DEF U!Trigger, U!Goes, U!loopVars, U!TypeOK, EventInv, TriesLeft, LoopKnows,
                ResultsKnown, Recorded, InBounds, U!Active
  <2> QED
    BY <1>1, <2>1, <2>2, OthersKept DEF U!Trigger, U!Goes, U!loopVars, U!TypeOK, EventKept
<1>2. CASE U!FindWorkflows(e)
  <2>1. U!TypeOK'
    BY <1>2 DEF U!FindWorkflows, U!Goes, U!TypeOK, U!Active
  <2>2. EventInv(e)'
    <3>1. /\ eventJob[e] = "queued" /\ eventJob'[e] = "next" /\ found'[e] = todo'[e]
          /\ UNCHANGED <<stored, eventTries, executions>>
      BY <1>2 DEF U!FindWorkflows, U!Goes, U!TypeOK
    <3>2. LoopKnows(e)'
      BY <3>1 DEF LoopKnows, U!Active
    <3>3. ResultsKnown(e)'
      BY <1>0, <3>1 DEF EventInv, ResultsKnown, Recorded, InBounds
    <3> QED
      BY <1>0, <3>1, <3>2, <3>3 DEF EventInv, TriesLeft
  <2> QED
    <3>1. stored' = stored /\ \A o \in Events \ {e} : EventKept(o)
      BY <1>2 DEF U!FindWorkflows, U!Goes, U!TypeOK, EventKept
    <3> QED
      BY <2>1, <2>2, <3>1, OthersKept
<1>3. CASE U!Throws(e)
  <2>1. U!TypeOK'
    BY <1>3 DEF U!Throws, U!Goes, U!loopVars, U!TypeOK, U!Active
  <2>2. EventInv(e)'
    <3>1. \A w : HasEnded(e, w)' <=> HasEnded(e, w)
      BY <1>3 DEF U!Throws, U!Goes, U!loopVars, HasEnded
    <3>2. eventJob'[e] = "catching" /\ eventJob[e] \in {"skipping", "counting", "acting"}
          /\ UNCHANGED <<stored, eventTries, found, todo, running, results, executions>>
      BY <1>3 DEF U!Throws, U!Goes, U!loopVars, U!TypeOK
    <3>3. LoopKnows(e)'
      <4>1. eventJob[e] \in U!Active \ {"next"}
        BY <3>2 DEF U!Active
      <4> QED
        BY <1>0, <3>1, <3>2, <4>1 DEF EventInv, LoopKnows, OfThisAttempt
    <3>4. ResultsKnown(e)'
      BY <1>0, <3>1, <3>2 DEF EventInv, ResultsKnown
    <3> QED
      BY <1>0, <3>2, <3>3, <3>4 DEF EventInv, TriesLeft, Recorded, InBounds, U!Active
  <2> QED
    <3>1. stored' = stored /\ \A o \in Events \ {e} : EventKept(o)
      BY <1>3 DEF U!Throws, U!Goes, U!loopVars, U!TypeOK, EventKept
    <3> QED
      BY <2>1, <2>2, <3>1, OthersKept
<1>4. CASE U!Complete(e)
  <2>1. U!TypeOK'
    BY <1>4 DEF U!Complete, U!Goes, U!loopVars, U!TypeOK
  <2>2. EventInv(e)'
    <3>1. \A w : HasEnded(e, w)' <=> HasEnded(e, w)
      BY <1>4 DEF U!Complete, U!Goes, U!loopVars, HasEnded
    <3>2. eventJob'[e] = "completed" /\ eventJob[e] = "next" /\ todo[e] = {}
          /\ UNCHANGED <<stored, eventTries, found, todo, running, results, executions>>
      BY <1>4 DEF U!Complete, U!Goes, U!loopVars, U!TypeOK
    <3> QED
      BY <1>0, <3>1, <3>2 DEF EventInv, TriesLeft, LoopKnows, ResultsKnown, Recorded, InBounds, U!Active
  <2> QED
    BY <1>4, <2>1, <2>2, OthersKept DEF U!Complete, U!Goes, U!loopVars, U!TypeOK, EventKept
<1>5. CASE U!Fault(e)
  <2>1. UNCHANGED <<stored, isActive, found, todo, running, results, executions>> /\ U!Retry(e)
        /\ eventJob[e] \notin {"completed", "failed"}
    BY <1>5 DEF U!Fault, U!loopVars, U!Active
  <2>2. /\ eventTries' \in [Events -> 0 .. EventAttempts]
        /\ eventJob' \in [Events -> {"none", "queued", "completed", "failed"} \cup U!Active]
        /\ eventJob'[e] \in {"queued", "failed"}
        /\ eventJob'[e] # "failed" => eventTries'[e] < EventAttempts
        /\ \A o \in Events \ {e} : eventTries'[o] = eventTries[o] /\ eventJob'[o] = eventJob[o]
    BY <1>0, <2>1, RetryCounts
  <2>3. U!TypeOK'
    BY <2>1, <2>2 DEF U!TypeOK
  <2>4. EventInv(e)'
    BY <1>0, <2>1, <2>2 DEF EventInv, TriesLeft, LoopKnows, ResultsKnown, Recorded, InBounds, U!Active
  <2> QED
    BY <2>1, <2>2, <2>3, <2>4, OthersKept DEF EventKept
<1> QED
  BY <1>1, <1>2, <1>3, <1>4, <1>5

\* The loop goes on once the execution it is at has ended.
LEMMA CountedStep ==
  ASSUME AutomationInv, NEW e \in Events, U!CountRun(e) \/ U!CountError(e)
  PROVE  AutomationInv'
<1> USE DEF AutomationInv
<1>1. /\ eventJob[e] \in {"counting", "blaming"} /\ running[e] \in stored /\ U!NextWorkflow(e)
      /\ UNCHANGED <<stored, isActive, executions>>
  BY DEF U!CountRun, U!CountError
<1>2. U!TypeOK'
  BY <1>1 DEF U!NextWorkflow, U!Goes, U!TypeOK, U!Active
<1>3. /\ todo'[e] = todo[e] \ {running[e]} /\ eventJob'[e] = "next"
      /\ UNCHANGED <<eventTries, found, running, results>>
  BY <1>1 DEF U!NextWorkflow, U!Goes, U!TypeOK
<1>4. HasEnded(e, running[e])
  <2>1. executions[e][running[e]] \in Seq(U!Execution)
    BY <1>1 DEF U!TypeOK
  <2>2. Len(executions[e][running[e]]) \in 1 .. Len(executions[e][running[e]])
    BY <1>1, <2>1 DEF EventInv, LoopKnows, OfThisAttempt, U!Active
  <2> QED
    BY <1>1, <2>2 DEF EventInv, LoopKnows, OfThisAttempt, HasEnded, U!Active, U!LastOf
<1>5. EventInv(e)'
  <2>1. TriesLeft(e)' /\ ResultsKnown(e)'
    BY <1>1, <1>3 DEF EventInv, TriesLeft, ResultsKnown, Recorded, InBounds
  <2>2. \A w : HasEnded(e, w)' <=> HasEnded(e, w)
    BY <1>1, <1>3 DEF HasEnded
  <2>3. LoopKnows(e)'
    BY <1>1, <1>3, <1>4, <2>2 DEF EventInv, LoopKnows, U!Active
  <2> QED
    BY <2>1, <2>3 DEF EventInv
<1> QED
  BY <1>1, <1>2, <1>3, <1>5, OthersKept DEF EventKept, U!NextWorkflow, U!Goes, U!TypeOK

\* An action is executed when none before it has stopped the workflow.
LEMMA ActionStep ==
  ASSUME AutomationInv, NEW e \in Events, U!ExecuteAction(e) PROVE AutomationInv'
<1> USE DEF AutomationInv
<1> DEFINE w == running[e]
           s == results[e]
<1>1. PICK success \in BOOLEAN : results' = [results EXCEPT ![e] = Append(s, success)]
  BY DEF U!ExecuteAction
<1>2. /\ UNCHANGED <<stored, isActive, eventJob, eventTries, found, todo, running, executions>>
      /\ eventJob[e] = "acting" /\ Len(s) < Len(ActionsOf[w]) /\ ~U!Stopped(e)
  BY DEF U!ExecuteAction, U!ActionsLeft
<1>3. /\ s \in Seq(BOOLEAN) /\ Len(s) \in Nat /\ w \in Workflows
      /\ InBounds(w, s) /\ ActionsOf[w] \in Seq(BOOLEAN) /\ Len(ActionsOf[w]) \in Nat
  <2>1. w \in Workflows
    BY <1>2 DEF EventInv, LoopKnows, U!TypeOK, U!Active
  <2> QED
    BY <1>2, <2>1, AutomationConstants DEF EventInv, ResultsKnown, U!TypeOK
<1>4. Append(s, success) \in Seq(BOOLEAN) /\ results'[e] = Append(s, success)
  BY <1>1, <1>3 DEF U!TypeOK
<1>5. U!TypeOK'
  BY <1>1, <1>2, <1>4 DEF U!TypeOK
<1>6. InBounds(w, Append(s, success))
  <2>1. Len(s) > 0 => s[Len(s)] \/ ~ActionsOf[w][Len(s)]
    BY <1>2 DEF U!Stopped
  <2> HIDE DEF s, w
  <2> QED
    BY <1>2, <1>3, <2>1 DEF InBounds
<1>7. EventInv(e)'
  <2>1. TriesLeft(e)' /\ LoopKnows(e)'
    BY <1>2 DEF EventInv, TriesLeft, LoopKnows, HasEnded, OfThisAttempt
  <2>2. ResultsKnown(e)'
    <3>1. \A v : \A x : Recorded(v, x)' <=> Recorded(v, x)
      BY DEF Recorded, InBounds
    <3>2. InBounds(running'[e], results'[e])
      BY <1>2, <1>4, <1>6
    <3>3. InBounds(running'[e], results'[e]) => InBounds(running[e], results[e])'
      BY DEF InBounds
    <3>4. \A v \in Workflows : \A i \in 1 .. Len(executions[e][v]) : Recorded(v, executions[e][v][i])
      BY DEF EventInv, ResultsKnown
    <3> QED
      BY <1>2, <3>1, <3>2, <3>3, <3>4 DEF ResultsKnown
  <2> QED
    BY <2>1, <2>2 DEF EventInv
<1>8. stored' = stored /\ \A o \in Events \ {e} : EventKept(o)
  BY <1>1, <1>2 DEF EventKept, U!TypeOK
<1> QED
  BY <1>5, <1>7, <1>8, OthersKept

-----------------------------------------------------------------------------

\* What a record that is written over leaves known: what had ended still has, and the
\* record itself is of the attempt that is running.
LEMMA RecordKeeps ==
  ASSUME AutomationInv, NEW e \in Events,
         eventJob[e] \in U!Active \ {"next"}, running[e] \in stored,
         NEW status \in {"SKIPPED", "SUCCESS", "FAILED"}, NEW list \in Seq(BOOLEAN),
         U!SetExecution(e, status, list), UNCHANGED eventTries,
         InBounds(running[e], list),
         status = "SUCCESS" => /\ Len(list) = Len(ActionsOf[running[e]])
                               /\ \A k \in 1 .. Len(list) : list[k]
  PROVE  /\ executions' \in [Events -> [Workflows -> Seq(U!Execution)]]
         /\ \A o \in Events \ {e} : executions'[o] = executions[o]
         /\ \A v \in Workflows : HasEnded(e, v) => HasEnded(e, v)'
         /\ Len(executions'[e][running[e]]) > 0
         /\ U!LastOf(executions'[e][running[e]]).attempt = eventTries'[e] + 1
         /\ U!LastOf(executions'[e][running[e]]).status # "RUNNING"
         /\ \E i \in 1 .. Len(executions'[e][running[e]]) :
              /\ executions'[e][running[e]][i].attempt = eventTries'[e] + 1
              /\ executions'[e][running[e]][i].status # "RUNNING"
         /\ \A v \in Workflows : \A i \in 1 .. Len(executions'[e][v]) :
              Recorded(v, executions'[e][v][i])
<1> DEFINE w == running[e]
           n == Len(executions[e][w])
<1>1. EventInv(e) /\ U!TypeOK /\ w \in Workflows /\ OfThisAttempt(e, w)
  BY DEF AutomationInv, EventInv, LoopKnows, U!TypeOK
<1>2. /\ n \in Nat /\ n > 0
      /\ executions' \in [Events -> [Workflows -> Seq(U!Execution)]]
      /\ \A o \in Events \ {e} : executions'[o] = executions[o]
      /\ \A v \in Workflows \ {w} : executions'[e][v] = executions[e][v]
      /\ Len(executions'[e][w]) = n
      /\ \A i \in 1 .. n : i # n => executions'[e][w][i] = executions[e][w][i]
      /\ executions'[e][w][n].attempt = eventTries[e] + 1
      /\ executions'[e][w][n].status = status
      /\ executions'[e][w][n].results = list
  BY <1>1, SetExecutionWrites
<1>3. n \in 1 .. n
  BY <1>2
<1> HIDE DEF n
<1>4. \A v \in Workflows : HasEnded(e, v) => HasEnded(e, v)'
  <2> SUFFICES ASSUME NEW v \in Workflows, HasEnded(e, v) PROVE HasEnded(e, v)'
    OBVIOUS
  <2>1. CASE v # w
    BY <1>2, <2>1 DEF HasEnded
  <2>2. CASE v = w
    BY <1>2, <1>3, <2>2 DEF HasEnded
  <2> QED
    BY <2>1, <2>2
<1>5. \A v \in Workflows : \A i \in 1 .. Len(executions'[e][v]) : Recorded(v, executions'[e][v][i])
  <2> SUFFICES ASSUME NEW v \in Workflows, NEW i \in 1 .. Len(executions'[e][v])
               PROVE  Recorded(v, executions'[e][v][i])
    OBVIOUS
  <2>1. CASE v # w
    BY <1>1, <1>2, <2>1 DEF EventInv, ResultsKnown
  <2>2. CASE v = w /\ i # n
    BY <1>1, <1>2, <2>2 DEF EventInv, ResultsKnown, n
  <2>3. CASE v = w /\ i = n
    BY <1>2, <2>3 DEF Recorded
  <2> QED
    BY <2>1, <2>2, <2>3
<1> QED
  BY <1>2, <1>3, <1>4, <1>5 DEF U!LastOf

\* A workflow whose turn it is gets an execution of the attempt that is running.
LEMMA StartStep ==
  ASSUME AutomationInv, NEW e \in Events, NEW w \in Workflows, U!StartExecution(e, w)
  PROVE  AutomationInv'
<1> DEFINE s == executions[e][w]
           x == [attempt |-> eventTries[e] + 1, status |-> "RUNNING", results |-> <<>>]
           t == Append(s, x)
<1>1. EventInv(e) /\ U!TypeOK /\ s \in Seq(U!Execution)
  BY DEF AutomationInv, U!TypeOK
<1>2. /\ eventJob[e] = "next" /\ w \in todo[e] \cap stored
      /\ running' = [running EXCEPT ![e] = w] /\ results' = [results EXCEPT ![e] = <<>>]
      /\ executions' = [executions EXCEPT ![e] = [@ EXCEPT ![w] = t]]
      /\ UNCHANGED <<stored, isActive, eventTries, found, todo>>
  BY DEF U!StartExecution, U!Goes
<1>3. PICK next \in {"acting", "skipping"} : eventJob' = [eventJob EXCEPT ![e] = next]
  BY DEF U!StartExecution, U!Goes
<1>4. x \in U!Execution
  BY <1>1, <1>2, AutomationConstants DEF EventInv, TriesLeft, U!TypeOK, U!Execution
<1>5. /\ t \in Seq(U!Execution) /\ Len(t) = Len(s) + 1 /\ Len(s) \in Nat
      /\ t[Len(t)] = x /\ \A i \in 1 .. Len(s) : t[i] = s[i]
  <2> HIDE DEF s, x
  <2> QED
    BY <1>1, <1>4
<1>6. /\ executions' \in [Events -> [Workflows -> Seq(U!Execution)]]
      /\ executions'[e][w] = t
      /\ \A o \in Events \ {e} : executions'[o] = executions[o]
      /\ \A v \in Workflows \ {w} : executions'[e][v] = executions[e][v]
  <2> HIDE DEF t
  <2> QED
    BY <1>1, <1>2, <1>5 DEF U!TypeOK
<1>7. x.attempt = eventTries[e] + 1 /\ x.status = "RUNNING" /\ x.results = <<>>
  OBVIOUS
<1> HIDE DEF t, x
<1>8. U!TypeOK'
  BY <1>1, <1>2, <1>3, <1>6 DEF U!TypeOK, U!Active
<1>9. EventInv(e)'
  <2>1. TriesLeft(e)'
    BY <1>1, <1>2, <1>3 DEF EventInv, TriesLeft, U!TypeOK
  <2>2. \A v \in Workflows : HasEnded(e, v) => HasEnded(e, v)'
    <3> SUFFICES ASSUME NEW v \in Workflows, HasEnded(e, v) PROVE HasEnded(e, v)'
      OBVIOUS
    <3>1. CASE v # w
      BY <1>2, <1>6, <3>1 DEF HasEnded
    <3>2. CASE v = w
      BY <1>2, <1>5, <1>6, <3>2 DEF HasEnded
    <3> QED
      BY <3>1, <3>2
  <2>3. /\ running'[e] = w /\ results'[e] = <<>> /\ eventJob'[e] = next
    BY <1>1, <1>2, <1>3 DEF U!TypeOK
  <2>4. OfThisAttempt(e, w)'
    BY <1>2, <1>5, <1>6, <1>7 DEF OfThisAttempt, U!LastOf
  <2>5. LoopKnows(e)'
    BY <1>1, <1>2, <2>2, <2>3, <2>4 DEF EventInv, LoopKnows, OfThisAttempt, U!TypeOK, U!Active
  <2>6. InBounds(w, <<>>)
    BY AutomationConstants DEF InBounds
  <2>7. \A v \in Workflows : \A i \in 1 .. Len(executions'[e][v]) :
          Recorded(v, executions'[e][v][i])
    <3> SUFFICES ASSUME NEW v \in Workflows, NEW i \in 1 .. Len(executions'[e][v])
                 PROVE  Recorded(v, executions'[e][v][i])
      OBVIOUS
    <3>1. CASE v # w
      BY <1>1, <1>6, <3>1 DEF EventInv, ResultsKnown
    <3>2. CASE v = w /\ i # Len(t)
      BY <1>1, <1>5, <1>6, <3>2 DEF EventInv, ResultsKnown
    <3>3. CASE v = w /\ i = Len(t)
      BY <1>5, <1>6, <1>7, <2>6, <3>3 DEF Recorded
    <3> QED
      BY <3>1, <3>2, <3>3
  <2>8. ResultsKnown(e)'
    BY <2>3, <2>6, <2>7 DEF ResultsKnown, Recorded, InBounds
  <2> QED
    BY <2>1, <2>5, <2>8 DEF EventInv
<1>10. \A o \in Events \ {e} : EventKept(o)
  BY <1>1, <1>2, <1>3, <1>6 DEF EventKept, U!TypeOK
<1> QED
  BY <1>2, <1>8, <1>9, <1>10, OthersKept DEF AutomationInv

\* A workflow whose conditions do not hold is skipped.
LEMMA SkipStep == ASSUME AutomationInv, NEW e \in Events, U!Skip(e) PROVE AutomationInv'
<1>1. /\ eventJob[e] = "skipping" /\ running[e] \in stored /\ U!SetExecution(e, "SKIPPED", <<>>)
      /\ todo' = [todo EXCEPT ![e] = @ \ {running[e]}]
      /\ eventJob' = [eventJob EXCEPT ![e] = "next"]
      /\ UNCHANGED <<stored, isActive, eventTries, found, running, results>>
  BY DEF U!Skip, U!SetExecution, U!NextWorkflow, U!Goes
<1>2. EventInv(e) /\ U!TypeOK
  BY DEF AutomationInv
<1>3. running[e] \in Workflows /\ InBounds(running[e], <<>>) /\ <<>> \in Seq(BOOLEAN)
  BY <1>1, <1>2, AutomationConstants DEF U!TypeOK, InBounds
<1>4. /\ executions' \in [Events -> [Workflows -> Seq(U!Execution)]]
      /\ \A o \in Events \ {e} : executions'[o] = executions[o]
      /\ \A v \in Workflows : HasEnded(e, v) => HasEnded(e, v)'
      /\ \E i \in 1 .. Len(executions'[e][running[e]]) :
           /\ executions'[e][running[e]][i].attempt = eventTries'[e] + 1
           /\ executions'[e][running[e]][i].status # "RUNNING"
      /\ \A v \in Workflows : \A i \in 1 .. Len(executions'[e][v]) :
           Recorded(v, executions'[e][v][i])
  BY <1>1, <1>3, RecordKeeps DEF U!Active
<1>5. U!TypeOK'
  BY <1>1, <1>2, <1>4 DEF U!TypeOK, U!Active
<1>6. eventJob'[e] = "next" /\ todo'[e] = todo[e] \ {running[e]}
  BY <1>1, <1>2 DEF U!TypeOK
<1>7. EventInv(e)'
  <2>1. TriesLeft(e)' /\ ResultsKnown(e)'
    BY <1>1, <1>2, <1>4, <1>6 DEF EventInv, TriesLeft, ResultsKnown, Recorded, InBounds
  <2>2. stored \subseteq Workflows
    BY <1>2 DEF U!TypeOK
  <2>3. \A v \in (found'[e] \ todo'[e]) \cap stored' : HasEnded(e, v)'
    <3> SUFFICES ASSUME NEW v \in (found'[e] \ todo'[e]) \cap stored' PROVE HasEnded(e, v)'
      OBVIOUS
    <3>1. CASE v = running[e]
      BY <1>4, <3>1 DEF HasEnded
    <3>2. CASE v # running[e]
      BY <1>1, <1>2, <1>4, <1>6, <2>2, <3>2 DEF EventInv, LoopKnows, U!Active
    <3> QED
      BY <3>1, <3>2
  <2>4. LoopKnows(e)'
    BY <1>1, <1>2, <1>6, <2>3 DEF EventInv, LoopKnows, U!Active
  <2> QED
    BY <2>1, <2>4 DEF EventInv
<1>8. \A o \in Events \ {e} : EventKept(o)
  BY <1>1, <1>2, <1>4 DEF EventKept, U!TypeOK
<1> QED
  BY <1>1, <1>5, <1>7, <1>8, OthersKept DEF AutomationInv

\* The outcome is recorded when no action is left, an error whenever there is one.
LEMMA RecordStep ==
  ASSUME AutomationInv, NEW e \in Events, U!RecordResults(e) \/ U!RecordError(e)
  PROVE  AutomationInv'
<1>1. /\ eventJob[e] \in {"acting", "catching"} /\ running[e] \in stored
      /\ UNCHANGED <<stored, isActive, eventTries, found, todo, running, results>>
  BY DEF U!RecordResults, U!RecordError, U!SetExecution, U!Goes, U!loopVars
<1>2. EventInv(e) /\ U!TypeOK /\ running[e] \in Workflows
  BY <1>1 DEF AutomationInv, U!TypeOK
<1>3. PICK next \in {"counting", "blaming"} : eventJob' = [eventJob EXCEPT ![e] = next]
  BY DEF U!RecordResults, U!RecordError, U!Goes
<1> DEFINE w == running[e]
<1>4. \E status \in {"SUCCESS", "FAILED"}, list \in Seq(BOOLEAN) :
        /\ U!SetExecution(e, status, list) /\ InBounds(w, list)
        /\ status = "SUCCESS" =>
             Len(list) = Len(ActionsOf[w]) /\ \A k \in 1 .. Len(list) : list[k]
  <2>1. CASE U!RecordResults(e)
    <3>1. /\ U!SetExecution(e, U!Outcome(results[e]), results[e])
          /\ results[e] \in Seq(BOOLEAN) /\ InBounds(w, results[e]) /\ ~U!ActionsLeft(e)
      BY <1>2, <2>1 DEF U!RecordResults, U!TypeOK, EventInv, ResultsKnown
    <3>2. U!Outcome(results[e]) \in {"SUCCESS", "FAILED"}
      BY DEF U!Outcome
    <3>3. ASSUME U!Outcome(results[e]) = "SUCCESS"
          PROVE  Len(results[e]) = Len(ActionsOf[w]) /\ \A k \in 1 .. Len(results[e]) : results[e][k]
      <4>1. \A k \in 1 .. Len(results[e]) : results[e][k]
        BY <3>3 DEF U!Outcome
      <4>2. Len(results[e]) \in Nat /\ Len(ActionsOf[w]) \in Nat
            /\ Len(results[e]) <= Len(ActionsOf[w])
        BY <1>2, <3>1, AutomationConstants DEF InBounds
      <4>3. ~U!Stopped(e)
        BY <4>1, <4>2 DEF U!Stopped
      <4> QED
        BY <3>1, <4>1, <4>2, <4>3 DEF U!ActionsLeft
    <3> QED
      BY <3>1, <3>2, <3>3
  <2>2. CASE U!RecordError(e)
    <3> DEFINE n == Len(executions[e][w])
               list == executions[e][w][n].results
    <3>1. U!SetExecution(e, "FAILED", list)
      BY <2>2 DEF U!RecordError, U!LastOf
    <3>2. n \in 1 .. n /\ executions[e][w] \in Seq(U!Execution)
      <4>1. executions[e][w] \in Seq(U!Execution)
        BY <1>2 DEF U!TypeOK
      <4>2. n > 0
        BY <1>1, <1>2, <2>2 DEF EventInv, LoopKnows, OfThisAttempt, U!Active, U!RecordError
      <4> QED
        BY <4>1, <4>2
    <3>3. list \in Seq(BOOLEAN)
      <4>1. executions[e][w][n] \in U!Execution
        BY <3>2
      <4> QED
        BY <4>1 DEF U!Execution
    <3>4. InBounds(w, list)
      BY <1>2, <3>2 DEF EventInv, ResultsKnown, Recorded
    <3> HIDE DEF list
    <3> QED
      BY <3>1, <3>3, <3>4
  <2> QED
    BY <2>1, <2>2
<1>5. PICK status \in {"SUCCESS", "FAILED"}, list \in Seq(BOOLEAN) :
        /\ U!SetExecution(e, status, list) /\ InBounds(w, list)
        /\ status = "SUCCESS" =>
             Len(list) = Len(ActionsOf[w]) /\ \A k \in 1 .. Len(list) : list[k]
  BY <1>4
<1>6. /\ executions' \in [Events -> [Workflows -> Seq(U!Execution)]]
      /\ \A o \in Events \ {e} : executions'[o] = executions[o]
      /\ \A v \in Workflows : HasEnded(e, v) => HasEnded(e, v)'
      /\ Len(executions'[e][w]) > 0
      /\ U!LastOf(executions'[e][w]).attempt = eventTries'[e] + 1
      /\ U!LastOf(executions'[e][w]).status # "RUNNING"
      /\ \A v \in Workflows : \A i \in 1 .. Len(executions'[e][v]) :
           Recorded(v, executions'[e][v][i])
  BY <1>1, <1>5, RecordKeeps DEF U!Active
<1>7. U!TypeOK'
  BY <1>1, <1>2, <1>3, <1>6 DEF U!TypeOK, U!Active
<1>8. eventJob'[e] = next
  BY <1>2, <1>3 DEF U!TypeOK
<1>9. EventInv(e)'
  <2>1. TriesLeft(e)' /\ ResultsKnown(e)'
    BY <1>1, <1>2, <1>6, <1>8 DEF EventInv, TriesLeft, ResultsKnown, Recorded, InBounds
  <2>2. stored \subseteq Workflows
    BY <1>2 DEF U!TypeOK
  <2>3. OfThisAttempt(e, w)'
    BY <1>1, <1>6 DEF OfThisAttempt
  <2>4. LoopKnows(e)'
    BY <1>1, <1>2, <1>6, <1>8, <2>2, <2>3 DEF EventInv, LoopKnows, OfThisAttempt, U!Active
  <2> QED
    BY <2>1, <2>4 DEF EventInv
<1>10. \A o \in Events \ {e} : EventKept(o)
  BY <1>1, <1>2, <1>3, <1>6 DEF EventKept, U!TypeOK
<1> QED
  BY <1>1, <1>7, <1>9, <1>10, OthersKept DEF AutomationInv

LEMMA AutomationStep == AutomationInv /\ [U!Next]_(U!vars) => AutomationInv'
<1> SUFFICES ASSUME AutomationInv, [U!Next]_(U!vars) PROVE AutomationInv'
  OBVIOUS
<1>1. CASE U!Next
  BY <1>1, WorkflowStep, UnrecordedStep, CountedStep, ActionStep, StartStep, SkipStep, RecordStep
  DEF U!Next, U!JobStep
<1>2. CASE UNCHANGED U!vars
  <2>1. U!TypeOK'
    BY <1>2 DEF U!vars, AutomationInv, U!TypeOK
  <2> QED
    BY <1>2, <2>1, OthersKept DEF U!vars, AutomationInv, EventKept
<1> QED
  BY <1>1, <1>2

-----------------------------------------------------------------------------
\* The inductive invariant of the loop over the workflows.
THEOREM AutomationInvariant == U!Spec => []AutomationInv
  BY AutomationInit, AutomationStep, PTL DEF U!Spec

\* A job that completes has come to an end with each workflow it found.
THEOREM AllWorkflowsRun == U!Spec => []U!EveryWorkflowRuns
<1>1. AutomationInv => U!EveryWorkflowRuns
  BY DEF AutomationInv, EventInv, LoopKnows, HasEnded, U!EveryWorkflowRuns
<1> QED
  BY <1>1, AutomationInvariant, PTL

\* The record of an execution tells what was done.
THEOREM RecordsTellTheRun == U!Spec => []U!ResultsTellTheRun
<1>1. AutomationInv => U!ResultsTellTheRun
  BY DEF AutomationInv, EventInv, ResultsKnown, Recorded, InBounds, U!ResultsTellTheRun
<1> QED
  BY <1>1, AutomationInvariant, PTL

-----------------------------------------------------------------------------

\* A behaviour of Deals is one of each part: the parts that are not at work stutter.
LEMMA DealsPartsInit == DealsInit => Init /\ P!InitAll /\ U!Init
  BY DEF DealsInit

LEMMA DealsPartsStep ==
  [DealsNext]_dealVars => [Next]_vars /\ [P!NextAll]_(P!allVars) /\ [U!Next]_(U!vars)
  BY DEF DealsNext, RegistryPart, ClosingPart, AutomationPart, dealVars, vars, closingVars,
         automationVars, P!allVars, P!vars, P!intentVars, U!vars

\* A behaviour of Deals is one of each of its parts.
THEOREM DealsParts == DealsSpec => Spec /\ P!SpecAll /\ U!Spec
  BY DealsPartsInit, DealsPartsStep, PTL DEF DealsSpec, Spec, P!SpecAll, U!Spec

\* The three parts keep their types.
THEOREM DealsTypeCorrect == DealsSpec => []DealsTypeOK
<1>1. TypeOK /\ ClosingInv /\ AutomationInv => DealsTypeOK
  BY DEF ClosingInv, AutomationInv, DealsTypeOK
<1> QED
  BY <1>1, DealsParts, DealsAlone, RegistryTypeCorrect, ClosingInvariant, AutomationInvariant, PTL

\* A confirmed record is that of the deal on chain, whatever else the deal sets going.
THEOREM DealsConfirmedAreOnChain == DealsSpec => []ConfirmedIsOnChain
  BY DealsParts, ConfirmedAreOnChain, PTL

\* A job of the registry completes only with its deal on chain.
THEOREM DealsCompleteOnChain == DealsSpec => CompletesOnChain
  BY DealsParts, CompletionIsOnChain, PTL

\* Status, order of the queues and payments of a deal that requests move at once.
THEOREM DealsCloseInOrder == DealsSpec => []ClosesInOrder
<1>1. P!LastCloseCounts /\ P!ClosedInOrder /\ P!CollectsForWins => ClosesInOrder
  BY DEF ClosesInOrder
<1> QED
  BY <1>1, DealsParts, DealsAlone, LastCloseAlwaysCounts, ClosesAreOrdered, WinsAreCollected, PTL

\* Every workflow of an event runs, and its record tells how.
THEOREM DealsWorkflowsRun == DealsSpec => []WorkflowsRun
<1>1. U!EveryWorkflowRuns /\ U!ResultsTellTheRun => WorkflowsRun
  BY DEF WorkflowsRun
<1> QED
  BY <1>1, DealsParts, AllWorkflowsRun, RecordsTellTheRun, PTL
=============================================================================
