--------------------------- MODULE WaitBusyProofs ---------------------------
(***************************************************************************)
(* Theorems about WaitBusy: for any number of clients, jobs and messages,  *)
(* any length of the queue and any socket errors, messages are printed in  *)
(* order and once, what nobody sees was lost with a reply or came after    *)
(* the last look into the queue, and ELBE-FINISH does not overtake what    *)
(* was logged before.                                                      *)
(***************************************************************************)
EXTENDS WaitBusy, TLAPS

\* The elements of a sequence of numbers.
LEMMA ToSetIs ==
    ASSUME NEW s \in Seq(Nat)
    PROVE  /\ ToSet(s) = {s[i] : i \in 1..Len(s)}
           /\ \A n \in ToSet(s) : n \in Nat
BY DEF ToSet

\* Append adds one element.
LEMMA ToSetAppend ==
    ASSUME NEW s \in Seq(Nat), NEW m \in Nat
    PROVE  ToSet(Append(s, m)) = ToSet(s) \union {m}
<1>1. /\ Append(s, m) \in Seq(Nat) /\ Len(s) \in Nat
      /\ Len(Append(s, m)) = Len(s) + 1
      /\ \A i \in 1..Len(s) : Append(s, m)[i] = s[i]
      /\ Append(s, m)[Len(s) + 1] = m
  OBVIOUS
<1> DEFINE t == Append(s, m)
<1>2. ToSet(t) = {t[i] : i \in 1..Len(t)}
  BY <1>1, ToSetIs
<1>3. ToSet(s) = {s[i] : i \in 1..Len(s)}
  BY ToSetIs
<1> HIDE DEF t
<1>4. \A i \in 1..Len(t) : i = Len(s) + 1 \/ i \in 1..Len(s)
  BY <1>1 DEF t
<1>5. \A i \in 1..Len(s) : i \in 1..Len(t) /\ t[i] = s[i]
  BY <1>1 DEF t
<1>6. Len(s) + 1 \in 1..Len(t) /\ t[Len(s) + 1] = m
  BY <1>1 DEF t
<1>7. \A n \in ToSet(t) : n \in ToSet(s) \/ n = m
  BY <1>2, <1>3, <1>4, <1>5, <1>6
<1>8. \A n \in ToSet(s) : n \in ToSet(t)
  BY <1>2, <1>3, <1>5
<1>9. m \in ToSet(t)
  BY <1>2, <1>6
<1> QED BY <1>7, <1>8, <1>9 DEF t

\* What clients print are numbers.
LEMMA PrintedNat == ASSUME TypeOK PROVE \A n \in Printed : n \in Nat
<1>1. \A c \in Clients : got[c] \in Seq(Nat)
  BY DEF TypeOK
<1> QED BY <1>1, ToSetIs DEF Printed

\* What waits in the queue was not passed.
LEMMA QueueNotPassed ==
    ASSUME TypeOK, QueueIsLatest
    PROVE  \A m \in ToSet(queue) : m \in Nat /\ m > Passed
<1>1. queue \in Seq(Nat) /\ Len(queue) \in Nat /\ Passed \in Int
  BY DEF TypeOK, Passed
<1>2. ToSet(queue) = {queue[i] : i \in 1..Len(queue)} /\ \A m \in ToSet(queue) : m \in Nat
  BY <1>1, ToSetIs
<1>3. \A i \in 1..Len(queue) : queue[i] > Passed
  BY <1>1 DEF QueueIsLatest
<1> QED BY <1>2, <1>3

\* Nothing was logged or printed at the start.
LEMMA IInvInit == Init => IInv
<1> SUFFICES ASSUME Init PROVE IInv
  OBVIOUS
<1> USE DEF Init
<1>1. TypeOK
  BY DEF TypeOK, Done
<1>2. Printed = {}
  BY DEF Printed, ToSet
<1>3. QueueIsLatest /\ PoppedIsOlder /\ EmptyIsUpToDate /\ PassedIsSeen /\ ToldIsPassed
  BY <1>2, QueueLenAssumption
     DEF QueueIsLatest, PoppedIsOlder, EmptyIsUpToDate, PassedIsSeen, ToldIsPassed, Passed
<1>4. PrintedOnce
  BY DEF PrintedOnce, ToSet
<1> QED BY <1>1, <1>3, <1>4 DEF IInv

\* A step that tells a client no more than was popped.
LEMMA ToldKeeps ==
    ASSUME IInv, TypeOK', Passed' >= Passed, UNCHANGED told
    PROVE  ToldIsPassed'
BY DEF IInv, ToldIsPassed, TypeOK, Passed

\* A step that leaves the messages where they are.
LEMMA StillKeeps ==
    ASSUME IInv, TypeOK', UNCHANGED <<sent, queue, got>>,
           UNCHANGED told \/ ToldIsPassed', lost \subseteq lost',
           \/ UNCHANGED <<msg, serving, logged>>
           \/ msg' = 0 /\ serving' = Nobody /\ (msg \in lost' \/ msg = 0 \/ msg \in Blank)
    PROVE  IInv'
<1> USE DEF IInv
<1>1. Printed' = Printed /\ Passed' = Passed /\ Passed \in Int
  BY DEF Printed, Passed, TypeOK
<1>2. QueueIsLatest' /\ PrintedOnce'
  BY <1>1 DEF QueueIsLatest, PrintedOnce
<1>3. PoppedIsOlder' /\ EmptyIsUpToDate'
  BY <1>1 DEF PoppedIsOlder, EmptyIsUpToDate, QueueIsLatest, TypeOK, Passed
<1>4. PassedIsSeen'
  BY <1>1 DEF PassedIsSeen, TypeOK
<1>5. ToldIsPassed'
  BY <1>1, ToldKeeps
<1> QED BY <1>2, <1>3, <1>4, <1>5

\* A message is logged; the oldest one makes room.
LEMMA EmitKeeps == IInv /\ Emit => IInv'
<1> SUFFICES ASSUME IInv, Emit PROVE IInv'
  OBVIOUS
<1> USE DEF IInv
<1>1. /\ sent' = sent + 1 /\ sent \in Nat /\ queue \in Seq(Nat)
      /\ UNCHANGED <<status, jobs, serving, msg, pc, polls, errors, got, lost, logged, told>>
  BY DEF Emit, TypeOK
<1>2. \/ Len(queue) < QueueLen /\ queue' = Append(queue, sent + 1)
      \/ Len(queue) = QueueLen /\ queue' = Append(Tail(queue), sent + 1)
  BY QueueLenAssumption DEF Emit, Push, QueueIsLatest, TypeOK
<1>3. Printed' = Printed
  BY <1>1 DEF Printed
<1>4. CASE Len(queue) < QueueLen /\ queue' = Append(queue, sent + 1)
  <2>1. queue' \in Seq(Nat) /\ Len(queue') = Len(queue) + 1 /\ Passed' = Passed
    BY <1>1, <1>4 DEF Passed
  <2>2. QueueIsLatest'
    BY <1>1, <1>4, <2>1, QueueLenAssumption DEF QueueIsLatest, Passed
  <2>3. TypeOK'
    BY <1>1, <2>1 DEF TypeOK
  <2>4. PoppedIsOlder' /\ EmptyIsUpToDate' /\ PrintedOnce'
    BY <1>1, <1>3, <2>1 DEF PoppedIsOlder, EmptyIsUpToDate, PrintedOnce
  <2>5. PassedIsSeen'
    BY <1>1, <1>3, <2>1, QueueLenAssumption DEF PassedIsSeen
  <2>6. ToldIsPassed'
    BY <1>1, <2>1, <2>3, ToldKeeps DEF Passed
  <2> QED BY <2>2, <2>3, <2>4, <2>5, <2>6
<1>5. CASE Len(queue) = QueueLen /\ queue' = Append(Tail(queue), sent + 1)
  <2>1. queue # <<>> /\ Len(queue) >= 1
    BY <1>1, <1>5, QueueLenAssumption
  <2>2. /\ queue' \in Seq(Nat) /\ Len(queue') = Len(queue) /\ Passed' = Passed + 1
        /\ Passed \in Int
    BY <1>1, <1>5, <2>1 DEF Passed
  <2>3. \A i \in 1..Len(queue) :
            queue'[i] = IF i = Len(queue) THEN sent + 1 ELSE queue[i + 1]
    BY <1>1, <1>5, <2>1
  <2>4. QueueIsLatest'
    <3>1. Len(queue') <= sent' /\ Len(queue') <= QueueLen
      BY <1>1, <2>2 DEF QueueIsLatest
    <3>2. ASSUME NEW i \in 1..Len(queue) PROVE queue'[i] = Passed + 1 + i
      <4>1. Len(queue) \in Nat /\ i \in Nat /\ sent + 1 = Passed + 1 + Len(queue)
        BY <1>1 DEF Passed
      <4>2. CASE i = Len(queue)
        BY <2>2, <2>3, <4>1, <4>2
      <4>3. CASE i # Len(queue)
        <5>1. i + 1 \in 1..Len(queue)
          BY <4>1, <4>3
        <5>2. queue[i + 1] = Passed + (i + 1)
          BY <5>1 DEF QueueIsLatest
        <5> QED BY <2>2, <2>3, <4>1, <4>3, <5>2
      <4> QED BY <4>2, <4>3
    <3> QED BY <2>2, <3>1, <3>2 DEF QueueIsLatest
  <2>5. TypeOK'
    BY <1>1, <2>2 DEF TypeOK
  <2>6. \A n \in Printed : n \in Nat
    BY PrintedNat
  <2>7. PoppedIsOlder' /\ EmptyIsUpToDate' /\ PrintedOnce'
    BY <1>1, <1>3, <2>2, <2>6 DEF PoppedIsOlder, EmptyIsUpToDate, PrintedOnce, TypeOK
  <2>8. ~(sent' <= QueueLen)
    BY <1>1, <1>5, QueueLenAssumption DEF QueueIsLatest
  <2>9. PassedIsSeen'
    BY <1>1, <2>8, QueueLenAssumption DEF PassedIsSeen
  <2>10. ToldIsPassed'
    BY <1>1, <2>2, <2>5, ToldKeeps
  <2> QED BY <2>4, <2>5, <2>7, <2>9, <2>10
<1> QED BY <1>2, <1>4, <1>5

\* The oldest message leaves the queue for a client.
LEMMA PopKeeps == ASSUME IInv, NEW c \in Clients, Pop(c) PROVE IInv'
<1> USE DEF IInv
<1>1. /\ serving = Nobody /\ serving' = c /\ logged' = sent
      /\ UNCHANGED <<status, jobs, sent, pc, errors, got, lost, told>>
      /\ polls' \in [Clients -> Nat]
  BY RetriesAssumption DEF Pop, CountPoll, workerVars, TypeOK
<1>2. msg = 0 /\ c # Nobody /\ sent \in Nat /\ queue \in Seq(Nat)
  BY <1>1, ClientsAssumption DEF PoppedIsOlder, TypeOK
<1>3. Printed' = Printed
  BY <1>1 DEF Printed
<1>4. \A n \in Printed : n \in Nat
  BY PrintedNat
<1>5. CASE queue = <<>> /\ msg' = 0 /\ UNCHANGED queue
  <2>1. Passed' = Passed /\ Passed = sent
    BY <1>1, <1>2, <1>5 DEF Passed
  <2>2. TypeOK'
    BY <1>1, <1>5 DEF TypeOK
  <2>3. QueueIsLatest' /\ PrintedOnce'
    BY <1>1, <1>5, <2>1 DEF QueueIsLatest, PrintedOnce
  <2>4. PoppedIsOlder' /\ EmptyIsUpToDate' /\ PassedIsSeen'
    BY <1>1, <1>2, <1>3, <1>5, <2>1 DEF PoppedIsOlder, EmptyIsUpToDate, PassedIsSeen
  <2>5. ToldIsPassed'
    BY <1>1, <1>2, <2>1, <2>2, ToldKeeps
  <2> QED BY <2>2, <2>3, <2>4, <2>5
<1>6. CASE queue # <<>> /\ msg' = Head(queue) /\ queue' = Tail(queue)
  <2>1. /\ Len(queue) >= 1 /\ Len(queue) \in Nat /\ Head(queue) = queue[1]
        /\ queue' \in Seq(Nat) /\ Len(queue') = Len(queue) - 1
        /\ \A i \in 1..Len(queue') : queue'[i] = queue[i + 1]
    BY <1>2, <1>6
  <2>2. Passed' = Passed + 1 /\ Passed \in Nat
    BY <1>1, <1>2, <2>1 DEF Passed, QueueIsLatest
  <2>3. msg' = Passed + 1
    BY <1>6, <2>1 DEF QueueIsLatest
  <2>4. QueueIsLatest'
    <3>1. Len(queue') <= sent' /\ Len(queue') <= QueueLen
      BY <1>1, <1>2, <2>1, QueueLenAssumption DEF QueueIsLatest
    <3>2. ASSUME NEW i \in 1..Len(queue') PROVE queue'[i] = Passed + 1 + i
      <4>1. i \in Nat /\ i + 1 \in 1..Len(queue)
        BY <2>1
      <4>2. queue[i + 1] = Passed + (i + 1)
        BY <4>1 DEF QueueIsLatest
      <4> QED BY <2>1, <2>2, <4>1, <4>2
    <3> QED BY <2>2, <3>1, <3>2 DEF QueueIsLatest
  <2>5. TypeOK'
    BY <1>1, <2>1, <2>2, <2>3 DEF TypeOK
  <2>6. PoppedIsOlder' /\ EmptyIsUpToDate'
    BY <1>1, <1>2, <1>3, <1>4, <2>2, <2>3 DEF PoppedIsOlder, EmptyIsUpToDate
  <2>7. PassedIsSeen'
    BY <1>1, <1>2, <1>3, <2>2, <2>3 DEF PassedIsSeen
  <2>8. PrintedOnce'
    BY <1>1 DEF PrintedOnce
  <2>9. ToldIsPassed'
    BY <1>1, <2>2, <2>5, ToldKeeps
  <2> QED BY <2>4, <2>5, <2>6, <2>7, <2>8, <2>9
<1> QED BY <1>5, <1>6 DEF Pop

\* The client prints what was popped for it.
LEMMA ReplyKeeps == ASSUME IInv, NEW c \in Clients, Reply(c) PROVE IInv'
<1> USE DEF IInv
<1>1. /\ serving = c /\ serving' = Nobody /\ msg' = 0
      /\ UNCHANGED <<status, jobs, sent, queue, polls, errors, lost, logged>>
      /\ pc' \in [Clients -> {"poll", "finish"} \union Done]
  BY DEF Reply, workerVars, TypeOK
<1>2. CASE NoText(msg) /\ UNCHANGED got
  <2>1. UNCHANGED told \/ told' = [told EXCEPT ![c] = IF msg = 0 THEN logged ELSE msg]
    BY DEF Reply, Tell
  <2>2. /\ msg \in Nat /\ logged \in Nat /\ told \in [Clients -> Nat] /\ Passed' = Passed
        /\ Passed \in Int /\ serving # Nobody
    BY <1>1, ClientsAssumption DEF TypeOK, Passed
  <2>3. told' \in [Clients -> Nat]
    BY <2>1, <2>2
  <2>4. TypeOK'
    BY <1>1, <1>2, <2>3 DEF TypeOK
  <2>5. ToldIsPassed'
    <3>1. (IF msg = 0 THEN logged ELSE msg) <= Passed
      BY <2>2 DEF EmptyIsUpToDate, PoppedIsOlder
    <3> QED BY <2>1, <2>2, <3>1 DEF ToldIsPassed
  <2> QED BY <1>1, <1>2, <2>4, <2>5, StillKeeps DEF NoText
<1>3. CASE ~NoText(msg) /\ got' = [got EXCEPT ![c] = Append(@, msg)]
  <2>0. UNCHANGED told
    BY <1>1, <1>3 DEF Reply, Tell
  <2>1. msg \in Nat \ {0} /\ got[c] \in Seq(Nat) /\ Passed' = Passed /\ Passed \in Int
    BY <1>1, <1>3 DEF NoText, TypeOK, Passed
  <2>2. /\ got'[c] = Append(got[c], msg)
        /\ Len(got'[c]) = Len(got[c]) + 1 /\ Len(got[c]) \in Nat
        /\ \A i \in 1..Len(got[c]) : got'[c][i] = got[c][i]
        /\ got'[c][Len(got[c]) + 1] = msg
        /\ \A d \in Clients \ {c} : got'[d] = got[d]
    BY <1>3, <2>1 DEF TypeOK
  <2>3. TypeOK'
    BY <1>1, <1>3, <2>0, <2>1 DEF TypeOK
  <2>4. Printed' = Printed \union {msg}
    <3>1. ToSet(got'[c]) = ToSet(got[c]) \union {msg}
      BY <2>1, <2>2, ToSetAppend
    <3>2. Printed' = UNION {ToSet(got'[d]) : d \in Clients}
      BY DEF Printed
    <3>3. \A d \in Clients \ {c} : ToSet(got'[d]) = ToSet(got[d])
      BY <2>2
    <3> QED BY <3>1, <3>2, <3>3 DEF Printed
  <2>5. QueueIsLatest' /\ EmptyIsUpToDate' /\ PoppedIsOlder'
    BY <1>1, <2>1, <2>4 DEF QueueIsLatest, EmptyIsUpToDate, PoppedIsOlder
  <2>6. PassedIsSeen'
    BY <1>1, <2>1, <2>4 DEF PassedIsSeen
  <2>7. \A n \in Printed : n \in Nat /\ n < msg
    BY <2>1, PrintedNat DEF PoppedIsOlder
  <2>8. \A i \in 1..Len(got[c]) : got[c][i] \in Printed
    BY <2>1, ToSetIs DEF Printed
  <2>9. \A i, j \in 1..Len(got'[c]) : i < j => got'[c][i] < got'[c][j]
    BY <2>2, <2>7, <2>8 DEF PrintedOnce
  <2>10. ToSet(got'[c]) = ToSet(got[c]) \union {msg}
    BY <2>1, <2>2, ToSetAppend
  <2>11. \A d \in Clients : ToSet(got[d]) \subseteq Printed
    BY DEF Printed
  <2>12. \A d \in Clients \ {c} : msg \notin ToSet(got'[d])
    BY <2>1, <2>2, <2>7, <2>11
  <2>13. \A d \in Clients : \A i, j \in 1..Len(got'[d]) : i < j => got'[d][i] < got'[d][j]
    <3>1. ASSUME NEW d \in Clients, d # c
          PROVE  \A i, j \in 1..Len(got'[d]) : i < j => got'[d][i] < got'[d][j]
      <4>1. got'[d] = got[d]
        BY <2>2, <3>1
      <4> QED BY <4>1 DEF PrintedOnce
    <3> QED BY <2>9, <3>1
  <2>14. \A d \in Clients \ {c} : ToSet(got'[d]) = ToSet(got[d])
    BY <2>2
  <2>15. \A d, e \in Clients : d # e => ToSet(got'[d]) \intersect ToSet(got'[e]) = {}
    <3> SUFFICES ASSUME NEW d \in Clients, NEW e \in Clients, d # e
                 PROVE  ToSet(got'[d]) \intersect ToSet(got'[e]) = {}
      OBVIOUS
    <3>1. ToSet(got[d]) \intersect ToSet(got[e]) = {}
      BY DEF PrintedOnce
    <3> QED BY <2>10, <2>12, <2>14, <3>1
  <2>16. PrintedOnce'
    BY <2>13, <2>15 DEF PrintedOnce
  <2>17. ToldIsPassed'
    BY <2>0, <2>1, <2>3, ToldKeeps
  <2> QED BY <2>3, <2>5, <2>6, <2>16, <2>17
<1> QED BY <1>2, <1>3 DEF Reply

\* The invariant is inductive.
LEMMA IInvNext == IInv /\ [Next]_vars => IInv'
<1> SUFFICES ASSUME IInv, [Next]_vars PROVE IInv'
  OBVIOUS
<1> USE DEF IInv
<1>1. CASE Emit
  BY <1>1, EmitKeeps
<1>2. CASE EndJob \/ StartJob
  <2>1. UNCHANGED <<sent, queue, got, lost, msg, serving, logged, pc, polls, errors, told>>
    BY <1>2 DEF EndJob, StartJob
  <2>2. status' \in {"busy", "build_done", "build_failed"} /\ jobs' \in Nat
    BY <1>2 DEF EndJob, StartJob, TypeOK
  <2>3. TypeOK'
    BY <2>1, <2>2 DEF TypeOK
  <2> QED BY <2>1, <2>3, StillKeeps
<1>3. ASSUME NEW c \in Clients, Pop(c) PROVE IInv'
  BY <1>3, PopKeeps
<1>4. ASSUME NEW c \in Clients, Reply(c) PROVE IInv'
  BY <1>4, ReplyKeeps
<1>5. ASSUME NEW c \in Clients, CheckStatus(c) \/ ConnectFails(c) PROVE IInv'
  <2>1. UNCHANGED <<status, jobs, sent, queue, got, lost, msg, serving, logged, told>>
    BY <1>5 DEF CheckStatus, ConnectFails, workerVars
  <2>2. polls \in [Clients -> Nat] /\ errors \in [Clients -> Nat]
    BY DEF TypeOK
  <2>3. \/ UNCHANGED <<polls, errors>>
        \/ /\ polls' = [polls EXCEPT ![c] = IF @ <= Retries THEN @ + 1 ELSE @]
           /\ errors' = [errors EXCEPT ![c] = @ + 1]
    BY <1>5 DEF CheckStatus, ConnectFails, CountPoll, SocketError
  <2>4. polls' \in [Clients -> Nat]
    BY <2>2, <2>3, RetriesAssumption
  <2>5. errors' \in [Clients -> Nat]
    BY <2>2, <2>3
  <2>6. pc' \in [Clients -> {"poll", "finish"} \union Done]
    BY <1>5 DEF CheckStatus, ConnectFails, SocketError, TypeOK, Done
  <2>7. TypeOK'
    BY <2>1, <2>4, <2>5, <2>6 DEF TypeOK
  <2> QED BY <2>1, <2>7, StillKeeps
<1>6. ASSUME NEW c \in Clients, ReplyLost(c) PROVE IInv'
  <2>1. TypeOK'
    BY <1>6 DEF ReplyLost, SocketError, workerVars, TypeOK, Done
  <2>2. /\ UNCHANGED <<sent, queue, got, told>> /\ lost \subseteq lost'
        /\ msg' = 0 /\ serving' = Nobody /\ (msg \in lost' \/ msg = 0)
    BY <1>6 DEF ReplyLost, workerVars
  <2> QED BY <2>1, <2>2, StillKeeps
<1>7. CASE Terminated \/ UNCHANGED vars
  <2>1. UNCHANGED vars
    BY <1>7 DEF Terminated
  <2>2. TypeOK'
    BY <2>1 DEF vars, TypeOK
  <2> QED BY <2>1, <2>2, StillKeeps DEF vars
<1> QED BY <1>1, <1>2, <1>3, <1>4, <1>5, <1>6, <1>7 DEF Next, ClientStep

\* The invariant that the other theorems are read off.
THEOREM InvariantHolds == Spec => []IInv
<1> QED BY IInvInit, IInvNext, PTL DEF Spec

\* Messages are printed in the order they were logged, and once, by however many
\* clients that wait for one project.
THEOREM PrintedInOrderHolds == Spec => []PrintedInOrder
<1>1. IInv => PrintedInOrder
  <2> SUFFICES ASSUME IInv PROVE PrintedInOrder
    OBVIOUS
  <2> USE DEF IInv
  <2>1. \A m \in ToSet(queue) : m \in Int /\ m > Passed
    BY QueueNotPassed
  <2>2. \A n \in Printed \union {msg} : n \in Nat /\ n <= Passed
    BY PrintedNat DEF PoppedIsOlder, TypeOK
  <2>3. Passed \in Int
    BY DEF Passed, TypeOK
  <2>4. \A m \in ToSet(queue) : \A n \in Printed \union {msg} : n < m
    <3> SUFFICES ASSUME NEW m \in ToSet(queue), NEW n \in Printed \union {msg} PROVE n < m
      OBVIOUS
    <3>1. m \in Int /\ m > Passed
      BY <2>1
    <3>2. n \in Nat /\ n <= Passed
      BY <2>2
    <3> QED BY <2>3, <3>1, <3>2
  <2> QED BY <2>4 DEF PrintedInOrder, PrintedOnce
<1> QED BY <1>1, InvariantHolds, PTL

\* While the queue did not overflow, what clients leave unread at the end of their
\* wait was logged after the last look of each into the queue, or behind the blank
\* message that ended it, or was lost with a reply.
THEOREM NothingVanishesHolds == Spec => []NothingVanishes
<1>1. IInv => NothingVanishes
  <2> SUFFICES ASSUME IInv, sent <= QueueLen, NEW m \in (1..sent) \ Blank,
                      m \notin Printed \union lost \union {msg}, NEW c \in Clients
               PROVE  m > told[c]
    BY DEF NothingVanishes
  <2> USE DEF IInv
  <2>1. Passed \in Int /\ sent \in Nat /\ told[c] \in Nat
    BY DEF Passed, TypeOK
  <2>2. m > Passed
    BY <2>1 DEF PassedIsSeen
  <2>3. told[c] <= Passed
    BY DEF ToldIsPassed
  <2> QED BY <2>1, <2>2, <2>3
<1> QED BY <1>1, InvariantHolds, PTL

\* A client that is told ELBE-FINISH misses only messages the worker logged after
\* the poll had looked into the queue, or those behind a blank one.
THEOREM FinishLeavesNothingOldHolds == Spec => FinishLeavesNothingOld
<1> DEFINE Finish == \A c \in Clients : pc[c] = "poll" /\ pc'[c] = "finish" /\ msg \notin Blank
                        => \A m \in ToSet(queue) : m > logged
<1>1. IInv /\ [Next]_vars => [Finish]_vars
  <2> SUFFICES ASSUME IInv, Next, NEW c \in Clients, pc[c] = "poll", pc'[c] = "finish",
                      msg \notin Blank, NEW m \in ToSet(queue)
               PROVE  m > logged
    BY DEF vars
  <2> USE DEF IInv
  <2>1. PICK d \in Clients : Reply(d) /\ pc' # pc
    BY DEF Next, ClientStep, Emit, EndJob, StartJob, Pop, CheckStatus, ConnectFails, ReplyLost,
           SocketError, Terminated, vars, TypeOK, workerVars
  <2>2. msg = 0 /\ serving # Nobody
    BY <2>1, ClientsAssumption DEF Reply, NoText
  <2>3. logged <= Passed /\ Passed \in Int /\ logged \in Nat
    BY <2>2 DEF EmptyIsUpToDate, TypeOK, Passed
  <2>4. m \in Int /\ m > Passed
    BY QueueNotPassed
  <2> QED BY <2>3, <2>4
<1> QED BY <1>1, InvariantHolds, PTL DEF Spec, FinishLeavesNothingOld
=============================================================================
