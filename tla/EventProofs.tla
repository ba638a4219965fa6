---------------------------- MODULE EventProofs -----------------------------
(***************************************************************************)
(* Proofs about EventLog, for every set of keys and payloads, every number *)
(* of partitions, every hash function and every mix of buffer sizes, and   *)
(* about Webhook, for every number of hooks, events and attempts.          *)
(*                                                                         *)
(* The delivery invariants of the log are inductive once two facts are     *)
(* added: an id that has not been handed out yet has untouched bookkeeping *)
(* (Fresh), and the offset of every event lies below the length of its     *)
(* partition, in the partition its key hashes to (Placed).                 *)
(*                                                                         *)
(* The dispatcher is one of the subscribers of the log (DispatcherIsReader),*)
(* so what is shown about readers holds of it: the position of the event   *)
(* in delivery stays inside the log.  The invariant WInv relates what      *)
(* every hook has received to that position, and the posts that were made  *)
(* to the loop variable of Deliver.                                        *)
(***************************************************************************)
EXTENDS Webhook, SequenceTheorems, FiniteSetTheorems, TLAPS

Fresh ==
    \A id \in SubId : id >= nextSub =>
        queue[id] = <<>> /\ rcvd[id] = <<>> /\ start[id] = 0 /\ ~closed[id]

Placed ==
    \A i \in 1 .. Len(history) :
        /\ history[i].part = PartitionOf(history[i].key)
        /\ history[i].offset < Len(parts[history[i].part])

DeliveryInv == TypeOK /\ Fresh /\ MapHoldsOpenChannels /\ GapFree /\ LiveSeesAll

OrderInv == TypeOK /\ Placed /\ OffsetsIdentify /\ KeyOrder

-----------------------------------------------------------------------------
\* A key's partition is one of the log's partitions.
LEMMA PartitionOfType == \A k \in Key : PartitionOf(k) \in Partition
<1>1. SUFFICES ASSUME NEW k \in Key PROVE PartitionOf(k) \in Partition
  OBVIOUS
<1>2. AtLeastOne(NumPartitions) \in Nat \ {0}
  BY ConstantsOK DEF AtLeastOne
<1>3. KeyHash[k] \in Nat
  BY ConstantsOK
<1>4. \A a \in Nat, b \in Nat \ {0} : a % b \in 0 .. (b - 1)
  OBVIOUS
<1> QED
  BY <1>2, <1>3, <1>4 DEF PartitionOf, Partition

\* The record Append creates is an event.
LEMMA NewEventType ==
  ASSUME TypeOK, NEW k \in Key, NEW x \in Payload
  PROVE  NewEvent(k, x) \in Event
  BY PartitionOfType DEF TypeOK, NewEvent, Event

\* Positions a reader has passed, or still has buffered, lie inside the log.
LEMMA Within ==
  ASSUME NEW a \in Nat, NEW r \in Nat, NEW q \in Nat, NEW n \in Nat, a + r + q <= n
  PROVE  /\ \A i \in 1 .. r : a + i \in 1 .. n
         /\ \A i \in 1 .. q : a + r + i \in 1 .. n
  OBVIOUS

\* A run that reaches the end still does when both grow by one.
LEMMA Grow ==
  ASSUME NEW a \in Nat, NEW r \in Nat, NEW q \in Nat, NEW n, NEW q1, NEW n1,
         a + r + q = n, q1 = q + 1, n1 = n + 1
  PROVE  a + r + q1 = n1 /\ a + r + q1 <= n1
  OBVIOUS

\* Sums of a start, what was received and what is queued.
LEMMA Regroup ==
  \A a, r, q \in Nat : /\ a + r + (q + 1) = (a + r + q) + 1
                       /\ a + (r + 1) + q = a + r + (q + 1)
  OBVIOUS

\* Lengths and positions are numbers.
LEMMA Sizes ==
  ASSUME TypeOK, NEW id \in SubId
  PROVE  /\ queue[id] \in Seq(Event) /\ Len(queue[id]) \in Nat
         /\ rcvd[id] \in Seq(Event) /\ Len(rcvd[id]) \in Nat
         /\ start[id] \in Nat
         /\ history \in Seq(Event) /\ Len(history) \in Nat
<1>1. queue[id] \in Seq(Event) /\ rcvd[id] \in Seq(Event) /\ history \in Seq(Event)
  BY DEF TypeOK
<1>2. start[id] \in Nat
  BY DEF TypeOK
<1>3. \A s \in Seq(Event) : Len(s) \in Nat
  OBVIOUS
<1> QED
  BY <1>1, <1>2, <1>3

\* The log starts well-typed and every step (Append, Subscribe, cancel, a
\* receive) keeps it so.
THEOREM TypeCorrect == Spec => []TypeOK
<1>1. Init => TypeOK
  BY ConstantsOK DEF Init, TypeOK
<1>2. TypeOK /\ [Next]_vars => TypeOK'
  <2> SUFFICES ASSUME TypeOK, [Next]_vars PROVE TypeOK'
    OBVIOUS
  <2>1. ASSUME NEW k \in Key, NEW x \in Payload, AppendEvent(k, x)
        PROVE  TypeOK'
    <3> DEFINE e == NewEvent(k, x)
    <3>1. e \in Event
      BY NewEventType
    <3> HIDE DEF e
    <3>2. parts' \in [Partition -> Seq(Event)]
      BY <2>1, <3>1, PartitionOfType DEF AppendEvent, TypeOK, e
    <3>3. history' \in Seq(Event)
      BY <2>1, <3>1, PartitionOfType DEF AppendEvent, TypeOK, e
    <3>4. queue' \in [SubId -> Seq(Event)]
      BY <2>1, <3>1, PartitionOfType DEF AppendEvent, TypeOK, e
    <3>5. closed' \in [SubId -> BOOLEAN]
      BY <2>1 DEF AppendEvent, Evict, TypeOK
    <3> QED
      BY <2>1, <3>2, <3>3, <3>4, <3>5 DEF AppendEvent, Evict, TypeOK, Evicted, recvVars
  <2>2. ASSUME NEW buf \in BufSizes, NEW at \in {"reading", "busy"}, Subscribe(buf, at)
        PROVE  TypeOK'
    <3>1. nextSub \in SubId /\ AtLeastOne(buf) \in Nat
      BY <2>2, ConstantsOK DEF Subscribe, TypeOK, SubId, AtLeastOne
    <3> QED
      BY <2>2, <3>1, ConstantsOK DEF Subscribe, TypeOK, logVars, SubId
  <2>3. ASSUME NEW id \in SubId, Receive(id)
        PROVE  TypeOK'
    BY <2>3 DEF Receive, TypeOK, logVars, subVars
  <2>4. ASSUME NEW id \in SubId, Leave(id)
        PROVE  TypeOK'
    BY <2>4 DEF Leave, cancel, TypeOK, logVars
  <2>5. ASSUME NEW id \in SubId, SeeClosed(id)
        PROVE  TypeOK'
    BY <2>5 DEF SeeClosed, cancel, TypeOK, logVars
  <2>6. CASE UNCHANGED vars
    BY <2>6 DEF TypeOK, vars
  <2>7. ASSUME NEW id \in SubId, Handled(id)
        PROVE  TypeOK'
    BY <2>7 DEF Handled, TypeOK, logVars, subVars
  <2> QED
    BY <2>1, <2>2, <2>3, <2>4, <2>5, <2>6, <2>7 DEF Next
<1> QED
  BY <1>1, <1>2, PTL DEF Spec

-----------------------------------------------------------------------------
\* Delivery: the map holds exactly the open channels, every subscriber's stream
\* is a gap-free run of the log, and a registered subscriber has missed nothing,
\* whatever the interleaving of appends, receives, cancels and evictions.
THEOREM Delivery == Spec => [](MapHoldsOpenChannels /\ GapFree /\ LiveSeesAll)
<1>1. Init => DeliveryInv
  <2> SUFFICES ASSUME Init PROVE DeliveryInv
    OBVIOUS
  <2>1. TypeOK
    BY ConstantsOK DEF Init, TypeOK
  <2> QED
    BY <2>1, ConstantsOK
       DEF Init, DeliveryInv, Fresh, MapHoldsOpenChannels, GapFree, GapFreeRun, LiveSeesAll, SubId
<1>2. DeliveryInv /\ TypeOK' /\ [Next]_vars => DeliveryInv'
  <2> SUFFICES ASSUME DeliveryInv, TypeOK', [Next]_vars PROVE DeliveryInv'
    OBVIOUS
  <2> USE DEF DeliveryInv
  <2>1. ASSUME NEW k \in Key, NEW x \in Payload, AppendEvent(k, x)
        PROVE  DeliveryInv'
    <3> DEFINE e == NewEvent(k, x)
    <3>1. history' = Append(history, e) /\ e \in Event
      BY <2>1, NewEventType DEF AppendEvent
    <3>2. /\ nextSub' = nextSub /\ start' = start /\ rcvd' = rcvd
          /\ subs' = subs \ Evicted
          /\ closed' = [id \in SubId |-> closed[id] \/ id \in Evicted]
          /\ queue' = [id \in SubId |-> IF id \in subs \ Evicted
                                        THEN Append(queue[id], e) ELSE queue[id]]
      BY <2>1 DEF AppendEvent, Evict, recvVars
    <3> HIDE DEF e
    <3>3. /\ \A i \in 1 .. Len(history) : history'[i] = history[i]
          /\ Len(history) \in Nat
          /\ Len(history') = Len(history) + 1
          /\ history'[Len(history) + 1] = e
      <4>1. history \in Seq(Event)
        BY DEF TypeOK
      <4> QED
        BY <3>1, <4>1, AppendProperties, LenProperties
    <3>5. \A id \in subs : id \in SubId /\ id < nextSub
      BY DEF MapHoldsOpenChannels
    <3>6. Fresh'
      <4> SUFFICES ASSUME NEW id \in SubId, id >= nextSub
                   PROVE  queue'[id] = queue[id] /\ closed'[id] = closed[id]
        BY <3>2 DEF Fresh
      <4>1. id \notin subs /\ id \notin Evicted
        BY <3>5 DEF TypeOK, SubId, Evicted
      <4> QED
        BY <3>2, <4>1 DEF TypeOK
    <3>7. MapHoldsOpenChannels'
      <4>1. \A id \in SubId : closed'[id] <=> closed[id] \/ id \in Evicted
        BY <3>2
      <4> QED
        BY <3>2, <4>1 DEF MapHoldsOpenChannels, Evicted
    <3>8. ASSUME NEW id \in SubId
          PROVE  GapFreeRun(id)'
      <4>1. GapFreeRun(id)
        BY DEF GapFree
      <4>2. /\ start[id] \in Nat /\ Len(rcvd[id]) \in Nat
            /\ queue[id] \in Seq(Event) /\ Len(queue[id]) \in Nat
        BY Sizes
      <4>5. /\ \A i \in 1 .. Len(rcvd[id]) : start[id] + i \in 1 .. Len(history)
            /\ \A i \in 1 .. Len(queue[id]) :
                  start[id] + Len(rcvd[id]) + i \in 1 .. Len(history)
        <5>1. start[id] + Len(rcvd[id]) + Len(queue[id]) <= Len(history)
          BY <4>1 DEF GapFreeRun
        <5> QED
          BY <3>3, <4>2, <5>1, Within
      <4>3. CASE id \in subs \ Evicted
        <5>1. queue'[id] = Append(queue[id], e)
          BY <3>2, <4>3
        <5>2. start[id] + Len(rcvd[id]) + Len(queue[id]) = Len(history)
          BY <4>3 DEF LiveSeesAll
        <5>3. /\ Len(queue'[id]) = Len(queue[id]) + 1
              /\ \A i \in 1 .. Len(queue[id]) : queue'[id][i] = queue[id][i]
              /\ queue'[id][Len(queue[id]) + 1] = e
          BY <3>1, <4>2, <5>1, AppendProperties, LenProperties
        <5>4. start[id] + Len(rcvd[id]) + Len(queue'[id]) <= Len(history')
          <6>1. /\ start[id] \in Nat /\ Len(rcvd[id]) \in Nat /\ Len(queue[id]) \in Nat
                /\ Len(queue'[id]) = Len(queue[id]) + 1 /\ Len(history') = Len(history) + 1
            BY <3>3, <4>2, <5>3
          <6> HIDE DEF DeliveryInv
          <6> QED
            BY <5>2, <6>1, Grow
        <5>5. ASSUME NEW i \in 1 .. Len(rcvd[id])
              PROVE  rcvd[id][i] = history'[start[id] + i]
          <6>1. start[id] + i \in 1 .. Len(history)
            BY <4>5
          <6>2. rcvd[id][i] = history[start[id] + i]
            BY <4>1 DEF GapFreeRun
          <6> QED
            BY <3>3, <6>1, <6>2
        <5>6. ASSUME NEW i \in 1 .. Len(queue'[id])
              PROVE  queue'[id][i] = history'[start[id] + Len(rcvd[id]) + i]
          <6>1. CASE i \in 1 .. Len(queue[id])
            <7>1. start[id] + Len(rcvd[id]) + i \in 1 .. Len(history)
              BY <4>5, <6>1
            <7>2. queue[id][i] = history[start[id] + Len(rcvd[id]) + i]
              BY <4>1, <6>1 DEF GapFreeRun
            <7> QED
              BY <3>3, <5>3, <6>1, <7>1, <7>2
          <6>2. CASE i = Len(queue[id]) + 1
            <7>1. start[id] + Len(rcvd[id]) + (Len(queue[id]) + 1) = Len(history) + 1
              <8>1. start[id] + Len(rcvd[id]) + (Len(queue[id]) + 1)
                      = (start[id] + Len(rcvd[id]) + Len(queue[id])) + 1
                BY <4>2, Regroup
              <8> QED
                BY <5>2, <8>1
            <7> QED
              BY <3>3, <5>3, <6>2, <7>1
          <6> QED
            BY <4>2, <5>3, <6>1, <6>2
        <5> QED
          BY <3>2, <5>4, <5>5, <5>6 DEF GapFreeRun
      <4>4. CASE id \notin subs \ Evicted
        <5>1. queue'[id] = queue[id]
          BY <3>2, <4>4
        <5>2. start[id] + Len(rcvd[id]) + Len(queue[id]) <= Len(history)
          BY <4>1 DEF GapFreeRun
        <5>3. ASSUME NEW i \in 1 .. Len(rcvd[id])
              PROVE  rcvd[id][i] = history'[start[id] + i]
          <6>1. start[id] + i \in 1 .. Len(history)
            BY <4>5
          <6>2. rcvd[id][i] = history[start[id] + i]
            BY <4>1 DEF GapFreeRun
          <6> QED
            BY <3>3, <6>1, <6>2
        <5>4. ASSUME NEW i \in 1 .. Len(queue[id])
              PROVE  queue[id][i] = history'[start[id] + Len(rcvd[id]) + i]
          <6>1. start[id] + Len(rcvd[id]) + i \in 1 .. Len(history)
            BY <4>5
          <6>2. queue[id][i] = history[start[id] + Len(rcvd[id]) + i]
            BY <4>1 DEF GapFreeRun
          <6> QED
            BY <3>3, <6>1, <6>2
        <5>5. start[id] + Len(rcvd[id]) + Len(queue[id]) <= Len(history')
          BY <3>3, <4>2, <5>2
        <5> QED
          BY <3>2, <5>1, <5>3, <5>4, <5>5 DEF GapFreeRun
      <4> QED
        BY <4>3, <4>4
    <3>9. LiveSeesAll'
      <4> SUFFICES ASSUME NEW id \in subs \ Evicted
                   PROVE  start[id] + Len(rcvd[id]) + Len(queue'[id]) = Len(history')
        BY <3>2 DEF LiveSeesAll
      <4>1. id \in SubId /\ queue'[id] = Append(queue[id], e)
        BY <3>2, <3>5
      <4>2. /\ start[id] \in Nat /\ Len(rcvd[id]) \in Nat
            /\ queue[id] \in Seq(Event) /\ Len(queue[id]) \in Nat
        BY <4>1, Sizes
      <4>3. Len(queue'[id]) = Len(queue[id]) + 1
        BY <3>1, <4>1, <4>2, AppendProperties, LenProperties
      <4>4. start[id] + Len(rcvd[id]) + Len(queue[id]) = Len(history)
        BY DEF LiveSeesAll
      <4>5. start[id] \in Nat /\ Len(rcvd[id]) \in Nat /\ Len(queue[id]) \in Nat
        BY <4>2
      <4>6. Len(history') = Len(history) + 1
        BY <3>3
      <4> DEFINE a == start[id]
      <4> DEFINE r == Len(rcvd[id])
      <4> DEFINE q == Len(queue[id])
      <4> DEFINE q1 == Len(queue'[id])
      <4> DEFINE n == Len(history)
      <4> DEFINE n1 == Len(history')
      <4>7. a \in Nat /\ r \in Nat /\ q \in Nat /\ a + r + q = n /\ q1 = q + 1 /\ n1 = n + 1
        BY <4>3, <4>4, <4>5, <4>6
      <4> HIDE DEF DeliveryInv, a, r, q, q1, n, n1
      <4>8. a + r + q1 = n1
        BY <4>7
      <4> QED
        BY <4>8 DEF a, r, q1, n1
    <3> QED
      BY <3>6, <3>7, <3>8, <3>9 DEF GapFree
  <2>2. ASSUME NEW buf \in BufSizes, NEW at \in {"reading", "busy"}, Subscribe(buf, at)
        PROVE  DeliveryInv'
    <3>1. nextSub \in SubId /\ nextSub \in Nat
      BY <2>2, ConstantsOK DEF Subscribe, TypeOK, SubId
    <3>2. /\ nextSub' = nextSub + 1
          /\ subs' = subs \cup {nextSub}
          /\ start' = [start EXCEPT ![nextSub] = Len(history)]
          /\ history' = history /\ queue' = queue /\ closed' = closed /\ rcvd' = rcvd
      BY <2>2 DEF Subscribe, logVars
    <3>3. queue[nextSub] = <<>> /\ rcvd[nextSub] = <<>> /\ ~closed[nextSub]
      BY <3>1 DEF Fresh
    <3>4. Fresh'
      BY <3>1, <3>2 DEF Fresh, SubId, TypeOK
    <3>5. MapHoldsOpenChannels'
      BY <3>1, <3>2, <3>3 DEF MapHoldsOpenChannels, SubId
    <3>6. ASSUME NEW id \in SubId
          PROVE  GapFreeRun(id)'
      <4>1. GapFreeRun(id)
        BY DEF GapFree
      <4>2. CASE id = nextSub
        <5>1. start'[id] = Len(history) /\ Len(history) \in Nat
          BY <3>1, <3>2, <4>2, Sizes DEF TypeOK
        <5>2. Len(rcvd'[id]) = 0 /\ Len(queue'[id]) = 0
          BY <3>2, <3>3, <4>2
        <5> QED
          BY <3>2, <5>1, <5>2 DEF GapFreeRun
      <4>3. CASE id # nextSub
        <5>1. start'[id] = start[id]
          BY <3>2, <4>3 DEF TypeOK
        <5> QED
          BY <3>2, <4>1, <5>1 DEF GapFreeRun
      <4> QED
        BY <4>2, <4>3
    <3>7. LiveSeesAll'
      BY <3>1, <3>2, <3>3 DEF LiveSeesAll, TypeOK
    <3> QED
      BY <3>4, <3>5, <3>6, <3>7 DEF GapFree
  <2>3. ASSUME NEW id \in SubId, Receive(id)
        PROVE  DeliveryInv'
    <3> DEFINE q == queue[id]
    <3> DEFINE r == rcvd[id]
    <3>1. /\ rcvd' = [rcvd EXCEPT ![id] = Append(r, Head(q))]
          /\ queue' = [queue EXCEPT ![id] = Tail(q)]
          /\ history' = history /\ subs' = subs /\ nextSub' = nextSub
          /\ closed' = closed /\ start' = start /\ q # <<>>
      BY <2>3 DEF Receive, logVars, subVars
    <3>2. q \in Seq(Event) /\ r \in Seq(Event) /\ start[id] \in Nat
      BY Sizes
    <3>3. /\ Len(q) \in Nat \ {0} /\ Head(q) = q[1] /\ q[1] \in Event
          /\ Len(Tail(q)) = Len(q) - 1
          /\ \A i \in 1 .. Len(q) - 1 : Tail(q)[i] = q[i + 1]
      <4> HIDE DEF q
      <4> QED  BY <3>1, <3>2, HeadTailProperties, LenProperties
    <3>4. /\ Len(r) \in Nat
          /\ Len(Append(r, q[1])) = Len(r) + 1
          /\ \A i \in 1 .. Len(r) : Append(r, q[1])[i] = r[i]
          /\ Append(r, q[1])[Len(r) + 1] = q[1]
      <4> HIDE DEF q, r
      <4> QED  BY <3>2, <3>3, AppendProperties, LenProperties
    <3>5. Fresh'
      <4>1. id < nextSub
        BY <3>1 DEF Fresh, TypeOK, SubId
      <4> QED
        BY <3>1, <4>1 DEF Fresh, TypeOK, SubId
    <3>6. MapHoldsOpenChannels'
      BY <3>1 DEF MapHoldsOpenChannels
    <3>7. ASSUME NEW s \in SubId
          PROVE  GapFreeRun(s)'
      <4>1. CASE s = id
        <5>1. rcvd'[s] = Append(r, q[1]) /\ queue'[s] = Tail(q)
          BY <3>1, <3>3, <4>1 DEF TypeOK
        <5>2. /\ start[s] + Len(r) + Len(q) <= Len(history)
              /\ \A i \in 1 .. Len(r) : r[i] = history[start[s] + i]
              /\ \A i \in 1 .. Len(q) : q[i] = history[start[s] + Len(r) + i]
          BY <4>1 DEF GapFree, GapFreeRun
        <5>3. start[s] \in Nat /\ Len(r) \in Nat /\ Len(q) \in Nat
          BY <3>2, <3>3, <3>4, <4>1
        <5> HIDE DEF q, r
        <5>4. start[s] + Len(rcvd'[s]) + Len(queue'[s]) <= Len(history)
          BY <3>2, <3>3, <3>4, <5>1, <5>2, <5>3
        <5>5. \A i \in 1 .. Len(rcvd'[s]) : rcvd'[s][i] = history[start[s] + i]
          BY <3>3, <3>4, <5>1, <5>2, <5>3
        <5>6. ASSUME NEW i \in 1 .. Len(queue'[s])
              PROVE  queue'[s][i] = history[start[s] + Len(rcvd'[s]) + i]
          <6>1. i \in 1 .. Len(q) - 1 /\ i + 1 \in 1 .. Len(q)
            BY <3>2, <3>3, <5>1, <5>3
          <6>2. queue'[s][i] = history[start[s] + Len(r) + (i + 1)]
            BY <3>3, <5>1, <5>2, <6>1
          <6>3. start[s] + Len(rcvd'[s]) + i = start[s] + Len(r) + (i + 1)
            <7>1. i \in Nat /\ Len(rcvd'[s]) = Len(r) + 1
              BY <3>4, <5>1, <6>1
            <7> QED
              BY <5>3, <7>1, Regroup
          <6> QED
            BY <6>2, <6>3
        <5> QED
          BY <3>1, <5>4, <5>5, <5>6 DEF GapFreeRun
      <4>2. CASE s # id
        <5>1. rcvd'[s] = rcvd[s] /\ queue'[s] = queue[s] /\ start' = start /\ history' = history
          BY <3>1, <4>2 DEF TypeOK
        <5>2. GapFreeRun(s)
          BY DEF GapFree
        <5> HIDE DEF DeliveryInv
        <5> QED
          BY <5>1, <5>2 DEF GapFreeRun
      <4> QED
        BY <4>1, <4>2
    <3>8. LiveSeesAll'
      <4> SUFFICES ASSUME NEW s \in subs
                   PROVE  start[s] + Len(rcvd'[s]) + Len(queue'[s]) = Len(history)
        BY <3>1 DEF LiveSeesAll
      <4>1. start[s] + Len(rcvd[s]) + Len(queue[s]) = Len(history)
        BY DEF LiveSeesAll
      <4>2. CASE s = id
        <5>1. rcvd'[s] = Append(r, q[1]) /\ queue'[s] = Tail(q)
          BY <3>1, <3>3, <4>2 DEF TypeOK
        <5> HIDE DEF q, r
        <5>2. start[s] + Len(r) + Len(q) = Len(history)
          BY <4>1, <4>2 DEF q, r
        <5> QED
          BY <3>2, <3>3, <3>4, <4>2, <5>1, <5>2
      <4>3. CASE s # id
        BY <3>1, <4>1, <4>3 DEF TypeOK
      <4> QED
        BY <4>2, <4>3
    <3> QED
      BY <3>5, <3>6, <3>7, <3>8 DEF GapFree
  <2>4. ASSUME NEW id \in SubId, cancel(id), loop[id] = "reading",
               UNCHANGED <<history, nextSub, queue, start, rcvd>>
        PROVE  DeliveryInv'
    <3>1. Fresh'
      <4>1. \A s \in SubId : s >= nextSub => s \notin subs
        BY DEF MapHoldsOpenChannels, TypeOK, SubId
      <4>2. \A s \in SubId : closed'[s] <=> closed[s] \/ (s = id /\ id \in subs)
        BY <2>4 DEF cancel, TypeOK
      <4>3. Fresh
        OBVIOUS
      <4> HIDE DEF DeliveryInv
      <4> QED
        BY <2>4, <4>1, <4>2, <4>3 DEF Fresh
    <3>2. MapHoldsOpenChannels'
      <4>1. \A s \in SubId : closed'[s] <=> closed[s] \/ (s = id /\ id \in subs)
        BY <2>4 DEF cancel, TypeOK
      <4>2. subs' = subs \ {id} /\ nextSub' = nextSub
        BY <2>4 DEF cancel
      <4>3. MapHoldsOpenChannels
        OBVIOUS
      <4> HIDE DEF DeliveryInv
      <4> QED
        BY <4>1, <4>2, <4>3 DEF MapHoldsOpenChannels
    <3>3. GapFree' /\ LiveSeesAll'
      BY <2>4 DEF cancel, GapFree, GapFreeRun, LiveSeesAll
    <3> QED
      BY <3>1, <3>2, <3>3
  <2>5. ASSUME NEW id \in SubId, Leave(id) \/ SeeClosed(id)
        PROVE  DeliveryInv'
    BY <2>4, <2>5 DEF Leave, SeeClosed, logVars
  <2>6. CASE UNCHANGED vars
    BY <2>6 DEF vars, Fresh, MapHoldsOpenChannels, GapFree, GapFreeRun, LiveSeesAll
  <2>7. ASSUME NEW id \in SubId, Handled(id)
        PROVE  DeliveryInv'
    BY <2>7 DEF Handled, logVars, subVars, Fresh, MapHoldsOpenChannels, GapFree, GapFreeRun, LiveSeesAll
  <2> QED
    BY <2>1, <2>2, <2>3, <2>5, <2>6, <2>7 DEF Next
<1>3. DeliveryInv => MapHoldsOpenChannels /\ GapFree /\ LiveSeesAll
  BY DEF DeliveryInv
<1> QED
  BY <1>1, <1>2, <1>3, TypeCorrect, PTL DEF Spec

\* The subscribers' map holds exactly the open channels: no append writes to a
\* closed one, and no subscriber that waits is forgotten.
THEOREM MapIsExact == Spec => []MapHoldsOpenChannels
  BY Delivery, PTL

-----------------------------------------------------------------------------
\* Order: offsets are dense in every partition, no two events share a partition
\* and offset, and events with one key keep their append order.
THEOREM Order == Spec => [](OffsetsIdentify /\ KeyOrder)
<1>1. Init => OrderInv
  <2> SUFFICES ASSUME Init PROVE OrderInv
    OBVIOUS
  <2>1. TypeOK
    BY ConstantsOK DEF Init, TypeOK
  <2> QED
    BY <2>1 DEF Init, OrderInv, Placed, OffsetsIdentify, KeyOrder
<1>2. OrderInv /\ TypeOK' /\ [Next]_vars => OrderInv'
  <2> SUFFICES ASSUME OrderInv, TypeOK', [Next]_vars PROVE OrderInv'
    OBVIOUS
  <2> USE DEF OrderInv
  <2>1. ASSUME NEW k \in Key, NEW x \in Payload, AppendEvent(k, x)
        PROVE  OrderInv'
    <3> DEFINE e == NewEvent(k, x)
    <3> DEFINE p == PartitionOf(k)
    <3> DEFINE n == Len(history)
    <3>1. /\ history' = Append(history, e) /\ e \in Event /\ p \in Partition
          /\ parts' = [parts EXCEPT ![p] = Append(parts[p], e)]
      BY <2>1, NewEventType, PartitionOfType DEF AppendEvent
    <3>2. e.part = p /\ e.offset = Len(parts[p]) /\ e.key = k
      BY DEF NewEvent
    <3>3. /\ history \in Seq(Event) /\ parts[p] \in Seq(Event)
          /\ parts \in [Partition -> Seq(Event)]
      BY <3>1 DEF TypeOK
    <3>4. /\ n \in Nat /\ Len(history') = n + 1 /\ history'[n + 1] = e
          /\ \A i \in 1 .. n : history'[i] = history[i] /\ history[i] \in Event
      <4> HIDE DEF e
      <4> QED  BY <3>1, <3>3, AppendProperties, LenProperties
    <3>5. /\ Len(parts[p]) \in Nat /\ Len(parts'[p]) = Len(parts[p]) + 1
          /\ parts'[p][Len(parts[p]) + 1] = e
          /\ \A i \in 1 .. Len(parts[p]) : parts'[p][i] = parts[p][i]
          /\ \A o \in Partition : o # p => parts'[o] = parts[o]
      <4> HIDE DEF e, p
      <4>1. parts'[p] = Append(parts[p], e)
        BY <3>1, <3>3
      <4> QED  BY <3>1, <3>3, <4>1, AppendProperties, LenProperties
    <3>6. \A i \in 1 .. n : /\ history[i].part = PartitionOf(history[i].key)
                            /\ history[i].part \in Partition
                            /\ history[i].offset \in Nat
                            /\ history[i].offset < Len(parts[history[i].part])
      BY <3>4 DEF Placed, Event
    <3> HIDE DEF e, p, n
    <3>7. ASSUME NEW i \in 1 .. n + 1
          PROVE  /\ history'[i].part = PartitionOf(history'[i].key)
                 /\ history'[i].offset < Len(parts'[history'[i].part])
      <4>1. CASE i = n + 1
        BY <3>2, <3>4, <3>5, <4>1 DEF p
      <4>2. CASE i \in 1 .. n
        <5>1. history'[i] = history[i]
          BY <3>4, <4>2
        <5>2. CASE history[i].part = p
          BY <3>5, <3>6, <4>2, <5>1, <5>2
        <5>3. CASE history[i].part # p
          BY <3>5, <3>6, <4>2, <5>1, <5>3
        <5> QED
          BY <5>2, <5>3
      <4> QED
        BY <3>4, <4>1, <4>2
    <3>8. ASSUME NEW o \in Partition, NEW i \in 1 .. Len(parts'[o])
          PROVE  parts'[o][i].part = o /\ parts'[o][i].offset = i - 1
      <4>1. \A j \in 1 .. Len(parts[o]) : parts[o][j].part = o /\ parts[o][j].offset = j - 1
        BY DEF OffsetsIdentify
      <4>2. CASE o # p
        BY <3>5, <4>1, <4>2
      <4>3. CASE o = p /\ i \in 1 .. Len(parts[p])
        BY <3>5, <4>1, <4>3
      <4>4. CASE o = p /\ i = Len(parts[p]) + 1
        BY <3>2, <3>5, <4>4
      <4> QED
        BY <3>5, <4>2, <4>3, <4>4
    <3>9. ASSUME NEW i \in 1 .. n + 1, NEW j \in 1 .. n + 1, i < j,
                 history'[i].part = history'[j].part
          PROVE  history'[i].offset < history'[j].offset
      <4>1. i \in 1 .. n /\ history'[i] = history[i]
        BY <3>4, <3>9
      <4>2. CASE j = n + 1
        BY <3>2, <3>4, <3>6, <3>9, <4>1, <4>2
      <4>3. CASE j \in 1 .. n
        BY <3>4, <3>9, <4>1, <4>3 DEF OffsetsIdentify, n
      <4> QED
        BY <3>4, <4>2, <4>3
    <3>10. ASSUME NEW i \in 1 .. n + 1, NEW j \in 1 .. n + 1, i < j,
                  history'[i].key = history'[j].key
           PROVE  /\ history'[i].part = history'[j].part
                  /\ history'[i].offset < history'[j].offset
      BY <3>7, <3>9, <3>10
    <3> QED
      BY <3>4, <3>7, <3>8, <3>9, <3>10 DEF Placed, OffsetsIdentify, KeyOrder
  <2>2. CASE UNCHANGED logVars
    BY <2>2 DEF logVars, Placed, OffsetsIdentify, KeyOrder
  <2> QED
    BY <2>1, <2>2 DEF Next, Subscribe, Receive, Handled, Leave, SeeClosed, vars, logVars
<1>3. OrderInv => OffsetsIdentify /\ KeyOrder
  BY DEF OrderInv
<1> QED
  BY <1>1, <1>2, <1>3, TypeCorrect, PTL DEF Spec

-----------------------------------------------------------------------------
\* Append closes a subscriber's channel only when the subscriber is more than
\* its buffer behind the log.
THEOREM EvictionOnlyBehind == Spec => EvictOnlyBehind
<1>1. TypeOK /\ MapHoldsOpenChannels /\ LiveSeesAll /\ [Next]_vars =>
        [\A id \in subs \ subs' :
            \/ loop'[id] = "left"
            \/ Len(history') - (start[id] + Len(rcvd[id])) > cap[id]]_vars
  <2> SUFFICES ASSUME TypeOK, MapHoldsOpenChannels, LiveSeesAll, Next,
                      NEW id \in subs \ subs'
               PROVE  \/ loop'[id] = "left"
                      \/ Len(history') - (start[id] + Len(rcvd[id])) > cap[id]
    BY DEF vars
  <2>0. id \in SubId
    BY DEF TypeOK
  <2>1. CASE \E k \in Key, x \in Payload : AppendEvent(k, x)
    <3>1. PICK k \in Key, x \in Payload : AppendEvent(k, x)
      BY <2>1
    <3>2. Len(queue[id]) >= cap[id]
      BY <3>1 DEF AppendEvent, Evict, Evicted, Full
    <3>3. NewEvent(k, x) \in Event
      BY NewEventType
    <3>4. Len(history') = Len(history) + 1 /\ Len(history) \in Nat
      <4>1. history \in Seq(Event) /\ history' = Append(history, NewEvent(k, x))
        BY <3>1 DEF TypeOK, AppendEvent
      <4> QED  BY <3>3, <4>1, AppendProperties, LenProperties
    <3>5. start[id] + Len(rcvd[id]) + Len(queue[id]) = Len(history)
      BY DEF LiveSeesAll
    <3>6. start[id] \in Nat /\ Len(rcvd[id]) \in Nat /\ Len(queue[id]) \in Nat /\ cap[id] \in Nat
      BY <2>0, Sizes DEF TypeOK
    <3> QED
      BY <3>2, <3>4, <3>5, <3>6
  <2>2. CASE \E s \in SubId : Leave(s) \/ SeeClosed(s)
    <3>1. PICK s \in SubId : Leave(s) \/ SeeClosed(s)
      BY <2>2
    <3>2. s = id
      BY <3>1 DEF Leave, SeeClosed, cancel
    <3> QED
      BY <3>1, <3>2 DEF Leave, SeeClosed, MapHoldsOpenChannels, TypeOK
  <2>3. CASE \E buf \in BufSizes, at \in {"reading", "busy"} : Subscribe(buf, at)
    BY <2>3 DEF Subscribe
  <2>4. CASE \E s \in SubId : Receive(s) \/ Handled(s)
    BY <2>4 DEF Receive, Handled, subVars
  <2> QED
    BY <2>1, <2>2, <2>3, <2>4 DEF Next
<1> QED
  BY <1>1, TypeCorrect, Delivery, PTL DEF Spec, EvictOnlyBehind

-----------------------------------------------------------------------------
\* What is known of the log.
Log == TypeOK /\ GapFree /\ Len(history) <= MaxEvents

DPc == {"init", "select", "post", "sleep", "stopped"}

WType ==
    /\ seq \in 0 .. MaxHooks
    /\ regs \subseteq 1 .. seq
    /\ todo \subseteq 1 .. seq
    /\ dpc \in DPc
    /\ attempt \in 0 .. Attempts - 1
    /\ got \in [Hook -> Seq(Position)]
    /\ tries \in [Hook -> [Position -> Nat]]
    /\ due \in [Position -> SUBSET Hook]
    /\ removedAt \in [Hook -> Nat]

Place ==
    /\ dpc = "init" => start[D] = 0 /\ rcvd[D] = << >> /\ nextSub = 0
    /\ dpc \in {"post", "sleep"} => Current >= 1
    /\ dpc \notin {"post", "sleep"} => todo = {}
    /\ dpc = "sleep" => attempt < Attempts - 1

\* Nothing was done yet about an event that was not taken.
Past ==
    /\ \A h \in Hook : \A j \in 1 .. Len(got[h]) : got[h][j] <= Current
    /\ \A h \in Hook : \A i \in Position : i > Current => tries[h][i] = 0
    /\ \A i \in Position : i > Current => due[i] = {}

\* The loop variable counts the posts to the hook being served; the others that
\* are still to be served had none.
Counted ==
    \A h \in todo :
        tries[h][Current] = IF ~Serving(h) THEN 0
                            ELSE IF dpc = "sleep" THEN attempt + 1 ELSE attempt

\* The places at which a sequence holds i.
Times(s, i) == {j \in DOMAIN s : s[j] = i}

Bounded ==
    \A h \in Hook : \A i \in Position :
        tries[h][i] <= Attempts /\ Cardinality(Times(got[h], i)) <= tries[h][i]

Ordered == \A h \in Hook : \A j \in 1 .. Len(got[h]) - 1 : got[h][j] <= got[h][j + 1]

\* A hook of the snapshot that is no longer registered was removed during this
\* delivery.
RemovedNow == \A h \in todo : h \notin regs => removedAt[h] = Current

WInv ==
    /\ WType /\ Place /\ Past /\ Counted /\ Bounded /\ Ordered
    /\ NoSilentSkip /\ RemovedGetsNoLaterEvent /\ RemovedNow

-----------------------------------------------------------------------------
\* The position of the dispatcher stays inside the log.
LEMMA InsideTheLog ==
  ASSUME Log
  PROVE  /\ D \in SubId /\ Current \in Nat /\ Current <= MaxEvents
         /\ start[D] \in Nat /\ rcvd[D] \in Seq(Event) /\ Len(rcvd[D]) \in Nat
         /\ queue[D] # << >> => Current + 1 \in Position
<1>1. D \in SubId
  BY WebhookConstantsOK DEF D, SubId
<1>2. /\ queue[D] \in Seq(Event) /\ Len(queue[D]) \in Nat
      /\ rcvd[D] \in Seq(Event) /\ Len(rcvd[D]) \in Nat
      /\ start[D] \in Nat /\ Len(history) \in Nat
  BY <1>1, Sizes DEF Log
<1>3. start[D] + Len(rcvd[D]) + Len(queue[D]) <= Len(history) /\ Len(history) <= MaxEvents
  BY <1>1 DEF Log, GapFree, GapFreeRun
<1>4. queue[D] # << >> => Len(queue[D]) >= 1
  BY <1>2, EmptySeq
<1> QED
  BY <1>1, <1>2, <1>3, <1>4, ConstantsOK, SMTT(30) DEF Current, Position

\* What one more element does to the places of an element.
LEMMA TimesGrow ==
  ASSUME NEW s \in Seq(Position), NEW c \in Position, NEW i
  PROVE  /\ Cardinality(Times(s, i)) \in Nat
         /\ Cardinality(Times(Append(s, c), i)) =
              IF i = c THEN Cardinality(Times(s, i)) + 1 ELSE Cardinality(Times(s, i))
<1> DEFINE n == Len(s)
<1> DEFINE t == Append(s, c)
<1>1. n \in Nat /\ DOMAIN s = 1 .. n
  BY LenProperties
<1>2. /\ t \in Seq(Position) /\ Len(t) = n + 1 /\ t[n + 1] = c
      /\ \A j \in 1 .. n : t[j] = s[j]
  BY <1>1, AppendProperties
<1>3. DOMAIN t = 1 .. n + 1
  BY <1>2, LenProperties
<1> HIDE DEF t, n
<1>4. IsFiniteSet(Times(s, i))
  <2>1. IsFiniteSet(1 .. n)
    BY <1>1, FS_Interval
  <2>2. Times(s, i) \in SUBSET (1 .. n)
    BY <1>1 DEF Times
  <2> QED  BY <2>1, <2>2, FS_Subset
<1>5. Times(t, i) = IF i = c THEN Times(s, i) \cup {n + 1} ELSE Times(s, i)
  BY <1>1, <1>2, <1>3 DEF Times
<1>6. n + 1 \notin Times(s, i)
  BY <1>1 DEF Times
<1>7. Cardinality(Times(s, i)) \in Nat
  BY <1>4, FS_CardinalityType
<1>8. Cardinality(Times(s, i) \cup {n + 1}) = Cardinality(Times(s, i)) + 1
  BY <1>4, <1>6, FS_AddElement
<1> QED
  BY <1>5, <1>7, <1>8 DEF t

\* The dispatcher is a reader of the log like any other.
LEMMA DispatcherIsReader == WSpec => Spec
<1>1. WInit => Init
  BY DEF WInit
<1>2. [WNext]_whVars => [Next]_vars
  <2> SUFFICES ASSUME WNext \/ UNCHANGED whVars PROVE Next \/ UNCHANGED vars
    OBVIOUS
  <2>1. D \in SubId
    BY WebhookConstantsOK DEF D, SubId
  <2>2. CASE \/ Register \/ (\E h \in Hook : Remove(h)) \/ Post \/ Wake \/ CtxDone
             \/ UNCHANGED whVars
    BY <2>2 DEF Register, Remove, Post, Wake, CtxDone, whVars
  <2>3. CASE Take \/ Delivered \/ RunCancelled \/ RunEvicted
    BY <2>1, <2>3 DEF Take, Delivered, RunCancelled, RunEvicted, Next
  <2>4. CASE \E buf \in BufSizes : RunStart(buf)
    BY <2>4 DEF RunStart, Next
  <2>5. CASE \E k \in Key, x \in Payload : Publish(k, x)
    BY <2>5 DEF Publish, Next
  <2> QED  BY <2>2, <2>3, <2>4, <2>5 DEF WNext
<1> QED
  BY <1>1, <1>2, PTL DEF WSpec, Spec

\* The bound on the number of events.
LEMMA HistoryBounded == Spec => [](Len(history) <= MaxEvents)
<1> DEFINE B == Len(history) <= MaxEvents
<1>1. Init => B
  BY ConstantsOK DEF Init
<1>2. TypeOK /\ B /\ [Next]_vars => B'
  <2> SUFFICES ASSUME TypeOK, B, [Next]_vars PROVE B'
    OBVIOUS
  <2>1. ASSUME NEW k \in Key, NEW x \in Payload, AppendEvent(k, x) PROVE B'
    <3>1. history \in Seq(Event) /\ NewEvent(k, x) \in Event
      BY NewEventType DEF TypeOK
    <3>2. Len(history') = Len(history) + 1 /\ Len(history) \in Nat /\ Len(history) < MaxEvents
      BY <2>1, <3>1, AppendProperties, LenProperties DEF AppendEvent
    <3> QED  BY <3>2, ConstantsOK
  <2>2. CASE \E buf \in BufSizes, at \in {"reading", "busy"} : Subscribe(buf, at)
    BY <2>2 DEF Subscribe, logVars
  <2>3. CASE \E id \in SubId : Receive(id) \/ Handled(id) \/ Leave(id) \/ SeeClosed(id)
    BY <2>3 DEF Receive, Handled, Leave, SeeClosed, logVars
  <2>4. CASE UNCHANGED vars
    BY <2>4 DEF vars
  <2> QED  BY <2>1, <2>2, <2>3, <2>4 DEF Next
<1> QED
  BY <1>1, <1>2, TypeCorrect, PTL DEF Spec

\* So the log's own guarantees hold beside the dispatcher.
LEMMA LogAlways == WSpec => []Log
<1>1. TypeOK /\ (MapHoldsOpenChannels /\ GapFree /\ LiveSeesAll) /\ Len(history) <= MaxEvents => Log
  BY DEF Log
<1> QED
  BY <1>1, DispatcherIsReader, TypeCorrect, Delivery, HistoryBounded, PTL

-----------------------------------------------------------------------------
\* Steps that neither deliver nor touch the registrations.
LEMMA AsideKeeps ==
  ASSUME WInv, Log, Place', dpc' \in DPc, Current' \in Nat,
         UNCHANGED <<todo, attempt, got, tries, due, regVars>>,
         Current' >= Current,
         todo = {} \/ (Current' = Current /\ dpc' = dpc)
  PROVE  WInv'
<1>1. Current \in Nat /\ Current' \in Nat /\ Current <= Current'
  BY InsideTheLog
<1>2. UNCHANGED <<regs, seq, removedAt>>
  BY DEF regVars
<1>3. WType'
  BY <1>2 DEF WInv, WType
<1>4. Past'
  <2>1. ASSUME NEW h \in Hook, NEW j \in 1 .. Len(got[h]) PROVE got[h][j] <= Current'
    <3>1. got[h] \in Seq(Position)
      BY DEF WInv, WType
    <3>2. got[h][j] \in Position
      BY <3>1, ElementOfSeq
    <3>3. got[h][j] <= Current
      BY DEF WInv, Past
    <3> QED  BY <1>1, <3>2, <3>3 DEF Position
  <2>2. \A i \in Position : i > Current' => i > Current
    BY <1>1 DEF Position
  <2> QED  BY <2>1, <2>2 DEF WInv, Past
<1>5. Counted' /\ RemovedNow'
  BY <1>2 DEF WInv, Counted, Serving, RemovedNow
<1>6. Bounded' /\ Ordered' /\ RemovedGetsNoLaterEvent'
  BY <1>2 DEF WInv, Bounded, Ordered, RemovedGetsNoLaterEvent, Times
<1>7. NoSilentSkip'
  BY DEF WInv, NoSilentSkip, Received
<1> QED
  BY <1>3, <1>4, <1>5, <1>6, <1>7 DEF WInv

\* A hook is registered.
LEMMA RegisterKeeps ==
  ASSUME WInv, Log, Register
  PROVE  WInv'
<1>1. /\ seq < MaxHooks /\ seq' = seq + 1 /\ regs' = regs \cup {seq + 1}
      /\ UNCHANGED <<vars, dpc, todo, attempt, got, tries, due, removedAt>>
  BY DEF Register, runVars, ghostVars
<1>2. UNCHANGED <<start, rcvd, nextSub>> /\ Current' = Current
  BY <1>1 DEF vars, Current
<1>3. seq \in Nat /\ MaxHooks \in Nat
  BY WebhookConstantsOK DEF WInv, WType
<1>4. WType'
  BY <1>1, <1>3 DEF WInv, WType
<1>5. Place' /\ Past' /\ Counted' /\ Bounded' /\ Ordered' /\ NoSilentSkip'
  <2>1. Place' /\ Past'
    BY <1>1, <1>2 DEF WInv, Place, Past
  <2>2. Counted'
    BY <1>1, <1>2 DEF WInv, Counted, Serving
  <2>3. Bounded' /\ Ordered'
    BY <1>1 DEF WInv, Bounded, Times, Ordered
  <2>4. NoSilentSkip'
    BY <1>1, <1>2 DEF WInv, NoSilentSkip, Received
  <2> QED  BY <2>1, <2>2, <2>3, <2>4
<1>6. RemovedNow'
  BY <1>1, <1>2 DEF WInv, RemovedNow
<1>7. RemovedGetsNoLaterEvent'
  <2> SUFFICES ASSUME NEW h \in Hook, h <= seq + 1, h \notin regs \cup {seq + 1}
               PROVE  \A j \in DOMAIN got[h] : got[h][j] <= removedAt[h]
    BY <1>1 DEF RemovedGetsNoLaterEvent
  <2>1. h <= seq /\ h \notin regs
    BY <1>3 DEF Hook
  <2> QED  BY <2>1 DEF WInv, RemovedGetsNoLaterEvent
<1> QED
  BY <1>4, <1>5, <1>6, <1>7 DEF WInv

\* A hook is removed, in whatever state Deliver is.
LEMMA RemoveKeeps ==
  ASSUME WInv, Log, NEW h \in Hook, Remove(h)
  PROVE  WInv'
<1>1. /\ h \in regs /\ regs' = regs \ {h} /\ removedAt' = [removedAt EXCEPT ![h] = Current]
      /\ UNCHANGED <<vars, seq, dpc, todo, attempt, got, tries, due>>
  BY DEF Remove, runVars, ghostVars
<1>2. UNCHANGED <<start, rcvd, nextSub>> /\ Current' = Current
  BY <1>1 DEF vars, Current
<1>3. Current \in Nat
  BY InsideTheLog
<1>4. /\ removedAt' \in [Hook -> Nat] /\ removedAt'[h] = Current
      /\ \A g \in Hook : g # h => removedAt'[g] = removedAt[g]
  BY <1>1, <1>3 DEF WInv, WType
<1>5. WType'
  BY <1>1, <1>4 DEF WInv, WType
<1>6. Place' /\ Past' /\ Counted' /\ Bounded' /\ Ordered' /\ NoSilentSkip'
  <2>1. Place' /\ Past'
    BY <1>1, <1>2 DEF WInv, Place, Past
  <2>2. Counted'
    BY <1>1, <1>2 DEF WInv, Counted, Serving
  <2>3. Bounded' /\ Ordered'
    BY <1>1 DEF WInv, Bounded, Times, Ordered
  <2>4. NoSilentSkip'
    BY <1>1, <1>2 DEF WInv, NoSilentSkip, Received
  <2> QED  BY <2>1, <2>2, <2>3, <2>4
<1>7. RemovedNow'
  <2>1. \A g \in todo : g \in Hook
    BY WebhookConstantsOK DEF WInv, WType, Hook
  <2> QED  BY <1>1, <1>2, <1>4, <2>1 DEF WInv, RemovedNow
<1>8. RemovedGetsNoLaterEvent'
  <2> SUFFICES ASSUME NEW g \in Hook, g <= seq, g \notin regs \ {h}, NEW j \in DOMAIN got[g]
               PROVE  got[g][j] <= removedAt'[g]
    BY <1>1 DEF RemovedGetsNoLaterEvent
  <2>1. CASE g # h
    BY <1>4, <2>1 DEF WInv, RemovedGetsNoLaterEvent
  <2>2. CASE g = h
    <3>1. got[g] \in Seq(Position)
      BY DEF WInv, WType
    <3>2. j \in 1 .. Len(got[g])
      BY <3>1, LenProperties
    <3> QED  BY <1>4, <2>2, <3>2 DEF WInv, Past
  <2> QED  BY <2>1, <2>2
<1> QED
  BY <1>5, <1>6, <1>7, <1>8 DEF WInv

\* Run takes an event: Deliver starts with the hooks registered now.
LEMMA TakeKeeps ==
  ASSUME WInv, Log, Take
  PROVE  WInv'
<1> DEFINE c == Current + 1
<1>1. /\ D \in SubId /\ Current \in Nat /\ start[D] \in Nat /\ rcvd[D] \in Seq(Event)
      /\ Len(rcvd[D]) \in Nat /\ queue[D] \in Seq(Event) /\ c \in Position
  BY InsideTheLog DEF Take, Receive, Log, TypeOK
<1>2. /\ dpc = "select" /\ todo' = regs /\ attempt' = 0
      /\ dpc' = "post"
      /\ due' = [due EXCEPT ![c] = regs]
      /\ UNCHANGED <<regs, seq, removedAt, got, tries>>
  BY DEF Take, List, regVars
<1>3. Current' = c
  <2>1. queue[D] # << >> /\ rcvd' = [rcvd EXCEPT ![D] = Append(@, Head(queue[D]))] /\ start' = start
    BY DEF Take, Receive, subVars
  <2>2. rcvd'[D] = Append(rcvd[D], Head(queue[D]))
    BY <1>1, <2>1 DEF Log, TypeOK
  <2>3. Head(queue[D]) \in Event
    BY <1>1, <2>1, HeadTailProperties
  <2>4. Len(rcvd'[D]) = Len(rcvd[D]) + 1
    BY <1>1, <2>2, <2>3, AppendProperties
  <2> QED  BY <1>1, <2>1, <2>4 DEF Current
<1> HIDE DEF c
<1>4. c \in Nat /\ c >= 1 /\ c > Current /\ Attempts \in Nat \ {0}
  BY <1>1, WebhookConstantsOK DEF c
<1>5. todo = {} /\ regs \subseteq Hook
  BY <1>2, WebhookConstantsOK DEF WInv, Place, WType, Hook
<1>6. WType'
  <2>1. due' \in [Position -> SUBSET Hook]
    BY <1>1, <1>2, <1>5 DEF WInv, WType
  <2> QED  BY <1>2, <1>4, <2>1 DEF WInv, WType, DPc
<1>7. Place'
  BY <1>2, <1>3, <1>4 DEF Place
<1>8. Past'
  <2>1. ASSUME NEW h \in Hook, NEW j \in 1 .. Len(got[h]) PROVE got[h][j] <= c
    <3>1. got[h] \in Seq(Position)
      BY DEF WInv, WType
    <3>2. got[h][j] \in Position /\ got[h][j] <= Current
      BY <3>1, ElementOfSeq DEF WInv, Past
    <3> QED  BY <1>1, <1>4, <3>2 DEF Position
  <2>2. \A i \in Position : i > c => i > Current /\ i # c
    BY <1>1, <1>4 DEF Position
  <2>3. \A i \in Position : i > c => due'[i] = due[i]
    BY <1>1, <1>2, <2>2 DEF WInv, WType
  <2> QED  BY <1>2, <1>3, <2>1, <2>2, <2>3 DEF WInv, Past
<1>9. Counted'
  <2>1. \A h \in regs : tries[h][c] = 0
    BY <1>1, <1>4, <1>5 DEF WInv, Past
  <2> QED  BY <1>2, <1>3, <2>1 DEF Counted
<1>10. Bounded' /\ Ordered' /\ RemovedGetsNoLaterEvent'
  BY <1>2 DEF WInv, Bounded, Times, Ordered, RemovedGetsNoLaterEvent
<1>11. RemovedNow'
  BY <1>2 DEF RemovedNow
<1>12. NoSilentSkip'
  <2> SUFFICES ASSUME NEW i \in Position, NEW h \in due'[i]
               PROVE  Received(h, i) \/ tries[h][i] = Attempts \/ (i = c /\ h \in regs)
    BY <1>2, <1>3 DEF NoSilentSkip, Received
  <2>1. CASE i = c
    BY <1>1, <1>2, <2>1 DEF WInv, WType
  <2>2. CASE i # c
    <3>1. h \in due[i]
      BY <1>2, <2>2 DEF WInv, WType
    <3> QED  BY <1>5, <3>1 DEF WInv, NoSilentSkip
  <2> QED  BY <2>1, <2>2
<1> QED
  BY <1>6, <1>7, <1>8, <1>9, <1>10, <1>11, <1>12 DEF WInv

\* The backoff is over: the loop variable advances.
LEMMA WakeKeeps ==
  ASSUME WInv, Log, Wake
  PROVE  WInv'
<1>1. /\ dpc = "sleep" /\ dpc' = "post" /\ attempt' = attempt + 1
      /\ UNCHANGED <<vars, regs, seq, removedAt, todo, got, tries, due>>
  BY DEF Wake, NextAttempt, regVars, ghostVars
<1>2. UNCHANGED <<start, rcvd, nextSub>> /\ Current' = Current
  BY <1>1 DEF vars, Current
<1>3. attempt \in Nat /\ attempt < Attempts - 1 /\ Attempts \in Nat
  BY <1>1, WebhookConstantsOK DEF WInv, WType, Place
<1>4. WType'
  BY <1>1, <1>3 DEF WInv, WType, DPc
<1>5. Place'
  BY <1>1, <1>2 DEF WInv, Place
<1>6. Past' /\ RemovedNow'
  BY <1>1, <1>2 DEF WInv, Past, RemovedNow
<1>7. Counted'
  BY <1>1, <1>2 DEF WInv, Counted, Serving
<1>8. Bounded' /\ Ordered' /\ RemovedGetsNoLaterEvent'
  BY <1>1 DEF WInv, Bounded, Times, Ordered, RemovedGetsNoLaterEvent
<1>9. NoSilentSkip'
  BY <1>1, <1>2 DEF WInv, NoSilentSkip, Received
<1> QED
  BY <1>4, <1>5, <1>6, <1>7, <1>8, <1>9 DEF WInv

\* A post to hook h: the ghosts.  It counts as one more try, and may have reached
\* the endpoint.
LEMMA PostKeepsGhosts ==
  ASSUME WInv, Log, NEW h \in todo, Serving(h), dpc = "post",
         tries' = [tries EXCEPT ![h][Current] = @ + 1],
         got' = got \/ got' = [got EXCEPT ![h] = Append(@, Current)],
         Current' = Current, UNCHANGED <<regs, seq, removedAt, due>>
  PROVE  /\ got' \in [Hook -> Seq(Position)] /\ tries' \in [Hook -> [Position -> Nat]]
         /\ tries[h][Current] = attempt /\ tries'[h][Current] = attempt + 1
         /\ \A g \in Hook : g # h => tries'[g][Current] = tries[g][Current]
         /\ \A g \in Hook, i \in Position : Received(g, i) => Received(g, i)'
         /\ \A g \in Hook, i \in Position : g # h \/ i # Current => tries'[g][i] = tries[g][i]
         /\ got' # got => \E j \in DOMAIN got'[h] : got'[h][j] = Current
         /\ Past' /\ Bounded' /\ Ordered' /\ RemovedGetsNoLaterEvent'
<1> DEFINE c == Current
<1>1. /\ h \in Hook /\ c \in Position /\ h <= seq
      /\ \A g \in Hook : got[g] \in Seq(Position) /\ Len(got[g]) \in Nat
                         /\ DOMAIN got[g] = 1 .. Len(got[g])
  <2>1. h \in Hook /\ h <= seq
    BY WebhookConstantsOK DEF WInv, WType, Hook
  <2>2. c \in Position
    BY InsideTheLog, ConstantsOK DEF WInv, Place, Position
  <2>3. \A g \in Hook : got[g] \in Seq(Position)
    BY DEF WInv, WType
  <2> QED  BY <2>1, <2>2, <2>3, LenProperties
<1> HIDE DEF c
<1>2. attempt \in Nat /\ attempt + 1 <= Attempts /\ Attempts \in Nat
  BY WebhookConstantsOK DEF WInv, WType
<1>3. tries[h][c] = attempt
  BY DEF WInv, Counted, c
<1>4. /\ tries' \in [Hook -> [Position -> Nat]] /\ tries'[h][c] = attempt + 1
      /\ \A g \in Hook, i \in Position : g # h \/ i # c => tries'[g][i] = tries[g][i]
  BY <1>1, <1>2, <1>3 DEF WInv, WType, c
<1> DEFINE s == got[h]
<1> DEFINE n == Len(s)
<1> DEFINE t == Append(s, c)
<1>5. /\ t \in Seq(Position) /\ Len(t) = n + 1 /\ t[n + 1] = c /\ DOMAIN t = 1 .. n + 1
      /\ \A j \in 1 .. n : t[j] = s[j]
  BY <1>1, AppendProperties, LenProperties
<1>6. /\ got' \in [Hook -> Seq(Position)]
      /\ \A g \in Hook : g # h => got'[g] = got[g]
      /\ got'[h] = s \/ got'[h] = t
      /\ got' # got => got'[h] = t
  BY <1>1, <1>5 DEF WInv, WType, c
<1>7. \A j \in 1 .. n : s[j] \in Position /\ s[j] <= c
  BY <1>1, ElementOfSeq DEF WInv, Past, c
<1>8. \A g \in Hook, i \in Position : Received(g, i) => Received(g, i)'
  <2> SUFFICES ASSUME NEW g \in Hook, NEW i \in Position, NEW j \in DOMAIN got[g], got[g][j] = i
               PROVE  \E k \in DOMAIN got'[g] : got'[g][k] = i
    BY DEF Received
  <2>1. CASE got'[g] = got[g]
    BY <2>1
  <2>2. CASE g = h /\ got'[h] = t
    <3>1. j \in 1 .. n /\ j \in 1 .. n + 1 /\ t[j] = i
      BY <1>1, <1>5, <2>2
    <3> QED  BY <1>5, <2>2, <3>1
  <2> QED  BY <1>6, <2>1, <2>2
<1>9. got' # got => \E j \in DOMAIN got'[h] : got'[h][j] = c
  BY <1>1, <1>5, <1>6
<1>10. Past'
  <2>1. ASSUME NEW g \in Hook, NEW j \in 1 .. Len(got'[g]) PROVE got'[g][j] <= c
    <3>1. CASE got'[g] = got[g]
      BY <3>1 DEF WInv, Past, c
    <3>2. CASE g = h /\ got'[h] = t
      <4>1. j \in 1 .. n \/ j = n + 1
        BY <1>1, <1>5, <3>2
      <4>2. c <= c
        BY <1>1 DEF Position
      <4> QED  BY <1>5, <1>7, <3>2, <4>1, <4>2
    <3> QED  BY <1>6, <3>1, <3>2
  <2>2. ASSUME NEW g \in Hook, NEW i \in Position, i > c PROVE tries'[g][i] = 0
    <3>1. i # c
      BY <1>1, <2>2 DEF Position
    <3> QED  BY <1>4, <2>2, <3>1 DEF WInv, Past, c
  <2> QED  BY <2>1, <2>2 DEF WInv, Past, c
<1>11. Bounded'
  <2> SUFFICES ASSUME NEW g \in Hook, NEW i \in Position
               PROVE  tries'[g][i] <= Attempts /\ Cardinality(Times(got'[g], i)) <= tries'[g][i]
    BY DEF Bounded, Times
  <2>1. /\ tries[g][i] <= Attempts /\ Cardinality(Times(got[g], i)) <= tries[g][i]
        /\ tries[g][i] \in Nat
    BY DEF WInv, Bounded, WType
  <2>2. CASE g # h
    BY <1>4, <1>6, <2>1, <2>2
  <2>3. CASE g = h
    <3>1. /\ Cardinality(Times(s, i)) \in Nat
          /\ Cardinality(Times(t, i)) =
               IF i = c THEN Cardinality(Times(s, i)) + 1 ELSE Cardinality(Times(s, i))
      BY <1>1, TimesGrow
    <3>2. CASE i = c
      <4>1. Cardinality(Times(s, i)) <= attempt
        BY <1>3, <2>1, <2>3, <3>2
      <4>2. Cardinality(Times(s, i)) <= attempt + 1 /\ Cardinality(Times(t, i)) <= attempt + 1
        BY <1>2, <3>1, <3>2, <4>1
      <4> HIDE DEF s, t
      <4> QED  BY <1>2, <1>4, <1>6, <2>3, <3>2, <4>2
    <3>3. CASE i # c
      BY <1>4, <1>6, <2>1, <2>3, <3>1, <3>3
    <3> QED  BY <3>2, <3>3
  <2> QED  BY <2>2, <2>3
<1>12. Ordered'
  <2> SUFFICES ASSUME NEW g \in Hook, NEW j \in 1 .. Len(got'[g]) - 1
               PROVE  got'[g][j] <= got'[g][j + 1]
    BY DEF Ordered
  <2>1. CASE got'[g] = got[g]
    BY <2>1 DEF WInv, Ordered
  <2>2. CASE g = h /\ got'[h] = t
    <3>1. j \in 1 .. n - 1 \/ j = n
      BY <1>1, <1>5, <2>2
    <3>2. CASE j = n
      BY <1>5, <1>7, <2>2, <3>2
    <3>3. CASE j \in 1 .. n - 1
      <4>1. j \in 1 .. n /\ j + 1 \in 1 .. n
        BY <1>1, <3>3
      <4>2. s[j] <= s[j + 1]
        BY <1>1, <3>3 DEF WInv, Ordered
      <4> QED  BY <1>5, <2>2, <4>1, <4>2
    <3> QED  BY <3>1, <3>2, <3>3
  <2> QED  BY <1>6, <2>1, <2>2
<1>13. RemovedGetsNoLaterEvent'
  <2> SUFFICES ASSUME NEW g \in Hook, g <= seq, g \notin regs, NEW j \in DOMAIN got'[g]
               PROVE  got'[g][j] <= removedAt[g]
    BY DEF RemovedGetsNoLaterEvent
  <2>1. CASE got'[g] = got[g]
    BY <2>1 DEF WInv, RemovedGetsNoLaterEvent
  <2>2. CASE g = h /\ got'[h] = t
    <3>1. removedAt[h] = c
      BY <2>2 DEF WInv, RemovedNow, c
    <3>2. j \in 1 .. n \/ j = n + 1
      BY <1>1, <1>5, <2>2
    <3>3. c <= c
      BY <1>1 DEF Position
    <3> QED  BY <1>5, <1>7, <2>2, <3>1, <3>2, <3>3
  <2> QED  BY <1>6, <2>1, <2>2
<1> QED
  BY <1>1, <1>3, <1>4, <1>6, <1>8, <1>9, <1>10, <1>11, <1>12, <1>13 DEF c

\* A post, and what Deliver does after it: it sleeps, or is done with the hook
\* because that received the event or because no attempt is left.
LEMMA PostKeeps ==
  ASSUME WInv, Log, Post
  PROVE  WInv'
<1>1. dpc = "post" /\ UNCHANGED <<vars, regs, seq, removedAt, due>>
  BY DEF Post, regVars
<1>2. UNCHANGED <<start, rcvd, nextSub>> /\ Current' = Current
  BY <1>1 DEF vars, Current
<1>3. PICK h \in todo :
        /\ Serving(h)
        /\ tries' = [tries EXCEPT ![h][Current] = @ + 1]
        /\ \/ /\ got' = [got EXCEPT ![h] = Append(@, Current)]
              /\ NextHook(h) \/ PostFailed(h)
           \/ PostFailed(h) /\ got' = got
  BY DEF Post
<1>4. /\ got' \in [Hook -> Seq(Position)] /\ tries' \in [Hook -> [Position -> Nat]]
      /\ tries[h][Current] = attempt /\ tries'[h][Current] = attempt + 1
      /\ \A g \in Hook : g # h => tries'[g][Current] = tries[g][Current]
      /\ \A g \in Hook, i \in Position : Received(g, i) => Received(g, i)'
      /\ \A g \in Hook, i \in Position : g # h \/ i # Current => tries'[g][i] = tries[g][i]
      /\ got' # got => \E j \in DOMAIN got'[h] : got'[h][j] = Current
      /\ Past' /\ Bounded' /\ Ordered' /\ RemovedGetsNoLaterEvent'
  <2>1. got' = got \/ got' = [got EXCEPT ![h] = Append(@, Current)]
    BY <1>3
  <2> QED  BY <1>1, <1>2, <1>3, <2>1, PostKeepsGhosts
<1>5. /\ attempt \in 0 .. Attempts - 1 /\ Attempts \in Nat \ {0} /\ todo \subseteq Hook
      /\ seq \in Nat /\ \A g \in todo : g \in Nat
  BY WebhookConstantsOK DEF WInv, WType, Hook
<1>6. \A g \in todo : g # h => ~Serving(g) /\ tries'[g][Current] = 0
  <2> SUFFICES ASSUME NEW g \in todo, g # h PROVE ~Serving(g) /\ tries'[g][Current] = 0
    OBVIOUS
  <2>1. ~Serving(g)
    BY <1>3, <1>5 DEF Serving
  <2> QED  BY <1>4, <1>5, <2>1 DEF WInv, Counted
<1>7. CASE dpc' = "sleep" /\ attempt < Attempts - 1 /\ UNCHANGED <<todo, attempt>>
  <2>1. WType'
    BY <1>1, <1>4, <1>7 DEF WInv, WType, DPc
  <2>2. Place'
    BY <1>1, <1>2, <1>7 DEF WInv, Place
  <2>3. Counted'
    BY <1>2, <1>3, <1>4, <1>6, <1>7 DEF Counted, Serving
  <2>4. RemovedNow'
    BY <1>1, <1>2, <1>7 DEF WInv, RemovedNow
  <2>5. NoSilentSkip'
    <3> SUFFICES ASSUME NEW i \in Position, NEW g \in due[i]
                 PROVE  Received(g, i)' \/ tries'[g][i] = Attempts \/ (i = Current /\ g \in todo)
      BY <1>1, <1>2, <1>7 DEF NoSilentSkip
    <3>1. g \in Hook
      BY DEF WInv, WType
    <3>2. Received(g, i) \/ tries[g][i] = Attempts \/ (i = Current /\ g \in todo)
      BY DEF WInv, NoSilentSkip
    <3>3. CASE g = h /\ i = Current
      BY <3>3
    <3>4. CASE g # h \/ i # Current
      BY <1>4, <3>1, <3>2, <3>4
    <3> QED  BY <3>3, <3>4
  <2> QED  BY <1>4, <2>1, <2>2, <2>3, <2>4, <2>5 DEF WInv
<1>8. CASE NextHook(h) /\ (got' # got \/ attempt = Attempts - 1)
  <2>1. todo' = todo \ {h} /\ attempt' = 0 /\ dpc' = "post"
    BY <1>8 DEF NextHook
  <2>2. WType'
    BY <1>1, <1>4, <1>5, <2>1 DEF WInv, WType, DPc
  <2>3. Place'
    BY <1>1, <1>2, <2>1 DEF WInv, Place
  <2>4. Counted'
    BY <1>2, <1>6, <2>1 DEF Counted
  <2>5. RemovedNow'
    BY <1>1, <1>2, <2>1 DEF WInv, RemovedNow
  <2>6. NoSilentSkip'
    <3> SUFFICES ASSUME NEW i \in Position, NEW g \in due[i]
                 PROVE  \/ Received(g, i)' \/ tries'[g][i] = Attempts
                        \/ i = Current /\ g \in todo \ {h}
      BY <1>1, <1>2, <2>1 DEF NoSilentSkip
    <3>1. g \in Hook
      BY DEF WInv, WType
    <3>2. Received(g, i) \/ tries[g][i] = Attempts \/ (i = Current /\ g \in todo)
      BY DEF WInv, NoSilentSkip
    <3>3. CASE g = h /\ i = Current
      <4>1. got' # got => Received(g, i)'
        BY <1>4, <3>3 DEF Received
      <4>2. attempt = Attempts - 1 => tries'[g][i] = Attempts
        BY <1>4, <1>5, <3>3
      <4> QED  BY <1>8, <4>1, <4>2
    <3>4. CASE g # h \/ i # Current
      BY <1>4, <3>1, <3>2, <3>4
    <3> QED  BY <3>3, <3>4
  <2> QED  BY <1>4, <2>2, <2>3, <2>4, <2>5, <2>6 DEF WInv
<1>9. got' = [got EXCEPT ![h] = Append(@, Current)] => got' # got
  <2>1. h \in Hook /\ got[h] \in Seq(Position) /\ Current \in Position
    BY <1>1, <1>5, InsideTheLog, ConstantsOK DEF WInv, WType, Place, Position
  <2>2. Len(Append(got[h], Current)) = Len(got[h]) + 1 /\ Len(got[h]) \in Nat
    BY <2>1, AppendProperties, LenProperties
  <2>3. Append(got[h], Current) # got[h]
    BY <2>2
  <2> QED  BY <2>1, <2>3 DEF WInv, WType
<1>10. PostFailed(h) => \/ dpc' = "sleep" /\ attempt < Attempts - 1 /\ UNCHANGED <<todo, attempt>>
                        \/ NextHook(h) /\ attempt = Attempts - 1
  BY <1>5 DEF PostFailed
<1> QED
  BY <1>3, <1>7, <1>8, <1>9, <1>10

-----------------------------------------------------------------------------
\* The invariant of the dispatcher.
LEMMA DispatcherAlways == WSpec => []WInv
<1>1. WInit => WInv
  <2> SUFFICES ASSUME WInit PROVE WInv
    OBVIOUS
  <2>1. D \in SubId
    BY WebhookConstantsOK DEF D, SubId
  <2>2. start[D] = 0 /\ rcvd[D] = << >> /\ nextSub = 0
    BY <2>1 DEF WInit, Init
  <2>3. WType
    BY WebhookConstantsOK DEF WInit, WType, DPc
  <2>4. Place /\ Counted /\ RemovedNow /\ NoSilentSkip
    BY <2>2 DEF WInit, Place, Counted, RemovedNow, NoSilentSkip
  <2>5. Past /\ Ordered /\ RemovedGetsNoLaterEvent
    BY DEF WInit, Past, Ordered, RemovedGetsNoLaterEvent
  <2>6. Bounded
    <3>1. \A h \in Hook, i \in Position : Times(got[h], i) = {}
      BY DEF WInit, Times
    <3>2. \A h \in Hook, i \in Position : tries[h][i] = 0
      BY DEF WInit
    <3>3. Cardinality({}) = 0 /\ 0 <= Attempts
      BY FS_EmptySet, WebhookConstantsOK
    <3>4. \A h \in Hook, i \in Position : Cardinality(Times(got[h], i)) = 0
      BY <3>1, <3>3
    <3> QED  BY <3>2, <3>3, <3>4 DEF Bounded
  <2> QED  BY <2>3, <2>4, <2>5, <2>6 DEF WInv
<1>2. WInv /\ Log /\ [WNext]_whVars => WInv'
  <2> SUFFICES ASSUME WInv, Log, [WNext]_whVars PROVE WInv'
    OBVIOUS
  <2>1. D \in SubId /\ Current \in Nat
    BY InsideTheLog
  <2>2. ASSUME NEW buf \in BufSizes, RunStart(buf) PROVE WInv'
    <3>1. /\ dpc = "init" /\ dpc' = "select" /\ UNCHANGED <<todo, attempt, got, tries, due, regVars>>
          /\ start' = [start EXCEPT ![nextSub] = Len(history)] /\ rcvd' = rcvd
      BY <2>2 DEF RunStart, Subscribe, ghostVars
    <3>2. start[D] = 0 /\ rcvd[D] = << >> /\ nextSub = D /\ todo = {}
      BY <3>1 DEF WInv, Place, D
    <3>3. Len(history) \in Nat
      BY LenProperties DEF Log, TypeOK
    <3>4. Current = 0 /\ Current' = Len(history)
      BY <2>1, <3>1, <3>2, <3>3 DEF Current, Log, TypeOK
    <3>5. Place' /\ dpc' \in DPc
      BY <3>1, <3>2 DEF Place, DPc
    <3>6. Current' \in Nat /\ Current' >= Current
      BY <3>3, <3>4
    <3> QED  BY <3>1, <3>2, <3>5, <3>6, AsideKeeps
  <2>3. ASSUME UNCHANGED <<start, rcvd>>, UNCHANGED <<todo, attempt, got, tries, due, regVars>>,
               \/ UNCHANGED <<dpc, nextSub>>
               \/ dpc = "select" /\ dpc' = "stopped"
               \/ dpc = "post" /\ todo = {} /\ dpc' = "select"
        PROVE  WInv'
    <3>1. Current' = Current
      BY <2>3 DEF Current
    <3>2. Place' /\ dpc' \in DPc
      BY <2>3, <3>1 DEF WInv, WType, Place, DPc
    <3>3. todo = {} \/ dpc' = dpc
      BY <2>3 DEF WInv, Place
    <3>4. Current' \in Nat /\ Current' >= Current
      BY <2>1, <3>1
    <3> QED  BY <2>3, <3>1, <3>2, <3>3, <3>4, AsideKeeps
  <2>4. CASE CtxDone \/ UNCHANGED whVars
    BY <2>3, <2>4 DEF CtxDone, whVars, vars, runVars, ghostVars
  <2>5. CASE RunCancelled \/ RunEvicted
    BY <2>3, <2>5 DEF RunCancelled, RunEvicted, Leave, SeeClosed, ghostVars
  <2>6. CASE \E k \in Key, x \in Payload : Publish(k, x)
    BY <2>3, <2>6 DEF Publish, AppendEvent, recvVars, runVars, ghostVars
  <2>7. CASE Delivered
    BY <2>3, <2>7 DEF Delivered, Handled, subVars, ghostVars
  <2> QED
    BY <2>2, <2>4, <2>5, <2>6, <2>7, RegisterKeeps, RemoveKeeps, TakeKeeps, PostKeeps, WakeKeeps DEF WNext
<1> QED
  BY <1>1, <1>2, LogAlways, PTL DEF WSpec

\* Every hook sees the events in log order, each at most Attempts times and only
\* in a row, however registrations come and go and whatever posts are lost.
THEOREM InLogOrder == WSpec => []HooksInOrder
<1>1. WInv => HooksInOrder
  <2> SUFFICES ASSUME WInv, NEW h \in Hook
               PROVE  /\ \A j \in 1 .. Len(got[h]) - 1 : got[h][j] <= got[h][j + 1]
                      /\ \A i \in Position :
                           Cardinality({j \in DOMAIN got[h] : got[h][j] = i}) <= Attempts
    BY DEF HooksInOrder
  <2>1. ASSUME NEW i \in Position
        PROVE  Cardinality(Times(got[h], i)) <= Attempts
    <3>1. /\ tries[h][i] <= Attempts /\ Cardinality(Times(got[h], i)) <= tries[h][i]
          /\ tries[h][i] \in Nat /\ Attempts \in Nat /\ got[h] \in Seq(Position)
      BY WebhookConstantsOK DEF WInv, WType, Bounded
    <3>2. Cardinality(Times(got[h], i)) \in Nat
      BY <3>1, TimesGrow
    <3> QED  BY <3>1, <3>2
  <2> QED  BY <2>1 DEF WInv, Ordered, Times
<1> QED
  BY <1>1, DispatcherAlways, PTL

\* Deliver moves on from a hook only when the hook has the event or every attempt
\* was used: no event is skipped in silence.
THEOREM AtLeastOnceOrExhausted == WSpec => []NoSilentSkip
<1>1. WInv => NoSilentSkip
  BY DEF WInv
<1> QED
  BY <1>1, DispatcherAlways, PTL

\* A removed hook receives nothing later than the event that was in delivery when
\* it was removed, although Deliver works on a snapshot of the registrations.
THEOREM RemoveTakesEffect == WSpec => []RemovedGetsNoLaterEvent
<1>1. WInv => RemovedGetsNoLaterEvent
  BY DEF WInv
<1> QED
  BY <1>1, DispatcherAlways, PTL

=============================================================================
