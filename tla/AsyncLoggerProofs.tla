-------------------------- MODULE AsyncLoggerProofs --------------------------
(***************************************************************************)
(* What the asynchronous logger may lose and what it may not, for a queue  *)
(* of any size and any number of messages.                                 *)
(***************************************************************************)
EXTENDS AsyncLogger, TLAPS

HoldsLog == worker = "busy" /\ hand.type = "log"

InQueue(n) == \E i \in 1..Len(queue) : queue[i].type = "log" /\ queue[i].n = n
InHand(n) == HoldsLog /\ hand.n = n
IsWritten(n) == \E i \in 1..Len(written) : written[i] = n

\* No message is forgotten.
Accounted ==
  \A n \in 1..logged : IsWritten(n) \/ InHand(n) \/ InQueue(n) \/ n \in lost

\* Written, in hand, queue: in the order of their numbers.
WrittenOrdered ==
  /\ \A i \in 1..Len(written) : written[i] <= logged
  /\ \A i, j \in 1..Len(written) : i < j => written[i] < written[j]

HandOrdered ==
  HoldsLog => /\ hand.n <= logged
              /\ \A i \in 1..Len(written) : written[i] < hand.n

QueueOrdered ==
  \A i \in 1..Len(queue) :
    queue[i].type = "log" =>
      /\ queue[i].n <= logged
      /\ \A k \in 1..Len(written) : written[k] < queue[i].n
      /\ HoldsLog => hand.n < queue[i].n
      /\ \A j \in 1..Len(queue) :
           j < i /\ queue[j].type = "log" => queue[j].n < queue[i].n

Ordered == WrittenOrdered /\ HandOrdered /\ QueueOrdered

\* The first k items of the queue, and the one in hand, are messages.
LogsFirst(k) ==
  /\ \A i \in 1..k : queue[i].type = "log"
  /\ worker = "waiting" \/ (worker = "busy" /\ hand.type = "log")

\* All that is left of the flush is its effect.
FlushedAll == flushed = Len(written)

\* How far the flush and the request to terminate have come: each behind all
\* messages, in the queue, in hand or done.
Phase ==
  \/ /\ stage = "logging"
     /\ LogsFirst(Len(queue))
     /\ \A i \in 1..Len(queue) : queue[i].n + Len(queue) = logged + i
  \/ /\ stage = "flushing"
     /\ \/ /\ queue # <<>> /\ queue[Len(queue)] = Flush
           /\ LogsFirst(Len(queue) - 1)
        \/ queue = <<>> /\ worker = "busy" /\ hand = Flush
        \/ queue = <<>> /\ worker = "waiting" /\ FlushedAll
  \/ /\ stage = "joining"
     /\ queue # <<>> /\ queue[Len(queue)] = Terminate
     /\ \/ /\ Len(queue) > 1 /\ queue[Len(queue) - 1] = Flush
           /\ LogsFirst(Len(queue) - 2)
        \/ Len(queue) = 1 /\ worker = "busy" /\ hand = Flush
        \/ Len(queue) = 1 /\ worker = "waiting" /\ FlushedAll
  \/ /\ stage = "joining" /\ queue = <<>>
     /\ worker = "busy" /\ hand = Terminate /\ FlushedAll
  \/ /\ stage \in {"joining", "down"} /\ queue = <<>>
     /\ worker = "done" /\ FlushedAll

\* What was dropped is older than the last Capacity messages; the flush may
\* have dropped one more.
OldestLost ==
  \A n \in lost : n + Capacity <= logged + (IF stage = "logging" THEN 0 ELSE 1)

\* The types of all but the sinks' part.
QueueTypes ==
  /\ stage \in {"logging", "flushing", "joining", "down"}
  /\ logged \in Nat
  /\ queue \in Seq(Items)
  /\ Len(queue) <= Capacity
  /\ worker \in {"waiting", "busy", "done"}
  /\ hand \in Items
  /\ written \in Seq(Nat \ {0})
  /\ flushed \in 0..Len(written)
  /\ lost \subseteq 1..logged

IInv == QueueTypes /\ Accounted /\ Ordered /\ Phase /\ OldestLost

-----------------------------------------------------------------------------

\* The three kinds of items, told apart by their type.
LEMMA ItemKinds ==
  \A x \in Items :
         /\ x.type = "log" => x.n \in Nat \ {0} /\ x.urgent \in BOOLEAN
         /\ x.type = "flush" <=> x = Flush
         /\ x.type = "terminate" <=> x = Terminate
         /\ x.type \in {"log", "flush", "terminate"}
  BY DEF Items, Messages, Flush, Terminate

\* Nothing is logged at first.
LEMMA InitIInv == Init => IInv
  BY LoggerAssumption
     DEF Init, IInv, QueueTypes, Accounted, Ordered, Phase, LogsFirst, OldestLost,
         HoldsLog, WrittenOrdered, HandOrdered, QueueOrdered, Items, Flush

\* What a post does to the queue, item by item: d items are dropped at its
\* head, one when the queue is full and else none.
LEMMA PostItem ==
  ASSUME QueueTypes, NEW item \in Items, Post(item)
  PROVE  \E d \in 0..1 :
           /\ Len(queue) \in Nat /\ Len(queue') \in Nat
           /\ Len(queue') = Len(queue) + 1 - d
           /\ queue' \in Seq(Items) /\ Len(queue') <= Capacity
           /\ \A i \in 1..(Len(queue) - d) : queue'[i] = queue[i + d]
           /\ queue'[Len(queue) + 1 - d] = item
           /\ d = 0 => lost' = lost
           /\ d = 1 => /\ Len(queue) = Capacity /\ 1 \in 1..Len(queue)
                       /\ lost' = lost \cup
                            (IF queue[1].type = "log" THEN {queue[1].n} ELSE {})
  <1>1. /\ queue \in Seq(Items) /\ Len(queue) \in Nat /\ Len(queue) <= Capacity
        /\ Capacity \in Nat \ {0}
    BY LoggerAssumption DEF QueueTypes
  <1>2. CASE Len(queue) < Capacity
    <2>1. queue' = Append(queue, item) /\ lost' = lost
      BY <1>2 DEF Post, Room, Behind
    <2>2. /\ Len(queue') = Len(queue) + 1 /\ queue' \in Seq(Items)
          /\ \A i \in 1..Len(queue) : queue'[i] = queue[i]
          /\ queue'[Len(queue) + 1] = item
      BY <1>1, <2>1
    <2> WITNESS 0 \in 0..1
    <2> QED BY <1>1, <1>2, <2>1, <2>2
  <1>3. CASE Len(queue) = Capacity
    <2>1. /\ queue' = Append(Tail(queue), item)
          /\ lost' = lost \cup (IF Head(queue).type = "log" THEN {Head(queue).n} ELSE {})
      BY <1>1, <1>3 DEF Post, Room, Overrun, Behind
    <2>2. /\ Len(queue') = Len(queue) /\ queue' \in Seq(Items) /\ Len(queue) > 0
          /\ \A i \in 1..(Len(queue) - 1) : queue'[i] = queue[i + 1]
          /\ queue'[Len(queue)] = item
          /\ Head(queue) = queue[1]
      BY <1>1, <1>3, <2>1
    <2> WITNESS 1 \in 0..1
    <2> QED BY <1>1, <1>3, <2>1, <2>2
  <1> QED BY <1>1, <1>2, <1>3

\* A message is logged: it comes behind all others, and the oldest makes room
\* for it when the queue is full.
LEMMA LogIInv ==
  ASSUME IInv, NEW urgent \in BOOLEAN, Log(urgent)
  PROVE  IInv'
  <1> DEFINE m == [type |-> "log", n |-> logged + 1, urgent |-> urgent]
  <1>1. /\ logged \in Nat /\ Capacity \in Nat \ {0}
        /\ queue \in Seq(Items) /\ Len(queue) <= Capacity /\ Len(queue) \in Nat
        /\ written \in Seq(Nat \ {0}) /\ Len(written) \in Nat
        /\ \A i \in 1..Len(written) : written[i] \in Nat
        /\ HoldsLog => hand.n \in Nat
    BY LoggerAssumption, ItemKinds DEF IInv, QueueTypes, HoldsLog
  <1>2. m \in Items /\ m.type = "log" /\ m.n = logged + 1
    BY <1>1 DEF Items, Messages
  <1>3. /\ stage = "logging" /\ stage' = stage /\ logged' = logged + 1
        /\ worker' = worker /\ hand' = hand
        /\ written' = written /\ flushed' = flushed
        /\ Post(m)
    BY DEF Log, given
  <1> HIDE DEF m
  <1>4. PICK d \in 0..1 :
           /\ Len(queue) \in Nat /\ Len(queue') \in Nat
           /\ Len(queue') = Len(queue) + 1 - d
           /\ queue' \in Seq(Items) /\ Len(queue') <= Capacity
           /\ \A i \in 1..(Len(queue) - d) : queue'[i] = queue[i + d]
           /\ queue'[Len(queue) + 1 - d] = m
           /\ d = 0 => lost' = lost
           /\ d = 1 => /\ Len(queue) = Capacity /\ 1 \in 1..Len(queue)
                       /\ lost' = lost \cup
                            (IF queue[1].type = "log" THEN {queue[1].n} ELSE {})
    BY <1>2, <1>3, PostItem DEF IInv
  <1>5. /\ worker = "waiting" \/ (worker = "busy" /\ hand.type = "log")
        /\ \A i \in 1..Len(queue) :
             /\ queue[i] \in Items /\ queue[i].type = "log" /\ queue[i].n \in Nat \ {0}
             /\ queue[i].n + Len(queue) = logged + i
    BY <1>1, <1>3, ItemKinds DEF IInv, Phase, LogsFirst
  <1>6. \A i \in 1..Len(queue') :
          /\ queue'[i].type = "log" /\ queue'[i].n \in Nat
          /\ queue'[i].n + Len(queue') = logged + 1 + i
    <2> SUFFICES ASSUME NEW i \in 1..Len(queue')
        PROVE  /\ queue'[i].type = "log" /\ queue'[i].n \in Nat
               /\ queue'[i].n + Len(queue') = logged + 1 + i
      OBVIOUS
    <2> i \in Nat /\ d \in Nat /\ i <= Len(queue) + 1 - d
      BY <1>4
    <2>1. CASE i = Len(queue) + 1 - d
      <3>1. queue'[i].n = logged + 1 /\ queue'[i].type = "log" /\ Len(queue') = i
        BY <1>2, <1>4, <2>1
      <3> QED BY <1>1, <3>1
    <2>2. CASE i # Len(queue) + 1 - d
      <3>0. i \in 1..(Len(queue) - d) /\ i + d \in 1..Len(queue)
        BY <1>4, <2>2
      <3>1. i + d \in 1..Len(queue) /\ queue'[i] = queue[i + d]
        BY <1>4, <3>0
      <3>2. /\ queue[i + d].n + Len(queue) = logged + (i + d)
            /\ queue[i + d].n \in Nat /\ queue[i + d].type = "log"
        BY <1>5, <3>1
      <3>3. /\ queue'[i].n + Len(queue) = logged + (i + d)
            /\ queue'[i].n \in Nat /\ queue'[i].type = "log"
        BY <3>1, <3>2
      <3>4. /\ Len(queue') = Len(queue) + 1 - d
            /\ Len(queue) \in Nat /\ Len(queue') \in Nat /\ logged \in Nat
        BY <1>1, <1>4
      <3>5. queue'[i].n + Len(queue') = logged + 1 + i
        <4> DEFINE x == queue'[i].n  k == Len(queue)  l == Len(queue')
        <4>1. /\ x \in Nat /\ k \in Nat /\ l \in Nat /\ logged \in Nat
              /\ x + k = logged + (i + d) /\ l = k + 1 - d
          BY <3>3, <3>4
        <4>2. i \in Nat /\ d \in Nat
          OBVIOUS
        <4> HIDE DEF x, k, l
        <4>3. x + l = logged + 1 + i
          BY <4>1, <4>2
        <4> QED BY <4>3 DEF x, l
      <3> QED BY <3>3, <3>5
    <2> QED BY <2>1, <2>2
  <1>7. lost \subseteq lost' /\ lost' \subseteq 1..logged'
    <2>1. 1 \in 1..Len(queue) => queue[1].n \in 1..logged
      BY <1>1, <1>5
    <2>2. lost \subseteq 1..logged
      BY DEF IInv, QueueTypes
    <2>3. lost' = lost \/ (1 \in 1..Len(queue) /\ lost' = lost \cup {queue[1].n})
      BY <1>4, <1>5
    <2>4. logged' = logged + 1 /\ logged \in Nat
      BY <1>1, <1>3
    <2>5. 1..logged \subseteq 1..logged'
      BY <2>4
    <2> QED BY <2>1, <2>2, <2>3, <2>5
  <1>8. QueueTypes'
    BY <1>1, <1>3, <1>4, <1>7 DEF IInv, QueueTypes
  <1>9. Accounted'
    <2> SUFFICES ASSUME NEW n \in 1..(logged + 1)
        PROVE  IsWritten(n)' \/ InHand(n)' \/ InQueue(n)' \/ n \in lost'
      BY <1>3 DEF Accounted
    <2>1. CASE n = logged + 1
      <3>1. Len(queue) + 1 - d \in 1..Len(queue')
        BY <1>4
      <3> QED BY <1>2, <1>4, <2>1, <3>1 DEF InQueue
    <2>2. CASE n \in 1..logged /\ InQueue(n)
      <3>1. PICK i \in 1..Len(queue) : queue[i].n = n
        BY <2>2 DEF InQueue
      <3>2. CASE i <= d
        BY <1>1, <1>4, <1>5, <3>1, <3>2
      <3>3. CASE i > d
        <4>1. /\ i - d \in 1..(Len(queue) - d) /\ i - d \in 1..Len(queue')
              /\ (i - d) + d = i
          BY <1>1, <1>4, <3>3
        <4>2. queue'[i - d] = queue[i]
          BY <1>4, <4>1
        <4> QED BY <1>5, <3>1, <4>1, <4>2 DEF InQueue
      <3> QED BY <3>2, <3>3
    <2>3. CASE n \in 1..logged /\ ~InQueue(n)
      <3>1. IsWritten(n) \/ InHand(n) \/ n \in lost
        BY <2>3 DEF IInv, Accounted
      <3> QED BY <1>3, <1>7, <3>1 DEF IsWritten, InHand, HoldsLog
    <2> QED BY <1>1, <2>1, <2>2, <2>3
  <1>10. WrittenOrdered' /\ HandOrdered'
    BY <1>1, <1>3 DEF IInv, Ordered, WrittenOrdered, HandOrdered, HoldsLog
  <1>11. QueueOrdered'
    <2> SUFFICES ASSUME NEW i \in 1..Len(queue')
        PROVE /\ queue'[i].n <= logged'
              /\ \A k \in 1..Len(written) : written[k] < queue'[i].n
              /\ HoldsLog => hand.n < queue'[i].n
              /\ \A j \in 1..Len(queue') : j < i => queue'[j].n < queue'[i].n
      BY <1>3 DEF QueueOrdered, HoldsLog
    <2> DEFINE l == Len(queue')
    <2>0. /\ l \in Nat /\ logged \in Nat /\ logged' = logged + 1
          /\ \A j \in 1..l : /\ j \in Nat /\ j <= l /\ queue'[j].n \in Nat
                            /\ queue'[j].n + l = logged + 1 + j
      BY <1>1, <1>3, <1>4, <1>6
    <2>1. queue'[i].n <= logged'
      <3> DEFINE x == queue'[i].n
      <3>1. /\ x \in Nat /\ x + l = logged + 1 + i /\ i \in Nat /\ i <= l
        BY <2>0
      <3> HIDE DEF x, l
      <3>2. x <= logged'
        BY <2>0, <3>1
      <3> QED BY <3>2 DEF x
    <2>2. \A j \in 1..Len(queue') : j < i => queue'[j].n < queue'[i].n
      <3> SUFFICES ASSUME NEW j \in 1..l, j < i
          PROVE  queue'[j].n < queue'[i].n
        OBVIOUS
      <3> DEFINE x == queue'[i].n  y == queue'[j].n
      <3>1. /\ x \in Nat /\ x + l = logged + 1 + i /\ i \in Nat
            /\ y \in Nat /\ y + l = logged + 1 + j /\ j \in Nat
        BY <2>0
      <3> HIDE DEF x, y, l
      <3>2. y < x
        BY <2>0, <3>1
      <3> QED BY <3>2 DEF x, y
    <2>3. CASE i = Len(queue) + 1 - d
      <3>1. queue'[i].n = logged + 1
        BY <1>2, <1>4, <2>3
      <3>2. /\ \A k \in 1..Len(written) : written[k] <= logged
            /\ HoldsLog => hand.n <= logged
        BY DEF IInv, Ordered, WrittenOrdered, HandOrdered
      <3> QED BY <1>1, <2>1, <2>2, <3>1, <3>2
    <2>4. CASE i # Len(queue) + 1 - d
      <3>0. i \in 1..(Len(queue) - d) /\ i + d \in 1..Len(queue)
        BY <1>4, <2>4
      <3>1. i + d \in 1..Len(queue) /\ queue'[i] = queue[i + d]
        BY <1>4, <3>0
      <3>2. /\ \A k \in 1..Len(written) : written[k] < queue[i + d].n
            /\ HoldsLog => hand.n < queue[i + d].n
        BY <1>5, <3>1 DEF IInv, Ordered, QueueOrdered
      <3> QED BY <2>1, <2>2, <3>1, <3>2
    <2> QED BY <2>3, <2>4
  <1>12. Phase'
    BY <1>3, <1>5, <1>6 DEF Phase, LogsFirst
  <1>13. OldestLost'
    <2> SUFFICES ASSUME NEW n \in lost' PROVE n + Capacity <= logged + 1
      BY <1>3 DEF OldestLost
    <2>1. CASE n \in lost
      BY <1>1, <1>3, <2>1 DEF IInv, QueueTypes, OldestLost
    <2>2. CASE n \notin lost
      <3>1. d = 1 /\ n = queue[1].n
        BY <1>4, <1>5, <2>2
      <3> QED BY <1>1, <1>4, <1>5, <3>1
    <2> QED BY <2>1, <2>2
  <1> QED BY <1>8, <1>9, <1>10, <1>11, <1>12, <1>13 DEF IInv, Ordered

\* What a post of anything but a message keeps.
LEMMA PostOther ==
  ASSUME IInv, NEW item \in {Flush, Terminate}, Post(item),
         UNCHANGED <<logged, worker, hand, written, flushed>>
  PROVE  Accounted' /\ Ordered'
  <1>1. item \in Items /\ item.type # "log"
    BY DEF Items, Flush, Terminate
  <1>2. PICK d \in 0..1 :
           /\ Len(queue) \in Nat /\ Len(queue') \in Nat
           /\ Len(queue') = Len(queue) + 1 - d
           /\ queue' \in Seq(Items) /\ Len(queue') <= Capacity
           /\ \A i \in 1..(Len(queue) - d) : queue'[i] = queue[i + d]
           /\ queue'[Len(queue) + 1 - d] = item
           /\ d = 0 => lost' = lost
           /\ d = 1 => /\ Len(queue) = Capacity /\ 1 \in 1..Len(queue)
                       /\ lost' = lost \cup
                            (IF queue[1].type = "log" THEN {queue[1].n} ELSE {})
    BY <1>1, PostItem DEF IInv
  <1>3. /\ logged' = logged /\ worker' = worker /\ hand' = hand
        /\ written' = written /\ lost \subseteq lost'
    BY <1>2
  <1>4. \A i \in 1..Len(queue') :
          queue'[i].type = "log" =>
            /\ i \in 1..(Len(queue) - d) /\ i + d \in 1..Len(queue)
            /\ queue'[i] = queue[i + d]
    <2> SUFFICES ASSUME NEW i \in 1..Len(queue'), queue'[i].type = "log"
        PROVE  /\ i \in 1..(Len(queue) - d) /\ i + d \in 1..Len(queue)
               /\ queue'[i] = queue[i + d]
      OBVIOUS
    <2>1. i # Len(queue) + 1 - d
      BY <1>1, <1>2
    <2>2. i \in 1..(Len(queue) - d) /\ i + d \in 1..Len(queue)
      BY <1>2, <2>1
    <2> QED BY <1>2, <2>2
  <1>5. Accounted'
    <2> SUFFICES ASSUME NEW n \in 1..logged
        PROVE  IsWritten(n)' \/ InHand(n)' \/ InQueue(n)' \/ n \in lost'
      BY <1>3 DEF Accounted
    <2>1. CASE InQueue(n)
      <3>1. PICK i \in 1..Len(queue) : queue[i].type = "log" /\ queue[i].n = n
        BY <2>1 DEF InQueue
      <3>2. CASE i <= d
        BY <1>2, <3>1, <3>2
      <3>3. CASE i > d
        <4>1. /\ i - d \in 1..(Len(queue) - d) /\ i - d \in 1..Len(queue')
              /\ (i - d) + d = i
          BY <1>2, <3>3
        <4>2. queue'[i - d] = queue[i]
          BY <1>2, <4>1
        <4> QED BY <3>1, <4>1, <4>2 DEF InQueue
      <3> QED BY <1>2, <3>2, <3>3
    <2>2. CASE ~InQueue(n)
      <3>1. IsWritten(n) \/ InHand(n) \/ n \in lost
        BY <2>2 DEF IInv, Accounted
      <3> QED BY <1>3, <3>1 DEF IsWritten, InHand, HoldsLog
    <2> QED BY <2>1, <2>2
  <1>6. WrittenOrdered' /\ HandOrdered'
    BY <1>3 DEF IInv, Ordered, WrittenOrdered, HandOrdered, HoldsLog
  <1>7. QueueOrdered'
    <2> SUFFICES ASSUME NEW i \in 1..Len(queue'), queue'[i].type = "log"
        PROVE /\ queue'[i].n <= logged
              /\ \A k \in 1..Len(written) : written[k] < queue'[i].n
              /\ HoldsLog => hand.n < queue'[i].n
              /\ \A j \in 1..Len(queue') :
                   j < i /\ queue'[j].type = "log" => queue'[j].n < queue'[i].n
      BY <1>3 DEF QueueOrdered, HoldsLog
    <2>1. /\ i \in 1..(Len(queue) - d) /\ i + d \in 1..Len(queue)
          /\ queue'[i] = queue[i + d]
      BY <1>4
    <2>2. /\ queue[i + d].n <= logged
          /\ \A k \in 1..Len(written) : written[k] < queue[i + d].n
          /\ HoldsLog => hand.n < queue[i + d].n
          /\ \A j \in 1..Len(queue) :
               j < i + d /\ queue[j].type = "log" => queue[j].n < queue[i + d].n
      BY <2>1 DEF IInv, Ordered, QueueOrdered
    <2>3. ASSUME NEW j \in 1..Len(queue'), j < i, queue'[j].type = "log"
          PROVE  queue'[j].n < queue'[i].n
      <3>1. j + d \in 1..Len(queue) /\ queue'[j] = queue[j + d]
        BY <1>4, <2>3
      <3>2. j + d < i + d
        BY <2>3
      <3> QED BY <2>1, <2>2, <2>3, <3>1, <3>2
    <2> QED BY <2>1, <2>2, <2>3
  <1> QED BY <1>5, <1>6, <1>7 DEF Ordered

\* The shutdown posts its flush behind all messages, and drops no more than
\* one of them.
LEMMA ShutdownIInv ==
  ASSUME IInv, Shutdown
  PROVE  IInv'
  <1>1. /\ stage = "logging" /\ stage' = "flushing" /\ Post(Flush)
        /\ logged' = logged /\ worker' = worker /\ hand' = hand
        /\ written' = written /\ flushed' = flushed
    BY DEF Shutdown, PostFlush, given
  <1>2. Flush \in Items /\ logged \in Nat /\ Capacity \in Nat /\ lost \subseteq 1..logged
    BY LoggerAssumption DEF Items, IInv, QueueTypes
  <1>3. PICK d \in 0..1 :
           /\ Len(queue) \in Nat /\ Len(queue') \in Nat
           /\ Len(queue') = Len(queue) + 1 - d
           /\ queue' \in Seq(Items) /\ Len(queue') <= Capacity
           /\ \A i \in 1..(Len(queue) - d) : queue'[i] = queue[i + d]
           /\ queue'[Len(queue) + 1 - d] = Flush
           /\ d = 0 => lost' = lost
           /\ d = 1 => /\ Len(queue) = Capacity /\ 1 \in 1..Len(queue)
                       /\ lost' = lost \cup
                            (IF queue[1].type = "log" THEN {queue[1].n} ELSE {})
    BY <1>1, <1>2, PostItem DEF IInv
  <1>4. /\ worker = "waiting" \/ (worker = "busy" /\ hand.type = "log")
        /\ \A i \in 1..Len(queue) :
             /\ queue[i].type = "log" /\ queue[i].n \in Nat \ {0}
             /\ queue[i].n + Len(queue) = logged + i
    <2>1. \A i \in 1..Len(queue) : queue[i] \in Items
      BY DEF IInv, QueueTypes
    <2> QED BY <1>1, <2>1, ItemKinds DEF IInv, Phase, LogsFirst
  <1>5. Accounted' /\ Ordered'
    BY <1>1, PostOther
  <1>6. \A n \in lost' :
          n \in lost \/ (n \in 1..logged /\ n + Capacity = logged + 1)
    <2> SUFFICES ASSUME NEW n \in lost', n \notin lost
        PROVE  n \in 1..logged /\ n + Capacity = logged + 1
      OBVIOUS
    <2>1. 1 \in 1..Len(queue) /\ Len(queue) = Capacity /\ n = queue[1].n
      BY <1>3, <1>4
    <2>2. n + Capacity = logged + 1 /\ n \in Nat \ {0} /\ Capacity \in Nat \ {0}
      BY <1>4, <2>1, LoggerAssumption
    <2> QED BY <1>2, <2>2
  <1>7. QueueTypes'
    BY <1>1, <1>2, <1>3, <1>6 DEF IInv, QueueTypes
  <1>8. Phase'
    <2>1. Len(queue') > 0 /\ queue'[Len(queue')] = Flush
      BY <1>3
    <2>2. \A i \in 1..(Len(queue') - 1) : queue'[i].type = "log"
      <3> SUFFICES ASSUME NEW i \in 1..(Len(queue') - 1) PROVE queue'[i].type = "log"
        OBVIOUS
      <3>1. i \in 1..(Len(queue) - d) /\ i + d \in 1..Len(queue)
        BY <1>3
      <3> QED BY <1>3, <1>4, <3>1
    <2> QED BY <1>1, <1>4, <2>1, <2>2 DEF Phase, LogsFirst
  <1>9. OldestLost'
    <2> SUFFICES ASSUME NEW n \in lost' PROVE n + Capacity <= logged + 1
      BY <1>1 DEF OldestLost
    <2>1. CASE n \in lost
      <3>1. n + Capacity <= logged /\ n \in Nat
        BY <1>1, <1>2, <2>1 DEF IInv, OldestLost
      <3> QED BY <1>2, <3>1
    <2> QED BY <1>2, <1>6, <2>1
  <1> QED BY <1>5, <1>7, <1>8, <1>9 DEF IInv

\* The request to terminate comes behind the flush.
LEMMA EndPoolIInv ==
  ASSUME IInv, EndPool
  PROVE  IInv'
  <1>1. /\ stage = "flushing" /\ stage' = "joining" /\ queue' = Append(queue, Terminate)
        /\ logged' = logged /\ worker' = worker /\ hand' = hand
        /\ written' = written /\ flushed' = flushed /\ lost' = lost
        /\ Len(queue) < Capacity
    BY DEF EndPool, PostTerminate, Post, Room, Behind, given
  <1>2. /\ queue \in Seq(Items) /\ Len(queue) \in Nat /\ Terminate \in Items
        /\ Capacity \in Nat
    BY LoggerAssumption DEF IInv, QueueTypes, Items
  <1>3. /\ queue' \in Seq(Items) /\ Len(queue') = Len(queue) + 1
        /\ \A i \in 1..Len(queue) : queue'[i] = queue[i]
        /\ queue'[Len(queue) + 1] = Terminate
    BY <1>1, <1>2
  <1>4. Post(Terminate)
    BY <1>1 DEF Post, Room, Behind
  <1>5. Accounted' /\ Ordered'
    BY <1>1, <1>4, PostOther
  <1>6. QueueTypes'
    BY <1>1, <1>2, <1>3 DEF IInv, QueueTypes
  <1>7. OldestLost'
    BY <1>1 DEF IInv, OldestLost
  <1>8. queue' # <<>> /\ queue'[Len(queue')] = Terminate
    BY <1>2, <1>3
  <1>9. Phase'
    <2>1. CASE /\ queue # <<>> /\ queue[Len(queue)] = Flush
               /\ LogsFirst(Len(queue) - 1)
      <3>1. Len(queue') > 1 /\ Len(queue') - 1 = Len(queue) /\ queue'[Len(queue') - 1] = Flush
        BY <1>2, <1>3, <2>1
      <3>2. LogsFirst(Len(queue) - 2)'
        <4>1. \A i \in 1..(Len(queue') - 2) : i \in 1..(Len(queue) - 1) /\ queue'[i] = queue[i]
          BY <1>2, <1>3
        <4> QED BY <1>1, <2>1, <4>1 DEF LogsFirst
      <3> QED BY <1>1, <1>8, <3>1, <3>2 DEF Phase
    <2>2. CASE queue = <<>> /\ worker = "busy" /\ hand = Flush
      <3>1. Len(queue') = 1
        BY <1>3, <2>2
      <3> QED BY <1>1, <1>8, <2>2, <3>1 DEF Phase
    <2>3. CASE queue = <<>> /\ worker = "waiting" /\ FlushedAll
      <3>1. Len(queue') = 1
        BY <1>3, <2>3
      <3> QED BY <1>1, <1>8, <2>3, <3>1 DEF Phase, FlushedAll
    <2> QED BY <1>1, <2>1, <2>2, <2>3 DEF IInv, Phase
  <1> QED BY <1>5, <1>6, <1>7, <1>9 DEF IInv

\* The join changes nothing but the stage.
LEMMA JoinIInv ==
  ASSUME IInv, Join
  PROVE  IInv'
  <1>1. /\ stage = "joining" /\ stage' = "down" /\ worker = "done" /\ queue' = queue
        /\ logged' = logged /\ worker' = worker /\ hand' = hand
        /\ written' = written /\ flushed' = flushed /\ lost' = lost
    BY DEF Join, Ended, given
  <1>2. QueueTypes' /\ Accounted' /\ OldestLost'
    BY <1>1 DEF IInv, QueueTypes, Accounted, OldestLost, IsWritten, InHand, InQueue, HoldsLog
  <1>3. Ordered'
    BY <1>1 DEF IInv, Ordered, WrittenOrdered, HandOrdered, QueueOrdered, HoldsLog
  <1>4. Phase'
    BY <1>1 DEF IInv, Phase, LogsFirst, FlushedAll
  <1> QED BY <1>2, <1>3, <1>4 DEF IInv

\* The worker takes the head of the queue in its hand.
LEMMA TakeIInv ==
  ASSUME IInv, Take
  PROVE  IInv'
  <1>1. /\ worker = "waiting" /\ worker' = "busy" /\ hand' = Head(queue)
        /\ queue # <<>> /\ queue' = Tail(queue)
        /\ stage' = stage /\ logged' = logged
        /\ written' = written /\ flushed' = flushed /\ lost' = lost
    BY DEF Take, given
  <1>2. /\ queue \in Seq(Items) /\ Len(queue) \in Nat /\ Len(queue) <= Capacity
        /\ Capacity \in Nat /\ logged \in Nat
    BY LoggerAssumption DEF IInv, QueueTypes
  <1>3. /\ queue' \in Seq(Items) /\ Len(queue') \in Nat /\ Len(queue') = Len(queue) - 1
        /\ \A i \in 1..(Len(queue) - 1) : queue'[i] = queue[i + 1]
        /\ 1 \in 1..Len(queue) /\ hand' = queue[1] /\ hand' \in Items
    BY <1>1, <1>2
  <1>4. \A i \in 1..Len(queue') :
          i \in Nat /\ i + 1 \in 1..Len(queue) /\ queue'[i] = queue[i + 1] /\ 1 < i + 1
    BY <1>2, <1>3
  <1>5. QueueTypes'
    BY <1>1, <1>2, <1>3 DEF IInv, QueueTypes
  <1>6. Accounted'
    <2> SUFFICES ASSUME NEW n \in 1..logged
        PROVE  IsWritten(n)' \/ InHand(n)' \/ InQueue(n)' \/ n \in lost
      BY <1>1 DEF Accounted
    <2>1. CASE InQueue(n)
      <3>1. PICK i \in 1..Len(queue) : queue[i].type = "log" /\ queue[i].n = n
        BY <2>1 DEF InQueue
      <3>2. CASE i = 1
        BY <1>1, <1>3, <3>1, <3>2 DEF InHand, HoldsLog
      <3>3. CASE i # 1
        <4>1. i - 1 \in 1..(Len(queue) - 1) /\ i - 1 \in 1..Len(queue') /\ (i - 1) + 1 = i
          BY <1>2, <1>3, <3>3
        <4>2. queue'[i - 1] = queue[i]
          BY <1>3, <4>1
        <4> QED BY <3>1, <4>1, <4>2 DEF InQueue
      <3> QED BY <3>2, <3>3
    <2>2. CASE ~InQueue(n)
      <3>1. IsWritten(n) \/ n \in lost
        BY <1>1, <2>2 DEF IInv, Accounted, InHand, HoldsLog
      <3> QED BY <1>1, <3>1 DEF IsWritten
    <2> QED BY <2>1, <2>2
  <1>7. Ordered'
    <2>1. WrittenOrdered'
      BY <1>1 DEF IInv, Ordered, WrittenOrdered
    <2>2. HandOrdered'
      BY <1>1, <1>3 DEF IInv, Ordered, HandOrdered, QueueOrdered, HoldsLog
    <2>3. QueueOrdered'
      <3> SUFFICES ASSUME NEW i \in 1..Len(queue'), queue'[i].type = "log"
          PROVE /\ queue'[i].n <= logged
                /\ \A k \in 1..Len(written) : written[k] < queue'[i].n
                /\ hand'.type = "log" => hand'.n < queue'[i].n
                /\ \A j \in 1..Len(queue') :
                     j < i /\ queue'[j].type = "log" => queue'[j].n < queue'[i].n
        BY <1>1 DEF QueueOrdered, HoldsLog
      <3>1. /\ i + 1 \in 1..Len(queue) /\ queue'[i] = queue[i + 1] /\ 1 < i + 1
        BY <1>4
      <3>2. /\ queue[i + 1].n <= logged
            /\ \A k \in 1..Len(written) : written[k] < queue[i + 1].n
            /\ \A j \in 1..Len(queue) :
                 j < i + 1 /\ queue[j].type = "log" => queue[j].n < queue[i + 1].n
        BY <3>1 DEF IInv, Ordered, QueueOrdered
      <3>3. ASSUME NEW j \in 1..Len(queue'), j < i, queue'[j].type = "log"
            PROVE  queue'[j].n < queue'[i].n
        <4>1. j + 1 \in 1..Len(queue) /\ queue'[j] = queue[j + 1]
          BY <1>4
        <4>2. j + 1 < i + 1
          BY <3>3
        <4> QED BY <3>1, <3>2, <3>3, <4>1, <4>2
      <3> QED BY <1>3, <3>1, <3>2, <3>3
    <2> QED BY <2>1, <2>2, <2>3 DEF Ordered
  <1>8. OldestLost'
    BY <1>1 DEF IInv, OldestLost
  <1>9. Phase'
    <2>1. CASE stage = "logging"
      <3>1. \A i \in 1..Len(queue) :
              queue[i].type = "log" /\ queue[i].n + Len(queue) = logged + i
        BY <2>1 DEF IInv, Phase, LogsFirst
      <3>2. LogsFirst(Len(queue))'
        BY <1>1, <1>3, <1>4, <3>1 DEF LogsFirst
      <3>3. \A i \in 1..Len(queue) : queue[i].n \in Nat
        <4>1. \A i \in 1..Len(queue) : queue[i] \in Items
          BY <1>2
        <4> QED BY <3>1, <4>1, ItemKinds
      <3>4. ASSUME NEW i \in 1..Len(queue')
            PROVE  queue'[i].n + Len(queue') = logged + i
        <4>1. /\ queue'[i] = queue[i + 1] /\ queue[i + 1].n \in Nat
              /\ queue[i + 1].n + Len(queue) = logged + (i + 1)
          BY <1>4, <3>1, <3>3
        <4>2. /\ Len(queue') = Len(queue) - 1 /\ Len(queue') \in Nat
              /\ Len(queue) \in Nat /\ logged \in Nat
          BY <1>2, <1>3
        <4> DEFINE x == queue'[i].n  k == Len(queue)  l == Len(queue')
        <4>3. /\ x \in Nat /\ x + k = logged + (i + 1) /\ i \in Nat
              /\ l = k - 1 /\ l \in Nat /\ k \in Nat /\ logged \in Nat
          BY <1>4, <4>1, <4>2
        <4> HIDE DEF x, k, l
        <4>4. x + l = logged + i
          BY <4>3
        <4> QED BY <4>4 DEF x, l
      <3> QED BY <1>1, <2>1, <3>2, <3>4 DEF Phase
    <2>2. CASE stage = "flushing"
      <3>1. /\ queue[Len(queue)] = Flush
            /\ \A i \in 1..(Len(queue) - 1) : queue[i].type = "log"
        BY <1>1, <2>2 DEF IInv, Phase, LogsFirst
      <3>2. CASE Len(queue) = 1
        <4>1. queue' = <<>> /\ hand' = Flush
          BY <1>1, <1>2, <1>3, <3>1, <3>2
        <4> QED BY <1>1, <2>2, <4>1 DEF Phase
      <3>3. CASE Len(queue) # 1
        <4>1. /\ Len(queue') \in 1..(Len(queue) - 1) /\ Len(queue') + 1 = Len(queue)
              /\ queue' # <<>> /\ 1 \in 1..(Len(queue) - 1)
          BY <1>2, <1>3, <3>3
        <4>2. queue'[Len(queue')] = Flush /\ hand'.type = "log"
          BY <1>3, <3>1, <4>1
        <4>3. \A i \in 1..(Len(queue') - 1) :
                i + 1 \in 1..(Len(queue) - 1) /\ queue'[i] = queue[i + 1]
          BY <1>2, <1>3, <4>1
        <4>4. LogsFirst(Len(queue) - 1)'
          BY <1>1, <3>1, <4>2, <4>3 DEF LogsFirst
        <4> QED BY <1>1, <2>2, <4>1, <4>2, <4>4 DEF Phase
      <3> QED BY <3>2, <3>3
    <2>3. CASE stage = "joining" /\ Len(queue) = 1
      <3>1. queue[1] = Terminate /\ FlushedAll
        BY <1>1, <2>3 DEF IInv, Phase
      <3>2. queue' = <<>> /\ hand' = Terminate
        BY <1>1, <1>2, <1>3, <2>3, <3>1
      <3> QED BY <1>1, <2>3, <3>1, <3>2 DEF Phase, FlushedAll
    <2>4. CASE stage = "joining" /\ Len(queue) # 1
      <3>1. /\ queue[Len(queue)] = Terminate /\ queue[Len(queue) - 1] = Flush
            /\ \A i \in 1..(Len(queue) - 2) : queue[i].type = "log"
        BY <1>1, <1>2, <2>4 DEF IInv, Phase, LogsFirst
      <3>2. /\ Len(queue') \in 1..(Len(queue) - 1) /\ Len(queue') + 1 = Len(queue)
            /\ queue' # <<>> /\ queue'[Len(queue')] = Terminate
        BY <1>2, <1>3, <2>4, <3>1
      <3>3. CASE Len(queue) = 2
        <4>1. Len(queue') = 1 /\ hand' = Flush
          BY <1>3, <3>1, <3>3
        <4> QED BY <1>1, <2>4, <3>2, <4>1 DEF Phase
      <3>4. CASE Len(queue) # 2
        <4>1. /\ Len(queue') - 1 \in 1..(Len(queue) - 1)
              /\ (Len(queue') - 1) + 1 = Len(queue) - 1
              /\ 1 \in 1..(Len(queue) - 2) /\ Len(queue') > 1
          BY <1>2, <1>3, <2>4, <3>4
        <4>2. queue'[Len(queue') - 1] = Flush /\ hand'.type = "log"
          BY <1>3, <3>1, <4>1
        <4>3. \A i \in 1..(Len(queue') - 2) :
                i + 1 \in 1..(Len(queue) - 2) /\ queue'[i] = queue[i + 1]
          BY <1>2, <1>3, <4>1
        <4>4. LogsFirst(Len(queue) - 2)'
          BY <1>1, <3>1, <4>2, <4>3 DEF LogsFirst
        <4> QED BY <1>1, <2>4, <3>2, <4>1, <4>2, <4>4 DEF Phase
      <3> QED BY <3>3, <3>4
    <2>5. stage \in {"logging", "flushing", "joining"}
      BY <1>1 DEF IInv, Phase
    <2> QED BY <2>1, <2>2, <2>3, <2>4, <2>5
  <1> QED BY <1>5, <1>6, <1>7, <1>8, <1>9 DEF IInv

\* The message in hand is the next the sinks are given.
LEMMA WriteIInv ==
  ASSUME IInv, Write
  PROVE  IInv'
  <1>1. /\ worker = "busy" /\ hand.type = "log" /\ worker' = "waiting"
        /\ written' = Append(written, hand.n)
        /\ flushed' = IF hand.urgent THEN Len(written) + 1 ELSE flushed
        /\ stage' = stage /\ logged' = logged /\ queue' = queue
        /\ hand' = hand /\ lost' = lost
    BY DEF Write
  <1>2. HoldsLog /\ ~HoldsLog'
    BY <1>1 DEF HoldsLog
  <1>3. /\ written \in Seq(Nat \ {0}) /\ Len(written) \in Nat
        /\ hand.n \in Nat \ {0} /\ logged \in Nat /\ flushed \in 0..Len(written)
    BY <1>1, ItemKinds DEF IInv, QueueTypes
  <1>4. /\ written' \in Seq(Nat \ {0}) /\ Len(written') = Len(written) + 1
        /\ \A i \in 1..Len(written) : written'[i] = written[i]
        /\ written'[Len(written) + 1] = hand.n
    BY <1>1, <1>3
  <1>5. \A i \in 1..Len(written') :
          \/ i \in 1..Len(written) /\ written'[i] = written[i] /\ written[i] < hand.n
          \/ i = Len(written) + 1 /\ written'[i] = hand.n
    <2>1. \A i \in 1..Len(written') : i \in 1..Len(written) \/ i = Len(written) + 1
      BY <1>3, <1>4
    <2>2. \A i \in 1..Len(written) : written[i] < hand.n
      BY <1>2 DEF IInv, Ordered, HandOrdered
    <2> QED BY <1>4, <2>1, <2>2
  <1>6. QueueTypes'
    BY <1>1, <1>3, <1>4 DEF IInv, QueueTypes
  <1>7. Accounted'
    <2> SUFFICES ASSUME NEW n \in 1..logged
        PROVE  IsWritten(n)' \/ InHand(n)' \/ InQueue(n)' \/ n \in lost
      BY <1>1 DEF Accounted
    <2>1. CASE InHand(n)
      <3>1. Len(written) + 1 \in 1..Len(written')
        BY <1>3, <1>4
      <3> QED BY <1>4, <2>1, <3>1 DEF InHand, IsWritten
    <2>2. CASE IsWritten(n)
      <3>1. \A i \in 1..Len(written) : i \in 1..Len(written')
        BY <1>3, <1>4
      <3> QED BY <1>4, <2>2, <3>1 DEF IsWritten
    <2>3. CASE InQueue(n) \/ n \in lost
      BY <1>1, <2>3 DEF InQueue
    <2> QED BY <2>1, <2>2, <2>3 DEF IInv, Accounted
  <1>8. Ordered'
    <2>1. WrittenOrdered'
      <3>1. \A i \in 1..Len(written') : written'[i] <= logged
        BY <1>2, <1>5 DEF IInv, Ordered, WrittenOrdered, HandOrdered
      <3>2. ASSUME NEW i \in 1..Len(written'), NEW j \in 1..Len(written'), i < j
            PROVE  written'[i] < written'[j]
        <4>1. i \in 1..Len(written)
          BY <1>3, <1>4, <3>2
        <4>2. CASE j \in 1..Len(written)
          <5>1. written[i] < written[j]
            BY <3>2, <4>1, <4>2 DEF IInv, Ordered, WrittenOrdered
          <5> QED BY <1>4, <4>1, <4>2, <5>1
        <4>3. CASE j = Len(written) + 1
          BY <1>3, <1>4, <1>5, <4>1, <4>3
        <4> QED BY <1>3, <1>4, <4>2, <4>3
      <3> QED BY <1>1, <3>1, <3>2 DEF WrittenOrdered
    <2>2. HandOrdered'
      BY <1>2 DEF HandOrdered
    <2>3. QueueOrdered'
      <3> SUFFICES ASSUME NEW i \in 1..Len(queue), queue[i].type = "log"
          PROVE  /\ queue[i].n <= logged
                 /\ \A k \in 1..Len(written') : written'[k] < queue[i].n
                 /\ \A j \in 1..Len(queue) :
                      j < i /\ queue[j].type = "log" => queue[j].n < queue[i].n
        BY <1>1, <1>2 DEF QueueOrdered
      <3>1. /\ queue[i].n <= logged /\ hand.n < queue[i].n
            /\ \A k \in 1..Len(written) : written[k] < queue[i].n
            /\ \A j \in 1..Len(queue) :
                 j < i /\ queue[j].type = "log" => queue[j].n < queue[i].n
        BY <1>2 DEF IInv, Ordered, QueueOrdered
      <3> QED BY <1>5, <3>1
    <2> QED BY <2>1, <2>2, <2>3 DEF Ordered
  <1>9. Phase'
    <2>1. hand # Flush /\ hand # Terminate
      BY <1>1 DEF Flush, Terminate
    <2> QED BY <1>1, <2>1 DEF IInv, Phase, LogsFirst
  <1>10. OldestLost'
    BY <1>1 DEF IInv, OldestLost
  <1> QED BY <1>6, <1>7, <1>8, <1>9, <1>10 DEF IInv

\* The flush covers everything written; no message follows it.
LEMMA FlushSinksIInv ==
  ASSUME IInv, FlushSinks
  PROVE  IInv'
  <1>1. /\ worker = "busy" /\ hand.type = "flush" /\ worker' = "waiting"
        /\ flushed' = Len(written)
        /\ stage' = stage /\ logged' = logged /\ queue' = queue
        /\ hand' = hand /\ written' = written /\ lost' = lost
    BY DEF FlushSinks, given
  <1>2. ~HoldsLog /\ ~HoldsLog'
    BY <1>1 DEF HoldsLog
  <1>3. QueueTypes' /\ OldestLost'
    BY <1>1 DEF IInv, QueueTypes, OldestLost
  <1>4. Accounted' /\ Ordered'
    BY <1>1, <1>2
       DEF IInv, Accounted, IsWritten, InHand, InQueue,
           Ordered, WrittenOrdered, HandOrdered, QueueOrdered
  <1>5. Phase'
    <2>1. hand # Terminate
      BY <1>1 DEF Terminate
    <2> QED BY <1>1, <2>1 DEF IInv, Phase, LogsFirst, FlushedAll
  <1> QED BY <1>3, <1>4, <1>5 DEF IInv

\* The worker ends with nothing left in the queue.
LEMMA StopIInv ==
  ASSUME IInv, Stop
  PROVE  IInv'
  <1>1. /\ worker = "busy" /\ hand.type = "terminate" /\ worker' = "done"
        /\ flushed' = flushed
        /\ stage' = stage /\ logged' = logged /\ queue' = queue
        /\ hand' = hand /\ written' = written /\ lost' = lost
    BY DEF Stop, given
  <1>2. ~HoldsLog /\ ~HoldsLog'
    BY <1>1 DEF HoldsLog
  <1>3. QueueTypes' /\ OldestLost'
    BY <1>1 DEF IInv, QueueTypes, OldestLost
  <1>4. Accounted' /\ Ordered'
    BY <1>1, <1>2
       DEF IInv, Accounted, IsWritten, InHand, InQueue,
           Ordered, WrittenOrdered, HandOrdered, QueueOrdered
  <1>5. Phase'
    <2>1. hand # Flush
      BY <1>1 DEF Flush
    <2> QED BY <1>1, <2>1 DEF IInv, Phase, LogsFirst, FlushedAll
  <1> QED BY <1>3, <1>4, <1>5 DEF IInv

-----------------------------------------------------------------------------

\* Every step of main() and of the worker keeps the invariant.
LEMMA NextIInv == IInv /\ [Next]_vars => IInv'
  <1> SUFFICES ASSUME IInv, [Next]_vars PROVE IInv'
    OBVIOUS
  <1>1. CASE \E urgent \in BOOLEAN : Log(urgent)
    BY <1>1, LogIInv
  <1>2. CASE Shutdown \/ EndPool \/ Join
    BY <1>2, ShutdownIInv, EndPoolIInv, JoinIInv
  <1>3. CASE Worker
    BY <1>3, TakeIInv, WriteIInv, FlushSinksIInv, StopIInv DEF Worker
  <1>4. CASE UNCHANGED vars
    <2>1. QueueTypes' /\ Accounted' /\ OldestLost'
      BY <1>4 DEF vars, given, IInv, QueueTypes, Accounted, OldestLost,
                  IsWritten, InHand, InQueue, HoldsLog
    <2>2. Ordered'
      BY <1>4 DEF vars, given, IInv, Ordered, WrittenOrdered, HandOrdered, QueueOrdered, HoldsLog
    <2>3. Phase'
      BY <1>4 DEF vars, given, IInv, Phase, LogsFirst, FlushedAll
    <2> QED BY <2>1, <2>2, <2>3 DEF IInv
  <1> QED BY <1>1, <1>2, <1>3, <1>4 DEF Next

\* The invariant of the queue, for every size of it.
THEOREM Invariant == Spec => []IInv
  BY InitIInv, NextIInv, PTL DEF Spec

\* Once the logger is down nothing is left to write, and all is flushed.
LEMMA DownDone ==
  ASSUME IInv, stage = "down"
  PROVE  queue = <<>> /\ worker = "done" /\ flushed = Len(written)
  BY DEF IInv, Phase, FlushedAll

\* The messages on their way, element by element.
LEMMA PendingMember ==
  ASSUME IInv
  PROVE  \A n : n \in Pending <=> InQueue(n) \/ InHand(n)
  <1>1. queue \in Seq(Items) /\ DOMAIN queue = 1..Len(queue)
    BY DEF IInv, QueueTypes
  <1> QED BY <1>1 DEF Pending, InQueue, InHand, HoldsLog

\* A message logged is written, on its way or dropped by a full queue, and
\* nothing else is: neither thread makes a message up or forgets one.
THEOREM MessagesAccounted == Spec => []EveryMessageAccounted
  <1>1. ASSUME IInv PROVE EveryMessageAccounted
    <2>1. /\ logged \in Nat /\ lost \subseteq 1..logged
          /\ queue \in Seq(Items) /\ written \in Seq(Nat \ {0}) /\ hand \in Items
          /\ DOMAIN written = 1..Len(written)
      BY <1>1 DEF IInv, QueueTypes
    <2>2. \A n : IsWritten(n) => n \in 1..logged
      <3>1. \A i \in 1..Len(written) : written[i] \in Nat \ {0} /\ written[i] <= logged
        BY <1>1, <2>1 DEF IInv, Ordered, WrittenOrdered
      <3> QED BY <2>1, <3>1 DEF IsWritten
    <2>3. \A n : InHand(n) => n \in 1..logged
      BY <1>1, <2>1, ItemKinds DEF IInv, Ordered, HandOrdered, InHand, HoldsLog
    <2>4. \A n : InQueue(n) => n \in 1..logged
      <3>1. \A i \in 1..Len(queue) : queue[i] \in Items
        BY <2>1
      <3>2. \A i \in 1..Len(queue) :
              queue[i].type = "log" => queue[i].n \in Nat \ {0} /\ queue[i].n <= logged
        BY <1>1, <3>1, ItemKinds DEF IInv, Ordered, QueueOrdered
      <3> QED BY <2>1, <3>2 DEF InQueue
    <2>5. \A n : n \in {written[i] : i \in DOMAIN written} <=> IsWritten(n)
      BY <2>1 DEF IsWritten
    <2>6. \A n : n \in Pending <=> InQueue(n) \/ InHand(n)
      BY <1>1, PendingMember
    <2>7. 1..logged = {written[i] : i \in DOMAIN written} \cup Pending \cup lost
      <3>1. \A n : n \in 1..logged <=>
                    n \in {written[i] : i \in DOMAIN written} \cup Pending \cup lost
        BY <1>1, <2>1, <2>2, <2>3, <2>4, <2>5, <2>6 DEF IInv, Accounted
      <3> QED BY <3>1
    <2>8. stage = "down" => Pending = {}
      <3> SUFFICES ASSUME stage = "down" PROVE Pending = {}
        OBVIOUS
      <3>1. queue = <<>> /\ worker = "done"
        BY <1>1, DownDone
      <3>2. \A n : ~InQueue(n) /\ ~InHand(n)
        BY <3>1 DEF InQueue, InHand, HoldsLog
      <3> QED BY <2>6, <3>2
    <2> QED BY <2>7, <2>8 DEF EveryMessageAccounted
  <1> QED BY <1>1, Invariant, PTL

\* The sinks are given the messages in the order they were logged, each once,
\* whatever the queue drops.
THEOREM WritesInOrder == Spec => []WrittenInOrder
  <1>1. ASSUME IInv PROVE WrittenInOrder
    <2>1. DOMAIN written = 1..Len(written)
      BY <1>1 DEF IInv, QueueTypes
    <2>2. \A i, j \in DOMAIN written : i < j => written[i] < written[j]
      BY <1>1, <2>1 DEF IInv, Ordered, WrittenOrdered
    <2>3. \A i \in DOMAIN written, n \in Pending : written[i] < n
      <3> SUFFICES ASSUME NEW i \in 1..Len(written), NEW n \in Pending
          PROVE  written[i] < n
        BY <2>1
      <3>1. InQueue(n) \/ InHand(n)
        BY <1>1, PendingMember
      <3>2. CASE InQueue(n)
        BY <1>1, <3>2 DEF IInv, Ordered, QueueOrdered, InQueue
      <3>3. CASE InHand(n)
        BY <1>1, <3>3 DEF IInv, Ordered, HandOrdered, InHand
      <3> QED BY <3>1, <3>2, <3>3
    <2> QED BY <2>2, <2>3 DEF WrittenInOrder
  <1> QED BY <1>1, Invariant, PTL

\* What a full queue drops is never among the Capacity - 1 messages logged
\* last: these are written by the end of the shutdown.
THEOREM KeepsTheNewest == Spec => []NewestAreWritten
  <1>1. ASSUME IInv PROVE NewestAreWritten
    <2> SUFFICES ASSUME stage = "down", NEW n \in 1..logged, n + Capacity > logged + 1
        PROVE  \E i \in DOMAIN written : written[i] = n
      BY DEF NewestAreWritten
    <2>1. queue = <<>> /\ worker = "done"
      BY <1>1, DownDone
    <2>2. ~InQueue(n) /\ ~InHand(n)
      BY <2>1 DEF InQueue, InHand, HoldsLog
    <2>3. n \notin lost
      <3>1. \A x \in lost : x + Capacity <= logged + 1
        BY <1>1 DEF IInv, OldestLost
      <3>2. logged \in Nat /\ Capacity \in Nat
        BY <1>1, LoggerAssumption DEF IInv, QueueTypes
      <3> QED BY <3>1, <3>2
    <2>4. IsWritten(n)
      BY <1>1, <2>2, <2>3 DEF IInv, Accounted
    <2> QED BY <1>1, <2>4 DEF IInv, QueueTypes, IsWritten
  <1> QED BY <1>1, Invariant, PTL

\* A shutdown that has ended has flushed everything that was written.
THEOREM FlushesAll == Spec => []AllFlushedWhenDown
  <1>1. IInv => AllFlushedWhenDown
    BY DownDone DEF AllFlushedWhenDown
  <1> QED BY <1>1, Invariant, PTL

-----------------------------------------------------------------------------
(* The sinks.                                                              *)

\* Sink s has put out message n.
PutOut(s, n) == \E i \in 1..Len(output[s]) : output[s][i] = n

SinkTypes ==
  /\ DOMAIN output \subseteq Sinks
  /\ \A s \in DOMAIN output : output[s] \in Seq(Nat \ {0})
  /\ failed \subseteq (DOMAIN output) \X (1..logged)

\* A sink failed on nothing it was not given, and was given nothing twice.
SinkInv ==
  /\ SinkTypes
  /\ \A f \in failed : IsWritten(f[2])
  /\ \A s \in DOMAIN output :
       /\ \A i \in 1..Len(output[s]) :
            IsWritten(output[s][i]) /\ <<s, output[s][i]>> \notin failed
       /\ \A k \in 1..Len(written) :
            <<s, written[k]>> \in failed \/ PutOut(s, written[k])
       /\ \A i, j \in 1..Len(output[s]) : i < j => output[s][i] < output[s][j]

\* No sink has put anything out at first.
LEMMA InitSinks == Init => SinkInv
  <1> SUFFICES ASSUME Init PROVE SinkInv
    OBVIOUS
  <1>1. /\ written = <<>> /\ failed = {} /\ logged = 0
        /\ \E enabled \in SUBSET Sinks \ {{}} : output = [s \in enabled |-> <<>>]
    BY DEF Init
  <1>2. /\ DOMAIN output \subseteq Sinks
        /\ \A s \in DOMAIN output : output[s] = <<>>
    BY <1>1
  <1>3. Len(<<>>) = 0 /\ <<>> \in Seq(Nat \ {0}) /\ 1..0 = {}
    OBVIOUS
  <1>4. \A s \in DOMAIN output : 1..Len(output[s]) = {} /\ output[s] \in Seq(Nat \ {0})
    BY <1>2, <1>3
  <1> QED BY <1>1, <1>2, <1>3, <1>4 DEF SinkInv, SinkTypes

\* Whatever does not give the sinks anything.
LEMMA OthersSinks ==
  ASSUME IInv, SinkInv, [Next]_vars, ~Write
  PROVE  SinkInv'
  <1>1. UNCHANGED given /\ (logged' = logged \/ logged' = logged + 1)
    BY DEF Next, Log, Shutdown, EndPool, Join, Worker, Take, FlushSinks, Stop, vars
  <1>2. logged \in Nat
    BY DEF IInv, QueueTypes
  <1>3. 1..logged \subseteq 1..logged'
    BY <1>1, <1>2
  <1>4. SinkTypes'
    BY <1>1, <1>3 DEF given, SinkInv, SinkTypes
  <1> QED BY <1>1, <1>4 DEF given, SinkInv, IsWritten, PutOut

\* The message in hand, which no sink was given before, goes to each sink
\* that does not fail on it.
LEMMA WriteSinks ==
  ASSUME IInv, SinkInv, Write
  PROVE  SinkInv'
  <1> DEFINE NowWritten(m) == \E k \in 1..Len(written') : written'[k] = m
  <1> DEFINE NowPutOut(s, m) == \E i \in 1..Len(output'[s]) : output'[s][i] = m
  <1>0. PICK n : n = hand.n
    OBVIOUS
  <1>1. PICK failing \in SUBSET DOMAIN output :
          /\ failed' = failed \cup {<<s, n>> : s \in failing}
          /\ output' = [s \in DOMAIN output |->
                          IF Takes(s, failing) THEN Append(output[s], n)
                                               ELSE output[s]]
    BY <1>0 DEF Write
  <1>2. /\ HoldsLog /\ written' = Append(written, n) /\ logged' = logged
        /\ DOMAIN output' = DOMAIN output
    BY <1>1, <1>0 DEF Write, HoldsLog
  <1>3. /\ written \in Seq(Nat \ {0}) /\ Len(written) \in Nat /\ logged \in Nat
        /\ n \in 1..logged
        /\ \A k \in 1..Len(written) : written[k] \in Nat /\ written[k] < n
    BY <1>2, <1>0, ItemKinds DEF IInv, QueueTypes, HoldsLog, Ordered, HandOrdered
  <1>4. /\ Len(written') = Len(written) + 1 /\ written'[Len(written) + 1] = n
        /\ \A k \in 1..Len(written) : written'[k] = written[k] /\ k \in 1..Len(written')
        /\ \A k \in 1..Len(written') : k \in 1..Len(written) \/ k = Len(written) + 1
        /\ Len(written) + 1 \in 1..Len(written')
    BY <1>2, <1>3
  <1>5. /\ ~IsWritten(n) /\ NowWritten(n)
        /\ \A m : IsWritten(m) => NowWritten(m)
    BY <1>3, <1>4 DEF IsWritten
  <1> HIDE DEF NowWritten
  <1>6. \A s : <<s, n>> \notin failed
    BY <1>5 DEF SinkInv
  <1>7. \A s \in DOMAIN output :
          /\ output[s] \in Seq(Nat \ {0}) /\ Len(output[s]) \in Nat
          /\ \A i \in 1..Len(output[s]) : output[s][i] \in Nat /\ output[s][i] < n
    <2> SUFFICES ASSUME NEW s \in DOMAIN output
        PROVE  /\ output[s] \in Seq(Nat \ {0}) /\ Len(output[s]) \in Nat
               /\ \A i \in 1..Len(output[s]) : output[s][i] \in Nat /\ output[s][i] < n
      OBVIOUS
    <2>1. output[s] \in Seq(Nat \ {0})
      BY DEF SinkInv, SinkTypes
    <2>2. \A i \in 1..Len(output[s]) : output[s][i] \in Nat
      BY <2>1
    <2>3. \A i \in 1..Len(output[s]) : output[s][i] < n
      BY <1>3 DEF SinkInv, IsWritten
    <2> QED BY <2>1, <2>2, <2>3
  <1>8. SinkTypes'
    <2>1. \A s \in DOMAIN output : output'[s] \in Seq(Nat \ {0})
      BY <1>1, <1>3, <1>7
    <2>2. failed' \subseteq (DOMAIN output) \X (1..logged)
      BY <1>1, <1>3 DEF SinkInv, SinkTypes
    <2> QED BY <1>2, <2>1, <2>2 DEF SinkInv, SinkTypes
  <1>9. \A f \in failed' : NowWritten(f[2])
    BY <1>1, <1>5 DEF SinkInv
  <1>10. ASSUME NEW s \in DOMAIN output
         PROVE  /\ \A i \in 1..Len(output'[s]) :
                     NowWritten(output'[s][i]) /\ <<s, output'[s][i]>> \notin failed'
                /\ \A k \in 1..Len(written') :
                     <<s, written'[k]>> \in failed' \/ NowPutOut(s, written'[k])
                /\ \A i, j \in 1..Len(output'[s]) : i < j => output'[s][i] < output'[s][j]
    <2>1. /\ \A i \in 1..Len(output[s]) :
               IsWritten(output[s][i]) /\ <<s, output[s][i]>> \notin failed
          /\ \A k \in 1..Len(written) :
               <<s, written[k]>> \in failed \/ PutOut(s, written[k])
          /\ \A i, j \in 1..Len(output[s]) : i < j => output[s][i] < output[s][j]
      BY DEF SinkInv
    <2>2. \A i \in 1..Len(output[s]) :
             NowWritten(output[s][i]) /\ <<s, output[s][i]>> \notin failed'
      <3>1. \A i \in 1..Len(output[s]) : output[s][i] # n
        BY <1>3, <1>7
      <3> QED BY <1>1, <1>5, <2>1, <3>1
    <2>3. CASE s \in failing
      <3>1. output'[s] = output[s] /\ <<s, n>> \in failed'
        BY <1>1, <2>3 DEF Takes
      <3>2. \A k \in 1..Len(written') : <<s, written'[k]>> \in failed' \/ NowPutOut(s, written'[k])
        BY <1>1, <1>4, <2>1, <3>1 DEF PutOut
      <3> QED BY <2>1, <2>2, <3>1, <3>2
    <2>4. CASE s \notin failing
      <3>1. output'[s] = Append(output[s], n) /\ <<s, n>> \notin failed'
        BY <1>1, <1>6, <2>4 DEF Takes
      <3>2. /\ \A i \in 1..Len(output[s]) :
                 output'[s][i] = output[s][i] /\ i \in 1..Len(output'[s])
            /\ output'[s][Len(output[s]) + 1] = n /\ Len(output[s]) \in Nat
            /\ Len(output[s]) + 1 \in 1..Len(output'[s])
            /\ \A i \in 1..Len(output'[s]) : i \in 1..Len(output[s]) \/ i = Len(output[s]) + 1
        BY <1>3, <1>7, <3>1
      <3>3. \A i \in 1..Len(output'[s]) :
              NowWritten(output'[s][i]) /\ <<s, output'[s][i]>> \notin failed'
        BY <1>5, <2>2, <3>1, <3>2
      <3>4. \A m : m = n \/ PutOut(s, m) => NowPutOut(s, m)
        BY <3>2 DEF PutOut
      <3>5. \A k \in 1..Len(written') : <<s, written'[k]>> \in failed' \/ NowPutOut(s, written'[k])
        BY <1>1, <1>4, <2>1, <3>4
      <3>6. ASSUME NEW i \in 1..Len(output'[s]), NEW j \in 1..Len(output'[s]), i < j
            PROVE  output'[s][i] < output'[s][j]
        <4>1. i \in 1..Len(output[s])
          BY <3>2, <3>6
        <4>2. CASE j \in 1..Len(output[s])
          BY <2>1, <3>2, <3>6, <4>1, <4>2
        <4>3. CASE j = Len(output[s]) + 1
          BY <1>7, <3>2, <4>1, <4>3
        <4> QED BY <3>2, <4>2, <4>3
      <3> QED BY <3>3, <3>5, <3>6
    <2> QED BY <2>3, <2>4
  <1> USE DEF NowWritten
  <1> QED BY <1>2, <1>8, <1>9, <1>10 DEF SinkInv, IsWritten, PutOut

\* The invariant of the sinks, whichever of them fail.
THEOREM SinkInvariant == Spec => []SinkInv
  <1>1. IInv /\ SinkInv /\ [Next]_vars => SinkInv'
    BY OthersSinks, WriteSinks
  <1> QED BY <1>1, InitSinks, Invariant, PTL DEF Spec

\* Each sink puts out, in order, all it was given but what it failed on
\* itself.
THEOREM SinksOnTheirOwn == Spec => []SinksIndependent
  <1>1. ASSUME IInv, SinkInv PROVE SinksIndependent
    <2> SUFFICES ASSUME NEW s \in DOMAIN output
        PROVE  /\ {output[s][i] : i \in DOMAIN output[s]} =
                    {n \in {written[i] : i \in DOMAIN written} : <<s, n>> \notin failed}
               /\ \A i, j \in DOMAIN output[s] : i < j => output[s][i] < output[s][j]
      BY DEF SinksIndependent
    <2>1. DOMAIN output[s] = 1..Len(output[s]) /\ DOMAIN written = 1..Len(written)
      BY <1>1 DEF IInv, QueueTypes, SinkInv, SinkTypes
    <2>2. \A n : n \in {output[s][i] : i \in DOMAIN output[s]} <=> PutOut(s, n)
      BY <2>1 DEF PutOut
    <2>3. \A n : n \in {written[i] : i \in DOMAIN written} <=> IsWritten(n)
      BY <2>1 DEF IsWritten
    <2>4. \A n : PutOut(s, n) <=> IsWritten(n) /\ <<s, n>> \notin failed
      BY <1>1 DEF SinkInv, PutOut, IsWritten
    <2>5. {output[s][i] : i \in DOMAIN output[s]} =
            {n \in {written[i] : i \in DOMAIN written} : <<s, n>> \notin failed}
      BY <2>2, <2>3, <2>4
    <2> QED BY <1>1, <2>1, <2>5 DEF SinkInv
  <1> QED BY <1>1, Invariant, SinkInvariant, PTL

\* The type of every variable; the queue never outgrows its capacity.
THEOREM TypeCorrect == Spec => []TypeOK
  <1>1. IInv /\ SinkInv => TypeOK
    BY DEF IInv, SinkInv, SinkTypes, QueueTypes, TypeOK
  <1> QED BY <1>1, Invariant, SinkInvariant, PTL

=============================================================================
