-------------------------- MODULE KernelMutexProof ---------------------------
(***************************************************************************)
(* The FreeRTOS mutex for any number of tasks of any priorities.           *)
(*                                                                         *)
(* The invariant relates the count, the holder and the event list with     *)
(* where the tasks are.  Its heart is Covered: somebody who can run is at  *)
(* least as urgent as everybody on the event list; while the mutex is held *)
(* it is the holder, afterwards the task that was woken.  It survives the  *)
(* give because the event list is sorted, and the take because only a most *)
(* urgent task runs.                                                       *)
(***************************************************************************)
EXTENDS KernelMutex, SequenceTheorems, TLAPS

Sorted(s, priority) ==
  \A i, j \in DOMAIN s : i < j => priority[s[i]] >= priority[s[j]]

FreeOrHeld ==
  /\ uxMessagesWaiting = 1 => xMutexHolder = None
  /\ uxMessagesWaiting = 0 => xMutexHolder \in Tasks /\ pc[xMutexHolder] = "in"
  /\ \A t \in Tasks : pc[t] = "in" => uxMessagesWaiting = 0 /\ xMutexHolder = t

Listed == \A t \in Tasks : t \in Waiting <=> state[t] = "blocked"

Placed ==
  \A t \in Tasks : /\ state[t] = "blocked" => pc[t] = "try"
                   /\ state[t] = "delayed" => pc[t] = "out"

Urgent(t) == \A w \in Waiting : uxPriority[t] >= uxPriority[w]

Covered ==
  /\ uxMessagesWaiting = 0 => Urgent(xMutexHolder)
  /\ uxMessagesWaiting = 1 /\ Waiting # {} =>
       \E t \in Tasks : /\ state[t] = "ready" /\ pc[t] \in {"try", "suspend"}
                        /\ Urgent(t)

IInv ==
  /\ TypeOK /\ FreeOrHeld /\ Listed /\ Placed
  /\ Sorted(xTasksWaitingToReceive, uxPriority)
  /\ InheritedOnlyByHolder
  /\ Covered

-----------------------------------------------------------------------------
(* Sequences *)

\* What InsertAt makes of a sequence, element by element.
LEMMA InsertFacts ==
  ASSUME NEW S, NEW s \in Seq(S), NEW e \in S, NEW k \in 1..(Len(s) + 1)
  PROVE  /\ InsertAt(s, k, e) \in Seq(S)
         /\ Len(InsertAt(s, k, e)) = Len(s) + 1
         /\ \A i \in 1..(Len(s) + 1) :
              InsertAt(s, k, e)[i] =
                IF i < k THEN s[i] ELSE IF i = k THEN e ELSE s[i - 1]
<1> DEFINE a == SubSeq(s, 1, k - 1)
           b == SubSeq(s, k, Len(s))
<1>1. /\ a \in Seq(S) /\ Len(a) = k - 1
      /\ \A i \in 1..(k - 1) : a[i] = s[i]
  OBVIOUS
<1>2. /\ b \in Seq(S) /\ Len(b) = Len(s) + 1 - k
      /\ \A i \in 1..(Len(s) + 1 - k) : b[i] = s[k + i - 1]
  OBVIOUS
<1> HIDE DEF a, b
<1>3. /\ a \o <<e>> \in Seq(S) /\ Len(a \o <<e>>) = k
      /\ \A i \in 1..k : (a \o <<e>>)[i] = IF i < k THEN s[i] ELSE e
  BY <1>1
<1> DEFINE c == a \o <<e>>
<1> HIDE DEF c
<1>4. c \in Seq(S) /\ Len(c) = k
      /\ \A i \in 1..k : c[i] = IF i < k THEN s[i] ELSE e
  BY <1>3 DEF c
<1>5. /\ c \o b \in Seq(S) /\ Len(c \o b) = Len(s) + 1
      /\ \A i \in 1..(Len(s) + 1) :
           (c \o b)[i] = IF i <= k THEN c[i] ELSE b[i - k]
  <2>1. /\ c \o b \in Seq(S) /\ Len(c \o b) = Len(c) + Len(b)
        /\ \A i \in 1..(Len(c) + Len(b)) :
             (c \o b)[i] = IF i <= Len(c) THEN c[i] ELSE b[i - Len(c)]
    BY <1>2, <1>4, ConcatProperties
  <2>2. Len(c) = k /\ Len(b) = Len(s) + 1 - k /\ k + (Len(s) + 1 - k) = Len(s) + 1
    BY <1>2, <1>4
  <2>3. QED
    BY <2>1, <2>2
<1>6. \A i \in 1..(Len(s) + 1) :
        (c \o b)[i] = IF i < k THEN s[i] ELSE IF i = k THEN e ELSE s[i - 1]
  <2> TAKE i \in 1..(Len(s) + 1)
  <2>1. CASE i <= k
    BY <1>4, <1>5, <2>1
  <2>2. CASE i > k
    <3>1. i - k \in 1..(Len(s) + 1 - k) /\ k + (i - k) - 1 = i - 1
      BY <2>2
    <3>2. b[i - k] = s[i - 1]
      BY <1>2, <3>1
    <3>3. (c \o b)[i] = b[i - k]
      <4>1. (c \o b)[i] = IF i <= k THEN c[i] ELSE b[i - k]
        BY <1>5
      <4>2. ~(i <= k)
        BY <2>2
      <4>3. QED
        BY <4>1, <4>2
    <3>4. QED
      BY <2>2, <3>2, <3>3
  <2>3. i <= k \/ i > k
    OBVIOUS
  <2>4. QED
    BY <2>1, <2>2, <2>3
<1>7. InsertAt(s, k, e) = c \o b
  BY DEF InsertAt, a, b, c
<1>8. QED
  BY <1>5, <1>6, <1>7

\* The task put on the event list is added to it, once and in its place.
LEMMA PlaceFacts ==
  ASSUME TypeOK, Sorted(xTasksWaitingToReceive, uxPriority),
         NEW t \in Tasks, t \notin Waiting, vTaskPlaceOnEventList(t)
  PROVE  /\ xTasksWaitingToReceive' \in Seq(Tasks)
         /\ IsInjective(xTasksWaitingToReceive')
         /\ Waiting' = Waiting \cup {t}
         /\ Sorted(xTasksWaitingToReceive', uxPriority)
<1> DEFINE s == xTasksWaitingToReceive
           r == xTasksWaitingToReceive'
           n == Len(s)
<1>1. PICK k \in 1..(n + 1) :
        /\ \A i \in 1..(k - 1) : uxPriority[s[i]] >= uxPriority[t]
        /\ \A i \in k..n : uxPriority[s[i]] < uxPriority[t]
        /\ r = InsertAt(s, k, t)
  BY DEF vTaskPlaceOnEventList
<1>2. /\ s \in Seq(Tasks) /\ n \in Nat /\ DOMAIN s = 1..n
      /\ \A i \in 1..n : s[i] \in Tasks /\ s[i] # t /\ uxPriority[s[i]] \in Nat
      /\ uxPriority[t] \in Nat
  BY DEF TypeOK, Waiting, ToSet
<1>3. /\ r \in Seq(Tasks) /\ Len(r) = n + 1 /\ DOMAIN r = 1..(n + 1)
      /\ \A i \in 1..(n + 1) :
           r[i] = IF i < k THEN s[i] ELSE IF i = k THEN t ELSE s[i - 1]
  <2> HIDE DEF s, r
  <2>1. /\ r \in Seq(Tasks) /\ Len(r) = n + 1
        /\ \A i \in 1..(n + 1) :
             r[i] = IF i < k THEN s[i] ELSE IF i = k THEN t ELSE s[i - 1]
    <3>1. s \in Seq(Tasks) /\ k \in 1..(Len(s) + 1)
      BY <1>2
    <3>2. /\ InsertAt(s, k, t) \in Seq(Tasks)
          /\ Len(InsertAt(s, k, t)) = Len(s) + 1
          /\ \A i \in 1..(Len(s) + 1) :
               InsertAt(s, k, t)[i] =
                 IF i < k THEN s[i] ELSE IF i = k THEN t ELSE s[i - 1]
      BY <3>1, InsertFacts
    <3>3. QED
      BY <1>1, <3>2
  <2>2. DOMAIN r = 1..(n + 1)
    BY <2>1
  <2>3. QED
    BY <2>1, <2>2
<1>4. /\ \A i, j \in 1..n : s[i] = s[j] => i = j
      /\ \A i, j \in 1..n : i < j => uxPriority[s[i]] >= uxPriority[s[j]]
  BY <1>2 DEF TypeOK, IsInjective, Sorted
<1> HIDE DEF s, r, n
<1>5. \A i, j \in 1..(n + 1) : r[i] = r[j] => i = j
  <2> TAKE i, j \in 1..(n + 1)
  <2> HAVE r[i] = r[j]
  <2>1. /\ i < k => r[i] = s[i] /\ i \in 1..n
        /\ i > k => r[i] = s[i - 1] /\ i - 1 \in 1..n
        /\ i = k => r[i] = t
    BY <1>2, <1>3
  <2>2. /\ j < k => r[j] = s[j] /\ j \in 1..n
        /\ j > k => r[j] = s[j - 1] /\ j - 1 \in 1..n
        /\ j = k => r[j] = t
    BY <1>2, <1>3
  <2>3. QED
    BY <1>2, <1>4, <2>1, <2>2
<1>6. { r[i] : i \in 1..(n + 1) } = { s[i] : i \in 1..n } \cup {t}
  <2>1. \A i \in 1..(n + 1) : r[i] \in { s[j] : j \in 1..n } \cup {t}
    <3> TAKE i \in 1..(n + 1)
    <3>1. CASE i < k
      BY <1>2, <1>3, <3>1
    <3>2. CASE i = k
      BY <1>3, <3>2
    <3>3. CASE i > k
      <4>1. i - 1 \in 1..n /\ r[i] = s[i - 1]
        BY <1>2, <1>3, <3>3
      <4>2. QED
        BY <4>1
    <3>4. QED
      BY <3>1, <3>2, <3>3
  <2>2. \A j \in 1..n : s[j] \in { r[i] : i \in 1..(n + 1) }
    <3> TAKE j \in 1..n
    <3>1. CASE j < k
      BY <1>2, <1>3, <3>1
    <3>2. CASE j >= k
      <4>1. j + 1 \in 1..(n + 1) /\ r[j + 1] = s[j]
        BY <1>2, <1>3, <3>2
      <4>2. QED
        BY <4>1
    <3>3. QED
      BY <3>1, <3>2
  <2>3. t \in { r[i] : i \in 1..(n + 1) }
    BY <1>3
  <2>4. QED
    BY <2>1, <2>2, <2>3
<1>7. \A i, j \in 1..(n + 1) : i < j => uxPriority[r[i]] >= uxPriority[r[j]]
  <2> TAKE i, j \in 1..(n + 1)
  <2> HAVE i < j
  <2>1. CASE j < k
    BY <1>2, <1>3, <1>4, <2>1
  <2>2. CASE j = k
    BY <1>1, <1>2, <1>3, <2>2
  <2>3. CASE i = k
    <3>1. j - 1 \in k..n /\ r[j] = s[j - 1] /\ j - 1 \in 1..n
      BY <1>2, <1>3, <2>3
    <3>2. QED
      BY <1>1, <1>2, <1>3, <2>3, <3>1
  <2>4. CASE i < k /\ k < j
    <3>1. j - 1 \in 1..n /\ r[j] = s[j - 1] /\ i \in 1..n /\ r[i] = s[i]
          /\ i < j - 1
      BY <1>2, <1>3, <2>4
    <3>2. QED
      BY <1>4, <3>1
  <2>5. CASE k < i
    <3>1. /\ j - 1 \in 1..n /\ r[j] = s[j - 1]
          /\ i - 1 \in 1..n /\ r[i] = s[i - 1] /\ i - 1 < j - 1
      BY <1>2, <1>3, <2>5
    <3>2. QED
      BY <1>4, <3>1
  <2>6. QED
    BY <2>1, <2>2, <2>3, <2>4, <2>5
<1>8. QED
  BY <1>2, <1>3, <1>5, <1>6, <1>7
     DEF s, r, n, IsInjective, Sorted, Waiting, ToSet

\* The task taken off the event list was its first and most urgent.
LEMMA HeadFacts ==
  ASSUME TypeOK, Sorted(xTasksWaitingToReceive, uxPriority),
         xTasksWaitingToReceive # <<>>
  PROVE  /\ Head(xTasksWaitingToReceive) \in Waiting
         /\ Urgent(Head(xTasksWaitingToReceive))
         /\ Tail(xTasksWaitingToReceive) \in Seq(Tasks)
         /\ IsInjective(Tail(xTasksWaitingToReceive))
         /\ ToSet(Tail(xTasksWaitingToReceive)) =
              Waiting \ {Head(xTasksWaitingToReceive)}
         /\ Sorted(Tail(xTasksWaitingToReceive), uxPriority)
<1> DEFINE s == xTasksWaitingToReceive
           r == Tail(s)
           n == Len(s)
<1>1. /\ s \in Seq(Tasks) /\ n \in Nat /\ n > 0 /\ DOMAIN s = 1..n
      /\ \A i \in 1..n : s[i] \in Tasks /\ uxPriority[s[i]] \in Nat
      /\ Head(s) = s[1]
  BY DEF TypeOK
<1>2. /\ \A i, j \in 1..n : s[i] = s[j] => i = j
      /\ \A i, j \in 1..n : i < j => uxPriority[s[i]] >= uxPriority[s[j]]
  BY <1>1 DEF TypeOK, IsInjective, Sorted
<1>3. /\ r \in Seq(Tasks) /\ Len(r) = n - 1 /\ DOMAIN r = 1..(n - 1)
      /\ \A i \in 1..(n - 1) : i + 1 \in 1..n /\ r[i] = s[i + 1]
  <2>1. r \in Seq(Tasks) /\ Len(r) = n - 1
        /\ \A i \in 1..(n - 1) : r[i] = s[i + 1]
    BY <1>1, HeadTailProperties
  <2>2. QED
    BY <1>1, <2>1
<1>4. Waiting = { s[i] : i \in 1..n } /\ ToSet(r) = { r[i] : i \in 1..(n - 1) }
  BY <1>1, <1>3 DEF Waiting, ToSet
<1> HIDE DEF s, r, n
<1>5. \A w \in Waiting : uxPriority[s[1]] >= uxPriority[w]
  <2> TAKE w \in Waiting
  <2>1. PICK i \in 1..n : w = s[i]
    BY <1>4
  <2>2. QED
    BY <1>1, <1>2, <2>1
<1>6. ToSet(r) = Waiting \ {s[1]}
  <2>1. \A i \in 1..(n - 1) : r[i] \in Waiting \ {s[1]}
    BY <1>1, <1>2, <1>3, <1>4
  <2>2. \A i \in 1..n : s[i] # s[1] => s[i] \in { r[j] : j \in 1..(n - 1) }
    <3> TAKE i \in 1..n
    <3> HAVE s[i] # s[1]
    <3>1. i - 1 \in 1..(n - 1) /\ r[i - 1] = s[i]
      BY <1>1, <1>3
    <3>2. QED
      BY <3>1
  <2>3. QED
    BY <1>4, <2>1, <2>2
<1>7. \A i, j \in 1..(n - 1) : r[i] = r[j] => i = j
  BY <1>1, <1>2, <1>3
<1>8. \A i, j \in 1..(n - 1) : i < j => uxPriority[r[i]] >= uxPriority[r[j]]
  BY <1>1, <1>2, <1>3
<1>9. s[1] \in Waiting
  BY <1>1, <1>4
<1>10. QED
  BY <1>1, <1>3, <1>5, <1>6, <1>7, <1>8, <1>9
     DEF s, r, n, IsInjective, Sorted, Urgent

\* A list stays sorted when its tasks keep their priorities.
LEMMA SortedStays ==
  ASSUME NEW s \in Seq(Tasks), NEW p, NEW q, Sorted(s, p),
         \A w \in ToSet(s) : q[w] = p[w]
  PROVE  Sorted(s, q)
BY DEF Sorted, ToSet

-----------------------------------------------------------------------------
(* The steps *)

\* At the start the mutex is free and nobody waits.
LEMMA MutexInitially == Init => IInv
<1> SUFFICES ASSUME Init
             PROVE  IInv
  OBVIOUS
<1>1. TypeOK
  BY PriorityAssumption DEF Init, TypeOK, IsInjective, PriorityAssumption
<1>2. Waiting = {} /\ Sorted(xTasksWaitingToReceive, uxPriority)
  BY DEF Init, Waiting, ToSet, Sorted
<1>3. QED
  BY <1>1, <1>2
     DEF Init, IInv, FreeOrHeld, Listed, Placed, Covered, InheritedOnlyByHolder

\* The first look at the mutex: it is taken by a task that may run, which is
\* at least as urgent as the one that was woken.
LEMMA TryStep ==
  ASSUME IInv, NEW t \in Tasks, TryTake(t) \/ TryFails(t)
  PROVE  IInv'
<1>1. Waiting' = Waiting
      /\ Sorted(xTasksWaitingToReceive, uxPriority)'
  BY DEF IInv, TryTake, TryFails, Waiting, Sorted
<1>2. TypeOK'
  BY DEF IInv, TypeOK, TryTake, TryFails, Goto
<1>3. FreeOrHeld'
  BY NoneAssumption
     DEF IInv, TypeOK, FreeOrHeld, TryTake, TryFails, Goto, NoneAssumption
<1>4. Listed' /\ Placed'
  BY <1>1 DEF IInv, TypeOK, Listed, Placed, TryTake, TryFails, Goto, Runs
<1>5. InheritedOnlyByHolder'
  BY NoneAssumption
     DEF IInv, TypeOK, FreeOrHeld, InheritedOnlyByHolder, TryTake, TryFails,
         NoneAssumption
<1>6. Covered'
  <2>1. CASE TryTake(t)
    <3>1. uxMessagesWaiting' = 0 /\ xMutexHolder' = t /\ uxPriority' = uxPriority
      BY <2>1 DEF IInv, TypeOK, TryTake
    <3>2. Urgent(t)
      <4>1. CASE Waiting = {}
        BY <4>1 DEF Urgent
      <4>2. CASE Waiting # {}
        <5>1. PICK u \in Tasks : state[u] = "ready" /\ Urgent(u)
          BY <2>1, <4>2 DEF IInv, TypeOK, Covered, TryTake
        <5>2. uxPriority[u] <= uxPriority[t]
          BY <2>1, <5>1 DEF TryTake, Runs
        <5>3. Waiting \subseteq Tasks
          BY DEF IInv, TypeOK, Waiting, ToSet
        <5>4. QED
          BY <5>1, <5>2, <5>3 DEF IInv, TypeOK, Urgent
      <4>3. QED
        BY <4>1, <4>2
    <3>3. QED
      BY <1>1, <3>1, <3>2 DEF Covered, Urgent
  <2>2. CASE TryFails(t)
    BY <1>1, <2>2 DEF IInv, Covered, Urgent, TryFails
  <2>3. QED
    BY <2>1, <2>2
<1>7. QED
  BY <1>1, <1>2, <1>3, <1>4, <1>5, <1>6 DEF IInv

\* Blocking: the task joins the event list, and the holder becomes at least
\* as urgent as it.
LEMMA BlockStep ==
  ASSUME IInv, NEW t \in Tasks, Block(t)
  PROVE  IInv'
<1> DEFINE h == xMutexHolder
<1>1. /\ uxMessagesWaiting = 0 /\ uxMessagesWaiting' = 0 /\ h' = h
      /\ h \in Tasks /\ pc[h] = "in" /\ h # t
      /\ pc[t] = "suspend" /\ state[t] = "ready" /\ pc'[h] = "in"
  BY DEF IInv, TypeOK, FreeOrHeld, Block, Goto, Runs
<1>2. t \notin Waiting /\ h \notin Waiting
  BY <1>1 DEF IInv, TypeOK, Listed, Placed
<1>3. /\ xTasksWaitingToReceive' \in Seq(Tasks)
      /\ IsInjective(xTasksWaitingToReceive')
      /\ Waiting' = Waiting \cup {t}
      /\ Sorted(xTasksWaitingToReceive', uxPriority)
  BY <1>2, PlaceFacts DEF IInv, Block
<1>4. /\ uxPriority' \in [Tasks -> Nat]
      /\ uxPriority'[h] >= uxPriority[h] /\ uxPriority'[h] >= uxPriority[t]
      /\ uxPriority'[h] # uxPriority[h] => uxPriority'[h] = uxPriority[t]
      /\ \A u \in Tasks : u # h => uxPriority'[u] = uxPriority[u]
  <2>1. uxPriority \in [Tasks -> Nat] /\ h # None
    BY <1>1, NoneAssumption DEF IInv, TypeOK, NoneAssumption
  <2>2. CASE uxPriority[h] < uxPriority[t]
    BY <1>1, <2>1, <2>2 DEF Block, xTaskPriorityInherit
  <2>3. CASE ~(uxPriority[h] < uxPriority[t])
    BY <1>1, <2>1, <2>3 DEF Block, xTaskPriorityInherit
  <2>4. QED
    BY <2>2, <2>3
<1>5. Waiting \subseteq Tasks
  BY DEF IInv, TypeOK, Waiting, ToSet
<1>6. TypeOK'
  BY <1>3, <1>4 DEF IInv, TypeOK, Block, Goto
<1>7. FreeOrHeld'
  BY <1>1 DEF IInv, TypeOK, FreeOrHeld, Block, Goto
<1>8. Listed' /\ Placed'
  BY <1>3 DEF IInv, TypeOK, Listed, Placed, Block, Goto
<1>9. Sorted(xTasksWaitingToReceive, uxPriority)'
  <2>1. \A w \in ToSet(xTasksWaitingToReceive') : uxPriority'[w] = uxPriority[w]
    BY <1>1, <1>2, <1>3, <1>4, <1>5 DEF Waiting
  <2>2. QED
    BY <1>3, <2>1, SortedStays
<1>10. InheritedOnlyByHolder'
  <2>1. uxPriority[t] = BasePriority[t]
    BY <1>1 DEF IInv, InheritedOnlyByHolder
  <2>2. uxPriority[h] >= BasePriority[h]
    <3>1. \A u \in Tasks : uxPriority[u] \in Nat /\ BasePriority[u] \in Nat
      BY PriorityAssumption DEF IInv, TypeOK, PriorityAssumption
    <3>2. \A u \in Tasks : \/ uxPriority[u] = BasePriority[u]
                           \/ uxPriority[u] > BasePriority[u]
      BY DEF IInv, InheritedOnlyByHolder
    <3> HIDE DEF h
    <3>3. QED
      BY <1>1, <3>1, <3>2
  <2>3. \A u \in Tasks : u # h => uxPriority[u] = BasePriority[u]
    BY DEF IInv, InheritedOnlyByHolder
  <2>4. uxPriority'[h] # BasePriority[h] => uxPriority'[h] > BasePriority[h]
    BY <1>1, <1>4, <2>2, PriorityAssumption
       DEF IInv, TypeOK, PriorityAssumption
  <2>5. QED
    BY <1>1, <1>4, <2>3, <2>4 DEF InheritedOnlyByHolder
<1>11. Covered'
  <2>1. \A w \in Waiting : uxPriority[h] >= uxPriority[w]
    BY <1>1 DEF IInv, Covered, Urgent
  <2>2. ASSUME NEW w \in Waiting'
        PROVE  uxPriority'[h] >= uxPriority'[w]
    <3>1. /\ uxPriority[h] \in Nat /\ uxPriority'[h] \in Nat
          /\ \A u \in Tasks : uxPriority[u] \in Nat
      BY <1>1, <1>4 DEF IInv, TypeOK
    <3> HIDE DEF h
    <3>2. CASE w = t
      BY <1>1, <1>4, <3>2
    <3>3. CASE w \in Waiting
      <4>1. w \in Tasks /\ w # h
        BY <1>2, <1>5, <3>3
      <4>2. uxPriority'[w] = uxPriority[w] /\ uxPriority[w] \in Nat
        BY <1>4, <3>1, <4>1
      <4>3. uxPriority[h] >= uxPriority[w]
        BY <2>1, <3>3
      <4>4. uxPriority'[h] >= uxPriority[h]
        BY <1>4
      <4>5. QED
        BY <3>1, <4>2, <4>3, <4>4
    <3>4. QED
      BY <1>3, <3>2, <3>3
  <2>3. QED
    BY <1>1, <2>2 DEF Covered, Urgent
<1>12. QED
  BY <1>6, <1>7, <1>8, <1>9, <1>10, <1>11 DEF IInv

\* Giving: the first of the event list is made ready and covers the others;
\* the giver falls back to its own priority and is not on the list.
LEMMA GiveStep ==
  ASSUME IInv, NEW t \in Tasks, Give(t)
  PROVE  IInv'
<1> DEFINE s == xTasksWaitingToReceive
<1>1. /\ uxMessagesWaiting = 0 /\ uxMessagesWaiting' = 1
      /\ xMutexHolder = t /\ xMutexHolder' = None
      /\ pc[t] = "in" /\ pc' = [pc EXCEPT ![t] = "out"] /\ state[t] = "ready"
  BY DEF IInv, TypeOK, FreeOrHeld, Give, Goto, Runs
<1>2. t \notin Waiting /\ Waiting \subseteq Tasks
  <2>1. t \notin Waiting
    BY <1>1 DEF IInv, Listed, Placed
  <2>2. Waiting \subseteq Tasks
    BY DEF IInv, TypeOK, Waiting, ToSet
  <2>3. QED
    BY <2>1, <2>2
<1>3. uxPriority' = [uxPriority EXCEPT ![t] = BasePriority[t]]
  BY <1>1, NoneAssumption DEF Give, xTaskPriorityDisinherit, NoneAssumption
<1>4. /\ uxPriority' \in [Tasks -> Nat] /\ uxPriority'[t] = BasePriority[t]
      /\ \A u \in Tasks : u # t => uxPriority'[u] = uxPriority[u]
  BY <1>3, PriorityAssumption DEF IInv, TypeOK, PriorityAssumption
<1>5. FreeOrHeld'
  BY <1>1 DEF IInv, TypeOK, FreeOrHeld
<1>6. InheritedOnlyByHolder'
  BY <1>1, <1>4 DEF IInv, InheritedOnlyByHolder
<1>7. CASE s = <<>>
  <2>1. Waiting = {} /\ Waiting' = {} /\ s' = s /\ state' = state
    BY <1>7 DEF Give, Waiting, ToSet
  <2>2. TypeOK'
    BY <1>1, <1>4, <2>1 DEF IInv, TypeOK
  <2>3. Listed' /\ Placed'
    BY <1>1, <2>1 DEF IInv, TypeOK, Listed, Placed
  <2>4. Sorted(xTasksWaitingToReceive, uxPriority)' /\ Covered'
    BY <1>1, <1>7, <2>1 DEF Sorted, Covered
  <2>5. QED
    BY <1>5, <1>6, <2>2, <2>3, <2>4 DEF IInv
<1>8. CASE s # <<>>
  <2> DEFINE u == Head(s)
  <2>1. /\ s' = Tail(s) /\ state' = [state EXCEPT ![u] = "ready"]
    BY <1>8 DEF Give
  <2>2. /\ u \in Waiting /\ u \in Tasks /\ u # t
        /\ Urgent(u) /\ Tail(s) \in Seq(Tasks) /\ IsInjective(Tail(s))
        /\ ToSet(Tail(s)) = Waiting \ {u} /\ Sorted(Tail(s), uxPriority)
    BY <1>2, <1>8, HeadFacts DEF IInv
  <2> HIDE DEF s, u
  <2>3. Waiting' = Waiting \ {u}
    BY <2>1, <2>2 DEF Waiting, s
  <2>4. state[u] = "blocked" /\ pc[u] = "try" /\ pc'[u] = "try"
    BY <1>1, <2>2 DEF IInv, TypeOK, Listed, Placed
  <2>5. TypeOK'
    BY <1>1, <1>4, <2>1, <2>2 DEF IInv, TypeOK, s
  <2>6. Listed' /\ Placed'
    BY <1>1, <2>1, <2>2, <2>3, <2>4 DEF IInv, TypeOK, Listed, Placed
  <2>7. Sorted(xTasksWaitingToReceive, uxPriority)'
    <3>1. \A w \in ToSet(Tail(s)) : uxPriority'[w] = uxPriority[w]
      BY <1>2, <1>4, <2>2
    <3>2. QED
      BY <2>1, <2>2, <3>1, SortedStays DEF s
  <2>8. Covered'
    <3>1. \A w \in Waiting' : uxPriority'[u] >= uxPriority'[w]
      BY <1>2, <1>4, <2>2, <2>3 DEF Urgent
    <3>2. state'[u] = "ready"
      BY <2>1, <2>2 DEF IInv, TypeOK
    <3>3. QED
      BY <1>1, <2>2, <2>4, <3>1, <3>2 DEF Covered, Urgent
  <2>9. QED
    BY <1>5, <1>6, <2>5, <2>6, <2>7, <2>8 DEF IInv
<1>9. QED
  BY <1>7, <1>8

\* The steps that leave the mutex and the event list alone.
LEMMA OtherStep ==
  ASSUME IInv, NEW t \in Tasks,
         CallTake(t) \/ vTaskDelay(t) \/ Wake(t) \/ TryAgain(t)
  PROVE  IInv'
<1>1. UNCHANGED <<uxMessagesWaiting, xMutexHolder, xTasksWaitingToReceive,
                  uxPriority>>
  BY DEF CallTake, vTaskDelay, Wake, TryAgain
<1>2. Waiting' = Waiting /\ Sorted(xTasksWaitingToReceive, uxPriority)'
      /\ InheritedOnlyByHolder'
  BY <1>1 DEF IInv, Waiting, Sorted, InheritedOnlyByHolder
<1>3. TypeOK'
  BY <1>1 DEF IInv, TypeOK, CallTake, vTaskDelay, Wake, TryAgain, Goto
<1>4. /\ pc' \in [Tasks -> {"out", "try", "suspend", "in"}]
      /\ state' \in [Tasks -> {"ready", "blocked", "delayed"}]
      /\ \A u \in Tasks : u # t => pc'[u] = pc[u] /\ state'[u] = state[u]
      /\ pc[t] = "in" <=> pc'[t] = "in"
      /\ state[t] # "blocked" \/ pc[t] # "out"
      /\ state[t] = "blocked" <=> state'[t] = "blocked"
      /\ pc[t] \in {"try", "suspend"} => pc'[t] \in {"try", "suspend"}
  BY DEF IInv, TypeOK, Placed, CallTake, vTaskDelay, Wake, TryAgain, Goto, Runs
<1>5. FreeOrHeld'
  BY <1>1, <1>4 DEF IInv, FreeOrHeld
<1>6. Listed'
  BY <1>2, <1>4 DEF IInv, Listed
<1>7. Placed'
  BY DEF IInv, TypeOK, Placed, CallTake, vTaskDelay, Wake, TryAgain, Goto, Runs
<1>8. Covered'
  <2>1. CASE uxMessagesWaiting = 0
    BY <1>1, <1>2, <2>1 DEF IInv, Covered, Urgent
  <2>2. CASE uxMessagesWaiting = 1 /\ Waiting = {}
    BY <1>1, <1>2, <2>2 DEF Covered
  <2>3. CASE uxMessagesWaiting = 1 /\ Waiting # {}
    <3>1. PICK u \in Tasks : /\ state[u] = "ready" /\ pc[u] \in {"try", "suspend"}
                             /\ Urgent(u)
      BY <2>3 DEF IInv, Covered
    <3>2. state'[u] = "ready" /\ pc'[u] \in {"try", "suspend"}
      <4>1. CASE u # t
        BY <1>4, <3>1, <4>1
      <4>2. CASE u = t
        BY <3>1, <4>2
           DEF IInv, TypeOK, CallTake, vTaskDelay, Wake, TryAgain, Goto
      <4>3. QED
        BY <4>1, <4>2
    <3>3. QED
      BY <1>1, <1>2, <2>3, <3>1, <3>2 DEF Covered, Urgent
  <2>4. QED
    BY <2>1, <2>2, <2>3 DEF IInv, TypeOK
<1>9. QED
  BY <1>2, <1>3, <1>5, <1>6, <1>7, <1>8 DEF IInv

\* The invariant holds in every reachable state.
LEMMA MutexInvariant == Spec => []IInv
<1>1. IInv /\ [Next]_vars => IInv'
  <2> SUFFICES ASSUME IInv, [Next]_vars
               PROVE  IInv'
    OBVIOUS
  <2>1. CASE Next
    <3>1. PICK t \in Tasks : CallTake(t) \/ vTaskDelay(t) \/ Wake(t) \/ TaskStep(t)
      BY <2>1 DEF Next
    <3>2. QED
      BY <3>1, TryStep, BlockStep, GiveStep, OtherStep DEF TaskStep
  <2>2. CASE UNCHANGED vars
    BY <2>2
       DEF IInv, TypeOK, FreeOrHeld, Listed, Placed, Sorted, Covered, Urgent,
           InheritedOnlyByHolder, Waiting, vars
  <2>3. QED
    BY <2>1, <2>2
<1>2. QED
  BY <1>1, MutexInitially, PTL DEF Spec

-----------------------------------------------------------------------------
(* What follows *)

\* The kernel's variables keep their types; a task is on the event list once.
THEOREM MutexTyping == Spec => []TypeOK
<1>1. IInv => TypeOK
  BY DEF IInv
<1>2. QED
  BY <1>1, MutexInvariant, PTL

\* Between seeing the mutex taken and blocking nothing is missed: whenever it
\* is free and tasks wait, one of them was woken or has yet to look again.
THEOREM WakeupNotLost == Spec => []NoLostWakeup
<1>1. IInv => NoLostWakeup
  BY DEF IInv, Covered, NoLostWakeup
<1>2. QED
  BY <1>1, MutexInvariant, PTL

\* Whatever the priorities, no task runs that is less urgent than one that
\* waits for the mutex: priority inversion is bounded by the holder's work.
THEOREM InversionBounded == Spec => []NoPriorityInversion
<1>1. IInv => NoPriorityInversion
  <2> SUFFICES ASSUME IInv, NEW w \in Waiting, NEW t \in Tasks, Runs(t)
               PROVE  uxPriority[t] >= uxPriority[w]
    BY DEF NoPriorityInversion
  <2>1. PICK u \in Tasks : state[u] = "ready" /\ Urgent(u)
    BY DEF IInv, TypeOK, FreeOrHeld, Placed, Covered
  <2>2. uxPriority[u] <= uxPriority[t] /\ uxPriority[u] >= uxPriority[w]
    BY <2>1 DEF Runs, Urgent
  <2>3. w \in Tasks
    BY DEF IInv, TypeOK, Waiting, ToSet
  <2>4. QED
    BY <2>2, <2>3 DEF IInv, TypeOK
<1>2. QED
  BY <1>1, MutexInvariant, PTL

\* Only the holder's priority differs from the one it was created with.
THEOREM InheritanceEnds == Spec => []InheritedOnlyByHolder
<1>1. IInv => InheritedOnlyByHolder
  BY DEF IInv
<1>2. QED
  BY <1>1, MutexInvariant, PTL

\* queue.c implements the mutex that Debug_Message counts on: one owner at a
\* time, which only the owner gives up.
THEOREM MutexRefinement == Spec => MutexImplemented
<1>1. Init => Promise!Init
  BY DEF Init, Promise!Init
<1>2. IInv /\ [Next]_vars => [Promise!Next]_(IF uxMessagesWaiting = 1
                                             THEN None ELSE xMutexHolder)
  <2> DEFINE owner == IF uxMessagesWaiting = 1 THEN None ELSE xMutexHolder
  <2> SUFFICES ASSUME IInv, [Next]_vars, owner' # owner
               PROVE  Promise!Next
    OBVIOUS
  <2>1. PICK t \in Tasks : TryTake(t) \/ Give(t)
    BY DEF Next, TaskStep, CallTake, vTaskDelay, Wake, TryFails, Block,
           TryAgain, vars
  <2>2. CASE TryTake(t)
    <3>1. owner = None /\ owner' = t
      BY <2>2 DEF IInv, TypeOK, FreeOrHeld, TryTake
    <3>2. QED
      BY <3>1 DEF Promise!Next, Promise!Acquire
  <2>3. CASE Give(t)
    <3>1. owner = t /\ owner' = None
      BY <2>3 DEF IInv, TypeOK, FreeOrHeld, Give, Goto
    <3>2. QED
      BY <3>1 DEF Promise!Next, Promise!Release
  <2>4. QED
    BY <2>1, <2>2, <2>3
<1>3. QED
  BY <1>1, <1>2, MutexInvariant, PTL DEF Spec, MutexImplemented, Promise!Spec
==============================================================================
