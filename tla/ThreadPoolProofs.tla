-------------------------- MODULE ThreadPoolProofs --------------------------
(***************************************************************************)
(* Proofs about ThreadPool, for any number of threads, any tasks, finitely *)
(* many or not, and any of them submitted by the owner.                    *)
(***************************************************************************)
EXTENDS ThreadPool, SequenceTheorems, TLAPS

(***************************************************************************)
(* Who emplaces is somebody who may: a thread within a task of its own, or *)
(* the owner as long as it has not begun to destroy the pool.  A root is   *)
(* the owner's to emplace.                                                 *)
(***************************************************************************)
EmplacersLive ==
  /\ \A i \in Threads : emplacing[i] # NoTask => Running(i) /\ emplacing[i] \notin Roots
  /\ emplacing[Owner] # NoTask => owner = "submitting"

\* A thread leaves its loop only when it is told to, by the destructor.
StopsAreRequested ==
  /\ \A i \in Threads : at[i] \in {"drain", "drain run", "exited"} => i \in stopped
  /\ stopped # {} => owner # "submitting"

IInv == TypeOK /\ OnePlace /\ RootsFinished /\ EmplacersLive /\ StopsAreRequested

-----------------------------------------------------------------------------

LEMMA Indices == /\ N \in Nat /\ N > 0 /\ Threads = 0..(N - 1) /\ 0 \in Threads
                 /\ Owner = N /\ Owner \in 0..N /\ Owner \notin Threads
                 /\ Threads \subseteq 0..N /\ Nobody \notin 0..N /\ Nobody \in Nat
                 /\ \A a \in 0..N : a = Owner \/ a \in Threads
                 /\ 0..N \subseteq 0..Nobody /\ Nobody \in 0..Nobody
  BY PoolAssumption DEF Threads, Owner, Nobody

\* The queue a thread looks at next is one of the pool's.
LEMMA CandidateIsThread ==
    ASSUME TypeOK, NEW i \in Threads
    PROVE  Candidate(i) \in Threads
  <1>1. i \in Nat /\ offset[i] \in Nat
    <2>1. offset[i] \in 0..(N - 1)
      BY DEF TypeOK
    <2>2. QED
      BY <2>1, Indices
  <1>2. (i + offset[i]) % N \in 0..(N - 1)
    BY <1>1, Indices
  <1>3. QED
    BY <1>2, Indices DEF Candidate

LEMMA HolderTyped ==
    ASSUME TypeOK, NEW a \in 0..N, NEW q \in Threads, Lock(a, q) \/ Unlock(a, q)
    PROVE  holder' \in [Threads -> 0..Nobody]
  <1>1. a \in 0..Nobody /\ Nobody \in 0..Nobody
    BY Indices
  <1>2. QED
    BY <1>1 DEF Lock, Unlock, TypeOK

LEMMA OnePlaceFacts ==
    ASSUME OnePlace
    PROVE  /\ \A i \in Threads : task[i] \notin Queued
           /\ \A a \in 0..N : emplacing[a] \notin Queued
  <1>1. Owner \in 0..N /\ 0 \in Threads
    BY Indices
  <1>2. QED
    BY <1>1 DEF OnePlace

\* A task is submitted, runs, or is queued: so the state of its future says.
LEMMA PendingMeans ==
    ASSUME OnePlace, NEW t \in Tasks
    PROVE  future[t] = "pending" <=> \/ t \in Queued
                                     \/ \E i \in Threads : task[i] = t
                                     \/ \E a \in 0..N : emplacing[a] = t
  BY DEF OnePlace

LEMMA InQueued ==
    ASSUME NEW t
    PROVE  /\ t \in Queued <=> \E i \in Threads : \E k \in 1..Len(queue[i]) : queue[i][k] = t
           /\ t \in Queued' <=> \E i \in Threads : \E k \in 1..Len(queue'[i]) : queue'[i][k] = t
  BY DEF Queued

LEMMA SameQueues ==
    ASSUME UNCHANGED queue
    PROVE  Queued' = Queued /\ (QueuedOnce => QueuedOnce')
  <1>1. Queued' = Queued
    BY DEF Queued
  <1>2. QueuedOnce => QueuedOnce'
    BY DEF QueuedOnce
  <1>3. QED
    BY <1>1, <1>2

LEMMA SameRuns ==
    ASSUME UNCHANGED task, \A i \in Threads : Running(i)' <=> Running(i)
    PROVE  RunOnce => RunOnce'
  BY DEF RunOnce

LEMMA EmptyQueue ==
    ASSUME NEW i, queue[i] = <<>>
    PROVE  \A k : k \notin 1..Len(queue[i])
  <1>1. Len(queue[i]) = 0
    BY EmptySeq
  <1>2. QED
    BY <1>1

LEMMA SamePlaces ==
    ASSUME OnePlace, UNCHANGED <<queue, task, emplacing, future>>,
           \A i \in Threads : Running(i)' <=> Running(i)
    PROVE  OnePlace'
  <1>1. Queued' = Queued /\ QueuedOnce' /\ RunOnce'
    BY SameQueues, SameRuns DEF OnePlace
  <1>2. \A i \in Threads : Running(i)' <=> task'[i] # NoTask
    BY DEF OnePlace
  <1>3. \A a, b \in 0..N : emplacing'[a] = emplacing'[b] => a = b \/ emplacing'[a] = NoTask
    BY DEF OnePlace
  <1>4. \A i \in Threads, a \in 0..N :
          /\ task'[i] \notin Queued' /\ emplacing'[a] \notin Queued'
          /\ task'[i] = emplacing'[a] => task'[i] = NoTask
    BY <1>1 DEF OnePlace
  <1>5. \A t \in Tasks : future'[t] = "pending" <=>
                           \/ t \in Queued'
                           \/ \E i \in Threads : task'[i] = t
                           \/ \E a \in 0..N : emplacing'[a] = t
    BY <1>1 DEF OnePlace
  <1>6. QED
    BY <1>1, <1>2, <1>3, <1>4, <1>5 DEF OnePlace

LEMMA StepCases ==
    ASSUME [Next]_vars
    PROVE  \/ OwnerSubmits
           \/ \E a \in 0..N : Push(a)
           \/ \E i \in Threads :
                \/ TaskSubmits(i) \/ RequestStop(i)
                \/ TryLock(i) \/ FetchOrSteal(i) \/ LookFurther(i)
                \/ LockOwn(i) \/ WaitAndPop(i) \/ WaitStopped(i) \/ Drain(i)
                \/ FinishTask(i)
           \/ DestroyQueues
           \/ UNCHANGED vars
  BY DEF Next, Step, Terminated

-----------------------------------------------------------------------------
(* The queues *)

\* A task that is in no queue is pushed: it is in the queues, and once.
LEMMA PushQueues ==
    ASSUME TypeOK, QueuedOnce, NEW q \in Threads, NEW t \in Tasks, t \notin Queued,
           queue' = [queue EXCEPT ![q] = Append(@, t)]
    PROVE  /\ queue' \in [Threads -> Seq(Tasks)]
           /\ QueuedOnce'
           /\ Queued' = Queued \cup {t}
           /\ \A i \in Threads : i # q => queue'[i] = queue[i]
           /\ \A k \in 1..Len(queue'[q]) :
                 queue'[q][k] = t \/ \E l \in 1..Len(queue[q]) : queue'[q][k] = queue[q][l]
  <1> DEFINE n == Len(queue[q])
  <1>1. /\ queue \in [Threads -> Seq(Tasks)] /\ queue[q] \in Seq(Tasks) /\ n \in Nat
        /\ queue'[q] = Append(queue[q], t)
        /\ \A i \in Threads : i # q => queue'[i] = queue[i]
    <2>1. queue \in [Threads -> Seq(Tasks)]
      BY DEF TypeOK
    <2>2. queue[q] \in Seq(Tasks)
      BY <2>1
    <2>3. n \in Nat
      BY <2>2, LenProperties
    <2>4. QED
      BY <2>1, <2>2, <2>3
  <1>2. /\ queue'[q] \in Seq(Tasks)
        /\ Len(queue'[q]) = n + 1 /\ queue'[q][n + 1] = t
        /\ \A k \in 1..n : queue'[q][k] = queue[q][k]
    BY <1>1, AppendProperties
  <1>3. queue' \in [Threads -> Seq(Tasks)]
    BY <1>1, <1>2
  <1>4. \A k \in 1..Len(queue'[q]) : k \in 1..n \/ k = n + 1
    BY <1>1, <1>2
  <1>5. \A i \in Threads : \A k \in 1..Len(queue[i]) : queue[i][k] # t
    BY DEF Queued
  <1>6. QueuedOnce'
    <2> SUFFICES ASSUME NEW i \in Threads, NEW j \in Threads,
                        NEW k \in 1..Len(queue'[i]), NEW l \in 1..Len(queue'[j]),
                        queue'[i][k] = queue'[j][l]
                 PROVE  i = j /\ k = l
      BY DEF QueuedOnce
    <2> HIDE DEF n
    <2>1. CASE i = q /\ j = q
      BY <2>1, <1>1, <1>2, <1>4, <1>5 DEF QueuedOnce, n
    <2>2. CASE i = q /\ j # q
      BY <2>2, <1>1, <1>2, <1>4, <1>5 DEF QueuedOnce, n
    <2>3. CASE i # q /\ j = q
      BY <2>3, <1>1, <1>2, <1>4, <1>5 DEF QueuedOnce, n
    <2>4. CASE i # q /\ j # q
      BY <2>4, <1>1 DEF QueuedOnce
    <2>5. QED
      BY <2>1, <2>2, <2>3, <2>4
  <1>7. Queued' = Queued \cup {t}
    <2>1. Queued' \subseteq Queued \cup {t}
      BY <1>1, <1>2, <1>4 DEF Queued
    <2>2. t \in Queued'
      <3>1. n + 1 \in 1..Len(queue'[q])
        BY <1>1, <1>2
      <3>2. QED
        BY <3>1, <1>2 DEF Queued
    <2>3. ASSUME NEW i \in Threads, NEW k \in 1..Len(queue[i])
          PROVE  queue[i][k] \in Queued'
      <3>1. CASE i = q
        <4>1. k \in 1..Len(queue'[q]) /\ queue'[q][k] = queue[i][k]
          BY <3>1, <1>1, <1>2
        <4>2. QED
          BY <4>1 DEF Queued
      <3>2. CASE i # q
        BY <3>2, <1>1 DEF Queued
      <3>3. QED
        BY <3>1, <3>2
    <2>4. Queued \subseteq Queued'
      BY <2>3 DEF Queued
    <2>5. QED
      BY <2>1, <2>2, <2>4
  <1>8. QED
    BY <1>1, <1>2, <1>3, <1>4, <1>6, <1>7

\* The first task of a queue is taken: it is in the queues no more.
LEMMA PopQueues ==
    ASSUME TypeOK, QueuedOnce, NEW q \in Threads, queue[q] # <<>>,
           queue' = [queue EXCEPT ![q] = Tail(@)]
    PROVE  /\ queue' \in [Threads -> Seq(Tasks)]
           /\ Head(queue[q]) \in Tasks
           /\ QueuedOnce'
           /\ Head(queue[q]) \in Queued
           /\ Queued' = Queued \ {Head(queue[q])}
           /\ \A i \in Threads : \A k \in 1..Len(queue'[i]) :
                 \E l \in 1..Len(queue[i]) : queue'[i][k] = queue[i][l]
  <1> DEFINE n == Len(queue[q])
             t == Head(queue[q])
  <1>1. /\ queue \in [Threads -> Seq(Tasks)] /\ queue[q] \in Seq(Tasks) /\ n \in Nat
        /\ queue'[q] = Tail(queue[q])
        /\ \A i \in Threads : i # q => queue'[i] = queue[i]
    <2>1. queue \in [Threads -> Seq(Tasks)]
      BY DEF TypeOK
    <2>2. queue[q] \in Seq(Tasks)
      BY <2>1
    <2>3. n \in Nat
      BY <2>2, LenProperties
    <2>4. QED
      BY <2>1, <2>2, <2>3
  <1>2. /\ queue'[q] \in Seq(Tasks) /\ t \in Tasks
        /\ Len(queue'[q]) = n - 1
        /\ \A k \in 1..Len(queue'[q]) : queue'[q][k] = queue[q][k + 1]
    BY <1>1, HeadTailProperties
  <1>3. 1 \in 1..n /\ t = queue[q][1]
    BY <1>1, EmptySeq DEF t
  <1>4. \A k \in 1..Len(queue'[q]) : k + 1 \in 1..n /\ k + 1 # 1
    BY <1>1, <1>2
  <1>5. queue' \in [Threads -> Seq(Tasks)]
    BY <1>1, <1>2
  <1> HIDE DEF n, t
  <1>6. QueuedOnce'
    <2> SUFFICES ASSUME NEW i \in Threads, NEW j \in Threads,
                        NEW k \in 1..Len(queue'[i]), NEW l \in 1..Len(queue'[j]),
                        queue'[i][k] = queue'[j][l]
                 PROVE  i = j /\ k = l
      BY DEF QueuedOnce
    <2>1. CASE i = q /\ j = q
      BY <2>1, <1>1, <1>2, <1>4 DEF QueuedOnce, n
    <2>2. CASE i = q /\ j # q
      BY <2>2, <1>1, <1>2, <1>4 DEF QueuedOnce, n
    <2>3. CASE i # q /\ j = q
      BY <2>3, <1>1, <1>2, <1>4 DEF QueuedOnce, n
    <2>4. CASE i # q /\ j # q
      BY <2>4, <1>1 DEF QueuedOnce
    <2>5. QED
      BY <2>1, <2>2, <2>3, <2>4
  <1>7. \A i \in Threads : \A k \in 1..Len(queue'[i]) :
           \E l \in 1..Len(queue[i]) : queue'[i][k] = queue[i][l] /\ queue[i][l] # t
    <2> SUFFICES ASSUME NEW i \in Threads, NEW k \in 1..Len(queue'[i])
                 PROVE  \E l \in 1..Len(queue[i]) :
                           queue'[i][k] = queue[i][l] /\ queue[i][l] # t
      OBVIOUS
    <2>1. CASE i = q
      BY <2>1, <1>1, <1>2, <1>3, <1>4 DEF QueuedOnce, n
    <2>2. CASE i # q
      BY <2>2, <1>1, <1>3 DEF QueuedOnce, n
    <2>3. QED
      BY <2>1, <2>2
  <1>8. ASSUME NEW i \in Threads, NEW k \in 1..Len(queue[i]), queue[i][k] # t
        PROVE  queue[i][k] \in Queued'
    <2>1. CASE i = q
      <3>1. k \in 1..n /\ k # 1
        BY <2>1, <1>3, <1>8 DEF n
      <3>2. k - 1 \in 1..n - 1 /\ (k - 1) + 1 = k
        BY <1>1, <3>1
      <3>3. k - 1 \in 1..Len(queue'[q]) /\ queue'[q][k - 1] = queue[i][k]
        BY <2>1, <1>2, <3>2
      <3>4. QED
        BY <3>3, InQueued
    <2>2. CASE i # q
      BY <2>2, <1>1 DEF Queued
    <2>3. QED
      BY <2>1, <2>2
  <1>9. t \in Queued
    BY <1>3 DEF Queued, n
  <1>10. Queued' = Queued \ {t}
    <2>1. ASSUME NEW x \in Queued' PROVE x \in Queued \ {t}
      <3>1. PICK i \in Threads : \E k \in 1..Len(queue'[i]) : queue'[i][k] = x
        BY InQueued
      <3>2. PICK k \in 1..Len(queue'[i]) : queue'[i][k] = x
        BY <3>1
      <3>3. PICK l \in 1..Len(queue[i]) : queue'[i][k] = queue[i][l] /\ queue[i][l] # t
        BY <1>7
      <3>4. QED
        BY <3>2, <3>3, InQueued
    <2>2. Queued \ {t} \subseteq Queued'
      BY <1>8, InQueued
    <2>3. QED
      BY <2>1, <2>2
  <1>11. QED
    BY <1>2, <1>5, <1>6, <1>7, <1>9, <1>10 DEF t

-----------------------------------------------------------------------------
(* The invariant *)

LEMMA InitIInv == Init => IInv
  <1> SUFFICES ASSUME Init PROVE IInv
    OBVIOUS
  <1>1. TypeOK
    <2>1. queue \in [Threads -> Seq(Tasks)]
      BY EmptySeq DEF Init
    <2>2. QED
      BY <2>1, Indices DEF Init, TypeOK
  <1>2. \A t : t \notin Queued
    <2>1. \A i \in Threads : Len(queue[i]) = 0
      BY EmptySeq DEF Init
    <2>2. QED
      BY <2>1, InQueued
  <1>3. OnePlace
    <2>1. QueuedOnce
      BY <1>2, InQueued DEF QueuedOnce
    <2>2. QED
      BY <1>2, <2>1, Indices, PoolAssumption DEF Init, OnePlace, RunOnce, Running
  <1>4. RootsFinished /\ EmplacersLive /\ StopsAreRequested
    BY Indices DEF Init, RootsFinished, EmplacersLive, StopsAreRequested
  <1>5. QED
    BY <1>1, <1>3, <1>4 DEF IInv

\* emplace() is entered for a task that was never submitted.
LEMMA EmplaceKeeps ==
    ASSUME IInv, NEW a \in 0..N, NEW t \in Tasks, Emplace(a, t),
           \/ a = Owner /\ owner = "submitting"
           \/ a \in Threads /\ Running(a) /\ t \notin Roots
    PROVE  IInv'
  <1>0. TypeOK /\ OnePlace /\ RootsFinished /\ EmplacersLive /\ StopsAreRequested
    BY DEF IInv
  <1>1. /\ t \notin Queued /\ t # NoTask
        /\ \A i \in Threads : task[i] # t
        /\ \A b \in 0..N : emplacing[b] # t
    BY <1>0, PendingMeans, PoolAssumption DEF Emplace
  <1>2. /\ UNCHANGED <<queue, at, offset, task, owner, stopped>>
        /\ emplacing[a] = NoTask /\ future[t] = "none"
        /\ emplacing' = [emplacing EXCEPT ![a] = t]
        /\ future' = [future EXCEPT ![t] = "pending"]
    BY DEF Emplace, threadVars, ownerVars
  <1>3. /\ \A b \in 0..N : emplacing'[b] = IF b = a THEN t ELSE emplacing[b]
        /\ \A u \in Tasks : future'[u] = IF u = t THEN "pending" ELSE future[u]
    BY <1>0, <1>2 DEF TypeOK
  <1>4. TypeOK'
    <2>1. holder' \in [Threads -> 0..Nobody]
      BY <1>0, HolderTyped DEF Emplace
    <2>2. QED
      BY <1>0, <1>2, <2>1 DEF TypeOK
  <1>5. Queued' = Queued /\ QueuedOnce' /\ RunOnce' /\ \A i \in Threads : Running(i)' <=> Running(i)
    <2>1. \A i \in Threads : Running(i)' <=> Running(i)
      BY <1>2 DEF Running
    <2>2. QED
      BY <2>1, <1>0, <1>2, SameQueues, SameRuns DEF OnePlace
  <1>6. OnePlace'
    <2>1. \A i \in Threads : Running(i)' <=> task'[i] # NoTask
      BY <1>0, <1>2, <1>5 DEF OnePlace
    <2>2. \A b, c \in 0..N : emplacing'[b] = emplacing'[c] => b = c \/ emplacing'[b] = NoTask
      BY <1>0, <1>1, <1>3 DEF OnePlace
    <2>3. \A i \in Threads, b \in 0..N :
             /\ task'[i] \notin Queued' /\ emplacing'[b] \notin Queued'
             /\ task'[i] = emplacing'[b] => task'[i] = NoTask
      BY <1>0, <1>1, <1>2, <1>3, <1>5 DEF OnePlace
    <2>4. \A u \in Tasks : future'[u] = "pending" <=>
                              \/ u \in Queued'
                              \/ \E i \in Threads : task'[i] = u
                              \/ \E b \in 0..N : emplacing'[b] = u
      <3> SUFFICES ASSUME NEW u \in Tasks
                   PROVE  future'[u] = "pending" <=>
                              \/ u \in Queued'
                              \/ \E i \in Threads : task'[i] = u
                              \/ \E b \in 0..N : emplacing'[b] = u
        OBVIOUS
      <3>1. CASE u = t
        BY <3>1, <1>3
      <3>2. CASE u # t
        <4>1. (\E b \in 0..N : emplacing'[b] = u) <=> \E b \in 0..N : emplacing[b] = u
          <5>1. u # NoTask
            BY PoolAssumption
          <5>2. QED
            BY <3>2, <5>1, <1>2, <1>3
        <4>2. QED
          BY <3>2, <4>1, <1>0, <1>2, <1>3, <1>5, PendingMeans
      <3>3. QED
        BY <3>1, <3>2
    <2>5. QED
      BY <1>5, <2>1, <2>2, <2>3, <2>4 DEF OnePlace
  <1>7. RootsFinished' /\ StopsAreRequested'
    BY <1>0, <1>2 DEF RootsFinished, StopsAreRequested
  <1>8. EmplacersLive'
    <2>1. \A i \in Threads : i \in 0..N /\ i # Owner
      BY Indices
    <2>2. Owner \in 0..N
      BY Indices
    <2>3. QED
      BY <2>1, <2>2, <1>0, <1>2, <1>3, <1>5 DEF EmplacersLive
  <1>9. QED
    BY <1>4, <1>6, <1>7, <1>8 DEF IInv

LEMMA PushKeeps ==
    ASSUME IInv, NEW a \in 0..N, Push(a)
    PROVE  IInv'
  <1>0. TypeOK /\ OnePlace /\ RootsFinished /\ EmplacersLive /\ StopsAreRequested
    BY DEF IInv
  <1> DEFINE t == emplacing[a]
  <1>1. PICK q \in Threads : Unlock(a, q) /\ queue' = [queue EXCEPT ![q] = Append(@, t)]
    BY DEF Push
  <1>2. t \in Tasks /\ t \notin Queued /\ t # NoTask
    BY <1>0, OnePlaceFacts DEF Push, TypeOK
  <1>3. /\ UNCHANGED <<at, offset, task, future, owner, stopped>>
        /\ \A b \in 0..N : emplacing'[b] = IF b = a THEN NoTask ELSE emplacing[b]
        /\ emplacing' = [emplacing EXCEPT ![a] = NoTask]
    BY <1>0 DEF Push, TypeOK, threadVars, ownerVars
  <1>4. /\ queue' \in [Threads -> Seq(Tasks)]
        /\ QueuedOnce'
        /\ Queued' = Queued \cup {t}
        /\ \A i \in Threads : i # q => queue'[i] = queue[i]
        /\ \A k \in 1..Len(queue'[q]) :
              queue'[q][k] = t \/ \E l \in 1..Len(queue[q]) : queue'[q][k] = queue[q][l]
    <2> HIDE DEF t
    <2>1. QueuedOnce
      BY <1>0 DEF OnePlace
    <2>2. queue' = [queue EXCEPT ![q] = Append(@, t)]
      BY <1>1
    <2>3. QED
      BY <1>0, <1>2, <2>1, <2>2, PushQueues
  <1>5. TypeOK'
    <2>1. holder' \in [Threads -> 0..Nobody]
      BY <1>0, <1>1, HolderTyped
    <2>2. QED
      BY <1>0, <1>3, <1>4, <2>1 DEF TypeOK
  <1>6. OnePlace'
    <2>1. RunOnce' /\ \A i \in Threads : Running(i)' <=> task'[i] # NoTask
      <3>1. RunOnce /\ \A i \in Threads : Running(i) <=> task[i] # NoTask
        BY <1>0 DEF OnePlace
      <3>2. UNCHANGED <<at, task>>
        BY <1>3
      <3>3. QED
        BY <3>1, <3>2 DEF RunOnce, Running
    <2>2. \A i \in Threads : task[i] # t
      BY <1>0, <1>2 DEF OnePlace
    <2>3. \A b, c \in 0..N : emplacing'[b] = emplacing'[c] => b = c \/ emplacing'[b] = NoTask
      BY <1>0, <1>3 DEF OnePlace
    <2>4. \A b \in 0..N : b # a => emplacing[b] # t
      BY <1>0, <1>2 DEF OnePlace
    <2>5. NoTask \notin Queued
      <3>1. \A i \in Threads : \A k \in 1..Len(queue[i]) : queue[i][k] \in Tasks
        BY <1>0, ElementOfSeq DEF TypeOK
      <3>2. QED
        BY <3>1, InQueued, PoolAssumption
    <2>6. \A i \in Threads, b \in 0..N :
             /\ task'[i] \notin Queued' /\ emplacing'[b] \notin Queued'
             /\ task'[i] = emplacing'[b] => task'[i] = NoTask
      BY <1>0, <1>2, <1>3, <1>4, <2>2, <2>4, <2>5 DEF OnePlace
    <2>7. ASSUME NEW u \in Tasks
          PROVE  future'[u] = "pending" <=> \/ u \in Queued'
                                            \/ \E i \in Threads : task'[i] = u
                                            \/ \E b \in 0..N : emplacing'[b] = u
      <3>1. (\E b \in 0..N : emplacing[b] = u)
            <=> u = t \/ \E b \in 0..N : emplacing'[b] = u
        <4>1. u # NoTask
          BY PoolAssumption
        <4>2. QED
          BY <4>1, <1>3
      <3>2. QED
        BY <3>1, <1>0, <1>3, <1>4, PendingMeans
    <2>8. QED
      BY <1>4, <2>1, <2>3, <2>6, <2>7 DEF OnePlace
  <1>7. RootsFinished'
    <2>1. (\E i \in Threads : at[i] = "exited") => t \notin Roots
      <3>1. CASE a \in Threads
        BY <3>1, <1>0, <1>2 DEF EmplacersLive
      <3>2. CASE a = Owner
        BY <3>2, <1>0, <1>2 DEF EmplacersLive, StopsAreRequested
      <3>3. QED
        BY <3>1, <3>2, Indices
    <2> HIDE DEF t
    <2>2. ASSUME NEW i \in Threads, at'[i] = "exited", NEW k \in 1..Len(queue'[i])
          PROVE  queue'[i][k] \notin Roots
      <3>1. at[i] = "exited" /\ t \notin Roots
        BY <1>3, <2>1, <2>2
      <3>2. \A l \in 1..Len(queue[i]) : queue[i][l] \notin Roots
        BY <1>0, <3>1 DEF RootsFinished
      <3>3. CASE i = q
        BY <3>1, <3>2, <3>3, <1>4
      <3>4. CASE i # q
        BY <3>2, <3>4, <1>4
      <3>5. QED
        BY <3>3, <3>4
    <2>3. QED
      BY <2>2 DEF RootsFinished
  <1>8. EmplacersLive'
    <2>1. \A i \in Threads : i \in 0..N
      BY Indices
    <2>2. Owner \in 0..N
      BY Indices
    <2>3. QED
      BY <2>1, <2>2, <1>0, <1>3 DEF EmplacersLive, Running
  <1>9. StopsAreRequested'
    BY <1>0, <1>3 DEF StopsAreRequested
  <1>10. QED
    BY <1>5, <1>6, <1>7, <1>8, <1>9 DEF IInv

\* A task moves from the head of a queue to the thread that found it.
LEMMA PopKeeps ==
    ASSUME IInv, NEW i \in Threads, NEW q \in Threads, NEW next,
           Unlock(i, q), Pop(i, q, next),
           offset' \in [Threads -> 0..(N - 1)],
           \/ next = "run" /\ at[i] \in {"fetch", "wait"}
           \/ next = "drain run" /\ at[i] = "drain"
    PROVE  IInv'
  <1>0. TypeOK /\ OnePlace /\ RootsFinished /\ EmplacersLive /\ StopsAreRequested
    BY DEF IInv
  <1> DEFINE t == Head(queue[q])
  <1>1. /\ queue' \in [Threads -> Seq(Tasks)]
        /\ t \in Tasks
        /\ QueuedOnce'
        /\ t \in Queued
        /\ Queued' = Queued \ {t}
        /\ \A j \in Threads : \A k \in 1..Len(queue'[j]) :
              \E l \in 1..Len(queue[j]) : queue'[j][k] = queue[j][l]
    <2>1. QueuedOnce
      BY <1>0 DEF OnePlace
    <2>2. QED
      BY <1>0, <2>1, PopQueues DEF Pop
  <1>2. /\ task' = [task EXCEPT ![i] = t] /\ at' = [at EXCEPT ![i] = next]
        /\ UNCHANGED <<emplacing, future, owner, stopped>>
    BY DEF Pop, submitVars, ownerVars
  <1> HIDE DEF t
  <1>3. TypeOK'
    <2>1. holder' \in [Threads -> 0..Nobody]
      BY <1>0, HolderTyped, Indices
    <2>2. QED
      BY <1>0, <1>1, <1>2, <2>1 DEF TypeOK
  <1>4. task[i] = NoTask /\ ~Running(i) /\ Running(i)' /\ t # NoTask
    <2>1. ~Running(i) /\ Running(i)'
      BY <1>0, <1>2 DEF Running, TypeOK
    <2>2. QED
      BY <2>1, <1>0, <1>1, PoolAssumption DEF OnePlace
  <1>5. /\ \A j \in Threads : task'[j] = IF j = i THEN t ELSE task[j]
        /\ \A j \in Threads : at'[j] = IF j = i THEN next ELSE at[j]
    BY <1>0, <1>2 DEF TypeOK
  <1>6. \A j \in Threads : j # i => (Running(j)' <=> Running(j))
    BY <1>5 DEF Running
  <1>7. OnePlace'
    <2>1. \A j \in Threads : task[j] # t
      BY <1>0, <1>1, OnePlaceFacts
    <2>2. \A b \in 0..N : emplacing[b] # t
      BY <1>0, <1>1, OnePlaceFacts
    <2>3. RunOnce'
      <3> SUFFICES ASSUME NEW j \in Threads, NEW k \in Threads,
                          Running(j)', task'[j] = task'[k]
                   PROVE  j = k
        BY DEF RunOnce
      <3>1. CASE j = i
        BY <3>1, <1>5, <2>1
      <3>2. CASE j # i
        <4>1. k # i /\ Running(j) /\ task[j] = task[k]
          BY <3>2, <1>5, <1>6, <2>1
        <4>2. QED
          BY <4>1, <1>0 DEF OnePlace, RunOnce
      <3>3. QED
        BY <3>1, <3>2
    <2>4. \A j \in Threads : Running(j)' <=> task'[j] # NoTask
      BY <1>0, <1>4, <1>5, <1>6 DEF OnePlace
    <2>5. \A j \in Threads, b \in 0..N :
             /\ task'[j] \notin Queued' /\ emplacing'[b] \notin Queued'
             /\ task'[j] = emplacing'[b] => task'[j] = NoTask
      <3> SUFFICES ASSUME NEW j \in Threads, NEW b \in 0..N
                   PROVE  /\ task'[j] \notin Queued' /\ emplacing'[b] \notin Queued'
                          /\ task'[j] = emplacing'[b] => task'[j] = NoTask
        OBVIOUS
      <3>1. task[j] \notin Queued /\ emplacing[b] \notin Queued
        BY <1>0, OnePlaceFacts
      <3>2. task[j] = emplacing[b] => task[j] = NoTask
        BY <1>0 DEF OnePlace
      <3>3. Queued' = Queued \ {t} /\ t # emplacing[b]
        BY <1>1, <2>2
      <3>4. emplacing'[b] = emplacing[b]
        BY <1>2
      <3>5. CASE j = i
        BY <3>1, <3>3, <3>4, <3>5, <1>5
      <3>6. CASE j # i
        BY <3>1, <3>2, <3>3, <3>4, <3>6, <1>5
      <3>7. QED
        BY <3>5, <3>6
    <2>6. ASSUME NEW u \in Tasks
          PROVE  future'[u] = "pending" <=> \/ u \in Queued'
                                            \/ \E j \in Threads : task'[j] = u
                                            \/ \E b \in 0..N : emplacing'[b] = u
      <3>1. (\E j \in Threads : task'[j] = u) <=> u = t \/ \E j \in Threads : task[j] = u
        <4>1. u # NoTask
          BY PoolAssumption
        <4>2. task[i] # u /\ task'[i] = t
          BY <4>1, <1>4, <1>5
        <4>3. \A j \in Threads : j # i => task'[j] = task[j]
          BY <1>5
        <4>4. QED
          BY <4>2, <4>3
      <3>2. QED
        BY <3>1, <1>0, <1>1, <1>2, PendingMeans
    <2>7. \A b, c \in 0..N : emplacing'[b] = emplacing'[c] => b = c \/ emplacing'[b] = NoTask
      BY <1>0, <1>2 DEF OnePlace
    <2>8. QED
      BY <1>1, <2>3, <2>4, <2>5, <2>6, <2>7 DEF OnePlace
  <1>8. RootsFinished'
    <2> SUFFICES ASSUME NEW j \in Threads, at'[j] = "exited", NEW k \in 1..Len(queue'[j])
                 PROVE  queue'[j][k] \notin Roots
      BY DEF RootsFinished
    <2>1. at[j] = "exited"
      BY <1>5
    <2>2. PICK l \in 1..Len(queue[j]) : queue'[j][k] = queue[j][l]
      BY <1>1
    <2>3. QED
      BY <2>1, <2>2, <1>0 DEF RootsFinished
  <1>9. EmplacersLive'
    BY <1>0, <1>2, <1>4, <1>6 DEF EmplacersLive
  <1>10. StopsAreRequested'
    BY <1>0, <1>2, <1>5 DEF StopsAreRequested
  <1>11. QED
    BY <1>3, <1>7, <1>8, <1>9, <1>10 DEF IInv

\* Steps that change no task's place: a lock is taken or let go, a thread
\* looks further, waits, stops waiting or leaves, or is requested to stop.
LEMMA MoveKeeps ==
    ASSUME IInv,
           holder' \in [Threads -> 0..Nobody],
           offset' \in [Threads -> 0..(N - 1)],
           at' \in [Threads -> {"fetch", "run", "wait", "drain", "drain run", "exited"}],
           stopped' \in SUBSET Threads, stopped \subseteq stopped',
           \/ owner' = owner /\ stopped' = stopped
           \/ owner' = "destroying" /\ emplacing[Owner] = NoTask,
           UNCHANGED <<queue, task, submitVars>>,
           \A i \in Threads :
             \/ at'[i] = at[i]
             \/ /\ ~Running(i) /\ ~Running(i)'
                /\ at'[i] \in {"drain", "exited"} => i \in stopped'
                /\ at'[i] = "exited" => queue[i] = <<>>
    PROVE  IInv'
  <1>0. TypeOK /\ OnePlace /\ RootsFinished /\ EmplacersLive /\ StopsAreRequested
    BY DEF IInv
  <1>1. UNCHANGED <<queue, task, emplacing, future>>
    BY DEF submitVars
  <1>2. TypeOK'
    BY <1>0, <1>1 DEF TypeOK
  <1>3. Queued' = Queued /\ QueuedOnce' /\ \A i \in Threads : Running(i)' <=> Running(i)
    <2>1. \A i \in Threads : Running(i)' <=> Running(i)
      BY DEF Running
    <2>2. QED
      BY <2>1, <1>0, <1>1, SameQueues DEF OnePlace
  <1>4. OnePlace'
    BY <1>0, <1>1, <1>3, SamePlaces
  <1>5. RootsFinished'
    <2> SUFFICES ASSUME NEW i \in Threads, at'[i] = "exited", NEW k \in 1..Len(queue[i])
                 PROVE  queue[i][k] \notin Roots
      BY <1>1 DEF RootsFinished
    <2>0. at'[i] = at[i] \/ (at'[i] = "exited" => queue[i] = <<>>)
      OBVIOUS
    <2>1. at[i] = "exited"
      <3>1. queue[i] # <<>>
        BY EmptyQueue
      <3>2. QED
        BY <3>1, <2>0
    <2>2. QED
      BY <1>0, <2>1 DEF RootsFinished
  <1>6. EmplacersLive'
    BY <1>0, <1>1, <1>3 DEF EmplacersLive
  <1>7. StopsAreRequested'
    BY <1>0 DEF StopsAreRequested, Running
  <1>8. QED
    BY <1>2, <1>4, <1>5, <1>6, <1>7 DEF IInv

LEMMA FinishKeeps ==
    ASSUME IInv, NEW i \in Threads, FinishTask(i)
    PROVE  IInv'
  <1>0. TypeOK /\ OnePlace /\ RootsFinished /\ EmplacersLive /\ StopsAreRequested
    BY DEF IInv
  <1>1. /\ Running(i) /\ emplacing[i] = NoTask
        /\ UNCHANGED <<queue, holder, offset, emplacing, owner, stopped>>
    BY DEF FinishTask, ownerVars
  <1>2. task[i] \in Tasks /\ task[i] # NoTask
    <2>1. task[i] # NoTask
      BY <1>0, <1>1 DEF OnePlace
    <2>2. QED
      BY <2>1, <1>0 DEF TypeOK
  <1>3. /\ \A t \in Tasks : future'[t] = IF t = task[i] THEN "ready" ELSE future[t]
        /\ \A j \in Threads : task'[j] = IF j = i THEN NoTask ELSE task[j]
        /\ \A j \in Threads : at'[j] = IF j # i THEN at[j]
                                        ELSE IF at[i] = "run" THEN "fetch" ELSE "drain"
    BY <1>0 DEF FinishTask, TypeOK
  <1>4. TypeOK'
    BY <1>0, <1>1 DEF FinishTask, TypeOK
  <1>5. ~Running(i)' /\ \A j \in Threads : j # i => (Running(j)' <=> Running(j))
    BY <1>3 DEF Running
  <1>6. Queued' = Queued /\ QueuedOnce'
    BY <1>0, <1>1, SameQueues DEF OnePlace
  <1>7. OnePlace'
    <2>1. \A j \in Threads : j # i => task[j] # task[i]
      BY <1>0, <1>1 DEF OnePlace, RunOnce
    <2>2. RunOnce'
      <3> SUFFICES ASSUME NEW j \in Threads, NEW k \in Threads,
                          Running(j)', task'[j] = task'[k]
                   PROVE  j = k
        BY DEF RunOnce
      <3>1. j # i /\ Running(j) /\ task[j] # NoTask
        BY <1>0, <1>5 DEF OnePlace
      <3>2. k # i /\ task[j] = task[k]
        BY <3>1, <1>3
      <3>3. QED
        BY <3>1, <3>2, <1>0 DEF OnePlace, RunOnce
    <2>3. \A j \in Threads : Running(j)' <=> task'[j] # NoTask
      BY <1>0, <1>3, <1>5 DEF OnePlace
    <2>4. NoTask \notin Queued
      <3>1. \A j \in Threads : \A k \in 1..Len(queue[j]) : queue[j][k] \in Tasks
        BY <1>0, ElementOfSeq DEF TypeOK
      <3>2. QED
        BY <3>1, InQueued, PoolAssumption
    <2>5. \A j \in Threads, b \in 0..N :
             /\ task'[j] \notin Queued' /\ emplacing'[b] \notin Queued'
             /\ task'[j] = emplacing'[b] => task'[j] = NoTask
      BY <1>0, <1>1, <1>3, <1>6, <2>4 DEF OnePlace
    <2>6. ASSUME NEW u \in Tasks
          PROVE  future'[u] = "pending" <=> \/ u \in Queued'
                                            \/ \E j \in Threads : task'[j] = u
                                            \/ \E b \in 0..N : emplacing'[b] = u
      <3>0. u # NoTask
        BY PoolAssumption
      <3>1. CASE u = task[i]
        <4>1. u \notin Queued /\ \A b \in 0..N : emplacing[b] # u
          <5>1. u \notin Queued
            BY <3>1, <1>0, OnePlaceFacts
          <5>2. \A b \in 0..N : task[i] = emplacing[b] => task[i] = NoTask
            BY <1>0 DEF OnePlace
          <5>3. QED
            BY <3>0, <3>1, <5>1, <5>2
        <4>2. QED
          BY <4>1, <3>0, <3>1, <1>1, <1>3, <1>6, <2>1
      <3>2. CASE u # task[i]
        <4>1. (\E j \in Threads : task'[j] = u) <=> \E j \in Threads : task[j] = u
          BY <3>0, <3>2, <1>3
        <4>2. QED
          BY <4>1, <3>2, <1>0, <1>1, <1>3, <1>6, PendingMeans
      <3>3. QED
        BY <3>1, <3>2
    <2>7. \A b, c \in 0..N : emplacing'[b] = emplacing'[c] => b = c \/ emplacing'[b] = NoTask
      BY <1>0, <1>1 DEF OnePlace
    <2>8. QED
      BY <1>6, <2>2, <2>3, <2>5, <2>6, <2>7 DEF OnePlace
  <1>8. RootsFinished'
    BY <1>0, <1>1, <1>3 DEF RootsFinished
  <1>9. EmplacersLive'
    BY <1>0, <1>1, <1>5 DEF EmplacersLive
  <1>10. StopsAreRequested'
    BY <1>0, <1>1, <1>3 DEF StopsAreRequested, Running
  <1>11. QED
    BY <1>4, <1>7, <1>8, <1>9, <1>10 DEF IInv

\* When all threads left their loops nobody runs or emplaces a task, and what
\* is queued is not the owner's.
LEMMA WhenAllExited ==
    ASSUME IInv, owner = "destroying", \A i \in Threads : at[i] = "exited"
    PROVE  /\ \A i \in Threads : ~Running(i) /\ task[i] = NoTask
           /\ \A a \in 0..N : emplacing[a] = NoTask
           /\ \A t \in Tasks : future[t] = "pending" <=> t \in Queued
           /\ \A t \in Roots : future[t] # "pending"
  <1>0. TypeOK /\ OnePlace /\ RootsFinished /\ EmplacersLive
    BY DEF IInv
  <1>1. \A i \in Threads : ~Running(i) /\ task[i] = NoTask
    BY <1>0 DEF Running, OnePlace
  <1>2. \A a \in 0..N : emplacing[a] = NoTask
    BY <1>0, <1>1, Indices DEF EmplacersLive
  <1>3. \A t \in Tasks : future[t] = "pending" <=> t \in Queued
    BY <1>0, <1>1, <1>2, PendingMeans, PoolAssumption
  <1>4. \A t \in Roots : t \notin Queued
    BY <1>0, InQueued DEF RootsFinished
  <1>5. QED
    BY <1>1, <1>2, <1>3, <1>4, PoolAssumption

LEMMA DestroyKeeps ==
    ASSUME IInv, DestroyQueues
    PROVE  IInv'
  <1>0. TypeOK /\ OnePlace /\ RootsFinished /\ EmplacersLive /\ StopsAreRequested
    BY DEF IInv
  <1>1. /\ owner = "destroying" /\ owner' = "done"
        /\ UNCHANGED <<holder, at, offset, task, emplacing, stopped>>
        /\ \A t \in Tasks : future'[t] = IF t \in Queued THEN "broken" ELSE future[t]
    BY DEF DestroyQueues, threadVars
  <1>2. /\ \A i \in Threads : ~Running(i) /\ task[i] = NoTask
        /\ \A a \in 0..N : emplacing[a] = NoTask
        /\ \A t \in Tasks : future[t] = "pending" <=> t \in Queued
    BY WhenAllExited DEF DestroyQueues
  <1>3. /\ queue' \in [Threads -> Seq(Tasks)]
        /\ \A i \in Threads : Len(queue'[i]) = 0
    BY EmptySeq DEF DestroyQueues
  <1>4. \A t : t \notin Queued'
    BY <1>3, InQueued
  <1>5. TypeOK'
    BY <1>0, <1>1, <1>3 DEF DestroyQueues, TypeOK
  <1>6. OnePlace'
    <2>1. QueuedOnce' /\ RunOnce' /\ \A i \in Threads : ~Running(i)'
      <3>1. \A i \in Threads : ~Running(i)'
        BY <1>1, <1>2 DEF Running
      <3>2. QueuedOnce'
        BY <1>3 DEF QueuedOnce
      <3>3. QED
        BY <3>1, <3>2 DEF RunOnce
    <2>2. \A t \in Tasks : future'[t] # "pending"
      BY <1>1, <1>2
    <2>3. QED
      BY <2>1, <2>2, <1>1, <1>2, <1>4, PoolAssumption DEF OnePlace
  <1>7. RootsFinished'
    BY <1>3 DEF RootsFinished
  <1>8. EmplacersLive' /\ StopsAreRequested'
    BY <1>0, <1>1, <1>2, Indices DEF EmplacersLive, StopsAreRequested
  <1>9. QED
    BY <1>5, <1>6, <1>7, <1>8 DEF IInv

-----------------------------------------------------------------------------
(* Every step keeps it *)

LEMMA FetchKeeps ==
    ASSUME IInv, NEW i \in Threads, TryLock(i) \/ FetchOrSteal(i) \/ LookFurther(i)
    PROVE  IInv'
  <1>0. TypeOK /\ Candidate(i) \in Threads /\ i \in 0..N
    BY CandidateIsThread, Indices DEF IInv
  <1>1. CASE TryLock(i)
    <2>1. holder' \in [Threads -> 0..Nobody]
      BY <1>0, <1>1, HolderTyped DEF TryLock
    <2>2. UNCHANGED <<queue, at, offset, task, emplacing, future, owner, stopped>>
      BY <1>1 DEF TryLock, threadVars, submitVars, ownerVars
    <2>3. QED
      BY <1>0, <2>1, <2>2, MoveKeeps DEF TypeOK, submitVars
  <1>2. CASE FetchOrSteal(i)
    <2>1. offset' \in [Threads -> 0..(N - 1)]
      BY <1>0, <1>2, Indices DEF FetchOrSteal, TypeOK
    <2>2. QED
      BY <1>0, <1>2, <2>1, PopKeeps DEF FetchOrSteal
  <1>3. CASE LookFurther(i)
    <2>1. holder' \in [Threads -> 0..Nobody]
      <3>1. CASE Unlock(i, Candidate(i))
        BY <1>0, <3>1, HolderTyped
      <3>2. CASE UNCHANGED holder
        BY <1>0, <3>2 DEF TypeOK
      <3>3. QED
        BY <1>3, <3>1, <3>2 DEF LookFurther
    <2>2. UNCHANGED <<queue, task, emplacing, future, owner, stopped>> /\ at[i] = "fetch"
      BY <1>3 DEF LookFurther, submitVars, ownerVars
    <2>3. offset' \in [Threads -> 0..(N - 1)]
      <3>1. offset \in [Threads -> 0..(N - 1)] /\ offset[i] \in 0..(N - 1)
        BY <1>0 DEF TypeOK
      <3>2. 0 \in 0..(N - 1) /\ (offset[i] + 1 < N => offset[i] + 1 \in 0..(N - 1))
        BY <3>1, PoolAssumption
      <3>3. QED
        BY <1>3, <3>1, <3>2 DEF LookFurther
    <2>4. at' = at \/ at' = [at EXCEPT ![i] = "wait"]
      BY <1>3 DEF LookFurther
    <2>5. /\ at' \in [Threads -> {"fetch", "run", "wait", "drain", "drain run", "exited"}]
          /\ \A j \in Threads : at'[j] = at[j] \/ (j = i /\ at'[j] = "wait")
      BY <2>4, <1>0 DEF TypeOK
    <2>6. \A j \in Threads :
             \/ at'[j] = at[j]
             \/ /\ ~Running(j) /\ ~Running(j)'
                /\ at'[j] \in {"drain", "exited"} => j \in stopped'
                /\ at'[j] = "exited" => queue[j] = <<>>
      BY <2>2, <2>5 DEF Running
    <2>7. stopped' \in SUBSET Threads
      BY <1>0, <2>2 DEF TypeOK
    <2>8. UNCHANGED <<queue, task, submitVars>>
      BY <2>2 DEF submitVars
    <2>9. QED
      BY <2>1, <2>2, <2>3, <2>5, <2>6, <2>7, <2>8, MoveKeeps
  <1>4. QED
    BY <1>1, <1>2, <1>3

LEMMA WaitKeeps ==
    ASSUME IInv, NEW i \in Threads,
           LockOwn(i) \/ WaitAndPop(i) \/ WaitStopped(i) \/ Drain(i)
    PROVE  IInv'
  <1>0. TypeOK /\ i \in 0..N
    BY Indices DEF IInv
  <1>1. CASE LockOwn(i)
    <2>1. holder' \in [Threads -> 0..Nobody]
      BY <1>0, <1>1, HolderTyped DEF LockOwn
    <2>2. UNCHANGED <<queue, at, offset, task, emplacing, future, owner, stopped>>
      BY <1>1 DEF LockOwn, threadVars, submitVars, ownerVars
    <2>3. QED
      BY <1>0, <2>1, <2>2, MoveKeeps DEF TypeOK, submitVars
  <1>2. CASE WaitAndPop(i)
    BY <1>0, <1>2, PopKeeps DEF WaitAndPop, TypeOK
  <1>3. ASSUME NEW to \in {"drain", "exited"}, at' = [at EXCEPT ![i] = to],
               at[i] \in {"wait", "drain"}, i \in stopped,
               to = "exited" => queue[i] = <<>>,
               Unlock(i, i),
               UNCHANGED <<queue, offset, task, submitVars, ownerVars>>
        PROVE  IInv'
    <2>1. holder' \in [Threads -> 0..Nobody]
      BY <1>0, <1>3, HolderTyped
    <2>2. UNCHANGED <<queue, offset, task, emplacing, future, owner, stopped>>
      BY <1>3 DEF submitVars, ownerVars
    <2>3. /\ at' \in [Threads -> {"fetch", "run", "wait", "drain", "drain run", "exited"}]
          /\ \A j \in Threads : at'[j] = at[j] \/ (j = i /\ at'[j] = to)
      BY <1>0, <1>3 DEF TypeOK
    <2>4. \A j \in Threads :
             \/ at'[j] = at[j]
             \/ /\ ~Running(j) /\ ~Running(j)'
                /\ at'[j] \in {"drain", "exited"} => j \in stopped'
                /\ at'[j] = "exited" => queue[j] = <<>>
      BY <1>3, <2>2, <2>3 DEF Running
    <2>5. stopped' \in SUBSET Threads /\ offset' \in [Threads -> 0..(N - 1)]
      BY <1>0, <2>2 DEF TypeOK
    <2>6. UNCHANGED <<queue, task, submitVars>>
      BY <2>2 DEF submitVars
    <2>7. QED
      BY <2>1, <2>2, <2>3, <2>4, <2>5, <2>6, MoveKeeps
  <1>4. CASE WaitStopped(i)
    BY <1>3, <1>4 DEF WaitStopped
  <1>5. CASE Drain(i)
    <2>1. CASE Pop(i, i, "drain run") /\ UNCHANGED offset
      BY <1>0, <1>5, <2>1, PopKeeps DEF Drain, TypeOK
    <2>2. CASE /\ queue[i] = <<>>
               /\ at' = [at EXCEPT ![i] = "exited"]
               /\ UNCHANGED <<queue, offset, task, submitVars, ownerVars>>
      <3>1. i \in stopped
        BY <1>5 DEF Drain, IInv, StopsAreRequested
      <3>2. QED
        BY <1>3, <1>5, <2>2, <3>1 DEF Drain
    <2>3. QED
      BY <1>5, <2>1, <2>2 DEF Drain
  <1>6. QED
    BY <1>1, <1>2, <1>4, <1>5

LEMMA RequestStopKeeps ==
    ASSUME IInv, NEW i \in Threads, RequestStop(i)
    PROVE  IInv'
  <1>0. TypeOK
    BY DEF IInv
  <1>1. /\ UNCHANGED <<queue, holder, at, offset, task, emplacing, future>>
        /\ owner' = "destroying" /\ emplacing[Owner] = NoTask
        /\ stopped' = stopped \cup {i}
    BY DEF RequestStop, threadVars, submitVars
  <1>2. QED
    BY <1>0, <1>1, MoveKeeps DEF TypeOK, submitVars

LEMMA NextKeeps ==
    ASSUME IInv, [Next]_vars
    PROVE  IInv'
  <1>1. CASE OwnerSubmits
    <2>1. PICK t \in Roots : Emplace(Owner, t) /\ owner = "submitting"
      BY <1>1 DEF OwnerSubmits
    <2>2. QED
      BY <2>1, EmplaceKeeps, Indices, PoolAssumption
  <1>2. ASSUME NEW i \in Threads, TaskSubmits(i) PROVE IInv'
    <2>1. PICK t \in Tasks \ Roots : Emplace(i, t) /\ Running(i)
      BY <1>2 DEF TaskSubmits
    <2>2. QED
      BY <2>1, EmplaceKeeps, Indices
  <1>3. CASE UNCHANGED vars
    <2>1. UNCHANGED <<queue, holder, at, offset, task, emplacing, future, owner, stopped>>
      BY <1>3 DEF vars, threadVars, submitVars, ownerVars
    <2>2. TypeOK
      BY DEF IInv
    <2>3. QED
      BY <2>1, <2>2, MoveKeeps DEF TypeOK, submitVars
  <1>4. QED
    BY <1>1, <1>2, <1>3, StepCases, PushKeeps, FetchKeeps, WaitKeeps, FinishKeeps,
       RequestStopKeeps, DestroyKeeps

\* The invariant: tasks are in one place, the threads that are gone left none
\* of the owner's behind, and who submits is there to submit.
THEOREM PoolInvariant == Spec => []IInv
  <1>1. IInv /\ [Next]_vars => IInv'
    BY NextKeeps
  <1>2. QED
    BY <1>1, InitIInv, PTL DEF Spec

\* Every variable keeps its type, for any number of threads and tasks.
THEOREM TypeCorrect == Spec => []TypeOK
  <1>1. IInv => TypeOK
    BY DEF IInv
  <1>2. QED
    BY <1>1, PoolInvariant, PTL

\* Stealing neither loses a task nor runs it twice, and a thread that has left
\* its loop left no task of the owner in its queue.
THEOREM NothingLeftBehind == Spec => []NoTaskLeftBehind
  <1>1. IInv => NoTaskLeftBehind
    BY DEF IInv, NoTaskLeftBehind
  <1>2. QED
    BY <1>1, PoolInvariant, PTL

-----------------------------------------------------------------------------
(* The pool is a TaskExecutor *)

\* What TaskExecutor sees of a task, in the terms of the pool's invariant.
LEMMA FateIs ==
    ASSUME TypeOK, OnePlace, NEW t \in Tasks
    PROVE  /\ Fate(t) = "unborn" <=> future[t] = "none"
           /\ Fate(t) = "running" <=> \E i \in Threads : task[i] = t
           /\ Fate(t) = "waiting" <=> /\ future[t] = "pending"
                                      /\ \A i \in Threads : task[i] # t
           /\ Fate(t) = "ready" <=> future[t] = "ready"
           /\ Fate(t) = "broken" <=> future[t] = "broken"
  <1>1. future[t] \in {"none", "pending", "ready", "broken"}
    BY DEF TypeOK
  <1>2. (\E i \in Threads : task[i] = t) => future[t] = "pending"
    BY PendingMeans
  <1>3. CASE future[t] = "none"
    BY <1>2, <1>3 DEF Fate
  <1>4. CASE future[t] = "pending"
    BY <1>4 DEF Fate
  <1>5. CASE future[t] \in {"ready", "broken"}
    BY <1>2, <1>5 DEF Fate
  <1>6. QED
    BY <1>1, <1>3, <1>4, <1>5

LEMMA SubmitSimulates ==
    ASSUME IInv, NEW a \in 0..N, NEW t \in Tasks, Emplace(a, t),
           \/ t \in Roots /\ owner = "submitting"
           \/ t \notin Roots /\ a \in Threads /\ Running(a)
    PROVE  Executor!Submit(t)
  <1>0. TypeOK /\ OnePlace
    BY DEF IInv
  <1>1. UNCHANGED <<task, owner>> /\ future[t] = "none"
    BY DEF Emplace, threadVars, ownerVars
  <1>2. \A u \in Tasks : future'[u] = IF u = t THEN "pending" ELSE future[u]
    BY <1>0 DEF Emplace, TypeOK
  <1>3. \A i \in Threads : task[i] # t
    BY <1>0, <1>1, PendingMeans
  <1>4. \A u \in Tasks : Fate(u)' = IF u = t THEN "waiting" ELSE Fate(u)
    BY <1>1, <1>2, <1>3 DEF Fate
  <1>5. Fate(t) = "unborn"
    BY <1>1 DEF Fate
  <1>6. t \notin Roots => \E s \in Tasks : Fate(s) = "running"
    <2> SUFFICES ASSUME t \notin Roots PROVE \E s \in Tasks : Fate(s) = "running"
      OBVIOUS
    <2>1. task[a] # NoTask /\ a \in Threads
      BY <1>0 DEF OnePlace
    <2>2. task[a] \in Tasks
      BY <2>1, <1>0 DEF TypeOK
    <2>3. Fate(task[a]) = "running"
      BY <2>1, <2>2, <1>0, FateIs
    <2>4. QED
      BY <2>2, <2>3
  <1>7. QED
    BY <1>1, <1>4, <1>5, <1>6 DEF Executor!Submit

LEMMA StartSimulates ==
    ASSUME IInv, NEW i \in Threads, NEW q \in Threads, NEW next, Pop(i, q, next),
           ~Running(i)
    PROVE  \E t \in Tasks : Executor!Start(t)
  <1>0. TypeOK /\ OnePlace
    BY DEF IInv
  <1> DEFINE t == Head(queue[q])
  <1>1. t \in Tasks /\ t \in Queued
    <2>1. QueuedOnce
      BY <1>0 DEF OnePlace
    <2>2. queue[q] # <<>> /\ queue' = [queue EXCEPT ![q] = Tail(@)]
      BY DEF Pop
    <2>3. QED
      BY <1>0, <2>1, <2>2, PopQueues
  <1>2. task' = [task EXCEPT ![i] = t] /\ UNCHANGED <<future, owner>>
    BY DEF Pop, submitVars, ownerVars
  <1> HIDE DEF t
  <1>3. \A j \in Threads : task'[j] = IF j = i THEN t ELSE task[j]
    BY <1>0, <1>2 DEF TypeOK
  <1>4. task[i] = NoTask /\ \A j \in Threads : task[j] # t
    BY <1>0, <1>1, OnePlaceFacts DEF OnePlace
  <1>5. future[t] = "pending"
    BY <1>0, <1>1, PendingMeans
  <1>6. \A u \in Tasks : Fate(u)' = IF u = t THEN "running" ELSE Fate(u)
    <2> SUFFICES ASSUME NEW u \in Tasks
                 PROVE  Fate(u)' = IF u = t THEN "running" ELSE Fate(u)
      OBVIOUS
    <2>1. u # NoTask
      BY PoolAssumption
    <2>2. u # t => ((\E j \in Threads : task'[j] = u) <=> \E j \in Threads : task[j] = u)
      BY <2>1, <1>3, <1>4
    <2>3. CASE u = t
      BY <2>3, <1>2, <1>3, <1>5 DEF Fate
    <2>4. CASE u # t
      BY <2>2, <2>4, <1>2 DEF Fate
    <2>5. QED
      BY <2>3, <2>4
  <1>7. Fate(t) = "waiting"
    BY <1>4, <1>5 DEF Fate
  <1>8. Executor!Start(t)
    BY <1>1, <1>2, <1>6, <1>7 DEF Executor!Start
  <1>9. QED
    BY <1>1, <1>8

LEMMA FinishSimulates ==
    ASSUME IInv, NEW i \in Threads, FinishTask(i)
    PROVE  \E t \in Tasks : Executor!Finish(t)
  <1>0. TypeOK /\ OnePlace
    BY DEF IInv
  <1> DEFINE t == task[i]
  <1>1. Running(i) /\ t # NoTask
    BY <1>0 DEF FinishTask, OnePlace
  <1>2. t \in Tasks
    BY <1>0, <1>1 DEF TypeOK
  <1>3. /\ \A u \in Tasks : future'[u] = IF u = t THEN "ready" ELSE future[u]
        /\ \A j \in Threads : task'[j] = IF j = i THEN NoTask ELSE task[j]
        /\ UNCHANGED owner
    BY <1>0 DEF FinishTask, TypeOK, ownerVars
  <1>4. \A u \in Tasks : Fate(u)' = IF u = t THEN "ready" ELSE Fate(u)
    <2> SUFFICES ASSUME NEW u \in Tasks
                 PROVE  Fate(u)' = IF u = t THEN "ready" ELSE Fate(u)
      OBVIOUS
    <2>1. u # NoTask
      BY PoolAssumption
    <2>2. u # t => ((\E j \in Threads : task'[j] = u) <=> \E j \in Threads : task[j] = u)
      BY <2>1, <1>3
    <2>3. CASE u = t
      BY <2>3, <1>3 DEF Fate
    <2>4. CASE u # t
      BY <2>2, <2>4, <1>3 DEF Fate
    <2>5. QED
      BY <2>3, <2>4
  <1>5. Fate(t) = "running"
    BY <1>0, <1>2, FateIs
  <1>6. Executor!Finish(t)
    BY <1>2, <1>3, <1>4, <1>5 DEF Executor!Finish
  <1>7. QED
    BY <1>2, <1>6

LEMMA DestroySimulates ==
    ASSUME IInv, DestroyQueues
    PROVE  Executor!Abandon
  <1>0. TypeOK /\ OnePlace
    BY DEF IInv
  <1>1. /\ \A i \in Threads : task[i] = NoTask
        /\ \A t \in Tasks : future[t] = "pending" <=> t \in Queued
        /\ \A t \in Roots : future[t] # "pending"
    BY WhenAllExited DEF DestroyQueues
  <1>2. /\ owner = "destroying" /\ owner' = "done" /\ UNCHANGED task
        /\ \A t \in Tasks : future'[t] = IF t \in Queued THEN "broken" ELSE future[t]
    BY DEF DestroyQueues, threadVars
  <1>3. \A t \in Tasks : \A i \in Threads : task[i] # t
    BY <1>1, PoolAssumption
  <1>4. \A t \in Tasks : Fate(t)' = IF Fate(t) = "waiting" THEN "broken" ELSE Fate(t)
    <2> SUFFICES ASSUME NEW t \in Tasks
                 PROVE  Fate(t)' = IF Fate(t) = "waiting" THEN "broken" ELSE Fate(t)
      OBVIOUS
    <2>1. future[t] \in {"none", "pending", "ready", "broken"}
      BY <1>0 DEF TypeOK
    <2>2. QED
      BY <1>1, <1>2, <1>3, <2>1 DEF Fate
  <1>5. \A t \in Tasks : Fate(t) # "running"
    BY <1>0, <1>3, FateIs
  <1>6. \A t \in Roots : Fate(t) # "waiting"
    BY <1>0, <1>1, FateIs, PoolAssumption
  <1>7. QED
    BY <1>2, <1>4, <1>5, <1>6, PoolAssumption DEF Executor!Abandon

\* The pool does what TaskExecutor promises: a task is run once at most, and a
\* task of the owner is never given up.
THEOREM PoolIsAnExecutor == Spec => ImplementsExecutor
  <1>1. Init => Executor!Init
    BY DEF Init, Executor!Init, Fate
  <1>2. IInv /\ [Next]_vars => [Executor!Next]_(Executor!vars)
    <2> SUFFICES ASSUME IInv, [Next]_vars PROVE [Executor!Next]_(Executor!vars)
      OBVIOUS
    <2>1. CASE OwnerSubmits
      <3>1. PICK t \in Roots : Emplace(Owner, t) /\ owner = "submitting"
        BY <2>1 DEF OwnerSubmits
      <3>2. t \in Tasks /\ Executor!Submit(t)
        BY <3>1, SubmitSimulates, Indices, PoolAssumption
      <3>3. QED
        BY <3>2 DEF Executor!Next
    <2>2. ASSUME NEW i \in Threads, TaskSubmits(i) PROVE Executor!Next
      <3>1. PICK t \in Tasks \ Roots : Emplace(i, t) /\ Running(i)
        BY <2>2 DEF TaskSubmits
      <3>2. t \in Tasks /\ Executor!Submit(t)
        BY <3>1, SubmitSimulates, Indices
      <3>3. QED
        BY <3>2 DEF Executor!Next
    <2>3. ASSUME NEW i \in Threads, NEW q \in Threads, NEW next, Pop(i, q, next),
                 at[i] \in {"fetch", "wait", "drain"}
          PROVE  Executor!Next
      <3>1. ~Running(i)
        BY <2>3 DEF Running
      <3>2. QED
        BY <2>3, <3>1, StartSimulates DEF Executor!Next
    <2>4. ASSUME NEW i \in Threads, FinishTask(i) PROVE Executor!Next
      BY <2>4, FinishSimulates DEF Executor!Next
    <2>5. ASSUME NEW i \in Threads, RequestStop(i) PROVE [Executor!Next]_(Executor!vars)
      <3>1. UNCHANGED <<task, future>> /\ owner' = "destroying" /\ owner # "done"
        BY <2>5 DEF RequestStop, threadVars, submitVars
      <3>2. \A t \in Tasks : Fate(t)' = Fate(t)
        BY <3>1 DEF Fate
      <3>3. owner \in {"submitting", "destroying", "done"}
        BY DEF IInv, TypeOK
      <3>4. CASE owner = "submitting"
        BY <3>1, <3>2, <3>4 DEF Executor!Close, Executor!Next
      <3>5. CASE owner = "destroying"
        BY <3>1, <3>2, <3>5 DEF Executor!vars
      <3>6. QED
        BY <3>1, <3>3, <3>4, <3>5
    <2>6. CASE DestroyQueues
      BY <2>6, DestroySimulates DEF Executor!Next
    <2>7. CASE UNCHANGED <<task, future, owner>>
      <3>1. \A t \in Tasks : Fate(t)' = Fate(t)
        BY <2>7 DEF Fate
      <3>2. QED
        BY <2>7, <3>1 DEF Executor!vars
    <2>8. \A i \in Threads : TypeOK /\ Candidate(i) \in Threads
      BY CandidateIsThread DEF IInv
    <2>9. ASSUME NEW i \in Threads,
                 FetchOrSteal(i) \/ WaitAndPop(i) \/ Drain(i)
          PROVE  Executor!Next \/ UNCHANGED <<task, future, owner>>
      BY <2>3, <2>8, <2>9 DEF FetchOrSteal, WaitAndPop, Drain, submitVars, ownerVars
    <2>10. ASSUME NEW i \in Threads,
                  TryLock(i) \/ LookFurther(i) \/ LockOwn(i) \/ WaitStopped(i)
           PROVE  UNCHANGED <<task, future, owner>>
      BY <2>10 DEF TryLock, LookFurther, LockOwn, WaitStopped, threadVars, submitVars, ownerVars
    <2>11. ASSUME NEW a \in 0..N, Push(a)
           PROVE  UNCHANGED <<task, future, owner>>
      BY <2>11 DEF Push, threadVars, ownerVars
    <2>12. CASE UNCHANGED vars
      BY <2>7, <2>12 DEF vars, threadVars, submitVars, ownerVars
    <2>13. QED
      BY StepCases, <2>1, <2>2, <2>4, <2>5, <2>6, <2>7, <2>9, <2>10, <2>11, <2>12
  <1>3. QED
    BY <1>1, <1>2, PoolInvariant, PTL DEF Spec, ImplementsExecutor, Executor!Spec

-----------------------------------------------------------------------------
(* Locks *)

\* Who holds the mutex of q is about to unlock it, with nobody to wait for.
WillUnlock(a, q) ==
  \/ emplacing[a] # NoTask
  \/ /\ a \in Threads
     /\ \/ at[a] = "fetch" /\ q = Candidate(a)
        \/ at[a] = "drain" /\ q = a
        \/ at[a] = "wait" /\ q = a /\ (queue[a] # <<>> \/ a \in stopped)

\* Whoever holds a mutex holds no other, and lets go of it: an emplace() to
\* push its task, a thread to take one or to leave.  Nobody waits for a mutex
\* while he holds one, nor sleeps on a condition that has come true.
LocksAreLetGo ==
  /\ \A q \in Threads : \A a \in 0..N : holder[q] = a => WillUnlock(a, q)
  /\ \A q, r \in Threads : holder[q] = holder[r] => q = r \/ holder[q] = Nobody
  /\ \A a \in 0..N : emplacing[a] # NoTask => \E q \in Threads : holder[q] = a

\* Who is not in an emplace() holds at most the queue that it looks at.
LEMMA HoldsOnly ==
    ASSUME LocksAreLetGo, NEW a \in 0..N, emplacing[a] = NoTask,
           NEW q \in Threads, holder[q] = a
    PROVE  /\ a \in Threads /\ at[a] \in {"fetch", "wait", "drain"}
           /\ at[a] = "fetch" => q = Candidate(a)
           /\ at[a] # "fetch" => q = a
  BY Indices DEF LocksAreLetGo, WillUnlock

\* A locks q, of which it holds none, and will unlock it; nobody else moves.
LEMMA LockedLetsGo ==
    ASSUME IInv, LocksAreLetGo, NEW a \in 0..N, NEW q \in Threads, Lock(a, q),
           \A r \in Threads : holder[r] # a,
           WillUnlock(a, q)',
           \A b \in 0..N : b # a => emplacing'[b] = emplacing[b],
           UNCHANGED <<queue, at, offset, stopped>>
    PROVE  LocksAreLetGo'
  <1>1. /\ \A r \in Threads : holder'[r] = IF r = q THEN a ELSE holder[r]
        /\ holder[q] = Nobody
    BY DEF IInv, TypeOK, Lock, Holds
  <1>2. ASSUME NEW r \in Threads, NEW b \in 0..N, holder'[r] = b PROVE WillUnlock(b, r)'
    <2>1. CASE r = q
      BY <1>1, <1>2, <2>1
    <2>2. CASE r # q
      <3>1. holder[r] = b /\ b # a
        BY <1>1, <1>2, <2>2
      <3>2. WillUnlock(b, r)
        BY <3>1 DEF LocksAreLetGo
      <3>3. QED
        BY <3>1, <3>2 DEF WillUnlock, Candidate
    <2>3. QED
      BY <2>1, <2>2
  <1>3. \A r, s \in Threads : holder'[r] = holder'[s] => r = s \/ holder'[r] = Nobody
    BY <1>1 DEF LocksAreLetGo
  <1>4. \A b \in 0..N : emplacing'[b] # NoTask => \E r \in Threads : holder'[r] = b
    <2>1. \A b \in 0..N : b # Nobody
      BY Indices
    <2>2. QED
      BY <1>1, <2>1 DEF LocksAreLetGo
  <1>5. QED
    BY <1>2, <1>3, <1>4 DEF LocksAreLetGo

\* A unlocks q, the only one it holds, and is not within an emplace() then;
\* the queues that others have locked stay as they are.
LEMMA UnlockedLetsGo ==
    ASSUME IInv, LocksAreLetGo, NEW a \in 0..N, NEW q \in Threads, Unlock(a, q),
           emplacing'[a] = NoTask,
           \A b \in 0..N : b # a => emplacing'[b] = emplacing[b],
           \A b \in Threads : b # a => at'[b] = at[b] /\ offset'[b] = offset[b],
           \A b \in Threads : b # q => queue'[b] = queue[b],
           UNCHANGED stopped
    PROVE  LocksAreLetGo'
  <1>1. /\ \A r \in Threads : holder'[r] = IF r = q THEN Nobody ELSE holder[r]
        /\ holder[q] = a /\ a # Nobody
    BY Indices DEF IInv, TypeOK, Unlock, Holds
  <1>2. ASSUME NEW r \in Threads, NEW b \in 0..N, holder'[r] = b PROVE WillUnlock(b, r)'
    <2>1. r # q /\ holder[r] = b /\ b # a
      <3>1. r # q /\ holder[r] = b
        BY <1>1, <1>2, Indices
      <3>2. QED
        BY <1>1, <3>1 DEF LocksAreLetGo
    <2>2. WillUnlock(b, r)
      BY <2>1 DEF LocksAreLetGo
    <2>3. QED
      BY <2>1, <2>2 DEF WillUnlock, Candidate
  <1>3. \A r, s \in Threads : holder'[r] = holder'[s] => r = s \/ holder'[r] = Nobody
    BY <1>1 DEF LocksAreLetGo
  <1>4. \A b \in 0..N : emplacing'[b] # NoTask => \E r \in Threads : holder'[r] = b
    BY <1>1 DEF LocksAreLetGo
  <1>5. QED
    BY <1>2, <1>3, <1>4 DEF LocksAreLetGo

\* No lock changes hands, and who holds one stays where it is.
LEMMA UntouchedLetsGo ==
    ASSUME IInv, LocksAreLetGo, UNCHANGED <<holder, emplacing>>,
           \A q \in Threads : \A b \in Threads : holder[q] = b /\ emplacing[b] = NoTask =>
              at'[b] = at[b] /\ offset'[b] = offset[b] /\ queue'[b] = queue[b],
           stopped \subseteq stopped'
    PROVE  LocksAreLetGo'
  <1>1. ASSUME NEW q \in Threads, NEW b \in 0..N, holder'[q] = b PROVE WillUnlock(b, q)'
    <2>1. holder[q] = b
      BY <1>1
    <2>2. WillUnlock(b, q)
      BY <2>1 DEF LocksAreLetGo
    <2>3. QED
      BY <2>1, <2>2 DEF WillUnlock, Candidate
  <1>2. QED
    BY <1>1 DEF LocksAreLetGo

\* A thread that runs a task holds no lock but that of an emplace().
LEMMA RunnerHoldsNone ==
    ASSUME LocksAreLetGo, NEW i \in Threads, emplacing[i] = NoTask,
           at[i] \notin {"fetch", "wait", "drain"}
    PROVE  \A q \in Threads : holder[q] # i
  BY HoldsOnly, Indices

LEMMA LoopIdle ==
    ASSUME IInv, NEW i \in Threads, at[i] \in {"fetch", "wait", "drain", "exited"}
    PROVE  emplacing[i] = NoTask
  BY DEF IInv, EmplacersLive, Running

LEMMA EmplaceLetsGo ==
    ASSUME IInv, LocksAreLetGo, NEW a \in 0..N, NEW t \in Tasks, Emplace(a, t),
           a \in Threads => Running(a)
    PROVE  LocksAreLetGo'
  <1>1. /\ emplacing[a] = NoTask /\ emplacing' = [emplacing EXCEPT ![a] = t]
        /\ UNCHANGED <<queue, at, offset, stopped>>
    BY DEF Emplace, threadVars, ownerVars
  <1>2. PICK q \in Threads : Lock(a, q)
    BY DEF Emplace
  <1>3. \A r \in Threads : holder[r] # a
    BY <1>1, HoldsOnly DEF Running
  <1>4. emplacing'[a] = t /\ \A b \in 0..N : b # a => emplacing'[b] = emplacing[b]
    BY <1>1 DEF IInv, TypeOK
  <1>5. WillUnlock(a, q)'
    BY <1>4, PoolAssumption DEF WillUnlock
  <1>6. QED
    BY <1>1, <1>2, <1>3, <1>4, <1>5, LockedLetsGo

LEMMA PushLetsGo ==
    ASSUME IInv, LocksAreLetGo, NEW a \in 0..N, Push(a)
    PROVE  LocksAreLetGo'
  <1>1. PICK q \in Threads : /\ Unlock(a, q)
                             /\ queue' = [queue EXCEPT ![q] = Append(@, emplacing[a])]
    BY DEF Push
  <1>2. /\ emplacing' = [emplacing EXCEPT ![a] = NoTask]
        /\ UNCHANGED <<at, offset, stopped>>
    BY DEF Push, threadVars, ownerVars
  <1>3. /\ emplacing'[a] = NoTask
        /\ \A b \in 0..N : b # a => emplacing'[b] = emplacing[b]
        /\ \A b \in Threads : b # q => queue'[b] = queue[b]
    BY <1>1, <1>2 DEF IInv, TypeOK
  <1>4. QED
    BY <1>1, <1>2, <1>3, UnlockedLetsGo

LEMMA LoopLocksLetGo ==
    ASSUME IInv, LocksAreLetGo, NEW i \in Threads, TryLock(i) \/ LockOwn(i)
    PROVE  LocksAreLetGo'
  <1>1. /\ UNCHANGED <<queue, at, offset, stopped, emplacing>>
        /\ i \in 0..N /\ at[i] \in {"fetch", "wait", "drain"}
    BY Indices DEF TryLock, LockOwn, threadVars, submitVars, ownerVars
  <1>2. PICK q \in Threads : /\ Lock(i, q)
                             /\ \/ at[i] = "fetch" /\ q = Candidate(i)
                                \/ at[i] = "drain" /\ q = i
                                \/ at[i] = "wait" /\ q = i /\ (queue[i] # <<>> \/ i \in stopped)
    BY CandidateIsThread DEF TryLock, LockOwn, IInv
  <1>3. holder[q] = Nobody /\ i # Nobody
    BY <1>1, <1>2, Indices DEF Lock, Holds
  <1>4. \A r \in Threads : holder[r] # i
    BY <1>1, <1>2, <1>3, LoopIdle, HoldsOnly
  <1>5. WillUnlock(i, q)'
    BY <1>1, <1>2 DEF WillUnlock, Candidate
  <1>6. QED
    BY <1>1, <1>2, <1>4, <1>5, LockedLetsGo

LEMMA LoopUnlocksLetGo ==
    ASSUME IInv, LocksAreLetGo, NEW i \in Threads,
           \/ FetchOrSteal(i) \/ WaitAndPop(i) \/ WaitStopped(i) \/ Drain(i)
           \/ (LookFurther(i) /\ Unlock(i, Candidate(i)))
    PROVE  LocksAreLetGo'
  <1>0. TypeOK /\ i \in 0..N /\ Candidate(i) \in Threads
    BY Indices, CandidateIsThread DEF IInv
  <1>1. PICK q \in Threads : /\ Unlock(i, q)
                             /\ queue' = queue \/ queue' = [queue EXCEPT ![q] = Tail(@)]
    BY <1>0 DEF FetchOrSteal, WaitAndPop, WaitStopped, Drain, LookFurther, Pop
  <1>2. /\ UNCHANGED <<emplacing, stopped>>
        /\ at[i] \in {"fetch", "wait", "drain"}
        /\ \A b \in Threads : b # i => at'[b] = at[b] /\ offset'[b] = offset[b]
    BY <1>0 DEF FetchOrSteal, WaitAndPop, WaitStopped, Drain, LookFurther, Pop,
                submitVars, ownerVars, TypeOK
  <1>3. emplacing'[i] = NoTask
    BY <1>2, LoopIdle
  <1>4. \A b \in Threads : b # q => queue'[b] = queue[b]
    BY <1>0, <1>1 DEF TypeOK
  <1>5. QED
    BY <1>0, <1>1, <1>2, <1>3, <1>4, UnlockedLetsGo

LEMMA OthersLetGo ==
    ASSUME IInv, LocksAreLetGo,
           \/ \E i \in Threads : \/ (LookFurther(i) /\ ~Unlock(i, Candidate(i)))
                                 \/ FinishTask(i) \/ RequestStop(i)
           \/ DestroyQueues
           \/ UNCHANGED vars
    PROVE  LocksAreLetGo'
  <1>1. ASSUME NEW i \in Threads, LookFurther(i), ~Unlock(i, Candidate(i)) PROVE LocksAreLetGo'
    <2>1. /\ holder[Candidate(i)] # i /\ at[i] = "fetch"
          /\ UNCHANGED <<holder, queue, emplacing, stopped>>
          /\ \A b \in Threads : b # i => at'[b] = at[b] /\ offset'[b] = offset[b]
      BY <1>1 DEF LookFurther, submitVars, ownerVars, IInv, TypeOK
    <2>2. \A q \in Threads : holder[q] # i
      BY <2>1, LoopIdle, HoldsOnly, Indices
    <2>3. QED
      BY <2>1, <2>2, UntouchedLetsGo
  <1>2. ASSUME NEW i \in Threads, FinishTask(i) PROVE LocksAreLetGo'
    <2>1. /\ emplacing[i] = NoTask /\ Running(i)
          /\ UNCHANGED <<holder, queue, emplacing, stopped>>
          /\ \A b \in Threads : b # i => at'[b] = at[b] /\ offset'[b] = offset[b]
      BY <1>2 DEF FinishTask, ownerVars, IInv, TypeOK
    <2>2. \A q \in Threads : holder[q] # i
      BY <2>1, RunnerHoldsNone DEF Running
    <2>3. QED
      BY <2>1, <2>2, UntouchedLetsGo
  <1>3. ASSUME NEW i \in Threads, RequestStop(i) PROVE LocksAreLetGo'
    <2>1. UNCHANGED <<holder, queue, emplacing, at, offset>> /\ stopped \subseteq stopped'
      BY <1>3 DEF RequestStop, threadVars, submitVars
    <2>2. QED
      BY <2>1, UntouchedLetsGo
  <1>4. CASE DestroyQueues
    <2>1. /\ UNCHANGED <<holder, emplacing, at, offset, stopped>>
          /\ \A b \in Threads : at[b] = "exited"
      BY <1>4 DEF DestroyQueues, threadVars
    <2>2. \A q \in Threads : \A b \in Threads : ~(holder[q] = b /\ emplacing[b] = NoTask)
      BY <2>1, RunnerHoldsNone
    <2>3. QED
      BY <2>1, <2>2, UntouchedLetsGo
  <1>5. CASE UNCHANGED vars
    <2>1. UNCHANGED <<holder, queue, emplacing, at, offset, stopped>>
      BY <1>5 DEF vars, threadVars, submitVars, ownerVars
    <2>2. QED
      BY <2>1, UntouchedLetsGo
  <1>6. QED
    BY <1>1, <1>2, <1>3, <1>4, <1>5

(***************************************************************************)
(* No deadlock among the mutexes of the queues: whoever holds one has      *)
(* somewhere to go with it, so that a thread or an emplace() that blocks   *)
(* on a queue waits for one step of somebody who waits for nobody.         *)
(***************************************************************************)
THEOREM NobodyKeepsALock == Spec => []LocksAreLetGo
  <1>1. Init => LocksAreLetGo
    <2> SUFFICES ASSUME Init PROVE LocksAreLetGo
      OBVIOUS
    <2>1. /\ \A q \in Threads : holder[q] = Nobody
          /\ \A a \in 0..N : emplacing[a] = NoTask /\ a # Nobody
      BY Indices DEF Init
    <2>2. QED
      BY <2>1 DEF LocksAreLetGo
  <1>2. IInv /\ LocksAreLetGo /\ [Next]_vars => LocksAreLetGo'
    <2> SUFFICES ASSUME IInv, LocksAreLetGo, [Next]_vars PROVE LocksAreLetGo'
      OBVIOUS
    <2>1. CASE OwnerSubmits
      BY <2>1, EmplaceLetsGo, Indices, PoolAssumption DEF OwnerSubmits
    <2>2. ASSUME NEW i \in Threads, TaskSubmits(i) PROVE LocksAreLetGo'
      BY <2>2, EmplaceLetsGo, Indices DEF TaskSubmits
    <2>3. QED
      BY <2>1, <2>2, StepCases, PushLetsGo, LoopLocksLetGo, LoopUnlocksLetGo, OthersLetGo
  <1>3. QED
    BY <1>1, <1>2, PoolInvariant, PTL DEF Spec

(***************************************************************************)
(* A promise is kept or broken once: what a Future has been told stays.    *)
(***************************************************************************)
THEOREM FuturesAreSetOnce ==
    Spec => [][\A t \in Tasks : future[t] \in {"ready", "broken"} => future'[t] = future[t]]_vars
  <1> DEFINE Stay == \A t \in Tasks : future[t] \in {"ready", "broken"} => future'[t] = future[t]
  <1>1. IInv /\ [Next]_vars => [Stay]_vars
    <2> SUFFICES ASSUME IInv, [Next]_vars, NEW t \in Tasks, future[t] \in {"ready", "broken"}
                 PROVE  future'[t] = future[t]
      OBVIOUS
    <2>1. TypeOK /\ future[t] # "pending" /\ future[t] # "none"
      BY DEF IInv
    <2>2. t \notin Queued /\ \A i \in Threads : task[i] # t
      BY <2>1, PendingMeans DEF IInv
    <2>3. ASSUME NEW a, NEW s, Emplace(a, s) PROVE future'[t] = future[t]
      BY <2>1, <2>3 DEF Emplace, TypeOK
    <2>4. ASSUME NEW i \in Threads, FinishTask(i) PROVE future'[t] = future[t]
      BY <2>1, <2>2, <2>4 DEF FinishTask, TypeOK
    <2>5. CASE DestroyQueues
      BY <2>2, <2>5 DEF DestroyQueues
    <2>6. ASSUME NEW i \in Threads, RequestStop(i) \/ TryLock(i) \/ FetchOrSteal(i) \/ LookFurther(i)
                 \/ LockOwn(i) \/ WaitAndPop(i) \/ WaitStopped(i) \/ Drain(i)
          PROVE  future' = future
      BY <2>6 DEF RequestStop, TryLock, FetchOrSteal, LookFurther, LockOwn, WaitAndPop,
                  WaitStopped, Drain, Pop, submitVars
    <2>7. ASSUME NEW a \in 0..N, Push(a) PROVE future' = future
      BY <2>7 DEF Push
    <2>8. UNCHANGED vars => future' = future
      BY DEF vars, submitVars
    <2>9. QED
      BY <2>3, <2>4, <2>5, <2>6, <2>7, <2>8, StepCases DEF OwnerSubmits, TaskSubmits
  <1>2. QED
    BY <1>1, PoolInvariant, PTL DEF Spec

=============================================================================
