-------------------------- MODULE MessageQueueProofs --------------------------
(***************************************************************************)
(* Proofs about MessageQueue, for any set of Java threads and any number   *)
(* of posts: its type invariant, the mutual exclusion and wakeup           *)
(* invariants, and the refinement of FifoWork.                             *)
(***************************************************************************)
EXTENDS MessageQueue, SequenceTheorems, TLAPS

\* The owner of the mutex is the thread inside a critical section.
MutexInv == \A t \in Threads : Holding(t) <=> mutex = t

\* From the event loop's dispatch to the read, nobody else empties the eventfd.
ReadInv == pc[Compositor] \in {"runlock", "read"} => counter > 0

\* The wakeup of a pushed closure is on its way whenever run() is not draining.
WakeupInv ==
  fd = "open" /\ pc[Compositor] \in {"poll", "exited", "runlock", "read"} /\ queue # << >>
    => counter > 0 \/ \E t \in Callers : pc[t] = "signal"

IInv == TypeOK /\ MutexInv /\ ReadInv /\ WakeupInv

USE DEF Threads, CallerPCs, CompositorPCs

-----------------------------------------------------------------------------
LEMMA FollowUpKinds ==
  ASSUME NEW k \in DOMAIN FollowUp PROVE FollowUp[k] \in Kinds
  BY DEF FollowUp, Kinds

\* The type invariant holds initially.
LEMMA InitTypeOK == Init => TypeOK
  <1>1. Nothing \in Closures
    BY DEF Nothing, Closures, Kinds
  <1>. QED BY <1>1, ConstAssumption DEF Init, TypeOK

\* Entering write keeps the type invariant, whoever posts.
LEMMA StartPostTypeOK ==
  ASSUME TypeOK, NEW t \in Threads, NEW k \in Kinds, StartPost(t, k)
  PROVE  TypeOK'
  <1>1. [by |-> t, n |-> posts[t] + 1, kind |-> k] \in Closures
    BY DEF TypeOK, Closures
  <1>. QED BY <1>1, ConstAssumption DEF TypeOK, StartPost

\* The steps of write keep the type invariant.
LEMMA WriteTypeOK ==
  ASSUME TypeOK, NEW t \in Threads, Write(t)
  PROVE  TypeOK'
  <1>1. CASE WriteLock(t)
    BY <1>1, ConstAssumption DEF TypeOK, WriteLock
  <1>2. CASE WritePush(t)
    BY <1>2, ConstAssumption DEF TypeOK, WritePush
  <1>3. CASE WriteSignal(t)
    BY <1>3, ConstAssumption DEF TypeOK, WriteSignal
  <1>4. CASE WriteUnlock(t)
    BY <1>4, ConstAssumption DEF TypeOK, WriteUnlock, AfterPost
  <1>. QED BY <1>1, <1>2, <1>3, <1>4 DEF Write

\* Every step keeps the type invariant.
LEMMA NextTypeOK == TypeOK /\ [Next]_vars => TypeOK'
  <1> SUFFICES ASSUME TypeOK, [Next]_vars PROVE TypeOK'
    OBVIOUS
  <1> USE ConstAssumption
  <1>1. ASSUME NEW t \in Threads, Write(t) PROVE TypeOK'
    BY <1>1, WriteTypeOK
  <1>2. ASSUME NEW t \in Callers, JniPost(t) PROVE TypeOK'
    <2>1. PICK k \in JniKinds : StartPost(t, k)
      BY <1>2 DEF JniPost
    <2>2. k \in Kinds
      BY DEF Kinds
    <2>. QED BY <2>1, <2>2, StartPostTypeOK
  <1>3. ASSUME NEW t \in Callers, Join(t) PROVE TypeOK'
    BY <1>3 DEF TypeOK, Join
  <1>4. CASE Dispatch
    BY <1>4 DEF TypeOK, Dispatch, Goto
  <1>5. CASE RunLock
    BY <1>5 DEF TypeOK, RunLock, Goto
  <1>6. CASE RunRead
    BY <1>6 DEF TypeOK, RunRead, Goto
  <1>7. CASE RunPop
    <2>1. Head(queue) \in Closures /\ Tail(queue) \in Seq(Closures)
      BY <1>7 DEF TypeOK, RunPop
    <2>. QED BY <1>7, <2>1 DEF TypeOK, RunPop, Goto
  <1>8. CASE CallPosts
    <2>1. fn.kind \in DOMAIN FollowUp
      BY <1>8 DEF CallPosts
    <2>. QED BY <1>8, <2>1, FollowUpKinds, StartPostTypeOK DEF CallPosts
  <1>9. CASE CallReturns
    BY <1>9 DEF TypeOK, CallReturns, Goto
  <1>10. CASE RunRelock
    BY <1>10 DEF TypeOK, RunRelock, Goto
  <1>11. CASE RunReturn
    BY <1>11 DEF TypeOK, RunReturn, Goto
  <1>12. CASE LoopExit
    BY <1>12 DEF TypeOK, LoopExit, Goto
  <1>13. CASE UNCHANGED vars
    BY <1>13 DEF TypeOK, vars
  <1>. QED BY <1>1, <1>2, <1>3, <1>4, <1>5, <1>6, <1>7, <1>8, <1>9, <1>10, <1>11,
              <1>12, <1>13 DEF Next, CompositorStep, CallerStep

\* Every variable keeps its type (the declarations of message-queue.hpp).
THEOREM TypeCorrect == Spec => []TypeOK
  BY InitTypeOK, NextTypeOK, PTL DEF Spec

-----------------------------------------------------------------------------
(* Mutual exclusion and wakeups *)

LEMMA InitIInv == Init => IInv
  <1> SUFFICES ASSUME Init PROVE IInv
    OBVIOUS
  <1>. USE ConstAssumption
  <1>2. TypeOK
    BY InitTypeOK
  <1>3. MutexInv
    BY DEF Init, MutexInv, Holding
  <1>4. ReadInv /\ WakeupInv
    BY DEF Init, ReadInv, WakeupInv
  <1>. QED BY <1>2, <1>3, <1>4 DEF IInv

\* Entering write touches none of what the invariant is about, provided the
\* thread is outside the critical sections and not on its way to a read.
LEMMA StartPostIInv ==
  ASSUME IInv, NEW t \in Threads, NEW k \in Kinds, StartPost(t, k),
         pc[t] \in {"ready", "call"}
  PROVE  IInv'
  <1>. USE ConstAssumption
  <1>1. TypeOK /\ MutexInv /\ ReadInv /\ WakeupInv
    BY DEF IInv
  <1>2. TypeOK'
    BY <1>1, StartPostTypeOK
  <1>3. MutexInv'
    BY <1>1 DEF TypeOK, MutexInv, Holding, StartPost
  <1>4. ReadInv'
    BY <1>1 DEF TypeOK, ReadInv, StartPost
  <1>5. WakeupInv'
    BY <1>1 DEF TypeOK, WakeupInv, StartPost
  <1>. QED BY <1>2, <1>3, <1>4, <1>5 DEF IInv

LEMMA WriteIInv ==
  ASSUME IInv, NEW t \in Threads, Write(t)
  PROVE  IInv'
  <1>. USE ConstAssumption
  <1>1. TypeOK /\ MutexInv /\ ReadInv /\ WakeupInv
    BY DEF IInv
  <1>2. TypeOK'
    BY <1>1, WriteTypeOK
  <1>3. CASE WriteLock(t)
    <2>1. MutexInv'
      BY <1>1, <1>3 DEF TypeOK, MutexInv, Holding, WriteLock
    <2>2. ReadInv' /\ WakeupInv'
      BY <1>1, <1>3 DEF TypeOK, ReadInv, WakeupInv, WriteLock
    <2>. QED BY <1>2, <2>1, <2>2 DEF IInv
  <1>4. CASE WritePush(t)
    <2>1. MutexInv'
      BY <1>1, <1>4 DEF TypeOK, MutexInv, Holding, WritePush
    <2>2. ReadInv'
      BY <1>1, <1>4 DEF TypeOK, ReadInv, WritePush
    <2>3. WakeupInv'
      BY <1>1, <1>4 DEF TypeOK, WakeupInv, WritePush
    <2>. QED BY <1>2, <2>1, <2>2, <2>3 DEF IInv
  <1>5. CASE WriteSignal(t)
    <2>1. MutexInv'
      BY <1>1, <1>5 DEF TypeOK, MutexInv, Holding, WriteSignal
    <2>2. ReadInv'
      BY <1>1, <1>5 DEF TypeOK, ReadInv, WriteSignal
    <2>3. WakeupInv'
      BY <1>1, <1>5 DEF TypeOK, WakeupInv, WriteSignal
    <2>. QED BY <1>2, <2>1, <2>2, <2>3 DEF IInv
  <1>6. CASE WriteUnlock(t)
    <2>1. MutexInv'
      BY <1>1, <1>6 DEF TypeOK, MutexInv, Holding, WriteUnlock, AfterPost
    <2>2. ReadInv'
      BY <1>1, <1>6 DEF TypeOK, ReadInv, WriteUnlock, AfterPost
    <2>3. WakeupInv'
      BY <1>1, <1>6 DEF TypeOK, WakeupInv, WriteUnlock, AfterPost
    <2>. QED BY <1>2, <2>1, <2>2, <2>3 DEF IInv
  <1>. QED BY <1>3, <1>4, <1>5, <1>6 DEF Write

LEMMA NextIInv == IInv /\ [Next]_vars => IInv'
  <1> SUFFICES ASSUME IInv, [Next]_vars PROVE IInv'
    OBVIOUS
  <1>. USE ConstAssumption
  <1>a. TypeOK /\ MutexInv /\ ReadInv /\ WakeupInv
    BY DEF IInv
  <1>b. TypeOK'
    BY <1>a, NextTypeOK
  <1>1. ASSUME NEW t \in Threads, Write(t) PROVE IInv'
    BY <1>1, WriteIInv
  <1>2. ASSUME NEW t \in Callers, JniPost(t) PROVE IInv'
    <2>1. PICK k \in JniKinds : StartPost(t, k)
      BY <1>2 DEF JniPost
    <2>2. k \in Kinds
      BY DEF Kinds
    <2>. QED BY <1>2, <2>1, <2>2, StartPostIInv DEF JniPost
  <1>3. ASSUME NEW t \in Callers, Join(t) PROVE IInv'
    <2>1. MutexInv'
      BY <1>a, <1>3 DEF TypeOK, MutexInv, Holding, Join
    <2>2. ReadInv' /\ WakeupInv'
      BY <1>a, <1>3 DEF TypeOK, ReadInv, WakeupInv, Join
    <2>. QED BY <1>b, <2>1, <2>2 DEF IInv
  <1>4. CASE Dispatch
    <2>1. MutexInv'
      BY <1>a, <1>4 DEF TypeOK, MutexInv, Holding, Dispatch, Goto
    <2>2. ReadInv' /\ WakeupInv'
      BY <1>a, <1>4 DEF TypeOK, ReadInv, WakeupInv, Dispatch, Goto
    <2>. QED BY <1>b, <2>1, <2>2 DEF IInv
  <1>5. CASE RunLock
    <2>1. MutexInv'
      BY <1>a, <1>5 DEF TypeOK, MutexInv, Holding, RunLock, Goto
    <2>2. ReadInv' /\ WakeupInv'
      BY <1>a, <1>5 DEF TypeOK, ReadInv, WakeupInv, RunLock, Goto
    <2>. QED BY <1>b, <2>1, <2>2 DEF IInv
  <1>6. CASE RunRead
    <2>1. MutexInv'
      BY <1>a, <1>6 DEF TypeOK, MutexInv, Holding, RunRead, Goto
    <2>2. ReadInv' /\ WakeupInv'
      BY <1>a, <1>6 DEF TypeOK, ReadInv, WakeupInv, RunRead, Goto
    <2>. QED BY <1>b, <2>1, <2>2 DEF IInv
  <1>7. CASE RunPop
    <2>1. MutexInv'
      BY <1>a, <1>7 DEF TypeOK, MutexInv, Holding, RunPop, Goto
    <2>2. ReadInv' /\ WakeupInv'
      BY <1>a, <1>7 DEF TypeOK, ReadInv, WakeupInv, RunPop, Goto
    <2>. QED BY <1>b, <2>1, <2>2 DEF IInv
  <1>8. CASE CallPosts
    BY <1>8, FollowUpKinds, StartPostIInv DEF CallPosts
  <1>9. CASE CallReturns
    <2>1. MutexInv'
      BY <1>a, <1>9 DEF TypeOK, MutexInv, Holding, CallReturns, Goto
    <2>2. ReadInv' /\ WakeupInv'
      BY <1>a, <1>9 DEF TypeOK, ReadInv, WakeupInv, CallReturns, Goto
    <2>. QED BY <1>b, <2>1, <2>2 DEF IInv
  <1>10. CASE RunRelock
    <2>1. MutexInv'
      BY <1>a, <1>10 DEF TypeOK, MutexInv, Holding, RunRelock, Goto
    <2>2. ReadInv' /\ WakeupInv'
      BY <1>a, <1>10 DEF TypeOK, ReadInv, WakeupInv, RunRelock, Goto
    <2>. QED BY <1>b, <2>1, <2>2 DEF IInv
  <1>11. CASE RunReturn
    <2>1. MutexInv'
      BY <1>a, <1>11 DEF TypeOK, MutexInv, Holding, RunReturn, Goto
    <2>2. ReadInv' /\ WakeupInv'
      BY <1>a, <1>11 DEF TypeOK, ReadInv, WakeupInv, RunReturn, Goto
    <2>. QED BY <1>b, <2>1, <2>2 DEF IInv
  <1>12. CASE LoopExit
    <2>1. MutexInv'
      BY <1>a, <1>12 DEF TypeOK, MutexInv, Holding, LoopExit, Goto
    <2>2. ReadInv' /\ WakeupInv'
      BY <1>a, <1>12 DEF TypeOK, ReadInv, WakeupInv, LoopExit, Goto
    <2>. QED BY <1>b, <2>1, <2>2 DEF IInv
  <1>13. CASE UNCHANGED vars
    <2>1. MutexInv' /\ ReadInv' /\ WakeupInv'
      BY <1>a, <1>13 DEF vars, MutexInv, Holding, ReadInv, WakeupInv
    <2>. QED BY <1>b, <2>1 DEF IInv
  <1>. QED BY <1>1, <1>2, <1>3, <1>4, <1>5, <1>6, <1>7, <1>8, <1>9, <1>10, <1>11,
              <1>12, <1>13 DEF Next, CompositorStep, CallerStep

LEMMA Inductive == Spec => []IInv
  BY InitIInv, NextIInv, PTL DEF Spec

\* The lines that touch the std::queue exclude one another.
THEOREM QueueAccess == Spec => []QueueAccessExclusive
  <1>1. IInv => QueueAccessExclusive
    BY DEF IInv, MutexInv, QueueAccessExclusive
  <1>. QED BY <1>1, Inductive, PTL

\* No thread waits for the mutex while it owns it.
THEOREM SelfDeadlockFree == Spec => []NoSelfDeadlock
  <1>1. IInv => NoSelfDeadlock
    BY DEF IInv, MutexInv, NoSelfDeadlock, Holding
  <1>. QED BY <1>1, Inductive, PTL

\* The read in run() never blocks with the mutex held.
THEOREM ReadReady == Spec => []ReadNeverBlocks
  <1>1. IInv => ReadNeverBlocks
    BY DEF IInv, ReadInv, ReadNeverBlocks
  <1>. QED BY <1>1, Inductive, PTL

\* The compositor thread never sleeps over a queue that holds a closure.
THEOREM WakeupKept == Spec => []NoLostWakeup
  <1>1. IInv => NoLostWakeup
    BY DEF IInv, WakeupInv, NoLostWakeup
  <1>. QED BY <1>1, Inductive, PTL

-----------------------------------------------------------------------------
(* Refinement of FifoWork *)

\* Thread c.by is past posting c, the last post of a thread being in its hand
\* until it is pushed.
Pushed(c) ==
  /\ c.n <= posts[c.by]
  /\ pc[c.by] \in {"lock", "push"} => c.n < posts[c.by]

\* A closure is pushed once: what a thread is about to push is numbered after
\* everything of that thread that is in the queue or has been popped.
PostInv ==
  /\ \A t \in Threads : pc[t] \in {"lock", "push"} =>
       hand[t].by = t /\ hand[t].n = posts[t]
  /\ \A i \in DOMAIN ran : Pushed(ran[i])
  /\ \A i \in DOMAIN queue : Pushed(queue[i])

LEMMA PushedStable ==
  ASSUME TypeOK, NEW c \in Closures, Pushed(c),
         posts' = posts,
         \A t \in Threads : pc'[t] \in {"lock", "push"} => pc[t] \in {"lock", "push"}
  PROVE  Pushed(c)'
  BY DEF Pushed, Closures

LEMMA StartPostPostInv ==
  ASSUME TypeOK, PostInv, NEW t \in Threads, NEW k \in Kinds, StartPost(t, k),
         pc[t] \in {"ready", "call"}
  PROVE  PostInv'
  <1>. USE ConstAssumption
  <1>1. ASSUME NEW c \in Closures, Pushed(c) PROVE Pushed(c)'
    BY <1>1 DEF TypeOK, Pushed, StartPost, Closures
  <1>2. \A i \in DOMAIN ran' : Pushed(ran[i])'
    BY <1>1 DEF TypeOK, PostInv, StartPost
  <1>3. \A i \in DOMAIN queue' : Pushed(queue[i])'
    BY <1>1 DEF TypeOK, PostInv, StartPost
  <1>4. \A s \in Threads : pc'[s] \in {"lock", "push"} =>
          hand'[s].by = s /\ hand'[s].n = posts'[s]
    BY DEF TypeOK, PostInv, StartPost
  <1>. QED BY <1>2, <1>3, <1>4 DEF PostInv

LEMMA WritePostInv ==
  ASSUME TypeOK, PostInv, NEW t \in Threads, Write(t)
  PROVE  PostInv'
  <1>. USE ConstAssumption
  <1>1. CASE WriteLock(t)
    <2>1. ASSUME NEW c \in Closures, Pushed(c) PROVE Pushed(c)'
      BY <2>1, <1>1, PushedStable DEF WriteLock, TypeOK
    <2>. QED BY <1>1, <2>1 DEF TypeOK, PostInv, WriteLock
  <1>2. CASE WritePush(t)
    <2>1. ASSUME NEW c \in Closures, Pushed(c) PROVE Pushed(c)'
      BY <2>1, <1>2, PushedStable DEF WritePush, TypeOK
    <2>2. Pushed(hand[t])'
      BY <1>2 DEF TypeOK, PostInv, Pushed, WritePush, Closures
    <2>3. \A i \in DOMAIN queue' : Pushed(queue[i])'
      <3> SUFFICES ASSUME NEW i \in DOMAIN queue' PROVE Pushed(queue[i])'
        OBVIOUS
      <3>1. \/ queue'[i] = hand[t] /\ hand' = hand
            \/ i \in DOMAIN queue /\ queue'[i] = queue[i]
        <4>1. queue \in Seq(Closures) /\ hand[t] \in Closures /\ queue' = Append(queue, hand[t]) /\ hand' = hand
          BY <1>2 DEF TypeOK, WritePush
        <4>2. Len(queue') = Len(queue) + 1 /\ DOMAIN queue' = 1 .. Len(queue') /\ DOMAIN queue = 1 .. Len(queue)
          BY <4>1, AppendProperties
        <4>3. CASE i = Len(queue) + 1
          <5>1. Append(queue, hand[t])[Len(queue) + 1] = hand[t]
            BY <4>1, AppendProperties
          <5>. QED BY <4>1, <4>3, <5>1
        <4>4. CASE i \in 1 .. Len(queue)
          BY <4>1, <4>2, <4>4, AppendProperties
        <4>5. i \in 1 .. Len(queue) + 1
          BY <4>2
        <4>6. Len(queue) \in Nat
          BY <4>1
        <4>. QED BY <4>3, <4>4, <4>5, <4>6
      <3>2. CASE queue'[i] = hand[t] /\ hand' = hand
        BY <3>2, <2>2 DEF Pushed
      <3>3. CASE i \in DOMAIN queue /\ queue'[i] = queue[i]
        <4>1. queue[i] \in Closures /\ Pushed(queue[i])
          BY <3>3 DEF TypeOK, PostInv
        <4>2. PICK c \in Closures : c = queue[i]
          BY <4>1
        <4>3. posts' = posts /\ \A s \in Threads : pc'[s] \in {"lock", "push"} => pc[s] \in {"lock", "push"}
          BY <1>2 DEF WritePush, TypeOK
        <4>. QED BY <4>1, <4>3, <3>3 DEF Pushed, Closures
      <3>. QED BY <3>1, <3>2, <3>3
    <2>. QED BY <1>2, <2>1, <2>3 DEF TypeOK, PostInv, WritePush
  <1>3. CASE WriteSignal(t)
    <2>1. ASSUME NEW c \in Closures, Pushed(c) PROVE Pushed(c)'
      BY <2>1, <1>3, PushedStable DEF WriteSignal, TypeOK
    <2>. QED BY <1>3, <2>1 DEF TypeOK, PostInv, WriteSignal
  <1>4. CASE WriteUnlock(t)
    <2>1. ASSUME NEW c \in Closures, Pushed(c) PROVE Pushed(c)'
      BY <2>1, <1>4, PushedStable DEF WriteUnlock, AfterPost, TypeOK
    <2>. QED BY <1>4, <2>1 DEF TypeOK, PostInv, WriteUnlock, AfterPost
  <1>. QED BY <1>1, <1>2, <1>3, <1>4 DEF Write

LEMMA NextPostInv == TypeOK /\ PostInv /\ [Next]_vars => PostInv'
  <1> SUFFICES ASSUME TypeOK, PostInv, [Next]_vars PROVE PostInv'
    OBVIOUS
  <1>. USE ConstAssumption
  <1>1. ASSUME NEW t \in Threads, Write(t) PROVE PostInv'
    BY <1>1, WritePostInv
  <1>2. ASSUME NEW t \in Callers, JniPost(t) PROVE PostInv'
    <2>1. PICK k \in JniKinds : StartPost(t, k)
      BY <1>2 DEF JniPost
    <2>2. k \in Kinds
      BY DEF Kinds
    <2>. QED BY <1>2, <2>1, <2>2, StartPostPostInv DEF JniPost
  <1>3. CASE CallPosts
    BY <1>3, FollowUpKinds, StartPostPostInv DEF CallPosts
  \* The other steps push nothing and leave lock and push to the writers.
  <1>4. ASSUME UNCHANGED <<hand, posts, queue, ran>>,
               \A t \in Threads : pc'[t] \in {"lock", "push"} => pc[t] \in {"lock", "push"}
        PROVE  PostInv'
    <2>1. ASSUME NEW c \in Closures, Pushed(c) PROVE Pushed(c)'
      BY <2>1, <1>4, PushedStable
    <2>. QED BY <1>4, <2>1 DEF TypeOK, PostInv
  <1>5. ASSUME NEW t \in Callers, Join(t) PROVE PostInv'
    BY <1>5, <1>4 DEF Join, TypeOK
  <1>6. CASE Dispatch
    BY <1>6, <1>4 DEF Dispatch, Goto, TypeOK
  <1>7. CASE RunLock
    BY <1>7, <1>4 DEF RunLock, Goto, TypeOK
  <1>8. CASE RunRead
    BY <1>8, <1>4 DEF RunRead, Goto, TypeOK
  <1>9. CASE RunPop
    <2>1. /\ UNCHANGED <<hand, posts>>
          /\ \A t \in Threads : pc'[t] \in {"lock", "push"} => pc[t] \in {"lock", "push"}
      BY <1>9 DEF RunPop, Goto, TypeOK
    <2>2. ASSUME NEW c \in Closures, Pushed(c) PROVE Pushed(c)'
      BY <2>1, <2>2, PushedStable
    <2>3. \A i \in DOMAIN queue : queue[i] \in Closures /\ Pushed(queue[i])
      BY DEF TypeOK, PostInv
    <2>4. queue \in Seq(Closures) /\ queue # << >> /\ Head(queue) \in Closures
          /\ ran' = Append(ran, Head(queue)) /\ queue' = Tail(queue)
      BY <1>9 DEF TypeOK, RunPop
    <2>5. \A i \in DOMAIN queue' : queue'[i] \in Closures /\ Pushed(queue'[i])
      BY <2>3, <2>4, HeadTailProperties
    <2>6. Head(queue) = queue[1] /\ 1 \in DOMAIN queue
      BY <2>4
    <2>7. \A i \in DOMAIN ran' : ran'[i] \in Closures /\ Pushed(ran'[i])
      <3>1. ran \in Seq(Closures) /\ \A i \in DOMAIN ran : ran[i] \in Closures /\ Pushed(ran[i])
        BY DEF TypeOK, PostInv
      <3>2. Pushed(Head(queue))
        BY <2>3, <2>6
      <3>3. DOMAIN ran' = 1 .. Len(ran) + 1 /\ DOMAIN ran = 1 .. Len(ran)
        BY <3>1, <2>4, AppendProperties
      <3>. QED BY <3>1, <3>2, <3>3, <2>4, AppendProperties
    <2>8. \A i \in DOMAIN queue' : Pushed(queue[i])'
      BY <2>2, <2>5 DEF Pushed
    <2>9. \A i \in DOMAIN ran' : Pushed(ran[i])'
      BY <2>2, <2>7 DEF Pushed
    <2>. QED BY <2>1, <2>8, <2>9 DEF TypeOK, PostInv
  <1>10. CASE CallReturns
    BY <1>10, <1>4 DEF CallReturns, Goto, TypeOK
  <1>11. CASE RunRelock
    BY <1>11, <1>4 DEF RunRelock, Goto, TypeOK
  <1>12. CASE RunReturn
    BY <1>12, <1>4 DEF RunReturn, Goto, TypeOK
  <1>13. CASE LoopExit
    BY <1>13, <1>4 DEF LoopExit, Goto, TypeOK
  <1>14. CASE UNCHANGED vars
    BY <1>14, <1>4 DEF vars
  <1>. QED BY <1>1, <1>2, <1>3, <1>5, <1>6, <1>7, <1>8, <1>9, <1>10, <1>11, <1>12,
              <1>13, <1>14 DEF Next, CompositorStep, CallerStep

\* The push of write() is the one step that accepts work.
LEMMA PushAccepts ==
  ASSUME TypeOK, PostInv, NEW t \in Threads, WritePush(t)
  PROVE  Abstract!Accept
  <1>. DEFINE acc == ran \o queue
  <1>1. ran \in Seq(Closures) /\ queue \in Seq(Closures) /\ hand[t] \in Closures
    BY DEF TypeOK
  <1>2. ran' = ran /\ queue' = Append(queue, hand[t])
    BY DEF WritePush
  <1>3. acc \in Seq(Closures) /\ Len(acc) = Len(ran) + Len(queue)
    BY <1>1, ConcatProperties
  <1>4. acc' = Append(acc, hand[t])
    <2>1. queue' = queue \o <<hand[t]>>
      BY <1>1, <1>2, AppendIsConcat
    <2>2. ran \o (queue \o <<hand[t]>>) = (ran \o queue) \o <<hand[t]>>
      BY <1>1, ConcatAssociative
    <2>3. Append(acc, hand[t]) = acc \o <<hand[t]>>
      BY <1>1, <1>3, AppendIsConcat
    <2>. QED BY <1>2, <2>1, <2>2, <2>3
  <1>5. Len(acc') = Len(acc) + 1 /\ acc'[Len(acc')] = hand[t]
    BY <1>1, <1>3, <1>4, AppendProperties
  <1>6. ASSUME NEW i \in DOMAIN acc PROVE acc[i] # hand[t]
    <2>1. pc[t] = "push" /\ hand[t].by = t /\ hand[t].n = posts[t]
      BY DEF WritePush, PostInv
    <2>2. ~Pushed(hand[t])
      BY <2>1 DEF Pushed, TypeOK
    <2>3. Pushed(acc[i])
      BY <1>1, <1>3, ConcatProperties DEF PostInv
    <2>. QED BY <2>2, <2>3
  <1>7. Len(ran)' = Len(ran)
    BY <1>2
  <1>. QED BY <1>1, <1>4, <1>5, <1>6, <1>7 DEF Abstract!Accept

\* The pop of run() is the one step that starts work.
LEMMA PopStarts ==
  ASSUME TypeOK, RunPop
  PROVE  Abstract!Start
  <1>1. ran \in Seq(Closures) /\ queue \in Seq(Closures) /\ queue # << >>
        /\ ran' = Append(ran, Head(queue)) /\ queue' = Tail(queue)
    BY DEF TypeOK, RunPop
  <1>2. Head(queue) \in Closures /\ Tail(queue) \in Seq(Closures)
    BY <1>1
  <1>3. ran' = ran \o <<Head(queue)>>
    BY <1>1, <1>2, AppendIsConcat
  <1>4. queue = <<Head(queue)>> \o Tail(queue)
    BY <1>1
  <1>5. (ran \o queue)' = ran \o queue
    BY <1>1, <1>2, <1>3, <1>4, ConcatAssociative
  <1>6. Len(ran') = Len(ran) + 1 /\ Len(ran) < Len(ran \o queue)
    BY <1>1, <1>2, AppendProperties, ConcatProperties
  <1>. QED BY <1>5, <1>6 DEF Abstract!Start

\* LorieMessageQueue implements the abstract queue of work, whatever the
\* number of threads and posts: the order in which closures are pushed is the
\* order in which they are run, and each is run once at most.
THEOREM Refinement == Spec => ImplementsFifoWork
  <1>1. Init => Abstract!FWInit /\ PostInv
    BY ConstAssumption DEF Init, Abstract!FWInit, PostInv
  <1>2. TypeOK /\ PostInv /\ [Next]_vars => [Abstract!FWNext]_(Abstract!fwVars)
    <2> SUFFICES ASSUME TypeOK, PostInv, [Next]_vars
                 PROVE  [Abstract!FWNext]_(Abstract!fwVars)
      OBVIOUS
    <2>. USE ConstAssumption
    <2>1. ASSUME NEW t \in Threads, WritePush(t) PROVE Abstract!FWNext
      BY <2>1, PushAccepts DEF Abstract!FWNext
    <2>2. CASE RunPop
      BY <2>2, PopStarts DEF Abstract!FWNext
    <2>3. CASE UNCHANGED <<ran, queue>>
      BY <2>3 DEF Abstract!fwVars
    <2>4. ASSUME NEW t \in Threads, Write(t), ~WritePush(t) PROVE UNCHANGED <<ran, queue>>
      BY <2>4 DEF Write, WriteLock, WriteSignal, WriteUnlock
    <2>5. ASSUME NEW t \in Callers, JniPost(t) \/ Join(t) PROVE UNCHANGED <<ran, queue>>
      BY <2>5 DEF JniPost, StartPost, Join
    <2>6. ASSUME CompositorStep, ~Write(Compositor), ~RunPop PROVE UNCHANGED <<ran, queue>>
      BY <2>6 DEF CompositorStep, Dispatch, RunLock, RunRead, CallPosts, StartPost,
                  CallReturns, RunRelock, RunReturn, LoopExit
    <2>7. CASE UNCHANGED vars
      BY <2>7, <2>3 DEF vars
    <2>. QED BY <2>1, <2>2, <2>3, <2>4, <2>5, <2>6, <2>7 DEF Next, CallerStep
  <1>. QED BY <1>1, <1>2, InitTypeOK, NextTypeOK, NextPostInv, PTL
           DEF Spec, ImplementsFifoWork, Abstract!FWSpec

-----------------------------------------------------------------------------
(* What terminate waits for *)

\* Closures of one thread are popped, and wait, in the order of their numbers.
OrderInv ==
  /\ \A i, j \in DOMAIN queue :
       i < j /\ queue[i].by = queue[j].by => queue[i].n < queue[j].n
  /\ \A i \in DOMAIN ran, j \in DOMAIN queue :
       ran[i].by = queue[j].by => ran[i].n < queue[j].n

\* The n-th closure of thread t has been pushed.
Ran(t, n) == \E j \in DOMAIN ran : ran[j].by = t /\ ran[j].n = n
Waits(t, n) == \E j \in DOMAIN queue : queue[j].by = t /\ queue[j].n = n

\* Nothing pushed is lost.
KeptInv ==
  \A t \in Threads : \A n \in 1 .. posts[t] :
    (pc[t] \in {"lock", "push"} => n < posts[t]) => Ran(t, n) \/ Waits(t, n)

\* One thread at most has posted terminate, and posts nothing after it.
HandInv ==
  /\ \A t \in Callers :
       /\ pc[t] # "ready" => hand[t].by = t /\ hand[t].n = posts[t]
       /\ pc[t] \in {"join", "joined"} => hand[t].kind = "terminate"
  /\ \A s, t \in Callers :
       /\ pc[s] # "ready" /\ hand[s].kind = "terminate"
       /\ pc[t] # "ready" /\ hand[t].kind = "terminate"
       => s = t
  /\ pc[Compositor] \in {"lock", "push"} => hand[Compositor].kind # "terminate"

\* A terminate that was pushed is still in the hand of the thread it is from.
FromHand(c) ==
  c.kind = "terminate" =>
    c.by \in Callers /\ pc[c.by] \notin {"ready", "lock", "push"} /\ hand[c.by] = c

\* The loop ends only by a terminate, and a join only with the loop.
StopInv ==
  /\ \A i \in DOMAIN ran : FromHand(ran[i])
  /\ \A i \in DOMAIN queue : FromHand(queue[i])
  /\ pc[Compositor] = "call" => \E j \in DOMAIN ran : ran[j] = fn
  /\ ~looping => \E j \in DOMAIN ran : ran[j].kind = "terminate"
  /\ pc[Compositor] = "exited" => ~looping
  /\ \A t \in Callers : pc[t] = "joined" => pc[Compositor] = "exited"

JoinInv == TypeOK /\ PostInv /\ OrderInv /\ KeptInv /\ HandInv /\ StopInv

\* The queue after a push.
LEMMA QueuePushed ==
  ASSUME TypeOK, NEW t \in Threads, WritePush(t)
  PROVE  /\ Len(queue) \in Nat /\ DOMAIN queue = 1 .. Len(queue)
         /\ DOMAIN queue' = 1 .. Len(queue) + 1
         /\ queue'[Len(queue) + 1] = hand[t]
         /\ \A i \in DOMAIN queue : queue'[i] = queue[i] /\ queue[i] \in Closures
         /\ hand[t] \in Closures /\ ran' = ran /\ hand' = hand /\ posts' = posts
  BY AppendProperties DEF TypeOK, WritePush

\* The two sequences after a pop.
LEMMA QueuePopped ==
  ASSUME TypeOK, RunPop
  PROVE  /\ Len(queue) \in Nat \ {0} /\ DOMAIN queue = 1 .. Len(queue)
         /\ DOMAIN queue' = 1 .. Len(queue) - 1
         /\ \A i \in DOMAIN queue' : queue'[i] = queue[i + 1]
         /\ \A i \in DOMAIN queue : queue[i] \in Closures
         /\ Len(ran) \in Nat /\ DOMAIN ran = 1 .. Len(ran)
         /\ DOMAIN ran' = 1 .. Len(ran) + 1 /\ ran'[Len(ran) + 1] = queue[1]
         /\ \A i \in DOMAIN ran : ran'[i] = ran[i] /\ ran[i] \in Closures
         /\ fn' = queue[1]
  <1>1. queue \in Seq(Closures) /\ queue # << >> /\ ran \in Seq(Closures)
        /\ ran' = Append(ran, Head(queue)) /\ queue' = Tail(queue) /\ fn' = Head(queue)
    BY DEF TypeOK, RunPop
  <1>2. Head(queue) = queue[1] /\ Head(queue) \in Closures
    BY <1>1
  <1>3. /\ Len(ran) \in Nat /\ DOMAIN ran = 1 .. Len(ran)
        /\ DOMAIN ran' = 1 .. Len(ran) + 1 /\ ran'[Len(ran) + 1] = queue[1]
        /\ \A i \in DOMAIN ran : ran'[i] = ran[i] /\ ran[i] \in Closures
    BY <1>1, <1>2, AppendProperties
  <1>4. /\ Len(queue) \in Nat \ {0} /\ DOMAIN queue = 1 .. Len(queue)
        /\ DOMAIN queue' = 1 .. Len(queue) - 1
        /\ \A i \in DOMAIN queue' : queue'[i] = queue[i + 1]
        /\ \A i \in DOMAIN queue : queue[i] \in Closures
    BY <1>1, HeadTailProperties
  <1>. QED BY <1>1, <1>2, <1>3, <1>4

\* A step that neither pushes nor pops leaves order alone.
LEMMA OrderKept ==
  ASSUME OrderInv, UNCHANGED <<queue, ran>>
  PROVE  OrderInv'
  BY DEF OrderInv

LEMMA PushOrder ==
  ASSUME JoinInv, NEW t \in Threads, WritePush(t)
  PROVE  OrderInv'
  <1>1. \A i \in DOMAIN queue : queue[i].by = hand[t].by => queue[i].n < hand[t].n
    <2>1. hand[t].by = t /\ hand[t].n = posts[t] /\ pc[t] = "push"
      BY DEF JoinInv, PostInv, WritePush
    <2>. QED BY <2>1 DEF JoinInv, PostInv, Pushed
  <1>2. \A i \in DOMAIN ran : ran[i].by = hand[t].by => ran[i].n < hand[t].n
    <2>1. hand[t].by = t /\ hand[t].n = posts[t] /\ pc[t] = "push"
      BY DEF JoinInv, PostInv, WritePush
    <2>. QED BY <2>1 DEF JoinInv, PostInv, Pushed
  <1>3. OrderInv /\ TypeOK
    BY DEF JoinInv
  <1>4. \A i \in DOMAIN queue' : \/ i \in DOMAIN queue /\ queue'[i] = queue[i]
                                 \/ i = Len(queue) + 1 /\ queue'[i] = hand[t]
    BY <1>3, QueuePushed
  <1>5. ASSUME NEW i \in DOMAIN queue', NEW j \in DOMAIN queue', i < j,
               queue'[i].by = queue'[j].by
        PROVE  queue'[i].n < queue'[j].n
    <2>1. i \in DOMAIN queue /\ queue'[i] = queue[i]
      BY <1>3, <1>5, QueuePushed
    <2>. QED BY <1>1, <1>3, <1>4, <1>5, <2>1 DEF OrderInv
  <1>6. ASSUME NEW i \in DOMAIN ran', NEW j \in DOMAIN queue', ran'[i].by = queue'[j].by
        PROVE  ran'[i].n < queue'[j].n
    <2>1. ran' = ran
      BY <1>3, QueuePushed
    <2>. QED BY <1>2, <1>3, <1>4, <1>6, <2>1 DEF OrderInv
  <1>. QED BY <1>5, <1>6 DEF OrderInv

LEMMA PopOrder ==
  ASSUME JoinInv, RunPop
  PROVE  OrderInv'
  <1>1. OrderInv /\ TypeOK
    BY DEF JoinInv
  <1>2. \A i \in DOMAIN queue' : i + 1 \in DOMAIN queue /\ queue'[i] = queue[i + 1] /\ i \in Nat /\ i > 0
    BY <1>1, QueuePopped
  <1>3. \A i \in DOMAIN ran' : \/ i \in DOMAIN ran /\ ran'[i] = ran[i]
                               \/ ran'[i] = queue[1]
    BY <1>1, QueuePopped
  <1>4. 1 \in DOMAIN queue
    BY <1>1, QueuePopped
  <1>5. ASSUME NEW i \in DOMAIN queue', NEW j \in DOMAIN queue', i < j,
               queue'[i].by = queue'[j].by
        PROVE  queue'[i].n < queue'[j].n
    BY <1>1, <1>2, <1>5 DEF OrderInv
  <1>6. ASSUME NEW i \in DOMAIN ran', NEW j \in DOMAIN queue', ran'[i].by = queue'[j].by
        PROVE  ran'[i].n < queue'[j].n
    <2>1. 1 < j + 1
      BY <1>2
    <2>. QED BY <1>1, <1>2, <1>3, <1>4, <1>6, <2>1 DEF OrderInv
  <1>. QED BY <1>5, <1>6 DEF OrderInv

\* Nothing is lost by a step that leaves the sequences and the writers alone.
LEMMA KeptKept ==
  ASSUME KeptInv, UNCHANGED <<queue, ran, posts>>,
         \A t \in Threads : pc[t] \in {"lock", "push"} => pc'[t] \in {"lock", "push"}
  PROVE  KeptInv'
  BY DEF KeptInv, Ran, Waits

LEMMA StartPostKept ==
  ASSUME TypeOK, KeptInv, NEW t \in Threads, NEW k \in Kinds, StartPost(t, k),
         pc[t] \in {"ready", "call"}
  PROVE  KeptInv'
  <1>1. UNCHANGED <<queue, ran>> /\ pc'[t] = "lock" /\ posts'[t] = posts[t] + 1
        /\ \A s \in Threads \ {t} : pc'[s] = pc[s] /\ posts'[s] = posts[s]
    BY DEF StartPost, TypeOK
  <1>2. posts[t] \in Nat
    BY DEF TypeOK
  <1> SUFFICES ASSUME NEW s \in Threads, NEW n \in 1 .. posts'[s],
                      pc'[s] \in {"lock", "push"} => n < posts'[s]
               PROVE  (Ran(s, n) \/ Waits(s, n))'
    BY DEF KeptInv
  <1>3. Ran(s, n) \/ Waits(s, n)
    BY <1>1, <1>2 DEF KeptInv
  <1>. QED BY <1>1, <1>3 DEF Ran, Waits

LEMMA PushKept ==
  ASSUME JoinInv, NEW t \in Threads, WritePush(t)
  PROVE  KeptInv'
  <1>0. TypeOK /\ PostInv /\ KeptInv
    BY DEF JoinInv
  <1>1. pc[t] = "push" /\ pc'[t] = "signal" /\ \A s \in Threads \ {t} : pc'[s] = pc[s]
    BY <1>0 DEF WritePush, TypeOK
  <1>2. hand[t].by = t /\ hand[t].n = posts[t] /\ posts[t] \in Nat
    BY <1>0, <1>1 DEF PostInv, TypeOK
  <1> SUFFICES ASSUME NEW s \in Threads, NEW n \in 1 .. posts'[s],
                      pc'[s] \in {"lock", "push"} => n < posts'[s]
               PROVE  Ran(s, n)' \/ Waits(s, n)'
    BY DEF KeptInv
  <1>3. CASE s = t /\ n = posts[t]
    <2>1. Len(queue) + 1 \in DOMAIN queue' /\ queue'[Len(queue) + 1] = hand[t]
      BY <1>0, QueuePushed
    <2>. QED BY <1>2, <1>3, <2>1 DEF Waits
  <1>4. CASE ~(s = t /\ n = posts[t])
    <2>1. n \in 1 .. posts[s] /\ (pc[s] \in {"lock", "push"} => n < posts[s])
      BY <1>0, <1>1, <1>2, <1>4, QueuePushed DEF TypeOK
    <2>2. Ran(s, n) \/ Waits(s, n)
      BY <1>0, <2>1 DEF KeptInv
    <2>3. Ran(s, n) => Ran(s, n)'
      BY <1>0, QueuePushed DEF Ran
    <2>4. Waits(s, n) => Waits(s, n)'
      <3>1. \A j \in DOMAIN queue : j \in DOMAIN queue' /\ queue'[j] = queue[j]
        BY <1>0, QueuePushed
      <3>. QED BY <3>1 DEF Waits
    <2>. QED BY <2>2, <2>3, <2>4
  <1>. QED BY <1>3, <1>4

LEMMA PopKept ==
  ASSUME JoinInv, RunPop
  PROVE  KeptInv'
  <1>0. TypeOK /\ KeptInv
    BY DEF JoinInv
  <1>1. posts' = posts
        /\ \A s \in Threads : pc'[s] \in {"lock", "push"} <=> pc[s] \in {"lock", "push"}
    BY <1>0 DEF RunPop, Goto, TypeOK
  <1> SUFFICES ASSUME NEW s \in Threads, NEW n \in 1 .. posts'[s],
                      pc'[s] \in {"lock", "push"} => n < posts'[s]
               PROVE  Ran(s, n)' \/ Waits(s, n)'
    BY DEF KeptInv
  <1>2. Ran(s, n) \/ Waits(s, n)
    BY <1>0, <1>1 DEF KeptInv
  <1>3. Ran(s, n) => Ran(s, n)'
    <2>1. \A j \in DOMAIN ran : j \in DOMAIN ran' /\ ran'[j] = ran[j]
      BY <1>0, QueuePopped
    <2>. QED BY <2>1 DEF Ran
  <1>4. ASSUME NEW j \in DOMAIN queue, queue[j].by = s, queue[j].n = n
        PROVE  Ran(s, n)' \/ Waits(s, n)'
    <2>1. CASE j = 1
      <3>1. Len(ran) + 1 \in DOMAIN ran' /\ ran'[Len(ran) + 1] = queue[1]
        BY <1>0, QueuePopped
      <3>. QED BY <1>4, <2>1, <3>1 DEF Ran
    <2>2. CASE j # 1
      <3>1. j - 1 \in DOMAIN queue' /\ j = (j - 1) + 1
        BY <1>0, <2>2, QueuePopped
      <3>2. queue'[j - 1] = queue[j]
        BY <1>0, <3>1, QueuePopped
      <3>. QED BY <1>4, <3>1, <3>2 DEF Waits
    <2>. QED BY <2>1, <2>2
  <1>. QED BY <1>2, <1>3, <1>4 DEF Waits

-----------------------------------------------------------------------------
(* Terminate, from the hand to the end of the loop *)

\* What the two invariants need of a step that leaves the sequences alone.
LEMMA StopKept ==
  ASSUME HandInv, StopInv, UNCHANGED <<queue, ran, fn, hand, posts, looping>>,
         \A t \in Callers : pc'[t] = pc[t],
         pc'[Compositor] \notin {"lock", "push", "call"} \/ pc'[Compositor] = pc[Compositor]
           \/ (pc[Compositor] = "lock" /\ pc'[Compositor] = "push"),
         pc'[Compositor] = "exited" <=> pc[Compositor] = "exited"
  PROVE  HandInv' /\ StopInv'
  BY DEF HandInv, StopInv, FromHand

LEMMA JniPostStop ==
  ASSUME TypeOK, HandInv, StopInv, NEW t \in Callers, JniPost(t)
  PROVE  HandInv' /\ StopInv'
  <1>. USE ConstAssumption
  <1>1. PICK k \in JniKinds : (k = "terminate" => ~Terminating) /\ StartPost(t, k)
    BY DEF JniPost
  <1>2. /\ pc[t] = "ready" /\ pc'[t] = "lock" /\ posts'[t] = posts[t] + 1
        /\ hand'[t] = [by |-> t, n |-> posts[t] + 1, kind |-> k]
        /\ \A s \in Threads \ {t} : pc'[s] = pc[s] /\ hand'[s] = hand[s] /\ posts'[s] = posts[s]
        /\ UNCHANGED <<queue, ran, fn, looping>>
    BY <1>1 DEF JniPost, StartPost, TypeOK
  <1>3. HandInv'
    BY <1>1, <1>2 DEF HandInv, Terminating
  <1>4. \A c : FromHand(c) => FromHand(c)'
    BY <1>2 DEF FromHand
  <1>5. StopInv'
    BY <1>2, <1>4 DEF StopInv
  <1>. QED BY <1>3, <1>5

LEMMA CallPostsStop ==
  ASSUME TypeOK, HandInv, StopInv, CallPosts
  PROVE  HandInv' /\ StopInv'
  <1>. USE ConstAssumption
  <1>1. /\ pc[Compositor] = "call" /\ pc'[Compositor] = "lock"
        /\ hand'[Compositor].kind = FollowUp[fn.kind] /\ fn.kind \in DOMAIN FollowUp
        /\ \A s \in Callers : pc'[s] = pc[s] /\ hand'[s] = hand[s] /\ posts'[s] = posts[s]
        /\ UNCHANGED <<queue, ran, fn, looping>>
    BY DEF CallPosts, StartPost, TypeOK
  <1>2. FollowUp[fn.kind] # "terminate"
    BY <1>1 DEF FollowUp
  <1>3. HandInv'
    BY <1>1, <1>2 DEF HandInv
  <1>4. StopInv'
    BY <1>1 DEF StopInv, FromHand
  <1>. QED BY <1>3, <1>4

LEMMA PushStop ==
  ASSUME TypeOK, PostInv, HandInv, StopInv, NEW t \in Threads, WritePush(t)
  PROVE  HandInv' /\ StopInv'
  <1>. USE ConstAssumption
  <1>1. /\ pc[t] = "push" /\ pc'[t] = "signal" /\ \A s \in Threads \ {t} : pc'[s] = pc[s]
        /\ UNCHANGED <<ran, fn, looping, hand, posts>>
    BY DEF WritePush, TypeOK
  <1>2. HandInv'
    BY <1>1 DEF HandInv
  <1>3. \A c : FromHand(c) => FromHand(c)'
    BY <1>1 DEF FromHand
  <1>4. FromHand(hand[t])'
    BY <1>1 DEF FromHand, HandInv, PostInv
  <1>5. \A i \in DOMAIN queue' : FromHand(queue[i])'
    <2>1. \A i \in DOMAIN queue' : \/ i \in DOMAIN queue /\ queue'[i] = queue[i]
                                   \/ queue'[i] = hand[t] /\ hand' = hand
      BY QueuePushed
    <2>. QED BY <1>1, <1>3, <1>4, <2>1 DEF StopInv, FromHand
  <1>6. StopInv'
    BY <1>1, <1>3, <1>5 DEF StopInv, FromHand
  <1>. QED BY <1>2, <1>6

LEMMA UnlockStop ==
  ASSUME TypeOK, HandInv, StopInv, NEW t \in Threads, WriteUnlock(t)
  PROVE  HandInv' /\ StopInv'
  <1>. USE ConstAssumption
  <1>1. /\ pc[t] = "unlock" /\ pc'[t] = AfterPost(t) /\ \A s \in Threads \ {t} : pc'[s] = pc[s]
        /\ UNCHANGED <<queue, ran, fn, looping, hand, posts>>
    BY DEF WriteUnlock, TypeOK
  <1>2. HandInv'
    BY <1>1 DEF HandInv, AfterPost
  <1>3. StopInv'
    BY <1>1 DEF StopInv, FromHand, AfterPost
  <1>. QED BY <1>2, <1>3

LEMMA PopStop ==
  ASSUME TypeOK, HandInv, StopInv, RunPop
  PROVE  HandInv' /\ StopInv'
  <1>. USE ConstAssumption
  <1>1. /\ pc[Compositor] = "drain" /\ pc'[Compositor] = "call"
        /\ \A s \in Callers : pc'[s] = pc[s]
        /\ UNCHANGED <<looping, hand, posts>>
    BY DEF RunPop, Goto, TypeOK
  <1>2. HandInv'
    BY <1>1 DEF HandInv
  <1>3. \A c : FromHand(c) => FromHand(c)'
    BY <1>1 DEF FromHand
  <1>4. \A i \in DOMAIN queue' : FromHand(queue[i])'
    <2>1. \A i \in DOMAIN queue' : i + 1 \in DOMAIN queue /\ queue'[i] = queue[i + 1]
      BY QueuePopped
    <2>. QED BY <1>3, <2>1 DEF StopInv
  <1>5. \A i \in DOMAIN ran' : FromHand(ran[i])'
    <2>1. 1 \in DOMAIN queue
          /\ \A i \in DOMAIN ran' : (i \in DOMAIN ran /\ ran'[i] = ran[i]) \/ ran'[i] = queue[1]
      BY QueuePopped
    <2>. QED BY <1>3, <2>1 DEF StopInv
  <1>6. \E j \in DOMAIN ran' : ran'[j] = fn'
    BY QueuePopped
  <1>7. ~looping' => \E j \in DOMAIN ran' : ran'[j].kind = "terminate"
    <2>1. \A i \in DOMAIN ran : i \in DOMAIN ran' /\ ran'[i] = ran[i]
      BY QueuePopped
    <2>. QED BY <1>1, <2>1 DEF StopInv
  <1>8. StopInv'
    BY <1>1, <1>4, <1>5, <1>6, <1>7 DEF StopInv, FromHand
  <1>. QED BY <1>2, <1>8

LEMMA ReturnsStop ==
  ASSUME TypeOK, HandInv, StopInv, CallReturns
  PROVE  HandInv' /\ StopInv'
  <1>. USE ConstAssumption
  <1>1. /\ pc[Compositor] = "call" /\ pc'[Compositor] = "relock"
        /\ \A s \in Callers : pc'[s] = pc[s]
        /\ looping' = (looping /\ fn.kind # "terminate")
        /\ UNCHANGED <<queue, ran, fn, hand, posts>>
    BY DEF CallReturns, Goto, TypeOK
  <1>2. HandInv'
    BY <1>1 DEF HandInv
  <1>3. ~looping' => \E j \in DOMAIN ran : ran[j].kind = "terminate"
    BY <1>1 DEF StopInv
  <1>4. \A c : FromHand(c) => FromHand(c)'
    BY <1>1 DEF FromHand
  <1>5. StopInv'
    BY <1>1, <1>3, <1>4 DEF StopInv
  <1>. QED BY <1>2, <1>5

LEMMA EndStop ==
  ASSUME TypeOK, HandInv, StopInv, LoopExit
  PROVE  HandInv' /\ StopInv'
  <1>. USE ConstAssumption
  <1>1. /\ pc[Compositor] = "poll" /\ pc'[Compositor] = "exited" /\ ~looping
        /\ \A s \in Callers : pc'[s] = pc[s]
        /\ UNCHANGED <<queue, ran, fn, hand, posts, looping>>
    BY DEF LoopExit, Goto, TypeOK
  <1>. QED BY <1>1 DEF HandInv, StopInv, FromHand

LEMMA JoinStop ==
  ASSUME TypeOK, HandInv, StopInv, NEW t \in Callers, Join(t)
  PROVE  HandInv' /\ StopInv'
  <1>. USE ConstAssumption
  <1>1. /\ pc[t] = "join" /\ pc'[t] = "joined" /\ pc[Compositor] = "exited"
        /\ \A s \in Threads \ {t} : pc'[s] = pc[s]
        /\ UNCHANGED <<queue, ran, fn, hand, posts, looping>>
    BY DEF Join, TypeOK
  <1>2. HandInv'
    BY <1>1 DEF HandInv
  <1>3. StopInv'
    BY <1>1 DEF StopInv, FromHand
  <1>. QED BY <1>2, <1>3

LEMMA WriteStop ==
  ASSUME JoinInv, NEW t \in Threads, Write(t)
  PROVE  OrderInv' /\ KeptInv' /\ HandInv' /\ StopInv'
  <1>. USE ConstAssumption
  <1>0. TypeOK /\ PostInv /\ OrderInv /\ KeptInv /\ HandInv /\ StopInv
    BY DEF JoinInv
  <1>1. CASE WriteLock(t)
    <2>1. /\ pc[t] = "lock" /\ pc'[t] = "push" /\ \A s \in Threads \ {t} : pc'[s] = pc[s]
          /\ UNCHANGED <<queue, ran, fn, looping, hand, posts>>
      BY <1>0, <1>1 DEF WriteLock, TypeOK
    <2>2. OrderInv' /\ KeptInv'
      BY <1>0, <2>1, OrderKept, KeptKept
    <2>3. HandInv' /\ StopInv'
      BY <1>0, <2>1 DEF HandInv, StopInv, FromHand
    <2>. QED BY <2>2, <2>3
  <1>2. CASE WritePush(t)
    BY <1>0, <1>2, PushOrder, PushKept, PushStop
  <1>3. CASE WriteSignal(t)
    <2>1. /\ pc[t] = "signal" /\ pc'[t] = "unlock" /\ \A s \in Threads \ {t} : pc'[s] = pc[s]
          /\ UNCHANGED <<queue, ran, fn, looping, hand, posts>>
      BY <1>0, <1>3 DEF WriteSignal, TypeOK
    <2>2. OrderInv' /\ KeptInv'
      BY <1>0, <2>1, OrderKept, KeptKept
    <2>3. HandInv' /\ StopInv'
      BY <1>0, <2>1 DEF HandInv, StopInv, FromHand
    <2>. QED BY <2>2, <2>3
  <1>4. CASE WriteUnlock(t)
    <2>1. pc[t] = "unlock" /\ (\A s \in Threads \ {t} : pc'[s] = pc[s])
          /\ UNCHANGED <<queue, ran, posts>>
      BY <1>0, <1>4 DEF WriteUnlock, TypeOK
    <2>2. OrderInv' /\ KeptInv'
      BY <1>0, <2>1, OrderKept, KeptKept
    <2>. QED BY <1>0, <1>4, <2>2, UnlockStop
  <1>. QED BY <1>1, <1>2, <1>3, <1>4 DEF Write

LEMMA NextStop ==
  ASSUME JoinInv, [Next]_vars
  PROVE  OrderInv' /\ KeptInv' /\ HandInv' /\ StopInv'
  <1>. USE ConstAssumption
  <1>0. TypeOK /\ PostInv /\ OrderInv /\ KeptInv /\ HandInv /\ StopInv
    BY DEF JoinInv
  <1>1. ASSUME NEW t \in Threads, Write(t) PROVE OrderInv' /\ KeptInv' /\ HandInv' /\ StopInv'
    BY <1>1, WriteStop
  <1>2. ASSUME NEW t \in Callers, JniPost(t) PROVE OrderInv' /\ KeptInv' /\ HandInv' /\ StopInv'
    <2>1. PICK k \in JniKinds : StartPost(t, k)
      BY <1>2 DEF JniPost
    <2>2. k \in Kinds /\ pc[t] = "ready" /\ UNCHANGED <<queue, ran>>
      BY <1>2, <2>1 DEF Kinds, JniPost, StartPost
    <2>. QED BY <1>0, <1>2, <2>1, <2>2, OrderKept, StartPostKept, JniPostStop
  <1>3. CASE CallPosts
    <2>1. UNCHANGED <<queue, ran>> /\ pc[Compositor] = "call"
          /\ StartPost(Compositor, FollowUp[fn.kind]) /\ FollowUp[fn.kind] \in Kinds
      BY <1>3, FollowUpKinds DEF CallPosts, StartPost
    <2>. QED BY <1>0, <1>3, <2>1, OrderKept, StartPostKept, CallPostsStop
  <1>4. CASE RunPop
    BY <1>0, <1>4, PopOrder, PopKept, PopStop
  \* The other steps leave the sequences and the writers alone.
  <1>5. ASSUME UNCHANGED <<queue, ran, posts>>,
               \A t \in Threads : pc[t] \in {"lock", "push"} => pc'[t] \in {"lock", "push"}
        PROVE  OrderInv' /\ KeptInv'
    BY <1>0, <1>5, OrderKept, KeptKept
  <1>6. ASSUME NEW t \in Callers, Join(t) PROVE OrderInv' /\ KeptInv' /\ HandInv' /\ StopInv'
    BY <1>0, <1>5, <1>6, JoinStop DEF Join, TypeOK
  <1>7. CASE CallReturns
    BY <1>0, <1>5, <1>7, ReturnsStop DEF CallReturns, Goto, TypeOK
  <1>8. CASE LoopExit
    BY <1>0, <1>5, <1>8, EndStop DEF LoopExit, Goto, TypeOK
  <1>9. CASE Dispatch \/ RunLock \/ RunRead \/ RunRelock \/ RunReturn
    <2>1. /\ UNCHANGED <<queue, ran, fn, hand, posts, looping>>
          /\ \A t \in Callers : pc'[t] = pc[t]
          /\ pc[Compositor] \in {"poll", "runlock", "read", "relock", "drain"}
          /\ pc'[Compositor] \in {"runlock", "read", "drain", "poll"}
      BY <1>0, <1>9 DEF Dispatch, RunLock, RunRead, RunRelock, RunReturn, Goto, TypeOK
    <2>2. OrderInv' /\ KeptInv'
      BY <1>5, <2>1
    <2>3. HandInv' /\ StopInv'
      BY <1>0, <2>1, StopKept
    <2>. QED BY <2>2, <2>3
  <1>10. CASE UNCHANGED vars
    BY <1>0, <1>5, <1>10, StopKept DEF vars
  <1>. QED BY <1>1, <1>2, <1>3, <1>4, <1>6, <1>7, <1>8, <1>9, <1>10
           DEF Next, CompositorStep, CallerStep

\* A terminate was the last post of its thread; the loop ends only when it was
\* popped, and then everything of that thread had been popped before it.
LEMMA JoinInvImplies == JoinInv => JoinedMeansRan
  <1> SUFFICES ASSUME JoinInv, NEW t \in Callers, pc[t] = "joined", NEW n \in 1 .. posts[t]
               PROVE  Ran(t, n)
    BY DEF JoinedMeansRan, Ran
  <1>0. TypeOK /\ PostInv /\ OrderInv /\ KeptInv /\ HandInv /\ StopInv
    BY DEF JoinInv
  <1>1. PICK j \in DOMAIN ran : ran[j].kind = "terminate"
    BY <1>0 DEF StopInv
  <1>2. ran[j].by \in Callers /\ pc[ran[j].by] # "ready" /\ hand[ran[j].by] = ran[j]
    BY <1>0, <1>1 DEF StopInv, FromHand
  <1>3. ran[j].by = t /\ ran[j].n = posts[t]
    BY <1>0, <1>1, <1>2 DEF HandInv
  <1>4. Ran(t, n) \/ Waits(t, n)
    BY <1>0 DEF KeptInv
  <1>5. ~Waits(t, n)
    BY <1>0, <1>3 DEF Waits, OrderInv, TypeOK
  <1>. QED BY <1>4, <1>5

LEMMA JoinInvariant == Spec => []JoinInv
  <1>1. Init => JoinInv
    <2> SUFFICES ASSUME Init PROVE JoinInv
      OBVIOUS
    <2>. USE ConstAssumption
    <2>1. TypeOK
      BY InitTypeOK
    <2>2. PostInv /\ OrderInv /\ KeptInv
      BY DEF Init, PostInv, OrderInv, KeptInv
    <2>3. HandInv /\ StopInv
      BY DEF Init, HandInv, StopInv
    <2>. QED BY <2>1, <2>2, <2>3 DEF JoinInv
  <1>2. JoinInv /\ [Next]_vars => JoinInv'
    <2> SUFFICES ASSUME JoinInv, [Next]_vars PROVE JoinInv'
      OBVIOUS
    <2>1. TypeOK' /\ PostInv'
      BY NextTypeOK, NextPostInv DEF JoinInv
    <2>. QED BY <2>1, NextStop DEF JoinInv
  <1>. QED BY <1>1, <1>2, PTL DEF Spec

\* When terminate returns, whatever its caller had posted has been run.
THEOREM JoinWaits == Spec => []JoinedMeansRan
  BY JoinInvariant, JoinInvImplies, PTL

-----------------------------------------------------------------------------
(* The order in which the closures of one thread run *)

\* What is popped was posted next: of the posts before it none still waits, and
\* none was lost.
LEMMA PopInPostingOrder ==
  ASSUME JoinInv, RunPop, NEW i \in 1 .. queue[1].n - 1
  PROVE  \E k \in DOMAIN ran : ran[k].by = queue[1].by /\ ran[k].n = i
  <1>1. /\ 1 \in DOMAIN queue /\ queue[1] \in Closures
        /\ \A k \in DOMAIN queue : k \in Nat /\ (k = 1 \/ 1 < k)
    BY QueuePopped DEF JoinInv
  <1> DEFINE t == queue[1].by
             n == queue[1].n
  <1>2. t \in Threads /\ n \in Nat /\ i \in Nat /\ i < n /\ i >= 1
    BY <1>1 DEF Closures
  <1>3. n <= posts[t] /\ posts[t] \in Nat
    BY <1>1, <1>2 DEF JoinInv, PostInv, Pushed, TypeOK
  <1>4. i \in 1 .. posts[t] /\ i < posts[t]
    BY <1>2, <1>3
  <1>5. Ran(t, i) \/ Waits(t, i)
    BY <1>2, <1>4 DEF JoinInv, KeptInv
  <1>6. ~Waits(t, i)
    <2>1. ASSUME NEW k \in DOMAIN queue, queue[k].by = t, queue[k].n = i PROVE FALSE
      <3>1. k = 1 \/ n < i
        BY <1>1, <2>1 DEF JoinInv, OrderInv
      <3>. QED BY <1>2, <2>1, <3>1
    <2>. QED BY <2>1 DEF Waits
  <1>. QED BY <1>5, <1>6 DEF Ran

\* For any number of threads and posts: whenever a closure runs, all that its
\* thread had posted before it has run.
THEOREM RunInOrder == Spec => []RunsInPostingOrder
  <1>1. Init => RunsInPostingOrder
    BY DEF Init, RunsInPostingOrder
  <1>2. RunsInPostingOrder /\ JoinInv /\ [Next]_vars => RunsInPostingOrder'
    <2> SUFFICES ASSUME RunsInPostingOrder, JoinInv, [Next]_vars PROVE RunsInPostingOrder'
      OBVIOUS
    <2>1. CASE RunPop
      <3>1. /\ DOMAIN ran = 1 .. Len(ran) /\ Len(ran) \in Nat
            /\ DOMAIN ran' = 1 .. Len(ran) + 1 /\ ran'[Len(ran) + 1] = queue[1]
            /\ \A k \in DOMAIN ran : ran'[k] = ran[k]
        BY <2>1, QueuePopped DEF JoinInv
      <3>2. ASSUME NEW j \in DOMAIN ran', NEW i \in 1 .. ran'[j].n - 1
            PROVE  \E k \in 1 .. j - 1 : ran'[k].by = ran'[j].by /\ ran'[k].n = i
        <4>1. CASE j = Len(ran) + 1
          <5>1. PICK k \in DOMAIN ran : ran[k].by = queue[1].by /\ ran[k].n = i
            BY <2>1, <3>1, <4>1, PopInPostingOrder
          <5>2. k \in 1 .. j - 1
            BY <3>1, <4>1
          <5>. QED BY <3>1, <4>1, <5>1, <5>2
        <4>2. CASE j # Len(ran) + 1
          <5>1. j \in DOMAIN ran
            BY <3>1, <4>2
          <5>2. PICK k \in 1 .. j - 1 : ran[k].by = ran[j].by /\ ran[k].n = i
            BY <3>1, <5>1 DEF RunsInPostingOrder
          <5>3. k \in DOMAIN ran
            BY <3>1, <5>1
          <5>. QED BY <3>1, <5>1, <5>2, <5>3
        <4>. QED BY <4>1, <4>2
      <3>. QED BY <3>2 DEF RunsInPostingOrder
    <2>2. CASE ~RunPop
      <3>1. ran' = ran
        BY <2>2 DEF Next, CompositorStep, CallerStep, Write, WriteLock, WritePush, WriteSignal,
           WriteUnlock, JniPost, StartPost, Join, Dispatch, RunLock, RunRead, CallPosts,
           CallReturns, RunRelock, RunReturn, LoopExit, vars
      <3>. QED BY <3>1 DEF RunsInPostingOrder
    <2>. QED BY <2>1, <2>2
  <1>. QED BY <1>1, <1>2, JoinInvariant, PTL DEF Spec
=============================================================================
