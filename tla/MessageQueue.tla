---------------------------- MODULE MessageQueue ----------------------------
(***************************************************************************)
(* LorieMessageQueue (message-queue.cpp) between the Java threads that     *)
(* call into the compositor through JNI and the compositor thread.         *)
(*                                                                         *)
(* A poster takes the mutex, pushes a closure, adds one to an eventfd and  *)
(* releases the mutex.  The compositor thread sleeps in the Wayland event  *)
(* loop until the eventfd is readable, then reads it under the mutex and   *)
(* runs closures one by one, WITHOUT the mutex, until the queue is empty.  *)
(* Closures run on the compositor thread may post in their turn.           *)
(***************************************************************************)
EXTENDS Naturals, Sequences, FiniteSets

CONSTANTS
  Callers,      \* the Java threads that call the JNI functions
  Compositor,   \* the thread started by the constructor of the backend
  NoThread,     \* the owner of a mutex nobody holds
  JniKinds,     \* the kinds of closures the Java threads post
  MaxPosts      \* bound: closures one Java thread posts

ASSUME ConstAssumption ==
  /\ Compositor \notin Callers
  /\ NoThread \notin Callers \cup {Compositor}
  /\ JniKinds \subseteq {"input", "window", "layout", "terminate"}
  /\ MaxPosts \in Nat

Threads == Callers \cup {Compositor}

(***************************************************************************)
(* The closures the code posts.  A JNI caller posts an input event, a      *)
(* window change, a layout change, or the request to terminate.  Three of  *)
(* the closures post another one when they run (android-app.cpp 140-166,   *)
(* compositor.cpp 85-92), two of them only if an early return is not taken.*)
(***************************************************************************)
Kinds == {"input", "window", "layout", "terminate", "resize", "redraw", "keymap"}

FollowUp == [k \in {"window", "resize", "layout"} |->
               CASE k = "window" -> "resize"
                 [] k = "resize" -> "redraw"
                 [] k = "layout" -> "keymap"]

MayReturnEarly == {"resize", "layout"}

\* A closure: who posted it, that thread's how-manieth post it is, its kind.
Closures == [by : Threads, n : Nat \ {0}, kind : Kinds]

VARIABLES
  fd,        \* the eventfd: "open", or "failed" if eventfd() returned -1
  counter,   \* the eventfd's counter
  mutex,     \* the thread that owns the mutex
  queue,     \* the closures pushed and not yet popped
  pc,        \* where each thread is
  hand,      \* the closure a thread is posting (the argument of write)
  fn,        \* the closure the compositor thread popped last
  posts,     \* how many closures each thread has set out to post
  looping,   \* wl_display_run has not been told to stop
  ran        \* history: the closures popped to be run, in that order

vars == <<fd, counter, mutex, queue, pc, hand, fn, posts, looping, ran>>

Nothing == [by |-> Compositor, n |-> 1, kind |-> "redraw"]

CallerPCs == {"ready", "lock", "push", "signal", "unlock", "join", "joined"}
CompositorPCs == {"poll", "runlock", "read", "drain", "call", "relock", "exited",
                  "lock", "push", "signal", "unlock"}

Init ==
  /\ fd \in {"open", "failed"}
  /\ counter = 0
  /\ mutex = NoThread
  /\ queue = << >>
  /\ pc = [t \in Threads |-> IF t = Compositor THEN "poll" ELSE "ready"]
  /\ hand = [t \in Threads |-> Nothing]
  /\ fn = Nothing
  /\ posts = [t \in Threads |-> 0]
  /\ looping = TRUE
  /\ ran = << >>

-----------------------------------------------------------------------------
(* LorieMessageQueue::write, one step per line *)

\* Thread t enters write with a closure of kind k.
StartPost(t, k) ==
  /\ posts' = [posts EXCEPT ![t] = @ + 1]
  /\ hand' = [hand EXCEPT ![t] = [by |-> t, n |-> posts[t] + 1, kind |-> k]]
  /\ pc' = [pc EXCEPT ![t] = "lock"]
  /\ UNCHANGED <<fd, counter, mutex, queue, fn, looping, ran>>

WriteLock(t) ==
  /\ pc[t] = "lock"
  /\ mutex = NoThread
  /\ mutex' = t
  /\ pc' = [pc EXCEPT ![t] = "push"]
  /\ UNCHANGED <<fd, counter, queue, hand, fn, posts, looping, ran>>

WritePush(t) ==
  /\ pc[t] = "push"
  /\ queue' = Append(queue, hand[t])
  /\ pc' = [pc EXCEPT ![t] = "signal"]
  /\ UNCHANGED <<fd, counter, mutex, hand, fn, posts, looping, ran>>

\* Mistake: the closure is pushed and the eventfd is not written.
PushOnly(t) ==
  /\ pc[t] = "signal"
  /\ pc' = [pc EXCEPT ![t] = "unlock"]
  /\ UNCHANGED <<fd, counter, mutex, queue, hand, fn, posts, looping, ran>>

\* ::write on a descriptor that is -1 fails, and its result is ignored.
WriteSignal(t) ==
  /\ pc[t] = "signal"
  /\ counter' = IF fd = "open" THEN counter + 1 ELSE counter
  /\ pc' = [pc EXCEPT ![t] = "unlock"]
  /\ UNCHANGED <<fd, mutex, queue, hand, fn, posts, looping, ran>>

\* Mistake: every thread goes on as if it were the one inside run().
RelockAfterPost(t) == "relock"

\* Where a thread goes on once its post is done: a terminating JNI call joins
\* the compositor thread, a closure of the compositor thread returns.
AfterPost(t) ==
  IF t = Compositor THEN "relock"
  ELSE IF hand[t].kind = "terminate" THEN "join" ELSE "ready"

WriteUnlock(t) ==
  /\ pc[t] = "unlock"
  /\ mutex' = NoThread
  /\ pc' = [pc EXCEPT ![t] = AfterPost(t)]
  /\ UNCHANGED <<fd, counter, queue, hand, fn, posts, looping, ran>>

-----------------------------------------------------------------------------
(* The JNI functions of android-app.cpp, as calls of post *)

\* LorieService keeps one compositor and sets it to 0 after terminate, so one
\* thread at most is in the JNI function terminate.
Terminating == \E t \in Callers : pc[t] # "ready" /\ hand[t].kind = "terminate"

JniPost(t) ==
  /\ pc[t] = "ready"
  /\ posts[t] < MaxPosts
  /\ \E k \in JniKinds : /\ (k = "terminate") => ~Terminating
                         /\ StartPost(t, k)

\* Mistake: the thread is detached instead of joined.
Detach(t) ==
  /\ pc[t] = "join"
  /\ pc' = [pc EXCEPT ![t] = "joined"]
  /\ UNCHANGED <<fd, counter, mutex, queue, hand, fn, posts, looping, ran>>

\* b->self.join() returns once the compositor thread has left start().
Join(t) ==
  /\ pc[t] = "join"
  /\ pc[Compositor] = "exited"
  /\ pc' = [pc EXCEPT ![t] = "joined"]
  /\ UNCHANGED <<fd, counter, mutex, queue, hand, fn, posts, looping, ran>>

-----------------------------------------------------------------------------
(* The compositor thread: wl_display_run, proc, LorieMessageQueue::run *)

Goto(l) == pc' = [pc EXCEPT ![Compositor] = l]

\* The event loop finds the eventfd readable and calls proc.
Dispatch ==
  /\ pc[Compositor] = "poll"
  /\ looping
  /\ counter > 0
  /\ Goto("runlock")
  /\ UNCHANGED <<fd, counter, mutex, queue, hand, fn, posts, looping, ran>>

RunLock ==
  /\ pc[Compositor] = "runlock"
  /\ mutex = NoThread
  /\ mutex' = Compositor
  /\ Goto("read")
  /\ UNCHANGED <<fd, counter, queue, hand, fn, posts, looping, ran>>

\* The descriptor is blocking: reading a counter of 0 waits for a write.
RunRead ==
  /\ pc[Compositor] = "read"
  /\ counter > 0
  /\ counter' = 0
  /\ Goto("drain")
  /\ UNCHANGED <<fd, mutex, queue, hand, fn, posts, looping, ran>>

\* Mistake: the mutex stays locked while the closure runs.
PopKeepingMutex ==
  /\ pc[Compositor] = "drain"
  /\ queue # << >>
  /\ fn' = Head(queue)
  /\ queue' = Tail(queue)
  /\ ran' = Append(ran, Head(queue))
  /\ Goto("call")
  /\ UNCHANGED <<fd, counter, mutex, hand, posts, looping>>

\* Mistake: the closures are kept in a stack.
PopNewest ==
  /\ pc[Compositor] = "drain"
  /\ queue # << >>
  /\ fn' = queue[Len(queue)]
  /\ queue' = SubSeq(queue, 1, Len(queue) - 1)
  /\ ran' = Append(ran, queue[Len(queue)])
  /\ mutex' = NoThread
  /\ Goto("call")
  /\ UNCHANGED <<fd, counter, hand, posts, looping>>

\* front, pop and unlock: nobody can look in between.
RunPop ==
  /\ pc[Compositor] = "drain"
  /\ queue # << >>
  /\ fn' = Head(queue)
  /\ queue' = Tail(queue)
  /\ ran' = Append(ran, Head(queue))
  /\ mutex' = NoThread
  /\ Goto("call")
  /\ UNCHANGED <<fd, counter, hand, posts, looping>>

\* fn() posts a closure of its own.
CallPosts ==
  /\ pc[Compositor] = "call"
  /\ fn.kind \in DOMAIN FollowUp
  /\ StartPost(Compositor, FollowUp[fn.kind])

\* Mistake: terminate does not reach wl_display_terminate.
CallIgnoresTerminate ==
  /\ pc[Compositor] = "call"
  /\ fn.kind \notin DOMAIN FollowUp \/ fn.kind \in MayReturnEarly
  /\ Goto("relock")
  /\ UNCHANGED <<fd, counter, mutex, queue, hand, fn, posts, looping, ran>>

\* fn() returns without posting; terminate stops the event loop.
CallReturns ==
  /\ pc[Compositor] = "call"
  /\ fn.kind \notin DOMAIN FollowUp \/ fn.kind \in MayReturnEarly
  /\ looping' = (looping /\ fn.kind # "terminate")
  /\ Goto("relock")
  /\ UNCHANGED <<fd, counter, mutex, queue, hand, fn, posts, ran>>

\* Mistake: the loop goes round without locking the mutex again.
SkipRelock ==
  /\ pc[Compositor] = "relock"
  /\ Goto("drain")
  /\ UNCHANGED <<fd, counter, mutex, queue, hand, fn, posts, looping, ran>>

\* Mistake: the eventfd is read once per closure instead of once per call.
RereadAfterCall ==
  /\ pc[Compositor] = "relock"
  /\ mutex = NoThread
  /\ mutex' = Compositor
  /\ Goto("read")
  /\ UNCHANGED <<fd, counter, queue, hand, fn, posts, looping, ran>>

\* Mistake: one closure is run per wakeup ("if" in the place of "while").
OnePerWakeup ==
  /\ pc[Compositor] = "relock"
  /\ Goto("poll")
  /\ UNCHANGED <<fd, counter, mutex, queue, hand, fn, posts, looping, ran>>

RunRelock ==
  /\ pc[Compositor] = "relock"
  /\ mutex = NoThread
  /\ mutex' = Compositor
  /\ Goto("drain")
  /\ UNCHANGED <<fd, counter, queue, hand, fn, posts, looping, ran>>

\* The queue is empty: run returns to the event loop, releasing the mutex.
RunReturn ==
  /\ pc[Compositor] = "drain"
  /\ queue = << >>
  /\ mutex' = NoThread
  /\ Goto("poll")
  /\ UNCHANGED <<fd, counter, queue, hand, fn, posts, looping, ran>>

\* wl_display_run returns and with it start(): the thread is over.
LoopExit ==
  /\ pc[Compositor] = "poll"
  /\ ~looping
  /\ Goto("exited")
  /\ UNCHANGED <<fd, counter, mutex, queue, hand, fn, posts, looping, ran>>

-----------------------------------------------------------------------------
Write(t) == WriteLock(t) \/ WritePush(t) \/ WriteSignal(t) \/ WriteUnlock(t)

CompositorStep ==
  \/ Write(Compositor)
  \/ Dispatch \/ RunLock \/ RunRead \/ RunPop \/ CallPosts \/ CallReturns
  \/ RunRelock \/ RunReturn \/ LoopExit

CallerStep(t) == JniPost(t) \/ Write(t) \/ Join(t)

Next == CompositorStep \/ \E t \in Callers : CallerStep(t)

(***************************************************************************)
(* The scheduler runs every thread that can run.  A Java thread owes no    *)
(* further call, so only the steps inside a call it made are fair.  The    *)
(* mutex is not fair in general: the compositor thread and a writer each   *)
(* get it eventually only because each writer posts finitely often here.   *)
(***************************************************************************)
Fairness ==
  /\ WF_vars(CompositorStep)
  /\ \A t \in Callers : WF_vars(Write(t)) /\ WF_vars(Join(t))

Spec == Init /\ [][Next]_vars /\ Fairness

-----------------------------------------------------------------------------
TypeOK ==
  /\ fd \in {"open", "failed"}
  /\ counter \in Nat
  /\ mutex \in Threads \cup {NoThread}
  /\ queue \in Seq(Closures)
  /\ pc \in [Threads -> CallerPCs \cup CompositorPCs]
  /\ \A t \in Callers : pc[t] \in CallerPCs
  /\ pc[Compositor] \in CompositorPCs
  /\ hand \in [Threads -> Closures]
  /\ fn \in Closures
  /\ posts \in [Threads -> Nat]
  /\ looping \in BOOLEAN
  /\ ran \in Seq(Closures)

\* The pcs at which a thread must own the mutex.
Holding(t) == pc[t] \in {"push", "signal", "unlock", "read", "drain"}

\* The lines that touch the std::queue are never entered by two threads at
\* once, although run() releases the mutex around every closure it calls.
QueueAccessExclusive ==
  \A s, t \in Threads : Holding(s) /\ Holding(t) => s = t

\* No thread waits for a mutex it already owns: a closure that posts, called
\* from run(), finds the mutex free or owned by another thread, never by its
\* own thread (std::mutex is not recursive).
NoSelfDeadlock ==
  \A t \in Threads : pc[t] \in {"lock", "runlock", "relock"} => mutex # t

\* run() reads a blocking eventfd while it owns the mutex: it must never find
\* the counter at 0, or every poster would hang with it.
ReadNeverBlocks == pc[Compositor] = "read" => counter > 0

\* A closure is never left in the queue with the compositor thread asleep: the
\* eventfd is readable, or the thread that pushed it is about to write to it.
NoLostWakeup ==
  fd = "open" /\ pc[Compositor] \in {"poll", "exited"} /\ queue # << >>
    => counter > 0 \/ \E t \in Callers : pc[t] = "signal"

\* Once terminate's join returns, whatever its caller had posted has run.
JoinedMeansRan ==
  \A t \in Callers : pc[t] = "joined" =>
    \A i \in 1 .. posts[t] : \E j \in DOMAIN ran : ran[j].by = t /\ ran[j].n = i

\* When a closure runs, everything its thread had posted before it has run: a
\* finger's up never overtakes its down, and no closure in between is dropped.
RunsInPostingOrder ==
  \A j \in DOMAIN ran : \A i \in 1 .. ran[j].n - 1 :
    \E k \in 1 .. j - 1 : ran[k].by = ran[j].by /\ ran[k].n = i

\* LorieMessageQueue implements the abstract queue of work: it was accepted in
\* the order of the pushes, and run() takes it in that order.
Abstract == INSTANCE FifoWork WITH
  Work     <- Closures,
  accepted <- ran \o queue,
  done     <- Len(ran)

ImplementsFifoWork == Abstract!FWSpec

\* Every closure a caller sets out to post is run, unless the event loop was
\* told to stop or the eventfd could not be created.
PostedIsRun ==
  \A t \in Callers, n \in 1 .. MaxPosts :
    posts[t] = n ~> \/ \E j \in DOMAIN ran : ran[j].by = t /\ ran[j].n = n
                    \/ ~looping
                    \/ fd = "failed"

\* The JNI function terminate returns: its join is not waited for in vain.
TerminateReturns ==
  \A t \in Callers : pc[t] = "join" /\ fd = "open" ~> pc[t] = "joined"
=============================================================================
