-------------------------- MODULE ThreadPoolProofs --------------------------
(***************************************************************************)
(* Proofs about ThreadPool, for any set of workers, any requests and any   *)
(* queue limit.  Typing comes first, then the lock discipline, then the    *)
(* bound of the queue and the balance of the semaphore, and from all of    *)
(* them that the pool implements RequestQueue.                             *)
(***************************************************************************)
EXTENDS ThreadPool, FiniteSetTheorems, TLAPS

(* Local variables are meaningful where the code uses them: append has its *)
(* argument until it has pushed it, a worker its request from front() to   *)
(* the return of process().                                                *)
LocalsSet ==
  /\ mpc \in {"size", "push"} => arg \in Requests
  /\ \A w \in Workers : wpc[w] \in {"pop", "process"} => request[w] \in Requests

Typed == TypeOK /\ LocalsSet

LEMMA TypedInit == Init => Typed
BY PoolAssumption DEF Init, Typed, TypeOK, LocalsSet, MainPCs, WorkerPCs

(* Every step keeps the variables in their types and the locals set.  That *)
(* pop_front() never meets an empty list comes from the lock discipline.   *)
LEMMA TypedStep == Typed /\ QueueLocked /\ [Next]_vars => Typed'
<1> SUFFICES ASSUME Typed, QueueLocked, [Next]_vars PROVE Typed'
  OBVIOUS
<1> USE PoolAssumption DEF Typed, TypeOK, LocalsSet, MainPCs, WorkerPCs, MainGoes, WorkerGoes
<1>1. ASSUME NEW w \in Workers, CreateThread(w) PROVE Typed'
  BY <1>1 DEF CreateThread
<1>2. CASE CreateFails
  BY <1>2 DEF CreateFails
<1>3. CASE Constructed
  BY <1>3 DEF Constructed
<1>4. ASSUME NEW r \in Requests, AppendLock(r) PROVE Typed'
  BY <1>4 DEF AppendLock
<1>5. CASE AppendFull
  BY <1>5 DEF AppendFull
<1>6. CASE AppendRoom
  BY <1>6 DEF AppendRoom
<1>7. CASE AppendPush
  BY <1>7 DEF AppendPush
<1>8. CASE AppendPost
  BY <1>8 DEF AppendPost
<1>9. ASSUME NEW w \in Workers, SemWait(w) PROVE Typed'
  BY <1>9 DEF SemWait
<1>10. ASSUME NEW w \in Workers, SemWaitInterrupted(w) PROVE Typed'
  BY <1>10 DEF SemWaitInterrupted
<1>11. ASSUME NEW w \in Workers, TakeLock(w) PROVE Typed'
  BY <1>11 DEF TakeLock
<1>12. ASSUME NEW w \in Workers, FoundEmpty(w) PROVE Typed'
  BY <1>12 DEF FoundEmpty
<1>13. ASSUME NEW w \in Workers, ReadFront(w) PROVE Typed'
  BY <1>13 DEF ReadFront
<1>14. ASSUME NEW w \in Workers, PopFront(w) PROVE Typed'
  <2>1. queue # <<>> /\ Tail(queue) \in Seq(Requests)
    BY <1>14 DEF PopFront, QueueLocked
  <2>. QED
    BY <1>14, <2>1 DEF PopFront
<1>15. ASSUME NEW w \in Workers, Process(w) PROVE Typed'
  BY <1>15 DEF Process
<1>16. CASE Exited
  BY <1>16 DEF Exited, vars
<1>17. CASE UNCHANGED vars
  BY <1>17 DEF vars
<1>. QED
  BY <1>1, <1>2, <1>3, <1>4, <1>5, <1>6, <1>7, <1>8, <1>9, <1>10, <1>11,
     <1>12, <1>13, <1>14, <1>15, <1>16, <1>17
  DEF Next, Append_, Run

-----------------------------------------------------------------------------
(* The lock discipline.                                                    *)

LEMMA LockedInit == Init => QueueLocked
BY PoolAssumption DEF Init, QueueLocked, InCritical

(* A thread enters the critical section only when the lock is free, hence  *)
(* when nobody is in it, and whoever changes the queue is alone there, so  *)
(* the front a worker has read stays the front until it pops it.           *)
LEMMA LockedStep == Typed /\ QueueLocked /\ [Next]_vars => QueueLocked'
<1> SUFFICES ASSUME Typed, QueueLocked, [Next]_vars PROVE QueueLocked'
  OBVIOUS
<1> USE PoolAssumption
    DEF Typed, TypeOK, MainPCs, WorkerPCs, MainGoes, WorkerGoes, QueueLocked, InCritical
<1>1. ASSUME NEW w \in Workers, CreateThread(w) PROVE QueueLocked'
  BY <1>1 DEF CreateThread
<1>2. CASE CreateFails
  BY <1>2 DEF CreateFails
<1>3. CASE Constructed
  BY <1>3 DEF Constructed
<1>4. ASSUME NEW r \in Requests, AppendLock(r) PROVE QueueLocked'
  BY <1>4 DEF AppendLock
<1>5. CASE AppendFull
  BY <1>5 DEF AppendFull
<1>6. CASE AppendRoom
  BY <1>6 DEF AppendRoom
<1>7. CASE AppendPush
  BY <1>7 DEF AppendPush
<1>8. CASE AppendPost
  BY <1>8 DEF AppendPost
<1>9. ASSUME NEW w \in Workers, SemWait(w) PROVE QueueLocked'
  BY <1>9 DEF SemWait
<1>10. ASSUME NEW w \in Workers, SemWaitInterrupted(w) PROVE QueueLocked'
  BY <1>10 DEF SemWaitInterrupted
<1>11. ASSUME NEW w \in Workers, TakeLock(w) PROVE QueueLocked'
  BY <1>11 DEF TakeLock
<1>12. ASSUME NEW w \in Workers, FoundEmpty(w) PROVE QueueLocked'
  BY <1>12 DEF FoundEmpty
<1>13. ASSUME NEW w \in Workers, ReadFront(w) PROVE QueueLocked'
  BY <1>13 DEF ReadFront
<1>14. ASSUME NEW w \in Workers, PopFront(w) PROVE QueueLocked'
  BY <1>14 DEF PopFront
<1>15. ASSUME NEW w \in Workers, Process(w) PROVE QueueLocked'
  BY <1>15 DEF Process
<1>16. CASE Exited
  BY <1>16 DEF Exited, vars
<1>17. CASE UNCHANGED vars
  BY <1>17 DEF vars
<1>. QED
  BY <1>1, <1>2, <1>3, <1>4, <1>5, <1>6, <1>7, <1>8, <1>9, <1>10, <1>11,
     <1>12, <1>13, <1>14, <1>15, <1>16, <1>17
  DEF Next, Append_, Run

(* The variables keep their types: in particular the semaphore never goes  *)
(* below zero and only pointers that append was given are in the queue     *)
(* (threadpool.h, lines 91-113).                                           *)
THEOREM TypeCorrect == Spec => []TypeOK
<1>1. Typed => TypeOK
  BY DEF Typed
<1>. QED
  BY <1>1, TypedInit, TypedStep, LockedInit, LockedStep, PTL DEF Spec

(* The threads exclude each other on m_workqueue, and front() and          *)
(* pop_front() of a worker concern the same element (threadpool.h, lines   *)
(* 97-105).                                                                *)
THEOREM LockDiscipline == Spec => []QueueLocked
BY TypedInit, TypedStep, LockedInit, LockedStep, PTL DEF Spec

-----------------------------------------------------------------------------
(* The bound of the queue.                                                 *)

LEMMA BoundInit == Init => QueueBound
BY PoolAssumption DEF Init, QueueBound

(* Only append lengthens the queue, and it has tested the length under the *)
(* lock since when the workers can only have shortened it.                 *)
LEMMA BoundStep ==
  Typed /\ QueueLocked /\ QueueBound /\ [Next]_vars => QueueBound'
<1> SUFFICES ASSUME Typed, QueueLocked, QueueBound, [Next]_vars
             PROVE QueueBound'
  OBVIOUS
<1> USE PoolAssumption DEF Typed, TypeOK, QueueBound, MainGoes
<1>1. CASE AppendPush
  <2>1. Len(queue') = Len(queue) + 1
    BY <1>1 DEF AppendPush, LocalsSet
  <2>. QED
    BY <1>1, <2>1 DEF AppendPush
<1>2. ASSUME NEW w \in Workers, PopFront(w) PROVE QueueBound'
  <2>1. Len(queue') = Len(queue) - 1 /\ mpc' = mpc
    BY <1>2 DEF PopFront, WorkerGoes, QueueLocked
  <2>. QED
    BY <2>1
<1>3. CASE AppendRoom
  BY <1>3 DEF AppendRoom
<1>4. CASE AppendFull \/ AppendPost \/ CreateFails \/ Constructed
  BY <1>4 DEF AppendFull, AppendPost, CreateFails, Constructed
<1>5. ASSUME NEW r \in Requests, AppendLock(r) PROVE QueueBound'
  BY <1>5 DEF AppendLock
<1>6. ASSUME NEW w \in Workers,
             CreateThread(w) \/ SemWait(w) \/ SemWaitInterrupted(w) \/ TakeLock(w)
               \/ FoundEmpty(w) \/ ReadFront(w) \/ Process(w)
      PROVE QueueBound'
  BY <1>6 DEF CreateThread, SemWait, SemWaitInterrupted, TakeLock,
              FoundEmpty, ReadFront, Process
<1>7. CASE Exited \/ UNCHANGED vars
  BY <1>7 DEF Exited, vars
<1>. QED
  BY <1>1, <1>2, <1>3, <1>4, <1>5, <1>6, <1>7 DEF Next, Append_, Run

(* At most m_max_requests + 1 requests wait, whatever the workers do while *)
(* append is between its test and its push (threadpool.h, line 72).        *)
THEOREM BoundHolds == Spec => []QueueBound
BY TypedInit, TypedStep, LockedInit, LockedStep, BoundInit, BoundStep, PTL DEF Spec

-----------------------------------------------------------------------------
(* The balance between the list and the semaphore.                         *)

LEMMA ComingFinite ==
  IsFiniteSet(Coming) /\ Cardinality(Coming) \in Nat
<1>1. Coming \subseteq Workers
  BY DEF Coming
<1>. QED
  BY <1>1, PoolAssumption, FS_Subset, FS_CardinalityType

(* A worker that starts coming adds one to the number of those coming ...  *)
LEMMA OneMoreComing ==
  ASSUME NEW w \in Workers, Coming' = Coming \cup {w}, w \notin Coming
  PROVE  Cardinality(Coming') = Cardinality(Coming) + 1
BY ComingFinite, FS_AddElement

(* ... and one that has come takes one off.                                *)
LEMMA OneLessComing ==
  ASSUME NEW w \in Workers, Coming' = Coming \ {w}, w \in Coming
  PROVE  Cardinality(Coming') = Cardinality(Coming) - 1
BY ComingFinite, FS_RemoveElement

LEMMA BalanceInit == Init => TokenBalance
<1> SUFFICES ASSUME Init PROVE TokenBalance
  OBVIOUS
<1>1. Coming = {}
  BY DEF Init, Coming
<1>2. Cardinality(Coming) = 0
  BY <1>1, FS_EmptySet
<1>. QED
  BY <1>2 DEF Init, TokenBalance, Wakeups

(* What moves a wake-up from one place to the next keeps their sum; what   *)
(* uses one up also takes an element off the list, or found it empty.      *)
LEMMA BalanceStep ==
  Typed /\ QueueLocked /\ TokenBalance /\ [Next]_vars => TokenBalance'
<1> SUFFICES ASSUME Typed, QueueLocked, TokenBalance, [Next]_vars
             PROVE TokenBalance'
  OBVIOUS
<1>a. Cardinality(Coming) \in Nat /\ sem \in Nat /\ interrupts \in Nat /\ Len(queue) \in Nat
  BY ComingFinite, PoolAssumption DEF Typed, TypeOK
<1> USE PoolAssumption, <1>a
    DEF Typed, TypeOK, TokenBalance, Wakeups, MainGoes, WorkerGoes
<1>1. ASSUME wpc' = wpc PROVE Coming' = Coming
  BY <1>1 DEF Coming
<1>2. ASSUME NEW w \in Workers, SemWait(w) \/ SemWaitInterrupted(w)
      PROVE TokenBalance'
  <2>1. Coming' = Coming \cup {w} /\ w \notin Coming
    BY <1>2 DEF SemWait, SemWaitInterrupted, Coming
  <2>2. Cardinality(Coming') = Cardinality(Coming) + 1
    BY <2>1, OneMoreComing
  <2>. QED
    BY <1>2, <2>2 DEF SemWait, SemWaitInterrupted
<1>3. ASSUME NEW w \in Workers, FoundEmpty(w) PROVE TokenBalance'
  <2>1. Coming' = Coming \ {w} /\ w \in Coming
    BY <1>3 DEF FoundEmpty, Coming
  <2>2. Cardinality(Coming') = Cardinality(Coming) - 1
    BY <2>1, OneLessComing
  <2>3. Cardinality(Coming') \in Nat
    BY <2>1, ComingFinite, FS_RemoveElement, FS_CardinalityType
  <2>4. Len(queue) = 0
    BY <1>3 DEF FoundEmpty
  <2>. QED
    BY <1>3, <2>2, <2>3, <2>4 DEF FoundEmpty
<1>4. ASSUME NEW w \in Workers, PopFront(w) PROVE TokenBalance'
  <2>1. Coming' = Coming \ {w} /\ w \in Coming
    BY <1>4 DEF PopFront, Coming
  <2>2. Cardinality(Coming') = Cardinality(Coming) - 1
    BY <2>1, OneLessComing
  <2>3. Len(queue') = Len(queue) - 1
    BY <1>4 DEF PopFront, QueueLocked
  <2>4. sem' = sem /\ mpc' = mpc /\ interrupts' = interrupts
    BY <1>4 DEF PopFront
  <2>5. Wakeups' = Wakeups - 1
    BY <2>2, <2>4
  <2>. QED
    BY <2>3, <2>4, <2>5
<1>5. ASSUME NEW w \in Workers,
             CreateThread(w) \/ TakeLock(w) \/ ReadFront(w) \/ Process(w)
      PROVE TokenBalance'
  <2>1. Coming' = Coming
    BY <1>5 DEF CreateThread, TakeLock, ReadFront, Process, Coming
  <2>. QED
    BY <1>5, <2>1 DEF CreateThread, TakeLock, ReadFront, Process
<1>6. CASE AppendPush
  <2>1. Len(queue') = Len(queue) + 1
    BY <1>6 DEF AppendPush, LocalsSet
  <2>. QED
    BY <1>1, <1>6, <2>1 DEF AppendPush
<1>7. CASE AppendPost
  BY <1>1, <1>7 DEF AppendPost
<1>8. ASSUME NEW r \in Requests, AppendLock(r) PROVE TokenBalance'
  BY <1>1, <1>8 DEF AppendLock
<1>9. CASE AppendFull \/ AppendRoom \/ CreateFails \/ Constructed
  BY <1>1, <1>9 DEF AppendFull, AppendRoom, CreateFails, Constructed
<1>10. CASE Exited \/ UNCHANGED vars
  BY <1>1, <1>10 DEF Exited, vars
<1>. QED
  BY <1>2, <1>3, <1>4, <1>5, <1>6, <1>7, <1>8, <1>9, <1>10 DEF Next, Append_, Run

(* No wake-up is lost: each request in the list has a token, or a worker   *)
(* already past the semaphore, or an append about to post (threadpool.h,   *)
(* lines 77-79 and 96-105).                                                *)
THEOREM NoLostWakeup == Spec => []TokenBalance
BY TypedInit, TypedStep, LockedInit, LockedStep, BalanceInit, BalanceStep, PTL
   DEF Spec

-----------------------------------------------------------------------------
(* Refinement.                                                             *)

LEMMA AbstractInit == Init => Abstract!Init
BY DEF Init, Abstract!Init, Processing

(* push_back is Submit, pop_front is Take, the return of process() is      *)
(* Finish; everything else is invisible.                                   *)
LEMMA AbstractStep ==
  Typed /\ QueueLocked /\ QueueBound /\ [Next]_vars
    => [Abstract!Next]_(Abstract!rqVars)
<1> SUFFICES ASSUME Typed, QueueLocked, QueueBound, [Next]_vars
             PROVE Abstract!Next \/ UNCHANGED Abstract!rqVars
  BY DEF Abstract!rqVars
<1> USE PoolAssumption
    DEF Typed, TypeOK, LocalsSet, MainPCs, WorkerPCs, MainGoes, WorkerGoes, Processing
<1>1. CASE AppendPush
  <2>1. Abstract!Submit(arg)
    BY <1>1 DEF AppendPush, Abstract!Submit, Abstract!HasRoom, QueueBound
  <2>. QED
    BY <1>1, <2>1 DEF AppendPush, Abstract!Next
<1>2. ASSUME NEW w \in Workers, PopFront(w) PROVE Abstract!Take(w)
  <2>1. queue # <<>> /\ request[w] = Head(queue)
    BY <1>2 DEF PopFront, QueueLocked
  <2>2. Processing' = [Processing EXCEPT ![w] = request[w]]
    BY <1>2 DEF PopFront
  <2>3. Processing[w] = NoRequest
    BY <1>2 DEF PopFront
  <2>. QED
    BY <1>2, <2>1, <2>2, <2>3 DEF PopFront, Abstract!Take
<1>3. ASSUME NEW w \in Workers, Process(w) PROVE Abstract!Finish(w)
  <2>1. Processing[w] # NoRequest
    BY <1>3 DEF Process
  <2>2. Processing' = [Processing EXCEPT ![w] = NoRequest]
    BY <1>3 DEF Process
  <2>. QED
    BY <1>3, <2>1, <2>2 DEF Process, Abstract!Finish
<1>4. ASSUME NEW w \in Workers,
             CreateThread(w) \/ SemWait(w) \/ SemWaitInterrupted(w) \/ TakeLock(w)
               \/ FoundEmpty(w) \/ ReadFront(w)
      PROVE UNCHANGED Abstract!rqVars
  <2>1. queue' = queue
    BY <1>4 DEF CreateThread, SemWait, SemWaitInterrupted, TakeLock, FoundEmpty, ReadFront
  <2>2. Processing' = Processing
    BY <1>4 DEF CreateThread, SemWait, SemWaitInterrupted, TakeLock, FoundEmpty, ReadFront
  <2>. QED
    BY <2>1, <2>2 DEF Abstract!rqVars
<1>5. ASSUME NEW r \in Requests, AppendLock(r) PROVE UNCHANGED Abstract!rqVars
  BY <1>5 DEF AppendLock, Abstract!rqVars
<1>6. CASE AppendFull \/ AppendRoom \/ AppendPost \/ CreateFails \/ Constructed
  BY <1>6 DEF AppendFull, AppendRoom, AppendPost, CreateFails, Constructed, Abstract!rqVars
<1>7. CASE Exited \/ UNCHANGED vars
  BY <1>7 DEF Exited, vars, Abstract!rqVars
<1>. QED
  BY <1>1, <1>2, <1>3, <1>4, <1>5, <1>6, <1>7 DEF Next, Append_, Run, Abstract!Next

(* The pool is a FIFO that hands every accepted request to exactly one     *)
(* worker, in the order of the calls of append (threadpool.h, 69-113).     *)
THEOREM Implements == Spec => ImplementsRequestQueue
<1>1. Spec => Abstract!Init
  BY AbstractInit DEF Spec
<1>. QED
  BY <1>1, TypedInit, TypedStep, LockedInit, LockedStep, BoundInit, BoundStep,
     AbstractStep, PTL DEF Spec, ImplementsRequestQueue, Abstract!Spec

=============================================================================
