----------------------------- MODULE ThreadPool -----------------------------
(***************************************************************************)
(* loginserver/threadpool.h with the sem and locker classes of locker.h:   *)
(* one producer (the epoll loop of main(), the only caller of append) and  *)
(* a set of worker threads share m_workqueue under m_queuelocker, and      *)
(* count its elements in the semaphore m_queuestat.  Every lock, unlock,   *)
(* post and wait is a step of its own, so that the threads interleave      *)
(* between them as they do in the program.                                 *)
(***************************************************************************)
EXTENDS Naturals, Sequences, FiniteSets

CONSTANTS
  Workers,        \* the threads the constructor creates
  Requests,       \* the pointers main() may append, never NULL
  NoRequest,      \* value of a worker's local variable request before use
  Main,           \* the producer, as a holder of the lock
  NoThread,       \* the lock is free
  MaxRequests,    \* m_max_requests
  MaxInterrupts   \* bound: how often sem_wait returns without a token

ASSUME PoolAssumption ==
  /\ IsFiniteSet(Workers)
  /\ Main \notin Workers
  /\ NoThread \notin Workers \cup {Main}
  /\ NoRequest \notin Requests
  /\ MaxRequests \in Nat \ {0}
  /\ MaxInterrupts \in Nat

VARIABLES
  queue,        \* m_workqueue
  lock,         \* m_queuelocker: the thread that holds it, or NoThread
  sem,          \* m_queuestat: the value of the semaphore
  mpc,          \* where main() is in the constructor or in append
  arg,          \* the argument of append
  wpc,          \* where each worker is in run()
  request,      \* each worker's local variable request
  interrupts    \* how often sem_wait has returned without a token

vars == <<queue, lock, sem, mpc, arg, wpc, request, interrupts>>

MainPCs == {"ctor", "idle", "size", "push", "post", "exited"}
WorkerPCs == {"unborn", "wait", "lock", "front", "pop", "process"}

TypeOK ==
  /\ queue \in Seq(Requests)
  /\ lock \in Workers \cup {Main, NoThread}
  /\ sem \in Nat
  /\ mpc \in MainPCs
  /\ arg \in Requests \cup {NoRequest}
  /\ wpc \in [Workers -> WorkerPCs]
  /\ request \in [Workers -> Requests \cup {NoRequest}]
  /\ interrupts \in 0 .. MaxInterrupts

Init ==
  /\ queue = <<>>
  /\ lock = NoThread
  /\ sem = 0
  /\ mpc = "ctor"
  /\ arg = NoRequest
  /\ wpc = [w \in Workers |-> "unborn"]
  /\ request = [w \in Workers |-> NoRequest]
  /\ interrupts = 0

MainGoes(from, to) == mpc = from /\ mpc' = to

(* A worker runs as long as the process does: m_stop is only set by the    *)
(* destructor, after which main() returns and the process is gone.         *)
WorkerGoes(w, from, to) ==
  /\ mpc # "exited"
  /\ wpc[w] = from
  /\ wpc' = [wpc EXCEPT ![w] = to]

-----------------------------------------------------------------------------
(* The constructor.  A worker starts running as soon as it is created, so  *)
(* the first ones wait on the semaphore while the last are being created.  *)
(* The handles are written to an array of one, and after a failure of      *)
(* pthread_detach to one that is freed: nothing is seen of that here.      *)

CreateThread(w) ==
  /\ mpc = "ctor"
  /\ WorkerGoes(w, "unborn", "wait")
  /\ UNCHANGED <<queue, lock, sem, mpc, arg, request, interrupts>>

(* pthread_create fails: the constructor throws and main() returns 1; or   *)
(* the process ends for what was written beyond the array of handles.      *)
CreateFails ==
  /\ MainGoes("ctor", "exited")
  /\ UNCHANGED <<queue, lock, sem, arg, wpc, request, interrupts>>

Constructed ==
  /\ MainGoes("ctor", "idle")
  /\ \A w \in Workers : wpc[w] # "unborn"
  /\ UNCHANGED <<queue, lock, sem, arg, wpc, request, interrupts>>

-----------------------------------------------------------------------------
(* append(request), called by main().                                      *)

AppendLock(r) ==
  /\ MainGoes("idle", "size")
  /\ lock = NoThread
  /\ lock' = Main
  /\ arg' = r
  /\ UNCHANGED <<queue, sem, wpc, request, interrupts>>

(* size() > m_max_requests: unlock and return false; nobody is told.       *)
AppendFull ==
  /\ MainGoes("size", "idle")
  /\ Len(queue) > MaxRequests
  /\ lock' = NoThread
  /\ UNCHANGED <<queue, sem, arg, wpc, request, interrupts>>

(* Mutant: no test of the size. *)
AppendRoomUntested ==
  /\ MainGoes("size", "push")
  /\ UNCHANGED <<queue, lock, sem, arg, wpc, request, interrupts>>

AppendRoom ==
  /\ MainGoes("size", "push")
  /\ Len(queue) <= MaxRequests
  /\ UNCHANGED <<queue, lock, sem, arg, wpc, request, interrupts>>

(* Mutant: post only when the list was empty. *)
AppendPushPostsOnce ==
  /\ MainGoes("push", IF queue = <<>> THEN "post" ELSE "idle")
  /\ queue' = Append(queue, arg)
  /\ lock' = NoThread
  /\ UNCHANGED <<sem, arg, wpc, request, interrupts>>

AppendPush ==
  /\ MainGoes("push", "post")
  /\ queue' = Append(queue, arg)
  /\ lock' = NoThread
  /\ UNCHANGED <<sem, arg, wpc, request, interrupts>>

AppendPost ==
  /\ MainGoes("post", "idle")
  /\ sem' = sem + 1
  /\ UNCHANGED <<queue, lock, arg, wpc, request, interrupts>>

-----------------------------------------------------------------------------
(* run(), executed by every worker.                                        *)

(* Mutant: sem_trywait, its result ignored, on a counter without a floor. *)
SemTryWait(w) ==
  /\ WorkerGoes(w, "wait", "lock")
  /\ sem' = sem - 1
  /\ UNCHANGED <<queue, lock, mpc, arg, request, interrupts>>

SemWait(w) ==
  /\ WorkerGoes(w, "wait", "lock")
  /\ sem > 0
  /\ sem' = sem - 1
  /\ UNCHANGED <<queue, lock, mpc, arg, request, interrupts>>

(* sem_wait may return -1 with EINTR; run() ignores the result of wait()   *)
(* and goes on as if it had a token.                                       *)
SemWaitInterrupted(w) ==
  /\ WorkerGoes(w, "wait", "lock")
  /\ interrupts < MaxInterrupts
  /\ interrupts' = interrupts + 1
  /\ UNCHANGED <<queue, lock, sem, mpc, arg, request>>

TakeLock(w) ==
  /\ WorkerGoes(w, "lock", "front")
  /\ lock = NoThread
  /\ lock' = w
  /\ UNCHANGED <<queue, sem, mpc, arg, request, interrupts>>

(* empty(): unlock and continue.                                           *)
FoundEmpty(w) ==
  /\ WorkerGoes(w, "front", "wait")
  /\ queue = <<>>
  /\ lock' = NoThread
  /\ UNCHANGED <<queue, sem, mpc, arg, request, interrupts>>

(* Mutant: unlock before pop_front. *)
ReadFrontUnlocks(w) ==
  /\ WorkerGoes(w, "front", "pop")
  /\ queue # <<>>
  /\ request' = [request EXCEPT ![w] = Head(queue)]
  /\ lock' = NoThread
  /\ UNCHANGED <<queue, sem, mpc, arg, interrupts>>

(* Mutant: back() instead of front(). *)
ReadBack(w) ==
  /\ WorkerGoes(w, "front", "pop")
  /\ queue # <<>>
  /\ request' = [request EXCEPT ![w] = queue[Len(queue)]]
  /\ UNCHANGED <<queue, lock, sem, mpc, arg, interrupts>>

ReadFront(w) ==
  /\ WorkerGoes(w, "front", "pop")
  /\ queue # <<>>
  /\ request' = [request EXCEPT ![w] = Head(queue)]
  /\ UNCHANGED <<queue, lock, sem, mpc, arg, interrupts>>

PopFront(w) ==
  /\ WorkerGoes(w, "pop", "process")
  /\ queue' = Tail(queue)
  /\ lock' = NoThread
  /\ UNCHANGED <<sem, mpc, arg, request, interrupts>>

(* request->process() returns; the loop starts over.                       *)
Process(w) ==
  /\ WorkerGoes(w, "process", "wait")
  /\ request' = [request EXCEPT ![w] = NoRequest]
  /\ UNCHANGED <<queue, lock, sem, mpc, arg, interrupts>>

-----------------------------------------------------------------------------
(* The process has ended.                                                  *)
Exited ==
  /\ mpc = "exited"
  /\ UNCHANGED vars

Append_ ==
  \/ \E r \in Requests : AppendLock(r)
  \/ AppendFull
  \/ AppendRoom
  \/ AppendPush
  \/ AppendPost

Run(w) ==
  \/ SemWait(w)
  \/ SemWaitInterrupted(w)
  \/ TakeLock(w)
  \/ FoundEmpty(w)
  \/ ReadFront(w)
  \/ PopFront(w)
  \/ Process(w)

Next ==
  \/ \E w \in Workers : CreateThread(w)
  \/ CreateFails
  \/ Constructed
  \/ Append_
  \/ \E w \in Workers : Run(w)
  \/ Exited

Spec == Init /\ [][Next]_vars

(***************************************************************************)
(* Fairness.  The kernel schedules every runnable thread (WF), the mutex   *)
(* does not pass a waiting thread over forever (SF on taking it), and      *)
(* process() returns.  Nothing obliges main() to append.                   *)
(***************************************************************************)
Fairness ==
  /\ WF_vars(AppendFull \/ AppendRoom \/ AppendPush \/ AppendPost)
  /\ \A w \in Workers :
       /\ WF_vars(SemWait(w))
       /\ SF_vars(TakeLock(w))
       /\ WF_vars(FoundEmpty(w) \/ ReadFront(w) \/ PopFront(w))
       /\ WF_vars(Process(w))

FairSpec == Spec /\ Fairness

-----------------------------------------------------------------------------
(* Workers that have passed sem_wait and not yet taken an element.         *)
Coming == {w \in Workers : wpc[w] \in {"lock", "front", "pop"}}

(* Elements somebody is bound to come for: tokens in the semaphore, plus   *)
(* workers on their way, plus the token append is about to post.           *)
Wakeups == sem + Cardinality(Coming) + (IF mpc = "post" THEN 1 ELSE 0)

(***************************************************************************)
(* No lost wake-up, and no wake-up out of thin air: there is always at     *)
(* least one wake-up for every queued request, although append posts after *)
(* it has released the lock, and the surplus never exceeds the number of   *)
(* interrupted waits (threadpool.h, lines 71-80 and 96-105).               *)
(***************************************************************************)
TokenBalance ==
  /\ Len(queue) <= Wakeups
  /\ Wakeups <= Len(queue) + interrupts

(***************************************************************************)
(* The list operations of the pool exclude each other, and the element a   *)
(* worker read with front() is still the front when it calls pop_front()   *)
(* (threadpool.h, lines 97-105).                                           *)
(***************************************************************************)
InCritical(t) ==
  IF t = Main THEN mpc \in {"size", "push"} ELSE wpc[t] \in {"front", "pop"}

QueueLocked ==
  /\ \A t \in Workers \cup {Main} : InCritical(t) => lock = t
  /\ \A w \in Workers :
       wpc[w] = "pop" => queue # <<>> /\ request[w] = Head(queue)

(***************************************************************************)
(* The queue never holds more than one request above m_max_requests: the   *)
(* test in append is >, so the limit is MaxRequests + 1, and it still      *)
(* holds when the queue is filled between the test and push_back           *)
(* (threadpool.h, line 72).                                                *)
(***************************************************************************)
QueueBound ==
  Len(queue) <= MaxRequests + (IF mpc = "push" THEN 0 ELSE 1)

(***************************************************************************)
(* The pool implements RequestQueue: whatever the threads' interleaving,   *)
(* each submitted request is handed to exactly one worker, in the order of *)
(* submission, and none is dropped after it has been accepted.             *)
(***************************************************************************)
Processing == [w \in Workers |-> IF wpc[w] = "process" THEN request[w] ELSE NoRequest]

Abstract == INSTANCE RequestQueue WITH busy <- Processing

ImplementsRequestQueue == Abstract!Spec

(***************************************************************************)
(* Every accepted request is eventually processed, even if the producer    *)
(* never calls append again (threadpool.h, lines 77-79 and 96-110).        *)
(***************************************************************************)
Queued(r) == \E i \in 1 .. Len(queue) : queue[i] = r

EventuallyProcessed ==
  \A r \in Requests :
    Queued(r) ~> \/ \E w \in Workers : wpc[w] = "process" /\ request[w] = r
                 \/ mpc = "exited"

=============================================================================
