---------------------------- MODULE RequestQueue ----------------------------
(***************************************************************************)
(* What the thread pool of the login server promises its users, with the   *)
(* mutex, the semaphore and the program counters of its threads hidden: a  *)
(* FIFO of request pointers with an admission limit, from which each       *)
(* submitted request is handed to exactly one worker, in submission order. *)
(* ThreadPool implements this specification; LoginServer is built on it.   *)
(***************************************************************************)
EXTENDS Naturals, Sequences

CONSTANTS
  Workers,      \* the pool's threads
  Requests,     \* the request pointers that may be submitted
  NoRequest,    \* "this worker holds no request"
  MaxRequests   \* threadpool::m_max_requests

VARIABLES
  queue,        \* m_workqueue
  busy          \* busy[w]: the request worker w is processing, or NoRequest

rqVars == <<queue, busy>>

Init ==
  /\ queue = <<>>
  /\ busy = [w \in Workers |-> NoRequest]

(* The admission test is size() > m_max_requests: it still lets a request  *)
(* in when exactly MaxRequests are waiting.                                *)
HasRoom == Len(queue) <= MaxRequests

Submit(r) ==
  /\ HasRoom
  /\ queue' = Append(queue, r)
  /\ UNCHANGED busy

Take(w) ==
  /\ busy[w] = NoRequest
  /\ queue # <<>>
  /\ busy' = [busy EXCEPT ![w] = Head(queue)]
  /\ queue' = Tail(queue)

Finish(w) ==
  /\ busy[w] # NoRequest
  /\ busy' = [busy EXCEPT ![w] = NoRequest]
  /\ UNCHANGED queue

Next ==
  \/ \E r \in Requests : Submit(r)
  \/ \E w \in Workers : Take(w) \/ Finish(w)

Spec == Init /\ [][Next]_rqVars

=============================================================================
